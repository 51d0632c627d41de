------------------------------ MODULE ByteStream ------------------------------
(***************************************************************************)
(* What internal/chunkedreader promises to whoever reads a remote object   *)
(* through a ChunkedReader: io.Reader, io.Seeker and io.Closer over one    *)
(* stream of Size bytes.  It says nothing of chunks, requests or buffers.  *)
(* A byte is named by its place in the object, so that bytes handed out    *)
(* twice, skipped or in the wrong order are told apart.                    *)
(***************************************************************************)
EXTENDS Integers

CONSTANT Size           \* bytes of the object

VARIABLES
    pos,                \* the place of the next byte the caller gets
    closed,
    told                \* the last thing the caller was told

Nothing == [says |-> "nothing", from |-> 0, to |-> 0]
Bytes(from, to) == [says |-> "bytes", from |-> from, to |-> to]
Eof == [says |-> "eof", from |-> 0, to |-> 0]
Error == [says |-> "error", from |-> 0, to |-> 0]
FileClosed == [says |-> "closed", from |-> 0, to |-> 0]

Init == pos = 0 /\ closed = FALSE /\ told = Nothing

\* A new call starts: nothing has been said of it yet.
Call == told' = Nothing /\ UNCHANGED <<pos, closed>>

\* n bytes, those that follow the ones handed out before
Give(n) ==
    /\ ~closed /\ pos + n <= Size
    /\ told' = Bytes(pos, pos + n) /\ pos' = pos + n
    /\ UNCHANGED closed

\* io.EOF, at the end and nowhere else
End == ~closed /\ pos = Size /\ told' = Eof /\ UNCHANGED <<pos, closed>>

\* A seek into the object.
Move(to) ==
    /\ ~closed /\ to \in 0..Size - 1
    /\ pos' = to /\ told' = Nothing /\ UNCHANGED closed

\* A call fails; a seek out of the object may leave the reader at its start.
Fail == ~closed /\ told' = Error /\ pos' \in {pos, 0} /\ UNCHANGED closed

\* A closed reader has no place any more.
Close == ~closed /\ closed' = TRUE /\ pos' = 0 /\ UNCHANGED told

\* Once closed, ErrorFileClosed is all there is (parallel.go:258).
Refuse == closed /\ told' = FileClosed /\ UNCHANGED <<pos, closed>>

Next ==
    \/ Call \/ End \/ Fail \/ Close \/ Refuse
    \/ \E n \in 1..Size : Give(n)
    \/ \E to \in 0..Size - 1 : Move(to)

Spec == Init /\ [][Next]_<<pos, closed, told>>
===============================================================================
