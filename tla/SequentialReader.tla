--------------------------- MODULE SequentialReader ---------------------------
(***************************************************************************)
(* internal/chunkedreader/sequential.go: an object read through one        *)
(* response body at a time, in chunks that double.  Every call runs under  *)
(* sequential.mu and there is no goroutine, so the calls never overlap;    *)
(* what is hard is the arithmetic of chunks over seeks, failed requests    *)
(* and the end of the object.                                              *)
(*                                                                         *)
(* A body is the interval of the object it still has to send; closing one  *)
(* does not fail.                                                          *)
(***************************************************************************)
EXTENDS Integers

CONSTANTS
    Size,           \* bytes of the object
    Lens,           \* len(p) of the reads
    Targets,        \* offsets sought, relative to whence
    Whences,        \* "start", "current", "end"
    Lengths,        \* lengths given to RangeSeek; -1 is what Seek passes
    Faults,         \* "open", "reset", "drop", "short"
    ReadsAfterError \* whether the caller reads on after an error

VARIABLES
    cr,             \* struct sequential
    left,           \* bytes of p the Read under way has to fill
    pc,             \* "idle", "loop" or "fill"
    bodies,         \* response bodies open
    told            \* the last thing a call told its caller

vars == <<cr, left, pc, bodies, told>>

NoBody == [at |-> 0, end |-> -1]
HasBody == cr.rc # NoBody
SizeOf == IF cr.known THEN Size ELSE -1     \* o.Size()

Position == IF cr.closed THEN 0 ELSE IF cr.offset = -1 THEN cr.chunkOffset ELSE cr.offset

Stream == INSTANCE ByteStream WITH pos <- Position, closed <- cr.closed

\* newSequential, with the sizes New made consistent
New(known, initial, max) ==
    [offset |-> -1, chunkOffset |-> 0, chunkSize |-> initial,
     initialChunkSize |-> initial, maxChunkSize |-> max,
     customChunkSize |-> FALSE, closed |-> FALSE, rc |-> NoBody, known |-> known]

MinOf(a, b) == IF a < b THEN a ELSE b
Tell(x) == told' = x

-----------------------------------------------------------------------------
(* openRange, with resetReader: c is the reader, its chunk already chosen. *)

\* A range that starts past the end is refused (416).
Upstream(c) ==
    [at |-> c.chunkOffset,
     end |-> IF c.chunkSize <= 0 THEN Size ELSE MinOf(Size, c.chunkOffset + c.chunkSize)]

OpenRange(c) ==
    /\ c.chunkOffset < Size \/ (c.chunkOffset = 0 /\ c.chunkSize <= 0)
    /\ cr' = [c EXCEPT !.rc = Upstream(c), !.offset = c.chunkOffset]
    /\ bodies' = IF HasBody THEN bodies ELSE bodies + 1

\* The request fails: the old body stays, and so does offset.
OpenRangeFails(c) ==
    /\ c.chunkOffset >= Size \/ "open" \in Faults
    /\ cr' = c /\ UNCHANGED bodies

-----------------------------------------------------------------------------
Read(n) ==
    /\ pc = "idle" /\ (told # Stream!Error \/ ReadsAfterError)
    /\ IF cr.closed THEN Tell(Stream!FileClosed) /\ UNCHANGED <<pc, left>>
       ELSE Tell(Stream!Nothing) /\ pc' = "loop" /\ left' = n
    /\ UNCHANGED <<cr, bodies>>

AtBoundary == cr.chunkSize > 0 /\ cr.offset = cr.chunkOffset + cr.chunkSize

\* The chunk after the one that was read completely
NextChunk ==
    LET doubled == 2 * cr.chunkSize
        capped == IF cr.maxChunkSize = -1 THEN doubled ELSE MinOf(doubled, cr.maxChunkSize)
    IN [cr EXCEPT !.chunkOffset = cr.offset, !.customChunkSize = FALSE,
                  !.chunkSize = IF cr.customChunkSize THEN cr.initialChunkSize ELSE capped]

\* The top of Read's loop
Loop ==
    LET c == IF AtBoundary THEN NextChunk ELSE cr IN
    /\ pc = "loop"
    /\ \/ left = 0 /\ pc' = "idle" /\ UNCHANGED <<cr, left, bodies, told>>
       \/ /\ left > 0 /\ ~AtBoundary /\ cr.offset # -1
          /\ pc' = "fill" /\ UNCHANGED <<cr, left, bodies, told>>
       \/ /\ left > 0 /\ (AtBoundary \/ cr.offset = -1)
          /\ OpenRange(c) /\ pc' = "fill" /\ UNCHANGED <<left, told>>
       \/ /\ left > 0 /\ (AtBoundary \/ cr.offset = -1)
          /\ OpenRangeFails(c) /\ Tell(Stream!Error) /\ pc' = "idle" /\ left' = 0

\* Up to the chunk's end, when there are chunks
Want ==
    IF cr.chunkSize > 0 THEN MinOf(left, cr.chunkOffset + cr.chunkSize - cr.offset) ELSE left

\* io.ReadFull takes what the body has, and ends when it has all it wants.
Fill ==
    LET n == MinOf(Want, cr.rc.end - cr.rc.at) IN
    /\ pc = "fill" /\ (n > 0 \/ Want = 0)
    /\ told' = IF n = 0 THEN told ELSE Stream!Bytes(cr.rc.at, cr.rc.at + n)
    /\ cr' = [cr EXCEPT !.rc.at = @ + n, !.offset = @ + n]
    /\ left' = left - n /\ pc' = IF n = Want THEN "loop" ELSE "fill"
    /\ UNCHANGED bodies

\* The body ends, or is cut and net/http says io.ErrUnexpectedEOF: both are
\* io.EOF to the caller.
FillEnds ==
    /\ pc = "fill" /\ Want > 0
    /\ cr.rc.at = cr.rc.end \/ Faults \cap {"drop", "short"} # {}
    /\ Tell(Stream!Eof) /\ pc' = "idle" /\ left' = 0
    /\ UNCHANGED <<cr, bodies>>

FillFails ==
    /\ pc = "fill" /\ Want > 0 /\ "reset" \in Faults
    /\ Tell(Stream!Error) /\ pc' = "idle" /\ left' = 0
    /\ UNCHANGED <<cr, bodies>>

-----------------------------------------------------------------------------
\* Variant: the body that is open is read on.
SoughtKeepsBody(to, length) ==
    [cr EXCEPT !.chunkOffset = IF to \in 0..SizeOf - 1 THEN to ELSE 0,
               !.customChunkSize = @ \/ length > 0,
               !.chunkSize = IF length > 0 THEN length ELSE cr.initialChunkSize]

\* The chunk starts at to, and the next Read opens it.
Sought(to, length) ==
    [cr EXCEPT !.offset = -1, !.chunkOffset = IF to \in 0..SizeOf - 1 THEN to ELSE 0,
               !.customChunkSize = @ \/ length > 0,
               !.chunkSize = IF length > 0 THEN length ELSE cr.initialChunkSize]

RangeSeek(target, whence, length) ==
    LET base == CASE whence = "start" -> 0
                  [] whence = "end" -> SizeOf
                  [] whence = "current" -> cr.offset
    IN
    /\ pc = "idle"
    /\ IF cr.closed THEN Tell(Stream!FileClosed) /\ UNCHANGED cr
       ELSE IF whence = "end" /\ SizeOf < 0 THEN Tell(Stream!Error) /\ UNCHANGED cr
       ELSE /\ cr' = Sought(base + target, length)
            /\ Tell(IF base + target \in 0..SizeOf - 1 THEN Stream!Nothing ELSE Stream!Error)
    /\ UNCHANGED <<left, pc, bodies>>

Open ==
    /\ pc = "idle" /\ (told # Stream!Error \/ ReadsAfterError)
    /\ \/ HasBody /\ cr.offset # -1 /\ Tell(Stream!Nothing) /\ UNCHANGED <<cr, bodies>>
       \/ /\ ~(HasBody /\ cr.offset # -1) /\ cr.closed
          /\ Tell(Stream!FileClosed) /\ UNCHANGED <<cr, bodies>>
       \/ /\ ~(HasBody /\ cr.offset # -1) /\ ~cr.closed
          /\ \/ OpenRange(cr) /\ Tell(Stream!Nothing)
             \/ OpenRangeFails(cr) /\ Tell(Stream!Error)
    /\ UNCHANGED <<left, pc>>

Close ==
    /\ pc = "idle"
    /\ IF cr.closed THEN Tell(Stream!FileClosed) /\ UNCHANGED <<cr, bodies>>
       ELSE /\ cr' = [cr EXCEPT !.closed = TRUE, !.rc = NoBody, !.offset = 0]
            /\ bodies' = IF HasBody THEN bodies - 1 ELSE bodies
            /\ UNCHANGED told
    /\ UNCHANGED <<left, pc>>

-----------------------------------------------------------------------------
Step == Loop \/ Fill \/ FillEnds \/ FillFails

Next ==
    \/ Step \/ Open \/ Close
    \/ \E n \in Lens : Read(n)
    \/ \E t \in Targets, w \in Whences, n \in Lengths : RangeSeek(t, w, n)

-----------------------------------------------------------------------------
(* Properties *)

\* The fields have their types; a chunk set by the doubling keeps to the limit.
TypeOK ==
    /\ cr.offset \in -1..Size /\ cr.chunkOffset \in 0..Size
    /\ cr.chunkSize \in Int /\ cr.customChunkSize \in BOOLEAN /\ cr.closed \in BOOLEAN
    /\ cr.rc.at \in 0..Size /\ cr.rc.end \in -1..Size
    /\ left \in Nat /\ pc \in {"idle", "loop", "fill"} /\ bodies \in Nat
    /\ cr.maxChunkSize = -1 \/ cr.customChunkSize \/ cr.chunkSize <= cr.maxChunkSize

\* While no call has failed, the open body is the rest of the current chunk: its
\* next byte is the one at offset and it ends where the chunk does.
BodyIsRestOfChunk ==
    HasBody /\ cr.offset # -1 /\ told # Stream!Error =>
        cr.rc = [Upstream(cr) EXCEPT !.at = cr.offset]

\* One body at most is open, the one in rc, and none after Close.
OneBody == bodies = IF HasBody THEN 1 ELSE 0

\* A call comes to an end: every turn of Read's loop fills something.
ReadTerminates == (pc # "idle") ~> (pc = "idle")
===============================================================================
