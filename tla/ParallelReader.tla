---------------------------- MODULE ParallelReader ----------------------------
(***************************************************************************)
(* internal/chunkedreader/parallel.go over lib/rwbuffer/rwbuffer.go: an    *)
(* object read in chunks that several streams fetch ahead.                 *)
(*                                                                         *)
(* Threads: one goroutine per stream (readFrom) that fills the stream's    *)
(* buffer, the reader (Read and Seek), and a closer (downloader._stop      *)
(* closes the reader of a download that may be in the middle of a Read).   *)
(* parallel.mu is held by whoever is inside a call; a step under RW.mu is  *)
(* atomic.  A buffer is the number of bytes appended to it; bytes are told *)
(* apart by their place in the object.                                     *)
(***************************************************************************)
EXTENDS Integers, Sequences, SequencesExt, FiniteSets

CONSTANTS
    Size,           \* o.Size(), known: New makes a sequential reader otherwise
    BufferSize,     \* rwbuffer.BufferSize
    InitialChunk,   \* the chunk size asked for, -1 for none
    Streams,        \* nstreams
    Lens,           \* len(p) of the reads
    Targets,        \* offsets sought
    Faults,         \* what the upstream may do: "open", "drop", "short", "whole"
    CanCancel,      \* whether the context given to New is ever cancelled
    OpenAfterClose  \* whether Open is called on a closed reader

\* newParallel: a multiple of BufferSize
ChunkSize ==
    IF InitialChunk < 0 THEN BufferSize
    ELSE BufferSize * ((InitialChunk + BufferSize - 1) \div BufferSize)

ASSUME ParallelAssumption ==
    /\ Size \in Nat /\ BufferSize \in Nat \ {0} /\ InitialChunk \in Int \ {0}
    /\ ChunkSize \in Nat \ {0} /\ Streams \in Nat \ {0}
    /\ Lens \subseteq Nat /\ Targets \subseteq Int
    /\ CanCancel \in BOOLEAN /\ OpenAfterClose \in BOOLEAN

VARIABLES
    offset, endStream, streams, closed,     \* as in struct parallel
    rd,             \* the reader: where it is, bytes of p to fill, bytes in p
                    \* that cr.offset does not count yet
    cl,             \* the closer: "idle", "waiting" or "closing"
    ctxDone,        \* the context of the reader is cancelled
    bodies,         \* response bodies open
    told            \* the last thing a call told its caller

vars == <<offset, endStream, streams, closed, rd, cl, ctxDone, bodies, told>>

\* The place of the next byte a caller gets
Place == IF closed THEN 0 ELSE offset + rd.nn

Stream == INSTANCE ByteStream WITH pos <- Place

Idle == [pc |-> "idle", left |-> 0, nn |-> 0]

Init ==
    /\ offset = 0 /\ endStream = 0 /\ streams = <<>> /\ closed = FALSE
    /\ rd = Idle /\ cl = "idle" /\ ctxDone = FALSE /\ bodies = 0
    /\ told = Stream!Nothing

\* newStream: its goroutine has not opened the object yet.
NewStream(from, n) ==
    [offset |-> from, size |-> n, readBytes |-> 0,
     have |-> 0, rOffset |-> 0,             \* len(rw.buf), rw.rOffset
     whole |-> FALSE,                       \* the body is the object, not the range
     writer |-> "open", rc |-> FALSE, err |-> "none", cancelled |-> ctxDone]

MinOf(a, b) == IF a < b THEN a ELSE b
Done(s) == s.offset + s.size
Current == Head(streams)
Held == rd.pc # "idle" \/ cl = "closing"    \* parallel.mu
(* lib/rwbuffer *)

\* RW.Read into p: what there is, up to n bytes
Taken(s, n) == MinOf(s.have - s.rOffset, n)

\* RW.WaitWrite returns when this is false; a context that is done wakes it for nothing.
NothingToRead(s) == s.rOffset >= s.have

\* RW.Seek clips to what was written.
SoughtTo(s, to) == [s EXCEPT !.rOffset = MinOf(to, s.have)]

-----------------------------------------------------------------------------
(* The goroutine of stream i. *)

Body(s) == IF s.whole THEN Size ELSE s.size     \* bytes the upstream will send

WriterOnly(i, s) ==
    /\ streams' = [streams EXCEPT ![i] = s]
    /\ UNCHANGED <<offset, endStream, closed, rd, cl, ctxDone, told>>

\* An upstream that ignores the range answers 200, which remote.go takes too.
WriterOpens(i) ==
    LET s == streams[i] IN
    /\ s.writer = "open"
    /\ \E whole \in {FALSE} \cup {"whole" \in Faults} :
        WriterOnly(i, [s EXCEPT !.writer = "copy", !.rc = TRUE, !.whole = whole])
    /\ bodies' = bodies + 1

\* The error waits in s.err; the buffer is not closed and nobody is woken.
WriterCannotOpen(i) ==
    LET s == streams[i] IN
    /\ s.writer = "open" /\ (s.cancelled \/ "open" \in Faults)
    /\ WriterOnly(i, [s EXCEPT !.writer = "end", !.err = "error"])
    /\ UNCHANGED bodies

WriterAppends(i) ==
    LET s == streams[i] IN
    /\ s.writer = "copy"
    /\ \E n \in 1..Body(s) - s.have : WriterOnly(i, [s EXCEPT !.have = @ + n])
    /\ UNCHANGED bodies

\* io.EOF ends ReadFrom without an error, early or not.
WriterEnds(i) ==
    LET s == streams[i] IN
    /\ s.writer = "copy" /\ (s.have = Body(s) \/ "short" \in Faults)
    /\ WriterOnly(i, [s EXCEPT !.writer = "end", !.err = "nil"])
    /\ UNCHANGED bodies

WriterFails(i) ==
    LET s == streams[i] IN
    /\ s.writer = "copy" /\ (s.cancelled \/ "drop" \in Faults)
    /\ WriterOnly(i, [s EXCEPT !.writer = "end", !.err = "error"])
    /\ UNCHANGED bodies

Writer(i) ==
    /\ i \in DOMAIN streams
    /\ \/ WriterOpens(i) \/ WriterCannotOpen(i) \/ WriterAppends(i)
       \/ WriterEnds(i) \/ WriterFails(i)

-----------------------------------------------------------------------------
(* stream.close in two halves: cancel, then wait for the goroutine. *)

Cancelled(ss) == [ss EXCEPT ![1].cancelled = TRUE]

\* Variant: the response body of a stream is left open.
PoppedLeavesBody == Current.err # "none" /\ UNCHANGED bodies

Popped ==
    /\ Current.err # "none"
    /\ bodies' = bodies - (IF Current.rc THEN 1 ELSE 0)

\* _popStreams: one after the other; more is FALSE after the last.
PopAll(more) ==
    /\ Popped
    /\ more = (Len(streams) > 1)
    /\ streams' = IF more THEN Cancelled(Tail(streams)) ELSE <<>>

-----------------------------------------------------------------------------
(* Read *)

Read(n) ==
    /\ ~Held
    /\ IF closed THEN rd' = rd /\ told' = Stream!FileClosed
       ELSE rd' = [pc |-> "open", left |-> n, nn |-> 0] /\ told' = Stream!Nothing
    /\ UNCHANGED <<offset, endStream, streams, closed, cl, ctxDone, bodies>>

\* The streams _open starts: as many as are missing, or as the object still needs.
Missing ==
    LET chunks == (Size - endStream + ChunkSize - 1) \div ChunkSize IN
    MinOf(Streams - Len(streams), chunks)

Opened ==
    [i \in 1..Missing |->
        LET from == endStream + (i - 1) * ChunkSize IN
        NewStream(from, MinOf(ChunkSize, Size - from))]

\* _open
StartStreams ==
    /\ streams' = streams \o Opened
    /\ endStream' = IF Opened = <<>> THEN endStream ELSE Done(Last(Opened))

\* Open looks at nothing before it, closed included.
Open ==
    /\ ~Held /\ (~closed \/ OpenAfterClose)
    /\ StartStreams
    /\ UNCHANGED <<offset, closed, rd, cl, ctxDone, bodies, told>>

\* The top of Read's loop
OpenStreams ==
    /\ rd.pc = "open"
    /\ IF rd.left = 0
       THEN rd' = Idle /\ UNCHANGED <<streams, endStream, told>>
       ELSE /\ StartStreams
            /\ IF streams' = <<>>
               THEN rd' = Idle /\ told' = Stream!Eof
               ELSE rd' = [rd EXCEPT !.pc = "stream"] /\ UNCHANGED told
    /\ UNCHANGED <<offset, closed, cl, ctxDone, bodies>>

\* Variant: the stream is expected to give one byte more than its size.
TakeBytesEofLate ==
    LET s == Current
        n == Taken(s, rd.left)
        back == n = rd.left
    IN
    /\ rd.pc = "stream" /\ ~NothingToRead(s)
    /\ told' = Stream!Bytes(s.offset + s.rOffset, s.offset + s.rOffset + n)
    /\ streams' = [streams EXCEPT ![1].readBytes = @ + n, ![1].rOffset = @ + n]
    /\ offset' = IF back THEN offset + rd.nn + n ELSE offset
    /\ rd' = [pc |-> IF back THEN "open" ELSE "stream",
              left |-> rd.left - n, nn |-> IF back THEN 0 ELSE rd.nn + n]
    /\ UNCHANGED <<endStream, closed, cl, ctxDone, bodies>>

\* stream.read: take what there is; with nothing there, WaitWrite.
TakeBytes ==
    LET s == Current
        n == Taken(s, rd.left)
        from == (IF s.whole THEN 0 ELSE s.offset) + s.rOffset
        eof == s.readBytes + n >= s.size
        back == eof \/ n = rd.left          \* stream.read returns
        taken == [streams EXCEPT ![1] = [s EXCEPT !.readBytes = @ + n, !.rOffset = @ + n]]
    IN
    /\ rd.pc = "stream" /\ ~NothingToRead(s)
    /\ told' = Stream!Bytes(from, from + n)
    /\ streams' = IF eof THEN Cancelled(taken) ELSE taken
    /\ offset' = IF back THEN offset + rd.nn + n ELSE offset
    /\ rd' = [pc |-> IF eof THEN "pop" ELSE IF back THEN "open" ELSE "stream",
              left |-> rd.left - n, nn |-> IF back THEN 0 ELSE rd.nn + n]
    /\ UNCHANGED <<endStream, closed, cl, ctxDone, bodies>>

\* _popStream; its error ends Read, which hands back the outer err: nil.
PopStream ==
    /\ rd.pc = "pop" /\ Popped
    /\ streams' = Tail(streams)
    /\ rd' = IF Current.err = "error" THEN Idle ELSE [rd EXCEPT !.pc = "open"]
    /\ UNCHANGED <<offset, endStream, closed, cl, ctxDone, told>>

-----------------------------------------------------------------------------
(* Seek; RangeSeek is the same. *)

Seek(to) ==
    /\ ~Held
    /\ IF closed THEN told' = Stream!FileClosed /\ UNCHANGED <<offset, rd>>
       ELSE IF to \notin 0..Size - 1 THEN told' = Stream!Error /\ UNCHANGED <<offset, rd>>
       ELSE /\ told' = Stream!Nothing /\ offset' = to
            /\ rd' = IF to = offset THEN rd ELSE [Idle EXCEPT !.pc = "seek"]
    /\ UNCHANGED <<endStream, streams, closed, cl, ctxDone, bodies>>

\* Variant: the new streams go on where the old ones ended.
SeekRestartsKeepsEnd ==
    /\ rd.pc = "seek" /\ streams = <<>> /\ rd' = Idle
    /\ UNCHANGED <<offset, endStream, streams, closed, cl, ctxDone, bodies, told>>

\* No stream left: start again from here.
SeekRestarts ==
    /\ rd.pc = "seek" /\ streams = <<>>
    /\ endStream' = offset /\ rd' = Idle
    /\ UNCHANGED <<offset, streams, closed, cl, ctxDone, bodies, told>>

\* A stream that ends before the target goes, and all of them when the first
\* begins after it.
SeekDitches ==
    /\ rd.pc = "seek" /\ streams # <<>>
    /\ offset \notin Current.offset..Done(Current) - 1
    /\ streams' = Cancelled(streams)
    /\ rd' = [rd EXCEPT !.pc = IF offset < Current.offset THEN "ditchAll" ELSE "ditch"]
    /\ UNCHANGED <<offset, endStream, closed, cl, ctxDone, bodies, told>>

Ditch ==
    /\ rd.pc = "ditch" /\ Popped
    /\ streams' = Tail(streams) /\ rd' = [rd EXCEPT !.pc = "seek"]
    /\ UNCHANGED <<offset, endStream, closed, cl, ctxDone, told>>

DitchAll ==
    /\ rd.pc = "ditchAll"
    /\ \E more \in BOOLEAN :
        /\ PopAll(more)
        /\ rd' = IF more THEN rd ELSE Idle
        /\ endStream' = IF more THEN endStream ELSE offset
    /\ UNCHANGED <<offset, closed, cl, ctxDone, told>>

SeekInside ==
    /\ rd.pc = "seek" /\ streams # <<>>
    /\ offset \in Current.offset..Done(Current) - 1
    /\ streams' = [streams EXCEPT ![1].readBytes = offset - Current.offset]
    /\ rd' = [rd EXCEPT !.pc = "seekWait"]
    /\ UNCHANGED <<offset, endStream, closed, cl, ctxDone, bodies, told>>

\* Variant: the buffer's own read position stays where it was.
SeekBufferStaysPut ==
    /\ rd.pc = "seekWait" /\ Current.have >= offset - Current.offset
    /\ rd' = Idle
    /\ UNCHANGED <<offset, endStream, streams, closed, cl, ctxDone, bodies, told>>

\* Once the buffer is long enough: WaitWrite until then, or spin while bytes
\* are unread.
SeekBuffer ==
    /\ rd.pc = "seekWait" /\ Current.have >= offset - Current.offset
    /\ streams' = [streams EXCEPT ![1] = SoughtTo(@, offset - Current.offset)]
    /\ rd' = Idle
    /\ UNCHANGED <<offset, endStream, closed, cl, ctxDone, bodies, told>>

-----------------------------------------------------------------------------
(* Close, and the context *)

CallClose ==
    /\ cl = "idle" /\ cl' = "waiting"
    /\ UNCHANGED <<offset, endStream, streams, closed, rd, ctxDone, bodies, told>>

CloseBegin ==
    /\ cl = "waiting" /\ ~Held
    /\ closed' = TRUE
    /\ told' = IF closed THEN Stream!FileClosed ELSE told
    /\ IF closed \/ streams = <<>> THEN cl' = "idle" /\ UNCHANGED streams
       ELSE cl' = "closing" /\ streams' = Cancelled(streams)
    /\ UNCHANGED <<offset, endStream, rd, ctxDone, bodies>>

CloseNext ==
    /\ cl = "closing"
    /\ \E more \in BOOLEAN : PopAll(more) /\ cl' = IF more THEN cl ELSE "idle"
    /\ UNCHANGED <<offset, endStream, closed, rd, ctxDone, told>>

\* Downloaders.Close cancels the context its readers were made with.
CancelContext ==
    /\ CanCancel /\ ~ctxDone /\ ctxDone' = TRUE
    /\ streams' = [i \in DOMAIN streams |-> [streams[i] EXCEPT !.cancelled = TRUE]]
    /\ UNCHANGED <<offset, endStream, closed, rd, cl, bodies, told>>

-----------------------------------------------------------------------------
ReaderStep ==
    \/ OpenStreams \/ TakeBytes \/ PopStream
    \/ SeekRestarts \/ SeekDitches \/ Ditch \/ DitchAll \/ SeekInside \/ SeekBuffer

Next ==
    \/ \E i \in 1..Streams : Writer(i)
    \/ \E n \in Lens : Read(n)
    \/ \E to \in Targets : Seek(to)
    \/ ReaderStep \/ Open
    \/ CallClose \/ CloseBegin \/ CloseNext \/ CancelContext

Spec == Init /\ [][Next]_vars

\* Goroutines run on; a request ends by the client's timeout (proxy.go, 30 s);
\* a Go mutex does not starve the closer.
Fairness ==
    /\ WF_vars(ReaderStep) /\ SF_vars(CloseBegin) /\ WF_vars(CloseNext)
    /\ \A i \in 1..Streams : WF_vars(Writer(i))

FairSpec == Spec /\ Fairness

-----------------------------------------------------------------------------
(* Properties *)

StreamType ==
    [offset : 0..Size, size : 0..ChunkSize, readBytes : 0..ChunkSize,
     have : 0..Size, rOffset : 0..Size, whole : BOOLEAN,
     writer : {"open", "copy", "end"}, rc : BOOLEAN,
     err : {"none", "nil", "error"}, cancelled : BOOLEAN]

\* The variables have their types, and there are never more streams than nstreams:
\* newStream preallocates a buffer for each.
TypeOK ==
    /\ offset \in 0..Size /\ endStream \in 0..Size
    /\ streams \in Seq(StreamType) /\ Len(streams) <= Streams
    /\ closed \in BOOLEAN /\ ctxDone \in BOOLEAN /\ bodies \in Nat
    /\ rd \in [pc : {"idle", "open", "stream", "pop", "seek", "ditch", "ditchAll", "seekWait"},
               left : Nat, nn : Nat]
    /\ cl \in {"idle", "waiting", "closing"}

\* The streams cover the object from the first one's offset to endStream, without
\* a gap or an overlap: what one stream ends with is followed by what the next begins with.
StreamsAreContiguous ==
    /\ \A i \in 1..Len(streams) - 1 : Done(streams[i]) = streams[i + 1].offset
    /\ streams # <<>> => Done(Last(streams)) = endStream

\* Between calls the next byte of the first stream's buffer is the byte at
\* cr.offset, and without a stream the next one starts there.
BufferIsAtOffset ==
    rd.pc = "idle" /\ ~closed =>
        offset = IF streams = <<>> THEN endStream ELSE Current.offset + Current.rOffset

\* Close leaves no response body open, whatever Read, Seek and the goroutines
\* were doing, and the bodies open before are those of the streams.
BodiesAreOwned ==
    /\ bodies = Cardinality({i \in DOMAIN streams : streams[i].rc})
    /\ closed /\ cl # "closing" => bodies = 0

\* The first stream's goroutine is gone and left fewer bytes than the stream should have.
Broken == streams # <<>> /\ Current.writer = "end" /\ Current.have < Current.size

\* A call returns, unless the stream it waits for broke.
CallsReturn ==
    /\ (rd.pc # "idle") ~> (rd.pc = "idle" \/ Broken)
    /\ (cl # "idle") ~> (cl = "idle" \/ Broken)

\* "WaitWrite blocks until new data is available to read or ctx is done."
\* (rwbuffer.go:83)  Does not hold: README.md, section 4.
Waiting == rd.pc = "stream" /\ NothingToRead(Current)
WaitEndsWithContext == (Waiting /\ ctxDone) ~> ~Waiting
===============================================================================
