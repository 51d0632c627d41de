---------------------------- MODULE ChunkedReaders ----------------------------
(***************************************************************************)
(* internal/chunkedreader/chunkedreader.go: New picks the parallel or the  *)
(* sequential reader, and the caller, who knows only the interface, gets   *)
(* the same stream of bytes from both.                                     *)
(***************************************************************************)
EXTENDS ParallelReader

CONSTANTS
    StreamCounts,   \* opt.ChunkStreams
    Chunks, Limits, \* initialChunkSize and maxChunkSize, for the sequential reader
    Whences, Lengths, SequentialFaults, ReadsAfterError

ASSUME ReadersAssumption ==
    /\ StreamCounts \subseteq Int /\ Chunks \subseteq Int /\ Limits \subseteq Int
    /\ Whences \subseteq {"start", "current", "end"} /\ Lengths \subseteq Int
    /\ ReadsAfterError \in BOOLEAN

VARIABLES
    kind,           \* which reader New made
    seq, left, pc, seqBodies    \* the sequential reader's state

newVars == <<vars, kind, seq, left, pc, seqBodies>>

Sequential == INSTANCE SequentialReader WITH
    cr <- seq, bodies <- seqBodies, Faults <- SequentialFaults

\* New makes the sizes consistent and chooses by streams and size.
Kind(known, n) == IF n <= 1 \/ ~known THEN "sequential" ELSE "parallel"
Consistent(initial, max) ==
    LET i == IF initial <= 0 THEN -1 ELSE initial IN
    <<i, IF max # -1 /\ max < i THEN i ELSE max>>

NewInit ==
    /\ Init
    /\ \E known \in BOOLEAN, n \in StreamCounts, initial \in Chunks, max \in Limits :
        LET sizes == Consistent(initial, max) IN
        /\ kind = Kind(known, n)
        /\ seq = IF kind = "sequential" THEN Sequential!New(known, sizes[1], sizes[2])
                 ELSE Sequential!New(known, -1, -1)
    /\ left = 0 /\ pc = "idle" /\ seqBodies = 0

ParallelOnly == kind = "parallel" /\ UNCHANGED <<kind, seq, left, pc, seqBodies>>
SequentialOnly ==
    /\ kind = "sequential"
    /\ UNCHANGED <<kind, offset, endStream, streams, closed, rd, cl, ctxDone, bodies>>

NewNext == (Next /\ ParallelOnly) \/ (Sequential!Next /\ SequentialOnly)

NewSpec ==
    /\ NewInit /\ [][NewNext]_newVars /\ Fairness
    /\ WF_newVars(Sequential!Step /\ SequentialOnly)

-----------------------------------------------------------------------------
(* Properties *)

\* The parallel reader's streams cover the object from its offset on without gap or
\* overlap, and between calls the next byte in the first one's buffer is the one at
\* the offset.
StreamsFit == TypeOK /\ StreamsAreContiguous /\ BufferIsAtOffset

\* While no call has failed, the sequential reader's open body is the rest of the
\* current chunk (sequential.go:54-92), which keeps to the limit.
ChunksFit ==
    /\ kind \in {"parallel", "sequential"} /\ Sequential!TypeOK
    /\ kind = "sequential" => Sequential!BodyIsRestOfChunk

\* Every open response body belongs to the sequential reader, which has one at most,
\* or to a stream of the parallel one; after Close there is none.
NoBodyLeaks == BodiesAreOwned /\ (kind = "sequential" => Sequential!OneBody)

Reader == INSTANCE ByteStream WITH
    pos <- IF kind = "parallel" THEN Place ELSE Sequential!Position,
    closed <- IF kind = "parallel" THEN closed ELSE seq.closed

\* Either reader hands out the object's bytes, each at its place, whatever the
\* chunks, the seeks and the timing of the streams; EOF is at the end; closed is
\* closed.
ReaderIsByteStream == Reader!Spec

\* A call on either reader returns, unless the stream it waits for broke: every turn of
\* the sequential Read's loop fills something.
ReadersReturn == CallsReturn /\ Sequential!ReadTerminates
===============================================================================
