\* Four chunks, the last one short, and two streams; every fault but the two that
\* README.md section 4 is about.
SPECIFICATION NewSpec
CONSTANTS
    Size = 7
    BufferSize = 2
    InitialChunk = 1
    Streams = 2
    Lens = {0, 1, 3}
    Targets <- Everywhere
    Faults = {"open", "drop", "short"}
    CanCancel = TRUE
    OpenAfterClose = FALSE
    StreamCounts = {1, 2}
    Chunks <- NoneAndOne
    Limits <- NoneAndTwo
    Whences = {"start", "end"}
    Lengths <- NoneAndThree
    SequentialFaults = {"open", "reset"}
    ReadsAfterError = FALSE
INVARIANTS
    StreamsFit
    ChunksFit
    NoBodyLeaks
PROPERTIES
    ReaderIsByteStream
    ReadersReturn
\* A stream that breaks leaves Read and Close waiting for ever.
CHECK_DEADLOCK FALSE
