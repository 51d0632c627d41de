CONSTANTS
    Callers = {c1, c2}
    Dl = {d1, d2, d3}
    Kicker = Kicker  Closer = Closer  Nobody = Nobody  NoDl = NoDl
    SrcSize = 2
    ItemSize = 3
    Window = 2
    ReadAhead = 0
    MaxSkip = 0
    MaxErrors = 1
    Requests <- WholeAndMiddle
    Errors = {"err"}
    CloseErr = "err"
    CanClose = TRUE
    MaxEnding = 1
SYMMETRY Symmetry
\* After Close, with no reader left, everything stops.
CHECK_DEADLOCK FALSE
SPECIFICATION Spec
INVARIANTS
    TypeOK
    PassedIsPresent
    MissingIsBeingFetched
    SuccessMeansPresent
    LiveIsListed
PROPERTY FetchesRanges
