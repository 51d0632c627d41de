CONSTANTS
    Callers = {c1}
    Dl = {d1, d2, d3}
    Kicker = Kicker  Closer = Closer  Nobody = Nobody  NoDl = NoDl
    SrcSize = 2
    ItemSize = 2
    Window = 1
    ReadAhead = 0
    MaxSkip = 0
    MaxErrors = 0
    Requests <- Front
    Errors = {"err", "nospace"}
    CloseErr = "err"
    CanClose = TRUE
    MaxEnding = 1
CHECK_DEADLOCK FALSE
SPECIFICATION FairSpec
PROPERTIES  GoroutinesEnd
