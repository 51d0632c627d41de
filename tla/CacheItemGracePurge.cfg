SPECIFICATION Spec
SYMMETRY Symmetry
CONSTANTS
    Handlers = {h1, h2}
    Items = {1, 2}
    Inodes = {1, 2, 3}
    Blocks = {b1}
    MaxOpens = 1
    MaxPurges = 1
    MaxRestarts = 0
    Heads = {"ok"}
    Failures = {}
    CanClean = FALSE
    CanClose = TRUE
INVARIANT PendingIsExact
CHECK_DEADLOCK FALSE
