SPECIFICATION Spec
SYMMETRY Symmetry
CONSTANTS
    Handlers = {h1, h2}
    Items = {1, 2}
    Inodes = {1, 2, 3}
    Blocks = {b1}
    MaxOpens = 2
    MaxPurges = 0
    MaxRestarts = 0
    Heads = {"ok"}
    Failures = {"read", "nospace"}
    CanClean = TRUE
    CanClose = FALSE
INVARIANTS TypeOK RsIsStored ResetIsExclusive
CHECK_DEADLOCK FALSE
