SPECIFICATION Spec
SYMMETRY Symmetry
CONSTANTS
    Handlers = {h1, h2}
    Items = {1, 2}
    Inodes = {1, 2, 3}
    Blocks = {b1}
    MaxOpens = 2
    MaxPurges = 1
    MaxRestarts = 1
    Heads = {"ok", "bad"}
    Failures = {"read"}
    CanClean = FALSE
    CanClose = FALSE
INVARIANT RsIsStored
CHECK_DEADLOCK FALSE
