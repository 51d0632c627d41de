SPECIFICATION Spec
SYMMETRY Symmetry
CONSTANTS
    Handlers = {h1, h2}
    Items = {1, 2}
    Inodes = {1, 2, 3}
    Blocks = {b1}
    MaxOpens = 3
    MaxPurges = 0
    MaxRestarts = 1
    Heads = {"ok"}
    Failures = {"read"}
    CanClean = FALSE
    CanClose = TRUE
INVARIANTS ReadsAreFetched MetaIsBacked 
CHECK_DEADLOCK FALSE
