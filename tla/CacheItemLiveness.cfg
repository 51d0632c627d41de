SPECIFICATION FairSpec
CONSTANTS
    Handlers = {h1, h2}
    Items = {1}
    Inodes = {1, 2}
    Blocks = {b1}
    MaxOpens = 3
    MaxPurges = 0
    MaxRestarts = 0
    Heads = {"ok"}
    Failures = {"nospace"}
    CanClean = TRUE
    CanClose = FALSE
PROPERTIES ReadReturns
CHECK_DEADLOCK FALSE
