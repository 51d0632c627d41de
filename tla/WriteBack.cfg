SPECIFICATION FairSpec
CONSTANTS
    Ids = {a, b}
    Items <- ThreeItems
    Callers = {c1, c2}
    MaxCalls = 4
    MaxUploads = 2
    Calls = {"Add", "Remove", "Rename", "SetExpiry"}
    Prompt = TRUE
INVARIANTS TypeOK  NothingIsForgotten
PROPERTY Settles
CHECK_DEADLOCK FALSE
