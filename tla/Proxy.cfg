SPECIFICATION Spec
CONSTANTS
    Requests = {h1, h2}
    SizeOf <- SameSize
    Ranges <- WholeOrRest
    Clients = {0, 1}
    MaxEvents = 3
    Lengthless = TRUE
    NoSpace = TRUE
INVARIANTS TypeOK   
PROPERTIES  CachedIsServed
SYMMETRY Symmetry
