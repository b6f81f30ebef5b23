CONSTANTS
    MemSize = 3
    LenDepth = 3
    Nesting = 2
    Deferred = TRUE
    NoState <- Null
SPECIFICATION Spec
INVARIANTS
    SlotsOwned
