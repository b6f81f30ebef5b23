CONSTANTS
    MemSize = 4
    LenDepth = 2
    Nesting = 2
    Deferred = FALSE
    NoState <- Null
SPECIFICATION Spec
INVARIANTS
    TypeOK
    WindowsNested
    LookAheadBehind
    IndexCountsScopes
PROPERTIES
    CloseRestores
    ImplementsWindowStack
