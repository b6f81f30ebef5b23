CONSTANTS
    Types <- GapTypes
    Callback <- MCCallback
    IsPresent <- IsSet
    Encoder <- Encoding
    Roots = {"repeatedTag"}
    Messages <- GapMessages
    Wires <- GapWires
    Allocators = {TRUE}
    Reused = {"repeatedTag"}
    NoState <- Null
    MemSize = 12
    LenDepth = 3
    Nesting = 3
    Deferred = FALSE
SPECIFICATION Spec
INVARIANTS
    RoundTrip
