CONSTANTS
    Types <- WalledTypes
    Callback <- MCCallback
    IsPresent <- IsSet
    Encoder <- Encoding
    Roots = {"walled"}
    Messages <- WalledMessages
    Wires <- WalledWires
    Allocators = {TRUE}
    Reused = {"walled"}
    NoState <- Null
    MemSize = 12
    LenDepth = 3
    Nesting = 3
    Deferred = TRUE
SPECIFICATION Spec
INVARIANTS
    RoundTrip
