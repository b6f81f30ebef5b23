CONSTANTS
    Types <- AllTypes
    Callback <- MCCallback
    IsPresent <- IsSet
    Encoder <- Encoding
    Tests <- ItemsTest
    Damaged = {}
    Roots <- TestRoots
    Messages <- TestMessages
    Wires <- TestWires
    Allocators = {TRUE, FALSE}
    Reused = {}
    NoState <- Null
    MemSize = 128
    LenDepth = 3
    Nesting = 3
    Deferred = TRUE
SPECIFICATION Spec
INVARIANTS
    DecodesAsTested
