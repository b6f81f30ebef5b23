CONSTANTS
    Types <- AllTypes
    Callback <- MCCallback
    IsPresent <- IsSet
    Encoder <- Encoding
    Tests <- AllTests
    Damaged <- DamagedTests
    Roots <- TestRoots
    Messages <- TestMessages
    Wires <- TestWires
    Allocators = {TRUE, FALSE}
    Reused = {"OOO_SEQ"}
    NoState <- Null
    MemSize = 128
    LenDepth = 3
    Nesting = 3
    Deferred = TRUE
SPECIFICATION Spec
INVARIANTS
    EncodesAsTested
    DecodesAsTested
PROPERTIES
    UsesBuffer
    DecodeEnds
