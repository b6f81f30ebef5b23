CONSTANTS
    Types <- AllTypes
    Callback <- MCCallback
    IsPresent <- IsSet
    Encoder <- Encoding
    Roots <- AllRoots
    Messages <- AllMessages
    Wires <- AllWires
    Allocators = {TRUE, FALSE}
    Reused = {"coded", "framed"}
    NoState <- Null
    MemSize = 22
    LenDepth = 3
    Nesting = 3
    Deferred = TRUE
SPECIFICATION Spec
INVARIANTS
    TypeOK
    RoundTrip
    AcceptedIsEncodable
    WindowsGone
    StaysInside
    ArityKept
PROPERTIES
    PutsBackTheTag
