CONSTANTS
    bare = bare
    framed = framed
    Ids = {bare, framed}
    Plain = Plain
    OwnMeta <- MCOwnMeta
    Lengths = {1, 2}
    Values = {x, y}
    MemSize = 4
    Room = 3
    MaxItems = 3
SPECIFICATION Spec
INVARIANT EveryElementFound
