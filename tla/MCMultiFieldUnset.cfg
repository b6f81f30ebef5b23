CONSTANTS
    Fields = {f, g}
    Values = {x, y}
    Unset = Unset
    Inplace = 2
    Heap = Heap
    Null = Null
    Indeterminate = Indeterminate
    MaxItems = 3
    Careful = FALSE
    Requests <- MCRequests
    Arenas <- MCArenas
    NodeRequest <- MCNode
SPECIFICATION Spec
INVARIANT CountsItems
