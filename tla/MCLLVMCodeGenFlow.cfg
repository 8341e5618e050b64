SPECIFICATION CGSpec
CONSTANTS
    Name = {"f"}
    Function = {one, two}
    NullFunction = NullFunction
    Unbound = Unbound
    MaxDepth = 2
    MaxStorage = 0
    Suffixed <- Numbered
    Exprs <- Calls
    MaxBlocks = 7
    MaxNesting = 4
    MaxCode = 1
SYMMETRY Interchangeable
INVARIANTS
    JumpsComplete
    SingleExit
    DetachedOnlyWhileOpen
    InsertionPoint
