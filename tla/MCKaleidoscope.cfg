SPECIFICATION Spec
CONSTANTS
    FnName = {f}
    Anonymous = Anonymous
    Var = {x, y}
    ArgLists <- UpToOne
    Null = Null
    Pending = Pending
    MaxFunctions = 2
    MaxNodes = 3
SYMMETRY Interchangeable
INVARIANTS
    BlocksWellFormed
    UsesDominated
    LexicalNames
PROPERTIES
    BodiesKept
