SPECIFICATION CGSpec
CONSTANTS
    Name = {"f", "f1"}
    Function = {one, two}
    NullFunction = NullFunction
    Unbound = Unbound
    MaxDepth = 2
    MaxStorage = 2
    Suffixed <- Numbered
    Exprs <- OneLeaf
    MaxBlocks = 2
    MaxNesting = 3
    MaxCode = 1
SYMMETRY Interchangeable
CONSTRAINT ThreeDefinitions
INVARIANTS
    CGTypeOK
    FoldedAsDeclared
    OperandsInReach
PROPERTIES
    OnlyAppend
