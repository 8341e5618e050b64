SPECIFICATION CMSpec
CONSTANTS
    Name = {x, y}
    Function = {f, g}
    NullFunction = NullFunction
    Unbound = Unbound
    MaxDepth = 3
    MaxStorage = 3
INVARIANTS
    ScopesMatchFunctions
    BindingsOwned
    NoAliasing
    AllocaFirst
PROPERTIES
    DefinitionsTakeEffect
    ImplementsScoping
