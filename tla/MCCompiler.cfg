SPECIFICATION Spec
CONSTANTS
    Argv <- ArgumentLists
    Misspelt <- Unknowns
    Empty <- EmptySources
    MaxTokens = 6
    BUFSIZE = 5
    MaxSize = 6
INVARIANTS
    ArgumentsUnderstood
    OutputIsWhole
PROPERTIES
    Exits
