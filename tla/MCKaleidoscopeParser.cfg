SPECIFICATION Spec
CONSTANTS
    Token <- Tokens
    MaxTokens = 7
    Null = Null
    Pending = Pending
INVARIANTS
    PrecedenceRespected
    NothingLost
PROPERTIES
    Terminates
