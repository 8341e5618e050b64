SPECIFICATION Spec
CONSTANT MaxTokens = 8
INVARIANTS
    RootSound
    BlocksMatchBraces
    SilentOnlyInRecovery
PROPERTIES
    RecoversInPlace
    Terminates
