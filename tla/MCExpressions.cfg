SPECIFICATION Spec
CONSTANTS
    Inputs <- SomeInputs
    Completions <- ShortCompletions
INVARIANTS
    
    NoSentenceRefused
    ConflictsResolved
