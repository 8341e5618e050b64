SPECIFICATION Spec
CONSTANTS
    Tree <- AllTrees
    Height <- Heights
    Sessions <- AllSessions
INVARIANTS
    DrawsTheTrees
