SPECIFICATION Spec
CONSTANTS
    x = x
    y = y
    Name = {x, y}
    Programs <- CheckedPrograms
    Width = 4
    MaxTurns = 12
    Unknown = Unknown
    Orders = {"left", "right"}
INVARIANTS
    FoldsWhatHasAMeaning
PROPERTIES
    ImplementsC1
