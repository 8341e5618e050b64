SPECIFICATION Spec
CONSTANTS
    x = x
    y = y
    Name = {x, y}
    Programs <- DisjunctionPrograms
    Width = 4
    MaxTurns = 12
    Unknown = Unknown
    Orders = {"left", "right"}
INVARIANT DoesWhatItSays
