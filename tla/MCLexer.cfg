SPECIFICATION Spec
CONSTANTS
    Char <- Chars
    MaxText = 5
    None = None
INVARIANTS
    MarkersAreLineStarts
    InPlace
    StreamIntact
    QuotesTheLine
    CommentsAgree
