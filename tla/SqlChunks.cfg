CONSTANTS
    Chunk = 4
    MaxLength = 12
    TotalKnown = TRUE
SPECIFICATION Spec
INVARIANT
    ValueIntact
