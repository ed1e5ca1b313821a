CONSTANTS
    ChunkSize = 2
    MaxSize = 10
    MaxHeaders = 3
    Wires <- MCWires
SPECIFICATION Spec
INVARIANT
    NoPartialBody
