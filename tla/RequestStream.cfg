CONSTANTS
    ChunkSize = 2
    MaxSize = 10
    MaxHeaders = 3
    Wires <- MCWires
SPECIFICATION Spec
INVARIANTS
    RoomLeft
    BodyIsOwn
    NoHeadLeftWaiting
    InStep
    WholeRequestUnderstood
