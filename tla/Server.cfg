CONSTANTS
    IoThreads = 2
    PoolSize = 3
    MaxTasks = 3
    MaxSnapshots = 1
SPECIFICATION Spec
INVARIANTS
    ActiveExact
    NothingOutlived
    SnapshotLag
    NoneSleepsOn
PROPERTIES
    StopReachesAll
    BrokenStartEnds
