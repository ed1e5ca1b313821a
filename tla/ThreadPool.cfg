CONSTANTS
    Tasks = {t1, t2, t3}
    Workers = {w1, w2}
    Capacity = 2
    NoTask = NoTask
SPECIFICATION Spec
INVARIANTS
    CounterExact
    NoLostWakeup
PROPERTIES
    QueuedTaskRuns
    StopTerminates
    ImplementsTaskService
