\* Three workers and four tasks: notifications can overtake each other and
\* find every worker busy, waiting or neither.
SPECIFICATION FairSpec
CONSTANTS
    k1 = k1
    k2 = k2
    k3 = k3
    k4 = k4
    Task = {k1, k2, k3, k4}
    Priority <- MCPriority
    Worker = {w1, w2, w3}
    NoTask = NoTask
INVARIANTS
    TypeOK
    TasksConserved
    NoLostWakeup
PROPERTIES
    PoolPromise
    EveryTaskRuns
    DestructorReturns
CHECK_DEADLOCK FALSE
