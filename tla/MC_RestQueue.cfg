SPECIFICATION FairSpec
CONSTANTS
    QueueOf <- MCQueueOf
    Loop = Loop
    Requests = {r1, r2, r3}
    Endpoints = {1, 2}
    Queues = {1}
    Users = {}
    MaxRemaining = 0
    MaxWait = 0
    MaxLate = 1
    PurgePeriod = 2
    CanFail = TRUE
INVARIANTS
    FreedWhenDone
    AtMostOnce
PROPERTIES
    RequestsComplete
