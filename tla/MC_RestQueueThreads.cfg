SPECIFICATION Spec
CONSTANTS
    QueueOf <- MCQueueOf
    Loop = Loop
    Requests = {r1, r2}
    Endpoints = {1, 2}
    Queues = {1}
    Users = {u1}
    MaxRemaining = 0
    MaxWait = 1
    MaxLate = 1
    PurgePeriod = 2
    CanFail = TRUE
INVARIANTS
    TypeOK
    VectorSound
SYMMETRY MCSymmetry
