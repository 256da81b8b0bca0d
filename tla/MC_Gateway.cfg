SPECIFICATION FairSpec
CONSTANTS
    NumShards = 2
    Interval = 1
    Period = 1
    AckLimit = 0
    MaxSeq <- MCMaxSeq
    MaxWire = 1
    MaxLag = 0
    CanFail = TRUE
INVARIANTS
    TypeOK
    NoShardForgotten
    SessionKept
    EventsInOrder
PROPERTIES
    ClosedIsReplaced
CHECK_DEADLOCK FALSE
