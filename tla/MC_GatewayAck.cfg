SPECIFICATION FairSpec
CONSTANTS
    NumShards = 1
    Interval = 1
    Period = 1
    AckLimit = 0
    MaxSeq <- MCMaxSeq
    MaxWire = 1
    MaxLag = 0
    CanFail = FALSE
PROPERTIES
    MissedAckReconnects
CHECK_DEADLOCK FALSE
