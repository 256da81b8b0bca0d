\* Three units of output through a raw buffer of two, two frames of input.
SPECIFICATION Spec
CONSTANTS
    BufSize = 2
    MaxOut = 3
    MaxFrames = 2
    FrameLens = {2, 3}
INVARIANTS
    TypeOK
    StreamIntact
    PendingIsArmed
    FramesInOrder
PROPERTIES
    DataMoves
CHECK_DEADLOCK FALSE
