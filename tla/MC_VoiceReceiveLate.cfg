SPECIFICATION Spec
CONSTANTS
    Speaker = {1}
    SeqMod = 16
    MaxPackets = 4
    MaxGap = 2
    Window = 2
    Caller = {}
    MaxCleanups = 0
INVARIANTS
    HeardInOrder
CHECK_DEADLOCK FALSE
