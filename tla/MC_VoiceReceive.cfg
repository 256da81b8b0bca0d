SPECIFICATION Spec
CONSTANTS
    Speaker = {1}
    SeqMod = 4
    MaxPackets = 4
    MaxGap = 2
    Window = 2
    Caller = {"timer", "destructor"}
    MaxCleanups = 1
INVARIANTS
    TypeOK
    HeardFaithfully
PROPERTIES
    CourierServes
CHECK_DEADLOCK FALSE
