SPECIFICATION FairSpec
CONSTANTS
    Responses <- MCResponses
    RequestTime = 2
    BodyTime = 2
INVARIANTS
    TypeOK
    CalledOnce
    BodyFaithful
PROPERTIES
    CallsBack
CHECK_DEADLOCK FALSE
