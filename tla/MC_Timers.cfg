\* The service timer and one more, of two frequencies and both kinds, whose
\* callbacks may throw and may read in th no handle or the service timer's,
\* with a clock that leaves time to serve them; shutdown does not wait for the
\* loop.
SPECIFICATION FairSpec
CONSTANTS
    MaxTimers = 2
    MaxTime = 5
    MaxLag = 1
    Frequencies = {1, 2}
    CanThrow = TRUE
    ReturnAfter = "st_wait"
    Junk = {0, 1}
INVARIANTS
    TypeOK
    TimersConserved
    StopHonoured
    OneshotTicksOnce
    Punctual
    TopDefined
PROPERTIES
    Served
CHECK_DEADLOCK FALSE
