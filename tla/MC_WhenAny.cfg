\* Two awaitables of the router and one async, two events, two listeners, and
\* exceptions of predicates, handlers, task handlers and the owner.
SPECIFICATION Spec
CONSTANTS
    Awaiter = {1, 2}
    NumJobs = 3
    Call = {c1, c2}
    NoCall = NoCall
    MaxHandles = 2
    CanThrow = TRUE
INVARIANTS
    TypeOK
    AwaitersAlive
    OneResult
    ReferencesValid
    NobodyStranded
SYMMETRY MCSymmetry
CHECK_DEADLOCK FALSE
