CONSTANTS
    Client = {k1}
    Ttl = 2
    MinLease = 4
    MaxTime = 5
    MaxEffects = 3
SPECIFICATION Spec
INVARIANT DeadlineWasAsked
CHECK_DEADLOCK FALSE
