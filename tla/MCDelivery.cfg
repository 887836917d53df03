CONSTANTS
    Requester = {r1}
    MaxRows = 2
    MaxFaults = 1
    MaxOutput = 2
    MaxReconnects = 1
SPECIFICATION FairSpec
INVARIANTS
    OutputOnce
    SucceededMeansAll
PROPERTIES
    AttachedBecomesUsable
    ViewerEnds
CHECK_DEADLOCK FALSE
