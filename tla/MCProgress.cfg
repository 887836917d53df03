CONSTANTS
    MaxBuilds = 2
    MaxActivePerOrg = 2
    Builder = {d1, d2}
    Caller = {c1, c2}
    Sandbox = {s1, s2}
    Workspace = {w1, w2}
    Worker = {p1, p2}
    Nobody = nobody
    MaxPerOrganization = 2
    ScanLimit = 1
    Request = {q1}
    NoRequest = nobody
    MaxAttempts = 2
    MaxFrames = 3
    MaxPending = 2
    Horizon = 4
    Step = 2
    MaxWindows = 2
    AskedFrom = {1}
    AvailableFrom = {0, 2}
    AskedAt = {3, 5}
SPECIFICATION FairSpec
INVARIANTS
    VersionsHaveOneBuild
    ExclusiveMount
    SucceededHasRoute
    FramesInOrder
    HistoryIsExact
PROPERTIES
    DecisionsAreFinal
    BuildableIsClaimed
    LostStorageStaysLost
    ReleasedAfterTermination
    ExposureSettles
    RevokedIsDisconnected
    RevokedGivesPlaceBack
CHECK_DEADLOCK FALSE
