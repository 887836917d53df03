CONSTANTS
    Creator = {c1, c2}
    Delete = {d1}
    Key = {k1}
    NoKey = NoKey
    MaxPolls = 1
    Client = {r1, r2}
    Ttl = 2
    MinLease = 1
    MaxTime = 4
    MaxEffects = 3
    Legacy = {l1, l2}
    MaxVersions = 2
    Observer = {o1, o2}
    NoObserver = nobody
    MaxCycles = 2
    Admin = {a1, a2}
    Invitee = u1
    Login = {g1}
    MaxInvitations = 2
    MaxMemberships = 2
    Process = {h1, h2}
    Nobody = nobody
    MaxGenerations = 2
    MaxCalls = 2
    Sandboxes = {s1}
    NoSandbox = nobody
    Processes = {p1, p2}
    Limits = {1}
    MaxRuntimeEffects = 4
    MaxAttempts = 2
    MaxFaults = 1
SPECIFICATION Spec
SYMMETRY Exchanged
INVARIANTS
    TypeOK
    OneSnapshotPerKey
    SnapshotRowsAreTrue
    HoldsMatchExecution
    ReadyHasServed
    AcceptedHasJoined
    NothingIsLeftBehind
    HeldWhileExecuting
PROPERTIES
    DeletedStaysInvisible
    RenewalOrExpiration
    ResultsAreFinal
CHECK_DEADLOCK FALSE
