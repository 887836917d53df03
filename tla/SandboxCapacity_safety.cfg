\* One sandbox, three concurrent processes, one crash or lost reply.
SPECIFICATION Spec
CONSTANTS
  Sandboxes = {s1}
  NoSandbox = NoSandbox
  Processes = {p1, p2, p3}
  Limits = {1}
  MaxEffects = 4
  MaxAttempts = 2
  MaxFaults = 1
  StaleReconcileFails = FALSE
  PauseStopsExecution = TRUE
  AuthoritativeLifecycle = TRUE
CONSTRAINT OneRestsAtTheLast
SYMMETRY Interchangeable
CHECK_DEADLOCK FALSE
INVARIANTS TypeOK HeldWhileExecuting AtMostOneCreate NoOrphanRuntime TerminatedIsClean WaitingCreateIsUndispatched CapacityInv
PROPERTIES TerminatedIsFinal StaleResultIsIgnored
