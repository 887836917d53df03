\* One sandbox under the fairness of the scheduler; fewer faults than attempts,
\* a failing reconciliation of stale work among them.
SPECIFICATION FairSpec
CONSTANTS
  Sandboxes = {s1}
  NoSandbox = NoSandbox
  Processes = {p1, p2}
  Limits = {1}
  MaxEffects = 3
  MaxAttempts = 2
  MaxFaults = 1
  StaleReconcileFails = TRUE
  PauseStopsExecution = TRUE
  AuthoritativeLifecycle = TRUE
CHECK_DEADLOCK FALSE
PROPERTIES DeletionReleasesSlot DeadRuntimeReleasesSlot UndispatchedCreateIsDecided
