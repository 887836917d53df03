\* The transaction that reconciles a stale provision operation fails.
SPECIFICATION Spec
CONSTANTS
  Sandboxes = {s1}
  NoSandbox = NoSandbox
  Processes = {p1, p2, p3}
  Limits = {1}
  MaxEffects = 3
  MaxAttempts = 2
  MaxFaults = 1
  StaleReconcileFails = TRUE
  PauseStopsExecution = TRUE
  AuthoritativeLifecycle = TRUE
CHECK_DEADLOCK FALSE
INVARIANT AtMostOneCreate
