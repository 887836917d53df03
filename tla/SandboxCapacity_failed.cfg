\* The cleanup of a failed credential create is interrupted before its dispatch.
SPECIFICATION Spec
CONSTANTS
  Sandboxes = {s1}
  NoSandbox = NoSandbox
  Processes = {p1, p2}
  Limits = {1}
  MaxEffects = 3
  MaxAttempts = 2
  MaxFaults = 1
  StaleReconcileFails = FALSE
  PauseStopsExecution = TRUE
  AuthoritativeLifecycle = TRUE
CHECK_DEADLOCK FALSE
PROPERTY FailedCreateStaysFailed
