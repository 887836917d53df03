\* Two sandboxes compete for the slots of a limit an administrator changes.
SPECIFICATION Spec
CONSTANTS
  Sandboxes = {s1, s2}
  NoSandbox = NoSandbox
  Processes = {p1}
  Limits = {1, 2}
  MaxEffects = 4
  MaxAttempts = 1
  MaxFaults = 0
  StaleReconcileFails = FALSE
  PauseStopsExecution = TRUE
  AuthoritativeLifecycle = TRUE
SYMMETRY Competing
CHECK_DEADLOCK FALSE
PROPERTY ImplementsSlots
