SPECIFICATION Spec
CONSTANTS
  None = None
  Process = {p1, p2, p3}
  MaxAttempts = 3
  ListenerCap = 2
  Failures = {"connect"}
INVARIANTS
  RetryHasSocket
CHECK_DEADLOCK FALSE
