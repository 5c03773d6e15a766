SPECIFICATION Spec
CONSTANTS
  None = None
  Process = {p1, p2, p3}
  MaxAttempts = 3
  ListenerCap = 2
  Failures = {}
INVARIANTS
  ListenersAreLive
CHECK_DEADLOCK FALSE
