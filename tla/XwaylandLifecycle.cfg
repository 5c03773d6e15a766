SPECIFICATION FairSpec
CONSTANTS
  None = None
  Process = {p1, p2, p3}
  MaxAttempts = 3
  ListenerCap = 2
  Failures = {"start", "exit", "xwm", "slow", "connect", "init"}
INVARIANTS
  NoneIsLost
  PeersAreCurrent
PROPERTIES
  XwaylandReturns
  ManagerSettles
CHECK_DEADLOCK FALSE
