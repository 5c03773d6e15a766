SPECIFICATION Spec
CONSTANTS
  None = None
  Surface = {s1}
  Buffer = {b1, b2, b3}
  Outcomes = {"shown", "not_shown", "abandoned", "unknown_type"}
  Reuse = {"current", "previous"}
  Callbacks = {}
  RoleKinds = {"toplevel"}
INVARIANTS
  Intact
  ListenersMatchPointers
CHECK_DEADLOCK FALSE
