SPECIFICATION Spec
CONSTANTS
  None = None
  Surface = {s1, s2}
  Buffer = {b1}
  Outcomes = {"shown", "not_shown"}
  Reuse = {}
  Callbacks = {"frame"}
  RoleKinds = {"toplevel", "popup", "subsurface"}
INVARIANTS
  FrameDoneOwed
