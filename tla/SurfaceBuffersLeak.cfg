SPECIFICATION Spec
CONSTANTS
  None = None
  Surface = {s1}
  Buffer = {b1, b2}
  Outcomes = {"shown", "abandoned"}
  Reuse = {"current"}
  Callbacks = {}
  RoleKinds = {"toplevel"}
INVARIANTS
  NotifiedSlotHoldsBuffer
