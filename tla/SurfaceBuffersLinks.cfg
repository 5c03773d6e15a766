SPECIFICATION Spec
CONSTANTS
  None = None
  Surface = {s1, s2}
  Buffer = {b1, b2}
  Outcomes = {"shown", "not_shown"}
  Reuse = {"previous"}
  Callbacks = {}
  RoleKinds = {"toplevel"}
INVARIANTS
  HeldBuffersExist
  NotifiedSlotHoldsBuffer
PROPERTIES
  ImplementsBufferHold
