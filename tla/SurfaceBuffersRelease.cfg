SPECIFICATION FairSpec
CONSTANTS
  None = None
  Surface = {s1}
  Buffer = {b1, b2, b3}
  Outcomes = {"shown", "not_shown"}
  Reuse = {}
  Callbacks = {"frame", "feedback"}
  RoleKinds = {"toplevel", "popup"}
INVARIANTS
  ReleaseAccounting
PROPERTIES
  DueIsAnswered
