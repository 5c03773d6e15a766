SPECIFICATION XwmSpec
CONSTANTS
  XWindow = {w1, w2}
  Override = {w2}
  XSurface = {s1, s2}
  MaxShown = 2
  Prompt = FALSE
  Nobody = Nobody
INVARIANTS
  BoundSurfaceIsLive
CHECK_DEADLOCK FALSE
