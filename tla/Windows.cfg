SPECIFICATION SumSpec
CONSTANTS
  a = a
  b = b
  c = c
  d = d
  r1 = r1
  r2 = r2
  d1 = d1
  g1 = g1
  g2 = g2
  None = None
  Nil = Nil
  Lost = Lost
  Surface <- MCSurface
  Toplevel <- MCToplevel
  Dialog <- MCDialog
  MaxWindow = 2
  MaxSerial = 2
  MaxQueue = 1
  Node <- MCNode
  Length = {0, 3}
  Coord <- MCCoord
  NoPopup = NoPopup
  XWindow = {w1, w2}
  Override = {w2}
  XSurface = {s1, s2}
  MaxShown = 2
  Prompt = TRUE
  Nobody = Nobody
  FocusWindow = {f1, f2, f3}
  Inputless = {f3}
  NoWindow = NoWindow
  SyncBuffer = {b1, b2}
  MaxPoint = 3
  NoBuffer = NoBuffer
  Token = {t1, t2, t3}
  Activator <- MCActivator
  Lifetime = 1
  DragSource = {s}
  Dropper = {ca, cb}
  Nowhere = Nowhere
SYMMETRY MCSymmetry
INVARIANTS
  ToplevelsOK
  ConfigureOK
  TreeOK
  PopupTouchesAnchor
  XwmOK
  XfocusOK
  SyncOK
  TokensOK
  DragOK
PROPERTIES
  ImplementsPairing
CHECK_DEADLOCK FALSE
