SPECIFICATION SumSpec
CONSTANTS
  None = None
  win = win
  menu = menu
  sub = sub
  other = other
  xmenu = xmenu
  app = app
  shell = shell
  xwl = xwl
  Client = {app, shell, xwl}
  Surface = {win, menu, sub, other, xmenu}
  Owner <- MCOwner
  Popup = {menu, sub}
  Parent <- MCParent
  X11 = {xmenu}
  Passive = {xmenu}
  Menu = {xmenu}
  Typing = {app}
  Plugs = {app}
  Mortal = {app, shell}
  Lock = {"first", "second"}
  LockClient = shell
  DataSource = {d1, d2}
  PrimarySource = {p1}
  ControlSource = {q1}
  MaxReadings = 2
  Copier = {ca}
  Outside = Outside
  Empty = Empty
  Unsettled = Unsettled
  MaxEvents = 2
  MaxTexts = 3
  At <- MCAt
  Length = {2, 5, 12}
  OutputAt = 2
  OutputLength = 10
  TitleBar = 1
  MaxNotices = 2
  NoPlace = NoPlace
  MaxAnswers = 3
  Title = {n1}
  Legacy = {n3}
  MaxChanges = 2
  Absent = Absent
  OutputId = {1, 2, 3}
  MaxEntered = 2
  Pool = {o1, o2}
  PoolBuffer = {e1, e2}
  PoolSize = {8, 12, 16}
  Offset <- MCOffset
  Extent = {1, 2}
  Stride = {4, 8}
  PixelBytes = {4}
  NoPool = NoPool
  Notification = {i1, i2}
  Timeout = {0, 1, 2}
  LongQuiet = 2
  NoNotification = NoNotification
INVARIANTS
  KeyboardOK
  SelectionsOK
  XselectionOK
  GeometryOK
  StatesOK
  PropertiesOK
  OutputsOK
  ShmOK
  IdleOK
  MainOK
PROPERTIES
  OpensOnOutput
CHECK_DEADLOCK FALSE
