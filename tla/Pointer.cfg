SPECIFICATION SumSpec
CONSTANTS
  None = None
  a = a
  b = b
  x = x
  k = k
  app = app
  xwl = xwl
  h1 = h1
  h2 = h2
  h3 = h3
  h4 = h4
  h5 = h5
  t1 = t1
  t2 = t2
  Client = {app, xwl}
  Surface = {a, b, x, k}
  Owner <- MCOwner
  X11 = {x}
  Windowless = {k}
  Parent <- MCParent
  Asked <- MCAsked
  Mortal = {a, k}
  Plugs = {app}
  Touch = {app}
  Buttons = {"left"}
  Unit = 2
  Width = {1, 4}
  Origin <- MCOrigin
  Extent <- MCExtent
  Scale = {0, 1, 2}
  Viewport = {v1}
  Unset = Unset
  Region = {g1}
  RegionX <- MCRegionX
  RegionWidth <- MCRegionWidth
  MaxOps = 2
  OutputScale = {2, 3}
  NoRegion = NoRegion
  PlexyBuffer = {k1, k2}
  ClientBuffer <- MCClient
  Kind <- MCKind
  Size <- MCSize
  Target <- MCTarget
  NoImage = NoImage
  Params = {x1, x2}
  Descriptor = {f1, f2, f3}
  Planes = 2
  Modifier = {"invalid", "linear", "external", "compressed", "amd", "tiled", "plain"}
  MaxReported = 3
  NoDescriptor = NoDescriptor
  TextField <- MCTextField
  TextClient = {app}
  FieldOwner <- MCFieldOwner
  XField = {x1, x2}
  XSurface = {s1, s2}
  InputMethod = {m1}
  NoField = NoField
INVARIANTS
  PointerOK
  ViewportsOK
  RegionsOK
  DoubleOK
  DmabufOK
  TextOK
PROPERTIES
  ActivatedByFocus
CHECK_DEADLOCK FALSE
