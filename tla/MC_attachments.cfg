SPECIFICATION Spec
CONSTANTS
  a = a
  b = b
  item1 = item1
  item2 = item2
  x = x
  y = y
  none = none
  k1 = k1
  k2 = k2
  k3 = k3
  Items = {item1, item2}
  Contents = {x, y}
  None = none
  Size <- Sizes
  Large = {y}
  Binary = {}
  UploadKeys = {k1, k2, k3}
  Slots = {1, 2}
  Devices = {a, b}
  Known = item1
  KnownBytes = x
  Keepers = {a}
  Offered <- Added
  OneJob = TRUE
  Bounds <- Pairs
CHECK_DEADLOCK FALSE
INVARIANTS
  TypeOK
  FilesServed
  ChangedBytesStale
