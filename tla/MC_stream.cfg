SPECIFICATION FairSpec
CONSTANTS
  a = a
  b = b
  k1 = k1
  k2 = k2
  none = none
  library = library
  group = group
  p1 = p1
  p2 = p2
  Devices = {a}
  Clients = {b}
  Keys = {k1, k2}
  NoKey = none
  Library = library
  Groups = {group}
  KeyOf <- OwnKey
  Messages <- Subscribing
  Access <- Readable
  Publications = {p1, p2}
  MaximumTopics = 2
  Bounds <- Eventful
CHECK_DEADLOCK FALSE
INVARIANTS
  TypeOK
  DevicesStaySubscribed
  RevokedHearNothing
PROPERTIES
  DevicesCatchUp
