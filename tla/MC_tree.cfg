SPECIFICATION Spec
CONSTANTS
  i = i
  c = c
  j = j
  d = d
  z = z
  none = none
  title = title
  note = note
  x = x
  y = y
  absent = absent
  null = null
  e1 = e1
  e2 = e2
  Fields = {title}
  Values = {x, y}
  Absent = absent
  Null = null
  Items <- TwoItems
  Collections <- TwoCollections
  NoKey = none
  Parent <- Tree
  Home <- FiledBelow
  Related <- EachOther
  Linked <- LinkedByTitle
  Refused = {}
  Engines = {e1}
  Jobs <- OnlySynchronize
  Bodies <- EveryBody
  Known <- ItemAndTwoCollections
  InitialBody <- Initially
  MaxPreconditionAttempts = 2
  MaxConsistencyAttempts = 2
  BatchSize = 2
  MaxEdits = 2
  MaxRemoteWrites = 1
  MaxFaults = 1
  UserDeletable = {i, j}
  RemoteDeletable = {c}
  QuietListing = TRUE
  QuietUpload = TRUE
  StaleEditors = FALSE
  ConflictEditable = {i, j, c, d}
  LosesAnswers = TRUE
INVARIANTS
  NothingStranded
  ShownAsStored
  VersionsHandedOut
PROPERTIES
  EditsKept
  NoBlindDelete
