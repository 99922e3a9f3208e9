SPECIFICATION Spec
CONSTANTS
  i = i
  c = c
  j = j
  d = d
  z = z
  none = none
  title = title
  note = note
  x = x
  y = y
  absent = absent
  null = null
  e1 = e1
  e2 = e2
  Fields = {title}
  Values = {x, y, z}
  Absent = absent
  Null = null
  Items <- OneItem
  Collections <- NoKeys
  NoKey = none
  Parent <- NoParent
  Home <- Alone
  Related <- Unrelated
  Linked <- LinkedAlready
  Refused = {}
  Engines = {e1}
  Jobs <- OnlySynchronize
  Bodies <- EveryBody
  Known <- OneItem
  InitialBody <- Initially
  MaxPreconditionAttempts = 2
  MaxConsistencyAttempts = 2
  BatchSize = 1
  MaxEdits = 2
  MaxRemoteWrites = 0
  MaxFaults = 0
  UserDeletable = {}
  RemoteDeletable = {i}
  QuietListing = TRUE
  QuietUpload = FALSE
  StaleEditors = FALSE
  ConflictEditable = {i}
  LosesAnswers = TRUE
PROPERTIES
  EditsKept
