SPECIFICATION Spec
CONSTANTS
  i = i
  c = c
  j = j
  d = d
  z = z
  none = none
  title = title
  note = note
  x = x
  y = y
  absent = absent
  null = null
  e1 = e1
  e2 = e2
  Fields = {title}
  Values = {x, y, z}
  Absent = absent
  Null = null
  Items <- NoKeys
  Collections <- OneCollection
  NoKey = none
  Parent <- NoParent
  Home <- Alone
  Related <- Unrelated
  Linked <- LinkedAlready
  Refused = {}
  Engines = {e1}
  Jobs <- OnlySynchronize
  Bodies <- EveryBody
  Known <- OneCollection
  InitialBody <- Initially
  MaxPreconditionAttempts = 2
  MaxConsistencyAttempts = 2
  BatchSize = 1
  MaxEdits = 3
  MaxRemoteWrites = 2
  MaxFaults = 1
  UserDeletable = {c}
  RemoteDeletable = {c}
  QuietListing = TRUE
  QuietUpload = TRUE
  StaleEditors = FALSE
  ConflictEditable = {}
  LosesAnswers = TRUE
INVARIANTS
  NothingSkipped
  ConflictsAreCurrent
PROPERTIES
  EditsKept
