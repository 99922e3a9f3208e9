SPECIFICATION FairSpec
CONSTANTS
  i = i
  c = c
  j = j
  d = d
  z = z
  none = none
  title = title
  note = note
  x = x
  y = y
  absent = absent
  null = null
  e1 = e1
  e2 = e2
  Fields <- TwoFields
  Values = {x, y, z}
  Absent = absent
  Null = null
  Items <- OneItem
  Collections <- NoKeys
  NoKey = none
  Parent <- NoParent
  Home <- Alone
  Related <- Unrelated
  Linked <- LinkedAlready
  Refused <- Invalid
  Engines = {e1}
  Jobs <- OnlySynchronize
  Bodies <- FiveBodies
  Known <- OneItem
  InitialBody <- Initially
  MaxPreconditionAttempts = 2
  MaxConsistencyAttempts = 2
  BatchSize = 1
  MaxEdits = 2
  MaxRemoteWrites = 2
  MaxFaults = 1
  UserDeletable = {}
  RemoteDeletable = {i}
  QuietListing = TRUE
  QuietUpload = TRUE
  StaleEditors = FALSE
  ConflictEditable = {i}
  LosesAnswers = TRUE
INVARIANTS
  TypeOK
  NothingSkipped
  ConflictsAreCurrent
  VersionsHandedOut
PROPERTIES
  Converges
  NoBlindOverwrite
  EditsKept
