SPECIFICATION FairSpec
CONSTANTS
  t1 = t1
  t2 = t2
  t3 = t3
  none = none
  Tasks = {t1, t2, t3}
  None = none
  MaxEdits = 2
  MaxCalls = 2
  MaxNotices = 2
  MaxFaults = 1
  MaxPulls = 1
  QuietRuns = TRUE
  PromptCancel = TRUE
CHECK_DEADLOCK FALSE
INVARIANTS
  TypeOK
  OneAtATime
  SleepersCancellable
PROPERTIES
  ChangesSent
