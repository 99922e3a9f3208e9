SPECIFICATION FairSpec
CONSTANTS
  t1 = t1
  t2 = t2
  t3 = t3
  none = none
  Tasks = {t1, t2, t3}
  None = none
  MaxEdits = 1
  MaxCalls = 1
  MaxNotices = 2
  MaxFaults = 0
  MaxPulls = 0
  QuietRuns = FALSE
  PromptCancel = TRUE
CHECK_DEADLOCK FALSE
PROPERTIES
  ChangesSent
