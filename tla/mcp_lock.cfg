SPECIFICATION Spec
CONSTANTS
  s1 = s1
  s2 = s2
  t1 = t1
  doc = doc
  None = None
  Servers <- TwoServers
  Terminals <- OneTerminal
  Ids <- OneDocument
  Cap <- LockCaps
  PreviewLife = 1
  ApprovalLife = 1
  Stalls = FALSE
  MaxClock = 1
  MaxPreviews = 2
  Limits <- OneOrTheOther
CHECK_DEADLOCK FALSE
INVARIANT LiveLockKept
