SPECIFICATION FairSpec
CONSTANTS
  n1 = n1
  n2 = n2
  check = check
  None = None
  Runners <- TwoRunners
  Passes <- WithCheck
  Jobs <- AllJobs
  Horizon <- Clocks
  Cuts <- LostConnections
  MaxNow = 8
  MaxPasses = 2
  MaxCuts = 1
  MaxCrashes = 1
  Entries <- ThreeEntries
  Texts <- Deadlines
  Poisonous <- OneEntry
  InactiveAfter = 1
  PageSize = 2
  Limit = 2
  Windows <- OneToThree
  Lengths <- OneOrTwo
  ScanCaps <- SmallAndLarge
  Cooldown = 2
  MaxTries = 2
  MaxReminders = 2
  WindowDays = 2
  RetentionDays = 3
  MaxLate = 1
  MaxEvents = 2
  MaxDepth = 3
  MaxTexts = 4
  MaxEdits = 1
INVARIANTS
  KeyFollowsDeadlines
  ClosingsExact
  OneReminder
  SettledExact
PROPERTIES
  ClosedForItsText
  NightWorkDone
