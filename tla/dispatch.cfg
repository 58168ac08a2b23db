SPECIFICATION FairSpec
CONSTANTS
  Notifications <- TwoRows
  Lifecycle <- OneRow
  Malformed <- SecondRow
  Dispatchers <- Two
  Sweepers <- JobSweeps
  BatchLimit = 2
  MaxAttempts = 2
  RetryDelay = 2
  HoldLimit = 1
  ClockSkew = 1
INVARIANTS
  TypeOK
  OneMailPerAttempt
  OutcomeLands
PROPERTIES
  ImplementsOutbox
  EventuallySettled
