SPECIFICATION ClientsSpec
CONSTANTS
  s1 = s1
  s2 = s2
  t1 = t1
  doc = doc
  None = None
  Servers <- TwoServers
  Terminals <- OneTerminal
  Ids <- OneDocument
  Cap <- LockCaps
  PreviewLife = 1
  ApprovalLife = 1
  Stalls = FALSE
  MaxClock = 1
  MaxPreviews = 2
  Limits <- OneOrTheOther
  ann = ann
  ben = ben
  x = x
  y = y
  k1 = k1
  k2 = k2
  People <- TwoPeople
  Texts <- TwoTexts
  Blank = Blank
  Nobody = Nobody
  NoDraft = NoDraft
  Loaders <- TwoLoaders
  MaxReads = 3
  MaxVersion = 2
  Nothing = Nothing
  Records = {1, 2, 3, 4, 5}
  PerPage = 2
  MaxMoves = 3
  r1 = r1
  r2 = r2
  r3 = r3
  d0 = d0
  d1 = d1
  d2 = d2
  Runs <- ThreeRuns
  Datasets <- ThreeDatasets
  Short <- OneShort
  Nowhere = Nowhere
  w1 = w1
  comma = comma
  twice = twice
  acme = acme
  beta = beta
  c1 = c1
  c2 = c2
  Words <- OneWord
  Slugs <- TwoSlugs
  Fields <- OneField
  Groups <- OneGroup
  Listings <- EachKind
  ComesBackAs <- NotAsTheyAre
  Unstated = Unstated
  Null = Null
  ByHand = ByHand
  MaxEdits = 3
INVARIANTS
  SpentOnce
  BudgetExact
  ShownIsLatest
  WorkIsKept
  NothingAfterLogout
  ExportIsComplete
  PointersAgree
  LetThroughIsTaken
  EditsAreExact
PROPERTIES
  CallsEnd
CHECK_DEADLOCK FALSE
