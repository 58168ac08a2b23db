SPECIFICATION Spec
CONSTANTS
  m = m
  s = s
  p = p
  q = q
  e1 = e1
  e2 = e2
  d1 = d1
  d2 = d2
  r1 = r1
  r2 = r2
  None = None
  Accounts <- MiaAndSam
  Orgs <- TwoOrgs
  Entries <- TwoEntries
  Requests <- TwoRequests
  Documents <- TwoDocuments
  Operators <- OperatedByP
  Prefix <- PrefixP
  Casts <- AllCasts
  PendingLimit = 1
SYMMETRY Interchangeable
INVARIANTS
  AuthorityHolds
  PublicIsCleared
  CeilingsHold
  OneWinner
PROPERTIES
  PublisherMovesByGrant
