SPECIFICATION FairSpec
CONSTANTS
  u1 = u1
  u2 = u2
  a = a
  b = b
  c1 = c1
  None = None
  Urls <- TwoUrls
  Sites <- TwoSites
  Checks <- OneCheck
  MaxUpdates = 3
INVARIANTS
  TypeOK
  VerdictIsAboutContent
  StraightHopStaysPut
PROPERTIES
  EventuallyCurrent
