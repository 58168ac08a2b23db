SPECIFICATION TransactionsSpec
CONSTANTS
  r1 = r1
  r2 = r2
  None = None
  NoOne = NoOne
  Accounts <- ThreeAccounts
  Requests <- TwoRequests
  KeyLimit = 1
  MaxInvites = 2
  Agendas <- AllAgendas
  e1 = e1
  e2 = e2
  e3 = e3
  p1 = p1
  Entries <- ThreeEntries
  Passes <- OnePass
  Merges <- TwoRequests
  o1 = o1
  Txns <- ThreeEntries
  EntryIds = {1, 2}
  AccountIds = {1, 2}
  AdminIds = {2}
  OrgIds <- OneOrg
  Paths = {"publishing", "administration"}
  ForeignKeys = FALSE
SYMMETRY InEachView
INVARIANTS
  CountsHold
  TypeOK
  NoChains
  MergedStaysAway
  NoCycle
PROPERTIES
  ActsByRight
  MergeKeepsPublic
