SPECIFICATION LocksSpec
CONSTANTS
  t1 = t1
  t2 = t2
  t3 = t3
  o1 = o1
  Txns <- TwoTxns
  EntryIds = {1, 2}
  AccountIds = {1, 2}
  AdminIds = {2}
  OrgIds <- OneOrg
  Paths = {"publishing"}
  ForeignKeys = TRUE
SYMMETRY Interchangeable
INVARIANTS
  NoCycle
