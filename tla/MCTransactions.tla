--------------------------- MODULE MCTransactions ---------------------------
(***************************************************************************)
(* Small instances of Transactions for TLC. Only one view moves in a          *)
(* behaviour, so the views share names (the requests of one are the merges of  *)
(* another, its entries the transactions of the third), which keeps the group  *)
(* of symmetries that of the largest view.                                     *)
(***************************************************************************)
EXTENDS MCAdministration, Transactions

CONSTANTS e1, e2, e3, p1, o1

ThreeEntries == {e1, e2, e3}
OnePass == {p1}
OneOrg == {o1}

InEachView == Permutations(Requests) \cup Permutations(Entries)
=============================================================================
