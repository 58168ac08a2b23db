---------------------------- MODULE MCRowLocks ----------------------------
(* Small instances of RowLocks for TLC. *)
EXTENDS RowLocks, TLC

CONSTANTS t1, t2, t3, o1

TwoTxns == {t1, t2}
ThreeTxns == {t1, t2, t3}
OneOrg == {o1}
Interchangeable == Permutations(Txns)
=============================================================================
