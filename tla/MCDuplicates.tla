---------------------------- MODULE MCDuplicates ----------------------------
(* Small instances of Duplicates for TLC. *)
EXTENDS Duplicates, TLC

CONSTANTS e1, e2, e3, p1, m1, m2

ThreeEntries == {e1, e2, e3}
TwoEntries == {e1, e2}
OnePass == {p1}
OneMerge == {m1}
TwoMerges == {m1, m2}
Interchangeable == Permutations(Entries) \cup Permutations(Merges)
=============================================================================
