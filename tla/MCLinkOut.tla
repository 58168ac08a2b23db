----------------------------- MODULE MCLinkOut -----------------------------
(* Small instances of LinkOut for TLC. *)
EXTENDS LinkOut

CONSTANTS u1, u2, a, b, c1

TwoUrls == {u1, u2}
TwoSites == {a, b}
OneCheck == {c1}
=============================================================================
