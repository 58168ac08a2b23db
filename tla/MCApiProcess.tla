---------------------------- MODULE MCApiProcess ----------------------------
(* Small instances of ApiProcess for TLC. *)
EXTENDS ApiProcess

CONSTANTS i1, i2, i3

ThreeRows == {i1, i2, i3}
=============================================================================
