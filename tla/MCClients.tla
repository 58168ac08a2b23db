----------------------------- MODULE MCClients -----------------------------
(* Small instances of Clients for TLC. *)
EXTENDS MCMcpSubmit, MCExport, MCListingEditor, Clients

CONSTANTS ann, ben, x, y, k1, k2

TwoPeople == {ann, ben}
TwoTexts == {x, y}
TwoLoaders == {k1, k2}
=============================================================================
