----------------------------- MODULE MCMcpSubmit -----------------------------
(* Small instances of McpSubmit for TLC. *)
EXTENDS McpSubmit

CONSTANTS s1, s2, t1, doc

TwoServers == {s1, s2}
OneTerminal == {t1}
OneDocument == {doc}
LockCaps == [attempt |-> 2, preview |-> 1, commit |-> 1]

(* A server dies, or the clock moves: a window passes and the clock is set back into it. *)
OneOrTheOther == {[clock |-> 0, setBacks |-> 0, crashes |-> 1, previews |-> 1],
                  [clock |-> 1, setBacks |-> 1, crashes |-> 0, previews |-> 2]}
=============================================================================
