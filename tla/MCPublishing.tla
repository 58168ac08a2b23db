---------------------------- MODULE MCPublishing ----------------------------
(* Small instances of Publishing for TLC. *)
EXTENDS Publishing, TLC

CONSTANTS m, s, p, q, e1, e2, d1, d2, r1, r2

MiaAndSam == {m, s}
TwoOrgs == {p, q}
TwoEntries == {e1, e2}
TwoDocuments == {d1, d2}
TwoRequests == {r1, r2}

(* Every document is operated by p, and only by p. *)
OperatedByP == [d \in Documents |-> {p}]
PrefixP == [e \in Entries |-> p]

(* A publisher and a reviewer over one entry. *)
Authority ==
  [accounts |-> {m, s}, publishers |-> {m}, trusted |-> {m}, editors |-> {s}, admins |-> {}, orgs |-> {p},
   entries |-> {e1}, imported |-> {}, curated |-> {}, documents |-> {d1, d2}, claimLimit |-> 1]

(* One account without friends, submitting two entries. *)
Queue ==
  [accounts |-> {s}, publishers |-> {}, trusted |-> {}, editors |-> {}, admins |-> {}, orgs |-> {p},
   entries |-> {e1, e2}, imported |-> {}, curated |-> {}, documents |-> {d1, d2}, claimLimit |-> 1]

(* One account that claims an imported entry for two organisations. *)
Claims ==
  [accounts |-> {m}, publishers |-> {m}, trusted |-> {}, editors |-> {}, admins |-> {}, orgs |-> {p, q},
   entries |-> {e1}, imported |-> {e1}, curated |-> {e1}, documents |-> {d1}, claimLimit |-> 2]

(* The same account and two imported entries, for a limit of one claim. *)
Ceiling ==
  [accounts |-> {m}, publishers |-> {}, trusted |-> {}, editors |-> {}, admins |-> {}, orgs |-> {p},
   entries |-> {e1, e2}, imported |-> {e1, e2}, curated |-> {}, documents |-> {d1}, claimLimit |-> 1]

AllCasts == {Authority, Queue, Claims, Ceiling}

Interchangeable == Permutations(Requests) \cup Permutations(Documents) \cup Permutations(Entries)
=============================================================================
