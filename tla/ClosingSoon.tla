---------------------------- MODULE ClosingSoon ----------------------------
(***************************************************************************)
(* What a reviewer is told will be closed for inactivity: the first entries  *)
(* of the window, read in the order of their inactivity clocks and no further *)
(* than needed, from one snapshot. When the job will close an entry is its   *)
(* rule solved for time, so the list promises what the job of Staleness does. *)
(***************************************************************************)
EXTENDS Staleness

CONSTANTS
  Windows,           \* how far ahead a reviewer may ask
  Lengths,           \* limit: how many entries a list has
  ScanCaps           \* scanCap: how many rows a walk examines

ASSUME ClosingSoonAssumption ==
  Windows \subseteq Nat /\ Lengths \subseteq Nat \ {0} /\ ScanCaps \subseteq Nat \ {0}

-----------------------------------------------------------------------------
(* staleness.ts: the rule projected *)

LastDate(dates) == CHOOSE d \in dates : \A c \in dates : c <= d

QuietUntil(e) == e.touched + InactiveAfter

(* A mistake: a programme with a rolling intake closes when it has been quiet.  *)
ClosesWhenQuiet(e, t) ==
  CASE PastDue(e.text, t) -> None
    [] e.text.dates = {} \/ e.text.rolling -> QuietUntil(e)
    [] OTHER -> IF QuietUntil(e) < LastDate(e.text.dates) THEN LastDate(e.text.dates) ELSE None

(* inactivityClosesAt: from when on the job says inactive, or None. A date that *)
(* is over or to come postpones it; without a rolling intake only at that date, *)
(* after which the entry is past due.                                          *)
ClosesAt(e, t) ==
  CASE PastDue(e.text, t) -> None
    [] e.text.dates = {} -> QuietUntil(e)
    [] OTHER ->
         LET latest == LastDate(e.text.dates)
         IN IF QuietUntil(e) < latest THEN latest
            ELSE IF e.text.rolling THEN QuietUntil(e) ELSE None

Sooner(i, j, t) ==
  LET a == ClosesAt(row[i], t)
      b == ClosesAt(row[j], t)
  IN a < b \/ (a = b /\ i < j)

(* The n of a set of entries that close first. *)
Soonest(S, n, t) == {i \in S : Cardinality({j \in S : Sooner(j, i, t)}) < n}

(* listClosingSoonCandidates: what the database can tell, and which of it comes first in *)
(* the order of the clocks.                                                         *)
ClosingCandidates(horizon) ==
  {i \in Entries : /\ row[i].open
                   /\ row[i].next = None \/ row[i].next <= horizon
                   /\ QuietUntil(row[i]) <= horizon}

QuietLonger(i, j) == row[i].touched < row[j].touched \/ (row[i].touched = row[j].touched /\ i < j)
QuietLongest(rows) == CHOOSE i \in rows : \A j \in rows \ {i} : QuietLonger(i, j)

(* A mistake: a tie with the last one kept ends the walk. *)
NothingEarlierOrEqual(kept, n, floor, t) ==
  Cardinality(kept) = n /\ \A j \in kept : ClosesAt(row[j], t) <= floor

(* No row from here on closes before what is kept. *)
NothingEarlier(kept, n, floor, t) ==
  Cardinality(kept) = n /\ \A j \in kept : ClosesAt(row[j], t) < floor

(* One row of the walk, which keeps one more than the list has. *)
Examine(walked, i, horizon, n, t) ==
  LET closes == ClosesAt(row[i], t)
  IN IF NothingEarlier(walked.kept, n, QuietUntil(row[i]), t)
     THEN [walked EXCEPT !.proven = TRUE]
     ELSE [walked EXCEPT !.seen = @ \cup {i},
                         !.kept = IF closes = None \/ closes > horizon THEN @ ELSE Soonest(@ \cup {i}, n, t)]

(* The next row, if the walk goes on and there is one. *)
ExamineNext(walked, horizon, n, t) ==
  LET left == ClosingCandidates(horizon) \ walked.seen
  IN IF walked.proven \/ left = {} THEN walked
     ELSE Examine(walked, QuietLongest(left), horizon, n, t)

(* The walk after so many rows. *)
Scan(horizon, n, t) ==
  LET after[k \in Nat] == IF k = 0 THEN [seen |-> {}, kept |-> {}, proven |-> FALSE]
                         ELSE ExamineNext(after[k - 1], horizon, n, t)
  IN after

(* earliestInactivityClosings. *)
EarliestClosings(horizon, limit, cap, t) ==
  LET walked == Scan(horizon, limit + 1, t)[cap]
  IN [due |-> Soonest(walked.kept, limit, t),
      truncated |-> Cardinality(walked.kept) > limit,
      complete |-> walked.proven \/ Cardinality(ClosingCandidates(horizon)) < cap]

-----------------------------------------------------------------------------
(* Properties *)

(* The job's own rule, on an instant and on those between it and the next one. *)
SaysInactive(e, u) == ~PastDue(e.text, u) /\ Inactive(e, u)
SaysInactiveAfter(e, u) ==
  ~PastDue(e.text, u + 1) /\ NextDeadline(e.text, u) = None /\ QuietUntil(e) < u + 1

WouldClose(e, u) == SaysInactive(e, u) \/ SaysInactiveAfter(e, u)

(* "The list cannot promise a date the job will not keep": the date of an entry is *)
(* the first one, from now on, on which the job's rule says inactive; one that     *)
(* is over means the next run.                                                    *)
PromiseKept(e, t) ==
  LET closes == ClosesAt(e, t)
  IN IF closes = None THEN \A u \in t..MaxNow : ~WouldClose(e, u)
     ELSE IF closes < t THEN SaysInactive(e, t)
     ELSE WouldClose(e, closes) /\ \A u \in t..(closes - 1) : ~WouldClose(e, u)

(* The walk stops early and is exact all the same: unless it says that it is not   *)
(* complete, it lists the first of all open entries the job closes in the window,  *)
(* and says truly whether there are more.                                         *)
ClosingsExact ==
  /\ \A i \in Entries : row[i].open => PromiseKept(row[i], now)
  /\ \A window \in Windows, limit \in Lengths, cap \in ScanCaps :
       LET horizon == now + window
           list == EarliestClosings(horizon, limit, cap, now)
           closing == {i \in Entries : row[i].open /\ \E u \in now..horizon : WouldClose(row[i], u)}
       IN list.complete =>
            /\ list.due = Soonest(closing, limit, now)
            /\ list.truncated <=> Cardinality(closing) > limit
=============================================================================
