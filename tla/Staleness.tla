----------------------------- MODULE Staleness -----------------------------
(***************************************************************************)
(* The job that closes entries whose deadlines are over, or that nobody      *)
(* touched for long, and renews the derived key of their next deadline. It   *)
(* walks the candidates by id, a page at a time, decides on what the page     *)
(* said, and decides again on the locked row before it writes.               *)
(*                                                                         *)
(* A time is a number; a run goes by the clock it started with.              *)
(***************************************************************************)
EXTENDS JobRunner, Sequences, FiniteSets, SequencesExt

CONSTANTS
  Entries,           \* ids
  InactiveAfter,     \* STALENESS_INACTIVE_DAYS
  PageSize, Limit,   \* PAGE; how many rows one pass examines
  MaxEdits,          \* bound on publishers' writes
  Texts,             \* deadlines a publisher may write: sets of dates, rolling or not
  Poisonous          \* entries no write of which may succeed, and None

ASSUME StalenessAssumption ==
  /\ Entries \subseteq Nat /\ IsFiniteSet(Entries) /\ InactiveAfter \in Nat
  /\ PageSize \in Nat \ {0} /\ Limit \in Nat \ {0} /\ MaxEdits \in Nat
  /\ Texts \subseteq [dates : SUBSET Nat, rolling : BOOLEAN] /\ Texts # {}
  /\ \A text \in Texts : IsFiniteSet(text.dates)
  /\ Poisonous \subseteq Entries \cup {None}

VARIABLES
  row,               \* the entries: open, text, next_deadline_at, the inactivity clock
  edits,
  walk,              \* the pass of a runner
  poison             \* an entry no write of which succeeds, or None

entryVars == <<row, edits, walk, poison>>

Row == [open : BOOLEAN, text : Texts, next : Nat \cup {None}, touched : Times]

NoWalk == [on |-> FALSE, asOf |-> 0, cursor |-> 0, examined |-> 0, changed |-> FALSE, page |-> <<>>]

StalenessTypeOK ==
  /\ row \in [Entries -> Row]
  /\ edits \in 0..MaxEdits
  /\ poison \in Entries \cup {None}
  /\ \A r \in Runners :
       /\ walk[r].asOf \in Times
       /\ walk[r].examined + Len(walk[r].page) <= Limit
       /\ Len(walk[r].page) <= PageSize

-----------------------------------------------------------------------------
(* deadlines.ts and staleness.ts *)

Earliest(dates) == CHOOSE d \in dates : \A c \in dates : d <= c

NextDeadline(text, t) ==
  LET later == {d \in text.dates : d > t}
  IN IF later = {} THEN None ELSE Earliest(later)

PastDue(text, t) == ~text.rolling /\ text.dates # {} /\ \A d \in text.dates : d < t

Inactive(e, t) == NextDeadline(e.text, t) = None /\ e.touched + InactiveAfter < t

ClosureReason(e, t) == PastDue(e.text, t) \/ Inactive(e, t)

Candidate(e, t) == e.open /\ (e.next = None \/ e.next <= t)

StalenessInit ==
  /\ \E texts \in [Entries -> Texts] :
       row = [i \in Entries |-> [open |-> TRUE, text |-> texts[i],
                                 next |-> NextDeadline(texts[i], 0), touched |-> 0]]
  /\ edits = 0
  /\ walk = [r \in Runners |-> NoWalk]
  /\ poison \in Poisonous

StalenessIdle ==
  /\ LET any == CHOOSE text \in Texts : TRUE
     IN row = [i \in Entries |-> [open |-> FALSE, text |-> any,
                                  next |-> NextDeadline(any, 0), touched |-> 0]]
  /\ edits = 0
  /\ walk = [r \in Runners |-> NoWalk]
  /\ poison = None

-----------------------------------------------------------------------------
(* A publisher's write, an approval, a reviewer's confirmation. *)
Edit(i, text, open) ==
  /\ edits < MaxEdits
  /\ edits' = edits + 1
  /\ row' = [row EXCEPT ![i] = [open |-> open, text |-> text,
                                next |-> NextDeadline(text, now), touched |-> now]]
  /\ UNCHANGED <<walk, poison>>

(* runBatch begins. *)
BeginWalk(r) ==
  /\ walk' = [walk EXCEPT ![r] = [NoWalk EXCEPT !.on = TRUE, !.asOf = now]]
  /\ UNCHANGED <<row, edits, poison>>

Ahead(r) == {i \in Entries : i > walk[r].cursor /\ Candidate(row[i], walk[r].asOf)}

WalkOver(r) ==
  walk[r].page = <<>> /\ (walk[r].examined = Limit \/ Ahead(r) = {})

EndWalk(r) ==
  /\ walk' = [walk EXCEPT ![r] = NoWalk]
  /\ UNCHANGED <<row, edits, poison>>

ById(ids) == SetToSortSeq(ids, <)

(* The next page: at most as many as the limit leaves. *)
ReadPage(r) ==
  LET w == walk[r]
      ids == ById(Ahead(r))
      room == IF Limit - w.examined < PageSize THEN Limit - w.examined ELSE PageSize
      n == IF Cardinality(Ahead(r)) < room THEN Cardinality(Ahead(r)) ELSE room
  IN /\ w.on /\ w.page = <<>> /\ n > 0
     /\ walk' = [walk EXCEPT ![r].page = [k \in 1..n |-> [id |-> ids[k], row |-> row[ids[k]]]]]
     /\ UNCHANGED <<row, edits, poison>>

Renewed(e, seen, t) == [e EXCEPT !.next = NextDeadline(seen.text, t)]
Closed(e, seen, t) == [Renewed(e, seen, t) EXCEPT !.open = FALSE]

(* A mistake: an entry is closed for what the page said. *)
DecideOnPage(seen, current, t) ==
  IF ClosureReason(seen, t) THEN Closed(current, current, t)
  ELSE IF seen.next # NextDeadline(seen.text, t) THEN Renewed(current, current, t)
  ELSE current

(* Another: the key is that of the deadlines on the page. *)
DecideWithKeyOfPage(seen, current, t) ==
  IF ClosureReason(seen, t)
  THEN IF current.open /\ ClosureReason(current, t) THEN Closed(current, current, t) ELSE current
  ELSE IF seen.next # NextDeadline(seen.text, t) THEN Renewed(current, seen, t)
  ELSE current

(* settle: what the page said opens a transaction or not; what is written, if   *)
(* anything, is what the locked row says.                                      *)
Decide(seen, current, t) ==
  IF ClosureReason(seen, t)
  THEN IF current.open /\ ClosureReason(current, t) THEN Closed(current, current, t) ELSE current
  ELSE IF seen.next # NextDeadline(seen.text, t) THEN Renewed(current, current, t)
  ELSE current

Visited(r, changed) ==
  [walk EXCEPT ![r].page = Tail(@), ![r].cursor = Head(walk[r].page).id,
               ![r].examined = @ + 1, ![r].changed = @ \/ changed]

Settle(r) ==
  /\ walk[r].page # <<>>
  /\ LET i == Head(walk[r].page).id
         decided == Decide(Head(walk[r].page).row, row[i], walk[r].asOf)
     IN /\ i = poison => decided = row[i]
        /\ row' = [row EXCEPT ![i] = decided]
        /\ walk' = Visited(r, decided # row[i])
  /\ UNCHANGED <<edits, poison>>

(* A mistake: a row that throws ends the walk. *)
GiveUpWalk(r) ==
  /\ walk[r].page # <<>> /\ Head(walk[r].page).id = poison
  /\ walk' = [walk EXCEPT ![r].page = <<>>, ![r].examined = Limit]
  /\ UNCHANGED <<row, edits, poison>>

(* A row that throws is left for the next night, and the walk goes on. *)
SkipPoison(r) ==
  /\ walk[r].page # <<>>
  /\ LET seen == Head(walk[r].page)
     IN seen.id = poison /\ Decide(seen.row, row[seen.id], walk[r].asOf) # row[seen.id]
  /\ walk' = Visited(r, FALSE)
  /\ UNCHANGED <<row, edits, poison>>

StepWalk(r) == ReadPage(r) \/ Settle(r) \/ SkipPoison(r)

(* A limit that was reached leaves the candidates behind it. *)
WalkGoesOn(r) == walk[r].changed /\ walk[r].examined = Limit /\ Ahead(r) # {}

-----------------------------------------------------------------------------
(* Properties *)

(* The job closes an entry only for what its row says when it is closed: a        *)
(* publisher's write, a check or a confirmation that came after the page was      *)
(* read is what counts.                                                         *)
ClosedForItsText ==
  [][\A i \in Entries :
       row[i].open /\ ~row'[i].open /\ edits' = edits =>
         row'[i].text = row[i].text /\ ClosureReason(row[i], now)]_<<now, entryVars>>

(* The key that deadline filters and sorts go by is a date of the entry's present  *)
(* deadlines, and none that is still to come is skipped.                          *)
KeyFollowsDeadlines ==
  /\ StalenessTypeOK
  /\ \A i \in Entries :
       LET e == row[i]
       IN /\ e.next # None => e.next \in e.text.dates
          /\ \A d \in e.text.dates : d > now => e.next # None /\ e.next <= d

(* One entry no write of which succeeds does not stop the others: an entry within *)
(* reach of a pass, that has a reason to be closed, is closed.                    *)
WithinReach(i) == Cardinality({j \in Entries : j < i /\ Candidate(row[j], now)}) < Limit

EventuallyClosed ==
  <>[](\A i \in Entries : row[i].open /\ WithinReach(i) /\ ClosureReason(row[i], now) => i = poison)
=============================================================================
