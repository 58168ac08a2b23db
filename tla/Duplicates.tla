----------------------------- MODULE Duplicates -----------------------------
(***************************************************************************)
(* Suspected duplicates and merges. A detection pass searches, records the   *)
(* pairs it found, selects the suspected pairs that no longer resemble each  *)
(* other and deletes them, one statement or transaction at a time, while      *)
(* reviewers decide pairs and merge them. What resembles what is any choice:  *)
(* a pass finds and dooms any pairs its queries may return.                   *)
(*                                                                         *)
(* A merge locks the pair and then both entries, reads, asks whether the      *)
(* loser has dependents and writes; the locks are those its stage says it     *)
(* holds. The two entries are locked in id order, here in one step (RowLocks  *)
(* has the order). Copying fields and its validation are left out: a merge    *)
(* they refuse is one that ends in Refuse.                                    *)
(***************************************************************************)
EXTENDS Naturals, FiniteSets

CONSTANTS
  Entries,
  Passes,            \* detection passes under way at once
  Merges,            \* merge requests under way at once
  None               \* NULL

ASSUME DuplicatesAssumption == None \notin Entries

VARIABLES
  public,            \* approved and listed
  into,              \* merged_into_id
  status,            \* status[p]: of the pair p, "none" where there is no row
  phase, subject, found, doomed,  \* a pass: how far, of which entry, what it found and deletes
  stage, survivor, loser, seen    \* a merge: how far, of which pair, what it read

entries == <<public, into>>
passes == <<phase, subject, found, doomed>>
merges == <<stage, survivor, loser, seen>>
vars == <<entries, status, passes, merges>>

Pairs == {{d, e} : d, e \in Entries} \ {{e} : e \in Entries}
Decided == {"confirmed", "dismissed", "merged"}

TypeOK ==
  /\ public \in [Entries -> BOOLEAN]
  /\ into \in [Entries -> Entries \cup {None}]
  /\ status \in [Pairs -> Decided \cup {"none", "suspected"}]
  /\ phase \in [Passes -> {"idle", "found", "recorded", "selected"}]
  /\ subject \in [Passes -> Entries \cup {None}]
  /\ found \in [Passes -> SUBSET Pairs]
  /\ doomed \in [Passes -> SUBSET Pairs]
  /\ \A p \in Passes : phase[p] = "idle" => found[p] = {} /\ doomed[p] = {}
  /\ stage \in [Merges -> {"idle", "pair", "locked", "cleared"}]
  /\ survivor \in [Merges -> Entries \cup {None}]
  /\ loser \in [Merges -> Entries \cup {None}]
  /\ \A m \in Merges : stage[m] # "idle" =>
       survivor[m] \in Entries /\ loser[m] \in Entries /\ survivor[m] # loser[m]
  /\ seen \in [Merges -> [public : BOOLEAN, into : Entries \cup {None}]]

NothingSeen == [public |-> FALSE, into |-> None]

Init ==
  /\ public \in [Entries -> BOOLEAN]
  /\ into = [e \in Entries |-> None]
  /\ status = [p \in Pairs |-> "none"]
  /\ phase = [p \in Passes |-> "idle"]
  /\ subject = [p \in Passes |-> None]
  /\ found = [p \in Passes |-> {}]
  /\ doomed = [p \in Passes |-> {}]
  /\ stage = [m \in Merges |-> "idle"]
  /\ survivor = [m \in Merges |-> None]
  /\ loser = [m \in Merges |-> None]
  /\ seen = [m \in Merges |-> NothingSeen]

-----------------------------------------------------------------------------
(* Locks: SELECT ... FOR UPDATE of the pair, then of its two entries.          *)

Pair(m) == {survivor[m], loser[m]}
PairFree(p) == \A m \in Merges : stage[m] # "idle" => Pair(m) # p

(* A mistake: a merge reads its two entries without locking them. *)
HoldsNothing(m) == {}

Holds(m) == IF stage[m] \in {"locked", "cleared"} THEN Pair(m) ELSE {}
Free(e) == \A m \in Merges : e \notin Holds(m)

-----------------------------------------------------------------------------
(* A mistake: a review does not ask whether the entry was merged away. *)
MayChangeMerged(e) == Free(e)

(* The entry itself: reviews, listings, replacements and claims move it in and  *)
(* out of the public catalogue, unless it was merged away.                      *)
MayChange(e) == Free(e) /\ into[e] = None

Review(e) ==
  /\ MayChange(e)
  /\ public' = [public EXCEPT ![e] = ~@]
  /\ UNCHANGED <<into, status, passes, merges>>

-----------------------------------------------------------------------------
(* Detection. *)

(* embedAndDetect of entry e: the search leaves out entries merged away.        *)
Search(p, e, pairs) ==
  /\ phase[p] = "idle" /\ into[e] = None
  /\ pairs \subseteq {{e, d} : d \in {x \in Entries \ {e} : into[x] = None}}
  /\ phase' = [phase EXCEPT ![p] = "found"]
  /\ subject' = [subject EXCEPT ![p] = e]
  /\ found' = [found EXCEPT ![p] = pairs]
  /\ UNCHANGED <<entries, status, doomed, merges>>

(* recordPairs: inserts what is not there (waiting, by the foreign keys, for a   *)
(* merge of either entry) and refreshes the numbers of what is suspected.        *)
Record(p) ==
  /\ phase[p] = "found"
  /\ \A pair \in found[p] : status[pair] = "none" => \A e \in pair : Free(e)
  /\ status' = [pair \in Pairs |->
       IF pair \in found[p] /\ status[pair] = "none" THEN "suspected" ELSE status[pair]]
  /\ phase' = [phase EXCEPT ![p] = "recorded"]
  /\ UNCHANGED <<entries, subject, found, doomed, merges>>

(* pairSimilarities, then shouldPrune on what it returned. *)
SelectStale(p, pairs) ==
  /\ phase[p] = "recorded"
  /\ pairs \subseteq {pair \in Pairs : status[pair] = "suspected" /\ subject[p] \in pair}
  /\ phase' = [phase EXCEPT ![p] = "selected"]
  /\ doomed' = [doomed EXCEPT ![p] = pairs]
  /\ UNCHANGED <<entries, status, subject, found, merges>>

(* staleRulesPairs: the nightly resweep, of unmerged entries. *)
Resweep(p, pairs) ==
  /\ phase[p] = "idle"
  /\ pairs \subseteq {pair \in Pairs : status[pair] = "suspected" /\ \A e \in pair : into[e] = None}
  /\ phase' = [phase EXCEPT ![p] = "selected"]
  /\ doomed' = [doomed EXCEPT ![p] = pairs]
  /\ UNCHANGED <<entries, status, subject, found, merges>>

(* deleteByIds: whatever the rows say by now. An id that is deleted is not the   *)
(* id of the row a later pass inserts for the same pair.                        *)
Delete(p) ==
  /\ phase[p] = "selected"
  /\ \A pair \in doomed[p] : PairFree(pair)
  /\ status' = [pair \in Pairs |-> IF pair \in doomed[p] THEN "none" ELSE status[pair]]
  /\ phase' = [phase EXCEPT ![p] = "idle"]
  /\ subject' = [subject EXCEPT ![p] = None]
  /\ found' = [found EXCEPT ![p] = {}]
  /\ doomed' = [q \in Passes |-> doomed[q] \ doomed[p]]
  /\ UNCHANGED <<entries, merges>>

(* A mistake: a pass that failed leaves what it was about to do behind. *)
GiveUpLeaving(p) ==
  /\ phase[p] # "idle"
  /\ phase' = [phase EXCEPT ![p] = "idle"]
  /\ UNCHANGED <<entries, status, subject, found, doomed, merges>>

(* A provider error, a restart. *)
GiveUp(p) ==
  /\ phase[p] # "idle"
  /\ subject' = [subject EXCEPT ![p] = None]
  /\ phase' = [phase EXCEPT ![p] = "idle"]
  /\ found' = [found EXCEPT ![p] = {}]
  /\ doomed' = [doomed EXCEPT ![p] = {}]
  /\ UNCHANGED <<entries, status, merges>>

-----------------------------------------------------------------------------
(* Reviewers. *)

Decide(pair, verdict) ==
  /\ PairFree(pair)
  /\ status[pair] \notin {"none", "merged"}
  /\ status' = [status EXCEPT ![pair] = verdict]
  /\ UNCHANGED <<entries, passes, merges>>

Reopen(pair) ==
  /\ PairFree(pair)
  /\ status[pair] = "dismissed"
  /\ status' = [status EXCEPT ![pair] = "suspected"]
  /\ UNCHANGED <<entries, passes, merges>>

LockPair(m, s, l) ==
  /\ stage[m] = "idle" /\ s # l
  /\ PairFree({s, l})
  /\ status[{s, l}] \notin {"none", "merged"}
  /\ stage' = [stage EXCEPT ![m] = "pair"]
  /\ survivor' = [survivor EXCEPT ![m] = s]
  /\ loser' = [loser EXCEPT ![m] = l]
  /\ UNCHANGED <<entries, status, passes, seen>>

LockEntries(m) ==
  /\ stage[m] = "pair"
  /\ \A e \in Pair(m) : Free(e)
  /\ stage' = [stage EXCEPT ![m] = "locked"]
  /\ seen' = [seen EXCEPT ![m] =
       [public |-> public[survivor[m]], into |-> into[survivor[m]]]]
  /\ UNCHANGED <<entries, status, passes, survivor, loser>>

HasMergeDependent(e) == \E d \in Entries : into[d] = e

(* A mistake: only the survivor is looked at. *)
ClearAnyLoser(m) ==
  /\ stage[m] = "locked"
  /\ seen[m].into = None /\ seen[m].public
  /\ stage' = [stage EXCEPT ![m] = "cleared"]
  /\ UNCHANGED <<entries, status, passes, survivor, loser, seen>>

(* Both halves of the no-chain rule, and the survivor must be public. *)
Clear(m) ==
  /\ stage[m] = "locked"
  /\ ~HasMergeDependent(loser[m])
  /\ seen[m].into = None /\ seen[m].public
  /\ stage' = [stage EXCEPT ![m] = "cleared"]
  /\ UNCHANGED <<entries, status, passes, survivor, loser, seen>>

Release(m) ==
  /\ stage' = [stage EXCEPT ![m] = "idle"]
  /\ survivor' = [survivor EXCEPT ![m] = None]
  /\ loser' = [loser EXCEPT ![m] = None]
  /\ seen' = [seen EXCEPT ![m] = NothingSeen]

(* markMergedAway and the pair's own row. *)
Settle(m) ==
  /\ stage[m] = "cleared"
  /\ public' = [public EXCEPT ![loser[m]] = FALSE]
  /\ into' = [into EXCEPT ![loser[m]] = survivor[m]]
  /\ status' = [status EXCEPT ![Pair(m)] = "merged"]
  /\ Release(m)
  /\ UNCHANGED passes

Refuse(m) ==
  /\ stage[m] # "idle"
  /\ Release(m)
  /\ UNCHANGED <<entries, status, passes>>

-----------------------------------------------------------------------------
Next ==
  \/ \E e \in Entries : Review(e)
  \/ \E p \in Passes :
       \/ \E e \in Entries, pairs \in SUBSET Pairs : Search(p, e, pairs)
       \/ \E pairs \in SUBSET Pairs : SelectStale(p, pairs) \/ Resweep(p, pairs)
       \/ Record(p) \/ Delete(p) \/ GiveUp(p)
  \/ \E pair \in Pairs : Decide(pair, "confirmed") \/ Decide(pair, "dismissed") \/ Reopen(pair)
  \/ \E m \in Merges :
       \/ \E s, l \in Entries : LockPair(m, s, l)
       \/ LockEntries(m) \/ Clear(m) \/ Settle(m) \/ Refuse(m)

Spec == Init /\ [][Next]_vars

-----------------------------------------------------------------------------
(* Properties *)

(* The survivor of a merge was never itself merged away, whatever merges of      *)
(* overlapping pairs run at once: one hop always finds the entry that is left.   *)
NoChains == \A e \in Entries : into[e] # None => into[into[e]] = None

(* An entry merged away never returns to the catalogue, whatever review,         *)
(* listing or claim of it was on its way.                                       *)
MergedStaysAway == \A e \in Entries : into[e] # None => ~public[e]

(* A merge never takes an entry away in favour of one nobody can see: the         *)
(* survivor is public in the very step.                                         *)
MergeKeepsPublic ==
  [][\A e \in Entries : into'[e] # into[e] => public'[into'[e]]]_vars

(* "Detection never resurrects a decision": what a reviewer confirmed, dismissed *)
(* or merged stays so until a reviewer reopens it.                              *)
DecisionStands ==
  [][\A pair \in Pairs : status[pair] \in Decided =>
       status'[pair] \in Decided \/ Reopen(pair)]_vars
=============================================================================
