--------------------------- MODULE LinkOutProofs ---------------------------
(***************************************************************************)
(* Proofs about LinkOut, for any URLs, sites, checks and reviewers: the     *)
(* state is well typed, and a verdict is only ever kept with the text it is *)
(* about. The second follows from the first step by step: only Apply makes  *)
(* the entry current, and Apply compares the row it locked with the row the *)
(* check read; whatever moves updated_at takes `current` away with it. The  *)
(* third needs to know what the baseline is worth while a vouched link      *)
(* stands: the site of the last applied check, which every other one saw    *)
(* too unless readers are warned.                                           *)
(***************************************************************************)
EXTENDS LinkOut, TLAPS, FiniteSetTheorems

USE LinkOutAssumption

(* The stamp of a write, and the verdict it takes away. *)
LEMMA TouchType ==
  ASSUME TypeOK, Touch
  PROVE  updated' \in 0..MaxUpdates /\ current' \in BOOLEAN
<1>1. MaxUpdates \in Nat
  BY DEF LinkOutAssumption
<1>2. updated \in Nat /\ updated < MaxUpdates /\ updated' = updated + 1
  BY <1>1 DEF TypeOK, Touch
<1>3. updated + 1 \in 0..MaxUpdates
  BY <1>1, <1>2
<1>4. current' = FALSE
  BY DEF Touch
<1> QED
  BY <1>2, <1>3, <1>4

(* The updates of the row: they move updated_at and make the entry owed. *)
LEMMA WriteType ==
  ASSUME TypeOK, NEW u \in Urls, NEW reviewer \in BOOLEAN, NEW immediate \in BOOLEAN,
         NEW changed \in BOOLEAN, Write(u, reviewer, immediate, changed)
  PROVE  TypeOK'
<1>1. updated' \in 0..MaxUpdates /\ current' \in BOOLEAN
  BY TouchType DEF Write
<1>2. /\ pin' \in Urls \cup {None}
      /\ flagged' \in BOOLEAN /\ landings' \subseteq Sites /\ edited' \in BOOLEAN
  BY DEF TypeOK, Write, Pin, KeepPins
<1>3. /\ url' \in Urls /\ status' \in {"pending", "approved", "rejected"}
      /\ closed' \in BOOLEAN
  BY DEF TypeOK, Write
<1> QED
  BY <1>1, <1>2, <1>3 DEF TypeOK, Write, Touch, checks

(* The import of the curated corpus. *)
LEMMA ImportType ==
  ASSUME TypeOK, NEW u \in Urls, Import(u)
  PROVE  TypeOK'
<1>1. updated' \in 0..MaxUpdates /\ current' \in BOOLEAN
  BY TouchType DEF Import
<1> QED
  BY <1>1 DEF TypeOK, Import, Touch, checks

(* The reviewers' decisions. *)
LEMMA DecisionType ==
  ASSUME TypeOK, Approve \/ Reject
  PROVE  TypeOK'
<1>1. updated' \in 0..MaxUpdates /\ current' \in BOOLEAN
  BY TouchType DEF Approve, Reject
<1>2. /\ pin' \in Urls \cup {None}
      /\ flagged' \in BOOLEAN /\ landings' \subseteq Sites /\ edited' \in BOOLEAN
  BY DEF TypeOK, Approve, Reject, Pin, KeepPins
<1> QED
  BY <1>1, <1>2 DEF TypeOK, Approve, Reject, Touch, checks

(* What publishers, claims and the staleness job do to the status. *)
LEMMA StatusType ==
  ASSUME TypeOK,
         Release("approved") \/ Release("rejected") \/ GrantClaim \/ CloseStale
  PROVE  TypeOK'
<1>1. CASE CloseStale
  BY <1>1 DEF TypeOK, CloseStale, checks, history
<1>2. CASE Release("approved") \/ Release("rejected") \/ GrantClaim
  <2>1. updated' \in 0..MaxUpdates /\ current' \in BOOLEAN
    BY <1>2, TouchType DEF Release, GrantClaim
  <2>2. /\ UNCHANGED <<pin, flagged, landings>> /\ edited' \in BOOLEAN
    BY <1>2 DEF TypeOK, Release, GrantClaim, KeepPins
  <2> QED
    BY <1>2, <2>1, <2>2 DEF TypeOK, Release, GrantClaim, Touch, checks
<1> QED
  BY <1>1, <1>2

(* The steps of a check that leave the row alone. *)
LEMMA CheckType ==
  ASSUME TypeOK, NEW c \in Checks,
         \/ StartCheck(c) \/ Discard(c) \/ Crash(c)
         \/ \E o \in {"transient", "refused", "answered"} : Fetch(c, o)
  PROVE  TypeOK'
<1>1. CASE StartCheck(c)
  <2>1. phase' \in [Checks -> {"idle", "fetching", "fetched"}]
    BY <1>1 DEF TypeOK, StartCheck
  <2>2. seen' \in [Checks -> [url : Urls, updated : 0..MaxUpdates]]
    BY <1>1 DEF TypeOK, StartCheck
  <2> QED
    BY <1>1, <2>1, <2>2 DEF TypeOK, StartCheck, row, history
<1>2. CASE Discard(c) \/ Crash(c)
  <2>1. phase' \in [Checks -> {"idle", "fetching", "fetched"}]
    BY <1>2 DEF TypeOK, Discard, Crash, Finish
  <2>2. /\ outcome' \in [Checks -> {"none", "transient", "refused", "answered"}]
        /\ landing' \in [Checks -> Sites \cup {None}]
        /\ \A d \in Checks : (outcome'[d] = "answered") <=> (landing'[d] # None)
    BY <1>2 DEF TypeOK, Discard, Crash, Finish
  <2> QED
    BY <1>2, <2>1, <2>2 DEF TypeOK, Discard, Crash, Finish, row, history
<1>3. CASE \E o \in {"transient", "refused", "answered"} : Fetch(c, o)
  <2> PICK o \in {"transient", "refused", "answered"} : Fetch(c, o)
    BY <1>3
  <2>1. phase' \in [Checks -> {"idle", "fetching", "fetched"}]
    BY DEF TypeOK, Fetch
  <2>2. lands[seen[c].url] \in Sites
    BY DEF TypeOK
  <2>3. /\ outcome' \in [Checks -> {"none", "transient", "refused", "answered"}]
        /\ landing' \in [Checks -> Sites \cup {None}]
        /\ \A d \in Checks : (outcome'[d] = "answered") <=> (landing'[d] # None)
    BY <2>2 DEF TypeOK, Fetch
  <2> QED
    BY <2>1, <2>3 DEF TypeOK, Fetch, row, history
<1> QED
  BY <1>1, <1>2, <1>3

(* The answer of a check, under the lock of the row. *)
LEMMA ApplyType ==
  ASSUME TypeOK, NEW c \in Checks, Apply(c)
  PROVE  TypeOK'
<1>1. phase' \in [Checks -> {"idle", "fetching", "fetched"}]
  BY DEF TypeOK, Apply, Finish
<1>2. /\ outcome' \in [Checks -> {"none", "transient", "refused", "answered"}]
      /\ landing' \in [Checks -> Sites \cup {None}]
      /\ \A d \in Checks : (outcome'[d] = "answered") <=> (landing'[d] # None)
  BY DEF TypeOK, Apply, Finish
<1>3. /\ seen[c].url \in Urls /\ seen[c].updated \in 0..MaxUpdates
      /\ (outcome[c] = "answered" => landing[c] \in Sites)
  BY DEF TypeOK
<1>4. base' \in [url : Urls, site : Sites] \cup {NoBase}
  BY <1>3 DEF TypeOK, Apply
<1>5. flagged' \in BOOLEAN /\ landings' \subseteq Sites
  BY <1>3 DEF TypeOK, Apply, LandingMove
<1>6. basis' \in 0..MaxUpdates \cup {None} /\ current' \in BOOLEAN
  BY <1>3 DEF TypeOK, Apply
<1> QED
  BY <1>1, <1>2, <1>4, <1>5, <1>6 DEF TypeOK, Apply, Finish

(* Every reachable state is well typed; in particular a check keeps a landing   *)
(* exactly while it has an answer.                                              *)
THEOREM TypeCorrectness == Spec => []TypeOK
<1>1. Init => TypeOK
  <2>1. 0 \in 0..MaxUpdates
    BY DEF LinkOutAssumption
  <2> SUFFICES ASSUME Init PROVE TypeOK
    OBVIOUS
  <2>2. /\ updated \in 0..MaxUpdates /\ basis \in 0..MaxUpdates \cup {None}
        /\ seen \in [Checks -> [url : Urls, updated : 0..MaxUpdates]]
    BY <2>1 DEF Init
  <2>3. /\ outcome \in [Checks -> {"none", "transient", "refused", "answered"}]
        /\ landing \in [Checks -> Sites \cup {None}]
        /\ \A c \in Checks : (outcome[c] = "answered") <=> (landing[c] # None)
    BY DEF Init
  <2>4. phase \in [Checks -> {"idle", "fetching", "fetched"}]
    BY DEF Init
  <2>5. /\ closed \in BOOLEAN /\ flagged \in BOOLEAN
        /\ current \in BOOLEAN /\ edited \in BOOLEAN
        /\ landings \subseteq Sites
    BY DEF Init
  <2>6. /\ status \in {"pending", "approved", "rejected"}
        /\ pin \in Urls \cup {None}
        /\ base \in [url : Urls, site : Sites] \cup {NoBase}
    BY DEF Init
  <2> QED
    BY <2>2, <2>3, <2>4, <2>5, <2>6 DEF Init, TypeOK
<1>2. TypeOK /\ [Next]_vars => TypeOK'
  <2> SUFFICES ASSUME TypeOK, [Next]_vars PROVE TypeOK'
    OBVIOUS
  <2>1. CASE \E u \in Urls, reviewer, immediate, changed \in BOOLEAN :
               Write(u, reviewer, immediate, changed)
    BY <2>1, WriteType
  <2>2. CASE Approve \/ Reject
    BY <2>2, DecisionType
  <2>3. CASE Release("approved") \/ Release("rejected") \/ GrantClaim \/ CloseStale
    BY <2>3, StatusType
  <2>4. ASSUME NEW c \in Checks,
               \/ StartCheck(c) \/ Discard(c) \/ Crash(c)
               \/ \E o \in {"transient", "refused", "answered"} : Fetch(c, o)
        PROVE TypeOK'
    BY <2>4, CheckType
  <2>5. ASSUME NEW c \in Checks, Apply(c) PROVE TypeOK'
    BY <2>5, ApplyType
  <2>6. ASSUME NEW u \in Urls, NEW s \in Sites, Retarget(u, s) PROVE TypeOK'
    BY <2>6 DEF TypeOK, Retarget, row, checks, history
  <2>7. ASSUME NEW u \in Urls, Import(u) PROVE TypeOK'
    BY <2>7, ImportType
  <2>8. CASE UNCHANGED vars
    BY <2>8 DEF TypeOK, vars, row, checks, history
  <2> QED
    BY <2>1, <2>2, <2>3, <2>4, <2>5, <2>6, <2>7, <2>8 DEF Next
<1> QED
  BY <1>1, <1>2, PTL DEF Spec

-----------------------------------------------------------------------------
(* A verdict that lands during an edit is never kept with the new text: an      *)
(* entry that counts as current was checked as it reads now.                    *)
THEOREM CurrentIsChecked == Spec => []VerdictIsAboutContent
<1>1. Init => VerdictIsAboutContent
  BY DEF Init, VerdictIsAboutContent
<1>2. VerdictIsAboutContent /\ [Next]_vars => VerdictIsAboutContent'
  <2> SUFFICES ASSUME VerdictIsAboutContent, [Next]_vars PROVE VerdictIsAboutContent'
    OBVIOUS
  <2>1. CASE Touch
    BY <2>1 DEF Touch, VerdictIsAboutContent
  <2>2. CASE UNCHANGED <<current, basis, updated>>
    BY <2>2 DEF VerdictIsAboutContent
  <2>3. ASSUME NEW c \in Checks, Apply(c) PROVE VerdictIsAboutContent'
    BY <2>3 DEF Apply, Stale, VerdictIsAboutContent
  <2>4. \/ Touch \/ UNCHANGED <<current, basis, updated>>
        \/ \E c \in Checks : Apply(c)
    BY DEF Next, Write, Import, Approve, Reject, Release, GrantClaim, CloseStale,
           StartCheck, Fetch, Discard, Crash, Retarget, vars, row
  <2> QED
    BY <2>1, <2>2, <2>3, <2>4
<1> QED
  BY <1>1, <1>2, PTL DEF Spec

-----------------------------------------------------------------------------
(* While the link is the one that was vouched for: the baseline is the last site an applied  *)
(* check of it saw, and either every one saw that site or readers are warned. A baseline    *)
(* that an earlier link left behind is no obstacle: it is only compared for the same link.  *)
VouchedHolds ==
  pin # None /\ ~edited =>
    /\ url = pin
    /\ landings # {} => base.url = pin
    /\ flagged \/ landings \subseteq {base.site}

(* A pin that is set anew.                                                              *)
LEMMA PinVouches ==
  ASSUME NEW u, Pin(u), url' = u
  PROVE  VouchedHolds'
BY DEF Pin, VouchedHolds

(* Pins that are kept, whatever becomes of the stored link.                               *)
LEMMA KeepVouches ==
  ASSUME VouchedHolds, NEW u, KeepPins(u), url' = u, base' = base
  PROVE  VouchedHolds'
BY DEF KeepPins, VouchedHolds

(* An answer that is applied is of the vouched link, or changes nothing about it.          *)
LEMMA ApplyVouches ==
  ASSUME TypeOK, VouchedHolds, NEW c \in Checks, Apply(c)
  PROVE  VouchedHolds'
<1>1. seen[c].url = url /\ UNCHANGED <<url, pin, edited>>
  BY DEF Apply, Stale, TypeOK
<1>2. CASE outcome[c] # "answered"
  <2>1. UNCHANGED <<base, flagged, landings>>
    BY <1>2 DEF Apply
  <2> QED
    BY <1>1, <2>1 DEF VouchedHolds
<1>3. CASE outcome[c] = "answered"
  <2> DEFINE site == landing[c]
  <2>1. /\ base' = [url |-> url, site |-> site]
        /\ flagged' = (flagged \/ (base.url = url /\ base.site # site))
        /\ landings' = IF url = pin THEN landings \cup {site} ELSE landings
    BY <1>1, <1>3 DEF Apply, LandingMove
  <2>2. base'.url = url /\ base'.site = site
    BY <2>1
  <2> HIDE DEF site
  <2>3. ASSUME pin # None, ~edited
        PROVE  base'.url = pin /\ (flagged' \/ landings' \subseteq {base'.site})
    <3>1. url = pin /\ (landings # {} => base.url = pin) /\ (flagged \/ landings \subseteq {base.site})
      BY <2>3 DEF VouchedHolds
    <3>2. CASE landings = {} \/ base.site = site
      BY <2>1, <2>2, <3>1, <3>2
    <3>3. CASE landings # {} /\ base.site # site
      BY <2>1, <2>2, <3>1, <3>3
    <3> QED
      BY <2>2, <3>1, <3>2, <3>3
  <2> QED
    BY <1>1, <2>3 DEF VouchedHolds
<1> QED
  BY <1>2, <1>3

(* Steps that leave the link, its pins, its baseline and what checks of it saw alone.        *)
LEMMA OthersVouch ==
  ASSUME VouchedHolds, UNCHANGED <<url, pin, flagged, base, landings, edited>>
  PROVE  VouchedHolds'
BY DEF VouchedHolds

(* Each step.                                                                           *)
LEMMA StepVouches ==
  ASSUME TypeOK, VouchedHolds, [Next]_vars
  PROVE  VouchedHolds'
<1>1. ASSUME NEW u \in Urls, NEW reviewer \in BOOLEAN, NEW immediate \in BOOLEAN,
             NEW changed \in BOOLEAN, Write(u, reviewer, immediate, changed)
      PROVE  VouchedHolds'
  <2>1. url' = u /\ base' = base /\ (Pin(u) \/ KeepPins(u))
    BY <1>1 DEF Write, Touch
  <2> QED
    BY <2>1, PinVouches, KeepVouches
<1>2. ASSUME NEW u \in Urls, Import(u) PROVE VouchedHolds'
  BY <1>2 DEF Import, VouchedHolds
<1>3. CASE Approve
  <2>1. Pin(url) /\ url' = url
    BY <1>3 DEF Approve
  <2> QED
    BY <2>1, PinVouches
<1>4. CASE Reject \/ Release("approved") \/ Release("rejected") \/ GrantClaim
  <2>1. KeepPins(url) /\ url' = url /\ base' = base
    BY <1>4 DEF Reject, Release, GrantClaim, Touch
  <2> QED
    BY <2>1, KeepVouches
<1>5. CASE CloseStale \/ UNCHANGED vars
  BY <1>5, OthersVouch DEF CloseStale, vars, row, history
<1>6. ASSUME NEW c \in Checks,
             \/ StartCheck(c) \/ Apply(c) \/ Discard(c) \/ Crash(c)
             \/ \E o \in {"transient", "refused", "answered"} : Fetch(c, o)
      PROVE  VouchedHolds'
  <2>1. CASE Apply(c)
    BY <2>1, ApplyVouches
  <2>2. CASE ~Apply(c)
    BY <1>6, <2>2, OthersVouch DEF StartCheck, Discard, Crash, Fetch, row, history
  <2> QED
    BY <2>1, <2>2
<1>7. ASSUME NEW u \in Urls, NEW s \in Sites, Retarget(u, s) PROVE VouchedHolds'
  BY <1>7, OthersVouch DEF Retarget, row, history
<1> QED
  BY <1>1, <1>2, <1>3, <1>4, <1>5, <1>6, <1>7 DEF Next

(* For any number of checks, however their answers are ordered, dropped or about a text that *)
(* is gone: behind a straight hop of a link nobody edited, applied checks saw one site.      *)
THEOREM StraightHopStays == Spec => []StraightHopStaysPut
<1>1. Init => VouchedHolds
  BY DEF Init, VouchedHolds
<1>2. TypeOK /\ VouchedHolds /\ [Next]_vars => VouchedHolds'
  BY StepVouches
<1>3. TypeOK /\ VouchedHolds => StraightHopStaysPut
  <2> SUFFICES ASSUME TypeOK, VouchedHolds, StraightHop, ~edited PROVE Cardinality(landings) <= 1
    BY DEF StraightHopStaysPut
  <2>1. closed \in BOOLEAN /\ flagged \in BOOLEAN /\ LeavingReason = None
    BY DEF TypeOK, StraightHop
  <2>2. ~closed
    BY <2>1, LinkOutAssumption DEF LeavingReason
  <2>3. pin # None /\ url = pin
    BY <2>1, <2>2, LinkOutAssumption DEF LeavingReason
  <2>4. ~flagged
    BY <2>1, <2>2, <2>3, LinkOutAssumption DEF LeavingReason
  <2>5. landings = {} \/ landings = {base.site}
    BY <2>3, <2>4 DEF VouchedHolds
  <2>6. Cardinality({}) = 0 /\ Cardinality({base.site}) = 1
    BY FS_EmptySet, FS_Singleton
  <2> QED
    BY <2>5, <2>6
<1> QED
  BY <1>1, <1>2, <1>3, TypeCorrectness, PTL DEF Spec
=============================================================================
