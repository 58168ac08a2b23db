------------------------------ MODULE LinkOut ------------------------------
(***************************************************************************)
(* One entry's apply link: who may change it, which URL a reviewer vouched  *)
(* for, what the source checks saw behind it, and when /v1/r/:id/apply goes *)
(* straight to it. Every transaction locks the entry's row, so each is one  *)
(* step; what is not one step is a check, which reads the row, fetches the  *)
(* page without any lock and comes back.                                    *)
(*                                                                         *)
(* updated_at is a counter (every write of it is distinct). verified_at is  *)
(* kept as the updated_at it was compared with: the entry is current iff    *)
(* verified_at is not older than updated_at. isListed is not modelled.      *)
(***************************************************************************)
EXTENDS Naturals, FiniteSets

CONSTANTS
  Urls, Sites,
  Checks,            \* source checks under way at once
  MaxUpdates,        \* bound on updated_at, for TLC
  None               \* NULL

ASSUME LinkOutAssumption ==
  /\ None \notin Urls \cup Sites /\ None \notin {"closed", "unreviewed", "landing_changed"}
  /\ MaxUpdates \in Nat

VARIABLES
  url,               \* application_url
  updated,           \* updated_at
  status, closed,    \* review_status; whether the programme is closed or archived
  pin,               \* reviewed_application_url
  flagged,           \* link_landing_changed_at is set
  base,              \* landing baseline: [url, site]
  current,           \* verified_at >= updated_at
  basis,             \* history: updated_at of the text the verdict was about
  phase, seen,       \* a check: how far it is; the row it read
  outcome, landing,  \* what its fetch gave, and on which site it ended
  lands,             \* the web: the site a request for a URL ends on
  landings,          \* history: sites that checks of the pinned URL saw since the pin
  edited             \* history: the stored URL has left the pin since it was set

row == <<url, updated, status, closed, pin, flagged, base, current, basis>>
checks == <<phase, seen, outcome, landing>>
history == <<landings, edited>>
vars == <<row, checks, lands, history>>

NoBase == [url |-> None, site |-> None]

TypeOK ==
  /\ url \in Urls
  /\ updated \in 0..MaxUpdates
  /\ status \in {"pending", "approved", "rejected"}
  /\ closed \in BOOLEAN
  /\ pin \in Urls \cup {None}
  /\ flagged \in BOOLEAN
  /\ base \in [url : Urls, site : Sites] \cup {NoBase}
  /\ current \in BOOLEAN
  /\ basis \in 0..MaxUpdates \cup {None}
  /\ phase \in [Checks -> {"idle", "fetching", "fetched"}]
  /\ seen \in [Checks -> [url : Urls, updated : 0..MaxUpdates]]
  /\ outcome \in [Checks -> {"none", "transient", "refused", "answered"}]
  /\ landing \in [Checks -> Sites \cup {None}]
  /\ \A c \in Checks : (outcome[c] = "answered") <=> (landing[c] # None)
  /\ lands \in [Urls -> Sites]
  /\ landings \subseteq Sites
  /\ edited \in BOOLEAN

(* A creation by anybody but a reviewer: no pins, never checked. *)
Init ==
  /\ url \in Urls
  /\ updated = 0
  /\ status \in {"pending", "approved"}
  /\ closed = FALSE
  /\ pin = None
  /\ flagged = FALSE
  /\ base = NoBase
  /\ current = FALSE
  /\ basis = None
  /\ phase = [c \in Checks |-> "idle"]
  /\ seen = [c \in Checks |-> [url |-> url, updated |-> 0]]
  /\ outcome = [c \in Checks |-> "none"]
  /\ landing = [c \in Checks |-> None]
  /\ lands \in [Urls -> Sites]
  /\ landings = {}
  /\ edited = FALSE

-----------------------------------------------------------------------------
(* leavingReason, in its order of precedence; None is a straight hop. *)
LeavingReason ==
  CASE closed -> "closed"
    [] ~closed /\ (pin = None \/ url # pin) -> "unreviewed"
    [] ~closed /\ url = pin /\ flagged -> "landing_changed"
    [] OTHER -> None

StraightHop == status = "approved" /\ LeavingReason = None

(* reviewerPins: the link is vouched for and any warning about it withdrawn. *)
Pin(u) ==
  /\ pin' = u
  /\ flagged' = FALSE
  /\ landings' = {}
  /\ edited' = FALSE

(* The pins and what is known about them, when the stored URL becomes u. *)
KeepPins(u) ==
  /\ edited' = (edited \/ u # pin)
  /\ UNCHANGED <<pin, flagged, landings>>

Touch ==
  /\ updated < MaxUpdates
  /\ updated' = updated + 1
  /\ current' = FALSE
  /\ UNCHANGED <<base, basis, checks, lands>>

-----------------------------------------------------------------------------
(* applyWrite: a PUT by a submitter, a publisher or a reviewer. *)
Write(u, reviewer, immediate, changed) ==
  /\ u # url => changed
  /\ Touch
  /\ url' = u
  /\ closed' \in BOOLEAN
  /\ closed' # closed => changed
  /\ status' = IF immediate THEN "approved" ELSE IF changed THEN "pending" ELSE status
  /\ IF reviewer THEN Pin(u) ELSE KeepPins(u)

(* upsertOpportunityFromStandard: the curated corpus was reviewed before it is   *)
(* imported, so what it stores approved is pinned; the landing flag stays. That  *)
(* it reads the clock just before the lock, not after, is left out.              *)
Import(u) ==
  /\ Touch
  /\ url' = u
  /\ closed' \in BOOLEAN
  /\ status' = "approved"
  /\ pin' = u
  /\ landings' = {} /\ edited' = FALSE
  /\ UNCHANGED flagged

(* ReviewService.decide: the request carries the id of the entry, and what the  *)
(* locked row says is what is pinned.                                           *)
Approve ==
  /\ status # "approved"
  /\ Touch
  /\ status' = "approved"
  /\ Pin(url)
  /\ UNCHANGED <<url, closed>>

Reject ==
  /\ status # "rejected"
  /\ Touch
  /\ status' = "rejected"
  /\ KeepPins(url)
  /\ UNCHANGED <<url, closed>>

(* decideForNamespace: the publisher's own release vouches for no link. *)
Release(verdict) ==
  /\ status = "pending"
  /\ Touch
  /\ status' = verdict
  /\ KeepPins(url)
  /\ UNCHANGED <<url, closed>>

(* A granted claim moves updated_at and approves; the staleness job closes and *)
(* leaves updated_at alone.                                                    *)
GrantClaim ==
  /\ Touch
  /\ status' = "approved"
  /\ KeepPins(url)
  /\ UNCHANGED <<url, closed>>

CloseStale ==
  /\ ~closed
  /\ closed' = TRUE
  /\ UNCHANGED <<url, updated, status, pin, flagged, base, current, basis, checks, lands, history>>

-----------------------------------------------------------------------------
(* Source checks. *)

(* A mistake: the selection knows entries nobody checked, not edited ones. *)
OwedNever == basis = None

(* pendingVerificationFilter; that a verdict also expires is left out. *)
Owed == ~current

(* verifyOnce reads the row: a reviewer's check, the submit-time queue, or the  *)
(* nightly batch for an entry owed one.                                        *)
StartCheck(c) ==
  /\ phase[c] = "idle"
  /\ phase' = [phase EXCEPT ![c] = "fetching"]
  /\ seen' = [seen EXCEPT ![c] = [url |-> url, updated |-> updated]]
  /\ UNCHANGED <<row, outcome, landing, lands, history>>

StartOwed(c) == Owed /\ StartCheck(c)

Fetch(c, o) ==
  /\ phase[c] = "fetching"
  /\ phase' = [phase EXCEPT ![c] = "fetched"]
  /\ outcome' = [outcome EXCEPT ![c] = o]
  /\ landing' = [landing EXCEPT ![c] = IF o = "answered" THEN lands[seen[c].url] ELSE None]
  /\ UNCHANGED <<row, seen, lands, history>>

(* A mistake: only the URL is compared with the locked row. *)
StaleUrlOnly(c) == seen[c].url # url

(* The row moved while the page was being fetched. *)
Stale(c) == seen[c].updated # updated \/ seen[c].url # url

(* A mistake: the landing of an unpublished entry is not compared. *)
LandingMovePublic(c) == status = "approved" /\ base.url = seen[c].url /\ base.site # landing[c]

(* landingMove: the same link, another site than the last applied answer. *)
LandingMove(c) == base.url = seen[c].url /\ base.site # landing[c]

(* A mistake: the landing of the last run is left behind. *)
FinishKeepingLanding(c) ==
  /\ phase' = [phase EXCEPT ![c] = "idle"]
  /\ outcome' = [outcome EXCEPT ![c] = "none"]
  /\ UNCHANGED <<seen, landing>>

Finish(c) ==
  /\ phase' = [phase EXCEPT ![c] = "idle"]
  /\ outcome' = [outcome EXCEPT ![c] = "none"]
  /\ landing' = [landing EXCEPT ![c] = None]
  /\ UNCHANGED seen

(* applyVerification and flagLandingChanged, under the lock of the row. A stale *)
(* or transient run changes nothing.                                            *)
Apply(c) ==
  /\ phase[c] = "fetched" /\ outcome[c] # "transient" /\ ~Stale(c)
  /\ current' = TRUE
  /\ basis' = seen[c].updated
  /\ IF outcome[c] = "answered"
     THEN /\ base' = [url |-> seen[c].url, site |-> landing[c]]
          /\ flagged' = (flagged \/ LandingMove(c))
          /\ landings' = IF url = pin THEN landings \cup {landing[c]} ELSE landings
     ELSE UNCHANGED <<base, flagged, landings>>
  /\ Finish(c)
  /\ UNCHANGED <<url, updated, status, closed, pin, lands, edited>>

Discard(c) ==
  /\ phase[c] = "fetched" /\ (outcome[c] = "transient" \/ Stale(c))
  /\ Finish(c)
  /\ UNCHANGED <<row, lands, history>>

(* The process stops during a check; the queue in its memory is gone too. *)
Crash(c) ==
  /\ phase[c] # "idle"
  /\ Finish(c)
  /\ UNCHANGED <<row, lands, history>>

(* The page behind a URL moves to another site. *)
Retarget(u, s) ==
  /\ lands[u] # s
  /\ lands' = [lands EXCEPT ![u] = s]
  /\ UNCHANGED <<row, checks, history>>

-----------------------------------------------------------------------------
Next ==
  \/ \E u \in Urls, reviewer, immediate, changed \in BOOLEAN :
       Write(u, reviewer, immediate, changed)
  \/ \E u \in Urls : Import(u)
  \/ Approve \/ Reject
  \/ Release("approved") \/ Release("rejected") \/ GrantClaim \/ CloseStale
  \/ \E c \in Checks :
       \/ StartCheck(c) \/ Apply(c) \/ Discard(c) \/ Crash(c)
       \/ \E o \in {"transient", "refused", "answered"} : Fetch(c, o)
  \/ \E u \in Urls, s \in Sites : Retarget(u, s)

(* The nightly batch takes what is owed; a source that is asked again and again *)
(* answers, and not every process dies between an answer and its transaction.   *)
Fairness ==
  \A c \in Checks :
    /\ WF_vars(StartOwed(c))
    /\ SF_vars(Fetch(c, "answered"))
    /\ SF_vars(Discard(c))
    /\ SF_vars(Apply(c))

Spec == Init /\ [][Next]_vars
FairSpec == Spec /\ Fairness

-----------------------------------------------------------------------------
(* Properties *)

(* An entry counts as current only if the verdict stored with it is about the   *)
(* text it has now: an edit that lands during the fetch is never marked checked. *)
VerdictIsAboutContent == current => basis = updated

(* While nobody edits a vouched link away, a straight hop leads to one site: if  *)
(* two applied checks of it since the pin disagree, readers are warned, however  *)
(* many timeouts and discarded runs lie between them.                           *)
StraightHopStaysPut == StraightHop /\ ~edited => Cardinality(landings) <= 1

(* An entry that stops being edited is eventually current, although edits, crashes *)
(* and timeouts make checks of it come to nothing.                                *)
EventuallyCurrent == (updated = MaxUpdates) ~> current
=============================================================================
