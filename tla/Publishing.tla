----------------------------- MODULE Publishing -----------------------------
(***************************************************************************)
(* How an entry of the hub gets its content, its publisher and its public   *)
(* status: the write path (POST and PUT), the review decision, the decision *)
(* of a namespace's own members, and publisher claims, all running against  *)
(* the same rows while reviewers verify organisations and grant or revoke   *)
(* memberships.                                                             *)
(*                                                                         *)
(* A request runs one database transaction in several steps. Rows are       *)
(* locked FOR SHARE or FOR UPDATE and stay locked to the end; a request     *)
(* writes nothing before its last step, so a refusal, an error, a deadlock  *)
(* victim or a lost process is Rollback. Transactions that decide on the    *)
(* rows they lock and on nothing else are one step.                         *)
(***************************************************************************)
EXTENDS Integers, FiniteSets

CONSTANTS
  Accounts,          \* those that send requests; the review routes carry none
  Orgs, Entries, Requests,
  Documents,         \* what an entry may say
  Operators,         \* Operators[d]: operatingOrganizations of document d
  Prefix,            \* Prefix[e]: the namespace the public id of e starts with
  Casts,             \* who and what may take part in one behaviour: see cast
  PendingLimit,      \* pendingSubmissionLimit
  None               \* no organisation, no account, no document, NULL

ASSUME PublishingAssumption ==
  /\ Casts \subseteq
       {c \in [accounts : SUBSET Accounts, publishers : SUBSET Accounts, trusted : SUBSET Accounts,
               editors : SUBSET Accounts, admins : SUBSET Accounts, orgs : SUBSET Orgs,
               entries : SUBSET Entries, imported : SUBSET Entries, curated : SUBSET Entries,
               documents : SUBSET Documents, claimLimit : Nat] :
          /\ c.publishers \cup c.trusted \cup c.editors \subseteq c.accounts
          /\ c.admins \subseteq c.editors
          /\ c.imported \cup c.curated \subseteq c.entries}
  /\ Operators \in [Documents -> SUBSET Orgs]
  /\ Prefix \in [Entries -> Orgs]
  /\ PendingLimit \in Nat
  /\ None \notin Orgs \cup Accounts \cup Documents

VARIABLES
  cast,              \* chosen once: the accounts that send requests and those of them
                     \* reviewers give memberships and admins direct-create to, the editors (role
                     \* of reviewer or admin) and the admins; the organisations, the
                     \* entries, those the seed import created and those reviewers list and
                     \* unlist, what entries may say; and
                     \* MAX_PENDING_CLAIMS_PER_ACCOUNT
  status, listed, publisher, submitter, content,  \* opportunities
  legacy,            \* ingested_via says import, scrape or outbox
  grants,            \* grant_publisher rows in audit_log about the entry
  claim, claimant,   \* the latest claim of an organisation on an entry
  verified,          \* organizations.verified
  member,            \* org_memberships
  direct,            \* accounts.direct_create
  cleared,           \* history: the content last made public by somebody entitled to
  queuedBy,          \* history: whose write last put the entry in the review queue
  pc, op,            \* what a request does and how far it is
  actor, session,    \* its account; a session, or an API key without `publish`
  target, org, doc,  \* the entry, the organisation and the document it names
  mode,              \* create, replace, approve or reject
  personal,          \* the entry it creates gets a personal submitter
  auth,              \* the authority facts its transaction last read
  shared, owned      \* rows it holds FOR SHARE and FOR UPDATE

entries == <<status, listed, publisher, submitter, content, legacy, grants, cleared, queuedBy>>
claims == <<claim, claimant>>
people == <<verified, member, direct>>
request == <<op, actor, session, target, org, doc, mode, personal>>
locks == <<shared, owned>>
vars == <<cast, entries, claims, people, pc, request, auth, locks>>

Statuses == {"absent", "pending", "approved", "rejected"}
ClaimStatuses == {"none", "pending", "approved", "rejected"}
Facts == {"member", "verified", "direct"}
Rows == ({"entry"} \X Entries) \cup ({"account"} \X Accounts) \cup ({"org"} \X Orgs)
          \cup ({"member"} \X (Accounts \X Orgs))
EntryRow(e) == <<"entry", e>>
AccountRow(a) == <<"account", a>>
OrgRow(o) == <<"org", o>>
MemberRow(a, o) == <<"member", <<a, o>>>>

TypeOK ==
  /\ cast \in Casts
  /\ status \in [Entries -> Statuses]
  /\ listed \in [Entries -> BOOLEAN]
  /\ publisher \in [Entries -> Orgs \cup {None}]
  /\ submitter \in [Entries -> Accounts \cup {None}]
  /\ content \in [Entries -> Documents \cup {None}]
  /\ legacy \in [Entries -> BOOLEAN]
  /\ grants \in [Entries -> Nat]
  /\ cleared \in [Entries -> Documents \cup {None}]
  /\ queuedBy \in [Entries -> Accounts \cup {None}]
  /\ \A e \in Entries : status[e] = "absent" <=> content[e] = None
  /\ claim \in [Entries \X Orgs -> ClaimStatuses]
  /\ claimant \in [Entries \X Orgs -> Accounts \cup {None}]
  /\ verified \in [Orgs -> BOOLEAN]
  /\ member \subseteq Accounts \X Orgs
  /\ direct \subseteq Accounts
  /\ pc \in [Requests -> {"idle", "asked", "locked", "charged", "authorised", "metered"}]
  /\ op \in [Requests -> {"none", "write", "release", "grant", "queue"}]
  /\ actor \in [Requests -> Accounts \cup {None}]
  /\ session \in [Requests -> BOOLEAN]
  /\ target \in [Requests -> Entries \cup {None}]
  /\ org \in [Requests -> Orgs \cup {None}]
  /\ doc \in [Requests -> Documents \cup {None}]
  /\ mode \in [Requests -> {"none", "create", "replace", "approve", "reject"}]
  /\ personal \in [Requests -> BOOLEAN]
  /\ auth \in [Requests -> SUBSET Facts]
  /\ shared \in [Requests -> SUBSET Rows]
  /\ owned \in [Requests -> SUBSET Rows]

(* An import is approved and listed, unowned, and may name any publisher. *)
Init ==
  /\ cast \in Casts
  /\ status = [e \in Entries |-> IF e \in cast.imported THEN "approved" ELSE "absent"]
  /\ listed = [e \in Entries |-> e \in cast.imported]
  /\ publisher \in {f \in [Entries -> cast.orgs \cup {None}] :
                      \A e \in Entries \ cast.imported : f[e] = None}
  /\ submitter = [e \in Entries |-> None]
  /\ content \in {f \in [Entries -> cast.documents \cup {None}] :
                    \A e \in Entries : f[e] = None <=> e \notin cast.imported}
  /\ legacy = [e \in Entries |-> e \in cast.imported]
  /\ grants = [e \in Entries |-> 0]
  /\ cleared = content
  /\ queuedBy = [e \in Entries |-> None]
  /\ claim = [c \in Entries \X Orgs |-> "none"]
  /\ claimant = [c \in Entries \X Orgs |-> None]
  /\ verified = [o \in Orgs |-> FALSE]
  /\ member = {}
  /\ direct = {}
  /\ pc = [r \in Requests |-> "idle"]
  /\ op = [r \in Requests |-> "none"]
  /\ actor = [r \in Requests |-> None]
  /\ session = [r \in Requests |-> FALSE]
  /\ target = [r \in Requests |-> None]
  /\ org = [r \in Requests |-> None]
  /\ doc = [r \in Requests |-> None]
  /\ mode = [r \in Requests |-> "none"]
  /\ personal = [r \in Requests |-> FALSE]
  /\ auth = [r \in Requests |-> {}]
  /\ shared = [r \in Requests |-> {}]
  /\ owned = [r \in Requests |-> {}]

-----------------------------------------------------------------------------
(* Row locks. *)

MayShare(r, rows) == \A s \in Requests \ {r} : owned[s] \cap rows = {}

MayOwn(r, rows) == \A s \in Requests \ {r} : (owned[s] \cup shared[s]) \cap rows = {}

(* Nobody holds these rows: a transaction that is one step may own them. *)
Untouched(rows) == \A s \in Requests : (owned[s] \cup shared[s]) \cap rows = {}

Own(r, rows) ==
  /\ MayOwn(r, rows)
  /\ owned' = [owned EXCEPT ![r] = @ \cup rows]
  /\ UNCHANGED shared

(* The transaction ends, by COMMIT or ROLLBACK, and the request with it. *)
Done(r) ==
  /\ pc' = [pc EXCEPT ![r] = "idle"]
  /\ op' = [op EXCEPT ![r] = "none"]
  /\ actor' = [actor EXCEPT ![r] = None]
  /\ session' = [session EXCEPT ![r] = FALSE]
  /\ target' = [target EXCEPT ![r] = None]
  /\ org' = [org EXCEPT ![r] = None]
  /\ doc' = [doc EXCEPT ![r] = None]
  /\ mode' = [mode EXCEPT ![r] = "none"]
  /\ personal' = [personal EXCEPT ![r] = FALSE]
  /\ auth' = [auth EXCEPT ![r] = {}]
  /\ shared' = [shared EXCEPT ![r] = {}]
  /\ owned' = [owned EXCEPT ![r] = {}]

Rollback(r) ==
  /\ pc[r] # "idle"
  /\ Done(r)
  /\ UNCHANGED <<entries, claims, people>>

Request(r, kind, a, s, e, o, d, m, p) ==
  /\ pc[r] = "idle"
  /\ pc' = [pc EXCEPT ![r] = "asked"]
  /\ op' = [op EXCEPT ![r] = kind]
  /\ actor' = [actor EXCEPT ![r] = a]
  /\ session' = [session EXCEPT ![r] = s]
  /\ target' = [target EXCEPT ![r] = e]
  /\ org' = [org EXCEPT ![r] = o]
  /\ doc' = [doc EXCEPT ![r] = d]
  /\ mode' = [mode EXCEPT ![r] = m]
  /\ personal' = [personal EXCEPT ![r] = p]

-----------------------------------------------------------------------------
(* Authority. *)

(* What resolvePublishAuthority answers about an account and a namespace. *)
FactsAbout(a, o) ==
  {f \in Facts : \/ f = "member" /\ <<a, o>> \in member
                 \/ f = "verified" /\ <<a, o>> \in member /\ verified[o]
                 \/ f = "direct" /\ a \in direct}

(* A mistake: the public id alone names the namespace. *)
NamespaceById(e) == Prefix[e]

(* authorizationNamespace: the stored publisher, else the prefix of the id. *)
Namespace(e) == IF publisher[e] = None THEN Prefix[e] ELSE publisher[e]

CanReview(a, s) == a \in cast.editors /\ s

(* canPublishImmediately *)
MayPublish(facts, s) == s /\ facts \cap {"verified", "direct"} # {}

SubmitterStillOwns(a, e, facts) ==
  /\ submitter[e] = a
  /\ publisher[e] = None \/ "member" \in facts \/ grants[e] = 0

MayWriteExisting(a, s, e, facts) ==
  SubmitterStillOwns(a, e, facts) \/ "verified" \in facts \/ CanReview(a, s)

IsEditorialWrite(a, s, e, facts) ==
  CanReview(a, s) /\ ~SubmitterStillOwns(a, e, facts) /\ "verified" \notin facts

(* A replacement keeps the publisher among the operators, unless the entry was *)
(* imported and never had it there.                                            *)
Contained(e, d) ==
  \/ publisher[e] = None
  \/ publisher[e] \in Operators[d]
  \/ legacy[e] /\ publisher[e] \notin Operators[content[e]]

(* What the account lock of one's own submission protects. *)
PendingOf(a) == {e \in Entries : submitter[e] = a /\ status[e] = "pending"}
HasAnyVerifiedMembership(a) == \E o \in Orgs : <<a, o>> \in member /\ verified[o]

-----------------------------------------------------------------------------
(* The write path. *)

(* Authenticated, validated and previewed, all without a lock. The facts the    *)
(* preview went by are read again, never used again.                            *)
AskWrite(r, a, s, e, d, p) ==
  LET creating == status[e] = "absent"
      ns == IF creating THEN Prefix[e] ELSE Namespace(e)
      facts == FactsAbout(a, ns)
  IN /\ p \/ (creating /\ a \in cast.admins /\ s)
     /\ IF creating THEN ns \in Operators[d]
        ELSE MayWriteExisting(a, s, e, facts) /\ Contained(e, d)
     /\ Request(r, "write", a, s, e, None, d,
                IF creating THEN "create" ELSE "replace", p)
     /\ UNCHANGED <<entries, claims, people, auth, locks>>

(* lockByPublicId: a row that is not there cannot be locked. *)
LockForWrite(r) ==
  LET e == target[r]
  IN /\ pc[r] = "asked" /\ op[r] = "write"
     /\ IF status[e] = "absent" THEN UNCHANGED locks
        ELSE mode[r] = "replace" /\ Own(r, {EntryRow(e)})
     /\ pc' = [pc EXCEPT ![r] = "locked"]
     /\ UNCHANGED <<entries, claims, people, request, auth>>

MayEnterQueue(r) == mode[r] = "create" \/ status[target[r]] # "pending"

(* A mistake: the account is read, not locked. *)
LookAtAccount(r) ==
  /\ pc[r] = "locked" /\ op[r] = "write" /\ MayEnterQueue(r)
  /\ pc' = [pc EXCEPT ![r] = "charged"]
  /\ UNCHANGED <<entries, claims, people, request, auth, locks>>

(* lockAccountRow, before the shared lock on the same row. *)
LockAccount(r) ==
  /\ pc[r] = "locked" /\ op[r] = "write" /\ MayEnterQueue(r)
  /\ Own(r, {AccountRow(actor[r])})
  /\ pc' = [pc EXCEPT ![r] = "charged"]
  /\ UNCHANGED <<entries, claims, people, request, auth>>

RequestNamespace(r) ==
  CASE mode[r] = "create" -> Prefix[target[r]]
    [] mode[r] = "replace" -> Namespace(target[r])
    [] OTHER -> org[r]

(* A mistake: the authority is read again, and left unlocked. *)
ReadFactsUnlocked(r) ==
  /\ auth' = [auth EXCEPT ![r] = FactsAbout(actor[r], RequestNamespace(r))]
  /\ pc' = [pc EXCEPT ![r] = "authorised"]
  /\ UNCHANGED <<entries, claims, people, request, locks>>

(* resolvePublishAuthority: the membership, with its organisation, and the      *)
(* account, read and locked FOR SHARE. No membership, nothing to lock.          *)
ReadFacts(r) ==
  LET a == actor[r]
      o == RequestNamespace(r)
      rows == {AccountRow(a)} \cup
                (IF <<a, o>> \in member THEN {OrgRow(o), MemberRow(a, o)} ELSE {})
  IN /\ MayShare(r, rows)
     /\ shared' = [shared EXCEPT ![r] = @ \cup rows]
     /\ auth' = [auth EXCEPT ![r] = FactsAbout(a, o)]
     /\ pc' = [pc EXCEPT ![r] = "authorised"]
     /\ UNCHANGED <<entries, claims, people, request, owned>>

ReproveAuthority(r) ==
  /\ op[r] = "write"
  /\ pc[r] = "charged" \/ (pc[r] = "locked" /\ ~MayEnterQueue(r))
  /\ ReadFacts(r)

Changed(r) == mode[r] = "create" \/ doc[r] # content[target[r]]

(* Mistakes: an approval survives new content; a creation counts as unchanged.  *)
OutcomeKeepingApproval(r) ==
  IF MayPublish(auth[r], session[r]) THEN "approved"
  ELSE IF mode[r] = "create" THEN "pending" ELSE status[target[r]]

OutcomeOfReplacement(r) ==
  IF MayPublish(auth[r], session[r]) THEN "approved"
  ELSE IF mode[r] = "replace" /\ Changed(r) THEN "pending" ELSE status[target[r]]

(* The status the write stores. *)
Outcome(r) ==
  IF MayPublish(auth[r], session[r]) THEN "approved"
  ELSE IF Changed(r) THEN "pending" ELSE status[target[r]]

NeedsSlot(r) == personal[r] /\ MayEnterQueue(r) /\ Outcome(r) = "pending"

(* The decision, taken again from the locked rows. *)
Decided(r) ==
  mode[r] = "replace" =>
    /\ MayWriteExisting(actor[r], session[r], target[r], auth[r])
    /\ Contained(target[r], doc[r])

(* assertPendingHeadroom: the count, and later the write. *)
Meter(r) ==
  /\ pc[r] = "authorised" /\ op[r] = "write" /\ Decided(r) /\ NeedsSlot(r)
  /\ \/ HasAnyVerifiedMembership(actor[r])
     \/ Cardinality(PendingOf(actor[r])) < PendingLimit
  /\ pc' = [pc EXCEPT ![r] = "metered"]
  /\ UNCHANGED <<entries, claims, people, request, auth, locks>>

(* The row is written and the transaction commits. Of two creations of one id   *)
(* the second violates its unique constraint.                                   *)
Store(r) ==
  LET a == actor[r]
      e == target[r]
      creating == mode[r] = "create"
      editorial == ~creating /\ IsEditorialWrite(a, session[r], e, auth[r])
  IN /\ op[r] = "write"
     /\ pc[r] = "metered" \/ (pc[r] = "authorised" /\ Decided(r) /\ ~NeedsSlot(r))
     /\ creating => status[e] = "absent"
     /\ status' = [status EXCEPT ![e] = Outcome(r)]
     /\ listed' = [listed EXCEPT ![e] = creating \/ @]
     /\ publisher' = [publisher EXCEPT ![e] = IF editorial THEN @ ELSE RequestNamespace(r)]
     /\ submitter' = [submitter EXCEPT ![e] =
                        IF creating /\ personal[r] THEN a ELSE @]
     /\ content' = [content EXCEPT ![e] = doc[r]]
     /\ legacy' = [legacy EXCEPT ![e] = editorial /\ @]
     /\ cleared' = [cleared EXCEPT ![e] =
                      IF MayPublish(FactsAbout(a, RequestNamespace(r)), session[r])
                      THEN doc[r] ELSE @]
     /\ queuedBy' = [queuedBy EXCEPT ![e] =
                       IF MayEnterQueue(r) /\ Outcome(r) = "pending" THEN a ELSE @]
     /\ Done(r)
     /\ UNCHANGED <<grants, claims, people>>

-----------------------------------------------------------------------------
(* Review. *)

(* ReviewService.decide, under the lock of the entry alone. *)
Decide(e, verdict) ==
  /\ status[e] \notin {"absent", verdict}
  /\ Untouched({EntryRow(e)})
  /\ status' = [status EXCEPT ![e] = verdict]
  /\ listed' = [listed EXCEPT ![e] = verdict = "approved" /\ @]
  /\ cleared' = [cleared EXCEPT ![e] = IF verdict = "approved" THEN content[e] ELSE @]
  /\ UNCHANGED <<publisher, submitter, content, legacy, grants, queuedBy, claims, people, pc, request, auth, locks>>

SetListed(e) ==
  /\ status[e] # "absent"
  /\ Untouched({EntryRow(e)})
  /\ listed' = [listed EXCEPT ![e] = ~@]
  /\ UNCHANGED <<status, publisher, submitter, content, legacy, grants, cleared, queuedBy, claims, people, pc, request, auth, locks>>

(* decideForNamespace: a member decides on the queue of its own organisation.   *)
AskRelease(r, a, e, o, verdict) ==
  /\ status[e] # "absent"
  /\ Request(r, "release", a, TRUE, e, o, None, verdict, TRUE)
  /\ UNCHANGED <<entries, claims, people, auth, locks>>

LockForRelease(r) ==
  /\ pc[r] = "asked" /\ op[r] = "release"
  /\ publisher[target[r]] = org[r]
  /\ Own(r, {EntryRow(target[r])})
  /\ pc' = [pc EXCEPT ![r] = "locked"]
  /\ UNCHANGED <<entries, claims, people, request, auth>>

ProveMembership(r) ==
  /\ pc[r] = "locked" /\ op[r] = "release"
  /\ ReadFacts(r)

Release(r) ==
  LET e == target[r]
      approve == mode[r] = "approve"
      entitled == "verified" \in FactsAbout(actor[r], org[r])
  IN /\ pc[r] = "authorised" /\ op[r] = "release"
     /\ "verified" \in auth[r]
     /\ status[e] = "pending"
     /\ status' = [status EXCEPT ![e] = IF approve THEN "approved" ELSE "rejected"]
     /\ listed' = [listed EXCEPT ![e] = approve /\ @]
     /\ cleared' = [cleared EXCEPT ![e] = IF approve /\ entitled THEN content[e] ELSE @]
     /\ Done(r)
     /\ UNCHANGED <<publisher, submitter, content, legacy, grants, queuedBy, claims, people>>

-----------------------------------------------------------------------------
(* Claims. *)

(* hasOwner, negated; what publishes a claim is then assertClaimOpen. *)
Unowned(e) ==
  /\ submitter[e] = None
  /\ grants[e] = 0
  /\ publisher[e] # None => ~verified[publisher[e]]

Public(e) == status[e] = "approved" /\ listed[e]

ClaimsOf(a) == {c \in Entries \X Orgs : claim[c] = "pending" /\ claimant[c] = a}

(* ClaimService.claim: everything read without a lock, to choose the path. How  *)
(* a queued claim was authenticated makes no difference later.                  *)
AskClaim(r, a, s, e, o) ==
  LET grantable == /\ <<a, o>> \in member
                   /\ o \in Operators[content[e]]
                   /\ verified[o]
  IN /\ Public(e) /\ Unowned(e)
     /\ grantable => s
     /\ Request(r, IF grantable THEN "grant" ELSE "queue", a, grantable, e, o, None, "none", TRUE)
     /\ UNCHANGED <<entries, claims, people, auth, locks>>

LockForClaim(r) ==
  /\ pc[r] = "asked" /\ op[r] \in {"grant", "queue"}
  /\ Public(target[r])
  /\ Own(r, {EntryRow(target[r])})
  /\ pc' = [pc EXCEPT ![r] = "locked"]
  /\ UNCHANGED <<entries, claims, people, request, auth>>

(* lockByIdForClaim and lockForAccountAndOrganization *)
ProveGrant(r) ==
  LET a == actor[r]
      o == org[r]
      row == IF <<a, o>> \in member THEN {MemberRow(a, o)} ELSE {}
  IN /\ pc[r] = "locked" /\ op[r] = "grant"
     /\ MayShare(r, {OrgRow(o)}) /\ MayOwn(r, row)
     /\ shared' = [shared EXCEPT ![r] = @ \cup {OrgRow(o)}]
     /\ owned' = [owned EXCEPT ![r] = @ \cup row]
     /\ auth' = [auth EXCEPT ![r] = FactsAbout(a, o) \ {"direct"}]
     /\ pc' = [pc EXCEPT ![r] = "authorised"]
     /\ UNCHANGED <<entries, claims, people, request>>

(* The claimant's own pending request, if any, is settled with the grant. *)
GrantTo(r, e, o) ==
  /\ publisher' = [publisher EXCEPT ![e] = o]
  /\ grants' = [grants EXCEPT ![e] = @ + 1]
  /\ claim' = [claim EXCEPT ![<<e, o>>] =
                 IF @ = "pending" /\ claimant[<<e, o>>] = actor[r] THEN "approved" ELSE @]
  /\ Done(r)
  /\ UNCHANGED <<status, listed, submitter, content, legacy, cleared, queuedBy, claimant, people>>

Grantable(r) ==
  /\ pc[r] = "authorised" /\ op[r] = "grant"
  /\ "verified" \in auth[r]
  /\ org[r] \in Operators[content[target[r]]]

(* A mistake: that the entry is unowned was seen before it was locked. *)
GrantAsSeen(r) == Grantable(r) /\ GrantTo(r, target[r], org[r])

Grant(r) == Grantable(r) /\ Unowned(target[r]) /\ GrantTo(r, target[r], org[r])

(* A mistake: the account is not locked. *)
LookAtClaimant(r) ==
  /\ pc[r] = "locked" /\ op[r] = "queue"
  /\ Unowned(target[r])
  /\ claim[<<target[r], org[r]>>] # "pending"
  /\ pc' = [pc EXCEPT ![r] = "charged"]
  /\ UNCHANGED <<entries, claims, people, request, auth, locks>>

(* The account is locked before its pending claims are counted. *)
ChargeClaim(r) ==
  /\ pc[r] = "locked" /\ op[r] = "queue"
  /\ Unowned(target[r])
  /\ claim[<<target[r], org[r]>>] # "pending"
  /\ Own(r, {AccountRow(actor[r])})
  /\ pc' = [pc EXCEPT ![r] = "charged"]
  /\ UNCHANGED <<entries, claims, people, request, auth>>

CountClaims(r) ==
  /\ pc[r] = "charged" /\ op[r] = "queue"
  /\ Cardinality(ClaimsOf(actor[r])) < cast.claimLimit
  /\ pc' = [pc EXCEPT ![r] = "metered"]
  /\ UNCHANGED <<entries, claims, people, request, auth, locks>>

QueueClaim(r) ==
  /\ pc[r] = "metered" /\ op[r] = "queue"
  /\ claim' = [claim EXCEPT ![<<target[r], org[r]>>] = "pending"]
  /\ claimant' = [claimant EXCEPT ![<<target[r], org[r]>>] = actor[r]]
  /\ Done(r)
  /\ UNCHANGED <<entries, people>>

(* ClaimService.decide. Approval verifies the organisation, makes the claimant  *)
(* a member and moves the entry to the organisation, whatever its status.       *)
ClaimLocked(e, o) ==
  /\ claim[<<e, o>>] = "pending"
  /\ Untouched({EntryRow(e), OrgRow(o), MemberRow(claimant[<<e, o>>], o)})

Transfer(e, o) ==
  /\ claim' = [claim EXCEPT ![<<e, o>>] = "approved"]
  /\ verified' = [verified EXCEPT ![o] = TRUE]
  /\ member' = member \cup {<<claimant[<<e, o>>], o>>}
  /\ publisher' = [publisher EXCEPT ![e] = o]
  /\ status' = [status EXCEPT ![e] = "approved"]
  /\ grants' = [grants EXCEPT ![e] = @ + 1]
  /\ cleared' = [cleared EXCEPT ![e] = content[e]]
  /\ UNCHANGED <<listed, submitter, content, legacy, queuedBy, claimant, direct, pc, request, auth, locks>>

(* A mistake: an earlier grant does not close the entry to pending claims. *)
ApproveAnyClaim(e, o) == ClaimLocked(e, o) /\ Transfer(e, o)

ApproveClaim(e, o) == ClaimLocked(e, o) /\ Unowned(e) /\ Transfer(e, o)

RejectClaim(e, o) ==
  /\ claim[<<e, o>>] = "pending"
  /\ Untouched({EntryRow(e), OrgRow(o)})
  /\ claim' = [claim EXCEPT ![<<e, o>>] = "rejected"]
  /\ UNCHANGED <<entries, claimant, people, pc, request, auth, locks>>

-----------------------------------------------------------------------------
(* Reviewers and admins change who may publish. *)

SetVerified(o) ==
  /\ Untouched({OrgRow(o)})
  /\ verified' = [verified EXCEPT ![o] = ~@]
  /\ UNCHANGED <<entries, claims, member, direct, pc, request, auth, locks>>

(* A grant inserts a row nobody can have locked; a revocation deletes one. *)
GrantMembership(a, o) ==
  /\ <<a, o>> \notin member
  /\ member' = member \cup {<<a, o>>}
  /\ UNCHANGED <<entries, claims, verified, direct, pc, request, auth, locks>>

RevokeMembership(a, o) ==
  /\ <<a, o>> \in member
  /\ Untouched({MemberRow(a, o)})
  /\ member' = member \ {<<a, o>>}
  /\ UNCHANGED <<entries, claims, verified, direct, pc, request, auth, locks>>

SetDirectCreate(a) ==
  /\ Untouched({AccountRow(a)})
  /\ direct' = IF a \in direct THEN direct \ {a} ELSE direct \cup {a}
  /\ UNCHANGED <<entries, claims, verified, member, pc, request, auth, locks>>

-----------------------------------------------------------------------------
Ask(r) ==
  \/ \E a \in cast.accounts, s, p \in BOOLEAN, e \in cast.entries, d \in cast.documents :
       AskWrite(r, a, s, e, d, p)
  \/ \E a \in cast.accounts, e \in cast.entries, o \in cast.orgs :
       \/ \E verdict \in {"approve", "reject"} : AskRelease(r, a, e, o, verdict)
       \/ \E s \in BOOLEAN : AskClaim(r, a, s, e, o)

Proceed(r) ==
  \/ LockForWrite(r) \/ LockAccount(r) \/ ReproveAuthority(r) \/ Meter(r) \/ Store(r)
  \/ LockForRelease(r) \/ ProveMembership(r) \/ Release(r)
  \/ LockForClaim(r) \/ ProveGrant(r) \/ Grant(r)
  \/ ChargeClaim(r) \/ CountClaims(r) \/ QueueClaim(r)

Staff ==
  \/ \E e \in cast.entries : Decide(e, "approved") \/ Decide(e, "rejected")
  \/ \E e \in cast.curated : SetListed(e)
  \/ \E e \in cast.entries, o \in cast.orgs : ApproveClaim(e, o) \/ RejectClaim(e, o)
  \/ \E o \in cast.orgs : SetVerified(o)
  \/ \E a \in cast.publishers, o \in cast.orgs : GrantMembership(a, o) \/ RevokeMembership(a, o)
  \/ \E a \in cast.trusted : SetDirectCreate(a)

Next ==
  /\ UNCHANGED cast
  /\ \/ \E r \in Requests : Ask(r) \/ Proceed(r) \/ Rollback(r)
     \/ Staff

Spec == Init /\ [][Next]_vars

-----------------------------------------------------------------------------
(* Properties *)

(* The authority a request decided on still holds when it writes: whoever      *)
(* takes a membership, a verification or direct-create away waits for the      *)
(* transactions that read it, or is seen by them.                              *)
AuthorityHolds ==
  \A r \in Requests :
    pc[r] \in {"authorised", "metered"} /\ op[r] # "queue" =>
      auth[r] \subseteq FactsAbout(actor[r], RequestNamespace(r))

(* Everything public was put there, as it reads now, by a reviewer or by an    *)
(* account entitled to publish under the entry's namespace at that moment:     *)
(* nobody else can change a word of a public entry without unpublishing it.    *)
PublicIsCleared ==
  \A e \in Entries : status[e] = "approved" => cleared[e] = content[e]

(* An account nobody ever vouched for never puts more than PendingLimit entries *)
(* in the review queue, however many submissions it races. (Memberships that    *)
(* reviewers do not give are never taken away. What an editor or a publisher    *)
(* sends back to the queue is not asked about its submitter's limit.)           *)
OwnPending(a) == {e \in PendingOf(a) : queuedBy[e] = a}
PendingCap ==
  \A a \in Accounts \ cast.publishers :
    (\A o \in Orgs : <<a, o>> \notin member) => Cardinality(OwnPending(a)) <= PendingLimit

(* An entry that has a publisher keeps it through every replacement: only a    *)
(* granted claim moves it, whatever namespace the public id spells.            *)
PublisherMovesByGrant ==
  [][\A e \in Entries :
       publisher[e] # None /\ publisher'[e] # publisher[e] => grants'[e] > grants[e]]_vars

(* An account never waits for more claims than its limit, on whichever entries.  *)
ClaimCap == \A a \in Accounts : Cardinality(ClaimsOf(a)) <= cast.claimLimit

(* Rows are of their types, and neither ceiling is passed: each is counted under   *)
(* a lock on the account that every request of it takes.                          *)
CeilingsHold == TypeOK /\ PendingCap /\ ClaimCap

(* Publisher ownership of an entry is granted once, whichever of a grant and   *)
(* a reviewer's decision on any of its claims comes first.                     *)
OneTransfer == \A e \in Entries : grants[e] <= 1

(* The organisation whose claim was approved is the one that publishes the     *)
(* entry: claims that lost stay undecided or rejected.                         *)
ApprovedClaimPublishes ==
  \A e \in Entries, o \in Orgs : claim[<<e, o>>] = "approved" => publisher[e] = o

(* A contest for an entry has one winner, and the records of claims name it.      *)
OneWinner == OneTransfer /\ ApprovedClaimPublishes
=============================================================================
