-------------------------- MODULE PublishingProofs --------------------------
(***************************************************************************)
(* Proofs about Publishing, for any accounts, organisations, entries,       *)
(* documents, requests and casts. What the transactions may rely on is a     *)
(* matter of which rows they hold:                                          *)
(*   Exclusive     no row is held by two requests if one of them owns it;    *)
(*   Holdings      which rows a request has by each stage;                   *)
(*   Entitled      the facts it read under those rows are true;              *)
(*   Headroom      what it counted under its account still leaves room.      *)
(* None of these can be disturbed by another request or by staff: Steady     *)
(* says what a step of somebody else leaves alone, SteadyKeeps that it is    *)
(* enough, and every action has a lemma showing that it is Steady for all    *)
(* requests but its own. The rest, Stored, is about rows no transaction has. *)
(***************************************************************************)
EXTENDS Publishing, FiniteSetTheorems, TLAPS

USE PublishingAssumption
-----------------------------------------------------------------------------
(* What a cast names exists. *)
LEMMA CastType ==
  ASSUME TypeOK
  PROVE  /\ cast.accounts \subseteq Accounts /\ cast.publishers \subseteq Accounts
         /\ cast.trusted \subseteq Accounts /\ cast.editors \subseteq Accounts
         /\ cast.orgs \subseteq Orgs /\ cast.entries \subseteq Entries
         /\ cast.imported \subseteq Entries /\ cast.curated \subseteq Entries
         /\ cast.documents \subseteq Documents /\ cast.claimLimit \in Nat
  BY DEF TypeOK

(* The part of TypeOK about requests. *)
RequestsTyped ==
  /\ pc \in [Requests -> {"idle", "asked", "locked", "charged", "authorised", "metered"}]
  /\ op \in [Requests -> {"none", "write", "release", "grant", "queue"}]
  /\ actor \in [Requests -> Accounts \cup {None}]
  /\ session \in [Requests -> BOOLEAN]
  /\ target \in [Requests -> Entries \cup {None}]
  /\ org \in [Requests -> Orgs \cup {None}]
  /\ doc \in [Requests -> Documents \cup {None}]
  /\ mode \in [Requests -> {"none", "create", "replace", "approve", "reject"}]
  /\ personal \in [Requests -> BOOLEAN]
  /\ auth \in [Requests -> SUBSET Facts]
  /\ shared \in [Requests -> SUBSET Rows]
  /\ owned \in [Requests -> SUBSET Rows]

(* What a request is about. *)
RequestShape(r) ==
  /\ pc[r] = "idle" <=> op[r] = "none"
  /\ pc[r] = "idle" => mode[r] = "none"
  /\ pc[r] # "idle" => actor[r] \in Accounts /\ target[r] \in Entries
  /\ op[r] = "write" => mode[r] \in {"create", "replace"} /\ doc[r] \in Documents
  /\ op[r] # "write" => mode[r] \notin {"create", "replace"}
  /\ op[r] \in {"release", "grant", "queue"} => org[r] \in Orgs
  /\ mode[r] = "replace" => personal[r]
  /\ pc[r] # "idle" /\ mode[r] # "create" => status[target[r]] # "absent"
  /\ pc[r] = "charged" => op[r] \in {"write", "queue"}
  /\ pc[r] = "authorised" => op[r] \in {"write", "release", "grant"}
  /\ pc[r] = "metered" => op[r] \in {"write", "queue"}
  /\ pc[r] \notin {"idle", "asked"} /\ op[r] = "release" => publisher[target[r]] = org[r]
  /\ pc[r] \in {"charged", "metered"} /\ op[r] = "write" => MayEnterQueue(r)

(* The rows it holds. *)
Holdings(r) ==
  /\ \A e \in Entries : EntryRow(e) \in owned[r] => status[e] # "absent"
  /\ pc[r] \notin {"idle", "asked"} /\ mode[r] # "create" => EntryRow(target[r]) \in owned[r]
  /\ pc[r] \in {"charged", "authorised", "metered"} /\ op[r] = "write" /\ MayEnterQueue(r)
       => AccountRow(actor[r]) \in owned[r]
  /\ pc[r] \in {"charged", "metered"} /\ op[r] = "queue" => AccountRow(actor[r]) \in owned[r]
  /\ pc[r] \in {"authorised", "metered"} /\ op[r] \in {"write", "release"} =>
       /\ AccountRow(actor[r]) \in shared[r]
       /\ "member" \in auth[r] =>
            {OrgRow(RequestNamespace(r)), MemberRow(actor[r], RequestNamespace(r))} \subseteq shared[r]
  /\ pc[r] = "authorised" /\ op[r] = "grant" =>
       /\ "direct" \notin auth[r]
       /\ OrgRow(org[r]) \in shared[r]
       /\ "member" \in auth[r] => MemberRow(actor[r], org[r]) \in owned[r]

(* The facts it decides on, which its rows keep true. *)
Entitled(r) ==
  pc[r] \in {"authorised", "metered"} /\ op[r] # "queue" =>
    /\ auth[r] \subseteq FactsAbout(actor[r], RequestNamespace(r))
    /\ "verified" \in auth[r] => "member" \in auth[r]

(* What it counted still leaves room. *)
Unvouched(a) == a \notin cast.publishers /\ \A o \in Orgs : <<a, o>> \notin member
Headroom(r) ==
  pc[r] = "metered" =>
    /\ op[r] = "write" /\ Unvouched(actor[r])
         => Cardinality(OwnPending(actor[r])) < PendingLimit
    /\ op[r] = "queue" => Cardinality(ClaimsOf(actor[r])) < cast.claimLimit

Requested(r) == RequestShape(r) /\ Holdings(r) /\ Entitled(r) /\ Headroom(r)
RequestsHold == \A r \in Requests : Requested(r)

(* No row is held twice if somebody owns it. *)
Exclusive == \A r, s \in Requests : r # s => owned[r] \cap (owned[s] \cup shared[s]) = {}

(* What has been stored. *)
Fresh == \A e \in Entries : status[e] = "absent" => publisher[e] = None /\ submitter[e] = None
ClaimsMakeSense ==
  \A e \in Entries, o \in Orgs :
    /\ claim[<<e, o>>] # "none" => status[e] # "absent"
    /\ claim[<<e, o>>] = "pending" => claimant[<<e, o>>] \in Accounts
    /\ claim[<<e, o>>] = "approved" => grants[e] # 0

(* Counts are counts. *)
Counted == \A a \in Accounts : IsFiniteSet(PendingOf(a)) /\ IsFiniteSet(ClaimsOf(a))

Stored == Fresh /\ ClaimsMakeSense /\ Counted /\ PublicIsCleared /\ OneWinner /\ PendingCap /\ ClaimCap

IInv == TypeOK /\ Exclusive /\ RequestsHold /\ Stored
-----------------------------------------------------------------------------
(* Types. *)
LEMMA DoneTyped == ASSUME RequestsTyped, NEW r \in Requests, Done(r) PROVE RequestsTyped'
  BY DEF RequestsTyped, Done

(* A request that arrives names things that exist. *)
LEMMA AskTyped ==
  ASSUME TypeOK, NEW r \in Requests, Ask(r), cast' = cast
  PROVE  TypeOK'
<1>1. UNCHANGED <<entries, claims, people, auth, locks>>
  BY DEF Ask, AskWrite, AskRelease, AskClaim
<1>2. RequestsTyped'
  <2>1. ASSUME NEW a \in cast.accounts, NEW s \in BOOLEAN, NEW p \in BOOLEAN, NEW e \in cast.entries,
               NEW d \in cast.documents, AskWrite(r, a, s, e, d, p)
        PROVE  RequestsTyped'
    BY <1>1, <2>1, CastType DEF AskWrite, Request, TypeOK, RequestsTyped, locks
  <2>2. ASSUME NEW a \in cast.accounts, NEW e \in cast.entries, NEW o \in cast.orgs,
               NEW verdict \in {"approve", "reject"}, AskRelease(r, a, e, o, verdict)
        PROVE  RequestsTyped'
    BY <1>1, <2>2, CastType DEF AskRelease, Request, TypeOK, RequestsTyped, locks
  <2>3. ASSUME NEW a \in cast.accounts, NEW e \in cast.entries, NEW o \in cast.orgs,
               NEW s \in BOOLEAN, AskClaim(r, a, s, e, o)
        PROVE  RequestsTyped'
    BY <1>1, <2>3, CastType DEF AskClaim, Request, TypeOK, RequestsTyped, locks
  <2> QED
    BY <2>1, <2>2, <2>3 DEF Ask
<1> QED
  BY <1>1, <1>2 DEF TypeOK, RequestsTyped, entries, claims, people

(* The steps of a transaction before its last: they move the request, its locks and *)
(* what it read.                                                                  *)
Advance(r) ==
  \/ LockForWrite(r) \/ LockAccount(r) \/ ReproveAuthority(r) \/ Meter(r)
  \/ LockForRelease(r) \/ ProveMembership(r)
  \/ LockForClaim(r) \/ ProveGrant(r) \/ ChargeClaim(r) \/ CountClaims(r)

(* Reading the authority locks rows that exist. *)
LEMMA ReadTyped ==
  ASSUME TypeOK, NEW r \in Requests, actor[r] \in Accounts, ReadFacts(r)
  PROVE  /\ pc' \in [Requests -> {"idle", "asked", "locked", "charged", "authorised", "metered"}]
         /\ auth' \in [Requests -> SUBSET Facts]
         /\ shared' \in [Requests -> SUBSET Rows]
         /\ owned' = owned
<1>1. AccountRow(actor[r]) \in Rows
  BY DEF AccountRow, Rows
<1>2. \A o : <<actor[r], o>> \in member => MemberRow(actor[r], o) \in Rows /\ OrgRow(o) \in Rows
  BY DEF TypeOK, MemberRow, OrgRow, Rows
<1>3. \A a, o : FactsAbout(a, o) \subseteq Facts
  BY DEF FactsAbout
<1>4. PICK rows \in SUBSET Rows : shared' = [shared EXCEPT ![r] = @ \cup rows]
  <2> DEFINE a == actor[r]
             o == RequestNamespace(r)
             rows == {AccountRow(a)} \cup
                       (IF <<a, o>> \in member THEN {OrgRow(o), MemberRow(a, o)} ELSE {})
  <2>1. rows \in SUBSET Rows
    BY <1>1, <1>2
  <2>2. shared' = [shared EXCEPT ![r] = @ \cup rows]
    BY DEF ReadFacts
  <2> HIDE DEF rows
  <2> QED
    BY <2>1, <2>2
<1>5. shared' \in [Requests -> SUBSET Rows]
  BY <1>4 DEF TypeOK
<1> QED
  BY <1>3, <1>5 DEF ReadFacts, TypeOK

(* The steps before the last store nothing, and lock rows that exist. *)
LEMMA AdvanceTyped ==
  ASSUME TypeOK, NEW r \in Requests, RequestShape(r), Advance(r), cast' = cast
  PROVE  TypeOK'
<1>1. UNCHANGED <<entries, claims, people, request>>
  BY DEF Advance, LockForWrite, LockAccount, ReproveAuthority, ReadFacts, Meter, LockForRelease,
         ProveMembership, LockForClaim, ProveGrant, ChargeClaim, CountClaims
<1>2. actor[r] \in Accounts /\ target[r] \in Entries
  BY DEF RequestShape, Advance, LockForWrite, LockAccount, ReproveAuthority, Meter,
         LockForRelease, ProveMembership, LockForClaim, ProveGrant, ChargeClaim, CountClaims
<1>3. EntryRow(target[r]) \in Rows /\ AccountRow(actor[r]) \in Rows
  BY <1>2 DEF EntryRow, AccountRow, Rows
<1>4. ASSUME NEW row \in Rows, Own(r, {row})
      PROVE  owned' \in [Requests -> SUBSET Rows] /\ shared' \in [Requests -> SUBSET Rows]
  BY <1>4 DEF Own, TypeOK
<1>5. CASE ReproveAuthority(r) \/ ProveMembership(r)
  <2>1. ReadFacts(r)
    BY <1>5 DEF ReproveAuthority, ProveMembership
  <2> QED
    BY <1>1, <1>2, <2>1, ReadTyped DEF TypeOK, entries, claims, people, request
<1>6. CASE ProveGrant(r)
  <2>1. org[r] \in Orgs
    BY <1>6 DEF ProveGrant, RequestShape
  <2>2. OrgRow(org[r]) \in Rows /\ MemberRow(actor[r], org[r]) \in Rows
    BY <1>2, <2>1 DEF OrgRow, MemberRow, Rows
  <2>3. PICK row \in SUBSET Rows : owned' = [owned EXCEPT ![r] = @ \cup row]
    BY <1>6, <2>2 DEF ProveGrant
  <2>4. owned' \in [Requests -> SUBSET Rows]
    BY <2>3 DEF TypeOK
  <2>5. shared' \in [Requests -> SUBSET Rows]
    BY <1>6, <2>2 DEF ProveGrant, TypeOK
  <2>6. FactsAbout(actor[r], org[r]) \ {"direct"} \subseteq Facts
    BY DEF FactsAbout
  <2>7. /\ auth' \in [Requests -> SUBSET Facts]
        /\ pc' \in [Requests -> {"idle", "asked", "locked", "charged", "authorised", "metered"}]
    BY <1>6, <2>6 DEF ProveGrant, TypeOK
  <2> QED
    BY <1>1, <2>4, <2>5, <2>7 DEF TypeOK, entries, claims, people, request
<1>7. CASE LockForWrite(r) \/ LockAccount(r) \/ LockForRelease(r) \/ LockForClaim(r) \/ ChargeClaim(r)
  <2>1. owned' \in [Requests -> SUBSET Rows] /\ shared' \in [Requests -> SUBSET Rows]
    BY <1>3, <1>4, <1>7 DEF LockForWrite, LockAccount, LockForRelease, LockForClaim, ChargeClaim,
       locks, TypeOK
  <2>2. /\ pc' \in [Requests -> {"idle", "asked", "locked", "charged", "authorised", "metered"}]
        /\ auth' = auth
    BY <1>7 DEF LockForWrite, LockAccount, LockForRelease, LockForClaim, ChargeClaim, TypeOK
  <2> QED
    BY <1>1, <2>1, <2>2 DEF TypeOK, entries, claims, people, request
<1>8. CASE Meter(r) \/ CountClaims(r)
  <2>1. /\ pc' \in [Requests -> {"idle", "asked", "locked", "charged", "authorised", "metered"}]
        /\ UNCHANGED <<auth, locks>>
    BY <1>8 DEF Meter, CountClaims, TypeOK
  <2> QED
    BY <1>1, <2>1 DEF TypeOK, entries, claims, people, request, locks
<1> QED
  BY <1>5, <1>6, <1>7, <1>8 DEF Advance

(* A write stores a document, a status and a namespace. *)
LEMMA StoreTyped ==
  ASSUME TypeOK, NEW r \in Requests, RequestShape(r), Store(r), cast' = cast
  PROVE  TypeOK'
<1>1. /\ actor[r] \in Accounts /\ target[r] \in Entries /\ doc[r] \in Documents
      /\ mode[r] \in {"create", "replace"}
  BY DEF Store, RequestShape
<1>2. RequestNamespace(r) \in Orgs
  BY <1>1 DEF RequestNamespace, Namespace, TypeOK
<1>3. Outcome(r) \in Statuses \ {"absent"}
  BY <1>1 DEF Outcome, Changed, RequestShape, Store, TypeOK, Statuses
<1>4. RequestsTyped'
  BY DoneTyped DEF Store, TypeOK, RequestsTyped
<1>5. /\ status' \in [Entries -> Statuses]
      /\ content' \in [Entries -> Documents \cup {None}]
      /\ \A e \in Entries : status'[e] = "absent" <=> content'[e] = None
  BY <1>1, <1>3 DEF Store, TypeOK
<1>6. /\ listed' \in [Entries -> BOOLEAN]
      /\ legacy' \in [Entries -> BOOLEAN]
  <2>1. PICK b \in BOOLEAN, c \in BOOLEAN : /\ listed' = [listed EXCEPT ![target[r]] = b]
                                          /\ legacy' = [legacy EXCEPT ![target[r]] = c]
    <3>1. listed[target[r]] \in BOOLEAN /\ legacy[target[r]] \in BOOLEAN
      BY <1>1 DEF TypeOK
    <3> QED
      BY <3>1 DEF Store, IsEditorialWrite, CanReview, SubmitterStillOwns
  <2> QED
    BY <2>1 DEF TypeOK
<1>7. /\ publisher' \in [Entries -> Orgs \cup {None}]
      /\ submitter' \in [Entries -> Accounts \cup {None}]
  BY <1>1, <1>2 DEF Store, TypeOK
<1>8. /\ cleared' \in [Entries -> Documents \cup {None}]
      /\ queuedBy' \in [Entries -> Accounts \cup {None}]
  BY <1>1 DEF Store, TypeOK
<1> QED
  BY <1>4, <1>5, <1>6, <1>7, <1>8 DEF Store, TypeOK, RequestsTyped, claims, people

(* A decision of the namespace's members stores a status. *)
LEMMA ReleaseTyped ==
  ASSUME TypeOK, NEW r \in Requests, RequestShape(r), Release(r), cast' = cast
  PROVE  TypeOK'
<1>1. target[r] \in Entries
  BY DEF Release, RequestShape
<1>2. RequestsTyped'
  BY DoneTyped DEF Release, TypeOK, RequestsTyped
<1>3. /\ status' \in [Entries -> Statuses]
      /\ \A e \in Entries : status'[e] = "absent" <=> status[e] = "absent"
  BY <1>1 DEF Release, TypeOK, Statuses
<1>4. listed' \in [Entries -> BOOLEAN]
  BY <1>1 DEF Release, TypeOK
<1>5. cleared' \in [Entries -> Documents \cup {None}]
  BY <1>1 DEF Release, TypeOK
<1> QED
  BY <1>2, <1>3, <1>4, <1>5 DEF Release, TypeOK, RequestsTyped, claims, people

(* Grants are counted, and claims are about entries and organisations. *)
LEMMA ClaimRequestsTyped ==
  ASSUME TypeOK, NEW r \in Requests, RequestShape(r), Grant(r) \/ QueueClaim(r), cast' = cast
  PROVE  TypeOK'
<1>1. target[r] \in Entries /\ org[r] \in Orgs /\ actor[r] \in Accounts
  BY DEF Grant, Grantable, QueueClaim, RequestShape
<1>2. RequestsTyped'
  BY DoneTyped DEF Grant, GrantTo, QueueClaim, TypeOK, RequestsTyped
<1>3. <<target[r], org[r]>> \in Entries \X Orgs
  BY <1>1
<1>4. CASE Grant(r)
  <2>1. publisher' \in [Entries -> Orgs \cup {None}] /\ grants' \in [Entries -> Nat]
    BY <1>1, <1>4 DEF Grant, GrantTo, TypeOK
  <2>2. claim' \in [Entries \X Orgs -> ClaimStatuses]
    BY <1>3, <1>4 DEF Grant, GrantTo, TypeOK, ClaimStatuses
  <2> QED
    BY <1>2, <1>4, <2>1, <2>2 DEF Grant, GrantTo, TypeOK, RequestsTyped, people
<1>5. CASE QueueClaim(r)
  <2>1. /\ claim' \in [Entries \X Orgs -> ClaimStatuses]
        /\ claimant' \in [Entries \X Orgs -> Accounts \cup {None}]
    BY <1>1, <1>3, <1>5 DEF QueueClaim, TypeOK, ClaimStatuses
  <2> QED
    BY <1>2, <1>5, <2>1 DEF QueueClaim, TypeOK, RequestsTyped, entries, people
<1> QED
  BY <1>4, <1>5

(* What reviewers and admins store: a claim they approve has a claimant. *)
LEMMA StaffTyped ==
  ASSUME TypeOK, ClaimsMakeSense, Staff, cast' = cast
  PROVE  TypeOK'
<1>1. ASSUME NEW e \in Entries, NEW verdict \in {"approved", "rejected"}, Decide(e, verdict)
      PROVE  TypeOK'
  <2>1. /\ status' \in [Entries -> Statuses]
        /\ \A f \in Entries : status'[f] = "absent" <=> status[f] = "absent"
    BY <1>1 DEF Decide, TypeOK, Statuses
  <2>2. listed' \in [Entries -> BOOLEAN]
    BY <1>1 DEF Decide, TypeOK
  <2>3. cleared' \in [Entries -> Documents \cup {None}]
    BY <1>1 DEF Decide, TypeOK
  <2> QED
    BY <1>1, <2>1, <2>2, <2>3 DEF Decide, TypeOK, claims, people, request, locks
<1>2. ASSUME NEW e \in Entries, SetListed(e) PROVE TypeOK'
  BY <1>2 DEF SetListed, TypeOK, claims, people, request, locks
<1>3. ASSUME NEW e \in Entries, NEW o \in Orgs, ApproveClaim(e, o) PROVE TypeOK'
  <2>1. <<e, o>> \in Entries \X Orgs /\ claim[<<e, o>>] = "pending"
    BY <1>3 DEF ApproveClaim, ClaimLocked
  <2>2. status[e] # "absent" /\ claimant[<<e, o>>] \in Accounts
    BY <2>1 DEF ClaimsMakeSense
  <2>3. /\ status' \in [Entries -> Statuses]
        /\ \A f \in Entries : status'[f] = "absent" <=> status[f] = "absent"
    BY <1>3, <2>2 DEF ApproveClaim, Transfer, TypeOK, Statuses
  <2>4. claim' \in [Entries \X Orgs -> ClaimStatuses]
    BY <1>3, <2>1 DEF ApproveClaim, Transfer, TypeOK, ClaimStatuses
  <2>5. /\ verified' \in [Orgs -> BOOLEAN]
        /\ publisher' \in [Entries -> Orgs \cup {None}]
        /\ cleared' \in [Entries -> Documents \cup {None}]
        /\ grants' \in [Entries -> Nat]
    BY <1>3 DEF ApproveClaim, Transfer, TypeOK
  <2>6. member' \subseteq Accounts \X Orgs
    BY <1>3, <2>2 DEF ApproveClaim, Transfer, TypeOK
  <2> QED
    BY <1>3, <2>3, <2>4, <2>5, <2>6 DEF ApproveClaim, Transfer, TypeOK, request, locks
<1>4. ASSUME NEW e \in Entries, NEW o \in Orgs, RejectClaim(e, o) PROVE TypeOK'
  <2>1. claim' \in [Entries \X Orgs -> ClaimStatuses]
    BY <1>4 DEF RejectClaim, TypeOK, ClaimStatuses
  <2> QED
    BY <1>4, <2>1 DEF RejectClaim, TypeOK, entries, people, request, locks
<1>5. ASSUME NEW o \in Orgs, SetVerified(o) PROVE TypeOK'
  BY <1>5 DEF SetVerified, TypeOK, entries, claims, request, locks
<1>6. ASSUME NEW a \in Accounts, NEW o \in Orgs, GrantMembership(a, o) \/ RevokeMembership(a, o)
      PROVE  TypeOK'
  BY <1>6 DEF GrantMembership, RevokeMembership, TypeOK, entries, claims, request, locks
<1>7. ASSUME NEW a \in Accounts, SetDirectCreate(a) PROVE TypeOK'
  BY <1>7 DEF SetDirectCreate, TypeOK, entries, claims, request, locks
<1> QED
  BY <1>1, <1>2, <1>3, <1>4, <1>5, <1>6, <1>7, CastType DEF Staff

(* Type correctness is inductive given the shape of requests and claims. *)
LEMMA TypeStep ==
  ASSUME TypeOK, ClaimsMakeSense, \A r \in Requests : RequestShape(r), [Next]_vars
  PROVE  TypeOK'
<1>1. CASE UNCHANGED vars
  BY <1>1 DEF TypeOK, vars, entries, claims, people, request, locks
<1>2. ASSUME NEW r \in Requests, Ask(r) \/ Proceed(r) \/ Rollback(r), cast' = cast
      PROVE  TypeOK'
  <2>1. CASE Rollback(r)
    <3>1. RequestsTyped'
      BY <2>1, DoneTyped DEF Rollback, TypeOK, RequestsTyped
    <3> QED
      BY <1>2, <2>1, <3>1 DEF Rollback, TypeOK, RequestsTyped, entries, claims, people
  <2>2. CASE Proceed(r)
    BY <1>2, <2>2, AdvanceTyped, StoreTyped, ReleaseTyped, ClaimRequestsTyped DEF Proceed, Advance
  <2> QED
    BY <1>2, <2>1, <2>2, AskTyped
<1>3. CASE Next
  BY <1>2, <1>3, StaffTyped DEF Next
<1> QED
  BY <1>1, <1>3
-----------------------------------------------------------------------------
(* The step is not one of the request s. *)
Still(s) ==
  /\ pc'[s] = pc[s] /\ op'[s] = op[s] /\ actor'[s] = actor[s] /\ target'[s] = target[s]
  /\ org'[s] = org[s] /\ doc'[s] = doc[s] /\ mode'[s] = mode[s] /\ personal'[s] = personal[s]
  /\ auth'[s] = auth[s] /\ shared'[s] = shared[s] /\ owned'[s] = owned[s]

(* What a step of somebody else may do to a request s: nothing it holds moves. *)
Steady(s) ==
  /\ cast' = cast
  /\ Still(s)
  /\ \A e \in Entries :
       /\ status[e] # "absent" => status'[e] # "absent"
       /\ EntryRow(e) \in owned[s] => status'[e] = status[e] /\ publisher'[e] = publisher[e]
  /\ \A a \in Accounts :
       /\ AccountRow(a) \in shared[s] /\ a \in direct => a \in direct'
       /\ AccountRow(a) \in owned[s] =>
            OwnPending(a)' \subseteq OwnPending(a) /\ ClaimsOf(a)' \subseteq ClaimsOf(a)
       /\ Unvouched(a)' => Unvouched(a)
  /\ \A o \in Orgs : OrgRow(o) \in shared[s] /\ verified[o] => verified'[o]
  /\ \A a \in Accounts, o \in Orgs :
       MemberRow(a, o) \in shared[s] \cup owned[s] /\ <<a, o>> \in member => <<a, o>> \in member'

(* A request acts for an organisation. *)
LEMMA NamespaceType ==
  ASSUME TypeOK, NEW s \in Requests, RequestShape(s), pc[s] # "idle", op[s] # "none"
  PROVE  RequestNamespace(s) \in Orgs
<1>1. CASE op[s] = "write"
  BY <1>1 DEF RequestShape, RequestNamespace, Namespace, TypeOK
<1>2. CASE op[s] # "write"
  BY <1>2 DEF RequestShape, RequestNamespace, TypeOK
<1> QED
  BY <1>1, <1>2

(* A request whose rows hold still keeps what is known of it. *)
LEMMA SteadyKeeps ==
  ASSUME IInv, TypeOK', NEW s \in Requests, Steady(s)
  PROVE  Requested(s)'
<1>1. Requested(s)
  BY DEF IInv, RequestsHold
<1>2. pc[s] \notin {"idle", "asked"} /\ mode[s] # "create" =>
        /\ target[s] \in Entries
        /\ status'[target[s]] = status[target[s]] /\ publisher'[target[s]] = publisher[target[s]]
  BY <1>1 DEF Requested, RequestShape, Holdings, Steady, Still
<1>3. pc[s] \notin {"idle", "asked"} =>
        /\ RequestNamespace(s)' = RequestNamespace(s)
        /\ MayEnterQueue(s)' <=> MayEnterQueue(s)
  BY <1>2 DEF Steady, Still, RequestNamespace, Namespace, MayEnterQueue
<1>4. RequestShape(s)'
  BY <1>1, <1>2, <1>3 DEF Requested, RequestShape, Steady, Still
<1>5. Holdings(s)'
  BY <1>1, <1>3, <1>4 DEF Requested, Holdings, RequestShape, Steady, Still
<1>6. Entitled(s)'
  <2> SUFFICES ASSUME pc[s] \in {"authorised", "metered"}, op[s] # "queue"
               PROVE  /\ auth[s] \subseteq FactsAbout(actor[s], RequestNamespace(s))'
                      /\ "verified" \in auth[s] => "member" \in auth[s]
    BY DEF Entitled, Steady, Still, FactsAbout
  <2> DEFINE a == actor[s]
             o == RequestNamespace(s)
  <2>1. /\ a \in Accounts /\ o \in Orgs /\ actor'[s] = a /\ RequestNamespace(s)' = o
        /\ op[s] \in {"write", "release", "grant"}
        /\ op[s] = "grant" => o = org[s] /\ pc[s] = "authorised"
    BY <1>1, <1>3, NamespaceType DEF Requested, RequestShape, Steady, Still, IInv, RequestNamespace
  <2>2. auth[s] \subseteq FactsAbout(a, o) /\ ("verified" \in auth[s] => "member" \in auth[s])
    BY <1>1 DEF Requested, Entitled
  <2> HIDE DEF a, o
  <2>3. "member" \in auth[s] => <<a, o>> \in member /\ <<a, o>> \in member'
    <3>1. "member" \in auth[s] => MemberRow(a, o) \in shared[s] \cup owned[s]
      BY <1>1, <2>1 DEF Requested, Holdings, a, o
    <3>2. "member" \in auth[s] => <<a, o>> \in member
      BY <2>2 DEF FactsAbout
    <3> QED
      BY <3>1, <3>2, <2>1 DEF Steady, Still
  <2>4. "verified" \in auth[s] => verified'[o]
    <3>1. "verified" \in auth[s] => OrgRow(o) \in shared[s]
      BY <1>1, <2>1, <2>2 DEF Requested, Holdings, a, o
    <3>2. "verified" \in auth[s] => verified[o]
      BY <2>2 DEF FactsAbout
    <3> QED
      BY <3>1, <3>2, <2>1 DEF Steady, Still
  <2>5. "direct" \in auth[s] => a \in direct'
    <3>1. "direct" \in auth[s] => AccountRow(a) \in shared[s]
      BY <1>1, <2>1 DEF Requested, Holdings, a, o
    <3>2. "direct" \in auth[s] => a \in direct
      BY <2>2 DEF FactsAbout
    <3> QED
      BY <3>1, <3>2, <2>1 DEF Steady, Still
  <2>6. auth[s] \subseteq Facts
    BY DEF IInv, TypeOK
  <2> QED
    BY <2>1, <2>2, <2>3, <2>4, <2>5, <2>6 DEF FactsAbout, Facts, a, o
<1>7. Headroom(s)'
  <2> SUFFICES ASSUME pc[s] = "metered"
               PROVE  /\ op[s] = "write" /\ Unvouched(actor[s])'
                           => Cardinality(OwnPending(actor[s])') < PendingLimit
                      /\ op[s] = "queue" => Cardinality(ClaimsOf(actor[s])') < cast.claimLimit
    BY DEF Headroom, Steady, Still
  <2> DEFINE a == actor[s]
  <2>1. a \in Accounts /\ op[s] \in {"write", "queue"} /\ AccountRow(a) \in owned[s]
    BY <1>1 DEF Requested, RequestShape, Holdings
  <2>2. OwnPending(a)' \subseteq OwnPending(a) /\ ClaimsOf(a)' \subseteq ClaimsOf(a)
    BY <2>1 DEF Steady, Still
  <2>3. IsFiniteSet(OwnPending(a)) /\ IsFiniteSet(ClaimsOf(a))
    BY <2>1, FS_Subset DEF IInv, Stored, Counted, OwnPending
  <2>4. /\ Cardinality(OwnPending(a)') <= Cardinality(OwnPending(a))
        /\ Cardinality(ClaimsOf(a)') <= Cardinality(ClaimsOf(a))
    BY <2>2, <2>3, FS_Subset
  <2>5. /\ Cardinality(OwnPending(a)) \in Nat /\ Cardinality(OwnPending(a)') \in Nat
        /\ Cardinality(ClaimsOf(a)) \in Nat /\ Cardinality(ClaimsOf(a)') \in Nat
    BY <2>2, <2>3, FS_Subset, FS_CardinalityType
  <2>6. PendingLimit \in Nat /\ cast.claimLimit \in Nat
    BY CastType DEF IInv
  <2>7. op[s] = "write" /\ Unvouched(a) => Cardinality(OwnPending(a)) < PendingLimit
    BY <1>1 DEF Requested, Headroom
  <2>8. op[s] = "queue" => Cardinality(ClaimsOf(a)) < cast.claimLimit
    BY <1>1 DEF Requested, Headroom
  <2>9. Unvouched(a)' => Unvouched(a)
    BY <2>1 DEF Steady, Still
  <2> HIDE DEF a
  <2>10. op[s] = "write" /\ Unvouched(a)' => Cardinality(OwnPending(a)') < PendingLimit
    BY <2>4, <2>5, <2>6, <2>7, <2>9
  <2>11. op[s] = "queue" => Cardinality(ClaimsOf(a)') < cast.claimLimit
    BY <2>4, <2>5, <2>6, <2>8
  <2> QED
    BY <2>10, <2>11 DEF a
<1> QED
  BY <1>4, <1>5, <1>6, <1>7 DEF Requested

(* A step that changes no data leaves what is stored in order, and the requests it *)
(* does not make alone.                                                           *)
LEMMA NoData ==
  ASSUME UNCHANGED <<cast, entries, claims, people>>
  PROVE  /\ \A a : /\ OwnPending(a)' = OwnPending(a) /\ ClaimsOf(a)' = ClaimsOf(a)
                   /\ PendingOf(a)' = PendingOf(a) /\ Unvouched(a)' = Unvouched(a)
         /\ Stored => Stored'
<1>1. \A a : /\ OwnPending(a)' = OwnPending(a) /\ ClaimsOf(a)' = ClaimsOf(a)
             /\ PendingOf(a)' = PendingOf(a) /\ Unvouched(a)' = Unvouched(a)
  BY DEF entries, claims, people, OwnPending, PendingOf, ClaimsOf, Unvouched
<1>2. /\ Fresh => Fresh'
      /\ ClaimsMakeSense => ClaimsMakeSense'
      /\ PublicIsCleared => PublicIsCleared'
      /\ OneWinner => OneWinner'
  BY DEF entries, claims, Fresh, ClaimsMakeSense, PublicIsCleared, OneWinner, OneTransfer,
         ApprovedClaimPublishes
<1>3. Counted => Counted'
  BY <1>1 DEF Counted
<1>4. PendingCap => PendingCap'
  BY <1>1 DEF PendingCap, Unvouched, people
<1>5. ClaimCap => ClaimCap'
  BY <1>1 DEF ClaimCap
<1> QED
  BY <1>1, <1>2, <1>3, <1>4, <1>5 DEF Stored

(* The request r alone moves. *)
OnlyMoves(r) == \A s \in Requests \ {r} : Still(s)

(* A step that changes no data is steady for every other request. *)
LEMMA NoDataSteady ==
  ASSUME NEW r \in Requests, OnlyMoves(r), UNCHANGED <<cast, entries, claims, people>>
  PROVE  \A s \in Requests \ {r} : Steady(s)
  BY NoData DEF OnlyMoves, Steady, entries, people

(* A request that ends moves no other. *)
LEMMA DoneMoves == ASSUME TypeOK, NEW r \in Requests, Done(r) PROVE OnlyMoves(r)
  BY DEF TypeOK, Done, OnlyMoves, Still

(* Nothing is known of a request that has ended, and nothing held. *)
LEMMA DoneIdle == ASSUME TypeOK, NEW r \in Requests, Done(r) PROVE Requested(r)'
<1>1. pc'[r] = "idle" /\ op'[r] = "none" /\ mode'[r] = "none" /\ owned'[r] = {}
  BY DEF TypeOK, Done
<1> QED
  BY <1>1 DEF Requested, RequestShape, Holdings, Entitled, Headroom

(* Rows that are released are not held twice. *)
LEMMA DoneExclusive == ASSUME TypeOK, Exclusive, NEW r \in Requests, Done(r) PROVE Exclusive'
<1>1. \A s \in Requests : owned'[s] \subseteq owned[s] /\ shared'[s] \subseteq shared[s]
  BY DEF TypeOK, Done
<1> QED
  BY <1>1 DEF Exclusive

(* A refusal, an error or a lost process leaves everything in order. *)
LEMMA RollbackSafe ==
  ASSUME IInv, NEW r \in Requests, Rollback(r), cast' = cast, TypeOK'
  PROVE  IInv'
<1>1. Done(r) /\ UNCHANGED <<cast, entries, claims, people>>
  BY DEF Rollback
<1>2. \A s \in Requests \ {r} : Steady(s)
  BY <1>1, DoneMoves, NoDataSteady DEF IInv
<1>3. RequestsHold'
  BY <1>1, <1>2, SteadyKeeps, DoneIdle DEF RequestsHold, IInv
<1> QED
  BY <1>1, <1>3, NoData, DoneExclusive DEF IInv

(* So does a request that arrives: it holds nothing and knows nothing. *)
LEMMA AskSafe ==
  ASSUME IInv, NEW r \in Requests, Ask(r), cast' = cast, TypeOK'
  PROVE  IInv'
<1>1. UNCHANGED <<cast, entries, claims, people, auth, locks>>
  BY DEF Ask, AskWrite, AskRelease, AskClaim
<1> DEFINE Shaped ==
             /\ pc'[r] = "asked"
             /\ op'[r] \in {"write", "release", "grant", "queue"}
             /\ actor'[r] \in Accounts /\ target'[r] \in Entries
             /\ op'[r] = "write" => mode'[r] \in {"create", "replace"} /\ doc'[r] \in Documents
             /\ op'[r] # "write" => mode'[r] \notin {"create", "replace"} /\ org'[r] \in Orgs
             /\ mode'[r] = "replace" => personal'[r]
             /\ mode'[r] # "create" => status[target'[r]] # "absent"
<1>2. OnlyMoves(r) /\ Shaped
  <2>1. ASSUME NEW a \in cast.accounts, NEW x \in BOOLEAN, NEW p \in BOOLEAN, NEW e \in cast.entries,
               NEW d \in cast.documents, AskWrite(r, a, x, e, d, p)
        PROVE  OnlyMoves(r) /\ Shaped
    BY <1>1, <2>1, CastType DEF AskWrite, Request, IInv, TypeOK, OnlyMoves, Still, locks
  <2>2. ASSUME NEW a \in cast.accounts, NEW e \in cast.entries, NEW o \in cast.orgs,
               NEW verdict \in {"approve", "reject"}, AskRelease(r, a, e, o, verdict)
        PROVE  OnlyMoves(r) /\ Shaped
    BY <1>1, <2>2, CastType DEF AskRelease, Request, IInv, TypeOK, OnlyMoves, Still, locks
  <2>3. ASSUME NEW a \in cast.accounts, NEW e \in cast.entries, NEW o \in cast.orgs,
               NEW x \in BOOLEAN, AskClaim(r, a, x, e, o)
        PROVE  OnlyMoves(r) /\ Shaped
    <3>1. status[e] # "absent"
      BY <2>3 DEF AskClaim, Public
    <3> QED
      BY <1>1, <2>3, <3>1, CastType DEF AskClaim, Request, IInv, TypeOK, OnlyMoves, Still, locks
  <2> QED
    BY <2>1, <2>2, <2>3 DEF Ask
<1>3. status' = status
  BY <1>1 DEF entries
<1>4. Requested(r)'
  <2>1. \A e \in Entries : EntryRow(e) \in owned'[r] => status'[e] # "absent"
    BY <1>1, <1>3 DEF IInv, RequestsHold, Requested, Holdings, locks
  <2> QED
    BY <1>2, <1>3, <2>1 DEF Requested, RequestShape, Holdings, Entitled, Headroom
<1>5. RequestsHold'
  BY <1>1, <1>2, <1>4, NoDataSteady, SteadyKeeps DEF RequestsHold, IInv
<1>6. Exclusive'
  BY <1>1 DEF IInv, Exclusive, locks
<1> QED
  BY <1>1, <1>5, <1>6, NoData DEF IInv

(* Taking a row for oneself, or with others, leaves no row held twice. *)
LEMMA OwnExclusive ==
  ASSUME TypeOK, Exclusive, NEW r \in Requests, NEW rows, Own(r, rows)
  PROVE  /\ Exclusive'
         /\ \A s \in Requests : shared'[s] = shared[s] /\ (s # r => owned'[s] = owned[s])
         /\ owned'[r] = owned[r] \cup rows
<1>1. /\ \A s \in Requests : shared'[s] = shared[s] /\ (s # r => owned'[s] = owned[s])
      /\ owned'[r] = owned[r] \cup rows
  BY DEF Own, TypeOK
<1>2. \A s \in Requests \ {r} : (owned[s] \cup shared[s]) \cap rows = {}
  BY DEF Own, MayOwn
<1> QED
  BY <1>1, <1>2 DEF Exclusive

(* Rows are locked FOR SHARE only if nobody owns them. *)
LEMMA ReadExclusive ==
  ASSUME TypeOK, Exclusive, NEW r \in Requests, ReadFacts(r)
  PROVE  Exclusive'
<1>1. PICK rows : MayShare(r, rows) /\ shared' = [shared EXCEPT ![r] = @ \cup rows] /\ owned' = owned
  BY DEF ReadFacts
<1>2. /\ \A s \in Requests \ {r} : shared'[s] = shared[s]
      /\ shared'[r] = shared[r] \cup rows
  BY <1>1 DEF TypeOK
<1>3. \A s \in Requests \ {r} : owned[s] \cap rows = {}
  BY <1>1 DEF MayShare
<1> QED
  BY <1>1, <1>2, <1>3 DEF Exclusive

(* The steps before the last change no data and move one request. *)
LEMMA AdvanceMoves ==
  ASSUME IInv, NEW r \in Requests, Advance(r)
  PROVE  /\ OnlyMoves(r) /\ Exclusive'
         /\ UNCHANGED <<entries, claims, people, request>>
<1>1. UNCHANGED <<entries, claims, people, request>>
  BY DEF Advance, LockForWrite, LockAccount, ReproveAuthority, ReadFacts, Meter, LockForRelease,
         ProveMembership, LockForClaim, ProveGrant, ChargeClaim, CountClaims
<1>2. CASE ReproveAuthority(r) \/ ProveMembership(r)
  <2>1. ReadFacts(r)
    BY <1>2 DEF ReproveAuthority, ProveMembership
  <2>2. OnlyMoves(r)
    BY <1>1, <2>1 DEF ReadFacts, IInv, TypeOK, OnlyMoves, Still, request
  <2> QED
    BY <1>1, <2>1, <2>2, ReadExclusive DEF IInv
<1>3. CASE ProveGrant(r)
  <2>1. PICK row : /\ MayShare(r, {OrgRow(org[r])}) /\ MayOwn(r, row)
                   /\ shared' = [shared EXCEPT ![r] = @ \cup {OrgRow(org[r])}]
                   /\ owned' = [owned EXCEPT ![r] = @ \cup row]
    BY <1>3 DEF ProveGrant
  <2>2. /\ \A s \in Requests \ {r} : shared'[s] = shared[s] /\ owned'[s] = owned[s]
        /\ shared'[r] = shared[r] \cup {OrgRow(org[r])}
        /\ owned'[r] = owned[r] \cup row
    BY <2>1 DEF IInv, TypeOK
  <2>3. \A s \in Requests \ {r} : /\ OrgRow(org[r]) \notin owned[s]
                                  /\ (owned[s] \cup shared[s]) \cap row = {}
    BY <2>1 DEF MayShare, MayOwn
  <2>4. Exclusive'
    BY <2>2, <2>3 DEF IInv, Exclusive
  <2>5. OnlyMoves(r)
    BY <1>1, <1>3, <2>2 DEF ProveGrant, IInv, TypeOK, OnlyMoves, Still, request
  <2> QED
    BY <1>1, <2>4, <2>5
<1>4. CASE LockForWrite(r) \/ LockAccount(r) \/ LockForRelease(r) \/ LockForClaim(r) \/ ChargeClaim(r)
           \/ Meter(r) \/ CountClaims(r)
  <2>1. (\E rows : Own(r, rows)) \/ UNCHANGED locks
    BY <1>4 DEF LockForWrite, LockAccount, LockForRelease, LockForClaim, ChargeClaim, Meter, CountClaims
  <2>2. /\ Exclusive'
        /\ \A s \in Requests \ {r} : shared'[s] = shared[s] /\ owned'[s] = owned[s]
    BY <2>1, OwnExclusive DEF locks, IInv, Exclusive
  <2>3. auth' = auth /\ \A s \in Requests \ {r} : pc'[s] = pc[s]
    BY <1>4 DEF LockForWrite, LockAccount, LockForRelease, LockForClaim, ChargeClaim, Meter, CountClaims,
       IInv, TypeOK
  <2> QED
    BY <1>1, <2>2, <2>3 DEF OnlyMoves, Still, request
<1> QED
  BY <1>2, <1>3, <1>4 DEF Advance

(* Locking steps. *)
LEMMA LockRequested ==
  ASSUME IInv, NEW r \in Requests, cast' = cast, TypeOK',
         LockForWrite(r) \/ LockAccount(r) \/ LockForRelease(r) \/ LockForClaim(r) \/ ChargeClaim(r)
  PROVE  Requested(r)'
<1>1. UNCHANGED <<entries, claims, people, request>>
  BY DEF LockForWrite, LockAccount, LockForRelease, LockForClaim, ChargeClaim
<1>2. Requested(r)
  BY DEF IInv, RequestsHold
<1>3. /\ status' = status /\ publisher' = publisher
      /\ op' = op /\ actor' = actor /\ target' = target /\ org' = org /\ doc' = doc
      /\ mode' = mode /\ personal' = personal /\ (MayEnterQueue(r)' <=> MayEnterQueue(r))
  BY <1>1 DEF entries, request, MayEnterQueue
<1>4. owned[r] \subseteq owned'[r]
  BY OwnExclusive DEF LockForWrite, LockAccount, LockForRelease, LockForClaim, ChargeClaim, locks, IInv
<1>5. CASE LockForWrite(r) \/ LockForRelease(r) \/ LockForClaim(r)
  <2>1. pc[r] = "asked" /\ pc'[r] = "locked"
    BY <1>5 DEF LockForWrite, LockForRelease, LockForClaim, IInv, TypeOK
  <2>2. mode[r] # "create" => EntryRow(target[r]) \in owned'[r]
    <3>1. mode[r] # "create" => status[target[r]] # "absent"
      BY <1>2, <2>1 DEF Requested, RequestShape
    <3>2. mode[r] # "create" => Own(r, {EntryRow(target[r])})
      BY <1>5, <3>1 DEF LockForWrite, LockForRelease, LockForClaim
    <3> QED
      BY <3>2, OwnExclusive DEF IInv
  <2>3. op[r] = "release" => publisher[target[r]] = org[r]
    BY <1>5 DEF LockForWrite, LockForRelease, LockForClaim
  <2>4. RequestShape(r)'
    BY <1>2, <1>3, <2>1, <2>3 DEF Requested, RequestShape
  <2>5. \A e \in Entries : EntryRow(e) \in owned'[r] => status'[e] # "absent"
    <3>1. CASE owned'[r] = owned[r]
      BY <1>2, <1>3, <3>1 DEF Requested, Holdings
    <3>2. CASE /\ owned'[r] = owned[r] \cup {EntryRow(target[r])}
               /\ status[target[r]] # "absent"
      BY <1>2, <1>3, <3>2 DEF Requested, Holdings, EntryRow
    <3>3. \/ UNCHANGED locks
          \/ Own(r, {EntryRow(target[r])}) /\ status[target[r]] # "absent"
      BY <1>2, <1>5, <2>1 DEF LockForWrite, LockForRelease, LockForClaim, Requested, RequestShape
    <3> QED
      BY <3>1, <3>2, <3>3, OwnExclusive DEF IInv, locks
  <2> QED
    BY <1>3, <2>1, <2>2, <2>4, <2>5 DEF Requested, Holdings, Entitled, Headroom
<1>6. CASE LockAccount(r) \/ ChargeClaim(r)
  <2>1. /\ pc[r] = "locked" /\ pc'[r] = "charged"
        /\ op[r] \in {"write", "queue"}
        /\ op[r] = "write" => MayEnterQueue(r)
        /\ Own(r, {AccountRow(actor[r])})
    BY <1>6 DEF LockAccount, ChargeClaim, IInv, TypeOK
  <2>2. owned'[r] = owned[r] \cup {AccountRow(actor[r])}
    BY <2>1, OwnExclusive DEF IInv
  <2>3. RequestShape(r)'
    BY <1>2, <1>3, <2>1 DEF Requested, RequestShape
  <2>4. Holdings(r)'
    <3>1. \A e \in Entries : EntryRow(e) \in owned'[r] => EntryRow(e) \in owned[r]
      BY <2>2 DEF EntryRow, AccountRow
    <3> QED
      BY <1>2, <1>3, <1>4, <2>1, <2>2, <3>1 DEF Requested, Holdings
  <2> QED
    BY <2>1, <2>3, <2>4 DEF Requested, Entitled, Headroom
<1> QED
  BY <1>5, <1>6

(* Counting steps. *)
LEMMA CountRequested ==
  ASSUME IInv, NEW r \in Requests, cast' = cast, TypeOK', Meter(r) \/ CountClaims(r)
  PROVE  Requested(r)'
<1>1. UNCHANGED <<entries, claims, people, request, auth, locks>>
  BY DEF Meter, CountClaims
<1>2. Requested(r)
  BY DEF IInv, RequestsHold
<1>3. /\ status' = status /\ publisher' = publisher /\ auth' = auth /\ shared' = shared
      /\ owned' = owned /\ member' = member /\ verified' = verified /\ direct' = direct
      /\ op' = op /\ actor' = actor /\ target' = target /\ org' = org /\ doc' = doc
      /\ mode' = mode /\ personal' = personal /\ (MayEnterQueue(r)' <=> MayEnterQueue(r))
      /\ RequestNamespace(r)' = RequestNamespace(r)
  BY <1>1 DEF entries, request, people, locks, MayEnterQueue, RequestNamespace, Namespace
<1>4. /\ pc'[r] = "metered" /\ actor[r] \in Accounts
      /\ \/ pc[r] = "authorised" /\ op[r] = "write" /\ MayEnterQueue(r)
         \/ pc[r] = "charged" /\ op[r] = "queue"
  BY <1>2 DEF Meter, CountClaims, NeedsSlot, IInv, TypeOK, Requested, RequestShape
<1>5. RequestShape(r)' /\ Holdings(r)'
  BY <1>2, <1>3, <1>4 DEF Requested, RequestShape, Holdings
<1>6. Entitled(r)'
  BY <1>2, <1>3, <1>4 DEF Requested, Entitled, FactsAbout
<1>7. Headroom(r)'
  <2>1. /\ OwnPending(actor[r])' = OwnPending(actor[r]) /\ ClaimsOf(actor[r])' = ClaimsOf(actor[r])
        /\ Unvouched(actor[r])' = Unvouched(actor[r])
    <3>1. \A a : /\ OwnPending(a)' = OwnPending(a) /\ ClaimsOf(a)' = ClaimsOf(a)
                 /\ Unvouched(a)' = Unvouched(a)
      BY <1>1, NoData
    <3> QED
      BY <1>3, <3>1 DEF OwnPending, PendingOf, ClaimsOf, Unvouched
  <2>2. CASE op[r] = "write"
    <3>1. Unvouched(actor[r]) => Cardinality(PendingOf(actor[r])) < PendingLimit
      BY <2>2 DEF Meter, CountClaims, Unvouched, HasAnyVerifiedMembership
    <3>2. IsFiniteSet(PendingOf(actor[r])) /\ OwnPending(actor[r]) \subseteq PendingOf(actor[r])
      BY <1>4 DEF IInv, Stored, Counted, OwnPending
    <3>3. /\ Cardinality(OwnPending(actor[r])) <= Cardinality(PendingOf(actor[r]))
          /\ Cardinality(OwnPending(actor[r])) \in Nat /\ Cardinality(PendingOf(actor[r])) \in Nat
      BY <3>2, FS_Subset, FS_CardinalityType
    <3>4. Unvouched(actor[r]) => Cardinality(OwnPending(actor[r])) < PendingLimit
      BY <3>1, <3>3
    <3> QED
      BY <1>3, <2>1, <2>2, <3>4 DEF Headroom
  <2>3. CASE op[r] = "queue"
    <3>1. Cardinality(ClaimsOf(actor[r])) < cast.claimLimit
      BY <2>3 DEF Meter, CountClaims
    <3> QED
      BY <1>3, <2>1, <2>3, <3>1 DEF Headroom
  <2> QED
    BY <1>4, <2>2, <2>3
<1> QED
  BY <1>5, <1>6, <1>7 DEF Requested

(* Reading and locking the authority. *)
LEMMA ReadRequested ==
  ASSUME IInv, NEW r \in Requests, cast' = cast, TypeOK',
         ReproveAuthority(r) \/ ProveMembership(r) \/ ProveGrant(r)
  PROVE  Requested(r)'
<1>1. UNCHANGED <<entries, claims, people, request>>
  BY DEF ReproveAuthority, ProveMembership, ReadFacts, ProveGrant
<1>2. Requested(r)
  BY DEF IInv, RequestsHold
<1>3. /\ status' = status /\ publisher' = publisher
      /\ member' = member /\ verified' = verified /\ direct' = direct
      /\ op' = op /\ actor' = actor /\ target' = target /\ org' = org /\ doc' = doc
      /\ mode' = mode /\ personal' = personal /\ (MayEnterQueue(r)' <=> MayEnterQueue(r))
      /\ RequestNamespace(r)' = RequestNamespace(r)
  BY <1>1 DEF entries, request, people, MayEnterQueue, RequestNamespace, Namespace
<1>4. pc'[r] = "authorised"
  BY DEF ReproveAuthority, ProveMembership, ReadFacts, ProveGrant, IInv, TypeOK
<1>5. CASE ReproveAuthority(r) \/ ProveMembership(r)
  <2> DEFINE a == actor[r]
             o == RequestNamespace(r)
  <2>1. /\ op[r] \in {"write", "release"} /\ pc[r] \in {"locked", "charged"}
        /\ pc[r] = "locked" /\ op[r] = "write" => ~MayEnterQueue(r)
        /\ ReadFacts(r)
    BY <1>5 DEF ReproveAuthority, ProveMembership
  <2>2. /\ owned' = owned /\ auth'[r] = FactsAbout(a, o)
        /\ shared'[r] = shared[r] \cup {AccountRow(a)} \cup
               (IF <<a, o>> \in member THEN {OrgRow(o), MemberRow(a, o)} ELSE {})
    BY <2>1 DEF ReadFacts, IInv, TypeOK
  <2>3. /\ "member" \in FactsAbout(a, o) => <<a, o>> \in member
        /\ "verified" \in FactsAbout(a, o) => "member" \in FactsAbout(a, o)
        /\ FactsAbout(a, o)' = FactsAbout(a, o)
    BY <1>3 DEF FactsAbout, Facts
  <2>4. RequestShape(r)'
    BY <1>2, <1>3, <1>4, <2>1 DEF Requested, RequestShape
  <2>5. /\ AccountRow(a) \in shared'[r]
        /\ "member" \in auth'[r] => {OrgRow(o), MemberRow(a, o)} \subseteq shared'[r]
    BY <2>2, <2>3
  <2>6. Holdings(r)'
    BY <1>2, <1>3, <1>4, <2>1, <2>2, <2>5 DEF Requested, Holdings
  <2>7. Entitled(r)'
    BY <1>3, <2>2, <2>3 DEF Entitled
  <2> QED
    BY <1>4, <2>4, <2>6, <2>7 DEF Requested, Headroom
<1>6. CASE ProveGrant(r)
  <2> DEFINE a == actor[r]
             o == org[r]
  <2>1. /\ op[r] = "grant" /\ pc[r] = "locked" /\ RequestNamespace(r) = o
    BY <1>2, <1>6 DEF ProveGrant, Requested, RequestShape, RequestNamespace
  <2>2. /\ owned'[r] = owned[r] \cup (IF <<a, o>> \in member THEN {MemberRow(a, o)} ELSE {})
        /\ shared'[r] = shared[r] \cup {OrgRow(o)}
        /\ auth'[r] = FactsAbout(a, o) \ {"direct"}
    BY <1>6 DEF ProveGrant, IInv, TypeOK
  <2>3. /\ "member" \in FactsAbout(a, o) => <<a, o>> \in member
        /\ "verified" \in FactsAbout(a, o) => "member" \in FactsAbout(a, o)
        /\ FactsAbout(a, o)' = FactsAbout(a, o)
    BY <1>3 DEF FactsAbout, Facts
  <2>4. RequestShape(r)'
    BY <1>2, <1>3, <1>4, <2>1 DEF Requested, RequestShape
  <2>5. Holdings(r)'
    <3>1. \A e \in Entries : EntryRow(e) \in owned'[r] => EntryRow(e) \in owned[r]
      BY <2>2 DEF EntryRow, MemberRow
    <3> QED
      BY <1>2, <1>3, <1>4, <2>1, <2>2, <2>3, <3>1 DEF Requested, Holdings
  <2>6. Entitled(r)'
    BY <1>3, <2>1, <2>2, <2>3 DEF Entitled
  <2> QED
    BY <1>4, <2>4, <2>5, <2>6 DEF Requested, Headroom
<1> QED
  BY <1>5, <1>6

(* The steps before the last keep the invariant. *)
LEMMA AdvanceSafe ==
  ASSUME IInv, NEW r \in Requests, Advance(r), cast' = cast, TypeOK'
  PROVE  IInv'
<1>1. Requested(r)'
  BY LockRequested, CountRequested, ReadRequested DEF Advance
<1>2. OnlyMoves(r) /\ Exclusive' /\ UNCHANGED <<cast, entries, claims, people>>
  BY AdvanceMoves
<1>3. RequestsHold'
  BY <1>1, <1>2, NoDataSteady, SteadyKeeps DEF RequestsHold
<1> QED
  BY <1>2, <1>3, NoData DEF IInv
-----------------------------------------------------------------------------
(* The writes. A set that gains at most one member stays finite, and counts at most *)
(* one more.                                                                       *)
LEMMA OneMore ==
  ASSUME NEW S, IsFiniteSet(S), NEW x, NEW T, T \subseteq S \cup {x}
  PROVE  /\ IsFiniteSet(T)
         /\ Cardinality(T) \in Nat /\ Cardinality(S) \in Nat
         /\ Cardinality(T) <= Cardinality(S) + 1
         /\ T \subseteq S => Cardinality(T) <= Cardinality(S)
<1>1. IsFiniteSet(S \cup {x}) /\ Cardinality(S \cup {x}) <= Cardinality(S) + 1
  <2>1. /\ IsFiniteSet(S \cup {x})
        /\ Cardinality(S \cup {x}) = IF x \in S THEN Cardinality(S) ELSE Cardinality(S) + 1
    BY FS_AddElement
  <2>2. Cardinality(S) \in Nat
    BY FS_CardinalityType
  <2> QED
    BY <2>1, <2>2
<1>2. IsFiniteSet(T) /\ Cardinality(T) <= Cardinality(S \cup {x})
  BY <1>1, FS_Subset
<1>3. T \subseteq S => Cardinality(T) <= Cardinality(S)
  BY FS_Subset
<1>4. Cardinality(T) \in Nat /\ Cardinality(S) \in Nat /\ Cardinality(S \cup {x}) \in Nat
  BY <1>1, <1>2, FS_CardinalityType
<1> QED
  BY <1>1, <1>2, <1>3, <1>4

(* Steps that send nothing to the queue and claim nothing keep what is counted. *)
Fewer(a) ==
  /\ PendingOf(a)' \subseteq PendingOf(a)
  /\ OwnPending(a)' \subseteq OwnPending(a)
  /\ ClaimsOf(a)' \subseteq ClaimsOf(a)
  /\ Unvouched(a)' => Unvouched(a)

(* With nothing more to count, nothing passes its ceiling. *)
LEMMA FewerCounted ==
  ASSUME IInv, cast' = cast, \A a \in Accounts : Fewer(a)
  PROVE  Counted' /\ PendingCap' /\ ClaimCap'
<1>1. \A a \in Accounts : /\ IsFiniteSet(PendingOf(a)) /\ IsFiniteSet(OwnPending(a))
                          /\ IsFiniteSet(ClaimsOf(a))
  <2>1. \A a \in Accounts : IsFiniteSet(PendingOf(a)) /\ OwnPending(a) \subseteq PendingOf(a)
    BY DEF IInv, Stored, Counted, OwnPending
  <2> QED
    BY <2>1, FS_Subset DEF IInv, Stored, Counted
<1>2. PendingLimit \in Nat /\ cast.claimLimit \in Nat
  BY CastType DEF IInv
<1>3. ASSUME NEW a \in Accounts
      PROVE  /\ IsFiniteSet(PendingOf(a)') /\ IsFiniteSet(ClaimsOf(a)')
             /\ Unvouched(a)' => Cardinality(OwnPending(a)') <= PendingLimit
             /\ Cardinality(ClaimsOf(a)') <= cast.claimLimit
  <2>1. /\ Unvouched(a) => Cardinality(OwnPending(a)) <= PendingLimit
        /\ Cardinality(ClaimsOf(a)) <= cast.claimLimit
    BY DEF IInv, Stored, PendingCap, ClaimCap, Unvouched
  <2>2. /\ IsFiniteSet(PendingOf(a)') /\ IsFiniteSet(ClaimsOf(a)')
        /\ Cardinality(OwnPending(a)') <= Cardinality(OwnPending(a))
        /\ Cardinality(ClaimsOf(a)') <= Cardinality(ClaimsOf(a))
        /\ Cardinality(OwnPending(a)') \in Nat /\ Cardinality(OwnPending(a)) \in Nat
        /\ Cardinality(ClaimsOf(a)') \in Nat /\ Cardinality(ClaimsOf(a)) \in Nat
    <3>1. /\ PendingOf(a)' \subseteq PendingOf(a) \cup {a}
          /\ OwnPending(a)' \subseteq OwnPending(a) /\ OwnPending(a)' \subseteq OwnPending(a) \cup {a}
          /\ ClaimsOf(a)' \subseteq ClaimsOf(a) /\ ClaimsOf(a)' \subseteq ClaimsOf(a) \cup {a}
      BY DEF Fewer
    <3> QED
      BY <1>1, <3>1, OneMore
  <2>3. Unvouched(a)' => Unvouched(a)
    BY DEF Fewer
  <2> QED
    BY <1>2, <2>1, <2>2, <2>3
<1>4. Counted' /\ ClaimCap'
  BY <1>3 DEF Counted, ClaimCap
<1>5. PendingCap'
  BY <1>3 DEF PendingCap, Unvouched
<1> QED
  BY <1>4, <1>5

(* What two requests hold of one row. *)
LEMMA NotTwice ==
  ASSUME IInv, NEW r \in Requests, NEW s \in Requests \ {r}, NEW row, row \in owned[r]
  PROVE  row \notin owned[s] /\ row \notin shared[s]
  BY DEF IInv, Exclusive

(* A write: what it decided on is true, and the slot it counted is still free. *)
LEMMA StoreSafe ==
  ASSUME IInv, NEW r \in Requests, Store(r), cast' = cast, TypeOK'
  PROVE  IInv'
<1> DEFINE me == actor[r]
           e == target[r]
<1>1. /\ Requested(r) /\ Done(r) /\ op[r] = "write" /\ pc[r] \in {"authorised", "metered"}
      /\ me \in Accounts /\ e \in Entries /\ mode[r] \in {"create", "replace"}
      /\ mode[r] = "create" <=> status[e] = "absent"
      /\ UNCHANGED <<cast, grants, claims, people>>
  BY DEF IInv, RequestsHold, Requested, RequestShape, Store
<1>2. /\ RequestNamespace(r) \in Orgs /\ (mode[r] = "create" => publisher[e] = None)
      /\ publisher[e] # None => RequestNamespace(r) = publisher[e]
  BY <1>1 DEF IInv, TypeOK, Stored, Fresh, RequestNamespace, Namespace
<1>3. Outcome(r) \in Statuses \ {"absent"}
  BY <1>1 DEF IInv, TypeOK, Outcome, Changed, Statuses
<1>4. /\ \A f \in Entries \ {e} : /\ status'[f] = status[f] /\ publisher'[f] = publisher[f]
                                  /\ submitter'[f] = submitter[f] /\ content'[f] = content[f]
                                  /\ cleared'[f] = cleared[f] /\ queuedBy'[f] = queuedBy[f]
      /\ status'[e] = Outcome(r) /\ content'[e] = doc[r]
      /\ publisher'[e] \in {publisher[e], RequestNamespace(r)}
      /\ submitter'[e] = IF mode[r] = "create" /\ personal[r] THEN me ELSE submitter[e]
      /\ queuedBy'[e] = IF MayEnterQueue(r) /\ Outcome(r) = "pending" THEN me ELSE queuedBy[e]
  BY <1>1 DEF Store, IInv, TypeOK
<1> HIDE DEF me, e
<1>5. \A a \in Accounts : /\ ClaimsOf(a)' = ClaimsOf(a) /\ Unvouched(a)' = Unvouched(a)
                          /\ PendingOf(a)' \subseteq PendingOf(a) \cup {e}
                          /\ OwnPending(a)' \subseteq OwnPending(a) \cup {e}
  BY <1>1, <1>4 DEF claims, people, ClaimsOf, Unvouched, PendingOf, OwnPending
(* The queue of an account grows only by its own metered write. *)
<1>6. ASSUME NEW a \in Accounts, ~(a = me /\ pc[r] = "metered")
      PROVE  OwnPending(a)' \subseteq OwnPending(a)
  <2> SUFFICES ASSUME e \in OwnPending(a)' PROVE e \in OwnPending(a)
    BY <1>5
  <2>1. Outcome(r) = "pending" /\ submitter'[e] = a /\ queuedBy'[e] = a
    BY <1>1, <1>4 DEF OwnPending, PendingOf
  <2>2. CASE MayEnterQueue(r)
    <3>1. a = me /\ pc[r] = "authorised"
      BY <1>1, <1>4, <1>6, <2>1, <2>2
    <3>2. ~personal[r] /\ mode[r] = "create"
      BY <1>1, <2>1, <2>2, <3>1 DEF Store, NeedsSlot, Requested, RequestShape
    <3>3. submitter[e] = None
      BY <1>1, <3>2 DEF IInv, Stored, Fresh
    <3> QED
      BY <1>4, <2>1, <3>2, <3>3
  <2>3. CASE ~MayEnterQueue(r)
    <3>1. mode[r] # "create" /\ status[e] = "pending"
      BY <2>3 DEF MayEnterQueue, e
    <3>2. submitter[e] = a /\ queuedBy[e] = a
      BY <1>4, <2>1, <2>3, <3>1
    <3> QED
      BY <1>1, <3>1, <3>2 DEF OwnPending, PendingOf
  <2> QED
    BY <2>2, <2>3
<1>7. ASSUME NEW s \in Requests \ {r} PROVE Steady(s)
  <2>1. OnlyMoves(r)
    BY <1>1, DoneMoves DEF IInv
  <2>2. EntryRow(e) \notin owned[s]
    <3>1. CASE mode[r] = "create"
      BY <1>1, <3>1 DEF IInv, RequestsHold, Requested, Holdings
    <3>2. CASE mode[r] # "create"
      BY <1>1, <3>2, NotTwice DEF Requested, Holdings, e
    <3> QED
      BY <3>1, <3>2
  <2>3. \A f \in Entries :
          /\ status[f] # "absent" => status'[f] # "absent"
          /\ EntryRow(f) \in owned[s] => status'[f] = status[f] /\ publisher'[f] = publisher[f]
    BY <1>3, <1>4, <2>2
  <2>4. \A a \in Accounts : AccountRow(a) \in owned[s] => OwnPending(a)' \subseteq OwnPending(a)
    <3>1. pc[r] = "metered" => AccountRow(me) \in owned[r]
      BY <1>1 DEF Requested, RequestShape, Holdings, me
    <3>2. pc[r] = "metered" => AccountRow(me) \notin owned[s]
      BY <3>1, NotTwice
    <3> QED
      BY <1>6, <3>2
  <2>5. \A a \in Accounts : ClaimsOf(a)' \subseteq ClaimsOf(a) /\ (Unvouched(a)' => Unvouched(a))
    BY <1>5
  <2>6. UNCHANGED <<cast, direct, verified, member>>
    BY <1>1 DEF people
  <2>7. Still(s)
    BY <2>1 DEF OnlyMoves
  <2>8. \A a \in Accounts :
          AccountRow(a) \in owned[s] =>
            OwnPending(a)' \subseteq OwnPending(a) /\ ClaimsOf(a)' \subseteq ClaimsOf(a)
    BY <2>4, <2>5
  <2> QED
    BY <2>3, <2>5, <2>6, <2>7, <2>8 DEF Steady
<1>8. RequestsHold' /\ Exclusive'
  BY <1>1, <1>7, SteadyKeeps, DoneIdle, DoneExclusive DEF IInv, RequestsHold
<1>9. Fresh' /\ ClaimsMakeSense'
  BY <1>1, <1>3, <1>4 DEF IInv, Stored, Fresh, ClaimsMakeSense, claims
<1>10. PublicIsCleared'
  <2>1. CASE MayPublish(auth[r], session[r])
    <3>1. auth[r] \subseteq FactsAbout(actor[r], RequestNamespace(r))
      BY <1>1 DEF Requested, Entitled
    <3>2. MayPublish(FactsAbout(actor[r], RequestNamespace(r)), session[r])
      BY <2>1, <3>1 DEF MayPublish
    <3>3. cleared'[e] = doc[r]
      BY <1>1, <3>2 DEF Store, IInv, TypeOK, e
    <3> QED
      BY <1>4, <3>3 DEF IInv, Stored, PublicIsCleared
  <2>2. CASE ~MayPublish(auth[r], session[r])
    <3>1. status'[e] = "approved" => ~Changed(r) /\ status[e] = "approved"
      BY <1>4, <2>2 DEF Outcome, e
    <3>2. ~Changed(r) => doc[r] = content[e]
      BY DEF Changed, e
    <3>3. cleared'[e] = cleared[e] \/ cleared'[e] = doc[r]
      BY <1>1 DEF Store, IInv, TypeOK, e
    <3> QED
      BY <1>1, <1>4, <3>1, <3>2, <3>3 DEF IInv, Stored, PublicIsCleared
  <2> QED
    BY <2>1, <2>2
<1>11. OneWinner'
  <2>1. OneTransfer'
    BY <1>1 DEF IInv, Stored, OneWinner, OneTransfer
  <2>2. ApprovedClaimPublishes'
    BY <1>1, <1>2, <1>4 DEF IInv, Stored, OneWinner, ApprovedClaimPublishes, claims
  <2> QED
    BY <2>1, <2>2 DEF OneWinner
<1>12. Counted' /\ ClaimCap'
  <2>1. \A a \in Accounts : IsFiniteSet(PendingOf(a)')
    BY <1>5, OneMore DEF IInv, Stored, Counted
  <2> QED
    BY <1>5, <2>1 DEF IInv, Stored, Counted, ClaimCap
<1>13. PendingCap'
  <2> SUFFICES ASSUME NEW a \in Accounts, Unvouched(a)'
               PROVE  Cardinality(OwnPending(a)') <= PendingLimit
    BY DEF PendingCap, Unvouched
  <2>1. Unvouched(a) /\ Cardinality(OwnPending(a)) <= PendingLimit
    BY <1>5 DEF IInv, Stored, PendingCap, Unvouched
  <2>2. IsFiniteSet(OwnPending(a))
    <3>1. IsFiniteSet(PendingOf(a)) /\ OwnPending(a) \subseteq PendingOf(a)
      BY DEF IInv, Stored, Counted, OwnPending
    <3> QED
      BY <3>1, FS_Subset
  <2>3. /\ Cardinality(OwnPending(a)') \in Nat /\ Cardinality(OwnPending(a)) \in Nat
        /\ Cardinality(OwnPending(a)') <= Cardinality(OwnPending(a)) + 1
        /\ OwnPending(a)' \subseteq OwnPending(a)
             => Cardinality(OwnPending(a)') <= Cardinality(OwnPending(a))
    BY <1>5, <2>2, OneMore
  <2>4. CASE a = me /\ pc[r] = "metered"
    <3>1. Cardinality(OwnPending(a)) < PendingLimit
      BY <1>1, <2>1, <2>4 DEF Requested, Headroom, me
    <3> QED
      BY <2>3, <3>1
  <2>5. CASE ~(a = me /\ pc[r] = "metered")
    BY <1>6, <2>1, <2>3, <2>5
  <2> QED
    BY <2>4, <2>5
<1> QED
  BY <1>8, <1>9, <1>10, <1>11, <1>12, <1>13 DEF IInv, Stored

(* A decision of members: their organisation is verified as they decide. *)
LEMMA ReleaseSafe ==
  ASSUME IInv, NEW r \in Requests, Release(r), cast' = cast, TypeOK'
  PROVE  IInv'
<1> DEFINE e == target[r]
<1>1. /\ Requested(r) /\ Done(r) /\ op[r] = "release" /\ pc[r] = "authorised" /\ e \in Entries
      /\ mode[r] # "create" /\ RequestNamespace(r) = org[r] /\ status[e] = "pending"
      /\ UNCHANGED <<cast, publisher, submitter, content, grants, queuedBy, claims, people>>
  BY DEF IInv, RequestsHold, Requested, RequestShape, RequestNamespace, Release
<1>2. /\ \A f \in Entries \ {e} : status'[f] = status[f] /\ cleared'[f] = cleared[f]
      /\ status'[e] \in {"approved", "rejected"}
  BY <1>1 DEF Release, IInv, TypeOK
<1>3. status'[e] = "approved" => cleared'[e] = content[e]
  <2>1. "verified" \in FactsAbout(actor[r], org[r])
    BY <1>1 DEF Release, Requested, Entitled
  <2>2. status'[e] = "approved" => mode[r] = "approve"
    BY <1>1 DEF Release, IInv, TypeOK
  <2>3. mode[r] = "approve" => cleared'[e] = content[e]
    BY <1>1, <2>1 DEF Release, IInv, TypeOK
  <2> QED
    BY <2>2, <2>3
<1> HIDE DEF e
<1>4. \A a \in Accounts : Fewer(a)
  BY <1>1, <1>2 DEF claims, people, ClaimsOf, Unvouched, PendingOf, OwnPending, Fewer
<1>5. ASSUME NEW s \in Requests \ {r} PROVE Steady(s)
  <2>1. Still(s)
    BY <1>1, DoneMoves DEF IInv, OnlyMoves
  <2>2. EntryRow(e) \notin owned[s]
    BY <1>1, NotTwice DEF Requested, Holdings, e
  <2>3. \A f \in Entries :
          /\ status[f] # "absent" => status'[f] # "absent"
          /\ EntryRow(f) \in owned[s] => status'[f] = status[f] /\ publisher'[f] = publisher[f]
    BY <1>1, <1>2, <2>2
  <2>4. \A a \in Accounts : /\ OwnPending(a)' \subseteq OwnPending(a)
                            /\ ClaimsOf(a)' \subseteq ClaimsOf(a)
                            /\ Unvouched(a)' => Unvouched(a)
    BY <1>4 DEF Fewer
  <2>5. UNCHANGED <<cast, direct, verified, member>>
    BY <1>1 DEF people
  <2> QED
    BY <2>1, <2>3, <2>4, <2>5 DEF Steady
<1>6. RequestsHold' /\ Exclusive'
  BY <1>1, <1>5, SteadyKeeps, DoneIdle, DoneExclusive DEF IInv, RequestsHold
<1>7. Fresh' /\ ClaimsMakeSense' /\ PublicIsCleared' /\ OneWinner'
  BY <1>1, <1>2, <1>3 DEF IInv, Stored, Fresh, ClaimsMakeSense, PublicIsCleared, OneWinner,
     OneTransfer, ApprovedClaimPublishes, claims
<1> QED
  BY <1>4, <1>6, <1>7, FewerCounted DEF IInv, Stored

(* A grant: the entry was unowned, so no claim on it was approved before. *)
LEMMA GrantSafe ==
  ASSUME IInv, NEW r \in Requests, Grant(r), cast' = cast, TypeOK'
  PROVE  IInv'
<1> DEFINE e == target[r]
           o == org[r]
<1>1. /\ Requested(r) /\ Done(r) /\ op[r] = "grant" /\ pc[r] = "authorised" /\ e \in Entries
      /\ o \in Orgs /\ mode[r] # "create" /\ status[e] # "absent" /\ grants[e] = 0
      /\ UNCHANGED <<cast, status, submitter, content, cleared, queuedBy, claimant, people>>
  BY DEF IInv, RequestsHold, Requested, RequestShape, Grant, Grantable, GrantTo, Unowned
<1>2. /\ \A f \in Entries \ {e} : publisher'[f] = publisher[f] /\ grants'[f] = grants[f]
      /\ publisher'[e] = o /\ grants'[e] = 1
  BY <1>1 DEF Grant, GrantTo, IInv, TypeOK
<1>3. /\ \A c \in Entries \X Orgs : c # <<e, o>> => claim'[c] = claim[c]
      /\ claim'[<<e, o>>] \in {claim[<<e, o>>], "approved"}
      /\ claim[<<e, o>>] # "pending" => claim'[<<e, o>>] = claim[<<e, o>>]
  BY <1>1 DEF Grant, GrantTo, IInv, TypeOK
<1> HIDE DEF e, o
<1>4. \A a \in Accounts : Fewer(a)
  <2>1. \A c \in Entries \X Orgs : claim'[c] = "pending" => claim[c] = "pending"
    BY <1>1, <1>3
  <2> QED
    BY <1>1, <2>1 DEF people, ClaimsOf, Unvouched, PendingOf, OwnPending, Fewer
<1>5. ASSUME NEW s \in Requests \ {r} PROVE Steady(s)
  <2>1. Still(s)
    BY <1>1, DoneMoves DEF IInv, OnlyMoves
  <2>2. EntryRow(e) \notin owned[s]
    BY <1>1, NotTwice DEF Requested, Holdings, e
  <2>3. \A f \in Entries :
          /\ status[f] # "absent" => status'[f] # "absent"
          /\ EntryRow(f) \in owned[s] => status'[f] = status[f] /\ publisher'[f] = publisher[f]
    BY <1>1, <1>2, <2>2
  <2>4. \A a \in Accounts : /\ OwnPending(a)' \subseteq OwnPending(a)
                            /\ ClaimsOf(a)' \subseteq ClaimsOf(a)
                            /\ Unvouched(a)' => Unvouched(a)
    BY <1>4 DEF Fewer
  <2>5. UNCHANGED <<cast, direct, verified, member>>
    BY <1>1 DEF people
  <2> QED
    BY <2>1, <2>3, <2>4, <2>5 DEF Steady
<1>6. RequestsHold' /\ Exclusive'
  BY <1>1, <1>5, SteadyKeeps, DoneIdle, DoneExclusive DEF IInv, RequestsHold
<1>7. Fresh' /\ PublicIsCleared'
  BY <1>1, <1>2 DEF IInv, Stored, Fresh, PublicIsCleared
<1>8. ClaimsMakeSense'
  <2> SUFFICES ASSUME NEW f \in Entries, NEW q \in Orgs
               PROVE  /\ claim'[<<f, q>>] # "none" => status'[f] # "absent"
                      /\ claim'[<<f, q>>] = "pending" => claimant'[<<f, q>>] \in Accounts
                      /\ claim'[<<f, q>>] = "approved" => grants'[f] # 0
    BY DEF ClaimsMakeSense
  <2>1. /\ claim[<<f, q>>] # "none" => status[f] # "absent"
        /\ claim[<<f, q>>] = "pending" => claimant[<<f, q>>] \in Accounts
        /\ claim[<<f, q>>] = "approved" => grants[f] # 0
    BY DEF IInv, Stored, ClaimsMakeSense
  <2>2. CASE f = e
    BY <1>1, <1>2, <1>3, <2>1, <2>2
  <2>3. CASE f # e
    <3>1. <<f, q>> # <<e, o>>
      BY <2>3
    <3> QED
      BY <1>1, <1>2, <1>3, <2>1, <2>3, <3>1
  <2> QED
    BY <2>2, <2>3
<1>9. OneWinner'
  <2>1. OneTransfer'
    BY <1>2 DEF IInv, Stored, OneWinner, OneTransfer
  <2>2. \A q \in Orgs : claim[<<e, q>>] # "approved"
    BY <1>1 DEF IInv, Stored, ClaimsMakeSense
  <2>3. ASSUME NEW f \in Entries, NEW q \in Orgs, claim'[<<f, q>>] = "approved"
        PROVE  publisher'[f] = q
    <3>1. CASE f = e
      <4>1. q = o
        BY <1>3, <2>2, <2>3, <3>1
      <4> QED
        BY <1>2, <3>1, <4>1
    <3>2. CASE f # e
      <4>1. claim[<<f, q>>] = "approved"
        BY <1>3, <2>3, <3>2
      <4> QED
        BY <1>2, <3>2, <4>1 DEF IInv, Stored, OneWinner, ApprovedClaimPublishes
    <3> QED
      BY <3>1, <3>2
  <2> QED
    BY <2>1, <2>3 DEF OneWinner, ApprovedClaimPublishes
<1> QED
  BY <1>4, <1>6, <1>7, <1>8, <1>9, FewerCounted DEF IInv, Stored

(* A queued claim: the account is held from the count to the insert. *)
LEMMA QueueClaimSafe ==
  ASSUME IInv, NEW r \in Requests, QueueClaim(r), cast' = cast, TypeOK'
  PROVE  IInv'
<1> DEFINE c == <<target[r], org[r]>>
           me == actor[r]
<1>1. /\ Requested(r) /\ Done(r) /\ op[r] = "queue" /\ pc[r] = "metered"
      /\ target[r] \in Entries /\ org[r] \in Orgs /\ c \in Entries \X Orgs /\ me \in Accounts
      /\ status[target[r]] # "absent"
      /\ UNCHANGED <<cast, entries, people>>
  BY DEF IInv, RequestsHold, Requested, RequestShape, QueueClaim
<1>2. /\ \A d \in Entries \X Orgs : d # c => claim'[d] = claim[d] /\ claimant'[d] = claimant[d]
      /\ claim'[c] = "pending" /\ claimant'[c] = me
  BY <1>1 DEF QueueClaim, IInv, TypeOK
<1> HIDE DEF c, me
<1>3. \A a \in Accounts : /\ OwnPending(a)' = OwnPending(a) /\ PendingOf(a)' = PendingOf(a)
                          /\ Unvouched(a)' = Unvouched(a)
                          /\ ClaimsOf(a)' \subseteq ClaimsOf(a) \cup {c}
                          /\ a # me => ClaimsOf(a)' \subseteq ClaimsOf(a)
  BY <1>1, <1>2 DEF entries, people, ClaimsOf, Unvouched, PendingOf, OwnPending
<1>4. ASSUME NEW s \in Requests \ {r} PROVE Steady(s)
  <2>1. Still(s)
    BY <1>1, DoneMoves DEF IInv, OnlyMoves
  <2>2. AccountRow(me) \notin owned[s]
    BY <1>1, NotTwice DEF Requested, Holdings, me
  <2>3. status' = status /\ publisher' = publisher
    BY <1>1 DEF entries
  <2>4. \A a \in Accounts : AccountRow(a) \in owned[s] =>
          OwnPending(a)' \subseteq OwnPending(a) /\ ClaimsOf(a)' \subseteq ClaimsOf(a)
    BY <1>3, <2>2
  <2>5. \A a \in Accounts : Unvouched(a)' => Unvouched(a)
    BY <1>3
  <2>6. UNCHANGED <<cast, direct, verified, member>>
    BY <1>1 DEF people
  <2> QED
    BY <2>1, <2>3, <2>4, <2>5, <2>6 DEF Steady
<1>5. RequestsHold' /\ Exclusive'
  BY <1>1, <1>4, SteadyKeeps, DoneIdle, DoneExclusive DEF IInv, RequestsHold
<1>6. Fresh' /\ PublicIsCleared'
  BY <1>1 DEF IInv, Stored, Fresh, PublicIsCleared, entries
<1>7. ClaimsMakeSense'
  <2> SUFFICES ASSUME NEW f \in Entries, NEW q \in Orgs
               PROVE  /\ claim'[<<f, q>>] # "none" => status'[f] # "absent"
                      /\ claim'[<<f, q>>] = "pending" => claimant'[<<f, q>>] \in Accounts
                      /\ claim'[<<f, q>>] = "approved" => grants'[f] # 0
    BY DEF ClaimsMakeSense
  <2>1. /\ claim[<<f, q>>] # "none" => status[f] # "absent"
        /\ claim[<<f, q>>] = "pending" => claimant[<<f, q>>] \in Accounts
        /\ claim[<<f, q>>] = "approved" => grants[f] # 0
        /\ UNCHANGED <<status, grants>>
    BY <1>1 DEF IInv, Stored, ClaimsMakeSense, entries
  <2>2. CASE <<f, q>> = c
    <3>1. f = target[r]
      BY <2>2 DEF c
    <3> QED
      BY <1>1, <1>2, <2>1, <2>2, <3>1
  <2>3. CASE <<f, q>> # c
    BY <1>2, <2>1, <2>3
  <2> QED
    BY <2>2, <2>3
<1>8. OneWinner'
  <2>1. publisher' = publisher /\ grants' = grants
    BY <1>1 DEF entries
  <2> QED
    BY <1>2, <2>1 DEF IInv, Stored, OneWinner, OneTransfer, ApprovedClaimPublishes
<1>9. ASSUME NEW a \in Accounts
      PROVE  /\ IsFiniteSet(PendingOf(a)') /\ IsFiniteSet(ClaimsOf(a)')
             /\ Cardinality(ClaimsOf(a)') <= cast.claimLimit
  <2>1. /\ IsFiniteSet(PendingOf(a)) /\ IsFiniteSet(ClaimsOf(a))
        /\ Cardinality(ClaimsOf(a)) <= cast.claimLimit /\ cast.claimLimit \in Nat
    BY CastType DEF IInv, Stored, Counted, ClaimCap
  <2>2. /\ IsFiniteSet(ClaimsOf(a)')
        /\ Cardinality(ClaimsOf(a)') \in Nat /\ Cardinality(ClaimsOf(a)) \in Nat
        /\ Cardinality(ClaimsOf(a)') <= Cardinality(ClaimsOf(a)) + 1
        /\ ClaimsOf(a)' \subseteq ClaimsOf(a)
             => Cardinality(ClaimsOf(a)') <= Cardinality(ClaimsOf(a))
    BY <1>3, <2>1, OneMore
  <2>3. CASE a = me
    <3>1. Cardinality(ClaimsOf(a)) < cast.claimLimit
      BY <1>1, <2>3 DEF Requested, Headroom, me
    <3> QED
      BY <1>3, <2>1, <2>2, <3>1
  <2>4. CASE a # me
    BY <1>3, <2>1, <2>2, <2>4
  <2> QED
    BY <2>3, <2>4
<1>10. Counted' /\ ClaimCap'
  BY <1>1, <1>9 DEF Counted, ClaimCap
<1>11. PendingCap'
  <2>1. member' = member /\ cast' = cast
    BY <1>1 DEF people
  <2> QED
    BY <1>3, <2>1 DEF IInv, Stored, PendingCap, Unvouched
<1> QED
  BY <1>5, <1>6, <1>7, <1>8, <1>10, <1>11 DEF IInv, Stored
-----------------------------------------------------------------------------
(* Staff takes part in no request: it waits for the rows requests hold. *)
LEMMA StaffRequests ==
  ASSUME IInv, TypeOK', UNCHANGED <<pc, request, auth, locks>>, \A s \in Requests : Steady(s)
  PROVE  RequestsHold' /\ Exclusive'
<1>1. RequestsHold'
  BY SteadyKeeps DEF RequestsHold
<1>2. Exclusive'
  BY DEF IInv, Exclusive, locks
<1> QED
  BY <1>1, <1>2

(* Staff moves no request. *)
LEMMA StaffStill ==
  ASSUME NEW s \in Requests, UNCHANGED <<pc, request, auth, locks>>
  PROVE  Still(s)
  BY DEF Still, request, locks

(* A reviewer's decision waits for the entry. *)
LEMMA DecideSafe ==
  ASSUME IInv, NEW e \in Entries, NEW verdict \in {"approved", "rejected"}, Decide(e, verdict),
         cast' = cast, TypeOK'
  PROVE  IInv'
<1>1. /\ status[e] # "absent" /\ Untouched({EntryRow(e)})
      /\ UNCHANGED <<cast, publisher, submitter, content, grants, queuedBy, claims, people,
                     pc, request, auth, locks>>
  BY DEF Decide
<1>2. /\ \A f \in Entries \ {e} : status'[f] = status[f] /\ cleared'[f] = cleared[f]
      /\ status'[e] = verdict /\ (verdict = "approved" => cleared'[e] = content[e])
  BY DEF Decide, IInv, TypeOK
<1>3. \A a \in Accounts : Fewer(a)
  BY <1>1, <1>2 DEF claims, people, ClaimsOf, Unvouched, PendingOf, OwnPending, Fewer
<1>4. ASSUME NEW s \in Requests PROVE Steady(s)
  <2>1. Still(s)
    BY <1>1, StaffStill
  <2>2. EntryRow(e) \notin owned[s]
    BY <1>1 DEF Untouched
  <2>3. \A f \in Entries :
          /\ status[f] # "absent" => status'[f] # "absent"
          /\ EntryRow(f) \in owned[s] => status'[f] = status[f] /\ publisher'[f] = publisher[f]
    BY <1>1, <1>2, <2>2
  <2>4. \A a \in Accounts :
          /\ OwnPending(a)' \subseteq OwnPending(a)
          /\ ClaimsOf(a)' \subseteq ClaimsOf(a)
          /\ Unvouched(a)' => Unvouched(a)
    BY <1>3 DEF Fewer
  <2>5. UNCHANGED <<cast, direct, verified, member>>
    BY <1>1 DEF people
  <2> QED
    BY <2>1, <2>3, <2>4, <2>5 DEF Steady
<1>5. RequestsHold' /\ Exclusive'
  BY <1>1, <1>4, StaffRequests
<1>6. Fresh' /\ ClaimsMakeSense' /\ PublicIsCleared' /\ OneWinner'
  BY <1>1, <1>2 DEF IInv, Stored, Fresh, ClaimsMakeSense, PublicIsCleared, OneWinner,
     OneTransfer, ApprovedClaimPublishes, claims
<1> QED
  BY <1>3, <1>5, <1>6, FewerCounted DEF IInv, Stored

(* Listing and unlisting touch nothing a request relies on. *)
LEMMA SetListedSafe ==
  ASSUME IInv, NEW e \in Entries, SetListed(e), cast' = cast, TypeOK'
  PROVE  IInv'
<1>1. UNCHANGED <<cast, status, publisher, submitter, content, grants, cleared, queuedBy, claims, people,
                  pc, request, auth, locks>>
  BY DEF SetListed
<1>2. \A a \in Accounts : Fewer(a)
  BY <1>1 DEF claims, people, ClaimsOf, Unvouched, PendingOf, OwnPending, Fewer
<1>3. ASSUME NEW s \in Requests PROVE Steady(s)
  <2>1. Still(s)
    BY <1>1, StaffStill
  <2>2. \A a \in Accounts :
          /\ OwnPending(a)' \subseteq OwnPending(a)
          /\ ClaimsOf(a)' \subseteq ClaimsOf(a)
          /\ Unvouched(a)' => Unvouched(a)
    BY <1>2 DEF Fewer
  <2> QED
    BY <1>1, <2>1, <2>2 DEF Steady, people
<1>4. RequestsHold' /\ Exclusive'
  BY <1>1, <1>3, StaffRequests
<1>5. Fresh' /\ ClaimsMakeSense' /\ PublicIsCleared' /\ OneWinner'
  BY <1>1 DEF IInv, Stored, Fresh, ClaimsMakeSense, PublicIsCleared, OneWinner,
     OneTransfer, ApprovedClaimPublishes, claims
<1> QED
  BY <1>2, <1>4, <1>5, FewerCounted DEF IInv, Stored

(* The grant count of the entry was zero: no claim on it was ever approved. *)
LEMMA ApproveClaimSafe ==
  ASSUME IInv, NEW e \in Entries, NEW o \in Orgs, ApproveClaim(e, o), cast' = cast, TypeOK'
  PROVE  IInv'
<1> DEFINE winner == claimant[<<e, o>>]
<1>1. /\ claim[<<e, o>>] = "pending" /\ <<e, o>> \in Entries \X Orgs /\ grants[e] = 0
      /\ Untouched({EntryRow(e), OrgRow(o), MemberRow(winner, o)})
      /\ UNCHANGED <<cast, submitter, content, queuedBy, claimant, direct, pc, request, auth, locks>>
  BY DEF ApproveClaim, ClaimLocked, Unowned, Transfer
<1>2. status[e] # "absent" /\ winner \in Accounts
  BY <1>1 DEF IInv, Stored, ClaimsMakeSense
<1>3. /\ \A f \in Entries \ {e} : /\ status'[f] = status[f] /\ publisher'[f] = publisher[f]
                                  /\ cleared'[f] = cleared[f] /\ grants'[f] = grants[f]
      /\ status'[e] = "approved" /\ publisher'[e] = o /\ cleared'[e] = content[e] /\ grants'[e] = 1
  BY <1>1 DEF ApproveClaim, Transfer, IInv, TypeOK
<1>4. /\ \A c \in Entries \X Orgs : c # <<e, o>> => claim'[c] = claim[c]
      /\ claim'[<<e, o>>] = "approved"
      /\ member \subseteq member'
      /\ \A p \in Orgs : verified[p] => verified'[p]
  BY <1>1 DEF ApproveClaim, Transfer, IInv, TypeOK
<1> HIDE DEF winner
<1>5. \A a \in Accounts : Fewer(a)
  <2>1. \A c \in Entries \X Orgs : claim'[c] = "pending" => claim[c] = "pending"
    BY <1>1, <1>4
  <2>2. \A f \in Entries : status'[f] = "pending" => status[f] = "pending"
    BY <1>3
  <2> QED
    BY <1>1, <1>4, <2>1, <2>2 DEF ClaimsOf, Unvouched, PendingOf, OwnPending, Fewer
<1>6. ASSUME NEW s \in Requests PROVE Steady(s)
  <2>1. Still(s)
    BY <1>1, StaffStill
  <2>2. EntryRow(e) \notin owned[s]
    BY <1>1 DEF Untouched
  <2>3. \A f \in Entries :
          /\ status[f] # "absent" => status'[f] # "absent"
          /\ EntryRow(f) \in owned[s] => status'[f] = status[f] /\ publisher'[f] = publisher[f]
    BY <1>3, <2>2
  <2>4. \A a \in Accounts :
          /\ OwnPending(a)' \subseteq OwnPending(a)
          /\ ClaimsOf(a)' \subseteq ClaimsOf(a)
          /\ Unvouched(a)' => Unvouched(a)
    BY <1>5 DEF Fewer
  <2> QED
    BY <1>1, <1>4, <2>1, <2>3, <2>4 DEF Steady
<1>7. RequestsHold' /\ Exclusive'
  BY <1>1, <1>6, StaffRequests
<1>8. Fresh' /\ PublicIsCleared'
  BY <1>1, <1>3 DEF IInv, Stored, Fresh, PublicIsCleared
<1>9. ClaimsMakeSense'
  <2> SUFFICES ASSUME NEW f \in Entries, NEW q \in Orgs
               PROVE  /\ claim'[<<f, q>>] # "none" => status'[f] # "absent"
                      /\ claim'[<<f, q>>] = "pending" => claimant'[<<f, q>>] \in Accounts
                      /\ claim'[<<f, q>>] = "approved" => grants'[f] # 0
    BY DEF ClaimsMakeSense
  <2>1. /\ claim[<<f, q>>] # "none" => status[f] # "absent"
        /\ claim[<<f, q>>] = "pending" => claimant[<<f, q>>] \in Accounts
        /\ claim[<<f, q>>] = "approved" => grants[f] # 0
    BY DEF IInv, Stored, ClaimsMakeSense
  <2>2. CASE <<f, q>> = <<e, o>>
    BY <1>1, <1>3, <1>4, <2>2
  <2>3. CASE <<f, q>> # <<e, o>>
    BY <1>1, <1>3, <1>4, <2>1, <2>3
  <2> QED
    BY <2>2, <2>3
<1>10. OneWinner'
  <2>1. OneTransfer'
    BY <1>3 DEF IInv, Stored, OneWinner, OneTransfer
  <2>2. \A q \in Orgs : claim[<<e, q>>] # "approved"
    BY <1>1 DEF IInv, Stored, ClaimsMakeSense
  <2>3. ASSUME NEW f \in Entries, NEW q \in Orgs, claim'[<<f, q>>] = "approved"
        PROVE  publisher'[f] = q
    <3>1. CASE f = e
      <4>1. q = o
        BY <1>4, <2>2, <2>3, <3>1
      <4> QED
        BY <1>3, <3>1, <4>1
    <3>2. CASE f # e
      <4>1. claim[<<f, q>>] = "approved"
        BY <1>4, <2>3, <3>2
      <4> QED
        BY <1>3, <3>2, <4>1 DEF IInv, Stored, OneWinner, ApprovedClaimPublishes
    <3> QED
      BY <3>1, <3>2
  <2> QED
    BY <2>1, <2>3 DEF OneWinner, ApprovedClaimPublishes
<1> QED
  BY <1>5, <1>7, <1>8, <1>9, <1>10, FewerCounted DEF IInv, Stored

(* A rejection takes a claim out of the count. *)
LEMMA RejectClaimSafe ==
  ASSUME IInv, NEW e \in Entries, NEW o \in Orgs, RejectClaim(e, o), cast' = cast, TypeOK'
  PROVE  IInv'
<1>1. /\ claim[<<e, o>>] = "pending" /\ <<e, o>> \in Entries \X Orgs
      /\ UNCHANGED <<cast, entries, claimant, people, pc, request, auth, locks>>
  BY DEF RejectClaim
<1>2. /\ \A c \in Entries \X Orgs : c # <<e, o>> => claim'[c] = claim[c]
      /\ claim'[<<e, o>>] = "rejected"
  BY DEF RejectClaim, IInv, TypeOK
<1>3. \A a \in Accounts : Fewer(a)
  <2>1. \A c \in Entries \X Orgs : claim'[c] = "pending" => claim[c] = "pending"
    BY <1>2
  <2> QED
    BY <1>1, <2>1 DEF entries, people, ClaimsOf, Unvouched, PendingOf, OwnPending, Fewer
<1>4. ASSUME NEW s \in Requests PROVE Steady(s)
  <2>1. Still(s)
    BY <1>1, StaffStill
  <2>2. \A a \in Accounts :
          /\ OwnPending(a)' \subseteq OwnPending(a)
          /\ ClaimsOf(a)' \subseteq ClaimsOf(a)
          /\ Unvouched(a)' => Unvouched(a)
    BY <1>3 DEF Fewer
  <2> QED
    BY <1>1, <2>1, <2>2 DEF Steady, entries, people
<1>5. RequestsHold' /\ Exclusive'
  BY <1>1, <1>4, StaffRequests
<1>6. Fresh' /\ PublicIsCleared'
  BY <1>1 DEF IInv, Stored, Fresh, PublicIsCleared, entries
<1>7. ClaimsMakeSense' /\ OneWinner'
  <2>1. \A c \in Entries \X Orgs : /\ claim'[c] \in {"pending", "approved"} => claim'[c] = claim[c]
                                   /\ claim'[c] # "none" => claim[c] # "none"
    BY <1>1, <1>2
  <2>2. UNCHANGED <<status, grants, publisher, claimant>>
    BY <1>1 DEF entries
  <2>3. \A f \in Entries, q \in Orgs : /\ claim'[<<f, q>>] \in {"pending", "approved"}
                                            => claim'[<<f, q>>] = claim[<<f, q>>]
                                       /\ claim'[<<f, q>>] # "none" => claim[<<f, q>>] # "none"
    BY <2>1
  <2>4. ClaimsMakeSense'
    BY <2>2, <2>3 DEF IInv, Stored, ClaimsMakeSense
  <2>5. OneWinner'
    BY <2>2, <2>3 DEF IInv, Stored, OneWinner, OneTransfer, ApprovedClaimPublishes
  <2> QED
    BY <2>4, <2>5
<1> QED
  BY <1>3, <1>5, <1>6, <1>7, FewerCounted DEF IInv, Stored

(* Whoever changes what accounts may do waits for those that read it, and takes *)
(* memberships only from the accounts reviewers give them to.                   *)
LEMMA PeopleSafe ==
  ASSUME IInv, cast' = cast, TypeOK',
         \/ \E o \in Orgs : SetVerified(o)
         \/ \E a \in cast.publishers, o \in Orgs : GrantMembership(a, o) \/ RevokeMembership(a, o)
         \/ \E a \in Accounts : SetDirectCreate(a)
  PROVE  IInv'
<1>1. UNCHANGED <<cast, entries, claims, pc, request, auth, locks>>
  BY DEF SetVerified, GrantMembership, RevokeMembership, SetDirectCreate
<1>2. \A a \in Accounts : Unvouched(a)' => Unvouched(a)
  <2>1. \A a \in Accounts, o \in Orgs : a \notin cast.publishers /\ <<a, o>> \in member
                                           => <<a, o>> \in member'
    BY DEF SetVerified, GrantMembership, RevokeMembership, SetDirectCreate
  <2> QED
    BY <1>1, <2>1 DEF Unvouched
<1>3. \A a \in Accounts : Fewer(a)
  BY <1>1, <1>2 DEF entries, claims, ClaimsOf, PendingOf, OwnPending, Fewer
<1>4. ASSUME NEW s \in Requests PROVE Steady(s)
  <2>1. Still(s)
    BY <1>1, StaffStill
  <2>2. \A a \in Accounts :
          /\ OwnPending(a)' \subseteq OwnPending(a)
          /\ ClaimsOf(a)' \subseteq ClaimsOf(a)
          /\ Unvouched(a)' => Unvouched(a)
    BY <1>3 DEF Fewer
  <2>3. \A a \in Accounts : AccountRow(a) \in shared[s] /\ a \in direct => a \in direct'
    BY DEF SetVerified, GrantMembership, RevokeMembership, SetDirectCreate, Untouched
  <2>4. \A o \in Orgs : OrgRow(o) \in shared[s] /\ verified[o] => verified'[o]
    <3>1. CASE \E o \in Orgs : SetVerified(o)
      <4>1. PICK o \in Orgs : SetVerified(o)
        BY <3>1
      <4>2. OrgRow(o) \notin shared[s]
        BY <4>1 DEF SetVerified, Untouched
      <4>3. \A q \in Orgs \ {o} : verified'[q] = verified[q]
        BY <4>1 DEF SetVerified, IInv, TypeOK
      <4> QED
        BY <4>2, <4>3
    <3>2. CASE ~\E o \in Orgs : SetVerified(o)
      <4>1. verified' = verified
        BY <3>2 DEF GrantMembership, RevokeMembership, SetDirectCreate
      <4> QED
        BY <4>1
    <3> QED
      BY <3>1, <3>2
  <2>5. \A a \in Accounts, o \in Orgs :
          MemberRow(a, o) \in shared[s] \cup owned[s] /\ <<a, o>> \in member => <<a, o>> \in member'
    <3>1. \A a \in Accounts, o \in Orgs, b \in Accounts, q \in Orgs :
            <<a, o>> = <<b, q>> => MemberRow(a, o) = MemberRow(b, q)
      BY DEF MemberRow
    <3> QED
      BY <3>1, CastType DEF SetVerified, GrantMembership, RevokeMembership, SetDirectCreate,
         Untouched, IInv
  <2> QED
    BY <1>1, <2>1, <2>2, <2>3, <2>4, <2>5 DEF Steady, entries
<1>5. RequestsHold' /\ Exclusive'
  BY <1>1, <1>4, StaffRequests
<1>6. Fresh' /\ ClaimsMakeSense' /\ PublicIsCleared' /\ OneWinner'
  BY <1>1 DEF IInv, Stored, Fresh, ClaimsMakeSense, PublicIsCleared, OneWinner,
     OneTransfer, ApprovedClaimPublishes, claims, entries
<1> QED
  BY <1>3, <1>5, <1>6, FewerCounted DEF IInv, Stored

(* Everything reviewers and admins do keeps the invariant. *)
LEMMA StaffSafe ==
  ASSUME IInv, Staff, cast' = cast, TypeOK'
  PROVE  IInv'
<1>1. CASE \E e \in cast.entries : Decide(e, "approved") \/ Decide(e, "rejected")
  BY <1>1, CastType, DecideSafe DEF IInv
<1>2. CASE \E e \in cast.curated : SetListed(e)
  BY <1>2, CastType, SetListedSafe DEF IInv
<1>3. CASE \E e \in cast.entries, o \in cast.orgs : ApproveClaim(e, o) \/ RejectClaim(e, o)
  BY <1>3, CastType, ApproveClaimSafe, RejectClaimSafe DEF IInv
<1>4. CASE \/ \E o \in cast.orgs : SetVerified(o)
           \/ \E a \in cast.publishers, o \in cast.orgs : GrantMembership(a, o) \/ RevokeMembership(a, o)
           \/ \E a \in cast.trusted : SetDirectCreate(a)
  <2>1. cast.orgs \subseteq Orgs /\ cast.trusted \subseteq Accounts
    BY CastType DEF IInv
  <2> QED
    BY <1>4, <2>1, PeopleSafe
<1> QED
  BY <1>1, <1>2, <1>3, <1>4 DEF Staff
-----------------------------------------------------------------------------
(* The inductive invariant. *)
LEMMA Start == Init => IInv
<1> SUFFICES ASSUME Init PROVE IInv
  OBVIOUS
<1>1. cast \in Casts /\ cast.claimLimit \in Nat
  BY DEF Init
<1>2. TypeOK
  <2>1. /\ cast.orgs \subseteq Orgs /\ cast.documents \subseteq Documents
        /\ cast.imported \subseteq Entries
    BY <1>1
  <2>2. /\ status \in [Entries -> Statuses] /\ listed \in [Entries -> BOOLEAN]
        /\ legacy \in [Entries -> BOOLEAN] /\ grants \in [Entries -> Nat]
        /\ submitter \in [Entries -> Accounts \cup {None}]
        /\ queuedBy \in [Entries -> Accounts \cup {None}]
    BY DEF Init, Statuses
  <2>3. /\ publisher \in [Entries -> Orgs \cup {None}]
        /\ content \in [Entries -> Documents \cup {None}]
        /\ cleared \in [Entries -> Documents \cup {None}]
    BY <2>1 DEF Init
  <2>4. \A e \in Entries : status[e] = "absent" <=> content[e] = None
    BY DEF Init
  <2>5. /\ claim \in [Entries \X Orgs -> ClaimStatuses]
        /\ claimant \in [Entries \X Orgs -> Accounts \cup {None}]
        /\ verified \in [Orgs -> BOOLEAN] /\ member \subseteq Accounts \X Orgs /\ direct \subseteq Accounts
    BY DEF Init, ClaimStatuses
  <2>6. RequestsTyped
    BY DEF Init, RequestsTyped
  <2> QED
    BY <1>1, <2>2, <2>3, <2>4, <2>5, <2>6 DEF TypeOK, RequestsTyped
<1>3. Exclusive
  BY DEF Init, Exclusive
<1>4. RequestsHold
  BY DEF Init, RequestsHold, Requested, RequestShape, Holdings, Entitled, Headroom
<1>5. Fresh /\ ClaimsMakeSense /\ PublicIsCleared /\ OneWinner
  BY DEF Init, Fresh, ClaimsMakeSense, PublicIsCleared, OneWinner, OneTransfer, ApprovedClaimPublishes
<1>6. \A a \in Accounts : PendingOf(a) = {} /\ OwnPending(a) = {} /\ ClaimsOf(a) = {}
  BY DEF Init, PendingOf, OwnPending, ClaimsOf
<1>7. Counted /\ PendingCap /\ ClaimCap
  <2>1. IsFiniteSet({}) /\ Cardinality({}) = 0
    BY FS_EmptySet
  <2>2. PendingLimit >= 0 /\ cast.claimLimit >= 0
    BY <1>1
  <2>3. Counted
    BY <1>6, <2>1 DEF Counted
  <2>4. PendingCap
    BY <1>6, <2>1, <2>2 DEF PendingCap
  <2>5. ClaimCap
    BY <1>6, <2>1, <2>2 DEF ClaimCap
  <2> QED
    BY <2>3, <2>4, <2>5
<1> QED
  BY <1>2, <1>3, <1>4, <1>5, <1>7 DEF IInv, Stored

(* Every step keeps the invariant. *)
LEMMA Inductive == IInv /\ [Next]_vars => IInv'
<1> SUFFICES ASSUME IInv, [Next]_vars PROVE IInv'
  OBVIOUS
<1>1. TypeOK'
  BY TypeStep DEF IInv, Stored, RequestsHold, Requested
<1>2. CASE UNCHANGED vars
  <2>1. UNCHANGED <<cast, entries, claims, people, pc, request, auth, locks>>
    BY <1>2 DEF vars
  <2>2. \A s \in Requests : Steady(s)
    BY <2>1, NoData, StaffStill DEF Steady, entries, people
  <2>3. RequestsHold' /\ Exclusive'
    BY <1>1, <2>1, <2>2, StaffRequests
  <2> QED
    BY <1>1, <2>1, <2>3, NoData DEF IInv
<1>3. ASSUME NEW r \in Requests, Ask(r) \/ Proceed(r) \/ Rollback(r), cast' = cast
      PROVE  IInv'
  <2>1. CASE Proceed(r)
    BY <1>1, <1>3, <2>1, AdvanceSafe, StoreSafe, ReleaseSafe, GrantSafe, QueueClaimSafe
       DEF Proceed, Advance
  <2> QED
    BY <1>1, <1>3, <2>1, AskSafe, RollbackSafe
<1>4. CASE Staff /\ cast' = cast
  BY <1>1, <1>4, StaffSafe
<1> QED
  BY <1>2, <1>3, <1>4 DEF Next

(* The invariant holds in every reachable state. *)
THEOREM Invariance == Spec => []IInv
  BY Start, Inductive, PTL DEF Spec
-----------------------------------------------------------------------------
(* Neither ceiling is ever passed, and rows are of their types: an account puts  *)
(* no more entries in the review queue than pendingSubmissionLimit while nobody  *)
(* vouched for it, and waits for no more claims than its limit, whichever of its *)
(* requests run at once (assertPendingHeadroom, ClaimService).                   *)
THEOREM CeilingsAlwaysHold == Spec => []CeilingsHold
<1>1. IInv => CeilingsHold
  BY DEF IInv, Stored, CeilingsHold
<1> QED
  BY <1>1, Invariance, PTL

(* The membership, the verification and the direct-create flag a transaction     *)
(* decided on are still there when it writes (resolvePublishAuthority FOR SHARE, *)
(* lockForAccountAndOrganization).                                               *)
THEOREM AuthorityAlwaysHolds == Spec => []AuthorityHolds
<1>1. IInv => AuthorityHolds
  BY DEF IInv, RequestsHold, Requested, Entitled, AuthorityHolds
<1> QED
  BY <1>1, Invariance, PTL

(* Every word of a public entry was made public by a reviewer or by an account   *)
(* that could publish under the entry's namespace at that moment.                *)
THEOREM PublicWasCleared == Spec => []PublicIsCleared
<1>1. IInv => PublicIsCleared
  BY DEF IInv, Stored
<1> QED
  BY <1>1, Invariance, PTL

(* An entry is granted once, and the organisation whose claim was approved is    *)
(* its publisher for good.                                                       *)
THEOREM OneClaimWins == Spec => []OneWinner
<1>1. IInv => OneWinner
  BY DEF IInv, Stored
<1> QED
  BY <1>1, Invariance, PTL

(* Only a grant gives an entry another publisher. *)
LEMMA GrantMovesPublisher ==
  ASSUME IInv, [Next]_vars, NEW e \in Entries, publisher[e] # None, publisher'[e] # publisher[e]
  PROVE  grants'[e] > grants[e]
<1>1. CASE \E r \in Requests : Store(r)
  <2>1. PICK r \in Requests : Store(r)
    BY <1>1
  <2>2. Requested(r) /\ op[r] = "write" /\ target[r] \in Entries /\ mode[r] \in {"create", "replace"}
    BY <2>1 DEF IInv, RequestsHold, Requested, RequestShape, Store
  <2>3. publisher'[e] # publisher[e] => target[r] = e /\ publisher'[e] = RequestNamespace(r)
    BY <2>1, <2>2 DEF Store, IInv, TypeOK
  <2>4. status[e] # "absent"
    BY DEF IInv, Stored, Fresh
  <2>5. target[r] = e => mode[r] = "replace"
    BY <2>1, <2>2, <2>4 DEF Store
  <2>6. target[r] = e => RequestNamespace(r) = publisher[e]
    BY <2>2, <2>5 DEF RequestNamespace, Namespace
  <2> QED
    BY <2>3, <2>6
<1>2. CASE \E r \in Requests : Grant(r)
  <2>1. PICK r \in Requests : Grant(r)
    BY <1>2
  <2> QED
    BY <2>1 DEF Grant, GrantTo, IInv, TypeOK
<1>3. CASE \E f \in cast.entries, o \in cast.orgs : ApproveClaim(f, o)
  BY <1>3 DEF ApproveClaim, Transfer, IInv, TypeOK
<1>4. CASE ~\/ \E r \in Requests : Store(r) \/ Grant(r)
            \/ \E f \in cast.entries, o \in cast.orgs : ApproveClaim(f, o)
  <2>1. publisher' = publisher
    <3>1. CASE UNCHANGED vars
      BY <3>1 DEF vars, entries
    <3>2. ASSUME NEW r \in Requests, Ask(r) \/ Proceed(r) \/ Rollback(r)
          PROVE  publisher' = publisher
      BY <1>4, <3>2 DEF Ask, AskWrite, AskRelease, AskClaim, Proceed, Rollback, entries,
         LockForWrite, LockAccount, ReproveAuthority, ReadFacts, Meter, LockForRelease,
         ProveMembership, Release, LockForClaim, ProveGrant, ChargeClaim, CountClaims, QueueClaim
    <3>3. CASE Staff
      BY <1>4, <3>3 DEF Staff, Decide, SetListed, RejectClaim, SetVerified, GrantMembership,
         RevokeMembership, SetDirectCreate, entries
    <3> QED
      BY <3>1, <3>2, <3>3 DEF Next
  <2> QED
    BY <2>1
<1> QED
  BY <1>1, <1>2, <1>3, <1>4

(* An entry with a publisher keeps it through every write and decision; a claim  *)
(* that is granted or approved moves it, and is counted (containNamespace).      *)
THEOREM PublisherNeverMovesAlone == Spec => PublisherMovesByGrant
<1>1. IInv /\ [Next]_vars =>
        [\A e \in Entries :
           publisher[e] # None /\ publisher'[e] # publisher[e] => grants'[e] > grants[e]]_vars
  BY GrantMovesPublisher
<1> QED
  BY <1>1, Invariance, PTL DEF Spec, PublisherMovesByGrant
=============================================================================
