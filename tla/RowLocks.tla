------------------------------ MODULE RowLocks ------------------------------
(***************************************************************************)
(* The locks the transactions of the API take, in the order they take them, *)
(* and nothing else about them. A lock is asked for by a statement (FOR      *)
(* UPDATE, FOR SHARE), by an insert that finds its unique key taken, or,     *)
(* where ForeignKeys holds, by PostgreSQL for a value written into a foreign *)
(* key (FOR KEY SHARE on the row it names). A transaction keeps its locks to *)
(* its end. Updates of rows already locked FOR UPDATE ask for nothing. A      *)
(* path that finds no row to lock, a membership that is not there, takes      *)
(* fewer locks than written here and none in another order; a transaction    *)
(* of one lock (a source check, the staleness job) is a prefix of one here.   *)
(* Paths that take rows in another order on purpose or by accident (a role    *)
(* given away, invites redeemed, stubs of organisations, imports) are left    *)
(* out; the README says which.                                                *)
(***************************************************************************)
EXTENDS Naturals, Sequences, FiniteSets

CONSTANTS
  Txns,              \* transactions open at once
  EntryIds, AccountIds, \* sets of ids: both are locked in id order where two are
  OrgIds,
  AdminIds,            \* the accounts that are admins
  Paths,             \* the groups of transactions that are at work
  ForeignKeys        \* BOOLEAN: count the locks of foreign keys

ASSUME RowLocksAssumption ==
  /\ EntryIds \subseteq Nat /\ IsFiniteSet(EntryIds)
  /\ AccountIds \subseteq Nat /\ IsFiniteSet(AccountIds) /\ AdminIds \subseteq AccountIds
  /\ Paths \subseteq {"publishing", "administration"}
  /\ ForeignKeys \in BOOLEAN

VARIABLES
  plan,              \* the locks a transaction still asks for, in order
  held               \* the locks it has

lockVars == <<plan, held>>

Entry(e) == <<"entry", e>>
Org(o) == <<"org", o>>
Member(a, o) == <<"member", a, o>>
Account(a) == <<"account", a>>
PairRow(d, e) == <<"pair", d, e>>

(* The modes are "key share", "share" and "update". *)
Conflict(m, n) == m = "update" \/ n = "update"

Locking(row, mode) == [row |-> row, mode |-> mode]
ForUpdate(row) == Locking(row, "update")
ForShare(row) == Locking(row, "share")
References(row) == IF ForeignKeys THEN <<Locking(row, "key share")>> ELSE <<>>

-----------------------------------------------------------------------------
(* The transactions. *)

(* resolvePublishAuthority: organisation and membership, then the account.      *)
Authority(a, o) == <<ForShare(Org(o)), ForShare(Member(a, o)), ForShare(Account(a))>>

(* A mistake: the pending ceiling locks the account where it counts.            *)
CreateUpgrading(a, o) == Authority(a, o) \o <<ForUpdate(Account(a))>>

(* applyWrite: what may enter the queue takes the account first.                *)
Create(a, o) == <<ForUpdate(Account(a))>> \o Authority(a, o)
Requeue(a, e, o) == <<ForUpdate(Entry(e)), ForUpdate(Account(a))>> \o Authority(a, o)
Replace(a, e, o) == <<ForUpdate(Entry(e))>> \o Authority(a, o)
ReleaseNamespace(a, e, o) == Replace(a, e, o) \o References(Account(a))

(* ReviewService: decide writes approved_by; setVerified notifies the members. *)
DecideReview(a, e) == <<ForUpdate(Entry(e))>> \o References(Account(a))
VerifyOrg(a, o) == <<ForUpdate(Org(o))>> \o References(Account(a))
EditOrg(a, o) == <<ForUpdate(Org(o)), ForShare(Member(a, o))>>
GrantMembership(a, o) == <<ForUpdate(Member(a, o))>> \o References(Org(o)) \o References(Account(a))
RevokeMembership(a, o) == <<ForUpdate(Member(a, o))>>

(* ClaimService: grant, queue and decide, which makes the claimant a member.    *)
GrantClaim(a, e, o) ==
  <<ForUpdate(Entry(e)), ForShare(Org(o)), ForUpdate(Member(a, o))>> \o References(Account(a))
QueueClaim(a, e, o) == <<ForUpdate(Entry(e)), ForUpdate(Account(a))>> \o References(Org(o))
DecideClaim(a, e, o) ==
  <<ForUpdate(Entry(e)), ForUpdate(Org(o)), ForUpdate(Member(a, o))>> \o References(Account(a))

(* OpportunitySubmitterService, the accounts in id order.                       *)
InOrder(a, b) ==
  IF a = b THEN <<ForUpdate(Account(a))>>
  ELSE IF a < b THEN <<ForUpdate(Account(a)), ForUpdate(Account(b))>>
  ELSE <<ForUpdate(Account(b)), ForUpdate(Account(a))>>
Assume(a, e, o) ==
  <<ForUpdate(Entry(e)), ForShare(Org(o)), ForShare(Member(a, o))>> \o References(Account(a))
Assign(a, b, e) == <<ForUpdate(Entry(e))>> \o InOrder(a, b)

(* Minting a key and direct-create lock the account; a merge locks the pair and *)
(* its two entries in id order; the stale-listing reminder a membership, then    *)
(* it notifies.                                                                 *)
TakeAccount(a) == <<ForUpdate(Account(a))>>
Merge(d, e) ==
  IF d < e THEN <<ForUpdate(PairRow(d, e)), ForUpdate(Entry(d)), ForUpdate(Entry(e))>> ELSE <<>>
Remind(a, o) == <<ForUpdate(Member(a, o))>> \o References(Account(a))

PublishingWork ==
  UNION {{Create(a, o), Requeue(a, e, o), Replace(a, e, o), ReleaseNamespace(a, e, o),
          GrantClaim(a, e, o), QueueClaim(a, e, o), DecideClaim(a, e, o), TakeAccount(a)}
           : a \in AccountIds, e \in EntryIds, o \in OrgIds}
StaffWork ==
  UNION {{VerifyOrg(a, o), EditOrg(a, o), GrantMembership(a, o), RevokeMembership(a, o),
          DecideReview(a, e), Assume(a, e, o), Remind(a, o)}
           : a \in AccountIds, e \in EntryIds, o \in OrgIds}
AssignWork == {Assign(a, b, e) : a \in AdminIds, b \in AccountIds, e \in EntryIds}
MergeWork == {Merge(d, e) : d, e \in EntryIds}

Work == [publishing |-> PublishingWork,
         administration |-> StaffWork \cup AssignWork \cup MergeWork]

-----------------------------------------------------------------------------
(* PostgreSQL. *)

LocksInit ==
  /\ plan = [t \in Txns |-> <<>>]
  /\ held = [t \in Txns |-> {}]

Begin(t, steps) ==
  /\ plan[t] = <<>> /\ held[t] = {} /\ steps # <<>>
  /\ plan' = [plan EXCEPT ![t] = steps]
  /\ UNCHANGED held

(* Those a transaction waits for. *)
Blockers(t) ==
  IF plan[t] = <<>> THEN {}
  ELSE {u \in Txns \ {t} : \E l \in held[u] :
          l.row = Head(plan[t]).row /\ Conflict(l.mode, Head(plan[t]).mode)}

Acquire(t) ==
  /\ plan[t] # <<>> /\ Blockers(t) = {}
  /\ held' = [held EXCEPT ![t] = @ \cup {Head(plan[t])}]
  /\ plan' = [plan EXCEPT ![t] = Tail(@)]

Commit(t) ==
  /\ plan[t] = <<>> /\ held[t] # {}
  /\ held' = [held EXCEPT ![t] = {}]
  /\ UNCHANGED plan

(* A refusal, a lost connection. *)
Abort(t) ==
  /\ plan[t] # <<>>
  /\ plan' = [plan EXCEPT ![t] = <<>>]
  /\ held' = [held EXCEPT ![t] = {}]

LocksNext ==
  \E t \in Txns :
    \/ \E path \in Paths : \E steps \in Work[path] : Begin(t, steps)
    \/ Acquire(t) \/ Commit(t) \/ Abort(t)

LocksSpec == LocksInit /\ [][LocksNext]_lockVars

-----------------------------------------------------------------------------
(* Properties *)

(* Transactions each of which waits for another of them: a deadlock, which      *)
(* PostgreSQL ends by failing one of the requests. "There is therefore no       *)
(* cycle" (the lock order every path of the API follows).                       *)
NoCycle == \A waiting \in (SUBSET Txns) \ {{}} : \E t \in waiting : Blockers(t) \cap waiting = {}
=============================================================================
