--------------------------- MODULE Administration ---------------------------
(***************************************************************************)
(* Who may do what: global roles, memberships of an organisation, invites   *)
(* that wait for a sign-in, API keys, and the submitter of an entry that is *)
(* handed over. The services share a shape: a request is let in by what its *)
(* principal was when it arrived, and proves it again in a transaction, on  *)
(* rows it locks.                                                           *)
(*                                                                         *)
(* One organisation and one entry that it publishes, so that an address has *)
(* one pending invite at most. Accounts are ids: rows are locked in their   *)
(* order. A transaction writes in its last step and may roll back before    *)
(* (an error, a deadlock victim, a lost process).                           *)
(***************************************************************************)
EXTENDS Naturals, FiniteSets

CONSTANTS
  Accounts, Requests,
  KeyLimit,          \* MAX_KEYS_PER_ACCOUNT
  MaxInvites,        \* bound on the invites of one behaviour
  Agendas,           \* what one behaviour may be about: see agenda
  NoOne

Roles == {"submitter", "reviewer", "admin"}
OrgRoles == {"owner", "admin", "publisher"}
Invites == 1..MaxInvites
Operations == {"assignRole", "mint", "invite", "withdraw", "redeem", "assume", "assign"}

ASSUME AdministrationAssumption ==
  /\ Accounts \subseteq Nat
  /\ KeyLimit \in Nat /\ MaxInvites \in Nat
  /\ Agendas \subseteq 
       {g \in [of : SUBSET Operations, people : SUBSET Accounts, admins : SUBSET Accounts,
               roles : SUBSET Roles, ranks : SUBSET OrgRoles, invites : 0..MaxInvites] :
          g.admins \subseteq g.people}
  /\ NoOne \notin Accounts /\ NoOne \notin Roles \cup OrgRoles

VARIABLES
  agenda,            \* chosen once: the operations, the accounts, the first admins, the
                     \* roles they give each other, a bound on the invites
  role,              \* accounts.global_role
  member,            \* org_memberships.role
  verified,          \* organizations.verified
  keys,              \* live API keys of an account
  invite, issued,    \* org_membership_invites: the pending ones, and how many there were
  submitter,         \* opportunities.submitted_by
  request,           \* what a request does: see Request
  shared, owned,     \* rows it holds FOR SHARE and FOR UPDATE
  redeemed           \* history: how often an invite was applied

stored == <<role, member, verified, keys, invite, issued, submitter, redeemed>>
locks == <<shared, owned>>
adminVars == <<agenda, stored, request, locks>>

Rows == ({"account", "member"} \X Accounts) \cup ({"invite"} \X Invites)
          \cup {<<"org", 0>>, <<"entry", 0>>}
AccountRow(a) == <<"account", a>>
MemberRow(a) == <<"member", a>>
InviteRow(i) == <<"invite", i>>
OrgRow == <<"org", 0>>
EntryRow == <<"entry", 0>>

Invite == [to : Accounts, by : Accounts, as : OrgRoles]

(* A request: its step, its operation, its account, whether that was staff when it   *)
(* arrived; the account, the role and the invite it is about; the rows still to lock *)
(* of a query, and how many it found; the invite it read, and whether its inviter was *)
(* seen to be staff.                                                                 *)
Request ==
  [at : {"idle", "asked", "locked", "proved", "counted"}, op : Operations \cup {"none"},
   actor : Accounts \cup {NoOne}, staff : BOOLEAN,
   about : Accounts \cup {NoOne}, as : Roles \cup OrgRoles \cup {NoOne},
   on : Invites \cup {NoOne}, todo : SUBSET (Accounts \cup Invites), found : Nat, row : Invite \cup {NoOne}, vouched : BOOLEAN]
NoRequest ==
  [at |-> "idle", op |-> "none", actor |-> NoOne, staff |-> FALSE, about |-> NoOne, as |-> NoOne,
   on |-> NoOne, todo |-> {}, found |-> 0, row |-> NoOne, vouched |-> FALSE]

AdminTypeOK ==
  /\ agenda \in Agendas
  /\ role \in [Accounts -> Roles]
  /\ member \in [Accounts -> OrgRoles \cup {"none"}]
  /\ verified \in BOOLEAN
  /\ keys \in [Accounts -> Nat]
  /\ invite \in [Invites -> Invite \cup {NoOne}]
  /\ issued \in 0..agenda.invites
  /\ submitter \in Accounts \cup {NoOne}
  /\ request \in [Requests -> Request]
  /\ shared \in [Requests -> SUBSET Rows]
  /\ owned \in [Requests -> SUBSET Rows]
  /\ redeemed \in [Invites -> Nat]

AdminInit ==
  /\ agenda \in Agendas
  /\ role = [a \in Accounts |-> IF a \in agenda.admins THEN "admin" ELSE "submitter"]
  /\ member = [a \in Accounts |-> "none"]
  /\ verified = FALSE
  /\ keys = [a \in Accounts |-> 0]
  /\ invite = [i \in Invites |-> NoOne]
  /\ issued = 0
  /\ submitter = NoOne
  /\ request = [r \in Requests |-> NoRequest]
  /\ shared = [r \in Requests |-> {}]
  /\ owned = [r \in Requests |-> {}]
  /\ redeemed = [i \in Invites |-> 0]

-----------------------------------------------------------------------------
(* Row locks and transactions. *)

MayShare(r, rows) == \A s \in Requests \ {r} : owned[s] \cap rows = {}
MayOwn(r, rows) == \A s \in Requests \ {r} : (owned[s] \cup shared[s]) \cap rows = {}
Untouched(rows) == \A s \in Requests : (owned[s] \cup shared[s]) \cap rows = {}

Share(r, rows) == MayShare(r, rows) /\ shared' = [shared EXCEPT ![r] = @ \cup rows] /\ UNCHANGED owned
Own(r, rows) == MayOwn(r, rows) /\ owned' = [owned EXCEPT ![r] = @ \cup rows] /\ UNCHANGED shared

Doing(r, op, step) == request[r].op = op /\ request[r].at = step
GoOn(r, step) == request' = [request EXCEPT ![r].at = step]

(* COMMIT or ROLLBACK *)
Done(r) ==
  /\ request' = [request EXCEPT ![r] = NoRequest]
  /\ shared' = [shared EXCEPT ![r] = {}]
  /\ owned' = [owned EXCEPT ![r] = {}]

Rollback(r) == request[r].at # "idle" /\ Done(r) /\ UNCHANGED stored

IsStaff(a) == role[a] \in {"reviewer", "admin"}

Ask(r, op, a, about, as, on) ==
  /\ request[r].at = "idle"
  /\ op \in agenda.of
  /\ request' = [request EXCEPT ![r] = [NoRequest EXCEPT
       !.at = "asked", !.op = op, !.actor = a, !.staff = IsStaff(a),
       !.about = about, !.as = as, !.on = on]]
  /\ UNCHANGED <<stored, locks>>

(* Rows are locked in the order of their ids. *)
First(ids) == {i \in ids : \A j \in ids : i <= j}

-----------------------------------------------------------------------------
(* Global roles. *)

Admins == {a \in Accounts : role[a] = "admin"}

AskRole(r, a, b, as) == role[a] = "admin" /\ Ask(r, "assignRole", a, b, as, NoOne)

(* lockAdmins begins: the rows its snapshot shows, none for a promotion to admin. *)
QueryAdmins(r) ==
  /\ Doing(r, "assignRole", "asked")
  /\ request' = [request EXCEPT ![r].at = "locked",
                                ![r].todo = IF request[r].as = "admin" THEN {} ELSE Admins]
  /\ UNCHANGED <<stored, locks>>

(* A mistake: the admins are counted and not locked. *)
CountAdmin(r) ==
  /\ Doing(r, "assignRole", "locked") /\ request[r].todo # {}
  /\ request' = [request EXCEPT ![r].todo = {}, ![r].found = Cardinality(Admins)]
  /\ UNCHANGED <<stored, locks>>

(* One row of it, in id order. A row somebody demoted meanwhile is not returned. *)
LockAdmin(r) ==
  /\ Doing(r, "assignRole", "locked") /\ request[r].todo # {}
  /\ \E a \in First(request[r].todo) :
        /\ Own(r, {AccountRow(a)})
        /\ request' = [request EXCEPT ![r].todo = @ \ {a},
                                      ![r].found = IF a \in Admins THEN @ + 1 ELSE @]
  /\ UNCHANGED stored

LockAccount(r) ==
  /\ Doing(r, "assignRole", "locked") /\ request[r].todo = {}
  /\ Own(r, {AccountRow(request[r].about)})
  /\ GoOn(r, "proved")
  /\ UNCHANGED stored

(* The last admin cannot be demoted. *)
AssignRole(r) ==
  /\ Doing(r, "assignRole", "proved")
  /\ LET a == request[r].about
     IN /\ role[a] = "admin" /\ request[r].as # "admin" => request[r].found > 1
        /\ role' = [role EXCEPT ![a] = request[r].as]
  /\ Done(r)
  /\ UNCHANGED <<member, verified, keys, invite, issued, submitter, redeemed>>

-----------------------------------------------------------------------------
(* API keys. *)

AskKey(r, a) == Ask(r, "mint", a, NoOne, NoOne, NoOne)

(* A mistake: keys are counted with the account unlocked. *)
LookForKey(r) ==
  /\ Doing(r, "mint", "asked")
  /\ GoOn(r, "locked")
  /\ UNCHANGED <<stored, locks>>

LockForKey(r) ==
  /\ Doing(r, "mint", "asked")
  /\ Own(r, {AccountRow(request[r].actor)})
  /\ GoOn(r, "locked")
  /\ UNCHANGED stored

CountKeys(r) ==
  /\ Doing(r, "mint", "locked")
  /\ keys[request[r].actor] < KeyLimit
  /\ GoOn(r, "counted")
  /\ UNCHANGED <<stored, locks>>

MintKey(r) ==
  /\ Doing(r, "mint", "counted")
  /\ keys' = [keys EXCEPT ![request[r].actor] = @ + 1]
  /\ Done(r)
  /\ UNCHANGED <<role, member, verified, invite, issued, submitter, redeemed>>

(* A mistake: a key that is revoked already is revoked once more. *)
RevokeKeyAgain(a) ==
  /\ "mint" \in agenda.of
  /\ keys' = [keys EXCEPT ![a] = @ - 1]
  /\ UNCHANGED <<role, member, verified, invite, issued, submitter, redeemed, request, locks>>

(* revokeIfLive needs no account lock. *)
RevokeKey(a) ==
  /\ "mint" \in agenda.of
  /\ keys[a] > 0
  /\ keys' = [keys EXCEPT ![a] = @ - 1]
  /\ UNCHANGED <<role, member, verified, invite, issued, submitter, redeemed, request, locks>>

-----------------------------------------------------------------------------
(* Invites. *)

MayInvite(held, as) == held = "owner" \/ (held = "admin" /\ as # "owner")
Pending == {i \in Invites : invite[i] # NoOne}
RowOf(a) == IF member[a] = "none" THEN {} ELSE {MemberRow(a)}

AskInvite(r, a, b, as) == Ask(r, "invite", a, b, as, NoOne)
AskWithdrawal(r, a, i) == i \in Pending /\ Ask(r, "withdraw", a, NoOne, invite[i].as, i)

(* requireInviteAuthority: staff by its principal, a manager by its locked row. *)
ProveManager(r) ==
  LET a == request[r].actor
  IN /\ request[r].op \in {"invite", "withdraw"} /\ request[r].at = "asked"
     /\ \/ request[r].staff /\ UNCHANGED locks
        \/ ~request[r].staff /\ MayInvite(member[a], request[r].as) /\ Share(r, {MemberRow(a)})
     /\ GoOn(r, "proved")
     /\ UNCHANGED stored

(* One pending invite of an address; a manager invites no member. *)
CreateInvite(r) ==
  /\ Doing(r, "invite", "proved")
  /\ LET b == request[r].about
     IN /\ request[r].staff \/ member[b] = "none"
        /\ \A i \in Pending : invite[i].to # b
        /\ issued < agenda.invites
        /\ issued' = issued + 1
        /\ invite' = [invite EXCEPT ![issued + 1] =
             [to |-> b, by |-> request[r].actor, as |-> request[r].as]]
  /\ Done(r)
  /\ UNCHANGED <<role, member, verified, keys, submitter, redeemed>>

Withdraw(r) ==
  /\ Doing(r, "withdraw", "proved")
  /\ request[r].on \in Pending
  /\ MayOwn(r, {InviteRow(request[r].on)})
  /\ invite' = [invite EXCEPT ![request[r].on] = NoOne]
  /\ Done(r)
  /\ UNCHANGED <<role, member, verified, keys, issued, submitter, redeemed>>

(* A sign-in applies what waits for its address: the rows its query shows ... *)
SignIn(r, a) == \E i \in Pending : invite[i].to = a /\ Ask(r, "redeem", a, NoOne, NoOne, i)

TakeUp(r) == request' = [request EXCEPT ![r].at = "locked", ![r].row = invite[request[r].on]]

(* A mistake: the invite is read and not locked. *)
ReadInvite(r) ==
  /\ Doing(r, "redeem", "asked")
  /\ IF request[r].on \in Pending THEN TakeUp(r) /\ UNCHANGED locks ELSE Done(r)
  /\ UNCHANGED stored

(* ... locked, and seen again if they had to be waited for. *)
LockInvite(r) ==
  /\ Doing(r, "redeem", "asked")
  /\ IF request[r].on \in Pending
     THEN Own(r, {InviteRow(request[r].on)}) /\ TakeUp(r)
     ELSE MayOwn(r, {InviteRow(request[r].on)}) /\ Done(r)
  /\ UNCHANGED stored

(* A mistake: the inviter's role is read and not locked. *)
ReadInviter(r) ==
  LET i == request[r].row
  IN /\ Doing(r, "redeem", "locked")
     /\ IsStaff(i.by) \/ MayInvite(member[i.by], i.as)
     /\ request' = [request EXCEPT ![r].at = "proved", ![r].vouched = IsStaff(i.by)]
     /\ UNCHANGED <<stored, locks>>

(* inviterStillAuthorised: staff, or a manager whose membership is locked. *)
ProveInviter(r) ==
  LET i == request[r].row
  IN /\ Doing(r, "redeem", "locked")
     /\ \/ IsStaff(i.by) /\ UNCHANGED locks
        \/ ~IsStaff(i.by) /\ MayInvite(member[i.by], i.as) /\ Share(r, {MemberRow(i.by)})
     /\ request' = [request EXCEPT ![r].at = "proved", ![r].vouched = IsStaff(i.by)]
     /\ UNCHANGED stored

(* An invite whose inviter lost the authority is deleted. *)
DropInvite(r) ==
  LET i == request[r].row
  IN /\ Doing(r, "redeem", "locked")
     /\ ~IsStaff(i.by) /\ ~MayInvite(member[i.by], i.as)
     /\ MayShare(r, RowOf(i.by))
     /\ invite' = [invite EXCEPT ![request[r].on] = NoOne]
     /\ Done(r)
     /\ UNCHANGED <<role, member, verified, keys, issued, submitter, redeemed>>

(* The membership is locked, then made what the invite says. *)
Redeem(r) ==
  LET i == request[r].on
      a == request[r].actor
  IN /\ Doing(r, "redeem", "proved")
     /\ MayOwn(r, {MemberRow(a)})
     /\ member' = [member EXCEPT ![a] = request[r].row.as]
     /\ invite' = [invite EXCEPT ![i] = NoOne]
     /\ redeemed' = [redeemed EXCEPT ![i] = @ + 1]
     /\ Done(r)
     /\ UNCHANGED <<role, verified, keys, issued, submitter>>

-----------------------------------------------------------------------------
(* The submitter of the entry. *)

IsManager(a) == member[a] \in {"owner", "admin"} /\ verified

AskAssume(r, a) == IsManager(a) /\ Ask(r, "assume", a, a, NoOne, NoOne)
AskAssign(r, a, b) == role[a] = "admin" /\ Ask(r, "assign", a, b, NoOne, NoOne)

LockEntry(r) ==
  /\ request[r].op \in {"assume", "assign"} /\ request[r].at = "asked"
  /\ Own(r, {EntryRow})
  /\ request' = [request EXCEPT
       ![r].at = "locked",
       ![r].todo = IF request[r].op = "assign" THEN {request[r].actor, request[r].about} ELSE {}]
  /\ UNCHANGED stored

(* assume: the organisation and the membership, shared. *)
ProveAssume(r) ==
  /\ Doing(r, "assume", "locked")
  /\ IsManager(request[r].actor)
  /\ Share(r, {OrgRow, MemberRow(request[r].actor)})
  /\ GoOn(r, "proved")
  /\ UNCHANGED stored

(* assign: both accounts, in id order, and the actor's live role. *)
LockParty(r) ==
  /\ Doing(r, "assign", "locked") /\ request[r].todo # {}
  /\ \E a \in First(request[r].todo) :
       Own(r, {AccountRow(a)}) /\ request' = [request EXCEPT ![r].todo = @ \ {a}]
  /\ UNCHANGED stored

(* A mistake: the principal's role is enough. *)
TrustPrincipal(r) ==
  /\ Doing(r, "assign", "locked") /\ request[r].todo = {}
  /\ request[r].staff
  /\ GoOn(r, "proved")
  /\ UNCHANGED <<stored, locks>>

ProveAdmin(r) ==
  /\ Doing(r, "assign", "locked") /\ request[r].todo = {}
  /\ role[request[r].actor] = "admin"
  /\ GoOn(r, "proved")
  /\ UNCHANGED <<stored, locks>>

HandOver(r) ==
  /\ request[r].op \in {"assume", "assign"} /\ request[r].at = "proved"
  /\ submitter' = request[r].about
  /\ Done(r)
  /\ UNCHANGED <<role, member, verified, keys, invite, issued, redeemed>>

-----------------------------------------------------------------------------
(* Reviewers settle memberships and verify the organisation in one step each. *)

AboutMembers == agenda.of \cap {"invite", "assume"} # {}

SetMember(a, as) ==
  /\ AboutMembers
  /\ member[a] # as
  /\ Untouched({MemberRow(a)})
  /\ member' = [member EXCEPT ![a] = as]
  /\ UNCHANGED <<role, verified, keys, invite, issued, submitter, redeemed, request, locks>>

SetVerified ==
  /\ "assume" \in agenda.of
  /\ Untouched({OrgRow})
  /\ verified' = ~verified
  /\ UNCHANGED <<role, member, keys, invite, issued, submitter, redeemed, request, locks>>

Arrive(r) ==
  \/ \E a, b \in agenda.people :
       \/ \E as \in agenda.roles : AskRole(r, a, b, as)
       \/ \E as \in agenda.ranks : AskInvite(r, a, b, as)
       \/ AskAssign(r, a, b)
  \/ \E a \in agenda.people :
       \/ AskKey(r, a) \/ SignIn(r, a) \/ AskAssume(r, a)
       \/ \E i \in Invites : AskWithdrawal(r, a, i)

Proceed(r) ==
  \/ QueryAdmins(r) \/ LockAdmin(r) \/ LockAccount(r) \/ AssignRole(r)
  \/ LockForKey(r) \/ CountKeys(r) \/ MintKey(r)
  \/ ProveManager(r) \/ CreateInvite(r) \/ Withdraw(r)
  \/ LockInvite(r) \/ ProveInviter(r) \/ DropInvite(r) \/ Redeem(r)
  \/ LockEntry(r) \/ ProveAssume(r) \/ LockParty(r) \/ ProveAdmin(r) \/ HandOver(r)

AdminNext ==
  /\ UNCHANGED agenda
  /\ \/ \E r \in Requests : Arrive(r) \/ Proceed(r) \/ Rollback(r)
     \/ \E a \in agenda.people :
          RevokeKey(a) \/ \E as \in agenda.ranks \cup {"none"} : SetMember(a, as)
     \/ SetVerified

AdminSpec == AdminInit /\ [][AdminNext]_adminVars

-----------------------------------------------------------------------------
(* Properties *)

(* "The last admin cannot be demoted from here": two admins who demote each other, *)
(* or themselves, at once leave one of them (AdminService.assignRole).              *)
AdminFloor == agenda.admins # {} => Admins # {}

(* An account never holds more live keys than its limit, however its mints race.   *)
KeyCap == \A a \in Accounts : keys[a] <= KeyLimit

(* An invite is applied once, by whichever of several sign-ins of its address: a    *)
(* role that was changed afterwards is not brought back.                            *)
RedeemedOnce == \A i \in Invites : redeemed[i] <= 1

(* What is counted is counted under locks that its writers share, of rows that are  *)
(* of their types.                                                                 *)
CountsHold == AdminTypeOK /\ AdminFloor /\ KeyCap /\ RedeemedOnce

(* An invite gives a membership only while its inviter could still give it: unless  *)
(* the inviter is staff, its own role is enough when the invite is applied, so a     *)
(* manager who was removed has no way back through an invite to another address.     *)
InviterStillMay ==
  [][\A i \in Invites :
       redeemed'[i] # redeemed[i] =>
         \/ MayInvite(member[invite[i].by], invite[i].as)
         \/ \E r \in Requests : request[r].on = i /\ request[r].vouched]_adminVars

(* The submitter of an entry is changed by somebody who is, in that step, a hub      *)
(* admin, or a manager of the verified organisation that publishes it.               *)
HandedOverByRight ==
  [][submitter' # submitter =>
       \E r \in Requests :
         /\ request'[r] # request[r] /\ request[r].at = "proved"
         /\ IF request[r].op = "assign" THEN role[request[r].actor] = "admin"
            ELSE IsManager(request[r].actor)]_adminVars

(* What an invite or a hand-over does, it does by an authority of that moment.      *)
ActsByRight == InviterStillMay /\ HandedOverByRight
=============================================================================
