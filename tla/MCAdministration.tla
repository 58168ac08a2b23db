-------------------------- MODULE MCAdministration --------------------------
(* Small instances of Administration for TLC. *)
EXTENDS Administration, TLC

CONSTANTS r1, r2

ThreeAccounts == 1..3
TwoRequests == {r1, r2}

Inviting == {"invite", "withdraw", "redeem"}

RoleChanges ==
  [of |-> {"assignRole"}, people |-> 1..3, admins |-> {1, 2}, roles |-> {"submitter", "admin"},
   ranks |-> {}, invites |-> 0]
KeyMints ==
  [of |-> {"mint"}, people |-> {1}, admins |-> {}, roles |-> {}, ranks |-> {}, invites |-> 0]
ManagersInvite ==
  [of |-> Inviting, people |-> {1, 2}, admins |-> {}, roles |-> {}, ranks |-> OrgRoles,
   invites |-> 2]
StaffInvites ==
  [of |-> Inviting \cup {"assignRole"}, people |-> {1, 2}, admins |-> {1, 2},
   roles |-> {"submitter"}, ranks |-> {"owner"}, invites |-> 1]
Handovers ==
  [of |-> {"assume", "assign", "assignRole"}, people |-> {1, 2}, admins |-> {1},
   roles |-> {"submitter", "admin"}, ranks |-> {"admin"}, invites |-> 0]

AllAgendas == {RoleChanges, KeyMints, ManagersInvite, StaffInvites, Handovers}
=============================================================================
