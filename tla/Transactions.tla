---------------------------- MODULE Transactions ----------------------------
(***************************************************************************)
(* What transactions of the API do to each other under the locks of rows, in *)
(* three views that share no state: who may do what (Administration), merges  *)
(* beside detection and review (Duplicates), and of every path the order of   *)
(* its locks and nothing else (RowLocks). A behaviour is one view; the others  *)
(* stay as they began.                                                        *)
(***************************************************************************)
EXTENDS Administration, Duplicates, RowLocks

VARIABLE view

transactionVars == <<view, adminVars, vars, lockVars>>

OneOf(v, first) == view = v \/ first

TransactionsInit ==
  /\ view \in {"administration", "duplicates", "locks"}
  /\ AdminInit /\ OneOf("administration", agenda = CHOOSE g \in Agendas : TRUE)
  /\ Init /\ OneOf("duplicates", public = [e \in Entries |-> FALSE] /\ status = [p \in Pairs |-> "none"])
  /\ LocksInit

AdministrationNext ==
  view = "administration" /\ AdminNext /\ UNCHANGED <<view, vars, lockVars>>
DuplicatesNext ==
  view = "duplicates" /\ Next /\ UNCHANGED <<view, adminVars, lockVars>>
LockingNext ==
  view = "locks" /\ LocksNext /\ UNCHANGED <<view, adminVars, vars>>

TransactionsNext == AdministrationNext \/ DuplicatesNext \/ LockingNext

TransactionsSpec == TransactionsInit /\ [][TransactionsNext]_transactionVars
=============================================================================
