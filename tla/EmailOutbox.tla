---------------------------- MODULE EmailOutbox ----------------------------
(***************************************************************************)
(* What the durable notification e-mail ledger promises, whoever sends the  *)
(* mail and however often a sender is lost: a notification is tried a       *)
(* bounded number of times, one try puts at most one message on the wire,   *)
(* a row is called dispatched only when the try that owned it mailed it,    *)
(* and a settled row stays as it is.                                        *)
(*                                                                         *)
(* NotificationDispatch implements this specification.                      *)
(***************************************************************************)
EXTENDS Naturals

CONSTANTS
  Notifications,     \* the notification rows
  MaxAttempts        \* NOTIFICATION_EMAIL_MAX_ATTEMPTS

VARIABLES
  phase,             \* "absent", "waiting", "trying" or "dispatched"
  tries,             \* tries counted against the row
  mails              \* mails[n][t]: messages the t-th try of n put on the wire

vars == <<phase, tries, mails>>

Try == 1..MaxAttempts

TypeOK ==
  /\ phase \in [Notifications -> {"absent", "waiting", "trying", "dispatched"}]
  /\ tries \in [Notifications -> 0..MaxAttempts]
  /\ mails \in [Notifications -> [Try -> {0, 1}]]

Init ==
  /\ phase = [n \in Notifications |-> "absent"]
  /\ tries = [n \in Notifications |-> 0]
  /\ mails = [n \in Notifications |-> [t \in Try |-> 0]]

(* The event is recorded in the transaction that caused it. *)
Record(n) ==
  /\ phase[n] = "absent"
  /\ phase' = [phase EXCEPT ![n] = "waiting"]
  /\ UNCHANGED <<tries, mails>>

(* A set of rows is tried (again): what the previous try did is forgotten. *)
Begin(S) ==
  /\ \A n \in S : phase[n] \in {"waiting", "trying"} /\ tries[n] < MaxAttempts
  /\ phase' = [n \in Notifications |-> IF n \in S THEN "trying" ELSE phase[n]]
  /\ tries' = [n \in Notifications |-> IF n \in S THEN tries[n] + 1 ELSE tries[n]]
  /\ UNCHANGED mails

(* A try that was begun, even one since superseded, sends its one message.   *)
(* The count is gone once the row is dispatched.                             *)
Mail(n, t) ==
  /\ phase[n] = "dispatched" \/ t <= tries[n]
  /\ mails[n][t] = 0
  /\ mails' = [mails EXCEPT ![n][t] = 1]
  /\ UNCHANGED <<phase, tries>>

(* The try ends without success: for now, or (tries = MaxAttempts) for good. *)
Fail(n) ==
  /\ phase[n] = "trying"
  /\ phase' = [phase EXCEPT ![n] = "waiting"]
  /\ \E t \in {tries[n], MaxAttempts} : tries' = [tries EXCEPT ![n] = t]
  /\ UNCHANGED mails

(* Only the newest try, and only after its message left, settles the row. *)
Deliver(n) ==
  /\ phase[n] = "trying"
  /\ mails[n][tries[n]] = 1
  /\ phase' = [phase EXCEPT ![n] = "dispatched"]
  /\ tries' = [tries EXCEPT ![n] = 0]
  /\ UNCHANGED mails

Next ==
  \/ \E n \in Notifications : Record(n) \/ Fail(n) \/ Deliver(n)
  \/ \E S \in SUBSET Notifications : Begin(S)
  \/ \E n \in Notifications, t \in Try : Mail(n, t)

Spec == Init /\ [][Next]_vars
=============================================================================
