------------------------ MODULE NotificationDispatch ------------------------
(***************************************************************************)
(* The leased e-mail dispatcher of packages/api: the in-process queue and   *)
(* the nightly notification-dispatch job run the same runBatch over the     *)
(* same rows, at the same time, and any of them may die or stall between    *)
(* any two of its statements.                                               *)
(*                                                                         *)
(* One action is one database statement or one provider call of             *)
(* NotificationDispatchService.runBatch with what surrounds it in the code. *)
(* email_failed_at is kept as the age of the stamp, saturated at the retry  *)
(* delay: the code only compares it with "now minus the delay".             *)
(***************************************************************************)
EXTENDS Integers, FiniteSets

CONSTANTS
  Notifications,     \* notification ids: a batch is walked in ascending order
  Lifecycle,         \* those whose recipient may opt out or lose membership
  Malformed,         \* those whose message cannot be composed
  Dispatchers,       \* concurrent callers of runBatch
  Sweepers,          \* those the nightly schedule keeps starting again
  BatchLimit,        \* rows one lease may take
  MaxAttempts,       \* NOTIFICATION_EMAIL_MAX_ATTEMPTS
  RetryDelay,        \* NOTIFICATION_EMAIL_RETRY_DELAY_MS, in ticks
  HoldLimit,         \* longest time from a lease renewal to its outcome stamp
  ClockSkew          \* how far a process clock may be off the database's

ASSUME DispatchAssumption ==
  /\ Notifications \subseteq Nat
  /\ Lifecycle \subseteq Notifications
  /\ Malformed \subseteq Notifications
  /\ Sweepers \subseteq Dispatchers
  /\ MaxAttempts \in Nat \ {0}
  /\ BatchLimit \in Nat \ {0}
  /\ RetryDelay \in Nat \ {0}
  /\ HoldLimit \in Nat
  /\ ClockSkew \in 0..RetryDelay

VARIABLES
  recorded,          \* the row exists
  dispatched,        \* email_dispatched_at is set
  age,               \* time since email_failed_at, NotFailed when it is null
  attempts,          \* payload.emailDelivery.attempts, 0 when absent
  leaseToken,        \* payload.emailDelivery.leaseToken, NoToken when absent
  recipient,         \* what the account behind a row looks like right now
  nextToken,         \* randomUUID: every lease mints one never used before
  pc,                \* where a dispatcher is in its loop
  batch,             \* leased rows it has not finished with
  token,             \* the lease token its batch carries
  copy,              \* copy[d][n]: the attempt count its leased copy of n shows
  unreachable,       \* rows whose account had no address when it looked
  held,              \* time since the renewal of the row being sent
  mails              \* mails[n][a]: messages attempt a of n put on the wire

row == <<recorded, dispatched, age, attempts, leaseToken>>
dispatcherVars == <<pc, batch, token, copy, unreachable, held>>
vars == <<row, recipient, nextToken, dispatcherVars, mails>>

NoToken == 0
NotFailed == -1
Attempts == 1..MaxAttempts
Recipients == {"reachable", "no_address", "withdrawn"}
Holding == {"sending", "accepted", "failed"}

TypeOK ==
  /\ recorded \in [Notifications -> BOOLEAN]
  /\ dispatched \in [Notifications -> BOOLEAN]
  /\ age \in [Notifications -> NotFailed..RetryDelay]
  /\ attempts \in [Notifications -> 0..MaxAttempts]
  /\ leaseToken \in [Notifications -> Nat]
  /\ recipient \in [Notifications -> Recipients]
  /\ nextToken \in Nat \ {0}
  /\ pc \in [Dispatchers -> {"idle", "leased", "walking", "checked"} \cup Holding]
  /\ batch \in [Dispatchers -> SUBSET Notifications]
  /\ token \in [Dispatchers -> Nat]
  /\ copy \in [Dispatchers -> [Notifications -> 0..MaxAttempts]]
  /\ unreachable \in [Dispatchers -> SUBSET Notifications]
  /\ held \in [Dispatchers -> 0..HoldLimit]
  /\ mails \in [Notifications -> [Attempts -> Nat]]

Init ==
  /\ recorded = [n \in Notifications |-> FALSE]
  /\ dispatched = [n \in Notifications |-> FALSE]
  /\ age = [n \in Notifications |-> NotFailed]
  /\ attempts = [n \in Notifications |-> 0]
  /\ leaseToken = [n \in Notifications |-> NoToken]
  /\ recipient = [n \in Notifications |-> "reachable"]
  /\ nextToken = 1
  /\ pc = [d \in Dispatchers |-> "idle"]
  /\ batch = [d \in Dispatchers |-> {}]
  /\ token = [d \in Dispatchers |-> NoToken]
  /\ copy = [d \in Dispatchers |-> [n \in Notifications |-> 0]]
  /\ unreachable = [d \in Dispatchers |-> {}]
  /\ held = [d \in Dispatchers |-> 0]
  /\ mails = [n \in Notifications |-> [a \in Attempts |-> 0]]

-----------------------------------------------------------------------------
(* The world around the dispatchers. *)

(* A mutation commits its event; a second event with the same key is a no-op. *)
Record(n) ==
  /\ ~recorded[n]
  /\ recorded' = [recorded EXCEPT ![n] = TRUE]
  /\ UNCHANGED <<dispatched, age, attempts, leaseToken, recipient, nextToken, dispatcherVars, mails>>

(* The account loses or gains its address, its membership or its consent. *)
RecipientChanges(n) ==
  /\ \E r \in Recipients \ {recipient[n]} :
       /\ r = "withdrawn" => n \in Lifecycle
       /\ recipient' = [recipient EXCEPT ![n] = r]
  /\ UNCHANGED <<row, nextToken, dispatcherVars, mails>>

(* Time passes; a provider call is aborted rather than outlive HoldLimit. *)
Tick ==
  /\ \A d \in Dispatchers : pc[d] \in Holding => held[d] < HoldLimit
  /\ age' = [n \in Notifications |->
               IF age[n] \in 0..(RetryDelay - 1) THEN age[n] + 1 ELSE age[n]]
  /\ held' = [d \in Dispatchers |->
                IF pc[d] \in Holding THEN held[d] + 1 ELSE held[d]]
  /\ UNCHANGED <<recorded, dispatched, attempts, leaseToken, recipient, nextToken,
                 pc, batch, token, copy, unreachable, mails>>

-----------------------------------------------------------------------------
(* selectForDispatch *)

(* Mistakes: the attempt limit is forgotten; rows in flight are left alone. *)
ClaimableForever(n, lead) ==
  recorded[n] /\ ~dispatched[n] /\ (age[n] = NotFailed \/ age[n] + lead >= RetryDelay)

ClaimableUnleased(n, lead) ==
  /\ recorded[n]
  /\ ~dispatched[n]
  /\ leaseToken[n] = NoToken
  /\ age[n] = NotFailed \/ (age[n] + lead >= RetryDelay /\ attempts[n] < MaxAttempts)

(* The WHERE of the selection, for a process clock `lead` ahead of the         *)
(* database's.                                                                 *)
Claimable(n, lead) ==
  /\ recorded[n]
  /\ ~dispatched[n]
  /\ \/ age[n] = NotFailed
     \/ age[n] + lead >= RetryDelay /\ attempts[n] < MaxAttempts

(* One UPDATE: the rows are stamped in flight, their attempt counted and their *)
(* ownership moved to a new token. SKIP LOCKED, the id scope and the limit     *)
(* make any small enough set of claimable rows a possible batch.               *)
Lease(d, S) ==
  /\ pc[d] = "idle"
  /\ S # {}
  /\ Cardinality(S) <= BatchLimit
  /\ \E lead \in 0..ClockSkew : \A n \in S : Claimable(n, lead)
  /\ age' = [n \in Notifications |-> IF n \in S THEN 0 ELSE age[n]]
  /\ attempts' = [n \in Notifications |->
                    IF n \in S THEN attempts[n] + 1 ELSE attempts[n]]
  /\ leaseToken' = [n \in Notifications |->
                      IF n \in S THEN nextToken ELSE leaseToken[n]]
  /\ token' = [token EXCEPT ![d] = nextToken]
  /\ nextToken' = nextToken + 1
  /\ batch' = [batch EXCEPT ![d] = S]
  /\ copy' = [copy EXCEPT ![d] =
                [n \in Notifications |-> IF n \in S THEN attempts[n] + 1 ELSE 0]]
  /\ pc' = [pc EXCEPT ![d] = "leased"]
  /\ UNCHANGED <<recorded, dispatched, recipient, unreachable, held, mails>>

(* notificationRecipients: the addresses are read once for the whole batch. *)
LoadRecipients(d) ==
  /\ pc[d] = "leased"
  /\ unreachable' = [unreachable EXCEPT ![d] =
                       {n \in batch[d] : recipient[n] = "no_address"}]
  /\ pc' = [pc EXCEPT ![d] = "walking"]
  /\ UNCHANGED <<row, recipient, nextToken, batch, token, copy, held, mails>>

-----------------------------------------------------------------------------
(* The loop over the batch. *)

IsNext(d, n) == n \in batch[d] /\ \A m \in batch[d] : n <= m

(* A mistake: any unsettled row is taken for one's own. *)
OwnsUnsettled(d, n) == ~dispatched[n]

(* The condition every write about a leased row carries. *)
Owns(d, n) == ~dispatched[n] /\ leaseToken[n] = token[d]

(* markFailure: a no-op for a dispatcher that lost the row. The stamp is taken *)
(* from a process clock that may be behind the database's.                     *)
FailureStamp(d, n, count) ==
  IF Owns(d, n)
  THEN /\ \E lag \in 0..ClockSkew : age' = [age EXCEPT ![n] = lag]
       /\ attempts' = [attempts EXCEPT ![n] = count]
       /\ leaseToken' = [leaseToken EXCEPT ![n] = NoToken]
       /\ UNCHANGED <<recorded, dispatched>>
  ELSE UNCHANGED row

(* The loop goes on with the rest of the batch, or the batch is over. *)
Finish(d, n) ==
  LET rest == batch[d] \ {n}
      done == rest = {}
  IN /\ batch' = [batch EXCEPT ![d] = rest]
     /\ pc' = [pc EXCEPT ![d] = IF done THEN "idle" ELSE "walking"]
     /\ token' = [token EXCEPT ![d] = IF done THEN NoToken ELSE @]
     /\ copy' = [copy EXCEPT ![d][n] = 0]
     /\ unreachable' = [unreachable EXCEPT ![d] = @ \ {n}]
     /\ held' = [held EXCEPT ![d] = 0]

(* recipient_unavailable, recipient_opted_out, recipient_not_publisher. *)
Undeliverable(d) ==
  /\ pc[d] = "walking"
  /\ \E n \in batch[d] :
       /\ IsNext(d, n)
       /\ n \in unreachable[d] \/ recipient[n] = "withdrawn"
       /\ FailureStamp(d, n, MaxAttempts)
       /\ Finish(d, n)
  /\ UNCHANGED <<recipient, nextToken, mails>>

(* Every recipient check passed; nothing has been written yet. *)
Check(d) ==
  /\ pc[d] = "walking"
  /\ \E n \in batch[d] :
       /\ IsNext(d, n)
       /\ n \notin unreachable[d]
       /\ recipient[n] # "withdrawn"
  /\ pc' = [pc EXCEPT ![d] = "checked"]
  /\ UNCHANGED <<row, recipient, nextToken, batch, token, copy, unreachable, held, mails>>

(* A mistake: ownership is verified and the deadline left where it was. *)
RenewInPlace(d) ==
  /\ pc[d] = "checked"
  /\ \E n \in batch[d] : IsNext(d, n) /\ Owns(d, n)
  /\ pc' = [pc EXCEPT ![d] = "sending"]
  /\ UNCHANGED <<row, recipient, nextToken, batch, token, copy, unreachable, held, mails>>

(* renewLease matched the row: the deadline moves and the call may start. *)
Renew(d) ==
  /\ pc[d] = "checked"
  /\ \E n \in batch[d] :
       /\ IsNext(d, n)
       /\ Owns(d, n)
       /\ age' = [age EXCEPT ![n] = 0]
  /\ pc' = [pc EXCEPT ![d] = "sending"]
  /\ UNCHANGED <<recorded, dispatched, attempts, leaseToken, recipient, nextToken, batch, token, copy, unreachable, held, mails>>

(* renewLease matched nothing: another dispatcher owns the row, leave it. *)
LeaseLost(d) ==
  /\ pc[d] = "checked"
  /\ \E n \in batch[d] : IsNext(d, n) /\ ~Owns(d, n) /\ Finish(d, n)
  /\ UNCHANGED <<row, recipient, nextToken, mails>>

(* invalid_notification: the message cannot be composed, so none is sent. *)
Invalid(d) ==
  /\ pc[d] = "sending"
  /\ \E n \in batch[d] :
       /\ IsNext(d, n)
       /\ n \in Malformed
       /\ FailureStamp(d, n, MaxAttempts)
       /\ Finish(d, n)
  /\ UNCHANGED <<recipient, nextToken, mails>>

Wire(d, n) == mails' = [mails EXCEPT ![n][copy[d][n]] = @ + 1]

(* The provider takes the message and says so. *)
Accept(d) ==
  /\ pc[d] = "sending"
  /\ \E n \in batch[d] : IsNext(d, n) /\ n \notin Malformed /\ Wire(d, n)
  /\ pc' = [pc EXCEPT ![d] = "accepted"]
  /\ UNCHANGED <<row, recipient, nextToken, batch, token, copy, unreachable, held>>

(* The call fails. An aborted call may have been carried out all the same. *)
Reject(d) ==
  /\ pc[d] = "sending"
  /\ \E n \in batch[d] :
       /\ IsNext(d, n)
       /\ n \notin Malformed
       /\ Wire(d, n) \/ UNCHANGED mails
  /\ pc' = [pc EXCEPT ![d] = "failed"]
  /\ UNCHANGED <<row, recipient, nextToken, batch, token, copy, unreachable, held>>

(* A mistake: the outcome is stamped by id alone. *)
SuccessStampById(d, n) ==
  /\ dispatched' = [dispatched EXCEPT ![n] = TRUE]
  /\ age' = [age EXCEPT ![n] = NotFailed]
  /\ attempts' = [attempts EXCEPT ![n] = 0]
  /\ leaseToken' = [leaseToken EXCEPT ![n] = NoToken]
  /\ UNCHANGED recorded

(* markDispatched: payload without delivery state, so the count goes too. *)
SuccessStamp(d, n) ==
  IF Owns(d, n)
  THEN /\ dispatched' = [dispatched EXCEPT ![n] = TRUE]
       /\ age' = [age EXCEPT ![n] = NotFailed]
       /\ attempts' = [attempts EXCEPT ![n] = 0]
       /\ leaseToken' = [leaseToken EXCEPT ![n] = NoToken]
       /\ UNCHANGED recorded
  ELSE UNCHANGED row

StampDispatched(d) ==
  /\ pc[d] = "accepted"
  /\ \E n \in batch[d] : IsNext(d, n) /\ SuccessStamp(d, n) /\ Finish(d, n)
  /\ UNCHANGED <<recipient, nextToken, mails>>

(* transport_failure: the attempt the lease counted is what is stored. *)
StampFailed(d) ==
  /\ pc[d] = "failed"
  /\ \E n \in batch[d] :
       /\ IsNext(d, n)
       /\ FailureStamp(d, n, copy[d][n])
       /\ Finish(d, n)
  /\ UNCHANGED <<recipient, nextToken, mails>>

(* The process dies, or a statement throws out of runBatch: the rest of the    *)
(* batch is abandoned as it stands in the database.                            *)
Crash(d) ==
  /\ pc[d] # "idle"
  /\ pc' = [pc EXCEPT ![d] = "idle"]
  /\ batch' = [batch EXCEPT ![d] = {}]
  /\ token' = [token EXCEPT ![d] = NoToken]
  /\ copy' = [copy EXCEPT ![d] = [n \in Notifications |-> 0]]
  /\ unreachable' = [unreachable EXCEPT ![d] = {}]
  /\ held' = [held EXCEPT ![d] = 0]
  /\ UNCHANGED <<row, recipient, nextToken, mails>>

Walk(d) ==
  \/ LoadRecipients(d) \/ Undeliverable(d) \/ Check(d) \/ Renew(d) \/ LeaseLost(d)
  \/ Invalid(d) \/ Accept(d) \/ Reject(d) \/ StampDispatched(d) \/ StampFailed(d)

Next ==
  \/ \E n \in Notifications : Record(n) \/ RecipientChanges(n)
  \/ Tick
  \/ \E d \in Dispatchers : Walk(d) \/ Crash(d)
  \/ \E d \in Dispatchers, S \in SUBSET Notifications : Lease(d, S)

Spec == Init /\ [][Next]_vars

(* A process that is up carries its batch on, time passes, and the schedule     *)
(* runs the sweep again and again. The in-process queue promises nothing.       *)
FairSpec ==
  /\ Spec
  /\ WF_vars(Tick)
  /\ \A d \in Dispatchers : WF_vars(Walk(d))
  /\ \A d \in Sweepers : WF_vars(\E S \in SUBSET Notifications : Lease(d, S))

-----------------------------------------------------------------------------
(* Properties *)

(* An attempt puts at most one message on the wire, whatever dies or stalls:   *)
(* the attempt count of a row is never taken back by a dispatcher that lost    *)
(* it, so MaxAttempts bounds the messages a recipient can get.                 *)
OneMailPerAttempt ==
  \A n \in Notifications, a \in Attempts : mails[n][a] <= 1

(* Until a send has outlasted the retry floor, less the clock error, its       *)
(* dispatcher still owns the row, so the stamp lands: a message the provider   *)
(* acknowledged is recorded as sent, and nobody else sends it.                 *)
OutcomeLands ==
  \A d \in Dispatchers, n \in Notifications :
    pc[d] \in Holding /\ IsNext(d, n) /\ held[d] + ClockSkew < RetryDelay => Owns(d, n)

Settled(n) == dispatched[n] \/ attempts[n] = MaxAttempts

(* Every recorded event is mailed or given up on in the end, with dispatchers  *)
(* dying at any point: a lost dispatcher burns an attempt, it never leaves a    *)
(* row in flight forever.                                                      *)
EventuallySettled ==
  \A n \in Notifications : recorded[n] ~> Settled(n)

(* The ledger this implements, and what it shows of a row. *)
LedgerPhase ==
  [n \in Notifications |->
     IF ~recorded[n] THEN "absent"
     ELSE IF dispatched[n] THEN "dispatched"
     ELSE IF leaseToken[n] # NoToken THEN "trying" ELSE "waiting"]

Outbox == INSTANCE EmailOutbox WITH phase <- LedgerPhase, tries <- attempts

(* Every step is a step of the ledger or changes nothing the ledger shows.     *)
ImplementsOutbox == Outbox!Spec
=============================================================================
