--------------------- MODULE NotificationDispatchProofs ---------------------
(***************************************************************************)
(* Proofs about NotificationDispatch, for any sets of rows and dispatchers  *)
(* and any values of the bounds:                                            *)
(*   - type correctness;                                                    *)
(*   - OneMailPerAttempt, with no assumption on timing;                     *)
(*   - OutcomeLands, when a send and its stamp fit inside the retry floor;  *)
(*   - ImplementsOutbox: every step is one of the ledger EmailOutbox, or     *)
(*     changes nothing it shows.                                            *)
(***************************************************************************)
EXTENDS NotificationDispatch, TLAPS

USE DispatchAssumption

-----------------------------------------------------------------------------
(* The parts of the inductive invariant. *)

(* A dispatcher is idle exactly when it has no batch; what it works on it has  *)
(* leased, under a token minted before.                                        *)
Bookkeeping ==
  /\ \A d \in Dispatchers : pc[d] = "idle" <=> batch[d] = {}
  /\ \A d \in Dispatchers : pc[d] # "idle" => token[d] \in 1..(nextToken - 1)
  /\ \A n \in Notifications : leaseToken[n] < nextToken
  /\ \A n \in Notifications :
       ~dispatched[n] /\ age[n] = NotFailed => attempts[n] = 0
  /\ \A d \in Dispatchers : \A n \in batch[d] : copy[d][n] \in Attempts

(* Two live dispatchers never carry the same token. *)
TokensDiffer ==
  \A d, e \in Dispatchers :
    d # e /\ pc[d] # "idle" /\ pc[e] # "idle" => token[d] # token[e]

(* The row counts at least as far as any copy of it, and exactly as far as the *)
(* copy of its owner; two copies never show the same count.                    *)
CountsAgree ==
  /\ \A d \in Dispatchers : \A n \in batch[d] :
       ~dispatched[n] =>
         /\ copy[d][n] <= attempts[n]
         /\ leaseToken[n] = token[d] => copy[d][n] = attempts[n]
  /\ \A d, e \in Dispatchers : \A n \in batch[d] \cap batch[e] :
       d # e => copy[d][n] # copy[e][n]

(* d has not yet made the provider call for n. *)
Unsent(d, n) ==
  n \in batch[d] /\ ~(pc[d] \in {"accepted", "failed"} /\ IsNext(d, n))

(* No message left yet for an attempt that was not made or not counted.        *)
NothingEarly ==
  /\ \A d \in Dispatchers, n \in Notifications :
       Unsent(d, n) => mails[n][copy[d][n]] = 0
  /\ \A n \in Notifications : ~dispatched[n] =>
       \A a \in Attempts : a > attempts[n] => mails[n][a] = 0

IInv == TypeOK /\ Bookkeeping /\ TokensDiffer /\ CountsAgree /\ NothingEarly
          /\ OneMailPerAttempt

-----------------------------------------------------------------------------
(* The model starts in the inductive invariant. *)
LEMMA InitIInv == Init => IInv
BY DEF Init, IInv, TypeOK, Bookkeeping, TokensDiffer, CountsAgree, NothingEarly,
       Unsent, OneMailPerAttempt, NoToken, NotFailed, Recipients, Holding, Attempts

-----------------------------------------------------------------------------
(* Type correctness. *)

(* Finishing a row keeps the dispatcher's variables in their types.            *)
LEMMA FinishType ==
  ASSUME TypeOK, NEW d \in Dispatchers, NEW n \in Notifications, Finish(d, n)
  PROVE  /\ batch' \in [Dispatchers -> SUBSET Notifications]
         /\ pc' \in [Dispatchers -> {"idle", "leased", "walking", "checked"} \cup Holding]
         /\ token' \in [Dispatchers -> Nat]
         /\ copy' \in [Dispatchers -> [Notifications -> 0..MaxAttempts]]
         /\ unreachable' \in [Dispatchers -> SUBSET Notifications]
         /\ held' \in [Dispatchers -> 0..HoldLimit]
BY DEF TypeOK, Finish, NoToken, Holding

(* So does a failure stamp for the rows. *)
LEMMA FailureStampType ==
  ASSUME TypeOK, NEW d \in Dispatchers, NEW n \in Notifications,
         NEW a \in 0..MaxAttempts, FailureStamp(d, n, a)
  PROVE  /\ recorded' \in [Notifications -> BOOLEAN]
         /\ dispatched' \in [Notifications -> BOOLEAN]
         /\ age' \in [Notifications -> NotFailed..RetryDelay]
         /\ attempts' \in [Notifications -> 0..MaxAttempts]
         /\ leaseToken' \in [Notifications -> Nat]
<1>1. CASE Owns(d, n)
  <2>1. PICK lag \in 0..ClockSkew : age' = [age EXCEPT ![n] = lag]
    BY <1>1 DEF FailureStamp
  <2>2. lag \in NotFailed..RetryDelay
    BY DEF NotFailed
  <2>3. /\ attempts' = [attempts EXCEPT ![n] = a]
        /\ leaseToken' = [leaseToken EXCEPT ![n] = NoToken]
        /\ UNCHANGED <<recorded, dispatched>>
    BY <1>1 DEF FailureStamp
  <2> QED
    BY <2>1, <2>2, <2>3 DEF TypeOK, NoToken
<1>2. CASE ~Owns(d, n)
  BY <1>2 DEF TypeOK, FailureStamp, row
<1> QED
  BY <1>1, <1>2

(* And a success stamp. *)
LEMMA SuccessStampType ==
  ASSUME TypeOK, NEW d \in Dispatchers, NEW n \in Notifications, SuccessStamp(d, n)
  PROVE  /\ recorded' \in [Notifications -> BOOLEAN]
         /\ dispatched' \in [Notifications -> BOOLEAN]
         /\ age' \in [Notifications -> NotFailed..RetryDelay]
         /\ attempts' \in [Notifications -> 0..MaxAttempts]
         /\ leaseToken' \in [Notifications -> Nat]
<1>1. CASE Owns(d, n)
  <2>1. NotFailed \in NotFailed..RetryDelay /\ 0 \in 0..MaxAttempts
    BY DEF NotFailed
  <2>2. /\ dispatched' = [dispatched EXCEPT ![n] = TRUE]
        /\ age' = [age EXCEPT ![n] = NotFailed]
        /\ attempts' = [attempts EXCEPT ![n] = 0]
        /\ leaseToken' = [leaseToken EXCEPT ![n] = NoToken]
        /\ UNCHANGED recorded
    BY <1>1 DEF SuccessStamp
  <2> QED
    BY <2>1, <2>2 DEF TypeOK, NoToken
<1>2. CASE ~Owns(d, n)
  BY <1>2 DEF TypeOK, SuccessStamp, row
<1> QED
  BY <1>1, <1>2

(* And a message on the wire for the counts of messages. *)
LEMMA WireType ==
  ASSUME TypeOK, Bookkeeping, NEW d \in Dispatchers, NEW n \in batch[d], Wire(d, n)
  PROVE  mails' \in [Notifications -> [Attempts -> Nat]]
<1>1. n \in Notifications /\ copy[d][n] \in Attempts
  BY DEF TypeOK, Bookkeeping
<1>2. mails[n] \in [Attempts -> Nat]
  BY <1>1 DEF TypeOK
<1>3. [mails[n] EXCEPT ![copy[d][n]] = @ + 1] \in [Attempts -> Nat]
  BY <1>1, <1>2
<1> QED
  BY <1>1, <1>3 DEF Wire, TypeOK

(* Every step keeps every variable in its type. *)
LEMMA TypeStep == TypeOK /\ Bookkeeping /\ [Next]_vars => TypeOK'
<1> SUFFICES ASSUME TypeOK, Bookkeeping, [Next]_vars PROVE TypeOK'
  OBVIOUS
<1>1. ASSUME NEW n \in Notifications, Record(n) PROVE TypeOK'
  BY <1>1 DEF TypeOK, Record, row, dispatcherVars
<1>2. ASSUME NEW n \in Notifications, RecipientChanges(n) PROVE TypeOK'
  BY <1>2 DEF TypeOK, RecipientChanges, row, dispatcherVars
<1>3. CASE Tick
  BY <1>3 DEF TypeOK, Tick, NotFailed
<1>4. ASSUME NEW d \in Dispatchers, NEW S \in SUBSET Notifications, Lease(d, S)
      PROVE  TypeOK'
  <2>1. \A n \in S : attempts[n] + 1 \in 0..MaxAttempts
    BY <1>4 DEF Lease, Claimable, TypeOK, Bookkeeping
  <2> QED
    BY <1>4, <2>1 DEF TypeOK, Lease, NotFailed
<1>5. ASSUME NEW d \in Dispatchers, LoadRecipients(d) PROVE TypeOK'
  BY <1>5 DEF TypeOK, LoadRecipients, row
<1>6. ASSUME NEW d \in Dispatchers, Undeliverable(d) PROVE TypeOK'
  BY <1>6, FinishType, FailureStampType DEF TypeOK, Undeliverable, row
<1>7. ASSUME NEW d \in Dispatchers, Check(d) PROVE TypeOK'
  BY <1>7 DEF TypeOK, Check, row
<1>8. ASSUME NEW d \in Dispatchers, Renew(d) PROVE TypeOK'
  BY <1>8 DEF TypeOK, Renew, Holding, NotFailed
<1>9. ASSUME NEW d \in Dispatchers, LeaseLost(d) PROVE TypeOK'
  BY <1>9, FinishType DEF TypeOK, LeaseLost, row
<1>10. ASSUME NEW d \in Dispatchers, Invalid(d) PROVE TypeOK'
  BY <1>10, FinishType, FailureStampType DEF TypeOK, Invalid, row
<1>11. ASSUME NEW d \in Dispatchers, Accept(d) PROVE TypeOK'
  BY <1>11, WireType DEF TypeOK, Accept, row, Holding
<1>12. ASSUME NEW d \in Dispatchers, Reject(d) PROVE TypeOK'
  BY <1>12, WireType DEF TypeOK, Reject, row, Holding
<1>13. ASSUME NEW d \in Dispatchers, StampDispatched(d) PROVE TypeOK'
  BY <1>13, FinishType, SuccessStampType DEF TypeOK, StampDispatched
<1>14. ASSUME NEW d \in Dispatchers, StampFailed(d) PROVE TypeOK'
  <2>1. \A n \in batch[d] : n \in Notifications /\ copy[d][n] \in 0..MaxAttempts
    BY DEF TypeOK
  <2> QED
    BY <1>14, <2>1, FinishType, FailureStampType DEF TypeOK, StampFailed
<1>15. ASSUME NEW d \in Dispatchers, Crash(d) PROVE TypeOK'
  BY <1>15 DEF TypeOK, Crash, row, NoToken, Holding
<1>16. CASE UNCHANGED vars
  BY <1>16 DEF TypeOK, vars, row, dispatcherVars
<1> QED
  BY <1>1, <1>2, <1>3, <1>4, <1>5, <1>6, <1>7, <1>8, <1>9, <1>10, <1>11, <1>12,
     <1>13, <1>14, <1>15, <1>16 DEF Next, Walk

-----------------------------------------------------------------------------
(* The inductive invariant is kept by every step. The actions fall into a few *)
(* kinds, one lemma each.                                                     *)

(* A step that moves no count, no token and no message: the environment, the   *)
(* reads, the renewal, and a provider call that puts nothing on the wire.      *)
LEMMA QuietStep ==
  ASSUME IInv, TypeOK',
         UNCHANGED <<dispatched, attempts, leaseToken, nextToken, batch, token, copy, mails>>,
         \A n \in Notifications : age'[n] = NotFailed => age[n] = NotFailed,
         \A d \in Dispatchers : pc'[d] = "idle" <=> pc[d] = "idle",
         \A d \in Dispatchers : pc[d] \in {"accepted", "failed"} => pc'[d] = pc[d]
  PROVE  IInv'
<1> USE DEF IInv
<1>1. Bookkeeping'
  BY DEF Bookkeeping
<1>2. TokensDiffer'
  BY DEF TokensDiffer
<1>3. CountsAgree'
  BY DEF CountsAgree
<1>4. NothingEarly'
  BY DEF NothingEarly, Unsent, IsNext
<1>5. OneMailPerAttempt'
  BY DEF OneMailPerAttempt
<1> QED
  BY <1>1, <1>2, <1>3, <1>4, <1>5

(* A provider call whose message leaves. *)
LEMMA WireStep ==
  ASSUME IInv, TypeOK', NEW d \in Dispatchers, NEW n \in batch[d],
         IsNext(d, n), pc[d] = "sending", Wire(d, n),
         pc' \in {[pc EXCEPT ![d] = "accepted"], [pc EXCEPT ![d] = "failed"]},
         UNCHANGED <<row, nextToken, batch, token, copy>>
  PROVE  IInv'
<1> USE DEF IInv
<1>1. n \in Notifications /\ copy[d][n] \in Attempts
  BY DEF TypeOK, Bookkeeping
<1>2. mails[n][copy[d][n]] = 0
  BY <1>1 DEF NothingEarly, Unsent
<1>3. /\ mails'[n][copy[d][n]] = 1
      /\ \A m \in Notifications, a \in Attempts :
           m # n \/ a # copy[d][n] => mails'[m][a] = mails[m][a]
  BY <1>1, <1>2 DEF Wire, TypeOK
<1>4. Bookkeeping'
  BY DEF Bookkeeping, row, TypeOK
<1>5. TokensDiffer'
  BY DEF TokensDiffer, TypeOK
<1>6. CountsAgree'
  BY DEF CountsAgree, row
<1>7. NothingEarly'
  <2>1. ASSUME NEW e \in Dispatchers, NEW m \in Notifications, Unsent(e, m)'
        PROVE  mails'[m][copy'[e][m]] = 0
    <3>1. copy[e][m] \in Attempts /\ Unsent(e, m)
      BY <2>1 DEF Unsent, Bookkeeping, TypeOK, IsNext
    <3>2. e = d => m # n
      <4>1. pc'[d] \in {"accepted", "failed"}
        BY DEF TypeOK
      <4> QED
        BY <2>1, <4>1 DEF Unsent, IsNext
    <3>3. e # d => m # n \/ copy[e][m] # copy[d][n]
      BY <3>1 DEF Unsent, CountsAgree
    <3>4. m # n \/ copy[e][m] # copy[d][n]
      BY <3>2, <3>3
    <3>5. mails[m][copy[e][m]] = 0 /\ copy'[e][m] = copy[e][m]
      BY <3>1 DEF NothingEarly
    <3> QED
      BY <1>3, <3>1, <3>4, <3>5
  <2>2. ASSUME NEW m \in Notifications, ~dispatched'[m],
               NEW a \in Attempts, a > attempts'[m]
        PROVE  mails'[m][a] = 0
    <3>1. m # n \/ a # copy[d][n]
      BY <1>1, <2>2 DEF CountsAgree, row, Attempts, TypeOK
    <3> QED
      BY <1>3, <2>2, <3>1 DEF NothingEarly, row
  <2> QED
    BY <2>1, <2>2 DEF NothingEarly
<1>8. OneMailPerAttempt'
  BY <1>1, <1>3 DEF OneMailPerAttempt
<1> QED
  BY <1>4, <1>5, <1>6, <1>7, <1>8

(* A row is over for its dispatcher, with its stamp or with none. A stamp ends *)
(* the lease and never takes the count of an open row back.                    *)
LEMMA EndStep ==
  ASSUME IInv, TypeOK', NEW d \in Dispatchers, NEW n \in batch[d], pc[d] # "idle",
         IsNext(d, n), Finish(d, n), UNCHANGED <<nextToken, mails>>,
         \A m \in Notifications :
           \/ /\ dispatched'[m] = dispatched[m] /\ age'[m] = age[m]
              /\ attempts'[m] = attempts[m] /\ leaseToken'[m] = leaseToken[m]
           \/ /\ leaseToken'[m] = NoToken
              /\ \/ dispatched'[m]
                 \/ /\ dispatched'[m] = dispatched[m] /\ age'[m] # NotFailed
                    /\ attempts'[m] >= attempts[m]
  PROVE  IInv'
<1> USE DEF IInv
<1>1. n \in Notifications
  BY DEF TypeOK
<1>2. /\ batch' = [batch EXCEPT ![d] = @ \ {n}]
      /\ copy' = [copy EXCEPT ![d][n] = 0]
      /\ pc' = [pc EXCEPT ![d] = IF batch[d] \ {n} = {} THEN "idle" ELSE "walking"]
      /\ token' = [token EXCEPT ![d] = IF batch[d] \ {n} = {} THEN NoToken ELSE @]
  BY DEF Finish
<1>3. \A e \in Dispatchers : \A m \in batch'[e] :
        m \in batch[e] /\ copy'[e][m] = copy[e][m] /\ token'[e] = token[e]
  BY <1>1, <1>2 DEF TypeOK
<1>4. Bookkeeping'
  <2>1. \A e \in Dispatchers : pc'[e] = "idle" <=> batch'[e] = {}
    BY <1>2 DEF Bookkeeping, TypeOK
  <2>2. \A e \in Dispatchers : pc'[e] # "idle" => token'[e] \in 1..(nextToken' - 1)
    BY <1>2 DEF Bookkeeping, TypeOK
  <2>3. \A m \in Notifications : leaseToken'[m] < nextToken'
    BY DEF Bookkeeping, TypeOK, NoToken
  <2>4. \A m \in Notifications :
          ~dispatched'[m] /\ age'[m] = NotFailed => attempts'[m] = 0
    BY DEF Bookkeeping
  <2>5. \A e \in Dispatchers : \A m \in batch'[e] : copy'[e][m] \in Attempts
    BY <1>3 DEF Bookkeeping
  <2> QED
    BY <2>1, <2>2, <2>3, <2>4, <2>5 DEF Bookkeeping
<1>5. TokensDiffer'
  BY <1>2 DEF TokensDiffer, TypeOK
<1>6. CountsAgree'
  <2>1. ASSUME NEW e \in Dispatchers, NEW m \in batch'[e], ~dispatched'[m]
        PROVE  /\ copy'[e][m] <= attempts'[m]
               /\ leaseToken'[m] = token'[e] => copy'[e][m] = attempts'[m]
    <3>1. /\ m \in Notifications /\ pc[e] # "idle" /\ m \in batch[e]
          /\ token[e] # NoToken
          /\ copy'[e][m] = copy[e][m] /\ token'[e] = token[e]
      BY <1>3 DEF Bookkeeping, TypeOK, NoToken
    <3>2. /\ copy[e][m] \in Attempts /\ attempts[m] \in 0..MaxAttempts
          /\ attempts'[m] \in 0..MaxAttempts
      BY <3>1 DEF Bookkeeping, TypeOK
    <3>3. CASE /\ dispatched'[m] = dispatched[m]
               /\ attempts'[m] = attempts[m] /\ leaseToken'[m] = leaseToken[m]
      BY <2>1, <3>1, <3>3 DEF CountsAgree
    <3>4. CASE /\ leaseToken'[m] = NoToken
               /\ dispatched'[m] = dispatched[m] /\ attempts'[m] >= attempts[m]
      <4>1. copy[e][m] <= attempts[m]
        BY <2>1, <3>1, <3>4 DEF CountsAgree
      <4> QED
        BY <3>1, <3>2, <3>4, <4>1 DEF Attempts
    <3> QED
      BY <2>1, <3>1, <3>3, <3>4
  <2>2. ASSUME NEW e \in Dispatchers, NEW f \in Dispatchers, e # f,
               NEW m \in batch'[e] \cap batch'[f]
        PROVE  copy'[e][m] # copy'[f][m]
    BY <1>3, <2>2 DEF CountsAgree
  <2> QED
    BY <2>1, <2>2 DEF CountsAgree
<1>7. NothingEarly'
  <2>1. ASSUME NEW e \in Dispatchers, NEW m \in Notifications, Unsent(e, m)'
        PROVE  mails'[m][copy'[e][m]] = 0
    <3>1. Unsent(e, m)
      BY <1>1, <1>2, <2>1 DEF Unsent, IsNext, TypeOK
    <3> QED
      BY <1>3, <2>1, <3>1 DEF NothingEarly, Unsent
  <2>2. ASSUME NEW m \in Notifications, ~dispatched'[m],
               NEW a \in Attempts, a > attempts'[m]
        PROVE  mails'[m][a] = 0
    <3>1. a \in Nat /\ attempts[m] \in Nat /\ attempts'[m] \in Nat
      BY DEF TypeOK, Attempts
    <3>2. ~dispatched[m] /\ attempts'[m] >= attempts[m]
      BY <2>2, <3>1
    <3>3. ~dispatched[m] /\ a > attempts[m]
      BY <2>2, <3>1, <3>2
    <3> QED
      BY <3>3 DEF NothingEarly
  <2> QED
    BY <2>1, <2>2 DEF NothingEarly
<1>8. OneMailPerAttempt'
  BY DEF OneMailPerAttempt
<1> QED
  BY <1>4, <1>5, <1>6, <1>7, <1>8

(* A lease: the new count of a row is above every count any copy of it shows.  *)
LEMMA LeaseStep ==
  ASSUME IInv, TypeOK', NEW d \in Dispatchers, NEW S \in SUBSET Notifications, Lease(d, S)
  PROVE  IInv'
<1> USE DEF IInv
<1>1. /\ batch' = [batch EXCEPT ![d] = S]
      /\ token' = [token EXCEPT ![d] = nextToken]
      /\ pc' = [pc EXCEPT ![d] = "leased"]
      /\ nextToken' = nextToken + 1
      /\ dispatched' = dispatched /\ mails' = mails
      /\ S # {} /\ pc[d] = "idle"
      /\ \A n \in Notifications : copy'[d][n] = IF n \in S THEN attempts[n] + 1 ELSE 0
      /\ \A e \in Dispatchers : e # d => copy'[e] = copy[e]
      /\ \A n \in Notifications :
           /\ age'[n] = IF n \in S THEN 0 ELSE age[n]
           /\ attempts'[n] = IF n \in S THEN attempts[n] + 1 ELSE attempts[n]
           /\ leaseToken'[n] = IF n \in S THEN nextToken ELSE leaseToken[n]
  BY DEF Lease, TypeOK
<1>2. \A n \in S : ~dispatched[n]
  BY DEF Lease, Claimable
<1>3. Bookkeeping'
  <2>1. \A e \in Dispatchers : pc'[e] = "idle" <=> batch'[e] = {}
    BY <1>1 DEF Bookkeeping, TypeOK
  <2>2. \A e \in Dispatchers : pc'[e] # "idle" => token'[e] \in 1..(nextToken' - 1)
    BY <1>1 DEF Bookkeeping, TypeOK
  <2>3. \A n \in Notifications : leaseToken'[n] < nextToken'
    BY <1>1 DEF Bookkeeping, TypeOK
  <2>4. \A n \in Notifications :
          ~dispatched'[n] /\ age'[n] = NotFailed => attempts'[n] = 0
    BY <1>1 DEF Bookkeeping, NotFailed
  <2>5. ASSUME NEW e \in Dispatchers, NEW n \in batch'[e]
        PROVE  copy'[e][n] \in Attempts
    <3>1. CASE e = d
      <4>1. n \in S /\ n \in Notifications
        BY <1>1, <3>1 DEF TypeOK
      <4>2. attempts'[n] \in 0..MaxAttempts /\ attempts[n] \in 0..MaxAttempts
        BY <4>1 DEF TypeOK
      <4>3. attempts'[n] = attempts[n] + 1 /\ copy'[e][n] = attempts[n] + 1
        BY <1>1, <3>1, <4>1
      <4> QED
        BY <4>2, <4>3 DEF Attempts
    <3>2. CASE e # d
      BY <1>1, <3>2 DEF Bookkeeping, TypeOK
    <3> QED
      BY <3>1, <3>2
  <2> QED
    BY <2>1, <2>2, <2>3, <2>4, <2>5 DEF Bookkeeping
<1>4. TokensDiffer'
  BY <1>1 DEF TokensDiffer, Bookkeeping, TypeOK
<1>5. ASSUME NEW e \in Dispatchers, e # d, NEW n \in batch[e], n \in S
      PROVE  copy[e][n] <= attempts[n] /\ copy[e][n] \in Nat /\ attempts[n] \in Nat
  BY <1>2, <1>5 DEF CountsAgree, Bookkeeping, TypeOK, Attempts
<1>6. CountsAgree'
  <2>1. ASSUME NEW e \in Dispatchers, NEW n \in batch'[e], ~dispatched'[n]
        PROVE  /\ copy'[e][n] <= attempts'[n]
               /\ leaseToken'[n] = token'[e] => copy'[e][n] = attempts'[n]
    <3>1. n \in Notifications /\ attempts'[n] \in Nat
      BY DEF TypeOK
    <3>2. CASE e = d
      BY <1>1, <3>1, <3>2 DEF TypeOK
    <3>3. CASE e # d
      <4>1. n \in batch[e] /\ copy'[e][n] = copy[e][n] /\ token'[e] = token[e]
        BY <1>1, <3>3 DEF TypeOK
      <4>2. token[e] < nextToken
        <5>1. pc[e] # "idle"
          BY <4>1 DEF Bookkeeping
        <5> QED
          BY <5>1 DEF Bookkeeping, TypeOK
      <4>3. CASE n \in S
        <5>1. /\ attempts'[n] = attempts[n] + 1 /\ leaseToken'[n] = nextToken
              /\ copy[e][n] <= attempts[n] /\ copy[e][n] \in Nat /\ attempts[n] \in Nat
          BY <1>1, <1>5, <3>1, <3>3, <4>1, <4>3
        <5>2. token[e] \in Nat /\ nextToken \in Nat
          BY DEF TypeOK
        <5> QED
          BY <4>1, <4>2, <5>1, <5>2
      <4>4. CASE n \notin S
        <5>1. /\ attempts'[n] = attempts[n] /\ leaseToken'[n] = leaseToken[n]
              /\ ~dispatched[n]
          BY <1>1, <2>1, <3>1, <4>4
        <5> QED
          BY <4>1, <5>1 DEF CountsAgree
      <4> QED
        BY <4>3, <4>4
    <3> QED
      BY <3>2, <3>3
  <2>2. ASSUME NEW e \in Dispatchers, NEW f \in Dispatchers, e # f,
               NEW n \in batch'[e] \cap batch'[f]
        PROVE  copy'[e][n] # copy'[f][n]
    <3>1. n \in Notifications
      BY DEF TypeOK
    <3>2. CASE e = d
      <4>1. n \in S /\ n \in batch[f]
        BY <1>1, <2>2, <3>2 DEF TypeOK
      <4> QED
        BY <1>1, <1>5, <2>2, <3>1, <3>2, <4>1
    <3>3. CASE f = d
      <4>1. n \in S /\ n \in batch[e]
        BY <1>1, <2>2, <3>3 DEF TypeOK
      <4> QED
        BY <1>1, <1>5, <2>2, <3>1, <3>3, <4>1
    <3>4. CASE e # d /\ f # d
      <4>1. /\ batch'[e] = batch[e] /\ batch'[f] = batch[f]
            /\ copy'[e] = copy[e] /\ copy'[f] = copy[f]
        BY <1>1, <3>4 DEF TypeOK
      <4> QED
        BY <2>2, <4>1 DEF CountsAgree
    <3> QED
      BY <3>2, <3>3, <3>4
  <2> QED
    BY <2>1, <2>2 DEF CountsAgree
<1>7. NothingEarly'
  <2>1. ASSUME NEW e \in Dispatchers, NEW n \in Notifications, Unsent(e, n)'
        PROVE  mails'[n][copy'[e][n]] = 0
    <3>1. CASE e = d
      <4>1. n \in S /\ copy'[d][n] = attempts[n] + 1 /\ copy'[d][n] \in Attempts
        BY <1>1, <1>3, <2>1, <3>1 DEF Unsent, Bookkeeping, TypeOK
      <4>2. attempts[n] \in Nat /\ attempts[n] + 1 > attempts[n]
        BY DEF TypeOK
      <4> QED
        BY <1>1, <1>2, <3>1, <4>1, <4>2 DEF NothingEarly
    <3>2. CASE e # d
      <4>1. Unsent(e, n) /\ copy'[e][n] = copy[e][n]
        BY <1>1, <2>1, <3>2 DEF Unsent, IsNext, TypeOK
      <4>2. mails[n][copy[e][n]] = 0
        BY <4>1 DEF NothingEarly
      <4>3. mails' = mails
        BY <1>1
      <4> QED
        BY <4>1, <4>2, <4>3
    <3> QED
      BY <3>1, <3>2
  <2>2. ASSUME NEW n \in Notifications, ~dispatched'[n],
               NEW a \in Attempts, a > attempts'[n]
        PROVE  mails'[n][a] = 0
    <3>1. a \in Nat /\ attempts[n] \in Nat /\ attempts'[n] \in {attempts[n], attempts[n] + 1}
      BY <1>1 DEF TypeOK, Attempts
    <3>2. a > attempts[n] /\ ~dispatched[n]
      BY <1>1, <2>2, <3>1
    <3> QED
      BY <1>1, <3>2 DEF NothingEarly
  <2> QED
    BY <2>1, <2>2 DEF NothingEarly
<1>8. OneMailPerAttempt'
  BY <1>1 DEF OneMailPerAttempt
<1> QED
  BY <1>3, <1>4, <1>6, <1>7, <1>8

(* A lost dispatcher takes its copies with it and leaves the rows alone.       *)
LEMMA CrashStep ==
  ASSUME IInv, TypeOK', NEW d \in Dispatchers, Crash(d)
  PROVE  IInv'
<1> USE DEF IInv
<1>1. /\ batch' = [batch EXCEPT ![d] = {}] /\ pc' = [pc EXCEPT ![d] = "idle"]
      /\ UNCHANGED <<dispatched, age, attempts, leaseToken, nextToken, mails>>
      /\ \A e \in Dispatchers : e # d =>
           copy'[e] = copy[e] /\ token'[e] = token[e] /\ batch'[e] = batch[e]
  BY DEF Crash, row, TypeOK
<1>2. Bookkeeping'
  BY <1>1 DEF Bookkeeping, TypeOK
<1>3. TokensDiffer'
  BY <1>1 DEF TokensDiffer, TypeOK
<1>4. \A e \in Dispatchers : \A n \in batch'[e] : e # d
  BY <1>1 DEF TypeOK
<1>5. CountsAgree'
  BY <1>1, <1>4 DEF CountsAgree, TypeOK
<1>6. NothingEarly'
  <2>1. ASSUME NEW e \in Dispatchers, NEW n \in Notifications, Unsent(e, n)'
        PROVE  mails'[n][copy'[e][n]] = 0
    <3>1. n \in batch'[e]
      BY <2>1 DEF Unsent
    <3>2. e # d
      BY <1>4, <3>1
    <3>3. batch'[e] = batch[e] /\ pc'[e] = pc[e]
      BY <1>1, <3>2 DEF TypeOK
    <3>4. e # d /\ Unsent(e, n)
      BY <2>1, <3>2, <3>3 DEF Unsent, IsNext
    <3> QED
      <4>1. copy'[e][n] = copy[e][n] /\ mails' = mails
        BY <1>1, <3>2
      <4> QED
        BY <3>4, <4>1 DEF NothingEarly
  <2> QED
    BY <1>1, <2>1 DEF NothingEarly
<1>7. OneMailPerAttempt'
  BY <1>1 DEF OneMailPerAttempt
<1> QED
  BY <1>2, <1>3, <1>5, <1>6, <1>7

-----------------------------------------------------------------------------
(* A failure stamp with a count the owner may store is a stamp as EndStep      *)
(* understands it, and so is a success stamp.                                  *)
LEMMA FailureStampEnds ==
  ASSUME IInv, NEW d \in Dispatchers, NEW n \in batch[d], pc[d] # "idle",
         NEW count \in 0..MaxAttempts, count \in {copy[d][n], MaxAttempts},
         FailureStamp(d, n, count)
  PROVE  \A m \in Notifications :
           \/ /\ dispatched'[m] = dispatched[m] /\ age'[m] = age[m]
              /\ attempts'[m] = attempts[m] /\ leaseToken'[m] = leaseToken[m]
           \/ /\ leaseToken'[m] = NoToken
              /\ \/ dispatched'[m]
                 \/ /\ dispatched'[m] = dispatched[m] /\ age'[m] # NotFailed
                    /\ attempts'[m] >= attempts[m]
<1> USE DEF IInv
<1>1. n \in Notifications /\ attempts[n] \in 0..MaxAttempts
  BY DEF TypeOK
<1>2. CASE Owns(d, n)
  <2>1. PICK lag \in 0..ClockSkew : age' = [age EXCEPT ![n] = lag]
    BY <1>2 DEF FailureStamp
  <2>2. lag # NotFailed
    BY DEF NotFailed
  <2>3. /\ attempts' = [attempts EXCEPT ![n] = count]
        /\ leaseToken' = [leaseToken EXCEPT ![n] = NoToken]
        /\ dispatched' = dispatched
    BY <1>2 DEF FailureStamp
  <2>4. count >= attempts[n]
    BY <1>1, <1>2 DEF Owns, CountsAgree
  <2> QED
    BY <1>1, <2>1, <2>2, <2>3, <2>4 DEF TypeOK
<1>3. CASE ~Owns(d, n)
  BY <1>3 DEF FailureStamp, row
<1> QED
  BY <1>2, <1>3

(* A success stamp is one as EndStep understands it, too.                      *)
LEMMA SuccessStampEnds ==
  ASSUME IInv, NEW d \in Dispatchers, NEW n \in batch[d], SuccessStamp(d, n)
  PROVE  \A m \in Notifications :
           \/ /\ dispatched'[m] = dispatched[m] /\ age'[m] = age[m]
              /\ attempts'[m] = attempts[m] /\ leaseToken'[m] = leaseToken[m]
           \/ /\ leaseToken'[m] = NoToken
              /\ \/ dispatched'[m]
                 \/ /\ dispatched'[m] = dispatched[m] /\ age'[m] # NotFailed
                    /\ attempts'[m] >= attempts[m]
<1>1. n \in Notifications
  BY DEF IInv, TypeOK
<1>2. CASE Owns(d, n)
  BY <1>1, <1>2 DEF SuccessStamp, IInv, TypeOK
<1>3. CASE ~Owns(d, n)
  BY <1>3 DEF SuccessStamp, row
<1> QED
  BY <1>2, <1>3

(* Every step of the system keeps the inductive invariant. *)
LEMMA NextIInv == IInv /\ [Next]_vars => IInv'
<1> SUFFICES ASSUME IInv, [Next]_vars PROVE IInv'
  OBVIOUS
<1>0. TypeOK'
  BY TypeStep DEF IInv
<1>1. ASSUME NEW n \in Notifications, Record(n) \/ RecipientChanges(n) PROVE IInv'
  BY <1>0, <1>1, QuietStep DEF Record, RecipientChanges, row, dispatcherVars
<1>2. CASE Tick
  <2>1. \A n \in Notifications : age'[n] = NotFailed => age[n] = NotFailed
    BY <1>2 DEF Tick, NotFailed, IInv, TypeOK
  <2> QED
    BY <1>0, <1>2, <2>1, QuietStep DEF Tick
<1>3. ASSUME NEW d \in Dispatchers, NEW S \in SUBSET Notifications, Lease(d, S)
      PROVE  IInv'
  BY <1>0, <1>3, LeaseStep
<1>4. ASSUME NEW d \in Dispatchers, LoadRecipients(d) \/ Check(d) PROVE IInv'
  BY <1>0, <1>4, QuietStep DEF LoadRecipients, Check, row, IInv, TypeOK
<1>5. ASSUME NEW d \in Dispatchers, Renew(d) PROVE IInv'
  <2>1. \A n \in Notifications : age'[n] = NotFailed => age[n] = NotFailed
    BY <1>5 DEF Renew, NotFailed, IInv, TypeOK
  <2> QED
    BY <1>0, <1>5, <2>1, QuietStep DEF Renew, IInv, TypeOK
<1>6. ASSUME NEW d \in Dispatchers, Undeliverable(d) \/ Invalid(d) PROVE IInv'
  <2>1. PICK n \in batch[d] :
          IsNext(d, n) /\ FailureStamp(d, n, MaxAttempts) /\ Finish(d, n)
    BY <1>6 DEF Undeliverable, Invalid
  <2>2. pc[d] # "idle" /\ UNCHANGED <<nextToken, mails>> /\ MaxAttempts \in 0..MaxAttempts
    BY <1>6 DEF Undeliverable, Invalid
  <2> QED
    BY <1>0, <2>1, <2>2, FailureStampEnds, EndStep
<1>7. ASSUME NEW d \in Dispatchers, LeaseLost(d) PROVE IInv'
  <2>1. PICK n \in batch[d] : IsNext(d, n) /\ Finish(d, n)
    BY <1>7 DEF LeaseLost
  <2>2. pc[d] # "idle" /\ UNCHANGED <<row, nextToken, mails>>
    BY <1>7 DEF LeaseLost
  <2> QED
    BY <1>0, <2>1, <2>2, EndStep DEF row
<1>8. ASSUME NEW d \in Dispatchers, Accept(d) PROVE IInv'
  <2>1. PICK n \in batch[d] : IsNext(d, n) /\ Wire(d, n)
    BY <1>8 DEF Accept
  <2> QED
    BY <1>0, <1>8, <2>1, WireStep DEF Accept
<1>9. ASSUME NEW d \in Dispatchers, Reject(d) PROVE IInv'
  <2>1. PICK n \in batch[d] : IsNext(d, n) /\ (Wire(d, n) \/ UNCHANGED mails)
    BY <1>9 DEF Reject
  <2>2. CASE Wire(d, n)
    BY <1>0, <1>9, <2>1, <2>2, WireStep DEF Reject
  <2>3. CASE UNCHANGED mails
    BY <1>0, <1>9, <2>3, QuietStep DEF Reject, row, IInv, TypeOK
  <2> QED
    BY <2>1, <2>2, <2>3
<1>10. ASSUME NEW d \in Dispatchers, StampDispatched(d) PROVE IInv'
  <2>1. PICK n \in batch[d] : IsNext(d, n) /\ SuccessStamp(d, n) /\ Finish(d, n)
    BY <1>10 DEF StampDispatched
  <2>2. pc[d] # "idle" /\ UNCHANGED <<nextToken, mails>>
    BY <1>10 DEF StampDispatched
  <2> QED
    BY <1>0, <2>1, <2>2, SuccessStampEnds, EndStep
<1>11. ASSUME NEW d \in Dispatchers, StampFailed(d) PROVE IInv'
  <2>1. PICK n \in batch[d] :
          IsNext(d, n) /\ FailureStamp(d, n, copy[d][n]) /\ Finish(d, n)
    BY <1>11 DEF StampFailed
  <2>2. pc[d] # "idle" /\ UNCHANGED <<nextToken, mails>>
    BY <1>11 DEF StampFailed
  <2>3. copy[d][n] \in 0..MaxAttempts
    BY DEF IInv, TypeOK
  <2> QED
    BY <1>0, <2>1, <2>2, <2>3, FailureStampEnds, EndStep
<1>12. ASSUME NEW d \in Dispatchers, Crash(d) PROVE IInv'
  BY <1>0, <1>12, CrashStep
<1>13. CASE UNCHANGED vars
  BY <1>0, <1>13, QuietStep DEF vars, row, dispatcherVars
<1> QED
  BY <1>1, <1>2, <1>3, <1>4, <1>5, <1>6, <1>7, <1>8, <1>9, <1>10, <1>11, <1>12,
     <1>13 DEF Next, Walk

(* The inductive invariant holds throughout every behaviour. *)
THEOREM Invariance == Spec => []IInv
BY InitIInv, NextIInv, PTL DEF Spec

(* The dispatcher's state keeps its types: no attempt is counted beyond        *)
(* NOTIFICATION_EMAIL_MAX_ATTEMPTS by selectForDispatch or by any stamp.       *)
THEOREM TypeCorrectness == Spec => []TypeOK
<1>1. IInv => TypeOK
  BY DEF IInv
<1> QED
  BY <1>1, Invariance, PTL

(* Any number of dispatchers, dying and stalling at any point, put at most one *)
(* message per counted attempt of a row on the wire.                           *)
THEOREM MailPerAttempt == Spec => []OneMailPerAttempt
<1>1. IInv => OneMailPerAttempt
  BY DEF IInv
<1> QED
  BY <1>1, Invariance, PTL

-----------------------------------------------------------------------------
(* While a send is inside the retry floor its dispatcher keeps the row: the    *)
(* stamp the renewal left is too young for anybody to lease the row again.     *)

InTime(d) == pc[d] \in Holding /\ held[d] + ClockSkew < RetryDelay

HoldInv ==
  \A d \in Dispatchers, n \in Notifications :
    InTime(d) /\ IsNext(d, n) => Owns(d, n) /\ age[n] \in 0..held[d]

(* No other dispatcher passes the token test of a row that is being sent.      *)
LEMMA OneOwner ==
  ASSUME IInv, HoldInv, NEW d \in Dispatchers, NEW e \in Dispatchers, d # e,
         NEW n \in Notifications, InTime(e), IsNext(e, n), pc[d] # "idle"
  PROVE  ~Owns(d, n)
BY DEF IInv, HoldInv, InTime, TokensDiffer, Owns, Holding

(* The end of a row, stamped or not, leaves the rows others send alone.        *)
LEMMA EndHold ==
  ASSUME IInv, HoldInv, NEW d \in Dispatchers, NEW n \in batch[d], pc[d] # "idle",
         Finish(d, n),
         \A m \in Notifications : m # n \/ ~Owns(d, n) =>
           /\ dispatched'[m] = dispatched[m] /\ age'[m] = age[m]
           /\ leaseToken'[m] = leaseToken[m]
  PROVE  HoldInv'
<1> SUFFICES ASSUME NEW e \in Dispatchers, NEW m \in Notifications,
                    InTime(e)', IsNext(e, m)'
             PROVE  Owns(e, m)' /\ age'[m] \in 0..held'[e]
  BY DEF HoldInv
<1>1. e # d
  BY DEF Finish, InTime, Holding, IInv, TypeOK
<1>2. /\ pc'[e] = pc[e] /\ batch'[e] = batch[e]
      /\ token'[e] = token[e] /\ held'[e] = held[e]
  BY <1>1 DEF Finish, IInv, TypeOK
<1>3. InTime(e) /\ IsNext(e, m)
  BY <1>2 DEF IsNext, InTime
<1>4. m # n \/ ~Owns(d, n)
  BY <1>1, <1>3, OneOwner
<1>5. Owns(e, m) /\ age[m] \in 0..held[e]
  BY <1>3 DEF HoldInv
<1> QED
  BY <1>2, <1>4, <1>5 DEF Owns

(* Every step keeps HoldInv.                                                   *)
LEMMA NextHold ==
  ASSUME IInv, HoldInv, [Next]_vars
  PROVE  HoldInv'
<1>1. ASSUME NEW n \in Notifications, Record(n) \/ RecipientChanges(n) PROVE HoldInv'
  BY <1>1 DEF Record, RecipientChanges, row, dispatcherVars, HoldInv, InTime, Owns, IsNext
<1>2. CASE Tick
  <2> SUFFICES ASSUME NEW d \in Dispatchers, NEW n \in Notifications,
                      InTime(d)', IsNext(d, n)'
               PROVE  Owns(d, n)' /\ age'[n] \in 0..held'[d]
    BY DEF HoldInv
  <2>1. InTime(d) /\ IsNext(d, n)
    BY <1>2 DEF Tick, IsNext, InTime, IInv, TypeOK
  <2>2. Owns(d, n) /\ age[n] \in 0..held[d] /\ held[d] \in 0..HoldLimit
    BY <2>1 DEF HoldInv, IInv, TypeOK
  <2>3. held'[d] = held[d] + 1 /\ age'[n] \in {age[n], age[n] + 1}
    BY <1>2, <2>1 DEF Tick, InTime
  <2>4. age'[n] \in 0..held'[d]
    BY <2>2, <2>3
  <2> QED
    BY <1>2, <2>2, <2>4 DEF Tick, Owns
<1>3. ASSUME NEW d \in Dispatchers, NEW S \in SUBSET Notifications, Lease(d, S)
      PROVE  HoldInv'
  <2> SUFFICES ASSUME NEW e \in Dispatchers, NEW m \in Notifications,
                      InTime(e)', IsNext(e, m)'
               PROVE  Owns(e, m)' /\ age'[m] \in 0..held'[e]
    BY DEF HoldInv
  <2>1. e # d
    BY <1>3 DEF Lease, InTime, Holding, IInv, TypeOK
  <2>2. /\ pc'[e] = pc[e] /\ batch'[e] = batch[e]
        /\ token'[e] = token[e] /\ held'[e] = held[e]
    BY <1>3, <2>1 DEF Lease, IInv, TypeOK
  <2>3. InTime(e) /\ IsNext(e, m)
    BY <2>2 DEF IsNext, InTime
  <2>4. Owns(e, m) /\ age[m] \in 0..held[e] /\ held[e] + ClockSkew < RetryDelay /\ held[e] \in 0..HoldLimit
    BY <2>3 DEF HoldInv, InTime, IInv, TypeOK
  <2>5. m \notin S
    <3>1. PICK lead \in 0..ClockSkew : \A n \in S : Claimable(n, lead)
      BY <1>3 DEF Lease
    <3>2. ~(age[m] + lead >= RetryDelay) /\ age[m] # NotFailed
      BY <2>4, <3>1 DEF NotFailed
    <3> QED
      BY <3>1, <3>2 DEF Claimable
  <2>6. /\ dispatched'[m] = dispatched[m] /\ age'[m] = age[m]
        /\ leaseToken'[m] = leaseToken[m]
    BY <1>3, <2>5 DEF Lease
  <2> QED
    BY <2>2, <2>4, <2>6 DEF Owns
<1>4. ASSUME NEW d \in Dispatchers, LoadRecipients(d) \/ Check(d) PROVE HoldInv'
  BY <1>4 DEF LoadRecipients, Check, row, HoldInv, InTime, Owns, IsNext, Holding, IInv, TypeOK
<1>5. ASSUME NEW d \in Dispatchers, Renew(d) PROVE HoldInv'
  <2>1. PICK n \in batch[d] : IsNext(d, n) /\ Owns(d, n) /\ age' = [age EXCEPT ![n] = 0]
    BY <1>5 DEF Renew
  <2> SUFFICES ASSUME NEW e \in Dispatchers, NEW m \in Notifications,
                      InTime(e)', IsNext(e, m)'
               PROVE  Owns(e, m)' /\ age'[m] \in 0..held'[e]
    BY DEF HoldInv
  <2>2. UNCHANGED <<dispatched, leaseToken, batch, token, held>> /\ n \in Notifications
    BY <1>5 DEF Renew, IInv, TypeOK
  <2>3. CASE e = d
    <3>1. m = n
      BY <2>1, <2>2, <2>3 DEF IsNext, IInv, TypeOK
    <3> QED
      BY <2>1, <2>2, <2>3, <3>1 DEF Owns, IInv, TypeOK
  <2>4. CASE e # d
    <3>1. InTime(e) /\ IsNext(e, m)
      BY <1>5, <2>2, <2>4 DEF Renew, IsNext, InTime, IInv, TypeOK
    <3>2. m # n
      BY <1>5, <2>1, <2>4, <3>1, OneOwner DEF Renew
    <3> QED
      BY <2>1, <2>2, <3>1, <3>2 DEF HoldInv, Owns, IInv, TypeOK
  <2> QED
    BY <2>3, <2>4
<1>6. ASSUME NEW d \in Dispatchers, Undeliverable(d) \/ Invalid(d) \/ StampFailed(d)
      PROVE  HoldInv'
  <2>1. PICK n \in batch[d] :
          /\ \E count \in {MaxAttempts, copy[d][n]} : FailureStamp(d, n, count)
          /\ Finish(d, n)
    BY <1>6 DEF Undeliverable, Invalid, StampFailed
  <2>2. pc[d] # "idle"
    BY <1>6 DEF Undeliverable, Invalid, StampFailed
  <2>3. \A m \in Notifications : m # n \/ ~Owns(d, n) =>
          /\ dispatched'[m] = dispatched[m] /\ age'[m] = age[m]
          /\ leaseToken'[m] = leaseToken[m]
    BY <2>1 DEF FailureStamp, row, IInv, TypeOK
  <2> QED
    BY <2>1, <2>2, <2>3, EndHold
<1>7. ASSUME NEW d \in Dispatchers, LeaseLost(d) PROVE HoldInv'
  <2>1. PICK n \in batch[d] : IsNext(d, n) /\ Finish(d, n)
    BY <1>7 DEF LeaseLost
  <2>2. pc[d] # "idle" /\ UNCHANGED row
    BY <1>7 DEF LeaseLost
  <2> QED
    BY <2>1, <2>2, EndHold DEF row
<1>8. ASSUME NEW d \in Dispatchers, Accept(d) \/ Reject(d) PROVE HoldInv'
  BY <1>8 DEF Accept, Reject, row, HoldInv, InTime, Owns, IsNext, Holding, IInv, TypeOK
<1>9. ASSUME NEW d \in Dispatchers, StampDispatched(d) PROVE HoldInv'
  <2>1. PICK n \in batch[d] : IsNext(d, n) /\ SuccessStamp(d, n) /\ Finish(d, n)
    BY <1>9 DEF StampDispatched
  <2>2. pc[d] # "idle"
    BY <1>9 DEF StampDispatched
  <2>3. \A m \in Notifications : m # n \/ ~Owns(d, n) =>
          /\ dispatched'[m] = dispatched[m] /\ age'[m] = age[m]
          /\ leaseToken'[m] = leaseToken[m]
    BY <2>1 DEF SuccessStamp, row, IInv, TypeOK
  <2> QED
    BY <2>1, <2>2, <2>3, EndHold
<1>10. ASSUME NEW d \in Dispatchers, Crash(d) PROVE HoldInv'
  BY <1>10 DEF Crash, row, HoldInv, InTime, Owns, IsNext, Holding, IInv, TypeOK
<1>11. CASE UNCHANGED vars
  BY <1>11 DEF vars, row, dispatcherVars, HoldInv, InTime, Owns, IsNext
<1> QED
  BY <1>1, <1>2, <1>3, <1>4, <1>5, <1>6, <1>7, <1>8, <1>9, <1>10, <1>11 DEF Next, Walk

(* Until its provider call and stamp outlast the retry floor less the clock    *)
(* error, the dispatcher that renewed its lease owns the row: a message that   *)
(* was acknowledged in time (SEND_TIMEOUT_MS) is recorded, and no other        *)
(* dispatcher is sending it meanwhile.                                         *)
THEOREM StampLands == Spec => []OutcomeLands
<1>1. Init => HoldInv
  BY DEF Init, HoldInv, InTime, Holding
<1>2. IInv /\ HoldInv /\ [Next]_vars => HoldInv'
  BY NextHold
<1>3. HoldInv => OutcomeLands
  BY DEF HoldInv, InTime, OutcomeLands
<1> QED
  BY <1>1, <1>2, <1>3, Invariance, PTL DEF Spec

-----------------------------------------------------------------------------
(* The ledger is implemented: every step of the dispatchers is a step of        *)
(* EmailOutbox on what the ledger shows of the rows, or moves nothing it shows. *)

(* A row that was never recorded was never leased or settled; and whoever holds *)
(* the provider's acceptance of a message has put it on the wire.               *)
LedgerInv ==
  /\ \A n \in Notifications : ~recorded[n] => ~dispatched[n] /\ leaseToken[n] = NoToken
  /\ \A d \in Dispatchers, n \in Notifications :
       pc[d] = "accepted" /\ IsNext(d, n) => mails[n][copy[d][n]] = 1

(* A row a working dispatcher owns is being tried, at the count of its copy.    *)
LEMMA OwnedIsTried ==
  ASSUME IInv, LedgerInv, NEW d \in Dispatchers, NEW n \in batch[d], pc[d] # "idle", Owns(d, n)
  PROVE  /\ n \in Notifications /\ recorded[n] /\ ~dispatched[n] /\ leaseToken[n] # NoToken
         /\ attempts[n] = copy[d][n] /\ copy[d][n] \in Attempts
         /\ LedgerPhase[n] = "trying"
<1>1. n \in Notifications
  BY DEF IInv, TypeOK
<1>2. token[d] # NoToken
  BY DEF IInv, TypeOK, Bookkeeping, NoToken
<1>3. ~dispatched[n] /\ leaseToken[n] # NoToken
  BY <1>2 DEF Owns
<1>4. recorded[n]
  BY <1>1, <1>3 DEF LedgerInv
<1>5. attempts[n] = copy[d][n] /\ copy[d][n] \in Attempts
  BY <1>3 DEF Owns, IInv, CountsAgree, Bookkeeping
<1> QED
  BY <1>1, <1>3, <1>4, <1>5 DEF LedgerPhase

(* What leaves the rows' flags, counts and messages alone shows nothing.        *)
LEMMA NothingShows ==
  ASSUME UNCHANGED <<recorded, dispatched, leaseToken, attempts, mails>>
  PROVE  UNCHANGED Outbox!vars
BY DEF Outbox!vars, LedgerPhase

(* A stamp of failure ends a try, or lands on nothing.                          *)
LEMMA FailureIsFail ==
  ASSUME IInv, LedgerInv, NEW d \in Dispatchers, NEW n \in batch[d], pc[d] # "idle",
         NEW count \in {copy[d][n], MaxAttempts}, FailureStamp(d, n, count), UNCHANGED mails
  PROVE  Outbox!Fail(n) \/ UNCHANGED Outbox!vars
<1>1. CASE Owns(d, n)
  <2>1. /\ n \in Notifications /\ recorded[n] /\ ~dispatched[n]
        /\ attempts[n] = copy[d][n] /\ LedgerPhase[n] = "trying"
    BY <1>1, OwnedIsTried
  <2>2. /\ attempts' = [attempts EXCEPT ![n] = count]
        /\ leaseToken' = [leaseToken EXCEPT ![n] = NoToken]
        /\ recorded' = recorded /\ dispatched' = dispatched
    BY <1>1 DEF FailureStamp
  <2>3. LedgerPhase' = [LedgerPhase EXCEPT ![n] = "waiting"]
    BY <2>1, <2>2 DEF LedgerPhase, IInv, TypeOK
  <2>4. count \in {attempts[n], MaxAttempts}
    BY <2>1
  <2> QED
    BY <2>1, <2>2, <2>3, <2>4 DEF Outbox!Fail
<1>2. CASE ~Owns(d, n)
  BY <1>2, NothingShows DEF FailureStamp, row
<1> QED
  BY <1>1, <1>2

(* A stamp of success delivers what is on the wire, or lands on nothing.        *)
LEMMA SuccessIsDeliver ==
  ASSUME IInv, LedgerInv, NEW d \in Dispatchers, NEW n \in batch[d], pc[d] = "accepted",
         IsNext(d, n), SuccessStamp(d, n), UNCHANGED mails
  PROVE  Outbox!Deliver(n) \/ UNCHANGED Outbox!vars
<1>1. CASE Owns(d, n)
  <2>1. /\ n \in Notifications /\ recorded[n] /\ ~dispatched[n]
        /\ attempts[n] = copy[d][n] /\ LedgerPhase[n] = "trying"
    BY <1>1, OwnedIsTried
  <2>2. /\ dispatched' = [dispatched EXCEPT ![n] = TRUE]
        /\ attempts' = [attempts EXCEPT ![n] = 0]
        /\ leaseToken' = [leaseToken EXCEPT ![n] = NoToken]
        /\ recorded' = recorded
    BY <1>1 DEF SuccessStamp
  <2>3. LedgerPhase' = [LedgerPhase EXCEPT ![n] = "dispatched"]
    BY <2>1, <2>2 DEF LedgerPhase, IInv, TypeOK
  <2>4. mails[n][attempts[n]] = 1
    BY <2>1 DEF LedgerInv
  <2> QED
    BY <2>1, <2>2, <2>3, <2>4 DEF Outbox!Deliver
<1>2. CASE ~Owns(d, n)
  BY <1>2, NothingShows DEF SuccessStamp, row
<1> QED
  BY <1>1, <1>2

(* A message on the wire is the one message of a try that was begun.            *)
LEMMA WireIsMail ==
  ASSUME IInv, LedgerInv, NEW d \in Dispatchers, NEW n \in batch[d], pc[d] = "sending", Wire(d, n),
         UNCHANGED row
  PROVE  Outbox!Mail(n, copy[d][n]) /\ copy[d][n] \in Outbox!Try
<1>1. n \in Notifications /\ copy[d][n] \in Attempts
  BY DEF IInv, TypeOK, Bookkeeping
<1>2. mails[n][copy[d][n]] = 0
  BY <1>1 DEF IInv, NothingEarly, Unsent
<1>3. mails' = [mails EXCEPT ![n][copy[d][n]] = 1]
  BY <1>1, <1>2 DEF Wire, IInv, TypeOK
<1>4. dispatched[n] \/ copy[d][n] <= attempts[n]
  BY DEF IInv, CountsAgree
<1>5. LedgerPhase' = LedgerPhase /\ attempts' = attempts
  BY DEF LedgerPhase, row
<1>6. LedgerPhase[n] = "dispatched" \/ copy[d][n] <= attempts[n]
  BY <1>1, <1>4 DEF LedgerInv, LedgerPhase
<1> QED
  BY <1>1, <1>2, <1>3, <1>5, <1>6 DEF Outbox!Mail, Outbox!Try, Attempts

(* A lease begins a try of every row it takes.                                  *)
LEMMA LeaseIsBegin ==
  ASSUME IInv, NEW d \in Dispatchers, NEW S \in SUBSET Notifications, Lease(d, S)
  PROVE  Outbox!Begin(S)
<1>1. \A n \in S : recorded[n] /\ ~dispatched[n] /\ attempts[n] < MaxAttempts
  <2> SUFFICES ASSUME NEW n \in S
               PROVE  recorded[n] /\ ~dispatched[n] /\ attempts[n] < MaxAttempts
    OBVIOUS
  <2>1. PICK lead \in 0..ClockSkew : Claimable(n, lead)
    BY DEF Lease
  <2>2. age[n] = NotFailed => attempts[n] = 0
    BY <2>1 DEF Claimable, IInv, Bookkeeping
  <2> QED
    BY <2>1, <2>2 DEF Claimable
<1>2. \A n \in S : LedgerPhase[n] \in {"waiting", "trying"}
  BY <1>1 DEF LedgerPhase
<1>3. nextToken # NoToken
  BY DEF IInv, TypeOK, NoToken
<1>4. /\ leaseToken' = [n \in Notifications |-> IF n \in S THEN nextToken ELSE leaseToken[n]]
      /\ recorded' = recorded /\ dispatched' = dispatched
  BY DEF Lease
<1>5. LedgerPhase' = [n \in Notifications |-> IF n \in S THEN "trying" ELSE LedgerPhase[n]]
  BY <1>1, <1>3, <1>4 DEF LedgerPhase
<1> QED
  BY <1>1, <1>2, <1>5 DEF Outbox!Begin, Lease

(* The record of an event shows a row that waits.                               *)
LEMMA RecordIsRecord ==
  ASSUME IInv, LedgerInv, NEW n \in Notifications, Record(n)
  PROVE  Outbox!Record(n)
<1>1. ~recorded[n] /\ ~dispatched[n] /\ leaseToken[n] = NoToken
  BY DEF Record, LedgerInv
<1>2. LedgerPhase' = [LedgerPhase EXCEPT ![n] = "waiting"]
  BY <1>1 DEF LedgerPhase, Record, IInv, TypeOK
<1> QED
  BY <1>1, <1>2 DEF Outbox!Record, Record, LedgerPhase

(* Every step of the dispatchers is a step of the ledger, or shows nothing.     *)
LEMMA NextIsLedger ==
  ASSUME IInv, LedgerInv, [Next]_vars
  PROVE  [Outbox!Next]_(Outbox!vars)
<1> USE DEF Outbox!Next
<1>1. ASSUME NEW n \in Notifications, Record(n) PROVE Outbox!Next
  BY <1>1, RecordIsRecord
<1>2. ASSUME NEW n \in Notifications, RecipientChanges(n) PROVE UNCHANGED Outbox!vars
  BY <1>2, NothingShows DEF RecipientChanges, row
<1>3. CASE Tick
  BY <1>3, NothingShows DEF Tick
<1>4. ASSUME NEW d \in Dispatchers, NEW S \in SUBSET Notifications, Lease(d, S)
      PROVE  Outbox!Next
  BY <1>4, LeaseIsBegin
<1>5. ASSUME NEW d \in Dispatchers,
             LoadRecipients(d) \/ Check(d) \/ Renew(d) \/ LeaseLost(d) \/ Crash(d)
      PROVE  UNCHANGED Outbox!vars
  BY <1>5, NothingShows DEF LoadRecipients, Check, Renew, LeaseLost, Crash, row
<1>6. ASSUME NEW d \in Dispatchers, Undeliverable(d) \/ Invalid(d)
      PROVE  Outbox!Next \/ UNCHANGED Outbox!vars
  <2>1. PICK n \in batch[d] : FailureStamp(d, n, MaxAttempts)
    BY <1>6 DEF Undeliverable, Invalid
  <2>2. pc[d] # "idle" /\ UNCHANGED mails /\ n \in Notifications
    BY <1>6 DEF Undeliverable, Invalid, IInv, TypeOK
  <2> QED
    BY <2>1, <2>2, FailureIsFail
<1>7. ASSUME NEW d \in Dispatchers, Accept(d) PROVE Outbox!Next
  <2>1. PICK n \in batch[d] : Wire(d, n)
    BY <1>7 DEF Accept
  <2>2. n \in Notifications
    BY DEF IInv, TypeOK
  <2>3. Outbox!Mail(n, copy[d][n]) /\ copy[d][n] \in Outbox!Try
    BY <1>7, <2>1, WireIsMail DEF Accept
  <2> QED
    BY <2>2, <2>3
<1>8. ASSUME NEW d \in Dispatchers, Reject(d)
      PROVE  Outbox!Next \/ UNCHANGED Outbox!vars
  <2>1. PICK n \in batch[d] : Wire(d, n) \/ UNCHANGED mails
    BY <1>8 DEF Reject
  <2>2. n \in Notifications
    BY DEF IInv, TypeOK
  <2>3. CASE Wire(d, n)
    <3>1. Outbox!Mail(n, copy[d][n]) /\ copy[d][n] \in Outbox!Try
      BY <1>8, <2>3, WireIsMail DEF Reject
    <3> QED
      BY <2>2, <3>1
  <2>4. CASE UNCHANGED mails
    BY <1>8, <2>4, NothingShows DEF Reject, row
  <2> QED
    BY <2>1, <2>3, <2>4
<1>9. ASSUME NEW d \in Dispatchers, StampDispatched(d)
      PROVE  Outbox!Next \/ UNCHANGED Outbox!vars
  <2>1. PICK n \in batch[d] : IsNext(d, n) /\ SuccessStamp(d, n)
    BY <1>9 DEF StampDispatched
  <2>2. pc[d] = "accepted" /\ UNCHANGED mails /\ n \in Notifications
    BY <1>9 DEF StampDispatched, IInv, TypeOK
  <2> QED
    BY <2>1, <2>2, SuccessIsDeliver
<1>10. ASSUME NEW d \in Dispatchers, StampFailed(d)
       PROVE  Outbox!Next \/ UNCHANGED Outbox!vars
  <2>1. PICK n \in batch[d] : FailureStamp(d, n, copy[d][n])
    BY <1>10 DEF StampFailed
  <2>2. pc[d] # "idle" /\ UNCHANGED mails /\ n \in Notifications
    BY <1>10 DEF StampFailed, IInv, TypeOK
  <2> QED
    BY <2>1, <2>2, FailureIsFail
<1>11. CASE UNCHANGED vars
  BY <1>11, NothingShows DEF vars, row
<1> QED
  BY <1>1, <1>2, <1>3, <1>4, <1>5, <1>6, <1>7, <1>8, <1>9, <1>10, <1>11 DEF Next, Walk

(* An acceptance is one of a message that has just gone out; whoever else has   *)
(* one keeps it, as two copies of a row never show the same count.              *)
LEMMA AcceptedStays ==
  ASSUME IInv, IInv', [Next]_vars, NEW d \in Dispatchers, NEW n \in Notifications,
         pc[d] = "accepted" /\ IsNext(d, n) => mails[n][copy[d][n]] = 1,
         pc'[d] = "accepted", IsNext(d, n)'
  PROVE  mails'[n][copy'[d][n]] = 1
<1>1. CASE pc[d] = "accepted" /\ batch'[d] = batch[d] /\ copy'[d] = copy[d]
  <2>1. mails[n][copy[d][n]] = 1 /\ n \in batch[d] /\ copy[d][n] \in Attempts
    BY <1>1 DEF IsNext, IInv, Bookkeeping
  <2>2. CASE UNCHANGED mails
    BY <1>1, <2>1, <2>2
  <2>3. ASSUME NEW e \in Dispatchers, NEW m \in batch[e], Wire(e, m)
        PROVE  mails'[n][copy[d][n]] = 1
    <3>1. m \in Notifications /\ copy[e][m] \in Attempts
      BY DEF IInv, TypeOK, Bookkeeping
    <3>2. mails'[n][copy[d][n]] \in {1, 2} /\ mails'[n][copy[d][n]] <= 1
      BY <2>1, <2>3, <3>1 DEF Wire, IInv, TypeOK, OneMailPerAttempt
    <3> QED
      BY <3>2
  <2>4. UNCHANGED mails \/ \E e \in Dispatchers : \E m \in batch[e] : Wire(e, m)
    BY DEF Next, Walk, vars, Record, RecipientChanges, Tick, Lease, LoadRecipients, Undeliverable,
           Check, Renew, LeaseLost, Invalid, Accept, Reject, StampDispatched, StampFailed, Crash
  <2> QED
    BY <1>1, <2>2, <2>3, <2>4
<1>2. CASE Accept(d)
  <2>1. PICK m \in batch[d] : IsNext(d, m) /\ Wire(d, m)
    BY <1>2 DEF Accept
  <2>2. pc[d] = "sending" /\ batch' = batch /\ copy' = copy
    BY <1>2 DEF Accept
  <2>3. m = n /\ copy[d][n] \in Attempts
    BY <2>1, <2>2 DEF IsNext, IInv, TypeOK, Bookkeeping
  <2>4. mails[n][copy[d][n]] = 0
    BY <2>1, <2>2, <2>3 DEF IInv, NothingEarly, Unsent
  <2> QED
    BY <2>1, <2>2, <2>3, <2>4 DEF Wire, IInv, TypeOK
<1>3. Accept(d) \/ (pc[d] = "accepted" /\ batch'[d] = batch[d] /\ copy'[d] = copy[d])
  <2>1. ASSUME NEW e \in Dispatchers, Walk(e) \/ Crash(e) PROVE <1>3!1 \/ <1>3!2
    <3>1. CASE e = d
      BY <2>1, <3>1 DEF Walk, Crash, LoadRecipients, Undeliverable, Check, Renew, LeaseLost, Invalid,
             Reject, StampDispatched, StampFailed, Finish, IInv, TypeOK
    <3>2. CASE e # d
      BY <2>1, <3>2 DEF Walk, Crash, LoadRecipients, Undeliverable, Check, Renew, LeaseLost, Invalid,
             Accept, Reject, StampDispatched, StampFailed, Finish, IInv, TypeOK
    <3> QED
      BY <3>1, <3>2
  <2>2. ASSUME NEW e \in Dispatchers, NEW S \in SUBSET Notifications, Lease(e, S)
        PROVE  <1>3!2
    BY <2>2 DEF Lease, IInv, TypeOK
  <2> QED
    BY <2>1, <2>2 DEF Next, vars, dispatcherVars, Record, RecipientChanges, Tick
<1> QED
  BY <1>1, <1>2, <1>3

(* Every step keeps LedgerInv.                                                  *)
LEMMA NextLedgerInv == IInv /\ IInv' /\ LedgerInv /\ [Next]_vars => LedgerInv'
<1> SUFFICES ASSUME IInv, IInv', LedgerInv, [Next]_vars PROVE LedgerInv'
  OBVIOUS
<1>1. \A n \in Notifications : ~recorded'[n] => ~dispatched'[n] /\ leaseToken'[n] = NoToken
  <2> SUFFICES ASSUME NEW n \in Notifications, ~recorded'[n]
               PROVE  ~dispatched'[n] /\ leaseToken'[n] = NoToken
    OBVIOUS
  <2>0. ~recorded[n] => ~dispatched[n] /\ leaseToken[n] = NoToken
    BY DEF LedgerInv
  <2>1. ASSUME NEW m \in Notifications, Record(m) PROVE ~dispatched'[n] /\ leaseToken'[n] = NoToken
    BY <2>0, <2>1 DEF Record, IInv, TypeOK
  <2>2. ASSUME NEW d \in Dispatchers, NEW S \in SUBSET Notifications, Lease(d, S)
        PROVE  ~dispatched'[n] /\ leaseToken'[n] = NoToken
    BY <2>0, <2>2 DEF Lease, Claimable
  <2>3. ASSUME NEW d \in Dispatchers, NEW m \in batch[d], pc[d] # "idle", NEW count,
               FailureStamp(d, m, count) \/ SuccessStamp(d, m)
        PROVE  ~dispatched'[n] /\ leaseToken'[n] = NoToken
    <3>1. CASE Owns(d, m)
      <4>1. recorded[m] /\ recorded' = recorded /\ n # m
        BY <2>3, <3>1, OwnedIsTried DEF FailureStamp, SuccessStamp
      <4> QED
        BY <2>0, <2>3, <3>1, <4>1 DEF FailureStamp, SuccessStamp, IInv, TypeOK
    <3>2. CASE ~Owns(d, m)
      BY <2>0, <2>3, <3>2 DEF FailureStamp, SuccessStamp, row
    <3> QED
      BY <3>1, <3>2
  <2>4. ASSUME NEW d \in Dispatchers, Walk(d) PROVE ~dispatched'[n] /\ leaseToken'[n] = NoToken
    <3>1. CASE UNCHANGED <<recorded, dispatched, leaseToken>>
      BY <2>0, <3>1
    <3>2. \/ UNCHANGED <<recorded, dispatched, leaseToken>>
          \/ \E m \in batch[d] : \E count \in {copy[d][m], MaxAttempts} :
                pc[d] # "idle" /\ (FailureStamp(d, m, count) \/ SuccessStamp(d, m))
      BY <2>4 DEF Walk, LoadRecipients, Undeliverable, Check, Renew, LeaseLost, Invalid,
                  Accept, Reject, StampDispatched, StampFailed, row
    <3> QED
      BY <2>3, <3>1, <3>2
  <2> QED
    BY <2>0, <2>1, <2>2, <2>4 DEF Next, RecipientChanges, Tick, Crash, vars, row
<1>2. \A d \in Dispatchers, n \in Notifications :
        pc'[d] = "accepted" /\ IsNext(d, n)' => mails'[n][copy'[d][n]] = 1
  BY AcceptedStays DEF LedgerInv
<1> QED
  BY <1>1, <1>2 DEF LedgerInv

(* The leased dispatcher implements the durable ledger EmailOutbox: whatever dies *)
(* or overlaps, a row goes through bounded tries, one try sends at most one mail, *)
(* and only the newest try, once its mail has left, calls a row dispatched.       *)
THEOREM ImplementsLedger == Spec => ImplementsOutbox
<1>1. Init => LedgerInv
  BY DEF Init, LedgerInv, NoToken
<1>2. Init => Outbox!Init
  BY DEF Init, Outbox!Init, Outbox!Try, Attempts, LedgerPhase
<1>3. Spec => []LedgerInv
  BY <1>1, NextLedgerInv, Invariance, PTL DEF Spec
<1> QED
  BY <1>2, <1>3, NextIsLedger, Invariance, PTL DEF Spec, ImplementsOutbox, Outbox!Spec
=============================================================================
