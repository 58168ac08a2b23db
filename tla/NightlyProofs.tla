---------------------------- MODULE NightlyProofs ----------------------------
(***************************************************************************)
(* Proofs about the jobs of the night, for any number of processes that run   *)
(* them, of entries, reminders and events, and any settings. The runner comes  *)
(* first: without a lost connection a job runs once at a time, and a runner    *)
(* that is idle has nothing under way. Of each job there is one invariant,     *)
(* which the steps of the other jobs do not touch; the list of what closes soon *)
(* is exact in every state where the keys of the entries are right.            *)
(***************************************************************************)
EXTENDS Nightly, TLAPS, FiniteSetTheorems, WellFoundedInduction

-----------------------------------------------------------------------------
(* The lock of a job is one runner's, and without a lost connection it is held by  *)
(* whoever runs.                                                              *)
HeldWhileRunning == cuts = 0 => \A r \in Runners : Running(r) => lock = r

RunnerInv == RunnerTypeOK /\ HeldWhileRunning

(* The constants of the runner.                                               *)
LEMMA RunnerFacts ==
  /\ MaxPasses \in Nat /\ MaxPasses > 0 /\ MaxNow \in Nat /\ MaxCuts \in Nat /\ MaxCrashes \in Nat
  /\ None \notin Runners /\ None \notin Nat
BY RunnerAssumption

(* In the evening nobody runs the job.                                                 *)
LEMMA RunnerStarts == RunnerInit => RunnerInv
BY RunnerFacts DEF RunnerInit, RunnerInv, RunnerTypeOK, Times, HeldWhileRunning, Running

(* What the runner does in a step of the night.                                *)
RunnerStep(r) ==
  \/ Acquire(r)
  \/ Running(r) /\ UNCHANGED runnerVars
  \/ pass[r] < MaxPasses /\ Running(r) /\ NextPass(r)
  \/ EndRun(r)
  \/ Die(r)
  \/ LoseConnection(r)

(* The lock is taken by one that starts, and given up by nobody who goes on running.        *)
LEMMA RunnerSafe ==
  ASSUME RunnerInv, NEW r \in Runners, RunnerStep(r)
  PROVE  RunnerInv'
<1>1. /\ now \in Times /\ lock \in Runners \cup {None} /\ pass \in [Runners -> 0..MaxPasses]
      /\ cuts \in 0..MaxCuts /\ crashes \in 0..MaxCrashes
      /\ cuts = 0 => \A q \in Runners : pass[q] > 0 => lock = q
  BY DEF RunnerInv, RunnerTypeOK, HeldWhileRunning, Running
<1>2. CASE Acquire(r)
  BY <1>1, <1>2, RunnerFacts DEF Acquire, Running, RunnerInv, RunnerTypeOK, HeldWhileRunning
<1>3. CASE UNCHANGED runnerVars
  BY <1>1, <1>3 DEF runnerVars, Running, RunnerInv, RunnerTypeOK, HeldWhileRunning
<1>4. CASE pass[r] < MaxPasses /\ Running(r) /\ NextPass(r)
  BY <1>1, <1>4, RunnerFacts DEF NextPass, Running, RunnerInv, RunnerTypeOK, HeldWhileRunning
<1>5. CASE EndRun(r)
  BY <1>1, <1>5, RunnerFacts DEF EndRun, Release, Running, RunnerInv, RunnerTypeOK, HeldWhileRunning
<1>6. CASE Die(r)
  BY <1>1, <1>6, RunnerFacts DEF Die, Release, Running, RunnerInv, RunnerTypeOK, HeldWhileRunning
<1>7. CASE LoseConnection(r)
  BY <1>1, <1>7, RunnerFacts DEF LoseConnection, Running, RunnerInv, RunnerTypeOK, HeldWhileRunning
<1> QED
  BY <1>2, <1>3, <1>4, <1>5, <1>6, <1>7 DEF RunnerStep

(* A step of the night leaves the job what it is, moves the clock forward only, and is     *)
(* one of the runner's, the clock's, or none of its business.                             *)
LEMMA NightMoves ==
  ASSUME RunnerInv, job \in Jobs, [Next]_vars
  PROVE  RunnerInv' /\ job' \in Jobs /\ job' = job /\ now <= now'
<1>1. /\ now \in Times /\ lock \in Runners \cup {None} /\ pass \in [Runners -> 0..MaxPasses]
      /\ cuts \in 0..MaxCuts /\ crashes \in 0..MaxCrashes /\ now \in Nat
  BY RunnerFacts DEF RunnerInv, RunnerTypeOK, Times
<1>2. ASSUME NEW r \in Runners, StartRun(r) \/ Step(r) \/ Again(r) \/ Done(r) \/ Crash(r) \/ Cut(r)
      PROVE  RunnerStep(r) /\ job' = job /\ now' = now
  <2>1. CASE StartRun(r)
    BY <2>1 DEF StartRun, Acquire, Begin, Walking, Reminding, Rolling, Embedding, RunnerStep
  <2>2. CASE Step(r)
    BY <2>2 DEF Step, Work, Walking, Reminding, Rolling, Embedding, RunnerStep, runnerVars
  <2>3. CASE Again(r)
    BY <2>3 DEF Again, NextPass, Begin, Walking, Reminding, Rolling, Embedding, RunnerStep
  <2>4. CASE Done(r)
    BY <2>4 DEF Done, EndRun, Finish, Walking, Reminding, Rolling, Embedding, RunnerStep
  <2>5. CASE Crash(r)
    BY <2>5 DEF Crash, Die, Abort, Walking, Reminding, Rolling, Embedding, RunnerStep
  <2>6. CASE Cut(r)
    BY <2>6 DEF Cut, LoseConnection, Still, RunnerStep
  <2> QED
    BY <1>2, <2>1, <2>2, <2>3, <2>4, <2>5, <2>6
<1>3. ASSUME NEW p \in Passes, CheckOfWrite(p) \/ Day \/ UNCHANGED vars
      PROVE  UNCHANGED runnerVars /\ job' = job
  BY <1>3 DEF CheckOfWrite, Day, vars, Walking, Reminding, Rolling, Embedding
<1>4. Day \/ UNCHANGED vars => UNCHANGED runnerVars /\ job' = job
  BY DEF Day, vars, Walking, Reminding, Rolling, Embedding
<1>5. UNCHANGED runnerVars => RunnerInv' /\ now' = now
  BY DEF runnerVars, RunnerInv, RunnerTypeOK, HeldWhileRunning, Running
<1>6. ASSUME NEW p \in Passes, ProviderFails(p)
      PROVE  RunnerInv' /\ job' = job /\ now' = now
  <2>1. /\ crashes < MaxCrashes /\ crashes' = crashes + 1 /\ UNCHANGED <<now, pass, cuts, lock>> /\ job' = job
    BY <1>6 DEF ProviderFails, Embedding
  <2> QED
    BY <1>1, <2>1, RunnerFacts DEF RunnerInv, RunnerTypeOK, HeldWhileRunning, Running
<1>7. ASSUME ClockTick PROVE RunnerInv' /\ job' = job /\ now <= now'
  <2>1. /\ now < Horizon[job] /\ now' = now + 1 /\ UNCHANGED <<lock, pass, cuts, crashes>> /\ job' = job
    BY <1>7 DEF ClockTick, Tick, Still
  <2>2. Horizon[job] \in 0..MaxNow
    BY NightlyAssumption
  <2>3. now' \in Times
    BY <1>1, <2>1, <2>2, RunnerFacts DEF Times
  <2> QED
    BY <1>1, <2>1, <2>3 DEF RunnerInv, RunnerTypeOK, HeldWhileRunning, Running
<1> QED
  BY <1>1, <1>2, <1>3, <1>4, <1>5, <1>6, <1>7, RunnerSafe DEF Next

-----------------------------------------------------------------------------
(* The reminders. What a generator saw under the membership's lock still holds when it     *)
(* inserts: no other generator is between its look and its row.                           *)
GeneratorHolds(r) ==
  LET g == generator[r]
  IN /\ g.asOf <= g.began /\ g.began <= now
     /\ g.at \in {"locked", "checked"} => membership = r
     /\ g.at = "checked" => \A i \in Rows : reminder[i].created + Cooldown <= g.asOf

RemindersInv ==
  /\ RemindersTypeOK /\ RemindersApart /\ OneInFlight
  /\ \A r \in Runners : GeneratorHolds(r)

(* What a reminder and a generator are.                                                 *)
LEMMA ReminderFacts ==
  ASSUME RunnerInv, RemindersInv
  PROVE  /\ MaxNow \in Nat /\ now \in Times /\ now \in Nat /\ Times \subseteq Nat
         /\ Cooldown \in Nat /\ MaxTries \in Nat /\ MaxReminders \in Nat
         /\ reminder \in Seq(Reminder) /\ Len(reminder) \in Nat /\ Len(reminder) <= MaxReminders
         /\ \A i \in Rows : /\ i \in 1..Len(reminder) /\ reminder[i] \in Reminder
                            /\ reminder[i].created \in Times /\ reminder[i].tries \in 0..MaxTries
                            /\ reminder[i].sent \in Times \cup {None}
         /\ generator \in [Runners -> Generator]
         /\ \A r \in Runners : generator[r].asOf \in Times /\ generator[r].began \in Times
         /\ membership \in Runners \cup {None} /\ None \notin Runners
<1>1. MaxNow \in Nat /\ now \in Times /\ Times \subseteq Nat /\ now \in Nat
  BY RunnerFacts DEF RunnerInv, RunnerTypeOK, Times
<1>2. /\ Cooldown \in Nat /\ MaxTries \in Nat /\ MaxReminders \in Nat /\ None \notin Runners
  BY RemindersAssumption, RunnerFacts
<1>3. /\ reminder \in Seq(Reminder) /\ Len(reminder) <= MaxReminders
      /\ generator \in [Runners -> Generator] /\ membership \in Runners \cup {None}
  BY DEF RemindersInv, RemindersTypeOK
<1>4. \A i \in Rows : /\ i \in 1..Len(reminder) /\ reminder[i] \in Reminder
                      /\ reminder[i].created \in Times /\ reminder[i].tries \in 0..MaxTries
                      /\ reminder[i].sent \in Times \cup {None}
  <2>1. \A i \in Rows : i \in 1..Len(reminder) /\ reminder[i] \in Reminder
    BY <1>3 DEF Rows
  <2>2. \A n \in Reminder : n.created \in Times /\ n.tries \in 0..MaxTries /\ n.sent \in Times \cup {None}
    BY DEF Reminder
  <2> QED
    BY <2>1, <2>2
<1>5. \A r \in Runners : generator[r].asOf \in Times /\ generator[r].began \in Times
  BY <1>3 DEF Generator
<1> QED
  BY <1>1, <1>2, <1>3, <1>4, <1>5

(* Steps of a generator that insert nothing.                                             *)
LEMMA GeneratorSafe ==
  ASSUME RunnerInv, RemindersInv, NEW r \in Runners, NEW g \in Generator,
         UNCHANGED reminder, now' = now, generator' = [generator EXCEPT ![r] = g],
         g.asOf <= g.began, g.began <= now,
         \/ membership' = membership
         \/ membership = None /\ membership' = r
         \/ membership = r /\ membership' = None,
         g.at \in {"locked", "checked"} => membership' = r,
         g.at = "checked" => \A i \in Rows : reminder[i].created + Cooldown <= g.asOf
  PROVE  RemindersInv'
<1>1. /\ generator' \in [Runners -> Generator] /\ generator'[r] = g
      /\ \A q \in Runners \ {r} : generator'[q] = generator[q]
  BY ReminderFacts
<1>2. RemindersTypeOK' /\ RemindersApart' /\ OneInFlight'
  BY <1>1, ReminderFacts DEF RemindersInv, RemindersTypeOK, RemindersApart, OneInFlight, Rows
<1>3. ASSUME NEW q \in Runners PROVE GeneratorHolds(q)'
  <2>1. GeneratorHolds(q)
    BY DEF RemindersInv
  <2>2. CASE q = r
    BY <1>1, <2>2 DEF GeneratorHolds, Rows
  <2>3. CASE q # r
    BY <1>1, <2>1, <2>3, ReminderFacts DEF GeneratorHolds, Rows
  <2> QED
    BY <2>2, <2>3
<1> QED
  BY <1>2, <1>3 DEF RemindersInv

(* A recipient that is not cooling down has had no row within the cooldown.                *)
LEMMA NotCooling ==
  ASSUME RunnerInv, RemindersInv, NEW t \in Times, ~CoolingDown(t)
  PROVE  \A i \in Rows : reminder[i].created + Cooldown <= t
<1>1. ASSUME NEW i \in Rows PROVE reminder[i].created + Cooldown <= t
  <2>1. ~(Activity(reminder[i]) + Cooldown > t)
    BY DEF CoolingDown
  <2>2. /\ reminder[i].created \in Nat /\ reminder[i].sent \in Nat \cup {None} /\ t \in Nat
        /\ Cooldown \in Nat /\ None \notin Nat
    BY ReminderFacts, RunnerFacts
  <2>3. Activity(reminder[i]) \in Nat /\ reminder[i].created <= Activity(reminder[i])
    BY <2>2 DEF Activity
  <2> QED
    BY <2>1, <2>2, <2>3
<1> QED
  BY <1>1

(* The steps of a generator up to its row: it looks for rows in the cooldown only under the *)
(* lock on the membership.                                                               *)
LEMMA GeneratorSteps ==
  ASSUME RunnerInv, RemindersInv, NEW r \in Runners, now' = now,
         \/ BeginReminding(r) \/ EndReminding(r)
         \/ ListRecipients(r) \/ BeginTransaction(r) \/ LockMembership(r) \/ CheckCooldown(r)
  PROVE  RemindersInv'
<1> DEFINE g == generator[r]
           At2(move) == [g EXCEPT !.at = move]
<1>1. /\ g \in Generator /\ g.asOf \in Times /\ g.began \in Times /\ now \in Times /\ Times \subseteq Nat
      /\ membership \in Runners \cup {None} /\ 0 \in Times /\ 0 <= now
  BY ReminderFacts DEF Times
<1>2. /\ g.asOf <= g.began /\ g.began <= now
      /\ g.at \in {"locked", "checked"} => membership = r
      /\ g.at = "checked" => \A i \in Rows : reminder[i].created + Cooldown <= g.asOf
  BY DEF RemindersInv, GeneratorHolds
<1>3. \A move \in {"listing", "listed", "begun", "locked", "checked", "done"} :
        /\ At2(move) \in Generator /\ At2(move).at = move /\ At2(move).asOf = g.asOf
        /\ At2(move).began = g.began
        /\ To(r, move) => generator' = [generator EXCEPT ![r] = At2(move)]
  BY <1>1, ReminderFacts DEF Generator, To
<1>4. CASE BeginReminding(r)
  <2> DEFINE n == [at |-> "listing", asOf |-> now, began |-> now]
  <2>1. n \in Generator /\ n.at = "listing" /\ n.asOf = now /\ n.began = now
    BY <1>1 DEF Generator
  <2>2. generator' = [generator EXCEPT ![r] = n] /\ UNCHANGED <<reminder, membership>> /\ now <= now
    BY <1>1, <1>4 DEF BeginReminding
  <2> HIDE DEF n
  <2> QED
    BY <1>1, <2>2, <2>1, GeneratorSafe
<1>5. CASE EndReminding(r)
  <2> DEFINE n == [at |-> "idle", asOf |-> 0, began |-> 0]
  <2>1. n \in Generator /\ n.at = "idle" /\ n.asOf = 0 /\ n.began = 0
    BY <1>1 DEF Generator
  <2>2. \/ membership' = membership
        \/ membership = r /\ membership' = None
    BY <1>5 DEF EndReminding, Unlock
  <2>3. generator' = [generator EXCEPT ![r] = n] /\ UNCHANGED reminder /\ 0 <= 0
    BY <1>5 DEF EndReminding
  <2> HIDE DEF n
  <2> QED
    BY <1>1, <2>1, <2>2, <2>3, GeneratorSafe
<1> HIDE DEF At2
<1>6. CASE ListRecipients(r)
  <2>1. \E move \in {"listed", "done"} : To(r, move)
    BY <1>6 DEF ListRecipients
  <2> QED
    BY <1>2, <1>3, <1>6, <2>1, GeneratorSafe DEF ListRecipients
<1>7. CASE BeginTransaction(r)
  <2> DEFINE n == [g EXCEPT !.at = "begun", !.began = now]
  <2>1. n \in Generator /\ n.at = "begun" /\ n.asOf = g.asOf /\ n.began = now
    BY <1>1 DEF Generator
  <2>2. generator' = [generator EXCEPT ![r] = n]
    BY <1>7, ReminderFacts DEF BeginTransaction
  <2>3. g.asOf <= now
    <3>1. g.asOf \in Nat /\ g.began \in Nat /\ now \in Nat
      BY <1>1
    <3> HIDE DEF g
    <3> QED
      BY <1>2, <3>1
  <2>4. UNCHANGED <<reminder, membership>> /\ now <= now
    BY <1>1, <1>7 DEF BeginTransaction
  <2> HIDE DEF n
  <2> QED
    BY <1>1, <2>1, <2>2, <2>3, <2>4, GeneratorSafe
<1>8. CASE LockMembership(r)
  <2>1. CASE To(r, "locked")
    BY <1>2, <1>3, <1>8, <2>1, GeneratorSafe DEF LockMembership
  <2>2. CASE To(r, "done") /\ UNCHANGED membership
    BY <1>2, <1>3, <1>8, <2>2, GeneratorSafe DEF LockMembership
  <2> QED
    BY <1>8, <2>1, <2>2 DEF LockMembership
<1>9. CASE CheckCooldown(r)
  <2>1. CASE ~CoolingDown(generator[r].asOf) /\ To(r, "checked") /\ UNCHANGED membership
    <3>1. \A i \in Rows : reminder[i].created + Cooldown <= g.asOf
      BY <1>1, <2>1, NotCooling
    <3>2. membership = r /\ UNCHANGED reminder
      BY <1>2, <1>9 DEF CheckCooldown, At
    <3> QED
      BY <1>2, <1>3, <2>1, <3>1, <3>2, GeneratorSafe
  <2>2. CASE To(r, "done") /\ Unlock(r)
    <3>1. membership' = membership \/ (membership = r /\ membership' = None)
      BY <2>2 DEF Unlock
    <3> QED
      BY <1>2, <1>3, <1>9, <2>2, <3>1, GeneratorSafe DEF CheckCooldown
  <2> QED
    BY <1>9, <2>1, <2>2 DEF CheckCooldown
<1> QED
  BY <1>4, <1>5, <1>6, <1>7, <1>8, <1>9

(* The row that is inserted is no nearer than the cooldown to the last one, and the only   *)
(* one that can be mailed.                                                             *)
LEMMA InsertSafe ==
  ASSUME RunnerInv, RemindersInv, NEW r \in Runners, InsertReminder(r), now' = now
  PROVE  RemindersInv'
<1> DEFINE g == generator[r]
           new == [created |-> g.began, sent |-> None, tries |-> 0]
           n == [g EXCEPT !.at = "done"]
<1>1. /\ g \in Generator /\ g.asOf \in Nat /\ g.began \in Nat /\ g.began \in Times /\ Cooldown \in Nat
      /\ reminder \in Seq(Reminder) /\ Len(reminder) \in Nat /\ membership \in Runners \cup {None}
      /\ generator \in [Runners -> Generator] /\ MaxTries \in Nat /\ None \notin Runners
  BY ReminderFacts
<1>2. /\ g.at = "checked" /\ membership = r /\ g.asOf <= g.began /\ g.began <= now
      /\ \A i \in Rows : reminder[i].created + Cooldown <= g.asOf
  BY DEF InsertReminder, At, RemindersInv, GeneratorHolds
<1>3. n \in Generator /\ n.at = "done" /\ n.asOf = g.asOf /\ n.began = g.began
  BY <1>1 DEF Generator
<1>4. generator' = [generator EXCEPT ![r] = n]
  BY <1>1 DEF InsertReminder, To
<1> HIDE DEF n
<1>5. membership' = None
  BY <1>2 DEF InsertReminder, Unlock
<1>6. /\ generator' \in [Runners -> Generator] /\ generator'[r] = n
      /\ \A q \in Runners \ {r} : generator'[q] = generator[q]
  BY <1>1, <1>3, <1>4
<1>7. ASSUME NEW q \in Runners PROVE GeneratorHolds(q)'
  <2>1. CASE q = r
    BY <1>2, <1>3, <1>6, <2>1 DEF GeneratorHolds
  <2>2. CASE q # r
    <3>1. GeneratorHolds(q) /\ membership # q
      BY <1>2, <2>2 DEF RemindersInv
    <3> QED
      BY <1>6, <2>2, <3>1 DEF GeneratorHolds
  <2> QED
    BY <2>1, <2>2
<1>8. CASE UNCHANGED reminder
  BY <1>5, <1>6, <1>7, <1>8 DEF RemindersInv, RemindersTypeOK, RemindersApart, OneInFlight, Rows
<1>9. CASE MayInsert /\ Len(reminder) < MaxReminders /\ reminder' = Append(reminder, new)
  <2>1. new \in Reminder /\ new.created = g.began
    BY <1>1 DEF Reminder
  <2> HIDE DEF new
  <2>2. /\ reminder' \in Seq(Reminder) /\ Len(reminder') = Len(reminder) + 1
        /\ \A i \in 1..Len(reminder) : reminder'[i] = reminder[i]
        /\ reminder'[Len(reminder) + 1] = new
    BY <1>1, <1>9, <2>1
  <2>3. Len(reminder') <= MaxReminders
    BY <1>1, <1>9, <2>2, ReminderFacts
  <2>4. RemindersApart'
    <3>1. ASSUME NEW i \in 2..Len(reminder')
          PROVE  reminder'[i - 1].created + Cooldown <= reminder'[i].created
      <4>1. CASE i = Len(reminder) + 1
        <5>1. i - 1 \in Rows /\ reminder'[i - 1] = reminder[i - 1] /\ reminder'[i] = new
          BY <1>1, <2>2, <4>1 DEF Rows
        <5>2. reminder[i - 1].created + Cooldown <= g.asOf /\ reminder[i - 1].created \in Nat
          BY <1>2, <5>1, ReminderFacts
        <5> HIDE DEF g
        <5> QED
          BY <1>1, <1>2, <2>1, <5>1, <5>2
      <4>2. CASE i # Len(reminder) + 1
        <5>1. i \in 2..Len(reminder) /\ i - 1 \in 1..Len(reminder) /\ i \in 1..Len(reminder)
          BY <1>1, <2>2, <4>2
        <5> QED
          BY <2>2, <5>1 DEF RemindersInv, RemindersApart
      <4> QED
        BY <4>1, <4>2
    <3> QED
      BY <3>1 DEF RemindersApart
  <2>5. OneInFlight'
    <3>1. \A i \in 1..Len(reminder) : ~InFlight(reminder[i])
      BY <1>9 DEF MayInsert, Rows
    <3>2. \A i \in 1..Len(reminder') : i \in 1..Len(reminder) \/ i = Len(reminder) + 1
      BY <1>1, <2>2
    <3>3. \A i \in 1..Len(reminder') : InFlight(reminder'[i]) => i = Len(reminder) + 1
      BY <2>2, <3>1, <3>2
    <3> QED
      BY <3>3 DEF OneInFlight, Rows, InFlight
  <2> QED
    BY <1>5, <1>6, <1>7, <2>2, <2>3, <2>4, <2>5 DEF RemindersInv, RemindersTypeOK
<1> QED
  BY <1>8, <1>9 DEF InsertReminder

(* Mails are tried and stamped: rows get older, and are done with.                       *)
LEMMA MailSafe ==
  ASSUME RunnerInv, RemindersInv, RemindersEnvironment, now' = now
  PROVE  RemindersInv'
<1>1. PICK i \in Rows : TryMail(i) \/ StampMail(i)
  BY DEF RemindersEnvironment
<1>2. /\ i \in 1..Len(reminder) /\ reminder[i] \in Reminder /\ reminder[i].created \in Times
      /\ reminder[i].tries \in 0..MaxTries /\ reminder[i].sent \in Times \cup {None}
      /\ reminder \in Seq(Reminder) /\ Len(reminder) \in Nat /\ now \in Times /\ MaxTries \in Nat
      /\ now # None
  BY ReminderFacts, RunnerFacts
<1>3. PICK n \in Reminder : /\ reminder' = [reminder EXCEPT ![i] = n]
                            /\ n.created = reminder[i].created
                            /\ InFlight(n) => InFlight(reminder[i])
  <2>1. CASE TryMail(i)
    <3> DEFINE n == [reminder[i] EXCEPT !.tries = @ + 1]
    <3>1. reminder' = [reminder EXCEPT ![i] = n] /\ InFlight(reminder[i])
      BY <1>2, <2>1 DEF TryMail
    <3>2. reminder[i].tries + 1 \in 0..MaxTries
      BY <1>2, <3>1 DEF InFlight
    <3>3. n \in Reminder /\ n.created = reminder[i].created
      BY <1>2, <3>2 DEF Reminder
    <3> HIDE DEF n
    <3> QED
      BY <3>1, <3>3
  <2>2. CASE StampMail(i)
    <3> DEFINE n == [reminder[i] EXCEPT !.sent = now]
    <3>1. reminder' = [reminder EXCEPT ![i] = n]
      BY <1>2, <2>2 DEF StampMail
    <3>2. n \in Reminder /\ n.created = reminder[i].created /\ n.sent = now
      BY <1>2 DEF Reminder
    <3> HIDE DEF n
    <3> QED
      BY <1>2, <3>1, <3>2 DEF InFlight
  <2> QED
    BY <1>1, <2>1, <2>2
<1>4. /\ reminder' \in Seq(Reminder) /\ Len(reminder') = Len(reminder) /\ reminder'[i] = n
      /\ \A j \in 1..Len(reminder) : j # i => reminder'[j] = reminder[j]
  BY <1>2, <1>3
<1>5. \A j \in 1..Len(reminder) : /\ reminder'[j].created = reminder[j].created
                                  /\ InFlight(reminder'[j]) => InFlight(reminder[j])
  BY <1>3, <1>4
<1>6. UNCHANGED <<generator, membership>>
  BY <1>1 DEF TryMail, StampMail
<1>7. RemindersTypeOK'
  BY <1>4, <1>6 DEF RemindersInv, RemindersTypeOK
<1>8. RemindersApart'
  <2>1. \A j \in 2..Len(reminder) : j \in 1..Len(reminder) /\ j - 1 \in 1..Len(reminder)
    BY <1>2
  <2> QED
    BY <1>4, <1>5, <2>1 DEF RemindersInv, RemindersApart
<1>9. OneInFlight'
  <2>1. \A j \in 1..Len(reminder) : InFlight(reminder[j])' <=> InFlight(reminder'[j])
    BY DEF InFlight
  <2> QED
    BY <1>4, <1>5, <2>1 DEF RemindersInv, OneInFlight, Rows
<1>10. \A r \in Runners : GeneratorHolds(r)'
  BY <1>4, <1>5, <1>6 DEF RemindersInv, GeneratorHolds, Rows
<1> QED
  BY <1>7, <1>8, <1>9, <1>10 DEF RemindersInv

(* The reminders in a step of the night.                                                *)
LEMMA RemindersSafe ==
  ASSUME RunnerInv, RemindersInv, job \in Jobs, [Next]_vars
  PROVE  RemindersInv'
<1>1. now \in Nat /\ now' \in Nat /\ now <= now' /\ now \in Times /\ now' \in Times
  BY NightMoves, RunnerFacts DEF RunnerInv, RunnerTypeOK, Times
<1>2. CASE UNCHANGED reminderVars
  <2>1. RemindersTypeOK' /\ RemindersApart' /\ OneInFlight'
    BY <1>2 DEF reminderVars, RemindersInv, RemindersTypeOK, RemindersApart, OneInFlight, Rows
  <2>2. ASSUME NEW r \in Runners PROVE GeneratorHolds(r)'
    <3>1. GeneratorHolds(r) /\ generator[r].began \in Nat
      BY ReminderFacts DEF RemindersInv
    <3> QED
      BY <1>1, <1>2, <3>1 DEF reminderVars, GeneratorHolds, Rows
  <2> QED
    BY <2>1, <2>2 DEF RemindersInv
<1>3. ASSUME NEW r \in Runners, now' = now,
             BeginReminding(r) \/ EndReminding(r) \/ StepReminding(r)
      PROVE  RemindersInv'
  BY <1>3, GeneratorSteps, InsertSafe DEF StepReminding
<1>4. ASSUME NEW r \in Runners, StartRun(r) \/ Step(r) \/ Again(r) \/ Done(r) \/ Crash(r) \/ Cut(r)
      PROVE  /\ now' = now
             /\ \/ BeginReminding(r) \/ EndReminding(r) \/ StepReminding(r)
                \/ UNCHANGED reminderVars
  <2>1. CASE StartRun(r) \/ Again(r)
    BY <2>1 DEF StartRun, Acquire, Again, NextPass, Begin, Walking, Reminding, Rolling, Embedding
  <2>2. CASE Step(r)
    BY <2>2 DEF Step, Work, Walking, Reminding, Rolling, Embedding, runnerVars
  <2>3. CASE Done(r) \/ Crash(r)
    BY <2>3 DEF Done, EndRun, Crash, Die, Finish, Abort, Walking, Reminding, Rolling, Embedding
  <2>4. CASE Cut(r)
    BY <2>4 DEF Cut, LoseConnection, Still
  <2> QED
    BY <1>4, <2>1, <2>2, <2>3, <2>4
<1>5. CASE \E p \in Passes \ Runners : CheckOfWrite(p) \/ ProviderFails(p)
  BY <1>2, <1>5 DEF CheckOfWrite, ProviderFails, Embedding
<1>6. CASE ClockTick
  BY <1>2, <1>6 DEF ClockTick, Still
<1>7. CASE Day
  BY <1>2, <1>7, MailSafe DEF Day, Walking, Reminding, Rolling, Embedding, runnerVars
<1>8. CASE UNCHANGED vars
  BY <1>2, <1>8 DEF vars
<1> QED
  BY <1>2, <1>3, <1>4, <1>5, <1>6, <1>7, <1>8 DEF Next

(* Nobody was reminded of anything yet.                                                 *)
LEMMA NightStarts == Init => RunnerInv /\ job \in Jobs /\ RemindersInv
<1> SUFFICES ASSUME Init PROVE RunnerInv /\ RemindersInv
  BY DEF Init
<1>1. RunnerInv
  BY RunnerStarts DEF Init
<1>2. now = 0 /\ 0 \in Times /\ MaxReminders \in Nat
  BY RunnerFacts, RemindersAssumption DEF Init, RunnerInit, Times
<1>3. reminder = <<>> /\ membership = None /\ Len(reminder) = 0
  BY DEF Init, RemindersInit
<1> DEFINE idle == [at |-> "idle", asOf |-> 0, began |-> 0]
<1>4. idle \in Generator /\ idle.at = "idle" /\ idle.asOf = 0 /\ idle.began = 0
  BY <1>2 DEF Generator
<1>5. generator = [r \in Runners |-> idle]
  BY DEF Init, RemindersInit
<1> HIDE DEF idle
<1>6. RemindersTypeOK
  BY <1>2, <1>3, <1>4, <1>5 DEF RemindersTypeOK
<1>7. RemindersApart /\ OneInFlight
  BY <1>3 DEF RemindersApart, OneInFlight, Rows
<1>8. \A r \in Runners : GeneratorHolds(r)
  <2>1. ASSUME NEW r \in Runners PROVE GeneratorHolds(r)
    <3>1. generator[r] = idle /\ 0 <= 0
      BY <1>5
    <3>2. idle.at # "locked" /\ idle.at # "checked"
      BY <1>4
    <3> QED
      BY <1>2, <1>4, <3>1, <3>2 DEF GeneratorHolds
  <2> QED
    BY <2>1
<1> QED
  BY <1>1, <1>6, <1>7, <1>8 DEF RemindersInv

(* However many generators run beside each other, with lost connections and deaths: rows    *)
(* of a recipient are a cooldown apart and one of them at most can still be mailed (the     *)
(* lock on the membership, and the partial unique index).                                *)
THEOREM RemindedOnce == Spec => []OneReminder
<1> DEFINE Inv == RunnerInv /\ job \in Jobs /\ RemindersInv
<1>1. Init => Inv
  BY NightStarts
<1>2. Inv /\ [Next]_vars => Inv'
  BY NightMoves, RemindersSafe
<1>3. Inv => OneReminder
  BY DEF RunnerInv, RemindersInv, OneReminder
<1> HIDE DEF Inv
<1> QED
  BY <1>1, <1>2, <1>3, PTL DEF Spec

-----------------------------------------------------------------------------
(* The totals. The sweep of a day looks at the days back to its window; whoever sweeps is  *)
(* alone, so until the sweep is through no raw event it looks at is deleted.              *)
HasAll(day) == \A d \in Days : d + WindowDays >= day => OfDay(d) = counted[d]

SweepHolds(r) ==
  LET w == roller[r]
      last == w.today - WindowDays
  IN /\ w.today <= DayOf(now) /\ HasAll(w.today)
     /\ \A day \in rolledOn : day <= w.today
     /\ w.today >= WindowDays /\ w.offset = WindowDays /\ w.count # None => w.count = counted[last]
     /\ w.today >= WindowDays /\ w.offset # WindowDays => daily[last] = counted[last]

RowsBounded ==
  /\ \A d \in Days : daily[d] <= counted[d] /\ OfDay(d) <= counted[d]
  /\ \A r \in Runners :
       LET w == roller[r]
       IN w.count # None => IF w.offset > w.today THEN w.count = 0 ELSE w.count <= counted[Rolled(r)]

(* Rows are exact for settled days, raw events complete for the days to come.             *)
SweepsHold ==
  /\ \A d \in Days : d + WindowDays \in rolledOn => daily[d] = counted[d]
  /\ (\A r \in Runners : ~Running(r)) => HasAll(DayOf(now))
  /\ \A r \in Runners : Running(r) => SweepHolds(r)

RollupInv ==
  /\ RollupTypeOK /\ RowsBounded
  /\ \A day \in rolledOn : job = "analytics-rollup" /\ (cuts = 0 => 2 * day <= now)
  /\ cuts = 0 /\ job = "analytics-rollup" => SweepsHold

(* Two times make a day.                                                                *)
LEMMA DayFacts ==
  /\ \A t \in Nat : DayOf(t) \in Nat /\ 2 * DayOf(t) <= t /\ t <= 2 * DayOf(t) + 1
  /\ \A t \in Times : t \in Nat /\ DayOf(t) \in Days
  /\ \A d \in Days : d \in Nat /\ 2 * d \in Times
  /\ \A t, u \in Nat : t <= u => DayOf(t) <= DayOf(u)
  /\ \A d \in Days, n \in Nat : n <= d => d - n \in Days
  /\ 0 \in Days /\ DayOf(0) = 0
<1>1. \A t \in Nat : DayOf(t) \in Nat /\ 2 * DayOf(t) <= t /\ t <= 2 * DayOf(t) + 1
  BY DEF DayOf
<1>2. MaxNow \in Nat
  BY RunnerFacts
<1>3. ASSUME NEW t \in Times PROVE t \in Nat /\ DayOf(t) \in Days
  <2>1. t \in Nat /\ t <= MaxNow
    BY <1>2 DEF Times
  <2>2. DayOf(t) <= DayOf(MaxNow)
    BY <1>2, <2>1 DEF DayOf
  <2> QED
    BY <1>1, <1>2, <2>1, <2>2 DEF Days
<1>4. ASSUME NEW d \in Days PROVE d \in Nat /\ 2 * d \in Times
  <2>1. d \in Nat /\ d <= DayOf(MaxNow) /\ DayOf(MaxNow) \in Nat /\ 2 * DayOf(MaxNow) <= MaxNow
    BY <1>1, <1>2 DEF Days
  <2> QED
    BY <1>2, <2>1 DEF Times
<1>5. 0 \in Days /\ DayOf(0) = 0
  BY <1>1, <1>2 DEF Days, DayOf
<1>6. \A t, u \in Nat : t <= u => DayOf(t) <= DayOf(u)
  BY DEF DayOf
<1>7. ASSUME NEW d \in Days, NEW n \in Nat, n <= d PROVE d - n \in Days
  <2>1. d \in Nat /\ d <= DayOf(MaxNow) /\ DayOf(MaxNow) \in Nat
    BY <1>1, <1>2 DEF Days
  <2>2. d - n \in Nat /\ d - n <= DayOf(MaxNow)
    BY <1>7, <2>1
  <2> QED
    BY <2>1, <2>2 DEF Days
<1> QED
  BY <1>1, <1>3, <1>4, <1>5, <1>6, <1>7

(* What the totals and a sweep are.                                                     *)
LEMMA RollupFacts ==
  ASSUME RunnerInv, RollupInv
  PROVE  /\ WindowDays \in Nat /\ WindowDays > 0 /\ RetentionDays \in Nat /\ MaxLate \in Nat
         /\ MaxEvents \in Nat /\ now \in Nat /\ now \in Times /\ DayOf(now) \in Nat
         /\ \A t \in Times : events[t] \in Nat
         /\ \A d \in Days : daily[d] \in Nat /\ counted[d] \in Nat /\ counted[d] <= MaxEvents
         /\ \A d \in Days : OfDay(d) \in Nat
         /\ \A r \in Runners : /\ roller[r].today \in Days /\ roller[r].today \in Nat
                               /\ roller[r].offset \in Nat /\ roller[r].offset <= WindowDays
                               /\ roller[r].count # None =>
                                    roller[r].count \in Nat /\ roller[r].count <= MaxEvents
         /\ \A day \in rolledOn : day \in Days /\ day \in Nat
<1>1. /\ WindowDays \in Nat /\ WindowDays > 0 /\ RetentionDays \in Nat /\ MaxLate \in Nat
      /\ MaxEvents \in Nat
  BY RollupAssumption
<1>2. now \in Nat /\ now \in Times /\ DayOf(now) \in Nat
  BY DayFacts DEF RunnerInv, RunnerTypeOK
<1>3. /\ \A t \in Times : events[t] \in Nat
      /\ \A d \in Days : daily[d] \in Nat /\ counted[d] \in Nat /\ counted[d] <= MaxEvents
      /\ \A day \in rolledOn : day \in Days /\ day \in Nat
  <2>1. /\ events \in [Times -> 0..MaxEvents] /\ daily \in [Days -> 0..MaxEvents]
        /\ counted \in [Days -> 0..MaxEvents] /\ rolledOn \subseteq Days
    BY DEF RollupInv, RollupTypeOK
  <2>2. \A n \in 0..MaxEvents : n \in Nat /\ n <= MaxEvents
    BY <1>1
  <2>3. \A d \in Days : d \in Nat
    BY DayFacts
  <2> QED
    BY <2>1, <2>2, <2>3
<1>4. ASSUME NEW d \in Days PROVE OfDay(d) \in Nat
  <2>1. events[2 * d] \in Nat /\ (2 * d + 1 \in Times => events[2 * d + 1] \in Nat)
    BY <1>3, DayFacts
  <2> QED
    BY <2>1 DEF OfDay
<1>5. ASSUME NEW r \in Runners
      PROVE  /\ roller[r].today \in Days /\ roller[r].today \in Nat
             /\ roller[r].offset \in Nat /\ roller[r].offset <= WindowDays
             /\ roller[r].count # None => roller[r].count \in Nat /\ roller[r].count <= MaxEvents
  <2>1. roller[r] \in [today : Days, offset : 0..WindowDays, count : 0..MaxEvents \cup {None}]
    BY DEF RollupInv, RollupTypeOK
  <2>2. /\ roller[r].today \in Days /\ roller[r].offset \in 0..WindowDays
        /\ roller[r].count \in 0..MaxEvents \cup {None}
    BY <2>1
  <2>3. \A d \in Days : d \in Nat
    BY DayFacts
  <2> QED
    BY <1>1, <2>2, <2>3
<1> QED
  BY <1>1, <1>2, <1>3, <1>4, <1>5

(* Steps that are none of the totals' business: the clock's, those of other jobs, a lost   *)
(* connection.                                                                          *)
LEMMA TotalsStay ==
  ASSUME RunnerInv, RollupInv, UNCHANGED rollupVars, job' = job, now' \in Nat, now <= now',
         \/ job # "analytics-rollup"
         \/ cuts' = 0 => cuts = 0 /\ pass' = pass
  PROVE  RollupInv'
<1>1. UNCHANGED <<events, daily, roller, counted, rolledOn>>
  BY DEF rollupVars
<1>2. RollupTypeOK' /\ RowsBounded'
  BY <1>1 DEF RollupInv, RollupTypeOK, RowsBounded, OfDay, Rolled
<1>3. now \in Nat /\ DayOf(now) \in Nat /\ DayOf(now') \in Nat /\ DayOf(now) <= DayOf(now')
  BY RollupFacts, DayFacts
<1>4. \A day \in rolledOn' : job' = "analytics-rollup" /\ (cuts' = 0 => 2 * day <= now')
  BY <1>1, <1>3, RollupFacts DEF RollupInv
<1>5. ASSUME cuts' = 0, job' = "analytics-rollup" PROVE SweepsHold'
  <2>1. cuts = 0 /\ pass' = pass /\ SweepsHold
    BY <1>5 DEF RollupInv
  <2>2. ASSUME NEW day \in Nat, HasAll(day) PROVE HasAll(day)'
    BY <1>1, <2>2 DEF HasAll, OfDay
  <2>3. ASSUME \A r \in Runners : ~Running(r)' PROVE HasAll(DayOf(now))'
    <3>1. HasAll(DayOf(now))
      BY <2>1, <2>3 DEF SweepsHold, Running
    <3>2. ASSUME NEW d \in Days, d + WindowDays >= DayOf(now') PROVE OfDay(d) = counted[d]
      <4>1. d + WindowDays >= DayOf(now)
        BY <1>3, <3>2, RollupFacts, DayFacts
      <4> QED
        BY <3>1, <4>1 DEF HasAll
    <3> QED
      BY <1>1, <3>2 DEF HasAll, OfDay
  <2>4. ASSUME NEW r \in Runners, Running(r)' PROVE SweepHolds(r)'
    <3>1. SweepHolds(r)
      BY <2>1, <2>4 DEF SweepsHold, Running
    <3>2. roller[r].today <= DayOf(now') /\ HasAll(roller[r].today)'
      BY <1>1, <1>3, <3>1, <2>2, RollupFacts DEF SweepHolds
    <3> QED
      BY <1>1, <3>1, <3>2 DEF SweepHolds
  <2> QED
    BY <1>1, <2>1, <2>3, <2>4 DEF SweepsHold
<1> QED
  BY <1>2, <1>4, <1>5 DEF RollupInv

(* A day and its events when one more is stored at a time of it.                         *)
LEMMA StoredOnDay ==
  ASSUME RunnerInv, RollupInv, NEW t \in Times, StoreEvent(t)
  PROVE  /\ RollupTypeOK'
         /\ \A d \in Days : /\ OfDay(d)' = OfDay(d) + (IF d = DayOf(t) THEN 1 ELSE 0)
                            /\ counted'[d] = counted[d] + (IF d = DayOf(t) THEN 1 ELSE 0)
<1> DEFINE day == DayOf(t)
<1>1. /\ t \in Nat /\ day \in Days /\ day \in Nat /\ 2 * day <= t /\ t <= 2 * day + 1
  BY DayFacts
<1>2. /\ events' = [events EXCEPT ![t] = events[t] + 1]
      /\ counted' = [counted EXCEPT ![day] = counted[day] + 1]
      /\ day \in {0, 1} /\ Total < MaxEvents
      /\ UNCHANGED <<daily, roller, rolledOn>>
  BY DEF StoreEvent
<1>3. /\ events \in [Times -> 0..MaxEvents] /\ counted \in [Days -> 0..MaxEvents]
  BY DEF RollupInv, RollupTypeOK
<1>4. /\ \A d \in Days : counted[d] \in Nat /\ OfDay(d) \in Nat
      /\ \A u \in Times : events[u] \in Nat
      /\ MaxEvents \in Nat
  BY RollupFacts
<1> HIDE DEF day
<1>5. ASSUME NEW d \in Days
      PROVE  /\ OfDay(d)' = OfDay(d) + (IF d = day THEN 1 ELSE 0)
             /\ counted'[d] = counted[d] + (IF d = day THEN 1 ELSE 0)
  <2>1. d \in Nat /\ 2 * d \in Times
    BY DayFacts
  <2>2. counted'[d] = counted[d] + (IF d = day THEN 1 ELSE 0)
    BY <1>1, <1>2, <1>3, <1>4
  <2>3. \A u \in Times : events'[u] = IF u = t THEN events[t] + 1 ELSE events[u]
    BY <1>2, <1>3
  <2>4. CASE d = day
    <3>1. t = 2 * d \/ t = 2 * d + 1
      BY <1>1, <2>1, <2>4
    <3>2. CASE t = 2 * d
      <4>1. 2 * d + 1 # t
        BY <1>1, <2>1, <3>2
      <4>2. events'[2 * d] = events[2 * d] + 1 /\ (2 * d + 1 \in Times => events'[2 * d + 1] = events[2 * d + 1])
        BY <2>1, <2>3, <3>2, <4>1
      <4> QED
        BY <1>4, <2>1, <2>2, <2>4, <4>2 DEF OfDay
    <3>3. CASE t = 2 * d + 1
      <4>1. 2 * d # t /\ 2 * d + 1 \in Times
        BY <1>1, <2>1, <3>3
      <4>2. events'[2 * d] = events[2 * d] /\ events'[2 * d + 1] = events[2 * d + 1] + 1
        BY <2>1, <2>3, <3>3, <4>1
      <4> QED
        BY <1>4, <2>1, <2>2, <2>4, <4>1, <4>2 DEF OfDay
    <3> QED
      BY <3>1, <3>2, <3>3
  <2>5. CASE d # day
    <3>1. 2 * d # t /\ 2 * d + 1 # t
      BY <1>1, <2>1, <2>5
    <3>2. events'[2 * d] = events[2 * d] /\ (2 * d + 1 \in Times => events'[2 * d + 1] = events[2 * d + 1])
      BY <2>1, <2>3, <3>1
    <3>3. OfDay(d)' = OfDay(d)
      BY <3>2 DEF OfDay
    <3> QED
      BY <1>4, <2>2, <2>5, <3>3
  <2> QED
    BY <2>4, <2>5
<1>6. counted[day] + 1 <= MaxEvents
  <2>1. counted[day] <= Total
    <3>1. counted[0] \in Nat /\ (1 \in Days => counted[1] \in Nat)
      BY <1>4, DayFacts
    <3> QED
      BY <1>1, <1>2, <3>1 DEF Total
  <2>2. Total \in Nat
    <3>1. counted[0] \in Nat /\ (1 \in Days => counted[1] \in Nat)
      BY <1>4, DayFacts
    <3> QED
      BY <3>1 DEF Total
  <2>3. counted[day] \in Nat
    BY <1>1, <1>4
  <2> QED
    BY <1>2, <1>4, <2>1, <2>2, <2>3
<1>7. events[t] + 1 \in 0..MaxEvents /\ counted[day] + 1 \in 0..MaxEvents
  <2>1. events[t] <= OfDay(day)
    <3>1. t = 2 * day \/ t = 2 * day + 1
      BY <1>1
    <3>2. events[2 * day] \in Nat /\ (2 * day + 1 \in Times => events[2 * day + 1] \in Nat)
      BY <1>1, <1>4, DayFacts
    <3> QED
      BY <3>1, <3>2 DEF OfDay
  <2>2. OfDay(day) <= counted[day]
    BY <1>1 DEF RollupInv, RowsBounded
  <2>3. events[t] \in Nat /\ counted[day] \in Nat /\ OfDay(day) \in Nat
    BY <1>1, <1>4
  <2> QED
    BY <1>4, <1>6, <2>1, <2>2, <2>3
<1>8. RollupTypeOK'
  <2>1. events' \in [Times -> 0..MaxEvents] /\ counted' \in [Days -> 0..MaxEvents]
    BY <1>2, <1>3, <1>7
  <2> QED
    BY <1>2, <2>1 DEF RollupInv, RollupTypeOK
<1> QED
  BY <1>5, <1>8 DEF day

(* No event comes so late that it is of a day no sweep looks at any more.                 *)
LEMMA StoreSafe ==
  ASSUME RunnerInv, RollupInv, MaxLate + 1 < 2 * WindowDays,
         NEW t \in Times, StoreEvent(t), job' = job, UNCHANGED runnerVars
  PROVE  RollupInv'
<1>1. /\ t <= now /\ now - t <= MaxLate
      /\ UNCHANGED <<daily, roller, rolledOn>> /\ UNCHANGED <<now, lock, pass, cuts, crashes>>
  BY DEF StoreEvent, runnerVars
<1> DEFINE on == DayOf(t)
           One(d) == IF d = on THEN 1 ELSE 0
<1>2. /\ RollupTypeOK'
      /\ \A d \in Days : OfDay(d)' = OfDay(d) + One(d) /\ counted'[d] = counted[d] + One(d)
  BY StoredOnDay
<1>3. /\ t \in Nat /\ on \in Nat /\ t <= 2 * on + 1
  BY DayFacts
<1>4. \A d \in Days : d \in Nat /\ daily[d] \in Nat /\ counted[d] \in Nat /\ OfDay(d) \in Nat
                      /\ One(d) \in Nat
  BY RollupFacts, DayFacts
(* The event's day is within the window of every day up to now.                         *)
<1>5. ASSUME NEW d \in Nat, 2 * d + 2 * WindowDays <= now PROVE d # on
  BY <1>1, <1>3, <1>5, RollupFacts
<1> HIDE DEF on
<1>6. RowsBounded'
  <2>1. \A d \in Days : daily[d] <= counted[d] /\ OfDay(d) <= counted[d]
    BY DEF RollupInv, RowsBounded
  <2>2. \A d \in Days : daily'[d] <= counted'[d] /\ OfDay(d)' <= counted'[d]
    BY <1>1, <1>2, <1>4, <2>1
  <2>3. ASSUME NEW r \in Runners, roller[r].count # None
        PROVE  IF roller[r].offset > roller[r].today THEN roller[r].count = 0
               ELSE roller[r].count <= counted'[roller[r].today - roller[r].offset]
    <3> DEFINE w == roller[r]
               last == w.today - w.offset
    <3>1. /\ w.today \in Days /\ w.today \in Nat /\ w.offset \in Nat /\ w.count \in Nat
      BY <2>3, RollupFacts
    <3>2. IF w.offset > w.today THEN w.count = 0 ELSE w.count <= counted[last]
      BY <2>3 DEF RollupInv, RowsBounded, Rolled
    <3> HIDE DEF w
    <3>3. ASSUME ~(w.offset > w.today) PROVE last \in Days
      <4>1. w.offset <= w.today
        BY <3>1, <3>3
      <4> QED
        BY <3>1, <4>1, DayFacts
    <3>4. last \in Days => counted'[last] = counted[last] + One(last) /\ counted[last] \in Nat /\ One(last) \in Nat
      BY <1>2, <1>4
    <3> HIDE DEF last, One
    <3>5. IF w.offset > w.today THEN w.count = 0 ELSE w.count <= counted'[last]
      BY <3>1, <3>2, <3>3, <3>4
    <3> QED
      BY <3>5 DEF w, last
  <2> QED
    BY <1>1, <2>2, <2>3 DEF RowsBounded, Rolled
<1>7. \A day \in rolledOn' : job' = "analytics-rollup" /\ (cuts' = 0 => 2 * day <= now')
  BY <1>1 DEF RollupInv
<1>8. ASSUME cuts' = 0, job' = "analytics-rollup" PROVE SweepsHold'
  <2>1. SweepsHold
    BY <1>1, <1>8 DEF RollupInv
  <2>2. ASSUME NEW day \in Nat, HasAll(day) PROVE HasAll(day)'
    BY <1>2, <2>2 DEF HasAll
  <2>3. ASSUME NEW d \in Days, d + WindowDays \in rolledOn PROVE daily'[d] = counted'[d]
    <3>1. d \in Nat /\ 2 * (d + WindowDays) <= now /\ WindowDays \in Nat
      <4>1. 2 * (d + WindowDays) <= now
        BY <1>1, <1>8, <2>3 DEF RollupInv
      <4> QED
        BY <4>1, DayFacts, RollupFacts
    <3>2. d # on
      BY <1>5, <3>1
    <3> QED
      BY <1>1, <1>2, <1>4, <2>1, <2>3, <3>2 DEF SweepsHold
  <2>4. (\A r \in Runners : ~Running(r))' => HasAll(DayOf(now))'
    <3>1. (\A r \in Runners : ~Running(r))' => HasAll(DayOf(now))
      BY <1>1, <2>1 DEF SweepsHold, Running
    <3>2. DayOf(now') = DayOf(now) /\ DayOf(now) \in Nat
      BY <1>1, RollupFacts
    <3>3. PICK day \in Nat : day = DayOf(now)
      BY <3>2
    <3>4. HasAll(day)' <=> HasAll(DayOf(now))'
      BY <3>2, <3>3 DEF HasAll
    <3> QED
      BY <2>2, <3>1, <3>3, <3>4
  <2>5. ASSUME NEW r \in Runners, Running(r)' PROVE SweepHolds(r)'
    <3> DEFINE w == roller[r]
               last == w.today - WindowDays
    <3>1. SweepHolds(r) /\ w' = w
      BY <1>1, <2>1, <2>5 DEF SweepsHold, Running
    <3>2. PICK day \in Nat : day = w.today
      BY RollupFacts
    <3>3. HasAll(w.today)'
      <4>1. HasAll(day)'
        BY <2>2, <3>1, <3>2 DEF SweepHolds
      <4> QED
        BY <3>1, <3>2, <4>1 DEF HasAll
    <3>4. w.today >= WindowDays => last \in Days /\ counted'[last] = counted[last]
      <4>1. day \in Days /\ day <= DayOf(now) /\ WindowDays \in Nat /\ 2 * DayOf(now) <= now
            /\ now \in Nat /\ DayOf(now) \in Nat
        BY <3>1, <3>2, RollupFacts, DayFacts DEF SweepHolds
      <4>2. ASSUME day >= WindowDays PROVE day - WindowDays \in Days /\ counted'[day - WindowDays] = counted[day - WindowDays]
        <5>1. day - WindowDays \in Days /\ day - WindowDays \in Nat
          BY <4>1, <4>2, RunnerFacts, DayFacts DEF Days
        <5>2. 2 * (day - WindowDays) + 2 * WindowDays <= now
          BY <4>1, <4>2
        <5>3. day - WindowDays # on
          BY <1>5, <5>1, <5>2
        <5> QED
          BY <1>2, <1>4, <5>1, <5>3
      <4> QED
        BY <3>2, <4>2
    <3>5. w.today <= DayOf(now)' /\ \A day2 \in rolledOn' : day2 <= w.today
      BY <1>1, <3>1 DEF SweepHolds
    <3>6. /\ w.today >= WindowDays /\ w.offset = WindowDays /\ w.count # None => w.count = counted'[last]
          /\ w.today >= WindowDays /\ w.offset # WindowDays => daily'[last] = counted'[last]
      BY <1>1, <3>1, <3>4 DEF SweepHolds
    <3> QED
      BY <3>1, <3>3, <3>5, <3>6 DEF SweepHolds
  <2> QED
    BY <1>1, <2>3, <2>4, <2>5 DEF SweepsHold
<1> QED
  BY <1>2, <1>6, <1>7, <1>8 DEF RollupInv

-----------------------------------------------------------------------------
Roller == [today : Days, offset : 0..WindowDays, count : 0..MaxEvents \cup {None}]

(* A sweep that moves, with the count it holds, and leaves the events alone.              *)
LEMMA RollerMoves ==
  ASSUME RunnerInv, RollupInv, NEW r \in Runners, NEW w \in Roller,
         roller' = [roller EXCEPT ![r] = w],
         w.count # None => IF w.offset > w.today THEN w.count = 0
                           ELSE w.count <= counted[w.today - w.offset],
         UNCHANGED counted, \A d \in Days : OfDay(d)' <= OfDay(d) /\ OfDay(d)' \in Nat,
         events' \in [Times -> 0..MaxEvents], daily' \in [Days -> 0..MaxEvents],
         \A d \in Days : daily'[d] <= counted[d],
         rolledOn' \subseteq Days
  PROVE  /\ RollupTypeOK' /\ RowsBounded'
         /\ roller'[r] = w /\ \A q \in Runners \ {r} : roller'[q] = roller[q]
<1>1. roller \in [Runners -> Roller] /\ counted \in [Days -> 0..MaxEvents]
  BY DEF RollupInv, RollupTypeOK, Roller
<1>2. /\ roller' \in [Runners -> Roller] /\ roller'[r] = w
      /\ \A q \in Runners \ {r} : roller'[q] = roller[q]
  BY <1>1
<1>3. RollupTypeOK'
  BY <1>1, <1>2 DEF RollupTypeOK, Roller
<1>4. ASSUME NEW d \in Days PROVE daily'[d] <= counted'[d] /\ OfDay(d)' <= counted'[d]
  <2>1. OfDay(d) <= counted[d] /\ OfDay(d) \in Nat /\ counted[d] \in Nat /\ OfDay(d)' <= OfDay(d)
        /\ OfDay(d)' \in Nat /\ counted'[d] = counted[d] /\ daily'[d] <= counted[d]
    BY RollupFacts DEF RollupInv, RowsBounded
  <2> QED
    BY <2>1
<1>5. ASSUME NEW q \in Runners, roller'[q].count # None
      PROVE  IF roller'[q].offset > roller'[q].today THEN roller'[q].count = 0
             ELSE roller'[q].count <= counted'[roller'[q].today - roller'[q].offset]
  <2>1. CASE q = r
    BY <1>2, <1>5, <2>1
  <2>2. CASE q # r
    BY <1>2, <1>5, <2>2 DEF RollupInv, RowsBounded, Rolled
  <2> QED
    BY <2>1, <2>2
<1>6. RowsBounded'
  BY <1>4, <1>5 DEF RowsBounded, Rolled
<1> QED
  BY <1>2, <1>3, <1>6

(* Without a lost connection nobody else runs beside a runner, or when one starts.         *)
LEMMA Alone ==
  ASSUME RunnerInv, NEW r \in Runners, cuts = 0, Running(r) \/ lock = None
  PROVE  \A q \in Runners \ {r} : ~Running(q)
BY RunnerFacts DEF RunnerInv, HeldWhileRunning

(* A sweep begins with every day of its window still complete.                            *)
LEMMA BeginRollSafe ==
  ASSUME RunnerInv, RollupInv, NEW r \in Runners, Acquire(r), BeginRoll(r),
         job = "analytics-rollup", job' = job
  PROVE  RollupInv'
<1> DEFINE w == [today |-> DayOf(now), offset |-> WindowDays, count |-> None]
<1>1. /\ now \in Nat /\ DayOf(now) \in Nat /\ DayOf(now) \in Days /\ 2 * DayOf(now) <= now
      /\ WindowDays \in Nat
  BY RollupFacts, DayFacts
<1>2. /\ roller' = [roller EXCEPT ![r] = w] /\ UNCHANGED <<events, daily, counted, rolledOn>>
      /\ lock = None /\ ~Running(r) /\ pass' = [pass EXCEPT ![r] = 1] /\ now' = now /\ cuts' = cuts
  BY DEF BeginRoll, FirstOffset, Acquire
<1>3. w \in Roller /\ w.today = DayOf(now) /\ w.offset = WindowDays /\ w.count = None
  BY <1>1 DEF Roller
<1> HIDE DEF w
<1>4. \A d \in Days : OfDay(d)' = OfDay(d) /\ OfDay(d) \in Nat
  BY <1>2, RollupFacts DEF OfDay
<1>5. /\ events \in [Times -> 0..MaxEvents] /\ daily \in [Days -> 0..MaxEvents] /\ rolledOn \subseteq Days
      /\ \A d \in Days : daily[d] <= counted[d]
  BY DEF RollupInv, RollupTypeOK, RowsBounded
<1>6. \A d \in Days : OfDay(d)' <= OfDay(d) /\ OfDay(d)' \in Nat
  BY <1>4
<1>7. /\ RollupTypeOK' /\ RowsBounded' /\ roller'[r] = w
  BY <1>2, <1>3, <1>5, <1>6, RollerMoves
<1>8. \A day \in rolledOn' : job' = "analytics-rollup" /\ (cuts' = 0 => 2 * day <= now')
  BY <1>2 DEF RollupInv
<1>9. ASSUME cuts' = 0 PROVE SweepsHold'
  <2>1. SweepsHold /\ cuts = 0
    BY <1>2, <1>9 DEF RollupInv
  <2>2. \A q \in Runners : ~Running(q)
    BY <1>2, <2>1, Alone
  <2>3. HasAll(DayOf(now))
    BY <2>1, <2>2 DEF SweepsHold
  <2>4. pass \in [Runners -> 0..MaxPasses]
    BY DEF RunnerInv, RunnerTypeOK
  <2>5. \A q \in Runners : Running(q)' <=> q = r
    BY <1>2, <2>2, <2>4 DEF Running
  <2>6. ASSUME NEW day \in rolledOn PROVE day <= DayOf(now)
    <3>1. 2 * day <= now /\ day \in Nat /\ now <= 2 * DayOf(now) + 1
      <4>1. 2 * day <= now
        BY <2>1 DEF RollupInv
      <4> QED
        BY <4>1, RollupFacts, DayFacts
    <3> QED
      BY <1>1, <3>1
  <2>7. HasAll(roller[r].today)'
    BY <1>2, <1>3, <1>4, <1>7, <2>3 DEF HasAll
  <2>8. SweepHolds(r)'
    BY <1>1, <1>2, <1>3, <1>7, <2>6, <2>7 DEF SweepHolds
  <2> QED
    BY <1>2, <2>1, <2>5, <2>8 DEF SweepsHold
<1> QED
  BY <1>7, <1>8, <1>9 DEF RollupInv

(* A sweep that dies leaves the days of its window complete.                              *)
LEMMA EndRollSafe ==
  ASSUME RunnerInv, RollupInv, NEW r \in Runners, Die(r), EndRoll(r),
         job = "analytics-rollup", job' = job
  PROVE  RollupInv'
<1>1. /\ roller' = [roller EXCEPT ![r] = NoRoll] /\ UNCHANGED <<events, daily, counted, rolledOn>>
      /\ Running(r) /\ pass' = [pass EXCEPT ![r] = 0] /\ now' = now /\ cuts' = cuts
  BY DEF EndRoll, Die
<1>2. NoRoll \in Roller /\ NoRoll.count = None
  BY DayFacts, RollupFacts DEF NoRoll, Roller
<1>3. \A d \in Days : OfDay(d)' = OfDay(d) /\ OfDay(d) \in Nat
  BY <1>1, RollupFacts DEF OfDay
<1>4. /\ events \in [Times -> 0..MaxEvents] /\ daily \in [Days -> 0..MaxEvents] /\ rolledOn \subseteq Days
      /\ \A d \in Days : daily[d] <= counted[d]
  BY DEF RollupInv, RollupTypeOK, RowsBounded
<1>5. \A d \in Days : OfDay(d)' <= OfDay(d) /\ OfDay(d)' \in Nat
  BY <1>3
<1>6. RollupTypeOK' /\ RowsBounded'
  BY <1>1, <1>2, <1>4, <1>5, RollerMoves
<1>7. \A day \in rolledOn' : job' = "analytics-rollup" /\ (cuts' = 0 => 2 * day <= now')
  BY <1>1 DEF RollupInv
<1>8. ASSUME cuts' = 0 PROVE SweepsHold'
  <2>1. SweepsHold /\ cuts = 0
    BY <1>1, <1>8 DEF RollupInv
  <2>2. pass \in [Runners -> 0..MaxPasses]
    BY DEF RunnerInv, RunnerTypeOK
  <2>3. \A q \in Runners : ~Running(q)'
    BY <1>1, <2>1, <2>2, Alone DEF Running
  <2>4. HasAll(DayOf(now))
    <3>1. SweepHolds(r)
      BY <1>1, <2>1 DEF SweepsHold
    <3>2. ASSUME NEW d \in Days, d + WindowDays >= DayOf(now) PROVE d + WindowDays >= roller[r].today
      <4>1. roller[r].today <= DayOf(now)
        BY <3>1 DEF SweepHolds
      <4>2. roller[r].today \in Nat /\ d \in Nat /\ WindowDays \in Nat /\ DayOf(now) \in Nat
        BY RollupFacts, DayFacts
      <4> QED
        BY <3>2, <4>1, <4>2
    <3> QED
      BY <3>1, <3>2 DEF SweepHolds, HasAll
  <2>5. HasAll(DayOf(now))'
    BY <1>1, <1>3, <2>4 DEF HasAll
  <2> QED
    BY <1>1, <2>1, <2>3, <2>5 DEF SweepsHold
<1> QED
  BY <1>6, <1>7, <1>8 DEF RollupInv

(* A day that is counted by the last sweep to look at it is counted in full.              *)
LEMMA AggregateSafe ==
  ASSUME RunnerInv, RollupInv, NEW r \in Runners, Running(r), Aggregate(r), UNCHANGED runnerVars,
         job = "analytics-rollup", job' = job
  PROVE  RollupInv'
<1> DEFINE old == roller[r]
           c == IF old.offset > old.today THEN 0 ELSE OfDay(old.today - old.offset)
           w == [old EXCEPT !.count = c]
<1>1. /\ roller' = [roller EXCEPT ![r] = w] /\ UNCHANGED <<events, daily, counted, rolledOn>>
      /\ UNCHANGED <<now, lock, pass, cuts, crashes>>
  BY DEF Aggregate, Rolled, runnerVars
<1>2. /\ old \in Roller /\ old.today \in Days /\ old.today \in Nat /\ old.offset \in Nat
      /\ WindowDays \in Nat /\ MaxEvents \in Nat
  BY RollupFacts DEF RollupInv, RollupTypeOK, Roller
<1> HIDE DEF old
<1>3. /\ c \in 0..MaxEvents
      /\ ~(old.offset > old.today) => c <= counted[old.today - old.offset]
  <2>1. CASE old.offset > old.today
    BY <1>2, <2>1
  <2>2. CASE ~(old.offset > old.today)
    <3>1. old.offset <= old.today
      BY <1>2, <2>2
    <3>2. old.today - old.offset \in Days
      BY <1>2, <3>1, DayFacts
    <3>3. PICK d \in Days : d = old.today - old.offset
      BY <3>2
    <3>4. OfDay(d) <= counted[d] /\ OfDay(d) \in Nat /\ counted[d] \in Nat /\ counted[d] <= MaxEvents
      BY RollupFacts DEF RollupInv, RowsBounded
    <3> QED
      BY <1>2, <2>2, <3>3, <3>4
  <2> QED
    BY <2>1, <2>2
<1>4. /\ w \in Roller /\ w.today = old.today /\ w.offset = old.offset /\ w.count = c
  BY <1>2, <1>3 DEF Roller
<1>5. \A d \in Days : OfDay(d)' = OfDay(d) /\ OfDay(d) \in Nat
  BY <1>1, RollupFacts DEF OfDay
<1>6. /\ events \in [Times -> 0..MaxEvents] /\ daily \in [Days -> 0..MaxEvents] /\ rolledOn \subseteq Days
      /\ \A d \in Days : daily[d] <= counted[d]
  BY DEF RollupInv, RollupTypeOK, RowsBounded
<1>7. \A d \in Days : OfDay(d)' <= OfDay(d) /\ OfDay(d)' \in Nat
  BY <1>5
<1>8. IF w.offset > w.today THEN w.count = 0 ELSE w.count <= counted[w.today - w.offset]
  BY <1>3, <1>4
<1> HIDE DEF w
<1>9. /\ RollupTypeOK' /\ RowsBounded' /\ roller'[r] = w
      /\ \A q \in Runners \ {r} : roller'[q] = roller[q]
  BY <1>1, <1>4, <1>6, <1>7, <1>8, RollerMoves
<1>10. \A day \in rolledOn' : job' = "analytics-rollup" /\ (cuts' = 0 => 2 * day <= now')
  BY <1>1 DEF RollupInv
<1>11. ASSUME cuts' = 0 PROVE SweepsHold'
  <2>1. SweepsHold /\ cuts = 0
    BY <1>1, <1>11 DEF RollupInv
  <2>2. \A q \in Runners : Running(q)' <=> q = r
    BY <1>1, <2>1, Alone DEF Running
  <2>3. SweepHolds(r) /\ old.today <= DayOf(now) /\ HasAll(old.today)
    BY <2>1 DEF SweepsHold, SweepHolds, old
  <2>4. HasAll(roller[r].today)'
    BY <1>1, <1>4, <1>5, <1>9, <2>3 DEF HasAll
  <2>5. old.today >= WindowDays /\ old.offset = WindowDays => c = counted[old.today - WindowDays]
    <3>1. ASSUME old.today >= WindowDays, old.offset = WindowDays
          PROVE  OfDay(old.today - WindowDays) = counted[old.today - WindowDays]
      <4>1. old.today - WindowDays \in Days
        BY <1>2, <3>1, DayFacts
      <4>2. (old.today - WindowDays) + WindowDays >= old.today
        BY <1>2
      <4> QED
        BY <2>3, <4>1, <4>2 DEF HasAll
    <3> QED
      BY <1>2, <3>1
  <2>6. /\ w.today >= WindowDays /\ w.offset = WindowDays => w.count = counted[w.today - WindowDays]
        /\ w.today >= WindowDays /\ w.offset # WindowDays =>
             daily[w.today - WindowDays] = counted[w.today - WindowDays]
    BY <1>4, <2>3, <2>5 DEF SweepHolds, old
  <2>7. \A day \in rolledOn' : day <= w.today
    BY <1>1, <1>4, <2>3 DEF SweepHolds, old
  <2>8. SweepHolds(r)'
    BY <1>1, <1>4, <1>9, <2>3, <2>4, <2>6, <2>7 DEF SweepHolds
  <2> QED
    BY <1>1, <2>1, <2>2, <2>8 DEF SweepsHold
<1> QED
  BY <1>9, <1>10, <1>11 DEF RollupInv

(* A row that is replaced is of a day no sweep has settled, or gets its last number.       *)
LEMMA WriteDaySafe ==
  ASSUME RunnerInv, RollupInv, NEW r \in Runners, Running(r), WriteDay(r), UNCHANGED runnerVars,
         job = "analytics-rollup", job' = job
  PROVE  RollupInv'
<1> DEFINE old == roller[r]
           at == old.today - old.offset
           last == old.today - WindowDays
           w == [old EXCEPT !.offset = old.offset - 1, !.count = None]
<1>1. /\ roller' = [roller EXCEPT ![r] = w] /\ UNCHANGED <<events, counted, rolledOn>>
      /\ UNCHANGED <<now, lock, pass, cuts, crashes>>
      /\ old.offset > 0 /\ old.count # None
      /\ daily' = IF old.count = 0 THEN daily ELSE [daily EXCEPT ![at] = old.count]
  BY DEF WriteDay, Rolled, runnerVars
<1>2. /\ old \in Roller /\ old.today \in Days /\ old.today \in Nat /\ old.offset \in Nat
      /\ old.offset <= WindowDays /\ old.count \in Nat /\ old.count <= MaxEvents
      /\ WindowDays \in Nat /\ WindowDays > 0 /\ MaxEvents \in Nat
  BY <1>1, RollupFacts DEF RollupInv, RollupTypeOK, Roller
<1>3. IF old.offset > old.today THEN old.count = 0 ELSE old.count <= counted[at]
  BY <1>1 DEF RollupInv, RowsBounded, Rolled
<1> HIDE DEF old
<1>4. /\ w \in Roller /\ w.today = old.today /\ w.offset = old.offset - 1 /\ w.count = None
  <2>1. old.offset - 1 \in 0..WindowDays
    BY <1>1, <1>2
  <2> QED
    BY <1>2, <2>1 DEF Roller
<1>5. old.count # 0 => at \in Days
  <2>1. ASSUME old.count # 0 PROVE at \in Days
    <3>1. old.offset <= old.today
      BY <1>2, <1>3, <2>1
    <3> QED
      BY <1>2, <3>1, DayFacts
  <2> QED
    BY <2>1
<1>6. /\ events \in [Times -> 0..MaxEvents] /\ daily \in [Days -> 0..MaxEvents] /\ rolledOn \subseteq Days
      /\ \A d \in Days : daily[d] <= counted[d] /\ daily[d] \in Nat /\ counted[d] \in Nat
  BY RollupFacts DEF RollupInv, RollupTypeOK, RowsBounded
<1> HIDE DEF w, at
<1>7. /\ daily' \in [Days -> 0..MaxEvents]
      /\ \A d \in Days : daily'[d] = IF old.count # 0 /\ d = at THEN old.count ELSE daily[d]
  <2>1. CASE old.count = 0
    BY <1>1, <1>6, <2>1
  <2>2. CASE old.count # 0
    <3>1. old.count \in 0..MaxEvents /\ daily' = [daily EXCEPT ![at] = old.count]
      BY <1>1, <1>2, <2>2
    <3> QED
      BY <1>6, <2>2, <3>1
  <2> QED
    BY <2>1, <2>2
<1>8. \A d \in Days : daily'[d] <= counted[d]
  BY <1>2, <1>3, <1>6, <1>7
<1>9. \A d \in Days : OfDay(d)' = OfDay(d) /\ OfDay(d) \in Nat
  BY <1>1, RollupFacts DEF OfDay
<1>10. \A d \in Days : OfDay(d)' <= OfDay(d) /\ OfDay(d)' \in Nat
  BY <1>9
<1>11. /\ RollupTypeOK' /\ RowsBounded' /\ roller'[r] = w
       /\ \A q \in Runners \ {r} : roller'[q] = roller[q]
  BY <1>1, <1>4, <1>6, <1>7, <1>8, <1>10, RollerMoves
<1>12. \A day \in rolledOn' : job' = "analytics-rollup" /\ (cuts' = 0 => 2 * day <= now')
  BY <1>1 DEF RollupInv
<1>13. ASSUME cuts' = 0 PROVE SweepsHold'
  <2>1. SweepsHold /\ cuts = 0
    BY <1>1, <1>13 DEF RollupInv
  <2>2. \A q \in Runners : Running(q)' <=> q = r
    BY <1>1, <2>1, Alone DEF Running
  <2>3. /\ old.today <= DayOf(now) /\ HasAll(old.today)
        /\ \A day \in rolledOn : day <= old.today
        /\ old.today >= WindowDays /\ old.offset = WindowDays => old.count = counted[last]
        /\ old.today >= WindowDays /\ old.offset # WindowDays => daily[last] = counted[last]
    BY <1>1, <2>1 DEF SweepsHold, SweepHolds, old
  <2>4. HasAll(roller[r].today)'
    BY <1>1, <1>4, <1>9, <1>11, <2>3 DEF HasAll
  <2>5. ASSUME NEW d \in Days, d + WindowDays \in rolledOn PROVE daily'[d] = counted[d]
    <3>1. daily[d] = counted[d] /\ d + WindowDays <= old.today /\ d \in Nat
      BY <2>1, <2>3, <2>5, DayFacts DEF SweepsHold
    <3>2. CASE old.count # 0 /\ d = at
      <4>1. old.offset = WindowDays /\ old.today >= WindowDays /\ d = last
        BY <1>2, <3>1, <3>2 DEF at
      <4> QED
        BY <1>7, <2>3, <3>2, <4>1
    <3> QED
      BY <1>7, <3>1, <3>2
  <2>6. ASSUME old.today >= WindowDays PROVE daily'[last] = counted[last]
    <3>1. last \in Days /\ last \in Nat /\ daily[last] \in Nat /\ counted[last] \in Nat /\ daily[last] <= counted[last]
      BY <1>2, <1>6, <2>6, DayFacts
    <3>2. CASE old.offset = WindowDays
      <4>1. old.count = counted[last] /\ at = last
        BY <2>3, <2>6, <3>2 DEF at
      <4>2. counted[last] = 0 => daily[last] = 0
        BY <3>1
      <4> HIDE DEF last
      <4> QED
        BY <1>7, <3>1, <4>1, <4>2
    <3>3. CASE old.offset # WindowDays
      <4>1. at # last
        BY <1>2, <3>3 DEF at
      <4> QED
        BY <1>7, <2>3, <2>6, <3>1, <3>3, <4>1
    <3> QED
      BY <3>2, <3>3
  <2>7. w.offset # WindowDays
    BY <1>1, <1>2, <1>4
  <2>8. SweepHolds(r)'
    BY <1>1, <1>4, <1>11, <2>3, <2>4, <2>6, <2>7 DEF SweepHolds
  <2> QED
    BY <1>1, <2>1, <2>2, <2>5, <2>8 DEF SweepsHold
<1> QED
  BY <1>11, <1>12, <1>13 DEF RollupInv

(* What is pruned is of no day a coming sweep looks at, and the sweep that is through has   *)
(* settled its first day.                                                               *)
LEMMA PruneSafe ==
  ASSUME RunnerInv, RollupInv, WindowDays < RetentionDays,
         NEW r \in Runners, Running(r), EndRun(r), Prune(r), job = "analytics-rollup", job' = job
  PROVE  RollupInv'
<1> DEFINE today == roller[r].today
<1>1. /\ roller' = [roller EXCEPT ![r] = NoRoll] /\ UNCHANGED <<daily, counted>>
      /\ events' = [t \in Times |-> IF Kept(t) THEN events[t] ELSE 0]
      /\ rolledOn' = rolledOn \cup {today} /\ roller[r].offset = 0
      /\ pass' = [pass EXCEPT ![r] = 0] /\ now' = now /\ cuts' = cuts
  BY DEF Prune, RolledAll, EndRun
<1>2. /\ NoRoll \in Roller /\ NoRoll.count = None /\ today \in Days /\ today \in Nat
      /\ WindowDays \in Nat /\ WindowDays > 0 /\ RetentionDays \in Nat
      /\ now \in Nat /\ DayOf(now) \in Nat /\ 2 * DayOf(now) <= now /\ now <= 2 * DayOf(now) + 1
  <2>1. NoRoll \in Roller /\ NoRoll.count = None
    BY DayFacts, RollupFacts DEF NoRoll, Roller
  <2>2. today \in Days /\ today \in Nat
    BY RollupFacts
  <2> QED
    BY <2>1, <2>2, DayFacts, RollupFacts
<1> HIDE DEF today
<1>3. /\ events \in [Times -> 0..MaxEvents] /\ daily \in [Days -> 0..MaxEvents] /\ rolledOn \subseteq Days
      /\ \A d \in Days : daily[d] <= counted[d]
      /\ MaxEvents \in Nat
  BY RollupFacts DEF RollupInv, RollupTypeOK, RowsBounded
<1>4. /\ events' \in [Times -> 0..MaxEvents]
      /\ \A t \in Times : /\ events[t] \in Nat /\ events'[t] \in Nat /\ events'[t] <= events[t]
                          /\ Kept(t) => events'[t] = events[t]
  <2>1. \A t \in Times : events'[t] = IF Kept(t) THEN events[t] ELSE 0
    BY <1>1
  <2>2. events' \in [Times -> 0..MaxEvents]
    BY <1>1, <1>3
  <2>3. \A t \in Times : events[t] \in Nat /\ 0 <= events[t]
    BY RollupFacts
  <2> QED
    BY <2>1, <2>2, <2>3
<1>5. \A d \in Days : OfDay(d)' <= OfDay(d) /\ OfDay(d)' \in Nat
  <2>1. ASSUME NEW d \in Days PROVE OfDay(d)' <= OfDay(d) /\ OfDay(d)' \in Nat
    <3>1. /\ events[2 * d] \in Nat /\ events'[2 * d] \in Nat /\ events'[2 * d] <= events[2 * d]
          /\ 2 * d + 1 \in Times => /\ events[2 * d + 1] \in Nat /\ events'[2 * d + 1] \in Nat
                                    /\ events'[2 * d + 1] <= events[2 * d + 1]
      BY <1>4, DayFacts
    <3> QED
      BY <3>1 DEF OfDay
  <2> QED
    BY <2>1
<1>6. rolledOn' \subseteq Days
  BY <1>1, <1>2, <1>3
<1>7. RollupTypeOK' /\ RowsBounded'
  BY <1>1, <1>2, <1>3, <1>4, <1>5, <1>6, RollerMoves
<1>8. ASSUME cuts = 0
      PROVE  /\ SweepsHold /\ today <= DayOf(now) /\ HasAll(today)
             /\ \A day \in rolledOn : day <= today
             /\ today >= WindowDays => daily[today - WindowDays] = counted[today - WindowDays]
  BY <1>1, <1>2, <1>8 DEF RollupInv, SweepsHold, SweepHolds, today
<1>9. \A day \in rolledOn' : job' = "analytics-rollup" /\ (cuts' = 0 => 2 * day <= now')
  <2>1. \A day \in rolledOn : cuts = 0 => 2 * day <= now
    BY DEF RollupInv
  <2>2. cuts = 0 => 2 * today <= now
    BY <1>2, <1>8
  <2> QED
    BY <1>1, <2>1, <2>2
<1>10. ASSUME cuts' = 0 PROVE SweepsHold'
  <2>1. cuts = 0
    BY <1>1, <1>10
  <2>2. pass \in [Runners -> 0..MaxPasses]
    BY DEF RunnerInv, RunnerTypeOK
  <2>3. \A q \in Runners : ~Running(q)'
    BY <1>1, <2>1, <2>2, Alone DEF Running
  <2>4. ASSUME NEW d \in Days, d + WindowDays \in rolledOn' PROVE daily'[d] = counted'[d]
    <3>1. CASE d + WindowDays \in rolledOn
      BY <1>1, <1>8, <2>1, <3>1 DEF SweepsHold
    <3>2. CASE d + WindowDays = today
      <4>1. today >= WindowDays /\ d = today - WindowDays
        BY <1>2, <3>2, DayFacts
      <4> QED
        BY <1>1, <1>8, <2>1, <4>1
    <3> QED
      BY <1>1, <2>4, <3>1, <3>2
  <2>5. ASSUME NEW d \in Days, d + WindowDays >= DayOf(now) PROVE OfDay(d)' = counted[d]
    <3>1. d \in Nat /\ 2 * d \in Times
      BY DayFacts
    <3>2. OfDay(d) = counted[d]
      <4>1. d + WindowDays >= today
        BY <1>2, <1>8, <2>1, <2>5, <3>1
      <4> QED
        BY <1>8, <2>1, <4>1 DEF HasAll
    <3>3. Kept(2 * d) /\ Kept(2 * d + 1)
      BY <1>2, <2>5, <3>1 DEF Kept
    <3>4. events'[2 * d] = events[2 * d] /\ (2 * d + 1 \in Times => events'[2 * d + 1] = events[2 * d + 1])
      BY <1>4, <3>1, <3>3
    <3> QED
      BY <3>2, <3>4 DEF OfDay
  <2>6. HasAll(DayOf(now))'
    BY <1>1, <2>5 DEF HasAll
  <2> QED
    BY <2>3, <2>4, <2>6 DEF SweepsHold
<1> QED
  BY <1>7, <1>9, <1>10 DEF RollupInv

(* The totals in a step of the night, when the events that are kept reach further back than  *)
(* a sweep does, and a sweep further than an event can be late.                           *)
LEMMA RollupSafe ==
  ASSUME WindowDays < RetentionDays, MaxLate + 1 < 2 * WindowDays,
         RunnerInv, RollupInv, job \in Jobs, [Next]_vars
  PROVE  RollupInv'
<1>1. now \in Nat /\ now' \in Nat /\ now <= now' /\ job' = job
  BY NightMoves, RunnerFacts DEF RunnerInv, RunnerTypeOK, Times
<1>2. cuts \in Nat /\ pass \in [Runners -> 0..MaxPasses]
  BY RunnerFacts DEF RunnerInv, RunnerTypeOK
<1>3. ASSUME UNCHANGED rollupVars,
             job # "analytics-rollup" \/ (cuts' = 0 => cuts = 0 /\ pass' = pass)
      PROVE  RollupInv'
  BY <1>1, <1>3, TotalsStay
<1>4. ASSUME NEW r \in Runners, StartRun(r) \/ Step(r) \/ Again(r) \/ Done(r) \/ Crash(r) \/ Cut(r)
      PROVE  RollupInv'
  <2>1. CASE StartRun(r)
    <3>1. Acquire(r) /\ Begin(r)
      BY <2>1 DEF StartRun
    <3>2. job # "analytics-rollup" => UNCHANGED rollupVars
      BY <3>1 DEF Begin, Walking, Reminding, Rolling, Embedding
    <3>3. job = "analytics-rollup" => BeginRoll(r)
      BY <3>1 DEF Begin, Walking, Reminding, Rolling, Embedding
    <3> QED
      BY <1>1, <1>3, <3>1, <3>2, <3>3, BeginRollSafe
  <2>2. CASE Step(r)
    <3>1. Running(r) /\ UNCHANGED runnerVars /\ Work(r)
      BY <2>2 DEF Step
    <3>2. job # "analytics-rollup" => UNCHANGED rollupVars
      BY <3>1 DEF Work, Walking, Reminding, Rolling, Embedding
    <3>3. job = "analytics-rollup" => Aggregate(r) \/ WriteDay(r)
      BY <3>1 DEF Work, Walking, Reminding, Rolling, Embedding, StepRoll
    <3> QED
      BY <1>1, <1>3, <3>1, <3>2, <3>3, AggregateSafe, WriteDaySafe
  <2>3. CASE Again(r)
    <3>1. UNCHANGED rollupVars /\ job # "analytics-rollup"
      BY <2>3 DEF Again, GoesOn, Begin, Walking, Reminding, Rolling, Embedding
    <3> QED
      BY <1>3, <3>1
  <2>4. CASE Done(r)
    <3>1. Running(r) /\ EndRun(r) /\ Finish(r)
      BY <2>4 DEF Done
    <3>2. job # "analytics-rollup" => UNCHANGED rollupVars
      BY <3>1 DEF Finish, Walking, Reminding, Rolling, Embedding
    <3>3. job = "analytics-rollup" => Prune(r)
      BY <3>1 DEF Finish, Walking, Reminding, Rolling, Embedding
    <3> QED
      BY <1>1, <1>3, <3>1, <3>2, <3>3, PruneSafe
  <2>5. CASE Crash(r)
    <3>1. Die(r) /\ Abort(r)
      BY <2>5 DEF Crash
    <3>2. job # "analytics-rollup" => UNCHANGED rollupVars
      BY <3>1 DEF Abort, Walking, Reminding, Rolling, Embedding
    <3>3. job = "analytics-rollup" => EndRoll(r)
      BY <3>1 DEF Abort, Walking, Reminding, Rolling, Embedding
    <3> QED
      BY <1>1, <1>3, <3>1, <3>2, <3>3, EndRollSafe
  <2>6. CASE Cut(r)
    <3>1. UNCHANGED rollupVars /\ cuts' = cuts + 1
      BY <2>6 DEF Cut, LoseConnection, Still
    <3>2. cuts' # 0
      BY <1>2, <3>1
    <3> QED
      BY <1>3, <3>1, <3>2
  <2> QED
    BY <1>4, <2>1, <2>2, <2>3, <2>4, <2>5, <2>6
<1>5. CASE ClockTick \/ UNCHANGED vars
  <2>1. UNCHANGED rollupVars /\ cuts' = cuts /\ pass' = pass
    BY <1>5 DEF ClockTick, Tick, Still, vars, runnerVars
  <2> QED
    BY <1>3, <2>1
<1>6. CASE Day
  <2>1. /\ UNCHANGED runnerVars
        /\ (UNCHANGED rollupVars /\ job # "analytics-rollup") \/ \E t \in Times : StoreEvent(t)
    BY <1>6 DEF Day, Walking, Reminding, Rolling, Embedding
  <2> QED
    BY <1>1, <1>3, <2>1, StoreSafe
<1>7. ASSUME NEW p \in Passes, CheckOfWrite(p) \/ ProviderFails(p)
      PROVE  RollupInv'
  <2>1. UNCHANGED rollupVars /\ job # "analytics-rollup"
    BY <1>7 DEF CheckOfWrite, ProviderFails, Embedding
  <2> QED
    BY <1>3, <2>1
<1> QED
  BY <1>4, <1>5, <1>6, <1>7 DEF Next

(* In the evening nothing is stored, written or settled.                                 *)
LEMMA RollupStarts == Init => RollupInv
<1> SUFFICES ASSUME Init PROVE RollupInv
  OBVIOUS
<1>1. /\ events = [t \in Times |-> 0] /\ daily = [d \in Days |-> 0]
      /\ roller = [r \in Runners |-> NoRoll] /\ counted = [d \in Days |-> 0] /\ rolledOn = {}
      /\ pass = [r \in Runners |-> 0]
  BY DEF Init, RollupInit, RunnerInit
<1>2. MaxEvents \in Nat /\ WindowDays \in Nat /\ NoRoll \in Roller /\ NoRoll.count = None
  BY RollupAssumption, DayFacts DEF NoRoll, Roller
<1>3. RollupTypeOK
  BY <1>1, <1>2 DEF RollupTypeOK, Roller
<1>4. \A d \in Days : OfDay(d) = 0 /\ counted[d] = 0 /\ daily[d] = 0
  BY <1>1, DayFacts DEF OfDay
<1>5. RowsBounded
  BY <1>1, <1>2, <1>4 DEF RowsBounded
<1>6. SweepsHold
  BY <1>1, <1>4 DEF SweepsHold, HasAll, Running
<1> QED
  BY <1>1, <1>3, <1>5, <1>6 DEF RollupInv

(* Once a sweep got through on the last day that looks at a day, that day's row is and      *)
(* stays the number of events ever stored for it: with as many processes, deaths, late      *)
(* events and prunings as there are, as long as no sweep loses its lock. It needs raw       *)
(* events to be kept for longer than the window of a sweep (the defaults are 180 and 2       *)
(* days), and no event to come later than that window.                                   *)
THEOREM SettledRowsStay ==
  ASSUME WindowDays < RetentionDays, MaxLate + 1 < 2 * WindowDays
  PROVE  Spec => []SettledExact
<1> DEFINE Inv == RunnerInv /\ job \in Jobs /\ RollupInv
<1>1. Init => Inv
  BY NightStarts, RollupStarts
<1>2. Inv /\ [Next]_vars => Inv'
  BY NightMoves, RollupSafe
<1>3. Inv => SettledExact
  <2>1. ASSUME RollupInv PROVE SettledExact
    <3>1. RollupTypeOK /\ \A day \in rolledOn : job = "analytics-rollup"
      BY <2>1 DEF RollupInv
    <3>2. ASSUME cuts = 0, NEW d \in Days, d + WindowDays \in rolledOn PROVE daily[d] = counted[d]
      BY <2>1, <3>1, <3>2 DEF RollupInv, SweepsHold
    <3> QED
      BY <3>1, <3>2 DEF SettledExact
  <2> QED
    BY <2>1
<1> HIDE DEF Inv
<1> QED
  BY <1>1, <1>2, <1>3, PTL DEF Spec

-----------------------------------------------------------------------------
(* The walk over the entries. A pass goes by a clock that is not ahead of the night's, and   *)
(* a key is the one its row's deadlines had at some time so far.                          *)
PassShape(w) ==
  w \in [on : {w.on}, asOf : {w.asOf}, cursor : {w.cursor}, examined : {w.examined},
         changed : {w.changed}, page : {w.page}]

WalkHolds(r) ==
  LET w == walk[r]
  IN /\ PassShape(w)
     /\ w.asOf <= now /\ w.examined \in Nat
     /\ \E S : w.page \in Seq(S)

EntriesInv ==
  /\ KeyFollowsDeadlines
  /\ walk = [r \in Runners |-> walk[r]]
  /\ \A r \in Runners : WalkHolds(r)

(* The earliest of some dates is one of them, and none is before it.                       *)
LEMMA EarliestIs ==
  ASSUME NEW dates \in SUBSET Nat, dates # {}
  PROVE  Earliest(dates) \in dates /\ \A d \in dates : Earliest(dates) <= d
<1> DEFINE before == {ss \in Nat \X Nat : ss[1] < ss[2]}
<1>1. IsWellFoundedOn(before, Nat)
  BY NatLessThanWellFounded, Zenon DEF OpToRel
<1>2. \A c, d \in Nat : <<c, d>> \in before <=> c < d
  OBVIOUS
<1> HIDE DEF before
<1>3. PICK first \in dates : \A d \in dates : ~ (<<d, first>> \in before)
  BY <1>1, WFMin
<1>4. \A d \in dates : first <= d
  <2>1. ASSUME NEW d \in dates PROVE first <= d
    <3>1. d \in Nat /\ first \in Nat /\ ~ (d < first)
      BY <1>2, <1>3
    <3> QED
      BY <3>1
  <2> QED
    BY <2>1
<1>5. \E d \in dates : \A c \in dates : d <= c
  BY <1>3, <1>4
<1> QED
  BY <1>5 DEF Earliest

(* The next deadline is a date that is still to come, and no date before it is; it stays    *)
(* at or before every date that is to come later.                                         *)
LEMMA NextDeadlineIs ==
  ASSUME NEW said \in Texts, NEW t \in Nat
  PROVE  /\ NextDeadline(said, t) \in Nat \cup {None}
         /\ NextDeadline(said, t) # None => NextDeadline(said, t) \in said.dates
         /\ \A d \in said.dates : d > t => NextDeadline(said, t) # None /\ NextDeadline(said, t) <= d
         /\ NextDeadline(said, t) = None => \A d \in said.dates : ~(d > t)
<1> DEFINE later == {d \in said.dates : d > t}
<1>1. later \in SUBSET Nat /\ later \subseteq said.dates /\ None \notin Nat
  BY StalenessAssumption, RunnerFacts
<1>2. CASE later = {}
  <2>1. NextDeadline(said, t) = None
    BY <1>2 DEF NextDeadline
  <2>2. \A d \in said.dates : ~(d > t)
    BY <1>2
  <2> QED
    BY <2>1, <2>2
<1>3. CASE later # {}
  <2>1. NextDeadline(said, t) = Earliest(later)
    BY <1>3 DEF NextDeadline
  <2>2. Earliest(later) \in later /\ \A d \in later : Earliest(later) <= d
    BY <1>1, <1>3, EarliestIs
  <2>3. Earliest(later) \in Nat /\ Earliest(later) \in said.dates /\ Earliest(later) # None
    BY <1>1, <2>2
  <2>4. \A d \in said.dates : d > t => Earliest(later) <= d
    BY <2>2
  <2> HIDE DEF later
  <2> QED
    BY <2>1, <2>3, <2>4
<1> QED
  BY <1>2, <1>3

(* Shape of a pass, with a page of any rows.                                             *)
Walked(w) ==
  /\ PassShape(w)
  /\ w.asOf \in Times /\ w.asOf <= now /\ w.examined \in Nat
  /\ \E S : w.page \in Seq(S)
  /\ w.examined + Len(w.page) <= Limit /\ Len(w.page) <= PageSize

(* What a row says, with the key its deadlines had at some time so far.                    *)
KeyHolds(e) ==
  /\ e \in Row
  /\ e.next # None => e.next \in e.text.dates
  /\ \A d \in e.text.dates : d > now => e.next # None /\ e.next <= d

(* The invariant, by the row and by the pass.                                            *)
LEMMA EntriesParts ==
  EntriesInv <=> /\ row = [i \in Entries |-> row[i]] /\ \A i \in Entries : KeyHolds(row[i])
                 /\ edits \in 0..MaxEdits /\ poison \in Entries \cup {None}
                 /\ walk = [r \in Runners |-> walk[r]] /\ \A r \in Runners : Walked(walk[r])
<1>1. ASSUME EntriesInv
      PROVE  /\ row = [i \in Entries |-> row[i]] /\ \A i \in Entries : KeyHolds(row[i])
             /\ edits \in 0..MaxEdits /\ poison \in Entries \cup {None}
             /\ walk = [r \in Runners |-> walk[r]] /\ \A r \in Runners : Walked(walk[r])
  BY <1>1 DEF EntriesInv, KeyFollowsDeadlines, StalenessTypeOK, WalkHolds, KeyHolds, Walked
<1>2. ASSUME row = [i \in Entries |-> row[i]], \A i \in Entries : KeyHolds(row[i]),
             edits \in 0..MaxEdits, poison \in Entries \cup {None},
             walk = [r \in Runners |-> walk[r]], \A r \in Runners : Walked(walk[r])
      PROVE  EntriesInv
  <2>1. row \in [Entries -> Row]
    BY <1>2 DEF KeyHolds
  <2> QED
    BY <1>2, <2>1 DEF EntriesInv, KeyFollowsDeadlines, StalenessTypeOK, WalkHolds, KeyHolds, Walked
<1> QED
  BY <1>1, <1>2

(* A row's fields.                                                                     *)
LEMMA RowFacts ==
  ASSUME NEW e \in Row
  PROVE  /\ e.open \in BOOLEAN /\ e.text \in Texts /\ e.next \in Nat \cup {None}
         /\ e.touched \in Times /\ e.touched \in Nat
         /\ e.text.dates \in SUBSET Nat /\ e.text.rolling \in BOOLEAN
<1>1. e.open \in BOOLEAN /\ e.text \in Texts /\ e.next \in Nat \cup {None} /\ e.touched \in Times
  BY DEF Row
<1>2. e.text \in [dates : SUBSET Nat, rolling : BOOLEAN]
  BY <1>1, StalenessAssumption
<1>3. MaxNow \in Nat
  BY RunnerFacts
<1> QED
  BY <1>1, <1>2, <1>3 DEF Times

(* A key that is renewed by a clock that is not ahead.                                    *)
LEMMA RenewedHolds ==
  ASSUME now \in Nat, NEW e \in Row, NEW t \in Nat, t <= now
  PROVE  KeyHolds([e EXCEPT !.next = NextDeadline(e.text, t)])
<1> DEFINE key == NextDeadline(e.text, t)
           n == [e EXCEPT !.next = key]
<1>1. /\ key \in Nat \cup {None}
      /\ key # None => key \in e.text.dates
      /\ \A d \in e.text.dates : d > t => key # None /\ key <= d
      /\ e.text.dates \in SUBSET Nat
  BY RowFacts, NextDeadlineIs
<1> HIDE DEF key
<1>2. n \in Row /\ n.next = key /\ n.text = e.text
  BY <1>1 DEF Row
<1>3. \A d \in e.text.dates : d > now => d > t
  <2>1. ASSUME NEW d \in e.text.dates, d > now PROVE d > t
    <3>1. d \in Nat
      BY <1>1
    <3> QED
      BY <2>1, <3>1
  <2> QED
    BY <2>1
<1> HIDE DEF n
<1>4. KeyHolds(n)
  BY <1>1, <1>2, <1>3 DEF KeyHolds
<1> QED
  BY <1>4 DEF n, key

(* Time makes no reason to close an entry go away.                                        *)
LEMMA ReasonStays ==
  ASSUME NEW e \in Row, NEW t \in Nat, NEW u \in Nat, t <= u, ClosureReason(e, t)
  PROVE  ClosureReason(e, u)
<1>1. e.text \in Texts /\ e.text.dates \in SUBSET Nat /\ e.touched \in Nat /\ InactiveAfter \in Nat
  BY RowFacts, StalenessAssumption
<1>2. CASE PastDue(e.text, t)
  <2>1. ~e.text.rolling /\ e.text.dates # {} /\ \A d \in e.text.dates : d < t /\ d \in Nat
    BY <1>1, <1>2 DEF PastDue
  <2>2. \A d \in e.text.dates : d < u
    BY <2>1
  <2> QED
    BY <2>1, <2>2 DEF PastDue, ClosureReason
<1>3. CASE Inactive(e, t)
  <2>1. NextDeadline(e.text, t) = None /\ e.touched + InactiveAfter < t
    BY <1>3 DEF Inactive
  <2>2. \A d \in e.text.dates : ~(d > t) /\ d \in Nat
    BY <1>1, <2>1, NextDeadlineIs
  <2>3. \A d \in e.text.dates : ~(d > u)
    BY <2>2
  <2>4. NextDeadline(e.text, u) = None
    <3>1. {d \in e.text.dates : d > u} = {}
      BY <2>3
    <3> QED
      BY <3>1 DEF NextDeadline
  <2>5. e.touched + InactiveAfter < u
    BY <1>1, <2>1
  <2> QED
    BY <2>4, <2>5 DEF Inactive, ClosureReason
<1> QED
  BY <1>2, <1>3 DEF ClosureReason

(* What is decided of a locked row closes it for its own text or leaves it open, and renews  *)
(* its key or leaves it alone, whatever was on the page.                                   *)
LEMMA DecideIs ==
  ASSUME now \in Nat, NEW e, KeyHolds(e), NEW seen, NEW t \in Nat, t <= now
  PROVE  /\ KeyHolds(Decide(seen, e, t))
         /\ Decide(seen, e, t).text = e.text
         /\ e.open /\ ~Decide(seen, e, t).open => ClosureReason(e, now)
<1> DEFINE n == Renewed(e, e, t)
           c == Closed(e, e, t)
<1>1. e \in Row
  BY DEF KeyHolds
<1>2. KeyHolds(n) /\ n \in Row
  BY <1>1, RenewedHolds DEF Renewed, KeyHolds
<1>3. n.text = e.text /\ n.open = e.open
  BY <1>1 DEF Renewed, Row
<1>4. c = [n EXCEPT !.open = FALSE]
  BY DEF Closed
<1> HIDE DEF n
<1>5. c \in Row /\ c.text = n.text /\ c.next = n.next
  BY <1>2, <1>4 DEF Row
<1> HIDE DEF c
<1>6. KeyHolds(c)
  BY <1>2, <1>5 DEF KeyHolds
<1>7. \/ Decide(seen, e, t) = c /\ ClosureReason(e, t)
      \/ Decide(seen, e, t) = n
      \/ Decide(seen, e, t) = e
  BY DEF Decide, c, n
<1>8. ClosureReason(e, t) => ClosureReason(e, now)
  BY <1>1, ReasonStays
<1> HIDE DEF KeyHolds
<1> QED
  BY <1>2, <1>3, <1>5, <1>6, <1>7, <1>8

(* A pass that moves on.                                                                *)
LEMMA WalkMoves ==
  ASSUME EntriesInv, NEW r \in Runners, NEW w, walk' = [walk EXCEPT ![r] = w], now' = now, Walked(w)
  PROVE  walk' = [q \in Runners |-> walk'[q]] /\ \A q \in Runners : Walked(walk[q])'
<1>1. walk = [q \in Runners |-> walk[q]] /\ \A q \in Runners : Walked(walk[q])
  BY EntriesParts
<1>2. \A q \in Runners : walk'[q] = IF q = r THEN w ELSE walk[q]
  BY <1>1
<1>3. walk' = [q \in Runners |-> walk'[q]]
  BY <1>1
<1>4. \A q \in Runners : Walked(walk[q])'
  BY <1>1, <1>2 DEF Walked
<1> QED
  BY <1>3, <1>4

(* Steps that leave the entries alone, and steps that only change rows.                     *)
LEMMA EntriesKept ==
  ASSUME EntriesInv, RunnerInv, now' \in Nat, now <= now', UNCHANGED <<edits, poison>>,
         walk' = [q \in Runners |-> walk'[q]], \A q \in Runners : Walked(walk[q])',
         row' = [i \in Entries |-> row'[i]],
         \A i \in Entries : row'[i] = row[i] \/ KeyHolds(row[i])'
  PROVE  EntriesInv'
<1>1. /\ \A i \in Entries : KeyHolds(row[i])
      /\ edits' \in 0..MaxEdits /\ poison' \in Entries \cup {None}
  BY EntriesParts
<1>2. now \in Nat
  BY RunnerFacts DEF RunnerInv, RunnerTypeOK, Times
<1>3. ASSUME NEW i \in Entries PROVE KeyHolds(row[i])'
  <2>1. CASE row'[i] = row[i]
    <3>1. KeyHolds(row[i]) /\ row[i].text.dates \in SUBSET Nat
      BY <1>1, RowFacts DEF KeyHolds
    <3>2. \A d \in row[i].text.dates : d > now' => d > now
      BY <1>2, <3>1
    <3> QED
      BY <2>1, <3>1, <3>2 DEF KeyHolds
  <2>2. CASE KeyHolds(row[i])'
    BY <2>2
  <2> QED
    BY <2>1, <2>2
<1>4. row' \in [Entries -> Row]
  BY <1>3 DEF KeyHolds
<1>5. KeyFollowsDeadlines'
  BY <1>1, <1>3, <1>4 DEF KeyFollowsDeadlines, StalenessTypeOK, KeyHolds, Walked
<1>6. \A q \in Runners : WalkHolds(q)'
  BY DEF WalkHolds, Walked
<1> QED
  BY <1>5, <1>6 DEF EntriesInv

(* A publisher's write renews the key with the row.                                      *)
LEMMA EditSafe ==
  ASSUME RunnerInv, EntriesInv, NEW i \in Entries, NEW said \in Texts, NEW open \in BOOLEAN,
         Edit(i, said, open), now' = now
  PROVE  EntriesInv'
<1> DEFINE old == [open |-> open, text |-> said, next |-> None, touched |-> now]
           new == [open |-> open, text |-> said, next |-> NextDeadline(said, now), touched |-> now]
<1>1. now \in Nat /\ now \in Times
  BY RunnerFacts DEF RunnerInv, RunnerTypeOK, Times
<1>2. /\ row' = [row EXCEPT ![i] = new] /\ edits' = edits + 1 /\ edits < MaxEdits
      /\ UNCHANGED <<walk, poison>>
  BY DEF Edit
<1>3. KeyHolds(new)
  <2>1. old \in Row /\ old.text = said
    BY <1>1 DEF Row
  <2>2. KeyHolds([old EXCEPT !.next = NextDeadline(old.text, now)])
    BY <1>1, <2>1, RenewedHolds
  <2>3. [old EXCEPT !.next = NextDeadline(old.text, now)] = new
    BY <2>1
  <2> QED
    BY <2>2, <2>3
<1> HIDE DEF new
<1>4. /\ row = [j \in Entries |-> row[j]] /\ \A j \in Entries : KeyHolds(row[j])
      /\ edits \in 0..MaxEdits /\ MaxEdits \in Nat /\ poison \in Entries \cup {None}
      /\ walk = [r \in Runners |-> walk[r]] /\ \A r \in Runners : Walked(walk[r])
  BY EntriesParts, StalenessAssumption
<1>5. /\ row' = [j \in Entries |-> row'[j]]
      /\ \A j \in Entries : row'[j] = IF j = i THEN new ELSE row[j]
  BY <1>2, <1>4
<1>6. \A j \in Entries : KeyHolds(row'[j])
  BY <1>3, <1>4, <1>5
<1>7. row' \in [Entries -> Row]
  BY <1>5, <1>6 DEF KeyHolds
<1>8. edits' \in 0..MaxEdits
  BY <1>2, <1>4
<1>9. KeyFollowsDeadlines'
  BY <1>2, <1>4, <1>6, <1>7, <1>8 DEF KeyFollowsDeadlines, StalenessTypeOK, KeyHolds, Walked
<1>10. \A r \in Runners : WalkHolds(r)'
  BY <1>2, <1>4 DEF WalkHolds, Walked
<1> QED
  BY <1>2, <1>4, <1>9, <1>10 DEF EntriesInv

(* The page is of any entries that are ahead, as many as there is room for.                 *)
LEMMA ReadPageSafe ==
  ASSUME RunnerInv, EntriesInv, NEW r \in Runners, ReadPage(r), now' = now
  PROVE  EntriesInv'
<1> DEFINE w == walk[r]
           room == IF Limit - w.examined < PageSize THEN Limit - w.examined ELSE PageSize
           n == IF Cardinality(Ahead(r)) < room THEN Cardinality(Ahead(r)) ELSE room
           ids == ById(Ahead(r))
           page == [k \in 1..n |-> [id |-> ids[k], row |-> row[ids[k]]]]
           new == [w EXCEPT !.page = page]
<1>1. /\ walk' = [walk EXCEPT ![r] = new] /\ UNCHANGED <<row, edits, poison>>
      /\ w.page = <<>> /\ n > 0
  BY DEF ReadPage
<1>2. Cardinality(Ahead(r)) \in Nat
  <2>1. Ahead(r) \subseteq Entries /\ IsFiniteSet(Entries)
    BY StalenessAssumption DEF Ahead
  <2>2. IsFiniteSet(Ahead(r))
    BY <2>1, FS_Subset
  <2> QED
    BY <2>2, FS_CardinalityType
<1>3. Walked(w) /\ Limit \in Nat /\ PageSize \in Nat /\ PageSize > 0
  BY EntriesParts, StalenessAssumption
<1>4. w.examined \in Nat /\ w.examined <= Limit
  BY <1>1, <1>3 DEF Walked
<1> DEFINE ahead == Cardinality(Ahead(r))
<1> HIDE DEF ahead, page
<1>5. n \in Nat /\ n <= PageSize /\ w.examined + n <= Limit
  <2>1. ahead \in Nat
    BY <1>2 DEF ahead
  <2>2. n = IF ahead < room THEN ahead ELSE room
    BY DEF ahead
  <2> HIDE DEF w
  <2>3. room \in Nat /\ room <= PageSize /\ w.examined + room <= Limit
    BY <1>3, <1>4
  <2> HIDE DEF room, n
  <2> QED
    BY <1>3, <1>4, <2>1, <2>2, <2>3
<1> HIDE DEF n
<1>6. Len(page) = n /\ \E S : page \in Seq(S)
  <2> DEFINE S == {[id |-> ids[k], row |-> row[ids[k]]] : k \in 1..n}
  <2> HIDE DEF ids
  <2>1. page \in [1..n -> S]
    BY DEF page
  <2> HIDE DEF S
  <2>2. page \in Seq(S) /\ Len(page) = n
    BY <1>5, <2>1
  <2> QED
    BY <2>2
<1>7. Walked(new)
  <2>1. /\ new.on = w.on /\ new.asOf = w.asOf /\ new.cursor = w.cursor /\ new.examined = w.examined
        /\ new.changed = w.changed /\ new.page = page
    BY <1>3 DEF Walked, PassShape
  <2>2. new \in [on : {w.on}, asOf : {w.asOf}, cursor : {w.cursor}, examined : {w.examined},
                changed : {w.changed}, page : {page}]
    BY <1>3 DEF Walked, PassShape
  <2> HIDE DEF new
  <2> QED
    BY <1>3, <1>5, <1>6, <2>1, <2>2 DEF Walked, PassShape
<1> HIDE DEF new
<1>8. walk' = [q \in Runners |-> walk'[q]] /\ \A q \in Runners : Walked(walk[q])'
  BY <1>1, <1>7, WalkMoves
<1>9. now \in Nat /\ row = [i \in Entries |-> row[i]]
  BY EntriesParts, RunnerFacts DEF RunnerInv, RunnerTypeOK, Times
<1> QED
  BY <1>1, <1>8, <1>9, EntriesKept

(* The visited row leaves the page.                                                      *)
LEMMA VisitedSafe ==
  ASSUME RunnerInv, EntriesInv, NEW r \in Runners, NEW changed, walk[r].page # <<>>, now' = now,
         walk' = Visited(r, changed)
  PROVE  walk' = [q \in Runners |-> walk'[q]] /\ \A q \in Runners : Walked(walk[q])'
<1> DEFINE w == walk[r]
           at == Head(w.page).id
           either == w.changed \/ changed
           rest == Tail(w.page)
           seen == w.examined + 1
           new == [w EXCEPT !.page = rest, !.cursor = at, !.examined = seen, !.changed = either]
<1>1. Walked(w) /\ Limit \in Nat /\ PageSize \in Nat /\ walk = [q \in Runners |-> walk[q]]
  BY EntriesParts, StalenessAssumption
<1>2. walk' = [walk EXCEPT ![r] = new]
  BY <1>1 DEF Visited, Walked
<1>3. PICK S : w.page \in Seq(S)
  BY <1>1 DEF Walked
<1>4. /\ Tail(w.page) \in Seq(S) /\ Len(Tail(w.page)) = Len(w.page) - 1 /\ Len(w.page) \in Nat
      /\ Len(w.page) > 0
  BY <1>3
<1>5. Walked(new)
  <2> HIDE DEF at, either, rest, seen
  <2>1. /\ new.on = w.on /\ new.asOf = w.asOf /\ new.cursor = at /\ new.examined = seen
        /\ new.changed = either /\ new.page = rest
    BY <1>1 DEF Walked, PassShape
  <2>2. new \in [on : {w.on}, asOf : {w.asOf}, cursor : {at}, examined : {seen},
                changed : {either}, page : {rest}]
    BY <1>1 DEF Walked, PassShape
  <2> HIDE DEF new
  <2>3. PassShape(new)
    BY <2>1, <2>2 DEF PassShape
  <2>4. \E T : new.page \in Seq(T)
    BY <1>4, <2>1 DEF rest
  <2>5. /\ new.asOf \in Times /\ new.asOf <= now /\ new.examined \in Nat
        /\ new.examined + Len(new.page) <= Limit /\ Len(new.page) <= PageSize
    BY <1>1, <1>4, <2>1 DEF Walked, rest, seen
  <2> QED
    BY <2>3, <2>4, <2>5 DEF Walked
<1> HIDE DEF new
<1> QED
  BY <1>2, <1>5, WalkMoves

(* What the locked row says is what is written, and its reason stands.                     *)
LEMMA SettleSafe ==
  ASSUME RunnerInv, EntriesInv, NEW r \in Runners, Settle(r), now' = now
  PROVE  /\ EntriesInv'
         /\ \A i \in Entries : row[i].open /\ ~row'[i].open =>
              row'[i].text = row[i].text /\ ClosureReason(row[i], now)
<1> DEFINE i == Head(walk[r].page).id
           seen == Head(walk[r].page).row
           t == walk[r].asOf
           decided == Decide(seen, row[i], t)
<1>1. /\ row' = [row EXCEPT ![i] = decided] /\ UNCHANGED <<edits, poison>>
      /\ walk[r].page # <<>> /\ walk' = Visited(r, decided # row[i])
  BY DEF Settle
<1>2. /\ row = [j \in Entries |-> row[j]] /\ \A j \in Entries : KeyHolds(row[j])
      /\ Walked(walk[r]) /\ now \in Nat /\ t \in Nat /\ t <= now
  <2>1. MaxNow \in Nat /\ now \in Times
    BY RunnerFacts DEF RunnerInv, RunnerTypeOK
  <2>2. Walked(walk[r])
    BY EntriesParts
  <2> QED
    BY <2>1, <2>2, EntriesParts DEF Walked, Times
<1>3. walk' = [q \in Runners |-> walk'[q]] /\ \A q \in Runners : Walked(walk[q])'
  BY <1>1, VisitedSafe
<1> HIDE DEF i, seen, t
<1>4. ASSUME i \in Entries
      PROVE  /\ KeyHolds(decided) /\ decided.text = row[i].text
             /\ row[i].open /\ ~decided.open => ClosureReason(row[i], now)
  BY <1>2, <1>4, DecideIs
<1> HIDE DEF decided
<1>5. /\ row' = [j \in Entries |-> row'[j]]
      /\ \A j \in Entries : row'[j] = IF j = i THEN decided ELSE row[j]
  BY <1>1, <1>2
<1>6. \A j \in Entries : row'[j] = row[j] \/ KeyHolds(row'[j])
  BY <1>4, <1>5
<1>7. \A j \in Entries : row'[j] = row[j] \/ KeyHolds(row[j])'
  BY <1>6 DEF KeyHolds
<1>8. EntriesInv'
  BY <1>1, <1>2, <1>3, <1>5, <1>7, EntriesKept
<1>9. \A j \in Entries : row[j].open /\ ~row'[j].open =>
        row'[j].text = row[j].text /\ ClosureReason(row[j], now)
  BY <1>4, <1>5
<1> QED
  BY <1>8, <1>9

(* A pass that begins and a pass that is over.                                           *)
LEMMA FreshWalk ==
  ASSUME RunnerInv
  PROVE  Walked(NoWalk) /\ Walked([NoWalk EXCEPT !.on = TRUE, !.asOf = now])
<1> DEFINE new == [NoWalk EXCEPT !.on = TRUE, !.asOf = now]
<1>1. /\ Limit \in Nat /\ PageSize \in Nat /\ now \in Times /\ now \in Nat /\ 0 \in Times /\ 0 <= now
      /\ now <= now
  BY StalenessAssumption, RunnerFacts DEF RunnerInv, RunnerTypeOK, Times
<1>2. <<>> \in Seq({}) /\ Len(<<>>) = 0
  OBVIOUS
<1>3. /\ NoWalk.asOf = 0 /\ NoWalk.examined = 0 /\ NoWalk.page = <<>>
      /\ new.asOf = now /\ new.examined = 0 /\ new.page = <<>>
  BY DEF NoWalk
<1>4. PassShape(NoWalk) /\ PassShape(new)
  BY DEF NoWalk, PassShape
<1> HIDE DEF new
<1>5. \E S : NoWalk.page \in Seq(S)
  BY <1>2, <1>3
<1>6. \E S : new.page \in Seq(S)
  BY <1>2, <1>3
<1>7. Walked(NoWalk)
  BY <1>1, <1>2, <1>3, <1>4, <1>5 DEF Walked
<1>8. Walked(new)
  BY <1>1, <1>2, <1>3, <1>4, <1>6 DEF Walked
<1> QED
  BY <1>7, <1>8 DEF new

(* The entries in a step of the night. What is closed by a step that is not a write of a    *)
(* publisher is closed for what its row says.                                            *)
LEMMA EntriesSafe ==
  ASSUME RunnerInv, EntriesInv, job \in Jobs, [Next]_vars
  PROVE  /\ EntriesInv'
         /\ \A i \in Entries : row[i].open /\ ~row'[i].open /\ edits' = edits =>
              row'[i].text = row[i].text /\ ClosureReason(row[i], now)
<1>1. now \in Nat /\ now' \in Nat /\ now <= now'
  BY NightMoves, RunnerFacts DEF RunnerInv, RunnerTypeOK, Times
<1>2. /\ row = [i \in Entries |-> row[i]] /\ walk = [r \in Runners |-> walk[r]]
      /\ \A r \in Runners : Walked(walk[r])
      /\ edits \in Nat
  BY EntriesParts, StalenessAssumption
<1>3. ASSUME UNCHANGED entryVars PROVE EntriesInv' /\ row' = row
  <2>1. UNCHANGED <<row, edits, walk, poison>>
    BY <1>3 DEF entryVars
  <2>2. \A r \in Runners : Walked(walk[r])'
    <3>1. ASSUME NEW r \in Runners PROVE Walked(walk[r])'
      <4>1. Walked(walk[r]) /\ MaxNow \in Nat
        BY <1>2, RunnerFacts
      <4>2. walk[r].asOf \in Nat /\ walk[r].asOf <= now'
        BY <1>1, <4>1 DEF Walked, Times
      <4> QED
        BY <2>1, <4>1, <4>2 DEF Walked
    <3> QED
      BY <3>1
  <2> QED
    BY <1>1, <1>2, <2>1, <2>2, EntriesKept
<1>4. ASSUME NEW r \in Runners, now' = now, BeginWalk(r) \/ EndWalk(r)
      PROVE  EntriesInv' /\ row' = row
  <2>1. PICK w : walk' = [walk EXCEPT ![r] = w] /\ Walked(w)
    BY <1>4, FreshWalk DEF BeginWalk, EndWalk
  <2>2. UNCHANGED <<row, edits, poison>>
    BY <1>4 DEF BeginWalk, EndWalk
  <2>3. walk' = [q \in Runners |-> walk'[q]] /\ \A q \in Runners : Walked(walk[q])'
    BY <1>4, <2>1, WalkMoves
  <2> QED
    BY <1>1, <1>2, <2>2, <2>3, EntriesKept
<1>5. ASSUME NEW r \in Runners, now' = now, StepWalk(r)
      PROVE  /\ EntriesInv'
             /\ \A i \in Entries : row[i].open /\ ~row'[i].open =>
                  row'[i].text = row[i].text /\ ClosureReason(row[i], now)
  <2>1. CASE ReadPage(r)
    <3>1. row' = row
      BY <2>1 DEF ReadPage
    <3> QED
      BY <1>5, <2>1, <3>1, ReadPageSafe
  <2>2. CASE Settle(r)
    BY <1>5, <2>2, SettleSafe
  <2>3. CASE SkipPoison(r)
    <3>1. walk' = Visited(r, FALSE) /\ UNCHANGED <<row, edits, poison>> /\ walk[r].page # <<>>
      BY <2>3 DEF SkipPoison
    <3>2. walk' = [q \in Runners |-> walk'[q]] /\ \A q \in Runners : Walked(walk[q])'
      BY <1>5, <3>1, VisitedSafe
    <3> QED
      BY <1>1, <1>2, <3>1, <3>2, EntriesKept
  <2> QED
    BY <1>5, <2>1, <2>2, <2>3 DEF StepWalk
<1>6. ASSUME NEW r \in Runners, StartRun(r) \/ Step(r) \/ Again(r) \/ Done(r) \/ Crash(r) \/ Cut(r)
      PROVE  UNCHANGED entryVars \/ (now' = now /\ (BeginWalk(r) \/ EndWalk(r) \/ StepWalk(r)))
  <2>1. CASE StartRun(r)
    BY <2>1 DEF StartRun, Acquire, Begin, Walking, Reminding, Rolling, Embedding
  <2>2. CASE Step(r)
    BY <2>2 DEF Step, Work, Walking, Reminding, Rolling, Embedding, runnerVars
  <2>3. CASE Again(r)
    BY <2>3 DEF Again, NextPass, Begin, Walking, Reminding, Rolling, Embedding
  <2>4. CASE Done(r)
    BY <2>4 DEF Done, EndRun, Finish, Walking, Reminding, Rolling, Embedding
  <2>5. CASE Crash(r)
    BY <2>5 DEF Crash, Die, Abort, Walking, Reminding, Rolling, Embedding
  <2>6. CASE Cut(r)
    BY <2>6 DEF Cut, Still
  <2> QED
    BY <1>6, <2>1, <2>2, <2>3, <2>4, <2>5, <2>6
<1>7. CASE ClockTick \/ UNCHANGED vars \/ \E p \in Passes : CheckOfWrite(p) \/ ProviderFails(p)
  <2>1. UNCHANGED entryVars
    BY <1>7 DEF ClockTick, Still, vars, CheckOfWrite, ProviderFails, Embedding
  <2> QED
    BY <1>3, <2>1
<1>8. CASE Day
  <2>1. CASE UNCHANGED entryVars
    BY <1>3, <2>1
  <2>2. CASE ~UNCHANGED entryVars
    <3>1. now' = now /\ \E i \in Entries, said \in Texts, open \in BOOLEAN : Edit(i, said, open)
      BY <1>8, <2>2 DEF Day, Walking, Reminding, Rolling, Embedding, runnerVars
    <3>2. PICK i \in Entries, said \in Texts, open \in BOOLEAN : Edit(i, said, open)
      BY <3>1
    <3>3. EntriesInv'
      BY <3>1, <3>2, EditSafe
    <3>4. edits' # edits
      BY <1>2, <3>2 DEF Edit
    <3> QED
      BY <3>3, <3>4
  <2> QED
    BY <2>1, <2>2
<1>9. ASSUME NEW r \in Runners, StartRun(r) \/ Step(r) \/ Again(r) \/ Done(r) \/ Crash(r) \/ Cut(r)
      PROVE  /\ EntriesInv'
             /\ \A i \in Entries : row[i].open /\ ~row'[i].open =>
                  row'[i].text = row[i].text /\ ClosureReason(row[i], now)
  BY <1>3, <1>4, <1>5, <1>6, <1>9
<1> QED
  BY <1>7, <1>8, <1>9 DEF Next

(* In the evening every key is that of its row's deadlines, and no pass is under way.       *)
LEMMA EntriesStart == Init => EntriesInv
<1> SUFFICES ASSUME Init PROVE EntriesInv
  OBVIOUS
<1>1. RunnerInv /\ now = 0
  BY NightStarts DEF Init, RunnerInit
<1>2. /\ edits = 0 /\ walk = [r \in Runners |-> NoWalk] /\ poison \in Entries \cup {None}
  BY StalenessAssumption DEF Init, StalenessInit, StalenessIdle
<1>3. PICK texts \in [Entries -> Texts], open \in BOOLEAN :
        row = [i \in Entries |-> [open |-> open, text |-> texts[i],
                                  next |-> NextDeadline(texts[i], 0), touched |-> 0]]
  <2>1. CASE StalenessInit
    BY <2>1 DEF StalenessInit
  <2>2. CASE StalenessIdle
    <3> DEFINE any == CHOOSE said \in Texts : TRUE
               same == [i \in Entries |-> any]
    <3>1. any \in Texts
      BY StalenessAssumption
    <3>2. row = [i \in Entries |-> [open |-> FALSE, text |-> any,
                                    next |-> NextDeadline(any, 0), touched |-> 0]]
      BY <2>2 DEF StalenessIdle
    <3> HIDE DEF any
    <3>3. same \in [Entries -> Texts] /\ \A i \in Entries : same[i] = any
      BY <3>1
    <3>4. row = [i \in Entries |-> [open |-> FALSE, text |-> same[i],
                                    next |-> NextDeadline(same[i], 0), touched |-> 0]]
      BY <3>2, <3>3
    <3> QED
      BY <3>3, <3>4
  <2> QED
    BY <2>1, <2>2 DEF Init
<1>4. ASSUME NEW i \in Entries PROVE KeyHolds(row[i])
  <2> DEFINE said == texts[i]
             old == [open |-> open, text |-> said, next |-> None, touched |-> 0]
  <2>1. 0 \in Times /\ 0 \in Nat /\ 0 <= now /\ said \in Texts
    BY <1>1, RunnerFacts DEF Times
  <2> HIDE DEF said
  <2>2. old \in Row /\ old.text = said
    BY <2>1 DEF Row
  <2>3. KeyHolds([old EXCEPT !.next = NextDeadline(old.text, 0)])
    BY <1>1, <2>1, <2>2, RenewedHolds
  <2>4. row[i] = [old EXCEPT !.next = NextDeadline(old.text, 0)]
    BY <1>3, <2>2 DEF said
  <2> QED
    BY <2>3, <2>4
<1>5. \A r \in Runners : Walked(walk[r])
  BY <1>1, <1>2, FreshWalk
<1>6. edits \in 0..MaxEdits
  BY <1>2, StalenessAssumption
<1> QED
  BY <1>2, <1>3, <1>4, <1>5, <1>6, EntriesParts

(* The key that filters and sorts go by is of the row's present deadlines and skips none that *)
(* is to come, whatever publishers write while pages are walked.                           *)
THEOREM KeysFollow == Spec => []KeyFollowsDeadlines
<1> DEFINE Inv == RunnerInv /\ job \in Jobs /\ EntriesInv
<1>1. Init => Inv
  BY NightStarts, EntriesStart
<1>2. Inv /\ [Next]_vars => Inv'
  BY NightMoves, EntriesSafe
<1>3. Inv => KeyFollowsDeadlines
  BY DEF EntriesInv
<1> HIDE DEF Inv
<1> QED
  BY <1>1, <1>2, <1>3, PTL DEF Spec

(* The job closes an entry only for what the row says when it is closed, and only when there *)
(* is a reason at that time: a page that is out of date closes nothing.                     *)
THEOREM ClosedForAReason == Spec => ClosedForItsText
<1> DEFINE Inv == RunnerInv /\ job \in Jobs /\ EntriesInv
           Act == \A i \in Entries :
                    row[i].open /\ ~row'[i].open /\ edits' = edits =>
                      row'[i].text = row[i].text /\ ClosureReason(row[i], now)
<1>1. Init => Inv
  BY NightStarts, EntriesStart
<1>2. Inv /\ [Next]_vars => Inv'
  BY NightMoves, EntriesSafe
<1>3. Inv /\ [Next]_vars => [Act]_<<now, entryVars>>
  BY EntriesSafe
<1> HIDE DEF Inv, Act
<1>4. Spec => [][Act]_<<now, entryVars>>
  BY <1>1, <1>2, <1>3, PTL DEF Spec
<1> QED
  BY <1>4 DEF ClosedForItsText, Act

-----------------------------------------------------------------------------
(* The list of what closes soon. First the rule of the job, solved for time.               *)

(* The last of finitely many dates is one of them, and none is after it.                  *)
LEMMA LastDateIs ==
  ASSUME NEW dates \in SUBSET Nat, IsFiniteSet(dates), dates # {}
  PROVE  LastDate(dates) \in dates /\ LastDate(dates) \in Nat /\ \A d \in dates : d <= LastDate(dates)
<1>1. \E d \in dates : \A c \in dates : c <= d
  <2> DEFINE before == {ss \in Nat \X Nat : ss[1] < ss[2]}
             short == {k \in Nat : \E d \in dates : Cardinality({c \in dates : c > d}) = k}
  <2>1. IsWellFoundedOn(before, Nat)
    BY NatLessThanWellFounded, Zenon DEF OpToRel
  <2>2. \A c, d \in Nat : <<c, d>> \in before <=> c < d
    OBVIOUS
  <2>3. \A d \in dates : IsFiniteSet({c \in dates : c > d}) /\ Cardinality({c \in dates : c > d}) \in Nat
    <3>1. ASSUME NEW d \in dates
          PROVE  IsFiniteSet({c \in dates : c > d}) /\ Cardinality({c \in dates : c > d}) \in Nat
      <4>1. {c \in dates : c > d} \in SUBSET dates
        OBVIOUS
      <4> QED
        BY <4>1, FS_Subset, FS_CardinalityType
    <3> QED
      BY <3>1
  <2>4. short \subseteq Nat /\ short # {}
    <3>1. PICK d \in dates : TRUE
      OBVIOUS
    <3>2. Cardinality({c \in dates : c > d}) \in short
      BY <2>3
    <3> QED
      BY <3>2
  <2> HIDE DEF before, short
  <2>5. PICK k \in short : \A j \in short : ~(<<j, k>> \in before)
    BY <2>1, <2>4, WFMin
  <2>6. PICK d \in dates : Cardinality({c \in dates : c > d}) = k
    BY <2>5 DEF short
  <2>7. ASSUME NEW c \in dates, c > d PROVE FALSE
    <3> DEFINE above == {x \in dates : x > d}
               higher == {x \in dates : x > c}
    <3>1. higher \subseteq above \ {c} /\ c \in above /\ c \in Nat /\ d \in Nat
      <4>1. \A x \in dates : x \in Nat
        OBVIOUS
      <4>2. c \in Nat /\ d \in Nat /\ c \in above
        BY <2>7, <4>1
      <4>3. ASSUME NEW x \in dates, x > c PROVE x > d /\ x # c
        BY <2>7, <4>1, <4>2, <4>3
      <4>4. higher \subseteq above \ {c}
        BY <4>3
      <4> QED
        BY <4>2, <4>4
    <3>2. IsFiniteSet(above) /\ Cardinality(above) = k /\ k \in Nat
      BY <2>3, <2>6
    <3>3. IsFiniteSet(higher) /\ Cardinality(higher) \in short /\ Cardinality(higher) \in Nat
      BY <2>3 DEF short
    <3> HIDE DEF above, higher
    <3>4. higher \subseteq above /\ higher # above
      BY <3>1
    <3>5. Cardinality(higher) < Cardinality(above)
      BY <3>2, <3>3, <3>4, FS_Subset
    <3> QED
      BY <2>2, <2>5, <3>2, <3>3, <3>5
  <2>8. \A c \in dates : c <= d
    <3>1. ASSUME NEW c \in dates PROVE c <= d
      <4>1. c \in Nat /\ d \in Nat /\ ~(c > d)
        BY <2>7
      <4> QED
        BY <4>1
    <3> QED
      BY <3>1
  <2> QED
    BY <2>8
<1> QED
  BY <1>1 DEF LastDate

(* What the rule says of an entry at a time, by the last of its dates.                     *)
LEMMA RuleByLastDate ==
  ASSUME NEW e \in Row, NEW u \in Nat, e.text.dates # {}
  PROVE  /\ NextDeadline(e.text, u) = None <=> LastDate(e.text.dates) <= u
         /\ PastDue(e.text, u) <=> ~e.text.rolling /\ LastDate(e.text.dates) < u
<1> DEFINE D == e.text.dates
           last == LastDate(D)
<1>1. e.text \in Texts /\ D \in SUBSET Nat /\ IsFiniteSet(D) /\ None \notin Nat
  BY RowFacts, RunnerFacts, StalenessAssumption
<1>2. last \in D /\ last \in Nat /\ \A d \in D : d <= last
  BY <1>1, LastDateIs
<1>3. /\ NextDeadline(e.text, u) # None => NextDeadline(e.text, u) \in D
      /\ \A d \in D : d > u => NextDeadline(e.text, u) # None
      /\ NextDeadline(e.text, u) = None => \A d \in D : ~(d > u)
  BY <1>1, NextDeadlineIs
<1>4. NextDeadline(e.text, u) = None <=> \A d \in D : ~(d > u)
  <2>1. ASSUME \A d \in D : ~(d > u) PROVE NextDeadline(e.text, u) = None
    <3>1. {d \in D : d > u} = {}
      BY <2>1
    <3> QED
      BY <3>1 DEF NextDeadline
  <2> QED
    BY <1>3, <2>1
<1>5. PastDue(e.text, u) <=> ~e.text.rolling /\ \A d \in D : d < u
  BY DEF PastDue
<1> HIDE DEF last
<1>6. (\A d \in D : ~(d > u)) <=> last <= u
  <2>1. \A d \in D : d \in Nat
    BY <1>1
  <2> QED
    BY <1>2, <2>1
<1>7. (\A d \in D : d < u) <=> last < u
  <2>1. \A d \in D : d \in Nat
    BY <1>1
  <2> QED
    BY <1>2, <2>1
<1> QED
  BY <1>4, <1>5, <1>6, <1>7 DEF last

(* And of one that has no dates.                                                       *)
LEMMA RuleWithoutDates ==
  ASSUME NEW e \in Row, NEW u \in Nat, e.text.dates = {}
  PROVE  NextDeadline(e.text, u) = None /\ ~PastDue(e.text, u)
BY DEF NextDeadline, PastDue

(* inactivityClosesAt is a time, and no earlier than the end of the quiet period.           *)
LEMMA ClosesAtIs ==
  ASSUME NEW e \in Row, NEW t \in Nat, ClosesAt(e, t) # None
  PROVE  ClosesAt(e, t) \in Nat /\ QuietUntil(e) <= ClosesAt(e, t)
         /\ (e.text.dates # {} => LastDate(e.text.dates) <= ClosesAt(e, t))
<1>1. e.touched \in Nat /\ InactiveAfter \in Nat /\ e.text.dates \in SUBSET Nat
      /\ e.text \in Texts /\ IsFiniteSet(e.text.dates)
  BY RowFacts, StalenessAssumption
<1>2. QuietUntil(e) \in Nat
  BY <1>1 DEF QuietUntil
<1>3. e.text.dates # {} => LastDate(e.text.dates) \in Nat
  BY <1>1, LastDateIs
<1> QED
  BY <1>2, <1>3 DEF ClosesAt

(* The date of an entry is the first one on which the job's rule says inactive, from t on;  *)
(* one that is over by t means t.                                                       *)
LEMMA RuleSolved ==
  ASSUME NEW e \in Row, NEW t \in Nat
  PROVE  LET closes == ClosesAt(e, t)
         IN /\ closes = None => \A u \in Nat : t <= u => ~WouldClose(e, u)
            /\ closes # None /\ closes < t => SaysInactive(e, t)
            /\ closes # None /\ ~(closes < t) =>
                 WouldClose(e, closes) /\ \A u \in Nat : t <= u /\ u < closes => ~WouldClose(e, u)
<1> DEFINE Q == QuietUntil(e)
           D == e.text.dates
           last == LastDate(D)
<1>1. e.touched \in Nat /\ InactiveAfter \in Nat /\ D \in SUBSET Nat /\ e.text \in Texts
      /\ IsFiniteSet(D) /\ e.text.rolling \in BOOLEAN /\ None \notin Nat
  BY RowFacts, RunnerFacts, StalenessAssumption
<1>2. Q \in Nat /\ Q = e.touched + InactiveAfter
  BY <1>1 DEF QuietUntil
<1>3. \A u \in Nat : WouldClose(e, u) <=>
         NextDeadline(e.text, u) = None
           /\ ((~PastDue(e.text, u) /\ Q < u) \/ (~PastDue(e.text, u + 1) /\ Q < u + 1))
  BY <1>2 DEF WouldClose, SaysInactive, SaysInactiveAfter, Inactive
<1>4. SaysInactive(e, t) <=> ~PastDue(e.text, t) /\ NextDeadline(e.text, t) = None /\ Q < t
  BY <1>2 DEF SaysInactive, Inactive
<1>5. CASE D = {}
  <2>1. \A u \in Nat : NextDeadline(e.text, u) = None /\ ~PastDue(e.text, u)
    BY <1>5, RuleWithoutDates
  <2>2. ClosesAt(e, t) = Q
    BY <1>5, <2>1 DEF ClosesAt
  <2> HIDE DEF Q, D
  <2>3. \A u \in Nat : u + 1 \in Nat
    OBVIOUS
  <2>4. \A u \in Nat : WouldClose(e, u) <=> (Q < u \/ Q < u + 1)
    BY <1>3, <2>1, <2>3
  <2> QED
    BY <1>1, <1>2, <1>4, <2>1, <2>2, <2>4
<1>6. CASE D # {}
  <2>1. last \in Nat
    BY <1>1, <1>6, LastDateIs
  <2>2. \A u \in Nat : /\ NextDeadline(e.text, u) = None <=> last <= u
                       /\ PastDue(e.text, u) <=> ~e.text.rolling /\ last < u
    BY <1>6, RuleByLastDate
  <2>3. ClosesAt(e, t) = IF PastDue(e.text, t) THEN None
                         ELSE IF Q < last THEN last ELSE IF e.text.rolling THEN Q ELSE None
    BY <1>6 DEF ClosesAt
  <2> HIDE DEF Q, D, last
  <2>4. \A u \in Nat : u + 1 \in Nat
    OBVIOUS
  <2>5. \A u \in Nat : WouldClose(e, u) <=>
           last <= u /\ ((~(~e.text.rolling /\ last < u) /\ Q < u)
                          \/ (~(~e.text.rolling /\ last < u + 1) /\ Q < u + 1))
    BY <1>3, <2>2, <2>4
  <2> QED
    BY <1>1, <1>2, <1>4, <2>1, <2>2, <2>3, <2>5
<1> QED
  BY <1>5, <1>6

(* The list keeps its promises, of every entry and at any time.                            *)
LEMMA PromisesKept ==
  ASSUME NEW e \in Row, NEW t \in Nat
  PROVE  PromiseKept(e, t)
<1>1. /\ ClosesAt(e, t) = None => \A u \in Nat : t <= u => ~WouldClose(e, u)
      /\ ClosesAt(e, t) # None /\ ClosesAt(e, t) < t => SaysInactive(e, t)
      /\ ClosesAt(e, t) # None /\ ~(ClosesAt(e, t) < t) =>
           WouldClose(e, ClosesAt(e, t))
             /\ \A u \in Nat : t <= u /\ u < ClosesAt(e, t) => ~WouldClose(e, u)
  BY RuleSolved
<1>2. ClosesAt(e, t) # None => ClosesAt(e, t) \in Nat
  BY ClosesAtIs
<1>3. MaxNow \in Nat
  BY RunnerFacts
<1>4. \A u \in t..MaxNow : u \in Nat /\ t <= u
  BY <1>3
<1>5. ClosesAt(e, t) # None => \A u \in t..(ClosesAt(e, t) - 1) : u \in Nat /\ t <= u /\ u < ClosesAt(e, t)
  BY <1>2
<1> QED
  BY <1>1, <1>4, <1>5 DEF PromiseKept

(* An entry closes within a window if its date is in it, and then the database finds it.     *)
LEMMA ClosesInWindow ==
  ASSUME NEW e, KeyHolds(e), NEW t \in Nat, NEW window \in Nat, NEW horizon, horizon = t + window
  PROVE  /\ (\E u \in t..horizon : WouldClose(e, u))
              <=> ClosesAt(e, t) # None /\ ClosesAt(e, t) <= horizon
         /\ ClosesAt(e, t) # None /\ ClosesAt(e, t) <= horizon =>
              QuietUntil(e) <= horizon /\ (e.next = None \/ e.next <= horizon)
<1> DEFINE closes == ClosesAt(e, t)
<1>1. e \in Row /\ horizon \in Nat /\ t <= horizon
  BY DEF KeyHolds
<1>2. /\ closes = None => \A u \in Nat : t <= u => ~WouldClose(e, u)
      /\ closes # None /\ closes < t => SaysInactive(e, t)
      /\ closes # None /\ ~(closes < t) =>
           WouldClose(e, closes) /\ \A u \in Nat : t <= u /\ u < closes => ~WouldClose(e, u)
  BY <1>1, RuleSolved
<1>3. closes # None => closes \in Nat /\ QuietUntil(e) <= closes
                       /\ (e.text.dates # {} => LastDate(e.text.dates) <= closes)
  BY <1>1, ClosesAtIs
<1>4. SaysInactive(e, t) => WouldClose(e, t)
  BY DEF WouldClose
<1>5. QuietUntil(e) \in Nat
  BY <1>1, RowFacts, StalenessAssumption DEF QuietUntil
<1>6. e.next # None => e.next \in Nat /\ e.text.dates # {} /\ e.next <= LastDate(e.text.dates)
                       /\ LastDate(e.text.dates) \in Nat
  <2>1. e.text \in Texts /\ e.text.dates \in SUBSET Nat /\ IsFiniteSet(e.text.dates)
    BY <1>1, RowFacts, StalenessAssumption
  <2>2. e.next # None => e.next \in e.text.dates
    BY DEF KeyHolds
  <2> QED
    BY <2>1, <2>2, LastDateIs
<1> HIDE DEF closes
<1>7. ASSUME NEW u \in t..horizon, WouldClose(e, u) PROVE closes # None /\ closes <= horizon
  <2>1. u \in Nat /\ t <= u /\ u <= horizon
    BY <1>1
  <2>2. closes # None /\ ~(u < closes /\ ~(closes < t))
    BY <1>2, <1>7, <2>1
  <2> QED
    BY <1>1, <1>3, <2>1, <2>2
<1>8. ASSUME closes # None, closes <= horizon
      PROVE  /\ \E u \in t..horizon : WouldClose(e, u)
             /\ QuietUntil(e) <= horizon /\ (e.next = None \/ e.next <= horizon)
  <2>1. closes < t => t \in t..horizon /\ WouldClose(e, t)
    BY <1>1, <1>2, <1>4, <1>8
  <2>2. ~(closes < t) => closes \in t..horizon /\ WouldClose(e, closes)
    BY <1>1, <1>2, <1>3, <1>8
  <2>3. QuietUntil(e) <= horizon /\ (e.next = None \/ e.next <= horizon)
    BY <1>1, <1>3, <1>5, <1>6, <1>8
  <2> QED
    BY <2>1, <2>2, <2>3
<1> QED
  BY <1>7, <1>8 DEF closes

-----------------------------------------------------------------------------
(* The n that close first.                                                             *)

(* Of numbered things that have a measure each, one is before all others.                  *)
LEMMA OneIsFirst ==
  ASSUME NEW S \in SUBSET Nat, S # {}, NEW f \in [S -> Nat]
  PROVE  \E i \in S : \A j \in S \ {i} : f[i] < f[j] \/ (f[i] = f[j] /\ i < j)
<1> DEFINE values == {f[i] : i \in S}
           least == Earliest(values)
           those == {i \in S : f[i] = least}
           first == Earliest(those)
<1>1. values \in SUBSET Nat /\ values # {}
  OBVIOUS
<1>2. least \in values /\ \A v \in values : least <= v
  <2> HIDE DEF values
  <2> QED
    BY <1>1, EarliestIs
<1>3. those \in SUBSET Nat /\ those # {}
  BY <1>2
<1>4. first \in those /\ \A i \in those : first <= i
  <2> HIDE DEF those
  <2> QED
    BY <1>3, EarliestIs
<1>5. least \in Nat /\ first \in S /\ f[first] = least
  BY <1>1, <1>2, <1>4
<1>6. ASSUME NEW j \in S \ {first} PROVE least < f[j] \/ (least = f[j] /\ first < j)
  <2>1. f[j] \in values /\ f[j] \in Nat /\ j \in Nat /\ first \in Nat
    BY <1>5
  <2>2. least <= f[j]
    BY <1>2, <2>1
  <2>3. CASE least = f[j]
    <3>1. j \in those
      BY <2>3
    <3>2. first <= j
      BY <1>4, <3>1
    <3> QED
      BY <2>1, <2>3, <3>2
  <2>4. CASE least # f[j]
    BY <1>5, <2>1, <2>2, <2>4
  <2> QED
    BY <2>3, <2>4
<1> HIDE DEF least, first
<1> QED
  BY <1>5, <1>6

(* Rows that have a date to be closed.                                                   *)
Dated(S, t) ==
  S \in SUBSET Entries /\ \A i \in S : ClosesAt(row[i], t) \in Nat

(* They are finitely many, and in one order.                                            *)
LEMMA DatedFacts ==
  ASSUME NEW t, NEW S, Dated(S, t)
  PROVE  /\ S \in SUBSET Nat /\ IsFiniteSet(S) /\ Cardinality(S) \in Nat
         /\ \A i \in S : ~Sooner(i, i, t)
         /\ \A i, j \in S : i # j => Sooner(i, j, t) \/ Sooner(j, i, t)
         /\ \A i, j \in S : ~(Sooner(i, j, t) /\ Sooner(j, i, t))
         /\ \A i, j, k \in S : Sooner(i, j, t) /\ Sooner(j, k, t) => Sooner(i, k, t)
<1>1. S \in SUBSET Nat /\ IsFiniteSet(S) /\ Cardinality(S) \in Nat
  <2>1. S \in SUBSET Entries /\ IsFiniteSet(Entries) /\ Entries \subseteq Nat
    BY StalenessAssumption DEF Dated
  <2> QED
    BY <2>1, FS_Subset, FS_CardinalityType
<1>2. \A i \in S : i \in Nat /\ ClosesAt(row[i], t) \in Nat
  BY <1>1 DEF Dated
<1>3. \A i, j : Sooner(i, j, t) <=>
        \/ ClosesAt(row[i], t) < ClosesAt(row[j], t)
        \/ ClosesAt(row[i], t) = ClosesAt(row[j], t) /\ i < j
  BY DEF Sooner
<1> DEFINE c(i) == ClosesAt(row[i], t)
<1> HIDE DEF c
<1>4. \A i \in S : i \in Nat /\ c(i) \in Nat
  BY <1>2 DEF c
<1>5. \A i, j : Sooner(i, j, t) <=> c(i) < c(j) \/ (c(i) = c(j) /\ i < j)
  BY <1>3 DEF c
<1>6. \A i \in S : ~Sooner(i, i, t)
  BY <1>4, <1>5
<1>7. \A i, j \in S : i # j => Sooner(i, j, t) \/ Sooner(j, i, t)
  BY <1>4, <1>5
<1>8. \A i, j \in S : ~(Sooner(i, j, t) /\ Sooner(j, i, t))
  BY <1>4, <1>5
<1>9. ASSUME NEW i \in S, NEW j \in S, NEW k \in S, Sooner(i, j, t), Sooner(j, k, t)
      PROVE  Sooner(i, k, t)
  <2>1. /\ i \in Nat /\ j \in Nat /\ k \in Nat /\ c(i) \in Nat /\ c(j) \in Nat /\ c(k) \in Nat
    BY <1>4
  <2> QED
    BY <1>5, <1>9, <2>1
<1> QED
  BY <1>1, <1>6, <1>7, <1>8, <1>9

(* How many close before one, of a set and of what is in it.                               *)
Before(S, i, t) == {j \in S : Sooner(j, i, t)}

(* A part has no more of them than the whole. *)
LEMMA BeforeFacts ==
  ASSUME NEW t, NEW S, Dated(S, t), NEW T \in SUBSET S, NEW i
  PROVE  /\ IsFiniteSet(Before(S, i, t)) /\ Cardinality(Before(S, i, t)) \in Nat
         /\ Cardinality(Before(T, i, t)) \in Nat
         /\ Cardinality(Before(T, i, t)) <= Cardinality(Before(S, i, t))
<1>1. IsFiniteSet(S)
  BY DatedFacts
<1>2. Before(S, i, t) \in SUBSET S /\ Before(T, i, t) \in SUBSET Before(S, i, t)
  BY DEF Before
<1> QED
  BY <1>1, <1>2, FS_Subset, FS_CardinalityType

(* The soonest are those with fewer than n before them. *)
LEMMA SoonestIs ==
  ASSUME NEW S, NEW n, NEW t
  PROVE  Soonest(S, n, t) = {i \in S : Cardinality(Before(S, i, t)) < n}
BY DEF Soonest, Before

(* Whoever closes before one of the soonest is one of them.                               *)
LEMMA SoonestIsClosed ==
  ASSUME NEW t, NEW S, Dated(S, t), NEW n \in Nat, NEW i \in Soonest(S, n, t), NEW j \in S,
         Sooner(j, i, t)
  PROVE  j \in Soonest(S, n, t)
<1>1. i \in S /\ Cardinality(Before(S, i, t)) < n
  BY SoonestIs
<1>2. Before(S, j, t) \subseteq Before(S, i, t)
  BY <1>1, DatedFacts DEF Before
<1>3. IsFiniteSet(Before(S, i, t)) /\ Cardinality(Before(S, i, t)) \in Nat
  BY BeforeFacts
<1>4. Cardinality(Before(S, j, t)) \in Nat /\ Cardinality(Before(S, j, t)) <= Cardinality(Before(S, i, t))
  BY <1>2, <1>3, FS_Subset, FS_CardinalityType
<1> QED
  BY <1>1, <1>3, <1>4, SoonestIs

(* So that it has as many before it in the whole as among them.                            *)
LEMMA SameBefore ==
  ASSUME NEW t, NEW S, Dated(S, t), NEW n \in Nat, NEW i \in Soonest(S, n, t)
  PROVE  Before(Soonest(S, n, t), i, t) = Before(S, i, t)
<1>1. Soonest(S, n, t) \subseteq S
  BY SoonestIs
<1>2. \A j \in S : Sooner(j, i, t) => j \in Soonest(S, n, t)
  BY SoonestIsClosed
<1> QED
  BY <1>1, <1>2 DEF Before

(* They are n, unless they are all.                                                       *)
LEMMA SoonestCounted ==
  ASSUME NEW t, NEW S, Dated(S, t), NEW n \in Nat, Soonest(S, n, t) # S
  PROVE  /\ Cardinality(Soonest(S, n, t)) >= n /\ Cardinality(Soonest(S, n, t)) \in Nat
         /\ \A x \in S \ Soonest(S, n, t) : \A j \in Soonest(S, n, t) : Sooner(j, x, t)
<1> DEFINE K == Soonest(S, n, t)
           rest == S \ K
           f == [i \in rest |-> ClosesAt(row[i], t)]
<1>1. K \subseteq S /\ rest # {} /\ S \in SUBSET Nat /\ IsFiniteSet(S)
  BY SoonestIs, DatedFacts
<1>2. f \in [rest -> Nat]
  BY DEF Dated
<1>3. PICK m \in rest : \A j \in rest \ {m} : f[m] < f[j] \/ (f[m] = f[j] /\ m < j)
  <2>1. rest \in SUBSET Nat
    BY <1>1
  <2> HIDE DEF rest, f
  <2> QED
    BY <1>1, <1>2, <2>1, OneIsFirst
<1>4. \A j \in rest \ {m} : Sooner(m, j, t)
  BY <1>3 DEF Sooner
<1>5. Before(S, m, t) \subseteq K
  <2>1. \A j \in rest : ~Sooner(j, m, t)
    BY <1>3, <1>4, DatedFacts
  <2> QED
    BY <2>1 DEF Before
<1>6. ~(Cardinality(Before(S, m, t)) < n)
  BY <1>3, SoonestIs
<1>7. Cardinality(Before(S, m, t)) \in Nat
  BY <1>3, BeforeFacts
<1>8. IsFiniteSet(K) /\ Cardinality(K) \in Nat /\ Cardinality(Before(S, m, t)) <= Cardinality(K)
  <2> HIDE DEF K
  <2> QED
    BY <1>1, <1>5, FS_Subset, FS_CardinalityType
<1>9. \A x \in rest : \A j \in K : Sooner(j, x, t)
  <2>1. ASSUME NEW x \in rest, NEW j \in K PROVE Sooner(j, x, t)
    <3>1. ~Sooner(x, j, t) /\ x # j /\ x \in S /\ j \in S
      BY <1>1, <2>1, SoonestIsClosed
    <3> QED
      BY <3>1, DatedFacts
  <2> QED
    BY <2>1
<1> QED
  BY <1>6, <1>7, <1>8, <1>9

(* The soonest of the soonest.                                                            *)
LEMMA SoonestNested ==
  ASSUME NEW t, NEW S, Dated(S, t), NEW n \in Nat, NEW m \in Nat, m <= n
  PROVE  Soonest(Soonest(S, n, t), m, t) = Soonest(S, m, t)
<1> DEFINE K == Soonest(S, n, t)
<1>1. K \subseteq S
  BY SoonestIs
<1>2. \A i \in K : Before(K, i, t) = Before(S, i, t)
  BY SameBefore
<1>3. \A i \in S : Cardinality(Before(S, i, t)) < m => i \in K
  <2>1. ASSUME NEW i \in S, Cardinality(Before(S, i, t)) < m PROVE i \in K
    <3>1. Cardinality(Before(S, i, t)) \in Nat
      BY BeforeFacts
    <3>2. Cardinality(Before(S, i, t)) < n
      BY <2>1, <3>1
    <3> QED
      BY <3>2, SoonestIs
  <2> QED
    BY <2>1
<1>4. Soonest(K, m, t) = {i \in K : Cardinality(Before(K, i, t)) < m}
  BY SoonestIs
<1>5. Soonest(S, m, t) = {i \in S : Cardinality(Before(S, i, t)) < m}
  BY SoonestIs
<1> HIDE DEF K
<1>6. Soonest(K, m, t) = Soonest(S, m, t)
  BY <1>1, <1>2, <1>3, <1>4, <1>5
<1> QED
  BY <1>6 DEF K

(* What is kept of a walk is enough: one more row makes the same of it as of all.            *)
LEMMA OneMoreRow ==
  ASSUME NEW t, NEW S, NEW x, Dated(S \cup {x}, t), NEW n \in Nat
  PROVE  Soonest(Soonest(S, n, t) \cup {x}, n, t) = Soonest(S \cup {x}, n, t)
<1> DEFINE K == Soonest(S, n, t)
           A == S \cup {x}
           B == K \cup {x}
<1>1. Dated(S, t) /\ K \subseteq S /\ B \in SUBSET A
  BY SoonestIs DEF Dated
<1>2. Soonest(B, n, t) = {i \in B : Cardinality(Before(B, i, t)) < n}
  BY SoonestIs
<1>3. Soonest(A, n, t) = {i \in A : Cardinality(Before(A, i, t)) < n}
  BY SoonestIs
<1>4. ASSUME NEW i \in A, Cardinality(Before(A, i, t)) < n PROVE i \in B /\ Cardinality(Before(B, i, t)) < n
  <2>1. /\ Cardinality(Before(B, i, t)) \in Nat /\ Cardinality(Before(A, i, t)) \in Nat
        /\ Cardinality(Before(B, i, t)) <= Cardinality(Before(A, i, t))
    BY <1>1, BeforeFacts
  <2>2. /\ Cardinality(Before(S, i, t)) \in Nat
        /\ Cardinality(Before(S, i, t)) <= Cardinality(Before(A, i, t))
    BY BeforeFacts
  <2>3. i \in S => i \in K
    <3>1. Cardinality(Before(S, i, t)) < n
      BY <1>4, <2>1, <2>2
    <3> QED
      BY <3>1, SoonestIs
  <2> QED
    BY <1>4, <2>1, <2>3
<1>5. ASSUME NEW i \in B, Cardinality(Before(B, i, t)) < n PROVE i \in A /\ Cardinality(Before(A, i, t)) < n
  <2>1. Before(K, i, t) = Before(S, i, t)
    <3>1. CASE i \in K
      BY <1>1, <3>1, SameBefore
    <3>2. CASE i \notin K
      <4>1. SUFFICES ASSUME NEW y \in S \ K, Sooner(y, i, t) PROVE FALSE
        BY <1>1 DEF Before
      <4>2. /\ Cardinality(K) >= n /\ Cardinality(K) \in Nat
            /\ \A j \in K : Sooner(j, y, t)
        BY <1>1, <4>1, SoonestCounted
      <4>3. \A j \in K : Sooner(j, i, t)
        <5>1. \A j \in K : j \in A /\ y \in A /\ i \in A
          BY <1>1, <4>1
        <5> QED
          BY <4>1, <4>2, <5>1, DatedFacts
      <4>4. K \subseteq Before(B, i, t)
        BY <4>3 DEF Before
      <4>5. Dated(B, t)
        BY <1>1 DEF Dated
      <4>6. IsFiniteSet(Before(B, i, t)) /\ Cardinality(Before(B, i, t)) \in Nat
        BY <4>5, BeforeFacts
      <4>7. Cardinality(K) <= Cardinality(Before(B, i, t))
        <5> HIDE DEF K, B
        <5> QED
          BY <4>4, <4>6, FS_Subset
      <4> QED
        BY <1>5, <4>2, <4>6, <4>7
    <3> QED
      BY <3>1, <3>2
  <2>2. Before(B, i, t) = Before(A, i, t)
    BY <2>1 DEF Before
  <2> QED
    BY <1>1, <1>5, <2>2
<1> HIDE DEF A, B
<1>6. Soonest(B, n, t) = Soonest(A, n, t)
  BY <1>2, <1>3, <1>4, <1>5
<1> QED
  BY <1>6 DEF A, B, K

(* Rows that all close after the n that are kept do not change what is kept.                *)
LEMMA LaterRows ==
  ASSUME NEW t, NEW S, Dated(S, t), NEW A \in SUBSET S, NEW n \in Nat,
         Cardinality(Soonest(A, n, t)) = n,
         \A x \in S \ A : \A j \in Soonest(A, n, t) : Sooner(j, x, t)
  PROVE  Soonest(S, n, t) = Soonest(A, n, t)
<1> DEFINE K == Soonest(A, n, t)
<1>1. Dated(A, t) /\ K = {i \in A : Cardinality(Before(A, i, t)) < n}
  BY SoonestIs DEF Dated
<1>2. Soonest(S, n, t) = {i \in S : Cardinality(Before(S, i, t)) < n}
  BY SoonestIs
<1>3. ASSUME NEW i \in K PROVE Before(S, i, t) = Before(A, i, t)
  <2>1. \A x \in S \ A : ~Sooner(x, i, t)
    BY <1>1, <1>3, DatedFacts
  <2> QED
    BY <2>1 DEF Before
<1>4. ASSUME NEW i \in A \ K PROVE ~(Cardinality(Before(S, i, t)) < n)
  <2>1. /\ Cardinality(Before(A, i, t)) \in Nat /\ Cardinality(Before(S, i, t)) \in Nat
        /\ Cardinality(Before(A, i, t)) <= Cardinality(Before(S, i, t))
    BY BeforeFacts
  <2> QED
    BY <1>1, <1>4, <2>1
<1>5. ASSUME NEW i \in S \ A PROVE ~(Cardinality(Before(S, i, t)) < n)
  <2>1. K \in SUBSET Before(S, i, t)
    BY <1>1, <1>5 DEF Before
  <2>2. IsFiniteSet(Before(S, i, t)) /\ Cardinality(Before(S, i, t)) \in Nat
    BY BeforeFacts
  <2>3. Cardinality(K) <= Cardinality(Before(S, i, t))
    <3> HIDE DEF K
    <3> QED
      BY <2>1, <2>2, FS_Subset
  <2> QED
    BY <2>2, <2>3
<1> HIDE DEF K
<1>6. Soonest(S, n, t) = K
  BY <1>1, <1>2, <1>3, <1>4, <1>5
<1> QED
  BY <1>6 DEF K

(* The walk. What is done again and again is done as often as there are numbers.            *)
LEMMA Iterated ==
  ASSUME NEW S, NEW a \in S, NEW G \in [S -> S]
  PROVE  \E f \in [Nat -> S] : f[0] = a /\ \A k \in Nat : f[k + 1] = G[f[k]]
<1> DEFINE Chain(n) == {f \in [0..n -> S] : f[0] = a /\ \A k \in 0..(n - 1) : f[k + 1] = G[f[k]]}
<1>0. \A n \in Nat : \A f : f \in Chain(n) <=>
        f \in [0..n -> S] /\ f[0] = a /\ \A k \in 0..(n - 1) : f[k + 1] = G[f[k]]
  OBVIOUS
<1> HIDE DEF Chain
<1>1. \A n \in Nat : Chain(n) # {}
  <2> DEFINE bad == {n \in Nat : Chain(n) = {}}
             m == Earliest(bad)
  <2>1. SUFFICES ASSUME bad # {} PROVE FALSE
    OBVIOUS
  <2>2. m \in bad /\ \A n \in bad : m <= n
    <3>1. bad \in SUBSET Nat
      OBVIOUS
    <3> HIDE DEF bad
    <3> QED
      BY <2>1, <3>1, EarliestIs
  <2>3. Chain(0) # {}
    <3> DEFINE c == [k \in 0..0 |-> a]
    <3>1. c \in [0..0 -> S] /\ c[0] = a /\ \A k \in 0..(0 - 1) : FALSE
      OBVIOUS
    <3> HIDE DEF c
    <3>2. c \in Chain(0)
      BY <1>0, <3>1
    <3> QED
      BY <3>2
  <2> HIDE DEF m
  <2>4. m \in Nat /\ m # 0 /\ m - 1 \in Nat /\ Chain(m) = {}
    BY <2>2, <2>3
  <2>5. m - 1 \notin bad
    <3> HIDE DEF bad
    <3> QED
      BY <2>2, <2>4
  <2>6. PICK g : g \in Chain(m - 1)
    BY <2>4, <2>5
  <2> DEFINE h == [k \in 0..m |-> IF k = m THEN G[g[m - 1]] ELSE g[k]]
  <2>7. g \in [0..(m - 1) -> S] /\ g[0] = a /\ \A k \in 0..((m - 1) - 1) : g[k + 1] = G[g[k]]
    BY <1>0, <2>4, <2>6
  <2>8. h \in [0..m -> S]
    <3>1. g[m - 1] \in S
      BY <2>4, <2>7
    <3>2. ASSUME NEW k \in 0..m PROVE h[k] \in S
      <4>1. k # m => k \in 0..(m - 1)
        BY <2>4
      <4> QED
        BY <2>7, <3>1, <4>1
    <3> QED
      BY <3>2
  <2>9. h[0] = a
    BY <2>4, <2>7
  <2>10. ASSUME NEW k \in 0..(m - 1) PROVE h[k + 1] = G[h[k]]
    <3>1. CASE k = m - 1
      BY <2>4, <3>1
    <3>2. CASE k # m - 1
      <4>1. k \in 0..((m - 1) - 1) /\ k + 1 \in 0..m /\ k + 1 # m /\ k # m /\ k \in 0..m
        BY <2>4, <3>2
      <4> QED
        BY <2>7, <4>1
    <3> QED
      BY <3>1, <3>2
  <2>11. h \in Chain(m)
    <3> HIDE DEF h
    <3> QED
      BY <1>0, <2>4, <2>8, <2>9, <2>10
  <2> QED
    BY <2>4, <2>11
<1>2. \A m, n \in Nat : \A f \in Chain(m), g \in Chain(n) : \A k \in Nat : k <= m /\ k <= n => f[k] = g[k]
  <2> DEFINE bad == {k \in Nat : \E m, n \in Nat : \E f \in Chain(m), g \in Chain(n) :
                        k <= m /\ k <= n /\ f[k] # g[k]}
             d == Earliest(bad)
  <2>1. SUFFICES ASSUME bad # {} PROVE FALSE
    OBVIOUS
  <2>2. d \in bad /\ \A k \in bad : d <= k
    <3>1. bad \in SUBSET Nat
      OBVIOUS
    <3> HIDE DEF bad
    <3> QED
      BY <2>1, <3>1, EarliestIs
  <2> HIDE DEF d
  <2>3. PICK m \in Nat, n \in Nat : \E f \in Chain(m), g \in Chain(n) : d <= m /\ d <= n /\ f[d] # g[d]
    BY <2>2
  <2>4. PICK f \in Chain(m), g \in Chain(n) : d <= m /\ d <= n /\ f[d] # g[d]
    BY <2>3
  <2>5. d \in Nat /\ d # 0 /\ d - 1 \in Nat
    BY <1>0, <2>2, <2>3, <2>4
  <2>6. d - 1 \notin bad
    <3> HIDE DEF bad
    <3> QED
      BY <2>2, <2>5
  <2>7. f[d - 1] = g[d - 1]
    <3>1. d - 1 <= m /\ d - 1 <= n
      BY <2>4, <2>5
    <3> QED
      BY <2>4, <2>5, <2>6, <3>1
  <2>8. d - 1 \in 0..(m - 1) /\ d - 1 \in 0..(n - 1) /\ (d - 1) + 1 = d
    BY <2>4, <2>5
  <2>9. f[d] = G[f[d - 1]] /\ g[d] = G[g[d - 1]]
    BY <1>0, <2>4, <2>8
  <2> QED
    BY <2>4, <2>7, <2>9
<1> DEFINE pick(n) == CHOOSE f : f \in Chain(n)
           F == [n \in Nat |-> pick(n)[n]]
<1>3. \A n \in Nat : pick(n) \in Chain(n)
  BY <1>1
<1> HIDE DEF pick
<1>4. \A n \in Nat : pick(n) \in [0..n -> S] /\ pick(n)[0] = a
                     /\ \A k \in 0..(n - 1) : pick(n)[k + 1] = G[pick(n)[k]]
  BY <1>0, <1>3
<1>5. F \in [Nat -> S] /\ F[0] = a
  <2>1. ASSUME NEW n \in Nat PROVE pick(n)[n] \in S
    <3>1. n \in 0..n
      OBVIOUS
    <3> QED
      BY <1>4, <3>1
  <2> QED
    BY <1>4, <2>1
<1>6. ASSUME NEW k \in Nat PROVE F[k + 1] = G[F[k]]
  <2>1. k + 1 \in Nat /\ k \in 0..((k + 1) - 1) /\ k <= k + 1 /\ k <= k
    OBVIOUS
  <2>2. pick(k + 1)[k + 1] = G[pick(k + 1)[k]]
    BY <1>4, <2>1
  <2>3. pick(k + 1)[k] = pick(k)[k]
    BY <1>2, <1>3, <2>1
  <2> QED
    BY <2>1, <2>2, <2>3
<1> QED
  BY <1>5, <1>6

(* The rows of a walk, those it has examined or not, and what there is to find among them.    *)
ScanState == [seen : SUBSET Entries, kept : SUBSET Entries, proven : BOOLEAN]
Closing(S, horizon, t) ==
  {i \in S : ClosesAt(row[i], t) # None /\ ClosesAt(row[i], t) <= horizon}

(* The next row is the one that is quiet for longest.                                      *)
LEMMA NextRowIs ==
  ASSUME EntriesInv, NEW left \in SUBSET Entries, left # {}
  PROVE  /\ QuietLongest(left) \in left
         /\ \A j \in left : QuietUntil(row[QuietLongest(left)]) <= QuietUntil(row[j])
<1> DEFINE f == [i \in left |-> row[i].touched]
           first == QuietLongest(left)
<1>1. \A i \in Entries : row[i] \in Row /\ row[i].touched \in Nat
  BY EntriesParts, RowFacts DEF KeyHolds
<1>2. left \in SUBSET Nat /\ f \in [left -> Nat]
  BY <1>1, StalenessAssumption
<1>3. PICK i \in left : \A j \in left \ {i} : f[i] < f[j] \/ (f[i] = f[j] /\ i < j)
  <2> HIDE DEF f
  <2> QED
    BY <1>2, OneIsFirst
<1>4. \A j \in left \ {i} : QuietLonger(i, j)
  BY <1>3 DEF QuietLonger
<1>5. first \in left /\ \A j \in left \ {first} : QuietLonger(first, j)
  BY <1>3, <1>4 DEF QuietLongest
<1> HIDE DEF first
<1>6. \A j \in left : row[first].touched <= row[j].touched
  BY <1>1, <1>5 DEF QuietLonger
<1>7. InactiveAfter \in Nat
  BY StalenessAssumption
<1>8. ASSUME NEW j \in left PROVE QuietUntil(row[first]) <= QuietUntil(row[j])
  <2>1. row[first].touched \in Nat /\ row[j].touched \in Nat /\ row[first].touched <= row[j].touched
    BY <1>1, <1>5, <1>6
  <2> QED
    BY <1>7, <2>1 DEF QuietUntil
<1> QED
  BY <1>5, <1>8 DEF first

(* A step of the walk is one.                                                            *)
LEMMA ExamineTyped ==
  ASSUME EntriesInv, NEW w \in ScanState, NEW horizon, NEW n, NEW t
  PROVE  ExamineNext(w, horizon, n, t) \in ScanState
<1> DEFINE left == ClosingCandidates(horizon) \ w.seen
           i == QuietLongest(left)
<1>1. left \in SUBSET Entries
  BY DEF ClosingCandidates
<1>2. CASE left = {} \/ w.proven
  BY <1>2 DEF ExamineNext
<1>3. CASE ~(left = {} \/ w.proven)
  <2>1. i \in Entries
    BY <1>1, <1>3, NextRowIs
  <2>2. ExamineNext(w, horizon, n, t) = Examine(w, i, horizon, n, t)
    BY <1>3 DEF ExamineNext
  <2>3. Soonest(w.kept \cup {i}, n, t) \in SUBSET Entries
    BY <2>1, SoonestIs DEF ScanState
  <2> HIDE DEF i
  <2> QED
    BY <2>1, <2>2, <2>3 DEF Examine, ScanState
<1> QED
  BY <1>2, <1>3

(* The walk, step by step.                                                               *)
LEMMA ScanIs ==
  ASSUME EntriesInv, NEW horizon, NEW n, NEW t
  PROVE  LET scan == Scan(horizon, n, t)
         IN /\ scan[0] = [seen |-> {}, kept |-> {}, proven |-> FALSE]
            /\ \A k \in Nat : scan[k + 1] = ExamineNext(scan[k], horizon, n, t)
<1> DEFINE start == [seen |-> {}, kept |-> {}, proven |-> FALSE]
           G == [w \in ScanState |-> ExamineNext(w, horizon, n, t)]
           Is(f) == f = [k \in Nat |-> IF k = 0 THEN start ELSE ExamineNext(f[k - 1], horizon, n, t)]
<1>1. start \in ScanState /\ G \in [ScanState -> ScanState]
  BY ExamineTyped DEF ScanState
<1>2. PICK f \in [Nat -> ScanState] : f[0] = start /\ \A k \in Nat : f[k + 1] = G[f[k]]
  <2> HIDE DEF start, G
  <2> QED
    BY <1>1, Iterated
<1>3. Is(f)
  <2>1. ASSUME NEW k \in Nat PROVE f[k] = IF k = 0 THEN start ELSE ExamineNext(f[k - 1], horizon, n, t)
    <3>1. CASE k = 0
      BY <1>2, <3>1
    <3>2. CASE k # 0
      <4>1. k - 1 \in Nat /\ (k - 1) + 1 = k
        BY <3>2
      <4>2. f[k] = G[f[k - 1]] /\ f[k - 1] \in ScanState
        BY <1>2, <4>1
      <4> QED
        BY <3>2, <4>2
    <3> QED
      BY <3>1, <3>2
  <2> QED
    BY <1>2, <2>1
<1>4. Scan(horizon, n, t) = CHOOSE g : Is(g)
  BY DEF Scan
<1> DEFINE scan == Scan(horizon, n, t)
<1>5. Is(scan)
  <2> HIDE DEF Is
  <2> QED
    BY <1>3, <1>4
<1> HIDE DEF scan, start
<1>6. scan[0] = start
  BY <1>5
<1>7. ASSUME NEW k \in Nat PROVE scan[k + 1] = ExamineNext(scan[k], horizon, n, t)
  <2>1. k + 1 \in Nat /\ k + 1 # 0 /\ (k + 1) - 1 = k
    OBVIOUS
  <2> QED
    BY <1>5, <2>1
<1> QED
  BY <1>6, <1>7 DEF scan, start

(* What a walk of k rows knows: what is kept are the soonest of what it has examined, and   *)
(* of all when it is proven.                                                             *)
ScanHolds(w, k, horizon, n, t) ==
  LET rows == ClosingCandidates(horizon)
  IN /\ w \in ScanState /\ w.seen \subseteq rows
     /\ ~w.proven => w.seen = rows \/ Cardinality(w.seen) = k
     /\ w.kept = Soonest(Closing(IF w.proven THEN rows ELSE w.seen, horizon, t), n, t)

(* Rows that close within a window have a date, after their quiet period. *)
LEMMA ClosingFacts ==
  ASSUME EntriesInv, NEW S \in SUBSET Entries, NEW horizon, NEW t \in Nat
  PROVE  /\ Dated(Closing(S, horizon, t), t) /\ Closing(S, horizon, t) \subseteq S
         /\ \A i \in Closing(S, horizon, t) : QuietUntil(row[i]) <= ClosesAt(row[i], t)
<1>1. \A i \in Entries : row[i] \in Row
  BY EntriesParts DEF KeyHolds
<1>2. \A i \in Entries : ClosesAt(row[i], t) # None =>
        ClosesAt(row[i], t) \in Nat /\ QuietUntil(row[i]) <= ClosesAt(row[i], t)
  BY <1>1, ClosesAtIs
<1> QED
  BY <1>2 DEF Dated, Closing

(* One more row is looked at, or the walk has ended. *)
LEMMA ScanStep ==
  ASSUME EntriesInv, NEW horizon \in Nat, NEW n \in Nat, NEW t \in Nat, NEW k \in Nat,
         NEW w, ScanHolds(w, k, horizon, n, t)
  PROVE  ScanHolds(ExamineNext(w, horizon, n, t), k + 1, horizon, n, t)
<1> DEFINE rows == ClosingCandidates(horizon)
           left == rows \ w.seen
           i == QuietLongest(left)
           new == ExamineNext(w, horizon, n, t)
           closes == ClosesAt(row[i], t)
<1> SUFFICES ScanHolds(new, k + 1, horizon, n, t)
  OBVIOUS
<1>1. /\ w \in ScanState /\ w.seen \subseteq rows
      /\ ~w.proven => w.seen = rows \/ Cardinality(w.seen) = k
      /\ w.kept = Soonest(Closing(IF w.proven THEN rows ELSE w.seen, horizon, t), n, t)
  BY DEF ScanHolds
<1>2. new \in ScanState /\ rows \in SUBSET Entries /\ left \in SUBSET Entries
  BY <1>1, ExamineTyped DEF ClosingCandidates
<1>3. CASE left = {} \/ w.proven
  <2>1. new = w
    BY <1>3 DEF ExamineNext
  <2>2. ~w.proven => w.seen = rows
    BY <1>1, <1>3
  <2> HIDE DEF new
  <2> QED
    BY <1>1, <2>1, <2>2, Zenon DEF ScanHolds
<1>4. CASE ~(left = {} \/ w.proven)
  <2>1. new = Examine(w, i, horizon, n, t)
    BY <1>4 DEF ExamineNext
  <2>2. i \in left /\ \A j \in left : QuietUntil(row[i]) <= QuietUntil(row[j])
    BY <1>2, <1>4, NextRowIs
  <2>3. w.seen \in SUBSET Entries /\ w.proven = FALSE
    BY <1>1, <1>4 DEF ScanState
  <2> HIDE DEF i, new, rows
  <2> DEFINE A == Closing(w.seen, horizon, t)
             D == Closing(rows, horizon, t)
  <2>4. w.kept = Soonest(A, n, t)
    BY <1>1, <2>3
  <2>5. /\ Dated(A, t) /\ A \subseteq w.seen
        /\ Dated(D, t) /\ \A x \in D : QuietUntil(row[x]) <= ClosesAt(row[x], t)
    BY <1>2, <2>3, ClosingFacts
  <2>6. CASE NothingEarlier(w.kept, n, QuietUntil(row[i]), t)
    <3>1. Cardinality(Soonest(A, n, t)) = n /\ \A j \in Soonest(A, n, t) : ClosesAt(row[j], t) < QuietUntil(row[i])
      BY <2>4, <2>6 DEF NothingEarlier
    <3>2. A \in SUBSET D
      BY <1>1 DEF Closing
    <3>3. ASSUME NEW x \in D \ A, NEW j \in Soonest(A, n, t) PROVE Sooner(j, x, t)
      <4>1. x \in left /\ j \in A
        BY <3>3, SoonestIs DEF Closing
      <4>2. /\ ClosesAt(row[j], t) \in Nat /\ ClosesAt(row[x], t) \in Nat
            /\ QuietUntil(row[i]) \in Nat /\ QuietUntil(row[x]) \in Nat
        <5>1. \A y \in Entries : row[y] \in Row
          BY EntriesParts DEF KeyHolds
        <5>2. \A y \in Entries : QuietUntil(row[y]) \in Nat
          BY <5>1, RowFacts, StalenessAssumption DEF QuietUntil
        <5> QED
          BY <1>2, <2>2, <2>5, <4>1, <5>2 DEF Dated
      <4>3. /\ ClosesAt(row[j], t) < QuietUntil(row[i]) /\ QuietUntil(row[i]) <= QuietUntil(row[x])
            /\ QuietUntil(row[x]) <= ClosesAt(row[x], t)
        BY <2>2, <2>5, <3>1, <3>3, <4>1
      <4>4. ClosesAt(row[j], t) < ClosesAt(row[x], t)
        BY <4>2, <4>3
      <4> QED
        BY <4>4 DEF Sooner
    <3> HIDE DEF A, D
    <3>4. Soonest(D, n, t) = Soonest(A, n, t)
      BY <2>5, <3>1, <3>2, <3>3, LaterRows
    <3>5. new = [w EXCEPT !.proven = TRUE]
      BY <2>1, <2>6 DEF Examine
    <3>6. new.proven = TRUE /\ new.seen = w.seen /\ new.kept = w.kept
      BY <1>1, <3>5 DEF ScanState
    <3> HIDE DEF left
    <3> QED
      BY <1>1, <1>2, <2>4, <3>4, <3>6 DEF ScanHolds, A, D, rows
  <2>7. CASE ~NothingEarlier(w.kept, n, QuietUntil(row[i]), t)
    <3> DEFINE more == w.seen \cup {i}
               B == Closing(more, horizon, t)
    <3>1. new = [w EXCEPT !.seen = @ \cup {i},
                          !.kept = IF closes = None \/ closes > horizon THEN @ ELSE Soonest(@ \cup {i}, n, t)]
      BY <2>1, <2>7 DEF Examine
    <3>2. /\ new.proven = FALSE /\ new.seen = more
          /\ new.kept = IF closes = None \/ closes > horizon THEN w.kept ELSE Soonest(w.kept \cup {i}, n, t)
      BY <1>1, <2>3, <3>1 DEF ScanState
    <3>3. more \in SUBSET Entries /\ more \subseteq rows /\ i \in rows /\ i \notin w.seen
      BY <1>1, <1>2, <2>2, <2>3
    <3>4. Dated(B, t)
      BY <3>3, ClosingFacts
    <3>5. new.kept = Soonest(B, n, t)
      <4>1. closes # None => closes \in Nat
        <5>1. row[i] \in Row
          BY <1>2, <2>2, EntriesParts DEF KeyHolds
        <5> QED
          BY <5>1, ClosesAtIs
      <4>2. CASE closes = None \/ closes > horizon
        <5>1. B = A
          <6>1. i \notin B
            BY <4>1, <4>2 DEF Closing
          <6> QED
            BY <6>1 DEF Closing
        <5> QED
          BY <2>4, <3>2, <4>2, <5>1
      <4>3. CASE ~(closes = None \/ closes > horizon)
        <5>1. B = A \cup {i}
          <6>1. i \in B
            BY <4>1, <4>3 DEF Closing
          <6> QED
            BY <6>1 DEF Closing
        <5> HIDE DEF A, B
        <5>2. new.kept = Soonest(Soonest(A, n, t) \cup {i}, n, t)
          BY <2>4, <3>2, <4>3
        <5>3. Dated(A \cup {i}, t)
          BY <3>4, <5>1
        <5>4. Soonest(Soonest(A, n, t) \cup {i}, n, t) = Soonest(A \cup {i}, n, t)
          BY <5>3, OneMoreRow
        <5> QED
          BY <5>1, <5>2, <5>4
      <4> QED
        BY <4>2, <4>3
    <3>6. more = rows \/ Cardinality(more) = k + 1
      <4>1. Cardinality(w.seen) = k
        BY <1>1, <1>4, <2>3
      <4>2. IsFiniteSet(w.seen)
        BY <2>3, FS_Subset, StalenessAssumption
      <4>3. Cardinality(more) = k + 1
        BY <3>3, <4>1, <4>2, FS_AddElement
      <4> QED
        BY <4>3
    <3> HIDE DEF B, more, left
    <3> QED
      BY <1>2, <3>2, <3>3, <3>5, <3>6 DEF ScanHolds, B, rows
  <2> QED
    BY <2>6, <2>7
<1> QED
  BY <1>3, <1>4

(* And so after any number of rows.                                                       *)
LEMMA ScansHold ==
  ASSUME EntriesInv, NEW horizon \in Nat, NEW n \in Nat, NEW t \in Nat, NEW k \in Nat
  PROVE  ScanHolds(Scan(horizon, n, t)[k], k, horizon, n, t)
<1> DEFINE bad == {j \in Nat : ~ScanHolds(Scan(horizon, n, t)[j], j, horizon, n, t)}
           m == Earliest(bad)
<1>1. /\ Scan(horizon, n, t)[0] = [seen |-> {}, kept |-> {}, proven |-> FALSE]
      /\ \A j \in Nat : Scan(horizon, n, t)[j + 1] = ExamineNext(Scan(horizon, n, t)[j], horizon, n, t)
  BY ScanIs
<1>2. 0 \notin bad
  <2> DEFINE w == Scan(horizon, n, t)[0]
  <2>1. w \in ScanState /\ w.seen = {} /\ w.kept = {} /\ ~w.proven
    BY <1>1 DEF ScanState
  <2> HIDE DEF w
  <2>2. Soonest(Closing({}, horizon, t), n, t) = {}
    BY DEF Closing, Soonest
  <2>3. Cardinality({}) = 0
    BY FS_EmptySet
  <2>4. ScanHolds(w, 0, horizon, n, t)
    BY <2>1, <2>2, <2>3 DEF ScanHolds
  <2> QED
    BY <2>4 DEF w
<1>3. \A j \in Nat : j \notin bad => j + 1 \notin bad
  <2>1. ASSUME NEW j \in Nat, j \notin bad PROVE j + 1 \notin bad
    <3>1. ScanHolds(Scan(horizon, n, t)[j], j, horizon, n, t)
      BY <2>1
    <3>2. ScanHolds(ExamineNext(Scan(horizon, n, t)[j], horizon, n, t), j + 1, horizon, n, t)
      BY <3>1, ScanStep
    <3> QED
      BY <1>1, <3>2
  <2> QED
    BY <2>1
<1>4. bad \in SUBSET Nat /\ (k \in bad \/ ScanHolds(Scan(horizon, n, t)[k], k, horizon, n, t))
  OBVIOUS
<1> HIDE DEF bad
<1>5. ASSUME bad # {} PROVE FALSE
  <2>1. m \in bad /\ \A j \in bad : m <= j
    BY <1>4, <1>5, EarliestIs
  <2> HIDE DEF m
  <2>2. m \in Nat /\ m # 0 /\ m - 1 \in Nat /\ (m - 1) + 1 = m
    BY <1>2, <1>4, <2>1
  <2>3. m - 1 \notin bad
    BY <2>1, <2>2
  <2> QED
    BY <1>3, <2>1, <2>2, <2>3
<1> QED
  BY <1>4, <1>5

(* The list is exact: unless it says that it is not complete.                             *)
LEMMA ListIsExact ==
  ASSUME EntriesInv, now \in Nat
  PROVE  ClosingsExact
<1>1. ASSUME NEW i \in Entries PROVE PromiseKept(row[i], now)
  <2>1. row[i] \in Row
    BY EntriesParts DEF KeyHolds
  <2> QED
    BY <2>1, PromisesKept
<1>2. ASSUME NEW window \in Windows, NEW limit \in Lengths, NEW cap \in ScanCaps
      PROVE  LET horizon == now + window
                 list == EarliestClosings(horizon, limit, cap, now)
                 closing == {i \in Entries : row[i].open /\ \E u \in now..horizon : WouldClose(row[i], u)}
             IN list.complete => /\ list.due = Soonest(closing, limit, now)
                                 /\ list.truncated <=> Cardinality(closing) > limit
  <2> DEFINE horizon == now + window
             rows == ClosingCandidates(horizon)
             walked == Scan(horizon, limit + 1, now)[cap]
             closing == {i \in Entries : row[i].open /\ \E u \in now..horizon : WouldClose(row[i], u)}
             D == Closing(rows, horizon, now)
             K == Soonest(D, limit + 1, now)
             list == EarliestClosings(horizon, limit, cap, now)
  <2>1. /\ window \in Nat /\ limit \in Nat /\ cap \in Nat /\ horizon \in Nat /\ limit + 1 \in Nat
        /\ limit <= limit + 1
    BY ClosingSoonAssumption
  <2>2. closing = D
    <3>1. ASSUME NEW i \in Entries
          PROVE  i \in closing <=> i \in D
      <4>1. KeyHolds(row[i])
        BY EntriesParts
      <4>2. /\ (\E u \in now..horizon : WouldClose(row[i], u))
                  <=> ClosesAt(row[i], now) # None /\ ClosesAt(row[i], now) <= horizon
            /\ ClosesAt(row[i], now) # None /\ ClosesAt(row[i], now) <= horizon =>
                  QuietUntil(row[i]) <= horizon /\ (row[i].next = None \/ row[i].next <= horizon)
        BY <2>1, <4>1, ClosesInWindow
      <4> HIDE DEF horizon
      <4>3. i \in closing <=> row[i].open /\ ClosesAt(row[i], now) # None /\ ClosesAt(row[i], now) <= horizon
        BY <4>2
      <4>4. i \in rows <=> /\ row[i].open /\ QuietUntil(row[i]) <= horizon
                           /\ row[i].next = None \/ row[i].next <= horizon
        BY DEF ClosingCandidates
      <4>5. i \in D <=> i \in rows /\ ClosesAt(row[i], now) # None /\ ClosesAt(row[i], now) <= horizon
        BY DEF Closing
      <4> QED
        BY <4>2, <4>3, <4>4, <4>5
    <3>2. closing \subseteq Entries /\ D \subseteq Entries
      BY DEF Closing, ClosingCandidates
    <3> HIDE DEF closing, D
    <3> QED
      BY <3>1, <3>2
  <2>3. ScanHolds(walked, cap, horizon, limit + 1, now)
    BY <2>1, ScansHold
  <2>4. rows \in SUBSET Entries /\ IsFiniteSet(rows) /\ Cardinality(rows) \in Nat
    <3>1. rows \in SUBSET Entries
      BY DEF ClosingCandidates
    <3> QED
      BY <3>1, StalenessAssumption, FS_Subset, FS_CardinalityType
  <2>5. Dated(D, now)
    BY <2>4, ClosingFacts
  <2>6. list = [due |-> Soonest(walked.kept, limit, now), truncated |-> Cardinality(walked.kept) > limit,
                complete |-> walked.proven \/ Cardinality(rows) < cap]
    BY DEF EarliestClosings
  <2> HIDE DEF horizon, walked, rows, list
  <2>7. list.complete => walked.kept = K
    <3> SUFFICES ASSUME list.complete PROVE walked.kept = K
      OBVIOUS
    <3>1. /\ walked.seen \subseteq rows /\ walked \in ScanState
          /\ ~walked.proven => walked.seen = rows \/ Cardinality(walked.seen) = cap
          /\ walked.kept = Soonest(Closing(IF walked.proven THEN rows ELSE walked.seen, horizon, now), limit + 1, now)
      BY <2>3 DEF ScanHolds, rows
    <3>2. CASE walked.proven
      BY <3>1, <3>2
    <3>3. CASE ~walked.proven
      <4>1. Cardinality(rows) < cap
        BY <2>6, <3>3
      <4>2. Cardinality(walked.seen) <= Cardinality(rows)
        BY <2>4, <3>1, FS_Subset
      <4>3. walked.seen = rows
        BY <2>1, <2>4, <3>1, <3>3, <4>1, <4>2
      <4> QED
        BY <3>1, <3>3, <4>3
    <3> QED
      BY <3>2, <3>3
  <2> HIDE DEF D, closing
  <2>8. Soonest(K, limit, now) = Soonest(D, limit, now)
    BY <2>1, <2>5, SoonestNested
  <2>9. Cardinality(K) > limit <=> Cardinality(D) > limit
    <3>1. IsFiniteSet(D) /\ Cardinality(D) \in Nat
      BY <2>5, DatedFacts
    <3>2. CASE K = D
      BY <3>2
    <3>3. CASE K # D
      <4>1. Cardinality(K) >= limit + 1 /\ Cardinality(K) \in Nat
        BY <2>1, <2>5, <3>3, SoonestCounted
      <4>2. Cardinality(K) <= Cardinality(D)
        <5>1. K \in SUBSET D
          BY SoonestIs
        <5> HIDE DEF K
        <5> QED
          BY <3>1, <5>1, FS_Subset
      <4> HIDE DEF K
      <4> QED
        BY <2>1, <3>1, <4>1, <4>2
    <3> QED
      BY <3>2, <3>3
  <2> HIDE DEF K
  <2>10. list.complete => list.due = Soonest(closing, limit, now) /\ (list.truncated <=> Cardinality(closing) > limit)
    BY <2>2, <2>6, <2>7, <2>8, <2>9
  <2> QED
    BY <2>10 DEF list, closing, horizon
<1> QED
  BY <1>1, <1>2 DEF ClosingsExact

(* What a reviewer is told will be closed is what the job would close, in the order it would, *)
(* with the dates it would, in every state of a night, for every window, length and scan cap. *)
THEOREM PromisesAreKept == Spec => []ClosingsExact
<1> DEFINE Inv == RunnerInv /\ job \in Jobs /\ EntriesInv
<1>1. Init => Inv
  BY NightStarts, EntriesStart
<1>2. Inv /\ [Next]_vars => Inv'
  BY NightMoves, EntriesSafe
<1>3. Inv => ClosingsExact
  <2>1. RunnerInv => now \in Nat
    BY RunnerFacts DEF RunnerInv, RunnerTypeOK, Times
  <2> QED
    BY <2>1, ListIsExact
<1> HIDE DEF Inv
<1> QED
  BY <1>1, <1>2, <1>3, PTL DEF Spec
=============================================================================
