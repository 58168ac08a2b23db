------------------------------ MODULE Nightly ------------------------------
(***************************************************************************)
(* The jobs of the night's chain under their runner: each of them, by itself *)
(* (they lock by name and share no rows), run by several processes, beside   *)
(* the writes and mails of the day. Which job a behaviour is about is chosen *)
(* at its start.                                                           *)
(***************************************************************************)
EXTENDS ClosingSoon, Reminders, Rollup, Embeddings

CONSTANTS
  Jobs,              \* names of the catalogue, those modelled
  Horizon,           \* how far the clock of a job goes
  Cuts               \* how many connections a job loses

ASSUME NightlyAssumption ==
  /\ Jobs \subseteq {"staleness", "stale-listing-reminders", "analytics-rollup", "embedding-backfill"}
  /\ Horizon \in [Jobs -> 0..MaxNow] /\ Cuts \in [Jobs -> 0..MaxCuts]
  /\ Runners \subseteq Passes

VARIABLE job

vars == <<runnerVars, entryVars, reminderVars, rollupVars, embeddingVars, job>>

Init ==
  /\ job \in Jobs
  /\ RunnerInit /\ RemindersInit /\ RollupInit /\ EmbeddingsInit
  /\ IF job = "staleness" THEN StalenessInit ELSE StalenessIdle

-----------------------------------------------------------------------------
Walking   == job = "staleness" /\ UNCHANGED <<job, reminderVars, rollupVars, embeddingVars>>
Reminding == job = "stale-listing-reminders" /\ UNCHANGED <<job, entryVars, rollupVars, embeddingVars>>
Rolling   == job = "analytics-rollup" /\ UNCHANGED <<job, entryVars, reminderVars, embeddingVars>>
Embedding == job = "embedding-backfill" /\ UNCHANGED <<job, entryVars, reminderVars, rollupVars>>

Begin(r) ==
  \/ Walking /\ BeginWalk(r)
  \/ Reminding /\ BeginReminding(r)
  \/ Rolling /\ BeginRoll(r)
  \/ Embedding /\ BeginBackfill(r)

Work(r) ==
  \/ Walking /\ StepWalk(r)
  \/ Reminding /\ StepReminding(r)
  \/ Rolling /\ StepRoll(r)
  \/ Embedding /\ StepEmbedding(r)

Over(r) ==
  \/ job = "staleness" /\ WalkOver(r)
  \/ job = "stale-listing-reminders" /\ RemindingOver(r)
  \/ job = "analytics-rollup" /\ RolledAll(r)
  \/ job = "embedding-backfill" /\ BackfillOver(r)

(* processed > 0 and remaining > 0: a sweep reports that nothing remains, and one *)
(* recipient is never more than one pass' work.                                  *)
GoesOn(r) ==
  \/ job = "staleness" /\ WalkGoesOn(r)
  \/ job = "embedding-backfill" /\ Pending

(* What a run does last; a transaction under way is rolled back. *)
Finish(r) ==
  \/ Walking /\ EndWalk(r)
  \/ Reminding /\ EndReminding(r)
  \/ Rolling /\ Prune(r)
  \/ Embedding /\ EndBackfill(r)

Abort(r) ==
  \/ Walking /\ EndWalk(r)
  \/ Reminding /\ EndReminding(r)
  \/ Rolling /\ EndRoll(r)
  \/ Embedding /\ EndBackfill(r)

StartRun(r) == Acquire(r) /\ Begin(r)

Step(r) == Running(r) /\ Work(r) /\ UNCHANGED runnerVars

Again(r) ==
  /\ Running(r) /\ Over(r)
  /\ GoesOn(r) /\ pass[r] < MaxPasses
  /\ NextPass(r) /\ Begin(r)

Done(r) ==
  /\ Running(r) /\ Over(r)
  /\ ~(GoesOn(r) /\ pass[r] < MaxPasses)
  /\ EndRun(r) /\ Finish(r)

Crash(r) == Die(r) /\ Abort(r)

Still == UNCHANGED <<entryVars, reminderVars, rollupVars, embeddingVars, job>>

Cut(r) == cuts < Cuts[job] /\ LoseConnection(r) /\ Still

ClockTick == now < Horizon[job] /\ Tick /\ Still

(* What goes on in the API and in other jobs. *)
Day ==
  /\ UNCHANGED runnerVars
  /\ \/ Walking /\ \E i \in Entries, deadlines \in Texts, open \in BOOLEAN : Edit(i, deadlines, open)
     \/ Reminding /\ RemindersEnvironment
     \/ Rolling /\ \E t \in Times : StoreEvent(t)
     \/ Embedding /\ EditText

(* A run whose only entry fails has processed nothing: that is Crash. The check  *)
(* of a write, over the same rows and without the lock, fails by itself.          *)
CheckOfWrite(p) ==
  /\ Embedding /\ UNCHANGED runnerVars
  /\ Start(p) \/ StepEmbedding(p)

ProviderFails(p) ==
  /\ Embedding /\ Fail(p)
  /\ crashes < MaxCrashes /\ crashes' = crashes + 1
  /\ UNCHANGED <<now, lock, pass, cuts>>

Next ==
  \/ \E r \in Runners :
       StartRun(r) \/ Step(r) \/ Again(r) \/ Done(r) \/ Crash(r) \/ Cut(r)
  \/ \E p \in Passes \ Runners : CheckOfWrite(p) \/ ProviderFails(p)
  \/ ClockTick \/ Day

(* Every night some process runs the chain, and a process that runs goes on.      *)
Fairness ==
  /\ \A r \in Runners :
       WF_vars(StartRun(r)) /\ WF_vars(Step(r)) /\ WF_vars(Again(r)) /\ WF_vars(Done(r))
  /\ \A p \in Passes \ Runners : WF_vars(Embedding /\ UNCHANGED runnerVars /\ StepEmbedding(p))

Spec == Init /\ [][Next]_vars
FairSpec == Spec /\ Fairness

-----------------------------------------------------------------------------
(* Properties; those of one job are in its module *)

(* However passes overlap and fail, the vector that is searched ends up the one  *)
(* of the entry's last text, and stays it.                                      *)
EventuallyIndexed == <>[](EmbeddingsTypeOK /\ (job = "embedding-backfill" => stored = text))

(* The night's work gets done.                                                  *)
NightWorkDone == EventuallyClosed /\ EventuallyIndexed
=============================================================================
