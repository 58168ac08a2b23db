----------------------------- MODULE JobRunner -----------------------------
(***************************************************************************)
(* Running a job by its name: the advisory lock of the database, the passes, *)
(* the clock. The lock lives as long as the connection that took it; the job *)
(* works over other connections and does not notice when it is lost.         *)
(***************************************************************************)
EXTENDS Naturals

CONSTANTS
  Runners,           \* processes that may run the job: the night's chain, an admin's request
  MaxPasses,         \* --passes
  MaxNow,            \* bound on the clock
  MaxCuts,           \* bound on lost connections
  MaxCrashes,        \* bound on runs that fail or are killed
  None

ASSUME RunnerAssumption ==
  /\ MaxPasses \in Nat \ {0} /\ MaxNow \in Nat /\ MaxCuts \in Nat /\ MaxCrashes \in Nat
  /\ None \notin Runners \cup Nat

VARIABLES
  now,
  lock,              \* the runner whose connection holds the lock
  pass,              \* the pass a runner is at, 0 when it does not run
  cuts, crashes

runnerVars == <<now, lock, pass, cuts, crashes>>

Times == 0..MaxNow

RunnerTypeOK ==
  /\ now \in Times
  /\ lock \in Runners \cup {None}
  /\ pass \in [Runners -> 0..MaxPasses]
  /\ cuts \in 0..MaxCuts /\ crashes \in 0..MaxCrashes

RunnerInit ==
  /\ now = 0
  /\ lock = None
  /\ pass = [r \in Runners |-> 0]
  /\ cuts = 0 /\ crashes = 0

Running(r) == pass[r] > 0

Release(r) == lock' = IF lock = r THEN None ELSE lock

(* pg_try_advisory_lock; a run that finds the lock held reports so and ends. *)
Acquire(r) ==
  /\ ~Running(r) /\ lock = None
  /\ lock' = r
  /\ pass' = [pass EXCEPT ![r] = 1]
  /\ UNCHANGED <<now, cuts, crashes>>

(* The loop of runJob. *)
NextPass(r) ==
  /\ pass' = [pass EXCEPT ![r] = @ + 1]
  /\ UNCHANGED <<now, lock, cuts, crashes>>

EndRun(r) ==
  /\ pass' = [pass EXCEPT ![r] = 0]
  /\ Release(r)
  /\ UNCHANGED <<now, cuts, crashes>>

LoseConnection(r) ==
  /\ lock = r /\ cuts < MaxCuts
  /\ lock' = None
  /\ cuts' = cuts + 1
  /\ UNCHANGED <<now, pass, crashes>>

(* The job throws, or the process is killed: the connection ends. *)
Die(r) ==
  /\ Running(r) /\ crashes < MaxCrashes
  /\ pass' = [pass EXCEPT ![r] = 0]
  /\ Release(r)
  /\ crashes' = crashes + 1
  /\ UNCHANGED <<now, cuts>>

Tick == now' = now + 1 /\ UNCHANGED <<lock, pass, cuts, crashes>>
=============================================================================
