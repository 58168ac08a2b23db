----------------------------- MODULE WorkQueue -----------------------------
(***************************************************************************)
(* The in-process queue that starts work right after a commit: a bounded    *)
(* waiting list and a few workers. There are two, the one of notification   *)
(* mails (one worker, an id under way is not taken again) and the one of    *)
(* submit-time source checks (two workers, only waiting ids are looked at). *)
(* enqueue, pump and the completion of an attempt each run to their end in  *)
(* one turn of the event loop; attempts overlap. All of it is lost with the *)
(* process: the rows in the database are what the nightly jobs go by.       *)
(***************************************************************************)
EXTENDS Naturals, Sequences, Functions

CONSTANTS
  Rows,               \* rows that may be offered
  QueueMax           \* queueMax: ids that may wait

ASSUME WorkQueueAssumption == QueueMax \in Nat \ {0}

VARIABLES
  kind,              \* which of the two queues this is
  queue,             \* ids waiting
  active,            \* attempts counted as under way
  running,           \* running[i]: attempts of i really under way
  lost               \* history: ids that waited when the process died

queueVars == <<kind, queue, active, running, lost>>

(* CONCURRENCY: attempts under way at once. *)
Concurrency == IF kind = "mail" THEN 1 ELSE 2

Waiting == Range(queue)

QueueTypeOK ==
  /\ kind \in {"mail", "check"}
  /\ queue \in Seq(Rows) /\ Len(queue) <= QueueMax
  /\ active \in 0..Concurrency
  /\ running \in [Rows -> 0..Concurrency]
  /\ lost \subseteq Rows
  /\ active = 0 <=> \A i \in Rows : running[i] = 0

QueueInit ==
  /\ kind \in {"mail", "check"}
  /\ queue = <<>>
  /\ active = 0
  /\ running = [i \in Rows |-> 0]
  /\ lost = {}

-----------------------------------------------------------------------------
(* How many of the waiting ids pump starts, when n attempts are under way.     *)

(* A mistake: every id that waits. *)
StartsAll(waiting, n) == Len(waiting)

Starts(waiting, n) == IF Len(waiting) <= Concurrency - n THEN Len(waiting) ELSE Concurrency - n

(* pump, on the waiting list and the attempts an enqueue or a completion left. *)
Pump(waiting, n, under) ==
  LET k == Starts(waiting, n)
      started == SubSeq(waiting, 1, k)
  IN /\ queue' = SubSeq(waiting, k + 1, Len(waiting))
     /\ active' = n + k
     /\ running' = [i \in Rows |-> under[i] + IF i \in Range(started) THEN 1 ELSE 0]

(* A mistake: only the waiting list is looked at. *)
TakenWaiting(i) == i \in Waiting

(* The mail queue also knows the ids under way. *)
Taken(i) == i \in Waiting \/ (kind = "mail" /\ running[i] > 0)

(* enqueue of one id; what is refused stays in the database and nothing else.  *)
Enqueue(i) ==
  /\ Len(queue) < QueueMax
  /\ ~Taken(i)
  /\ Pump(Append(queue, i), active, running)
  /\ lost' = lost \ {i}
  /\ UNCHANGED kind

(* A mistake: a completed attempt makes room and starts nobody. *)
FinishQuietly(i) ==
  /\ running[i] > 0
  /\ active' = active - 1
  /\ running' = [running EXCEPT ![i] = @ - 1]
  /\ UNCHANGED <<kind, queue, lost>>

(* An attempt is over, whatever came of it: mails and fetches have timeouts, and *)
(* every promise has a finally.                                                  *)
Finish(i) ==
  /\ running[i] > 0
  /\ Pump(queue, active - 1, [running EXCEPT ![i] = @ - 1])
  /\ UNCHANGED <<kind, lost>>

Restart ==
  /\ queue' = <<>>
  /\ active' = 0
  /\ running' = [i \in Rows |-> 0]
  /\ lost' = lost \cup Waiting
  /\ UNCHANGED kind

QueueNext == (\E i \in Rows : Enqueue(i) \/ Finish(i)) \/ Restart

QueueSpec == QueueInit /\ [][QueueNext]_queueVars

-----------------------------------------------------------------------------
(* Properties *)

(* No id waits while a worker is free, after any mix of offers and completions. *)
NeverIdle == QueueTypeOK /\ (queue # <<>> => active = Concurrency)

(* "An id re-enqueued mid-flight" gets no second mail of its own: it is under way *)
(* once, or waits once, never both. (The check queue allows the second attempt.)  *)
OneAttemptAtATime ==
  kind = "mail" =>
    \A i \in Rows : running[i] + (IF i \in Waiting THEN 1 ELSE 0) <= 1

(* An id that was taken is attempted, unless the process dies first.            *)
WaitingIsAttempted == \A i \in Rows : i \in Waiting ~> (running[i] > 0 \/ i \in lost)
=============================================================================
