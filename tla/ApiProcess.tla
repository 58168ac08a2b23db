----------------------------- MODULE ApiProcess -----------------------------
(***************************************************************************)
(* What an API process keeps in memory and loses with it: the buffer of      *)
(* analytics events, which an orderly shutdown drains, and a work queue,      *)
(* which it does not: the nightly jobs find its rows in the database.         *)
(***************************************************************************)
EXTENDS EventBuffer, WorkQueue

ProcessInit == BufferInit /\ QueueInit

Attempt(i) == app # "stopped" /\ Finish(i) /\ UNCHANGED bufferVars
Offer(i) == app # "stopped" /\ Enqueue(i) /\ UNCHANGED bufferVars
Buffer == BufferNext /\ UNCHANGED queueVars

(* Killed, or stopped in good order: both are gone, and another process starts. *)
NextProcess == Start /\ Restart

ProcessNext == (\E i \in Rows : Offer(i) \/ Attempt(i)) \/ Buffer \/ NextProcess

(* Every attempt ends, and a process that stopped is replaced. *)
ProcessFairness ==
  /\ \A i \in Rows : WF_queueVars(Attempt(i))
  /\ BufferFairness
  /\ WF_bufferVars(app = "stopped" /\ NextProcess)

ProcessSpec ==
  ProcessInit /\ [][ProcessNext]_<<bufferVars, queueVars>> /\ ProcessFairness

-----------------------------------------------------------------------------
(* Properties; their parts are in the modules of the queue and the buffer *)

(* No id waits while a worker is free, and no mail is attempted beside itself,      *)
(* whatever offers and completions come in which order.                            *)
QueueHolds == NeverIdle /\ OneAttemptAtATime

(* Every event is accounted for at any time, and none waits when the pool closes.  *)
EventsAccounted == BufferTypeOK /\ EachEventOnce /\ DrainedOnClose

(* What a process takes on, it gets to: an id that waits and an event that waits    *)
(* both move on, without another request to push them.                            *)
ProcessMovesOn == WaitingIsAttempted /\ EventsMoveOn
=============================================================================
