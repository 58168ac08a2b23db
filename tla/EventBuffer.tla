---------------------------- MODULE EventBuffer ----------------------------
(***************************************************************************)
(* The analytics buffer of one API process: reads push events, a timer or a *)
(* full batch starts a flush, a flush that runs is joined and not repeated,  *)
(* and an orderly shutdown drains what is left before the pool is closed.    *)
(*                                                                         *)
(* A turn of the event loop is one step. Events are numbered as they come:   *)
(* what is told apart is where each of them is.                              *)
(***************************************************************************)
EXTENDS Naturals, Sequences, SequencesExt

CONSTANTS
  FlushSize,         \* flushSize: a batch that is written at once
  MaxPending,        \* maxPending: the cap of the buffer
  MaxEvents          \* bound on the events of one behaviour

ASSUME EventBufferAssumption ==
  /\ FlushSize \in Nat \ {0} /\ MaxPending \in Nat /\ FlushSize <= MaxPending
  /\ MaxEvents \in Nat

VARIABLES
  app,               \* serving, draining, stopped
  buffer,           \* events that wait
  batch,             \* events of the flush under way
  timer,             \* a timer is armed
  recorded,          \* events so far
  written, gone      \* events in the table; events given up

bufferVars == <<app, buffer, batch, timer, recorded, written, gone>>

Events == 1..MaxEvents
Flushing == batch # <<>>
Closed == app # "serving"

BufferTypeOK ==
  /\ app \in {"serving", "draining", "stopped"}
  /\ buffer \in Seq(Events) /\ Len(buffer) <= MaxPending
  /\ batch \in Seq(Events) /\ Len(batch) <= MaxPending
  /\ timer \in BOOLEAN
  /\ recorded \in 0..MaxEvents
  /\ written \subseteq Events /\ gone \subseteq Events

BufferInit ==
  /\ app = "serving"
  /\ buffer = <<>> /\ batch = <<>>
  /\ timer = FALSE
  /\ recorded = 0
  /\ written = {} /\ gone = {}

-----------------------------------------------------------------------------
(* A mistake: the batch is taken, and stays in the buffer until it is written. *)
TakeCopy(waiting) == batch' = waiting /\ buffer' = waiting

(* The synchronous part of a flush that none is under way of. *)
Take(waiting) == batch' = waiting /\ buffer' = <<>>

(* record: at the cap the oldest go. A full batch is flushed, and whatever a    *)
(* flush under way leaves behind has the timer.                                *)
RecordEvents(n) ==
  LET all == buffer \o [k \in 1..n |-> recorded + k]
      over == IF Len(all) > MaxPending THEN Len(all) - MaxPending ELSE 0
      kept == SubSeq(all, over + 1, Len(all))
  IN /\ ~Closed
     /\ recorded + n <= MaxEvents
     /\ recorded' = recorded + n
     /\ gone' = gone \cup ToSet(SubSeq(all, 1, over))
     /\ IF Len(kept) >= FlushSize /\ ~Flushing
        THEN Take(kept) /\ UNCHANGED timer
        ELSE buffer' = kept /\ timer' = TRUE /\ UNCHANGED batch
     /\ UNCHANGED <<app, written>>

(* The timer's flush joins one that is under way. *)
Fire ==
  /\ timer
  /\ timer' = FALSE
  /\ IF Flushing \/ buffer = <<>> THEN UNCHANGED <<buffer, batch>> ELSE Take(buffer)
  /\ UNCHANGED <<app, recorded, written, gone>>

(* A mistake: what came during a flush has the next request to wait for. *)
NoFollowUp == batch' = <<>> /\ UNCHANGED <<buffer, timer>>

(* scheduleFollowUp: what came during the flush. *)
FollowUp ==
  IF Closed \/ buffer = <<>> THEN batch' = <<>> /\ UNCHANGED <<buffer, timer>>
  ELSE IF Len(buffer) >= FlushSize THEN Take(buffer) /\ UNCHANGED timer
  ELSE batch' = <<>> /\ timer' = TRUE /\ UNCHANGED buffer

(* The flush ends: events of deleted entries drop out, a failed write discards. *)
EndFlush(kept) ==
  /\ Flushing
  /\ written' = written \cup kept
  /\ gone' = gone \cup (ToSet(batch) \ kept)
  /\ FollowUp
  /\ UNCHANGED <<app, recorded>>

(* close: a turn refuses events and disarms the timer ... *)
Close ==
  /\ app = "serving"
  /\ app' = "draining"
  /\ timer' = FALSE
  /\ UNCHANGED <<buffer, batch, recorded, written, gone>>

DrainFlush ==
  /\ app = "draining" /\ ~Flushing /\ buffer # <<>>
  /\ Take(buffer)
  /\ UNCHANGED <<app, timer, recorded, written, gone>>

(* A mistake: one flush, which may be one that was under way, counts as a drain. *)
StopAfterOne ==
  /\ app = "draining" /\ ~Flushing
  /\ app' = "stopped"
  /\ UNCHANGED <<buffer, batch, timer, recorded, written, gone>>

(* ... and the pool is closed once flushes have left nothing. *)
Stop ==
  /\ app = "draining" /\ ~Flushing /\ buffer = <<>>
  /\ app' = "stopped"
  /\ UNCHANGED <<buffer, batch, timer, recorded, written, gone>>

(* The process is killed, or its shutdown takes too long; the next one begins.   *)
Start ==
  /\ app' = "serving"
  /\ buffer' = <<>> /\ batch' = <<>>
  /\ timer' = FALSE
  /\ gone' = gone \cup ToSet(buffer) \cup ToSet(batch)
  /\ UNCHANGED <<recorded, written>>

BufferNext ==
  \/ \E n \in 1..MaxPending : RecordEvents(n)
  \/ Fire
  \/ \E kept \in SUBSET ToSet(batch) : EndFlush(kept)
  \/ Close \/ DrainFlush \/ Stop

(* Timers fire, a query ends, hooks run. *)
BufferFairness ==
  /\ WF_bufferVars(Fire)
  /\ WF_bufferVars(\E kept \in SUBSET ToSet(batch) : EndFlush(kept))
  /\ WF_bufferVars(DrainFlush) /\ WF_bufferVars(Stop)

-----------------------------------------------------------------------------
(* Properties *)

(* An event is in one place: it waits, is being written, is written or is given  *)
(* up, and no flush that overlaps another writes it twice or forgets it.         *)
EachEventOnce ==
  LET places == <<ToSet(buffer), ToSet(batch), written, gone>>
  IN /\ IsInjective(buffer \o batch)
     /\ \A i, j \in 1..4 : i # j => places[i] \cap places[j] = {}
     /\ UNION ToSet(places) = 1..recorded

(* An orderly shutdown closes the pool on a buffer that has nothing left: no      *)
(* event is lost to it, whatever came while a flush was under way.               *)
DrainedOnClose == app = "stopped" => buffer = <<>> /\ ~Flushing

(* Every event that waits gets a writer, also when no request comes any more.    *)
EventsMoveOn == \A e \in Events : e \in ToSet(buffer) ~> e \notin ToSet(buffer)
=============================================================================
