------------------------------ MODULE Resource ------------------------------
(***************************************************************************)
(* useResource of the frontend: one read of the API as a page shows it. The  *)
(* page changes what it asks for, reloads after a mutation, or does not ask   *)
(* at all; reads under way are never aborted and answer in any order.         *)
(***************************************************************************)
EXTENDS Naturals

CONSTANTS
  Loaders,           \* what a page may ask for: a filter, a page number
  MaxReads,          \* bounds: reads and changes of one behaviour
  MaxVersion,
  Nothing

ASSUME ResourceAssumption ==
  MaxReads \in Nat /\ MaxVersion \in Nat /\ Nothing \notin Loaders

VARIABLES
  wanted,            \* the loader of the last commit; Nothing when it is not enabled
  shown,             \* the state a page renders
  generation, reads, \* generation.current; the reads under way and the `mine` of each
  version,           \* of the data behind the API
  started,           \* how many reads so far
  asked              \* history: the version when the newest read was started

resourceVars == <<wanted, shown, generation, reads, version, started, asked>>

Versions == 0..MaxVersion
Answer == [of : Loaders, version : Versions]

Idle == [status |-> "idle", data |-> Nothing, stale |-> FALSE]
Loading == [status |-> "loading", data |-> Nothing, stale |-> FALSE]
Failed == [status |-> "error", data |-> Nothing, stale |-> FALSE]
Ready(data) == [status |-> "ready", data |-> data, stale |-> FALSE]

ResourceTypeOK ==
  /\ wanted \in Loaders \cup {Nothing}
  /\ \/ shown \in {Idle, Loading, Failed}
     \/ shown.status = "ready" /\ shown.data \in Answer /\ shown.stale \in BOOLEAN
  /\ generation \in 0..(2 * MaxReads + 1)
  /\ reads \subseteq [mine : 1..(2 * MaxReads + 1), of : Loaders, since : Versions]
  /\ version \in Versions /\ asked \in Versions /\ started \in 0..MaxReads

ResourceInit ==
  /\ wanted = Nothing
  /\ shown = Idle
  /\ generation = 0 /\ reads = {}
  /\ version = 0 /\ started = 0 /\ asked = 0

-----------------------------------------------------------------------------
(* A mistake: a read is superseded by the next one, and not by the page's asking no more. *)
AfterCleanupNone == generation

(* The cleanup of an effect that had started a read. *)
AfterCleanup == IF wanted = Nothing THEN generation ELSE generation + 1

(* A read that was superseded is not looked at when it ends. *)
Current(r) == r.mine = generation

(* The effect, for what the page now asks for: an answer on screen stays, as stale. *)
Effect(loader) ==
  /\ wanted' = loader
  /\ IF loader = Nothing
     THEN /\ shown' = Idle
          /\ generation' = AfterCleanup
          /\ UNCHANGED <<reads, started, asked>>
     ELSE /\ started < MaxReads
          /\ started' = started + 1
          /\ generation' = AfterCleanup + 1
          /\ shown' = IF shown.status = "ready" THEN [shown EXCEPT !.stale = TRUE] ELSE Loading
          /\ reads' = reads \cup {[mine |-> AfterCleanup + 1, of |-> loader, since |-> version]}
          /\ asked' = version
  /\ UNCHANGED version

(* Another filter or page; enabled or not. *)
AskFor(loader) == loader # wanted /\ Effect(loader)

(* reload: after a mutation, or to try again. *)
Reload == wanted # Nothing /\ Effect(wanted)

(* The API answered with what it had some time since the read was sent. *)
AnswerRead(r) ==
  /\ \E v \in r.since..version :
       shown' = IF Current(r) THEN Ready([of |-> r.of, version |-> v]) ELSE shown
  /\ reads' = reads \ {r}
  /\ UNCHANGED <<wanted, generation, version, started, asked>>

(* It failed, or the timeout came first: an answer after that is not waited for. *)
ReadFails(r) ==
  /\ shown' = IF Current(r) THEN Failed ELSE shown
  /\ reads' = reads \ {r}
  /\ UNCHANGED <<wanted, generation, version, started, asked>>

(* Somebody's mutation, this page's own among them. *)
DataChanges ==
  /\ version < MaxVersion
  /\ version' = version + 1
  /\ UNCHANGED <<wanted, shown, generation, reads, started, asked>>

ResourceNext ==
  \/ \E loader \in Loaders \cup {Nothing} : AskFor(loader)
  \/ Reload
  \/ \E r \in reads : AnswerRead(r) \/ ReadFails(r)
  \/ DataChanges

-----------------------------------------------------------------------------
(* Properties *)

(* What a page shows as current answers its newest read: it is what the page asks  *)
(* for now, and no older than the mutation it was reloaded after, in whichever      *)
(* order answers come. A page that waits has a read under way which will end.       *)
ShownIsLatest ==
  /\ ResourceTypeOK
  /\ wanted = Nothing <=> shown.status = "idle"
  /\ shown.status = "ready" /\ ~shown.stale =>
       shown.data.of = wanted /\ shown.data.version >= asked
  /\ (shown.status = "loading" \/ shown.stale) <=> \E r \in reads : Current(r)
=============================================================================
