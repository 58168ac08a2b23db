----------------------------- MODULE Embeddings -----------------------------
(***************************************************************************)
(* The stored vector of one entry. A pass (after a write, or of the nightly  *)
(* backfill) reads the entry, asks the provider for a vector of its text,    *)
(* reads the entry again and writes; nothing is locked, and edits and other  *)
(* passes come in between. A text is the number of the edit that wrote it,   *)
(* and a content hash names its text, for the one provider and model there   *)
(* is; vectors whose norm or description hash is missing are left out.       *)
(***************************************************************************)
EXTENDS JobRunner

CONSTANTS
  Passes,            \* passes under way at once
  MaxDepth,          \* how often a pass starts over (3)
  MaxTexts           \* bound on the edits

ASSUME EmbeddingsAssumption ==
  /\ MaxDepth \in Nat /\ MaxTexts \in Nat

VARIABLES
  text,              \* the entry's text
  stored,            \* the text of the stored vector, None without a row
  step,              \* where a pass is
  of, depth          \* the text it works on; how often it started over

embeddingVars == <<text, stored, step, of, depth>>

EmbeddingsTypeOK ==
  /\ text \in 0..MaxTexts
  /\ stored \in 0..MaxTexts \cup {None}
  /\ step \in [Passes -> {"idle", "loaded", "embedded", "checked"}]
  /\ of \in [Passes -> 0..MaxTexts]
  /\ depth \in [Passes -> 0..MaxDepth]

EmbeddingsInit ==
  /\ text = 0
  /\ stored = None
  /\ step = [p \in Passes |-> "idle"]
  /\ of = [p \in Passes |-> 0]
  /\ depth = [p \in Passes |-> 0]

-----------------------------------------------------------------------------
EditText ==
  /\ text < MaxTexts
  /\ text' = text + 1
  /\ UNCHANGED <<stored, step, of, depth>>

(* embedAndDetect reads the row: the check of a write, the backfill. *)
Start(p) ==
  /\ step[p] = "idle"
  /\ step' = [step EXCEPT ![p] = "loaded"]
  /\ of' = [of EXCEPT ![p] = text]
  /\ depth' = [depth EXCEPT ![p] = 0]
  /\ UNCHANGED <<text, stored>>

(* The pass is over, and nothing is left of it. *)
Leave(p) ==
  /\ step' = [step EXCEPT ![p] = "idle"]
  /\ of' = [of EXCEPT ![p] = 0]
  /\ depth' = [depth EXCEPT ![p] = 0]
  /\ UNCHANGED text

(* The vector of this text is there already. *)
Skip(p) ==
  /\ step[p] = "loaded" /\ stored = of[p]
  /\ Leave(p)
  /\ UNCHANGED stored

Embed(p) ==
  /\ step[p] = "loaded" /\ stored # of[p]
  /\ step' = [step EXCEPT ![p] = "embedded"]
  /\ UNCHANGED <<text, stored, of, depth>>

MayStartOver(p) == depth[p] < MaxDepth

(* The entry is read again; another text starts the pass over. *)
Recheck(p) ==
  /\ step[p] = "embedded"
  /\ IF MayStartOver(p) /\ text # of[p]
     THEN /\ step' = [step EXCEPT ![p] = "loaded"]
          /\ of' = [of EXCEPT ![p] = text]
          /\ depth' = [depth EXCEPT ![p] = @ + 1]
     ELSE /\ step' = [step EXCEPT ![p] = "checked"]
          /\ UNCHANGED <<of, depth>>
  /\ UNCHANGED <<text, stored>>

Upsert(p) ==
  /\ step[p] = "checked"
  /\ stored' = of[p]
  /\ Leave(p)

(* A provider error, a statement that failed, a restart. *)
Fail(p) ==
  /\ step[p] # "idle"
  /\ Leave(p)
  /\ UNCHANGED stored

(* A mistake the code once made: only an entry without a vector is pending. *)
PendingMissing == stored = None

(* pendingEmbeddingIds: no vector, or one of another text. *)
Pending == stored # text

(* runBatch of the backfill, for this one entry. *)
BeginBackfill(p) == IF Pending THEN Start(p) ELSE UNCHANGED embeddingVars

StepEmbedding(p) == Skip(p) \/ Embed(p) \/ Recheck(p) \/ Upsert(p)

BackfillOver(p) == step[p] = "idle"

EndBackfill(p) == Leave(p) /\ UNCHANGED stored
=============================================================================
