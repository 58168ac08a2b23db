---------------------------- MODULE ExportSource ----------------------------
(***************************************************************************)
(* The nightly exporter reads the public dataset from a live API: the size   *)
(* from /v1/stats, the ids page by page, then one document after another,    *)
(* while entries enter and leave the dataset. What does not agree is refused. *)
(*                                                                         *)
(* An entry is its rank by creation, which is the order of the pages. A       *)
(* request that fails for good, and a document the Standard rejects, are      *)
(* AbandonWalk: retries are within a request.                                     *)
(***************************************************************************)
EXTENDS Naturals, FiniteSets

CONSTANTS
  Records,           \* ids of entries, in the order they were created
  PerPage,           \* PAGE_SIZE
  MaxMoves           \* bound: how often entries enter or leave during a walk

ASSUME ExportSourceAssumption ==
  /\ Records \subseteq Nat /\ IsFiniteSet(Records)
  /\ PerPage \in Nat \ {0} /\ MaxMoves \in Nat

VARIABLES
  public,            \* entries the API shows: approved and listed
  walk,              \* the exporter: see Walk
  moves,
  steady,            \* history: entries that were public since the walk began
  overtaken          \* history: an entry appeared that is older than one that was there

sourceVars == <<public, walk, moves, steady, overtaken>>

(* Its step; what /v1/stats said; the page it is at, how many there are and its rows; *)
(* how many ids it has collected, which they are, and the documents it has read.      *)
Walk == [at : {"stats", "rows", "total", "documents", "read", "refused"}, reported : Nat,
         page : Nat, pages : Nat, rows : SUBSET Records,
         count : Nat, ids : SUBSET Records, docs : SUBSET Records]

SourceInit ==
  /\ public \in SUBSET Records
  /\ walk = [at |-> "stats", reported |-> 0, page |-> 1, pages |-> 1, rows |-> {},
             count |-> 0, ids |-> {}, docs |-> {}]
  /\ moves = 0 /\ steady = public /\ overtaken = FALSE

Walking == walk.at \notin {"stats", "read", "refused"}

-----------------------------------------------------------------------------
(* The dataset moves *)

Move(now) ==
  /\ Walking /\ moves < MaxMoves
  /\ public' = now
  /\ steady' = steady \cap now
  /\ moves' = moves + 1
  /\ UNCHANGED walk

(* Approved, or listed again: a creation is the case of no younger entry.        *)
Appear(e) ==
  /\ e \notin public /\ Move(public \cup {e})
  /\ overtaken' = (overtaken \/ \E f \in public : e < f)

(* Unlisted, rejected, merged away, or waiting for review again. *)
Vanish(e) == e \in public /\ Move(public \ {e}) /\ UNCHANGED overtaken

-----------------------------------------------------------------------------
(* The exporter *)

WalkOn(w) == walk' = w /\ UNCHANGED <<public, moves, steady, overtaken>>
RefusedWalk == [walk EXCEPT !.at = "refused"]

ReadStats ==
  /\ walk.at = "stats"
  /\ WalkOn([walk EXCEPT !.at = "rows", !.reported = Cardinality(public)])

(* listPublic: LIMIT and OFFSET over the dataset of that moment.                 *)
Rank(e) == Cardinality({f \in public : f <= e})
Page(n) == {e \in public : (n - 1) * PerPage < Rank(e) /\ Rank(e) <= n * PerPage}
Pages(total) == IF total = 0 THEN 1 ELSE (total + PerPage - 1) \div PerPage

(* collect, and the count at the end of the walk.                               *)
Joins(rows) ==
  /\ rows \cap walk.ids = {}
  /\ walk.count + Cardinality(rows) <= walk.reported

Collected(w, rows) ==
  LET count == walk.count + Cardinality(rows)
      next == [w EXCEPT !.count = count, !.ids = @ \cup rows, !.rows = {}]
  IN  IF ~Joins(rows) THEN RefusedWalk
      ELSE IF w.page < w.pages THEN [next EXCEPT !.at = "rows", !.page = @ + 1]
      ELSE IF count # walk.reported THEN RefusedWalk
      ELSE [next EXCEPT !.at = "documents"]

(* The first page tells how many there are: its rows and its total are two        *)
(* statements of one request.                                                    *)
ReadFirstRows ==
  /\ walk.at = "rows" /\ walk.page = 1
  /\ WalkOn([walk EXCEPT !.at = "total", !.rows = Page(1)])

ReadTotal ==
  /\ walk.at = "total"
  /\ LET total == Cardinality(public)
     IN  WalkOn(IF total # walk.reported THEN RefusedWalk
                ELSE Collected([walk EXCEPT !.pages = Pages(total)], walk.rows))

ReadPage ==
  /\ walk.at = "rows" /\ walk.page > 1
  /\ WalkOn(IF Page(walk.page) = {} THEN RefusedWalk ELSE Collected(walk, Page(walk.page)))

(* A mistake: an entry that is gone when its document is read is left out.         *)
ReadDocumentIfThere(e) ==
  /\ walk.at = "documents" /\ e \in walk.ids \ walk.docs
  /\ WalkOn(IF e \in public THEN [walk EXCEPT !.docs = @ \cup {e}]
            ELSE [walk EXCEPT !.ids = @ \ {e}])

(* Several are in flight: they are answered in any order. What is not public is a  *)
(* 404.                                                                          *)
ReadDocument(e) ==
  /\ walk.at = "documents" /\ e \in walk.ids \ walk.docs
  /\ WalkOn(IF e \in public THEN [walk EXCEPT !.docs = @ \cup {e}] ELSE RefusedWalk)

HandOver ==
  /\ walk.at = "documents" /\ walk.docs = walk.ids
  /\ WalkOn([walk EXCEPT !.at = "read"])

AbandonWalk == walk.at \notin {"read", "refused"} /\ WalkOn(RefusedWalk)

SourceNext ==
  \/ \E e \in Records : Appear(e) \/ Vanish(e) \/ ReadDocument(e)
  \/ ReadStats \/ ReadFirstRows \/ ReadTotal \/ ReadPage \/ HandOver \/ AbandonWalk

-----------------------------------------------------------------------------
(* Properties *)

SourceTypeOK ==
  /\ public \subseteq Records /\ walk \in Walk
  /\ moves \in 0..MaxMoves /\ steady \subseteq public
  /\ overtaken \in BOOLEAN

(* "A dataset that changed under the run fails here and publishes NOTHING": what is   *)
(* handed to the writer has every entry that was public all the while.                *)
NeverPartial == walk.at = "read" => steady \subseteq walk.docs

(* That much holds while entries leave, and newer ones come: what a page skips because *)
(* an entry before it left is refused, by the count or by the document that is gone.   *)
ExportIsComplete == SourceTypeOK /\ (~overtaken => NeverPartial)
=============================================================================
