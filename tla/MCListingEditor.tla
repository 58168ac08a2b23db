-------------------------- MODULE MCListingEditor --------------------------
(* Small instances of ListingEditor for TLC. *)
EXTENDS ListingEditor, TLC

CONSTANTS w1, comma, twice, acme, beta, c1, c2

OneWord == {w1}
TwoSlugs == {acme, beta}
OneField == {"title"}
OneGroup == {"deadlines"}
NotAsTheyAre == comma :> w1 @@ twice :> w1

(* Two organizations, of which the form knows less than they have. *)
Acme == [name |-> w1, slug |-> acme, website |-> w1, contacts |-> c1]
Beta == [name |-> w1, slug |-> beta, contacts |-> c2]

Listing(t, details) ==
  [id |-> <<acme, ByHand>>, publisher |-> acme, legacy |-> FALSE, type |-> t,
   fields |-> [title |-> w1, summary |-> Null, createdAt |-> w1],
   rows |-> [g \in TopGroups |->
      IF g = "operatingOrganizations" THEN <<Acme, Beta>> ELSE <<>>],
   details |-> [fundingType |-> t] @@ details]

Online ==
  Listing("hackathon", [location |-> Null, tracks |-> comma, teamMin |-> w1,
                        prizes |-> <<[amount |-> w1], [amount |-> w1, track |-> w1]>>])
Bounty ==
  [Listing("bounty", [bountyKind |-> "task", severityScheme |-> w1, skills |-> comma, rewardTiers |->
      <<[severity |-> w1, model |-> "percentage", percent |-> w1, basis |-> w1, cap |-> w1]>>]) EXCEPT
     !.rows["operatingOrganizations"] = <<Acme>>,
     !.rows["deadlines"] = <<[deadlineType |-> "rolling", date |-> Null]>>]
Imported ==
  [Listing("grant", [recurring |-> w1, programModel |-> Null]) EXCEPT
     !.legacy = TRUE, !.rows["operatingOrganizations"] = <<Beta>>,
     !.rows["deadlines"] = <<[deadlineType |-> "fixed", date |-> twice, label |-> w1]>>]

EachKind == {Online, Bounty, Imported}
=============================================================================
