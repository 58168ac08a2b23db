----------------------------- MODULE MCNightly -----------------------------
(* Small instances of Nightly for TLC. *)
EXTENDS Nightly

CONSTANTS n1, n2, check

TwoRunners == {n1, n2}
WithCheck == {n1, n2, check}
ThreeEntries == 1..3
OneToThree == 1..3
OneOrTwo == {1, 2}
SmallAndLarge == {2, 4}

AllJobs == {"staleness", "stale-listing-reminders", "analytics-rollup", "embedding-backfill"}

(* Days for the walk and the cooldown, half days for the rollup.               *)
Clocks ==
  [j \in Jobs |-> CASE j = "staleness" -> 2
                    [] j = "stale-listing-reminders" -> 3
                    [] j = "analytics-rollup" -> 8
                    [] j = "embedding-backfill" -> 0]

(* Two runs beside each other matter where they could repeat what they do.       *)
LostConnections == [j \in Jobs |-> IF j = "stale-listing-reminders" THEN 1 ELSE 0]

OneEntry == {None, 1}

(* One that passes, one that passes before another, a rolling one. *)
Deadlines ==
  {[dates |-> {1}, rolling |-> FALSE], [dates |-> {1, 3}, rolling |-> FALSE],
   [dates |-> {2}, rolling |-> TRUE]}
=============================================================================
