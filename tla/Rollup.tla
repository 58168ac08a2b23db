------------------------------- MODULE Rollup -------------------------------
(***************************************************************************)
(* The traffic totals of one entry: raw events, the rows of past days, and   *)
(* the night's sweep that writes the rows of the days before its own and     *)
(* deletes raw events that are old. Two times make a day. An event is stored *)
(* some time after it occurred.                                             *)
(***************************************************************************)
EXTENDS JobRunner

CONSTANTS
  WindowDays,        \* ROLLUP_WINDOW_DAYS
  RetentionDays,     \* ANALYTICS_RETENTION_DAYS
  MaxLate,           \* by how much an event is stored late, at most
  MaxEvents          \* bound on the events

ASSUME RollupAssumption ==
  /\ WindowDays \in Nat \ {0} /\ RetentionDays \in Nat \ {0}
  /\ MaxLate \in Nat /\ MaxEvents \in Nat

VARIABLES
  events,            \* how many stored events occurred at a time
  daily,             \* the rows of opportunity_stats_daily
  roller,            \* where a sweep is
  counted,           \* history: how many events of a day were ever stored
  rolledOn           \* history: the days whose sweep got through

rollupVars == <<events, daily, roller, counted, rolledOn>>

DayOf(t) == t \div 2
Days == 0..DayOf(MaxNow)

NoRoll == [today |-> 0, offset |-> 0, count |-> None]

RollupTypeOK ==
  /\ events \in [Times -> 0..MaxEvents]
  /\ daily \in [Days -> 0..MaxEvents]
  /\ roller \in [Runners -> [today : Days, offset : 0..WindowDays, count : 0..MaxEvents \cup {None}]]
  /\ counted \in [Days -> 0..MaxEvents]
  /\ rolledOn \subseteq Days

RollupInit ==
  /\ events = [t \in Times |-> 0]
  /\ daily = [d \in Days |-> 0]
  /\ roller = [r \in Runners |-> NoRoll]
  /\ counted = [d \in Days |-> 0]
  /\ rolledOn = {}

-----------------------------------------------------------------------------
OfDay(d) == events[2 * d] + (IF 2 * d + 1 \in Times THEN events[2 * d + 1] ELSE 0)

Total == counted[0] + (IF 1 \in Days THEN counted[1] ELSE 0)

(* The buffer writes a batch; occurred_at is when the request was. *)
StoreEvent(t) ==
  /\ t <= now /\ now - t <= MaxLate
  /\ DayOf(t) \in {0, 1} /\ Total < MaxEvents
  /\ events' = [events EXCEPT ![t] = @ + 1]
  /\ counted' = [counted EXCEPT ![DayOf(t)] = @ + 1]
  /\ UNCHANGED <<daily, roller, rolledOn>>

(* A mistake: yesterday only. *)
FirstOffsetYesterday == 1

FirstOffset == WindowDays

BeginRoll(r) ==
  /\ roller' = [roller EXCEPT ![r] = [today |-> DayOf(now), offset |-> FirstOffset, count |-> None]]
  /\ UNCHANGED <<events, daily, counted, rolledOn>>

Rolled(r) == roller[r].today - roller[r].offset

(* One day's scan; the days before the first have no events. *)
Aggregate(r) ==
  LET w == roller[r]
  IN /\ w.offset > 0 /\ w.count = None
     /\ roller' = [roller EXCEPT ![r].count = IF w.offset > w.today THEN 0 ELSE OfDay(Rolled(r))]
     /\ UNCHANGED <<events, daily, counted, rolledOn>>

(* What is there is replaced; an entry without traffic gets no row. *)
WriteDay(r) ==
  LET w == roller[r]
  IN /\ w.offset > 0 /\ w.count # None
     /\ daily' = IF w.count = 0 THEN daily
                 ELSE [daily EXCEPT ![Rolled(r)] = w.count]
     /\ roller' = [roller EXCEPT ![r].offset = @ - 1, ![r].count = None]
     /\ UNCHANGED <<events, counted, rolledOn>>

RolledAll(r) == roller[r].offset = 0

(* A mistake: what the sweep is done with is not kept. *)
KeptWindow(t) == t + 2 * (WindowDays - 1) >= now

(* ANALYTICS_RETENTION_DAYS back from the time of the deletion, to the second. *)
Kept(t) == t + 2 * RetentionDays >= now

(* The last step, after every day was written. *)
Prune(r) ==
  /\ RolledAll(r)
  /\ events' = [t \in Times |-> IF Kept(t) THEN events[t] ELSE 0]
  /\ rolledOn' = rolledOn \cup {roller[r].today}
  /\ roller' = [roller EXCEPT ![r] = NoRoll]
  /\ UNCHANGED <<daily, counted>>

EndRoll(r) ==
  /\ roller' = [roller EXCEPT ![r] = NoRoll]
  /\ UNCHANGED <<events, daily, counted, rolledOn>>

StepRoll(r) == Aggregate(r) \/ WriteDay(r)

-----------------------------------------------------------------------------
(* Properties *)

(* Once a sweep got through on the last day that looks at a day, that day's row is *)
(* the number of events ever stored for it, and stays it, whatever else ran, was   *)
(* run again, came late or was pruned meanwhile.                                  *)
SettledExact ==
  /\ RollupTypeOK
  /\ cuts = 0 => \A d \in Days : d + WindowDays \in rolledOn => daily[d] = counted[d]
=============================================================================
