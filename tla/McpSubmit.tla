----------------------------- MODULE McpSubmit -----------------------------
(***************************************************************************)
(* The write tool of the MCP server (src/packages/mcp): several server      *)
(* processes and terminals over one state directory. A preview is a file, a *)
(* person turns it into an approval at a terminal, a second call claims the *)
(* approval by a rename and only then posts. Budgets are a file of counters *)
(* under a lock that is a directory. Every call of the file system is a     *)
(* step of its own; between two of them any other process may run, and a    *)
(* server may die.                                                          *)
(*                                                                         *)
(* An approval id stands for the five things an approval is bound to. The   *)
(* clock counts windows of the budget; minute and day windows follow the    *)
(* same rules and one stands for both.                                      *)
(***************************************************************************)
EXTENDS Naturals, FiniteSets

CONSTANTS
  Servers, Terminals, Ids,
  Cap,               \* DEFAULT_CAPS: calls of a kind per window
  PreviewLife,       \* PENDING_TTL_MS
  ApprovalLife,      \* APPROVAL_TTL_MS
  Stalls,            \* whether a live process may stay in the lock past STALE_LOCK_MS
  MaxClock, MaxPreviews,
  Limits,            \* bounds, for TLC: what time and failure may do in one behaviour
  None

Kinds == {"attempt", "preview", "commit"}
Serials == 1..MaxPreviews

(* What the lock directory says: who made it, whether that process lives, its age. *)
Holders == [by : Servers, live : BOOLEAN, old : BOOLEAN]

ASSUME McpAssumption ==
  /\ IsFiniteSet(Servers)
  /\ Cap \in [Kinds -> Nat \ {0}]
  /\ PreviewLife \in Nat /\ ApprovalLife \in Nat
  /\ Stalls \in BOOLEAN
  /\ MaxClock \in Nat /\ MaxPreviews \in Nat
  /\ Limits \subseteq [clock : 0..MaxClock, setBacks : Nat, crashes : Nat, previews : 0..MaxPreviews]
  /\ None \notin Ids \cup Serials \cup Holders

VARIABLES
  pending, approval, \* the files: which preview they go back to, from when, until when
  counters,          \* policy-counters.json
  lock,              \* the lock directory: see Holders
  clock,
  call,              \* what a server is doing: see Call
  screen,            \* what a terminal is doing: its step, the id, the preview
  posts,             \* history: requests sent for a preview's approval
  revoked,           \* history: previews whose file a person deleted
  spentIn,           \* history: requests sent on a unit of a window
  robbed,            \* history: a live holder's lock was taken away
  unreturned,        \* history: giving a unit back failed
  previews, crashes, setBacks, limit

files == <<pending, approval>>
history == <<posts, revoked, spentIn>>
bounds == <<previews, crashes, setBacks, limit>>
vars == <<files, counters, lock, clock, call, screen, history, robbed, unreturned, bounds>>

Record == [n : Serials, issued : 0..MaxClock, expires : Nat]
Bucket == [window : 0..MaxClock, count : Nat]

(* A call: its step, the approval id and the phase, the budget it is after, whether *)
(* it got it, the counters it read, the window it counts in (the one of the clock    *)
(* when it asked, then the one it was counted in), and the approval it claimed.      *)
Call ==
  [at : {"idle", "lock", "break", "read", "write", "unlock", "run", "lookup", "store", "claim",
         "rename", "send"},
   id : Ids \cup {None}, phase : {"none", "preview", "commit"},
   want : Kinds \cup {"none", "back"}, granted : BOOLEAN,
   copy : [Kinds -> Bucket] \cup {None}, window : 0..MaxClock, using : Serials \cup {None}]

NoCall == [at |-> "idle", id |-> None, phase |-> "none", want |-> "none", granted |-> FALSE,
           copy |-> None, window |-> 0, using |-> None]
NoScreen == [step |-> "idle", id |-> None, record |-> None]

TypeOK ==
  /\ pending \in [Ids -> Record \cup {None}]
  /\ approval \in [Ids -> Record \cup {None}]
  /\ counters \in [Kinds -> Bucket]
  /\ lock \in Holders \cup {None}
  /\ clock \in 0..MaxClock
  /\ call \in [Servers -> Call]
  /\ screen \in [Terminals -> [step : {"idle", "asked", "claiming", "granting", "revoking"},
                               id : Ids \cup {None}, record : Record \cup {None}]]
  /\ posts \in [Serials -> Nat]
  /\ revoked \subseteq Serials
  /\ spentIn \in [0..MaxClock -> Nat]
  /\ robbed \in BOOLEAN /\ unreturned \in BOOLEAN
  /\ limit \in Limits
  /\ previews \in Nat /\ crashes \in 0..limit.crashes /\ setBacks \in 0..limit.setBacks

Init ==
  /\ pending = [i \in Ids |-> None] /\ approval = [i \in Ids |-> None]
  /\ counters = [k \in Kinds |-> [window |-> 0, count |-> 0]]
  /\ lock = None
  /\ clock = 0
  /\ call = [s \in Servers |-> NoCall]
  /\ screen = [t \in Terminals |-> NoScreen]
  /\ posts = [n \in Serials |-> 0]
  /\ revoked = {}
  /\ spentIn = [w \in 0..MaxClock |-> 0]
  /\ robbed = FALSE /\ unreturned = FALSE
  /\ previews = 0 /\ crashes = 0 /\ setBacks = 0
  /\ limit \in Limits

At(s, step) == call[s].at = step

(* The call goes on at a step, or is over. *)
GoOn(s, step) == call' = [call EXCEPT ![s].at = step]
Return(s) == call' = [call EXCEPT ![s] = NoCall]

-----------------------------------------------------------------------------
(* The lock of policy-counters.json. A budget's turn is lock, read, write,     *)
(* unlock; where it goes on from there depends on what was wanted.             *)

(* reserve of a kind, which reads the clock before it has the lock, or the release of *)
(* a commit unit: ask for the lock.                                                    *)
Reserve(s, w) ==
  call' = [call EXCEPT ![s].at = "lock", ![s].want = w,
                       ![s].window = IF w = "back" THEN @ ELSE clock]

(* mkdir of a path that is free. *)
TakeLock(s) ==
  /\ At(s, "lock")
  /\ lock = None
  /\ lock' = [by |-> s, live |-> TRUE, old |-> FALSE]
  /\ GoOn(s, "read")
  /\ UNCHANGED <<files, counters, clock, screen, history, robbed, unreturned, bounds>>

(* A stat says the directory is older than STALE_LOCK_MS. *)
SeeStale(s) ==
  /\ At(s, "lock")
  /\ lock # None /\ lock.old
  /\ GoOn(s, "break")
  /\ UNCHANGED <<files, counters, lock, clock, screen, history, robbed, unreturned, bounds>>

(* A mistake: a rename that fails, every time. *)
BreakFails(s) ==
  /\ At(s, "break")
  /\ GoOn(s, "lock")
  /\ UNCHANGED <<files, counters, lock, clock, screen, history, robbed, unreturned, bounds>>

(* breakStaleLock: renames aside whatever is there by now. *)
Break(s) ==
  /\ At(s, "break")
  /\ lock' = None
  /\ robbed' = (robbed \/ (lock # None /\ lock.live))
  /\ GoOn(s, "lock")
  /\ UNCHANGED <<files, counters, clock, screen, history, unreturned, bounds>>

(* The deadline has passed, and the lock is not old enough to be broken: the call is *)
(* refused, or the unit stays spent.                                                  *)
GiveUp(s) ==
  /\ At(s, "lock")
  /\ lock # None /\ ~lock.old
  /\ Return(s)
  /\ unreturned' = (unreturned \/ call[s].want = "back")
  /\ UNCHANGED <<files, counters, lock, clock, screen, history, robbed, bounds>>

(* A mistake: a window ahead of the clock starts again from nothing. *)
RolloverBack(b, w) == IF b.window # w THEN [window |-> w, count |-> 0] ELSE b

(* A stored window ahead of the clock keeps its count. *)
Rollover(b, w) == IF b.window < w THEN [window |-> w, count |-> 0] ELSE b

(* A mistake: takes the unit out of whichever window is current. *)
GiveBackAnywhere(file, w) ==
  [file EXCEPT !["commit"].count = IF @ > 0 THEN @ - 1 ELSE @]

(* A mistake: does not look whether there is anything to give back. *)
GiveBackBlindly(file, w) ==
  IF file["commit"].window = w THEN [file EXCEPT !["commit"].count = @ - 1] ELSE file

(* release: only inside the window the unit was taken from. *)
GiveBack(file, w) ==
  IF file["commit"].window = w /\ file["commit"].count > 0
  THEN [file EXCEPT !["commit"].count = @ - 1]
  ELSE file

(* The counters are read; a spent budget is refused from inside the lock. *)
ReadCounters(s) ==
  /\ At(s, "read")
  /\ LET w == call[s].want
         full == w # "back" /\ Rollover(counters[w], call[s].window).count >= Cap[w]
     IN call' = [call EXCEPT ![s].at = IF full THEN "unlock" ELSE "write",
                             ![s].copy = IF full THEN None ELSE counters,
                             ![s].granted = FALSE]
  /\ UNCHANGED <<files, counters, lock, clock, screen, history, robbed, unreturned, bounds>>

(* The file is replaced as a whole by what was read and the one change. *)
WriteCounters(s) ==
  /\ At(s, "write")
  /\ LET k == call[s].want
         b == Rollover(call[s].copy[k], call[s].window)
     IN /\ counters' = IF k = "back" THEN GiveBack(call[s].copy, call[s].window)
                       ELSE [call[s].copy EXCEPT ![k] = [b EXCEPT !.count = @ + 1]]
        /\ call' = [call EXCEPT ![s].at = "unlock", ![s].copy = None, ![s].granted = TRUE,
                                ![s].window = IF k = "back" THEN @ ELSE b.window]
  /\ UNCHANGED <<files, lock, clock, screen, history, robbed, unreturned, bounds>>

(* A file of counters that cannot be read, parsed or replaced refuses the call, and a *)
(* unit that was to be given back stays spent.                                         *)
StoreFails(s) ==
  /\ At(s, "read") \/ At(s, "write")
  /\ call' = [call EXCEPT ![s].at = "unlock", ![s].copy = None, ![s].granted = FALSE]
  /\ unreturned' = (unreturned \/ call[s].want = "back")
  /\ UNCHANGED <<files, counters, lock, clock, screen, history, robbed, bounds>>

(* Whether the call ends with this budget, and where it goes on with it. *)
Over(s) == ~call[s].granted \/ call[s].want = "back"
After == [attempt |-> "run", preview |-> "store", commit |-> "claim"]

(* The finally: the directory is removed, whoever made the one that is there. *)
Unlock(s) ==
  /\ At(s, "unlock")
  /\ lock' = None
  /\ robbed' = (robbed \/ (lock # None /\ lock.by # s /\ lock.live))
  /\ IF Over(s) THEN Return(s) ELSE GoOn(s, After[call[s].want])
  /\ UNCHANGED <<files, counters, clock, screen, history, unreturned, bounds>>

-----------------------------------------------------------------------------
(* The write tool. *)

(* One invocation: every one is metered as an attempt before anything else, the ones *)
(* that are refused for their arguments included.                                     *)
Invoke(s, i, phase) ==
  /\ At(s, "idle")
  /\ phase = "preview" =>
       previews + Cardinality({r \in Servers : call[r].phase = "preview"}) < limit.previews
  /\ call' = [call EXCEPT ![s] = [NoCall EXCEPT !.at = "lock", !.want = "attempt",
                                               !.window = clock, !.id = i, !.phase = phase]]
  /\ UNCHANGED <<files, counters, lock, clock, screen, history, robbed, unreturned, bounds>>

(* run: arguments, a key or a document that is refused, or one of the two phases. *)
Run(s) ==
  /\ At(s, "run")
  /\ \/ Return(s)
     \/ call[s].phase = "preview" /\ Reserve(s, "preview")
     \/ call[s].phase = "commit" /\ GoOn(s, "lookup")
  /\ UNCHANGED <<files, counters, lock, clock, screen, history, robbed, unreturned, bounds>>

(* writePending: replaces a preview of the same five things. *)
StorePreview(s) ==
  /\ At(s, "store")
  /\ pending' = [pending EXCEPT ![call[s].id] =
                   [n |-> previews + 1, issued |-> clock, expires |-> clock + PreviewLife]]
  /\ previews' = previews + 1
  /\ Return(s)
  /\ UNCHANGED <<approval, counters, lock, clock, screen, history, robbed, unreturned,
                 crashes, setBacks, limit>>

(* Issued in the future means the clock went back. *)
Expired(r) == r.issued > clock \/ r.expires <= clock

(* commit: an approval that is there and not expired, then a unit of the budget. *)
LookUp(s) ==
  /\ At(s, "lookup")
  /\ LET r == approval[call[s].id]
     IN IF r # None /\ ~Expired(r) THEN Reserve(s, "commit") ELSE Return(s)
  /\ UNCHANGED <<files, counters, lock, clock, screen, history, robbed, unreturned, bounds>>

(* claimApproval reads the record; a claim that is lost gives the unit back. *)
ReadClaim(s) ==
  /\ At(s, "claim")
  /\ IF approval[call[s].id] = None THEN Reserve(s, "back") ELSE GoOn(s, "rename")
  /\ UNCHANGED <<files, counters, lock, clock, screen, history, robbed, unreturned, bounds>>

(* A mistake: the approval is copied away. *)
CopyClaim(s) ==
  /\ At(s, "rename")
  /\ LET r == approval[call[s].id]
     IN IF r = None THEN Reserve(s, "back")
        ELSE call' = [call EXCEPT ![s].at = "send", ![s].using = r.n]
  /\ UNCHANGED <<files, counters, lock, clock, screen, history, robbed, unreturned, bounds>>

(* ... and renames it, before the network is touched. *)
RenameClaim(s) ==
  /\ At(s, "rename")
  /\ LET r == approval[call[s].id]
     IN IF r = None THEN Reserve(s, "back")
        ELSE call' = [call EXCEPT ![s].at = "send", ![s].using = r.n]
  /\ approval' = [approval EXCEPT ![call[s].id] = None]
  /\ UNCHANGED <<pending, counters, lock, clock, screen, history, robbed, unreturned, bounds>>

(* The POST. Whatever comes back, nothing is restored and nothing is retried. *)
Send(s) ==
  /\ At(s, "send")
  /\ posts' = [posts EXCEPT ![call[s].using] = @ + 1]
  /\ spentIn' = [spentIn EXCEPT ![call[s].window] = @ + 1]
  /\ Return(s)
  /\ UNCHANGED <<files, counters, lock, clock, screen, revoked, robbed, unreturned, bounds>>

(* The server dies; a lock it held stays. *)
Crash(s) ==
  /\ ~At(s, "idle")
  /\ crashes < limit.crashes
  /\ crashes' = crashes + 1
  /\ Return(s)
  /\ lock' = IF lock # None /\ lock.by = s THEN [lock EXCEPT !.live = FALSE] ELSE lock
  /\ UNCHANGED <<files, counters, clock, screen, history, robbed, unreturned, previews, setBacks,
                 limit>>

-----------------------------------------------------------------------------
(* The terminals: approve and revoke. *)

Terminal(t, step, id, record) ==
  screen' = [screen EXCEPT ![t] = [step |-> step, id |-> id, record |-> record]]
Leave(t) == screen' = [screen EXCEPT ![t] = NoScreen]

outside == <<counters, lock, clock, call, posts, spentIn, robbed, unreturned, bounds>>

(* approve prints a preview that has not expired, and asks. *)
Show(t, i) ==
  /\ screen[t].step = "idle"
  /\ pending[i] # None /\ ~Expired(pending[i])
  /\ Terminal(t, "asked", i, None)
  /\ UNCHANGED <<files, outside, revoked>>

Decline(t) ==
  /\ screen[t].step = "asked"
  /\ Leave(t)
  /\ UNCHANGED <<files, outside, revoked>>

(* The person types `approve`: claimPending reads the preview as it is by now. *)
Confirm(t) ==
  /\ screen[t].step = "asked"
  /\ LET i == screen[t].id
     IN IF pending[i] = None THEN Leave(t) ELSE Terminal(t, "claiming", i, pending[i])
  /\ UNCHANGED <<files, outside, revoked>>

(* A mistake: the preview stays where it is. *)
KeepPreview(t) ==
  /\ screen[t].step = "claiming"
  /\ LET i == screen[t].id
     IN IF pending[i] = None \/ Expired(screen[t].record)
        THEN Leave(t) ELSE Terminal(t, "granting", i, pending[i])
  /\ UNCHANGED <<files, outside, revoked>>

(* ... and renames it; what was read is looked at once more for its expiry. *)
ClaimPreview(t) ==
  /\ screen[t].step = "claiming"
  /\ LET i == screen[t].id
     IN /\ pending' = [pending EXCEPT ![i] = None]
        /\ IF pending[i] = None \/ Expired(screen[t].record)
           THEN Leave(t) ELSE Terminal(t, "granting", i, pending[i])
  /\ UNCHANGED <<approval, outside, revoked>>

(* writeApproval. *)
Grant(t) ==
  /\ screen[t].step = "granting"
  /\ approval' = [approval EXCEPT ![screen[t].id] =
                    [n |-> screen[t].record.n, issued |-> clock, expires |-> clock + ApprovalLife]]
  /\ Leave(t)
  /\ UNCHANGED <<pending, outside, revoked>>

Deleted(file) == IF file = None THEN {} ELSE {file.n}

(* revoke: the preview, then the approval. *)
RevokePreview(t, i) ==
  /\ screen[t].step = "idle"
  /\ revoked' = revoked \cup Deleted(pending[i])
  /\ pending' = [pending EXCEPT ![i] = None]
  /\ Terminal(t, "revoking", i, None)
  /\ UNCHANGED <<approval, outside>>

RevokeApproval(t) ==
  /\ screen[t].step = "revoking"
  /\ revoked' = revoked \cup Deleted(approval[screen[t].id])
  /\ approval' = [approval EXCEPT ![screen[t].id] = None]
  /\ Leave(t)
  /\ UNCHANGED <<pending, outside>>

-----------------------------------------------------------------------------
(* Time: windows pass, the clock is set back, a lock grows old. *)

Tick ==
  /\ clock < limit.clock
  /\ clock' = clock + 1
  /\ UNCHANGED <<files, counters, lock, call, screen, history, robbed, unreturned, bounds>>

SetBack ==
  /\ clock > 0
  /\ setBacks < limit.setBacks
  /\ clock' = clock - 1
  /\ setBacks' = setBacks + 1
  /\ UNCHANGED <<files, counters, lock, call, screen, history, robbed, unreturned,
                 previews, crashes, limit>>

Age ==
  /\ lock # None /\ ~lock.old
  /\ Stalls \/ ~lock.live
  /\ lock' = [lock EXCEPT !.old = TRUE]
  /\ UNCHANGED <<files, counters, clock, call, screen, history, robbed, unreturned, bounds>>

(* What a server does next in a call it has taken on. *)
Step(s) ==
  \/ TakeLock(s) \/ SeeStale(s) \/ Break(s) \/ GiveUp(s)
  \/ ReadCounters(s) \/ WriteCounters(s) \/ StoreFails(s) \/ Unlock(s)
  \/ Run(s) \/ StorePreview(s) \/ LookUp(s)
  \/ ReadClaim(s) \/ RenameClaim(s) \/ Send(s)

Invocations(s) ==
  \E i \in Ids, phase \in {"preview", "commit"} : Invoke(s, i, phase)

Person(t) ==
  \/ \E i \in Ids : Show(t, i) \/ RevokePreview(t, i)
  \/ Decline(t) \/ Confirm(t) \/ ClaimPreview(t) \/ Grant(t) \/ RevokeApproval(t)

Next ==
  \/ \E s \in Servers : Invocations(s) \/ Step(s) \/ Crash(s)
  \/ \E t \in Terminals : Person(t)
  \/ Tick \/ SetBack \/ Age

Spec == Init /\ [][Next]_vars

(* A call that is under way goes on: it is one process running its own code. *)
Fairness == \A s \in Servers : WF_vars(Step(s))

-----------------------------------------------------------------------------
(* Properties *)

(* One preview leads to one request at most, through any number of confirmations, *)
(* calls and crashes, and to none once a person has revoked it: the renames of     *)
(* claimPending and claimApproval are the decisions.                               *)
SpentOnce == \A n \in Serials : posts[n] <= (IF n \in revoked THEN 0 ELSE 1)

(* No window sees more requests than its cap, whichever way the clock moves, as    *)
(* long as nobody lost a lock while holding it.                                    *)
InBudget == robbed \/ \A w \in 0..MaxClock : spentIn[w] <= Cap["commit"]

(* A refusal after the reservation gives the unit back: once every call is over,    *)
(* the window's count is what was sent, unless a process died or could not write.   *)
UnitsReturned ==
  (\A s \in Servers : At(s, "idle")) /\ ~robbed /\ ~unreturned /\ crashes = 0 =>
    counters["commit"].count = spentIn[counters["commit"].window]

(* The counters are right both ways: never too much is sent, and nothing is withheld. *)
BudgetExact == TypeOK /\ InBudget /\ UnitsReturned

(* "two processes breaking the same abandoned lock cannot end up deleting a live    *)
(* one" (README of the package): no process loses a lock it is holding.             *)
LiveLockKept == ~robbed

(* Every call comes to its end: stale locks are broken, others are waited for only   *)
(* so long.                                                                         *)
CallsEnd == \A s \in Servers : ~At(s, "idle") ~> At(s, "idle")
=============================================================================
