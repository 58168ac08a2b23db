-------------------------- MODULE McpSubmitProofs --------------------------
(***************************************************************************)
(* Proofs about McpSubmit, for any servers, terminals, documents and caps,    *)
(* with or without processes that stall. An approval is in one place, which    *)
(* only a rename changes; and a unit of the budget is with one call, from the   *)
(* write that takes it to the request or the write that gives it back.        *)
(***************************************************************************)
EXTENDS McpSubmit, FiniteSetTheorems, TLAPS

-----------------------------------------------------------------------------
(* A call as its step says: what it is about, which budget it is after, what it has read  *)
(* and what it has claimed.                                                            *)
CallHolds(s) ==
  LET c == call[s]
  IN /\ c.at = "idle" => c.phase = "none"
     /\ c.at # "idle" => c.id \in Ids /\ c.phase \in {"preview", "commit"}
     /\ c.want = "preview" => c.phase = "preview"
     /\ c.at \in {"lock", "break", "read", "write", "unlock"} => c.want \in Kinds \cup {"back"}
     /\ c.at = "store" => c.want = "preview"
     /\ c.at \in {"claim", "rename", "send"} => c.want = "commit" /\ c.granted
     /\ c.at = "write" => c.copy \in [Kinds -> Bucket]
     /\ c.at = "send" <=> c.using # None

(* A terminal knows which id it asks about, and has a preview in hand when it grants.     *)
ScreenHolds(t) ==
  /\ screen[t].step # "idle" => screen[t].id \in Ids
  /\ screen[t].step \in {"claiming", "granting"} => screen[t].record \in Record

(* The previews there will be, those of the calls under way included.                    *)
Previewing == {s \in Servers : call[s].phase = "preview"}
PreviewsBounded == previews + Cardinality(Previewing) <= limit.previews

(* Where the one approval of a preview is: a file to approve, in the hand of a terminal,  *)
(* a file to claim, in the hand of a call.                                             *)
Has(n, place, x) ==
  \/ place = "pending" /\ x \in Ids /\ pending[x] # None /\ pending[x].n = n
  \/ place = "screen" /\ x \in Terminals /\ screen[x].step = "granting" /\ screen[x].record.n = n
  \/ place = "approval" /\ x \in Ids /\ approval[x] # None /\ approval[x].n = n
  \/ place = "call" /\ x \in Servers /\ call[x].using = n

Places == {"pending", "screen", "approval", "call"}
Corners == Ids \cup Terminals \cup Servers

(* It is in one place at most, in none once it was sent or revoked, and nowhere before    *)
(* the preview was stored.                                                             *)
OnePlace ==
  \A n \in Serials :
    /\ \A p, q \in Places, x, y \in Corners : Has(n, p, x) /\ Has(n, q, y) => p = q /\ x = y
    /\ posts[n] > 0 \/ n \in revoked =>
         n <= previews /\ \A p \in Places, x \in Corners : ~Has(n, p, x)
    /\ \A p \in Places, x \in Corners : Has(n, p, x) => n <= previews

(* Who is inside the lock, holds it, unless it was taken from a live process.            *)
Inside(s) == call[s].at \in {"read", "write", "unlock"}
LockHeld == ~robbed => \A s \in Servers : Inside(s) => lock # None /\ lock.by = s /\ lock.live

(* So that what it has read is what there is.                                          *)
CopiesFresh == ~robbed => \A s \in Servers : At(s, "write") => call[s].copy = counters

(* ... and that a budget is not spent in this window when it is written.                 *)
RoomChecked ==
  \A s \in Servers : At(s, "write") /\ call[s].want \in Kinds =>
    Rollover(call[s].copy[call[s].want], call[s].window).count < Cap[call[s].want]

(* Calls that have a commit unit of a window which is neither sent nor given back.        *)
HoldsUnit(s) ==
  \/ call[s].want = "commit" /\ call[s].granted /\ call[s].at \in {"unlock", "claim", "rename", "send"}
  \/ call[s].want = "back" /\ call[s].at \in {"lock", "break", "read", "write"}
Holding(w) == {s \in Servers : HoldsUnit(s) /\ call[s].window = w}
Used(w) == spentIn[w] + Cardinality(Holding(w))

(* The counter is of the last window that anything was taken from; in that one it counts  *)
(* whatever was taken and not given back, and in the ones before no cap was passed.       *)
UnitsCounted ==
  ~robbed =>
    LET now == counters["commit"]
    IN /\ now.count <= Cap["commit"]
       /\ \A w \in 0..MaxClock :
            /\ w > now.window => Used(w) = 0
            /\ w < now.window => Used(w) <= Cap["commit"]
            /\ w = now.window => Used(w) <= now.count
            /\ w = now.window /\ ~unreturned /\ crashes = 0 => Used(w) = now.count

McpInv ==
  /\ TypeOK /\ (\A s \in Servers : CallHolds(s)) /\ (\A t \in Terminals : ScreenHolds(t))
  /\ PreviewsBounded /\ OnePlace /\ SpentOnce
  /\ LockHeld /\ CopiesFresh /\ RoomChecked /\ UnitsCounted

(* The fields of a call, one by one.                                                 *)
LEMMA CallFields ==
  ASSUME NEW c \in Call
  PROVE  /\ c.at \in {"idle", "lock", "break", "read", "write", "unlock", "run", "lookup", "store",
                      "claim", "rename", "send"}
         /\ c.id \in Ids \cup {None} /\ c.phase \in {"none", "preview", "commit"}
         /\ c.want \in Kinds \cup {"none", "back"} /\ c.granted \in BOOLEAN
         /\ c.copy \in [Kinds -> Bucket] \cup {None} /\ c.window \in 0..MaxClock
         /\ c.using \in Serials \cup {None}
BY DEF Call

(* A server that does nothing.                                                       *)
LEMMA NoCallTyped == NoCall \in Call /\ 0 \in 0..MaxClock
<1>1. MaxClock \in Nat
  BY McpAssumption
<1>2. 0 \in 0..MaxClock
  BY <1>1
<1> QED
  BY <1>2 DEF NoCall, Call

(* What the types say of the state.                                                    *)
LEMMA McpTyped ==
  ASSUME McpInv
  PROVE  /\ TypeOK /\ \A s \in Servers : call[s] \in Call
         /\ call \in [Servers -> Call]
         /\ MaxClock \in Nat /\ MaxPreviews \in Nat /\ clock \in 0..MaxClock
         /\ limit \in Limits /\ limit.clock \in 0..MaxClock /\ limit.previews \in 0..MaxPreviews
         /\ limit.crashes \in Nat /\ limit.setBacks \in Nat
         /\ previews \in Nat /\ crashes \in 0..limit.crashes /\ setBacks \in 0..limit.setBacks
         /\ Cap \in [Kinds -> Nat \ {0}] /\ None \notin Ids
         /\ IsFiniteSet(Servers)
         /\ counters \in [Kinds -> Bucket] /\ spentIn \in [0..MaxClock -> Nat]
         /\ posts \in [Serials -> Nat] /\ revoked \subseteq Serials
<1>1. TypeOK
  BY DEF McpInv
<1>2. limit \in [clock : 0..MaxClock, setBacks : Nat, crashes : Nat, previews : 0..MaxPreviews]
  BY <1>1, McpAssumption DEF TypeOK
<1>3. /\ limit.clock \in 0..MaxClock /\ limit.previews \in 0..MaxPreviews
      /\ limit.crashes \in Nat /\ limit.setBacks \in Nat
  BY <1>2
<1>4. /\ MaxClock \in Nat /\ MaxPreviews \in Nat /\ Cap \in [Kinds -> Nat \ {0}] /\ None \notin Ids
      /\ IsFiniteSet(Servers)
  BY McpAssumption
<1>5. /\ call \in [Servers -> Call] /\ clock \in 0..MaxClock /\ limit \in Limits
      /\ previews \in Nat /\ crashes \in 0..limit.crashes /\ setBacks \in 0..limit.setBacks
      /\ counters \in [Kinds -> Bucket] /\ spentIn \in [0..MaxClock -> Nat]
      /\ posts \in [Serials -> Nat] /\ revoked \subseteq Serials
  BY <1>1 DEF TypeOK
<1>6. \A s \in Servers : call[s] \in Call
  BY <1>5
<1> QED
  BY <1>1, <1>3, <1>4, <1>5, <1>6

(* A call that goes on leaves the others as they are.                                   *)
LEMMA CallsHold ==
  ASSUME McpInv, NEW s \in Servers, CallHolds(s)', \A q \in Servers \ {s} : call'[q] = call[q]
  PROVE  \A q \in Servers : CallHolds(q)'
<1>1. ASSUME NEW q \in Servers \ {s} PROVE CallHolds(q)'
  <2>1. CallHolds(q) /\ call'[q] = call[q]
    BY <1>1 DEF McpInv
  <2> QED
    BY <2>1 DEF CallHolds
<1> QED
  BY <1>1

(* Calls that begin no preview need no room for one.                                 *)
LEMMA PreviewsFall ==
  ASSUME McpInv, UNCHANGED <<previews, limit>>,
         \A q \in Servers : call'[q].phase = "preview" => call[q].phase = "preview"
  PROVE  PreviewsBounded'
<1>1. Previewing' \subseteq Previewing /\ IsFiniteSet(Previewing)
  BY McpTyped, FS_Subset DEF Previewing
<1>2. Cardinality(Previewing') <= Cardinality(Previewing) /\ IsFiniteSet(Previewing')
  BY <1>1, FS_Subset
<1>3. Cardinality(Previewing) \in Nat /\ Cardinality(Previewing') \in Nat
  BY <1>1, <1>2, FS_CardinalityType
<1> QED
  BY <1>2, <1>3, McpTyped DEF McpInv, PreviewsBounded

(* Approvals that only go are still in one place.                                       *)
LEMMA PlacesFall ==
  ASSUME McpInv, UNCHANGED <<posts, revoked, previews>>,
         \A n \in Serials, p \in Places, x \in Corners : Has(n, p, x)' => Has(n, p, x)
  PROVE  OnePlace' /\ SpentOnce'
BY DEF McpInv, OnePlace, SpentOnce

(* There are finitely many servers, so the units out are a number.                   *)
LEMMA HoldingFinite ==
  ASSUME McpInv, NEW w
  PROVE  /\ IsFiniteSet(Holding(w)) /\ Cardinality(Holding(w)) \in Nat
         /\ w \in 0..MaxClock => Used(w) \in Nat /\ spentIn[w] \in Nat
<1>1. IsFiniteSet(Holding(w))
  BY McpTyped, FS_Subset DEF Holding
<1>2. Cardinality(Holding(w)) \in Nat
  BY <1>1, FS_CardinalityType
<1> QED
  BY <1>1, <1>2, McpTyped DEF Used

(* Units that nobody takes, and that only get lost where it is noted.                     *)
LEMMA UnitsFall ==
  ASSUME McpInv, UNCHANGED spentIn, counters'["commit"] = counters["commit"], robbed => robbed',
         ~unreturned' => ~unreturned, crashes' = 0 => crashes = 0,
         \A w \in 0..MaxClock : Holding(w)' \subseteq Holding(w),
         \/ \A w \in 0..MaxClock : Holding(w)' = Holding(w)
         \/ unreturned' \/ crashes' # 0
  PROVE  UnitsCounted'
<1>1. ASSUME NEW w \in 0..MaxClock
      PROVE  /\ Used(w)' \in Nat /\ Used(w) \in Nat /\ Used(w)' <= Used(w)
             /\ Holding(w)' = Holding(w) => Used(w)' = Used(w)
  <2>1. IsFiniteSet(Holding(w)) /\ Cardinality(Holding(w)) \in Nat /\ spentIn[w] \in Nat
    BY HoldingFinite
  <2>2. Cardinality(Holding(w)') <= Cardinality(Holding(w)) /\ IsFiniteSet(Holding(w)')
    BY <2>1, FS_Subset
  <2>3. Cardinality(Holding(w)') \in Nat
    BY <2>2, FS_CardinalityType
  <2> QED
    BY <2>1, <2>2, <2>3 DEF Used
<1>2. counters["commit"].window \in 0..MaxClock /\ counters["commit"].count \in Nat
  BY McpTyped DEF Kinds, Bucket
<1>3. Cap["commit"] \in Nat
  BY McpTyped DEF Kinds
<1> HIDE DEF Used, Holding
<1>4. CASE robbed'
  BY <1>4 DEF UnitsCounted
<1>5. CASE ~robbed'
  <2>1. UnitsCounted /\ ~robbed
    BY <1>5 DEF McpInv
  <2> QED
    BY <1>1, <1>2, <1>3, <1>5, <2>1 DEF UnitsCounted
<1> QED
  BY <1>4, <1>5

(* What stays as it is, as long as no call, counter or lock moves.                       *)
LEMMA CallsStay ==
  ASSUME McpInv,
         UNCHANGED <<counters, lock, call, spentIn, robbed, unreturned, previews, crashes, limit>>
  PROVE  /\ \A s \in Servers : CallHolds(s)'
         /\ PreviewsBounded' /\ LockHeld' /\ CopiesFresh' /\ RoomChecked' /\ UnitsCounted'
<1>1. \A s \in Servers : CallHolds(s)'
  BY DEF McpInv, CallHolds
<1>2. PreviewsBounded'
  BY PreviewsFall
<1>3. LockHeld' /\ CopiesFresh' /\ RoomChecked'
  BY DEF McpInv, LockHeld, Inside, CopiesFresh, At, RoomChecked
<1>4. \A w \in 0..MaxClock : Holding(w)' = Holding(w)
  BY DEF Holding, HoldsUnit
<1>5. UnitsCounted'
  BY <1>4, UnitsFall
<1> QED
  BY <1>1, <1>2, <1>3, <1>5

(* Nor do the terminals matter to a call, or the other way round.                        *)
LEMMA ScreensStay ==
  ASSUME McpInv, UNCHANGED screen
  PROVE  \A t \in Terminals : ScreenHolds(t)'
BY DEF McpInv, ScreenHolds

(* A step of one call that stays outside the lock, or inside it without writing.         *)
LEMMA InsideStays ==
  ASSUME McpInv, NEW s \in Servers, \A q \in Servers \ {s} : call'[q] = call[q],
         UNCHANGED <<counters, lock, robbed>>, Inside(s)' => Inside(s), ~At(s, "write")'
  PROVE  LockHeld' /\ CopiesFresh' /\ RoomChecked'
<1>1. LockHeld'
  BY DEF McpInv, LockHeld, Inside
<1>2. CopiesFresh' /\ RoomChecked'
  BY DEF McpInv, CopiesFresh, RoomChecked, At
<1> QED
  BY <1>1, <1>2

(* What a step of one call does to the units that are out.                               *)
LEMMA HoldingStays ==
  ASSUME McpInv, NEW s \in Servers, \A q \in Servers \ {s} : call'[q] = call[q],
         HoldsUnit(s)' => HoldsUnit(s) /\ call'[s].window = call[s].window
  PROVE  /\ \A w : Holding(w)' \subseteq Holding(w)
         /\ (HoldsUnit(s) => HoldsUnit(s)') => \A w : Holding(w)' = Holding(w)
BY DEF Holding, HoldsUnit

(* A step of a call that moves nothing but itself.                                      *)
LEMMA QuietSafe ==
  ASSUME McpInv, NEW s \in Servers, call' \in [Servers -> Call], CallHolds(s)',
         \A q \in Servers \ {s} : call'[q] = call[q],
         UNCHANGED <<files, counters, lock, clock, screen, history, robbed, bounds>>,
         unreturned' \in BOOLEAN, unreturned => unreturned',
         Inside(s)' => Inside(s), ~At(s, "write")', call'[s].using \in {None, call[s].using},
         call'[s].phase = "preview" => call[s].phase = "preview",
         HoldsUnit(s)' => HoldsUnit(s) /\ call'[s].window = call[s].window,
         HoldsUnit(s) => HoldsUnit(s)' \/ unreturned'
  PROVE  McpInv'
<1>1. TypeOK'
  BY DEF McpInv, TypeOK, files, history, bounds
<1>2. (\A q \in Servers : CallHolds(q)') /\ (\A t \in Terminals : ScreenHolds(t)')
  BY CallsHold, ScreensStay
<1>3. PreviewsBounded'
  <2>1. \A q \in Servers : call'[q].phase = "preview" => call[q].phase = "preview"
    OBVIOUS
  <2> QED
    BY <2>1, PreviewsFall DEF bounds
<1>4. OnePlace' /\ SpentOnce'
  <2>1. None \notin Serials
    BY McpAssumption
  <2>2. \A n \in Serials, p \in Places, x \in Corners : Has(n, p, x)' => Has(n, p, x)
    BY <2>1 DEF Has, files
  <2> QED
    BY <2>2, PlacesFall DEF history, bounds
<1>5. LockHeld' /\ CopiesFresh' /\ RoomChecked'
  BY InsideStays
<1>6. UnitsCounted'
  BY HoldingStays, UnitsFall DEF history, bounds
<1> QED
  BY <1>1, <1>2, <1>3, <1>4, <1>5, <1>6 DEF McpInv

Steps == {"idle", "lock", "break", "read", "write", "unlock", "run", "lookup", "store",
          "claim", "rename", "send"}

(* How a call goes on.                                                                 *)
LEMMA GoOnTyped ==
  ASSUME McpInv, NEW s \in Servers, NEW step \in Steps, GoOn(s, step)
  PROVE  /\ call' \in [Servers -> Call] /\ \A q \in Servers \ {s} : call'[q] = call[q]
         /\ call'[s].at = step /\ call'[s].id = call[s].id /\ call'[s].phase = call[s].phase
         /\ call'[s].want = call[s].want /\ call'[s].granted = call[s].granted
         /\ call'[s].copy = call[s].copy /\ call'[s].window = call[s].window
         /\ call'[s].using = call[s].using
<1>1. call \in [Servers -> Call] /\ call' = [call EXCEPT ![s].at = step]
  BY McpTyped DEF GoOn
<1>2. call[s] \in Call
  BY <1>1
<1>3. [call[s] EXCEPT !.at = step] \in Call
  BY <1>2 DEF Call, Steps
<1> QED
  BY <1>1, <1>2, <1>3 DEF Call

(* How a call is over: it holds nothing and is nowhere.                              *)
LEMMA ReturnTyped ==
  ASSUME McpInv, NEW s \in Servers, Return(s)
  PROVE  /\ call' \in [Servers -> Call] /\ \A q \in Servers \ {s} : call'[q] = call[q]
         /\ CallHolds(s)' /\ ~Inside(s)' /\ ~HoldsUnit(s)' /\ ~At(s, "write")'
         /\ call'[s].using = None /\ call'[s].phase = "none"
<1>1. call \in [Servers -> Call] /\ call' = [call EXCEPT ![s] = NoCall]
  BY McpTyped DEF Return
<1>2. call' \in [Servers -> Call] /\ call'[s] = NoCall /\ \A q \in Servers \ {s} : call'[q] = call[q]
  BY <1>1, NoCallTyped
<1>3. /\ NoCall.at = "idle" /\ NoCall.phase = "none" /\ NoCall.want = "none" /\ NoCall.using = None
  BY DEF NoCall
<1>4. CallHolds(s)'
  BY <1>2, <1>3 DEF CallHolds
<1>5. ~Inside(s)' /\ ~HoldsUnit(s)' /\ ~At(s, "write")'
  BY <1>2, <1>3 DEF Inside, HoldsUnit, At
<1> QED
  BY <1>2, <1>3, <1>4, <1>5

(* How a call goes for a budget, or to give a unit back.                             *)
LEMMA ReserveTyped ==
  ASSUME McpInv, NEW s \in Servers, NEW w \in Kinds \cup {"back"}, Reserve(s, w)
  PROVE  /\ call' \in [Servers -> Call] /\ \A q \in Servers \ {s} : call'[q] = call[q]
         /\ call'[s].at = "lock" /\ call'[s].want = w /\ call'[s].id = call[s].id
         /\ call'[s].phase = call[s].phase /\ call'[s].using = call[s].using
         /\ call'[s].window = IF w = "back" THEN call[s].window ELSE clock
<1> DEFINE window == IF w = "back" THEN call[s].window ELSE clock
<1>1. call \in [Servers -> Call] /\ clock \in 0..MaxClock
  BY McpTyped
<1>2. call[s] \in Call
  BY <1>1
<1>3. window \in 0..MaxClock
  BY <1>1, <1>2, CallFields
<1>4. call' = [call EXCEPT ![s].at = "lock", ![s].want = w, ![s].window = window]
  BY DEF Reserve
<1> HIDE DEF window
<1>5. [call[s] EXCEPT !.at = "lock", !.want = w, !.window = window] \in Call
  BY <1>2, <1>3 DEF Call
<1>6. /\ call' \in [Servers -> Call] /\ \A q \in Servers \ {s} : call'[q] = call[q]
      /\ call'[s] = [call[s] EXCEPT !.at = "lock", !.want = w, !.window = window]
  BY <1>1, <1>4, <1>5
<1> QED
  BY <1>2, <1>6 DEF Call, window

(* A lock that looks old is not touched yet.                                         *)
LEMMA SeeStaleSafe ==
  ASSUME McpInv, NEW s \in Servers, SeeStale(s)
  PROVE  McpInv'
<1>1. /\ call[s].at = "lock" /\ GoOn(s, "break") /\ "break" \in Steps
      /\ UNCHANGED <<files, counters, lock, clock, screen, history, robbed, unreturned, bounds>>
  BY DEF SeeStale, At, Steps
<1>2. CallHolds(s)'
  BY <1>1, GoOnTyped DEF McpInv, CallHolds
<1>3. /\ ~Inside(s)' /\ ~At(s, "write")' /\ (HoldsUnit(s)' <=> HoldsUnit(s))
  BY <1>1, GoOnTyped DEF Inside, At, HoldsUnit
<1>4. unreturned' \in BOOLEAN
  BY <1>1 DEF McpInv, TypeOK
<1> QED
  BY <1>1, <1>2, <1>3, <1>4, GoOnTyped, QuietSafe

(* A call that waited too long: a unit it was to give back stays spent, which is noted.*)
LEMMA GiveUpSafe ==
  ASSUME McpInv, NEW s \in Servers, GiveUp(s)
  PROVE  McpInv'
<1>1. /\ call[s].at = "lock" /\ Return(s)
      /\ UNCHANGED <<files, counters, lock, clock, screen, history, robbed, bounds>>
      /\ unreturned' = (unreturned \/ call[s].want = "back")
  BY DEF GiveUp, At
<1>2. HoldsUnit(s) => unreturned'
  BY <1>1 DEF HoldsUnit
<1>3. unreturned' \in BOOLEAN /\ (unreturned => unreturned')
  BY <1>1 DEF McpInv, TypeOK
<1> QED
  BY <1>1, <1>2, <1>3, ReturnTyped, QuietSafe

(* A file of counters that cannot be read or replaced: the call has nothing, and what it   *)
(* had to give back is noted as spent.                                                  *)
LEMMA StoreFailsSafe ==
  ASSUME McpInv, NEW s \in Servers, StoreFails(s)
  PROVE  McpInv'
<1> DEFINE new == [call[s] EXCEPT !.at = "unlock", !.copy = None, !.granted = FALSE]
<1>1. /\ call[s].at \in {"read", "write"}
      /\ call' = [call EXCEPT ![s].at = "unlock", ![s].copy = None, ![s].granted = FALSE]
      /\ UNCHANGED <<files, counters, lock, clock, screen, history, robbed, bounds>>
      /\ unreturned' = (unreturned \/ call[s].want = "back")
  BY DEF StoreFails, At
<1>2. call \in [Servers -> Call] /\ call[s] \in Call
  BY McpTyped
<1>3. /\ new \in Call /\ new.at = "unlock" /\ new.granted = FALSE /\ new.id = call[s].id
      /\ new.phase = call[s].phase /\ new.want = call[s].want /\ new.using = call[s].using
      /\ new.window = call[s].window
  BY <1>2 DEF Call
<1>4. call' \in [Servers -> Call] /\ call'[s] = new /\ \A q \in Servers \ {s} : call'[q] = call[q]
  BY <1>1, <1>2, <1>3
<1> HIDE DEF new
<1>5. CallHolds(s)'
  BY <1>1, <1>3, <1>4 DEF McpInv, CallHolds
<1>6. /\ Inside(s) /\ ~At(s, "write")' /\ ~HoldsUnit(s)' /\ (HoldsUnit(s) => unreturned')
  BY <1>1, <1>3, <1>4 DEF Inside, At, HoldsUnit
<1>7. unreturned' \in BOOLEAN /\ (unreturned => unreturned')
  BY <1>1 DEF McpInv, TypeOK
<1> QED
  BY <1>1, <1>3, <1>4, <1>5, <1>6, <1>7, QuietSafe

(* What follows the attempt holds no commit unit yet.                                *)
LEMMA RunSafe ==
  ASSUME McpInv, NEW s \in Servers, Run(s)
  PROVE  McpInv'
<1>1. /\ call[s].at = "run"
      /\ UNCHANGED <<files, counters, lock, clock, screen, history, robbed, unreturned, bounds>>
      /\ \/ Return(s)
         \/ call[s].phase = "preview" /\ Reserve(s, "preview")
         \/ call[s].phase = "commit" /\ GoOn(s, "lookup")
  BY DEF Run, At
<1>2. unreturned' \in BOOLEAN /\ ~HoldsUnit(s)
  BY <1>1 DEF McpInv, TypeOK, HoldsUnit
<1>3. CASE Return(s)
  BY <1>1, <1>2, <1>3, ReturnTyped, QuietSafe
<1>4. CASE call[s].phase = "preview" /\ Reserve(s, "preview")
  <2>1. /\ call' \in [Servers -> Call] /\ \A q \in Servers \ {s} : call'[q] = call[q]
        /\ call'[s].at = "lock" /\ call'[s].want = "preview" /\ call'[s].id = call[s].id
        /\ call'[s].phase = call[s].phase /\ call'[s].using = call[s].using
    BY <1>4, ReserveTyped DEF Kinds
  <2>2. CallHolds(s)'
    BY <1>1, <1>4, <2>1 DEF McpInv, CallHolds, Kinds
  <2>3. ~Inside(s)' /\ ~At(s, "write")' /\ ~HoldsUnit(s)'
    BY <2>1 DEF Inside, At, HoldsUnit
  <2> QED
    BY <1>1, <1>2, <2>1, <2>2, <2>3, QuietSafe
<1>5. CASE call[s].phase = "commit" /\ GoOn(s, "lookup")
  <2>1. "lookup" \in Steps
    BY DEF Steps
  <2>2. CallHolds(s)'
    BY <1>1, <1>5, <2>1, GoOnTyped DEF McpInv, CallHolds
  <2>3. ~Inside(s)' /\ ~At(s, "write")' /\ ~HoldsUnit(s)'
    BY <1>5, <2>1, GoOnTyped DEF Inside, At, HoldsUnit
  <2> QED
    BY <1>1, <1>2, <1>5, <2>1, <2>2, <2>3, GoOnTyped, QuietSafe
<1> QED
  BY <1>1, <1>3, <1>4, <1>5

(* An approval that is looked up is not taken yet.                                   *)
LEMMA LookUpSafe ==
  ASSUME McpInv, NEW s \in Servers, LookUp(s)
  PROVE  McpInv'
<1>1. /\ call[s].at = "lookup"
      /\ UNCHANGED <<files, counters, lock, clock, screen, history, robbed, unreturned, bounds>>
      /\ Reserve(s, "commit") \/ Return(s)
  BY DEF LookUp, At
<1>2. unreturned' \in BOOLEAN /\ ~HoldsUnit(s)
  BY <1>1 DEF McpInv, TypeOK, HoldsUnit
<1>3. CASE Return(s)
  BY <1>1, <1>2, <1>3, ReturnTyped, QuietSafe
<1>4. CASE Reserve(s, "commit")
  <2>1. /\ call' \in [Servers -> Call] /\ \A q \in Servers \ {s} : call'[q] = call[q]
        /\ call'[s].at = "lock" /\ call'[s].want = "commit" /\ call'[s].id = call[s].id
        /\ call'[s].phase = call[s].phase /\ call'[s].using = call[s].using
    BY <1>4, ReserveTyped DEF Kinds
  <2>2. CallHolds(s)'
    BY <1>1, <2>1 DEF McpInv, CallHolds, Kinds
  <2>3. ~Inside(s)' /\ ~At(s, "write")' /\ ~HoldsUnit(s)'
    BY <2>1 DEF Inside, At, HoldsUnit
  <2> QED
    BY <1>1, <1>2, <2>1, <2>2, <2>3, QuietSafe
<1> QED
  BY <1>1, <1>3, <1>4

(* The unit of a claim that is lost is on its way back, for the window it is of.         *)
LEMMA GivingBack ==
  ASSUME McpInv, NEW s \in Servers, call[s].at \in {"claim", "rename"}, Reserve(s, "back"),
         UNCHANGED <<files, counters, lock, clock, screen, history, robbed, unreturned, bounds>>
  PROVE  McpInv'
<1>1. /\ call' \in [Servers -> Call] /\ \A q \in Servers \ {s} : call'[q] = call[q]
      /\ call'[s].at = "lock" /\ call'[s].want = "back" /\ call'[s].id = call[s].id
      /\ call'[s].phase = call[s].phase /\ call'[s].using = call[s].using
      /\ call'[s].window = call[s].window
  BY ReserveTyped
<1>2. CallHolds(s)' /\ HoldsUnit(s)
  BY <1>1 DEF McpInv, CallHolds, Kinds, HoldsUnit
<1>3. ~Inside(s)' /\ ~At(s, "write")' /\ HoldsUnit(s)'
  BY <1>1 DEF Inside, At, HoldsUnit
<1>4. unreturned' \in BOOLEAN
  BY DEF McpInv, TypeOK
<1> QED
  BY <1>1, <1>2, <1>3, <1>4, QuietSafe

(* A claim that is read keeps its unit, or starts to give it back.                   *)
LEMMA ReadClaimSafe ==
  ASSUME McpInv, NEW s \in Servers, ReadClaim(s)
  PROVE  McpInv'
<1>1. /\ call[s].at = "claim"
      /\ UNCHANGED <<files, counters, lock, clock, screen, history, robbed, unreturned, bounds>>
      /\ Reserve(s, "back") \/ GoOn(s, "rename")
  BY DEF ReadClaim, At
<1>2. CASE GoOn(s, "rename")
  <2>1. "rename" \in Steps /\ unreturned' \in BOOLEAN
    BY <1>1 DEF Steps, McpInv, TypeOK
  <2>2. CallHolds(s)'
    BY <1>1, <1>2, <2>1, GoOnTyped DEF McpInv, CallHolds
  <2>3. ~Inside(s)' /\ ~At(s, "write")' /\ (HoldsUnit(s) <=> HoldsUnit(s)')
    BY <1>1, <1>2, <2>1, GoOnTyped DEF Inside, At, HoldsUnit
  <2> QED
    BY <1>1, <1>2, <2>1, <2>2, <2>3, GoOnTyped, QuietSafe
<1> QED
  BY <1>1, <1>2, GivingBack

(* What is written next was read inside the lock; others write nothing meanwhile.        *)
LEMMA WritesStay ==
  ASSUME McpInv, NEW s \in Servers, \A q \in Servers \ {s} : call'[q] = call[q],
         UNCHANGED counters, robbed => robbed', ~At(s, "write")'
  PROVE  CopiesFresh' /\ RoomChecked'
BY DEF McpInv, CopiesFresh, RoomChecked, At

(* A step of one call that takes or gives the lock.                                      *)
LEMMA LockStepSafe ==
  ASSUME McpInv, NEW s \in Servers, call' \in [Servers -> Call], CallHolds(s)',
         \A q \in Servers \ {s} : call'[q] = call[q],
         UNCHANGED <<files, counters, clock, screen, history, unreturned, bounds>>,
         lock' \in Holders \cup {None}, robbed' \in BOOLEAN, robbed => robbed', LockHeld',
         ~At(s, "write")', call'[s].using \in {None, call[s].using},
         call'[s].phase = "preview" => call[s].phase = "preview",
         HoldsUnit(s)' <=> HoldsUnit(s), call'[s].window = call[s].window \/ ~HoldsUnit(s)
  PROVE  McpInv'
<1>1. TypeOK'
  BY DEF McpInv, TypeOK, files, history, bounds
<1>2. (\A q \in Servers : CallHolds(q)') /\ (\A t \in Terminals : ScreenHolds(t)')
  BY CallsHold, ScreensStay
<1>3. PreviewsBounded'
  <2>1. \A q \in Servers : call'[q].phase = "preview" => call[q].phase = "preview"
    OBVIOUS
  <2> QED
    BY <2>1, PreviewsFall DEF bounds
<1>4. OnePlace' /\ SpentOnce'
  <2>1. None \notin Serials
    BY McpAssumption
  <2>2. \A n \in Serials, p \in Places, x \in Corners : Has(n, p, x)' => Has(n, p, x)
    BY <2>1 DEF Has, files
  <2> QED
    BY <2>2, PlacesFall DEF history, bounds
<1>5. CopiesFresh' /\ RoomChecked'
  BY WritesStay
<1>6. UnitsCounted'
  BY HoldingStays, UnitsFall DEF history, bounds
<1> QED
  BY <1>1, <1>2, <1>3, <1>4, <1>5, <1>6 DEF McpInv

(* The directory that was free is made by one process, with nobody inside.           *)
LEMMA TakeLockSafe ==
  ASSUME McpInv, NEW s \in Servers, TakeLock(s)
  PROVE  McpInv'
<1>1. /\ call[s].at = "lock" /\ lock = None /\ GoOn(s, "read") /\ "read" \in Steps
      /\ lock' = [by |-> s, live |-> TRUE, old |-> FALSE]
      /\ UNCHANGED <<files, counters, clock, screen, history, robbed, unreturned, bounds>>
  BY DEF TakeLock, At, Steps
<1>2. lock' \in Holders /\ lock' # None
  <2>1. lock' \in Holders
    BY <1>1 DEF Holders
  <2> QED
    BY <2>1, McpAssumption
<1>3. robbed' \in BOOLEAN
  BY <1>1 DEF McpInv, TypeOK
<1>4. CallHolds(s)'
  BY <1>1, GoOnTyped DEF McpInv, CallHolds
<1>5. LockHeld'
  <2>1. ~robbed => \A q \in Servers : ~Inside(q)
    BY <1>1 DEF McpInv, LockHeld
  <2>2. \A q \in Servers \ {s} : Inside(q)' <=> Inside(q)
    BY <1>1, GoOnTyped DEF Inside
  <2> QED
    BY <1>1, <1>2, <2>1, <2>2 DEF LockHeld
<1>6. ~At(s, "write")' /\ (HoldsUnit(s)' <=> HoldsUnit(s))
  BY <1>1, GoOnTyped DEF At, HoldsUnit
<1> QED
  BY <1>1, <1>2, <1>3, <1>4, <1>5, <1>6, GoOnTyped, LockStepSafe

(* Who takes a lock away leaves nobody inside, or a live process was robbed.         *)
LEMMA BreakSafe ==
  ASSUME McpInv, NEW s \in Servers, Break(s)
  PROVE  McpInv'
<1>1. /\ call[s].at = "break" /\ lock' = None /\ GoOn(s, "lock") /\ "lock" \in Steps
      /\ robbed' = (robbed \/ (lock # None /\ lock.live))
      /\ UNCHANGED <<files, counters, clock, screen, history, unreturned, bounds>>
  BY DEF Break, At, Steps
<1>2. robbed' \in BOOLEAN
  BY <1>1 DEF McpInv, TypeOK
<1>3. CallHolds(s)'
  BY <1>1, GoOnTyped DEF McpInv, CallHolds
<1>4. LockHeld'
  <2>1. ~robbed' => \A q \in Servers : ~Inside(q)
    BY <1>1 DEF McpInv, LockHeld
  <2>2. \A q \in Servers : Inside(q)' => Inside(q)
    BY <1>1, GoOnTyped DEF Inside
  <2> QED
    BY <2>1, <2>2 DEF LockHeld
<1>5. ~At(s, "write")' /\ (HoldsUnit(s)' <=> HoldsUnit(s))
  BY <1>1, GoOnTyped DEF At, HoldsUnit
<1> QED
  BY <1>1, <1>2, <1>3, <1>4, <1>5, GoOnTyped, LockStepSafe

(* Whoever leaves the lock removes its own, as long as nobody was robbed.                 *)
LEMMA UnlockSafe ==
  ASSUME McpInv, NEW s \in Servers, Unlock(s)
  PROVE  McpInv'
<1>1. /\ call[s].at = "unlock" /\ lock' = None
      /\ robbed' = (robbed \/ (lock # None /\ lock.by # s /\ lock.live))
      /\ IF Over(s) THEN Return(s) ELSE GoOn(s, After[call[s].want])
      /\ UNCHANGED <<files, counters, clock, screen, history, unreturned, bounds>>
  BY DEF Unlock, At
<1>2. robbed' \in BOOLEAN
  BY <1>1 DEF McpInv, TypeOK
<1>3. \A q \in Servers \ {s} : call'[q] = call[q]
  BY <1>1, ReturnTyped, GoOnTyped DEF Return, GoOn, McpInv, TypeOK
<1>4. ASSUME ~Inside(s)' PROVE LockHeld'
  <2>1. ~robbed' => \A q \in Servers \ {s} : ~Inside(q)
    BY <1>1 DEF McpInv, LockHeld, Inside
  <2>2. \A q \in Servers \ {s} : Inside(q)' <=> Inside(q)
    BY <1>3 DEF Inside
  <2> QED
    BY <1>4, <2>1, <2>2 DEF LockHeld
<1>5. CASE Over(s)
  <2>1. ~HoldsUnit(s)
    BY <1>1, <1>5 DEF Over, HoldsUnit
  <2> QED
    BY <1>1, <1>2, <1>4, <1>5, <2>1, ReturnTyped, LockStepSafe
<1>6. CASE ~Over(s)
  <2> DEFINE step == After[call[s].want]
  <2>1. call[s].granted /\ call[s].want \in Kinds
    BY <1>1, <1>6 DEF Over, McpInv, CallHolds
  <2>2. /\ call[s].want = "attempt" => step = "run"
        /\ call[s].want = "preview" => step = "store"
        /\ call[s].want = "commit" => step = "claim"
    BY DEF After
  <2>3. step \in Steps /\ step \in {"run", "store", "claim"}
    BY <2>1, <2>2 DEF Steps, Kinds
  <2>4. GoOn(s, step)
    BY <1>1, <1>6
  <2> HIDE DEF step
  <2>5. CallHolds(s)'
    BY <1>1, <2>1, <2>2, <2>3, <2>4, GoOnTyped DEF McpInv, CallHolds, Kinds
  <2>6. ~Inside(s)' /\ ~At(s, "write")'
    BY <2>3, <2>4, GoOnTyped DEF Inside, At
  <2>7. HoldsUnit(s)' <=> HoldsUnit(s)
    BY <1>1, <2>1, <2>2, <2>3, <2>4, GoOnTyped DEF HoldsUnit, Kinds
  <2> QED
    BY <1>1, <1>2, <1>4, <2>3, <2>4, <2>5, <2>6, <2>7, GoOnTyped, LockStepSafe
<1> QED
  BY <1>5, <1>6

(* Of the budget that is looked at inside the lock, the rest is still there when it is     *)
(* written.                                                                            *)
LEMMA ReadCountersSafe ==
  ASSUME McpInv, NEW s \in Servers, ReadCounters(s)
  PROVE  McpInv'
<1> DEFINE w == call[s].want
           full == w # "back" /\ Rollover(counters[w], call[s].window).count >= Cap[w]
           new == [call[s] EXCEPT !.at = IF full THEN "unlock" ELSE "write",
                                  !.copy = IF full THEN None ELSE counters, !.granted = FALSE]
<1>1. /\ call[s].at = "read"
      /\ call' = [call EXCEPT ![s] = new]
      /\ UNCHANGED <<files, counters, lock, clock, screen, history, robbed, unreturned, bounds>>
  BY DEF ReadCounters, At
<1>2. call \in [Servers -> Call] /\ call[s] \in Call /\ counters \in [Kinds -> Bucket]
  BY McpTyped
<1>3. /\ new \in Call /\ new.at = (IF full THEN "unlock" ELSE "write") /\ new.granted = FALSE
      /\ new.id = call[s].id /\ new.phase = call[s].phase /\ new.want = call[s].want
      /\ new.using = call[s].using /\ new.window = call[s].window
      /\ new.copy = (IF full THEN None ELSE counters)
  BY <1>2 DEF Call
<1>4. call' \in [Servers -> Call] /\ call'[s] = new /\ \A q \in Servers \ {s} : call'[q] = call[q]
  BY <1>1, <1>2, <1>3
<1> HIDE DEF new
<1>5. CallHolds(s)'
  BY <1>1, <1>2, <1>3, <1>4 DEF McpInv, CallHolds
<1>6. unreturned' \in BOOLEAN /\ Inside(s)
  BY <1>1 DEF McpInv, TypeOK, Inside
<1>7. CASE full
  <2>1. ~HoldsUnit(s) /\ ~HoldsUnit(s)' /\ ~At(s, "write")'
    BY <1>1, <1>3, <1>4, <1>7 DEF HoldsUnit, At
  <2> QED
    BY <1>1, <1>3, <1>4, <1>5, <1>6, <2>1, QuietSafe
<1>8. CASE ~full
  <2>1. TypeOK'
    BY <1>1, <1>4 DEF McpInv, TypeOK, files, history, bounds
  <2>2. (\A q \in Servers : CallHolds(q)') /\ (\A t \in Terminals : ScreenHolds(t)')
    BY <1>1, <1>4, <1>5, CallsHold, ScreensStay
  <2>3. PreviewsBounded'
    <3>1. \A q \in Servers : call'[q].phase = "preview" => call[q].phase = "preview"
      BY <1>3, <1>4
    <3> QED
      BY <1>1, <3>1, PreviewsFall DEF bounds
  <2>4. OnePlace' /\ SpentOnce'
    <3>1. \A n \in Serials, p \in Places, x \in Corners : Has(n, p, x)' => Has(n, p, x)
      BY <1>1, <1>3, <1>4 DEF Has, files
    <3> QED
      BY <1>1, <3>1, PlacesFall DEF history, bounds
  <2>5. LockHeld'
    BY <1>1, <1>4, <1>6 DEF McpInv, LockHeld, Inside
  <2>6. CopiesFresh'
    BY <1>1, <1>3, <1>4, <1>8 DEF McpInv, CopiesFresh, At
  <2>7. RoomChecked'
    <3>1. w \in Kinds => Rollover(counters[w], call[s].window).count < Cap[w]
      <4>1. ASSUME w \in Kinds
            PROVE  Rollover(counters[w], call[s].window).count \in Nat /\ Cap[w] \in Nat /\ w # "back"
        <5>1. counters[w] \in Bucket /\ Cap[w] \in Nat /\ w # "back"
          BY <1>2, <4>1, McpTyped DEF Kinds
        <5> QED
          BY <5>1 DEF Rollover, Bucket
      <4> QED
        BY <1>8, <4>1
    <3>2. At(s, "write")' /\ call'[s].want \in Kinds =>
            (Rollover(call[s].copy[call[s].want], call[s].window).count < Cap[call[s].want])'
      BY <1>3, <1>4, <1>8, <3>1 DEF At, Rollover
    <3> QED
      BY <1>4, <3>2 DEF McpInv, RoomChecked, At, Rollover
  <2>8. UnitsCounted'
    <3>1. HoldsUnit(s)' <=> HoldsUnit(s)
      BY <1>1, <1>3, <1>4, <1>8 DEF HoldsUnit
    <3> QED
      BY <1>1, <1>3, <1>4, <3>1, HoldingStays, UnitsFall DEF history, bounds
  <2> QED
    BY <2>1, <2>2, <2>3, <2>4, <2>5, <2>6, <2>7, <2>8 DEF McpInv
<1> QED
  BY <1>7, <1>8

(* The numbers of units, when a call takes one, when it is rid of one, and of the windows  *)
(* it has nothing to do with.                                                           *)
LEMMA UnitTaken ==
  ASSUME McpInv, NEW s, NEW w \in 0..MaxClock, Holding(w)' = Holding(w) \cup {s}, s \notin Holding(w),
         spentIn'[w] = spentIn[w]
  PROVE  Used(w)' = Used(w) + 1
<1>1. IsFiniteSet(Holding(w)) /\ Cardinality(Holding(w)) \in Nat /\ spentIn[w] \in Nat
  BY HoldingFinite
<1>2. Cardinality(Holding(w)') = Cardinality(Holding(w)) + 1
  BY <1>1, FS_AddElement
<1> QED
  BY <1>1, <1>2 DEF Used

(* A unit that leaves a window, by a request or not.                                 *)
LEMMA UnitGone ==
  ASSUME McpInv, NEW s, NEW w \in 0..MaxClock, Holding(w)' = Holding(w) \ {s}, s \in Holding(w)
  PROVE  /\ Cardinality(Holding(w)) > 0
         /\ spentIn'[w] = spentIn[w] => Used(w)' = Used(w) - 1
         /\ spentIn'[w] = spentIn[w] + 1 => Used(w)' = Used(w)
<1>1. IsFiniteSet(Holding(w)) /\ Cardinality(Holding(w)) \in Nat /\ spentIn[w] \in Nat
  BY HoldingFinite
<1>2. Cardinality(Holding(w)') = Cardinality(Holding(w)) - 1
  BY <1>1, FS_RemoveElement
<1>3. Cardinality(Holding(w)) > 0
  BY <1>1, FS_EmptySet
<1> QED
  BY <1>1, <1>2, <1>3 DEF Used

(* A window no unit comes to or leaves.                                              *)
LEMMA UnitsSame ==
  ASSUME McpInv, NEW w \in 0..MaxClock, Holding(w)' = Holding(w), spentIn'[w] = spentIn[w]
  PROVE  Used(w)' = Used(w)
BY DEF Used

(* What is written is a file of counters.                                              *)
LEMMA WrittenTyped ==
  ASSUME NEW file \in [Kinds -> Bucket], NEW w \in 0..MaxClock, NEW k \in Kinds
  PROVE  /\ GiveBack(file, w) \in [Kinds -> Bucket] /\ Rollover(file[k], w) \in Bucket
         /\ [file EXCEPT ![k] = [Rollover(file[k], w) EXCEPT !.count = @ + 1]] \in [Kinds -> Bucket]
<1> DEFINE b == Rollover(file[k], w)
<1>1. b \in Bucket
  BY DEF Rollover, Bucket
<1>2. [b EXCEPT !.count = @ + 1] \in Bucket
  <2>1. b.count + 1 \in Nat /\ b = [window |-> b.window, count |-> b.count] /\ b.window \in 0..MaxClock
    BY <1>1 DEF Bucket
  <2> QED
    BY <2>1 DEF Bucket
<1>3. GiveBack(file, w) \in [Kinds -> Bucket]
  <2>1. "commit" \in Kinds /\ file["commit"] \in Bucket
    BY DEF Kinds
  <2>2. file["commit"].count > 0 => [file["commit"] EXCEPT !.count = @ - 1] \in Bucket
    <3> DEFINE c == file["commit"]
    <3>1. c = [window |-> c.window, count |-> c.count] /\ c.window \in 0..MaxClock /\ c.count \in Nat
      BY <2>1 DEF Bucket
    <3>2. c.count > 0 => c.count - 1 \in Nat
      BY <3>1
    <3> QED
      BY <3>1, <3>2 DEF Bucket
  <2>3. [file EXCEPT !["commit"].count = @ - 1]
          = [file EXCEPT !["commit"] = [file["commit"] EXCEPT !.count = @ - 1]]
    BY <2>1
  <2> QED
    BY <2>1, <2>2, <2>3 DEF GiveBack
<1> HIDE DEF b
<1>4. [file EXCEPT ![k] = [b EXCEPT !.count = @ + 1]] \in [Kinds -> Bucket]
  BY <1>2
<1> QED
  BY <1>1, <1>3, <1>4 DEF b

(* The unit that is written off is one the counter has, when the counter is still of its  *)
(* window.                                                                             *)
LEMMA BackCounted ==
  ASSUME McpInv, NEW s \in Servers, HoldsUnit(s), ~HoldsUnit(s)',
         NEW w0 \in 0..MaxClock, w0 = call[s].window,
         \A q \in Servers \ {s} : call'[q] = call[q],
         UNCHANGED <<spentIn, robbed, unreturned, crashes>>,
         robbed \/ counters' = GiveBack(counters, w0)
  PROVE  UnitsCounted'
<1>1. CASE robbed
  BY <1>1 DEF UnitsCounted
<1>2. CASE ~robbed
  <2>1. w0 \in 0..MaxClock /\ MaxClock \in Nat
    BY McpTyped, CallFields
  <2>2. /\ counters["commit"].window \in 0..MaxClock /\ counters["commit"].count \in Nat
        /\ Cap["commit"] \in Nat
    BY McpTyped DEF Kinds, Bucket
  <2>3. Holding(w0)' = Holding(w0) \ {s} /\ s \in Holding(w0)
    BY DEF Holding, HoldsUnit
  <2>4. \A w \in 0..MaxClock : w # w0 => Holding(w)' = Holding(w)
    BY DEF Holding, HoldsUnit
  <2>5. Used(w0)' = Used(w0) - 1 /\ Used(w0) \in Nat /\ Used(w0) > 0
    <3>1. Cardinality(Holding(w0)) > 0 /\ Used(w0)' = Used(w0) - 1
      BY <2>1, <2>3, UnitGone
    <3>2. Cardinality(Holding(w0)) \in Nat /\ spentIn[w0] \in Nat
      BY <2>1, HoldingFinite
    <3>3. Used(w0) = spentIn[w0] + Cardinality(Holding(w0))
      BY DEF Used
    <3> HIDE DEF Used, Holding
    <3> QED
      BY <3>1, <3>2, <3>3
  <2>6. \A w \in 0..MaxClock : Used(w) \in Nat /\ (w # w0 => Used(w)' = Used(w))
    BY <2>4, HoldingFinite, UnitsSame
  <2>7. UnitsCounted
    BY DEF McpInv
  <2>8. CASE counters["commit"].window = w0
    <3>1. /\ Used(w0) <= counters["commit"].count
          /\ ~unreturned /\ crashes = 0 => Used(w0) = counters["commit"].count
      BY <1>2, <2>7, <2>8 DEF UnitsCounted
    <3>2. /\ counters'["commit"].window = w0
          /\ counters'["commit"].count = counters["commit"].count - 1
      <4>1. counters["commit"].count > 0
        BY <2>2, <2>5, <3>1
      <4>2. counters' = [counters EXCEPT !["commit"].count = @ - 1]
        BY <1>2, <2>8, <4>1 DEF GiveBack
      <4>3. counters \in [Kinds -> Bucket] /\ "commit" \in Kinds
        BY McpTyped DEF Kinds
      <4> QED
        BY <2>8, <4>2, <4>3 DEF Bucket
    <3> HIDE DEF Used
    <3> QED
      BY <1>2, <2>1, <2>2, <2>5, <2>6, <2>7, <2>8, <3>1, <3>2 DEF UnitsCounted
  <2>9. CASE counters["commit"].window # w0
    <3>1. counters' = counters
      BY <1>2, <2>9 DEF GiveBack
    <3> HIDE DEF Used
    <3> QED
      BY <1>2, <2>1, <2>2, <2>5, <2>6, <2>7, <2>9, <3>1 DEF UnitsCounted
  <2> QED
    BY <2>8, <2>9
<1> QED
  BY <1>1, <1>2

(* A unit that is taken is counted in its window: the counter's, or a later one, of which  *)
(* nothing was taken yet.                                                              *)
LEMMA CommitCounted ==
  ASSUME McpInv, NEW s \in Servers, NEW w1 \in 0..MaxClock, ~HoldsUnit(s),
         NEW w2, w2 = Rollover(counters["commit"], w1).window, HoldsUnit(s)', call'[s].window = w2,
         \A q \in Servers \ {s} : call'[q] = call[q],
         UNCHANGED <<spentIn, robbed, unreturned, crashes>>, ~robbed,
         Rollover(counters["commit"], w1).count < Cap["commit"],
         counters'["commit"].window = w2,
         counters'["commit"].count = Rollover(counters["commit"], w1).count + 1
  PROVE  UnitsCounted'
<1> DEFINE b == Rollover(counters["commit"], w1)
           now == counters["commit"]
<1>1. MaxClock \in Nat /\ now.window \in 0..MaxClock /\ now.count \in Nat /\ Cap["commit"] \in Nat
  BY McpTyped DEF Kinds, Bucket
<1>2. /\ now.window < w1 => w2 = w1 /\ b.count = 0
      /\ ~(now.window < w1) => w2 = now.window /\ b.count = now.count
  BY DEF Rollover
<1> HIDE DEF b
<1>3. w2 \in 0..MaxClock
  BY <1>1, <1>2
<1>4. Holding(w2)' = Holding(w2) \cup {s} /\ s \notin Holding(w2)
  BY DEF Holding, HoldsUnit
<1>5. \A w \in 0..MaxClock : w # w2 => Holding(w)' = Holding(w)
  BY DEF Holding, HoldsUnit
<1>6. Used(w2)' = Used(w2) + 1
  BY <1>3, <1>4, UnitTaken
<1>7. \A w \in 0..MaxClock : Used(w) \in Nat /\ (w # w2 => Used(w)' = Used(w))
  BY <1>5, HoldingFinite, UnitsSame
<1>8. UnitsCounted
  BY DEF McpInv
<1>9. /\ counters'["commit"].window = w2 /\ counters'["commit"].count = b.count + 1
      /\ b.count < Cap["commit"]
  BY DEF b
<1> HIDE DEF Used
<1>10. CASE now.window < w1
  BY <1>1, <1>2, <1>3, <1>6, <1>7, <1>8, <1>9, <1>10 DEF UnitsCounted
<1>11. CASE ~(now.window < w1)
  BY <1>1, <1>2, <1>3, <1>6, <1>7, <1>8, <1>9, <1>11 DEF UnitsCounted
<1> QED
  BY <1>10, <1>11

(* Who writes is alone inside the lock, unless somebody was robbed.                      *)
LEMMA WritesAlone ==
  ASSUME McpInv, ~robbed, NEW s \in Servers, At(s, "write")
  PROVE  call[s].copy = counters /\ \A q \in Servers \ {s} : ~Inside(q)
<1>1. Inside(s) /\ call[s].copy = counters
  BY DEF McpInv, CopiesFresh, At, Inside
<1>2. \A q \in Servers : Inside(q) => lock.by = q
  BY DEF McpInv, LockHeld
<1> QED
  BY <1>1, <1>2

(* The file is replaced by what was read inside the same turn, and one change.       *)
LEMMA WriteCountersSafe ==
  ASSUME McpInv, NEW s \in Servers, WriteCounters(s)
  PROVE  McpInv'
<1> DEFINE k == call[s].want
           w1 == call[s].window
           b == Rollover(call[s].copy[k], w1)
           new == [call[s] EXCEPT !.at = "unlock", !.copy = None, !.granted = TRUE,
                                  !.window = IF k = "back" THEN @ ELSE b.window]
<1>1. /\ call[s].at = "write"
      /\ counters' = IF k = "back" THEN GiveBack(call[s].copy, w1)
                     ELSE [call[s].copy EXCEPT ![k] = [b EXCEPT !.count = @ + 1]]
      /\ call' = [call EXCEPT ![s].at = "unlock", ![s].copy = None, ![s].granted = TRUE,
                              ![s].window = IF k = "back" THEN @ ELSE b.window]
      /\ UNCHANGED <<files, lock, clock, screen, history, robbed, unreturned, bounds>>
  BY DEF WriteCounters, At
<1>2. call \in [Servers -> Call] /\ call[s] \in Call /\ counters \in [Kinds -> Bucket]
  BY McpTyped
<1>3. /\ k \in Kinds \cup {"back"} /\ call[s].copy \in [Kinds -> Bucket] /\ w1 \in 0..MaxClock
      /\ call[s].id \in Ids /\ call[s].using = None /\ call[s].phase \in {"preview", "commit"}
  BY <1>1, <1>2, CallFields DEF McpInv, CallHolds
<1>4. k \in Kinds => b \in Bucket /\ b.window \in 0..MaxClock
  BY <1>3, WrittenTyped DEF Bucket
<1>5. counters' \in [Kinds -> Bucket]
  <2>1. CASE k = "back"
    BY <1>1, <1>3, <2>1, WrittenTyped DEF Kinds
  <2>2. CASE k \in Kinds
    BY <1>1, <1>3, <2>2, WrittenTyped DEF Kinds
  <2> QED
    BY <1>3, <2>1, <2>2
<1>6. /\ new \in Call /\ new.at = "unlock" /\ new.granted = TRUE /\ new.id = call[s].id
      /\ new.phase = call[s].phase /\ new.want = k /\ new.using = call[s].using
      /\ new.window = IF k = "back" THEN w1 ELSE b.window
  <2> DEFINE w3 == IF k = "back" THEN w1 ELSE b.window
  <2>1. w3 \in 0..MaxClock
    BY <1>3, <1>4
  <2> HIDE DEF w3
  <2>2. [call[s] EXCEPT !.at = "unlock", !.copy = None, !.granted = TRUE, !.window = w3] \in Call
    BY <1>2, <2>1 DEF Call
  <2>3. new = [call[s] EXCEPT !.at = "unlock", !.copy = None, !.granted = TRUE, !.window = w3]
    BY DEF w3
  <2> QED
    BY <1>2, <2>2, <2>3 DEF w3, Call
<1> HIDE DEF b
<1>7. call' \in [Servers -> Call] /\ call'[s] = new /\ \A q \in Servers \ {s} : call'[q] = call[q]
  <2>1. call' = [call EXCEPT ![s] = new]
    BY <1>1, <1>2
  <2> HIDE DEF new
  <2> QED
    BY <1>2, <1>6, <2>1
<1> HIDE DEF new
<1>8. CallHolds(s)'
  BY <1>3, <1>6, <1>7 DEF McpInv, CallHolds, Kinds
<1>9. TypeOK'
  BY <1>1, <1>5, <1>7 DEF McpInv, TypeOK, files, history, bounds
<1>10. (\A q \in Servers : CallHolds(q)') /\ (\A t \in Terminals : ScreenHolds(t)')
  BY <1>1, <1>7, <1>8, CallsHold, ScreensStay
<1>11. PreviewsBounded'
  <2>1. \A q \in Servers : call'[q].phase = "preview" => call[q].phase = "preview"
    BY <1>6, <1>7
  <2> QED
    BY <1>1, <2>1, PreviewsFall DEF bounds
<1>12. OnePlace' /\ SpentOnce'
  <2>1. \A n \in Serials, p \in Places, x \in Corners : Has(n, p, x)' => Has(n, p, x)
    BY <1>1, <1>6, <1>7 DEF Has, files
  <2> QED
    BY <1>1, <2>1, PlacesFall DEF history, bounds
<1>13. LockHeld'
  BY <1>1, <1>6, <1>7 DEF McpInv, LockHeld, Inside
<1>14. CopiesFresh'
  <2>1. ~robbed => \A q \in Servers \ {s} : ~Inside(q)
    BY <1>1, WritesAlone DEF At
  <2> QED
    BY <1>1, <1>6, <1>7, <2>1 DEF CopiesFresh, At, Inside
<1>15. RoomChecked'
  BY <1>1, <1>6, <1>7 DEF McpInv, RoomChecked, At
<1>16. UnitsCounted'
  <2>1. UNCHANGED <<spentIn, robbed, unreturned, crashes>>
    BY <1>1 DEF history, bounds
  <2>2. CASE robbed
    BY <2>1, <2>2 DEF UnitsCounted
  <2>3. CASE ~robbed
    <3>1. call[s].copy = counters
      BY <1>1, <2>3, WritesAlone DEF At
    <3>2. CASE k = "back"
      <4>1. HoldsUnit(s) /\ ~HoldsUnit(s)' /\ counters' = GiveBack(counters, w1)
        BY <1>1, <1>6, <1>7, <3>1, <3>2 DEF HoldsUnit
      <4> QED
        BY <1>3, <1>7, <2>1, <4>1, BackCounted
    <3>3. CASE k = "commit"
      <4>1. ~HoldsUnit(s) /\ HoldsUnit(s)' /\ b = Rollover(counters["commit"], w1)
        BY <1>1, <1>6, <1>7, <3>1, <3>3 DEF HoldsUnit, b
      <4>2. b.count < Cap["commit"]
        <5>1. At(s, "write") /\ call[s].want \in Kinds
          BY <1>1, <3>3 DEF At, Kinds
        <5> QED
          BY <3>3, <5>1 DEF McpInv, RoomChecked, b
      <4>3. b \in Bucket /\ "commit" \in Kinds
        BY <1>4, <3>3 DEF Kinds
      <4>4. counters' = [counters EXCEPT !["commit"] = [b EXCEPT !.count = @ + 1]]
        BY <1>1, <3>1, <3>3
      <4>5. counters'["commit"].window = b.window /\ counters'["commit"].count = b.count + 1
        BY <1>2, <4>3, <4>4 DEF Bucket
      <4>6. call'[s].window = b.window
        BY <1>6, <1>7, <3>3
      <4>7. /\ b.window = Rollover(counters["commit"], w1).window
            /\ Rollover(counters["commit"], w1).count < Cap["commit"]
            /\ counters'["commit"].count = Rollover(counters["commit"], w1).count + 1
        BY <4>1, <4>2, <4>5
      <4>9. \E w2 : w2 = b.window
        OBVIOUS
      <4>10. PICK w2 : w2 = b.window
        BY <4>9
      <4> QED
        BY <1>3, <1>7, <2>1, <2>3, <4>1, <4>5, <4>6, <4>7, <4>10, CommitCounted
    <3>4. CASE k \in Kinds \ {"commit"}
      <4>1. ~HoldsUnit(s) /\ ~HoldsUnit(s)'
        BY <1>1, <1>6, <1>7, <3>4 DEF HoldsUnit, Kinds
      <4>2. counters'["commit"] = counters["commit"]
        BY <1>1, <1>2, <3>1, <3>4 DEF Kinds
      <4> QED
        BY <1>7, <2>1, <4>1, <4>2, HoldingStays, UnitsFall
    <3> QED
      BY <1>3, <3>2, <3>3, <3>4
  <2> QED
    BY <2>2, <2>3
<1> QED
  BY <1>9, <1>10, <1>11, <1>12, <1>13, <1>14, <1>15, <1>16 DEF McpInv

-----------------------------------------------------------------------------
(* What the renames do to an approval: it moves from one place to one other.              *)
LEMMA PlacesMove ==
  ASSUME McpInv, UNCHANGED <<posts, revoked, previews>>,
         NEW n0 \in Serials, NEW p0 \in Places, NEW x0 \in Corners, Has(n0, p0, x0), ~Has(n0, p0, x0)',
         NEW p1, NEW x1,
         \A n \in Serials, p \in Places, x \in Corners :
           Has(n, p, x)' => Has(n, p, x) \/ (n = n0 /\ p = p1 /\ x = x1)
  PROVE  OnePlace' /\ SpentOnce'
<1>1. OnePlace /\ SpentOnce
  BY DEF McpInv
<1>2. ASSUME NEW n \in Serials, NEW p \in Places, NEW x \in Corners, Has(n, p, x)'
      PROVE  (n # n0 /\ Has(n, p, x)) \/ (n = n0 /\ p = p1 /\ x = x1)
  <2>1. CASE n = n0 /\ Has(n, p, x)
    <3>1. p = p0 /\ x = x0
      BY <1>1, <2>1 DEF OnePlace
    <3> QED
      BY <1>2, <2>1, <3>1
  <2> QED
    BY <1>2, <2>1
<1> HIDE DEF Has
<1>3. ~(posts[n0] > 0 \/ n0 \in revoked) /\ n0 <= previews
  BY <1>1 DEF OnePlace
<1> QED
  BY <1>1, <1>2, <1>3 DEF OnePlace, SpentOnce

(* A preview that is stored is new.                                                    *)
LEMMA PlacesNew ==
  ASSUME McpInv, UNCHANGED <<posts, revoked>>, previews' = previews + 1, NEW p1, NEW x1,
         \A n \in Serials, p \in Places, x \in Corners :
           Has(n, p, x)' => Has(n, p, x) \/ (n = previews + 1 /\ p = p1 /\ x = x1)
  PROVE  OnePlace' /\ SpentOnce'
<1>1. OnePlace /\ SpentOnce
  BY DEF McpInv
<1>2. previews \in Nat /\ Serials \subseteq Nat
  BY McpTyped DEF Serials
<1>3. previews + 1 \in Serials =>
        /\ ~(posts[previews + 1] > 0 \/ previews + 1 \in revoked)
        /\ \A p \in Places, x \in Corners : ~Has(previews + 1, p, x)
  BY <1>1, <1>2 DEF OnePlace
<1>4. \A n \in Serials : n <= previews => n <= previews'
  BY <1>2
<1>5. previews + 1 <= previews'
  BY <1>2
<1> HIDE DEF Has
<1>6. ASSUME NEW n \in Serials
      PROVE  /\ \A p, q \in Places, x, y \in Corners : Has(n, p, x)' /\ Has(n, q, y)' => p = q /\ x = y
             /\ posts[n] > 0 \/ n \in revoked =>
                  n <= previews' /\ \A p \in Places, x \in Corners : ~Has(n, p, x)'
             /\ \A p \in Places, x \in Corners : Has(n, p, x)' => n <= previews'
  <2>1. CASE n = previews + 1
    BY <1>3, <1>5, <2>1
  <2>2. CASE n # previews + 1
    BY <1>1, <1>4, <2>2 DEF OnePlace
  <2> QED
    BY <2>1, <2>2
<1>7. OnePlace'
  BY <1>6 DEF OnePlace
<1>8. SpentOnce'
  BY <1>1 DEF SpentOnce
<1> QED
  BY <1>7, <1>8

(* An approval that is sent or revoked is out of the one place it was in.                 *)
LEMMA PlacesSpent ==
  ASSUME McpInv, UNCHANGED previews,
         NEW n0 \in Serials, NEW p0 \in Places, NEW x0 \in Corners, Has(n0, p0, x0), ~Has(n0, p0, x0)',
         \A n \in Serials, p \in Places, x \in Corners : Has(n, p, x)' => Has(n, p, x),
         \/ posts' = [posts EXCEPT ![n0] = @ + 1] /\ UNCHANGED revoked
         \/ revoked' = revoked \cup {n0} /\ UNCHANGED posts
  PROVE  OnePlace' /\ SpentOnce' /\ posts' \in [Serials -> Nat] /\ revoked' \subseteq Serials
<1>1. OnePlace /\ SpentOnce /\ posts \in [Serials -> Nat] /\ revoked \subseteq Serials
  BY McpTyped DEF McpInv
<1>2. ~(posts[n0] > 0 \/ n0 \in revoked) /\ n0 <= previews /\ posts[n0] = 0
  BY <1>1 DEF OnePlace
<1>3. \A p \in Places, x \in Corners : ~Has(n0, p, x)'
  <2>1. ASSUME NEW p \in Places, NEW x \in Corners, Has(n0, p, x)' PROVE FALSE
    <3>1. Has(n0, p, x)
      BY <2>1
    <3>2. p = p0 /\ x = x0
      BY <1>1, <3>1 DEF OnePlace
    <3> QED
      BY <2>1, <3>2
  <2> QED
    BY <2>1
<1> HIDE DEF Has
<1>4. posts' \in [Serials -> Nat] /\ revoked' \subseteq Serials
  BY <1>1
<1>5. /\ \A n \in Serials \ {n0} : posts'[n] = posts[n] /\ (n \in revoked' <=> n \in revoked)
      /\ posts'[n0] <= (IF n0 \in revoked' THEN 0 ELSE 1)
  BY <1>1, <1>2
<1>6. SpentOnce'
  BY <1>1, <1>5 DEF SpentOnce
<1>7. ASSUME NEW n \in Serials
      PROVE  /\ \A p, q \in Places, x, y \in Corners : Has(n, p, x)' /\ Has(n, q, y)' => p = q /\ x = y
             /\ posts'[n] > 0 \/ n \in revoked' =>
                  n <= previews' /\ \A p \in Places, x \in Corners : ~Has(n, p, x)'
             /\ \A p \in Places, x \in Corners : Has(n, p, x)' => n <= previews'
  <2>1. CASE n = n0
    BY <1>2, <1>3, <2>1
  <2>2. CASE n # n0
    BY <1>1, <1>5, <2>2 DEF OnePlace
  <2> QED
    BY <2>1, <2>2
<1> QED
  BY <1>4, <1>6, <1>7 DEF OnePlace

(* A step of a terminal: what the files, the screens and the approvals come to.           *)
LEMMA TerminalSafe ==
  ASSUME McpInv, UNCHANGED outside,
         pending' \in [Ids -> Record \cup {None}], approval' \in [Ids -> Record \cup {None}],
         screen' \in [Terminals -> [step : {"idle", "asked", "claiming", "granting", "revoking"},
                                    id : Ids \cup {None}, record : Record \cup {None}]],
         revoked' \subseteq Serials, \A t \in Terminals : ScreenHolds(t)', OnePlace', SpentOnce'
  PROVE  McpInv'
<1>1. /\ \A s \in Servers : CallHolds(s)'
      /\ PreviewsBounded' /\ LockHeld' /\ CopiesFresh' /\ RoomChecked' /\ UnitsCounted'
  BY CallsStay DEF outside, bounds
<1>2. TypeOK'
  BY DEF McpInv, TypeOK, outside, bounds
<1> QED
  BY <1>1, <1>2 DEF McpInv

ScreenSet == [step : {"idle", "asked", "claiming", "granting", "revoking"},
              id : Ids \cup {None}, record : Record \cup {None}]

(* What a terminal shows next.                                                         *)
LEMMA ScreenMoves ==
  ASSUME McpInv, NEW t \in Terminals, NEW sc \in ScreenSet, screen' = [screen EXCEPT ![t] = sc],
         sc.step # "idle" => sc.id \in Ids,
         sc.step \in {"claiming", "granting"} => sc.record \in Record
  PROVE  /\ screen' \in [Terminals -> ScreenSet] /\ screen'[t] = sc
         /\ \A u \in Terminals \ {t} : screen'[u] = screen[u]
         /\ \A u \in Terminals : ScreenHolds(u)'
<1>1. screen \in [Terminals -> ScreenSet]
  BY DEF McpInv, TypeOK, ScreenSet
<1>2. /\ screen' \in [Terminals -> ScreenSet] /\ screen'[t] = sc
      /\ \A u \in Terminals \ {t} : screen'[u] = screen[u]
  BY <1>1
<1>3. ASSUME NEW u \in Terminals PROVE ScreenHolds(u)'
  <2>1. CASE u = t
    BY <1>2, <2>1 DEF ScreenHolds
  <2>2. CASE u # t
    BY <1>2, <2>2 DEF ScreenHolds, McpInv
  <2> QED
    BY <2>1, <2>2
<1> QED
  BY <1>2, <1>3

(* A terminal that asks nothing.                                                     *)
LEMMA NoScreenTyped == NoScreen \in ScreenSet /\ NoScreen.step = "idle" /\ NoScreen.record = None
BY DEF NoScreen, ScreenSet

(* What a person at a terminal asks, or leaves, moves no approval.                        *)
LEMMA AskSafe ==
  ASSUME McpInv, NEW t \in Terminals, NEW sc \in ScreenSet, screen' = [screen EXCEPT ![t] = sc],
         UNCHANGED <<files, outside, revoked>>, sc.step # "granting",
         sc.step # "idle" => sc.id \in Ids, sc.step = "claiming" => sc.record \in Record
  PROVE  McpInv'
<1>1. /\ screen' \in [Terminals -> ScreenSet] /\ screen'[t] = sc
      /\ \A u \in Terminals \ {t} : screen'[u] = screen[u]
      /\ \A u \in Terminals : ScreenHolds(u)'
  BY ScreenMoves
<1>2. \A n \in Serials, p \in Places, x \in Corners : Has(n, p, x)' => Has(n, p, x)
  BY <1>1 DEF Has, files, outside
<1>3. OnePlace' /\ SpentOnce'
  BY <1>2, PlacesFall DEF outside, bounds
<1>4. /\ pending' \in [Ids -> Record \cup {None}] /\ approval' \in [Ids -> Record \cup {None}]
      /\ revoked' \subseteq Serials
  BY DEF McpInv, TypeOK, files
<1> QED
  BY <1>1, <1>3, <1>4, TerminalSafe DEF ScreenSet

(* A preview is shown.                                                               *)
LEMMA ShowSafe ==
  ASSUME McpInv, NEW t \in Terminals, NEW i \in Ids, Show(t, i)
  PROVE  McpInv'
<1> DEFINE sc == [step |-> "asked", id |-> i, record |-> None]
<1>1. sc \in ScreenSet /\ sc.step = "asked" /\ sc.id = i
  BY DEF ScreenSet
<1>2. screen' = [screen EXCEPT ![t] = sc] /\ UNCHANGED <<files, outside, revoked>>
  BY DEF Show, Terminal
<1> QED
  BY <1>1, <1>2, AskSafe

(* A preview is declined.                                                            *)
LEMMA DeclineSafe ==
  ASSUME McpInv, NEW t \in Terminals, Decline(t)
  PROVE  McpInv'
BY AskSafe, NoScreenTyped DEF Decline, Leave

(* A preview is confirmed, and read again.                                           *)
LEMMA ConfirmSafe ==
  ASSUME McpInv, NEW t \in Terminals, Confirm(t)
  PROVE  McpInv'
<1> DEFINE i == screen[t].id
           sc == [step |-> "claiming", id |-> i, record |-> pending[i]]
<1>1. i \in Ids /\ UNCHANGED <<files, outside, revoked>>
  BY DEF Confirm, McpInv, ScreenHolds
<1>2. CASE pending[i] = None
  BY <1>1, <1>2, AskSafe, NoScreenTyped DEF Confirm, Leave
<1>3. CASE pending[i] # None
  <2>1. pending[i] \in Record
    BY <1>1, <1>3 DEF McpInv, TypeOK
  <2>2. sc \in ScreenSet /\ sc.step = "claiming" /\ sc.id = i /\ sc.record \in Record
    BY <1>1, <2>1 DEF ScreenSet
  <2>3. screen' = [screen EXCEPT ![t] = sc]
    BY <1>3 DEF Confirm, Terminal
  <2> QED
    BY <1>1, <2>2, <2>3, AskSafe
<1> QED
  BY <1>2, <1>3

(* The rename of the preview takes it from the directory into the hand of one terminal.   *)
LEMMA ClaimPreviewSafe ==
  ASSUME McpInv, NEW t \in Terminals, ClaimPreview(t)
  PROVE  McpInv'
<1> DEFINE i == screen[t].id
           sc == [step |-> "granting", id |-> i, record |-> pending[i]]
<1>1. /\ i \in Ids /\ pending' = [pending EXCEPT ![i] = None] /\ UNCHANGED <<approval, outside, revoked>>
      /\ screen[t].step = "claiming"
      /\ IF pending[i] = None \/ Expired(screen[t].record)
         THEN Leave(t) ELSE Terminal(t, "granting", i, pending[i])
  BY DEF ClaimPreview, McpInv, ScreenHolds
<1>2. /\ pending \in [Ids -> Record \cup {None}] /\ approval' \in [Ids -> Record \cup {None}]
      /\ revoked' \subseteq Serials
  BY <1>1 DEF McpInv, TypeOK
<1>3. /\ pending' \in [Ids -> Record \cup {None}] /\ pending'[i] = None
      /\ \A j \in Ids \ {i} : pending'[j] = pending[j]
  BY <1>1, <1>2
<1>4. CASE Leave(t)
  <2>1. screen' = [screen EXCEPT ![t] = NoScreen]
    BY <1>4 DEF Leave
  <2>2. /\ screen' \in [Terminals -> ScreenSet] /\ screen'[t] = NoScreen
        /\ \A u \in Terminals \ {t} : screen'[u] = screen[u]
        /\ \A u \in Terminals : ScreenHolds(u)'
    BY <2>1, ScreenMoves, NoScreenTyped
  <2>3. \A n \in Serials, p \in Places, x \in Corners : Has(n, p, x)' => Has(n, p, x)
    BY <1>1, <1>3, <2>2, NoScreenTyped DEF Has, outside
  <2>4. OnePlace' /\ SpentOnce'
    BY <1>1, <2>3, PlacesFall DEF outside, bounds
  <2> QED
    BY <1>1, <1>2, <1>3, <2>2, <2>4, TerminalSafe DEF ScreenSet
<1>5. CASE pending[i] # None /\ Terminal(t, "granting", i, pending[i])
  <2>1. pending[i] \in Record /\ pending[i].n \in Serials
    BY <1>1, <1>2, <1>5 DEF Record
  <2>2. sc \in ScreenSet /\ sc.step = "granting" /\ sc.id = i /\ sc.record = pending[i]
    BY <1>1, <2>1 DEF ScreenSet
  <2>3. screen' = [screen EXCEPT ![t] = sc]
    BY <1>5 DEF Terminal
  <2> HIDE DEF sc
  <2>4. /\ screen' \in [Terminals -> ScreenSet] /\ screen'[t] = sc
        /\ \A u \in Terminals \ {t} : screen'[u] = screen[u]
        /\ \A u \in Terminals : ScreenHolds(u)'
    BY <1>1, <2>1, <2>2, <2>3, ScreenMoves
  <2> DEFINE n0 == pending[i].n
  <2>5. PICK n1 \in Serials, i1 \in Ids : n1 = n0 /\ i1 = i
    BY <1>1, <2>1
  <2>6. Has(n1, "pending", i1) /\ ~Has(n1, "pending", i1)'
    BY <1>3, <1>5, <2>5 DEF Has
  <2>7. \A n \in Serials, p \in Places, x \in Corners :
          Has(n, p, x)' => Has(n, p, x) \/ (n = n1 /\ p = "screen" /\ x = t)
    BY <1>1, <1>3, <2>2, <2>4, <2>5 DEF Has, outside
  <2>8. "pending" \in Places /\ i1 \in Corners
    BY DEF Places, Corners
  <2>9. OnePlace' /\ SpentOnce'
    BY <1>1, <2>6, <2>7, <2>8, PlacesMove DEF outside, bounds
  <2> QED
    BY <1>1, <1>2, <1>3, <2>4, <2>9, TerminalSafe DEF ScreenSet
<1> QED
  BY <1>1, <1>4, <1>5

(* The approval that is written has the preview of the one terminal that claimed it. *)
LEMMA GrantSafe ==
  ASSUME McpInv, NEW t \in Terminals, Grant(t)
  PROVE  McpInv'
<1> DEFINE i == screen[t].id
           new == [n |-> screen[t].record.n, issued |-> clock, expires |-> clock + ApprovalLife]
<1>1. /\ i \in Ids /\ approval' = [approval EXCEPT ![i] = new] /\ UNCHANGED <<pending, outside, revoked>>
      /\ screen[t].step = "granting" /\ Leave(t) /\ screen[t].record \in Record
  BY DEF Grant, McpInv, ScreenHolds
<1>2. /\ approval \in [Ids -> Record \cup {None}] /\ pending' \in [Ids -> Record \cup {None}]
      /\ revoked' \subseteq Serials
  BY <1>1 DEF McpInv, TypeOK
<1>3. new \in Record /\ new.n = screen[t].record.n /\ new.n \in Serials
  <2>1. clock \in 0..MaxClock /\ MaxClock \in Nat /\ ApprovalLife \in Nat
    BY McpTyped, McpAssumption
  <2>2. clock + ApprovalLife \in Nat /\ screen[t].record.n \in Serials
    BY <1>1, <2>1 DEF Record
  <2> QED
    BY <2>1, <2>2 DEF Record
<1> HIDE DEF new
<1>4. /\ approval' \in [Ids -> Record \cup {None}] /\ approval'[i] = new
      /\ \A j \in Ids \ {i} : approval'[j] = approval[j]
  BY <1>1, <1>2, <1>3
<1>5. screen' = [screen EXCEPT ![t] = NoScreen]
  BY <1>1 DEF Leave
<1>6. /\ screen' \in [Terminals -> ScreenSet] /\ screen'[t] = NoScreen
      /\ \A u \in Terminals \ {t} : screen'[u] = screen[u]
      /\ \A u \in Terminals : ScreenHolds(u)'
  BY <1>5, ScreenMoves, NoScreenTyped
<1>7. PICK n1 \in Serials, i1 \in Ids : n1 = new.n /\ i1 = i
  BY <1>1, <1>3
<1>8. Has(n1, "screen", t) /\ ~Has(n1, "screen", t)'
  BY <1>1, <1>3, <1>6, <1>7, NoScreenTyped DEF Has
<1>9. \A n \in Serials, p \in Places, x \in Corners :
        Has(n, p, x)' => Has(n, p, x) \/ (n = n1 /\ p = "approval" /\ x = i1)
  BY <1>1, <1>4, <1>6, <1>7, NoScreenTyped DEF Has, outside
<1>10. "screen" \in Places /\ t \in Corners
  BY DEF Places, Corners
<1>11. OnePlace' /\ SpentOnce'
  BY <1>1, <1>8, <1>9, <1>10, PlacesMove DEF outside, bounds
<1> QED
  BY <1>1, <1>2, <1>4, <1>6, <1>11, TerminalSafe DEF ScreenSet

(* A file that a person deletes is out of the way, and so is its approval.                *)
LEMMA RevokePreviewSafe ==
  ASSUME McpInv, NEW t \in Terminals, NEW i \in Ids, RevokePreview(t, i)
  PROVE  McpInv'
<1> DEFINE sc == [step |-> "revoking", id |-> i, record |-> None]
<1>1. /\ pending' = [pending EXCEPT ![i] = None] /\ UNCHANGED <<approval, outside>>
      /\ revoked' = revoked \cup Deleted(pending[i]) /\ screen' = [screen EXCEPT ![t] = sc]
  BY DEF RevokePreview, Terminal
<1>2. /\ pending \in [Ids -> Record \cup {None}] /\ approval' \in [Ids -> Record \cup {None}]
      /\ revoked \subseteq Serials
  BY <1>1 DEF McpInv, TypeOK
<1>3. /\ pending' \in [Ids -> Record \cup {None}] /\ pending'[i] = None
      /\ \A j \in Ids \ {i} : pending'[j] = pending[j]
  BY <1>1, <1>2
<1>4. sc \in ScreenSet /\ sc.step = "revoking" /\ sc.id = i
  BY DEF ScreenSet
<1> HIDE DEF sc
<1>5. /\ screen' \in [Terminals -> ScreenSet] /\ screen'[t] = sc
      /\ \A u \in Terminals \ {t} : screen'[u] = screen[u]
      /\ \A u \in Terminals : ScreenHolds(u)'
  BY <1>1, <1>4, ScreenMoves
<1>6. \A n \in Serials, p \in Places, x \in Corners : Has(n, p, x)' => Has(n, p, x)
  BY <1>1, <1>3, <1>4, <1>5 DEF Has, outside
<1>7. UNCHANGED <<posts, previews>>
  BY <1>1 DEF outside, bounds
<1>8. OnePlace' /\ SpentOnce' /\ revoked' \subseteq Serials
  <2>1. CASE pending[i] = None
    <3>1. revoked' = revoked
      BY <1>1, <2>1 DEF Deleted
    <3> QED
      BY <1>2, <1>6, <1>7, <3>1, PlacesFall
  <2>2. CASE pending[i] # None
    <3>1. PICK n1 \in Serials : n1 = pending[i].n
      BY <1>2, <2>2 DEF Record
    <3>2. revoked' = revoked \cup {n1}
      BY <1>1, <2>2, <3>1 DEF Deleted
    <3>3. Has(n1, "pending", i) /\ ~Has(n1, "pending", i)'
      BY <1>3, <2>2, <3>1 DEF Has
    <3>4. "pending" \in Places /\ i \in Corners
      BY DEF Places, Corners
    <3> QED
      BY <1>6, <1>7, <3>2, <3>3, <3>4, PlacesSpent
  <2> QED
    BY <2>1, <2>2
<1> QED
  BY <1>1, <1>2, <1>3, <1>5, <1>8, TerminalSafe DEF ScreenSet

(* The same for the approval.                                                        *)
LEMMA RevokeApprovalSafe ==
  ASSUME McpInv, NEW t \in Terminals, RevokeApproval(t)
  PROVE  McpInv'
<1>1. PICK i \in Ids : i = screen[t].id
  BY DEF RevokeApproval, McpInv, ScreenHolds
<1>2. /\ approval' = [approval EXCEPT ![i] = None] /\ UNCHANGED <<pending, outside>>
      /\ revoked' = revoked \cup Deleted(approval[i]) /\ screen' = [screen EXCEPT ![t] = NoScreen]
  BY <1>1 DEF RevokeApproval, Leave
<1>3. /\ approval \in [Ids -> Record \cup {None}] /\ pending' \in [Ids -> Record \cup {None}]
      /\ revoked \subseteq Serials
  BY <1>2 DEF McpInv, TypeOK
<1>4. /\ approval' \in [Ids -> Record \cup {None}] /\ approval'[i] = None
      /\ \A j \in Ids \ {i} : approval'[j] = approval[j]
  BY <1>2, <1>3
<1>5. /\ screen' \in [Terminals -> ScreenSet] /\ screen'[t] = NoScreen
      /\ \A u \in Terminals \ {t} : screen'[u] = screen[u]
      /\ \A u \in Terminals : ScreenHolds(u)'
  BY <1>2, ScreenMoves, NoScreenTyped
<1>6. \A n \in Serials, p \in Places, x \in Corners : Has(n, p, x)' => Has(n, p, x)
  BY <1>2, <1>4, <1>5, NoScreenTyped DEF Has, outside
<1>7. UNCHANGED <<posts, previews>>
  BY <1>2 DEF outside, bounds
<1>8. OnePlace' /\ SpentOnce' /\ revoked' \subseteq Serials
  <2>1. CASE approval[i] = None
    <3>1. revoked' = revoked
      BY <1>2, <2>1 DEF Deleted
    <3> QED
      BY <1>3, <1>6, <1>7, <3>1, PlacesFall
  <2>2. CASE approval[i] # None
    <3>1. PICK n1 \in Serials : n1 = approval[i].n
      BY <1>3, <2>2 DEF Record
    <3>2. revoked' = revoked \cup {n1}
      BY <1>2, <2>2, <3>1 DEF Deleted
    <3>3. Has(n1, "approval", i) /\ ~Has(n1, "approval", i)'
      BY <1>4, <2>2, <3>1 DEF Has
    <3>4. "approval" \in Places /\ i \in Corners
      BY DEF Places, Corners
    <3> QED
      BY <1>6, <1>7, <3>2, <3>3, <3>4, PlacesSpent
  <2> QED
    BY <2>1, <2>2
<1> QED
  BY <1>2, <1>3, <1>4, <1>5, <1>8, TerminalSafe DEF ScreenSet

-----------------------------------------------------------------------------
(* The rename of the approval takes it into the hand of one call.                        *)
LEMMA RenameClaimSafe ==
  ASSUME McpInv, NEW s \in Servers, RenameClaim(s)
  PROVE  McpInv'
<1>1. PICK i \in Ids : i = call[s].id
  BY DEF RenameClaim, At, McpInv, CallHolds
<1> DEFINE r == approval[i]
<1>2. /\ call[s].at = "rename" /\ approval' = [approval EXCEPT ![i] = None]
      /\ IF r = None THEN Reserve(s, "back")
         ELSE call' = [call EXCEPT ![s].at = "send", ![s].using = r.n]
      /\ UNCHANGED <<pending, counters, lock, clock, screen, history, robbed, unreturned, bounds>>
  BY <1>1 DEF RenameClaim, At
<1>3. approval \in [Ids -> Record \cup {None}] /\ unreturned' \in BOOLEAN
  BY <1>2 DEF McpInv, TypeOK
<1>4. CASE r = None
  <2>1. approval' = approval
    BY <1>2, <1>3, <1>4
  <2> QED
    BY <1>2, <1>4, <2>1, GivingBack DEF files
<1>5. CASE r # None
  <2> DEFINE new == [call[s] EXCEPT !.at = "send", !.using = r.n]
  <2>1. PICK n1 \in Serials : n1 = r.n
    BY <1>3, <1>5 DEF Record
  <2>2. call \in [Servers -> Call] /\ call[s] \in Call /\ None \notin Serials
    BY McpTyped, McpAssumption
  <2>3. /\ new \in Call /\ new.at = "send" /\ new.using = n1 /\ new.id = call[s].id
        /\ new.phase = call[s].phase /\ new.want = call[s].want /\ new.granted = call[s].granted
        /\ new.window = call[s].window
    BY <2>1, <2>2 DEF Call
  <2>4. call' = [call EXCEPT ![s] = new]
    BY <1>2, <1>5, <2>2
  <2> HIDE DEF new
  <2>5. call' \in [Servers -> Call] /\ call'[s] = new /\ \A q \in Servers \ {s} : call'[q] = call[q]
    BY <2>2, <2>3, <2>4
  <2>6. CallHolds(s)' /\ call[s].using = None
    BY <1>2, <2>2, <2>3, <2>5 DEF McpInv, CallHolds
  <2>7. /\ approval' \in [Ids -> Record \cup {None}] /\ approval'[i] = None
        /\ \A j \in Ids \ {i} : approval'[j] = approval[j]
    BY <1>2, <1>3
  <2>8. TypeOK'
    BY <1>2, <2>5, <2>7 DEF McpInv, TypeOK, history, bounds
  <2>9. (\A q \in Servers : CallHolds(q)') /\ (\A t \in Terminals : ScreenHolds(t)')
    BY <1>2, <2>5, <2>6, CallsHold, ScreensStay
  <2>10. PreviewsBounded'
    <3>1. \A q \in Servers : call'[q].phase = "preview" => call[q].phase = "preview"
      BY <2>3, <2>5
    <3> QED
      BY <1>2, <3>1, PreviewsFall DEF bounds
  <2>11. OnePlace' /\ SpentOnce'
    <3>1. Has(n1, "approval", i) /\ ~Has(n1, "approval", i)'
      BY <1>5, <2>1, <2>7 DEF Has
    <3>2. \A n \in Serials, p \in Places, x \in Corners :
            Has(n, p, x)' => Has(n, p, x) \/ (n = n1 /\ p = "call" /\ x = s)
      BY <1>2, <2>3, <2>5, <2>7 DEF Has
    <3>3. "approval" \in Places /\ i \in Corners
      BY DEF Places, Corners
    <3> QED
      BY <1>2, <3>1, <3>2, <3>3, PlacesMove DEF history, bounds
  <2>12. ~Inside(s)' /\ ~At(s, "write")' /\ (HoldsUnit(s)' <=> HoldsUnit(s))
    BY <1>2, <2>3, <2>5 DEF Inside, At, HoldsUnit
  <2>13. LockHeld' /\ CopiesFresh' /\ RoomChecked'
    BY <1>2, <2>5, <2>12, InsideStays
  <2>14. UnitsCounted'
    BY <1>2, <2>3, <2>5, <2>12, HoldingStays, UnitsFall DEF history, bounds
  <2> QED
    BY <2>8, <2>9, <2>10, <2>11, <2>13, <2>14 DEF McpInv
<1> QED
  BY <1>4, <1>5

(* The request: its approval is nowhere any more, its unit is spent in the window it was   *)
(* counted in.                                                                         *)
LEMMA SendSafe ==
  ASSUME McpInv, NEW s \in Servers, Send(s)
  PROVE  McpInv'
<1>1. /\ call[s].at = "send" /\ Return(s)
      /\ posts' = [posts EXCEPT ![call[s].using] = @ + 1]
      /\ spentIn' = [spentIn EXCEPT ![call[s].window] = @ + 1]
      /\ UNCHANGED <<files, counters, lock, clock, screen, revoked, robbed, unreturned, bounds>>
  BY DEF Send, At
<1>2. call[s].using # None /\ HoldsUnit(s)
  BY <1>1 DEF McpInv, CallHolds, HoldsUnit
<1>3. PICK n1 \in Serials : n1 = call[s].using
  BY <1>2, McpTyped, CallFields
<1>4. PICK w1 \in 0..MaxClock : w1 = call[s].window
  BY McpTyped, CallFields
<1>5. /\ call' \in [Servers -> Call] /\ \A q \in Servers \ {s} : call'[q] = call[q]
      /\ CallHolds(s)' /\ ~Inside(s)' /\ ~HoldsUnit(s)' /\ ~At(s, "write")'
      /\ call'[s].using = None /\ call'[s].phase = "none"
  BY <1>1, ReturnTyped
<1>6. OnePlace' /\ SpentOnce' /\ posts' \in [Serials -> Nat]
  <2>1. None \notin Serials
    BY McpAssumption
  <2>2. Has(n1, "call", s) /\ ~Has(n1, "call", s)'
    BY <1>3, <1>5, <2>1 DEF Has
  <2>3. \A n \in Serials, p \in Places, x \in Corners : Has(n, p, x)' => Has(n, p, x)
    BY <1>1, <1>5, <2>1 DEF Has, files
  <2>4. "call" \in Places /\ s \in Corners
    BY DEF Places, Corners
  <2> QED
    BY <1>1, <1>3, <2>2, <2>3, <2>4, PlacesSpent DEF bounds
<1>7. spentIn' \in [0..MaxClock -> Nat]
  BY <1>1, <1>4, McpTyped
<1>8. TypeOK'
  BY <1>1, <1>5, <1>6, <1>7 DEF McpInv, TypeOK, files, bounds
<1>9. (\A q \in Servers : CallHolds(q)') /\ (\A t \in Terminals : ScreenHolds(t)')
  BY <1>1, <1>5, CallsHold, ScreensStay
<1>10. PreviewsBounded'
  <2>1. \A q \in Servers : call'[q].phase = "preview" => call[q].phase = "preview"
    BY <1>5
  <2> QED
    BY <1>1, <2>1, PreviewsFall DEF bounds
<1>11. LockHeld' /\ CopiesFresh' /\ RoomChecked'
  BY <1>1, <1>5, InsideStays
<1>12. UnitsCounted'
  <2>1. Holding(w1)' = Holding(w1) \ {s} /\ s \in Holding(w1)
    BY <1>2, <1>4, <1>5 DEF Holding, HoldsUnit
  <2>2. spentIn'[w1] = spentIn[w1] + 1
    BY <1>1, <1>4, McpTyped
  <2>3. ASSUME NEW w \in 0..MaxClock PROVE Used(w)' = Used(w)
    <3>1. CASE w = w1
      BY <2>1, <2>2, <3>1, UnitGone
    <3>2. CASE w # w1
      <4>1. Holding(w)' = Holding(w)
        BY <1>4, <1>5, <3>2 DEF Holding, HoldsUnit
      <4>2. spentIn'[w] = spentIn[w]
        BY <1>1, <1>4, <3>2, McpTyped
      <4> QED
        BY <4>1, <4>2, UnitsSame
    <3> QED
      BY <3>1, <3>2
  <2>4. UNCHANGED <<counters, robbed, unreturned, crashes>>
    BY <1>1 DEF bounds
  <2> HIDE DEF Used
  <2> QED
    BY <2>3, <2>4 DEF McpInv, UnitsCounted
<1> QED
  BY <1>6, <1>8, <1>9, <1>10, <1>11, <1>12 DEF McpInv

(* One more preview is stored, and one call less is about to store one.                   *)
LEMMA StorePreviewSafe ==
  ASSUME McpInv, NEW s \in Servers, StorePreview(s)
  PROVE  McpInv'
<1>1. PICK i \in Ids : i = call[s].id
  BY DEF StorePreview, At, McpInv, CallHolds
<1> DEFINE new == [n |-> previews + 1, issued |-> clock, expires |-> clock + PreviewLife]
<1>2. /\ call[s].at = "store" /\ pending' = [pending EXCEPT ![i] = new]
      /\ previews' = previews + 1 /\ Return(s)
      /\ UNCHANGED <<approval, counters, lock, clock, screen, history, robbed, unreturned,
                     crashes, setBacks, limit>>
  BY <1>1 DEF StorePreview, At
<1>3. call[s].phase = "preview" /\ ~HoldsUnit(s)
  BY <1>2 DEF McpInv, CallHolds, HoldsUnit
<1>4. /\ call' \in [Servers -> Call] /\ \A q \in Servers \ {s} : call'[q] = call[q]
      /\ CallHolds(s)' /\ ~Inside(s)' /\ ~HoldsUnit(s)' /\ ~At(s, "write")'
      /\ call'[s].using = None /\ call'[s].phase = "none"
  BY <1>2, ReturnTyped
<1>5. /\ previews \in Nat /\ limit.previews \in 0..MaxPreviews /\ MaxPreviews \in Nat
      /\ MaxClock \in Nat /\ clock \in 0..MaxClock /\ PreviewLife \in Nat /\ None \notin Serials
  BY McpTyped, McpAssumption
<1>6. /\ Cardinality(Previewing)' = Cardinality(Previewing) - 1
      /\ Cardinality(Previewing) \in Nat /\ Cardinality(Previewing) > 0
  <2>1. IsFiniteSet(Previewing) /\ Previewing' = Previewing \ {s} /\ s \in Previewing
    BY <1>3, <1>4, McpTyped, FS_Subset DEF Previewing
  <2>2. Cardinality(Previewing') = Cardinality(Previewing) - 1
    BY <2>1, FS_RemoveElement
  <2>3. Cardinality(Previewing) \in Nat /\ Cardinality(Previewing) > 0
    BY <2>1, FS_CardinalityType, FS_EmptySet
  <2> QED
    BY <2>2, <2>3
<1>7. PreviewsBounded' /\ previews + 1 <= limit.previews
  <2>1. previews + Cardinality(Previewing) <= limit.previews
    BY DEF McpInv, PreviewsBounded
  <2> QED
    BY <1>2, <1>5, <1>6, <2>1 DEF PreviewsBounded
<1>8. new \in Record /\ new.n = previews + 1
  <2>1. previews + 1 \in Serials /\ clock + PreviewLife \in Nat
    BY <1>5, <1>7 DEF Serials
  <2> QED
    BY <1>5, <2>1 DEF Record
<1> HIDE DEF new
<1>9. /\ pending' \in [Ids -> Record \cup {None}] /\ pending'[i] = new
      /\ \A j \in Ids \ {i} : pending'[j] = pending[j]
  BY <1>2, <1>8 DEF McpInv, TypeOK
<1>10. TypeOK'
  BY <1>2, <1>4, <1>5, <1>9 DEF McpInv, TypeOK, history
<1>11. (\A q \in Servers : CallHolds(q)') /\ (\A t \in Terminals : ScreenHolds(t)')
  BY <1>2, <1>4, CallsHold, ScreensStay
<1>12. OnePlace' /\ SpentOnce'
  <2>1. \A n \in Serials, p \in Places, x \in Corners :
          Has(n, p, x)' => Has(n, p, x) \/ (n = previews + 1 /\ p = "pending" /\ x = i)
    BY <1>2, <1>4, <1>5, <1>8, <1>9 DEF Has
  <2> QED
    BY <1>2, <2>1, PlacesNew DEF history
<1>13. LockHeld' /\ CopiesFresh' /\ RoomChecked'
  BY <1>2, <1>4, InsideStays
<1>14. UnitsCounted'
  BY <1>2, <1>3, <1>4, HoldingStays, UnitsFall DEF history
<1> QED
  BY <1>7, <1>10, <1>11, <1>12, <1>13, <1>14 DEF McpInv

(* A call that begins has room for its preview, and holds nothing yet.                   *)
LEMMA InvokeSafe ==
  ASSUME McpInv, NEW s \in Servers, NEW i \in Ids, NEW phase \in {"preview", "commit"},
         Invoke(s, i, phase)
  PROVE  McpInv'
<1> DEFINE new == [NoCall EXCEPT !.at = "lock", !.want = "attempt", !.window = clock, !.id = i,
                                 !.phase = phase]
<1>1. /\ call[s].at = "idle" /\ call' = [call EXCEPT ![s] = new]
      /\ phase = "preview" => previews + Cardinality(Previewing) < limit.previews
      /\ UNCHANGED <<files, counters, lock, clock, screen, history, robbed, unreturned, bounds>>
  BY DEF Invoke, At, Previewing
<1>2. call \in [Servers -> Call] /\ clock \in 0..MaxClock /\ IsFiniteSet(Servers)
  BY McpTyped
<1>3. /\ new \in Call /\ new.at = "lock" /\ new.want = "attempt" /\ new.id = i
      /\ new.phase = phase /\ new.using = None
  BY <1>2 DEF NoCall, Call, Kinds
<1> HIDE DEF new
<1>4. call' \in [Servers -> Call] /\ call'[s] = new /\ \A q \in Servers \ {s} : call'[q] = call[q]
  BY <1>1, <1>2, <1>3
<1>5. CallHolds(s)' /\ call[s].phase = "none"
  BY <1>1, <1>3, <1>4 DEF McpInv, CallHolds, Kinds
<1>6. TypeOK'
  BY <1>1, <1>4 DEF McpInv, TypeOK, files, history, bounds
<1>7. (\A q \in Servers : CallHolds(q)') /\ (\A t \in Terminals : ScreenHolds(t)')
  BY <1>1, <1>4, <1>5, CallsHold, ScreensStay
<1>8. PreviewsBounded'
  <2>1. IsFiniteSet(Previewing) /\ s \notin Previewing /\ UNCHANGED <<previews, limit>>
    BY <1>1, <1>2, <1>5, FS_Subset DEF Previewing, bounds
  <2>2. CASE phase = "preview"
    <3>1. Previewing' = Previewing \cup {s}
      BY <1>3, <1>4, <2>2 DEF Previewing
    <3>2. Cardinality(Previewing') = Cardinality(Previewing) + 1
      BY <2>1, <3>1, FS_AddElement
    <3>3. /\ Cardinality(Previewing) \in Nat /\ previews \in Nat
          /\ limit.previews \in 0..MaxPreviews /\ MaxPreviews \in Nat
      BY <2>1, FS_CardinalityType, McpTyped
    <3> QED
      BY <1>1, <2>1, <2>2, <3>2, <3>3 DEF PreviewsBounded
  <2>3. CASE phase = "commit"
    <3>1. \A q \in Servers : call'[q].phase = "preview" => call[q].phase = "preview"
      BY <1>3, <1>4, <2>3
    <3> QED
      BY <2>1, <3>1, PreviewsFall
  <2> QED
    BY <2>2, <2>3
<1>9. OnePlace' /\ SpentOnce'
  <2>1. None \notin Serials
    BY McpAssumption
  <2>2. \A n \in Serials, p \in Places, x \in Corners : Has(n, p, x)' => Has(n, p, x)
    BY <1>1, <1>3, <1>4, <2>1 DEF Has, files
  <2> QED
    BY <1>1, <2>2, PlacesFall DEF history, bounds
<1>10. ~Inside(s)' /\ ~At(s, "write")' /\ ~HoldsUnit(s) /\ ~HoldsUnit(s)'
  BY <1>1, <1>3, <1>4 DEF Inside, At, HoldsUnit
<1>11. LockHeld' /\ CopiesFresh' /\ RoomChecked'
  BY <1>1, <1>4, <1>10, InsideStays
<1>12. UnitsCounted'
  BY <1>1, <1>4, <1>10, HoldingStays, UnitsFall DEF history, bounds
<1> QED
  BY <1>6, <1>7, <1>8, <1>9, <1>11, <1>12 DEF McpInv

(* A server that dies leaves the lock to nobody, and its unit and its claim are lost.     *)
LEMMA CrashSafe ==
  ASSUME McpInv, NEW s \in Servers, Crash(s)
  PROVE  McpInv'
<1>1. /\ Return(s) /\ crashes' = crashes + 1 /\ crashes < limit.crashes
      /\ lock' = IF lock # None /\ lock.by = s THEN [lock EXCEPT !.live = FALSE] ELSE lock
      /\ UNCHANGED <<files, counters, clock, screen, history, robbed, unreturned, previews, setBacks,
                     limit>>
  BY DEF Crash
<1>2. /\ call' \in [Servers -> Call] /\ \A q \in Servers \ {s} : call'[q] = call[q]
      /\ CallHolds(s)' /\ ~Inside(s)' /\ ~HoldsUnit(s)' /\ ~At(s, "write")'
      /\ call'[s].using = None /\ call'[s].phase = "none"
  BY <1>1, ReturnTyped
<1>3. lock' \in Holders \cup {None}
  BY <1>1 DEF McpInv, TypeOK, Holders
<1>4. crashes' \in 0..limit'.crashes /\ crashes' # 0
  BY <1>1, McpTyped
<1>5. TypeOK'
  BY <1>1, <1>2, <1>3, <1>4 DEF McpInv, TypeOK, files, history
<1>6. (\A q \in Servers : CallHolds(q)') /\ (\A t \in Terminals : ScreenHolds(t)')
  BY <1>1, <1>2, CallsHold, ScreensStay
<1>7. PreviewsBounded'
  <2>1. \A q \in Servers : call'[q].phase = "preview" => call[q].phase = "preview"
    BY <1>2
  <2> QED
    BY <1>1, <2>1, PreviewsFall
<1>8. OnePlace' /\ SpentOnce'
  <2>1. None \notin Serials
    BY McpAssumption
  <2>2. \A n \in Serials, p \in Places, x \in Corners : Has(n, p, x)' => Has(n, p, x)
    BY <1>1, <1>2, <2>1 DEF Has, files
  <2> QED
    BY <1>1, <2>2, PlacesFall DEF history
<1>9. LockHeld'
  <2>1. ASSUME ~robbed', NEW q \in Servers, Inside(q)'
        PROVE  lock' # None /\ lock'.by = q /\ lock'.live
    <3>1. q # s /\ Inside(q) /\ ~robbed
      BY <1>1, <1>2, <2>1 DEF Inside
    <3>2. lock # None /\ lock.by = q /\ lock.live
      BY <3>1 DEF McpInv, LockHeld
    <3> QED
      BY <1>1, <3>1, <3>2
  <2> QED
    BY <2>1 DEF LockHeld
<1>10. CopiesFresh' /\ RoomChecked'
  BY <1>1, <1>2, WritesStay
<1>11. UnitsCounted'
  BY <1>1, <1>2, <1>4, HoldingStays, UnitsFall DEF history
<1> QED
  BY <1>5, <1>6, <1>7, <1>8, <1>9, <1>10, <1>11 DEF McpInv

(* Time passes, or goes back: windows are what calls and counters say they are.           *)
LEMMA ClockSafe ==
  ASSUME McpInv, Tick \/ SetBack
  PROVE  McpInv'
<1>1. /\ clock' \in 0..MaxClock /\ setBacks' \in 0..limit.setBacks
      /\ UNCHANGED <<files, counters, lock, call, screen, history, robbed, unreturned,
                     previews, crashes, limit>>
  <2>1. CASE Tick
    BY <2>1, McpTyped DEF Tick, bounds
  <2>2. CASE SetBack
    BY <2>2, McpTyped DEF SetBack
  <2> QED
    BY <2>1, <2>2
<1>2. TypeOK'
  BY <1>1 DEF McpInv, TypeOK, files, history
<1>3. /\ \A s \in Servers : CallHolds(s)'
      /\ PreviewsBounded' /\ LockHeld' /\ CopiesFresh' /\ RoomChecked' /\ UnitsCounted'
  BY <1>1, CallsStay DEF history
<1>4. OnePlace' /\ SpentOnce'
  <2>1. \A n \in Serials, p \in Places, x \in Corners : Has(n, p, x)' => Has(n, p, x)
    BY <1>1 DEF Has, files
  <2> QED
    BY <1>1, <2>1, PlacesFall DEF history
<1> QED
  BY <1>1, <1>2, <1>3, <1>4, ScreensStay DEF McpInv

(* An old lock is still its holder's.                                                  *)
LEMMA AgeSafe ==
  ASSUME McpInv, Age
  PROVE  McpInv'
<1>1. /\ lock # None /\ lock' = [lock EXCEPT !.old = TRUE]
      /\ UNCHANGED <<files, counters, clock, call, screen, history, robbed, unreturned, bounds>>
  BY DEF Age
<1>2. lock' \in Holders /\ lock'.by = lock.by /\ lock'.live = lock.live /\ lock' # None
  <2>1. lock \in Holders
    BY <1>1 DEF McpInv, TypeOK
  <2>2. lock' \in Holders /\ lock'.by = lock.by /\ lock'.live = lock.live
    BY <1>1, <2>1 DEF Holders
  <2> QED
    BY <2>2, McpAssumption
<1>3. TypeOK'
  BY <1>1, <1>2 DEF McpInv, TypeOK, files, history, bounds
<1>4. \A s \in Servers : CallHolds(s)'
  BY <1>1 DEF McpInv, CallHolds
<1>5. PreviewsBounded'
  BY <1>1, PreviewsFall DEF bounds
<1>6. OnePlace' /\ SpentOnce'
  <2>1. \A n \in Serials, p \in Places, x \in Corners : Has(n, p, x)' => Has(n, p, x)
    BY <1>1 DEF Has, files
  <2> QED
    BY <1>1, <2>1, PlacesFall DEF history, bounds
<1>7. LockHeld' /\ CopiesFresh' /\ RoomChecked'
  BY <1>1, <1>2 DEF McpInv, LockHeld, Inside, CopiesFresh, At, RoomChecked
<1>8. UnitsCounted'
  <2>1. \A w \in 0..MaxClock : Holding(w)' = Holding(w)
    BY <1>1 DEF Holding, HoldsUnit
  <2> QED
    BY <1>1, <2>1, UnitsFall DEF history, bounds
<1> QED
  BY <1>1, <1>3, <1>4, <1>5, <1>6, <1>7, <1>8, ScreensStay DEF McpInv

(* A stutter.                                                                          *)
LEMMA StutterSafe ==
  ASSUME McpInv, UNCHANGED vars
  PROVE  McpInv'
<1>1. TypeOK' /\ \A t \in Terminals : ScreenHolds(t)'
  BY ScreensStay DEF McpInv, TypeOK, vars, files, history, bounds
<1>2. /\ \A s \in Servers : CallHolds(s)'
      /\ PreviewsBounded' /\ LockHeld' /\ CopiesFresh' /\ RoomChecked' /\ UnitsCounted'
  BY CallsStay DEF vars, history, bounds
<1>3. OnePlace' /\ SpentOnce'
  <2>1. \A n \in Serials, p \in Places, x \in Corners : Has(n, p, x)' => Has(n, p, x)
    BY DEF Has, vars, files
  <2> QED
    BY <2>1, PlacesFall DEF vars, history, bounds
<1> QED
  BY <1>1, <1>2, <1>3 DEF McpInv

-----------------------------------------------------------------------------
(* Nothing is stored, asked or taken in the beginning.                                   *)
LEMMA McpStarts == Init => McpInv
<1> SUFFICES ASSUME Init PROVE McpInv
  OBVIOUS
<1>1. /\ MaxClock \in Nat /\ 0 \in 0..MaxClock /\ Cap \in [Kinds -> Nat \ {0}] /\ IsFiniteSet(Servers)
      /\ None \notin Serials /\ NoCall \in Call
  BY McpAssumption, NoCallTyped
<1>2. limit.previews \in Nat /\ limit.crashes \in Nat /\ limit.setBacks \in Nat
  <2>1. limit \in [clock : 0..MaxClock, setBacks : Nat, crashes : Nat, previews : 0..MaxPreviews]
    BY McpAssumption DEF Init
  <2> QED
    BY <2>1, McpAssumption
<1>3. TypeOK
  <2>1. [window |-> 0, count |-> 0] \in Bucket
    BY <1>1 DEF Bucket
  <2>2. counters \in [Kinds -> Bucket]
    BY <2>1 DEF Init
  <2>3. /\ pending \in [Ids -> Record \cup {None}] /\ approval \in [Ids -> Record \cup {None}]
        /\ lock = None /\ clock \in 0..MaxClock /\ call \in [Servers -> Call]
    BY <1>1 DEF Init
  <2>4. screen \in [Terminals -> ScreenSet]
    BY NoScreenTyped DEF Init
  <2>5. /\ posts \in [Serials -> Nat] /\ revoked \subseteq Serials /\ spentIn \in [0..MaxClock -> Nat]
        /\ robbed \in BOOLEAN /\ unreturned \in BOOLEAN /\ limit \in Limits
    BY DEF Init
  <2>6. previews \in Nat /\ crashes \in 0..limit.crashes /\ setBacks \in 0..limit.setBacks
    <3>1. previews = 0 /\ crashes = 0 /\ setBacks = 0
      BY DEF Init
    <3> QED
      BY <1>2, <3>1
  <2> QED
    BY <2>2, <2>3, <2>4, <2>5, <2>6 DEF TypeOK, ScreenSet
<1>4. \A s \in Servers : /\ call[s] = NoCall /\ NoCall.at = "idle" /\ NoCall.phase = "none"
                         /\ NoCall.want = "none" /\ NoCall.using = None
  BY DEF Init, NoCall
<1>5. (\A s \in Servers : CallHolds(s)) /\ (\A t \in Terminals : ScreenHolds(t))
  BY <1>4, NoScreenTyped DEF Init, CallHolds, ScreenHolds
<1>6. PreviewsBounded
  <2>1. Previewing = {}
    BY <1>4 DEF Previewing
  <2> QED
    BY <1>2, <2>1, FS_EmptySet DEF Init, PreviewsBounded
<1>7. \A n \in Serials, p \in Places, x \in Corners : ~Has(n, p, x)
  BY <1>1, <1>4, NoScreenTyped DEF Init, Has
<1>8. OnePlace /\ SpentOnce
  BY <1>7 DEF Init, OnePlace, SpentOnce
<1>9. LockHeld /\ CopiesFresh /\ RoomChecked
  BY <1>4 DEF LockHeld, Inside, CopiesFresh, At, RoomChecked
<1>10. UnitsCounted
  <2>1. \A w \in 0..MaxClock : Used(w) = 0
    <3>1. \A w \in 0..MaxClock : Holding(w) = {}
      BY <1>4 DEF Holding, HoldsUnit
    <3>2. \A w \in 0..MaxClock : spentIn[w] = 0
      BY DEF Init
    <3>3. Cardinality({}) = 0
      BY FS_EmptySet
    <3>4. ASSUME NEW w \in 0..MaxClock PROVE spentIn[w] + Cardinality(Holding(w)) = 0
      <4>1. spentIn[w] = 0 /\ Cardinality(Holding(w)) = 0
        BY <3>1, <3>2, <3>3
      <4> HIDE DEF Holding
      <4> QED
        BY <4>1
    <3> QED
      BY <3>4 DEF Used
  <2>2. counters["commit"] = [window |-> 0, count |-> 0] /\ Cap["commit"] \in Nat
    BY <1>1 DEF Init, Kinds
  <2> HIDE DEF Used
  <2> QED
    BY <1>1, <2>1, <2>2 DEF UnitsCounted
<1> QED
  BY <1>3, <1>5, <1>6, <1>8, <1>9, <1>10 DEF McpInv

(* Every step keeps the invariant: one lemma per action.                                 *)
LEMMA McpSteps == McpInv /\ [Next]_vars => McpInv'
<1> SUFFICES ASSUME McpInv, [Next]_vars PROVE McpInv'
  OBVIOUS
<1>1. ASSUME NEW s \in Servers, Invocations(s) PROVE McpInv'
  BY <1>1, InvokeSafe DEF Invocations
<1>2. ASSUME NEW s \in Servers, Step(s) PROVE McpInv'
  BY <1>2, TakeLockSafe, SeeStaleSafe, BreakSafe, GiveUpSafe, ReadCountersSafe, WriteCountersSafe,
     StoreFailsSafe, UnlockSafe, RunSafe, StorePreviewSafe, LookUpSafe, ReadClaimSafe,
     RenameClaimSafe, SendSafe DEF Step
<1>3. ASSUME NEW s \in Servers, Crash(s) PROVE McpInv'
  BY <1>3, CrashSafe
<1>4. ASSUME NEW t \in Terminals, Person(t) PROVE McpInv'
  BY <1>4, ShowSafe, RevokePreviewSafe, DeclineSafe, ConfirmSafe, ClaimPreviewSafe, GrantSafe,
     RevokeApprovalSafe DEF Person
<1>5. CASE Tick \/ SetBack
  BY <1>5, ClockSafe
<1>6. CASE Age
  BY <1>6, AgeSafe
<1>7. CASE UNCHANGED vars
  BY <1>7, StutterSafe
<1> QED
  BY <1>1, <1>2, <1>3, <1>4, <1>5, <1>6, <1>7 DEF Next

(* The inductive invariant holds of every state of every behaviour.                      *)
LEMMA McpAlways == Spec => []McpInv
BY McpStarts, McpSteps, PTL DEF Spec

(* One preview leads to one request at most and to none once it was revoked, whatever     *)
(* servers and terminals do at once and wherever a server dies: the renames of             *)
(* claimPending and claimApproval hand the one approval from place to place.                *)
THEOREM OneRequestPerPreview == Spec => []SpentOnce
<1>1. McpInv => SpentOnce
  BY DEF McpInv
<1> QED
  BY <1>1, McpAlways, PTL

(* As long as no live process loses its lock, no window sees more requests than its cap,   *)
(* with a clock that is set back into a window that was counted; and when no process died   *)
(* and every unit could be written back, the count is what was sent (withLock, reserve,      *)
(* release).                                                                           *)
THEOREM BudgetAlwaysExact == Spec => []BudgetExact
<1>1. McpInv => BudgetExact
  <2> SUFFICES ASSUME McpInv PROVE BudgetExact
    OBVIOUS
  <2>1. /\ TypeOK /\ UnitsCounted /\ MaxClock \in Nat /\ Cap["commit"] \in Nat
        /\ counters["commit"].window \in 0..MaxClock /\ counters["commit"].count \in Nat
    BY McpTyped DEF McpInv, Kinds, Bucket
  <2>2. ASSUME NEW w \in 0..MaxClock
        PROVE  Used(w) \in Nat /\ spentIn[w] \in Nat /\ spentIn[w] <= Used(w)
    BY HoldingFinite DEF Used
  <2>3. InBudget
    <3>1. ASSUME ~robbed, NEW w \in 0..MaxClock PROVE spentIn[w] <= Cap["commit"]
      <4> HIDE DEF Used
      <4>1. Used(w) <= Cap["commit"]
        BY <2>1, <2>2, <3>1 DEF UnitsCounted
      <4> QED
        BY <2>1, <2>2, <4>1
    <3> QED
      BY <3>1 DEF InBudget
  <2>4. UnitsReturned
    <3>1. ASSUME \A s \in Servers : At(s, "idle"), ~robbed, ~unreturned, crashes = 0
          PROVE  counters["commit"].count = spentIn[counters["commit"].window]
      <4>1. PICK w \in 0..MaxClock : w = counters["commit"].window
        BY <2>1
      <4>2. Holding(w) = {}
        BY <3>1 DEF Holding, HoldsUnit, At
      <4>3. Used(w) = spentIn[w]
        BY <2>2, <4>2, FS_EmptySet DEF Used
      <4> HIDE DEF Used
      <4> QED
        BY <2>1, <3>1, <4>1, <4>3 DEF UnitsCounted
    <3> QED
      BY <3>1 DEF UnitsReturned
  <2> QED
    BY <2>1, <2>3, <2>4 DEF BudgetExact
<1> QED
  BY <1>1, McpAlways, PTL
=============================================================================
