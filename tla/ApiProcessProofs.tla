-------------------------- MODULE ApiProcessProofs --------------------------
(***************************************************************************)
(* Proofs about ApiProcess, for queues and buffers of any size and any number *)
(* of rows and events. The buffer's invariant is the property itself. The     *)
(* queue's is stronger: that no id waits while a worker is free rests on a     *)
(* pump that never has more than one id to start, and that an id is attempted  *)
(* once on a waiting list without duplicates; how many attempts are counted    *)
(* and whose they are agree (UnderWay).                                      *)
(***************************************************************************)
EXTENDS ApiProcess, TLAPS, SequenceTheorems

-----------------------------------------------------------------------------
(* The work queue *)

(* A pump that has no id or no worker starts nothing, *)
LEMMA PumpStartsNone ==
  ASSUME NEW waiting \in Seq(Rows), NEW n \in Nat, NEW under \in [Rows -> Nat],
         Starts(waiting, n) = 0, Pump(waiting, n, under)
  PROVE  queue' = waiting /\ active' = n /\ running' = under
<1>1. /\ queue' = SubSeq(waiting, 0 + 1, Len(waiting)) /\ active' = n + 0
      /\ running' = [i \in Rows |->
                       under[i] + IF i \in Range(SubSeq(waiting, 1, 0)) THEN 1 ELSE 0]
  BY Zenon DEF Pump
<1>2. SubSeq(waiting, 0 + 1, Len(waiting)) = waiting
  BY SubSeqFull
<1>3. Range(SubSeq(waiting, 1, 0)) = {}
  <2>1. SubSeq(waiting, 1, 0) = <<>>
    BY SubSeqEmpty
  <2> QED
    BY <2>1 DEF Range
<1>4. running' = [i \in Rows |-> under[i]]
  BY <1>1, <1>3
<1> QED
  BY <1>1, <1>2, <1>4

(* and one that has one of each starts the id that came first. *)
LEMMA PumpStartsFirst ==
  ASSUME NEW waiting \in Seq(Rows), NEW n \in Nat, NEW under \in [Rows -> Nat],
         waiting # <<>>, Starts(waiting, n) = 1, Pump(waiting, n, under)
  PROVE  /\ queue' = Tail(waiting) /\ active' = n + 1 /\ waiting[1] \in Rows
         /\ running' \in [Rows -> Nat]
         /\ \A i \in Rows : running'[i] = under[i] + IF i = waiting[1] THEN 1 ELSE 0
<1>1. /\ queue' = SubSeq(waiting, 1 + 1, Len(waiting)) /\ active' = n + 1
      /\ running' = [i \in Rows |->
                       under[i] + IF i \in Range(SubSeq(waiting, 1, 1)) THEN 1 ELSE 0]
  BY Zenon DEF Pump
<1>2. Len(waiting) \in Nat \ {0} /\ waiting[1] \in Rows
  OBVIOUS
<1>3. SubSeq(waiting, 1 + 1, Len(waiting)) = Tail(waiting)
  BY TailIsSubSeq
<1>4. Range(SubSeq(waiting, 1, 1)) = {waiting[1]}
  <2>1. PICK s : s = SubSeq(waiting, 1, 1)
    OBVIOUS
  <2>2. \A i \in 1..1 : waiting[i] \in Rows
    BY <1>2
  <2>3. s \in Seq(Rows) /\ Len(s) = 1 /\ \A i \in 1..1 : s[i] = waiting[i]
    BY <2>1, <2>2, SubSeqProperties
  <2> QED
    BY <2>1, <2>3 DEF Range
<1> QED
  BY <1>1, <1>2, <1>3, <1>4

(* A list without duplicates, less its first id ... *)
LEMMA TailKeeps ==
  ASSUME NEW s \in Seq(Rows), s # <<>>, IsInjective(s)
  PROVE  /\ Tail(s) \in Seq(Rows) /\ Len(Tail(s)) = Len(s) - 1 /\ IsInjective(Tail(s))
         /\ Range(Tail(s)) = Range(s) \ {s[1]} /\ s[1] \in Range(s)
<1>1. /\ Len(s) \in Nat \ {0} /\ Tail(s) \in Seq(Rows) /\ Len(Tail(s)) = Len(s) - 1
      /\ \A i \in 1..(Len(s) - 1) : Tail(s)[i] = s[i + 1]
      /\ DOMAIN s = 1..Len(s) /\ DOMAIN Tail(s) = 1..(Len(s) - 1)
  OBVIOUS
<1>2. IsInjective(Tail(s))
  <2> SUFFICES ASSUME NEW a \in 1..(Len(s) - 1), NEW b \in 1..(Len(s) - 1), s[a + 1] = s[b + 1]
               PROVE  a = b
    BY <1>1 DEF IsInjective
  <2>1. a + 1 \in DOMAIN s /\ b + 1 \in DOMAIN s
    BY <1>1
  <2> QED
    BY <2>1 DEF IsInjective
<1>3. s[1] \in Range(s)
  BY <1>1 DEF Range
<1>4. ASSUME NEW x \in Range(Tail(s)) PROVE x \in Range(s) \ {s[1]}
  <2>1. PICK a \in 1..(Len(s) - 1) : x = s[a + 1]
    BY <1>1, <1>4 DEF Range
  <2>2. a + 1 \in DOMAIN s /\ 1 \in DOMAIN s /\ a + 1 # 1
    BY <1>1
  <2> QED
    BY <2>1, <2>2 DEF Range, IsInjective
<1>5. ASSUME NEW x \in Range(s) \ {s[1]} PROVE x \in Range(Tail(s))
  <2>1. PICK a \in 1..Len(s) : x = s[a]
    BY <1>1, <1>5 DEF Range
  <2>2. a - 1 \in 1..(Len(s) - 1) /\ (a - 1) + 1 = a
    BY <1>1, <1>5, <2>1
  <2>3. Tail(s)[a - 1] = x
    BY <1>1, <2>1, <2>2
  <2> QED
    BY <1>1, <2>2, <2>3 DEF Range
<1> QED
  BY <1>1, <1>2, <1>3, <1>4, <1>5

(* ... or with one more that is not in it. *)
LEMMA AppendKeeps ==
  ASSUME NEW s \in Seq(Rows), IsInjective(s), NEW x \in Rows, x \notin Range(s)
  PROVE  /\ Append(s, x) \in Seq(Rows) /\ Len(Append(s, x)) = Len(s) + 1 /\ Append(s, x) # <<>>
         /\ IsInjective(Append(s, x)) /\ Range(Append(s, x)) = Range(s) \cup {x}
<1>1. PICK t : t = Append(s, x)
  OBVIOUS
<1>2. /\ t \in Seq(Rows) /\ Len(t) = Len(s) + 1 /\ Len(s) \in Nat
      /\ \A i \in 1..Len(s) : t[i] = s[i] 
      /\ t[Len(s) + 1] = x /\ DOMAIN s = 1..Len(s) /\ DOMAIN t = 1..(Len(s) + 1)
  BY <1>1, AppendProperties
<1>3. IsInjective(t)
  <2> SUFFICES ASSUME NEW a \in 1..(Len(s) + 1), NEW b \in 1..(Len(s) + 1), t[a] = t[b] PROVE a = b
    BY <1>2 DEF IsInjective
  <2>1. \A c \in 1..Len(s) : s[c] # x
    BY <1>2 DEF Range
  <2>2. /\ a \in 1..Len(s) \/ a = Len(s) + 1
        /\ b \in 1..Len(s) \/ b = Len(s) + 1
    BY <1>2
  <2>3. CASE a \in 1..Len(s) /\ b \in 1..Len(s)
    BY <1>2, <2>3 DEF IsInjective
  <2> QED
    BY <1>2, <2>1, <2>2, <2>3
<1>4. Range(t) = Range(s) \cup {x}
  <2>1. ASSUME NEW y \in Range(t) PROVE y \in Range(s) \cup {x}
    <3>1. PICK a \in 1..(Len(s) + 1) : y = t[a]
      BY <1>2, <2>1 DEF Range
    <3>2. a \in 1..Len(s) \/ a = Len(s) + 1
      BY <1>2
    <3> QED
      BY <1>2, <3>1, <3>2 DEF Range
  <2>2. ASSUME NEW y \in Range(s) \cup {x} PROVE y \in Range(t)
    <3>1. Len(s) + 1 \in 1..(Len(s) + 1) /\ \A a \in 1..Len(s) : a \in 1..(Len(s) + 1)
      BY <1>2
    <3> QED
      BY <1>2, <2>2, <3>1 DEF Range
  <2> QED
    BY <2>1, <2>2
<1>5. t # <<>>
  BY <1>2
<1> QED
  BY <1>1, <1>2, <1>3, <1>4, <1>5

(* n attempts are under way, and run says whose. *)
UnderWay(n, run) ==
  \/ n = 0 /\ \A i \in Rows : run[i] = 0
  \/ n = 1 /\ \E x \in Rows : \A i \in Rows : run[i] = IF i = x THEN 1 ELSE 0
  \/ n = 2 /\ \E x, y \in Rows :
       \A i \in Rows : run[i] = (IF i = x THEN 1 ELSE 0) + (IF i = y THEN 1 ELSE 0)

(* An attempt begins. *)
LEMMA OneMore ==
  ASSUME NEW n \in {0, 1}, NEW run \in [Rows -> Nat], UnderWay(n, run), NEW x \in Rows,
         NEW more, \A i \in Rows : more[i] = run[i] + IF i = x THEN 1 ELSE 0
  PROVE  UnderWay(n + 1, more)
<1>1. CASE n = 0
  <2>1. \A i \in Rows : run[i] = 0
    BY <1>1 DEF UnderWay
  <2>2. \A i \in Rows : more[i] = IF i = x THEN 1 ELSE 0
    BY <2>1
  <2> QED
    BY <1>1, <2>2 DEF UnderWay
<1>2. CASE n = 1
  <2>1. PICK y \in Rows : \A i \in Rows : run[i] = IF i = y THEN 1 ELSE 0
    BY <1>2 DEF UnderWay
  <2>2. \A i \in Rows : more[i] = (IF i = y THEN 1 ELSE 0) + (IF i = x THEN 1 ELSE 0)
    BY <2>1
  <2> QED
    BY <1>2, <2>2 DEF UnderWay
<1> QED
  BY <1>1, <1>2

(* An attempt ends. *)
LEMMA OneLess ==
  ASSUME NEW n \in {0, 1, 2}, NEW run \in [Rows -> Nat], UnderWay(n, run), NEW x \in Rows,
         run[x] > 0, NEW less, \A i \in Rows : less[i] = IF i = x THEN run[i] - 1 ELSE run[i]
  PROVE  n > 0 /\ UnderWay(n - 1, less)
<1>0. run[x] \in Nat /\ run[x] # 0
  OBVIOUS
<1>1. CASE n = 0
  BY <1>0, <1>1 DEF UnderWay
<1>2. CASE n = 1
  <2>1. PICK y \in Rows : \A i \in Rows : run[i] = IF i = y THEN 1 ELSE 0
    BY <1>2 DEF UnderWay
  <2>2. \A i \in Rows : less[i] = 0
    BY <1>0, <2>1
  <2> QED
    BY <1>2, <2>2 DEF UnderWay
<1>3. CASE n = 2
  <2>1. PICK y \in Rows, z \in Rows :
          \A i \in Rows : run[i] = (IF i = y THEN 1 ELSE 0) + (IF i = z THEN 1 ELSE 0)
    BY <1>3 DEF UnderWay
  <2>2. CASE x = y
    <3>1. \A i \in Rows : less[i] = IF i = z THEN 1 ELSE 0
      BY <2>1, <2>2
    <3> QED
      BY <1>3, <3>1 DEF UnderWay
  <2>3. CASE x = z
    <3>1. \A i \in Rows : less[i] = IF i = y THEN 1 ELSE 0
      BY <2>1, <2>3
    <3> QED
      BY <1>3, <3>1 DEF UnderWay
  <2>4. x = y \/ x = z
    BY <1>0, <2>1
  <2> QED
    BY <2>2, <2>3, <2>4
<1> QED
  BY <1>1, <1>2, <1>3

(* No id has more attempts than there are. *)
LEMMA AttemptsBounded ==
  ASSUME NEW n \in {0, 1, 2}, NEW run \in [Rows -> Nat], UnderWay(n, run)
  PROVE  /\ \A i \in Rows : run[i] \in 0..n
         /\ n = 0 <=> \A i \in Rows : run[i] = 0
<1>1. CASE n = 0
  BY <1>1 DEF UnderWay
<1>2. CASE n = 1
  <2>1. PICK y \in Rows : \A i \in Rows : run[i] = IF i = y THEN 1 ELSE 0
    BY <1>2 DEF UnderWay
  <2>2. run[y] = 1
    BY <2>1
  <2> QED
    BY <1>2, <2>1, <2>2
<1>3. CASE n = 2
  <2>1. PICK y \in Rows, z \in Rows :
          \A i \in Rows : run[i] = (IF i = y THEN 1 ELSE 0) + (IF i = z THEN 1 ELSE 0)
    BY <1>3 DEF UnderWay
  <2>2. run[y] # 0
    BY <2>1
  <2>3. \A i \in Rows : run[i] \in 0..2
    BY <2>1
  <2> QED
    BY <1>3, <2>2, <2>3
<1> QED
  BY <1>1, <1>2, <1>3

(* The invariant of the queue. *)
QueueInv ==
  /\ kind \in {"mail", "check"}
  /\ queue \in Seq(Rows) /\ Len(queue) <= QueueMax /\ IsInjective(queue)
  /\ active \in 0..Concurrency
  /\ running \in [Rows -> Nat] /\ UnderWay(active, running)
  /\ lost \subseteq Rows
  /\ queue # <<>> => active = Concurrency
  /\ kind = "mail" => \A i \in Waiting : running[i] = 0

(* It is what the property says, and more. *)
LEMMA QueueInvShows == QueueInv => QueueHolds
<1> SUFFICES ASSUME QueueInv PROVE QueueHolds
  OBVIOUS
<1>1. Concurrency \in {1, 2} /\ (kind = "mail" => Concurrency = 1)
  BY DEF QueueInv, Concurrency
<1>2. /\ active \in {0, 1, 2} /\ active <= Concurrency
      /\ running \in [Rows -> Nat] /\ UnderWay(active, running)
  BY <1>1 DEF QueueInv
<1>3. /\ \A i \in Rows : running[i] \in 0..active
      /\ active = 0 <=> \A i \in Rows : running[i] = 0
  BY <1>2, AttemptsBounded
<1>4. /\ \A i \in Rows : running[i] \in 0..Concurrency
      /\ kind = "mail" => \A i \in Rows : running[i] \in 0..1
  BY <1>1, <1>2, <1>3
<1>5. QueueTypeOK
  BY <1>3, <1>4 DEF QueueInv, QueueTypeOK
<1>6. OneAttemptAtATime
  BY <1>4 DEF QueueInv, OneAttemptAtATime
<1> QED
  BY <1>5, <1>6 DEF QueueHolds, NeverIdle, QueueInv

(* An id is offered: it waits if every worker is busy, and starts if one is free,  *)
(* since then nobody waits.                                                      *)
LEMMA EnqueueHolds ==
  ASSUME QueueInv, NEW i \in Rows, Enqueue(i)
  PROVE  QueueInv'
<1>1. PICK w : w = Append(queue, i)
  OBVIOUS
<1>2. /\ w \in Seq(Rows) /\ Len(w) = Len(queue) + 1 /\ w # <<>> /\ IsInjective(w)
      /\ Range(w) = Waiting \cup {i} /\ i \notin Waiting
  BY <1>1, AppendKeeps DEF Enqueue, Taken, Waiting, QueueInv
<1>3. /\ Len(queue) \in Nat /\ Len(queue) < QueueMax /\ QueueMax \in Nat
      /\ Concurrency \in {1, 2} /\ (kind = "mail" => Concurrency = 1) /\ active \in Nat
      /\ active <= Concurrency
  BY WorkQueueAssumption DEF Enqueue, QueueInv, Concurrency
<1>4. /\ Pump(w, active, running) /\ kind' = kind /\ lost' = lost \ {i}
      /\ (kind = "mail" => ~ (running[i] > 0))
  BY <1>1 DEF Enqueue, Taken
<1>5. Concurrency' = Concurrency
  BY <1>4 DEF Concurrency
<1>6. CASE active = Concurrency
  <2>1. Starts(w, active) = 0
    BY <1>2, <1>3, <1>6 DEF Starts
  <2>2. queue' = w /\ active' = active /\ running' = running
    BY <1>2, <1>3, <1>4, <2>1, PumpStartsNone DEF QueueInv
  <2>3. Waiting' = Waiting \cup {i}
    BY <1>2, <2>2 DEF Waiting
  <2>4. kind = "mail" => running[i] = 0
    BY <1>4 DEF QueueInv
  <2>5. Len(w) <= QueueMax
    BY <1>2, <1>3
  <2> QED
    BY <1>2, <1>3, <1>4, <1>5, <1>6, <2>2, <2>3, <2>4, <2>5 DEF QueueInv
<1>7. CASE active < Concurrency
  <2>1. queue = <<>> /\ Len(queue) = 0
    BY <1>3, <1>7 DEF QueueInv
  <2>2. w = <<i>> /\ w[1] = i
    BY <1>1, <2>1
  <2>3. Starts(w, active) = 1
    BY <1>2, <1>3, <1>7, <2>1 DEF Starts
  <2>4. /\ queue' = Tail(w) /\ active' = active + 1 /\ running' \in [Rows -> Nat]
        /\ \A j \in Rows : running'[j] = running[j] + IF j = i THEN 1 ELSE 0
    <3>1. running \in [Rows -> Nat]
      BY DEF QueueInv
    <3>2. /\ queue' = Tail(w) /\ active' = active + 1 /\ running' \in [Rows -> Nat]
          /\ \A j \in Rows : running'[j] = running[j] + IF j = w[1] THEN 1 ELSE 0
      BY <1>2, <1>3, <1>4, <2>3, <3>1, PumpStartsFirst
    <3> QED
      BY <2>2, <3>2
  <2>5. queue' = <<>>
    BY <2>2, <2>4
  <2>6. UnderWay(active', running') /\ active' \in 0..Concurrency
    <3>1. active \in {0, 1} /\ running \in [Rows -> Nat] /\ UnderWay(active, running)
      BY <1>3, <1>7 DEF QueueInv
    <3>2. UnderWay(active + 1, running')
      BY <2>4, <3>1, OneMore
    <3> QED
      BY <1>3, <1>7, <2>4, <3>1, <3>2
  <2>7. Waiting' = {} /\ IsInjective(queue') /\ Len(queue') = 0 /\ queue' \in Seq(Rows)
    BY <2>5 DEF Waiting, Range, IsInjective
  <2>8. Len(queue') <= QueueMax
    BY <1>3, <2>7
  <2>9. kind' \in {"mail", "check"} /\ lost' \subseteq Rows
    BY <1>4 DEF QueueInv
  <2> QED
    BY <1>5, <2>4, <2>5, <2>6, <2>7, <2>8, <2>9 DEF QueueInv
<1> QED
  BY <1>3, <1>6, <1>7

(* An attempt ends: whoever waits first takes its place. *)
LEMMA FinishHolds ==
  ASSUME QueueInv, NEW i \in Rows, Finish(i)
  PROVE  QueueInv'
<1>1. PICK under : under = [running EXCEPT ![i] = @ - 1]
  OBVIOUS
<1>2. /\ running[i] > 0 /\ Pump(queue, active - 1, under) /\ kind' = kind /\ lost' = lost
      /\ running[i] \in Nat
  BY <1>1 DEF Finish, QueueInv
<1>3. /\ Concurrency \in {1, 2} /\ (kind = "mail" => Concurrency = 1) /\ active \in 0..Concurrency
      /\ Concurrency' = Concurrency /\ Len(queue) \in Nat /\ queue \in Seq(Rows)
      /\ Len(queue) <= QueueMax /\ QueueMax \in Nat
  BY <1>2, WorkQueueAssumption DEF QueueInv, Concurrency
<1>5. /\ under \in [Rows -> Nat]
      /\ \A j \in Rows : under[j] = IF j = i THEN running[j] - 1 ELSE running[j]
  BY <1>1, <1>2 DEF QueueInv
<1>4. active > 0 /\ active - 1 \in Nat /\ UnderWay(active - 1, under)
  <2>1. active \in {0, 1, 2} /\ running \in [Rows -> Nat] /\ UnderWay(active, running)
    BY <1>3 DEF QueueInv
  <2>2. active > 0 /\ UnderWay(active - 1, under)
    BY <1>2, <1>5, <2>1, OneLess
  <2> QED
    BY <2>1, <2>2
<1>6. active \in {1, 2} /\ active - 1 \in {0, 1} /\ active - 1 < Concurrency
  BY <1>3, <1>4
<1>7. CASE queue = <<>>
  <2>1. Starts(queue, active - 1) = 0
    BY <1>3, <1>4, <1>7 DEF Starts
  <2>2. queue' = queue /\ active' = active - 1 /\ running' = under
    BY <1>2, <1>3, <1>4, <1>5, <2>1, PumpStartsNone
  <2>3. Waiting' = {}
    BY <1>7, <2>2 DEF Waiting, Range
  <2> QED
    BY <1>2, <1>3, <1>4, <1>5, <1>6, <1>7, <2>2, <2>3 DEF QueueInv
<1>8. CASE queue # <<>>
  <2>1. active = Concurrency /\ Len(queue) > 0
    BY <1>8, EmptySeq DEF QueueInv
  <2>2. Starts(queue, active - 1) = 1
    <3>1. PICK k : k = active - 1
      OBVIOUS
    <3>2. Concurrency - k = 1 /\ Len(queue) \in Nat \ {0} /\ k \in Nat
      BY <1>3, <1>6, <2>1, <3>1
    <3>3. Starts(queue, k) = IF Len(queue) <= Concurrency - k THEN Len(queue) ELSE Concurrency - k
      BY Zenon DEF Starts
    <3>4. Starts(queue, k) = IF Len(queue) <= 1 THEN Len(queue) ELSE 1
      BY <3>2, <3>3, Zenon
    <3>5. Len(queue) <= 1 => Len(queue) = 1
      BY <3>2
    <3>6. Starts(queue, k) = 1
      BY <3>4, <3>5
    <3> QED
      BY <3>1, <3>6
  <2>3. /\ queue' = Tail(queue) /\ active' = (active - 1) + 1 /\ queue[1] \in Rows
        /\ running' \in [Rows -> Nat]
        /\ \A j \in Rows : running'[j] = under[j] + IF j = queue[1] THEN 1 ELSE 0
    BY <1>2, <1>3, <1>4, <1>5, <1>8, <2>2, PumpStartsFirst
  <2>4. /\ Tail(queue) \in Seq(Rows) /\ Len(Tail(queue)) = Len(queue) - 1
        /\ IsInjective(Tail(queue)) /\ Range(Tail(queue)) = Waiting \ {queue[1]}
    BY <1>3, <1>8, TailKeeps DEF QueueInv, Waiting
  <2>5. active' = active
    BY <1>3, <2>3
  <2>6. UnderWay(active', running')
    <3>1. PICK k : k = active - 1
      OBVIOUS
    <3>2. k \in {0, 1} /\ UnderWay(k, under) /\ active' = k + 1
      BY <1>4, <1>6, <2>3, <3>1
    <3>3. PICK more : more = running'
      OBVIOUS
    <3>4. \A j \in Rows : more[j] = under[j] + IF j = queue[1] THEN 1 ELSE 0
      BY <2>3, <3>3
    <3>5. UnderWay(k + 1, more)
      <4>1. under \in [Rows -> Nat] /\ queue[1] \in Rows /\ k \in {0, 1} /\ UnderWay(k, under)
        BY <1>5, <2>3, <3>2
      <4> QED
        BY <3>4, <4>1, OneMore
    <3> QED
      BY <3>2, <3>3, <3>5
  <2>7. Waiting' = Waiting \ {queue[1]} /\ Waiting \subseteq Rows
    BY <1>3, <2>3, <2>4 DEF Waiting, Range
  <2>8. kind = "mail" => \A j \in Waiting' : running'[j] = 0
    <3> SUFFICES ASSUME kind = "mail", NEW j \in Waiting' PROVE running'[j] = 0
      OBVIOUS
    <3>1. running[j] = 0 /\ j \in Rows /\ j # queue[1]
      BY <2>7 DEF QueueInv
    <3>2. j # i
      BY <1>2, <3>1
    <3> QED
      BY <1>5, <2>3, <3>1, <3>2
  <2>9. Len(queue') <= QueueMax
    BY <1>3, <2>3, <2>4
  <2> QED
    BY <1>2, <1>3, <2>1, <2>3, <2>4, <2>5, <2>6, <2>8, <2>9 DEF QueueInv
<1> QED
  BY <1>7, <1>8

(* Another process begins with nothing. *)
LEMMA RestartHolds == ASSUME QueueInv, Restart PROVE QueueInv'
<1>1. /\ queue' = <<>> /\ active' = 0 /\ running' = [i \in Rows |-> 0] /\ kind' = kind
      /\ lost' = lost \cup Waiting
  BY DEF Restart
<1>2. Waiting' = {} /\ IsInjective(queue') /\ Len(queue') = 0 /\ queue' \in Seq(Rows)
  BY <1>1 DEF Waiting, Range, IsInjective
<1>3. Waiting \subseteq Rows
  BY DEF QueueInv, Waiting, Range
<1>4. UnderWay(active', running') /\ Concurrency' = Concurrency /\ Concurrency \in {1, 2}
  BY <1>1 DEF UnderWay, Concurrency
<1> QED
  BY <1>1, <1>2, <1>3, <1>4, WorkQueueAssumption DEF QueueInv

(* So does the first. *)
LEMMA QueueInitHolds == QueueInit => QueueInv
<1> SUFFICES ASSUME QueueInit PROVE QueueInv
  OBVIOUS
<1>1. /\ queue = <<>> /\ active = 0 /\ running = [i \in Rows |-> 0] /\ kind \in {"mail", "check"}
      /\ lost = {}
  BY DEF QueueInit
<1>2. Waiting = {} /\ IsInjective(queue) /\ Len(queue) = 0 /\ queue \in Seq(Rows)
  BY <1>1 DEF Waiting, Range, IsInjective
<1>3. UnderWay(active, running) /\ Concurrency \in {1, 2}
  BY <1>1 DEF UnderWay, Concurrency
<1> QED
  BY <1>1, <1>2, <1>3, WorkQueueAssumption DEF QueueInv

-----------------------------------------------------------------------------
(* The event buffer *)

(* A list of different events, cut in two. *)
LEMMA Cut ==
  ASSUME NEW s \in Seq(Events), IsInjective(s), NEW m \in 0..Len(s)
  PROVE  /\ SubSeq(s, 1, m) \in Seq(Events)
         /\ SubSeq(s, m + 1, Len(s)) \in Seq(Events)
         /\ Len(SubSeq(s, m + 1, Len(s))) = Len(s) - m
         /\ IsInjective(SubSeq(s, m + 1, Len(s)))
         /\ ToSet(SubSeq(s, 1, m)) \cap ToSet(SubSeq(s, m + 1, Len(s))) = {}
         /\ ToSet(SubSeq(s, 1, m)) \cup ToSet(SubSeq(s, m + 1, Len(s))) = ToSet(s)
<1>0. PICK p, q : p = SubSeq(s, 1, m) /\ q = SubSeq(s, m + 1, Len(s))
  OBVIOUS
<1>1. /\ Len(s) \in Nat /\ m \in Nat /\ m <= Len(s) /\ DOMAIN s = 1..Len(s)
      /\ \A i \in 1..Len(s) : s[i] \in Events
  OBVIOUS
<1>2. /\ p \in Seq(Events) /\ Len(p) = m /\ \A i \in 1..m : p[i] = s[i]
  <2>1. /\ \A i \in 1..m : s[i] \in Events
        /\ 1 \in Int /\ m \in Int
    BY <1>1
  <2>2. /\ p \in Seq(Events) /\ Len(p) = (IF 1 <= m THEN m - 1 + 1 ELSE 0)
        /\ \A i \in 1..(m - 1 + 1) : p[i] = s[1 + i - 1]
    BY <1>0, <2>1, SubSeqProperties
  <2> QED
    BY <1>1, <2>2
<1>3. /\ q \in Seq(Events) /\ Len(q) = Len(s) - m /\ \A i \in 1..(Len(s) - m) : q[i] = s[m + i]
  <2>1. /\ \A i \in (m + 1)..Len(s) : s[i] \in Events
        /\ m + 1 \in Int /\ Len(s) \in Int
    BY <1>1
  <2>2. /\ q \in Seq(Events) /\ Len(q) = (IF m + 1 <= Len(s) THEN Len(s) - (m + 1) + 1 ELSE 0)
        /\ \A i \in 1..(Len(s) - (m + 1) + 1) : q[i] = s[(m + 1) + i - 1]
    BY <1>0, <2>1, SubSeqProperties
  <2>3. /\ Len(s) - (m + 1) + 1 = Len(s) - m
        /\ \A i \in 1..(Len(s) - m) : (m + 1) + i - 1 = m + i
        /\ (IF m + 1 <= Len(s) THEN Len(s) - (m + 1) + 1 ELSE 0) = Len(s) - m
    <3>1. PICK n : n = Len(s)
      OBVIOUS
    <3>2. n \in Nat /\ m \in Nat /\ m <= n
      BY <1>1, <3>1
    <3>3. n - (m + 1) + 1 = n - m /\ \A i \in 1..(n - m) : (m + 1) + i - 1 = m + i
      BY <3>2
    <3>4. (IF m + 1 <= n THEN n - (m + 1) + 1 ELSE 0) = n - m
      BY <3>2
    <3> QED
      BY <3>1, <3>3, <3>4
  <2> QED
    BY <2>2, <2>3
<1>4. DOMAIN p = 1..m /\ DOMAIN q = 1..(Len(s) - m)
  BY <1>2, <1>3
<1>5. \A i \in 1..(Len(s) - m) : m + i \in 1..Len(s)
  BY <1>1
<1>6. IsInjective(q)
  <2> SUFFICES ASSUME NEW a \in 1..(Len(s) - m), NEW b \in 1..(Len(s) - m), q[a] = q[b]
               PROVE  a = b
    BY <1>4 DEF IsInjective
  <2>1. m + a = m + b
    BY <1>1, <1>3, <1>5 DEF IsInjective
  <2> QED
    BY <1>1, <2>1
<1>7. ToSet(p) \cap ToSet(q) = {}
  <2> SUFFICES ASSUME NEW x \in ToSet(p), x \in ToSet(q) PROVE FALSE
    OBVIOUS
  <2>0. PICK a \in 1..m, b \in 1..(Len(s) - m) : p[a] = x /\ q[b] = x
    BY <1>4 DEF ToSet
  <2>1. a \in 1..Len(s) /\ s[a] = s[m + b]
    <3>1. p[a] = s[a] /\ q[b] = s[m + b]
      BY <1>2, <1>3
    <3>2. a \in 1..Len(s)
      BY <1>1
    <3> QED
      BY <2>0, <3>1, <3>2
  <2>2. a = m + b
    BY <1>1, <1>5, <2>1 DEF IsInjective
  <2> QED
    BY <1>1, <2>2
<1>8. ToSet(p) \cup ToSet(q) = ToSet(s)
  <2>1. ToSet(p) \subseteq ToSet(s)
    BY <1>1, <1>2, <1>4 DEF ToSet
  <2>2. ToSet(q) \subseteq ToSet(s)
    BY <1>1, <1>3, <1>4, <1>5 DEF ToSet
  <2>3. ASSUME NEW a \in 1..Len(s) PROVE s[a] \in ToSet(p) \cup ToSet(q)
    <3>1. CASE a <= m
      <4>1. a \in DOMAIN p /\ p[a] = s[a]
        BY <1>1, <1>2, <1>4, <3>1
      <4> QED
        BY <4>1 DEF ToSet
    <3>2. CASE a > m
      <4>1. a - m \in DOMAIN q /\ q[a - m] = s[a]
        <5>1. a - m \in 1..(Len(s) - m) /\ m + (a - m) = a
          BY <1>1, <3>2
        <5> QED
          BY <1>3, <1>4, <5>1
      <4> QED
        BY <4>1 DEF ToSet
    <3> QED
      BY <1>1, <3>1, <3>2
  <2> QED
    BY <1>1, <2>1, <2>2, <2>3 DEF ToSet
<1> QED
  BY <1>0, <1>2, <1>3, <1>6, <1>7, <1>8

(* Two lists of events, joined. *)
LEMMA Joined ==
  ASSUME NEW s \in Seq(Events), NEW t \in Seq(Events)
  PROVE  /\ s \o t \in Seq(Events) /\ Len(s \o t) = Len(s) + Len(t)
         /\ ToSet(s \o t) = ToSet(s) \cup ToSet(t)
         /\ IsInjective(s \o t) <=>
              IsInjective(s) /\ IsInjective(t) /\ ToSet(s) \cap ToSet(t) = {}
<1>0. PICK u : u = s \o t
  OBVIOUS
<1>1. /\ u \in Seq(Events) /\ Len(u) = Len(s) + Len(t)
      /\ \A i \in 1..(Len(s) + Len(t)) : u[i] = IF i <= Len(s) THEN s[i] ELSE t[i - Len(s)]
      /\ Len(s) \in Nat /\ Len(t) \in Nat
      /\ DOMAIN u = 1..(Len(s) + Len(t)) /\ DOMAIN s = 1..Len(s) /\ DOMAIN t = 1..Len(t)
  BY <1>0, ConcatProperties
<1>2. \A i \in 1..Len(s) : i \in 1..(Len(s) + Len(t)) /\ u[i] = s[i]
  BY <1>1
<1>3. ASSUME NEW i \in 1..Len(t)
      PROVE  Len(s) + i \in 1..(Len(s) + Len(t)) /\ u[Len(s) + i] = t[i]
  <2>1. /\ Len(s) + i \in 1..(Len(s) + Len(t)) /\ ~ (Len(s) + i <= Len(s))
        /\ (Len(s) + i) - Len(s) = i
    BY <1>1
  <2> QED
    BY <1>1, <2>1
<1>4. ASSUME NEW i \in 1..(Len(s) + Len(t))
      PROVE  i \in 1..Len(s) \/ \E j \in 1..Len(t) : i = Len(s) + j
  <2>1. i <= Len(s) \/ (i - Len(s) \in 1..Len(t) /\ i = Len(s) + (i - Len(s)))
    BY <1>1
  <2> QED
    BY <1>1, <2>1
<1>5. ToSet(u) = ToSet(s) \cup ToSet(t)
  <2>1. ASSUME NEW i \in 1..(Len(s) + Len(t)) PROVE u[i] \in ToSet(s) \cup ToSet(t)
    <3>1. CASE i \in 1..Len(s)
      BY <1>1, <1>2, <3>1 DEF ToSet
    <3>2. CASE \E j \in 1..Len(t) : i = Len(s) + j
      BY <1>1, <1>3, <3>2 DEF ToSet
    <3> QED
      BY <1>4, <3>1, <3>2
  <2>2. \A i \in 1..Len(s) : s[i] \in ToSet(u)
    BY <1>1, <1>2 DEF ToSet
  <2>3. \A i \in 1..Len(t) : t[i] \in ToSet(u)
    BY <1>1, <1>3 DEF ToSet
  <2>4. /\ ToSet(u) = {u[i] : i \in 1..(Len(s) + Len(t))}
        /\ ToSet(s) = {s[i] : i \in 1..Len(s)} /\ ToSet(t) = {t[i] : i \in 1..Len(t)}
    BY <1>1 DEF ToSet
  <2> QED
    BY <2>1, <2>2, <2>3, <2>4
<1>6. ASSUME IsInjective(u) PROVE IsInjective(s) /\ IsInjective(t) /\ ToSet(s) \cap ToSet(t) = {}
  <2>1. IsInjective(s)
    BY <1>1, <1>2, <1>6 DEF IsInjective
  <2>2. IsInjective(t)
    <3> SUFFICES ASSUME NEW a \in 1..Len(t), NEW b \in 1..Len(t), t[a] = t[b] PROVE a = b
      BY <1>1 DEF IsInjective
    <3>1. Len(s) + a = Len(s) + b
      BY <1>1, <1>3, <1>6 DEF IsInjective
    <3> QED
      BY <1>1, <3>1
  <2>3. ASSUME NEW a \in 1..Len(s), NEW b \in 1..Len(t), s[a] = t[b] PROVE FALSE
    <3>1. a = Len(s) + b
      BY <1>1, <1>2, <1>3, <1>6, <2>3 DEF IsInjective
    <3> QED
      BY <1>1, <3>1
  <2> QED
    BY <1>1, <2>1, <2>2, <2>3 DEF ToSet
<1>7. ASSUME IsInjective(s), IsInjective(t), ToSet(s) \cap ToSet(t) = {} PROVE IsInjective(u)
  <2> SUFFICES ASSUME NEW a \in 1..(Len(s) + Len(t)), NEW b \in 1..(Len(s) + Len(t)), u[a] = u[b]
               PROVE  a = b
    BY <1>1 DEF IsInjective
  <2>0. ASSUME NEW i \in 1..Len(s), NEW j \in 1..Len(t) PROVE s[i] # t[j]
    <3>1. s[i] \in ToSet(s) /\ t[j] \in ToSet(t)
      BY <1>1 DEF ToSet
    <3> QED
      BY <1>7, <3>1
  <2>1. CASE a \in 1..Len(s) /\ b \in 1..Len(s)
    BY <1>1, <1>2, <1>7, <2>1 DEF IsInjective
  <2>2. CASE a \in 1..Len(s) /\ \E j \in 1..Len(t) : b = Len(s) + j
    BY <1>2, <1>3, <2>0, <2>2
  <2>3. CASE b \in 1..Len(s) /\ \E j \in 1..Len(t) : a = Len(s) + j
    BY <1>2, <1>3, <2>0, <2>3
  <2>4. ASSUME NEW i \in 1..Len(t), NEW j \in 1..Len(t), a = Len(s) + i, b = Len(s) + j PROVE a = b
    BY <1>1, <1>3, <1>7, <2>4 DEF IsInjective
  <2> QED
    BY <1>4, <2>1, <2>2, <2>3, <2>4
<1> QED
  BY <1>0, <1>1, <1>5, <1>6, <1>7

(* The places of events as sets. *)
Apart(b, f, w, g) ==
  /\ b \cap f = {} /\ b \cap w = {} /\ b \cap g = {} /\ f \cap w = {} /\ f \cap g = {} /\ w \cap g = {}

(* The invariant of the buffer. *)
BufferInv ==
  /\ BufferTypeOK
  /\ IsInjective(buffer) /\ IsInjective(batch)
  /\ Apart(ToSet(buffer), ToSet(batch), written, gone)
  /\ ToSet(buffer) \cup ToSet(batch) \cup written \cup gone = 1..recorded
  /\ DrainedOnClose

(* Places one by one, and as EachEventOnce counts them. *)
LEMMA FourPlaces ==
  ASSUME NEW b, NEW f, NEW w, NEW g
  PROVE  LET places == <<b, f, w, g>>
         IN  /\ UNION ToSet(places) = b \cup f \cup w \cup g
             /\ (\A i, j \in 1..4 : i # j => places[i] \cap places[j] = {}) <=> Apart(b, f, w, g)
<1> DEFINE places == <<b, f, w, g>>
<1>1. /\ places[1] = b /\ places[2] = f /\ places[3] = w /\ places[4] = g /\ DOMAIN places = 1..4
  OBVIOUS
<1>2. ToSet(places) = {b, f, w, g}
  BY DEF ToSet
<1>3. UNION {b, f, w, g} = b \cup f \cup w \cup g
  OBVIOUS
<1> HIDE DEF places
<1>4. (\A i, j \in 1..4 : i # j => places[i] \cap places[j] = {}) => Apart(b, f, w, g)
  <2> SUFFICES ASSUME \A i, j \in 1..4 : i # j => places[i] \cap places[j] = {} PROVE Apart(b, f, w, g)
    OBVIOUS
  <2>1. /\ places[1] \cap places[2] = {} /\ places[1] \cap places[3] = {} /\ places[1] \cap places[4] = {}
        /\ places[2] \cap places[3] = {} /\ places[2] \cap places[4] = {} /\ places[3] \cap places[4] = {}
    OBVIOUS
  <2> QED
    BY <1>1, <2>1, Zenon DEF Apart
<1>5. ASSUME Apart(b, f, w, g), NEW i \in 1..4, NEW j \in 1..4, i # j
      PROVE  places[i] \cap places[j] = {}
  <2>1. i \in {1, 2, 3, 4} /\ j \in {1, 2, 3, 4}
    OBVIOUS
  <2> QED
    BY <1>1, <1>5, <2>1 DEF Apart
<1> QED
  BY <1>2, <1>3, <1>4, <1>5 DEF places

(* The invariant is the property. *)
LEMMA BufferInvIs == BufferInv <=> EventsAccounted
<1>1. ASSUME BufferTypeOK
      PROVE  EachEventOnce <=>
               /\ IsInjective(buffer) /\ IsInjective(batch)
               /\ Apart(ToSet(buffer), ToSet(batch), written, gone)
               /\ ToSet(buffer) \cup ToSet(batch) \cup written \cup gone = 1..recorded
  <2>1. IsInjective(buffer \o batch) <=>
          IsInjective(buffer) /\ IsInjective(batch) /\ ToSet(buffer) \cap ToSet(batch) = {}
    BY <1>1, Joined DEF BufferTypeOK
  <2>2. EachEventOnce <=>
          /\ IsInjective(buffer \o batch)
          /\ Apart(ToSet(buffer), ToSet(batch), written, gone)
          /\ ToSet(buffer) \cup ToSet(batch) \cup written \cup gone = 1..recorded
    <3>1. PICK b, f : b = ToSet(buffer) /\ f = ToSet(batch)
      OBVIOUS
    <3>2. PICK places : places = <<b, f, written, gone>>
      OBVIOUS
    <3>3. /\ UNION ToSet(places) = b \cup f \cup written \cup gone
          /\ (\A i, j \in 1..4 : i # j => places[i] \cap places[j] = {}) <=> Apart(b, f, written, gone)
      BY <3>2, FourPlaces
    <3>4. EachEventOnce <=>
            /\ IsInjective(buffer \o batch)
            /\ \A i, j \in 1..4 : i # j => places[i] \cap places[j] = {}
            /\ UNION ToSet(places) = 1..recorded
      BY <3>1, <3>2, Zenon DEF EachEventOnce
    <3> QED
      BY <3>1, <3>3, <3>4, Zenon
  <2> QED
    BY <2>1, <2>2 DEF Apart
<1> QED
  BY <1>1 DEF BufferInv, EventsAccounted

(* An empty list. *)
LEMMA NothingIsInjective == IsInjective(<<>>) /\ ToSet(<<>>) = {} /\ <<>> \in Seq(Events) /\ Len(<<>>) = 0
BY DEF IsInjective, ToSet

(* Nothing recorded yet. *)
LEMMA BufferInitHolds == BufferInit => BufferInv
<1> SUFFICES ASSUME BufferInit PROVE BufferInv
  OBVIOUS
<1>1. 1..recorded = {} /\ recorded \in 0..MaxEvents /\ 0 <= MaxPending
  BY EventBufferAssumption DEF BufferInit
<1>2. /\ ToSet(buffer) = {} /\ ToSet(batch) = {} /\ IsInjective(buffer) /\ IsInjective(batch)
      /\ buffer \in Seq(Events) /\ batch \in Seq(Events) /\ Len(buffer) = 0 /\ Len(batch) = 0
  BY NothingIsInjective, Zenon DEF BufferInit
<1>3. app = "serving" /\ timer = FALSE /\ written = {} /\ gone = {}
  BY DEF BufferInit
<1>4. BufferTypeOK
  BY <1>1, <1>2, <1>3 DEF BufferTypeOK
<1> QED
  BY <1>1, <1>2, <1>3, <1>4 DEF BufferInv, Apart, DrainedOnClose

(* New events join the buffer; what the cap has no place for is given up. *)
LEMMA RecordHolds ==
  ASSUME BufferInv, NEW n \in 1..MaxPending, RecordEvents(n)
  PROVE  BufferInv'
<1>1. PICK new : new = [k \in 1..n |-> recorded + k]
  OBVIOUS
<1>2. PICK all : all = buffer \o new
  OBVIOUS
<1>3. PICK over : over = IF Len(all) > MaxPending THEN Len(all) - MaxPending ELSE 0
  OBVIOUS
<1>4. PICK kept : kept = SubSeq(all, over + 1, Len(all))
  OBVIOUS
<1>5. PICK given : given = SubSeq(all, 1, over)
  OBVIOUS
<1>6. /\ app = "serving" /\ recorded + n <= MaxEvents /\ recorded' = recorded + n
      /\ gone' = gone \cup ToSet(given)
      /\ \/ batch = <<>> /\ batch' = kept /\ buffer' = <<>> /\ timer' = timer
         \/ batch' = batch /\ buffer' = kept /\ timer' = TRUE
      /\ app' = app /\ written' = written
  BY <1>1, <1>2, <1>3, <1>4, <1>5 DEF RecordEvents, Take, Flushing, Closed
<1>7. /\ recorded \in Nat /\ recorded <= MaxEvents /\ MaxEvents \in Nat /\ MaxPending \in Nat /\ n \in Nat
      /\ buffer \in Seq(Events) /\ batch \in Seq(Events)
  BY EventBufferAssumption DEF BufferInv, BufferTypeOK
<1>8. /\ new \in Seq(Events) /\ IsInjective(new) /\ ToSet(new) = (recorded + 1)..(recorded + n)
  <2>1. /\ DOMAIN new = 1..n /\ \A k \in 1..n : new[k] = recorded + k
    BY <1>1
  <2>2. \A k \in 1..n : recorded + k \in Events
    BY <1>6, <1>7 DEF Events
  <2>3. new \in Seq(Events)
    BY <1>1, <1>7, <2>2
  <2>4. IsInjective(new)
    <3> SUFFICES ASSUME NEW a \in 1..n, NEW b \in 1..n, recorded + a = recorded + b PROVE a = b
      BY <2>1 DEF IsInjective
    <3> QED
      BY <1>7
  <2>5. ASSUME NEW e \in (recorded + 1)..(recorded + n) PROVE \E k \in 1..n : e = recorded + k
    <3>1. e - recorded \in 1..n /\ e = recorded + (e - recorded)
      BY <1>7
    <3> QED
      BY <3>1
  <2>6. ASSUME NEW k \in 1..n PROVE recorded + k \in (recorded + 1)..(recorded + n)
    BY <1>7
  <2>7. ToSet(new) = {recorded + k : k \in 1..n}
    BY <2>1 DEF ToSet
  <2> QED
    BY <2>3, <2>4, <2>5, <2>6, <2>7
<1>9. /\ 1..recorded \cap (recorded + 1)..(recorded + n) = {}
      /\ 1..recorded \cup (recorded + 1)..(recorded + n) = 1..(recorded + n)
  BY <1>7
<1>10. PICK B, F, W, G, N :
         B = ToSet(buffer) /\ F = ToSet(batch) /\ W = written /\ G = gone /\ N = ToSet(new)
  OBVIOUS
<1>11. /\ IsInjective(buffer) /\ IsInjective(batch) /\ Apart(B, F, W, G)
       /\ B \cup F \cup W \cup G = 1..recorded
  BY <1>10 DEF BufferInv
<1>12. N \cap (B \cup F \cup W \cup G) = {} /\ N \cup (B \cup F \cup W \cup G) = 1..(recorded + n)
  BY <1>8, <1>9, <1>10, <1>11
<1>13. /\ all \in Seq(Events) /\ IsInjective(all) /\ ToSet(all) = B \cup N /\ Len(all) \in Nat
  <2>1. B \cap N = {}
    BY <1>12
  <2>2. /\ all \in Seq(Events) /\ IsInjective(all) /\ ToSet(all) = B \cup N
    BY <1>2, <1>7, <1>8, <1>10, <1>11, <2>1, Joined
  <2> QED
    BY <2>2
<1>14. over \in 0..Len(all) /\ Len(all) - over <= MaxPending
  BY <1>3, <1>7, <1>13
<1>15. /\ given \in Seq(Events) /\ kept \in Seq(Events) /\ Len(kept) = Len(all) - over
       /\ IsInjective(kept) /\ ToSet(given) \cap ToSet(kept) = {}
       /\ ToSet(given) \cup ToSet(kept) = B \cup N
  <2>1. /\ all \in Seq(Events) /\ IsInjective(all) /\ over \in 0..Len(all)
        /\ given = SubSeq(all, 1, over) /\ kept = SubSeq(all, over + 1, Len(all))
    BY <1>4, <1>5, <1>13, <1>14
  <2>2. /\ given \in Seq(Events) /\ kept \in Seq(Events) /\ Len(kept) = Len(all) - over
        /\ IsInjective(kept) /\ ToSet(given) \cap ToSet(kept) = {}
        /\ ToSet(given) \cup ToSet(kept) = ToSet(all)
    BY <2>1, Cut
  <2> QED
    BY <1>13, <2>2
<1>16. PICK P, K : P = ToSet(given) /\ K = ToSet(kept)
  OBVIOUS
<1>17. /\ K \cap P = {} /\ K \cap F = {} /\ K \cap W = {} /\ K \cap G = {}
       /\ P \cap F = {} /\ P \cap W = {}
       /\ K \cup F \cup W \cup (G \cup P) = 1..(recorded + n)
  BY <1>11, <1>12, <1>15, <1>16 DEF Apart
<1>18. gone' = G \cup P /\ written' = W /\ gone' \subseteq Events /\ written' \subseteq Events
  <2>1. 1..(recorded + n) \subseteq Events
    BY <1>6, <1>7 DEF Events
  <2> QED
    BY <1>6, <1>10, <1>16, <1>17, <2>1
<1>19. recorded' \in 0..MaxEvents /\ Len(kept) <= MaxPending /\ Events' = Events
  BY <1>6, <1>7, <1>14, <1>15 DEF Events
<1>20. CASE batch = <<>> /\ batch' = kept /\ buffer' = <<>> /\ timer' = timer
  <2>1. F = {}
    BY <1>10, <1>20, NothingIsInjective
  <2>2. ToSet(buffer') = {} /\ ToSet(batch') = K /\ IsInjective(buffer') /\ IsInjective(batch')
    BY <1>15, <1>16, <1>20, NothingIsInjective
  <2>3. BufferTypeOK'
    BY <1>6, <1>7, <1>15, <1>18, <1>19, <1>20, NothingIsInjective DEF BufferInv, BufferTypeOK
  <2>4. Apart(ToSet(buffer'), ToSet(batch'), written', gone')
    BY <1>11, <1>17, <1>18, <2>2 DEF Apart
  <2>5. ToSet(buffer') \cup ToSet(batch') \cup written' \cup gone' = 1..recorded'
    BY <1>6, <1>17, <1>18, <2>1, <2>2
  <2> QED
    BY <1>6, <2>2, <2>3, <2>4, <2>5 DEF BufferInv, DrainedOnClose
<1>21. CASE batch' = batch /\ buffer' = kept /\ timer' = TRUE
  <2>1. ToSet(buffer') = K /\ ToSet(batch') = F /\ IsInjective(buffer') /\ IsInjective(batch')
    BY <1>10, <1>11, <1>15, <1>16, <1>21
  <2>2. BufferTypeOK'
    BY <1>6, <1>7, <1>15, <1>18, <1>19, <1>21 DEF BufferInv, BufferTypeOK
  <2>3. Apart(ToSet(buffer'), ToSet(batch'), written', gone')
    BY <1>11, <1>17, <1>18, <2>1 DEF Apart
  <2>4. ToSet(buffer') \cup ToSet(batch') \cup written' \cup gone' = 1..recorded'
    BY <1>6, <1>17, <1>18, <2>1
  <2> QED
    BY <1>6, <2>1, <2>2, <2>3, <2>4 DEF BufferInv, DrainedOnClose
<1> QED
  BY <1>6, <1>20, <1>21

(* Whoever takes the buffer takes all of it. *)
LEMMA TakeHolds ==
  ASSUME BufferInv, batch = <<>>, Take(buffer), timer' \in BOOLEAN, app # "stopped",
         UNCHANGED <<app, recorded, written, gone>>
  PROVE  BufferInv'
<1>1. batch' = buffer /\ buffer' = <<>>
  BY DEF Take
<1>2. PICK B, F : B = ToSet(buffer) /\ F = ToSet(batch)
  OBVIOUS
<1>3. /\ F = {} /\ ToSet(buffer') = {} /\ ToSet(batch') = B
  BY <1>1, <1>2, NothingIsInjective
<1>4. IsInjective(buffer') /\ IsInjective(batch')
  BY <1>1, NothingIsInjective DEF BufferInv
<1>5. BufferTypeOK'
  BY <1>1, NothingIsInjective, EventBufferAssumption DEF BufferInv, BufferTypeOK, Events
<1>6. Apart(B, F, written, gone) /\ B \cup F \cup written \cup gone = 1..recorded
  BY <1>2 DEF BufferInv
<1>7. Apart(ToSet(buffer'), ToSet(batch'), written', gone')
  BY <1>3, <1>6 DEF Apart
<1>8. ToSet(buffer') \cup ToSet(batch') \cup written' \cup gone' = 1..recorded'
  BY <1>3, <1>6
<1>9. DrainedOnClose'
  BY DEF DrainedOnClose
<1> QED
  BY <1>4, <1>5, <1>7, <1>8, <1>9 DEF BufferInv

(* A timer fires. *)
LEMMA FireHolds == ASSUME BufferInv, Fire PROVE BufferInv'
<1>1. CASE Flushing \/ buffer = <<>>
  BY <1>1 DEF Fire, BufferInv, BufferTypeOK, Events, DrainedOnClose, Flushing
<1>2. CASE ~Flushing /\ buffer # <<>>
  <2>1. batch = <<>> /\ Take(buffer) /\ timer' \in BOOLEAN /\ UNCHANGED <<app, recorded, written, gone>>
    BY <1>2 DEF Fire, Flushing
  <2>2. app # "stopped"
    BY <1>2 DEF BufferInv, DrainedOnClose
  <2> QED
    BY <2>1, <2>2, TakeHolds
<1> QED
  BY <1>1, <1>2

(* A flush ends, with what was kept written and the rest given up. *)
LEMMA EndFlushHolds ==
  ASSUME BufferInv, NEW done \in SUBSET ToSet(batch), EndFlush(done)
  PROVE  BufferInv'
<1>1. /\ written' = written \cup done /\ gone' = gone \cup (ToSet(batch) \ done)
      /\ app' = app /\ recorded' = recorded /\ batch # <<>>
      /\ \/ batch' = <<>> /\ buffer' = buffer /\ timer' \in BOOLEAN
         \/ batch' = buffer /\ buffer' = <<>> /\ timer' = timer
  BY DEF EndFlush, FollowUp, Take, Flushing, BufferInv, BufferTypeOK
<1>2. PICK B, F : B = ToSet(buffer) /\ F = ToSet(batch)
  OBVIOUS
<1>3. Apart(B, F, written, gone) /\ B \cup F \cup written \cup gone = 1..recorded
  BY <1>2 DEF BufferInv
<1>4. F \subseteq Events /\ written' \subseteq Events /\ gone' \subseteq Events
  <2>1. F \subseteq Events
    BY <1>2 DEF BufferInv, BufferTypeOK, ToSet
  <2> QED
    BY <1>1, <1>2, <2>1 DEF BufferInv, BufferTypeOK
<1>5. \/ ToSet(buffer') = B /\ ToSet(batch') = {}
      \/ ToSet(buffer') = {} /\ ToSet(batch') = B
  BY <1>1, <1>2, NothingIsInjective
<1>6. IsInjective(buffer') /\ IsInjective(batch')
  BY <1>1, NothingIsInjective DEF BufferInv
<1>7. BufferTypeOK'
  <2>1. /\ app' \in {"serving", "draining", "stopped"} /\ timer' \in BOOLEAN
        /\ recorded' \in 0..MaxEvents
    BY <1>1 DEF BufferInv, BufferTypeOK
  <2>2. /\ buffer' \in Seq(Events) /\ Len(buffer') <= MaxPending
        /\ batch' \in Seq(Events) /\ Len(batch') <= MaxPending
    <3>1. buffer \in Seq(Events) /\ Len(buffer) <= MaxPending
      BY DEF BufferInv, BufferTypeOK
    <3>2. <<>> \in Seq(Events) /\ Len(<<>>) <= MaxPending
      BY NothingIsInjective, EventBufferAssumption
    <3> QED
      BY <1>1, <3>1, <3>2
  <2> QED
    BY <1>4, <2>1, <2>2 DEF BufferTypeOK, Events
<1>8. Apart(ToSet(buffer'), ToSet(batch'), written', gone')
  BY <1>1, <1>2, <1>3, <1>5 DEF Apart
<1>9. ToSet(buffer') \cup ToSet(batch') \cup written' \cup gone' = 1..recorded'
  BY <1>1, <1>2, <1>3, <1>5
<1>10. DrainedOnClose'
  BY <1>1 DEF BufferInv, DrainedOnClose, Flushing
<1> QED
  BY <1>6, <1>7, <1>8, <1>9, <1>10 DEF BufferInv

(* The steps of a shutdown. *)
LEMMA CloseHolds ==
  ASSUME BufferInv, Close \/ DrainFlush \/ Stop
  PROVE  BufferInv'
<1>1. CASE Close
  BY <1>1 DEF Close, BufferInv, BufferTypeOK, Events, DrainedOnClose
<1>2. CASE DrainFlush
  <2>1. batch = <<>> /\ Take(buffer) /\ timer' \in BOOLEAN /\ app # "stopped"
        /\ UNCHANGED <<app, recorded, written, gone>>
    BY <1>2 DEF DrainFlush, Flushing, BufferInv, BufferTypeOK
  <2> QED
    BY <2>1, TakeHolds
<1>3. CASE Stop
  BY <1>3 DEF Stop, BufferInv, BufferTypeOK, Events, DrainedOnClose, Flushing
<1> QED
  BY <1>1, <1>2, <1>3

(* Another process: what the last one had is given up. *)
LEMMA StartHolds == ASSUME BufferInv, Start PROVE BufferInv'
<1>1. /\ app' = "serving" /\ buffer' = <<>> /\ batch' = <<>> /\ timer' = FALSE
      /\ gone' = gone \cup ToSet(buffer) \cup ToSet(batch) /\ recorded' = recorded /\ written' = written
  BY DEF Start
<1>2. /\ ToSet(buffer') = {} /\ ToSet(batch') = {} /\ IsInjective(buffer') /\ IsInjective(batch')
  BY <1>1, NothingIsInjective
<1>3. PICK B, F : B = ToSet(buffer) /\ F = ToSet(batch)
  OBVIOUS
<1>4. Apart(B, F, written, gone) /\ B \cup F \cup written \cup gone = 1..recorded
  BY <1>3 DEF BufferInv
<1>5. B \subseteq Events /\ F \subseteq Events
  BY <1>3 DEF BufferInv, BufferTypeOK, ToSet
<1>6. BufferTypeOK'
  <2>1. /\ buffer' \in Seq(Events) /\ Len(buffer') <= MaxPending
        /\ batch' \in Seq(Events) /\ Len(batch') <= MaxPending
    BY <1>1, NothingIsInjective, EventBufferAssumption
  <2>2. /\ recorded' \in 0..MaxEvents /\ written' \subseteq Events /\ gone' \subseteq Events
    BY <1>1, <1>3, <1>5 DEF BufferInv, BufferTypeOK
  <2> QED
    BY <1>1, <2>1, <2>2 DEF BufferTypeOK, Events
<1>7. Apart(ToSet(buffer'), ToSet(batch'), written', gone')
  BY <1>1, <1>2, <1>3, <1>4 DEF Apart
<1>8. ToSet(buffer') \cup ToSet(batch') \cup written' \cup gone' = 1..recorded'
  BY <1>1, <1>2, <1>3, <1>4
<1> QED
  BY <1>1, <1>2, <1>6, <1>7, <1>8 DEF BufferInv, DrainedOnClose

-----------------------------------------------------------------------------
(* The process *)

(* Every step of the process keeps both invariants. *)
LEMMA ProcessSteps ==
  QueueInv /\ BufferInv /\ [ProcessNext]_<<bufferVars, queueVars>> => QueueInv' /\ BufferInv'
<1> SUFFICES ASSUME QueueInv, BufferInv, [ProcessNext]_<<bufferVars, queueVars>>
             PROVE  QueueInv' /\ BufferInv'
  OBVIOUS
<1>1. ASSUME UNCHANGED queueVars PROVE QueueInv'
  BY <1>1 DEF QueueInv, queueVars, Concurrency, UnderWay, Waiting
<1>2. ASSUME UNCHANGED bufferVars PROVE BufferInv'
  BY <1>2 DEF BufferInv, BufferTypeOK, bufferVars, DrainedOnClose, Flushing, Events
<1>3. CASE UNCHANGED <<bufferVars, queueVars>>
  BY <1>1, <1>2, <1>3
<1>4. CASE \E i \in Rows : Offer(i) \/ Attempt(i)
  BY <1>2, <1>4, EnqueueHolds, FinishHolds DEF Offer, Attempt
<1>5. CASE Buffer
  <2>1. UNCHANGED queueVars /\ BufferNext
    BY <1>5 DEF Buffer
  <2>2. BufferInv'
    BY <2>1, RecordHolds, FireHolds, EndFlushHolds, CloseHolds DEF BufferNext
  <2> QED
    BY <1>1, <2>1, <2>2
<1>6. CASE NextProcess
  BY <1>6, RestartHolds, StartHolds DEF NextProcess
<1> QED
  BY <1>3, <1>4, <1>5, <1>6 DEF ProcessNext

(* What waits for a worker is never left beside a free one, and no mail is under    *)
(* way twice (the queues of notification mails and of source checks, of any size).   *)
THEOREM NoWorkIsLeft == ProcessSpec => []QueueHolds
<1>1. ProcessInit => QueueInv /\ BufferInv
  BY QueueInitHolds, BufferInitHolds DEF ProcessInit
<1> QED
  BY <1>1, ProcessSteps, QueueInvShows, PTL DEF ProcessSpec

(* No event of the analytics buffer is lost without trace, written twice or left in   *)
(* a buffer whose process shut down in good order.                                 *)
THEOREM NoEventIsLost == ProcessSpec => []EventsAccounted
<1>1. ProcessInit => QueueInv /\ BufferInv
  BY QueueInitHolds, BufferInitHolds DEF ProcessInit
<1>2. BufferInv => EventsAccounted
  BY BufferInvIs
<1> QED
  BY <1>1, <1>2, ProcessSteps, PTL DEF ProcessSpec
=============================================================================
