------------------------- MODULE TransactionsProofs -------------------------
(***************************************************************************)
(* Proofs about Transactions, view by view and then together.                *)
(*                                                                         *)
(* RowLocks: transactions never wait for each other in a cycle, for any       *)
(* numbers of them, of entries, accounts and organisations. Each path takes    *)
(* its locks in an order (Follows), a transaction that waits is at a stage,     *)
(* and it waits for one at a later stage or with a larger id (WaitsForLater):   *)
(* one that is furthest on waits for none of the others.                      *)
(*                                                                         *)
(* Duplicates: merges never chain, an entry merged away stays out of the       *)
(* catalogue. NoChains is not inductive: what a merge writes it decided two    *)
(* steps earlier. Over those steps the rows it read are still what it read,     *)
(* because no two merges hold an entry at once, and a loser found without       *)
(* dependents gains none, because an entry becomes a survivor only while the    *)
(* merge that makes it one holds it.                                          *)
(*                                                                         *)
(* Administration: counts and authority. What a transaction may rely on        *)
(* follows from the rows it holds: Steady says what the steps of others leave   *)
(* alone, SteadyKeeps that this keeps what is known of the request.            *)
(***************************************************************************)
EXTENDS Transactions, TLAPS, FiniteSetTheorems, SequenceTheorems, WellFoundedInduction

-----------------------------------------------------------------------------
(* RowLocks *)

Kind(l) == l.row[1]
Ids == EntryIds \cup AccountIds

LockedRows ==
  {Entry(e) : e \in EntryIds} \cup {Account(a) : a \in AccountIds} \cup {Org(o) : o \in OrgIds}
    \cup {Member(a, o) : a \in AccountIds, o \in OrgIds}
    \cup {PairRow(d, e) : d \in EntryIds, e \in EntryIds}
Locks == [row : LockedRows, mode : {"share", "update"}]

(* n may be asked for by a transaction that has l or will have it by then: the  *)
(* pair, the entries, the accounts that are changed, the organisation, the       *)
(* membership, the account that is only read. Whoever reads an account at the    *)
(* end has only read what is between, and an account changed before that is its   *)
(* own.                                                                         *)
Follows(l, n) ==
  \/ Kind(l) = "pair" /\ Kind(n) = "entry"
  \/ Kind(l) = "entry" /\ Kind(n) \in {"org", "member", "account"}
  \/ Kind(l) = "entry" /\ Kind(n) = "entry" /\ l.row[2] < n.row[2]
  \/ /\ Kind(l) = "account" /\ l.mode = "update"
     /\ \/ Kind(n) \in {"org", "member"} /\ n.mode = "share"
        \/ Kind(n) = "account" /\ n.mode = "update" /\ l.row[2] < n.row[2]
        \/ Kind(n) = "account" /\ n.mode = "share" /\ l.row = n.row
  \/ Kind(l) = "org" /\ Kind(n) = "member" /\ l.row = Org(n.row[3])
  \/ Kind(l) = "org" /\ l.mode = "share" /\ Kind(n) = "account" /\ n.mode = "share"
  \/ Kind(l) = "member" /\ l.mode = "share" /\ Kind(n) = "account" /\ n.mode = "share"

(* The locks of one path: in that order, and a membership that is not the last     *)
(* has its organisation before it.                                               *)
Orderly(s) ==
  /\ s \in Seq(Locks)
  /\ \A i \in 1..Len(s) : Kind(s[i]) \in {"pair", "entry"} => s[i].mode = "update"
  /\ \A i, j \in 1..Len(s) : i < j => Follows(s[i], s[j])
  /\ \A i \in 1..Len(s) : Kind(s[i]) = "member" /\ i < Len(s) =>
       \E h \in 1..(i - 1) : s[h].row = Org(s[i].row[3])

(* Concatenations of short sequences, lock by lock. *)
LEMMA OneAndOne ==
  ASSUME NEW a, NEW x
  PROVE  <<a>> \o <<x>> = <<a, x>>
<1> DEFINE S == {a, x}
           s == <<a>> \o <<x>>
           t == <<a, x>>
<1>1. /\ s \in Seq(S) /\ t \in Seq(S) /\ Len(s) = 2 /\ Len(t) = 2
      /\ \A i \in 1..2 : s[i] = t[i]
  OBVIOUS
<1> HIDE DEF s, t, S
<1>2. s = t
  BY <1>1, SeqEqual
<1> QED
  BY <1>2 DEF s, t

(* One and two. *)
LEMMA OneAndTwo ==
  ASSUME NEW a, NEW x, NEW y
  PROVE  <<a>> \o <<x, y>> = <<a, x, y>>
<1> DEFINE S == {a, x, y}
           s == <<a>> \o <<x, y>>
           t == <<a, x, y>>
<1>1. /\ s \in Seq(S) /\ t \in Seq(S) /\ Len(s) = 3 /\ Len(t) = 3
      /\ \A i \in 1..3 : s[i] = t[i]
  OBVIOUS
<1> HIDE DEF s, t, S
<1>2. s = t
  BY <1>1, SeqEqual
<1> QED
  BY <1>2 DEF s, t

(* One and three. *)
LEMMA OneAndThree ==
  ASSUME NEW a, NEW x, NEW y, NEW z
  PROVE  <<a>> \o <<x, y, z>> = <<a, x, y, z>>
<1> DEFINE S == {a, x, y, z}
           s == <<a>> \o <<x, y, z>>
           t == <<a, x, y, z>>
<1>1. /\ s \in Seq(S) /\ t \in Seq(S) /\ Len(s) = 4 /\ Len(t) = 4
      /\ \A i \in 1..4 : s[i] = t[i]
  OBVIOUS
<1> HIDE DEF s, t, S
<1>2. s = t
  BY <1>1, SeqEqual
<1> QED
  BY <1>2 DEF s, t

(* Two and three. *)
LEMMA TwoAndThree ==
  ASSUME NEW a, NEW b, NEW x, NEW y, NEW z
  PROVE  <<a, b>> \o <<x, y, z>> = <<a, b, x, y, z>>
<1> DEFINE S == {a, b, x, y, z}
           s == <<a, b>> \o <<x, y, z>>
           t == <<a, b, x, y, z>>
<1>1. /\ s \in Seq(S) /\ t \in Seq(S) /\ Len(s) = 5 /\ Len(t) = 5
      /\ \A i \in 1..5 : s[i] = t[i]
  OBVIOUS
<1> HIDE DEF s, t, S
<1>2. s = t
  BY <1>1, SeqEqual
<1> QED
  BY <1>2 DEF s, t

(* A lock is of the kind of its row, and has its row's ids. *)
LEMMA LockKinds ==
  ASSUME NEW a, NEW o, NEW mode
  PROVE  /\ Kind(Locking(Entry(a), mode)) = "entry" /\ Locking(Entry(a), mode).row[2] = a
         /\ Kind(Locking(Account(a), mode)) = "account" /\ Locking(Account(a), mode).row[2] = a
         /\ Kind(Locking(Org(o), mode)) = "org" /\ Locking(Org(o), mode).row = Org(o)
         /\ Kind(Locking(Member(a, o), mode)) = "member" /\ Locking(Member(a, o), mode).row[3] = o
         /\ Kind(Locking(PairRow(a, o), mode)) = "pair"
         /\ \A row : Locking(row, mode).mode = mode /\ Locking(row, mode).row = row
BY DEF Kind, Locking, Entry, Account, Org, Member, PairRow

(* Without the locks of foreign keys a reference asks for nothing. *)
LEMMA NoReferences == ASSUME ~ForeignKeys, NEW row PROVE References(row) = <<>>
BY DEF References

(* The kinds, modes and ids of locks. *)
LEMMA LockFacts ==
  ASSUME NEW l \in Locks
  PROVE  /\ Kind(l) \in {"pair", "entry", "org", "member", "account"}
         /\ l.mode \in {"share", "update"}
         /\ Kind(l) \in {"entry", "account"} => l.row[2] \in Ids
<1>1. l.row \in LockedRows /\ l.mode \in {"share", "update"}
  BY DEF Locks
<1>2. CASE l.row \in {Entry(e) : e \in EntryIds}
  BY <1>1, <1>2 DEF Entry, Kind, Ids
<1>3. CASE l.row \in {Account(a) : a \in AccountIds}
  BY <1>1, <1>3 DEF Account, Kind, Ids
<1>4. CASE l.row \in {Org(o) : o \in OrgIds}
  BY <1>1, <1>4 DEF Org, Kind, Ids
<1>5. CASE l.row \in {Member(a, o) : a \in AccountIds, o \in OrgIds}
  BY <1>1, <1>5 DEF Member, Kind, Ids
<1>6. CASE l.row \in {PairRow(d, e) : d \in EntryIds, e \in EntryIds}
  BY <1>1, <1>6 DEF PairRow, Kind, Ids
<1> QED
  BY <1>1, <1>2, <1>3, <1>4, <1>5, <1>6 DEF LockedRows

(* Every lock a path asks for is one of Locks. *)
LEMMA LockTypes ==
  ASSUME NEW mode \in {"share", "update"}
  PROVE  /\ \A e \in EntryIds : Locking(Entry(e), mode) \in Locks
         /\ \A a \in AccountIds : Locking(Account(a), mode) \in Locks
         /\ \A o \in OrgIds : Locking(Org(o), mode) \in Locks
         /\ \A a \in AccountIds, o \in OrgIds : Locking(Member(a, o), mode) \in Locks
         /\ \A d, e \in EntryIds : Locking(PairRow(d, e), mode) \in Locks
<1>1. \A row \in LockedRows : Locking(row, mode) \in Locks
  BY DEF Locking, Locks
<1>2. /\ \A e \in EntryIds : Entry(e) \in LockedRows
      /\ \A a \in AccountIds : Account(a) \in LockedRows
      /\ \A o \in OrgIds : Org(o) \in LockedRows
      /\ \A a \in AccountIds, o \in OrgIds : Member(a, o) \in LockedRows
      /\ \A d, e \in EntryIds : PairRow(d, e) \in LockedRows
  BY DEF LockedRows
<1> QED
  BY <1>1, <1>2

(* A lock that is in order by itself: pairs and entries are only ever changed. *)
Alone(l) == l \in Locks /\ (Kind(l) \in {"pair", "entry"} => l.mode = "update")

(* A sequence of one lock is in order, ... *)
LEMMA Orderly1 == ASSUME NEW a, Alone(a) PROVE Orderly(<<a>>)
BY DEF Orderly, Alone

(* ... and one of two is when each may follow those before it. *)
LEMMA Orderly2 ==
  ASSUME NEW a, NEW b, Alone(a), Alone(b), Follows(a, b),
         Kind(a) # "member"
  PROVE  Orderly(<<a, b>>)
<1> DEFINE s == <<a, b>>
<1>1. s \in Seq(Locks) /\ Len(s) = 2 /\ s[1] = a /\ s[2] = b
  BY DEF Alone
<1> HIDE DEF s
<1>2. Orderly(s)
  BY <1>1 DEF Orderly, Alone
<1> QED
  BY <1>2 DEF s

(* ... and one of three is when each may follow those before it. *)
LEMMA Orderly3 ==
  ASSUME NEW a, NEW b, NEW c, Alone(a), Alone(b), Alone(c),
         Follows(a, b), Follows(a, c), Follows(b, c),
         Kind(a) # "member", Kind(b) = "member" => a.row = Org(b.row[3])
  PROVE  Orderly(<<a, b, c>>)
<1> DEFINE s == <<a, b, c>>
<1>1. s \in Seq(Locks) /\ Len(s) = 3 /\ s[1] = a /\ s[2] = b /\ s[3] = c
  BY DEF Alone
<1> HIDE DEF s
<1>2. Orderly(s)
  BY <1>1 DEF Orderly, Alone
<1> QED
  BY <1>2 DEF s

(* ... and one of four is when each may follow those before it. *)
LEMMA Orderly4 ==
  ASSUME NEW a, NEW b, NEW c, NEW d, Alone(a), Alone(b), Alone(c), Alone(d),
         Follows(a, b), Follows(a, c), Follows(b, c),
         Follows(a, d), Follows(b, d), Follows(c, d),
         Kind(a) # "member", Kind(b) # "member", Kind(c) = "member" => b.row = Org(c.row[3])
  PROVE  Orderly(<<a, b, c, d>>)
<1> DEFINE s == <<a, b, c, d>>
<1>1. s \in Seq(Locks) /\ Len(s) = 4 /\ s[1] = a /\ s[2] = b /\ s[3] = c /\ s[4] = d
  BY DEF Alone
<1> HIDE DEF s
<1>2. Orderly(s)
  BY <1>1 DEF Orderly, Alone
<1> QED
  BY <1>2 DEF s

(* ... and one of five is when each may follow those before it. *)
LEMMA Orderly5 ==
  ASSUME NEW a, NEW b, NEW c, NEW d, NEW e, Alone(a), Alone(b), Alone(c), Alone(d), Alone(e),
         Follows(a, b), Follows(a, c), Follows(b, c), Follows(a, d), Follows(b, d), Follows(c, d),
         Follows(a, e), Follows(b, e), Follows(c, e), Follows(d, e),
         Kind(a) # "member", Kind(b) # "member", Kind(c) # "member",
         Kind(d) = "member" => c.row = Org(d.row[3])
  PROVE  Orderly(<<a, b, c, d, e>>)
<1> DEFINE s == <<a, b, c, d, e>>
<1>1. s \in Seq(Locks) /\ Len(s) = 5
      /\ s[1] = a /\ s[2] = b /\ s[3] = c /\ s[4] = d /\ s[5] = e
  BY DEF Alone
<1> HIDE DEF s
<1>2. Orderly(s)
  BY <1>1 DEF Orderly, Alone
<1> QED
  BY <1>2 DEF s

(* Locks of an entry, *)
LEMMA OnEntry ==
  ASSUME NEW e \in EntryIds
  PROVE  /\ Alone(ForUpdate(Entry(e))) /\ Kind(ForUpdate(Entry(e))) = "entry"
         /\ ForUpdate(Entry(e)).row[2] = e
BY LockKinds, LockTypes DEF Alone, ForUpdate

(* of an account, *)
LEMMA OnAccount ==
  ASSUME NEW a \in AccountIds
  PROVE  /\ Alone(ForUpdate(Account(a))) /\ Alone(ForShare(Account(a)))
         /\ Kind(ForUpdate(Account(a))) = "account" /\ Kind(ForShare(Account(a))) = "account"
         /\ ForUpdate(Account(a)).mode = "update" /\ ForShare(Account(a)).mode = "share"
         /\ ForUpdate(Account(a)).row = Account(a) /\ ForShare(Account(a)).row = Account(a)
         /\ Account(a)[2] = a
<1>1. ForUpdate(Account(a)) \in Locks /\ ForShare(Account(a)) \in Locks
  BY LockTypes DEF ForUpdate, ForShare
<1> QED
  BY <1>1 DEF Alone, ForUpdate, ForShare, Locking, Kind, Account

(* of an organisation *)
LEMMA OnOrg ==
  ASSUME NEW o \in OrgIds
  PROVE  /\ Alone(ForUpdate(Org(o))) /\ Alone(ForShare(Org(o)))
         /\ Kind(ForUpdate(Org(o))) = "org" /\ Kind(ForShare(Org(o))) = "org"
         /\ ForUpdate(Org(o)).row = Org(o) /\ ForShare(Org(o)).row = Org(o)
         /\ ForUpdate(Org(o)).mode = "update" /\ ForShare(Org(o)).mode = "share"
<1>1. ForUpdate(Org(o)) \in Locks /\ ForShare(Org(o)) \in Locks
  BY LockTypes DEF ForUpdate, ForShare
<1> QED
  BY <1>1 DEF Alone, ForUpdate, ForShare, Locking, Kind, Org

(* and of a membership. *)
LEMMA OnMember ==
  ASSUME NEW a \in AccountIds, NEW o \in OrgIds
  PROVE  /\ Alone(ForUpdate(Member(a, o))) /\ Alone(ForShare(Member(a, o)))
         /\ Kind(ForUpdate(Member(a, o))) = "member" /\ Kind(ForShare(Member(a, o))) = "member"
         /\ ForUpdate(Member(a, o)).row[3] = o /\ ForShare(Member(a, o)).row[3] = o
         /\ ForUpdate(Member(a, o)).mode = "update" /\ ForShare(Member(a, o)).mode = "share"
<1>1. ForUpdate(Member(a, o)) \in Locks /\ ForShare(Member(a, o)) \in Locks
  BY LockTypes DEF ForUpdate, ForShare
<1> QED
  BY <1>1, LockKinds DEF Alone, ForUpdate, ForShare

(* The paths of publishing and of claims keep the order. *)
LEMMA PublishingOrderly ==
  ASSUME ~ForeignKeys, NEW a \in AccountIds, NEW e \in EntryIds, NEW o \in OrgIds
  PROVE  /\ Orderly(Create(a, o)) /\ Orderly(Requeue(a, e, o)) /\ Orderly(Replace(a, e, o))
         /\ Orderly(ReleaseNamespace(a, e, o)) /\ Orderly(GrantClaim(a, e, o))
         /\ Orderly(QueueClaim(a, e, o)) /\ Orderly(DecideClaim(a, e, o))
         /\ Orderly(TakeAccount(a))
<1>1. PICK E, A, S, O, P, M, N :
        /\ E = ForUpdate(Entry(e)) /\ A = ForUpdate(Account(a)) /\ S = ForShare(Account(a))
        /\ O = ForUpdate(Org(o)) /\ P = ForShare(Org(o))
        /\ M = ForUpdate(Member(a, o)) /\ N = ForShare(Member(a, o))
  OBVIOUS
<1>2. /\ Alone(E) /\ Alone(A) /\ Alone(S) /\ Alone(O) /\ Alone(P) /\ Alone(M) /\ Alone(N)
      /\ Kind(E) = "entry" /\ Kind(A) = "account" /\ Kind(S) = "account"
      /\ Kind(O) = "org" /\ Kind(P) = "org" /\ Kind(M) = "member" /\ Kind(N) = "member"
  BY <1>1, OnEntry, OnAccount, OnOrg, OnMember, Zenon
<1>3. /\ A.mode = "update" /\ S.mode = "share" /\ P.mode = "share" /\ N.mode = "share"
      /\ A.row = S.row /\ O.row = Org(M.row[3]) /\ P.row = Org(M.row[3]) /\ P.row = Org(N.row[3])
  BY <1>1, OnAccount, OnOrg, OnMember
<1>4. /\ Follows(A, P) /\ Follows(A, N) /\ Follows(A, S) /\ Follows(P, N) /\ Follows(P, S)
      /\ Follows(N, S) /\ Follows(E, A) /\ Follows(E, P) /\ Follows(E, N) /\ Follows(E, S)
      /\ Follows(E, M) /\ Follows(E, O) /\ Follows(P, M) /\ Follows(O, M)
  BY <1>2, <1>3 DEF Follows
<1>5. Authority(a, o) = <<P, N, S>>
  BY <1>1 DEF Authority
<1>6. Orderly(Create(a, o))
  <2>1. Create(a, o) = <<A, P, N, S>>
    <3>1. Create(a, o) = <<A>> \o <<P, N, S>>
      BY <1>1, <1>5 DEF Create
    <3> QED
      BY <3>1, OneAndThree
  <2> QED
    BY <1>2, <1>3, <1>4, <2>1, Orderly4
<1>7. Orderly(Requeue(a, e, o))
  <2>1. Requeue(a, e, o) = <<E, A, P, N, S>>
    <3>1. Requeue(a, e, o) = <<E, A>> \o <<P, N, S>>
      BY <1>1, <1>5 DEF Requeue
    <3> QED
      BY <3>1, TwoAndThree
  <2> QED
    BY <1>2, <1>3, <1>4, <2>1, Orderly5
<1>8. Replace(a, e, o) = <<E, P, N, S>>
  <2>1. Replace(a, e, o) = <<E>> \o <<P, N, S>>
    BY <1>1, <1>5 DEF Replace
  <2> QED
    BY <2>1, OneAndThree
<1>9. Orderly(Replace(a, e, o))
  BY <1>2, <1>3, <1>4, <1>8, Orderly4
<1>10. Orderly(ReleaseNamespace(a, e, o))
  <2>1. ReleaseNamespace(a, e, o) = <<E, P, N, S>> \o <<>>
    BY <1>8, NoReferences DEF ReleaseNamespace
  <2>2. <<E, P, N, S>> \o <<>> = <<E, P, N, S>>
    OBVIOUS
  <2> QED
    BY <1>2, <1>3, <1>4, <2>1, <2>2, Orderly4
<1>11. Orderly(GrantClaim(a, e, o))
  <2>1. GrantClaim(a, e, o) = <<E, P, M>> \o <<>>
    BY <1>1, NoReferences DEF GrantClaim
  <2>2. <<E, P, M>> \o <<>> = <<E, P, M>>
    OBVIOUS
  <2> QED
    BY <1>2, <1>3, <1>4, <2>1, <2>2, Orderly3
<1>12. Orderly(QueueClaim(a, e, o))
  <2>1. QueueClaim(a, e, o) = <<E, A>> \o <<>>
    BY <1>1, NoReferences DEF QueueClaim
  <2>2. <<E, A>> \o <<>> = <<E, A>>
    OBVIOUS
  <2> QED
    BY <1>2, <1>3, <1>4, <2>1, <2>2, Orderly2
<1>13. Orderly(DecideClaim(a, e, o))
  <2>1. DecideClaim(a, e, o) = <<E, O, M>> \o <<>>
    BY <1>1, NoReferences DEF DecideClaim
  <2>2. <<E, O, M>> \o <<>> = <<E, O, M>>
    OBVIOUS
  <2> QED
    BY <1>2, <1>3, <1>4, <2>1, <2>2, Orderly3
<1>14. Orderly(TakeAccount(a))
  BY <1>1, <1>2, Orderly1 DEF TakeAccount
<1> QED
  BY <1>6, <1>7, <1>9, <1>10, <1>11, <1>12, <1>13, <1>14

(* Those of reviewers, organisations and their members. *)
LEMMA AdministrationOrderly ==
  ASSUME ~ForeignKeys, NEW a \in AccountIds, NEW e \in EntryIds, NEW o \in OrgIds
  PROVE  /\ Orderly(VerifyOrg(a, o)) /\ Orderly(EditOrg(a, o)) /\ Orderly(GrantMembership(a, o))
         /\ Orderly(RevokeMembership(a, o)) /\ Orderly(DecideReview(a, e))
         /\ Orderly(Assume(a, e, o)) /\ Orderly(Remind(a, o))
<1>1. PICK E, O, P, M, N :
        /\ E = ForUpdate(Entry(e)) /\ O = ForUpdate(Org(o)) /\ P = ForShare(Org(o))
        /\ M = ForUpdate(Member(a, o)) /\ N = ForShare(Member(a, o))
  OBVIOUS
<1>2. /\ Alone(E) /\ Alone(O) /\ Alone(P) /\ Alone(M) /\ Alone(N)
      /\ Kind(E) = "entry" /\ Kind(O) = "org" /\ Kind(P) = "org"
      /\ Kind(M) = "member" /\ Kind(N) = "member"
  BY <1>1, OnEntry, OnOrg, OnMember, Zenon
<1>3. O.row = Org(N.row[3]) /\ P.row = Org(N.row[3])
  BY <1>1, OnOrg, OnMember
<1>4. Follows(O, N) /\ Follows(P, N) /\ Follows(E, P) /\ Follows(E, N)
  BY <1>2, <1>3 DEF Follows
<1>5. /\ <<M>> \o <<>> = <<M>> /\ <<E>> \o <<>> = <<E>> /\ <<O>> \o <<>> = <<O>>
      /\ <<E, P, N>> \o <<>> = <<E, P, N>>
  OBVIOUS
<1>6. Orderly(<<M>>) /\ Orderly(<<E>>) /\ Orderly(<<O>>)
  BY <1>2, Orderly1
<1>7. Orderly(VerifyOrg(a, o))
  BY <1>1, <1>5, <1>6, NoReferences DEF VerifyOrg
<1>8. Orderly(EditOrg(a, o))
  BY <1>1, <1>2, <1>4, Orderly2 DEF EditOrg
<1>9. Orderly(GrantMembership(a, o))
  <2>1. References(Org(o)) = <<>> /\ References(Account(a)) = <<>>
    BY NoReferences
  <2>2. GrantMembership(a, o) = (<<M>> \o <<>>) \o <<>>
    BY <1>1, <2>1, Zenon DEF GrantMembership
  <2> QED
    BY <1>5, <1>6, <2>2
<1>10. Orderly(RevokeMembership(a, o))
  BY <1>1, <1>6 DEF RevokeMembership
<1>11. Orderly(DecideReview(a, e))
  BY <1>1, <1>5, <1>6, NoReferences DEF DecideReview
<1>12. Orderly(Assume(a, e, o))
  <2>1. Assume(a, e, o) = <<E, P, N>>
    BY <1>1, <1>5, NoReferences DEF Assume
  <2> QED
    BY <1>2, <1>3, <1>4, <2>1, Orderly3
<1>13. Orderly(Remind(a, o))
  BY <1>1, <1>5, <1>6, NoReferences DEF Remind
<1> QED
  BY <1>7, <1>8, <1>9, <1>10, <1>11, <1>12, <1>13

(* An admin who assigns a submitter: the two accounts by id, whichever is whose. *)
LEMMA AssignOrderly ==
  ASSUME NEW a \in AccountIds, NEW b \in AccountIds, NEW e \in EntryIds
  PROVE  Orderly(Assign(a, b, e))
<1> a \in Nat /\ b \in Nat
  BY RowLocksAssumption
<1>1. PICK E, A, B : E = ForUpdate(Entry(e)) /\ A = ForUpdate(Account(a)) /\ B = ForUpdate(Account(b))
  OBVIOUS
<1>2. /\ Alone(E) /\ Alone(A) /\ Alone(B)
      /\ Kind(E) = "entry" /\ Kind(A) = "account" /\ Kind(B) = "account"
      /\ A.mode = "update" /\ B.mode = "update" /\ A.row[2] = a /\ B.row[2] = b
  BY <1>1, OnEntry, OnAccount
<1>3. Follows(E, A) /\ Follows(E, B)
  BY <1>2 DEF Follows
<1>4. CASE a = b
  <2>1. Assign(a, b, e) = <<E>> \o <<A>>
    BY <1>1, <1>4 DEF Assign, InOrder
  <2>2. <<E>> \o <<A>> = <<E, A>>
    BY OneAndOne
  <2> QED
    BY <1>2, <1>3, <2>1, <2>2, Orderly2
<1>5. CASE a < b
  <2>1. Assign(a, b, e) = <<E>> \o <<A, B>>
    BY <1>1, <1>5 DEF Assign, InOrder
  <2>2. <<E>> \o <<A, B>> = <<E, A, B>>
    BY OneAndTwo
  <2>3. Follows(A, B)
    BY <1>2, <1>5 DEF Follows
  <2> QED
    BY <1>2, <1>3, <2>1, <2>2, <2>3, Orderly3
<1>6. CASE b < a
  <2>1. Assign(a, b, e) = <<E>> \o <<B, A>>
    BY <1>1, <1>6 DEF Assign, InOrder
  <2>2. <<E>> \o <<B, A>> = <<E, B, A>>
    BY OneAndTwo
  <2>3. Follows(B, A)
    BY <1>2, <1>6 DEF Follows
  <2> QED
    BY <1>2, <1>3, <2>1, <2>2, <2>3, Orderly3
<1> QED
  BY <1>4, <1>5, <1>6

(* A merge: the pair, and its entries by id. *)
LEMMA MergeOrderly ==
  ASSUME NEW d \in EntryIds, NEW e \in EntryIds
  PROVE  Merge(d, e) = <<>> \/ Orderly(Merge(d, e))
<1> SUFFICES ASSUME d < e PROVE Orderly(Merge(d, e))
  BY DEF Merge
<1>1. PICK P, D, E :
        /\ P = ForUpdate(PairRow(d, e)) /\ D = ForUpdate(Entry(d)) /\ E = ForUpdate(Entry(e))
  OBVIOUS
<1>2. Alone(P) /\ Kind(P) = "pair"
  BY <1>1, LockTypes DEF Alone, Kind, ForUpdate, Locking, PairRow
<1>3. /\ Alone(D) /\ Alone(E) /\ Kind(D) = "entry" /\ Kind(E) = "entry"
      /\ D.row[2] = d /\ E.row[2] = e
  BY <1>1, OnEntry
<1>4. Follows(P, D) /\ Follows(P, E) /\ Follows(D, E)
  BY <1>2, <1>3 DEF Follows
<1>5. Merge(d, e) = <<P, D, E>>
  BY <1>1 DEF Merge
<1> QED
  BY <1>2, <1>3, <1>4, <1>5, Orderly3

(* Every path that asks for anything keeps the order. *)
LEMMA WorkOrderly ==
  ASSUME ~ForeignKeys, NEW path \in Paths, NEW steps \in Work[path], steps # <<>>
  PROVE  Orderly(steps)
<1>1. CASE path = "publishing"
  <2>1. PICK a \in AccountIds, e \in EntryIds, o \in OrgIds :
          steps \in {Create(a, o), Requeue(a, e, o), Replace(a, e, o), ReleaseNamespace(a, e, o),
            GrantClaim(a, e, o), QueueClaim(a, e, o), DecideClaim(a, e, o), TakeAccount(a)}
    BY <1>1 DEF Work, PublishingWork
  <2> QED
    BY <2>1, PublishingOrderly
<1>2. CASE path = "administration"
  <2>1. \/ \E a \in AccountIds, e \in EntryIds, o \in OrgIds :
             steps \in {VerifyOrg(a, o), EditOrg(a, o), GrantMembership(a, o),
               RevokeMembership(a, o), DecideReview(a, e), Assume(a, e, o), Remind(a, o)}
        \/ \E a \in AdminIds, b \in AccountIds, e \in EntryIds : steps = Assign(a, b, e)
        \/ \E d, e \in EntryIds : steps = Merge(d, e)
    <3>1. steps \in StaffWork \/ steps \in AssignWork \/ steps \in MergeWork
      BY <1>2 DEF Work
    <3> QED
      BY <3>1 DEF StaffWork, AssignWork, MergeWork
  <2>2. CASE \E a \in AccountIds, e \in EntryIds, o \in OrgIds :
             steps \in {VerifyOrg(a, o), EditOrg(a, o), GrantMembership(a, o),
               RevokeMembership(a, o), DecideReview(a, e), Assume(a, e, o), Remind(a, o)}
    BY <2>2, AdministrationOrderly
  <2>3. CASE \E a \in AdminIds, b \in AccountIds, e \in EntryIds : steps = Assign(a, b, e)
    BY <2>3, AssignOrderly, RowLocksAssumption
  <2>4. CASE \E d, e \in EntryIds : steps = Merge(d, e)
    BY <2>4, MergeOrderly
  <2> QED
    BY <2>1, <2>2, <2>3, <2>4
<1> QED
  BY <1>1, <1>2, RowLocksAssumption

(* What is left of a plan when its first lock has been taken. *)
LEMMA TailFacts ==
  ASSUME NEW s \in Seq(Locks), s # <<>>
  PROVE  /\ Len(s) \in Nat \ {0} /\ s[1] \in Locks /\ Head(s) = s[1]
         /\ Tail(s) \in Seq(Locks) /\ Len(Tail(s)) = Len(s) - 1
         /\ \A i \in 1..(Len(s) - 1) : Tail(s)[i] = s[i + 1]
OBVIOUS

(* The same of a transaction under way, about what it has and what it still asks for. *)
Ordered(t) ==
  /\ \A l \in held[t], i \in 1..Len(plan[t]) : Follows(l, plan[t][i])
  /\ \A i, j \in 1..Len(plan[t]) : i < j => Follows(plan[t][i], plan[t][j])

Written(t) ==
  \A i \in 1..Len(plan[t]) : Kind(plan[t][i]) \in {"pair", "entry"} => plan[t][i].mode = "update"

Backed(t) ==
  /\ \A l \in held[t] : Kind(l) = "member" /\ plan[t] # <<>> =>
       \E h \in held[t] : h.row = Org(l.row[3])
  /\ \A i \in 1..Len(plan[t]) : Kind(plan[t][i]) = "member" /\ i < Len(plan[t]) =>
       \/ \E h \in held[t] : h.row = Org(plan[t][i].row[3])
       \/ \E j \in 1..(i - 1) : plan[t][j].row = Org(plan[t][i].row[3])

LocksTyped ==
  /\ plan \in [Txns -> Seq(Locks)]
  /\ held \in [Txns -> SUBSET Locks]

(* No two transactions have locks that conflict. *)
Apart ==
  \A t, u \in Txns : t # u =>
    \A l \in held[t], m \in held[u] : l.row = m.row => ~Conflict(l.mode, m.mode)

(* The invariant. *)
LocksHold == LocksTyped /\ Apart /\ \A t \in Txns : Ordered(t) /\ Written(t) /\ Backed(t)

(* It holds when nobody has begun, *)
LEMMA LocksHoldInit == LocksInit => LocksHold
BY DEF LocksInit, LocksHold, LocksTyped, Apart, Ordered, Written, Backed

(* when a transaction begins, *)
LEMMA BeginHolds ==
  ASSUME ~ForeignKeys, LocksHold, NEW t \in Txns, NEW path \in Paths, NEW steps \in Work[path],
         Begin(t, steps)
  PROVE  LocksHold'
<1>1. /\ held[t] = {} /\ steps # <<>> /\ plan' = [plan EXCEPT ![t] = steps] /\ held' = held
  BY DEF Begin
<1>2. Orderly(steps)
  BY <1>1, WorkOrderly
<1>3. LocksTyped'
  BY <1>1, <1>2 DEF LocksHold, LocksTyped, Orderly
<1>4. plan'[t] = steps /\ \A u \in Txns \ {t} : plan'[u] = plan[u]
  BY <1>1 DEF LocksHold, LocksTyped
<1>5. Apart'
  BY <1>1 DEF LocksHold, Apart
<1>6. Ordered(t)' /\ Written(t)' /\ Backed(t)'
  BY <1>1, <1>2, <1>4 DEF Orderly, Ordered, Written, Backed
<1>7. ASSUME NEW u \in Txns \ {t} PROVE Ordered(u)' /\ Written(u)' /\ Backed(u)'
  BY <1>1, <1>4 DEF LocksHold, Ordered, Written, Backed
<1> QED
  BY <1>3, <1>5, <1>6, <1>7 DEF LocksHold

(* when it gets the lock it asks for, since nobody has one that conflicts, *)
LEMMA AcquireHolds ==
  ASSUME LocksHold, NEW t \in Txns, Acquire(t)
  PROVE  LocksHold'
<1>1. PICK s : s = plan[t]
  OBVIOUS
<1>2. PICK l : l = s[1]
  OBVIOUS
<1>3. /\ s \in Seq(Locks) /\ s # <<>> /\ Len(s) \in Nat \ {0} /\ l \in Locks /\ Head(s) = l
      /\ Tail(s) \in Seq(Locks) /\ Len(Tail(s)) = Len(s) - 1
      /\ \A i \in 1..(Len(s) - 1) : Tail(s)[i] = s[i + 1]
  BY <1>1, <1>2, TailFacts DEF Acquire, LocksHold, LocksTyped
<1>4. /\ held' = [held EXCEPT ![t] = @ \cup {l}]
      /\ plan' = [plan EXCEPT ![t] = Tail(s)] /\ Blockers(t) = {}
  BY <1>1, <1>3 DEF Acquire
<1>5. LocksTyped'
  BY <1>3, <1>4 DEF LocksHold, LocksTyped
<1>6. /\ plan'[t] = Tail(s) /\ held'[t] = held[t] \cup {l}
      /\ \A u \in Txns \ {t} : plan'[u] = plan[u] /\ held'[u] = held[u]
  BY <1>4 DEF LocksHold, LocksTyped
<1>7. ASSUME NEW u \in Txns \ {t}, NEW m \in held[u], m.row = l.row PROVE ~Conflict(m.mode, l.mode)
  <2>1. Blockers(t) =
          {v \in Txns \ {t} : \E k \in held[v] :
             k.row = Head(plan[t]).row /\ Conflict(k.mode, Head(plan[t]).mode)}
    BY <1>1, <1>3 DEF Blockers
  <2>2. Head(plan[t]) = l
    BY <1>1, <1>3
  <2> QED
    BY <1>4, <1>7, <2>1, <2>2
<1>8. Apart'
  <2>1. ASSUME NEW u \in Txns, NEW v \in Txns, u # v, NEW m \in held'[u], NEW n \in held'[v],
               m.row = n.row
        PROVE  ~Conflict(m.mode, n.mode)
    <3>1. CASE u # t /\ v # t
      BY <1>6, <2>1, <3>1 DEF LocksHold, Apart
    <3>2. CASE u = t
      BY <1>6, <1>7, <2>1, <3>2 DEF LocksHold, Apart, Conflict
    <3>3. CASE v = t
      BY <1>6, <1>7, <2>1, <3>3 DEF LocksHold, Apart, Conflict
    <3> QED
      BY <3>1, <3>2, <3>3
  <2> QED
    BY <2>1 DEF Apart
<1>9. Ordered(t) /\ Written(t) /\ Backed(t)
  BY DEF LocksHold
<1>10. Ordered(t)'
  BY <1>1, <1>2, <1>3, <1>6, <1>9 DEF Ordered
<1>11. Written(t)'
  BY <1>1, <1>2, <1>3, <1>6, <1>9 DEF Written
<1>12. Backed(t)'
  <2>1. ASSUME NEW m \in held[t] \cup {l}, Kind(m) = "member", Tail(s) # <<>>
        PROVE  \E h \in held[t] \cup {l} : h.row = Org(m.row[3])
    <3>1. CASE m \in held[t]
      BY <1>1, <1>3, <1>9, <2>1, <3>1 DEF Backed
    <3>2. CASE m = l
      BY <1>1, <1>2, <1>3, <1>9, <2>1, <3>2 DEF Backed
    <3> QED
      BY <2>1, <3>1, <3>2
  <2>2. ASSUME NEW i \in 1..Len(Tail(s)), Kind(Tail(s)[i]) = "member", i < Len(Tail(s))
        PROVE  \/ \E h \in held[t] \cup {l} : h.row = Org(Tail(s)[i].row[3])
               \/ \E j \in 1..(i - 1) : Tail(s)[j].row = Org(Tail(s)[i].row[3])
    <3>1. /\ i + 1 \in 1..Len(s) /\ i + 1 < Len(s) /\ Tail(s)[i] = s[i + 1]
      BY <1>3, <2>2
    <3>2. \/ \E h \in held[t] : h.row = Org(s[i + 1].row[3])
          \/ \E j \in 1..((i + 1) - 1) : s[j].row = Org(s[i + 1].row[3])
      BY <1>1, <1>9, <2>2, <3>1 DEF Backed
    <3>3. ASSUME NEW j \in 1..i, s[j].row = Org(s[i + 1].row[3]), j # 1
          PROVE  j - 1 \in 1..(i - 1) /\ Tail(s)[j - 1] = s[j]
      <4>1. j - 1 \in 1..(Len(s) - 1) /\ (j - 1) + 1 = j
        BY <1>3, <3>1, <3>3
      <4> QED
        BY <1>3, <3>3, <4>1
    <3>4. CASE \E j \in 1..i : s[j].row = Org(s[i + 1].row[3])
      <4>1. PICK j \in 1..i : s[j].row = Org(s[i + 1].row[3])
        BY <3>4
      <4>2. CASE j = 1
        BY <1>2, <3>1, <4>1, <4>2
      <4>3. CASE j # 1
        BY <3>1, <3>3, <4>1, <4>3
      <4> QED
        BY <4>2, <4>3
    <3>5. (i + 1) - 1 = i
      BY <3>1
    <3> QED
      BY <3>1, <3>2, <3>4, <3>5
  <2> QED
    BY <1>6, <2>1, <2>2 DEF Backed
<1>13. ASSUME NEW u \in Txns \ {t} PROVE Ordered(u)' /\ Written(u)' /\ Backed(u)'
  BY <1>6 DEF LocksHold, Ordered, Written, Backed
<1> QED
  BY <1>5, <1>8, <1>10, <1>11, <1>12, <1>13 DEF LocksHold

(* and when it ends. *)
LEMMA EndHolds ==
  ASSUME LocksHold, NEW t \in Txns, Commit(t) \/ Abort(t)
  PROVE  LocksHold'
<1>1. /\ plan' = [plan EXCEPT ![t] = <<>>] /\ held' = [held EXCEPT ![t] = {}]
  BY DEF Commit, Abort, LocksHold, LocksTyped
<1>2. LocksTyped'
  BY <1>1 DEF LocksHold, LocksTyped
<1>3. /\ plan'[t] = <<>> /\ held'[t] = {}
      /\ \A u \in Txns \ {t} : plan'[u] = plan[u] /\ held'[u] = held[u]
  BY <1>1 DEF LocksHold, LocksTyped
<1>4. Apart'
  BY <1>3 DEF LocksHold, Apart
<1>5. Ordered(t)' /\ Written(t)' /\ Backed(t)'
  BY <1>3 DEF Ordered, Written, Backed
<1>6. ASSUME NEW u \in Txns \ {t} PROVE Ordered(u)' /\ Written(u)' /\ Backed(u)'
  BY <1>3 DEF LocksHold, Ordered, Written, Backed
<1> QED
  BY <1>2, <1>4, <1>5, <1>6 DEF LocksHold

(* The lock a transaction asks for, and the id in it. *)
Wanted(t) == plan[t][1]
Number(t) == Wanted(t).row[2]

(* It has changed the organisation of the membership it asks for. *)
UnderOrg(t) ==
  \E h \in held[t] : h.row = Org(Wanted(t).row[3]) /\ h.mode = "update"

(* How far the transaction is that waits: one waits for a later one only. Not the  *)
(* order of the locks, since a lock that is read has other holders to wait for     *)
(* than one that is changed.                                                     *)
Stage(t) ==
  LET l == Wanted(t) IN
  CASE Kind(l) = "pair" -> 0
    [] Kind(l) = "entry" -> 1
    [] Kind(l) = "org" -> IF l.mode = "update" THEN 2 ELSE 6
    [] Kind(l) = "account" -> IF l.mode = "share" THEN 4 ELSE 5
    [] OTHER -> IF l.mode = "update" /\ ~UnderOrg(t) THEN 3 ELSE 7

(* What is known of one that waits and of one it waits for. *)
LEMMA Waits ==
  ASSUME LocksHold, NEW t \in Txns, NEW u \in Blockers(t)
  PROVE  /\ u \in Txns \ {t} /\ plan[t] # <<>> /\ 1 \in 1..Len(plan[t]) /\ Wanted(t) \in Locks
         /\ \E l \in held[u] : l.row = Wanted(t).row /\ Conflict(l.mode, Wanted(t).mode)
         /\ \A l \in held[t] : Follows(l, Wanted(t))
<1>1. plan[t] # <<>> /\ plan[t] \in Seq(Locks)
  BY DEF Blockers, LocksHold, LocksTyped
<1>2. /\ Len(plan[t]) \in Nat \ {0} /\ Wanted(t) \in Locks /\ Head(plan[t]) = Wanted(t)
  BY <1>1, TailFacts DEF Wanted
<1>3. Blockers(t) =
        {v \in Txns \ {t} : \E k \in held[v] :
           k.row = Head(plan[t]).row /\ Conflict(k.mode, Head(plan[t]).mode)}
  BY <1>1 DEF Blockers
<1>4. 1 \in 1..Len(plan[t])
  BY <1>2
<1> QED
  BY <1>1, <1>2, <1>3, <1>4 DEF LocksHold, Ordered, Wanted

(* Of two that both wait, the one waited for is further on, or has a larger id. *)
LEMMA WaitsForLater ==
  ASSUME LocksHold, NEW t \in Txns, NEW u \in Blockers(t), NEW v \in Blockers(u)
  PROVE  \/ Stage(t) < Stage(u)
         \/ Stage(t) = Stage(u) /\ Stage(t) \in {1, 5} /\ Number(t) < Number(u)
<1>1. /\ u \in Txns /\ t # u /\ Wanted(t) \in Locks /\ 1 \in 1..Len(plan[t])
      /\ \A h \in held[t] : Follows(h, Wanted(t))
  BY Waits
<1>2. PICK l \in held[u] : l.row = Wanted(t).row /\ Conflict(l.mode, Wanted(t).mode)
  BY Waits
<1>3. /\ v \in Txns /\ u # v /\ Wanted(u) \in Locks /\ 1 \in 1..Len(plan[u]) /\ plan[u] # <<>>
      /\ Follows(l, Wanted(u))
  BY <1>1, Waits
<1>4. PICK k \in held[v] : k.row = Wanted(u).row /\ Conflict(k.mode, Wanted(u).mode)
  BY <1>1, Waits
<1>5. PICK m, n : m = Wanted(t) /\ n = Wanted(u)
  OBVIOUS
<1>6. /\ l \in Locks /\ m \in Locks /\ n \in Locks /\ l.row = m.row /\ Kind(l) = Kind(m)
      /\ Conflict(l.mode, m.mode) /\ Follows(l, n)
  BY <1>1, <1>2, <1>3, <1>5 DEF LocksHold, LocksTyped, Kind
<1>7. /\ Kind(m) \in {"pair", "entry"} => m.mode = "update"
      /\ Kind(n) \in {"pair", "entry"} => n.mode = "update"
  BY <1>1, <1>3, <1>5 DEF LocksHold, Written, Wanted
<1>8. /\ Kind(m) \in {"pair", "entry", "org", "member", "account"} /\ m.mode \in {"share", "update"}
      /\ Kind(n) \in {"pair", "entry", "org", "member", "account"} /\ n.mode \in {"share", "update"}
      /\ l.mode \in {"share", "update"}
  BY <1>6, LockFacts
<1>9. ~ (l.mode = "update" /\ l.row = n.row /\ Kind(l) = "account")
  BY <1>1, <1>3, <1>4, <1>5 DEF LocksHold, Apart, Conflict
<1>10. /\ Number(t) = l.row[2] /\ Number(u) = n.row[2]
  BY <1>5, <1>6 DEF Number
<1>11. Stage(t) = CASE Kind(m) = "pair" -> 0
    [] Kind(m) = "entry" -> 1
    [] Kind(m) = "org" -> IF m.mode = "update" THEN 2 ELSE 6
    [] Kind(m) = "account" -> IF m.mode = "share" THEN 4 ELSE 5
    [] OTHER -> IF m.mode = "update" /\ ~UnderOrg(t) THEN 3 ELSE 7
  BY <1>5, Zenon DEF Stage
<1>12. Stage(u) = CASE Kind(n) = "pair" -> 0
    [] Kind(n) = "entry" -> 1
    [] Kind(n) = "org" -> IF n.mode = "update" THEN 2 ELSE 6
    [] Kind(n) = "account" -> IF n.mode = "share" THEN 4 ELSE 5
    [] OTHER -> IF n.mode = "update" /\ ~UnderOrg(u) THEN 3 ELSE 7
  BY <1>5, Zenon DEF Stage
<1>13. CASE Kind(m) = "pair"
  BY <1>6, <1>8, <1>11, <1>12, <1>13 DEF Follows
<1>14. CASE Kind(m) = "entry"
  BY <1>6, <1>7, <1>8, <1>10, <1>11, <1>12, <1>14 DEF Follows
<1>15. CASE Kind(m) = "org" /\ m.mode = "update"
  BY <1>6, <1>8, <1>11, <1>12, <1>15 DEF Follows
<1>16. CASE Kind(m) = "org" /\ m.mode = "share"
  <2>1. l.mode = "update"
    BY <1>6, <1>16 DEF Conflict
  <2>2. Kind(n) = "member" /\ l.row = Org(n.row[3])
    BY <1>6, <1>16, <2>1 DEF Follows
  <2>3. UnderOrg(u)
    BY <1>5, <2>1, <2>2 DEF UnderOrg
  <2> QED
    BY <1>8, <1>11, <1>12, <1>16, <2>2, <2>3
<1>17. CASE Kind(m) = "account"
  BY <1>6, <1>8, <1>9, <1>10, <1>11, <1>12, <1>17 DEF Follows, Conflict
<1>18. CASE Kind(m) = "member"
  <2>1. l.mode = "share" /\ Kind(n) = "account" /\ n.mode = "share"
    BY <1>6, <1>18 DEF Follows
  <2>2. m.mode = "update"
    BY <1>6, <2>1 DEF Conflict
  <2>3. PICK h \in held[u] : h.row = Org(l.row[3])
    BY <1>1, <1>3, <1>6, <1>18 DEF LocksHold, Backed
  <2>4. ~UnderOrg(t)
    <3> SUFFICES ASSUME NEW g \in held[t], g.row = Org(m.row[3]), g.mode = "update" PROVE FALSE
      BY <1>5 DEF UnderOrg
    <3>1. g.row = h.row
      BY <1>6, <2>3
    <3> QED
      BY <1>1, <3>1 DEF LocksHold, Apart, Conflict
  <2> QED
    BY <1>8, <1>11, <1>12, <1>18, <2>1, <2>2, <2>4
<1> QED
  BY <1>8, <1>13, <1>14, <1>15, <1>16, <1>17, <1>18

(* Every nonempty set of numbers has a least. *)
LEMMA LeastNumber ==
  ASSUME NEW N \in SUBSET Nat, N # {}
  PROVE  \E n \in N : \A m \in N : n <= m
<1> DEFINE before == {ss \in Nat \X Nat : ss[1] < ss[2]}
<1>1. IsWellFoundedOn(before, Nat)
  BY NatLessThanWellFounded, Zenon DEF OpToRel
<1>2. \A c, d \in Nat : <<c, d>> \in before <=> c < d
  OBVIOUS
<1> HIDE DEF before
<1>3. PICK n \in N : \A m \in N : ~ (<<m, n>> \in before)
  BY <1>1, WFMin
<1>4. \A m \in N : n <= m
  <2> SUFFICES ASSUME NEW m \in N PROVE n <= m
    OBVIOUS
  <2>1. m \in Nat /\ n \in Nat /\ ~ (m < n)
    BY <1>2, <1>3
  <2> QED
    BY <2>1
<1> QED
  BY <1>4

(* The ids above one. *)
Above(n) == {i \in Ids : n < i}

(* There are fewer above a larger one, and never infinitely many. *)
LEMMA FewerAbove ==
  ASSUME NEW n \in Ids
  PROVE  /\ Cardinality(Above(n)) \in Nat
         /\ \A m \in Ids : n < m => Cardinality(Above(m)) < Cardinality(Above(n))
<1>1. Ids \subseteq Nat /\ IsFiniteSet(Ids)
  BY RowLocksAssumption, FS_Union DEF Ids
<1>2. \A m \in Ids : IsFiniteSet(Above(m)) /\ Cardinality(Above(m)) \in Nat
  <2> SUFFICES ASSUME NEW m \in Ids PROVE IsFiniteSet(Above(m)) /\ Cardinality(Above(m)) \in Nat
    OBVIOUS
  <2>1. Above(m) \subseteq Ids
    BY DEF Above
  <2>2. IsFiniteSet(Above(m))
    BY <1>1, <2>1, FS_Subset
  <2> QED
    BY <2>2, FS_CardinalityType
<1>3. ASSUME NEW m \in Ids, n < m PROVE Cardinality(Above(m)) < Cardinality(Above(n))
  <2>1. Above(m) \subseteq Above(n) /\ m \in Above(n) /\ m \notin Above(m)
    <3>1. /\ m \in Nat /\ n \in Nat
          /\ \A i \in Ids : i \in Nat
      BY <1>1
    <3>2. \A i : m < i /\ i \in Nat => n < i
      BY <1>3, <3>1
    <3>3. ~ (m < m)
      BY <3>1
    <3> QED
      BY <1>3, <3>1, <3>2, <3>3 DEF Above
  <2>2. Cardinality(Above(m)) <= Cardinality(Above(n))
        /\ (Cardinality(Above(m)) = Cardinality(Above(n)) => Above(m) = Above(n))
    BY <1>2, <2>1, FS_Subset
  <2> QED
    BY <1>2, <2>1, <2>2
<1> QED
  BY <1>2, <1>3

(* Among transactions that wait, one that is furthest on waits for none of them. *)
LEMMA LastWaits ==
  ASSUME LocksHold PROVE NoCycle
<1> SUFFICES ASSUME NEW waiting \in (SUBSET Txns) \ {{}},
                    ~ \E t \in waiting : Blockers(t) \cap waiting = {}
             PROVE  FALSE
  BY Zenon DEF NoCycle
<1>0. waiting \subseteq Txns /\ waiting # {} /\ \A t \in waiting : Blockers(t) \cap waiting # {}
  <2>1. \A t \in waiting : Blockers(t) \cap waiting # {}
    BY Zenon
  <2>2. waiting # {} /\ waiting \subseteq Txns
    OBVIOUS
  <2> QED
    BY <2>1, <2>2
<1>1. ASSUME NEW t \in waiting
      PROVE  \E u \in waiting : u \in Blockers(t) /\ \E v : v \in Blockers(u)
  <2>1. PICK u \in waiting : u \in Blockers(t)
    BY <1>0
  <2> QED
    BY <2>1
<1>2. ASSUME NEW t \in waiting
      PROVE  /\ Stage(t) \in 0..7 /\ Wanted(t) \in Locks
             /\ Stage(t) \in {1, 5} => Number(t) \in Ids
  <2>1. Wanted(t) \in Locks
    BY <1>0, <1>1, Waits
  <2>2. /\ Kind(Wanted(t)) \in {"pair", "entry", "org", "member", "account"}
        /\ Kind(Wanted(t)) \in {"entry", "account"} => Wanted(t).row[2] \in Ids
    BY <2>1, LockFacts
  <2> QED
    BY <2>1, <2>2 DEF Stage, Number
<1>3. PICK s \in waiting : \A t \in waiting : Stage(t) <= Stage(s)
  <2> DEFINE N == {7 - Stage(t) : t \in waiting}
  <2>1. N \in SUBSET Nat /\ N # {}
    BY <1>0, <1>2
  <2>2. PICK n \in N : \A m \in N : n <= m
    <3> HIDE DEF N
    <3> QED
      BY <2>1, LeastNumber
  <2>3. PICK s \in waiting : n = 7 - Stage(s)
    BY <2>2
  <2>4. ASSUME NEW t \in waiting PROVE Stage(t) <= Stage(s)
    <3>1. n <= 7 - Stage(t)
      BY <2>2
    <3> QED
      BY <1>2, <2>3, <3>1
  <2> QED
    BY <2>4
<1>4. Stage(s) \in {1, 5}
  <2>1. PICK u \in waiting : u \in Blockers(s) /\ \E v : v \in Blockers(u)
    BY <1>1
  <2>2. \/ Stage(s) < Stage(u)
        \/ Stage(s) \in {1, 5}
    BY <1>0, <2>1, WaitsForLater
  <2> QED
    BY <1>2, <1>3, <2>2
<1> DEFINE same == {t \in waiting : Stage(t) = Stage(s)}
<1>5. PICK r \in same : \A t \in same : ~ (Number(r) < Number(t))
  <2> DEFINE N == {Cardinality(Above(Number(t))) : t \in same}
  <2>1. \A t \in same : Number(t) \in Ids
    BY <1>2, <1>4
  <2>2. N \in SUBSET Nat /\ N # {}
    BY <2>1, FewerAbove
  <2>3. PICK n \in N : \A m \in N : n <= m
    <3> HIDE DEF N
    <3> QED
      BY <2>2, LeastNumber
  <2>4. PICK r \in same : n = Cardinality(Above(Number(r)))
    BY <2>3
  <2>5. ASSUME NEW t \in same, Number(r) < Number(t) PROVE FALSE
    <3>1. /\ Cardinality(Above(Number(r))) \in Nat /\ Cardinality(Above(Number(t))) \in Nat
          /\ Cardinality(Above(Number(t))) < Cardinality(Above(Number(r)))
      BY <2>1, <2>5, FewerAbove
    <3>2. n <= Cardinality(Above(Number(t)))
      BY <2>3
    <3> QED
      BY <2>4, <3>1, <3>2
  <2> QED
    BY <2>5
<1>6. PICK u \in waiting : u \in Blockers(r) /\ \E v : v \in Blockers(u)
  BY <1>1
<1>7. \/ Stage(r) < Stage(u)
      \/ Stage(r) = Stage(u) /\ Number(r) < Number(u)
  BY <1>0, <1>6, WaitsForLater
<1>8. Stage(r) = Stage(s) /\ r \in waiting
  OBVIOUS
<1>9. ~ (Stage(r) < Stage(u))
  BY <1>2, <1>3, <1>8
<1> QED
  BY <1>5, <1>7, <1>8, <1>9

(* Every step keeps the invariant. *)
LEMMA LocksStep ==
  ASSUME ~ForeignKeys
  PROVE  LocksHold /\ [LocksNext]_lockVars => LocksHold'
<1> SUFFICES ASSUME LocksHold, [LocksNext]_lockVars PROVE LocksHold'
  OBVIOUS
<1>1. CASE UNCHANGED lockVars
  BY <1>1 DEF lockVars, LocksHold, LocksTyped, Apart, Ordered, Written, Backed
<1>2. CASE LocksNext
  BY <1>2, BeginHolds, AcquireHolds, EndHolds DEF LocksNext
<1> QED
  BY <1>1, <1>2

(* "There is therefore no cycle" (membership.repository.ts and the services that keep  *)
(* its order): for any number of transactions, entries, accounts and          *)
(* organisations, as long as the database's own locks on the rows that foreign keys    *)
(* name are not counted. With them there is one, which locks_foreign_keys finds.       *)
THEOREM NeverDeadlocked == ASSUME ~ForeignKeys PROVE LocksSpec => []NoCycle
<1>1. LocksHold /\ [LocksNext]_lockVars => LocksHold'
  BY LocksStep
<1>2. LocksHold => NoCycle
  BY LastWaits
<1> QED
  BY <1>1, <1>2, LocksHoldInit, PTL DEF LocksSpec
-----------------------------------------------------------------------------
USE DuplicatesAssumption

(* No two merges hold one entry. *)
MergesApart == \A m, n \in Merges : m # n => Holds(m) \cap Holds(n) = {}

(* What a merge read is what its rows say. *)
SeenIsCurrent ==
  \A m \in Merges : stage[m] \in {"locked", "cleared"} =>
    /\ seen[m].public = public[survivor[m]]
    /\ seen[m].into = into[survivor[m]]

(* What Clear found out still holds. *)
ClearedIsClear ==
  \A m \in Merges : stage[m] = "cleared" =>
    /\ public[survivor[m]] /\ into[survivor[m]] = None
    /\ \A e \in Entries : into[e] # loser[m]

MergeInv == TypeOK /\ MergesApart /\ SeenIsCurrent /\ ClearedIsClear /\ NoChains

-----------------------------------------------------------------------------
(* Two different entries are a pair. *)
LEMMA PairType == ASSUME NEW d \in Entries, NEW e \in Entries, d # e PROVE {d, e} \in Pairs
  BY DEF Pairs

(* A pass changes only its own bookkeeping and the pairs. *)
LEMMA PassType ==
  ASSUME TypeOK, NEW p \in Passes,
         \/ \E e \in Entries, pairs \in SUBSET Pairs : Search(p, e, pairs)
         \/ \E pairs \in SUBSET Pairs : SelectStale(p, pairs) \/ Resweep(p, pairs)
         \/ Record(p) \/ Delete(p) \/ GiveUp(p)
  PROVE  TypeOK'
<1>1. CASE \E e \in Entries, pairs \in SUBSET Pairs : Search(p, e, pairs)
  <2> PICK e \in Entries, pairs \in SUBSET Pairs : Search(p, e, pairs)
    BY <1>1
  <2>1. /\ phase' \in [Passes -> {"idle", "found", "recorded", "selected"}]
        /\ subject' \in [Passes -> Entries \cup {None}]
        /\ found' \in [Passes -> SUBSET Pairs]
    BY DEF TypeOK, Search
  <2>2. \A q \in Passes : phase'[q] = "idle" => found'[q] = {} /\ doomed'[q] = {}
    BY DEF TypeOK, Search
  <2> QED
    BY <2>1, <2>2 DEF TypeOK, Search, entries, merges
<1>2. CASE \E pairs \in SUBSET Pairs : SelectStale(p, pairs) \/ Resweep(p, pairs)
  <2> PICK pairs \in SUBSET Pairs : SelectStale(p, pairs) \/ Resweep(p, pairs)
    BY <1>2
  <2>1. /\ phase' = [phase EXCEPT ![p] = "selected"]
        /\ doomed' = [doomed EXCEPT ![p] = pairs]
        /\ UNCHANGED <<entries, status, subject, found, merges>>
    BY DEF SelectStale, Resweep
  <2>2. /\ phase' \in [Passes -> {"idle", "found", "recorded", "selected"}]
        /\ doomed' \in [Passes -> SUBSET Pairs]
    BY <2>1 DEF TypeOK
  <2>3. \A q \in Passes : phase'[q] = "idle" => found'[q] = {} /\ doomed'[q] = {}
    BY <2>1 DEF TypeOK
  <2> QED
    BY <2>1, <2>2, <2>3 DEF TypeOK, entries, merges
<1>3. CASE Record(p)
  <2>1. status' \in [Pairs -> Decided \cup {"none", "suspected"}]
    BY <1>3 DEF TypeOK, Record
  <2> QED
    BY <1>3, <2>1 DEF TypeOK, Record, entries, merges
<1>4. CASE Delete(p)
  <2>1. status' \in [Pairs -> Decided \cup {"none", "suspected"}]
    BY <1>4 DEF TypeOK, Delete
  <2>2. doomed' \in [Passes -> SUBSET Pairs]
    BY <1>4 DEF TypeOK, Delete
  <2>3. \A q \in Passes : phase'[q] = "idle" => found'[q] = {} /\ doomed'[q] = {}
    BY <1>4 DEF TypeOK, Delete
  <2>4. /\ phase' \in [Passes -> {"idle", "found", "recorded", "selected"}]
        /\ found' \in [Passes -> SUBSET Pairs]
        /\ subject' \in [Passes -> Entries \cup {None}]
    BY <1>4 DEF TypeOK, Delete
  <2> QED
    BY <1>4, <2>1, <2>2, <2>3, <2>4 DEF TypeOK, Delete, entries, merges
<1>5. CASE GiveUp(p)
  BY <1>5 DEF TypeOK, GiveUp, entries, merges
<1> QED
  BY <1>1, <1>2, <1>3, <1>4, <1>5

(* The steps of reviewers keep the types, *)
LEMMA ReviewerType ==
  ASSUME TypeOK,
         \/ \E e \in Entries : Review(e)
         \/ \E pair \in Pairs :
              Decide(pair, "confirmed") \/ Decide(pair, "dismissed") \/ Reopen(pair)
  PROVE  TypeOK'
<1>1. CASE \E e \in Entries : Review(e)
  BY <1>1 DEF TypeOK, Review, passes, merges
<1>2. CASE \E pair \in Pairs :
              Decide(pair, "confirmed") \/ Decide(pair, "dismissed") \/ Reopen(pair)
  <2>1. status' \in [Pairs -> Decided \cup {"none", "suspected"}]
    BY <1>2 DEF TypeOK, Decide, Reopen, Decided
  <2> QED
    BY <1>2, <2>1 DEF TypeOK, Decide, Reopen, entries, passes, merges
<1> QED
  BY <1>1, <1>2

(* a merge that lets go of its rows does, *)
LEMMA ReleaseType ==
  ASSUME TypeOK, NEW m \in Merges, Release(m)
  PROVE  /\ stage' \in [Merges -> {"idle", "pair", "locked", "cleared"}]
         /\ survivor' \in [Merges -> Entries \cup {None}]
         /\ loser' \in [Merges -> Entries \cup {None}]
         /\ \A n \in Merges : stage'[n] # "idle" =>
              survivor'[n] \in Entries /\ loser'[n] \in Entries /\ survivor'[n] # loser'[n]
         /\ seen' \in [Merges -> [public : BOOLEAN, into : Entries \cup {None}]]
  BY DEF TypeOK, Release, NothingSeen

(* every step of a merge does, *)
LEMMA MergeType ==
  ASSUME TypeOK, NEW m \in Merges,
         \/ \E s, l \in Entries : LockPair(m, s, l)
         \/ LockEntries(m) \/ Clear(m) \/ Settle(m) \/ Refuse(m)
  PROVE  TypeOK'
<1>1. CASE \E s, l \in Entries : LockPair(m, s, l)
  BY <1>1 DEF TypeOK, LockPair, entries, passes
<1>2. CASE LockEntries(m)
  <2>1. survivor[m] \in Entries /\ loser[m] \in Entries
    BY <1>2 DEF TypeOK, LockEntries
  <2> QED
    BY <1>2, <2>1 DEF TypeOK, LockEntries, entries, passes
<1>3. CASE Clear(m)
  BY <1>3 DEF TypeOK, Clear, entries, passes
<1>4. CASE Settle(m)
  <2>1. survivor[m] \in Entries /\ loser[m] \in Entries
    BY <1>4 DEF TypeOK, Settle
  <2>2. public' \in [Entries -> BOOLEAN] /\ into' \in [Entries -> Entries \cup {None}]
    BY <1>4, <2>1 DEF TypeOK, Settle
  <2>3. status' \in [Pairs -> Decided \cup {"none", "suspected"}]
    BY <1>4 DEF TypeOK, Settle, Decided
  <2>4. Release(m)
    BY <1>4 DEF Settle
  <2> QED
    BY <1>4, <2>2, <2>3, <2>4, ReleaseType DEF TypeOK, Settle, passes
<1>5. CASE Refuse(m)
  <2>1. Release(m)
    BY <1>5 DEF Refuse
  <2> QED
    BY <1>5, <2>1, ReleaseType DEF TypeOK, Refuse, entries, passes
<1> QED
  BY <1>1, <1>2, <1>3, <1>4, <1>5

(* and so does every step. *)
LEMMA MergeTypes == TypeOK /\ [Next]_vars => TypeOK'
<1> SUFFICES ASSUME TypeOK, [Next]_vars PROVE TypeOK'
  OBVIOUS
<1>1. CASE UNCHANGED vars
  BY <1>1 DEF TypeOK, vars, entries, passes, merges
<1>2. CASE Next
  BY <1>2, PassType, ReviewerType, MergeType DEF Next
<1> QED
  BY <1>1, <1>2

(* Every reachable state is well typed: in particular a merge that is under way  *)
(* names two different entries, and an idle pass dooms nothing.                 *)
THEOREM TypeCorrectness == Spec => []TypeOK
<1>1. Init => TypeOK
  BY DEF Init, TypeOK, NothingSeen, Decided
<1> QED
  BY <1>1, MergeTypes, PTL DEF Spec
-----------------------------------------------------------------------------
(* Nothing of what MergeInv says about merges moves. *)
LEMMA SameMerges ==
  ASSUME MergeInv, UNCHANGED <<public, into, merges>>
  PROVE  MergesApart' /\ SeenIsCurrent' /\ ClearedIsClear' /\ NoChains'
  BY DEF MergeInv, MergesApart, Holds, Pair, SeenIsCurrent, ClearedIsClear, NoChains, merges

(* A review writes an entry that no merge holds. *)
LEMMA ReviewSafe ==
  ASSUME MergeInv, NEW e \in Entries, Review(e)
  PROVE  MergesApart' /\ SeenIsCurrent' /\ ClearedIsClear' /\ NoChains'
<1>1. UNCHANGED <<into, stage, survivor, loser, seen>>
  BY DEF Review, merges
<1>2. MergesApart' /\ NoChains'
  BY <1>1 DEF MergeInv, MergesApart, Holds, Pair, NoChains
<1>3. \A m \in Merges : stage[m] \in {"locked", "cleared"} =>
        survivor[m] # e /\ survivor[m] \in Entries
  BY DEF MergeInv, TypeOK, Review, MayChange, Free, Holds, Pair
<1>4. \A x \in Entries : x # e => public'[x] = public[x]
  BY DEF MergeInv, TypeOK, Review
<1>5. SeenIsCurrent' /\ ClearedIsClear'
  BY <1>1, <1>3, <1>4 DEF MergeInv, SeenIsCurrent, ClearedIsClear
<1> QED
  BY <1>2, <1>5

(* Taking the locks of both entries. *)
LEMMA LockSafe ==
  ASSUME MergeInv, NEW m \in Merges, LockEntries(m)
  PROVE  MergesApart' /\ SeenIsCurrent' /\ ClearedIsClear' /\ NoChains'
<1>1. UNCHANGED <<public, into, survivor, loser>>
  BY DEF LockEntries, entries
<1>2. stage' = [stage EXCEPT ![m] = "locked"] /\ stage[m] = "pair"
  BY DEF LockEntries
<1>3. NoChains'
  BY <1>1 DEF MergeInv, NoChains
<1>4. \A n \in Merges : n # m => stage'[n] = stage[n] /\ seen'[n] = seen[n]
  BY DEF MergeInv, TypeOK, LockEntries
<1>5. \A n \in Merges \ {m} : Holds(n)' = Holds(n) /\ Holds(n) \cap Pair(m) = {}
  BY <1>1, <1>4 DEF LockEntries, Free, Holds, Pair
<1>6. Holds(m)' = Pair(m)
  BY <1>1, <1>2 DEF MergeInv, TypeOK, Holds, Pair
<1>7. MergesApart'
  BY <1>5, <1>6 DEF MergeInv, MergesApart
<1>8. seen'[m].public = public[survivor[m]] /\ seen'[m].into = into[survivor[m]]
  BY DEF MergeInv, TypeOK, LockEntries
<1>9. SeenIsCurrent'
  BY <1>1, <1>2, <1>4, <1>8 DEF MergeInv, TypeOK, SeenIsCurrent
<1>10. ClearedIsClear'
  BY <1>1, <1>2, <1>4 DEF MergeInv, TypeOK, ClearedIsClear
<1> QED
  BY <1>3, <1>7, <1>9, <1>10

(* A merge that passes its tests has just read what it holds. *)
LEMMA ClearSafe ==
  ASSUME MergeInv, NEW m \in Merges, Clear(m)
  PROVE  MergesApart' /\ SeenIsCurrent' /\ ClearedIsClear' /\ NoChains'
<1>1. UNCHANGED <<public, into, survivor, loser, seen>>
  BY DEF Clear, entries
<1>2. stage' = [stage EXCEPT ![m] = "cleared"] /\ stage[m] = "locked"
  BY DEF Clear
<1>3. \A n \in Merges : n # m => stage'[n] = stage[n]
  BY <1>2 DEF MergeInv, TypeOK
<1>4. NoChains'
  BY <1>1 DEF MergeInv, NoChains
<1>5. \A n \in Merges : Holds(n)' = Holds(n)
  BY <1>1, <1>2, <1>3 DEF MergeInv, TypeOK, Holds, Pair
<1>6. MergesApart'
  BY <1>5 DEF MergeInv, MergesApart
<1>7. SeenIsCurrent'
  BY <1>1, <1>2, <1>3 DEF MergeInv, SeenIsCurrent
<1>8. /\ public[survivor[m]] /\ into[survivor[m]] = None
      /\ \A e \in Entries : into[e] # loser[m]
  BY <1>2 DEF MergeInv, SeenIsCurrent, Clear, HasMergeDependent
<1>9. ClearedIsClear'
  BY <1>1, <1>3, <1>8 DEF MergeInv, ClearedIsClear
<1> QED
  BY <1>4, <1>6, <1>7, <1>9

(* The write. What other merges hold is disjoint from the two rows it touches.   *)
LEMMA SettleSafe ==
  ASSUME MergeInv, NEW m \in Merges, Settle(m)
  PROVE  MergesApart' /\ SeenIsCurrent' /\ ClearedIsClear' /\ NoChains'
<1> DEFINE s == survivor[m]
           l == loser[m]
<1>1. /\ stage[m] = "cleared" /\ s \in Entries /\ l \in Entries /\ s # l
      /\ into[s] = None /\ public[s] /\ \A e \in Entries : into[e] # l
  BY DEF MergeInv, TypeOK, Settle, ClearedIsClear
<1>2. /\ \A e \in Entries : e # l => into'[e] = into[e] /\ public'[e] = public[e]
      /\ into'[l] = s
  BY <1>1 DEF MergeInv, TypeOK, Settle
<1>3. /\ stage'[m] = "idle"
      /\ \A n \in Merges \ {m} : /\ stage'[n] = stage[n] /\ seen'[n] = seen[n]
                                /\ survivor'[n] = survivor[n] /\ loser'[n] = loser[n]
  BY DEF MergeInv, TypeOK, Settle, Release
<1>4. /\ Holds(m)' = {}
      /\ \A n \in Merges \ {m} : Holds(n)' = Holds(n)
  BY <1>3 DEF Holds, Pair
<1>5. MergesApart'
  BY <1>4 DEF MergeInv, MergesApart
<1>6. \A n \in Merges \ {m} : stage[n] \in {"locked", "cleared"} =>
        survivor[n] \in Entries /\ survivor[n] \notin {s, l} /\ loser[n] \notin {s, l}
  BY <1>1 DEF MergeInv, TypeOK, MergesApart, Holds, Pair
<1>7. SeenIsCurrent'
  BY <1>2, <1>3, <1>6 DEF MergeInv, SeenIsCurrent
<1>8. ClearedIsClear'
  BY <1>1, <1>2, <1>3, <1>6 DEF MergeInv, ClearedIsClear
<1>9. NoChains'
  <2> SUFFICES ASSUME NEW e \in Entries, into'[e] # None
               PROVE  into'[into'[e]] = None
    BY DEF NoChains
  <2>1. CASE e = l
    BY <2>1, <1>1, <1>2
  <2>2. CASE e # l
    <3>1. into'[e] = into[e] /\ into[e] # l /\ into[e] \in Entries
      BY <2>2, <1>1, <1>2 DEF MergeInv, TypeOK
    <3>2. into[into[e]] = None
      BY <3>1 DEF MergeInv, NoChains
    <3> QED
      BY <3>1, <3>2, <1>2
  <2> QED
    BY <2>1, <2>2
<1> QED
  BY <1>5, <1>7, <1>8, <1>9

(* The pair's lock, and the end of a request, hold no entry. *)
LEMMA StageSafe ==
  ASSUME MergeInv, NEW m \in Merges,
         Refuse(m) \/ \E s, l \in Entries : LockPair(m, s, l)
  PROVE  MergesApart' /\ SeenIsCurrent' /\ ClearedIsClear' /\ NoChains'
<1>1. UNCHANGED <<public, into>>
  BY DEF Refuse, LockPair, entries
<1>2. /\ stage'[m] \in {"idle", "pair"}
      /\ \A n \in Merges \ {m} : /\ stage'[n] = stage[n] /\ seen'[n] = seen[n]
                                /\ survivor'[n] = survivor[n] /\ loser'[n] = loser[n]
  BY DEF MergeInv, TypeOK, Refuse, Release, LockPair
<1>3. /\ Holds(m)' = {}
      /\ \A n \in Merges \ {m} : Holds(n)' = Holds(n)
  BY <1>2 DEF Holds, Pair
<1>4. MergesApart'
  BY <1>3 DEF MergeInv, MergesApart
<1>5. SeenIsCurrent'
  BY <1>1, <1>2 DEF MergeInv, SeenIsCurrent
<1>6. ClearedIsClear'
  BY <1>1, <1>2 DEF MergeInv, ClearedIsClear
<1>7. NoChains'
  BY <1>1 DEF MergeInv, NoChains
<1> QED
  BY <1>4, <1>5, <1>6, <1>7

(* Every step keeps the invariant, *)
LEMMA MergeSteps == MergeInv /\ [Next]_vars => MergeInv'
<1> SUFFICES ASSUME MergeInv, [Next]_vars PROVE MergeInv'
  OBVIOUS
<1>1. TypeOK'
  BY MergeTypes DEF MergeInv
<1>2. CASE UNCHANGED <<public, into, merges>>
  BY <1>1, <1>2, SameMerges DEF MergeInv
<1>3. ASSUME NEW e \in Entries, Review(e) PROVE MergeInv'
  BY <1>1, <1>3, ReviewSafe DEF MergeInv
<1>4. ASSUME NEW m \in Merges,
             \/ \E s, l \in Entries : LockPair(m, s, l)
             \/ LockEntries(m) \/ Clear(m) \/ Settle(m) \/ Refuse(m)
      PROVE  MergeInv'
  BY <1>1, <1>4, LockSafe, ClearSafe, SettleSafe, StageSafe DEF MergeInv
<1>5. \/ UNCHANGED <<public, into, merges>>
      \/ \E e \in Entries : Review(e)
      \/ \E m \in Merges :
           \/ \E s, l \in Entries : LockPair(m, s, l)
           \/ LockEntries(m) \/ Clear(m) \/ Settle(m) \/ Refuse(m)
  BY DEF Next, Search, Record, SelectStale, Resweep, Delete, GiveUp, Decide, Reopen,
         vars, entries
<1> QED
  BY <1>2, <1>3, <1>4, <1>5

(* which holds in the beginning. *)
LEMMA MergeStart == Init => MergeInv
<1>1. Init => TypeOK
  BY DEF Init, TypeOK, NothingSeen, Decided
<1>2. Init => MergesApart /\ SeenIsCurrent /\ ClearedIsClear /\ NoChains
  BY DEF Init, MergesApart, Holds, SeenIsCurrent, ClearedIsClear, NoChains
<1> QED
  BY <1>1, <1>2 DEF MergeInv

(* The no-chain rule of merge(), for any number of reviewers merging overlapping *)
(* pairs at once.                                                               *)
THEOREM MergesNeverChain == Spec => []NoChains
<1>1. MergeInv => NoChains
  BY DEF MergeInv
<1> QED
  BY <1>1, MergeStart, MergeSteps, PTL DEF Spec

(* The survivor is public in the step that takes the other entry away.           *)
THEOREM SurvivorIsPublic == Spec => MergeKeepsPublic
<1>1. MergeInv /\ [Next]_vars
        => [\A e \in Entries : into'[e] # into[e] => public'[into'[e]]]_vars
  <2> SUFFICES ASSUME MergeInv, Next, NEW e \in Entries, into'[e] # into[e]
               PROVE  public'[into'[e]]
    OBVIOUS
  <2>1. PICK m \in Merges : Settle(m)
    BY DEF Next, Review, Search, Record, SelectStale, Resweep, Delete, GiveUp, Decide,
           Reopen, LockPair, LockEntries, Clear, Refuse, entries
  <2>2. /\ survivor[m] \in Entries /\ loser[m] \in Entries /\ survivor[m] # loser[m]
        /\ public[survivor[m]]
    BY <2>1 DEF MergeInv, TypeOK, Settle, ClearedIsClear
  <2>3. e = loser[m] /\ into'[e] = survivor[m]
    BY <2>1, <2>2 DEF MergeInv, TypeOK, Settle
  <2>4. public'[survivor[m]] = public[survivor[m]]
    BY <2>1, <2>2 DEF MergeInv, TypeOK, Settle
  <2> QED
    BY <2>2, <2>3, <2>4
<1> QED
  BY <1>1, MergeStart, MergeSteps, PTL DEF Spec, MergeKeepsPublic

(* An entry merged away stays out of the catalogue. *)
THEOREM MergedIsAway == Spec => []MergedStaysAway
<1>1. Init => MergedStaysAway
  BY DEF Init, MergedStaysAway
<1>2. TypeOK /\ MergedStaysAway /\ [Next]_vars => MergedStaysAway'
  <2> SUFFICES ASSUME TypeOK, MergedStaysAway, [Next]_vars PROVE MergedStaysAway'
    OBVIOUS
  <2>1. CASE UNCHANGED <<public, into>>
    BY <2>1 DEF MergedStaysAway
  <2>2. ASSUME NEW e \in Entries, Review(e) PROVE MergedStaysAway'
    BY <2>2 DEF TypeOK, Review, MayChange, MergedStaysAway
  <2>3. ASSUME NEW m \in Merges, Settle(m) PROVE MergedStaysAway'
    BY <2>3 DEF TypeOK, Settle, MergedStaysAway
  <2>4. \/ UNCHANGED <<public, into>>
        \/ \E e \in Entries : Review(e)
        \/ \E m \in Merges : Settle(m)
    BY DEF Next, Search, Record, SelectStale, Resweep, Delete, GiveUp, Decide, Reopen,
           LockPair, LockEntries, Clear, Refuse, vars, entries
  <2> QED
    BY <2>1, <2>2, <2>3, <2>4
<1> QED
  BY <1>1, <1>2, TypeCorrectness, PTL DEF Spec
-----------------------------------------------------------------------------
USE AdministrationAssumption
-----------------------------------------------------------------------------
(* No row is held twice if somebody owns it. *)
RowsApart == \A r, s \in Requests : r # s => owned[r] \cap (owned[s] \cup shared[s]) = {}

(* What a request is about. *)
Shape(r) ==
  /\ request[r].at = "idle" <=> request[r].op = "none"
  /\ request[r].at # "idle" => request[r].actor \in Accounts
  /\ request[r].op \in {"assignRole", "invite", "assume", "assign"} => request[r].about \in Accounts
  /\ request[r].op = "assignRole" => request[r].as \in Roles
  /\ request[r].op \in {"invite", "withdraw"} => request[r].as \in OrgRoles
  /\ request[r].op \in {"withdraw", "redeem"} => request[r].on \in Invites
  /\ request[r].op = "assume" => request[r].about = request[r].actor
  /\ request[r].todo \subseteq Accounts
  /\ request[r].at = "counted" => request[r].op = "mint"
  /\ request[r].at \in {"idle", "asked"} =>
       request[r].todo = {} /\ request[r].found = 0 /\ owned[r] = {}
  /\ \A i \in Invites : InviteRow(i) \in owned[r] => invite[i] # NoOne

(* A demotion in the making: the admins it found it holds, and those it has still *)
(* to lock it does not.                                                           *)
Counting(r) ==
  request[r].op = "assignRole" =>
    /\ \A a \in request[r].todo : AccountRow(a) \notin owned[r]
    /\ request[r].found > 0 => \E a \in Admins : AccountRow(a) \in owned[r]
    /\ request[r].found > 1 => \E a, b \in Admins : a # b /\ {AccountRow(a), AccountRow(b)} \subseteq owned[r]
    /\ request[r].at = "proved" => AccountRow(request[r].about) \in owned[r]

(* The account of a key is held from before the count. *)
Minting(r) ==
  /\ Doing(r, "mint", "locked") \/ Doing(r, "mint", "counted") => AccountRow(request[r].actor) \in owned[r]
  /\ Doing(r, "mint", "counted") => keys[request[r].actor] < KeyLimit

(* The invite of a sign-in is held, and is what was read. *)
Redeeming(r) ==
  request[r].op = "redeem" /\ request[r].at \in {"locked", "proved"} =>
    /\ InviteRow(request[r].on) \in owned[r]
    /\ request[r].row = invite[request[r].on] /\ request[r].row # NoOne
    /\ request[r].at = "proved" /\ ~request[r].vouched =>
         /\ MemberRow(request[r].row.by) \in shared[r]
         /\ MayInvite(member[request[r].row.by], request[r].row.as)

(* The authority to hand the entry over is held. *)
HandingOver(r) ==
  /\ request[r].op = "assign" /\ request[r].at \in {"locked", "proved"} =>
       request[r].actor \in request[r].todo \/ AccountRow(request[r].actor) \in owned[r]
  /\ Doing(r, "assign", "proved") =>
       role[request[r].actor] = "admin" /\ AccountRow(request[r].actor) \in owned[r]
  /\ Doing(r, "assume", "proved") =>
       /\ {OrgRow, MemberRow(request[r].actor)} \subseteq shared[r]
       /\ IsManager(request[r].actor)

Requested(r) == Shape(r) /\ Counting(r) /\ Minting(r) /\ Redeeming(r) /\ HandingOver(r)
RequestsHold == \A r \in Requests : Requested(r)

(* An invite that waits was never applied, and no invite is older than its number. *)
InvitesHold ==
  \A i \in Invites : /\ invite[i] # NoOne => redeemed[i] = 0
                     /\ i > issued => invite[i] = NoOne /\ redeemed[i] = 0

AdminInv == AdminTypeOK /\ RowsApart /\ RequestsHold /\ InvitesHold /\ AdminFloor /\ KeyCap /\ RedeemedOnce
-----------------------------------------------------------------------------
(* Types. *)

(* The part of AdminTypeOK about requests. *)
RequestsTyped ==
  /\ request \in [Requests -> Request]
  /\ shared \in [Requests -> SUBSET Rows]
  /\ owned \in [Requests -> SUBSET Rows]

(* What an agenda names exists. *)
LEMMA AgendaType ==
  ASSUME AdminTypeOK
  PROVE  /\ agenda.people \subseteq Accounts /\ agenda.admins \subseteq Accounts
         /\ agenda.roles \subseteq Roles /\ agenda.ranks \subseteq OrgRoles
         /\ agenda.of \subseteq Operations /\ agenda.invites \in 0..MaxInvites
  BY DEF AdminTypeOK

(* A request that ends holds nothing. *)
LEMMA DoneTyped ==
  ASSUME RequestsTyped, NEW r \in Requests, Done(r)
  PROVE  /\ RequestsTyped'
         /\ request'[r] = NoRequest /\ owned'[r] = {} /\ shared'[r] = {}
         /\ \A s \in Requests \ {r} :
              request'[s] = request[s] /\ owned'[s] = owned[s] /\ shared'[s] = shared[s]
<1>1. NoRequest \in Request
  BY DEF NoRequest, Request
<1> QED
  BY <1>1 DEF RequestsTyped, Done

(* A request that goes on moves alone. *)
LEMMA MoveTyped ==
  ASSUME RequestsTyped, NEW r \in Requests, NEW q \in Request, request' = [request EXCEPT ![r] = q]
  PROVE  /\ request' \in [Requests -> Request]
         /\ request'[r] = q
         /\ \A s \in Requests \ {r} : request'[s] = request[s]
  BY DEF RequestsTyped

(* Locks are taken on rows. *)
LEMMA LockTyped ==
  ASSUME RequestsTyped, NEW r \in Requests, NEW rows \in SUBSET Rows
  PROVE  /\ Own(r, rows) =>
              /\ owned' \in [Requests -> SUBSET Rows] /\ shared' = shared
              /\ owned'[r] = owned[r] \cup rows /\ \A s \in Requests \ {r} : owned'[s] = owned[s]
         /\ Share(r, rows) =>
              /\ shared' \in [Requests -> SUBSET Rows] /\ owned' = owned
              /\ shared'[r] = shared[r] \cup rows /\ \A s \in Requests \ {r} : shared'[s] = shared[s]
  BY DEF RequestsTyped, Own, Share

(* The steps of a request before its last: they move the request and its locks. *)
Advance(r) ==
  \/ QueryAdmins(r) \/ LockAdmin(r) \/ LockAccount(r) \/ LockForKey(r) \/ CountKeys(r)
  \/ ProveManager(r) \/ (LockInvite(r) /\ request[r].on \in Pending) \/ ProveInviter(r)
  \/ LockEntry(r) \/ ProveAssume(r) \/ LockParty(r) \/ ProveAdmin(r)

(* The rows they lock exist, and so does what they note. *)
LEMMA AdvanceTyped ==
  ASSUME AdminTypeOK, NEW r \in Requests, Shape(r), Redeeming(r), Advance(r)
  PROVE  RequestsTyped'
<1> USE DEF AdminTypeOK
<1>1. request[r] \in Request /\ request[r].actor \in Accounts
  BY DEF Shape, Advance, QueryAdmins, LockAdmin, LockAccount, LockForKey, CountKeys, ProveManager,
     LockInvite, ProveInviter, LockEntry, ProveAssume, LockParty, ProveAdmin, Doing
<1>2. CASE QueryAdmins(r)
  <2>1. Admins \subseteq Accounts
    BY DEF Admins
  <2> QED
    BY <1>1, <1>2, <2>1 DEF QueryAdmins, RequestsTyped, Request, locks
<1>3. CASE LockAdmin(r)
  <2>1. PICK a \in request[r].todo :
          /\ Own(r, {AccountRow(a)})
          /\ request' = [request EXCEPT ![r].todo = @ \ {a},
                                        ![r].found = IF a \in Admins THEN @ + 1 ELSE @]
    BY <1>3 DEF LockAdmin, First
  <2>2. AccountRow(a) \in Rows
    BY <2>1 DEF Shape, AccountRow, Rows
  <2>3. request' \in [Requests -> Request]
    <3>1. PICK f \in Nat : request' = [request EXCEPT ![r].todo = @ \ {a}, ![r].found = f]
      <4> DEFINE f == IF a \in Admins THEN request[r].found + 1 ELSE request[r].found
      <4>1. f \in Nat
        BY <1>1 DEF Request
      <4>2. request' = [request EXCEPT ![r].todo = @ \ {a}, ![r].found = f]
        BY <1>1, <2>1 DEF Request
      <4> HIDE DEF f
      <4> QED
        BY <4>1, <4>2
    <3> QED
      BY <1>1, <3>1 DEF Request
  <2> QED
    BY <2>1, <2>2, <2>3, LockTyped DEF RequestsTyped
<1>4. CASE LockAccount(r) \/ LockForKey(r)
  <2>1. PICK a \in Accounts, step \in {"locked", "proved"} : Own(r, {AccountRow(a)}) /\ GoOn(r, step)
    BY <1>1, <1>4 DEF LockAccount, LockForKey, Shape, Doing
  <2>2. AccountRow(a) \in Rows
    BY <2>1 DEF AccountRow, Rows
  <2>3. request' \in [Requests -> Request]
    BY <1>1, <2>1 DEF GoOn, Request
  <2> QED
    BY <2>1, <2>2, <2>3, LockTyped DEF RequestsTyped
<1>5. CASE CountKeys(r) \/ ProveAdmin(r)
  <2>1. PICK step \in {"proved", "counted"} : GoOn(r, step)
    BY <1>5 DEF CountKeys, ProveAdmin
  <2>2. request' \in [Requests -> Request]
    BY <1>1, <2>1 DEF GoOn, Request
  <2> QED
    BY <1>5, <2>2 DEF CountKeys, ProveAdmin, RequestsTyped, locks
<1>6. CASE ProveManager(r)
  <2>1. MemberRow(request[r].actor) \in Rows
    BY <1>1 DEF MemberRow, Rows
  <2>2. request' \in [Requests -> Request]
    BY <1>1, <1>6 DEF ProveManager, GoOn, Request
  <2>3. UNCHANGED locks \/ Share(r, {MemberRow(request[r].actor)})
    BY <1>6 DEF ProveManager
  <2> QED
    BY <2>1, <2>2, <2>3, LockTyped DEF RequestsTyped, locks
<1>7. CASE LockInvite(r) /\ request[r].on \in Pending
  <2>1. request[r].on \in Invites /\ invite[request[r].on] \in Invite
    BY <1>7 DEF Pending
  <2>2. InviteRow(request[r].on) \in Rows
    BY <2>1 DEF InviteRow, Rows
  <2>3. request' \in [Requests -> Request]
    <3>1. PICK row \in Invite : request' = [request EXCEPT ![r].at = "locked", ![r].row = row]
      BY <1>7, <2>1 DEF LockInvite, TakeUp
    <3> QED
      BY <1>1, <3>1 DEF Request
  <2>4. Own(r, {InviteRow(request[r].on)})
    BY <1>7 DEF LockInvite
  <2> QED
    BY <2>2, <2>3, <2>4, LockTyped DEF RequestsTyped
<1>8. CASE ProveInviter(r)
  <2>1. MemberRow(request[r].row.by) \in Rows
    <3>1. request[r].row \in Invite
      BY <1>1, <1>8 DEF ProveInviter, Redeeming, Doing, Request
    <3> QED
      BY <3>1 DEF MemberRow, Rows, Invite
  <2>2. IsStaff(request[r].row.by) \in BOOLEAN
    BY DEF IsStaff
  <2>3. request' \in [Requests -> Request]
    BY <1>1, <1>8, <2>2 DEF ProveInviter, Request
  <2>4. UNCHANGED locks \/ Share(r, {MemberRow(request[r].row.by)})
    BY <1>8 DEF ProveInviter
  <2> QED
    BY <2>1, <2>3, <2>4, LockTyped DEF RequestsTyped, locks
<1>9. CASE LockEntry(r)
  <2>1. EntryRow \in Rows
    BY DEF EntryRow, Rows
  <2>2. request[r].op = "assign" => {request[r].actor, request[r].about} \subseteq Accounts
    BY <1>1 DEF Shape
  <2>3. request' \in [Requests -> Request]
    BY <1>1, <1>9, <2>2 DEF LockEntry, Request
  <2>4. Own(r, {EntryRow})
    BY <1>9 DEF LockEntry
  <2> QED
    BY <2>1, <2>3, <2>4, LockTyped DEF RequestsTyped
<1>10. CASE ProveAssume(r)
  <2>1. {OrgRow, MemberRow(request[r].actor)} \subseteq Rows
    BY <1>1 DEF OrgRow, MemberRow, Rows
  <2>2. request' \in [Requests -> Request]
    BY <1>1, <1>10 DEF ProveAssume, GoOn, Request
  <2>3. Share(r, {OrgRow, MemberRow(request[r].actor)})
    BY <1>10 DEF ProveAssume
  <2> QED
    BY <2>1, <2>2, <2>3, LockTyped DEF RequestsTyped
<1>11. CASE LockParty(r)
  <2>1. PICK a \in request[r].todo :
          Own(r, {AccountRow(a)}) /\ request' = [request EXCEPT ![r].todo = @ \ {a}]
    BY <1>11 DEF LockParty, First
  <2>2. AccountRow(a) \in Rows
    BY <2>1 DEF Shape, AccountRow, Rows
  <2>3. request' \in [Requests -> Request]
    BY <1>1, <2>1 DEF Request
  <2> QED
    BY <2>1, <2>2, <2>3, LockTyped DEF RequestsTyped
<1> QED
  BY <1>2, <1>3, <1>4, <1>5, <1>6, <1>7, <1>8, <1>9, <1>10, <1>11 DEF Advance

(* What a request may be about. *)
About(op, a, b, as, on) ==
  /\ op \in Operations /\ a \in Accounts /\ b \in Accounts \cup {NoOne}
  /\ as \in Roles \cup OrgRoles \cup {NoOne} /\ on \in Invites \cup {NoOne}
  /\ op \in {"assignRole", "invite", "assume", "assign"} => b \in Accounts
  /\ op = "assignRole" => as \in Roles
  /\ op \in {"invite", "withdraw"} => as \in OrgRoles
  /\ op \in {"withdraw", "redeem"} => on \in Invites
  /\ op = "assume" => b = a

Asked(op, a, b, as, on) ==
  [NoRequest EXCEPT !.at = "asked", !.op = op, !.actor = a, !.staff = IsStaff(a),
                    !.about = b, !.as = as, !.on = on]

(* What a request asks for exists. *)
LEMMA ArriveAbout ==
  ASSUME AdminTypeOK, NEW r \in Requests, Arrive(r)
  PROVE  \E op, a, b, as, on : About(op, a, b, as, on) /\ Ask(r, op, a, b, as, on)
<1> USE AgendaType
<1>1. ASSUME NEW a \in agenda.people, NEW b \in agenda.people, NEW as \in agenda.roles, AskRole(r, a, b, as)
      PROVE  About("assignRole", a, b, as, NoOne) /\ Ask(r, "assignRole", a, b, as, NoOne)
  BY <1>1 DEF AskRole, About, Operations
<1>2. ASSUME NEW a \in agenda.people, NEW b \in agenda.people, NEW as \in agenda.ranks, AskInvite(r, a, b, as)
      PROVE  About("invite", a, b, as, NoOne) /\ Ask(r, "invite", a, b, as, NoOne)
  BY <1>2 DEF AskInvite, About, Operations
<1>3. ASSUME NEW a \in agenda.people, NEW b \in agenda.people, AskAssign(r, a, b)
      PROVE  About("assign", a, b, NoOne, NoOne) /\ Ask(r, "assign", a, b, NoOne, NoOne)
  BY <1>3 DEF AskAssign, About, Operations
<1>4. ASSUME NEW a \in agenda.people, AskKey(r, a)
      PROVE  About("mint", a, NoOne, NoOne, NoOne) /\ Ask(r, "mint", a, NoOne, NoOne, NoOne)
  BY <1>4 DEF AskKey, About, Operations
<1>5. ASSUME NEW a \in agenda.people, SignIn(r, a)
      PROVE  \E i : About("redeem", a, NoOne, NoOne, i) /\ Ask(r, "redeem", a, NoOne, NoOne, i)
  <2>1. PICK i \in Invites : Ask(r, "redeem", a, NoOne, NoOne, i)
    BY <1>5 DEF SignIn, Pending
  <2>2. About("redeem", a, NoOne, NoOne, i)
    BY DEF About, Operations
  <2> QED
    BY <2>1, <2>2
<1>6. ASSUME NEW a \in agenda.people, AskAssume(r, a)
      PROVE  About("assume", a, a, NoOne, NoOne) /\ Ask(r, "assume", a, a, NoOne, NoOne)
  BY <1>6 DEF AskAssume, About, Operations
<1>7. ASSUME NEW a \in agenda.people, NEW i \in Invites, AskWithdrawal(r, a, i)
      PROVE  About("withdraw", a, NoOne, invite[i].as, i) /\ Ask(r, "withdraw", a, NoOne, invite[i].as, i)
  <2>1. invite[i].as \in OrgRoles
    BY <1>7 DEF AskWithdrawal, Pending, AdminTypeOK, Invite
  <2> QED
    BY <1>7, <2>1 DEF AskWithdrawal, About, Operations
<1> QED
  BY <1>1, <1>2, <1>3, <1>4, <1>5, <1>6, <1>7 DEF Arrive

(* A request that begins is idle before, is about something well typed after, and  *)
(* touches nothing but itself.                                                   *)
LEMMA ArriveTyped ==
  ASSUME AdminTypeOK, NEW r \in Requests, Arrive(r)
  PROVE  /\ UNCHANGED <<stored, locks>>
         /\ RequestsTyped'
         /\ request[r].at = "idle"
         /\ \A s \in Requests \ {r} : request'[s] = request[s]
         /\ \E op, a, b, as, on : About(op, a, b, as, on) /\ request'[r] = Asked(op, a, b, as, on)
<1>1. PICK op, a, b, as, on : About(op, a, b, as, on) /\ Ask(r, op, a, b, as, on)
  BY ArriveAbout
<1> DEFINE q == Asked(op, a, b, as, on)
<1>2. q \in Request
  <2>1. IsStaff(a) \in BOOLEAN
    BY DEF IsStaff
  <2> QED
    BY <1>1, <2>1 DEF About, Asked, NoRequest, Request
<1>3. /\ UNCHANGED <<stored, locks>> /\ request[r].at = "idle"
      /\ request' = [request EXCEPT ![r] = q]
  BY <1>1 DEF Ask, Asked
<1> HIDE DEF q
<1>4. /\ request'[r] = q /\ \A s \in Requests \ {r} : request'[s] = request[s]
      /\ RequestsTyped'
  BY <1>2, <1>3 DEF AdminTypeOK, RequestsTyped, locks
<1>5. \E x, a1, b1, as1, on1 : About(x, a1, b1, as1, on1) /\ request'[r] = Asked(x, a1, b1, as1, on1)
  BY <1>1, <1>4 DEF q
<1> QED
  BY <1>3, <1>4, <1>5

(* What the last step of a request stores. *)
LEMMA LastTyped ==
  ASSUME AdminTypeOK, NEW r \in Requests, Shape(r), Redeeming(r), agenda' = agenda,
         \/ AssignRole(r) \/ MintKey(r) \/ CreateInvite(r) \/ Withdraw(r)
         \/ DropInvite(r) \/ Redeem(r) \/ HandOver(r)
  PROVE  AdminTypeOK'
<1>1. RequestsTyped'
  BY DoneTyped DEF AdminTypeOK, RequestsTyped, AssignRole, MintKey, CreateInvite, Withdraw,
     DropInvite, Redeem, HandOver
<1>2. CASE AssignRole(r)
  BY <1>1, <1>2 DEF AssignRole, Doing, Shape, AdminTypeOK, RequestsTyped
<1>3. CASE MintKey(r)
  <2>1. keys' \in [Accounts -> Nat]
    <3>1. keys \in [Accounts -> Nat] /\ request[r].actor \in Accounts
      BY <1>3 DEF AdminTypeOK, MintKey, Doing, Shape
    <3>2. keys' = [keys EXCEPT ![request[r].actor] = @ + 1]
      BY <1>3 DEF MintKey
    <3> DEFINE a == request[r].actor
    <3>3. a \in Accounts /\ keys[a] \in Nat /\ keys' = [keys EXCEPT ![a] = keys[a] + 1]
      BY <3>1, <3>2
    <3> HIDE DEF a
    <3> QED
      BY <3>1, <3>3
  <2> QED
    BY <1>1, <1>3, <2>1 DEF MintKey, AdminTypeOK, RequestsTyped
<1>4. CASE CreateInvite(r)
  <2>1. /\ issued + 1 \in Invites /\ issued + 1 \in 0..agenda.invites
        /\ issued' = issued + 1
    <3>1. issued \in 0..agenda.invites /\ agenda.invites \in 0..MaxInvites /\ issued < agenda.invites
      BY <1>4, AgendaType DEF CreateInvite, AdminTypeOK
    <3> QED
      BY <1>4, <3>1 DEF CreateInvite, Invites
  <2>2. [to |-> request[r].about, by |-> request[r].actor, as |-> request[r].as] \in Invite
    BY <1>4 DEF CreateInvite, Doing, Shape, Invite
  <2>3. invite' \in [Invites -> Invite \cup {NoOne}]
    BY <1>4, <2>1, <2>2 DEF CreateInvite, AdminTypeOK
  <2> QED
    BY <1>1, <1>4, <2>1, <2>3 DEF CreateInvite, AdminTypeOK, RequestsTyped
<1>5. CASE Withdraw(r) \/ DropInvite(r)
  <2>1. invite' \in [Invites -> Invite \cup {NoOne}]
    BY <1>5 DEF Withdraw, DropInvite, AdminTypeOK
  <2> QED
    BY <1>1, <1>5, <2>1 DEF Withdraw, DropInvite, AdminTypeOK, RequestsTyped
<1>6. CASE Redeem(r)
  <2>1. request[r].on \in Invites /\ request[r].row \in Invite
    BY <1>6 DEF Redeem, Doing, Shape, Redeeming, AdminTypeOK, Request
  <2>2. member' \in [Accounts -> OrgRoles \cup {"none"}]
    BY <1>6, <2>1 DEF Redeem, AdminTypeOK, Invite
  <2>3. invite' \in [Invites -> Invite \cup {NoOne}] /\ redeemed' \in [Invites -> Nat]
    BY <1>6, <2>1 DEF Redeem, AdminTypeOK
  <2> QED
    BY <1>1, <1>6, <2>2, <2>3 DEF Redeem, AdminTypeOK, RequestsTyped
<1>7. CASE HandOver(r)
  BY <1>1, <1>7 DEF HandOver, Shape, AdminTypeOK, RequestsTyped
<1> QED
  BY <1>2, <1>3, <1>4, <1>5, <1>6, <1>7

(* Every step keeps the types. *)
LEMMA AdminTypes ==
  ASSUME AdminTypeOK, RequestsHold, [AdminNext]_adminVars
  PROVE  AdminTypeOK'
<1>1. ASSUME UNCHANGED <<agenda, stored>>, RequestsTyped' PROVE AdminTypeOK'
  BY <1>1 DEF AdminTypeOK, RequestsTyped, stored
<1>2. CASE UNCHANGED adminVars
  BY <1>2 DEF AdminTypeOK, adminVars, stored, locks
<1>3. ASSUME NEW r \in Requests, Arrive(r) \/ Proceed(r) \/ Rollback(r), agenda' = agenda
      PROVE  AdminTypeOK'
  <2>1. Shape(r) /\ Redeeming(r)
    BY DEF RequestsHold, Requested
  <2>2. CASE Arrive(r)
    BY <1>1, <1>3, <2>2, ArriveTyped
  <2>3. CASE Rollback(r)
    BY <1>1, <1>3, <2>3, DoneTyped DEF Rollback, AdminTypeOK, RequestsTyped
  <2>4. CASE Advance(r)
    <3>1. UNCHANGED stored
      BY <2>4 DEF Advance, QueryAdmins, LockAdmin, LockAccount, LockForKey, CountKeys, ProveManager,
         LockInvite, ProveInviter, LockEntry, ProveAssume, LockParty, ProveAdmin
    <3> QED
      BY <1>1, <1>3, <2>1, <2>4, <3>1, AdvanceTyped
  <2>5. CASE LockInvite(r) /\ request[r].on \notin Pending
    BY <1>1, <1>3, <2>5, DoneTyped DEF LockInvite, AdminTypeOK, RequestsTyped
  <2> QED
    BY <1>3, <2>1, <2>2, <2>3, <2>4, <2>5, LastTyped DEF Proceed, Advance
<1>4. ASSUME NEW a \in Accounts, RevokeKey(a), agenda' = agenda PROVE AdminTypeOK'
  <2>1. keys \in [Accounts -> Nat] /\ keys[a] \in Nat /\ keys[a] > 0 /\ keys' = [keys EXCEPT ![a] = keys[a] - 1]
    BY <1>4 DEF AdminTypeOK, RevokeKey
  <2>2. keys' \in [Accounts -> Nat]
    BY <2>1
  <2> QED
    BY <1>4, <2>2 DEF RevokeKey, AdminTypeOK, locks
<1>5. ASSUME NEW a \in Accounts, NEW as \in OrgRoles \cup {"none"}, SetMember(a, as), agenda' = agenda
      PROVE  AdminTypeOK'
  <2>1. member' \in [Accounts -> OrgRoles \cup {"none"}]
    BY <1>5 DEF AdminTypeOK, SetMember
  <2> QED
    BY <1>5, <2>1 DEF SetMember, AdminTypeOK, locks
<1>6. CASE SetVerified /\ agenda' = agenda
  BY <1>6 DEF SetVerified, AdminTypeOK, locks
<1> QED
  BY <1>2, <1>3, <1>4, <1>5, <1>6, AgendaType DEF AdminNext
-----------------------------------------------------------------------------
(* The step is not one of the request s. *)
Still(s) == request'[s] = request[s] /\ shared'[s] = shared[s] /\ owned'[s] = owned[s]

(* What a step of somebody else may do to a request s: nothing it holds moves, *)
(* except that keys may be revoked.                                           *)
Steady(s) ==
  /\ Still(s)
  /\ \A a \in Accounts :
       /\ AccountRow(a) \in owned[s] => role'[a] = role[a] /\ keys'[a] <= keys[a]
       /\ MemberRow(a) \in shared[s] => member'[a] = member[a]
  /\ \A i \in Invites : InviteRow(i) \in owned[s] => invite'[i] = invite[i]
  /\ OrgRow \in shared[s] => verified' = verified

(* A request whose rows hold still keeps what is known of it. *)
LEMMA SteadyKeeps ==
  ASSUME AdminInv, AdminTypeOK', NEW s \in Requests, Steady(s)
  PROVE  Requested(s)'
<1> DEFINE q == request[s]
<1>1. Requested(s) /\ request'[s] = q /\ q \in Request /\ shared'[s] = shared[s] /\ owned'[s] = owned[s]
  BY DEF AdminInv, RequestsHold, AdminTypeOK, Steady, Still
<1>2. Shape(s)'
  <2>1. \A i \in Invites : InviteRow(i) \in owned[s] => invite'[i] # NoOne
    BY <1>1 DEF Requested, Shape, Steady
  <2> QED
    BY <1>1, <2>1 DEF Requested, Shape
<1>3. Counting(s)'
  <2> SUFFICES ASSUME q.op = "assignRole" PROVE Counting(s)'
    BY <1>1 DEF Counting
  <2>1. \A a \in Admins : AccountRow(a) \in owned[s] => a \in Admins'
    BY DEF Admins, Steady
  <2>2. /\ \A a \in q.todo : AccountRow(a) \notin owned[s]
        /\ q.found > 0 => \E a \in Admins : AccountRow(a) \in owned[s]
        /\ q.found > 1 => \E a, b \in Admins : a # b /\ {AccountRow(a), AccountRow(b)} \subseteq owned[s]
        /\ q.at = "proved" => AccountRow(q.about) \in owned[s]
    BY <1>1 DEF Requested, Counting
  <2>3. q.found > 0 => \E a \in Admins' : AccountRow(a) \in owned[s]
    BY <2>1, <2>2
  <2>4. q.found > 1 => \E a, b \in Admins' : a # b /\ {AccountRow(a), AccountRow(b)} \subseteq owned[s]
    BY <2>1, <2>2
  <2> QED
    BY <1>1, <2>2, <2>3, <2>4 DEF Counting
<1>4. Minting(s)'
  <2>1. Doing(s, "mint", "counted") => q.actor \in Accounts /\ keys[q.actor] < KeyLimit /\ AccountRow(q.actor) \in owned[s]
    BY <1>1 DEF Requested, Shape, Minting, Doing
  <2>2. Doing(s, "mint", "counted") => keys'[q.actor] <= keys[q.actor]
    BY <2>1 DEF Steady
  <2>3. Doing(s, "mint", "counted") => keys'[q.actor] < KeyLimit
    <3>1. \A a \in Accounts : keys[a] \in Nat /\ keys'[a] \in Nat
      BY DEF AdminInv, AdminTypeOK
    <3> QED
      BY <2>1, <2>2, <3>1
  <2> QED
    BY <1>1, <2>1, <2>3 DEF Requested, Minting, Doing
<1>5. Redeeming(s)'
  <2> SUFFICES ASSUME q.op = "redeem", q.at \in {"locked", "proved"} PROVE Redeeming(s)'
    BY <1>1 DEF Redeeming
  <2>1. /\ q.on \in Invites /\ InviteRow(q.on) \in owned[s] /\ q.row = invite[q.on] /\ q.row # NoOne
        /\ q.at = "proved" /\ ~q.vouched => MemberRow(q.row.by) \in shared[s] /\ MayInvite(member[q.row.by], q.row.as)
    BY <1>1 DEF Requested, Shape, Redeeming
  <2>2. invite'[q.on] = invite[q.on]
    BY <2>1 DEF Steady
  <2>3. q.row.by \in Accounts
    BY <1>1, <2>1 DEF Request, Invite
  <2>4. MemberRow(q.row.by) \in shared[s] => member'[q.row.by] = member[q.row.by]
    BY <2>3 DEF Steady
  <2> QED
    BY <1>1, <2>1, <2>2, <2>4 DEF Redeeming
<1>6. HandingOver(s)'
  <2>1. q.op # "none" => q.actor \in Accounts
    BY <1>1 DEF Requested, Shape
  <2>2. /\ q.op = "assign" /\ q.at \in {"locked", "proved"} => q.actor \in q.todo \/ AccountRow(q.actor) \in owned[s]
        /\ q.op = "assign" /\ q.at = "proved" => role[q.actor] = "admin" /\ AccountRow(q.actor) \in owned[s]
        /\ q.op = "assume" /\ q.at = "proved" =>
             {OrgRow, MemberRow(q.actor)} \subseteq shared[s] /\ IsManager(q.actor)
    BY <1>1 DEF Requested, HandingOver, Doing
  <2>3. q.op = "assign" /\ q.at = "proved" => role'[q.actor] = "admin"
    BY <2>1, <2>2 DEF Steady
  <2>4. q.op = "assume" /\ q.at = "proved" => IsManager(q.actor)'
    BY <2>1, <2>2 DEF Steady, Still, IsManager
  <2> QED
    BY <1>1, <2>2, <2>3, <2>4 DEF HandingOver, Doing
<1> QED
  BY <1>2, <1>3, <1>4, <1>5, <1>6 DEF Requested

(* The request r alone moves. *)
OnlyMoves(r) == \A s \in Requests \ {r} : Still(s)

(* What counts, in order. *)
StoredHolds == InvitesHold /\ AdminFloor /\ KeyCap /\ RedeemedOnce

(* A step that stores nothing. *)
LEMMA NothingStored ==
  ASSUME AdminTypeOK, UNCHANGED <<agenda, stored>>, NEW r \in Requests, OnlyMoves(r)
  PROVE  /\ StoredHolds => StoredHolds'
         /\ \A s \in Requests \ {r} : Steady(s)
<1>1. UNCHANGED <<agenda, role, member, verified, keys, invite, issued, redeemed>> /\ Admins' = Admins
  BY DEF stored, Admins
<1>2. StoredHolds => StoredHolds'
  BY <1>1 DEF StoredHolds, InvitesHold, AdminFloor, KeyCap, RedeemedOnce
<1>3. \A a \in Accounts : keys'[a] <= keys[a]
  <2>1. \A a \in Accounts : keys[a] \in Nat /\ keys'[a] = keys[a]
    BY <1>1 DEF AdminTypeOK
  <2> QED
    BY <2>1
<1>4. ASSUME NEW s \in Requests \ {r} PROVE Steady(s)
  BY <1>1, <1>3 DEF OnlyMoves, Steady
<1> QED
  BY <1>2, <1>4

(* What is known of the requests is kept by a step of one of them that is steady. *)
LEMMA OthersKept ==
  ASSUME AdminInv, AdminTypeOK', NEW r \in Requests, \A s \in Requests \ {r} : Steady(s), Requested(r)'
  PROVE  RequestsHold'
  BY SteadyKeeps DEF RequestsHold

(* A request that has ended holds nothing and knows nothing. *)
LEMMA DoneIdle ==
  ASSUME AdminTypeOK, RowsApart, NEW r \in Requests, Done(r)
  PROVE  Requested(r)' /\ OnlyMoves(r) /\ RowsApart'
<1>1. /\ request'[r] = NoRequest /\ owned'[r] = {} /\ shared'[r] = {}
      /\ \A s \in Requests \ {r} :
           request'[s] = request[s] /\ owned'[s] = owned[s] /\ shared'[s] = shared[s]
  BY DoneTyped DEF AdminTypeOK, RequestsTyped
<1>2. Requested(r)'
  BY <1>1 DEF NoRequest, Requested, Shape, Counting, Minting, Redeeming, HandingOver, Doing
<1>3. RowsApart'
  BY <1>1 DEF RowsApart
<1> QED
  BY <1>1, <1>2, <1>3 DEF OnlyMoves, Still

(* Taking a row for oneself, or with others, leaves no row held twice. *)
LEMMA LockExclusive ==
  ASSUME AdminTypeOK, RowsApart, NEW r \in Requests, NEW rows,
         Own(r, rows) \/ Share(r, rows) \/ UNCHANGED locks
  PROVE  /\ RowsApart'
         /\ \A s \in Requests \ {r} : owned'[s] = owned[s] /\ shared'[s] = shared[s]
         /\ owned[r] \subseteq owned'[r] /\ shared[r] \subseteq shared'[r]
<1>1. CASE Own(r, rows)
  <2>1. /\ \A s \in Requests : shared'[s] = shared[s] /\ (s # r => owned'[s] = owned[s])
        /\ owned'[r] = owned[r] \cup rows
    BY <1>1 DEF Own, AdminTypeOK
  <2>2. \A s \in Requests \ {r} : (owned[s] \cup shared[s]) \cap rows = {}
    BY <1>1 DEF Own, MayOwn
  <2> QED
    BY <2>1, <2>2 DEF RowsApart
<1>2. CASE Share(r, rows)
  <2>1. /\ \A s \in Requests : owned'[s] = owned[s] /\ (s # r => shared'[s] = shared[s])
        /\ shared'[r] = shared[r] \cup rows
    BY <1>2 DEF Share, AdminTypeOK
  <2>2. \A s \in Requests \ {r} : owned[s] \cap rows = {}
    BY <1>2 DEF Share, MayShare
  <2> QED
    BY <2>1, <2>2 DEF RowsApart
<1>3. CASE UNCHANGED locks
  BY <1>3 DEF locks, RowsApart
<1> QED
  BY <1>1, <1>2, <1>3

(* A refusal, an error or a lost process. *)
LEMMA RollbackSafe ==
  ASSUME AdminInv, NEW r \in Requests, Done(r), UNCHANGED <<agenda, stored>>, AdminTypeOK'
  PROVE  AdminInv'
<1>1. Requested(r)' /\ OnlyMoves(r) /\ RowsApart'
  BY DoneIdle DEF AdminInv
<1>2. StoredHolds' /\ \A s \in Requests \ {r} : Steady(s)
  BY <1>1, NothingStored DEF AdminInv, StoredHolds
<1> QED
  BY <1>1, <1>2, OthersKept DEF AdminInv, StoredHolds

(* A request that arrives holds nothing and knows nothing. *)
LEMMA ArriveSafe ==
  ASSUME AdminInv, NEW r \in Requests, Arrive(r), agenda' = agenda, AdminTypeOK'
  PROVE  AdminInv'
<1>1. /\ UNCHANGED <<stored, locks>> /\ request[r].at = "idle"
      /\ \A s \in Requests \ {r} : request'[s] = request[s]
      /\ \E op, a, b, as, on : About(op, a, b, as, on) /\ request'[r] = Asked(op, a, b, as, on)
  BY ArriveTyped DEF AdminInv
<1>2. OnlyMoves(r)
  BY <1>1 DEF OnlyMoves, Still, locks
<1>3. owned[r] = {} /\ owned'[r] = {}
  BY <1>1 DEF AdminInv, RequestsHold, Requested, Shape, locks
<1>4. Requested(r)'
  <2>1. PICK op, a, b, as, on : About(op, a, b, as, on) /\ request'[r] = Asked(op, a, b, as, on)
    BY <1>1
  <2>2. /\ request'[r].at = "asked" /\ request'[r].op = op /\ request'[r].actor = a
        /\ request'[r].about = b /\ request'[r].as = as /\ request'[r].on = on
        /\ request'[r].todo = {} /\ request'[r].found = 0
    BY <2>1 DEF Asked, NoRequest
  <2>3. op # "none"
    BY <2>1 DEF About, Operations
  <2>4. Shape(r)'
    BY <1>3, <2>1, <2>2, <2>3 DEF About, Shape
  <2>5. Counting(r)'
    BY <2>2 DEF Counting
  <2>6. Minting(r)' /\ Redeeming(r)' /\ HandingOver(r)'
    BY <2>2 DEF Minting, Redeeming, HandingOver, Doing
  <2> QED
    BY <2>4, <2>5, <2>6 DEF Requested
<1>5. RowsApart'
  BY <1>1 DEF AdminInv, RowsApart, locks
<1> QED
  BY <1>1, <1>2, <1>4, <1>5, NothingStored, OthersKept DEF AdminInv, StoredHolds

(* A step before the last moves one request and its locks, and keeps what it is about. *)
LEMMA AdvanceMoves ==
  ASSUME AdminInv, NEW r \in Requests, Advance(r)
  PROVE  /\ UNCHANGED stored /\ OnlyMoves(r) /\ RowsApart'
         /\ owned[r] \subseteq owned'[r] /\ shared[r] \subseteq shared'[r]
         /\ request'[r].op = request[r].op /\ request'[r].actor = request[r].actor
         /\ request'[r].about = request[r].about /\ request'[r].as = request[r].as
         /\ request'[r].on = request[r].on
         /\ request'[r].at \in {"locked", "proved", "counted"}
         /\ request[r].at # "idle"
         /\ \A i \in Invites : InviteRow(i) \in owned'[r] \ owned[r] => invite[i] # NoOne
<1> DEFINE Goal ==
      /\ \A s \in Requests \ {r} : request'[s] = request[s]
      /\ request'[r].op = request[r].op /\ request'[r].actor = request[r].actor
      /\ request'[r].about = request[r].about /\ request'[r].as = request[r].as
      /\ request'[r].on = request[r].on
      /\ request'[r].at \in {"locked", "proved", "counted"}
      /\ request[r].at # "idle"
<1> USE DEF Doing, GoOn
<1>1. request \in [Requests -> Request] /\ request[r] \in Request
  BY DEF AdminInv, AdminTypeOK
<1>2. UNCHANGED stored
  BY DEF Advance, QueryAdmins, LockAdmin, LockAccount, LockForKey, CountKeys, ProveManager,
     LockInvite, ProveInviter, LockEntry, ProveAssume, LockParty, ProveAdmin
<1>3. \E rows : Own(r, rows) \/ Share(r, rows) \/ UNCHANGED locks
  BY DEF Advance, QueryAdmins, LockAdmin, LockAccount, LockForKey, CountKeys, ProveManager,
     LockInvite, ProveInviter, LockEntry, ProveAssume, LockParty, ProveAdmin
<1>4. ASSUME QueryAdmins(r) PROVE Goal
  BY <1>1, <1>4 DEF QueryAdmins, Request
<1>5. ASSUME LockAdmin(r) PROVE Goal
  BY <1>1, <1>5 DEF LockAdmin, Request
<1>6. ASSUME LockAccount(r) \/ LockForKey(r) \/ CountKeys(r) \/ ProveAssume(r) \/ ProveAdmin(r) PROVE Goal
  BY <1>1, <1>6 DEF LockAccount, LockForKey, CountKeys, ProveAssume, ProveAdmin, Request
<1>7. ASSUME ProveManager(r) PROVE Goal
  BY <1>1, <1>7 DEF ProveManager, Request
<1>8. ASSUME LockInvite(r) /\ request[r].on \in Pending PROVE Goal
  BY <1>1, <1>8 DEF LockInvite, TakeUp, Request
<1>9. ASSUME ProveInviter(r) PROVE Goal
  BY <1>1, <1>9 DEF ProveInviter, Request
<1>10. ASSUME LockEntry(r) PROVE Goal
  BY <1>1, <1>10 DEF LockEntry, Request
<1>11. ASSUME LockParty(r) PROVE Goal
  BY <1>1, <1>11 DEF LockParty, Request
<1>12. Goal
  BY <1>4, <1>5, <1>6, <1>7, <1>8, <1>9, <1>10, <1>11 DEF Advance
<1>13. ASSUME NEW i \in Invites, InviteRow(i) \in owned'[r] \ owned[r] PROVE invite[i] # NoOne
  <2>1. \A row : owned' = [owned EXCEPT ![r] = @ \cup {row}] => InviteRow(i) = row
    BY <1>13 DEF AdminInv, AdminTypeOK
  <2>2. CASE LockInvite(r) /\ request[r].on \in Pending
    <3>1. InviteRow(i) = InviteRow(request[r].on)
      BY <2>1, <2>2 DEF LockInvite, Own
    <3> QED
      BY <2>2, <3>1 DEF InviteRow, Pending
  <2>3. CASE LockEntry(r)
    <3>1. InviteRow(i) = EntryRow
      BY <2>1, <2>3 DEF LockEntry, Own
    <3> QED
      BY <3>1 DEF InviteRow, EntryRow
  <2>4. CASE LockAdmin(r) \/ LockAccount(r) \/ LockForKey(r) \/ LockParty(r)
    <3>1. PICK a : owned' = [owned EXCEPT ![r] = @ \cup {AccountRow(a)}]
      BY <2>4 DEF LockAdmin, LockAccount, LockForKey, LockParty, Own
    <3>2. InviteRow(i) = AccountRow(a)
      BY <2>1, <3>1
    <3> QED
      BY <3>2 DEF InviteRow, AccountRow
  <2>5. CASE QueryAdmins(r) \/ CountKeys(r) \/ ProveManager(r) \/ ProveInviter(r) \/ ProveAssume(r)
               \/ ProveAdmin(r)
    <3>1. owned' = owned
      BY <2>5 DEF QueryAdmins, CountKeys, ProveManager, ProveInviter, ProveAssume, ProveAdmin, Share, locks
    <3> QED
      BY <1>13, <3>1
  <2> QED
    BY <2>2, <2>3, <2>4, <2>5 DEF Advance
<1> QED
  BY <1>2, <1>3, <1>12, <1>13, LockExclusive DEF OnlyMoves, Still, AdminInv

(* Each of these steps adds what the next stage may rely on. *)
LEMMA AdvanceSafe ==
  ASSUME AdminInv, NEW r \in Requests, Advance(r), agenda' = agenda, AdminTypeOK'
  PROVE  AdminInv'
<1> DEFINE q == request[r]
           next == request'[r]
<1> USE DEF Doing, GoOn
<1>1. /\ UNCHANGED stored /\ OnlyMoves(r) /\ RowsApart'
      /\ owned[r] \subseteq owned'[r] /\ shared[r] \subseteq shared'[r]
      /\ next.op = q.op /\ next.actor = q.actor /\ next.about = q.about /\ next.as = q.as /\ next.on = q.on
      /\ next.at \in {"locked", "proved", "counted"} /\ q.at # "idle"
      /\ \A i \in Invites : InviteRow(i) \in owned'[r] \ owned[r] => invite[i] # NoOne
  BY AdvanceMoves
<1>2. /\ Requested(r) /\ q \in Request /\ request \in [Requests -> Request]
      /\ owned \in [Requests -> SUBSET Rows] /\ shared \in [Requests -> SUBSET Rows]
  BY DEF AdminInv, RequestsHold, AdminTypeOK
<1>3. /\ UNCHANGED <<role, member, verified, keys, invite>> /\ Admins' = Admins
      /\ IsManager(q.actor)' = IsManager(q.actor)
  BY <1>1 DEF stored, Admins, IsManager
(* For all operations: the shape. *)
<1>4. ASSUME next.todo \subseteq Accounts, next.at = "counted" => next.op = "mint" PROVE Shape(r)'
  <2>1. \A i \in Invites : InviteRow(i) \in owned'[r] => invite'[i] # NoOne
    BY <1>1, <1>2, <1>3 DEF Requested, Shape
  <2> QED
    BY <1>1, <1>2, <1>4, <2>1 DEF Requested, Shape
<1>5. ASSUME q.op = "assignRole" PROVE Requested(r)'
  <2>1. /\ \A a \in q.todo : AccountRow(a) \notin owned[r]
        /\ q.found > 0 => \E a \in Admins : AccountRow(a) \in owned[r]
        /\ q.found > 1 => \E a, b \in Admins : a # b /\ {AccountRow(a), AccountRow(b)} \subseteq owned[r]
        /\ q.todo \subseteq Accounts /\ q.found \in Nat /\ q.about \in Accounts
        /\ q.at = "asked" => owned[r] = {} /\ q.found = 0 /\ q.todo = {}
    BY <1>2, <1>5 DEF Requested, Counting, Shape, Request
  <2>2. CASE QueryAdmins(r)
    <3>1. owned'[r] = {} /\ next.found = 0 /\ next.todo \subseteq Accounts /\ next.at = "locked"
      BY <1>2, <2>1, <2>2 DEF QueryAdmins, Admins, locks, Request
    <3>2. Counting(r)' /\ Shape(r)'
      BY <1>4, <3>1 DEF Counting
    <3> QED
      BY <1>1, <1>5, <3>1, <3>2 DEF Requested, Minting, Redeeming, HandingOver
  <2>3. CASE LockAdmin(r)
    <3>1. PICK a \in q.todo :
            /\ Own(r, {AccountRow(a)})
            /\ request' = [request EXCEPT ![r].todo = @ \ {a},
                                          ![r].found = IF a \in Admins THEN @ + 1 ELSE @]
      BY <2>3 DEF LockAdmin, First
    <3>2. /\ owned'[r] = owned[r] \cup {AccountRow(a)}
          /\ next.todo = q.todo \ {a} /\ next.at = q.at
          /\ next.found = IF a \in Admins THEN q.found + 1 ELSE q.found
      BY <1>2, <3>1 DEF Own, Request
    <3>3. q.at = "locked" /\ a \in Accounts
      BY <2>1, <2>3 DEF LockAdmin
    <3>4. \A b \in next.todo : AccountRow(b) \notin owned'[r]
      BY <2>1, <3>2 DEF AccountRow
    <3>5. next.found > 0 => \E b \in Admins : AccountRow(b) \in owned'[r]
      BY <2>1, <3>2
    <3>6. next.found > 1 => \E b, c \in Admins : b # c /\ {AccountRow(b), AccountRow(c)} \subseteq owned'[r]
      <4>1. CASE a \in Admins
        <5>1. next.found > 1 => \E b \in Admins : AccountRow(b) \in owned[r]
          BY <2>1, <3>2, <4>1
        <5>2. AccountRow(a) \notin owned[r]
          BY <2>1
        <5> QED
          BY <3>2, <4>1, <5>1, <5>2
      <4>2. CASE a \notin Admins
        BY <2>1, <3>2, <4>2
      <4> QED
        BY <4>1, <4>2
    <3>7. Counting(r)'
      BY <1>3, <3>2, <3>3, <3>4, <3>5, <3>6 DEF Counting
    <3>8. Shape(r)'
      BY <1>4, <2>1, <3>2, <3>3
    <3> QED
      BY <1>1, <1>5, <3>7, <3>8 DEF Requested, Minting, Redeeming, HandingOver
  <2>4. CASE LockAccount(r)
    <3>1. /\ owned'[r] = owned[r] \cup {AccountRow(q.about)}
          /\ next.todo = {} /\ next.at = "proved" /\ next.found = q.found
      BY <1>2, <2>4 DEF LockAccount, Own, Request
    <3>2. Counting(r)'
      BY <1>1, <1>3, <2>1, <3>1 DEF Counting
    <3>3. Shape(r)'
      BY <1>4, <3>1
    <3> QED
      BY <1>1, <1>5, <3>2, <3>3 DEF Requested, Minting, Redeeming, HandingOver
  <2> QED
    BY <1>5, <2>2, <2>3, <2>4 DEF Advance, LockForKey, CountKeys, ProveManager, LockInvite,
       ProveInviter, LockEntry, ProveAssume, LockParty, ProveAdmin
<1>6. ASSUME q.op = "mint" PROVE Requested(r)'
  <2>1. q.actor \in Accounts /\ q.todo \subseteq Accounts
    BY <1>1, <1>2 DEF Requested, Shape
  <2>2. CASE LockForKey(r)
    <3>1. owned'[r] = owned[r] \cup {AccountRow(q.actor)} /\ next.at = "locked" /\ next.todo = q.todo
      BY <1>2, <2>2 DEF LockForKey, Own, Request
    <3> QED
      BY <1>1, <1>4, <1>6, <2>1, <3>1 DEF Requested, Counting, Minting, Redeeming, HandingOver
  <2>3. CASE CountKeys(r)
    <3>1. /\ AccountRow(q.actor) \in owned'[r] /\ next.at = "counted" /\ next.todo = q.todo
          /\ keys[q.actor] < KeyLimit
      BY <1>1, <1>2, <2>3 DEF CountKeys, Requested, Minting, Request
    <3> QED
      BY <1>1, <1>3, <1>4, <1>6, <2>1, <3>1 DEF Requested, Counting, Minting, Redeeming, HandingOver
  <2> QED
    BY <1>6, <2>2, <2>3 DEF Advance, QueryAdmins, LockAdmin, LockAccount, ProveManager, LockInvite,
       ProveInviter, LockEntry, ProveAssume, LockParty, ProveAdmin
<1>7. ASSUME q.op \in {"invite", "withdraw"} PROVE Requested(r)'
  <2>1. ProveManager(r)
    BY <1>7 DEF Advance, QueryAdmins, LockAdmin, LockAccount, LockForKey, CountKeys, LockInvite,
       ProveInviter, LockEntry, ProveAssume, LockParty, ProveAdmin
  <2>2. next.todo = q.todo /\ next.at = "proved"
    BY <1>2, <2>1 DEF ProveManager, Request
  <2>3. q.todo \subseteq Accounts
    BY <1>2 DEF Requested, Shape
  <2> QED
    BY <1>1, <1>4, <1>7, <2>2, <2>3 DEF Requested, Counting, Minting, Redeeming, HandingOver
<1>8. ASSUME q.op = "redeem" PROVE Requested(r)'
  <2>1. q.on \in Invites /\ q.todo \subseteq Accounts
    BY <1>2, <1>8 DEF Requested, Shape
  <2>2. CASE LockInvite(r) /\ q.on \in Pending
    <3>1. /\ owned'[r] = owned[r] \cup {InviteRow(q.on)} /\ next.at = "locked" /\ next.todo = q.todo
          /\ next.row = invite[q.on] /\ invite[q.on] # NoOne
      BY <1>2, <2>2 DEF LockInvite, TakeUp, Own, Request, Pending
    <3> QED
      BY <1>1, <1>3, <1>4, <1>8, <2>1, <3>1 DEF Requested, Counting, Minting, Redeeming, HandingOver
  <2>3. CASE ProveInviter(r)
    <3>1. InviteRow(q.on) \in owned[r] /\ q.row = invite[q.on] /\ q.row # NoOne /\ q.row \in Invite
      BY <1>2, <1>8, <2>3 DEF ProveInviter, Requested, Redeeming, Request
    <3>2. next.todo = q.todo /\ next.at = "proved" /\ next.row = q.row /\ next.vouched = IsStaff(q.row.by)
      BY <1>2, <2>3 DEF ProveInviter, Request
    <3>3. ~IsStaff(q.row.by) => MemberRow(q.row.by) \in shared'[r] /\ MayInvite(member[q.row.by], q.row.as)
      BY <1>2, <2>3 DEF ProveInviter, Share
    <3> QED
      BY <1>1, <1>3, <1>4, <1>8, <2>1, <3>1, <3>2, <3>3 DEF Requested, Counting, Minting, Redeeming,
         HandingOver
  <2> QED
    BY <1>8, <2>2, <2>3 DEF Advance, QueryAdmins, LockAdmin, LockAccount, LockForKey, CountKeys,
       ProveManager, LockEntry, ProveAssume, LockParty, ProveAdmin
<1>9. ASSUME q.op \in {"assume", "assign"} PROVE Requested(r)'
  <2>1. q.actor \in Accounts /\ q.about \in Accounts /\ q.todo \subseteq Accounts
    BY <1>1, <1>2, <1>9 DEF Requested, Shape
  <2>2. CASE LockEntry(r)
    <3>1. /\ next.at = "locked"
          /\ next.todo = IF q.op = "assign" THEN {q.actor, q.about} ELSE {}
      BY <1>2, <2>2 DEF LockEntry, Request
    <3> QED
      BY <1>1, <1>4, <1>9, <2>1, <3>1 DEF Requested, Counting, Minting, Redeeming, HandingOver
  <2>3. CASE ProveAssume(r)
    <3>1. /\ next.at = "proved" /\ next.todo = q.todo /\ q.op = "assume" /\ IsManager(q.actor)
          /\ {OrgRow, MemberRow(q.actor)} \subseteq shared'[r]
      BY <1>2, <2>3 DEF ProveAssume, Share, Request
    <3> QED
      BY <1>1, <1>3, <1>4, <2>1, <3>1 DEF Requested, Counting, Minting, Redeeming, HandingOver
  <2>4. CASE LockParty(r)
    <3>1. PICK a \in q.todo :
            Own(r, {AccountRow(a)}) /\ request' = [request EXCEPT ![r].todo = @ \ {a}]
      BY <2>4 DEF LockParty, First
    <3>2. /\ owned'[r] = owned[r] \cup {AccountRow(a)} /\ next.todo = q.todo \ {a} /\ next.at = q.at
          /\ q.at = "locked" /\ q.op = "assign"
      BY <1>2, <2>4, <3>1 DEF LockParty, Own, Request
    <3>3. q.actor \in next.todo \/ AccountRow(q.actor) \in owned'[r]
      BY <1>2, <3>2 DEF Requested, HandingOver
    <3> QED
      BY <1>1, <1>4, <2>1, <3>2, <3>3 DEF Requested, Counting, Minting, Redeeming, HandingOver
  <2>5. CASE ProveAdmin(r)
    <3>1. /\ next.at = "proved" /\ next.todo = {} /\ q.op = "assign" /\ role[q.actor] = "admin"
          /\ AccountRow(q.actor) \in owned'[r]
      BY <1>1, <1>2, <2>5 DEF ProveAdmin, Requested, HandingOver, Request
    <3> QED
      BY <1>1, <1>3, <1>4, <3>1 DEF Requested, Counting, Minting, Redeeming, HandingOver
  <2> QED
    BY <1>9, <2>2, <2>3, <2>4, <2>5 DEF Advance, QueryAdmins, LockAdmin, LockAccount, LockForKey,
       CountKeys, ProveManager, LockInvite, ProveInviter
<1>10. Requested(r)'
  <2>1. q.op # "none"
    BY <1>1, <1>2 DEF Requested, Shape
  <2> QED
    BY <1>2, <1>5, <1>6, <1>7, <1>8, <1>9, <2>1 DEF Request, Operations
<1> QED
  BY <1>1, <1>10, NothingStored, OthersKept DEF AdminInv, StoredHolds
-----------------------------------------------------------------------------
(* What a request owns nobody else holds. *)
LEMMA NotTwice ==
  ASSUME AdminInv, NEW r \in Requests, NEW s \in Requests \ {r}, NEW row, row \in owned[r]
  PROVE  row \notin owned[s] /\ row \notin shared[s]
  BY DEF AdminInv, RowsApart

(* A last step that is steady for the others, and what it stores in order. *)
LEMMA LastSafe ==
  ASSUME AdminInv, NEW r \in Requests, Done(r), AdminTypeOK', StoredHolds',
         \A s \in Requests \ {r} : Still(s) => Steady(s)
  PROVE  AdminInv'
<1>1. Requested(r)' /\ OnlyMoves(r) /\ RowsApart'
  BY DoneIdle DEF AdminInv
<1>2. RequestsHold'
  BY <1>1, OthersKept DEF OnlyMoves
<1> QED
  BY <1>1, <1>2 DEF AdminInv, StoredHolds

(* A demotion found another admin and holds both: one of them stays. *)
LEMMA AssignRoleSafe ==
  ASSUME AdminInv, NEW r \in Requests, AssignRole(r), agenda' = agenda, AdminTypeOK'
  PROVE  AdminInv'
<1> DEFINE a == request[r].about
           as == request[r].as
<1>1. /\ Requested(r) /\ Done(r) /\ request[r].op = "assignRole" /\ request[r].at = "proved"
      /\ a \in Accounts
      /\ role[a] = "admin" /\ as # "admin" => request[r].found > 1
      /\ UNCHANGED <<agenda, member, verified, keys, invite, issued, redeemed>>
  BY DEF AssignRole, Doing, AdminInv, RequestsHold, Requested, Shape
<1>2. role'[a] = as /\ \A b \in Accounts \ {a} : role'[b] = role[b]
  BY <1>1 DEF AssignRole, AdminInv, AdminTypeOK
<1>3. AccountRow(a) \in owned[r]
  BY <1>1 DEF Requested, Counting
<1>4. request[r].found > 1 => \E b, c \in Admins : b # c
  BY <1>1 DEF Requested, Counting
<1> HIDE DEF a, as
<1>5. AdminFloor'
  <2>1. CASE role[a] = "admin" /\ as # "admin"
    <3>1. PICK b \in Admins : b # a
      BY <1>1, <1>4, <2>1
    <3>2. b \in Admins'
      BY <1>2, <3>1 DEF Admins
    <3> QED
      BY <3>2 DEF AdminFloor
  <2>2. CASE role[a] # "admin" \/ as = "admin"
    <3>1. Admins \subseteq Admins'
      BY <1>2, <2>2 DEF Admins
    <3> QED
      BY <1>1, <3>1 DEF AdminInv, AdminFloor
  <2> QED
    BY <2>1, <2>2
<1>6. StoredHolds'
  BY <1>1, <1>5 DEF AdminInv, StoredHolds, InvitesHold, KeyCap, RedeemedOnce
<1>7. ASSUME NEW s \in Requests \ {r}, Still(s) PROVE Steady(s)
  <2>1. AccountRow(a) \notin owned[s]
    BY <1>3, NotTwice
  <2>2. \A b \in Accounts : keys'[b] <= keys[b]
    BY <1>1 DEF AdminInv, AdminTypeOK
  <2> QED
    BY <1>1, <1>2, <1>7, <2>1, <2>2 DEF Steady
<1> QED
  BY <1>1, <1>6, <1>7, LastSafe

(* A key: the account is held since the count. *)
LEMMA MintKeySafe ==
  ASSUME AdminInv, NEW r \in Requests, MintKey(r), agenda' = agenda, AdminTypeOK'
  PROVE  AdminInv'
<1> DEFINE a == request[r].actor
<1>1. /\ Done(r) /\ a \in Accounts /\ AccountRow(a) \in owned[r] /\ keys[a] < KeyLimit
      /\ UNCHANGED <<agenda, role, member, verified, invite, issued, redeemed>>
  BY DEF MintKey, Doing, AdminInv, RequestsHold, Requested, Shape, Minting
<1>2. keys \in [Accounts -> Nat] /\ keys' = [keys EXCEPT ![a] = keys[a] + 1]
  BY DEF MintKey, AdminInv, AdminTypeOK
<1> HIDE DEF a
<1>3. keys'[a] = keys[a] + 1 /\ keys[a] \in Nat /\ \A b \in Accounts \ {a} : keys'[b] = keys[b] /\ keys[b] \in Nat
  BY <1>1, <1>2
<1>4. KeyCap'
  BY <1>1, <1>3 DEF AdminInv, KeyCap
<1>5. StoredHolds'
  <2>1. Admins' = Admins
    BY <1>1 DEF Admins
  <2> QED
    BY <1>1, <1>4, <2>1 DEF AdminInv, StoredHolds, InvitesHold, AdminFloor, RedeemedOnce
<1>6. ASSUME NEW s \in Requests \ {r}, Still(s) PROVE Steady(s)
  <2>1. AccountRow(a) \notin owned[s]
    BY <1>1, NotTwice
  <2>2. \A b \in Accounts \ {a} : keys'[b] <= keys[b]
    BY <1>3
  <2> QED
    BY <1>1, <1>6, <2>1, <2>2 DEF Steady
<1> QED
  BY <1>1, <1>5, <1>6, LastSafe

(* Steps that store invites or memberships leave roles and keys alone. *)
LEMMA RolesAndKeysStay ==
  ASSUME AdminInv, UNCHANGED <<agenda, role, keys>>
  PROVE  /\ AdminFloor' /\ KeyCap'
         /\ \A a \in Accounts : role'[a] = role[a] /\ keys'[a] <= keys[a]
<1>1. Admins' = Admins
  BY DEF Admins
<1>2. \A n \in Nat : n <= n
  OBVIOUS
<1>3. \A a \in Accounts : keys[a] \in Nat
  BY DEF AdminInv, AdminTypeOK
<1>4. \A a \in Accounts : role'[a] = role[a] /\ keys'[a] <= keys[a]
  BY <1>2, <1>3, Zenon
<1>5. AdminFloor' /\ KeyCap'
  BY <1>1, Zenon DEF AdminInv, AdminFloor, KeyCap
<1> QED
  BY <1>4, <1>5

(* The row of a new invite is one nobody has read: nothing is known of it yet.    *)
LEMMA CreateInviteSafe ==
  ASSUME AdminInv, NEW r \in Requests, CreateInvite(r), agenda' = agenda, AdminTypeOK'
  PROVE  AdminInv'
<1>1. /\ Done(r) /\ issued \in Nat /\ issued < agenda.invites /\ issued' = issued + 1
      /\ UNCHANGED <<agenda, role, member, verified, keys, redeemed>>
  BY DEF CreateInvite, AdminInv, AdminTypeOK
<1>2. \A i \in Invites : i # issued + 1 => invite'[i] = invite[i]
  BY DEF CreateInvite, AdminInv, AdminTypeOK
<1>3. AdminFloor' /\ KeyCap' /\ \A a \in Accounts : role'[a] = role[a] /\ keys'[a] <= keys[a]
  BY <1>1, RolesAndKeysStay
<1>4. InvitesHold'
  <2> SUFFICES ASSUME NEW i \in Invites
               PROVE  /\ invite'[i] # NoOne => redeemed[i] = 0
                      /\ i > issued + 1 => invite'[i] = NoOne /\ redeemed[i] = 0
    BY <1>1 DEF InvitesHold
  <2>1. /\ i \in Nat /\ (invite[i] # NoOne => redeemed[i] = 0)
        /\ i > issued => invite[i] = NoOne /\ redeemed[i] = 0
    BY DEF AdminInv, InvitesHold, Invites
  <2>2. CASE i = issued + 1
    BY <1>1, <2>1, <2>2
  <2>3. CASE i # issued + 1
    BY <1>1, <1>2, <2>1, <2>3
  <2> QED
    BY <2>2, <2>3
<1>5. StoredHolds'
  BY <1>1, <1>3, <1>4 DEF AdminInv, StoredHolds, RedeemedOnce
(* Nobody holds an invite that is not there. *)
<1>6. ASSUME NEW s \in Requests \ {r}, Still(s), NEW i \in Invites, InviteRow(i) \in owned[s]
      PROVE  invite'[i] = invite[i]
  <2>1. invite[i] # NoOne
    BY <1>6 DEF AdminInv, RequestsHold, Requested, Shape
  <2>2. i # issued + 1
    BY <1>1, <2>1 DEF AdminInv, InvitesHold
  <2> QED
    BY <1>2, <2>2
<1>7. ASSUME NEW s \in Requests \ {r}, Still(s) PROVE Steady(s)
  BY <1>1, <1>3, <1>6, <1>7 DEF Steady
<1> QED
  BY <1>1, <1>5, <1>7, LastSafe

(* An invite goes when nobody else holds it. *)
LEMMA InviteGone ==
  ASSUME AdminInv, NEW r \in Requests, Withdraw(r) \/ DropInvite(r), agenda' = agenda, AdminTypeOK'
  PROVE  AdminInv'
<1> DEFINE on == request[r].on
<1>1. /\ Done(r) /\ on \in Invites
      /\ UNCHANGED <<agenda, role, member, verified, keys, issued, redeemed>>
  BY DEF Withdraw, DropInvite, Doing, AdminInv, RequestsHold, Requested, Shape
<1>2. invite'[on] = NoOne /\ \A i \in Invites \ {on} : invite'[i] = invite[i]
  BY <1>1 DEF Withdraw, DropInvite, AdminInv, AdminTypeOK
<1>3. \A s \in Requests \ {r} : InviteRow(on) \notin owned[s]
  <2>1. CASE Withdraw(r)
    BY <2>1 DEF Withdraw, MayOwn
  <2>2. CASE DropInvite(r)
    <3>1. InviteRow(on) \in owned[r]
      BY <2>2 DEF DropInvite, Doing, AdminInv, RequestsHold, Requested, Redeeming
    <3> QED
      BY <3>1, NotTwice
  <2> QED
    BY <2>1, <2>2
<1> HIDE DEF on
<1>4. AdminFloor' /\ KeyCap' /\ \A a \in Accounts : role'[a] = role[a] /\ keys'[a] <= keys[a]
  BY <1>1, RolesAndKeysStay
<1>5. StoredHolds'
  <2>1. InvitesHold'
    BY <1>1, <1>2 DEF AdminInv, InvitesHold
  <2> QED
    BY <1>1, <1>4, <2>1 DEF AdminInv, StoredHolds, RedeemedOnce
<1>6. ASSUME NEW s \in Requests \ {r}, Still(s) PROVE Steady(s)
  BY <1>1, <1>2, <1>3, <1>4, <1>6 DEF Steady
<1> QED
  BY <1>1, <1>5, <1>6, LastSafe

(* What a sign-in reads of its invite and of the inviter as it applies it. *)
LEMMA RedeemKnows ==
  ASSUME AdminInv, NEW r \in Requests, Redeem(r)
  PROVE  /\ request[r].on \in Invites /\ request[r].actor \in Accounts
         /\ InviteRow(request[r].on) \in owned[r]
         /\ request[r].row = invite[request[r].on] /\ request[r].row # NoOne
         /\ ~request[r].vouched => MayInvite(member[request[r].row.by], request[r].row.as)
  BY DEF Redeem, Doing, AdminInv, RequestsHold, Requested, Shape, Redeeming

(* The transaction that redeems an invite holds its row, so that the invite is      *)
(* there and was not redeemed before.                                              *)
LEMMA RedeemSafe ==
  ASSUME AdminInv, NEW r \in Requests, Redeem(r), agenda' = agenda, AdminTypeOK'
  PROVE  AdminInv'
<1> DEFINE on == request[r].on
           a == request[r].actor
<1>1. /\ Done(r) /\ on \in Invites /\ a \in Accounts /\ InviteRow(on) \in owned[r] /\ invite[on] # NoOne
      /\ UNCHANGED <<agenda, role, verified, keys, issued>>
  BY RedeemKnows DEF Redeem
<1>2. /\ invite'[on] = NoOne /\ \A i \in Invites \ {on} : invite'[i] = invite[i] /\ redeemed'[i] = redeemed[i]
      /\ redeemed'[on] = redeemed[on] + 1
      /\ \A b \in Accounts \ {a} : member'[b] = member[b]
  BY <1>1 DEF Redeem, AdminInv, AdminTypeOK
<1>3. \A s \in Requests \ {r} : InviteRow(on) \notin owned[s] /\ MemberRow(a) \notin shared[s]
  <2>1. \A s \in Requests \ {r} : MemberRow(a) \notin shared[s]
    BY DEF Redeem, MayOwn
  <2> QED
    BY <1>1, <2>1, NotTwice
<1> HIDE DEF on, a
<1>4. AdminFloor' /\ KeyCap' /\ \A b \in Accounts : role'[b] = role[b] /\ keys'[b] <= keys[b]
  BY <1>1, RolesAndKeysStay
<1>5. redeemed[on] = 0 /\ on <= issued
  BY <1>1 DEF AdminInv, InvitesHold, AdminTypeOK, Invites
<1>6. InvitesHold' /\ RedeemedOnce'
  <2>1. \A i \in Invites : i \in Nat /\ redeemed[i] \in Nat /\ redeemed[i] <= 1
    <3>1. redeemed \in [Invites -> Nat] /\ RedeemedOnce
      BY DEF AdminInv, AdminTypeOK
    <3>2. Invites \subseteq Nat
      BY DEF Invites
    <3> QED
      BY <3>1, <3>2 DEF RedeemedOnce
  <2>2. issued \in Nat
    BY DEF AdminInv, AdminTypeOK
  <2>3. RedeemedOnce'
    BY <1>2, <1>5, <2>1 DEF RedeemedOnce
  <2>4. ~(on > issued)
    BY <1>1, <1>5, <2>1, <2>2
  <2>5. InvitesHold'
    BY <1>1, <1>2, <2>4 DEF AdminInv, InvitesHold
  <2> QED
    BY <2>3, <2>5
<1>7. ASSUME NEW s \in Requests \ {r}, Still(s) PROVE Steady(s)
  BY <1>1, <1>2, <1>3, <1>4, <1>7 DEF Steady
<1> QED
  BY <1>1, <1>4, <1>6, <1>7, LastSafe DEF StoredHolds

(* Handing the entry over stores nothing anybody relies on. *)
LEMMA HandOverSafe ==
  ASSUME AdminInv, NEW r \in Requests, HandOver(r), agenda' = agenda, AdminTypeOK'
  PROVE  AdminInv'
<1>1. Done(r) /\ UNCHANGED <<agenda, role, member, verified, keys, invite, issued, redeemed>>
  BY DEF HandOver
<1>2. AdminFloor' /\ KeyCap' /\ \A a \in Accounts : role'[a] = role[a] /\ keys'[a] <= keys[a]
  BY <1>1, RolesAndKeysStay
<1>3. StoredHolds'
  BY <1>1, <1>2 DEF AdminInv, StoredHolds, InvitesHold, RedeemedOnce
<1>4. ASSUME NEW s \in Requests \ {r}, Still(s) PROVE Steady(s)
  BY <1>1, <1>2, <1>4 DEF Steady
<1> QED
  BY <1>1, <1>3, <1>4, LastSafe

(* Keys are revoked, memberships settled and the organisation verified past the   *)
(* requests that hold those rows.                                                 *)
LEMMA StaffSafe ==
  ASSUME AdminInv, agenda' = agenda, AdminTypeOK',
         \/ \E a \in Accounts : RevokeKey(a) \/ \E as \in OrgRoles \cup {"none"} : SetMember(a, as)
         \/ SetVerified
  PROVE  AdminInv'
<1>1. UNCHANGED <<agenda, role, invite, issued, redeemed, request, locks>>
  BY DEF RevokeKey, SetMember, SetVerified
<1>2. \A a \in Accounts : /\ keys[a] \in Nat /\ keys'[a] \in Nat /\ keys[a] <= KeyLimit
                          /\ keys'[a] <= keys[a]
  <2>1. keys \in [Accounts -> Nat] /\ keys' \in [Accounts -> Nat] /\ \A a \in Accounts : keys[a] <= KeyLimit
    BY DEF AdminInv, AdminTypeOK, KeyCap
  <2>2. CASE \E a \in Accounts : RevokeKey(a)
    <3>1. PICK a \in Accounts : RevokeKey(a)
      BY <2>2
    <3>2. keys' = [keys EXCEPT ![a] = keys[a] - 1]
      BY <3>1 DEF RevokeKey
    <3> QED
      BY <2>1, <3>2
  <2>3. CASE ~\E a \in Accounts : RevokeKey(a)
    <3>1. keys' = keys
      BY <2>3 DEF SetMember, SetVerified
    <3>2. \A n \in Nat : n <= n
      OBVIOUS
    <3>3. \A a \in Accounts : keys[a] \in Nat
      BY <2>1
    <3> QED
      BY <2>1, <3>1, <3>2, <3>3, Zenon
  <2> QED
    BY <2>2, <2>3
<1>3. StoredHolds'
  <2>1. Admins' = Admins
    BY <1>1 DEF Admins
  <2>2. KeyCap'
    <3>1. KeyLimit \in Nat
      BY AdministrationAssumption
    <3>2. ASSUME NEW a \in Accounts PROVE keys'[a] <= KeyLimit
      <4>1. /\ keys[a] \in Nat /\ keys'[a] \in Nat /\ keys[a] <= KeyLimit /\ keys'[a] <= keys[a]
        BY <1>2, Zenon
      <4>2. \A i, j, k \in Nat : i <= j /\ j <= k => i <= k
        OBVIOUS
      <4> QED
        BY <3>1, <4>1, <4>2, Zenon
    <3> QED
      BY <3>2, Zenon DEF KeyCap
  <2> QED
    BY <1>1, <2>1, <2>2 DEF AdminInv, StoredHolds, InvitesHold, AdminFloor, RedeemedOnce
<1>4. ASSUME NEW s \in Requests PROVE Steady(s)
  <2>1. \A a \in Accounts : MemberRow(a) \in shared[s] => member'[a] = member[a]
    BY DEF RevokeKey, SetMember, SetVerified, Untouched, AdminInv, AdminTypeOK
  <2>2. OrgRow \in shared[s] => verified' = verified
    BY DEF RevokeKey, SetMember, SetVerified, Untouched
  <2> QED
    BY <1>1, <1>2, <2>1, <2>2 DEF Steady, Still, locks
<1>5. RequestsHold' /\ RowsApart'
  BY <1>1, <1>4, SteadyKeeps DEF RequestsHold, AdminInv, RowsApart, locks
<1> QED
  BY <1>3, <1>5 DEF AdminInv, StoredHolds
-----------------------------------------------------------------------------
(* The inductive invariant. *)
LEMMA AdminStart == AdminInit => AdminInv
<1> SUFFICES ASSUME AdminInit PROVE AdminInv
  OBVIOUS
<1>1. AdminTypeOK
  <2>1. NoRequest \in Request
    BY DEF NoRequest, Request
  <2>2. /\ role \in [Accounts -> Roles] /\ member \in [Accounts -> OrgRoles \cup {"none"}]
        /\ keys \in [Accounts -> Nat] /\ redeemed \in [Invites -> Nat]
        /\ invite \in [Invites -> Invite \cup {NoOne}]
    BY DEF AdminInit, Roles
  <2>3. agenda \in Agendas /\ agenda.invites \in 0..MaxInvites
    BY DEF AdminInit
  <2>4. issued \in 0..agenda.invites
    BY <2>3 DEF AdminInit
  <2>5. /\ request \in [Requests -> Request]
        /\ shared \in [Requests -> SUBSET Rows] /\ owned \in [Requests -> SUBSET Rows]
        /\ verified \in BOOLEAN /\ submitter \in Accounts \cup {NoOne}
    BY <2>1 DEF AdminInit
  <2> QED
    BY <2>2, <2>3, <2>4, <2>5 DEF AdminTypeOK
<1>2. RowsApart
  BY DEF AdminInit, RowsApart
<1>3. RequestsHold
  BY DEF AdminInit, NoRequest, RequestsHold, Requested, Shape, Counting, Minting, Redeeming, HandingOver, Doing
<1>4. AdminFloor
  <2>1. agenda.admins \subseteq Accounts
    BY DEF AdminInit
  <2>2. agenda.admins \subseteq Admins
    BY <2>1 DEF AdminInit, Admins
  <2> QED
    BY <2>2 DEF AdminFloor
<1>5. InvitesHold /\ RedeemedOnce
  BY DEF AdminInit, InvitesHold, RedeemedOnce
<1>6. KeyCap
  BY DEF AdminInit, KeyCap
<1> QED
  BY <1>1, <1>2, <1>3, <1>4, <1>5, <1>6 DEF AdminInv

(* Every step keeps the invariant. *)
LEMMA AdminSteps == AdminInv /\ [AdminNext]_adminVars => AdminInv'
<1> SUFFICES ASSUME AdminInv, [AdminNext]_adminVars PROVE AdminInv'
  OBVIOUS
<1>1. AdminTypeOK'
  BY AdminTypes DEF AdminInv
<1>2. CASE UNCHANGED adminVars
  <2>1. UNCHANGED <<agenda, stored, request, locks>>
    BY <1>2 DEF adminVars
  <2> QED
    BY <2>1 DEF stored, locks, AdminInv, AdminTypeOK, RowsApart, RequestsHold, Requested, Shape, Counting,
       Minting, Redeeming, HandingOver, Doing, Admins, IsManager, InvitesHold, AdminFloor, KeyCap, RedeemedOnce
<1>3. ASSUME NEW r \in Requests, Arrive(r) \/ Proceed(r) \/ Rollback(r), agenda' = agenda
      PROVE  AdminInv'
  <2>1. CASE Rollback(r) \/ (LockInvite(r) /\ request[r].on \notin Pending)
    BY <1>1, <1>3, <2>1, RollbackSafe DEF Rollback, LockInvite
  <2>2. CASE Advance(r)
    BY <1>1, <1>3, <2>2, AdvanceSafe
  <2> QED
    BY <1>1, <1>3, <2>1, <2>2, ArriveSafe, AssignRoleSafe, MintKeySafe, CreateInviteSafe, InviteGone,
       RedeemSafe, HandOverSafe DEF Proceed, Advance
<1>4. ASSUME NEW a \in agenda.people, agenda' = agenda,
             RevokeKey(a) \/ \E as \in agenda.ranks \cup {"none"} : SetMember(a, as)
      PROVE  AdminInv'
  <2>1. a \in Accounts /\ agenda.ranks \cup {"none"} \subseteq OrgRoles \cup {"none"}
    BY AgendaType DEF AdminInv
  <2> QED
    BY <1>1, <1>4, <2>1, StaffSafe
<1>5. CASE SetVerified /\ agenda' = agenda
  BY <1>1, <1>5, StaffSafe
<1> QED
  BY <1>2, <1>3, <1>4, <1>5 DEF AdminNext

(* The invariant holds in every reachable state. *)
THEOREM AdminInvariance == AdminSpec => []AdminInv
  BY AdminStart, AdminSteps, PTL DEF AdminSpec
-----------------------------------------------------------------------------
(* The hub never loses its last admin, an account never has more keys than its   *)
(* limit and an invite is applied once, however many requests run at once        *)
(* (AdminService.assignRole, ApiKeyService.mint, InviteService.redeem).           *)
THEOREM CountsAlwaysHold == AdminSpec => []CountsHold
<1>1. AdminInv => CountsHold
  BY DEF AdminInv, CountsHold
<1> QED
  BY <1>1, AdminInvariance, PTL

(* Only a sign-in that holds its invite applies it. *)
LEMMA AppliedByRedeem ==
  ASSUME AdminInv, [AdminNext]_adminVars, NEW i \in Invites, redeemed'[i] # redeemed[i]
  PROVE  \E r \in Requests : Redeem(r) /\ request[r].on = i
<1>1. \E r \in Requests : Redeem(r)
  <2> SUFFICES ASSUME ~\E r \in Requests : Redeem(r) PROVE redeemed' = redeemed
    OBVIOUS
  <2>1. CASE UNCHANGED adminVars
    BY <2>1 DEF adminVars, stored
  <2>2. ASSUME NEW r \in Requests, Arrive(r) \/ Proceed(r) \/ Rollback(r) PROVE redeemed' = redeemed
    <3>1. CASE Arrive(r) \/ Rollback(r)
      BY <3>1, ArriveTyped DEF Rollback, stored, AdminInv
    <3>2. CASE Proceed(r)
      BY <3>2 DEF Proceed, QueryAdmins, LockAdmin, LockAccount, AssignRole, LockForKey, CountKeys, MintKey,
         ProveManager, CreateInvite, Withdraw, LockInvite, ProveInviter, DropInvite, LockEntry,
         ProveAssume, LockParty, ProveAdmin, HandOver, stored
    <3> QED
      BY <2>2, <3>1, <3>2
  <2> QED
    BY <2>1, <2>2 DEF AdminNext, RevokeKey, SetMember, SetVerified
<1>2. PICK r \in Requests : Redeem(r)
  BY <1>1
<1>3. request[r].on = i
  BY <1>2 DEF Redeem, AdminInv, AdminTypeOK
<1> QED
  BY <1>2, <1>3

(* Only a proved hand-over gives the entry to somebody. *)
LEMMA GivenByHandOver ==
  ASSUME AdminInv, [AdminNext]_adminVars, submitter' # submitter
  PROVE  \E r \in Requests : HandOver(r)
<1> SUFFICES ASSUME ~\E r \in Requests : HandOver(r) PROVE submitter' = submitter
  OBVIOUS
<1>1. CASE UNCHANGED adminVars
  BY <1>1 DEF adminVars, stored
<1>2. ASSUME NEW r \in Requests, Arrive(r) \/ Proceed(r) \/ Rollback(r) PROVE submitter' = submitter
  <2>1. CASE Arrive(r) \/ Rollback(r)
    BY <2>1, ArriveTyped DEF Rollback, stored, AdminInv
  <2>2. CASE Proceed(r)
    BY <2>2 DEF Proceed, QueryAdmins, LockAdmin, LockAccount, AssignRole, LockForKey, CountKeys, MintKey,
       ProveManager, CreateInvite, Withdraw, LockInvite, ProveInviter, DropInvite, Redeem, LockEntry,
       ProveAssume, LockParty, ProveAdmin, stored
  <2> QED
    BY <1>2, <2>1, <2>2
<1> QED
  BY <1>1, <1>2 DEF AdminNext, RevokeKey, SetMember, SetVerified

(* What an invite or a hand-over does, it does by an authority of that moment     *)
(* (inviterStillAuthorised, OpportunityWriteService.assumeSubmitter and assign).  *)
THEOREM AlwaysByRight == AdminSpec => ActsByRight
<1>1. ASSUME AdminInv, [AdminNext]_adminVars, NEW i \in Invites, redeemed'[i] # redeemed[i]
      PROVE  \/ MayInvite(member[invite[i].by], invite[i].as)
             \/ \E r \in Requests : request[r].on = i /\ request[r].vouched
  <2>1. PICK r \in Requests : Redeem(r) /\ request[r].on = i
    BY <1>1, AppliedByRedeem
  <2>2. request[r].row = invite[i]
    BY <1>1, <2>1, RedeemKnows
  <2>3. ~request[r].vouched => MayInvite(member[invite[i].by], invite[i].as)
    BY <1>1, <2>1, <2>2, RedeemKnows
  <2> QED
    BY <2>1, <2>3
<1>2. ASSUME AdminInv, [AdminNext]_adminVars, submitter' # submitter
      PROVE  \E r \in Requests :
               /\ request'[r] # request[r] /\ request[r].at = "proved"
               /\ IF request[r].op = "assign" THEN role[request[r].actor] = "admin"
                  ELSE IsManager(request[r].actor)
  <2>1. PICK r \in Requests : HandOver(r)
    BY <1>2, GivenByHandOver
  <2>2. request'[r] = NoRequest /\ request[r].at = "proved" /\ request[r].op \in {"assume", "assign"}
    BY <1>2, <2>1, DoneTyped DEF HandOver, AdminInv, AdminTypeOK, RequestsTyped
  <2>3. HandingOver(r)
    BY <1>2 DEF AdminInv, RequestsHold, Requested
  <2>4. request'[r] # request[r]
    BY <2>2 DEF NoRequest
  <2> QED
    BY <2>2, <2>3, <2>4 DEF HandingOver, Doing
<1>3. AdminInv /\ [AdminNext]_adminVars =>
        [\A i \in Invites :
           redeemed'[i] # redeemed[i] =>
             \/ MayInvite(member[invite[i].by], invite[i].as)
             \/ \E r \in Requests : request[r].on = i /\ request[r].vouched]_adminVars
  BY <1>1
<1>4. AdminInv /\ [AdminNext]_adminVars =>
        [submitter' # submitter =>
           \E r \in Requests :
             /\ request'[r] # request[r] /\ request[r].at = "proved"
             /\ IF request[r].op = "assign" THEN role[request[r].actor] = "admin"
                ELSE IsManager(request[r].actor)]_adminVars
  BY <1>2
<1> QED
  BY <1>3, <1>4, AdminInvariance, PTL DEF AdminSpec, ActsByRight, InviterStillMay, HandedOverByRight
-----------------------------------------------------------------------------
(* The views together *)

(* Whatever view a behaviour takes, the invariants of all three hold. *)
LEMMA EveryView ==
  ASSUME ~ForeignKeys
  PROVE  TransactionsSpec => [](AdminInv /\ MergeInv /\ LocksHold)
<1> DEFINE I == AdminInv /\ MergeInv /\ LocksHold
<1>1. TransactionsInit => I
  BY AdminStart, MergeStart, LocksHoldInit DEF TransactionsInit
<1>2. I /\ [TransactionsNext]_transactionVars => I'
  <2> SUFFICES ASSUME I, [TransactionsNext]_transactionVars PROVE I'
    OBVIOUS
  <2>1. /\ [AdminNext]_adminVars
        /\ [Next]_vars
        /\ [LocksNext]_lockVars
    BY DEF TransactionsNext, AdministrationNext, DuplicatesNext, LockingNext, transactionVars
  <2> QED
    BY <2>1, AdminSteps, MergeSteps, LocksStep
<1> QED
  BY <1>1, <1>2, PTL DEF TransactionsSpec

(* Everything the transactions promise of the state: counts of admins, keys and     *)
(* redemptions, merges that never chain, and no cycle of waiting transactions.       *)
THEOREM TransactionsAreSafe ==
  ASSUME ~ForeignKeys
  PROVE  TransactionsSpec => [](CountsHold /\ NoChains /\ NoCycle)
<1>1. AdminInv => CountsHold
  BY DEF AdminInv, CountsHold
<1>2. MergeInv => NoChains
  BY DEF MergeInv
<1>3. LocksHold => NoCycle
  BY LastWaits
<1> QED
  BY <1>1, <1>2, <1>3, EveryView, PTL
=============================================================================
