--------------------------- MODULE ClientsProofs ---------------------------
(***************************************************************************)
(* Proofs about the programs outside the API: the page that reads, the form   *)
(* for a new listing, both halves of the export and what the form makes of a   *)
(* document, for any loaders, accounts, texts, runs, datasets, pages and        *)
(* listings. They share no variable, so each has an inductive invariant of its  *)
(* own, and the steps of the others leave it alone.                            *)
(***************************************************************************)
EXTENDS Clients, FiniteSetTheorems, TLAPS

-----------------------------------------------------------------------------
(* The page. *)

(* What is on screen, whole. *)
OnScreen ==
  shown \in {Idle, Loading, Failed} \cup [status : {"ready"}, data : Answer, stale : BOOLEAN]

(* Every read that was started moved the generation by one, and so did every effect   *)
(* that was cleaned up: the number of the one says the number of the other.           *)
GenerationCounts == 2 * started = generation + (IF wanted = Nothing THEN 0 ELSE 1)

(* Numbers are not given twice, and the one that counts was given to the newest read:  *)
(* it is what the page asks for, and was sent when `asked` says.                       *)
ReadsKnown ==
  /\ \A r \in reads : r.mine <= generation /\ r.since <= version
  /\ \A r, q \in reads : r.mine = q.mine => r = q
  /\ \A r \in reads : Current(r) => r.of = wanted /\ r.since = asked
  /\ asked <= version

PageInv == ResourceTypeOK /\ OnScreen /\ GenerationCounts /\ ReadsKnown /\ ShownIsLatest

(* Nothing is read yet, and nothing is on the screen.                                *)
LEMMA PageStarts == ResourceInit => PageInv
<1> SUFFICES ASSUME ResourceInit PROVE PageInv
  OBVIOUS
<1>1. MaxReads \in Nat /\ MaxVersion \in Nat
  BY ResourceAssumption
<1>2. ResourceTypeOK
  BY <1>1 DEF ResourceInit, ResourceTypeOK, Versions
<1> QED
  BY <1>1, <1>2 DEF ResourceInit, PageInv, OnScreen, GenerationCounts, ReadsKnown, ShownIsLatest, Idle

(* The effect of a page that asks for something, or for nothing any more.             *)
LEMMA EffectSafe ==
  ASSUME PageInv, NEW loader \in Loaders \cup {Nothing}, Effect(loader), wanted = Nothing => loader # Nothing
  PROVE  PageInv'
<1>1. /\ MaxReads \in Nat /\ MaxVersion \in Nat /\ Nothing \notin Loaders
      /\ generation \in Nat /\ started \in Nat /\ started <= MaxReads
      /\ version \in Nat /\ version <= MaxVersion /\ asked \in Nat
      /\ version' = version /\ wanted' = loader
  BY ResourceAssumption DEF PageInv, ResourceTypeOK, Versions, Effect
<1>2. CASE loader = Nothing
  <2>1. /\ wanted # Nothing /\ shown' = Idle /\ generation' = generation + 1
        /\ UNCHANGED <<reads, started, asked, version>>
    BY <1>2 DEF Effect, AfterCleanup
  <2>2. GenerationCounts' /\ generation' \in 0..(2 * MaxReads + 1)
    BY <1>1, <1>2, <2>1 DEF PageInv, GenerationCounts
  <2>3. \A r \in reads : r.mine \in Nat /\ r.mine <= generation /\ ~(r.mine = generation')
    BY <1>1, <2>1 DEF PageInv, ResourceTypeOK, ReadsKnown
  <2>4. ReadsKnown'
    BY <1>1, <2>1, <2>3 DEF PageInv, ReadsKnown, Current
  <2>5. ResourceTypeOK'
    BY <1>1, <1>2, <2>1, <2>2 DEF PageInv, ResourceTypeOK
  <2>6. ShownIsLatest'
    BY <1>1, <1>2, <2>1, <2>3, <2>5 DEF ShownIsLatest, Current, Idle
  <2> QED
    BY <2>1, <2>2, <2>4, <2>5, <2>6 DEF PageInv, OnScreen
<1>3. CASE loader # Nothing
  <2> DEFINE new == [mine |-> generation', of |-> loader, since |-> version]
  <2>1. /\ loader \in Loaders /\ started < MaxReads /\ started' = started + 1
        /\ generation' = AfterCleanup + 1
        /\ shown' = IF shown.status = "ready" THEN [shown EXCEPT !.stale = TRUE] ELSE Loading
        /\ reads' = reads \cup {new} /\ asked' = version
    BY <1>3 DEF Effect
  <2>2. GenerationCounts' /\ generation' \in 1..(2 * MaxReads + 1) /\ generation' > generation
    BY <1>1, <1>3, <2>1 DEF PageInv, GenerationCounts, AfterCleanup
  <2>3. \A r \in reads : r.mine \in Nat /\ r.mine <= generation /\ ~(r.mine = generation')
    BY <1>1, <2>2 DEF PageInv, ResourceTypeOK, ReadsKnown
  <2>4. /\ new \in [mine : 1..(2 * MaxReads + 1), of : Loaders, since : Versions]
        /\ new.mine = generation' /\ new.of = loader /\ new.since = version
    BY <1>1, <2>1, <2>2 DEF Versions
  <2> HIDE DEF new
  <2>5. ReadsKnown'
    BY <1>1, <2>1, <2>2, <2>3, <2>4 DEF PageInv, ReadsKnown, Current
  <2>6. /\ shown' \in {Loading} \cup [status : {"ready"}, data : Answer, stale : {TRUE}]
    <3>1. CASE shown \in {Idle, Loading, Failed}
      <4>1. shown.status # "ready"
        BY <3>1 DEF Idle, Loading, Failed
      <4> QED
        BY <2>1, <4>1
    <3>2. CASE shown \in [status : {"ready"}, data : Answer, stale : BOOLEAN]
      BY <2>1, <3>2
    <3> QED
      BY <3>1, <3>2 DEF PageInv, OnScreen
  <2>7. ResourceTypeOK'
    <3>1. \/ shown' \in {Idle, Loading, Failed}
          \/ shown'.status = "ready" /\ shown'.data \in Answer /\ shown'.stale \in BOOLEAN
      BY <2>6
    <3>2. reads' \subseteq [mine : 1..(2 * MaxReads + 1), of : Loaders, since : Versions]
      BY <2>1, <2>4 DEF PageInv, ResourceTypeOK
    <3>3. /\ wanted' \in Loaders \cup {Nothing} /\ generation' \in 0..(2 * MaxReads + 1)
          /\ version' \in Versions /\ asked' \in Versions /\ started' \in 0..MaxReads
      BY <1>1, <2>1, <2>2 DEF Versions
    <3> QED
      BY <3>1, <3>2, <3>3 DEF ResourceTypeOK, Versions
  <2>8. ShownIsLatest'
    BY <1>1, <1>3, <2>1, <2>4, <2>6, <2>7 DEF ShownIsLatest, Current, Loading
  <2> QED
    BY <2>2, <2>5, <2>6, <2>7, <2>8 DEF PageInv, OnScreen
<1> QED
  BY <1>2, <1>3

(* A read that ends, with an answer or without: nobody looks at one that was          *)
(* superseded, and there is one number only that is not.                            *)
LEMMA ReadEndsSafe ==
  ASSUME PageInv, NEW r \in reads, AnswerRead(r) \/ ReadFails(r)
  PROVE  PageInv'
<1>1. /\ reads' = reads \ {r}
      /\ UNCHANGED <<wanted, generation, version, started, asked>>
      /\ \/ shown' = shown /\ ~Current(r)
         \/ shown' = Failed /\ Current(r)
         \/ \E v \in r.since..version : shown' = Ready([of |-> r.of, version |-> v]) /\ Current(r)
  BY DEF AnswerRead, ReadFails
<1>2. /\ r.of \in Loaders /\ r.since \in Versions /\ version \in Versions /\ Nothing \notin Loaders
      /\ MaxVersion \in Nat
  BY ResourceAssumption DEF PageInv, ResourceTypeOK
<1>3. GenerationCounts' /\ ReadsKnown'
  BY <1>1 DEF PageInv, GenerationCounts, ReadsKnown, Current
<1>4. CASE shown' = shown /\ ~Current(r)
  <2>1. (\E q \in reads : Current(q)) <=> (\E q \in reads' : Current(q)')
    BY <1>1, <1>4 DEF Current
  <2> QED
    BY <1>1, <1>3, <1>4, <2>1 DEF PageInv, OnScreen, ResourceTypeOK, ShownIsLatest
<1>5. CASE shown' = Failed /\ Current(r)
  <2>1. \A q \in reads' : ~Current(q)'
    BY <1>1, <1>5 DEF PageInv, ReadsKnown, Current
  <2>2. wanted # Nothing
    BY <1>2, <1>5 DEF PageInv, ReadsKnown
  <2>3. ResourceTypeOK'
    BY <1>1, <1>5 DEF PageInv, ResourceTypeOK
  <2> QED
    BY <1>1, <1>3, <1>5, <2>1, <2>2, <2>3 DEF PageInv, OnScreen, ShownIsLatest, Failed
<1>6. ASSUME NEW v \in r.since..version, shown' = Ready([of |-> r.of, version |-> v]), Current(r)
      PROVE  PageInv'
  <2>1. \A q \in reads' : ~Current(q)'
    BY <1>1, <1>6 DEF PageInv, ReadsKnown, Current
  <2>2. r.of = wanted /\ r.since = asked /\ wanted # Nothing
    BY <1>2, <1>6 DEF PageInv, ReadsKnown
  <2>3. v \in Versions /\ v >= asked
    BY <1>2, <2>2 DEF Versions
  <2>4. shown' \in [status : {"ready"}, data : Answer, stale : {FALSE}]
    BY <1>2, <1>6, <2>3 DEF Ready, Answer
  <2>5. ResourceTypeOK'
    BY <1>1, <2>4 DEF PageInv, ResourceTypeOK
  <2>6. shown'.data.of = wanted /\ shown'.data.version >= asked
    BY <1>6, <2>2, <2>3 DEF Ready
  <2>7. ShownIsLatest'
    BY <1>1, <2>1, <2>2, <2>4, <2>5, <2>6 DEF ShownIsLatest
  <2> QED
    BY <1>3, <2>4, <2>5, <2>7 DEF PageInv, OnScreen
<1> QED
  BY <1>1, <1>4, <1>5, <1>6

(* Every step of the page keeps it.                                                  *)
LEMMA PageSafe ==
  ASSUME PageInv, [ResourceNext]_resourceVars
  PROVE  PageInv'
<1>1. CASE UNCHANGED resourceVars
  BY <1>1 DEF resourceVars, PageInv, ResourceTypeOK, OnScreen, GenerationCounts, ReadsKnown, Current,
     ShownIsLatest
<1>2. ASSUME NEW loader \in Loaders \cup {Nothing}, AskFor(loader) PROVE PageInv'
  BY <1>2, EffectSafe DEF AskFor
<1>3. CASE Reload
  BY <1>3, EffectSafe DEF Reload, PageInv, ResourceTypeOK
<1>4. ASSUME NEW r \in reads, AnswerRead(r) \/ ReadFails(r) PROVE PageInv'
  BY <1>4, ReadEndsSafe
<1>5. CASE DataChanges
  <2>1. version \in Nat /\ version' = version + 1 /\ version' \in Versions /\ MaxVersion \in Nat
    BY <1>5, ResourceAssumption DEF DataChanges, PageInv, ResourceTypeOK, Versions
  <2>2. \A r \in reads : r.since \in Nat
    BY DEF PageInv, ResourceTypeOK, Versions
  <2>3. ReadsKnown'
    BY <1>5, <2>1, <2>2 DEF DataChanges, PageInv, ReadsKnown, Current, ResourceTypeOK, Versions
  <2> QED
    BY <1>5, <2>1, <2>3 DEF DataChanges, PageInv, ResourceTypeOK, OnScreen, GenerationCounts,
       ShownIsLatest, Current
<1> QED
  BY <1>1, <1>2, <1>3, <1>4, <1>5 DEF ResourceNext

(* Whatever a page asks for, in which order answers come, or how many never do: what   *)
(* it shows as current is the answer to its newest read (useResource).               *)
THEOREM PageShowsLatest == ClientsSpec => []ShownIsLatest
<1>1. ClientsInit => PageInv
  BY PageStarts DEF ClientsInit
<1>2. ClientsNext => [ResourceNext]_resourceVars
  BY DEF ClientsNext, McpNext, PageNext, FormNext, EditingNext, ExporterNext
<1>3. UNCHANGED clientVars => UNCHANGED resourceVars
  BY DEF clientVars
<1>4. PageInv /\ [ClientsNext]_clientVars => PageInv'
  BY <1>2, <1>3, PageSafe
<1>5. PageInv => ShownIsLatest
  BY DEF PageInv
<1> QED
  BY <1>1, <1>4, <1>5, PTL DEF ClientsSpec

-----------------------------------------------------------------------------
(* The form and its drafts. *)

(* A form is there for somebody the last session read named, and leaves nothing.       *)
FormIsOfASession ==
  /\ ~Mounted => form = NoForm
  /\ Mounted => known # Nobody

(* What the timer will write is what the form reads.                                 *)
TimerIsText == form.timer # NoDraft => form.ready /\ form.timer = form.text

(* A form of nobody's session, or one that was sent, has no work in it: these are the  *)
(* forms that do not save when they leave the page.                                  *)
NothingToKeep ==
  /\ Mounted /\ (token = Nobody \/ form.sent) => work[form.of] = NoDraft
  /\ form.skip => token = Nobody \/ form.sent

(* Without a timer the draft is up to date, should the tab close.                     *)
SavedWhenQuiet ==
  Mounted /\ form.ready /\ form.timer = NoDraft /\ work[form.of] # NoDraft =>
    drafts[form.of] = work[form.of]

(* Since drafts were cleared no form is on the page that has anything to write.        *)
QuietAfterLogout ==
  untouched /\ Mounted => (form.skip /\ form.timer = NoDraft) \/ form.text = Blank

DraftInv ==
  /\ WorkIsKept /\ NothingAfterLogout
  /\ FormIsOfASession /\ TimerIsText /\ NothingToKeep /\ SavedWhenQuiet /\ QuietAfterLogout

(* No form is open, and nothing is kept.                                             *)
LEMMA DraftsStart == DraftsInit => DraftInv
<1> SUFFICES ASSUME DraftsInit PROVE DraftInv
  OBVIOUS
<1>1. form = NoForm /\ ~Mounted /\ NoForm \in Form
  BY DraftsAssumption DEF DraftsInit, NoForm, Mounted, Form
<1>2. NoForm.timer = NoDraft /\ NoForm.ready = FALSE /\ NoForm.skip = FALSE
  BY DEF NoForm
<1>3. DraftsTypeOK
  BY <1>1 DEF DraftsInit, DraftsTypeOK
<1> QED
  BY <1>1, <1>2, <1>3 DEF DraftsInit, DraftInv, WorkIsKept, NothingAfterLogout, FormIsOfASession,
     TimerIsText, NothingToKeep, SavedWhenQuiet, QuietAfterLogout

(* What is true of the form where DraftInv holds: of its types, and when it is there.    *)
LEMMA FormKnown ==
  ASSUME DraftInv
  PROVE  /\ form \in Form /\ form.of \in People \cup {Nobody} /\ Nobody \notin People
         /\ form.text \in Texts \cup {Blank} /\ form.timer \in Texts \cup {Blank, NoDraft}
         /\ form.prompt \in Texts \cup {NoDraft}
         /\ form.ready \in BOOLEAN /\ form.skip \in BOOLEAN /\ form.sent \in BOOLEAN
         /\ form.sending \in BOOLEAN
         /\ Blank \notin Texts /\ NoDraft \notin Texts /\ NoDraft # Blank
         /\ \A text \in Texts \cup {Blank} :
              Kept(text) \in Texts \cup {NoDraft} /\ (Kept(text) # NoDraft => Kept(text) = text)
         /\ \A p \in People : drafts[p] \in Texts \cup {NoDraft} /\ work[p] \in Texts \cup {NoDraft}
         /\ form.ready \/ form.timer # NoDraft \/ form.prompt # NoDraft \/ form.sending \/ form.sent
              \/ form.skip => Mounted
         /\ Mounted => form.of \in People
<1>1. form \in Form
  BY DEF DraftInv, WorkIsKept, DraftsTypeOK
<1>2. ~Mounted => form = NoForm
  BY DEF DraftInv, FormIsOfASession
<1>3. /\ NoForm.ready = FALSE /\ NoForm.timer = NoDraft /\ NoForm.prompt = NoDraft
      /\ NoForm.sending = FALSE /\ NoForm.sent = FALSE /\ NoForm.skip = FALSE
  BY DEF NoForm
<1>4. \A text \in Texts \cup {Blank} :
        Kept(text) \in Texts \cup {NoDraft} /\ (Kept(text) # NoDraft => Kept(text) = text)
  BY DEF Kept
<1>5. \A p \in People : drafts[p] \in Texts \cup {NoDraft} /\ work[p] \in Texts \cup {NoDraft}
  BY DEF DraftInv, WorkIsKept, DraftsTypeOK
<1> QED
  BY <1>1, <1>2, <1>3, <1>4, <1>5, DraftsAssumption DEF Form, Mounted

(* The cleanup of a form keeps the work of its account in the draft, and nothing more   *)
(* than its work.                                                                    *)
LEMMA FlushKeeps ==
  ASSUME DraftInv
  PROVE  /\ Flushed \in [People -> Texts \cup {NoDraft}]
         /\ \A p \in People : work[p] # NoDraft => Flushed[p] = work[p]
         /\ untouched => Flushed = Empty
<1>1. drafts \in [People -> Texts \cup {NoDraft}]
  BY DEF DraftInv, WorkIsKept, DraftsTypeOK
<1>2. CASE Mounted /\ ~form.skip /\ form.ready
  <2>1. Flushed = [drafts EXCEPT ![form.of] = Kept(form.text)]
    BY <1>2 DEF Flushed, Persist
  <2>2. form.of \in People
    BY <1>2, FormKnown
  <2>3. Kept(form.text) \in Texts \cup {NoDraft}
    BY FormKnown
  <2>4. work[form.of] # NoDraft => Kept(form.text) = work[form.of]
    <3>1. work[form.of] # NoDraft => form.text = work[form.of]
      BY <1>2, <2>2 DEF DraftInv, WorkIsKept
    <3> QED
      BY <2>2, <3>1, FormKnown DEF Kept
  <2>5. \A p \in People : p # form.of /\ work[p] # NoDraft => drafts[p] = work[p]
    BY DEF DraftInv, WorkIsKept
  <2>6. untouched => Kept(form.text) = NoDraft /\ drafts = Empty
    BY <1>2 DEF DraftInv, QuietAfterLogout, NothingAfterLogout, Kept
  <2>7. untouched => Flushed = Empty
    BY <2>1, <2>2, <2>6 DEF Empty
  <2> QED
    BY <1>1, <2>1, <2>2, <2>3, <2>4, <2>5, <2>7
<1>3. CASE ~(Mounted /\ ~form.skip /\ form.ready)
  <2>1. Flushed = drafts
    BY <1>3 DEF Flushed, Persist
  <2>2. ASSUME NEW p \in People, work[p] # NoDraft PROVE drafts[p] = work[p]
    <3>1. CASE form.of = p /\ form.ready
      <4>1. Mounted /\ form.skip
        BY <1>3, <3>1, FormKnown
      <4>2. work[p] = NoDraft
        BY <3>1, <4>1 DEF DraftInv, NothingToKeep
      <4> QED
        BY <2>2, <4>2
    <3>2. CASE ~(form.of = p /\ form.ready)
      BY <2>2, <3>2 DEF DraftInv, WorkIsKept
    <3> QED
      BY <3>1, <3>2
  <2> QED
    BY <1>1, <2>1, <2>2 DEF DraftInv, NothingAfterLogout
<1> QED
  BY <1>2, <1>3

(* So a form may go, whatever the session is by then.                                  *)
LEMMA GoneSafe ==
  ASSUME DraftInv, form' = NoForm, drafts' = Flushed, UNCHANGED <<work, untouched>>,
         left' \subseteq People, leaving' \in BOOLEAN, asks' \subseteq People \cup {Nobody},
         token' \in People \cup {Nobody}, known' \in People \cup {Nobody}
  PROVE  DraftInv'
<1>1. /\ NoForm \in Form /\ NoForm.of = Nobody /\ NoForm.timer = NoDraft /\ NoForm.ready = FALSE
      /\ NoForm.skip = FALSE /\ NoForm.sent = FALSE /\ Nobody \notin People
  BY DraftsAssumption DEF NoForm, Form
<1>2. ~Mounted'
  BY <1>1 DEF Mounted
<1>3. DraftsTypeOK'
  BY <1>1, FlushKeeps DEF DraftInv, WorkIsKept, DraftsTypeOK
<1>4. WorkIsKept' /\ NothingAfterLogout'
  BY <1>1, <1>3, FlushKeeps DEF WorkIsKept, NothingAfterLogout, Empty
<1> QED
  BY <1>1, <1>2, <1>4 DEF DraftInv, FormIsOfASession, TimerIsText, NothingToKeep, SavedWhenQuiet,
     QuietAfterLogout

(* What sessions do: a form leaves the page with its session.                        *)
LEMMA SessionSafe ==
  ASSUME DraftInv,
         (\E p \in People : SignIn(p)) \/ Refetch \/ LogOut \/ (\E p \in asks : AnswerSession(p))
  PROVE  DraftInv'
<1>1. /\ token \in People \cup {Nobody} /\ known \in People \cup {Nobody}
      /\ asks \subseteq People \cup {Nobody} /\ left \subseteq People /\ leaving \in BOOLEAN
  BY DEF DraftInv, WorkIsKept, DraftsTypeOK
<1>2. /\ token' \in People \cup {Nobody} /\ known' \in People \cup {Nobody}
      /\ asks' \subseteq People \cup {Nobody} /\ leaving' \in BOOLEAN
      /\ UNCHANGED <<work, untouched>>
  BY <1>1 DEF SignIn, Refetch, LogOut, AnswerSession
<1>3. CASE ~(Mounted /\ Unmount)
  <2>1. Mounted => token' = token /\ known' # Nobody
    BY <1>3 DEF DraftInv, FormIsOfASession, SignIn, Refetch, LogOut, AnswerSession
  <2>2. UNCHANGED <<form, drafts, left>>
    BY <1>3 DEF SignIn, Refetch, LogOut, AnswerSession
  <2>3. DraftsTypeOK'
    BY <1>2, <2>2 DEF DraftInv, WorkIsKept, DraftsTypeOK
  <2>4. form.skip => Mounted
    BY FormKnown
  <2> QED
    BY <1>2, <2>1, <2>2, <2>3, <2>4 DEF DraftInv, WorkIsKept, NothingAfterLogout, FormIsOfASession,
       TimerIsText, NothingToKeep, SavedWhenQuiet, QuietAfterLogout, Mounted
<1>4. CASE Mounted /\ Unmount
  <2>1. left' \subseteq People
    BY <1>1, <1>4, FormKnown DEF Unmount
  <2> QED
    BY <1>2, <1>4, <2>1, GoneSafe DEF Unmount
<1> QED
  BY <1>3, <1>4

(* A log-out leaves a form that is on the page with nothing to save and no timer.       *)
LEMMA LogOutSafe ==
  ASSUME DraftInv, LogOutEnds
  PROVE  DraftInv'
<1>1. /\ token' = Nobody /\ drafts' = Empty /\ work' = Empty /\ untouched' = TRUE
      /\ UNCHANGED <<known, left>> /\ leaving' = FALSE
      /\ form' = IF Mounted THEN Silenced ELSE form
  BY DEF LogOutEnds, Cleared
<1>2. asks' \subseteq People \cup {Nobody}
  BY DEF LogOutEnds, DraftInv, WorkIsKept, DraftsTypeOK
<1>3. /\ form' \in Form /\ form'.of = form.of
      /\ form'.timer = NoDraft /\ (form'.skip <=> Mounted)
  <2>1. CASE Mounted
    BY <1>1, <2>1, FormKnown DEF Silenced, Form
  <2>2. CASE ~Mounted
    BY <1>1, <2>2, FormKnown
  <2> QED
    BY <2>1, <2>2
<1>4. Mounted' <=> Mounted
  BY <1>3 DEF Mounted
<1>5. Empty \in [People -> Texts \cup {NoDraft}] /\ \A p \in People : Empty[p] = NoDraft
  BY DEF Empty
<1>6. DraftsTypeOK'
  BY <1>1, <1>2, <1>3, <1>5 DEF DraftInv, WorkIsKept, DraftsTypeOK
<1>7. WorkIsKept' /\ NothingAfterLogout'
  BY <1>1, <1>5, <1>6 DEF WorkIsKept, NothingAfterLogout, Empty
<1>8. NothingToKeep' /\ SavedWhenQuiet'
  BY <1>1, <1>3, <1>4, <1>5, FormKnown DEF NothingToKeep, SavedWhenQuiet, Mounted
<1>9. FormIsOfASession' /\ TimerIsText' /\ QuietAfterLogout'
  BY <1>1, <1>3, <1>4 DEF DraftInv, FormIsOfASession, TimerIsText, QuietAfterLogout
<1> QED
  BY <1>7, <1>8, <1>9 DEF DraftInv

(* A form that opens has nothing to keep, or a draft it does not touch yet.             *)
LEMMA OpenSafe ==
  ASSUME DraftInv, OpenForm
  PROVE  DraftInv'
<1>1. PICK draft \in {NoDraft, drafts[token]} :
        /\ form' = [NoForm EXCEPT !.of = token, !.prompt = draft, !.ready = draft = NoDraft,
                                  !.timer = IF draft = NoDraft THEN Blank ELSE NoDraft]
        /\ drafts' = [drafts EXCEPT ![token] = draft]
        /\ work' = IF draft = NoDraft THEN [work EXCEPT ![token] = NoDraft] ELSE work
  BY DEF OpenForm
<1>2. /\ known # Nobody /\ token # Nobody /\ ~Mounted
      /\ UNCHANGED <<token, known, asks, leaving, left, untouched>>
  BY DEF OpenForm, session
<1>3. token \in People /\ form.of = Nobody
  BY <1>2 DEF DraftInv, WorkIsKept, DraftsTypeOK, Mounted
<1>4. draft \in Texts \cup {NoDraft}
  BY <1>1, <1>3, FormKnown
<1>5. /\ form' \in Form /\ form'.of = token /\ form'.text = Blank /\ form'.skip = FALSE
      /\ form'.sent = FALSE /\ form'.ready = (draft = NoDraft)
      /\ form'.timer = IF draft = NoDraft THEN Blank ELSE NoDraft
  BY <1>1, <1>3, <1>4, DraftsAssumption DEF NoForm, Form
<1>6. Mounted'
  BY <1>2, <1>5 DEF Mounted
<1>7. DraftsTypeOK'
  BY <1>1, <1>2, <1>3, <1>4, <1>5 DEF DraftInv, WorkIsKept, DraftsTypeOK
<1>8. WorkIsKept'
  <2>1. \A p \in People : work[p] # NoDraft => drafts[p] = work[p]
    BY <1>3, FormKnown DEF DraftInv, WorkIsKept
  <2>2. drafts \in [People -> Texts \cup {NoDraft}] /\ work \in [People -> Texts \cup {NoDraft}]
    BY DEF DraftInv, WorkIsKept, DraftsTypeOK
  <2>3. ASSUME NEW p \in People, work'[p] # NoDraft
        PROVE  IF form'.of = p /\ form'.ready THEN form'.text = work'[p] ELSE drafts'[p] = work'[p]
    BY <1>1, <1>3, <1>5, <2>1, <2>2, <2>3
  <2> QED
    BY <1>7, <2>3 DEF WorkIsKept
<1>9. NothingAfterLogout'
  <2>1. ASSUME untouched PROVE drafts' = drafts
    <3>1. drafts = Empty
      BY <2>1 DEF DraftInv, NothingAfterLogout
    <3> QED
      BY <1>1, <1>3, <3>1 DEF Empty
  <2> QED
    BY <1>2, <2>1 DEF DraftInv, NothingAfterLogout, Empty
<1>10. FormIsOfASession' /\ TimerIsText' /\ NothingToKeep' /\ SavedWhenQuiet' /\ QuietAfterLogout'
  <2>1. SavedWhenQuiet'
    BY <1>5, DraftsAssumption DEF SavedWhenQuiet
  <2> QED
    BY <1>2, <1>5, <1>6, <2>1 DEF FormIsOfASession, TimerIsText, NothingToKeep, QuietAfterLogout
<1> QED
  BY <1>8, <1>9, <1>10 DEF DraftInv

(* What is typed, offered or thrown away: the work of the account is what the form      *)
(* reads, from here on.                                                              *)
LEMMA RewriteSafe ==
  ASSUME DraftInv, Mounted, ~form.sent, NEW f \in Form, Rewrite(f),
         f.of = form.of, f.sent = form.sent, f.skip = form.skip,
         f.timer = form.timer, f.ready \/ f.ready = form.ready,
         \/ drafts' = drafts
         \/ f.ready /\ drafts' = [drafts EXCEPT ![form.of] = NoDraft]
  PROVE  DraftInv'
<1>1. /\ form' = IF f.ready THEN [f EXCEPT !.timer = f.text] ELSE f
      /\ work' = IF f.ready /\ token # Nobody THEN [work EXCEPT ![f.of] = Kept(f.text)] ELSE work
      /\ untouched' = FALSE
      /\ UNCHANGED <<token, known, asks, leaving, left>>
  BY DEF Rewrite, session
<1>2. /\ form.of \in People /\ form.of # Nobody /\ f.text \in Texts \cup {Blank}
      /\ f.ready \in BOOLEAN
  BY FormKnown DEF Mounted, Form
<1>3. /\ form' \in Form /\ form'.of = form.of /\ form'.sent = form.sent /\ form'.skip = form.skip
      /\ form'.ready = f.ready /\ form'.text = f.text
      /\ form'.timer = IF f.ready THEN f.text ELSE form.timer
  BY <1>1, <1>2 DEF Form
<1>4. Mounted' /\ Mounted
  BY <1>2, <1>3 DEF Mounted
<1>5. /\ drafts \in [People -> Texts \cup {NoDraft}] /\ work \in [People -> Texts \cup {NoDraft}]
      /\ drafts' \in [People -> Texts \cup {NoDraft}] /\ work' \in [People -> Texts \cup {NoDraft}]
  <2>1. drafts \in [People -> Texts \cup {NoDraft}] /\ work \in [People -> Texts \cup {NoDraft}]
    BY DEF DraftInv, WorkIsKept, DraftsTypeOK
  <2>2. Kept(f.text) \in Texts \cup {NoDraft}
    BY <1>2, FormKnown
  <2> QED
    BY <1>1, <2>1, <2>2
<1>6. DraftsTypeOK'
  BY <1>1, <1>3, <1>5 DEF DraftInv, WorkIsKept, DraftsTypeOK
<1>7. \A p \in People \ {form.of} : drafts'[p] = drafts[p] /\ work'[p] = work[p]
  BY <1>1, <1>2, <1>5
<1>8. CASE f.ready
  <2>1. work'[form.of] # NoDraft => form'.text = work'[form.of]
    <3>1. CASE token # Nobody
      BY <1>1, <1>2, <1>3, <1>5, <1>8, <3>1, FormKnown
    <3>2. CASE token = Nobody
      BY <1>1, <1>4, <3>2 DEF DraftInv, NothingToKeep
    <3> QED
      BY <3>1, <3>2
  <2>2. WorkIsKept'
    BY <1>2, <1>3, <1>6, <1>7, <1>8, <2>1 DEF DraftInv, WorkIsKept
  <2>3. form'.timer = form'.text /\ form'.timer # NoDraft
    BY <1>2, <1>3, <1>8, FormKnown
  <2>4. TimerIsText' /\ SavedWhenQuiet'
    BY <1>3, <1>8, <2>3 DEF TimerIsText, SavedWhenQuiet
  <2>5. NothingToKeep'
    BY <1>1, <1>3, <1>4 DEF DraftInv, NothingToKeep
  <2> QED
    BY <1>1, <1>4, <2>2, <2>4, <2>5 DEF DraftInv, FormIsOfASession, QuietAfterLogout, NothingAfterLogout
<1>9. CASE ~f.ready
  <2>1. drafts' = drafts /\ work' = work /\ ~form.ready /\ form.timer = NoDraft
    BY <1>1, <1>9 DEF DraftInv, TimerIsText
  <2>2. WorkIsKept' /\ TimerIsText' /\ SavedWhenQuiet'
    BY <1>3, <1>6, <1>9, <2>1 DEF DraftInv, WorkIsKept, TimerIsText, SavedWhenQuiet
  <2>3. NothingToKeep'
    BY <1>1, <1>3, <1>4, <2>1 DEF DraftInv, NothingToKeep
  <2> QED
    BY <1>1, <1>4, <2>2, <2>3 DEF DraftInv, FormIsOfASession, QuietAfterLogout, NothingAfterLogout
<1> QED
  BY <1>8, <1>9

(* The fields, and the draft that is offered.                                          *)
LEMMA FieldsSafe ==
  ASSUME DraftInv, (\E text \in Texts \cup {Blank} : Type(text)) \/ Restore \/ Discard
  PROVE  DraftInv'
<1>1. ASSUME NEW text \in Texts \cup {Blank}, Type(text) PROVE DraftInv'
  <2> DEFINE f == [form EXCEPT !.text = text]
  <2>1. /\ f \in Form /\ f.of = form.of /\ f.sent = form.sent /\ f.skip = form.skip
        /\ f.timer = form.timer /\ f.ready = form.ready
    BY FormKnown DEF Form
  <2>2. Mounted /\ ~form.sent /\ drafts' = drafts /\ Rewrite(f)
    BY <1>1 DEF Type
  <2> HIDE DEF f
  <2> QED
    BY <2>1, <2>2, RewriteSafe
<1>2. CASE Restore
  <2> DEFINE f == [form EXCEPT !.text = form.prompt, !.prompt = NoDraft, !.ready = TRUE]
  <2>1. Mounted /\ ~form.sent /\ drafts' = drafts /\ Rewrite(f) /\ form.prompt \in Texts
    BY <1>2, FormKnown DEF Restore
  <2>2. /\ f \in Form /\ f.of = form.of /\ f.sent = form.sent /\ f.skip = form.skip
        /\ f.timer = form.timer /\ f.ready = TRUE
    BY <2>1, FormKnown DEF Form
  <2> HIDE DEF f
  <2> QED
    BY <2>1, <2>2, RewriteSafe
<1>3. CASE Discard
  <2> DEFINE f == [form EXCEPT !.prompt = NoDraft, !.ready = TRUE]
  <2>1. Mounted /\ ~form.sent /\ drafts' = [drafts EXCEPT ![form.of] = NoDraft] /\ Rewrite(f)
    BY <1>3, FormKnown DEF Discard
  <2>2. /\ f \in Form /\ f.of = form.of /\ f.sent = form.sent /\ f.skip = form.skip
        /\ f.timer = form.timer /\ f.ready = TRUE
    BY FormKnown DEF Form
  <2> HIDE DEF f
  <2> QED
    BY <2>1, <2>2, RewriteSafe
<1> QED
  BY <1>1, <1>2, <1>3

(* The debounce brings the draft up to what the form reads.                             *)
LEMMA DebouncedSafe ==
  ASSUME DraftInv, Debounced
  PROVE  DraftInv'
<1>1. /\ form.timer # NoDraft /\ form.ready /\ form.timer = form.text /\ Mounted
      /\ form.of \in People
  BY FormKnown DEF Debounced, DraftInv, TimerIsText
<1>2. /\ drafts' = [drafts EXCEPT ![form.of] = Kept(form.text)]
      /\ form' = [form EXCEPT !.timer = NoDraft]
      /\ UNCHANGED <<token, known, asks, leaving, left, work, untouched>>
  BY <1>1 DEF Debounced, Persist, session
<1>3. /\ form' \in Form /\ form'.of = form.of /\ form'.sent = form.sent /\ form'.skip = form.skip
      /\ form'.ready = form.ready /\ form'.text = form.text /\ form'.timer = NoDraft
  BY <1>2, FormKnown DEF Form
<1>4. Mounted'
  BY <1>1, <1>3 DEF Mounted
<1>5. /\ drafts \in [People -> Texts \cup {NoDraft}] /\ Kept(form.text) \in Texts \cup {NoDraft}
  BY FormKnown DEF DraftInv, WorkIsKept, DraftsTypeOK
<1>6. DraftsTypeOK'
  BY <1>2, <1>3, <1>5 DEF DraftInv, WorkIsKept, DraftsTypeOK
<1>7. WorkIsKept'
  BY <1>1, <1>2, <1>3, <1>5, <1>6 DEF DraftInv, WorkIsKept
<1>8. work[form.of] # NoDraft => form.text = work[form.of] /\ Kept(form.text) = form.text
  BY <1>1, FormKnown DEF DraftInv, WorkIsKept, Kept
<1>9. SavedWhenQuiet'
  BY <1>1, <1>2, <1>3, <1>5, <1>8 DEF SavedWhenQuiet
<1>10. NothingAfterLogout'
  <2>1. ASSUME untouched PROVE drafts = Empty /\ form.text = Blank
    BY <1>1, <2>1 DEF DraftInv, NothingAfterLogout, QuietAfterLogout
  <2>2. ASSUME untouched PROVE drafts' = Empty
    BY <1>1, <1>2, <2>1, <2>2 DEF Kept, Empty
  <2> QED
    BY <1>2, <2>2 DEF NothingAfterLogout, Empty
<1>11. QuietAfterLogout' /\ NothingToKeep' /\ TimerIsText' /\ FormIsOfASession'
  BY <1>1, <1>2, <1>3, <1>4 DEF DraftInv, QuietAfterLogout, NothingToKeep, TimerIsText,
     FormIsOfASession, Mounted
<1> QED
  BY <1>7, <1>9, <1>10, <1>11 DEF DraftInv

(* A submission that is sent, and one that is refused, leave the form as it is.         *)
LEMMA SendSafe ==
  ASSUME DraftInv, Submit \/ Refused
  PROVE  DraftInv'
<1>1. PICK sending \in BOOLEAN : form' = [form EXCEPT !.sending = sending]
  BY DEF Submit, Refused
<1>2. UNCHANGED <<token, known, asks, leaving, drafts, left, work, untouched>> /\ Mounted
  BY FormKnown DEF Submit, Refused, session
<1>3. /\ form' \in Form /\ form'.of = form.of /\ form'.sent = form.sent /\ form'.skip = form.skip
      /\ form'.ready = form.ready /\ form'.text = form.text /\ form'.timer = form.timer
  BY <1>1, FormKnown DEF Form
<1>4. Mounted'
  BY <1>2, <1>3 DEF Mounted
<1>5. WorkIsKept'
  BY <1>2, <1>3 DEF DraftInv, WorkIsKept, DraftsTypeOK
<1> QED
  BY <1>2, <1>3, <1>4, <1>5 DEF DraftInv, NothingAfterLogout, QuietAfterLogout, NothingToKeep,
     TimerIsText, FormIsOfASession, SavedWhenQuiet, Empty

(* The next submission begins with an empty form, and with one that saves again.        *)
LEMMA AnotherSafe ==
  ASSUME DraftInv, SubmitAnother
  PROVE  DraftInv'
<1>1. /\ form' = Another /\ form.sent
      /\ UNCHANGED <<token, known, asks, leaving, drafts, left, work, untouched>>
  BY DEF SubmitAnother, session
<1>2. Mounted /\ form.of \in People
  BY <1>1, FormKnown
<1>3. /\ form' \in Form /\ form'.of = form.of /\ form'.sent = FALSE /\ form'.skip = FALSE
      /\ form'.ready = form.ready /\ form'.text = Blank
      /\ form'.timer = IF form.ready THEN Blank ELSE NoDraft
  BY <1>1, FormKnown DEF Another, Form
<1>4. Mounted'
  BY <1>2, <1>3 DEF Mounted
<1>5. work[form.of] = NoDraft
  BY <1>1, <1>2 DEF DraftInv, NothingToKeep
<1>6. WorkIsKept'
  BY <1>1, <1>3, <1>5 DEF DraftInv, WorkIsKept, DraftsTypeOK
<1> QED
  BY <1>1, <1>2, <1>3, <1>4, <1>5, <1>6 DEF DraftInv, NothingAfterLogout, QuietAfterLogout,
     NothingToKeep, TimerIsText, FormIsOfASession, SavedWhenQuiet, Empty

(* A submission takes the draft of its account, and its work with it.                   *)
LEMMA SubmittedSafe ==
  ASSUME DraftInv, NEW p \in People, Submitted(p)
  PROVE  /\ drafts' \in [People -> Texts \cup {NoDraft}] /\ work' \in [People -> Texts \cup {NoDraft}]
         /\ work'[p] = NoDraft
         /\ \A q \in People \ {p} : drafts'[q] = drafts[q] /\ work'[q] = work[q]
         /\ drafts = Empty => drafts' = Empty
<1>1. drafts \in [People -> Texts \cup {NoDraft}] /\ work \in [People -> Texts \cup {NoDraft}]
  BY DEF DraftInv, WorkIsKept, DraftsTypeOK
<1> QED
  BY <1>1 DEF Submitted, Empty

(* The listing is taken: the form has nothing to keep any more.                      *)
LEMMA AcceptedSafe ==
  ASSUME DraftInv, Accepted
  PROVE  DraftInv'
<1>1. /\ form.sending /\ form' = [form EXCEPT !.sending = FALSE, !.sent = TRUE, !.skip = TRUE,
                                            !.timer = NoDraft]
      /\ Submitted(form.of)
      /\ UNCHANGED <<token, known, asks, leaving, left, untouched>>
  BY DEF Accepted, session
<1>2. Mounted /\ form.of \in People
  BY <1>1, FormKnown
<1>3. /\ form' \in Form /\ form'.of = form.of /\ form'.sent = TRUE /\ form'.skip = TRUE
      /\ form'.ready = form.ready /\ form'.text = form.text /\ form'.timer = NoDraft
  BY <1>1, FormKnown DEF Form
<1>4. Mounted'
  BY <1>2, <1>3 DEF Mounted
<1>5. WorkIsKept'
  BY <1>1, <1>2, <1>3, SubmittedSafe DEF DraftInv, WorkIsKept, DraftsTypeOK
<1>6. NothingAfterLogout' /\ QuietAfterLogout'
  BY <1>1, <1>2, <1>3, SubmittedSafe DEF DraftInv, NothingAfterLogout, QuietAfterLogout, Empty
<1> QED
  BY <1>1, <1>2, <1>3, <1>4, <1>5, <1>6, SubmittedSafe DEF DraftInv, NothingToKeep, TimerIsText,
     FormIsOfASession, SavedWhenQuiet

(* The answer for a form that is gone may meet the account's next one.                  *)
LEMMA LateSafe ==
  ASSUME DraftInv, NEW p \in left, AcceptedLate(p) \/ RefusedLate(p)
  PROVE  DraftInv'
<1>1. p \in People /\ left' \subseteq People /\ UNCHANGED <<token, known, asks, leaving, form, untouched>>
  BY DEF DraftInv, WorkIsKept, DraftsTypeOK, AcceptedLate, RefusedLate, session
<1>2. CASE RefusedLate(p)
  BY <1>1, <1>2 DEF RefusedLate, DraftInv, WorkIsKept, DraftsTypeOK, NothingAfterLogout,
     QuietAfterLogout, NothingToKeep, TimerIsText, FormIsOfASession, SavedWhenQuiet, Mounted, Empty
<1>3. CASE AcceptedLate(p)
  <2>1. Submitted(p)
    BY <1>3 DEF AcceptedLate
  <2>2. WorkIsKept'
    BY <1>1, <2>1, SubmittedSafe DEF DraftInv, WorkIsKept, DraftsTypeOK
  <2>3. NothingAfterLogout'
    BY <1>1, <2>1, SubmittedSafe DEF DraftInv, NothingAfterLogout, Empty
  <2>4. Mounted => form.of \in People
    BY FormKnown
  <2>5. NothingToKeep' /\ SavedWhenQuiet'
    BY <1>1, <2>1, <2>4, SubmittedSafe DEF DraftInv, NothingToKeep, SavedWhenQuiet, Mounted
  <2> QED
    BY <1>1, <2>2, <2>3, <2>5 DEF DraftInv, QuietAfterLogout, TimerIsText, FormIsOfASession, Mounted
<1> QED
  BY <1>2, <1>3

(* The tab closes, with what was typed within the debounce.                             *)
LEMMA CloseSafe ==
  ASSUME DraftInv, ClosePage
  PROVE  DraftInv'
<1>1. /\ form' = NoForm /\ known' = Nobody /\ asks' = {token} /\ leaving' = FALSE /\ left' = {}
      /\ work' = IF Mounted /\ form.timer # NoDraft
                 THEN [work EXCEPT ![form.of] = drafts[form.of]] ELSE work
      /\ UNCHANGED <<token, drafts, untouched>>
  BY DEF ClosePage
<1>2. /\ NoForm \in Form /\ NoForm.of = Nobody /\ NoForm.timer = NoDraft /\ NoForm.ready = FALSE
      /\ NoForm.skip = FALSE /\ NoForm.sent = FALSE /\ Nobody \notin People
  BY DraftsAssumption DEF NoForm, Form
<1>3. ~Mounted' /\ (Mounted => form.of \in People)
  BY <1>1, <1>2, FormKnown DEF Mounted
<1>4. drafts \in [People -> Texts \cup {NoDraft}] /\ work \in [People -> Texts \cup {NoDraft}]
  BY DEF DraftInv, WorkIsKept, DraftsTypeOK
<1>5. DraftsTypeOK'
  BY <1>1, <1>2, <1>3, <1>4 DEF DraftInv, WorkIsKept, DraftsTypeOK
<1>6. ASSUME NEW p \in People, work'[p] # NoDraft PROVE drafts[p] = work'[p]
  <2>1. CASE form.of = p /\ form.ready
    <3>1. Mounted
      BY <2>1, FormKnown
    <3>2. CASE form.timer # NoDraft
      BY <1>1, <1>4, <2>1, <3>1, <3>2
    <3>3. CASE form.timer = NoDraft
      BY <1>1, <1>6, <2>1, <3>1, <3>3 DEF DraftInv, SavedWhenQuiet
    <3> QED
      BY <3>2, <3>3
  <2>2. CASE ~(form.of = p /\ form.ready)
    <3>1. work[p] # NoDraft => drafts[p] = work[p]
      BY <2>2 DEF DraftInv, WorkIsKept
    <3>2. work'[p] = work[p] \/ work'[p] = drafts[p]
      BY <1>1, <1>3, <1>4
    <3> QED
      BY <1>6, <3>1, <3>2
  <2> QED
    BY <2>1, <2>2
<1>7. WorkIsKept'
  BY <1>1, <1>2, <1>5, <1>6 DEF WorkIsKept
<1> QED
  BY <1>1, <1>2, <1>3, <1>7 DEF DraftInv, NothingAfterLogout, FormIsOfASession, TimerIsText,
     NothingToKeep, SavedWhenQuiet, QuietAfterLogout, Empty

(* Every step of the form and of the sessions keeps it.                              *)
LEMMA DraftsSafe ==
  ASSUME DraftInv, [DraftsNext]_draftVars
  PROVE  DraftInv'
<1>1. CASE UNCHANGED draftVars
  BY <1>1 DEF draftVars, DraftInv, WorkIsKept, DraftsTypeOK, NothingAfterLogout, FormIsOfASession,
     TimerIsText, NothingToKeep, SavedWhenQuiet, QuietAfterLogout, Mounted, Empty
<1>2. CASE LeavePage
  <2>1. /\ left' \subseteq People
        /\ UNCHANGED <<token, known, asks, leaving, work, untouched>>
        /\ form' = NoForm /\ drafts' = Flushed
    BY <1>2, FormKnown DEF LeavePage, Unmount, session, DraftInv, WorkIsKept, DraftsTypeOK
  <2>2. /\ token' \in People \cup {Nobody} /\ known' \in People \cup {Nobody}
        /\ asks' \subseteq People \cup {Nobody} /\ leaving' \in BOOLEAN
    BY <2>1 DEF DraftInv, WorkIsKept, DraftsTypeOK
  <2> QED
    BY <2>1, <2>2, GoneSafe
<1> QED
  BY <1>1, <1>2, SessionSafe, LogOutSafe, OpenSafe, FieldsSafe, DebouncedSafe, SendSafe, AnotherSafe,
     AcceptedSafe, LateSafe, CloseSafe DEF DraftsNext

(* The session, the form and its answers, in any order.                                 *)
LEMMA DraftsInvariance == ClientsSpec => []DraftInv
<1>1. ClientsInit => DraftInv
  BY DraftsStart DEF ClientsInit
<1>2. ClientsNext => [DraftsNext]_draftVars
  BY DEF ClientsNext, McpNext, PageNext, FormNext, EditingNext, ExporterNext
<1>3. UNCHANGED clientVars => UNCHANGED draftVars
  BY DEF clientVars
<1>4. DraftInv /\ [ClientsNext]_clientVars => DraftInv'
  BY <1>2, <1>3, DraftsSafe
<1> QED
  BY <1>1, <1>4, PTL DEF ClientsSpec

(* In any order of log-ins, log-outs, session reads, keystrokes, submissions and         *)
(* closed tabs, what an account wrote is in its form or its draft (persistDraft).          *)
THEOREM DraftsKeepWork == ClientsSpec => []WorkIsKept
<1>1. DraftInv => WorkIsKept
  BY DEF DraftInv
<1> QED
  BY <1>1, DraftsInvariance, PTL

(* From a log-out to the next keystroke no draft of anybody is in the storage           *)
(* (clearAllOpportunityDrafts), whatever forms, timers and cleanups were under way.       *)
THEOREM LogOutLeavesNothing == ClientsSpec => []NothingAfterLogout
<1>1. DraftInv => NothingAfterLogout
  BY DEF DraftInv
<1> QED
  BY <1>1, DraftsInvariance, PTL

-----------------------------------------------------------------------------
(* The writer of the export. *)

(* A run is at a step of the plan, with a dataset that is above the floor.              *)
RunsTyped ==
  /\ run \in [Runs -> [at : 0..Ended, data : Datasets \cup {Nowhere}]]
  /\ \A r \in Runs : Running(r) => run[r].data \in Datasets \ Short

(* An archive that a run has truncated is one that it is writing, or ended writing.      *)
PartBy(n, r) == n \in Writing(r) \/ <<r, n>> \in halted

(* The archives that exist have the bytes of their names, unless they are parts; they    *)
(* never go. Those that a run is past are among the ones that were written to the end.   *)
ArchivesStay ==
  /\ DOMAIN archives \subseteq Contents
  /\ \A n \in DOMAIN archives : archives[n] = n \/ \E r \in Runs : archives[n] = r /\ PartBy(n, r)
  /\ completed \subseteq DOMAIN archives /\ halted \subseteq Runs \X Contents
  /\ \A r \in Runs : Writing(r) \subseteq DOMAIN archives
  /\ \A r \in Runs : Running(r) =>
       /\ run[r].at > 2 => Bytes("json", r) \in completed
       /\ run[r].at > 4 => Bytes("csv", r) \in completed

(* What is pointed to is one of these, from a dataset above the floor.                  *)
Published(bytes) == bytes \in completed /\ bytes.data \notin Short

PointersLand ==
  /\ latest \in [Formats -> Contents \cup {Nowhere}]
  /\ \A f \in Formats : latest[f] # Nowhere => Published(latest[f])
  /\ \A n \in snapshots : Published(n)
  /\ manifest # Nowhere =>
       /\ DOMAIN manifest = Formats
       /\ \A f \in Formats : Published(manifest[f])
       /\ manifest["json"].data = manifest["csv"].data

(* Of one dataset, whether or not they are there.                                      *)
AliasesAgree ==
  \/ latest["json"] = latest["csv"]
  \/ latest["json"] # Nowhere /\ latest["csv"] # Nowhere /\ latest["json"].data = latest["csv"].data

(* As long as nothing straddled, one run at most is between its two renames, and the     *)
(* alias it has replaced is its own.                                                   *)
OnePromotion ==
  /\ straddling \in BOOLEAN
  /\ ~straddling =>
       /\ \A r, q \in Runs : Promoting(r) /\ Promoting(q) => r = q
       /\ \A r \in Runs : Promoting(r) => latest["json"] = Bytes("json", r)
       /\ (\E r \in Runs : Promoting(r)) \/ AliasesAgree

WriterInv == RunsTyped /\ ArchivesStay /\ PointersLand /\ OnePromotion

(* The plan, and where in it a run is (writeExport).                                   *)
LEMMA PlanIs ==
  /\ DOMAIN Plan = 1..10 /\ Ended = 11
  /\ Plan[1] = "open json" /\ Plan[2] = "fill json" /\ Plan[3] = "open csv"
  /\ Plan[4] = "fill csv" /\ Plan[5] = "stage json" /\ Plan[6] = "stage csv"
  /\ Plan[7] = "rename json" /\ Plan[8] = "rename csv" /\ Plan[9] = "rename manifest"
  /\ Plan[10] = "record"
  /\ \A n \in 1..10 : Plan[n] = "rename csv" <=> n = 8
<1>1. DOMAIN Plan = 1..10 /\ Ended = 11
  BY DEF Plan, Ended
<1>2. /\ Plan[1] = "open json" /\ Plan[2] = "fill json" /\ Plan[3] = "open csv"
      /\ Plan[4] = "fill csv" /\ Plan[5] = "stage json" /\ Plan[6] = "stage csv"
      /\ Plan[7] = "rename json" /\ Plan[8] = "rename csv" /\ Plan[9] = "rename manifest"
      /\ Plan[10] = "record"
  BY DEF Plan
<1>3. \A n \in 1..10 : \/ n = 1 \/ n = 2 \/ n = 3 \/ n = 4 \/ n = 5
                       \/ n = 6 \/ n = 7 \/ n = 8 \/ n = 9 \/ n = 10
  OBVIOUS
<1>4. \A n \in 1..10 : Plan[n] = "rename csv" <=> n = 8
  BY <1>2, <1>3
<1> QED
  BY <1>1, <1>2, <1>4

(* The steps of a run by their number, so that no proof unfolds the plan.            *)
LEMMA PlanSteps ==
  ASSUME run \in [Runs -> [at : 0..Ended, data : Datasets \cup {Nowhere}]], NEW r \in Runs
  PROVE  /\ Ended = 11
         /\ run[r].at \in 0..11
         /\ Running(r) <=> run[r].at \in 1..10
         /\ IsAt(r, "open json") <=> run[r].at = 1
         /\ IsAt(r, "fill json") <=> run[r].at = 2
         /\ IsAt(r, "open csv") <=> run[r].at = 3
         /\ IsAt(r, "fill csv") <=> run[r].at = 4
         /\ IsAt(r, "stage json") <=> run[r].at = 5
         /\ IsAt(r, "stage csv") <=> run[r].at = 6
         /\ IsAt(r, "rename json") <=> run[r].at = 7
         /\ IsAt(r, "rename csv") <=> run[r].at = 8
         /\ IsAt(r, "rename manifest") <=> run[r].at = 9
         /\ IsAt(r, "record") <=> run[r].at = 10
<1>1. DOMAIN Plan = 1..10 /\ Ended = 11
  BY PlanIs
<1>2. /\ Plan[1] = "open json" /\ Plan[2] = "fill json" /\ Plan[3] = "open csv"
      /\ Plan[4] = "fill csv" /\ Plan[5] = "stage json" /\ Plan[6] = "stage csv"
      /\ Plan[7] = "rename json" /\ Plan[8] = "rename csv" /\ Plan[9] = "rename manifest"
      /\ Plan[10] = "record"
  BY PlanIs
<1>3. run[r].at \in 0..11
  BY <1>1
<1>4. Running(r) <=> run[r].at \in 1..10
  BY <1>1 DEF Running
<1>5. \A n \in 1..10 : \/ n = 1 \/ n = 2 \/ n = 3 \/ n = 4 \/ n = 5
                       \/ n = 6 \/ n = 7 \/ n = 8 \/ n = 9 \/ n = 10
  OBVIOUS
<1> DEFINE n == run[r].at
<1>6. CASE n \in 1..10
  <2> HIDE DEF n
  <2> QED
    BY <1>1, <1>2, <1>3, <1>4, <1>5, <1>6 DEF IsAt, n
<1>7. CASE n \notin 1..10
  <2>1. ~Running(r)
    BY <1>4, <1>7
  <2>2. \A k \in 1..10 : run[r].at # k
    BY <1>7
  <2>3. /\ run[r].at # 1 /\ run[r].at # 2 /\ run[r].at # 3 /\ run[r].at # 4 /\ run[r].at # 5
        /\ run[r].at # 6 /\ run[r].at # 7 /\ run[r].at # 8 /\ run[r].at # 9 /\ run[r].at # 10
    BY <2>2
  <2>4. \A step : ~IsAt(r, step)
    BY <2>1 DEF IsAt
  <2> QED
    BY <1>1, <1>3, <1>4, <2>3, <2>4
<1> QED
  BY <1>6, <1>7

(* Where in the plan an archive is filled.                                             *)
LEMMA FillSteps ==
  \A n : /\ n \in DOMAIN Plan /\ Plan[n] = "fill json" <=> n = 2
         /\ n \in DOMAIN Plan /\ Plan[n] = "fill csv" <=> n = 4
<1>1. \A n \in 1..10 : \/ n = 1 \/ n = 2 \/ n = 3 \/ n = 4 \/ n = 5
                       \/ n = 6 \/ n = 7 \/ n = 8 \/ n = 9 \/ n = 10
  OBVIOUS
<1>2. 2 \in 1..10 /\ 4 \in 1..10
  OBVIOUS
<1> QED
  BY <1>1, <1>2, PlanIs

(* What a run is writing, by the number of its step.                                   *)
LEMMA WritingIs ==
  ASSUME run \in [Runs -> [at : 0..Ended, data : Datasets \cup {Nowhere}]], NEW r \in Runs
  PROVE  /\ run[r].at = 2 => Writing(r) = {Bytes("json", r)}
         /\ run[r].at = 4 => Writing(r) = {Bytes("csv", r)}
         /\ run[r].at \notin {2, 4} => Writing(r) = {}
<1>1. (IsAt(r, "fill json") <=> run[r].at = 2) /\ (IsAt(r, "fill csv") <=> run[r].at = 4)
  BY FillSteps DEF IsAt, Running
<1>2. Writing(r) = {Bytes(f, r) : f \in {g \in Formats : run[r].at = IF g = "json" THEN 2 ELSE 4}}
  <2>1. {g \in Formats : IsAt(r, IF g = "json" THEN "fill json" ELSE "fill csv")}
          = {g \in Formats : run[r].at = IF g = "json" THEN 2 ELSE 4}
    BY <1>1 DEF Formats
  <2> QED
    BY <2>1 DEF Writing
<1>3. CASE run[r].at = 2
  <2>1. {g \in Formats : run[r].at = IF g = "json" THEN 2 ELSE 4} = {"json"}
    BY <1>3 DEF Formats
  <2> QED
    BY <1>2, <1>3, <2>1
<1>4. CASE run[r].at = 4
  <2>1. {g \in Formats : run[r].at = IF g = "json" THEN 2 ELSE 4} = {"csv"}
    BY <1>4 DEF Formats
  <2> QED
    BY <1>2, <1>4, <2>1
<1>5. CASE run[r].at \notin {2, 4}
  <2>1. {g \in Formats : run[r].at = IF g = "json" THEN 2 ELSE 4} = {}
    BY <1>5 DEF Formats
  <2> QED
    BY <1>2, <1>5, <2>1
<1> QED
  BY <1>3, <1>4, <1>5

(* The same after a step.                                                              *)
LEMMA WritingNext ==
  ASSUME run' \in [Runs -> [at : 0..Ended, data : Datasets \cup {Nowhere}]], NEW r \in Runs
  PROVE  /\ run'[r].at = 2 => Writing(r)' = {Bytes("json", r)'}
         /\ run'[r].at = 4 => Writing(r)' = {Bytes("csv", r)'}
         /\ run'[r].at \notin {2, 4} => Writing(r)' = {}
<1>1. (IsAt(r, "fill json")' <=> run'[r].at = 2) /\ (IsAt(r, "fill csv")' <=> run'[r].at = 4)
  BY FillSteps DEF IsAt, Running
<1>2. Writing(r)' = {Bytes(f, r)' : f \in {g \in Formats : run'[r].at = IF g = "json" THEN 2 ELSE 4}}
  <2>1. {g \in Formats : IsAt(r, IF g = "json" THEN "fill json" ELSE "fill csv")'}
          = {g \in Formats : run'[r].at = IF g = "json" THEN 2 ELSE 4}
    BY <1>1 DEF Formats
  <2> QED
    BY <2>1 DEF Writing
<1>3. CASE run'[r].at = 2
  <2>1. {g \in Formats : run'[r].at = IF g = "json" THEN 2 ELSE 4} = {"json"}
    BY <1>3 DEF Formats
  <2> QED
    BY <1>2, <1>3, <2>1
<1>4. CASE run'[r].at = 4
  <2>1. {g \in Formats : run'[r].at = IF g = "json" THEN 2 ELSE 4} = {"csv"}
    BY <1>4 DEF Formats
  <2> QED
    BY <1>2, <1>4, <2>1
<1>5. CASE run'[r].at \notin {2, 4}
  <2>1. {g \in Formats : run'[r].at = IF g = "json" THEN 2 ELSE 4} = {}
    BY <1>5 DEF Formats
  <2> QED
    BY <1>2, <1>5, <2>1
<1> QED
  BY <1>3, <1>4, <1>5

(* No run has begun, and nothing is published.                                       *)
LEMMA WriterStarts == WriterInit => WriterInv
<1> SUFFICES ASSUME WriterInit PROVE WriterInv
  OBVIOUS
<1>1. \A r \in Runs : run[r].at = 0
  BY DEF WriterInit
<1>2. run \in [Runs -> [at : 0..Ended, data : Datasets \cup {Nowhere}]]
  BY DEF WriterInit, Ended, Plan
<1>3. ASSUME NEW r \in Runs PROVE ~Running(r) /\ ~Promoting(r)
  <2>1. Running(r) <=> run[r].at \in 1..10
    BY <1>2, PlanSteps
  <2>2. ~Running(r)
    BY <1>1, <2>1
  <2> QED
    BY <2>2 DEF Promoting, IsAt
<1>4. RunsTyped
  BY <1>2, <1>3 DEF RunsTyped
<1>5. ArchivesStay /\ PointersLand
  <2>1. \A r \in Runs : Writing(r) = {}
    BY <1>1, <1>2, WritingIs
  <2> QED
    BY <1>3, <2>1 DEF WriterInit, ArchivesStay, PointersLand
<1>6. OnePromotion
  BY <1>3 DEF WriterInit, OnePromotion, AliasesAgree, Formats
<1> QED
  BY <1>4, <1>5, <1>6 DEF WriterInv

(* Where the other runs are does not move.                                             *)
LEMMA OthersStay ==
  ASSUME NEW q \in Runs, run'[q] = run[q]
  PROVE  /\ Running(q)' <=> Running(q)
         /\ Promoting(q)' <=> Promoting(q)
         /\ \A f \in Formats : Bytes(f, q)' = Bytes(f, q)
         /\ Writing(q)' = Writing(q)
<1>1. /\ Running(q)' <=> Running(q)
      /\ Promoting(q)' <=> Promoting(q)
      /\ \A f \in Formats : Bytes(f, q)' = Bytes(f, q)
      /\ \A step : IsAt(q, step)' <=> IsAt(q, step)
  BY DEF Running, Promoting, IsAt, Bytes
<1>2. Writing(q)' = Writing(q)
  BY <1>1 DEF Writing
<1> QED
  BY <1>1, <1>2

(* A run that goes on is at the next step, with the same dataset; its bytes are what     *)
(* they were, and so are those of the others.                                          *)
LEMMA NextStep ==
  ASSUME RunsTyped, NEW r \in Runs, Running(r), GoesOn(r)
  PROVE  /\ RunsTyped'
         /\ run[r].at \in 1..10 /\ run'[r].at = run[r].at + 1
         /\ Running(r)' <=> run[r].at < 10
         /\ Promoting(r)' <=> run[r].at = 7
         /\ Promoting(r) <=> run[r].at = 8
         /\ \A q \in Runs \ {r} : run'[q] = run[q]
         /\ \A q \in Runs, f \in Formats : Bytes(f, q)' = Bytes(f, q)
<1>1. run[r].at \in 1..10 /\ Ended = 11 /\ run \in [Runs -> [at : 0..Ended, data : Datasets \cup {Nowhere}]]
  BY PlanSteps DEF RunsTyped
<1>2. run' = [run EXCEPT ![r].at = run[r].at + 1]
  BY DEF GoesOn
<1>3. run' \in [Runs -> [at : 0..Ended, data : Datasets \cup {Nowhere}]]
  BY <1>1, <1>2
<1>4. /\ run'[r].at = run[r].at + 1
      /\ \A q \in Runs : run'[q].data = run[q].data
      /\ \A q \in Runs \ {r} : run'[q] = run[q]
  BY <1>1, <1>2
<1>5. /\ Running(r)' <=> run[r].at < 10
      /\ Promoting(r)' <=> run[r].at = 7
      /\ Promoting(r) <=> run[r].at = 8
  <2> DEFINE n == run[r].at
  <2>1. n \in 1..10 /\ run'[r].at = n + 1
    BY <1>1, <1>4
  <2>2. /\ Running(r)' <=> run'[r].at \in DOMAIN Plan
        /\ Promoting(r)' <=> run'[r].at \in DOMAIN Plan /\ Plan[run'[r].at] = "rename csv"
        /\ Promoting(r) <=> n \in DOMAIN Plan /\ Plan[n] = "rename csv"
    BY DEF Running, Promoting, IsAt
  <2> HIDE DEF n
  <2>3. (n + 1 \in 1..10 <=> n < 10) /\ (n + 1 = 8 <=> n = 7)
    BY <2>1
  <2>4. Running(r)' <=> n < 10
    BY <2>1, <2>2, <2>3, PlanIs
  <2>5. Promoting(r)' <=> n = 7
    <3>1. Promoting(r)' <=> n + 1 \in 1..10 /\ Plan[n + 1] = "rename csv"
      BY <2>1, <2>2, PlanIs
    <3>2. n + 1 \in 1..10 => (Plan[n + 1] = "rename csv" <=> n + 1 = 8)
      BY PlanIs
    <3>3. n = 7 => n + 1 \in 1..10
      OBVIOUS
    <3> QED
      BY <2>3, <3>1, <3>2, <3>3
  <2>6. Promoting(r) <=> n = 8
    BY <2>1, <2>2, PlanIs
  <2> QED
    BY <2>4, <2>5, <2>6 DEF n
<1>6. RunsTyped'
  <2>1. ASSUME NEW q \in Runs, Running(q)' PROVE run'[q].data \in Datasets \ Short
    BY <1>4, <2>1, OthersStay DEF RunsTyped
  <2> QED
    BY <1>3, <2>1 DEF RunsTyped
<1> QED
  BY <1>1, <1>4, <1>5, <1>6 DEF Bytes

(* What a run writes is of its own data, and whole.                                  *)
LEMMA BytesTyped ==
  ASSUME RunsTyped, NEW r \in Runs, Running(r)
  PROVE  /\ \A f \in Formats : /\ Bytes(f, r) \in Contents
                               /\ Bytes(f, r).data = run[r].data
                               /\ Bytes(f, r) # Nowhere
         /\ run[r].data \notin Short
<1>1. run[r].data \in Datasets \ Short
  BY DEF RunsTyped
<1>2. \A f \in Formats : Bytes(f, r) \in Contents /\ Bytes(f, r).data = run[r].data
  BY <1>1 DEF Bytes, Contents
<1> QED
  BY <1>1, <1>2, ExportWriterAssumption

(* One archive is opened or filled, and no other changes.                              *)
LEMMA PutIs ==
  ASSUME NEW bytes, NEW placed, Put(bytes, placed)
  PROVE  /\ DOMAIN archives' = DOMAIN archives \cup {bytes}
         /\ archives'[bytes] = placed
         /\ \A n \in DOMAIN archives \ {bytes} : archives'[n] = archives[n]
BY DEF Put, archiveName

(* What is pointed to stays, while archives are only added.                             *)
LEMMA PointersKept ==
  ASSUME PointersLand, UNCHANGED <<latest, manifest, snapshots>>, completed \subseteq completed'
  PROVE  PointersLand'
<1>1. \A bytes : Published(bytes) => Published(bytes)'
  BY DEF Published
<1> QED
  BY <1>1 DEF PointersLand

(* A part of an archive stays the part of a run that has not moved.                     *)
LEMMA PartStays ==
  ASSUME NEW q \in Runs, run'[q] = run[q] \/ Writing(q) = {}, halted \subseteq halted', NEW n, PartBy(n, q)
  PROVE  PartBy(n, q)'
BY OthersStay DEF PartBy

(* While a run that is not writing moves, the archives are what they were.               *)
LEMMA PartsKept ==
  ASSUME ArchivesStay, NEW r \in Runs, \A q \in Runs \ {r} : run'[q] = run[q],
         Writing(r) = {}, UNCHANGED <<archives, completed, halted>>
  PROVE  \A n \in DOMAIN archives' :
           archives'[n] = n \/ \E q \in Runs : archives'[n] = q /\ PartBy(n, q)'
<1> SUFFICES ASSUME NEW n \in DOMAIN archives, archives[n] # n
             PROVE  \E q \in Runs : archives[n] = q /\ PartBy(n, q)'
  OBVIOUS
<1>1. PICK q \in Runs : archives[n] = q /\ PartBy(n, q)
  BY DEF ArchivesStay
<1>2. PartBy(n, q)'
  BY <1>1, PartStays
<1> QED
  BY <1>1, <1>2

(* A run that neither begins nor ends its promotion leaves what is known of those.       *)
LEMMA PromotionKept ==
  ASSUME OnePromotion, UNCHANGED <<latest, straddling>>,
         \A q \in Runs : /\ Promoting(q)' <=> Promoting(q)
                         /\ Promoting(q) => Bytes("json", q)' = Bytes("json", q)
  PROVE  OnePromotion'
BY DEF OnePromotion, AliasesAgree

(* A run begins, or refuses data that is too short.                                  *)
LEMMA BeginSafe ==
  ASSUME WriterInv, NEW r \in Runs, NEW d \in Datasets, BeginRun(r, d)
  PROVE  WriterInv'
<1>1. /\ run[r].at = 0 /\ Ended = 11
      /\ run' = [run EXCEPT ![r] = [at |-> IF d \in Short THEN 11 ELSE 1, data |-> d]]
      /\ UNCHANGED <<archives, latest, manifest, snapshots, straddling, completed, halted>>
  BY PlanIs DEF BeginRun, histories
<1>2. run \in [Runs -> [at : 0..11, data : Datasets \cup {Nowhere}]]
  BY <1>1 DEF WriterInv, RunsTyped
<1>3. /\ run' \in [Runs -> [at : 0..11, data : Datasets \cup {Nowhere}]]
      /\ run'[r].data = d /\ run'[r].at = IF d \in Short THEN 11 ELSE 1
      /\ \A q \in Runs \ {r} : run'[q] = run[q]
  BY <1>1, <1>2
<1>4. /\ Running(r)' => d \notin Short /\ run'[r].at = 1
      /\ ~Promoting(r)' /\ ~Promoting(r)
  <2>. 0 \notin DOMAIN Plan /\ 11 \notin DOMAIN Plan
    <3>1. DOMAIN Plan = 1..10
      BY PlanIs
    <3> QED
      BY <3>1
  <2>1. Running(r)' => d \notin Short /\ run'[r].at = 1
    BY <1>3 DEF Running
  <2>2. Plan[1] # "rename csv"
    BY PlanIs
  <2>3. ~Promoting(r)'
    BY <2>1, <2>2 DEF Promoting, IsAt
  <2>4. ~Running(r)
    BY <1>1 DEF Running
  <2>5. ~Promoting(r)
    BY <2>4 DEF Promoting, IsAt
  <2> QED
    BY <2>1, <2>3, <2>5
<1>5. RunsTyped'
  <2>1. ASSUME NEW q \in Runs, Running(q)' PROVE run'[q].data \in Datasets \ Short
    BY <1>3, <1>4, <2>1, OthersStay DEF WriterInv, RunsTyped
  <2> QED
    BY <1>1, <1>3, <2>1 DEF RunsTyped
<1>6. ArchivesStay'
  <2>1. ASSUME NEW q \in Runs, Running(q)'
        PROVE  /\ run'[q].at > 2 => Bytes("json", q)' \in completed
               /\ run'[q].at > 4 => Bytes("csv", q)' \in completed
    <3>1. CASE q = r
      BY <1>4, <2>1, <3>1
    <3>2. CASE q # r
      BY <1>3, <2>1, <3>2, OthersStay DEF WriterInv, ArchivesStay, Formats
    <3> QED
      BY <3>1, <3>2
  <2>2. Writing(r) = {} /\ Writing(r)' = {}
    <3>1. run'[r].at \notin {2, 4}
      BY <1>3
    <3>2. Writing(r)' = {}
      BY <1>3, <1>1, <3>1, WritingNext
    <3>3. Writing(r) = {}
      BY <1>1, <1>2, WritingIs
    <3> QED
      BY <3>2, <3>3
  <2>3. \A q \in Runs : Writing(q)' \subseteq DOMAIN archives
    BY <1>3, <2>2, OthersStay DEF WriterInv, ArchivesStay
  <2>4. \A n \in DOMAIN archives' : archives'[n] = n \/ \E q \in Runs : archives'[n] = q /\ PartBy(n, q)'
    BY <1>1, <1>3, <2>2, PartsKept DEF WriterInv
  <2> QED
    BY <1>1, <2>1, <2>3, <2>4 DEF WriterInv, ArchivesStay
<1>7. OnePromotion'
  <2>1. ASSUME NEW q \in Runs PROVE /\ Promoting(q)' <=> Promoting(q)
                                    /\ Promoting(q) => Bytes("json", q)' = Bytes("json", q)
    BY <1>3, <1>4, OthersStay DEF Formats
  <2> QED
    BY <1>1, <2>1, PromotionKept DEF WriterInv
<1> QED
  BY <1>1, <1>5, <1>6, <1>7, PointersKept DEF WriterInv

(* What a run that goes on is past has been written, and the others' as well.            *)
LEMMA PastIsWritten ==
  ASSUME WriterInv, NEW r \in Runs, Running(r), GoesOn(r), completed \subseteq completed',
         run[r].at = 2 => Bytes("json", r) \in completed',
         run[r].at = 4 => Bytes("csv", r) \in completed'
  PROVE  \A q \in Runs : Running(q)' =>
           /\ run'[q].at > 2 => Bytes("json", q)' \in completed'
           /\ run'[q].at > 4 => Bytes("csv", q)' \in completed'
<1> SUFFICES ASSUME NEW q \in Runs, Running(q)'
             PROVE  /\ run'[q].at > 2 => Bytes("json", q)' \in completed'
                    /\ run'[q].at > 4 => Bytes("csv", q)' \in completed'
  OBVIOUS
<1>1. Bytes("json", q)' = Bytes("json", q) /\ Bytes("csv", q)' = Bytes("csv", q)
  BY NextStep DEF WriterInv, Formats
<1>2. CASE q = r
  <2>1. run[r].at \in 1..10 /\ run'[r].at = run[r].at + 1
    BY NextStep DEF WriterInv
  <2>2. /\ run[r].at > 2 => Bytes("json", r) \in completed'
        /\ run[r].at > 4 => Bytes("csv", r) \in completed'
    BY DEF WriterInv, ArchivesStay
  <2>3. /\ run'[r].at > 2 => run[r].at = 2 \/ run[r].at > 2
        /\ run'[r].at > 4 => run[r].at = 4 \/ run[r].at > 4
    BY <2>1
  <2> QED
    BY <1>1, <1>2, <2>2, <2>3
<1>3. CASE q # r
  <2>1. run'[q] = run[q] /\ Running(q)
    BY <1>3, NextStep, OthersStay DEF WriterInv
  <2> QED
    BY <1>1, <2>1 DEF WriterInv, ArchivesStay
<1> QED
  BY <1>2, <1>3

(* A run that is past its archives leaves them.                                        *)
LEMMA ArchivesStep ==
  ASSUME WriterInv, NEW r \in Runs, Running(r), GoesOn(r), run[r].at > 4,
         UNCHANGED <<archives, completed, halted>>
  PROVE  ArchivesStay'
<1>1. /\ run[r].at \in 1..10 /\ run'[r].at = run[r].at + 1 /\ RunsTyped'
      /\ \A q \in Runs \ {r} : run'[q] = run[q]
  BY NextStep DEF WriterInv
<1>2. Writing(r) = {} /\ Writing(r)' = {}
  <2>1. run[r].at \notin {2, 4} /\ run'[r].at \notin {2, 4}
    BY <1>1
  <2>2. Writing(r) = {}
    BY <2>1, WritingIs DEF WriterInv, RunsTyped
  <2>3. Writing(r)' = {}
    BY <1>1, <2>1, WritingNext DEF RunsTyped
  <2> QED
    BY <2>2, <2>3
<1>3. \A q \in Runs : Writing(q)' \subseteq DOMAIN archives
  BY <1>1, <1>2, OthersStay DEF WriterInv, ArchivesStay
<1>4. \A n \in DOMAIN archives' : archives'[n] = n \/ \E q \in Runs : archives'[n] = q /\ PartBy(n, q)'
  BY <1>1, <1>2, PartsKept DEF WriterInv
<1>5. \A q \in Runs : Running(q)' =>
        /\ run'[q].at > 2 => Bytes("json", q)' \in completed'
        /\ run'[q].at > 4 => Bytes("csv", q)' \in completed'
  BY <1>1, PastIsWritten
<1> QED
  BY <1>3, <1>4, <1>5 DEF WriterInv, ArchivesStay

(* A step of a run that neither begins nor ends its promotion, and leaves the archives   *)
(* and the pointers in order.                                                          *)
LEMMA QuietStepSafe ==
  ASSUME WriterInv, NEW r \in Runs, Running(r), GoesOn(r), run[r].at \notin {7, 8},
         UNCHANGED <<latest, straddling>>, PointersLand', ArchivesStay'
  PROVE  WriterInv'
<1>1. RunsTyped'
  BY NextStep DEF WriterInv
<1>2. OnePromotion'
  <2>1. ASSUME NEW q \in Runs PROVE /\ Promoting(q)' <=> Promoting(q)
                                    /\ Promoting(q) => Bytes("json", q)' = Bytes("json", q)
    <3>1. Bytes("json", q)' = Bytes("json", q)
      BY NextStep DEF WriterInv, Formats
    <3>2. CASE q = r
      BY <3>1, <3>2, NextStep DEF WriterInv
    <3>3. CASE q # r
      BY <3>1, <3>3, NextStep, OthersStay DEF WriterInv
    <3> QED
      BY <3>2, <3>3
  <2> QED
    BY <2>1, PromotionKept DEF WriterInv
<1> QED
  BY <1>1, <1>2 DEF WriterInv

(* An archive is opened: it is a part, of the run that goes on to write it.              *)
LEMMA OpenedSafe ==
  ASSUME WriterInv, NEW r \in Runs, NEW format \in Formats, OpenArchive(r, format)
  PROVE  WriterInv'
<1> DEFINE bytes == Bytes(format, r)
<1>1. /\ Running(r) /\ GoesOn(r)
      /\ UNCHANGED <<latest, manifest, snapshots, straddling, completed, halted>>
      /\ Put(bytes, r)
      /\ run[r].at = IF format = "json" THEN 1 ELSE 3
  <2>1. CASE format = "json"
    BY <2>1, PlanSteps DEF OpenArchive, IsAt, WriterInv, RunsTyped, histories
  <2>2. CASE format # "json"
    BY <2>2, PlanSteps DEF OpenArchive, IsAt, WriterInv, RunsTyped, histories
  <2> QED
    BY <2>1, <2>2
<1>2. bytes \in Contents
  BY <1>1, BytesTyped DEF WriterInv
<1>3. /\ DOMAIN archives' = DOMAIN archives \cup {bytes}
      /\ archives'[bytes] = r
      /\ \A n \in DOMAIN archives \ {bytes} : archives'[n] = archives[n]
  BY <1>1, PutIs
<1>4. /\ run[r].at \in 1..10 /\ run'[r].at = run[r].at + 1 /\ RunsTyped'
      /\ \A q \in Runs \ {r} : run'[q] = run[q]
      /\ bytes' = bytes
  BY <1>1, NextStep DEF WriterInv
<1>5. Writing(r) = {} /\ Writing(r)' = {bytes}
  <2>1. run[r].at \notin {2, 4}
    BY <1>1
  <2>2. Writing(r) = {}
    BY <2>1, WritingIs DEF WriterInv, RunsTyped
  <2>3. Writing(r)' = {bytes'}
    <3>1. CASE format = "json"
      <4>1. run'[r].at = 2
        BY <1>1, <1>4, <3>1
      <4> QED
        BY <1>4, <3>1, <4>1, WritingNext DEF RunsTyped
    <3>2. CASE format = "csv"
      <4>1. run'[r].at = 4
        BY <1>1, <1>4, <3>2
      <4> QED
        BY <1>4, <3>2, <4>1, WritingNext DEF RunsTyped
    <3> QED
      BY <3>1, <3>2 DEF Formats
  <2> QED
    BY <1>4, <2>2, <2>3
<1> HIDE DEF bytes
<1>6. ASSUME NEW n \in DOMAIN archives'
      PROVE  archives'[n] = n \/ \E q \in Runs : archives'[n] = q /\ PartBy(n, q)'
  <2>1. CASE n = bytes
    BY <1>3, <1>5, <2>1 DEF PartBy
  <2>2. CASE n # bytes /\ archives[n] # n
    <3>1. PICK q \in Runs : archives[n] = q /\ PartBy(n, q)
      BY <1>3, <2>2 DEF WriterInv, ArchivesStay
    <3>2. PartBy(n, q)'
      BY <1>1, <1>4, <1>5, <3>1, PartStays
    <3> QED
      BY <1>3, <2>2, <3>1, <3>2
  <2>3. CASE n # bytes /\ archives[n] = n
    BY <1>3, <2>3
  <2> QED
    BY <2>1, <2>2, <2>3
<1>7. \A q \in Runs : Writing(q)' \subseteq DOMAIN archives'
  BY <1>3, <1>4, <1>5, OthersStay DEF WriterInv, ArchivesStay
<1>8. \A q \in Runs : Running(q)' =>
        /\ run'[q].at > 2 => Bytes("json", q)' \in completed'
        /\ run'[q].at > 4 => Bytes("csv", q)' \in completed'
  BY <1>1, PastIsWritten
<1>9. ArchivesStay'
  BY <1>1, <1>2, <1>3, <1>6, <1>7, <1>8 DEF WriterInv, ArchivesStay
<1>10. PointersLand'
  BY <1>1, PointersKept DEF WriterInv
<1>11. run[r].at \notin {7, 8}
  BY <1>1
<1>12. Running(r) /\ GoesOn(r) /\ UNCHANGED <<latest, straddling>>
  BY <1>1
<1> QED
  BY <1>9, <1>10, <1>11, <1>12, QuietStepSafe

(* It is filled: now it is whole, or still the part of another run that has truncated it  *)
(* since.                                                                             *)
LEMMA FilledSafe ==
  ASSUME WriterInv, NEW r \in Runs, NEW format \in Formats, FillArchive(r, format)
  PROVE  WriterInv'
<1> DEFINE bytes == Bytes(format, r)
<1>1. PICK placed \in {bytes} \cup ({archives[bytes]} \cap (Runs \ {r})) :
        /\ Running(r) /\ GoesOn(r)
        /\ UNCHANGED <<latest, manifest, snapshots, straddling, halted>>
        /\ Put(bytes, placed) /\ completed' = completed \cup {bytes}
        /\ run[r].at = IF format = "json" THEN 2 ELSE 4
  <2>1. CASE format = "json"
    BY <2>1, PlanSteps DEF FillArchive, IsAt, WriterInv, RunsTyped, archiveName
  <2>2. CASE format # "json"
    BY <2>2, PlanSteps DEF FillArchive, IsAt, WriterInv, RunsTyped, archiveName
  <2> QED
    BY <2>1, <2>2
<1>2. bytes \in Contents
  BY <1>1, BytesTyped DEF WriterInv
<1>3. /\ DOMAIN archives' = DOMAIN archives \cup {bytes}
      /\ archives'[bytes] = placed
      /\ \A n \in DOMAIN archives \ {bytes} : archives'[n] = archives[n]
  BY <1>1, PutIs
<1>4. /\ run[r].at \in 1..10 /\ run'[r].at = run[r].at + 1 /\ RunsTyped'
      /\ \A q \in Runs \ {r} : run'[q] = run[q]
  BY <1>1, NextStep DEF WriterInv
<1>5. Writing(r) = {bytes} /\ Writing(r)' = {}
  <2>1. run'[r].at \notin {2, 4}
    BY <1>1, <1>4
  <2>2. Writing(r)' = {}
    BY <1>4, <2>1, WritingNext DEF RunsTyped
  <2>3. Writing(r) = {bytes}
    BY <1>1, WritingIs DEF WriterInv, RunsTyped, Formats
  <2> QED
    BY <2>2, <2>3
<1>6. bytes \in DOMAIN archives
  BY <1>5 DEF WriterInv, ArchivesStay
<1>7. (run[r].at = 2 => Bytes("json", r) \in completed') /\ (run[r].at = 4 => Bytes("csv", r) \in completed')
  BY <1>1 DEF Formats
<1>8. run[r].at \notin {7, 8}
  BY <1>1
<1> HIDE DEF bytes
<1>9. ASSUME NEW n \in DOMAIN archives'
      PROVE  archives'[n] = n \/ \E q \in Runs : archives'[n] = q /\ PartBy(n, q)'
  <2>1. CASE n = bytes /\ placed = bytes
    BY <1>3, <2>1
  <2>2. CASE n = bytes /\ placed # bytes
    <3>1. placed \in Runs \ {r} /\ archives[bytes] = placed
      BY <1>1, <2>2
    <3>2. PICK q \in Runs : archives[n] = q /\ PartBy(n, q)
      BY <1>6, <2>2, <3>1 DEF WriterInv, ArchivesStay
    <3>3. q = placed /\ q # r
      BY <2>2, <3>1, <3>2
    <3>4. PartBy(n, q)'
      BY <1>1, <1>4, <3>2, <3>3, PartStays
    <3> QED
      BY <1>3, <2>2, <3>3, <3>4
  <2>3. CASE n # bytes /\ archives[n] # n
    <3>1. PICK q \in Runs : archives[n] = q /\ PartBy(n, q)
      BY <1>3, <2>3 DEF WriterInv, ArchivesStay
    <3>2. PartBy(n, q)'
      <4>1. CASE q = r
        BY <1>1, <1>5, <2>3, <3>1, <4>1 DEF PartBy
      <4>2. CASE q # r
        BY <1>1, <1>4, <3>1, <4>2, PartStays
      <4> QED
        BY <4>1, <4>2
    <3> QED
      BY <1>3, <2>3, <3>1, <3>2
  <2>4. CASE n # bytes /\ archives[n] = n
    BY <1>3, <2>4
  <2> QED
    BY <2>1, <2>2, <2>3, <2>4
<1>10. \A q \in Runs : Writing(q)' \subseteq DOMAIN archives'
  BY <1>3, <1>4, <1>5, OthersStay DEF WriterInv, ArchivesStay
<1>11. \A q \in Runs : Running(q)' =>
         /\ run'[q].at > 2 => Bytes("json", q)' \in completed'
         /\ run'[q].at > 4 => Bytes("csv", q)' \in completed'
  BY <1>1, <1>7, PastIsWritten
<1>12. ArchivesStay'
  BY <1>1, <1>2, <1>3, <1>9, <1>10, <1>11 DEF WriterInv, ArchivesStay
<1>13. PointersLand'
  BY <1>1, PointersKept DEF WriterInv
<1> QED
  BY <1>1, <1>8, <1>12, <1>13, QuietStepSafe

(* The aliases are staged under names of their own.                                  *)
LEMMA StageSafe ==
  ASSUME WriterInv, NEW r \in Runs, StageAlias(r)
  PROVE  WriterInv'
<1>1. /\ Running(r) /\ GoesOn(r) /\ run[r].at \in {5, 6}
      /\ UNCHANGED <<archives, latest, manifest, snapshots, straddling, completed, halted>>
  BY PlanSteps DEF StageAlias, IsAt, WriterInv, RunsTyped, histories
<1>2. PointersLand'
  BY <1>1, PointersKept DEF WriterInv
<1>3. ArchivesStay'
  BY <1>1, ArchivesStep
<1> QED
  BY <1>1, <1>2, <1>3, QuietStepSafe

(* What a run that is past its archives points to is there.                             *)
LEMMA RunPublishes ==
  ASSUME WriterInv, NEW r \in Runs, Running(r), run[r].at > 4, NEW format \in Formats
  PROVE  Published(Bytes(format, r))
<1>1. run[r].at \in 0..11
  BY PlanSteps DEF WriterInv, RunsTyped
<1>2. Bytes("json", r) \in completed /\ Bytes("csv", r) \in completed
  BY <1>1 DEF WriterInv, ArchivesStay
<1> QED
  BY <1>2, BytesTyped DEF WriterInv, Published, Formats

(* The manifest comes after both aliases, of the same data.                          *)
LEMMA ManifestSafe ==
  ASSUME WriterInv, NEW r \in Runs, RenameManifest(r)
  PROVE  WriterInv'
<1>1. /\ Running(r) /\ GoesOn(r) /\ run[r].at = 9
      /\ UNCHANGED <<archives, latest, snapshots, straddling, completed, halted>>
      /\ manifest' = [format \in Formats |-> Bytes(format, r)]
  BY PlanSteps DEF RenameManifest, IsAt, WriterInv, RunsTyped, histories
<1>2. /\ DOMAIN manifest' = Formats
      /\ \A f \in Formats : Published(manifest'[f])
      /\ manifest'["json"].data = manifest'["csv"].data
  BY <1>1, RunPublishes, BytesTyped DEF WriterInv, Formats
<1>3. PointersLand'
  BY <1>1, <1>2 DEF WriterInv, PointersLand, Published
<1>4. ArchivesStay'
  BY <1>1, ArchivesStep
<1> QED
  BY <1>1, <1>3, <1>4, QuietStepSafe

(* The snapshots are recorded last.                                                  *)
LEMMA RecordSafe ==
  ASSUME WriterInv, NEW r \in Runs, RecordSnapshots(r)
  PROVE  WriterInv'
<1>1. /\ Running(r) /\ GoesOn(r) /\ run[r].at = 10
      /\ UNCHANGED <<archives, latest, manifest, straddling, completed, halted>>
      /\ snapshots' \in {snapshots, snapshots \cup {Bytes(format, r) : format \in Formats}}
  BY PlanSteps DEF RecordSnapshots, IsAt, WriterInv, RunsTyped, histories
<1>2. \A n \in snapshots' : Published(n)
  BY <1>1, RunPublishes DEF WriterInv, PointersLand
<1>3. PointersLand'
  BY <1>1, <1>2 DEF WriterInv, PointersLand, Published
<1>4. ArchivesStay'
  BY <1>1, ArchivesStep
<1> QED
  BY <1>1, <1>3, <1>4, QuietStepSafe

(* The first rename: the run is the one between its renames, unless another is, and      *)
(* then `straddling` says so.                                                          *)
LEMMA RenameJsonSafe ==
  ASSUME WriterInv, NEW r \in Runs, RenameJson(r)
  PROVE  WriterInv'
<1>1. /\ Running(r) /\ GoesOn(r) /\ run[r].at = 7
      /\ UNCHANGED <<archives, manifest, snapshots, completed, halted>>
      /\ latest' = [latest EXCEPT !["json"] = Bytes("json", r)]
      /\ straddling' = (\E q \in Runs \ {r} : Promoting(q))
  BY PlanSteps DEF RenameJson, IsAt, WriterInv, RunsTyped, histories
<1>2. RunsTyped' /\ Promoting(r)' /\ \A q \in Runs \ {r} : Promoting(q)' <=> Promoting(q)
  BY <1>1, NextStep, OthersStay DEF WriterInv
<1>3. ArchivesStay'
  BY <1>1, ArchivesStep
<1>4. Published(Bytes("json", r)) /\ Bytes("json", r) \in Contents
  BY <1>1, RunPublishes, BytesTyped DEF WriterInv, Formats
<1>5. latest \in [Formats -> Contents \cup {Nowhere}]
  BY DEF WriterInv, PointersLand
<1>6. /\ latest' \in [Formats -> Contents \cup {Nowhere}] /\ latest'["json"] = Bytes("json", r)
      /\ \A f \in Formats : latest'[f] # Nowhere => Published(latest'[f])
  BY <1>1, <1>4, <1>5 DEF WriterInv, PointersLand, Formats
<1>7. PointersLand'
  BY <1>1, <1>6 DEF WriterInv, PointersLand, Published
<1>8. Bytes("json", r)' = Bytes("json", r)
  BY <1>1, NextStep DEF WriterInv, Formats
<1>9. OnePromotion'
  <2>1. ~straddling' => \A q \in Runs : Promoting(q)' => q = r
    BY <1>1, <1>2
  <2> QED
    BY <1>1, <1>2, <1>6, <1>8, <2>1 DEF OnePromotion
<1> QED
  BY <1>2, <1>3, <1>7, <1>9 DEF WriterInv

(* The second: unless something straddled, both aliases are of this run by now.          *)
LEMMA RenameCsvSafe ==
  ASSUME WriterInv, NEW r \in Runs, RenameCsv(r)
  PROVE  WriterInv'
<1>1. /\ Running(r) /\ GoesOn(r) /\ run[r].at = 8
      /\ UNCHANGED <<archives, manifest, snapshots, straddling, completed, halted>>
      /\ latest' = [latest EXCEPT !["csv"] = Bytes("csv", r)]
  BY PlanSteps DEF RenameCsv, IsAt, WriterInv, RunsTyped, histories
<1>2. /\ RunsTyped' /\ ~Promoting(r)' /\ Promoting(r)
      /\ \A q \in Runs \ {r} : Promoting(q)' <=> Promoting(q)
  BY <1>1, NextStep, OthersStay DEF WriterInv
<1>3. ArchivesStay'
  BY <1>1, ArchivesStep
<1>4. /\ Published(Bytes("csv", r)) /\ Bytes("csv", r) \in Contents
      /\ Bytes("csv", r) # Nowhere /\ Bytes("json", r) # Nowhere
      /\ Bytes("csv", r).data = Bytes("json", r).data
  BY <1>1, RunPublishes, BytesTyped DEF WriterInv, Formats
<1>5. latest \in [Formats -> Contents \cup {Nowhere}]
  BY DEF WriterInv, PointersLand
<1>6. /\ latest' \in [Formats -> Contents \cup {Nowhere}] /\ latest'["csv"] = Bytes("csv", r)
      /\ latest'["json"] = latest["json"]
      /\ \A f \in Formats : latest'[f] # Nowhere => Published(latest'[f])
  BY <1>1, <1>4, <1>5 DEF WriterInv, PointersLand, Formats
<1>7. PointersLand'
  BY <1>1, <1>6 DEF WriterInv, PointersLand, Published
<1>8. OnePromotion'
  <2>1. ~straddling => (\A q \in Runs : ~Promoting(q)') /\ latest["json"] = Bytes("json", r)
    BY <1>2 DEF WriterInv, OnePromotion
  <2>2. ~straddling => AliasesAgree'
    BY <1>4, <1>6, <2>1 DEF AliasesAgree
  <2> QED
    BY <1>1, <2>1, <2>2 DEF WriterInv, OnePromotion
<1> QED
  BY <1>2, <1>3, <1>7, <1>8 DEF WriterInv

(* A run that ends anywhere leaves what is there.                                       *)
LEMMA FailSafe ==
  ASSUME WriterInv, NEW r \in Runs, RunFails(r)
  PROVE  WriterInv'
<1>1. /\ run' = [run EXCEPT ![r].at = 11] /\ Ended = 11
      /\ straddling' = (straddling \/ Promoting(r))
      /\ UNCHANGED <<archives, latest, manifest, snapshots, completed>>
      /\ halted' = halted \cup ({r} \X Writing(r))
  BY PlanIs DEF RunFails
<1>2. run \in [Runs -> [at : 0..11, data : Datasets \cup {Nowhere}]]
  BY <1>1 DEF WriterInv, RunsTyped
<1>3. /\ run' \in [Runs -> [at : 0..11, data : Datasets \cup {Nowhere}]]
      /\ run'[r].at = 11 /\ \A q \in Runs \ {r} : run'[q] = run[q]
  BY <1>1, <1>2
<1>4. ~Running(r)' /\ ~Promoting(r)'
  <2>1. DOMAIN Plan = 1..10
    BY PlanIs
  <2>2. 11 \notin DOMAIN Plan
    BY <2>1
  <2> QED
    BY <1>3, <2>2 DEF Running, Promoting, IsAt
<1>5. \A q \in Runs : Running(q)' => q # r /\ Running(q) /\ run'[q] = run[q]
  BY <1>3, <1>4, OthersStay
<1>6. \A q \in Runs : Promoting(q)' => q # r /\ Promoting(q)
  BY <1>3, <1>4, OthersStay
<1>7. \A q \in Runs \ {r}, f \in Formats : Bytes(f, q)' = Bytes(f, q)
  BY <1>3 DEF Bytes
<1>8. RunsTyped'
  BY <1>1, <1>3, <1>5 DEF WriterInv, RunsTyped
<1>9. ArchivesStay'
  <2>1. Writing(r)' = {}
    BY <1>1, <1>3, WritingNext
  <2>2. \A q \in Runs : Writing(q)' \subseteq DOMAIN archives'
    BY <1>1, <1>3, <2>1, OthersStay DEF WriterInv, ArchivesStay
  <2>3. Writing(r) \subseteq Contents
    BY DEF WriterInv, ArchivesStay
  <2>4. halted' \subseteq Runs \X Contents
    BY <1>1, <2>3 DEF WriterInv, ArchivesStay
  <2>5. ASSUME NEW n \in DOMAIN archives, archives[n] # n
        PROVE  \E q \in Runs : archives[n] = q /\ PartBy(n, q)'
    <3>1. PICK q \in Runs : archives[n] = q /\ PartBy(n, q)
      BY <2>5 DEF WriterInv, ArchivesStay
    <3>2. PartBy(n, q)'
      <4>1. CASE q = r
        BY <1>1, <3>1, <4>1 DEF PartBy
      <4>2. CASE q # r
        BY <1>1, <1>3, <3>1, <4>2, PartStays
      <4> QED
        BY <4>1, <4>2
    <3> QED
      BY <3>1, <3>2
  <2> QED
    BY <1>1, <1>5, <1>7, <2>2, <2>4, <2>5 DEF WriterInv, ArchivesStay, Formats
<1>10. OnePromotion'
  <2>1. ~straddling' => ~straddling /\ \A q \in Runs : Promoting(q)' <=> Promoting(q)
    BY <1>1, <1>3, <1>6, OthersStay
  <2> QED
    BY <1>1, <1>6, <1>7, <2>1 DEF WriterInv, OnePromotion, AliasesAgree, Formats
<1> QED
  BY <1>1, <1>8, <1>9, <1>10, PointersKept DEF WriterInv

(* Every step of the runs keeps it.                                                  *)
LEMMA WriterSafe ==
  ASSUME WriterInv, [WriterNext]_writerVars
  PROVE  WriterInv'
<1>1. CASE UNCHANGED writerVars
  <2>1. UNCHANGED <<run, archives, latest, manifest, snapshots, straddling, completed, halted>>
    BY <1>1 DEF writerVars, histories
  <2>2. \A r \in Runs : /\ Running(r)' <=> Running(r)
                        /\ Promoting(r)' <=> Promoting(r)
                        /\ Bytes("json", r)' = Bytes("json", r) /\ Bytes("csv", r)' = Bytes("csv", r)
                        /\ Writing(r)' = Writing(r)
    BY <2>1, OthersStay DEF Formats
  <2> QED
    BY <2>1, <2>2, PointersKept, PromotionKept DEF WriterInv, RunsTyped, ArchivesStay, PartBy
<1>2. ASSUME NEW r \in Runs, NEW format \in Formats, OpenArchive(r, format) \/ FillArchive(r, format)
      PROVE  WriterInv'
  BY <1>2, OpenedSafe, FilledSafe
<1> QED
  BY <1>1, <1>2, BeginSafe, StageSafe, RenameJsonSafe, RenameCsvSafe, ManifestSafe, RecordSafe, FailSafe
  DEF WriterNext

(* For any number of runs that overlap, fail and die at any step: what a reader or a      *)
(* snapshot is pointed to is above the floor, its archive was written to the end before    *)
(* that, and it is whole, unless a run is writing it again or ended while it did           *)
(* (writeExport, promoteAliases).                                                      *)
THEOREM PointersAlwaysAgree == ClientsSpec => []PointersAgree
<1>1. ClientsInit => WriterInv
  BY WriterStarts DEF ClientsInit
<1>2. ClientsNext => [WriterNext]_writerVars
  BY DEF ClientsNext, McpNext, PageNext, FormNext, EditingNext, ExporterNext
<1>3. UNCHANGED clientVars => UNCHANGED writerVars
  BY DEF clientVars
<1>4. WriterInv /\ [ClientsNext]_clientVars => WriterInv'
  BY <1>2, <1>3, WriterSafe
<1>5. WriterInv => PointersAgree
  <2> SUFFICES ASSUME WriterInv PROVE PointersAgree
    OBVIOUS
  <2>1. WriterTypeOK
    BY DEF WriterInv, RunsTyped, ArchivesStay, PointersLand, OnePromotion, WriterTypeOK
  <2>2. \A bytes : Published(bytes) => bytes.data \notin Short /\ Holds(bytes)
    BY DEF WriterInv, ArchivesStay, PartBy, Published, Holds, archiveName
  <2>3. \A bytes \in Pointed \ {Nowhere} : Published(bytes)
    BY DEF WriterInv, PointersLand, Pointed
  <2>4. straddling \/ (\E r \in Runs : Promoting(r)) \/ AliasesAgree
    BY DEF WriterInv, OnePromotion
  <2> QED
    BY <2>1, <2>2, <2>3, <2>4 DEF WriterInv, PointersLand, AliasesAgree, PointersAgree
<1> QED
  BY <1>1, <1>4, <1>5, PTL DEF ClientsSpec

-----------------------------------------------------------------------------
(* The walk over the dataset. *)

(* How many pages are read, and the entries they had.                             *)
PagesRead == IF walk.at = "total" THEN 1 ELSE walk.page - 1
Seen == walk.ids \cup walk.rows

(* An entry older than s was collected and is gone: it cannot come back as long as s *)
(* stays and nothing overtakes, and nobody will read its document.                   *)
Doomed(s) == \E v \in Seen \ walk.docs : v < s /\ v \notin public

(* Before s is collected every page that was read was full of entries older than s.   *)
OnTheWay(s) ==
  /\ walk.at \in {"rows", "total"} =>
       /\ Rank(s) <= walk.reported
       /\ \/ s \in Seen \/ Doomed(s)
          \/ Cardinality({e \in Seen : e < s}) >= PagesRead * PerPage
  /\ walk.at = "documents" => s \in walk.ids \/ Doomed(s)
  /\ walk.at = "read" => s \in walk.docs

(* Nothing is collected before the first page is whole, no document is read before     *)
(* the last one, and the pages hold all that was reported.                            *)
WalkInOrder ==
  /\ walk.page >= 1
  /\ walk.at = "stats" => walk.page = 1
  /\ walk.at = "total" => walk.page = 1
  /\ walk.page = 1 /\ walk.at \in {"stats", "rows", "total"} => walk.ids = {}
  /\ walk.at # "total" /\ walk.at # "refused" => walk.rows = {}
  /\ walk.at \in {"stats", "rows", "total"} => walk.docs = {}
  /\ walk.at = "rows" /\ walk.page > 1 =>
       walk.page <= walk.pages /\ walk.reported <= walk.pages * PerPage

SourceInv ==
  /\ SourceTypeOK /\ WalkInOrder
  /\ ~overtaken => \A s \in steady : OnTheWay(s)

(* A set of entries is finite, and so is how many they are.                           *)
LEMMA EntriesCounted ==
  ASSUME NEW S \in SUBSET Records
  PROVE  IsFiniteSet(S) /\ Cardinality(S) \in Nat
BY FS_Subset, FS_CardinalityType, ExportSourceAssumption

(* More entries are not fewer.                                                        *)
LEMMA MoreEntries ==
  ASSUME NEW S \in SUBSET Records, NEW T \in SUBSET S
  PROVE  Cardinality(T) <= Cardinality(S)
BY FS_Subset, EntriesCounted

(* As many pages as the total asks for hold the total.                                *)
LEMMA PagesHold ==
  ASSUME NEW total \in Nat
  PROVE  Pages(total) \in Nat \ {0} /\ total <= Pages(total) * PerPage
<1>1. PerPage \in Nat \ {0}
  BY ExportSourceAssumption
<1>2. CASE total = 0
  BY <1>1, <1>2 DEF Pages
<1>3. CASE total # 0
  <2> DEFINE n == total + PerPage - 1
             q == n \div PerPage
  <2>1. n \in Nat /\ n >= PerPage
    BY <1>1, <1>3
  <2> HIDE DEF n
  <2>2. q \in Int /\ n < PerPage * q + PerPage
    BY <1>1, <2>1
  <2>3. q >= 1
    BY <1>1, <2>1, <2>2
  <2>4. total <= q * PerPage
    BY <1>1, <2>2 DEF n
  <2> QED
    BY <1>3, <2>2, <2>3, <2>4 DEF Pages, n
<1> QED
  BY <1>2, <1>3

(* The rank tells entries of the dataset apart and grows with them.                   *)
LEMMA RankGrows ==
  ASSUME public \subseteq Records, NEW e \in public, NEW f \in public, e < f
  PROVE  Rank(e) < Rank(f) /\ Rank(e) \in Nat /\ Rank(f) \in Nat
<1> DEFINE E == {g \in public : g <= e}
           F == {g \in public : g <= f}
<1>0. \A g \in public : g \in Nat
  BY ExportSourceAssumption
<1>1. E \subseteq F /\ f \in F \ E
  BY <1>0
<1>2. E \in SUBSET Records /\ F \in SUBSET Records
  BY ExportSourceAssumption
<1> HIDE DEF E, F
<1>3. IsFiniteSet(F) /\ Cardinality(E) \in Nat /\ Cardinality(F) \in Nat
  BY <1>2, EntriesCounted
<1>4. Cardinality(E) <= Cardinality(F) /\ Cardinality(E) # Cardinality(F)
  BY <1>1, <1>3, FS_Subset
<1>5. Rank(e) = Cardinality(E) /\ Rank(f) = Cardinality(F)
  BY DEF Rank, E, F
<1> QED
  BY <1>3, <1>4, <1>5

(* Ranks are the numbers from one up to the size of the dataset.                      *)
LEMMA RanksAreNumbers ==
  ASSUME public \subseteq Records
  PROVE  /\ Cardinality(public) \in Nat
         /\ [e \in public |-> Rank(e)] \in Surjection(public, 1..Cardinality(public))
         /\ \A e \in public : Rank(e) \in 1..Cardinality(public)
<1> DEFINE N == Cardinality(public)
           r == [e \in public |-> Rank(e)]
<1>1. IsFiniteSet(public) /\ N \in Nat
  BY EntriesCounted
<1>2. ASSUME NEW e \in public PROVE Rank(e) \in 1..N
  <2> DEFINE E == {g \in public : g <= e}
  <2>0. e \in Nat
    BY ExportSourceAssumption
  <2>1. e \in E
    BY <2>0
  <2>5. E \in SUBSET public /\ E \in SUBSET Records
    OBVIOUS
  <2> HIDE DEF E
  <2>2. Cardinality(E) \in Nat /\ IsFiniteSet(E) /\ Cardinality(E) # 0
    BY <2>1, <2>5, EntriesCounted, FS_EmptySet
  <2>3. Cardinality(E) <= N
    BY <2>5, MoreEntries
  <2>4. Rank(e) = Cardinality(E)
    BY DEF Rank, E
  <2> HIDE DEF N
  <2> QED
    BY <1>1, <2>2, <2>3, <2>4
<1>3. r \in Injection(public, 1..N)
  <2>1. r \in [public -> 1..N]
    BY <1>2
  <2>2. ASSUME NEW e \in public, NEW f \in public, r[e] = r[f] PROVE e = f
    <3>1. ~(e < f) /\ ~(f < e)
      BY <2>2, RankGrows
    <3>2. e \in Nat /\ f \in Nat
      BY ExportSourceAssumption
    <3> QED
      BY <3>1, <3>2
  <2>3. IsInjective(r)
    BY <2>1, <2>2 DEF IsInjective
  <2> QED
    BY <2>1, <2>3 DEF Injection
<1>4. IsFiniteSet(1..N) /\ Cardinality(1..N) = N
  <2> HIDE DEF N
  <2> QED
    BY <1>1, FS_Interval
<1> HIDE DEF r
<1>5. r \in Surjection(public, 1..N)
  BY <1>3, <1>4, FS_Injection
<1> QED
  BY <1>1, <1>2, <1>5 DEF r

(* A page that ends below the rank of an entry is full, and older than it.             *)
LEMMA FullPage ==
  ASSUME public \subseteq Records, NEW s \in public, NEW n \in Nat \ {0}, Rank(s) > n * PerPage
  PROVE  Cardinality(Page(n)) >= PerPage /\ \A e \in Page(n) : e < s
<1> DEFINE low == (n - 1) * PerPage
           high == n * PerPage
           r == [e \in public |-> Rank(e)]
           N == Cardinality(public)
<1>1. PerPage \in Nat \ {0} /\ low \in Nat /\ high \in Nat /\ high = low + PerPage
  BY ExportSourceAssumption
<1>2. /\ N \in Nat /\ r \in Surjection(public, 1..N)
      /\ \A e \in public : Rank(e) \in 1..N
  BY RanksAreNumbers
<1>3. Page(n) = {e \in public : low < Rank(e) /\ Rank(e) <= high}
  BY DEF Page
<1>4. high < Rank(s) /\ Rank(s) \in 1..N
  BY <1>2
<1> HIDE DEF low, high, N
<1>5. ASSUME NEW e \in Page(n) PROVE e < s
  <2>1. e \in public /\ Rank(e) <= high /\ Rank(e) \in Nat
    BY <1>2, <1>3, <1>1
  <2>2. e # s /\ ~(s < e)
    BY <1>1, <1>4, <2>1, RankGrows
  <2>3. e \in Nat /\ s \in Nat
    BY <2>1, ExportSourceAssumption
  <2> QED
    BY <2>2, <2>3
<1>6. Cardinality(Page(n)) >= PerPage
  <2> DEFINE I == (low + 1)..high
             f == [e \in Page(n) |-> Rank(e)]
  <2>1. \A e \in Page(n) : Rank(e) \in I
    BY <1>1, <1>2, <1>3
  <2>2. \A k \in I : \E e \in Page(n) : Rank(e) = k
    <3> SUFFICES ASSUME NEW k \in I PROVE \E e \in Page(n) : Rank(e) = k
      OBVIOUS
    <3>1. k \in 1..N /\ low < k /\ k <= high
      BY <1>1, <1>2, <1>4
    <3>2. \E e \in public : r[e] = k
      BY <1>2, <3>1 DEF Surjection
    <3> QED
      BY <1>3, <3>1, <3>2
  <2>3. f \in Surjection(Page(n), I)
    BY <2>1, <2>2 DEF Surjection
  <2>4. Page(n) \in SUBSET Records
    BY <1>3
  <2>5. IsFiniteSet(Page(n))
    BY <2>4, EntriesCounted
  <2> HIDE DEF f
  <2>6. Cardinality(I) <= Cardinality(Page(n))
    BY <2>3, <2>5, FS_Surjection
  <2>7. Cardinality(I) = PerPage
    BY <1>1, FS_Interval
  <2>8. Cardinality(Page(n)) \in Nat
    BY <2>4, EntriesCounted
  <2> QED
    BY <1>1, <2>6, <2>7, <2>8
<1> QED
  BY <1>5, <1>6

(* What a page adds: the entry itself, or another page's worth of older ones.          *)
LEMMA PageTaken ==
  ASSUME public \subseteq Records, NEW s \in public, NEW n \in Nat \ {0},
         NEW ids \in SUBSET Records, Page(n) \cap ids = {},
         \/ s \in ids
         \/ \E v \in ids : v < s /\ v \notin public
         \/ Cardinality({e \in ids : e < s}) >= (n - 1) * PerPage
  PROVE  LET all == ids \cup Page(n)
         IN  \/ s \in all
             \/ \E v \in all : v < s /\ v \notin public
             \/ Cardinality({e \in all : e < s}) >= n * PerPage
<1> DEFINE all == ids \cup Page(n)
           P == {e \in ids : e < s}
           A == {e \in all : e < s}
<1> SUFFICES ASSUME s \notin all, \A v \in all : ~(v < s /\ v \notin public)
             PROVE  Cardinality(A) >= n * PerPage
  OBVIOUS
<1>1. /\ PerPage \in Nat \ {0} /\ (n - 1) * PerPage \in Nat
      /\ n * PerPage = (n - 1) * PerPage + PerPage
  BY ExportSourceAssumption
<1>2. Page(n) \in SUBSET Records
  BY DEF Page
<1>3. IsFiniteSet(P) /\ Cardinality(P) \in Nat /\ Cardinality(P) >= (n - 1) * PerPage
  <2>1. P \in SUBSET Records
    OBVIOUS
  <2> QED
    BY <2>1, EntriesCounted
<1>4. Rank(s) > (n - 1) * PerPage
  <2> DEFINE F == {f \in public : f <= s}
  <2>1. F \in SUBSET Records /\ s \in Nat
    BY ExportSourceAssumption
  <2>6. \A e \in ids : e \in Nat
    BY ExportSourceAssumption
  <2>7. ASSUME NEW e \in P PROVE e \in F
    <3>1. e \in ids /\ e < s /\ e \in Nat /\ e \in public
      BY <2>6
    <3> QED
      BY <2>1, <3>1
  <2>8. s \notin P /\ s \in F
    BY <2>1
  <2>2. P \subseteq F /\ s \notin P /\ s \in F
    BY <2>7, <2>8
  <2>3. Rank(s) = Cardinality(F)
    BY DEF Rank
  <2> HIDE DEF F, P
  <2>4. IsFiniteSet(F) /\ Cardinality(F) \in Nat
    BY <2>1, EntriesCounted
  <2>5. Cardinality(P) <= Cardinality(F) /\ Cardinality(P) # Cardinality(F)
    BY <2>2, <2>4, FS_Subset
  <2> QED
    BY <1>1, <1>3, <2>3, <2>4, <2>5
<1>5. Rank(s) > n * PerPage
  <2>1. Rank(s) \in Nat
    BY RanksAreNumbers
  <2>2. ~(Rank(s) <= n * PerPage)
    BY <1>4 DEF Page
  <2> QED
    BY <1>1, <2>1, <2>2
<1>6. Cardinality(Page(n)) >= PerPage /\ \A e \in Page(n) : e < s
  BY <1>5, FullPage
<1>7. A = P \cup Page(n) /\ P \cap Page(n) = {}
  BY <1>6
<1> HIDE DEF P, A
<1>8. IsFiniteSet(Page(n)) /\ Cardinality(Page(n)) \in Nat
  BY <1>2, EntriesCounted
<1>9. Cardinality(A) = Cardinality(P) + Cardinality(Page(n))
  <2>1. Cardinality(P \cup Page(n))
          = Cardinality(P) + Cardinality(Page(n)) - Cardinality(P \cap Page(n))
    BY <1>3, <1>8, FS_Union
  <2>2. Cardinality(P \cap Page(n)) = 0
    BY <1>7, FS_EmptySet
  <2> QED
    BY <1>3, <1>7, <1>8, <2>1, <2>2
<1> QED
  BY <1>1, <1>3, <1>6, <1>8, <1>9

(* As many older ones as the rank says cannot all be there still.                      *)
LEMMA TooManyOlder ==
  ASSUME public \subseteq Records, NEW s \in public, NEW ids \in SUBSET Records,
         Cardinality({e \in ids : e < s}) >= Rank(s)
  PROVE  \E v \in ids : v < s /\ v \notin public
<1> DEFINE P == {e \in ids : e < s}
           F == {f \in public : f <= s}
<1> SUFFICES ASSUME \A v \in ids : ~(v < s /\ v \notin public) PROVE FALSE
  OBVIOUS
<1>1. F \in SUBSET Records /\ P \in SUBSET Records /\ s \in Nat
  BY ExportSourceAssumption
<1>7. \A e \in ids : e \in Nat
  BY ExportSourceAssumption
<1>8. ASSUME NEW e \in P PROVE e \in F
  <2>1. e \in ids /\ e < s /\ e \in Nat /\ e \in public
    BY <1>7
  <2> QED
    BY <1>1, <2>1
<1>9. s \notin P /\ s \in F
  BY <1>1
<1>2. P \subseteq F /\ s \notin P /\ s \in F
  BY <1>8, <1>9
<1>3. Rank(s) = Cardinality(F)
  BY DEF Rank
<1> HIDE DEF F, P
<1>4. IsFiniteSet(F) /\ Cardinality(F) \in Nat /\ Cardinality(P) \in Nat
  BY <1>1, EntriesCounted
<1>5. Cardinality(P) <= Cardinality(F) /\ Cardinality(P) # Cardinality(F)
  BY <1>2, <1>4, FS_Subset
<1>6. Cardinality(P) >= Rank(s)
  BY DEF P
<1> QED
  BY <1>3, <1>4, <1>5, <1>6

-----------------------------------------------------------------------------
(* The walk is a record, field by field.                                              *)
LEMMA WalkTyped ==
  ASSUME SourceTypeOK
  PROVE  /\ walk.at \in {"stats", "rows", "total", "documents", "read", "refused"}
         /\ walk.reported \in Nat /\ walk.page \in Nat /\ walk.pages \in Nat /\ walk.count \in Nat
         /\ walk.rows \in SUBSET Records /\ walk.ids \in SUBSET Records
         /\ walk.docs \in SUBSET Records
         /\ public \subseteq Records /\ steady \subseteq public
BY DEF SourceTypeOK, Walk

(* The walk starts with nothing collected.                                            *)
LEMMA SourceStarts == SourceInit => SourceInv
<1> SUFFICES ASSUME SourceInit PROVE SourceInv
  OBVIOUS
<1>1. walk \in Walk
  BY DEF SourceInit, Walk
<1>2. SourceTypeOK
  <2>1. public \subseteq Records /\ steady \subseteq public /\ overtaken \in BOOLEAN
    BY DEF SourceInit
  <2>2. moves \in 0..MaxMoves
    BY ExportSourceAssumption DEF SourceInit
  <2> QED
    BY <1>1, <2>1, <2>2 DEF SourceTypeOK
<1> QED
  BY <1>2 DEF SourceInit, SourceInv, WalkInOrder, OnTheWay

(* A walk that is refused hands nothing over.                                         *)
LEMMA RefusedSafe ==
  ASSUME SourceInv, WalkOn(RefusedWalk)
  PROVE  SourceInv'
<1>1. walk' \in Walk /\ walk'.at = "refused" /\ walk'.page = walk.page
  BY DEF SourceInv, SourceTypeOK, Walk, WalkOn, RefusedWalk
<1>2. UNCHANGED <<public, moves, steady, overtaken>>
  BY DEF WalkOn
<1> QED
  BY <1>1, <1>2 DEF SourceInv, SourceTypeOK, WalkInOrder, OnTheWay

(* The dataset moves: what is steady loses older entries and gets none.               *)
LEMMA MoveSafe ==
  ASSUME SourceInv, NEW e \in Records, Appear(e) \/ Vanish(e)
  PROVE  SourceInv'
<1>1. /\ UNCHANGED walk /\ moves' \in 0..MaxMoves /\ public' \subseteq Records
      /\ steady' = steady \cap public' /\ overtaken' \in BOOLEAN
      /\ ~overtaken' => ~overtaken
  <2>1. CASE Appear(e)
    BY <2>1, ExportSourceAssumption DEF Appear, Move, SourceInv, SourceTypeOK
  <2>2. CASE Vanish(e)
    BY <2>2, ExportSourceAssumption DEF Vanish, Move, SourceInv, SourceTypeOK
  <2> QED
    BY <2>1, <2>2
<1>2. SourceTypeOK' /\ WalkInOrder'
  BY <1>1 DEF SourceInv, SourceTypeOK, WalkInOrder
<1>3. ASSUME ~overtaken', NEW s \in steady' PROVE OnTheWay(s)'
  <2>1. s \in steady /\ s \in public /\ s \in public' /\ OnTheWay(s)
    BY <1>1, <1>3 DEF SourceInv, SourceTypeOK
  <2>2. \A f \in public' : f <= s => f \in public
    <3>1. CASE Appear(e)
      <4>1. e \notin public /\ ~(e < s) /\ public' = public \cup {e}
        BY <1>3, <2>1, <3>1 DEF Appear, Move
      <4>2. e \in Nat /\ s \in Nat /\ e # s
        BY <2>1, <4>1, ExportSourceAssumption DEF SourceInv, SourceTypeOK
      <4> QED
        BY <4>1, <4>2
    <3>2. CASE Vanish(e)
      BY <3>2 DEF Vanish, Move
    <3> QED
      BY <3>1, <3>2
  <2>3. Rank(s)' <= Rank(s) /\ Rank(s) \in Nat /\ Rank(s)' \in Nat
    <3> DEFINE F == {f \in public : f <= s}
               G == {f \in public' : f <= s}
    <3>1. F \in SUBSET Records /\ G \in SUBSET F
      BY <2>2 DEF SourceInv, SourceTypeOK
    <3>2. Rank(s) = Cardinality(F) /\ Rank(s)' = Cardinality(G)
      BY DEF Rank
    <3> HIDE DEF F, G
    <3> QED
      BY <3>1, <3>2, MoreEntries, EntriesCounted
  <2>4. Doomed(s) => Doomed(s)'
    <3> SUFFICES ASSUME NEW v \in Seen \ walk.docs, v < s, v \notin public
                 PROVE  v \notin public'
      BY <1>1 DEF Doomed, Seen
    <3>1. v \in Nat /\ s \in Nat
      BY <2>1, ExportSourceAssumption, WalkTyped DEF Seen, SourceInv
    <3> QED
      BY <2>2, <3>1
  <2>5. walk.reported \in Nat
    BY WalkTyped DEF SourceInv
  <2> QED
    BY <1>1, <2>1, <2>3, <2>4, <2>5 DEF OnTheWay, Seen, PagesRead
<1> QED
  BY <1>2, <1>3 DEF SourceInv

(* The size is read before anything moves.                                            *)
LEMMA StatsSafe ==
  ASSUME SourceInv, ReadStats
  PROVE  SourceInv'
<1>1. SourceTypeOK /\ WalkInOrder
  BY DEF SourceInv
<1>2. UNCHANGED <<public, moves, steady, overtaken>>
  BY DEF ReadStats, WalkOn
<1>3. Cardinality(public) \in Nat
  BY <1>1, WalkTyped, EntriesCounted
<1>4. /\ walk' \in Walk /\ walk'.at = "rows" /\ walk'.reported = Cardinality(public)
      /\ walk'.page = 1 /\ walk'.ids = {} /\ walk'.rows = {} /\ walk'.docs = {}
  BY <1>1, <1>3 DEF ReadStats, WalkOn, SourceTypeOK, WalkInOrder, Walk
<1>5. SourceTypeOK' /\ WalkInOrder'
  BY <1>1, <1>2, <1>4 DEF SourceTypeOK, WalkInOrder
<1>6. ASSUME NEW s \in steady PROVE OnTheWay(s)'
  <2>1. Rank(s) <= Cardinality(public)
    BY <1>1, WalkTyped, MoreEntries DEF Rank
  <2>2. Rank(s)' = Rank(s)
    BY <1>2 DEF Rank
  <2>3. Seen' = {} /\ PagesRead' = 0
    BY <1>4 DEF Seen, PagesRead
  <2>4. {e \in Seen' : e < s} = {}
    BY <2>3
  <2>5. Cardinality({e \in Seen' : e < s}) >= PagesRead' * PerPage
    BY <2>3, <2>4, FS_EmptySet, ExportSourceAssumption
  <2> QED
    BY <1>4, <2>1, <2>2, <2>5 DEF OnTheWay
<1> QED
  BY <1>2, <1>5, <1>6 DEF SourceInv

(* The first rows are a page.                                                         *)
LEMMA FirstRowsSafe ==
  ASSUME SourceInv, ReadFirstRows
  PROVE  SourceInv'
<1>1. SourceTypeOK /\ WalkInOrder /\ walk.at = "rows" /\ walk.page = 1
  BY DEF SourceInv, ReadFirstRows
<1>2. UNCHANGED <<public, moves, steady, overtaken>>
  BY DEF ReadFirstRows, WalkOn
<1>3. Page(1) \in SUBSET Records
  BY <1>1, WalkTyped DEF Page
<1>4. /\ walk' \in Walk /\ walk'.at = "total" /\ walk'.reported = walk.reported
      /\ walk'.page = 1 /\ walk'.ids = {} /\ walk'.rows = Page(1) /\ walk'.docs = {}
  BY <1>1, <1>3 DEF ReadFirstRows, WalkOn, SourceTypeOK, WalkInOrder, Walk
<1>5. SourceTypeOK' /\ WalkInOrder'
  BY <1>1, <1>2, <1>4 DEF SourceTypeOK, WalkInOrder
<1>6. ASSUME ~overtaken, NEW s \in steady PROVE OnTheWay(s)'
  <2>1. s \in public /\ public \subseteq Records /\ Rank(s) <= walk.reported
    BY <1>1, <1>6, WalkTyped DEF SourceInv, OnTheWay
  <2>2. Rank(s)' = Rank(s)
    BY <1>2 DEF Rank
  <2>3. Seen' = {} \cup Page(1) /\ PagesRead' = 1
    BY <1>4 DEF Seen, PagesRead
  <2>4. {e \in {} : e < s} = {} /\ (1 - 1) * PerPage = 0 /\ Cardinality({}) = 0
    BY FS_EmptySet, ExportSourceAssumption
  <2>5. \/ s \in {} \cup Page(1)
        \/ \E v \in {} \cup Page(1) : v < s /\ v \notin public
        \/ Cardinality({e \in {} \cup Page(1) : e < s}) >= 1 * PerPage
    BY <2>1, <2>4, PageTaken
  <2> QED
    BY <1>2, <1>4, <2>1, <2>2, <2>3, <2>5 DEF OnTheWay, Doomed
<1> QED
  BY <1>2, <1>5, <1>6 DEF SourceInv

(* What a page that joins makes of the walk.                                          *)
LEMMA CollectedIs ==
  ASSUME SourceTypeOK, NEW w \in Walk, NEW rows \in SUBSET Records, Joins(rows),
         NEW next, next = Collected(w, rows), next # RefusedWalk
  PROVE  /\ next \in Walk /\ next.ids = w.ids \cup rows /\ next.rows = {}
         /\ next.docs = w.docs /\ next.reported = w.reported /\ next.pages = w.pages
         /\ \/ next.at = "rows" /\ w.page < w.pages /\ next.page = w.page + 1
            \/ next.at = "documents" /\ ~(w.page < w.pages) /\ next.page = w.page
<1> DEFINE count == walk.count + Cardinality(rows)
           taken == [w EXCEPT !.count = count, !.ids = @ \cup rows, !.rows = {}]
<1>1. count \in Nat
  BY WalkTyped, EntriesCounted
<1> HIDE DEF count
<1>2. /\ taken \in Walk /\ taken.ids = w.ids \cup rows /\ taken.rows = {} /\ taken.docs = w.docs
      /\ taken.reported = w.reported /\ taken.pages = w.pages /\ taken.page = w.page
  BY <1>1 DEF Walk
<1>3. CASE w.page < w.pages
  <2>1. next = [taken EXCEPT !.at = "rows", !.page = w.page + 1]
    BY <1>2, <1>3 DEF Collected, count
  <2>2. w.page + 1 \in Nat
    BY DEF Walk
  <2> HIDE DEF taken
  <2>3. next.at = "rows" /\ next.page = w.page + 1 /\ next \in Walk
    BY <1>2, <2>1, <2>2 DEF Walk
  <2>4. /\ next.ids = taken.ids /\ next.rows = taken.rows /\ next.docs = taken.docs
        /\ next.reported = taken.reported /\ next.pages = taken.pages
    BY <1>2, <2>1 DEF Walk
  <2> QED
    BY <1>2, <1>3, <2>3, <2>4
<1>4. CASE ~(w.page < w.pages)
  <2>1. next = [taken EXCEPT !.at = "documents"]
    BY <1>4 DEF Collected, count
  <2> HIDE DEF taken
  <2> QED
    BY <1>2, <1>4, <2>1 DEF Walk
<1> QED
  BY <1>3, <1>4

(* A page that joined the walk: either more is to come, or what is reported is full.   *)
LEMMA JoinedSafe ==
  ASSUME SourceInv, UNCHANGED <<public, moves, steady, overtaken>>, walk.at \in {"rows", "total"},
         walk' \in Walk, NEW rows \in SUBSET Records,
         walk'.ids = walk.ids \cup rows, walk'.rows = {}, walk'.docs = walk.docs,
         walk'.reported = walk.reported, walk.reported <= walk'.pages * PerPage,
         \/ walk'.at = "rows" /\ walk.page < walk'.pages /\ walk'.page = walk.page + 1
         \/ walk'.at = "documents" /\ walk.page >= walk'.pages /\ walk'.page = walk.page,
         ~overtaken => \A s \in steady :
           \/ s \in walk'.ids
           \/ \E v \in walk'.ids : v < s /\ v \notin public
           \/ Cardinality({e \in walk'.ids : e < s}) >= walk.page * PerPage
  PROVE  SourceInv'
<1>1. /\ SourceTypeOK /\ WalkInOrder /\ walk.docs = {} /\ public \subseteq Records
      /\ PerPage \in Nat \ {0} /\ walk.page \in Nat \ {0} /\ walk.reported \in Nat
      /\ walk'.pages \in Nat /\ walk'.page \in Nat /\ walk'.ids \in SUBSET Records
  BY WalkTyped, ExportSourceAssumption DEF SourceInv, WalkInOrder, Walk
<1>2. SourceTypeOK' /\ WalkInOrder'
  <2>1. SourceTypeOK'
    BY <1>1 DEF SourceTypeOK
  <2>2. walk'.page >= 1 /\ (walk'.at = "rows" => walk'.page # 1 /\ walk'.page <= walk'.pages)
    BY <1>1
  <2>3. walk'.at \in {"rows", "documents"} /\ walk'.docs = {} /\ walk'.rows = {}
    BY <1>1
  <2>4. walk'.reported <= walk'.pages * PerPage
    BY <1>1
  <2> QED
    BY <2>1, <2>2, <2>3, <2>4 DEF WalkInOrder
<1>3. ASSUME ~overtaken, NEW s \in steady PROVE OnTheWay(s)'
  <2>0. s \in public /\ OnTheWay(s)
    BY <1>1, <1>3, WalkTyped DEF SourceInv
  <2>1. s \in public /\ Rank(s) <= walk.reported /\ Rank(s) \in Nat
    BY <1>1, <2>0, RanksAreNumbers DEF OnTheWay
  <2>2. Rank(s)' = Rank(s) /\ Seen' = walk'.ids
    BY DEF Rank, Seen
  <2>3. Cardinality({e \in walk'.ids : e < s}) \in Nat
    <3>1. {e \in walk'.ids : e < s} \in SUBSET Records
      BY <1>1
    <3> QED
      BY <3>1, EntriesCounted
  <2>4. CASE walk'.at = "rows"
    <3>1. PagesRead' = walk.page
      BY <1>1, <2>4 DEF PagesRead
    <3> QED
      BY <1>1, <1>3, <2>1, <2>2, <2>4, <3>1 DEF OnTheWay, Doomed
  <2>5. CASE walk'.at = "documents"
    <3>1. walk.page * PerPage >= walk'.pages * PerPage
      BY <1>1, <2>5
    <3>2. walk.page * PerPage \in Nat /\ walk'.pages * PerPage \in Nat
      BY <1>1
    <3>3. walk.page * PerPage >= Rank(s)
      BY <1>1, <2>1, <3>1, <3>2
    <3>4. s \in walk'.ids \/ \E v \in walk'.ids : v < s /\ v \notin public
      <4>1. CASE Cardinality({e \in walk'.ids : e < s}) >= walk.page * PerPage
        <5>1. Cardinality({e \in walk'.ids : e < s}) >= Rank(s)
          BY <2>1, <2>3, <3>2, <3>3, <4>1
        <5> QED
          BY <1>1, <2>1, <5>1, TooManyOlder
      <4> QED
        BY <1>3, <4>1
    <3> QED
      BY <1>1, <2>2, <2>5, <3>4 DEF OnTheWay, Doomed
  <2> QED
    BY <2>4, <2>5
<1> QED
  BY <1>2, <1>3 DEF SourceInv

(* The first page is whole.                                                           *)
LEMMA TotalSafe ==
  ASSUME SourceInv, ReadTotal
  PROVE  SourceInv'
<1>1. /\ SourceTypeOK /\ WalkInOrder /\ walk.at = "total" /\ walk.page = 1 /\ walk.ids = {}
      /\ UNCHANGED <<public, moves, steady, overtaken>>
  BY DEF SourceInv, WalkInOrder, ReadTotal, WalkOn
<1>2. CASE walk' = RefusedWalk
  BY <1>1, <1>2, RefusedSafe DEF WalkOn
<1>3. CASE walk' # RefusedWalk
  <2>1. Cardinality(public) = walk.reported
    BY <1>3 DEF ReadTotal, WalkOn
  <2>2. walk.rows \in SUBSET Records /\ walk.reported \in Nat
    BY <1>1, WalkTyped
  <2>3. Pages(walk.reported) \in Nat \ {0} /\ walk.reported <= Pages(walk.reported) * PerPage
    BY <2>2, PagesHold
  <2>4. PICK w \in Walk : w = [walk EXCEPT !.pages = Pages(walk.reported)]
    BY <1>1, <2>3 DEF SourceTypeOK, Walk
  <2>5. /\ w.ids = walk.ids /\ w.docs = walk.docs /\ w.reported = walk.reported
        /\ w.page = 1 /\ w.pages = Pages(walk.reported)
    BY <1>1, <2>4 DEF SourceTypeOK, Walk
  <2>6. walk' = Collected(w, walk.rows)
    BY <1>3, <2>1, <2>4 DEF ReadTotal, WalkOn
  <2>7. Joins(walk.rows)
    BY <1>3, <2>6 DEF Collected
  <2>8. /\ walk' \in Walk /\ walk'.ids = w.ids \cup walk.rows /\ walk'.rows = {}
        /\ walk'.docs = w.docs /\ walk'.reported = w.reported /\ walk'.pages = w.pages
        /\ \/ walk'.at = "rows" /\ w.page < w.pages /\ walk'.page = w.page + 1
           \/ walk'.at = "documents" /\ ~(w.page < w.pages) /\ walk'.page = w.page
    BY <1>1, <1>3, <2>2, <2>6, <2>7, CollectedIs
  <2>9. ASSUME ~overtaken, NEW s \in steady
        PROVE  \/ s \in walk'.ids
               \/ \E v \in walk'.ids : v < s /\ v \notin public
               \/ Cardinality({e \in walk'.ids : e < s}) >= walk.page * PerPage
    <3>1. Seen = walk'.ids /\ PagesRead = walk.page /\ OnTheWay(s)
      BY <1>1, <2>5, <2>8, <2>9 DEF Seen, PagesRead, SourceInv
    <3> QED
      BY <1>1, <3>1 DEF OnTheWay, Doomed
  <2> QED
    BY <1>1, <2>2, <2>3, <2>5, <2>8, <2>9, JoinedSafe
<1> QED
  BY <1>2, <1>3

(* A later page.                                                                      *)
LEMMA LaterPageSafe ==
  ASSUME SourceInv, ReadPage
  PROVE  SourceInv'
<1>1. /\ SourceTypeOK /\ WalkInOrder /\ walk.at = "rows" /\ walk.page > 1 /\ walk.rows = {}
      /\ walk.page \in Nat \ {0} /\ walk.page <= walk.pages
      /\ walk.reported <= walk.pages * PerPage
      /\ UNCHANGED <<public, moves, steady, overtaken>>
  BY WalkTyped DEF SourceInv, WalkInOrder, ReadPage, WalkOn
<1>2. CASE walk' = RefusedWalk
  BY <1>1, <1>2, RefusedSafe DEF WalkOn
<1>3. CASE walk' # RefusedWalk
  <2> DEFINE rows == Page(walk.page)
  <2>1. walk' = Collected(walk, rows)
    BY <1>3 DEF ReadPage, WalkOn
  <2>2. Joins(rows)
    BY <1>3, <2>1 DEF Collected
  <2>3. rows \in SUBSET Records /\ walk \in Walk /\ walk.ids \in SUBSET Records
    BY <1>1, WalkTyped DEF Page, SourceTypeOK
  <2>4. /\ walk' \in Walk /\ walk'.ids = walk.ids \cup rows /\ walk'.rows = {}
        /\ walk'.docs = walk.docs /\ walk'.reported = walk.reported /\ walk'.pages = walk.pages
        /\ \/ walk'.at = "rows" /\ walk.page < walk.pages /\ walk'.page = walk.page + 1
           \/ walk'.at = "documents" /\ ~(walk.page < walk.pages) /\ walk'.page = walk.page
    BY <1>1, <1>3, <2>1, <2>2, <2>3, CollectedIs
  <2>5. ASSUME ~overtaken, NEW s \in steady
        PROVE  \/ s \in walk'.ids
               \/ \E v \in walk'.ids : v < s /\ v \notin public
               \/ Cardinality({e \in walk'.ids : e < s}) >= walk.page * PerPage
    <3>1. Seen = walk.ids /\ PagesRead = walk.page - 1 /\ OnTheWay(s)
      BY <1>1, <2>5 DEF Seen, PagesRead, SourceInv
    <3>2. \/ s \in walk.ids
          \/ \E v \in walk.ids : v < s /\ v \notin public
          \/ Cardinality({e \in walk.ids : e < s}) >= (walk.page - 1) * PerPage
      BY <1>1, <3>1 DEF OnTheWay, Doomed
    <3>3. s \in public /\ public \subseteq Records /\ rows \cap walk.ids = {}
      BY <1>1, <2>2, <2>5, WalkTyped DEF Joins
    <3> QED
      BY <1>1, <2>3, <2>4, <3>2, <3>3, PageTaken
  <2>6. walk.pages \in Nat
    BY <1>1, WalkTyped
  <2> HIDE DEF rows
  <2> QED
    BY <1>1, <2>3, <2>4, <2>5, <2>6, JoinedSafe
<1> QED
  BY <1>2, <1>3

(* A document is read, and what is gone by then is never read.                        *)
LEMMA DocumentSafe ==
  ASSUME SourceInv, NEW e \in Records, ReadDocument(e)
  PROVE  SourceInv'
<1>1. /\ SourceTypeOK /\ WalkInOrder /\ walk.at = "documents"
      /\ UNCHANGED <<public, moves, steady, overtaken>>
  BY DEF SourceInv, ReadDocument, WalkOn
<1>2. CASE e \notin public
  BY <1>1, <1>2, RefusedSafe DEF ReadDocument, WalkOn
<1>3. CASE e \in public
  <2>1. /\ walk' \in Walk /\ walk'.at = "documents" /\ walk'.page = walk.page
        /\ walk'.rows = walk.rows /\ walk'.ids = walk.ids /\ walk'.docs = walk.docs \cup {e}
    BY <1>1, <1>3 DEF ReadDocument, WalkOn, SourceTypeOK, Walk
  <2>2. SourceTypeOK' /\ WalkInOrder'
    BY <1>1, <2>1 DEF SourceTypeOK, WalkInOrder
  <2>3. ASSUME ~overtaken, NEW s \in steady PROVE OnTheWay(s)'
    <3>1. s \in walk.ids \/ Doomed(s)
      BY <1>1, <2>3 DEF SourceInv, OnTheWay
    <3>2. Doomed(s) => Doomed(s)'
      BY <1>1, <1>3, <2>1 DEF Doomed, Seen
    <3> QED
      BY <2>1, <3>1, <3>2 DEF OnTheWay
  <2> QED
    BY <1>1, <2>2, <2>3 DEF SourceInv
<1> QED
  BY <1>2, <1>3

(* The walk ends when every document is read: nothing collected is gone.              *)
LEMMA HandOverSafe ==
  ASSUME SourceInv, HandOver
  PROVE  SourceInv'
<1>1. /\ SourceTypeOK /\ WalkInOrder /\ walk.at = "documents" /\ walk.docs = walk.ids
      /\ walk.rows = {} /\ UNCHANGED <<public, moves, steady, overtaken>>
  BY DEF SourceInv, WalkInOrder, HandOver, WalkOn
<1>2. /\ walk' \in Walk /\ walk'.at = "read" /\ walk'.page = walk.page
      /\ walk'.rows = walk.rows /\ walk'.ids = walk.ids /\ walk'.docs = walk.docs
  BY <1>1 DEF HandOver, WalkOn, SourceTypeOK, Walk
<1>3. SourceTypeOK' /\ WalkInOrder'
  BY <1>1, <1>2 DEF SourceTypeOK, WalkInOrder
<1>4. ASSUME ~overtaken, NEW s \in steady PROVE OnTheWay(s)'
  <2>1. s \in walk.ids \/ Doomed(s)
    BY <1>1, <1>4 DEF SourceInv, OnTheWay
  <2>2. ~Doomed(s)
    BY <1>1 DEF Doomed, Seen
  <2> QED
    BY <1>1, <1>2, <2>1, <2>2 DEF OnTheWay
<1> QED
  BY <1>1, <1>3, <1>4 DEF SourceInv

(* Every step keeps it.                                                               *)
LEMMA SourceSafe ==
  ASSUME SourceInv, [SourceNext]_sourceVars
  PROVE  SourceInv'
<1>1. CASE UNCHANGED sourceVars
  BY <1>1 DEF sourceVars, SourceInv, SourceTypeOK, WalkInOrder, OnTheWay, Doomed, Seen, PagesRead, Rank
<1>2. CASE AbandonWalk
  BY <1>2, RefusedSafe DEF AbandonWalk
<1> QED
  BY <1>1, <1>2, MoveSafe, StatsSafe, FirstRowsSafe, TotalSafe, LaterPageSafe, DocumentSafe, HandOverSafe
     DEF SourceNext

(* While entries leave and newer ones come, at any moment of a walk: a dataset the export *)
(* hands on has every entry that was public all the while, for any pages (fetchDataset). *)
THEOREM ExportStaysComplete == ClientsSpec => []ExportIsComplete
<1>1. ClientsInit => SourceInv
  BY SourceStarts DEF ClientsInit
<1>2. ClientsNext => [SourceNext]_sourceVars
  BY DEF ClientsNext, McpNext, PageNext, FormNext, EditingNext, ExporterNext
<1>3. UNCHANGED clientVars => UNCHANGED sourceVars
  BY DEF clientVars
<1>4. SourceInv /\ [ClientsNext]_clientVars => SourceInv'
  BY <1>2, <1>3, SourceSafe
<1>5. SourceInv => ExportIsComplete
  BY DEF SourceInv, OnTheWay, ExportIsComplete, NeverPartial
<1> QED
  BY <1>1, <1>4, <1>5, PTL DEF ClientsSpec

-----------------------------------------------------------------------------
(* The form of a listing: it fits, and what it lets through is taken. *)

(* A function on a set, whatever its values are. *)
IsOn(F, S) == F \in [S -> {F[x] : x \in S}]

(* Cells show what they hold: reading it back gives it again. *)
Shown(cells) == \A m \in DOMAIN cells : cells[m] # Null /\ Shows(cells[m]) = cells[m]

(* What is chosen from a list is one of it. *)
Chosen(g, cells) ==
  /\ g = "deadlines" => cells["deadlineType"] \in {"fixed", "rolling"}
  /\ g = "socialLinks" => cells["platform"] # Unstated
  /\ g = "rewardTiers" => cells["model"] \in DOMAIN Allowed

(* The cells of a row, a row, the rows of a group and the branches, as a form has them. *)
CellsFit(g, cells) == IsOn(cells, RowMembers[g]) /\ Shown(cells) /\ Chosen(g, cells)

RowFits(g, row) ==
  /\ row \in [cells : {row.cells}, base : {row.base}]
  /\ CellsFit(g, row.cells)

RowsFit(g, rows) == IsList(rows) /\ \A i \in DOMAIN rows : RowFits(g, rows[i])

DetailsFit(details) ==
  /\ IsOn(details, Types)
  /\ \A t \in Types : IsOn(details[t], DetailMembers[t]) /\ Shown(details[t])
  /\ details["bounty"]["bountyKind"] \in {"task", "security"}

(* The members of a form, and the objects its rows were read from. *)
IsForm(f) ==
  f \in [id : {f.id}, dirty : BOOLEAN, type : Types, fields : {f.fields}, rows : {f.rows},
         details : {f.details}, remote : {f.remote}, pays : {"single", "tiers"}]

Bases(rows) == [j \in DOMAIN rows |-> rows[j].base]

(* A form that the page can show, and a record that the API can have stored. *)
FormFits(f) ==
  /\ IsForm(f)
  /\ IsOn(f.fields, Fields) /\ Shown(f.fields)
  /\ IsOn(f.rows, AllGroups) /\ \A g \in AllGroups : RowsFit(g, f.rows[g])
  /\ Apart(Bases(f.rows["operatingOrganizations"]))
  /\ DetailsFit(f.details)
  /\ f.remote \in [Located -> BOOLEAN]

IsStored(d) == IsListing(d) /\ Conforms(d)

(* The form fits whatever was edited, what it carries is what it was read from, and what is
   stored conforms to the Standard. *)
EditorInv ==
  /\ mode \in {"create", "edit"} /\ sent \in BOOLEAN /\ edits \in 0..MaxEdits
  /\ FormFits(editor)
  /\ mode = "create" => carried = NoRecord
  /\ mode = "edit" => IsStored(carried)
  /\ stored = NoRecord \/ IsStored(stored)

(* A list has a length. *)
LEMMA ListIs ==
  ASSUME NEW s, IsList(s)
  PROVE  Len(s) \in Nat /\ DOMAIN s = 1..Len(s)
  BY DEF IsList

(* A function on the first numbers is a list. *)
LEMMA MakeList ==
  ASSUME NEW n \in Nat, NEW s, IsOn(s, 1..n)
  PROVE  IsList(s)
  BY DEF IsList, IsOn

(* Rows fit with one more that fits, *)
LEMMA Appended ==
  ASSUME NEW g, NEW s, RowsFit(g, s), NEW row, RowFits(g, row)
  PROVE  RowsFit(g, Append(s, row))
<1>1. /\ Append(s, row) \in Seq({s[i] : i \in DOMAIN s} \cup {row})
      /\ Len(Append(s, row)) = Len(s) + 1
      /\ \A i \in DOMAIN Append(s, row) : Append(s, row)[i] = row \/ \E j \in DOMAIN s : Append(s, row)[i] = s[j]
  BY DEF RowsFit, IsList
<1>2. IsList(Append(s, row))
  BY <1>1 DEF IsList
<1> QED
  BY <1>1, <1>2 DEF RowsFit

(* with one less, *)
LEMMA Removed ==
  ASSUME NEW g, NEW s, RowsFit(g, s), NEW k \in DOMAIN s
  PROVE  RowsFit(g, Seqs!RemoveAt(s, k))
<1> DEFINE S == {s[i] : i \in DOMAIN s}
<1>1. /\ s \in Seq(S) /\ k \in 1..Len(s) /\ Len(s) \in Nat
  BY DEF RowsFit, IsList
<1>2. /\ SubSeq(s, 1, k - 1) \in Seq(S) /\ SubSeq(s, k + 1, Len(s)) \in Seq(S)
  BY <1>1
<1>3. Seqs!RemoveAt(s, k) \in Seq(S)
  BY <1>1, <1>2 DEF Seqs!RemoveAt
<1> QED
  BY <1>3 DEF RowsFit, IsList

(* and with some in the place of others. *)
LEMMA Replaced ==
  ASSUME NEW g, NEW s, RowsFit(g, s), NEW t, IsOn(t, DOMAIN s),
         \A i \in DOMAIN s : RowFits(g, t[i]) \/ \E j \in DOMAIN s : t[i] = s[j]
  PROVE  RowsFit(g, t)
<1>1. IsList(t)
  BY ListIs, MakeList DEF RowsFit
<1> QED
  BY <1>1 DEF RowsFit, IsOn

(* Object *)
LEMMA WrittenIs ==
  ASSUME NEW base, NEW cells
  PROVE  /\ DOMAIN WrittenOver(base, cells) =
              (DOMAIN base \ DOMAIN cells) \cup {m \in DOMAIN cells : cells[m] # Unstated}
         /\ \A m \in DOMAIN cells : cells[m] # Unstated => WrittenOver(base, cells)[m] = cells[m]
  BY DEF WrittenOver

(* The groups there are. *)
LEMMA Known ==
  /\ \A g \in AllGroups : g \in DOMAIN RowMembers
  /\ TopGroups \subseteq AllGroups /\ "operatingOrganizations" \in TopGroups
  /\ "prizes" \in AllGroups /\ "rewardTiers" \in AllGroups
  /\ {"prizes", "rewardTiers"} \cap TopGroups = {}
  BY ListingEditorAssumption DEF AllGroups, TopGroups, RowMembers

(* What two objects state together. *)
LEMMA StatingIs ==
  ASSUME NEW cells, NEW defaults
  PROVE  /\ DOMAIN Stating(cells, defaults) = DOMAIN cells \cup DOMAIN defaults
         /\ \A m \in DOMAIN cells \cup DOMAIN defaults :
              Stating(cells, defaults)[m] = IF m \in DOMAIN defaults THEN defaults[m] ELSE cells[m]
         /\ IsOn(Stating(cells, defaults), DOMAIN cells \cup DOMAIN defaults)
  BY DEF Stating, IsOn

(* What is chosen from the beginning, group by group (emptySocialLink, emptyDeadline, emptyPayout). *)
LEMMA DefaultIs ==
  ASSUME NEW g
  PROVE  /\ g = "socialLinks" => DOMAIN Default(g) = {"platform"} /\ Default(g)["platform"] = "twitter"
         /\ g = "deadlines" => DOMAIN Default(g) = {"deadlineType"} /\ Default(g)["deadlineType"] = "fixed"
         /\ g = "rewardTiers" => DOMAIN Default(g) = {"model", "basis"} /\ Default(g)["model"] = "fixed"
         /\ g = "bounty" => DOMAIN Default(g) = {"bountyKind"} /\ Default(g)["bountyKind"] = "task"
         /\ g \notin {"socialLinks", "deadlines", "rewardTiers", "bounty"} => DOMAIN Default(g) = {}
<1>1. DOMAIN <<>> = {}
  OBVIOUS
<1>2. CASE g = "socialLinks"
  BY <1>2 DEF Default
<1>3. CASE g = "deadlines"
  BY <1>3 DEF Default
<1>4. CASE g = "rewardTiers"
  BY <1>4 DEF Default
<1>5. CASE g = "bounty"
  BY <1>5 DEF Default
<1>6. CASE g \notin {"socialLinks", "deadlines", "rewardTiers", "bounty"}
  BY <1>1, <1>6 DEF Default
<1> QED
  BY <1>2, <1>3, <1>4, <1>5, <1>6

(* The members that the rules name. *)
LEMMA MembersAre ==
  /\ RowMembers["socialLinks"] = {"platform", "url"}
  /\ RowMembers["deadlines"] = {"deadlineType", "date", "label"}
  /\ RowMembers["rewardTiers"] = {"severity", "label", "model"} \cup Amounts
  /\ RowMembers["prizes"] = {"track", "amount"}
  /\ RowMembers["operatingOrganizations"] = {"name", "slug", "website"}
  /\ RowMembers["sponsoringOrganizations"] = {"name", "slug", "website"}
  /\ DetailMembers["bounty"] = {"bountyKind", "reward", "severityScheme", "skills"}
  BY DEF RowMembers, DetailMembers

(* What a cell shows it shows again, and it never shows a blank for a word. *)
LEMMA ShowsIs ==
  ASSUME NEW w
  PROVE  /\ Shows(Shows(w)) = Shows(w)
         /\ w # Unstated => Shows(w) # Unstated
         /\ w # Null => Shows(w) # Null
         /\ w \in Words \cup Slugs \cup Choices \cup {Unstated, Null} => Shows(w) = w
         /\ w \in Words \cup Slugs \cup Choices \cup {Unstated} => w # Null
<1>1. /\ Unstated \notin Words /\ Null \notin Words \cup Slugs \cup Choices /\ Unstated # Null
      /\ \A x \in Words \cup Slugs \cup Choices \cup {Unstated, Null} : x \notin DOMAIN ComesBackAs
      /\ \A x \in DOMAIN ComesBackAs : ComesBackAs[x] \in Words
  BY ListingEditorAssumption
<1>2. CASE w \in DOMAIN ComesBackAs
  BY <1>1, <1>2 DEF Shows
<1>3. CASE w \notin DOMAIN ComesBackAs
  BY <1>1, <1>3 DEF Shows
<1> QED
  BY <1>2, <1>3

(* A cell that is empty, or has its default. *)
LEMMA StatingShown ==
  ASSUME NEW cells, NEW defaults, Shown(cells), Shown(defaults)
  PROVE  Shown(Stating(cells, defaults))
<1> DEFINE new == Stating(cells, defaults)
<1>1. /\ DOMAIN new = DOMAIN cells \cup DOMAIN defaults
      /\ \A m \in DOMAIN cells \cup DOMAIN defaults : new[m] = IF m \in DOMAIN defaults THEN defaults[m] ELSE cells[m]
  BY StatingIs
<1> HIDE DEF new
<1>2. Shown(new)
  BY <1>1 DEF Shown
<1> QED
  BY <1>2 DEF new

(* A blank shows as a blank, *)
LEMMA NoneShown ==
  ASSUME NEW members
  PROVE  Shown(AllUnstated(members)) /\ DOMAIN AllUnstated(members) = members
         /\ \A m \in members : AllUnstated(members)[m] = Unstated
  BY ShowsIs DEF Shown, AllUnstated

(* and a default as itself. *)
LEMMA DefaultShown ==
  ASSUME NEW g
  PROVE  Shown(Default(g))
<1>1. \A m \in DOMAIN Default(g) : Default(g)[m] \in Choices
  <2>1. CASE g = "rewardTiers"
    BY <2>1 DEF Default, Choices
  <2>2. CASE g # "rewardTiers"
    BY <2>2, DefaultIs DEF Choices
  <2> QED
    BY <2>1, <2>2
<1> QED
  BY <1>1, ShowsIs DEF Shown

(* A row that was just added fits, and was read from nothing (emptyOrganization and the like). *)
LEMMA EmptyRowFits ==
  ASSUME NEW g \in AllGroups
  PROVE  /\ RowFits(g, EmptyRow(g)) /\ EmptyRow(g).base = <<>>
         /\ g = "operatingOrganizations" => EmptyRow(g).cells["slug"] = Unstated
<1> DEFINE some == IF g = "deadlines" THEN Stating(Default(g), [label |-> "application"]) ELSE Default(g)
           none == AllUnstated(RowMembers[g])
           cells == Stating(none, some)
<1>1. EmptyRow(g) = [cells |-> cells, base |-> <<>>]
  BY DEF EmptyRow
<1>2. DOMAIN none = RowMembers[g]
  BY DEF AllUnstated
<1>3. /\ g = "deadlines" => DOMAIN some = {"deadlineType", "label"} /\ some["deadlineType"] = "fixed"
      /\ g # "deadlines" => some = Default(g)
  <2> DEFINE label == [label |-> "application"]
  <2>1. DOMAIN label = {"label"}
    OBVIOUS
  <2> HIDE DEF label
  <2>2. ASSUME g = "deadlines"
        PROVE  DOMAIN some = {"deadlineType", "label"} /\ some["deadlineType"] = "fixed"
    <3>1. some = Stating(Default(g), label)
      BY <2>2 DEF label
    <3>2. DOMAIN Default(g) = {"deadlineType"} /\ Default(g)["deadlineType"] = "fixed"
      BY <2>2, DefaultIs
    <3> HIDE DEF some
    <3>3. DOMAIN some = {"deadlineType"} \cup {"label"}
      BY <2>1, <3>1, <3>2, StatingIs
    <3>4. some["deadlineType"] = Default(g)["deadlineType"]
      BY <2>1, <3>1, <3>2, StatingIs
    <3> QED
      BY <3>2, <3>3, <3>4
  <2> QED
    BY <2>2
<1> HIDE DEF some, none
<1>4. g # "bounty"
  BY Known DEF RowMembers
<1>5. /\ g = "deadlines" => cells["deadlineType"] = "fixed"
      /\ g = "socialLinks" => cells["platform"] = "twitter"
      /\ g = "rewardTiers" => cells["model"] = "fixed"
  <2>1. \A m \in DOMAIN some : cells[m] = some[m]
    BY StatingIs
  <2> HIDE DEF cells
  <2> QED
    BY <1>3, <2>1, DefaultIs
<1>6. DOMAIN some \subseteq RowMembers[g]
  BY <1>3, <1>4, DefaultIs, MembersAre DEF Amounts
<1>7. IsOn(cells, RowMembers[g]) /\ DOMAIN cells = RowMembers[g]
  <2>1. RowMembers[g] \cup DOMAIN some = RowMembers[g]
    BY <1>6
  <2> QED
    BY <1>2, <2>1, StatingIs
<1>8. Shown(cells)
  <2>1. Shown(some)
    <3>1. Shown([label |-> "application"])
      BY ShowsIs DEF Shown, Choices
    <3> QED
      BY <3>1, DefaultShown, StatingShown DEF some
  <2>2. Shown(none)
    BY NoneShown DEF none
  <2> QED
    BY <2>1, <2>2, StatingShown
<1>9. g = "operatingOrganizations" => cells["slug"] = Unstated
  <2> SUFFICES ASSUME g = "operatingOrganizations" PROVE cells["slug"] = Unstated
    OBVIOUS
  <2>1. DOMAIN some = {}
    BY <1>3, DefaultIs
  <2>2. "slug" \in RowMembers[g] /\ none["slug"] = Unstated
    BY MembersAre, NoneShown DEF none
  <2>3. \A m \in DOMAIN none \cup DOMAIN some : cells[m] = IF m \in DOMAIN some THEN some[m] ELSE none[m]
    BY StatingIs
  <2> HIDE DEF cells
  <2> QED
    BY <1>2, <2>1, <2>2, <2>3
<1> HIDE DEF cells
<1>10. Chosen(g, cells)
  <2>1. "fixed" \in DOMAIN Allowed /\ "twitter" # Unstated
    BY ListingEditorAssumption DEF Allowed, Choices
  <2> QED
    BY <1>5, <2>1 DEF Chosen
<1> QED
  BY <1>1, <1>5, <1>7, <1>8, <1>9, <1>10 DEF RowFits, CellsFit

(* What reading an object yields, member by member. *)
LEMMA ReadsIs ==
  ASSUME NEW object, NEW members, NEW defaults
  PROVE  /\ IsOn(Reads(object, members, defaults), members)
         /\ DOMAIN Reads(object, members, defaults) = members
         /\ \A m \in members :
              Reads(object, members, defaults)[m] =
                IF m \in DOMAIN object /\ object[m] # Null THEN Shows(object[m])
                ELSE IF m \in DOMAIN defaults THEN defaults[m] ELSE Unstated
  BY DEF Reads, IsOn

(* What was read shows what it holds. *)
LEMMA ReadsShown ==
  ASSUME NEW object, NEW members, NEW defaults, Shown(defaults)
  PROVE  Shown(Reads(object, members, defaults))
<1> DEFINE cells == Reads(object, members, defaults)
<1>1. DOMAIN cells = members
      /\ \A m \in members : cells[m] = IF m \in DOMAIN object /\ object[m] # Null THEN Shows(object[m])
                                       ELSE IF m \in DOMAIN defaults THEN defaults[m] ELSE Unstated
  BY ReadsIs
<1> HIDE DEF cells
<1>2. Unstated # Null /\ Shows(Unstated) = Unstated
  BY ShowsIs
<1>3. Shown(cells)
  BY <1>1, <1>2, ShowsIs DEF Shown
<1> QED
  BY <1>3 DEF cells

(* Each object is read into the row in its place (fromDocument). *)
LEMMA RowsReadAre ==
  ASSUME NEW g, NEW objects, IsList(objects)
  PROVE  LET rows == ReadRows(objects, g)
         IN /\ IsList(rows) /\ DOMAIN rows = DOMAIN objects
            /\ \A i \in DOMAIN objects :
                 /\ rows[i] = [cells |-> Reads(objects[i], RowMembers[g], Default(g)), base |-> objects[i]]
                 /\ rows[i].cells = Reads(objects[i], RowMembers[g], Default(g)) /\ rows[i].base = objects[i]
            /\ DOMAIN Bases(rows) = DOMAIN objects /\ \A i \in DOMAIN objects : Bases(rows)[i] = objects[i]
            /\ rows = <<>> <=> objects = <<>>
<1> DEFINE rows == ReadRows(objects, g)
<1>1. IsOn(rows, DOMAIN objects) /\ IsList(rows) /\ DOMAIN rows = DOMAIN objects
  BY ListIs, MakeList DEF ReadRows, IsOn
<1>2. ASSUME NEW i \in DOMAIN objects
      PROVE  /\ rows[i] = [cells |-> Reads(objects[i], RowMembers[g], Default(g)), base |-> objects[i]]
             /\ rows[i].cells = Reads(objects[i], RowMembers[g], Default(g)) /\ rows[i].base = objects[i]
  BY DEF ReadRows
<1> HIDE DEF rows
<1>3. DOMAIN Bases(rows) = DOMAIN objects /\ \A i \in DOMAIN objects : Bases(rows)[i] = objects[i]
  BY <1>1, <1>2 DEF Bases
<1>4. \A s : IsList(s) => (s = <<>> <=> DOMAIN s = {})
  BY DEF IsList
<1>5. rows = <<>> <=> objects = <<>>
  BY <1>1, <1>4
<1> QED
  BY <1>1, <1>2, <1>3, <1>5 DEF rows

(* Objects that are the same are told apart alike. *)
LEMMA SameApart ==
  ASSUME NEW a, NEW b, DOMAIN a = DOMAIN b, \A i \in DOMAIN a : a[i] = b[i], Apart(a)
  PROVE  Apart(b)
  BY DEF Apart, Named

(* Rows that were read fit, and organizations stay told apart. *)
LEMMA RowsRead ==
  ASSUME NEW g \in AllGroups, NEW objects, AreRows(g, objects)
  PROVE  /\ RowsFit(g, ReadRows(objects, g))
         /\ Apart(objects) => Apart(Bases(ReadRows(objects, g)))
<1>1. /\ IsList(objects) /\ IsList(ReadRows(objects, g)) /\ DOMAIN ReadRows(objects, g) = DOMAIN objects
      /\ \A i \in DOMAIN objects :
           ReadRows(objects, g)[i] = [cells |-> Reads(objects[i], RowMembers[g], Default(g)), base |-> objects[i]]
      /\ DOMAIN Bases(ReadRows(objects, g)) = DOMAIN objects
      /\ \A i \in DOMAIN objects : Bases(ReadRows(objects, g))[i] = objects[i]
  BY RowsReadAre DEF AreRows
<1>2. ASSUME NEW i \in DOMAIN objects
      PROVE  RowFits(g, ReadRows(objects, g)[i])
  <2> DEFINE cells == Reads(objects[i], RowMembers[g], Default(g))
  <2>1. ReadRows(objects, g)[i] = [cells |-> cells, base |-> objects[i]]
    BY <1>1
  <2>2. IsRow(g, objects[i])
    BY DEF AreRows
  <2>3. IsOn(cells, RowMembers[g]) /\ Shown(cells) /\ DOMAIN cells = RowMembers[g]
    BY ReadsIs, ReadsShown, DefaultShown
  <2>4. \A m \in RowMembers[g] : cells[m] = IF m \in DOMAIN objects[i] /\ objects[i][m] # Null THEN Shows(objects[i][m])
                ELSE IF m \in DOMAIN Default(g) THEN Default(g)[m] ELSE Unstated
    BY ReadsIs
  <2> HIDE DEF cells
  <2>5. Chosen(g, cells)
    <3>1. CASE g = "deadlines"
      BY <2>2, <2>4, <3>1, MembersAre, ShowsIs DEF IsRow, Chosen, Choices
    <3>2. CASE g = "socialLinks"
      BY <2>2, <2>4, <3>2, MembersAre, ShowsIs, DefaultIs, ListingEditorAssumption DEF IsRow, Chosen, Choices
    <3>3. CASE g = "rewardTiers"
      <4>1. \A x \in DOMAIN Allowed : x \in Choices /\ x # Null
        BY ListingEditorAssumption DEF Allowed, Choices
      <4> QED
        BY <2>2, <2>4, <3>3, <4>1, MembersAre, ShowsIs DEF IsRow, Chosen
    <3> QED
      BY <3>1, <3>2, <3>3 DEF Chosen
  <2> QED
    BY <2>1, <2>3, <2>5 DEF RowFits, CellsFit
<1> QED
  BY <1>1, <1>2, SameApart DEF RowsFit

(* A branch that nobody wrote yet fits (emptyDetails), *)
LEMMA EmptyDetailsFit ==
  ASSUME NEW t \in Types
  PROVE  /\ IsOn(EmptyDetails(t), DetailMembers[t])
         /\ Shown(EmptyDetails(t))
         /\ t = "bounty" => EmptyDetails(t)["bountyKind"] = "task"
<1>1. DOMAIN AllUnstated(DetailMembers[t]) = DetailMembers[t]
  BY DEF AllUnstated
<1>2. t \notin {"socialLinks", "deadlines", "rewardTiers"}
  BY DEF Types
<1>3. DOMAIN Default(t) \subseteq DetailMembers[t]
  BY <1>2, DefaultIs, MembersAre
<1>4. DetailMembers[t] \cup DOMAIN Default(t) = DetailMembers[t]
  BY <1>3
<1>5. IsOn(EmptyDetails(t), DetailMembers[t])
  BY <1>1, <1>4, StatingIs DEF EmptyDetails
<1>6. t = "bounty" => EmptyDetails(t)["bountyKind"] = Default(t)["bountyKind"]
  <2>1. t = "bounty" => "bountyKind" \in DOMAIN Default(t)
    BY DefaultIs
  <2> QED
    BY <2>1, StatingIs DEF EmptyDetails
<1>7. Shown(EmptyDetails(t))
  BY NoneShown, DefaultShown, StatingShown DEF EmptyDetails
<1> QED
  BY <1>5, <1>6, <1>7, DefaultIs

(* and so does the form of a new listing (emptyForm). *)
LEMMA EmptyFormFits == FormFits(EmptyForm)
<1> DEFINE fields == AllUnstated(Fields)
           rows == [g \in AllGroups |-> IF g = "operatingOrganizations" THEN <<EmptyRow(g)>> ELSE <<>>]
           details == [t \in Types |-> EmptyDetails(t)]
           remote == [t \in Located |-> FALSE]
<1>1. EmptyForm = [id |-> Unstated, dirty |-> FALSE, type |-> "grant", fields |-> fields, rows |-> rows,
                   details |-> details, remote |-> remote, pays |-> "single"]
  BY DEF EmptyForm
<1>2. IsOn(fields, Fields) /\ remote \in [Located -> BOOLEAN]
  BY DEF AllUnstated, IsOn
<1>s. Shown(fields)
  BY NoneShown
<1>3. IsOn(rows, AllGroups)
  BY DEF IsOn
<1>a. Apart(Bases(rows["operatingOrganizations"]))
  <2> DEFINE row == EmptyRow("operatingOrganizations")
  <2>1. rows["operatingOrganizations"] = <<row>>
    BY Known
  <2> HIDE DEF row, rows
  <2>2. DOMAIN <<row>> = {1}
    OBVIOUS
  <2>3. DOMAIN Bases(<<row>>) = {1}
    BY <2>2 DEF Bases
  <2> QED
    BY <2>1, <2>3 DEF Apart, Named
<1>4. ASSUME NEW g \in AllGroups PROVE RowsFit(g, rows[g])
  <2>1. IsList(<<>>) /\ DOMAIN <<>> = {}
    BY DEF IsList
  <2>2. RowsFit(g, <<>>)
    BY <2>1 DEF RowsFit
  <2>3. RowsFit(g, <<EmptyRow(g)>>)
    <3> DEFINE row == EmptyRow(g)
    <3>1. RowFits(g, row)
      BY EmptyRowFits
    <3> HIDE DEF row
    <3>2. IsList(<<row>>) /\ DOMAIN <<row>> = {1} /\ <<row>>[1] = row
      BY DEF IsList
    <3>3. RowsFit(g, <<row>>)
      BY <3>1, <3>2 DEF RowsFit
    <3> QED
      BY <3>3 DEF row
  <2> QED
    BY <2>2, <2>3
<1>5. DetailsFit(details)
  <2>1. IsOn(details, Types) /\ \A t \in Types : details[t] = EmptyDetails(t)
    BY DEF IsOn
  <2> HIDE DEF details
  <2>2. "bounty" \in Types
    BY DEF Types
  <2> QED
    BY <2>1, <2>2, EmptyDetailsFit DEF DetailsFit
<1> HIDE DEF fields, rows, details, remote
<1>6. /\ EmptyForm.fields = fields /\ EmptyForm.rows = rows /\ EmptyForm.details = details
      /\ EmptyForm.remote = remote
  BY <1>1
<1>7. IsForm(EmptyForm)
  BY <1>1 DEF IsForm, Types
<1> QED
  BY <1>2, <1>s, <1>3, <1>a, <1>4, <1>5, <1>6, <1>7 DEF FormFits

(* The list that a branch has. *)
LEMMA ListOfIs ==
  ASSUME NEW t \in Types
  PROVE  /\ t = "hackathon" => ListOf(t) = {"prizes"}
         /\ t = "bounty" => ListOf(t) = {"rewardTiers"}
         /\ t \notin {"hackathon", "bounty"} => ListOf(t) = {}
<1>1. DOMAIN DetailRows = {"hackathon", "bounty"}
      /\ DetailRows["hackathon"] = "prizes" /\ DetailRows["bounty"] = "rewardTiers"
  BY DEF DetailRows
<1>2. \A x : x \in ListOf(t) <=> \E u \in DOMAIN DetailRows : u = t /\ x = DetailRows[u]
  BY DEF ListOf
<1>3. CASE t = "hackathon"
  BY <1>1, <1>2, <1>3
<1>4. CASE t = "bounty"
  BY <1>1, <1>2, <1>4
<1>5. CASE t \notin {"hackathon", "bounty"}
  BY <1>1, <1>2, <1>5
<1> QED
  BY <1>3, <1>4, <1>5

(* The branches that are read of a stored record fit (readDetails), *)
LEMMA ReadDetailsFit ==
  ASSUME NEW d, IsStored(d)
  PROVE  DetailsFit(ReadDetails(d.details))
<1> DEFINE details == ReadDetails(d.details)
<1>1. /\ d.details["fundingType"] = d.type /\ d.type \in Types
      /\ d.type = "bounty" =>
           "bountyKind" \in DOMAIN d.details /\ d.details["bountyKind"] \in {"task", "security"}
  BY DEF IsStored, IsListing, Conforms, DetailsConform
<1>2. IsOn(details, Types)
      /\ \A t \in Types : details[t] = IF t = d.type THEN Reads(d.details, DetailMembers[t], Default(t))
                                       ELSE EmptyDetails(t)
  BY <1>1 DEF ReadDetails, IsOn
<1>3. ASSUME NEW t \in Types PROVE IsOn(details[t], DetailMembers[t]) /\ Shown(details[t])
  BY <1>2, ReadsIs, ReadsShown, DefaultShown, EmptyDetailsFit
<1>4. details["bounty"]["bountyKind"] \in {"task", "security"}
  <2>1. "bounty" \in Types /\ "task" \in Choices /\ "security" \in Choices /\ "bountyKind" \in DetailMembers["bounty"]
    BY MembersAre DEF Types, Choices
  <2>2. CASE d.type = "bounty"
    <3>1. d.details["bountyKind"] # Null
      BY <1>1, <2>1, <2>2, ListingEditorAssumption
    <3>2. details["bounty"]["bountyKind"] = Shows(d.details["bountyKind"])
      BY <1>1, <1>2, <2>1, <2>2, <3>1, ReadsIs
    <3> QED
      BY <1>1, <2>1, <2>2, <3>2, ShowsIs
  <2>3. CASE d.type # "bounty"
    BY <1>2, <2>1, <2>3, EmptyDetailsFit
  <2> QED
    BY <2>2, <2>3
<1> HIDE DEF details
<1>5. DetailsFit(details)
  BY <1>2, <1>3, <1>4 DEF DetailsFit
<1> QED
  BY <1>5 DEF details

(* and so does the form that is read of it (fromDocument). *)
LEMMA FromDocumentFits ==
  ASSUME NEW d, IsStored(d)
  PROVE  FormFits(FromDocument(d))
<1> DEFINE operating == ReadRows(d.rows.operatingOrganizations, "operatingOrganizations")
           tiers == Listed(d.details, "rewardTiers")
           fields == Reads(d.fields, Fields, <<>>)
           rows == [g \in AllGroups |->
             CASE g = "operatingOrganizations" ->
                    IF operating = <<>> THEN <<EmptyRow(g)>> ELSE operating
               [] g \in {"prizes", "rewardTiers"} -> ReadRows(Listed(d.details, g), g)
               [] OTHER -> ReadRows(d.rows[g], g)]
           details == ReadDetails(d.details)
           remote == ClaimsNoPlace(d.details)
           pays == IF tiers # <<>> \/ Listed(d.details, "bountyKind") = "security"
                     THEN "tiers" ELSE "single"
<1>1. FromDocument(d) = [id |-> d.id, dirty |-> TRUE, type |-> d.type, fields |-> fields, rows |-> rows,
                         details |-> details, remote |-> remote, pays |-> pays]
  BY DEF FromDocument
<1>2. /\ d.type \in Types
      /\ \A g \in TopGroups : AreRows(g, d.rows[g])
      /\ \A g \in ListOf(d.type) \cap DOMAIN d.details : AreRows(g, d.details[g])
  BY DEF IsStored, IsListing
<1>3. IsOn(fields, Fields) /\ Shown(fields)
  <2>1. Shown(<<>>)
    <3>1. DOMAIN <<>> = {}
      OBVIOUS
    <3> QED
      BY <3>1 DEF Shown
  <2> QED
    BY <2>1, ReadsIs, ReadsShown
<1>4. IsOn(rows, AllGroups)
  BY DEF IsOn
<1>5. ASSUME NEW h \in AllGroups PROVE RowsFit(h, rows[h])
  <2>1. AreRows(h, <<>>)
    <3>1. IsList(<<>>) /\ DOMAIN <<>> = {}
      BY DEF IsList
    <3> QED
      BY <3>1 DEF AreRows
  <2>2. CASE h = "operatingOrganizations"
    <3>1. rows[h] = IF operating = <<>> THEN <<EmptyRow(h)>> ELSE operating
      BY <2>2
    <3>2. RowsFit(h, operating)
      BY <1>2, <2>2, Known, RowsRead
    <3>3. RowsFit(h, <<EmptyRow(h)>>)
      <4> DEFINE row == EmptyRow(h)
      <4>1. RowFits(h, row)
        BY EmptyRowFits
      <4> HIDE DEF row
      <4>2. IsList(<<row>>) /\ DOMAIN <<row>> = {1} /\ <<row>>[1] = row
        BY DEF IsList
      <4>3. RowsFit(h, <<row>>)
        BY <4>1, <4>2 DEF RowsFit
      <4> QED
        BY <4>3 DEF row
    <3> HIDE DEF operating, rows
    <3> QED
      BY <3>1, <3>2, <3>3
  <2>3. CASE h \in {"prizes", "rewardTiers"}
    <3>1. rows[h] = ReadRows(Listed(d.details, h), h)
      BY <2>3
    <3>2. AreRows(h, Listed(d.details, h))
      <4>1. CASE h \in DOMAIN d.details
        <5>1. DOMAIN d.details \subseteq {"fundingType"} \cup DetailMembers[d.type] \cup ListOf(d.type)
          BY DEF IsStored, Conforms, DetailsConform
        <5>2. h \notin DetailMembers[d.type]
          BY <1>2, <2>3 DEF DetailMembers, Types
        <5>3. h \in ListOf(d.type)
          BY <2>3, <4>1, <5>1, <5>2
        <5>4. AreRows(h, d.details[h])
          BY <1>2, <4>1, <5>3
        <5> QED
          BY <4>1, <5>4 DEF Listed
      <4>2. CASE h \notin DOMAIN d.details
        BY <2>1, <4>2 DEF Listed
      <4> QED
        BY <4>1, <4>2
    <3> QED
      BY <3>1, <3>2, RowsRead
  <2>4. CASE h \notin {"operatingOrganizations", "prizes", "rewardTiers"}
    <3>1. rows[h] = ReadRows(d.rows[h], h)
      BY <2>4
    <3>2. h \in TopGroups
      BY <2>4 DEF TopGroups
    <3> QED
      BY <1>2, <3>1, <3>2, RowsRead
  <2> QED
    BY <2>2, <2>3, <2>4
<1>a. Apart(Bases(rows["operatingOrganizations"]))
  <2> DEFINE g == "operatingOrganizations"
             row == EmptyRow(g)
  <2>1. rows[g] = IF operating = <<>> THEN <<row>> ELSE operating
    BY Known
  <2>2. AreRows(g, d.rows[g]) /\ Apart(d.rows[g]) /\ g \in AllGroups
    BY <1>2, Known DEF IsStored, IsListing
  <2>3. Apart(Bases(operating))
    BY <2>2, RowsRead
  <2> HIDE DEF row, rows, operating
  <2>4. DOMAIN <<row>> = {1}
    OBVIOUS
  <2>5. DOMAIN Bases(<<row>>) = {1}
    BY <2>4 DEF Bases
  <2> QED
    BY <2>1, <2>3, <2>5 DEF Apart, Named
<1>6. DetailsFit(details)
  BY ReadDetailsFit
<1>7. remote \in [Located -> BOOLEAN] /\ pays \in {"single", "tiers"}
  BY DEF ClaimsNoPlace, IsOn
<1> HIDE DEF fields, rows, details, remote, pays, operating, tiers
<1>8. LET f == FromDocument(d)
      IN f.fields = fields /\ f.rows = rows /\ f.details = details /\ f.remote = remote
  BY <1>1
<1>9. IsForm(FromDocument(d))
  BY <1>1, <1>2, <1>7 DEF IsForm
<1> QED
  BY <1>3, <1>4, <1>5, <1>a, <1>6, <1>7, <1>8, <1>9 DEF FormFits

(* Rows with the objects of other rows, each of another one, and of no object. *)
LEMMA StillApart ==
  ASSUME NEW s, Apart(Bases(s)), NEW t, NEW at,
         \A i \in DOMAIN t : "contacts" \in DOMAIN t[i].base => at[i] \in DOMAIN s /\ t[i].base = s[at[i]].base,
         \A i, j \in DOMAIN t : i # j => at[i] # at[j]
  PROVE  Apart(Bases(t))
<1>1. \A i \in DOMAIN s : Bases(s)[i] = s[i].base
  BY DEF Bases
<1>2. \A i \in DOMAIN t : Bases(t)[i] = t[i].base
  BY DEF Bases
<1>3. DOMAIN Bases(s) = DOMAIN s /\ DOMAIN Bases(t) = DOMAIN t
  BY DEF Bases
<1> QED
  BY <1>1, <1>2, <1>3 DEF Apart, Named

(* A proposed id changes nothing else of the form (retitle, withOperating). *)
LEMMA FollowingFits ==
  ASSUME NEW f, FormFits(f)
  PROVE  FormFits(Following(f))
  BY DEF FormFits, IsForm, Following

(* Rows that fit may take the place of the rows of a group, *)
LEMMA RowsPut ==
  ASSUME NEW f, FormFits(f), NEW g \in AllGroups, NEW rows, RowsFit(g, rows),
         g = "operatingOrganizations" => Apart(Bases(rows))
  PROVE  FormFits(WithRows(f, g, rows))
<1> DEFINE h == [f EXCEPT !.rows[g] = rows]
<1>1. /\ IsForm(h) /\ h.fields = f.fields /\ h.details = f.details /\ h.remote = f.remote
      /\ h.rows = [f.rows EXCEPT ![g] = rows]
  BY DEF FormFits, IsForm
<1>2. /\ IsOn(h.rows, AllGroups) /\ \A k \in AllGroups : RowsFit(k, h.rows[k])
      /\ Apart(Bases(h.rows["operatingOrganizations"]))
  <2>1. f.rows \in [AllGroups -> {f.rows[x] : x \in AllGroups}]
    BY DEF FormFits, IsOn
  <2>2. h.rows = [k \in AllGroups |-> IF k = g THEN rows ELSE f.rows[k]]
    BY <1>1, <2>1
  <2> QED
    BY <2>2, Known DEF FormFits, IsOn
<1> HIDE DEF h
<1>3. FormFits(h)
  BY <1>1, <1>2 DEF FormFits
<1> QED
  BY <1>3, FollowingFits DEF WithRows, WithOperating, h

(* so a row may be added. *)
LEMMA AddRowFits ==
  ASSUME FormFits(editor), NEW g \in AllGroups, AddRow(g)
  PROVE  FormFits(editor')
<1> DEFINE rows == editor.rows[g]
           row == EmptyRow(g)
           added == Append(rows, row)
<1>1. /\ RowsFit(g, rows) /\ editor' = WithRows(editor, g, added)
      /\ g = "operatingOrganizations" => Apart(Bases(rows))
  BY DEF AddRow, Edit, FormFits
<1>2. RowFits(g, row) /\ row.base = <<>>
  BY EmptyRowFits
<1> HIDE DEF row, rows
<1>3. RowsFit(g, added)
  BY <1>1, <1>2, Appended
<1>4. ASSUME g = "operatingOrganizations" PROVE Apart(Bases(added))
  <2>1. rows \in Seq({rows[i] : i \in DOMAIN rows})
    BY <1>1 DEF RowsFit, IsList
  <2>2. /\ DOMAIN added = 1..(Len(rows) + 1) /\ DOMAIN rows = 1..Len(rows) /\ Len(rows) \in Nat
        /\ \A i \in DOMAIN rows : added[i] = rows[i]
        /\ added[Len(rows) + 1] = row
    BY <2>1
  <2>3. DOMAIN row.base = {}
    <3>1. DOMAIN <<>> = {}
      OBVIOUS
    <3> QED
      BY <1>2, <3>1
  <2> HIDE DEF added
  <2>4. \A i \in DOMAIN added : "contacts" \in DOMAIN added[i].base => i \in DOMAIN rows /\ added[i].base = rows[i].base
    <3> SUFFICES ASSUME NEW i \in DOMAIN added, "contacts" \in DOMAIN added[i].base
                 PROVE  i \in DOMAIN rows /\ added[i].base = rows[i].base
      OBVIOUS
    <3>1. CASE i = Len(rows) + 1
      <4>1. added[i] = row
        BY <2>2, <3>1
      <4> QED
        BY <2>3, <4>1
    <3>2. CASE i # Len(rows) + 1
      BY <2>2, <3>2
    <3> QED
      BY <3>1, <3>2
  <2> DEFINE at == [i \in DOMAIN added |-> i]
  <2>5. \A i \in DOMAIN added : "contacts" \in DOMAIN added[i].base => at[i] \in DOMAIN rows /\ added[i].base = rows[at[i]].base
    BY <2>4
  <2>6. \A i, j \in DOMAIN added : i # j => at[i] # at[j]
    OBVIOUS
  <2> HIDE DEF at
  <2> QED
    BY <1>1, <1>4, <2>5, <2>6, StillApart
<1> QED
  BY <1>1, <1>3, <1>4, RowsPut DEF rows

(* The part of a sequence behind a place. *)
LEMMA RestIs ==
  ASSUME NEW S, NEW s \in Seq(S), NEW k \in 1..Len(s)
  PROVE  LET b == SubSeq(s, k + 1, Len(s)) IN
          /\ b \in Seq(S) /\ Len(b) = Len(s) - k /\ \A i \in 1..(Len(s) - k) : b[i] = s[k + i]
<1> DEFINE b == SubSeq(s, k + 1, Len(s))
<1>1. b \in Seq(S) /\ Len(b) = IF k + 1 <= Len(s) THEN Len(s) - k ELSE 0
  OBVIOUS
<1>2. Len(b) = Len(s) - k
  BY <1>1
<1>3. ASSUME NEW i \in 1..(Len(s) - k) PROVE b[i] = s[k + i]
  <2>1. i \in 1..Len(b)
    BY <1>2
  <2>2. b[i] = s[i + ((k + 1) - 1)]
    BY <2>1
  <2>3. i + ((k + 1) - 1) = k + i
    OBVIOUS
  <2> QED
    BY <2>2, <2>3
<1> QED
  BY <1>1, <1>2, <1>3

(* Two sequences, one behind the other. *)
LEMMA JoinedIs ==
  ASSUME NEW S, NEW a \in Seq(S), NEW b \in Seq(S), NEW t, t = a \o b
  PROVE  /\ Len(t) = Len(a) + Len(b) /\ DOMAIN t = 1..(Len(a) + Len(b))
         /\ \A i \in DOMAIN t : t[i] = IF i <= Len(a) THEN a[i] ELSE b[i - Len(a)]
  OBVIOUS

(* The list without one of its rows has the others, those behind one place earlier (removeRow). *)
LEMMA RemovedIs ==
  ASSUME NEW s, IsList(s), NEW k \in DOMAIN s
  PROVE  LET t == Seqs!RemoveAt(s, k)
         IN /\ DOMAIN t = 1..(Len(s) - 1) /\ DOMAIN s = 1..Len(s) /\ Len(s) \in Nat
            /\ \A i \in DOMAIN t : t[i] = s[IF i < k THEN i ELSE i + 1]
<1> DEFINE S == {s[i] : i \in DOMAIN s}
           t == Seqs!RemoveAt(s, k)
           a == SubSeq(s, 1, k - 1)
           b == SubSeq(s, k + 1, Len(s))
<1>1. s \in Seq(S) /\ k \in 1..Len(s) /\ Len(s) \in Nat /\ DOMAIN s = 1..Len(s)
  BY DEF IsList
<1>2. a \in Seq(S) /\ Len(a) = k - 1 /\ \A i \in 1..(k - 1) : a[i] = s[i]
  BY <1>1
<1>3. b \in Seq(S) /\ Len(b) = Len(s) - k /\ \A i \in 1..(Len(s) - k) : b[i] = s[k + i]
  BY <1>1, RestIs
<1>4. t = a \o b
  BY DEF Seqs!RemoveAt
<1> HIDE DEF S, t, a, b
<1>5. /\ DOMAIN t = 1..(Len(a) + Len(b))
      /\ \A i \in DOMAIN t : t[i] = IF i <= Len(a) THEN a[i] ELSE b[i - Len(a)]
  BY <1>2, <1>3, <1>4, JoinedIs
<1>6. Len(a) + Len(b) = Len(s) - 1
  BY <1>1, <1>2, <1>3
<1>7. ASSUME NEW i \in DOMAIN t PROVE t[i] = s[IF i < k THEN i ELSE i + 1]
  <2>1. i \in 1..(Len(s) - 1) /\ k \in Nat
    BY <1>1, <1>5, <1>6
  <2>2. CASE i < k
    <3>1. i <= Len(a) /\ i \in 1..(k - 1)
      BY <1>1, <1>2, <2>1, <2>2
    <3> QED
      BY <1>2, <1>5, <2>2, <3>1
  <2>3. CASE ~(i < k)
    <3>1. /\ i - (k - 1) \in 1..(Len(s) - k) /\ k + (i - (k - 1)) = i + 1
          /\ ~(i <= Len(a)) /\ i - Len(a) = i - (k - 1)
      BY <1>1, <1>2, <2>1, <2>3
    <3>2. b[i - (k - 1)] = s[k + (i - (k - 1))]
      BY <1>3, <3>1
    <3> QED
      BY <1>5, <2>3, <3>1, <3>2
  <2> QED
    BY <2>2, <2>3
<1> QED
  BY <1>1, <1>5, <1>6, <1>7 DEF t

(* A row may be removed, *)
LEMMA RemoveRowFits ==
  ASSUME FormFits(editor), NEW g \in AllGroups, NEW i \in DOMAIN editor.rows[g], RemoveRow(g, i)
  PROVE  FormFits(editor')
<1> DEFINE rows == editor.rows[g]
           less == Seqs!RemoveAt(rows, i)
           Spot(j) == IF j < i THEN j ELSE j + 1
<1>1. /\ RowsFit(g, rows) /\ editor' = WithRows(editor, g, less) /\ i \in DOMAIN rows
      /\ g = "operatingOrganizations" => Apart(Bases(rows))
  BY DEF RemoveRow, Edit, FormFits
<1> HIDE DEF rows
<1>2. RowsFit(g, less)
  BY <1>1, Removed
<1>3. /\ DOMAIN less = 1..(Len(rows) - 1) /\ DOMAIN rows = 1..Len(rows) /\ Len(rows) \in Nat
      /\ \A j \in DOMAIN less : less[j] = rows[Spot(j)]
  BY <1>1, RemovedIs DEF RowsFit
<1> HIDE DEF less
<1> DEFINE at == [j \in DOMAIN less |-> Spot(j)]
<1>4. \A j \in DOMAIN less : at[j] \in DOMAIN rows
  BY <1>1, <1>3
<1>5. \A j, k \in DOMAIN less : j # k => at[j] # at[k]
  BY <1>1, <1>3
<1>6. \A j \in DOMAIN less : "contacts" \in DOMAIN less[j].base => at[j] \in DOMAIN rows /\ less[j].base = rows[at[j]].base
  BY <1>3, <1>4
<1> HIDE DEF at, Spot
<1>7. g = "operatingOrganizations" => Apart(Bases(less))
  BY <1>1, <1>5, <1>6, StillApart
<1> QED
  BY <1>1, <1>2, <1>7, RowsPut DEF rows

(* moved (moveRow), *)
LEMMA MoveRowFits ==
  ASSUME FormFits(editor), NEW g \in AllGroups, NEW i \in DOMAIN editor.rows[g], MoveRow(g, i)
  PROVE  FormFits(editor')
<1> DEFINE rows == editor.rows[g]
           moved == [rows EXCEPT ![i] = rows[i + 1], ![i + 1] = rows[i]]
<1>1. RowsFit(g, rows) /\ i \in DOMAIN rows /\ i + 1 \in DOMAIN rows /\ editor' = WithRows(editor, g, moved)
  BY DEF MoveRow, Edit, FormFits
<1>2. rows \in [DOMAIN rows -> {rows[x] : x \in DOMAIN rows}]
  BY <1>1, ListIs DEF RowsFit, IsList
<1>3. IsOn(moved, DOMAIN rows) /\ \A k \in DOMAIN rows : \E j \in DOMAIN rows : moved[k] = rows[j]
  BY <1>1, <1>2 DEF IsOn
<1>4. RowsFit(g, moved)
  BY <1>1, <1>3, Replaced
<1>5. ASSUME g = "operatingOrganizations" PROVE Apart(Bases(moved))
  <2> DEFINE Spot(j) == IF j = i THEN i + 1 ELSE IF j = i + 1 THEN i ELSE j
  <2>0. i \in Nat
    BY <1>1, ListIs DEF RowsFit
  <2>1. \A j \in DOMAIN rows : Spot(j) \in DOMAIN rows /\ moved[j] = rows[Spot(j)]
    BY <1>1, <1>2, <2>0
  <2>2. \A j, k \in DOMAIN rows : j # k => Spot(j) # Spot(k)
    BY <2>0
  <2>3. DOMAIN moved = DOMAIN rows /\ Apart(Bases(rows))
    BY <1>5 DEF FormFits
  <2> HIDE DEF Spot, rows, moved
  <2> DEFINE at == [j \in DOMAIN moved |-> Spot(j)]
  <2>4. \A j \in DOMAIN moved : "contacts" \in DOMAIN moved[j].base => at[j] \in DOMAIN rows /\ moved[j].base = rows[at[j]].base
    BY <2>1, <2>3
  <2>5. \A j, k \in DOMAIN moved : j # k => at[j] # at[k]
    BY <2>2, <2>3
  <2> HIDE DEF at
  <2> QED
    BY <2>3, <2>4, <2>5, StillApart
<1> QED
  BY <1>1, <1>4, <1>5, RowsPut

(* and edited: another payout model empties the amounts of the former, and the rest stays. *)
LEMMA SwitchedFits ==
  ASSUME NEW g \in AllGroups, NEW cells, CellsFit(g, cells), NEW m \in RowMembers[g], NEW w \in MayHold(m)
  PROVE  CellsFit(g, Switched(g, cells, m, w))
<1> DEFINE new == Switched(g, cells, m, w)
<1>1. DOMAIN cells = RowMembers[g]
  BY DEF CellsFit, IsOn
<1>2. IsOn(new, RowMembers[g]) /\ DOMAIN new = RowMembers[g]
  BY <1>1 DEF Switched, IsOn
<1>3. \A n \in RowMembers[g] : new[n] = IF n = m THEN w ELSE
         IF \/ m = "model" /\ n \in Amounts \ (Allowed[w] \cup {"basis"})
            \/ m = "deadlineType" /\ w = "rolling" /\ n = "date"
         THEN Unstated ELSE cells[n]
  BY <1>1 DEF Switched
<1> HIDE DEF new
<1>4. g = "deadlines" => new["deadlineType"] \in {"fixed", "rolling"}
  BY <1>3, MembersAre DEF MayHold, CellsFit, Chosen, Amounts
<1>5. g = "socialLinks" => new["platform"] # Unstated
  BY <1>3, MembersAre, ListingEditorAssumption DEF MayHold, CellsFit, Chosen
<1>6. g = "rewardTiers" => new["model"] \in DOMAIN Allowed
  BY <1>3, MembersAre DEF MayHold, CellsFit, Chosen, Amounts
<1>7. Shown(new)
  <2>1. w \in Words \cup Slugs \cup Choices \cup {Unstated}
    BY DEF MayHold, Choices, Allowed
  <2> QED
    BY <1>1, <1>2, <1>3, <2>1, ShowsIs DEF CellsFit, Shown
<1>8. Chosen(g, new)
  BY <1>4, <1>5, <1>6 DEF Chosen
<1> QED
  BY <1>2, <1>7, <1>8 DEF new, CellsFit

(* The form fits after the edit of a row (replaceRow), *)
LEMMA EditRowFits ==
  ASSUME FormFits(editor), NEW g \in AllGroups, NEW i \in DOMAIN editor.rows[g],
         NEW m \in RowMembers[g], NEW w \in MayHold(m), EditRow(g, i, m, w)
  PROVE  FormFits(editor')
<1> DEFINE rows == editor.rows[g]
           cells == Switched(g, rows[i].cells, m, w)
           edited == [rows EXCEPT ![i].cells = cells]
<1>1. RowsFit(g, rows) /\ i \in DOMAIN rows /\ editor' = WithRows(editor, g, edited)
  BY DEF EditRow, Edit, FormFits
<1>2. RowFits(g, rows[i])
  BY <1>1 DEF RowsFit
<1>3. CellsFit(g, cells)
  BY <1>2, SwitchedFits DEF RowFits
<1> HIDE DEF cells
<1>4. rows \in [DOMAIN rows -> {rows[x] : x \in DOMAIN rows}]
  BY <1>1, ListIs DEF RowsFit, IsList
<1>5. IsOn(edited, DOMAIN rows) /\ edited[i] = [rows[i] EXCEPT !.cells = cells]
      /\ \A k \in DOMAIN rows : k # i => edited[k] = rows[k]
  BY <1>1, <1>4 DEF IsOn
<1>6. RowFits(g, edited[i])
  <2>1. edited[i] = [cells |-> cells, base |-> rows[i].base]
    BY <1>2, <1>5 DEF RowFits
  <2> QED
    BY <1>3, <2>1 DEF RowFits
<1>7. edited[i].base = rows[i].base /\ DOMAIN edited = DOMAIN rows
  BY <1>2, <1>5 DEF RowFits, IsOn
<1>8. g = "operatingOrganizations" => Apart(Bases(rows))
  BY DEF FormFits
<1> HIDE DEF edited, rows
<1>9. RowsFit(g, edited)
  BY <1>1, <1>5, <1>6, Replaced
<1>10. ASSUME g = "operatingOrganizations" PROVE Apart(Bases(edited))
  <2> DEFINE at == [j \in DOMAIN edited |-> j]
  <2>1. \A j \in DOMAIN edited : "contacts" \in DOMAIN edited[j].base => at[j] \in DOMAIN rows /\ edited[j].base = rows[at[j]].base
    BY <1>5, <1>7
  <2>2. \A j, k \in DOMAIN edited : j # k => at[j] # at[k]
    OBVIOUS
  <2> HIDE DEF at
  <2> QED
    BY <1>8, <1>10, <2>1, <2>2, StillApart
<1> QED
  BY <1>1, <1>9, <1>10, RowsPut DEF rows

(* of a member at the top, *)
LEMMA EditFieldFits ==
  ASSUME FormFits(editor), NEW m \in Fields, NEW w \in Words \cup {Unstated}, EditField(m, w)
  PROVE  FormFits(editor')
<1> DEFINE f == [editor EXCEPT !.fields[m] = w]
<1>1. /\ IsForm(f) /\ f.rows = editor.rows /\ f.details = editor.details /\ f.remote = editor.remote
      /\ f.fields = [editor.fields EXCEPT ![m] = w]
  BY DEF FormFits, IsForm
<1>2. IsOn(f.fields, Fields) /\ Shown(f.fields)
  <2>1. editor.fields \in [Fields -> {editor.fields[x] : x \in Fields}]
    BY DEF FormFits, IsOn
  <2>2. f.fields = [x \in Fields |-> IF x = m THEN w ELSE editor.fields[x]]
    BY <1>1, <2>1
  <2>3. w # Null /\ Shows(w) = w
    BY ShowsIs
  <2> HIDE DEF f
  <2> QED
    BY <2>1, <2>2, <2>3 DEF FormFits, IsOn, Shown
<1>3. editor' = f \/ editor' = Following(f)
  BY DEF EditField, Edit
<1> HIDE DEF f
<1>4. FormFits(f)
  BY <1>1, <1>2 DEF FormFits
<1> QED
  BY <1>3, <1>4, FollowingFits

(* of the id, the type and the way a bounty pays, *)
LEMMA ChoicesFit ==
  ASSUME FormFits(editor),
         \/ \E s \in Slugs : TypeId(<<s, ByHand>>)
         \/ \E t \in Types : ChooseType(t)
         \/ \E pays \in {"single", "tiers"} : ChoosePays(pays)
  PROVE  FormFits(editor')
  BY DEF FormFits, IsForm, TypeId, ChooseType, ChoosePays, Edit

(* of the claim that there is no place, *)
LEMMA RemoteFits ==
  ASSUME FormFits(editor), NEW remote \in BOOLEAN, ClaimNoPlace(remote)
  PROVE  FormFits(editor')
<1>1. /\ IsForm(editor') /\ editor'.rows = editor.rows /\ editor'.details = editor.details
      /\ editor'.fields = editor.fields
      /\ editor'.remote = [editor.remote EXCEPT ![editor.type] = remote]
      /\ editor.type \in Located
  BY DEF FormFits, IsForm, ClaimNoPlace, Edit
<1>2. editor'.remote \in [Located -> BOOLEAN]
  BY <1>1 DEF FormFits, IsOn
<1> QED
  BY <1>1, <1>2 DEF FormFits

(* of a cell of a branch: *)
LEMMA DetailPut ==
  ASSUME NEW details, DetailsFit(details), NEW t \in Types, NEW m \in DetailMembers[t], NEW w,
         w # Null, Shows(w) = w, m = "bountyKind" => w \in {"task", "security"}
  PROVE  DetailsFit([details EXCEPT ![t][m] = w])
<1> DEFINE new == [details EXCEPT ![t][m] = w]
<1>1. /\ details \in [Types -> {details[x] : x \in Types}]
      /\ details[t] \in [DetailMembers[t] -> {details[t][x] : x \in DetailMembers[t]}]
  BY DEF DetailsFit, IsOn
<1>2. /\ IsOn(new, Types) /\ new[t] = [details[t] EXCEPT ![m] = w]
      /\ \A u \in Types : u # t => new[u] = details[u]
  BY <1>1 DEF IsOn
<1>3. IsOn(new[t], DetailMembers[t]) /\ new[t][m] = w
      /\ \A n \in DetailMembers[t] : n # m => new[t][n] = details[t][n]
  BY <1>1, <1>2 DEF IsOn
<1> HIDE DEF new
<1>4. "bounty" \in Types /\ "bountyKind" \in DetailMembers["bounty"]
  BY MembersAre DEF Types
<1>a. DOMAIN new[t] = DetailMembers[t] /\ DOMAIN details[t] = DetailMembers[t]
  BY <1>1, <1>3 DEF IsOn
<1>b. Shown(new[t])
  BY <1>3, <1>a DEF DetailsFit, Shown
<1>5. DetailsFit(new)
  BY <1>2, <1>3, <1>4, <1>b DEF DetailsFit
<1> QED
  BY <1>5 DEF new

(* after the choice of a bounty's kind, *)
LEMMA KindFits ==
  ASSUME FormFits(editor), NEW kind \in {"task", "security"}, ChooseKind(kind)
  PROVE  FormFits(editor')
<1>1. /\ IsForm(editor') /\ editor'.rows = editor.rows /\ editor'.remote = editor.remote
      /\ editor'.fields = editor.fields
      /\ editor'.details = [editor.details EXCEPT !["bounty"]["bountyKind"] = kind]
  BY DEF FormFits, IsForm, ChooseKind, Edit
<1>2. "bounty" \in Types /\ "bountyKind" \in DetailMembers["bounty"]
  BY MembersAre DEF Types
<1>w. kind # Null /\ Shows(kind) = kind
  BY ShowsIs DEF Choices
<1>3. DetailsFit(editor'.details)
  BY <1>1, <1>2, <1>w, DetailPut DEF FormFits
<1> QED
  BY <1>1, <1>3 DEF FormFits

(* and after what is typed in a branch. *)
LEMMA EditDetailFits ==
  ASSUME FormFits(editor), NEW m \in DetailMembers[editor.type], NEW w \in Words \cup {Unstated}, EditDetail(m, w)
  PROVE  FormFits(editor')
<1>1. /\ IsForm(editor') /\ editor'.rows = editor.rows /\ editor'.remote = editor.remote
      /\ editor'.fields = editor.fields /\ editor.type \in Types
      /\ editor'.details = [editor.details EXCEPT ![editor.type][m] = w]
  BY DEF FormFits, IsForm, EditDetail, Edit
<1>2. m # "bountyKind"
  BY DEF EditDetail, DetailOnPage
<1>w. w # Null /\ Shows(w) = w
  BY ShowsIs
<1>3. DetailsFit(editor'.details)
  BY <1>1, <1>2, <1>w, DetailPut DEF FormFits
<1> QED
  BY <1>1, <1>3 DEF FormFits

(* What the cells of each group state (buildDeadline, buildPrize, buildPayout). *)
LEMMA StatedIs ==
  ASSUME NEW g \in AllGroups, NEW cells, IsOn(cells, RowMembers[g])
  PROVE  /\ DOMAIN Stated(g, cells) = RowMembers[g]
         /\ g \notin {"deadlines", "rewardTiers", "prizes"} => Stated(g, cells) = cells
         /\ g = "deadlines" =>
              /\ \A m \in {"deadlineType", "label"} : Stated(g, cells)[m] = cells[m]
              /\ Stated(g, cells)["date"] = IF cells["deadlineType"] = "rolling" THEN Unstated ELSE cells["date"]
         /\ g = "rewardTiers" => \A m \in RowMembers[g] :
              Stated(g, cells)[m] = IF m \in Amounts \ Allowed[cells["model"]] THEN Unstated ELSE cells[m]
         /\ g = "prizes" =>
              Stated(g, cells)["amount"] = IF cells["amount"] = Unstated THEN "0" ELSE cells["amount"]
<1>1. DOMAIN cells = RowMembers[g] /\ cells \in [RowMembers[g] -> {cells[x] : x \in RowMembers[g]}]
  BY DEF IsOn
<1>2. CASE g = "deadlines"
  BY <1>1, <1>2, MembersAre DEF Stated
<1>3. CASE g = "rewardTiers"
  <2>1. Stated(g, cells) =
          [m \in DOMAIN cells |-> IF m \in Amounts \ Allowed[cells["model"]] THEN Unstated ELSE cells[m]]
    BY <1>3 DEF Stated
  <2> QED
    BY <1>1, <1>3, <2>1
<1>4. CASE g = "prizes"
  BY <1>1, <1>4, MembersAre DEF Stated
<1>5. CASE g \notin {"deadlines", "rewardTiers", "prizes"}
  BY <1>1, <1>5 DEF Stated
<1> QED
  BY <1>2, <1>3, <1>4, <1>5

(* A row that fits is written as one the Standard takes if the form finds nothing wrong with it. *)
LEMMA RowWritten ==
  ASSUME NEW g \in AllGroups, NEW row, RowFits(g, row)
  PROVE  LET written == WrittenOver(row.base, Stated(g, row.cells))
         IN /\ IsRow(g, written)
            /\ ~RowProblem(g, row.cells) => RowConforms(g, written)
            /\ \A m \in RowMembers[g] :
                 /\ m \in DOMAIN written <=> Stated(g, row.cells)[m] # Unstated
                 /\ m \in DOMAIN written => written[m] = Stated(g, row.cells)[m]
<1> DEFINE cells == row.cells
           stated == Stated(g, cells)
           written == WrittenOver(row.base, stated)
<1>1. IsOn(cells, RowMembers[g]) /\ Chosen(g, cells) /\ Shown(cells)
  BY DEF RowFits, CellsFit
<1> HIDE DEF cells
<1>2. /\ DOMAIN stated = RowMembers[g]
      /\ g \notin {"deadlines", "rewardTiers", "prizes"} => stated = cells
      /\ g = "deadlines" =>
           /\ \A m \in {"deadlineType", "label"} : stated[m] = cells[m]
           /\ stated["date"] = IF cells["deadlineType"] = "rolling" THEN Unstated ELSE cells["date"]
      /\ g = "rewardTiers" => \A m \in RowMembers[g] :
           stated[m] = IF m \in Amounts \ Allowed[cells["model"]] THEN Unstated ELSE cells[m]
      /\ g = "prizes" => stated["amount"] = IF cells["amount"] = Unstated THEN "0" ELSE cells["amount"]
  BY <1>1, StatedIs
<1> HIDE DEF stated
<1>3. \A m \in RowMembers[g] :
        /\ m \in DOMAIN written <=> stated[m] # Unstated
        /\ m \in DOMAIN written => written[m] = stated[m]
  <2>1. DOMAIN stated = RowMembers[g]
    BY <1>2
  <2>2. /\ DOMAIN written = (DOMAIN row.base \ DOMAIN stated) \cup {m \in DOMAIN stated : stated[m] # Unstated}
        /\ \A m \in DOMAIN stated : stated[m] # Unstated => written[m] = stated[m]
    BY WrittenIs
  <2> HIDE DEF written
  <2> QED
    BY <2>1, <2>2
<1> HIDE DEF written
<1>4. "fixed" # Unstated /\ "rolling" # Unstated /\ "0" # Unstated /\ \A x \in DOMAIN Allowed : x # Unstated
  BY ListingEditorAssumption DEF Choices, Allowed
<1>5. CASE g = "deadlines"
  <2>1. "deadlineType" \in DOMAIN written /\ written["deadlineType"] = cells["deadlineType"]
        /\ cells["deadlineType"] \in {"fixed", "rolling"}
    BY <1>1, <1>2, <1>3, <1>4, <1>5, MembersAre DEF Chosen
  <2>2. IsRow(g, written)
    BY <1>5, <2>1 DEF IsRow
  <2>3. ~RowProblem(g, cells) => RowConforms(g, written)
    BY <1>2, <1>3, <1>5, <2>1, MembersAre DEF RowProblem, RowConforms, Organizations
  <2> QED
    BY <1>3, <2>2, <2>3 DEF written, stated, cells
<1>6. CASE g = "rewardTiers"
  <2>1. "model" \in DOMAIN written /\ written["model"] = cells["model"] /\ cells["model"] \in DOMAIN Allowed
    <3>1. "model" \notin Amounts /\ "model" \in RowMembers[g]
      BY <1>6, MembersAre DEF Amounts
    <3> QED
      BY <1>1, <1>2, <1>3, <1>4, <1>6, <3>1 DEF Chosen
  <2>2. IsRow(g, written)
    <3>1. "basis" \in RowMembers[g] /\ "basis" \in DOMAIN cells
      BY <1>1, <1>6, MembersAre DEF Amounts, IsOn
    <3>2. "basis" \in DOMAIN written => written["basis"] # Null
      BY <1>1, <1>2, <1>3, <1>6, <3>1 DEF Shown
    <3> QED
      BY <1>6, <2>1, <3>2 DEF IsRow
  <2>3. ~RowProblem(g, cells) => RowConforms(g, written)
    <3>1. SUFFICES ASSUME ~RowProblem(g, cells) PROVE RowConforms(g, written)
      OBVIOUS
    <3>2. /\ ~(cells["severity"] = Unstated /\ cells["label"] = Unstated)
          /\ \A m \in Allowed[cells["model"]] \ {"floor", "cap"} : cells[m] # Unstated
      BY <1>6, <3>1 DEF RowProblem, Organizations
    <3>3. /\ {"severity", "label"} \subseteq RowMembers[g] \ Amounts
          /\ Amounts \subseteq RowMembers[g]
          /\ Allowed[cells["model"]] \subseteq Amounts
      BY <1>6, <2>1, MembersAre DEF Amounts, Allowed
    <3>4. DOMAIN written \cap {"severity", "label"} # {}
      BY <1>2, <1>3, <1>6, <3>2, <3>3
    <3>5. DOMAIN written \cap Amounts \subseteq Allowed[written["model"]]
      BY <1>2, <1>3, <1>6, <2>1, <3>3
    <3>6. Allowed[written["model"]] \ {"floor", "cap"} \subseteq DOMAIN written
      BY <1>2, <1>3, <1>6, <2>1, <3>2, <3>3
    <3> QED
      BY <1>6, <3>4, <3>5, <3>6 DEF RowConforms, Organizations
  <2> QED
    BY <1>3, <2>2, <2>3 DEF written, stated, cells
<1>7. CASE g = "prizes"
  <2>1. "amount" \in DOMAIN written
    BY <1>2, <1>3, <1>4, <1>7, MembersAre
  <2>2. "amount" \in DOMAIN cells /\ "0" # Null
    BY <1>1, <1>7, MembersAre, ListingEditorAssumption DEF IsOn, Choices
  <2>3. written["amount"] \notin {Unstated, Null}
    BY <1>1, <1>2, <1>3, <1>7, <2>1, <2>2, MembersAre DEF Shown
  <2> QED
    BY <1>3, <1>7, <2>1, <2>3 DEF IsRow, RowConforms, Organizations, written, stated, cells
<1>8. CASE g = "socialLinks"
  <2>1. "platform" \in DOMAIN written /\ written["platform"] # Unstated
    BY <1>1, <1>2, <1>3, <1>8, MembersAre DEF Chosen
  <2>2. ~RowProblem(g, cells) => "url" \in DOMAIN written
    BY <1>2, <1>3, <1>8, MembersAre DEF RowProblem, Organizations
  <2> QED
    BY <1>3, <1>8, <2>1, <2>2 DEF IsRow, RowConforms, Organizations, written, stated, cells
<1>9. CASE g \in Organizations
  <2>1. ~RowProblem(g, cells) => {"name", "slug"} \subseteq DOMAIN written
    BY <1>2, <1>3, <1>9, MembersAre DEF RowProblem, Organizations
  <2> QED
    BY <1>3, <1>9, <2>1 DEF IsRow, RowConforms, Organizations, written, stated, cells
<1>10. CASE g \notin Organizations \cup {"deadlines", "rewardTiers", "prizes", "socialLinks"}
  BY <1>3, <1>10 DEF IsRow, RowConforms, written, stated, cells
<1> QED
  BY <1>5, <1>6, <1>7, <1>8, <1>9, <1>10

(* The rows of a group are written in their places. *)
LEMMA BuildIs ==
  ASSUME NEW f, FormFits(f), NEW g \in AllGroups
  PROVE  /\ IsList(Build(f, g)) /\ DOMAIN Build(f, g) = DOMAIN f.rows[g]
         /\ \A i \in DOMAIN f.rows[g] :
              /\ RowFits(g, f.rows[g][i])
              /\ Build(f, g)[i] = WrittenOver(f.rows[g][i].base, Stated(g, f.rows[g][i].cells))
         /\ AreRows(g, Build(f, g))
         /\ Build(f, g) = <<>> <=> f.rows[g] = <<>>
<1>1. RowsFit(g, f.rows[g])
  BY DEF FormFits
<1>2. IsOn(Build(f, g), DOMAIN f.rows[g])
  BY DEF Build, IsOn
<1>3. IsList(Build(f, g)) /\ DOMAIN Build(f, g) = DOMAIN f.rows[g]
  BY <1>1, <1>2, ListIs, MakeList DEF RowsFit, IsOn
<1>4. \A i \in DOMAIN f.rows[g] :
        /\ RowFits(g, f.rows[g][i])
        /\ Build(f, g)[i] = WrittenOver(f.rows[g][i].base, Stated(g, f.rows[g][i].cells))
  BY <1>1 DEF Build, RowsFit
<1>5. AreRows(g, Build(f, g))
  BY <1>3, <1>4, RowWritten DEF AreRows
<1>6. \A s : IsList(s) => (s = <<>> <=> DOMAIN s = {})
  BY DEF IsList
<1> QED
  BY <1>1, <1>3, <1>4, <1>5, <1>6 DEF RowsFit

(* What the form does not know of a row is in what is written as it was. *)
LEMMA UnknownKept ==
  ASSUME NEW g \in AllGroups, NEW row, RowFits(g, row), NEW m, m \notin RowMembers[g]
  PROVE  LET written == WrittenOver(row.base, Stated(g, row.cells))
         IN /\ m \in DOMAIN written <=> m \in DOMAIN row.base
            /\ m \in DOMAIN written => written[m] = row.base[m]
<1>1. DOMAIN Stated(g, row.cells) = RowMembers[g]
  BY StatedIs DEF RowFits, CellsFit
<1> QED
  BY <1>1 DEF WrittenOver

(* Organizations are told apart in the document too. *)
LEMMA BuiltApart ==
  ASSUME NEW f, FormFits(f)
  PROVE  Apart(Build(f, "operatingOrganizations"))
<1> DEFINE g == "operatingOrganizations"
           rows == f.rows[g]
           built == Build(f, g)
<1>1. /\ g \in AllGroups /\ "contacts" \notin RowMembers[g] /\ Apart(Bases(rows))
  BY Known, MembersAre DEF FormFits
<1>2. /\ DOMAIN built = DOMAIN rows
      /\ \A i \in DOMAIN rows :
           RowFits(g, rows[i]) /\ built[i] = WrittenOver(rows[i].base, Stated(g, rows[i].cells))
  BY <1>1, BuildIs
<1>3. DOMAIN Bases(rows) = DOMAIN rows /\ \A i \in DOMAIN rows : Bases(rows)[i] = rows[i].base
  BY DEF Bases
<1> HIDE DEF built, rows
<1>4. \A i \in DOMAIN rows : /\ "contacts" \in DOMAIN built[i] <=> "contacts" \in DOMAIN rows[i].base
                             /\ "contacts" \in DOMAIN built[i] => built[i]["contacts"] = rows[i].base["contacts"]
  BY <1>1, <1>2, UnknownKept
<1>5. Apart(built)
  BY <1>1, <1>2, <1>3, <1>4 DEF Apart, Named
<1> QED
  BY <1>5 DEF built

(* Rows that the form lets through conform, *)
LEMMA BuiltRowsConform ==
  ASSUME NEW f, FormFits(f), NEW g \in AllGroups, ~RowProblems(f, g)
  PROVE  \A i \in DOMAIN Build(f, g) : RowConforms(g, Build(f, g)[i])
  BY BuildIs, RowWritten DEF RowProblems

(* and those that must differ do, as long as no rolling deadline has a date to lose. *)
LEMMA BuiltDistinct ==
  ASSUME NEW f, FormFits(f), NEW g \in {"socialLinks", "deadlines"} \cap Groups, Distinct(f.rows[g]), ~HidesDate(f)
  PROVE  \A i, j \in DOMAIN Build(f, g) : i # j => Build(f, g)[i] # Build(f, g)[j]
<1> SUFFICES ASSUME NEW i \in DOMAIN f.rows[g], NEW j \in DOMAIN f.rows[g], i # j,
                    Build(f, g)[i] = Build(f, g)[j]
             PROVE  FALSE
  <2>1. g \in AllGroups
    BY DEF AllGroups
  <2> QED
    BY <2>1, BuildIs
<1> DEFINE a == f.rows[g][i].cells
           b == f.rows[g][j].cells
<1>1. g \in AllGroups
  BY DEF AllGroups
<1>2. RowFits(g, f.rows[g][i]) /\ RowFits(g, f.rows[g][j])
  BY <1>1, BuildIs
<1>3. /\ IsOn(a, RowMembers[g]) /\ Chosen(g, a)
      /\ IsOn(b, RowMembers[g]) /\ Chosen(g, b)
  BY <1>2 DEF RowFits, CellsFit
<1>4. \A m \in RowMembers[g] : Stated(g, a)[m] = Stated(g, b)[m]
  <2>1. WrittenOver(f.rows[g][i].base, Stated(g, a)) = WrittenOver(f.rows[g][j].base, Stated(g, b))
    BY <1>1, BuildIs
  <2> QED
    BY <1>1, <1>2, <2>1, RowWritten
<1>5. Stated(g, a) = a /\ Stated(g, b) = b
  <2>1. CASE g = "socialLinks"
    BY <1>1, <1>3, <2>1, StatedIs
  <2>2. CASE g = "deadlines"
    <3>1. /\ a["deadlineType"] = "rolling" => a["date"] = Unstated
          /\ b["deadlineType"] = "rolling" => b["date"] = Unstated
      BY <2>2 DEF HidesDate
    <3> HIDE DEF a, b
    <3> DEFINE Same(c) == IF c["deadlineType"] = "rolling" THEN [c EXCEPT !["date"] = Unstated] ELSE c
    <3>2. Stated(g, a) = Same(a) /\ Stated(g, b) = Same(b)
      BY <2>2 DEF Stated
    <3> QED
      BY <1>3, <3>1, <3>2 DEF IsOn
  <2> QED
    BY <2>1, <2>2
<1> HIDE DEF a, b
<1>6. a = b
  BY <1>3, <1>4, <1>5 DEF IsOn
<1> QED
  BY <1>6 DEF Distinct, a, b

(* The type, the members and the list of a branch have names of their own. *)
LEMMA BranchesApart ==
  ASSUME NEW t \in Types
  PROVE  /\ "fundingType" \notin DetailMembers[t] \cup ListOf(t) /\ DetailMembers[t] \cap ListOf(t) = {}
         /\ ListOf(t) \subseteq {"prizes", "rewardTiers"} /\ t # Unstated
<1>1. \A u \in Types : {"fundingType", "prizes", "rewardTiers"} \cap DetailMembers[u] = {}
  BY DEF Types, DetailMembers
<1>2. ListOf(t) \subseteq {"prizes", "rewardTiers"}
  BY ListOfIs
<1>3. t # Unstated
  BY ListingEditorAssumption DEF Choices
<1> QED
  BY <1>1, <1>2, <1>3

(* What a branch states besides its list. *)
LEMMA StatedDetailsAre ==
  ASSUME NEW f, FormFits(f)
  PROVE  /\ DOMAIN StatedDetails(f) = DetailMembers[f.type]
         /\ f.type = "bounty" =>
              /\ StatedDetails(f)["bountyKind"] = f.details["bounty"]["bountyKind"]
              /\ StatedDetails(f)["reward"] = IF PaysByTable(f) THEN Unstated ELSE f.details["bounty"]["reward"]
<1> DEFINE cells == f.details[f.type]
<1>1. f.type \in Types /\ cells \in [DetailMembers[f.type] -> {cells[x] : x \in DetailMembers[f.type]}]
  BY DEF FormFits, IsForm, DetailsFit, IsOn
<1>2. StatedDetails(f) = CASE f.type \in Located /\ f.remote[f.type] -> [cells EXCEPT !["location"] = Null]
       [] f.type = "bounty" /\ PaysByTable(f) -> [cells EXCEPT !["reward"] = Unstated]
       [] OTHER -> cells
  BY DEF StatedDetails
<1>3. ~(f.type = "bounty" /\ f.type \in Located)
  BY DEF Located
<1>4. "bountyKind" \in DetailMembers["bounty"] /\ "reward" \in DetailMembers["bounty"]
  BY MembersAre
<1>5. cells = f.details[f.type]
  OBVIOUS
<1> HIDE DEF cells
<1>6. CASE f.type \in Located /\ f.remote[f.type]
  BY <1>1, <1>2, <1>3, <1>6
<1>7. CASE f.type = "bounty" /\ PaysByTable(f)
  BY <1>1, <1>2, <1>3, <1>4, <1>5, <1>7
<1>8. CASE ~(f.type \in Located /\ f.remote[f.type]) /\ ~(f.type = "bounty" /\ PaysByTable(f))
  BY <1>1, <1>2, <1>4, <1>5, <1>8
<1> QED
  BY <1>6, <1>7, <1>8

(* The list of a branch is written if it has rows, and a bounty's if it pays by them. *)
LEMMA StatedRowsAre ==
  ASSUME NEW f, FormFits(f)
  PROVE  /\ DOMAIN StatedRows(f) =
              {h \in ListOf(f.type) : f.rows[h] # <<>> /\ (f.type = "bounty" => PaysByTable(f))}
         /\ \A g \in DOMAIN StatedRows(f) :
              /\ StatedRows(f)[g] = Build(f, g) /\ AreRows(g, Build(f, g)) /\ Build(f, g) # <<>>
              /\ g \in AllGroups
<1>1. /\ DOMAIN StatedRows(f) =
           {h \in ListOf(f.type) : f.rows[h] # <<>> /\ (f.type = "bounty" => PaysByTable(f))}
      /\ \A g \in DOMAIN StatedRows(f) : StatedRows(f)[g] = Build(f, g)
  BY DEF StatedRows
<1>2. ListOf(f.type) \subseteq AllGroups
  BY BranchesApart, Known DEF FormFits, IsForm
<1> QED
  BY <1>1, <1>2, BuildIs

(* What the branch of a document is: the type, what was stated, the list, and nothing of another
   branch (buildDetails). *)
LEMMA DetailsAre ==
  ASSUME NEW f, FormFits(f), NEW details,
         details.fundingType = f.type =>
           DOMAIN details \subseteq {"fundingType"} \cup DetailMembers[f.type] \cup ListOf(f.type)
  PROVE  LET new == BuildDetails(f, details)
             stated == StatedDetails(f)
         IN /\ DOMAIN new = {"fundingType"} \cup {m \in DetailMembers[f.type] : stated[m] # Unstated}
                              \cup DOMAIN StatedRows(f)
            /\ new["fundingType"] = f.type
            /\ \A m \in DetailMembers[f.type] : m \in DOMAIN new => new[m] = stated[m]
            /\ \A g \in DOMAIN StatedRows(f) : new[g] = StatedRows(f)[g]
<1> DEFINE base == DetailsBase(f, details)
           rest == [m \in DOMAIN base \ ListOf(f.type) |-> base[m]]
           type == [fundingType |-> f.type]
           cells == Stating(StatedDetails(f), type)
           written == WrittenOver(rest, cells)
           lists == StatedRows(f)
           new == BuildDetails(f, details)
           members == DetailMembers[f.type]
<1>1. new = Stating(written, lists)
  BY DEF BuildDetails
<1>2. /\ f.type \in Types /\ "fundingType" \notin members \cup ListOf(f.type) /\ members \cap ListOf(f.type) = {}
      /\ f.type # Unstated
  BY BranchesApart DEF FormFits, IsForm
<1>3. DOMAIN rest \subseteq {"fundingType"} \cup members
  <2>1. DOMAIN base \subseteq {"fundingType"} \cup members \cup ListOf(f.type)
    <3>1. DOMAIN <<>> = {}
      OBVIOUS
    <3> QED
      BY <3>1 DEF DetailsBase
  <2> QED
    BY <2>1
<1>4. DOMAIN type = {"fundingType"} /\ type["fundingType"] = f.type
  OBVIOUS
<1> HIDE DEF rest, type, base, lists
<1>5. /\ DOMAIN cells = members \cup {"fundingType"} /\ cells["fundingType"] = f.type
      /\ \A m \in members : cells[m] = StatedDetails(f)[m]
  <2>1. DOMAIN StatedDetails(f) = members
    BY StatedDetailsAre
  <2>2. /\ DOMAIN cells = DOMAIN StatedDetails(f) \cup DOMAIN type
        /\ \A m \in DOMAIN StatedDetails(f) \cup DOMAIN type :
             cells[m] = IF m \in DOMAIN type THEN type[m] ELSE StatedDetails(f)[m]
    BY StatingIs
  <2> HIDE DEF cells, members
  <2>3. "fundingType" \notin members
    BY <1>2 DEF members
  <2> QED
    BY <1>4, <2>1, <2>2, <2>3 DEF members
<1> HIDE DEF cells
<1>6. /\ DOMAIN written = {"fundingType"} \cup {m \in members : StatedDetails(f)[m] # Unstated}
      /\ \A m \in DOMAIN written : written[m] = cells[m]
  <2>1. /\ DOMAIN written = (DOMAIN rest \ DOMAIN cells) \cup {m \in DOMAIN cells : cells[m] # Unstated}
        /\ \A m \in DOMAIN cells : cells[m] # Unstated => written[m] = cells[m]
    BY WrittenIs
  <2> HIDE DEF written
  <2>2. DOMAIN rest \ DOMAIN cells = {}
    BY <1>3, <1>5
  <2> QED
    BY <1>2, <1>5, <2>1, <2>2
<1> HIDE DEF written
<1>7. DOMAIN lists \subseteq ListOf(f.type)
  BY StatedRowsAre DEF lists
<1>8. /\ DOMAIN new = DOMAIN written \cup DOMAIN lists
      /\ \A m \in DOMAIN written \cup DOMAIN lists : new[m] = IF m \in DOMAIN lists THEN lists[m] ELSE written[m]
  <2>1. /\ DOMAIN Stating(written, lists) = DOMAIN written \cup DOMAIN lists
        /\ \A m \in DOMAIN written \cup DOMAIN lists :
             Stating(written, lists)[m] = IF m \in DOMAIN lists THEN lists[m] ELSE written[m]
    BY StatingIs
  <2> HIDE DEF new
  <2> QED
    BY <1>1, <2>1
<1> HIDE DEF new
<1>9. /\ DOMAIN new = {"fundingType"} \cup {m \in members : StatedDetails(f)[m] # Unstated} \cup DOMAIN lists
      /\ new["fundingType"] = f.type
      /\ \A m \in members : m \in DOMAIN new => new[m] = StatedDetails(f)[m]
      /\ \A g \in DOMAIN lists : new[g] = lists[g]
  BY <1>2, <1>5, <1>6, <1>7, <1>8
<1> QED
  BY <1>9 DEF new, lists

(* A branch that the form lets through conforms (detailProblems). *)
LEMMA BuiltDetailsConform ==
  ASSUME NEW f, FormFits(f), ~DetailProblem(f), NEW details,
         details.fundingType = f.type =>
           DOMAIN details \subseteq {"fundingType"} \cup DetailMembers[f.type] \cup ListOf(f.type)
  PROVE  DetailsConform(f.type, BuildDetails(f, details))
<1> DEFINE new == BuildDetails(f, details)
           stated == StatedDetails(f)
           lists == StatedRows(f)
<1>1. /\ DOMAIN new = {"fundingType"} \cup {m \in DetailMembers[f.type] : stated[m] # Unstated} \cup DOMAIN lists
      /\ new["fundingType"] = f.type
      /\ \A m \in DetailMembers[f.type] : m \in DOMAIN new => new[m] = stated[m]
      /\ \A g \in DOMAIN lists : new[g] = lists[g]
  BY DetailsAre
<1>2. /\ DOMAIN lists = {h \in ListOf(f.type) : f.rows[h] # <<>> /\ (f.type = "bounty" => PaysByTable(f))}
      /\ \A g \in DOMAIN lists :
           lists[g] = Build(f, g) /\ AreRows(g, Build(f, g)) /\ Build(f, g) # <<>> /\ g \in AllGroups
  BY StatedRowsAre
<1>3. f.type \in Types
  BY DEF FormFits, IsForm
<1>4. /\ f.type = "bounty" => stated["bountyKind"] = f.details["bounty"]["bountyKind"]
      /\ f.type = "bounty" =>
           stated["reward"] = IF PaysByTable(f) THEN Unstated ELSE f.details["bounty"]["reward"]
  BY StatedDetailsAre
<1>5. \A t \in Types : {"fundingType", "prizes", "rewardTiers"} \cap DetailMembers[t] = {}
  BY DEF Types, DetailMembers
<1> HIDE DEF new, stated, lists
<1>6. DOMAIN new \subseteq {"fundingType"} \cup DetailMembers[f.type] \cup ListOf(f.type)
  BY <1>1, <1>2
<1>7. ASSUME f.type = "bounty"
      PROVE  /\ {"reward", "rewardTiers"} \cap DOMAIN new
                  \in {{"rewardTiers"}} \cup IF new["bountyKind"] = "task" THEN {{"reward"}} ELSE {}
             /\ "rewardTiers" \in DOMAIN new => new["rewardTiers"] # <<>>
  <2>1. ListOf(f.type) = {"rewardTiers"}
    BY <1>3, <1>7, ListOfIs
  <2>2. "bountyKind" \in DetailMembers["bounty"] /\ "reward" \in DetailMembers["bounty"]
    BY MembersAre
  <2>3. "rewardTiers" \in DOMAIN new <=> f.rows["rewardTiers"] # <<>> /\ PaysByTable(f)
    BY <1>1, <1>2, <1>3, <1>5, <1>7, <2>1
  <2>4. "reward" \in DOMAIN new <=> ~PaysByTable(f) /\ f.details["bounty"]["reward"] # Unstated
    BY <1>1, <1>2, <1>3, <1>4, <1>7, <2>1, <2>2
  <2>5. IF PaysByTable(f) THEN f.rows["rewardTiers"] # <<>> ELSE f.details["bounty"]["reward"] # Unstated
    BY <1>7 DEF DetailProblem
  <2>6. ~PaysByTable(f) => new["bountyKind"] = "task"
    <3>1. f.details["bounty"]["bountyKind"] \in {"task", "security"}
      BY DEF FormFits, DetailsFit
    <3>2. f.details["bounty"]["bountyKind"] # Unstated
      BY <3>1, ListingEditorAssumption DEF Choices
    <3>3. new["bountyKind"] = f.details["bounty"]["bountyKind"]
      BY <1>1, <1>4, <1>7, <2>2, <3>2
    <3> QED
      BY <3>1, <3>3 DEF PaysByTable
  <2>7. "rewardTiers" \in DOMAIN new => new["rewardTiers"] # <<>>
    BY <1>1, <1>2, <1>3, <1>5, <1>7
  <2> QED
    BY <2>3, <2>4, <2>5, <2>6, <2>7
<1>8. ASSUME NEW g \in {"prizes", "rewardTiers"}, NEW i \in DOMAIN Listed(new, g)
      PROVE  RowConforms(g, new[g][i])
  <2>1. DOMAIN <<>> = {}
    OBVIOUS
  <2>2. g \in DOMAIN new /\ i \in DOMAIN new[g]
    BY <1>8, <2>1 DEF Listed
  <2>3. g \in DOMAIN lists /\ new[g] = Build(f, g) /\ g \in AllGroups
    BY <1>1, <1>2, <1>3, <1>5, <2>2
  <2>4. ~RowProblems(f, g)
    <3>1. g \in ListOf(f.type)
      BY <1>2, <2>3
    <3>2. (f.type = "hackathon" /\ g = "prizes") \/ (f.type = "bounty" /\ g = "rewardTiers")
      BY <1>3, <3>1, ListOfIs
    <3> QED
      BY <3>2 DEF DetailProblem
  <2> QED
    BY <2>2, <2>3, <2>4, BuiltRowsConform
<1>9. DetailsConform(f.type, new)
  BY <1>1, <1>6, <1>7, <1>8 DEF DetailsConform
<1> QED
  BY <1>9 DEF new

(* What the form carries, member by member. *)
LEMMA CarriedIs ==
  ASSUME EditorInv
  PROVE  /\ carried \in [id : {carried.id}, publisher : {carried.publisher}, legacy : BOOLEAN, type : Types,
                         fields : {carried.fields}, rows : {carried.rows}, details : {carried.details}]
         /\ carried.details.fundingType = editor.type =>
              DOMAIN carried.details \subseteq {"fundingType"} \cup DetailMembers[editor.type] \cup ListOf(editor.type)
<1>1. CASE mode = "create"
  <2>1. carried = NoRecord
    BY <1>1 DEF EditorInv
  <2>2. editor.type # Unstated
    BY BranchesApart DEF EditorInv, FormFits, IsForm
  <2> QED
    BY <2>1, <2>2 DEF NoRecord, Types
<1>2. CASE mode = "edit"
  <2>1. IsStored(carried)
    BY <1>2 DEF EditorInv
  <2> QED
    BY <2>1 DEF IsStored, IsListing, Conforms, DetailsConform
<1> QED
  BY <1>1, <1>2 DEF EditorInv

(* What the document is, member by member (toDocument). *)
LEMMA BuiltIs ==
  ASSUME EditorInv
  PROVE  /\ Built \in [id : {editor.id}, publisher : {carried.publisher}, legacy : BOOLEAN, type : Types,
                       fields : {Built.fields}, rows : {Built.rows}, details : {Built.details}]
         /\ Built.id = editor.id /\ Built.type = editor.type
         /\ Built.fields = WrittenOver(carried.fields, editor.fields)
         /\ Built.rows \in [TopGroups -> {Built.rows[g] : g \in TopGroups}]
         /\ \A g \in TopGroups : Built.rows[g] = Build(editor, g)
         /\ Built.details = BuildDetails(editor, carried.details)
<1> DEFINE rows == [g \in TopGroups |-> Build(editor, g)]
           fields == WrittenOver(carried.fields, editor.fields)
           details == BuildDetails(editor, carried.details)
<1>1. Built = [carried EXCEPT !.id = editor.id, !.type = editor.type, !.fields = fields, !.rows = rows,
                              !.details = details]
  BY DEF Built, ToDocument
<1>2. rows \in [TopGroups -> {rows[g] : g \in TopGroups}] /\ \A g \in TopGroups : rows[g] = Build(editor, g)
  OBVIOUS
<1> HIDE DEF fields, rows, details
<1>3. editor.type \in Types
  BY DEF EditorInv, FormFits, IsForm
<1>4. Built = [id |-> editor.id, publisher |-> carried.publisher, legacy |-> carried.legacy, type |-> editor.type,
               fields |-> fields, rows |-> rows, details |-> details]
  BY <1>1, CarriedIs
<1>5. carried.legacy \in BOOLEAN
  BY CarriedIs
<1> HIDE DEF Built
<1>6. Built.fields = fields /\ Built.rows = rows /\ Built.details = details
  BY <1>4
<1> QED
  BY <1>2, <1>3, <1>4, <1>5, <1>6 DEF fields, details

(* The document is a listing as the API stores them, *)
LEMMA BuiltIsListing ==
  ASSUME EditorInv
  PROVE  IsListing(Built)
<1> DEFINE f == editor
           d == Built
<1>1. /\ d \in [id : {d.id}, publisher : {d.publisher}, legacy : BOOLEAN, type : Types,
                fields : {d.fields}, rows : {d.rows}, details : {d.details}]
      /\ d.type = f.type /\ f.type \in Types /\ d.details = BuildDetails(f, carried.details)
      /\ d.rows \in [TopGroups -> {d.rows[g] : g \in TopGroups}]
      /\ \A g \in TopGroups : d.rows[g] = Build(f, g)
  BY BuiltIs
<1> HIDE DEF d
<1>2. FormFits(f)
  BY DEF EditorInv
<1>3. \A g \in TopGroups : AreRows(g, d.rows[g])
  BY <1>1, <1>2, BuildIs, Known
<1>4. /\ DOMAIN d.details = {"fundingType"} \cup {m \in DetailMembers[f.type] : StatedDetails(f)[m] # Unstated}
                              \cup DOMAIN StatedRows(f)
      /\ \A m \in DetailMembers[f.type] : m \in DOMAIN d.details => d.details[m] = StatedDetails(f)[m]
      /\ \A g \in DOMAIN StatedRows(f) : d.details[g] = StatedRows(f)[g]
  BY <1>1, <1>2, CarriedIs, DetailsAre
<1>5. \A g \in ListOf(d.type) \cap DOMAIN d.details : AreRows(g, d.details[g])
  <2>1. \A g \in ListOf(d.type) : g # "fundingType" /\ g \notin DetailMembers[f.type]
    BY <1>1, BranchesApart
  <2>2. \A g \in DOMAIN StatedRows(f) : StatedRows(f)[g] = Build(f, g) /\ AreRows(g, Build(f, g))
    BY <1>2, StatedRowsAre
  <2>3. \A g \in ListOf(d.type) \cap DOMAIN d.details : g \in DOMAIN StatedRows(f)
    BY <1>4, <2>1
  <2> QED
    BY <1>4, <2>2, <2>3
<1>6. d.type = "bounty" =>
        "bountyKind" \in DOMAIN d.details /\ d.details.bountyKind \in {"task", "security"}
  <2> SUFFICES ASSUME d.type = "bounty"
               PROVE  "bountyKind" \in DOMAIN d.details /\ d.details["bountyKind"] \in {"task", "security"}
    OBVIOUS
  <2>1. StatedDetails(f)["bountyKind"] = f.details["bounty"]["bountyKind"]
    BY <1>1, <1>2, StatedDetailsAre
  <2>2. f.details["bounty"]["bountyKind"] \in {"task", "security"}
    BY <1>2 DEF FormFits, DetailsFit
  <2>3. f.details["bounty"]["bountyKind"] # Unstated
    BY <2>2, ListingEditorAssumption DEF Choices
  <2> QED
    BY <1>1, <1>4, <2>1, <2>2, <2>3, MembersAre
<1>7. Apart(d.rows["operatingOrganizations"])
  BY <1>1, <1>2, BuiltApart, Known
<1>8. IsListing(d)
  BY <1>1, <1>3, <1>4, <1>5, <1>6, <1>7 DEF IsListing
<1> QED
  BY <1>8 DEF d

(* and conforms if the form lets it through. *)
LEMMA BuiltConforms ==
  ASSUME EditorInv, ~HasProblem(editor), ~HidesDate(editor)
  PROVE  Conforms(Built)
<1> DEFINE d == Built
<1>1. /\ d.type = editor.type /\ d.details = BuildDetails(editor, carried.details)
      /\ d.fields = WrittenOver(carried.fields, editor.fields)
      /\ \A g \in TopGroups : d.rows[g] = Build(editor, g)
  BY BuiltIs
<1> HIDE DEF d
<1>2. FormFits(editor)
  BY DEF EditorInv
<1>3. "title" \in DOMAIN d.fields
  <2>1. DOMAIN editor.fields = Fields /\ "title" \in Fields
    BY <1>2, ListingEditorAssumption DEF FormFits, IsOn
  <2>2. editor.fields["title"] # Unstated
    BY DEF HasProblem
  <2>3. "title" \in DOMAIN WrittenOver(carried.fields, editor.fields)
    BY <2>1, <2>2 DEF WrittenOver
  <2> QED
    BY <1>1, <2>3
<1>4. d.rows["operatingOrganizations"] # <<>>
  BY <1>1, <1>2, Known, BuildIs DEF HasProblem
<1>5. \A g \in TopGroups : \A i \in DOMAIN d.rows[g] : RowConforms(g, d.rows[g][i])
  <2>1. \A g \in TopGroups : g \in AllGroups /\ ~RowProblems(editor, g)
    BY Known DEF HasProblem
  <2> QED
    BY <1>1, <1>2, <2>1, BuiltRowsConform
<1>6. \A g \in {"socialLinks", "deadlines"} \cap Groups :
        \A i, j \in DOMAIN d.rows[g] : i # j => d.rows[g][i] # d.rows[g][j]
  <2>1. \A g \in {"socialLinks", "deadlines"} \cap Groups : g \in TopGroups /\ Distinct(editor.rows[g])
    BY DEF HasProblem, TopGroups, AllGroups
  <2> QED
    BY <1>1, <1>2, <2>1, BuiltDistinct
<1>7. DetailsConform(d.type, d.details)
  <2>1. ~DetailProblem(editor)
    BY DEF HasProblem
  <2> QED
    BY <1>1, <1>2, <2>1, CarriedIs, BuiltDetailsConform
<1>8. Conforms(d)
  BY <1>3, <1>4, <1>5, <1>6, <1>7 DEF Conforms
<1> QED
  BY <1>8 DEF d

(* The organizations of a document have the slugs that are on the page. *)
LEMMA BuiltSlugs ==
  ASSUME EditorInv, ~HasProblem(editor)
  PROVE  LET rows == editor.rows["operatingOrganizations"]
             built == Built.rows["operatingOrganizations"]
         IN /\ rows # <<>> /\ DOMAIN built = DOMAIN rows /\ 1 \in DOMAIN rows
            /\ \A i \in DOMAIN rows : /\ rows[i].cells["slug"] # Unstated /\ "slug" \in DOMAIN built[i]
                                      /\ built[i]["slug"] = rows[i].cells["slug"]
<1> DEFINE g == "operatingOrganizations"
           rows == editor.rows[g]
           built == Built.rows[g]
<1>1. g \in TopGroups /\ g \in AllGroups /\ FormFits(editor) /\ built = Build(editor, g)
  BY Known, BuiltIs DEF EditorInv
<1>2. rows # <<>> /\ ~RowProblems(editor, g)
  BY <1>1 DEF HasProblem
<1>3. DOMAIN built = DOMAIN rows
      /\ \A i \in DOMAIN rows :
           /\ RowFits(g, rows[i])
           /\ built[i] = WrittenOver(rows[i].base, Stated(g, rows[i].cells))
  BY <1>1, BuildIs
<1>4. 1 \in DOMAIN rows
  <2>1. IsList(rows)
    BY <1>1 DEF FormFits, RowsFit
  <2> QED
    BY <1>2, <2>1 DEF IsList
<1>5. ASSUME NEW i \in DOMAIN rows
      PROVE  /\ rows[i].cells["slug"] # Unstated /\ "slug" \in DOMAIN built[i]
             /\ built[i]["slug"] = rows[i].cells["slug"]
  <2>1. ~RowProblem(g, rows[i].cells)
    BY <1>2 DEF RowProblems
  <2>2. rows[i].cells["slug"] # Unstated
    BY <2>1 DEF RowProblem, Organizations
  <2>3. Stated(g, rows[i].cells) = rows[i].cells
    BY <1>1, <1>3, StatedIs DEF RowFits, CellsFit
  <2>4. \A m \in RowMembers[g] :
          /\ m \in DOMAIN built[i] <=> Stated(g, rows[i].cells)[m] # Unstated
          /\ m \in DOMAIN built[i] => built[i][m] = Stated(g, rows[i].cells)[m]
    BY <1>1, <1>3, RowWritten
  <2>5. "slug" \in RowMembers[g]
    BY MembersAre
  <2> QED
    BY <2>2, <2>3, <2>4, <2>5
<1> QED
  BY <1>2, <1>3, <1>4, <1>5

(* A publisher whom the form finds among the operators the API finds there too (namespaceAuthority). *)
LEMMA BuiltIsTaken ==
  ASSUME EditorInv, ~HasProblem(editor), stored = carried
  PROVE  ApiTakes(Built)
<1> DEFINE rows == editor.rows["operatingOrganizations"]
           built == Built.rows["operatingOrganizations"]
<1>1. /\ rows # <<>> /\ DOMAIN built = DOMAIN rows /\ 1 \in DOMAIN rows
      /\ \A i \in DOMAIN rows : /\ rows[i].cells["slug"] # Unstated /\ "slug" \in DOMAIN built[i]
                                /\ built[i]["slug"] = rows[i].cells["slug"]
  BY BuiltSlugs
<1>2. ~NamespaceProblem(editor) /\ Built.id = editor.id
  BY BuiltIs DEF HasProblem
<1>3. CASE mode = "create"
  BY <1>1, <1>2, <1>3 DEF NamespaceProblem, ApiTakes
<1>4. CASE mode = "edit"
  <2>1. MustKeepPublisher(carried) => carried.publisher \in SlugsTyped(editor)
    BY <1>2, <1>4 DEF NamespaceProblem
  <2>2. SlugsTyped(editor) \subseteq SlugsOf(built)
    BY <1>1 DEF SlugsTyped, SlugsOf
  <2> QED
    BY <1>4, <2>1, <2>2 DEF ApiTakes
<1> QED
  BY <1>3, <1>4 DEF EditorInv

(* The page is opened for a new listing or for a stored one. *)
LEMMA EditorStarts == EditorInit => EditorInv
<1> SUFFICES ASSUME EditorInit PROVE EditorInv
  OBVIOUS
<1>0. edits \in 0..MaxEdits /\ carried = stored
  BY ListingEditorAssumption DEF EditorInit
<1>s. sent \in BOOLEAN
  BY DEF EditorInit
<1>1. CASE mode = "create" /\ stored = NoRecord /\ editor = EmptyForm
  <2>1. FormFits(editor)
    BY <1>1, EmptyFormFits
  <2> QED
    BY <1>0, <1>s, <1>1, <2>1 DEF EditorInv
<1>2. CASE mode = "edit" /\ stored \in Listings /\ editor = FromDocument(stored)
  <2>1. IsStored(stored)
    BY <1>2, ListingsAssumption DEF IsStored
  <2>2. FormFits(editor)
    BY <1>2, <2>1, FromDocumentFits
  <2> QED
    BY <1>0, <1>s, <1>2, <2>1, <2>2 DEF EditorInv
<1> QED
  BY <1>1, <1>2 DEF EditorInit

(* An edit that leaves a form that fits keeps the rest as it is. *)
LEMMA AfterEdit ==
  ASSUME EditorInv, NEW f, NEW what, Edit(f, what), FormFits(editor')
  PROVE  EditorInv'
<1>1. edits' \in 0..MaxEdits
  BY ListingEditorAssumption DEF EditorInv, Edit
<1>2. UNCHANGED <<mode, carried, stored, sent>>
  BY DEF Edit
<1>3. IsStored(carried) => IsStored(carried')
  BY <1>2
<1>4. IsStored(stored) => IsStored(stored')
  BY <1>2
<1> QED
  BY <1>1, <1>2, <1>3, <1>4 DEF EditorInv

(* What the API stores conforms (send), *)
LEMMA SendStores ==
  ASSUME EditorInv, SendListing
  PROVE  IsStored(stored')
<1>1. IsListing(Built) /\ Conforms(Built)
  BY BuiltIsListing DEF SendListing
<1>2. CASE mode = "create"
  <2> DEFINE d == Built
             p == Built.rows.operatingOrganizations[1].slug
             new == [d EXCEPT !.publisher = p]
  <2>1. stored' = new
    BY <1>2 DEF SendListing
  <2> HIDE DEF d, p
  <2>2. IsListing(d) /\ Conforms(d)
    BY <1>1 DEF d
  <2>3. /\ new \in [id : {new.id}, publisher : {new.publisher}, legacy : BOOLEAN, type : Types,
                    fields : {new.fields}, rows : {new.rows}, details : {new.details}]
        /\ new.type = d.type /\ new.rows = d.rows /\ new.details = d.details /\ new.fields = d.fields
    BY <2>2 DEF IsListing
  <2> HIDE DEF new
  <2>4. IsListing(new) /\ Conforms(new)
    BY <2>2, <2>3 DEF IsListing, Conforms
  <2> QED
    BY <2>1, <2>4 DEF IsStored
<1>3. CASE mode # "create"
  BY <1>1, <1>3 DEF SendListing, IsStored
<1> QED
  BY <1>2, <1>3

(* so the invariant holds after a submission, *)
LEMMA SendListingSafe ==
  ASSUME EditorInv, SendListing
  PROVE  EditorInv'
<1>1. UNCHANGED <<mode, editor, carried, edits, touched>> /\ sent' = TRUE
  BY DEF SendListing
<1>2. FormFits(editor')
  BY <1>1 DEF EditorInv
<1>3. mode' = "edit" => IsStored(carried')
  BY <1>1 DEF EditorInv
<1> QED
  BY <1>1, <1>2, <1>3, SendStores DEF EditorInv

(* when the page goes on after one (onAgain), *)
LEMMA EditOnSafe ==
  ASSUME EditorInv, EditOn
  PROVE  EditorInv'
<1>1. UNCHANGED <<mode, carried, stored, edits>> /\ sent' = FALSE
  BY DEF EditOn
<1>2. FormFits(editor')
  <2>1. editor' = EmptyForm \/ editor' = editor
    BY DEF EditOn
  <2> QED
    BY <2>1, EmptyFormFits DEF EditorInv
<1>3. mode' = "edit" => IsStored(carried')
  BY <1>1 DEF EditorInv
<1>4. stored' = NoRecord \/ IsStored(stored')
  BY <1>1 DEF EditorInv
<1> QED
  BY <1>1, <1>2, <1>3, <1>4 DEF EditorInv

(* when the record is opened, *)
LEMMA OpenListingSafe ==
  ASSUME EditorInv, OpenListing
  PROVE  EditorInv'
<1>1. /\ IsStored(stored) /\ mode' = "edit" /\ editor' = FromDocument(stored) /\ carried' = stored
      /\ sent' = FALSE /\ stored' = stored /\ edits' = edits
  BY DEF OpenListing, EditorInv
<1>2. FormFits(editor') /\ IsStored(carried') /\ IsStored(stored')
  BY <1>1, FromDocumentFits
<1> QED
  BY <1>1, <1>2 DEF EditorInv

(* and after any step of the page. *)
LEMMA EditorSafe ==
  ASSUME EditorInv, [EditorNext]_editorVars
  PROVE  EditorInv'
<1>f. FormFits(editor)
  BY DEF EditorInv
<1>1. ASSUME NEW g \in AllGroups,
             \/ AddRow(g)
             \/ \E i \in DOMAIN editor.rows[g] :
                  \/ RemoveRow(g, i) \/ MoveRow(g, i)
                  \/ \E m \in RowMembers[g] : \E w \in MayHold(m) : EditRow(g, i, m, w)
      PROVE  EditorInv'
  <2>1. CASE AddRow(g)
    BY <1>f, <2>1, AddRowFits, AfterEdit DEF AddRow
  <2>2. ASSUME NEW i \in DOMAIN editor.rows[g], RemoveRow(g, i) PROVE EditorInv'
    BY <1>f, <2>2, RemoveRowFits, AfterEdit DEF RemoveRow
  <2>3. ASSUME NEW i \in DOMAIN editor.rows[g], MoveRow(g, i) PROVE EditorInv'
    BY <1>f, <2>3, MoveRowFits, AfterEdit DEF MoveRow
  <2>4. ASSUME NEW i \in DOMAIN editor.rows[g], NEW m \in RowMembers[g], NEW w \in MayHold(m), EditRow(g, i, m, w)
        PROVE  EditorInv'
    BY <1>f, <2>4, EditRowFits, AfterEdit DEF EditRow
  <2> QED
    BY <1>1, <2>1, <2>2, <2>3, <2>4
<1>2. ASSUME NEW m \in Fields, NEW w \in Words \cup {Unstated}, EditField(m, w) PROVE EditorInv'
  BY <1>f, <1>2, EditFieldFits, AfterEdit DEF EditField
<1>3. CASE \/ \E s \in Slugs : TypeId(<<s, ByHand>>)
           \/ \E t \in Types : ChooseType(t)
           \/ \E pays \in {"single", "tiers"} : ChoosePays(pays)
  <2>1. FormFits(editor')
    BY <1>f, <1>3, ChoicesFit
  <2>2. \E f, what : Edit(f, what)
    BY <1>3 DEF TypeId, ChooseType, ChoosePays
  <2> QED
    BY <2>1, <2>2, AfterEdit
<1>4. ASSUME NEW kind \in {"task", "security"}, ChooseKind(kind) PROVE EditorInv'
  BY <1>f, <1>4, KindFits, AfterEdit DEF ChooseKind
<1>5. ASSUME NEW remote \in BOOLEAN, ClaimNoPlace(remote) PROVE EditorInv'
  BY <1>f, <1>5, RemoteFits, AfterEdit DEF ClaimNoPlace
<1>6. ASSUME NEW m \in DetailMembers[editor.type], NEW w \in Words \cup {Unstated}, EditDetail(m, w)
      PROVE  EditorInv'
  BY <1>f, <1>6, EditDetailFits, AfterEdit DEF EditDetail
<1>7. CASE SendListing
  BY <1>7, SendListingSafe
<1>8. CASE EditOn
  BY <1>8, EditOnSafe
<1>9. CASE OpenListing
  BY <1>9, OpenListingSafe
<1>10. CASE UNCHANGED editorVars
  <2>1. UNCHANGED <<mode, editor, carried, stored, sent, edits>>
    BY <1>10 DEF editorVars
  <2>2. FormFits(editor')
    BY <1>f, <2>1
  <2>3. mode' = "edit" => IsStored(carried')
    BY <2>1 DEF EditorInv
  <2>4. stored' = NoRecord \/ IsStored(stored')
    BY <2>1 DEF EditorInv
  <2> QED
    BY <2>1, <2>2, <2>3, <2>4 DEF EditorInv
<1> QED
  BY <1>1, <1>2, <1>3, <1>4, <1>5, <1>6, <1>7, <1>8, <1>9, <1>10 DEF EditorNext

(* Nothing that the form lets through is refused. *)
LEMMA LetThroughTaken == EditorInv => LetThroughIsTaken
<1> SUFFICES ASSUME EditorInv PROVE LetThroughIsTaken
  OBVIOUS
<1>1. EditorTypeOK
  <2>1. \A g \in AllGroups : \A i \in DOMAIN editor.rows[g] : DOMAIN editor.rows[g][i].cells = RowMembers[g]
    BY DEF EditorInv, FormFits, RowsFit, RowFits, CellsFit, IsOn
  <2>2. \A t \in Types : DOMAIN editor.details[t] = DetailMembers[t]
    BY DEF EditorInv, FormFits, DetailsFit, IsOn
  <2> QED
    BY <2>1, <2>2 DEF EditorTypeOK, EditorInv, FormFits, IsForm
<1> QED
  BY <1>1, BuiltConforms, BuiltIsTaken DEF LetThroughIsTaken

-----------------------------------------------------------------------------
(* The id that nobody typed. *)

(* The id goes with the title and the first organization unless somebody typed one. *)
IdIs(f) == ~f.dirty => f.id = DeriveId(f.rows["operatingOrganizations"], f.fields["title"])

(* It does after retitle and withOperating, *)
LEMMA FollowingFollows ==
  ASSUME mode = "create", NEW f, IsForm(f)
  PROVE  IdIs(Following(f))
<1>1. Following(f) = IF ~f.dirty THEN [f EXCEPT !.id = DeriveId(f.rows["operatingOrganizations"], f.fields["title"])] ELSE f
  BY DEF Following
<1>2. CASE f.dirty
  BY <1>1, <1>2 DEF IdIs
<1>3. CASE ~f.dirty
  <2> DEFINE id == DeriveId(f.rows["operatingOrganizations"], f.fields["title"])
             h == [f EXCEPT !.id = id]
  <2>1. h.id = id /\ h.rows = f.rows /\ h.fields = f.fields
    BY DEF IsForm
  <2> HIDE DEF h
  <2>2. IdIs(h)
    BY <2>1 DEF IdIs
  <2> QED
    BY <1>1, <1>3, <2>2 DEF h
<1> QED
  BY <1>2, <1>3

(* after any edit of rows, *)
LEMMA PutFollows ==
  ASSUME mode = "create", FormFits(editor), IdIs(editor), NEW g \in AllGroups, NEW rows
  PROVE  IdIs(WithRows(editor, g, rows))
<1> DEFINE h == [editor EXCEPT !.rows[g] = rows]
<1>1. /\ IsForm(h) /\ h.id = editor.id /\ h.fields = editor.fields /\ h.dirty = editor.dirty
      /\ h.rows = [editor.rows EXCEPT ![g] = rows]
  BY DEF FormFits, IsForm
<1>2. CASE g = "operatingOrganizations"
  BY <1>1, <1>2, FollowingFollows DEF WithRows, WithOperating
<1>3. CASE g # "operatingOrganizations"
  <2>1. h.rows["operatingOrganizations"] = editor.rows["operatingOrganizations"]
    BY <1>1, <1>3
  <2> HIDE DEF h
  <2>2. IdIs(h)
    BY <1>1, <2>1 DEF IdIs
  <2> QED
    BY <1>3, <2>2 DEF WithRows, h
<1> QED
  BY <1>2, <1>3

(* and in an empty form, *)
LEMMA EmptyFormFollows == IdIs(EmptyForm)
<1>1. EmptyForm.id = Unstated /\ EmptyForm.fields = AllUnstated(Fields)
  BY DEF EmptyForm
<1>2. AllUnstated(Fields)["title"] = Unstated
  BY ListingEditorAssumption DEF AllUnstated
<1> QED
  BY <1>1, <1>2 DEF IdIs, DeriveId

(* which a new listing begins with. *)
LEMMA IdStarts == EditorInit => IdFollows
<1> SUFFICES ASSUME EditorInit PROVE IdFollows
  OBVIOUS
<1>1. mode = "create" => editor = EmptyForm
  BY DEF EditorInit
<1> QED
  BY <1>1, EmptyFormFollows DEF IdFollows, IdIs

(* No step leaves an id behind that nobody typed. *)
LEMMA IdSafe ==
  ASSUME EditorInv, IdFollows, [EditorNext]_editorVars
  PROVE  IdFollows'
<1>f. FormFits(editor)
  BY DEF EditorInv
<1> SUFFICES ASSUME mode' = "create" PROVE IdIs(editor')
  BY DEF IdFollows, IdIs
<1>m. mode = "create" /\ ~OpenListing
  BY DEF EditorNext, editorVars, AddRow, RemoveRow, MoveRow, EditRow, EditField, TypeId, ChooseType, ChooseKind,
         ChoosePays, ClaimNoPlace, EditDetail, SendListing, EditOn, OpenListing, Edit
<1>i. IdIs(editor)
  BY <1>m DEF IdFollows, IdIs
<1>1. ASSUME NEW g \in AllGroups, NEW i \in DOMAIN editor.rows[g], NEW m \in RowMembers[g], NEW w \in MayHold(m),
             AddRow(g) \/ RemoveRow(g, i) \/ MoveRow(g, i) \/ EditRow(g, i, m, w)
      PROVE  IdIs(editor')
  <2>1. \E rows : editor' = WithRows(editor, g, rows)
    BY <1>1 DEF AddRow, RemoveRow, MoveRow, EditRow, Edit
  <2> QED
    BY <1>f, <1>m, <1>i, <2>1, PutFollows
<1>a. ASSUME NEW g \in AllGroups, AddRow(g)
      PROVE  IdIs(editor')
  <2>1. \E rows : editor' = WithRows(editor, g, rows)
    BY <1>a DEF AddRow, Edit
  <2> QED
    BY <1>f, <1>m, <1>i, <2>1, PutFollows
<1>b. ASSUME NEW g \in AllGroups, NEW i \in DOMAIN editor.rows[g], RemoveRow(g, i) \/ MoveRow(g, i)
      PROVE  IdIs(editor')
  <2>1. \E rows : editor' = WithRows(editor, g, rows)
    BY <1>b DEF RemoveRow, MoveRow, Edit
  <2> QED
    BY <1>f, <1>m, <1>i, <2>1, PutFollows
<1>2. ASSUME NEW m \in Fields, NEW w, EditField(m, w) PROVE IdIs(editor')
  <2> DEFINE f == [editor EXCEPT !.fields[m] = w]
  <2>1. /\ IsForm(f) /\ f.id = editor.id /\ f.rows = editor.rows /\ f.dirty = editor.dirty
        /\ f.fields = [editor.fields EXCEPT ![m] = w]
    BY <1>f DEF FormFits, IsForm
  <2>2. editor' = IF m = "title" THEN Following(f) ELSE f
    BY <1>2 DEF EditField, Edit
  <2> HIDE DEF f
  <2>3. CASE m = "title"
    BY <1>m, <2>1, <2>2, <2>3, FollowingFollows
  <2>4. CASE m # "title"
    <3>1. f.fields["title"] = editor.fields["title"]
      BY <2>1, <2>4
    <3> QED
      BY <1>i, <2>1, <2>2, <2>4, <3>1 DEF IdIs
  <2> QED
    BY <2>3, <2>4
<1>3. ASSUME NEW s, TypeId(<<s, ByHand>>) PROVE IdIs(editor')
  <2>1. editor'.dirty
    BY <1>f, <1>3 DEF TypeId, Edit, FormFits, IsForm
  <2> QED
    BY <2>1 DEF IdIs
<1>4. CASE \/ \E t \in Types : ChooseType(t)
           \/ \E kind \in {"task", "security"} : ChooseKind(kind)
           \/ \E pays \in {"single", "tiers"} : ChoosePays(pays)
           \/ \E remote \in BOOLEAN : ClaimNoPlace(remote)
           \/ \E m \in DetailMembers[editor.type] : \E w \in Words \cup {Unstated} : EditDetail(m, w)
  <2>1. /\ editor'.id = editor.id /\ editor'.rows = editor.rows /\ editor'.dirty = editor.dirty
        /\ editor'.fields = editor.fields
    BY <1>f, <1>4 DEF ChooseType, ChooseKind, ChoosePays, ClaimNoPlace, EditDetail, Edit, FormFits, IsForm
  <2> QED
    BY <1>i, <2>1 DEF IdIs
<1>5. CASE SendListing \/ UNCHANGED editorVars
  BY <1>i, <1>5 DEF SendListing, editorVars
<1>6. CASE EditOn
  BY <1>m, <1>6, EmptyFormFollows DEF EditOn
<1> QED
  BY <1>m, <1>1, <1>a, <1>b, <1>2, <1>3, <1>4, <1>5, <1>6 DEF EditorNext

-----------------------------------------------------------------------------
(* What was saved is read as it was written. *)

(* Two functions that agree on their domain are one. *)
LEMMA SameFunction ==
  ASSUME NEW S, NEW F, NEW G, IsOn(F, S), IsOn(G, S), \A x \in S : F[x] = G[x]
  PROVE  F = G
  BY DEF IsOn

(* What is written over itself stays as it is. *)
LEMMA WrittenAgain ==
  ASSUME NEW base, NEW cells
  PROVE  WrittenOver(WrittenOver(base, cells), cells) = WrittenOver(base, cells)
<1> DEFINE w == WrittenOver(base, cells)
           members == (DOMAIN base \ DOMAIN cells) \cup {m \in DOMAIN cells : cells[m] # Unstated}
           again == WrittenOver(w, cells)
           less == (DOMAIN w \ DOMAIN cells) \cup {m \in DOMAIN cells : cells[m] # Unstated}
<1>1. w = [m \in members |-> IF m \in DOMAIN cells THEN cells[m] ELSE base[m]]
  BY DEF WrittenOver
<1>2. again = [m \in less |-> IF m \in DOMAIN cells THEN cells[m] ELSE w[m]]
  BY DEF WrittenOver
<1> HIDE DEF w, again
<1>3. less = members
  BY <1>1
<1>4. \A m \in members : (IF m \in DOMAIN cells THEN cells[m] ELSE w[m]) = (IF m \in DOMAIN cells THEN cells[m] ELSE base[m])
  BY <1>1
<1> HIDE DEF members, less
<1>5. again = w
  BY <1>1, <1>2, <1>3, <1>4
<1> QED
  BY <1>5 DEF again, w

(* What a row states it states of the members of its group. *)
LEMMA StatedOn ==
  ASSUME NEW g \in AllGroups, NEW cells, IsOn(cells, RowMembers[g])
  PROVE  IsOn(Stated(g, cells), RowMembers[g])
<1>1. DOMAIN cells = RowMembers[g] /\ cells \in [RowMembers[g] -> {cells[x] : x \in RowMembers[g]}]
  BY DEF IsOn
<1>2. CASE g = "deadlines"
  BY <1>1, <1>2 DEF Stated, IsOn
<1>3. CASE g = "rewardTiers"
  BY <1>1, <1>3 DEF Stated, IsOn
<1>4. CASE g = "prizes"
  BY <1>1, <1>4 DEF Stated, IsOn
<1>5. CASE g \notin {"deadlines", "rewardTiers", "prizes"}
  BY <1>1, <1>5, StatedIs DEF IsOn
<1> QED
  BY <1>2, <1>3, <1>4, <1>5

(* A row that is let through says again what it said. *)
LEMMA RowAgain ==
  ASSUME NEW g \in AllGroups, NEW row, RowFits(g, row), ~RowProblem(g, row.cells)
  PROVE  LET written == WrittenOver(row.base, Stated(g, row.cells))
             again == Reads(written, RowMembers[g], Default(g))
         IN Stated(g, again) = Stated(g, row.cells) /\ WrittenOver(written, Stated(g, again)) = written
<1> DEFINE cells == row.cells
           stated == Stated(g, cells)
           written == WrittenOver(row.base, stated)
           again == Reads(written, RowMembers[g], Default(g))
           RM == RowMembers[g]
<1>1. IsOn(cells, RM) /\ Chosen(g, cells) /\ Shown(cells) /\ DOMAIN cells = RM
  BY DEF RowFits, CellsFit, IsOn
<1>2. \A m \in RM : /\ m \in DOMAIN written <=> stated[m] # Unstated
                    /\ m \in DOMAIN written => written[m] = stated[m]
  BY RowWritten
<1>3. /\ IsOn(again, RM) /\ DOMAIN again = RM
      /\ \A m \in RM : again[m] = IF m \in DOMAIN written /\ written[m] # Null THEN Shows(written[m])
                                  ELSE IF m \in DOMAIN Default(g) THEN Default(g)[m] ELSE Unstated
  BY ReadsIs
<1>4. IsOn(stated, RM) /\ IsOn(Stated(g, again), RM)
  BY <1>1, <1>3, StatedOn
<1>5. /\ g \notin {"deadlines", "rewardTiers", "prizes"} => stated = cells /\ Stated(g, again) = again
      /\ g = "deadlines" =>
           /\ \A m \in {"deadlineType", "label"} : stated[m] = cells[m] /\ Stated(g, again)[m] = again[m]
           /\ stated["date"] = IF cells["deadlineType"] = "rolling" THEN Unstated ELSE cells["date"]
           /\ Stated(g, again)["date"] = IF again["deadlineType"] = "rolling" THEN Unstated ELSE again["date"]
      /\ g = "rewardTiers" => \A m \in RM :
           /\ stated[m] = IF m \in Amounts \ Allowed[cells["model"]] THEN Unstated ELSE cells[m]
           /\ Stated(g, again)[m] = IF m \in Amounts \ Allowed[again["model"]] THEN Unstated ELSE again[m]
  BY <1>1, <1>3, StatedIs
<1>6. g = "prizes" => stated = cells /\ Stated(g, again) = IF again["amount"] = Unstated THEN [again EXCEPT !["amount"] = "0"] ELSE again
  <2>1. g = "prizes" => cells["amount"] # Unstated
    BY DEF RowProblem, Organizations
  <2> HIDE DEF again
  <2> QED
    BY <2>1 DEF Stated
<1>7. \A m \in RM : stated[m] # Null /\ Shows(stated[m]) = stated[m]
  <2>1. Unstated # Null /\ Shows(Unstated) = Unstated
    BY ShowsIs
  <2>2. \A m \in RM : stated[m] = cells[m] \/ stated[m] = Unstated
    <3>1. CASE g = "deadlines"
      BY <1>5, <3>1, MembersAre
    <3>2. CASE g # "deadlines"
      BY <1>5, <1>6, <3>2
    <3> QED
      BY <3>1, <3>2
  <2> HIDE DEF stated
  <2> QED
    BY <1>1, <2>1, <2>2 DEF Shown
<1>p. ~RowProblem(g, cells)
  OBVIOUS
<1> HIDE DEF cells, stated, written, again
<1>8. \A m \in RM : again[m] = IF stated[m] # Unstated THEN stated[m]
                               ELSE IF m \in DOMAIN Default(g) THEN Default(g)[m] ELSE Unstated
  BY <1>2, <1>3, <1>7
<1>u. "fixed" # Unstated /\ "rolling" # Unstated /\ \A x \in DOMAIN Allowed : x # Unstated
  BY ListingEditorAssumption DEF Choices, Allowed
<1>9. \A m \in RM : Stated(g, again)[m] = stated[m]
  <2>1. CASE g = "deadlines"
    <3>1. again["deadlineType"] = cells["deadlineType"]
      BY <1>1, <1>5, <1>8, <1>u, <2>1, MembersAre DEF Chosen
    <3>2. again["label"] = stated["label"] /\ again["date"] = stated["date"]
      BY <1>8, <2>1, MembersAre, DefaultIs
    <3> QED
      BY <1>5, <2>1, <3>1, <3>2, MembersAre
  <2>2. CASE g = "rewardTiers"
    <3>1. "model" \in RM /\ "model" \notin Amounts
      BY <2>2, MembersAre DEF Amounts
    <3>2. again["model"] = cells["model"] /\ cells["model"] \in DOMAIN Allowed
      BY <1>1, <1>5, <1>8, <1>u, <2>2, <3>1 DEF Chosen
    <3>3. \A m \in Allowed[cells["model"]] \ {"floor", "cap"} : cells[m] # Unstated
      BY <1>p, <2>2 DEF RowProblem, Organizations
    <3>4. ASSUME NEW m \in RM PROVE Stated(g, again)[m] = stated[m]
      <4>1. CASE m \in Amounts \ Allowed[cells["model"]]
        BY <1>5, <2>2, <3>2, <4>1
      <4>2. CASE m \notin Amounts \ Allowed[cells["model"]]
        <5>1. stated[m] = cells[m] /\ Stated(g, again)[m] = again[m]
          BY <1>5, <2>2, <3>2, <4>2
        <5>2. CASE m \in DOMAIN Default(g)
          <6>1. m = "model" \/ m = "basis"
            BY <2>2, <5>2, DefaultIs
          <6>2. CASE m = "model"
            BY <3>2, <5>1, <6>2
          <6>3. CASE m = "basis"
            <7>1. "basis" \in Allowed[cells["model"]] \ {"floor", "cap"}
              BY <4>2, <6>3 DEF Amounts
            <7>2. stated[m] # Unstated
              BY <3>3, <5>1, <6>3, <7>1
            <7> QED
              BY <1>8, <5>1, <7>2
          <6> QED
            BY <6>1, <6>2, <6>3
        <5>3. CASE m \notin DOMAIN Default(g)
          BY <1>8, <5>1, <5>3
        <5> QED
          BY <5>2, <5>3
      <4> QED
        BY <4>1, <4>2
    <3> QED
      BY <3>4
  <2>3. CASE g = "socialLinks"
    <3>1. cells["platform"] # Unstated
      BY <1>1, <2>3 DEF Chosen
    <3> QED
      BY <1>5, <1>8, <2>3, <3>1, DefaultIs
  <2>4. CASE g = "prizes"
    <3>1. "amount" \in RM /\ cells["amount"] # Unstated /\ stated = cells
      BY <1>6, <1>p, <2>4, MembersAre DEF RowProblem, Organizations
    <3>2. again["amount"] = cells["amount"]
      BY <1>8, <3>1
    <3> QED
      BY <1>6, <1>8, <2>4, <3>1, <3>2, DefaultIs
  <2>5. CASE g \notin {"deadlines", "rewardTiers", "socialLinks", "prizes"}
    <3>1. g # "bounty"
      BY Known DEF RowMembers
    <3> QED
      BY <1>5, <1>8, <2>5, <3>1, DefaultIs
  <2> QED
    BY <2>1, <2>2, <2>3, <2>4, <2>5
<1>10. Stated(g, again) = stated
  BY <1>4, <1>9, SameFunction
<1>11. WrittenOver(written, stated) = written
  BY WrittenAgain DEF written
<1> QED
  BY <1>10, <1>11 DEF again, written, stated, cells

(* The empty list, and no other, has no rows. *)
LEMMA EmptyIs == IsList(<<>>) /\ DOMAIN <<>> = {} /\ \A s : IsList(s) => (s = <<>> <=> DOMAIN s = {})
  BY DEF IsList

(* Rows read from what was written are written as the same objects again. *)
LEMMA BuildAgain ==
  ASSUME NEW f, FormFits(f), NEW g \in AllGroups, ~RowProblems(f, g),
         NEW h, FormFits(h), h.rows[g] = ReadRows(Build(f, g), g)
  PROVE  /\ Build(h, g) = Build(f, g)
         /\ DOMAIN h.rows[g] = DOMAIN f.rows[g]
         /\ \A i \in DOMAIN f.rows[g] : Stated(g, h.rows[g][i].cells) = Stated(g, f.rows[g][i].cells)
         /\ h.rows[g] = <<>> <=> f.rows[g] = <<>>
<1> DEFINE built == Build(f, g)
           rows == f.rows[g]
           read == h.rows[g]
           again == Build(h, g)
<1>1. /\ IsList(built) /\ DOMAIN built = DOMAIN rows
      /\ \A i \in DOMAIN rows :
           RowFits(g, rows[i]) /\ built[i] = WrittenOver(rows[i].base, Stated(g, rows[i].cells))
      /\ built = <<>> <=> rows = <<>>
  BY BuildIs
<1>2. /\ IsList(again) /\ DOMAIN again = DOMAIN read
      /\ \A i \in DOMAIN read : again[i] = WrittenOver(read[i].base, Stated(g, read[i].cells))
  BY BuildIs
<1>p. \A i \in DOMAIN rows : ~RowProblem(g, rows[i].cells)
  BY DEF RowProblems
<1>3. /\ DOMAIN read = DOMAIN built
      /\ \A i \in DOMAIN built :
           read[i].cells = Reads(built[i], RowMembers[g], Default(g)) /\ read[i].base = built[i]
      /\ read = <<>> <=> built = <<>>
  <2>1. read = ReadRows(built, g)
    OBVIOUS
  <2> HIDE DEF read, built
  <2>2. /\ DOMAIN ReadRows(built, g) = DOMAIN built
        /\ \A i \in DOMAIN built :
             /\ ReadRows(built, g)[i].cells = Reads(built[i], RowMembers[g], Default(g))
             /\ ReadRows(built, g)[i].base = built[i]
        /\ ReadRows(built, g) = <<>> <=> built = <<>>
    <3>1. IsList(built)
      BY <1>1
    <3>2. DOMAIN ReadRows(built, g) = DOMAIN built
      BY <3>1, RowsReadAre
    <3>3. \A i \in DOMAIN built :
             /\ ReadRows(built, g)[i].cells = Reads(built[i], RowMembers[g], Default(g))
             /\ ReadRows(built, g)[i].base = built[i]
      <4>1. \A i \in DOMAIN built :
              ReadRows(built, g)[i] = [cells |-> Reads(built[i], RowMembers[g], Default(g)), base |-> built[i]]
        BY <3>1, RowsReadAre
      <4>2. ASSUME NEW i \in DOMAIN built
            PROVE  /\ ReadRows(built, g)[i].cells = Reads(built[i], RowMembers[g], Default(g))
                   /\ ReadRows(built, g)[i].base = built[i]
        <5> DEFINE row == ReadRows(built, g)[i]
                   cell == Reads(built[i], RowMembers[g], Default(g))
        <5>1. row = [cells |-> cell, base |-> built[i]]
          BY <4>1
        <5> HIDE DEF row, cell
        <5>2. row.cells = cell /\ row.base = built[i]
          BY <5>1
        <5> QED
          BY <5>2 DEF row, cell
      <4> QED
        BY <4>2
    <3>4. ReadRows(built, g) = <<>> <=> built = <<>>
      BY <3>1, RowsReadAre
    <3> QED
      BY <3>2, <3>3, <3>4
  <2> QED
    BY <2>1, <2>2
<1> HIDE DEF built, rows, read, again
<1>4. ASSUME NEW i \in DOMAIN rows
      PROVE  Stated(g, read[i].cells) = Stated(g, rows[i].cells) /\ again[i] = built[i]
  <2>1. RowFits(g, rows[i]) /\ ~RowProblem(g, rows[i].cells)
    BY <1>1, <1>p
  <2>2. /\ built[i] = WrittenOver(rows[i].base, Stated(g, rows[i].cells))
        /\ read[i].cells = Reads(built[i], RowMembers[g], Default(g)) /\ read[i].base = built[i]
        /\ again[i] = WrittenOver(read[i].base, Stated(g, read[i].cells))
    BY <1>1, <1>2, <1>3
  <2> QED
    BY <2>1, <2>2, RowAgain
<1>5. again = built
  <2>1. DOMAIN again = DOMAIN built /\ \A i \in DOMAIN built : again[i] = built[i]
    BY <1>1, <1>2, <1>3, <1>4
  <2> QED
    BY <1>1, <1>2, <2>1 DEF IsList
<1> QED
  BY <1>1, <1>3, <1>4, <1>5 DEF again, built, rows, read

(* The members at the top say what was written of them. *)
LEMMA FieldsAgain ==
  ASSUME NEW cells, IsOn(cells, Fields), Shown(cells), NEW base
  PROVE  Reads(WrittenOver(base, cells), Fields, <<>>) = cells
<1> DEFINE written == WrittenOver(base, cells)
           again == Reads(written, Fields, <<>>)
<1>1. DOMAIN cells = Fields /\ DOMAIN <<>> = {}
  BY DEF IsOn
<1>2. /\ DOMAIN written = (DOMAIN base \ DOMAIN cells) \cup {m \in DOMAIN cells : cells[m] # Unstated}
      /\ \A m \in DOMAIN cells : cells[m] # Unstated => written[m] = cells[m]
  BY WrittenIs
<1>3. /\ IsOn(again, Fields)
      /\ \A m \in Fields : again[m] = IF m \in DOMAIN written /\ written[m] # Null THEN Shows(written[m])
                                      ELSE IF m \in DOMAIN <<>> THEN <<>>[m] ELSE Unstated
  BY ReadsIs
<1> HIDE DEF written, again
<1>4. \A m \in Fields : again[m] = cells[m]
  BY <1>1, <1>2, <1>3 DEF Shown
<1>5. again = cells
  BY <1>3, <1>4, SameFunction
<1> QED
  BY <1>5 DEF written, again

(* What fromDocument reads, part by part. *)
LEMMA FromDocumentIs ==
  ASSUME NEW d
  PROVE  LET h == FromDocument(d)
             operating == ReadRows(d.rows["operatingOrganizations"], "operatingOrganizations")
         IN /\ h.id = d.id /\ h.type = d.type /\ h.fields = Reads(d.fields, Fields, <<>>)
            /\ h.details = ReadDetails(d.details) /\ h.remote = ClaimsNoPlace(d.details)
            /\ h.pays = IF Listed(d.details, "rewardTiers") # <<>> \/ Listed(d.details, "bountyKind") = "security"
                        THEN "tiers" ELSE "single"
            /\ \A g \in {"prizes", "rewardTiers"} : h.rows[g] = ReadRows(Listed(d.details, g), g)
            /\ \A g \in TopGroups \ {"operatingOrganizations"} : h.rows[g] = ReadRows(d.rows[g], g)
            /\ h.rows["operatingOrganizations"] =
                 IF operating = <<>> THEN <<EmptyRow("operatingOrganizations")>> ELSE operating
<1> DEFINE h == FromDocument(d)
           operating == ReadRows(d.rows["operatingOrganizations"], "operatingOrganizations")
           rows == [g \in AllGroups |->
             CASE g = "operatingOrganizations" ->
                    IF operating = <<>> THEN <<EmptyRow(g)>> ELSE operating
               [] g \in {"prizes", "rewardTiers"} -> ReadRows(Listed(d.details, g), g)
               [] OTHER -> ReadRows(d.rows[g], g)]
<1>1. /\ h.id = d.id /\ h.type = d.type /\ h.fields = Reads(d.fields, Fields, <<>>)
      /\ h.details = ReadDetails(d.details) /\ h.remote = ClaimsNoPlace(d.details)
      /\ h.pays = IF Listed(d.details, "rewardTiers") # <<>> \/ Listed(d.details, "bountyKind") = "security"
                  THEN "tiers" ELSE "single"
      /\ h.rows = rows
  BY DEF FromDocument
<1> HIDE DEF h
<1>2. \A g \in {"prizes", "rewardTiers"} : h.rows[g] = ReadRows(Listed(d.details, g), g)
  <2>1. \A g \in {"prizes", "rewardTiers"} : rows[g] = ReadRows(Listed(d.details, g), g)
    BY Known
  <2> QED
    BY <1>1, <2>1
<1>3. \A g \in TopGroups \ {"operatingOrganizations"} : h.rows[g] = ReadRows(d.rows[g], g)
  <2>1. \A g \in TopGroups \ {"operatingOrganizations"} : rows[g] = ReadRows(d.rows[g], g)
    BY Known
  <2> QED
    BY <1>1, <2>1
<1>4. h.rows["operatingOrganizations"] =
        IF operating = <<>> THEN <<EmptyRow("operatingOrganizations")>> ELSE operating
  <2>1. rows["operatingOrganizations"] =
        IF operating = <<>> THEN <<EmptyRow("operatingOrganizations")>> ELSE operating
    BY Known
  <2> QED
    BY <1>1, <2>1
<1> QED
  BY <1>1, <1>2, <1>3, <1>4 DEF h

(* What the branch of a form says when what it wrote is read. *)
LEMMA DetailsAgain ==
  ASSUME NEW f, FormFits(f), ~DetailProblem(f), NEW details,
         details.fundingType = f.type =>
           DOMAIN details \subseteq {"fundingType"} \cup DetailMembers[f.type] \cup ListOf(f.type),
         NEW d, IsStored(d), d.type = f.type, d.details = BuildDetails(f, details)
  PROVE  LET h == FromDocument(d)
         IN /\ StatedDetails(h) = StatedDetails(f)
            /\ f.type = "bounty" => (PaysByTable(h) <=> PaysByTable(f))
            /\ \A g \in ListOf(f.type) :
                 /\ h.rows[g] = IF g \in DOMAIN StatedRows(f) THEN ReadRows(Build(f, g), g) ELSE ReadRows(<<>>, g)
<1> DEFINE h == FromDocument(d)
           stated == StatedDetails(f)
           lists == StatedRows(f)
           DM == DetailMembers[f.type]
           cells == h.details[f.type]
           again == StatedDetails(h)
<1>1. /\ DOMAIN d.details = {"fundingType"} \cup {m \in DM : stated[m] # Unstated} \cup DOMAIN lists
      /\ d.details["fundingType"] = f.type
      /\ \A m \in DM : m \in DOMAIN d.details => d.details[m] = stated[m]
      /\ \A g \in DOMAIN lists : d.details[g] = lists[g]
  <2> DEFINE new == BuildDetails(f, details)
  <2>1. /\ DOMAIN new = {"fundingType"} \cup {m \in DM : stated[m] # Unstated} \cup DOMAIN lists
        /\ new["fundingType"] = f.type
        /\ \A m \in DM : m \in DOMAIN new => new[m] = stated[m]
        /\ \A g \in DOMAIN lists : new[g] = lists[g]
    BY DetailsAre
  <2>2. d.details = new
    OBVIOUS
  <2> HIDE DEF new, stated, lists
  <2> QED
    BY <2>1, <2>2
<1>2. /\ DOMAIN lists = {g \in ListOf(f.type) : f.rows[g] # <<>> /\ (f.type = "bounty" => PaysByTable(f))}
      /\ \A g \in DOMAIN lists : lists[g] = Build(f, g) /\ Build(f, g) # <<>>
  BY StatedRowsAre
<1>3. /\ f.type \in Types /\ "fundingType" \notin DM \cup ListOf(f.type) /\ DM \cap ListOf(f.type) = {}
      /\ ListOf(f.type) \subseteq {"prizes", "rewardTiers"}
  BY BranchesApart DEF FormFits, IsForm
<1>4. /\ h.type = f.type /\ h.details = ReadDetails(d.details) /\ h.remote = ClaimsNoPlace(d.details)
      /\ h.pays = IF Listed(d.details, "rewardTiers") # <<>> \/ Listed(d.details, "bountyKind") = "security"
                  THEN "tiers" ELSE "single"
      /\ \A g \in {"prizes", "rewardTiers"} : h.rows[g] = ReadRows(Listed(d.details, g), g)
  BY FromDocumentIs
<1>5. /\ FormFits(h) /\ IsOn(f.details[f.type], DM) /\ Shown(f.details[f.type])
      /\ f.details["bounty"]["bountyKind"] \in {"task", "security"}
  BY <1>3, FromDocumentFits DEF FormFits, DetailsFit
<1>6. /\ IsOn(cells, DM) /\ DOMAIN cells = DM
      /\ \A m \in DM : cells[m] = IF m \in DOMAIN d.details /\ d.details[m] # Null THEN Shows(d.details[m])
                                  ELSE IF m \in DOMAIN Default(f.type) THEN Default(f.type)[m] ELSE Unstated
  <2>1. cells = Reads(d.details, DM, Default(f.type))
    BY <1>1, <1>3, <1>4 DEF ReadDetails
  <2> HIDE DEF cells
  <2> QED
    BY <2>1, ReadsIs
<1>7. /\ stated = CASE f.type \in Located /\ f.remote[f.type] -> [f.details[f.type] EXCEPT !["location"] = Null]
                    [] f.type = "bounty" /\ PaysByTable(f) -> [f.details[f.type] EXCEPT !["reward"] = Unstated]
                    [] OTHER -> f.details[f.type]
      /\ again = CASE f.type \in Located /\ h.remote[f.type] -> [cells EXCEPT !["location"] = Null]
                    [] f.type = "bounty" /\ PaysByTable(h) -> [cells EXCEPT !["reward"] = Unstated]
                    [] OTHER -> cells
  BY <1>4 DEF StatedDetails
<1>8. /\ DOMAIN stated = DM /\ DOMAIN again = DM
      /\ f.type = "bounty" =>
           /\ stated["bountyKind"] = f.details["bounty"]["bountyKind"]
           /\ stated["reward"] = IF PaysByTable(f) THEN Unstated ELSE f.details["bounty"]["reward"]
  BY <1>4, <1>5, StatedDetailsAre
<1>m. /\ {"bountyKind", "reward"} \subseteq DetailMembers["bounty"]
      /\ \A t \in Located : t \in Types /\ "location" \in DetailMembers[t] /\ t # "bounty"
  BY DEF DetailMembers, Located, Types
<1>u. "task" # Unstated /\ "security" # Unstated /\ "task" # Null /\ "security" # Null /\ Unstated # Null
      /\ Shows("task") = "task" /\ Shows("security") = "security" /\ Shows(Unstated) = Unstated
  BY ListingEditorAssumption, ShowsIs DEF Choices
<1>x. DOMAIN f.details[f.type] = DM /\ f.details[f.type] \in [DM -> {f.details[f.type][x] : x \in DM}]
  BY <1>5 DEF IsOn
<1> DEFINE mine == f.details[f.type]
<1>y. f.type = "bounty" => mine = f.details["bounty"]
  OBVIOUS
<1>z. IsOn(mine, DM) /\ Shown(mine) /\ DOMAIN mine = DM /\ mine \in [DM -> {mine[x] : x \in DM}]
  BY <1>5, <1>x
<1>p. ~DetailProblem(f)
  OBVIOUS
<1> HIDE DEF h, stated, lists, cells, again, mine, DM
<1>9. \A g \in {"prizes", "rewardTiers"} \ ListOf(f.type) : g \notin DOMAIN d.details \/ f.type # "bounty"
  <2>1. \A t \in Types : {"prizes", "rewardTiers"} \cap DetailMembers[t] = {}
    BY DEF Types, DetailMembers
  <2> QED
    BY <1>1, <1>2, <1>3, <2>1 DEF DM
<1>10. \A g \in ListOf(f.type) : Listed(d.details, g) = IF g \in DOMAIN lists THEN Build(f, g) ELSE <<>>
  BY <1>1, <1>2, <1>3 DEF Listed
<1>11. ASSUME f.type = "bounty" PROVE PaysByTable(h) <=> PaysByTable(f)
  <2>1. ListOf(f.type) = {"rewardTiers"}
    BY <1>3, <1>11, ListOfIs
  <2>2. "bountyKind" \in DM
    BY <1>11, <1>m DEF DM
  <2>3. /\ stated["bountyKind"] \in {"task", "security"} /\ stated["bountyKind"] = f.details["bounty"]["bountyKind"]
        /\ "bountyKind" \in DOMAIN d.details /\ d.details["bountyKind"] = stated["bountyKind"]
    BY <1>1, <1>5, <1>8, <1>11, <1>u, <2>2
  <2>4. h.details["bounty"]["bountyKind"] = stated["bountyKind"]
    BY <1>6, <1>11, <1>u, <2>2, <2>3 DEF cells
  <2>5. Listed(d.details, "bountyKind") = stated["bountyKind"]
    BY <2>3 DEF Listed
  <2>6. Listed(d.details, "rewardTiers") # <<>> <=> "rewardTiers" \in DOMAIN lists
    BY <1>2, <1>10, <2>1
  <2>7. "rewardTiers" \in DOMAIN lists <=> PaysByTable(f)
    <3>1. PaysByTable(f) => f.rows["rewardTiers"] # <<>>
      BY <1>p, <1>11 DEF DetailProblem
    <3> QED
      BY <1>2, <1>11, <2>1, <3>1
  <2>8. h.pays = "tiers" <=> PaysByTable(f) \/ stated["bountyKind"] = "security"
    BY <1>4, <2>5, <2>6, <2>7
  <2> QED
    BY <2>3, <2>4, <2>8 DEF PaysByTable
<1>12. ASSUME f.type \in Located PROVE h.remote[f.type] = f.remote[f.type]
  <2>1. "location" \in DM /\ f.type # "bounty"
    BY <1>12, <1>m DEF DM
  <2>2. h.remote[f.type] = (d.details.fundingType = f.type /\ "location" \in DOMAIN d.details /\ d.details.location = Null)
    BY <1>4, <1>12 DEF ClaimsNoPlace
  <2>3. f.remote[f.type] \in BOOLEAN
    BY <1>12 DEF FormFits
  <2>4. stated["location"] = IF f.remote[f.type] THEN Null ELSE mine["location"]
    BY <1>7, <1>12, <1>z, <2>1 DEF mine
  <2>5. mine["location"] # Null
    BY <1>z, <2>1 DEF Shown
  <2> QED
    BY <1>1, <1>3, <1>u, <2>1, <2>2, <2>3, <2>4, <2>5
<1>13. \A m \in DM : again[m] = stated[m]
  <2> TAKE m \in DM
  <2>1. cells \in [DM -> {cells[x] : x \in DM}]
    BY <1>6 DEF IsOn
  <2>2. CASE f.type \in Located
    <3>1. "location" \in DM /\ f.type # "bounty"
      BY <1>m, <2>2 DEF DM
    <3>2. DOMAIN Default(f.type) = {}
      BY <1>3, <3>1, DefaultIs DEF Types
    <3>3. m # "location" => stated[m] = mine[m]
      BY <1>7, <1>z, <3>1 DEF mine
    <3>4. stated["location"] = IF f.remote[f.type] THEN Null ELSE mine["location"]
      BY <1>7, <1>z, <2>2, <3>1 DEF mine
    <3>5. again[m] = IF m = "location" /\ f.remote[f.type] THEN Null ELSE cells[m]
      BY <1>7, <1>12, <2>1, <2>2, <3>1
    <3>6. mine[m] # Null /\ Shows(mine[m]) = mine[m]
      BY <1>z DEF Shown
    <3> QED
      BY <1>1, <1>6, <3>2, <3>3, <3>4, <3>5, <3>6
  <2>3. CASE f.type = "bounty"
    <3>1. f.type \notin Located
      BY <1>m, <2>3
    <3>2. "reward" \in DM /\ "bountyKind" \in DM /\ DOMAIN Default(f.type) = {"bountyKind"}
      BY <1>m, <2>3, DefaultIs DEF DM
    <3>3. stated[m] = IF m = "reward" /\ PaysByTable(f) THEN Unstated ELSE mine[m]
      BY <1>7, <1>z, <2>3, <3>1, <3>2 DEF mine
    <3>4. again[m] = IF m = "reward" /\ PaysByTable(f) THEN Unstated ELSE cells[m]
      BY <1>7, <1>11, <2>1, <2>3, <3>1, <3>2
    <3>5. mine[m] # Null /\ Shows(mine[m]) = mine[m]
      BY <1>z DEF Shown
    <3>6. m = "bountyKind" => stated[m] # Unstated
      BY <1>5, <1>8, <1>u, <2>3
    <3> QED
      BY <1>1, <1>6, <1>u, <3>2, <3>3, <3>4, <3>5, <3>6
  <2>4. CASE f.type \notin Located \cup {"bounty"}
    <3>1. stated = mine /\ again = cells
      BY <1>7, <2>4 DEF mine
    <3>2. DOMAIN Default(f.type) = {}
      BY <1>3, <2>4, DefaultIs DEF Types
    <3>3. mine[m] # Null /\ Shows(mine[m]) = mine[m]
      BY <1>z DEF Shown
    <3> QED
      BY <1>1, <1>6, <3>1, <3>2, <3>3
  <2> QED
    BY <2>2, <2>3, <2>4
<1>14. again = stated
  <2>1. IsOn(again, DM) /\ IsOn(stated, DM)
    <3>1. cells \in [DM -> {cells[x] : x \in DM}]
      BY <1>6 DEF IsOn
    <3>2. IsOn(again, DM)
      <4>1. CASE f.type \in Located /\ h.remote[f.type]
        BY <1>7, <3>1, <4>1 DEF IsOn
      <4>2. CASE ~(f.type \in Located /\ h.remote[f.type]) /\ f.type = "bounty" /\ PaysByTable(h)
        BY <1>7, <1>m, <3>1, <4>2 DEF IsOn
      <4>3. CASE ~(f.type \in Located /\ h.remote[f.type]) /\ ~(f.type = "bounty" /\ PaysByTable(h))
        BY <1>6, <1>7, <4>3
      <4> QED
        BY <4>1, <4>2, <4>3
    <3>3. IsOn(stated, DM)
      <4>1. CASE f.type \in Located /\ f.remote[f.type]
        BY <1>7, <1>z, <4>1 DEF IsOn, mine
      <4>2. CASE ~(f.type \in Located /\ f.remote[f.type]) /\ f.type = "bounty" /\ PaysByTable(f)
        BY <1>7, <1>m, <1>z, <4>2 DEF IsOn, mine
      <4>3. CASE ~(f.type \in Located /\ f.remote[f.type]) /\ ~(f.type = "bounty" /\ PaysByTable(f))
        BY <1>7, <1>z, <4>3 DEF mine
      <4> QED
        BY <4>1, <4>2, <4>3
    <3> QED
      BY <3>2, <3>3
  <2> QED
    BY <1>13, <2>1, SameFunction
<1>15. \A g \in ListOf(f.type) :
         h.rows[g] = IF g \in DOMAIN lists THEN ReadRows(Build(f, g), g) ELSE ReadRows(<<>>, g)
  BY <1>3, <1>4, <1>10
<1> QED
  BY <1>11, <1>14, <1>15 DEF h, again, stated, lists

(* A form read from what a form wrote states the same, and writes it once more as it is. *)
LEMMA SavedAgain ==
  ASSUME EditorInv, ~HasProblem(editor), NEW d, IsStored(d), d.id = editor.id, d.type = editor.type,
         d.fields = Built.fields, d.rows = Built.rows, d.details = Built.details
  PROVE  Statements(FromDocument(d)) = Statements(editor) /\ ToDocument(FromDocument(d), d) = d
<1> DEFINE f == editor
           h == FromDocument(d)
<1>1. FormFits(f) /\ FormFits(h) /\ ~DetailProblem(f) /\ f.rows["operatingOrganizations"] # <<>>
      /\ \A g \in TopGroups : ~RowProblems(f, g)
  BY FromDocumentFits DEF EditorInv, HasProblem
<1>2. /\ d.fields = WrittenOver(carried.fields, f.fields)
      /\ d.rows \in [TopGroups -> {d.rows[g] : g \in TopGroups}]
      /\ \A g \in TopGroups : d.rows[g] = Build(f, g)
      /\ d.details = BuildDetails(f, carried.details)
  BY BuiltIs
<1>t. f.type \in Types /\ ListOf(f.type) \subseteq {"prizes", "rewardTiers"}
  BY <1>1, BranchesApart DEF FormFits, IsForm
<1>3. /\ h.id = d.id /\ h.type = f.type /\ h.fields = f.fields
      /\ \A g \in TopGroups : h.rows[g] = ReadRows(Build(f, g), g)
  <2>1. h.fields = f.fields
    <3>1. IsOn(f.fields, Fields) /\ Shown(f.fields)
      BY <1>1 DEF FormFits
    <3>2. h.fields = Reads(d.fields, Fields, <<>>)
      BY FromDocumentIs
    <3> HIDE DEF f, h
    <3> QED
      BY <1>2, <3>1, <3>2, FieldsAgain
  <2>2. \A g \in TopGroups \ {"operatingOrganizations"} : h.rows[g] = ReadRows(Build(f, g), g)
    <3>1. \A g \in TopGroups \ {"operatingOrganizations"} : h.rows[g] = ReadRows(d.rows[g], g)
      BY FromDocumentIs
    <3> QED
      BY <1>2, <3>1
  <2>3. h.rows["operatingOrganizations"] = ReadRows(Build(f, "operatingOrganizations"), "operatingOrganizations")
    <3> DEFINE g == "operatingOrganizations"
               operating == ReadRows(Build(f, g), g)
    <3>1. Build(f, g) # <<>> /\ IsList(Build(f, g))
      BY <1>1, BuildIs, Known
    <3>2. operating # <<>>
      BY <3>1, RowsReadAre
    <3>3. d.rows[g] = Build(f, g)
      BY <1>2, Known
    <3>4. h.rows[g] = IF ReadRows(d.rows[g], g) = <<>> THEN <<EmptyRow(g)>> ELSE ReadRows(d.rows[g], g)
      BY FromDocumentIs
    <3> HIDE DEF h, f
    <3> QED
      BY <3>2, <3>3, <3>4
  <2>4. h.id = d.id /\ h.type = f.type
    BY FromDocumentIs
  <2> QED
    BY <2>1, <2>2, <2>3, <2>4
<1>4. \A g \in TopGroups :
        /\ Build(h, g) = Build(f, g) /\ DOMAIN h.rows[g] = DOMAIN f.rows[g]
        /\ \A i \in DOMAIN f.rows[g] : Stated(g, h.rows[g][i].cells) = Stated(g, f.rows[g][i].cells)
  BY <1>1, <1>3, Known, BuildAgain
<1>5. /\ StatedDetails(h) = StatedDetails(f)
      /\ f.type = "bounty" => (PaysByTable(h) <=> PaysByTable(f))
      /\ \A g \in ListOf(f.type) :
           h.rows[g] = IF g \in DOMAIN StatedRows(f) THEN ReadRows(Build(f, g), g) ELSE ReadRows(<<>>, g)
  BY <1>1, <1>2, CarriedIs, DetailsAgain
<1>6. StatedRows(h) = StatedRows(f)
  <2>1. /\ DOMAIN StatedRows(f) = {g \in ListOf(f.type) : f.rows[g] # <<>> /\ (f.type = "bounty" => PaysByTable(f))}
        /\ \A g \in DOMAIN StatedRows(f) : StatedRows(f)[g] = Build(f, g) /\ g \in AllGroups
    BY <1>1, StatedRowsAre
  <2>2. /\ DOMAIN StatedRows(h) = {g \in ListOf(f.type) : h.rows[g] # <<>> /\ (f.type = "bounty" => PaysByTable(h))}
        /\ \A g \in DOMAIN StatedRows(h) : StatedRows(h)[g] = Build(h, g)
    BY <1>1, <1>3, StatedRowsAre
  <2>3. \A g \in ListOf(f.type) : ~RowProblems(f, g)
    <3>1. \A g \in ListOf(f.type) : (f.type = "hackathon" /\ g = "prizes") \/ (f.type = "bounty" /\ g = "rewardTiers")
      BY <1>t, ListOfIs
    <3> QED
      BY <1>1, <3>1 DEF DetailProblem
  <2>4. ASSUME NEW g \in ListOf(f.type), g \in DOMAIN StatedRows(f)
        PROVE  h.rows[g] # <<>> /\ Build(h, g) = Build(f, g)
    <3>1. h.rows[g] = ReadRows(Build(f, g), g) /\ g \in AllGroups /\ f.rows[g] # <<>>
      BY <1>5, <2>1, <2>4
    <3> QED
      BY <1>1, <2>3, <3>1, BuildAgain
  <2>5. ASSUME NEW g \in ListOf(f.type), g \notin DOMAIN StatedRows(f)
        PROVE  h.rows[g] = <<>>
    <3>1. ReadRows(<<>>, g) = <<>>
      BY EmptyIs, RowsReadAre
    <3> QED
      BY <1>5, <2>5, <3>1
  <2> HIDE DEF h, f
  <2>6. DOMAIN StatedRows(h) = DOMAIN StatedRows(f)
    BY <1>5, <2>1, <2>2, <2>4, <2>5
  <2>7. \A g \in DOMAIN StatedRows(f) : StatedRows(h)[g] = StatedRows(f)[g]
    BY <2>1, <2>2, <2>4, <2>6
  <2>8. IsOn(StatedRows(h), DOMAIN StatedRows(h)) /\ IsOn(StatedRows(f), DOMAIN StatedRows(f))
    BY DEF StatedRows, IsOn
  <2> QED
    BY <2>6, <2>7, <2>8, SameFunction
<1>7. Statements(h) = Statements(f)
  <2> DEFINE rowsOf(e) == [g \in TopGroups |-> [i \in DOMAIN e.rows[g] |-> Stated(g, e.rows[g][i].cells)]]
  <2>1. rowsOf(h) = rowsOf(f)
    <3>1. \A g \in TopGroups : [i \in DOMAIN h.rows[g] |-> Stated(g, h.rows[g][i].cells)]
                              = [i \in DOMAIN f.rows[g] |-> Stated(g, f.rows[g][i].cells)]
      <4> TAKE g \in TopGroups
      <4>1. DOMAIN h.rows[g] = DOMAIN f.rows[g]
            /\ \A i \in DOMAIN f.rows[g] : Stated(g, h.rows[g][i].cells) = Stated(g, f.rows[g][i].cells)
        BY <1>4
      <4> HIDE DEF h, f
      <4> QED
        BY <4>1
    <3> HIDE DEF h, f
    <3> QED
      BY <3>1
  <2>2. Statements(h) = [type |-> h.type, fields |-> h.fields, rows |-> rowsOf(h), details |-> StatedDetails(h),
                         lists |-> StatedRows(h)]
    BY DEF Statements
  <2>3. Statements(f) = [type |-> f.type, fields |-> f.fields, rows |-> rowsOf(f), details |-> StatedDetails(f),
                         lists |-> StatedRows(f)]
    BY DEF Statements
  <2> HIDE DEF h, f, rowsOf
  <2> QED
    BY <1>3, <1>5, <1>6, <2>1, <2>2, <2>3
<1>8. ToDocument(h, d) = d
  <2> DEFINE rows == [g \in TopGroups |-> Build(h, g)]
             fields == WrittenOver(d.fields, h.fields)
             details == BuildDetails(h, d.details)
  <2>1. ToDocument(h, d) = [d EXCEPT !.id = h.id, !.type = h.type, !.fields = fields, !.rows = rows, !.details = details]
    BY DEF ToDocument
  <2>2. fields = d.fields
    BY <1>2, <1>3, WrittenAgain
  <2>3. rows = d.rows
    <3>1. \A g \in TopGroups : Build(h, g) = d.rows[g]
      BY <1>2, <1>4
    <3> HIDE DEF h
    <3> QED
      BY <1>2, <3>1
  <2>4. details = d.details
    <3> DEFINE DM == DetailMembers[f.type]
               old == BuildDetails(f, carried.details)
    <3>0. DOMAIN d.details \subseteq {"fundingType"} \cup DetailMembers[h.type] \cup ListOf(h.type)
      BY <1>3 DEF IsStored, Conforms, DetailsConform
    <3>1. /\ DOMAIN details = {"fundingType"} \cup {m \in DM : StatedDetails(f)[m] # Unstated} \cup DOMAIN StatedRows(f)
          /\ details["fundingType"] = f.type
          /\ \A m \in DM : m \in DOMAIN details => details[m] = StatedDetails(f)[m]
          /\ \A g \in DOMAIN StatedRows(f) : details[g] = StatedRows(f)[g]
      <4> DEFINE new == BuildDetails(h, d.details)
      <4>1. /\ DOMAIN new = {"fundingType"} \cup {m \in DetailMembers[h.type] : StatedDetails(h)[m] # Unstated}
                              \cup DOMAIN StatedRows(h)
            /\ new["fundingType"] = h.type
            /\ \A m \in DetailMembers[h.type] : m \in DOMAIN new => new[m] = StatedDetails(h)[m]
            /\ \A g \in DOMAIN StatedRows(h) : new[g] = StatedRows(h)[g]
        BY <1>1, <3>0, DetailsAre
      <4> HIDE DEF new, h, f
      <4>2. details = new
        BY DEF new
      <4> QED
        BY <1>3, <1>5, <1>6, <4>1, <4>2
    <3>2. /\ DOMAIN old = {"fundingType"} \cup {m \in DM : StatedDetails(f)[m] # Unstated} \cup DOMAIN StatedRows(f)
          /\ old["fundingType"] = f.type
          /\ \A m \in DM : m \in DOMAIN old => old[m] = StatedDetails(f)[m]
          /\ \A g \in DOMAIN StatedRows(f) : old[g] = StatedRows(f)[g]
      BY <1>1, CarriedIs, DetailsAre
    <3>3. IsOn(details, DOMAIN details) /\ IsOn(old, DOMAIN old)
      BY StatingIs DEF BuildDetails
    <3>4. d.details = old
      BY <1>2
    <3> HIDE DEF details, old, h, f, DM
    <3>5. DOMAIN details = DOMAIN old /\ \A m \in DOMAIN old : details[m] = old[m]
      BY <3>1, <3>2
    <3> QED
      BY <3>3, <3>4, <3>5, SameFunction
  <2>5. d \in [id : {d.id}, publisher : {d.publisher}, legacy : BOOLEAN, type : Types,
               fields : {d.fields}, rows : {d.rows}, details : {d.details}]
    BY DEF IsStored, IsListing
  <2> HIDE DEF rows, fields, details, h
  <2> QED
    BY <1>3, <2>1, <2>2, <2>3, <2>4, <2>5
<1> QED
  BY <1>7, <1>8

(* Nothing was sent yet. *)
LEMMA SavedStarts == EditorInit => SavedIsShown
  BY DEF EditorInit, SavedIsShown

(* After a submission, what is on the page is what was saved. *)
LEMMA SavedSafe ==
  ASSUME EditorInv, SavedIsShown, [EditorNext]_editorVars
  PROVE  SavedIsShown'
<1> SUFFICES ASSUME sent'
             PROVE  Statements(FromDocument(stored')) = Statements(editor')
                    /\ ToDocument(FromDocument(stored'), stored') = stored'
  BY DEF SavedIsShown
<1>1. SendListing \/ UNCHANGED editorVars
  BY DEF EditorNext, editorVars, AddRow, RemoveRow, MoveRow, EditRow, EditField, TypeId, ChooseType, ChooseKind,
         ChoosePays, ClaimNoPlace, EditDetail, EditOn, OpenListing, Edit
<1>2. CASE UNCHANGED editorVars
  BY <1>2 DEF editorVars, SavedIsShown
<1>3. CASE SendListing
  <2> DEFINE d == stored'
  <2>1. IsStored(d)
    BY <1>3, SendStores
  <2>2. d.id = editor.id /\ d.type = editor.type /\ d.fields = Built.fields /\ d.rows = Built.rows
        /\ d.details = Built.details
    <3> DEFINE b == Built
               p == Built.rows.operatingOrganizations[1].slug
    <3>1. b \in [id : {editor.id}, publisher : {carried.publisher}, legacy : BOOLEAN, type : Types,
                 fields : {b.fields}, rows : {b.rows}, details : {b.details}]
          /\ b.id = editor.id /\ b.type = editor.type
      BY BuiltIs
    <3>2. d = b \/ d = [b EXCEPT !.publisher = p]
      BY <1>3 DEF SendListing
    <3> HIDE DEF b, p, d
    <3>3. d.id = editor.id /\ d.type = editor.type /\ d.fields = b.fields /\ d.rows = b.rows /\ d.details = b.details
      BY <3>1, <3>2
    <3> QED
      BY <3>3 DEF b
  <2>3. editor' = editor /\ ~HasProblem(editor)
    BY <1>3 DEF SendListing
  <2> QED
    BY <2>1, <2>2, <2>3, SavedAgain
<1> QED
  BY <1>1, <1>2, <1>3

-----------------------------------------------------------------------------
(* What no edit touched. *)

(* What no edit touched is in the form as it was read. *)
RestAsRead(d, f, T) ==
  LET read == FromDocument(d)
  IN /\ \A m \in Fields : <<"fields", m>> \notin T => f.fields[m] = read.fields[m]
     /\ \A t \in Types : \A m \in DetailMembers[t] : <<"details", m>> \notin T => f.details[t][m] = read.details[t][m]
     /\ <<"details", "location">> \notin T => f.remote = read.remote
     /\ \A m \in {"reward", "rewardTiers"} : <<"details", m>> \notin T =>
          f.details["bounty"]["bountyKind"] = read.details["bounty"]["bountyKind"] /\ f.pays = read.pays
     /\ \A g \in {"prizes", "rewardTiers"} : <<"details", g>> \notin T => f.rows[g] = read.rows[g]

(* Each stored organization has a row that was read from it, which shows of it what no edit
   touched, and no row was read from anything else. *)
OrganizationsAsRead(d, rows, T) ==
  LET was == d.rows["operatingOrganizations"]
      ofRow == RowMembers["operatingOrganizations"]
  IN /\ \A j \in DOMAIN rows : "contacts" \in DOMAIN rows[j].base => \E i \in Named(was) : rows[j].base = was[i]
     /\ \A i \in Named(was) : \A m \in ofRow : <<was[i].contacts, m>> \notin T =>
          \E j \in DOMAIN rows : rows[j].base = was[i] /\ rows[j].cells[m] = Reads(was[i], ofRow, <<>>)[m]

(* The form of a record that is edited shows what no edit touched as it was read. *)
AsRead ==
  mode = "edit" =>
    RestAsRead(carried, editor, touched) /\ OrganizationsAsRead(carried, editor.rows["operatingOrganizations"], touched)

(* Nothing is chosen of an organization. *)
LEMMA NoDefault == Default("operatingOrganizations") = <<>>
  BY DEF Default

(* A form is as it was read once it was read, *)
LEMMA ReadAsRead ==
  ASSUME NEW d, IsStored(d)
  PROVE  /\ RestAsRead(d, FromDocument(d), {})
         /\ OrganizationsAsRead(d, FromDocument(d).rows["operatingOrganizations"], {})
<1>1. RestAsRead(d, FromDocument(d), {})
  BY DEF RestAsRead
<1> DEFINE g == "operatingOrganizations"
           was == d.rows[g]
           rows == FromDocument(d).rows[g]
           ofRow == RowMembers[g]
<1>2. rows = IF ReadRows(was, g) = <<>> THEN <<EmptyRow(g)>> ELSE ReadRows(was, g)
  BY FromDocumentIs
<1>3. IsList(was)
  BY Known DEF IsStored, IsListing, AreRows
<1> HIDE DEF rows, was
<1>4. /\ DOMAIN ReadRows(was, g) = DOMAIN was
      /\ \A i \in DOMAIN was : ReadRows(was, g)[i] = [cells |-> Reads(was[i], ofRow, Default(g)), base |-> was[i]]
      /\ ReadRows(was, g) = <<>> <=> was = <<>>
  <2>1. DOMAIN ReadRows(was, g) = DOMAIN was
    BY <1>3, RowsReadAre
  <2>2. \A i \in DOMAIN was : ReadRows(was, g)[i] = [cells |-> Reads(was[i], ofRow, Default(g)), base |-> was[i]]
    BY <1>3, RowsReadAre
  <2>3. ReadRows(was, g) = <<>> <=> was = <<>>
    BY <1>3, RowsReadAre
  <2> QED
    BY <2>1, <2>2, <2>3
<1>5. CASE was = <<>>
  <2> DEFINE row == EmptyRow(g)
  <2>1. rows = <<row>> /\ row.base = <<>>
    BY <1>2, <1>4, <1>5, EmptyRowFits, Known
  <2> HIDE DEF row
  <2>2. DOMAIN <<row>> = {1} /\ <<row>>[1] = row
    OBVIOUS
  <2>3. Named(was) = {} /\ DOMAIN row.base = {}
    BY <1>5, <2>1, EmptyIs DEF Named
  <2>4. \A j \in DOMAIN rows : DOMAIN rows[j].base = {}
    BY <2>1, <2>2, <2>3
  <2> QED
    BY <1>1, <2>3, <2>4 DEF OrganizationsAsRead, rows, was
<1>6. CASE was # <<>>
  <2>1. /\ DOMAIN rows = DOMAIN was
        /\ \A i \in DOMAIN was : rows[i] = [cells |-> Reads(was[i], ofRow, <<>>), base |-> was[i]]
    BY <1>2, <1>4, <1>6, NoDefault
  <2>2. ASSUME NEW i \in DOMAIN was
        PROVE  rows[i].base = was[i] /\ rows[i].cells = Reads(was[i], ofRow, <<>>)
    <3> DEFINE cells == Reads(was[i], ofRow, <<>>)
    <3>1. rows[i] = [cells |-> cells, base |-> was[i]]
      BY <2>1
    <3> HIDE DEF cells
    <3>2. rows[i].base = was[i] /\ rows[i].cells = cells
      BY <3>1
    <3> QED
      BY <3>2 DEF cells
  <2>3. \A j \in DOMAIN rows : "contacts" \in DOMAIN rows[j].base => \E i \in Named(was) : rows[j].base = was[i]
    BY <2>1, <2>2 DEF Named
  <2>4. \A i \in Named(was) : \A m \in ofRow :
          \E j \in DOMAIN rows : rows[j].base = was[i] /\ rows[j].cells[m] = Reads(was[i], ofRow, <<>>)[m]
    BY <2>1, <2>2 DEF Named
  <2> QED
    BY <1>1, <2>3, <2>4 DEF OrganizationsAsRead, rows, was
<1> QED
  BY <1>5, <1>6

(* What an edit of rows leaves alone. *)
LEMMA WithRowsIs ==
  ASSUME NEW f, FormFits(f), NEW g \in AllGroups, NEW rows
  PROVE  LET h == WithRows(f, g, rows)
         IN /\ h.fields = f.fields /\ h.details = f.details /\ h.remote = f.remote /\ h.pays = f.pays
            /\ \A k \in AllGroups : h.rows[k] = IF k = g THEN rows ELSE f.rows[k]
<1> DEFINE e == [f EXCEPT !.rows[g] = rows]
           h == WithRows(f, g, rows)
<1>1. /\ IsForm(e) /\ e.fields = f.fields /\ e.details = f.details /\ e.remote = f.remote /\ e.pays = f.pays
      /\ e.rows = [f.rows EXCEPT ![g] = rows]
  BY DEF FormFits, IsForm
<1>2. \A k \in AllGroups : e.rows[k] = IF k = g THEN rows ELSE f.rows[k]
  <2>1. f.rows \in [AllGroups -> {f.rows[x] : x \in AllGroups}]
    BY DEF FormFits, IsOn
  <2> HIDE DEF e
  <2> QED
    BY <1>1, <2>1
<1>3. h = e \/ h = Following(e)
  BY DEF WithRows, WithOperating
<1> HIDE DEF e, h
<1>4. /\ Following(e).fields = e.fields /\ Following(e).details = e.details /\ Following(e).remote = e.remote
      /\ Following(e).pays = e.pays /\ Following(e).rows = e.rows
  BY <1>1 DEF Following, IsForm
<1>5. /\ h.fields = e.fields /\ h.details = e.details /\ h.remote = e.remote /\ h.pays = e.pays /\ h.rows = e.rows
  BY <1>3, <1>4
<1> QED
  BY <1>1, <1>2, <1>5 DEF h

(* Edits of rows leave the rest, and what they touch is touched. *)
LEMMA RowsLeaveRest ==
  ASSUME NEW d, NEW f, FormFits(f), NEW T, RestAsRead(d, f, T), NEW U, NEW g \in AllGroups, NEW rows,
         g \notin TopGroups => <<"details", g>> \in U
  PROVE  RestAsRead(d, WithRows(f, g, rows), T \cup U)
<1> DEFINE h == WithRows(f, g, rows)
           read == FromDocument(d)
<1>1. /\ h.fields = f.fields /\ h.details = f.details /\ h.remote = f.remote /\ h.pays = f.pays
      /\ \A k \in AllGroups : h.rows[k] = IF k = g THEN rows ELSE f.rows[k]
  BY WithRowsIs
<1>2. \A k \in {"prizes", "rewardTiers"} : <<"details", k>> \notin T \cup U => k # g /\ k \in AllGroups
  BY DEF TopGroups, AllGroups
<1>3. \A k \in {"prizes", "rewardTiers"} : <<"details", k>> \notin T \cup U => h.rows[k] = f.rows[k]
  BY <1>1, <1>2
<1> HIDE DEF h
<1>4. RestAsRead(d, h, T \cup U)
  BY <1>1, <1>3 DEF RestAsRead
<1> QED
  BY <1>4 DEF h

(* And edits of other rows leave the organizations. *)
LEMMA RowsLeaveOrganizations ==
  ASSUME NEW d, NEW f, FormFits(f), NEW T, OrganizationsAsRead(d, f.rows["operatingOrganizations"], T), NEW U,
         NEW g \in AllGroups, NEW rows,
         g = "operatingOrganizations" => OrganizationsAsRead(d, rows, T \cup U)
  PROVE  OrganizationsAsRead(d, WithRows(f, g, rows).rows["operatingOrganizations"], T \cup U)
<1> DEFINE h == WithRows(f, g, rows)
           o == "operatingOrganizations"
<1>1. h.rows[o] = IF o = g THEN rows ELSE f.rows[o]
  BY WithRowsIs, Known
<1> HIDE DEF h
<1>2. OrganizationsAsRead(d, f.rows[o], T \cup U)
  BY DEF OrganizationsAsRead
<1>3. OrganizationsAsRead(d, h.rows[o], T \cup U)
  BY <1>1, <1>2
<1> QED
  BY <1>3 DEF h

(* Rows that are rows of before, each with all the organizations but those of one whose members are touched. *)
LEMMA AddedAsRead ==
  ASSUME NEW d, NEW rows, IsList(rows), NEW T, OrganizationsAsRead(d, rows, T), NEW U, NEW row, row.base = <<>>
  PROVE  OrganizationsAsRead(d, Append(rows, row), T \cup U)
<1> DEFINE added == Append(rows, row)
<1>1. rows \in Seq({rows[i] : i \in DOMAIN rows})
  BY DEF IsList
<1>2. /\ DOMAIN added = 1..(Len(rows) + 1) /\ DOMAIN rows = 1..Len(rows) /\ Len(rows) \in Nat
      /\ \A i \in DOMAIN rows : added[i] = rows[i]
      /\ added[Len(rows) + 1] = row
  BY <1>1
<1>3. DOMAIN row.base = {}
  BY EmptyIs
<1> HIDE DEF added
<1>4. DOMAIN rows \subseteq DOMAIN added /\ \A i \in DOMAIN added : i \in DOMAIN rows \/ added[i] = row
  <2>1. \A i \in DOMAIN added : i \in DOMAIN rows \/ i = Len(rows) + 1
    BY <1>2
  <2> QED
    BY <1>2, <2>1
<1>5. OrganizationsAsRead(d, added, T \cup U)
  <2> DEFINE was == d.rows["operatingOrganizations"]
             ofRow == RowMembers["operatingOrganizations"]
  <2>1. ASSUME NEW j \in DOMAIN added, "contacts" \in DOMAIN added[j].base
        PROVE  \E i \in Named(was) : added[j].base = was[i]
    BY <1>2, <1>3, <1>4, <2>1 DEF OrganizationsAsRead
  <2>2. ASSUME NEW i \in Named(was), NEW m \in ofRow, <<was[i].contacts, m>> \notin T \cup U
        PROVE  \E j \in DOMAIN added : added[j].base = was[i] /\ added[j].cells[m] = Reads(was[i], ofRow, <<>>)[m]
    <3>1. PICK j \in DOMAIN rows : rows[j].base = was[i] /\ rows[j].cells[m] = Reads(was[i], ofRow, <<>>)[m]
      BY <2>2 DEF OrganizationsAsRead
    <3> QED
      BY <1>2, <1>4, <3>1
  <2> QED
    BY <2>1, <2>2 DEF OrganizationsAsRead
<1> QED
  BY <1>5 DEF added

(* A row that is removed touches all that it showed of its organization. *)
LEMMA RemovedAsRead ==
  ASSUME NEW d, NEW rows, IsList(rows), NEW T, OrganizationsAsRead(d, rows, T), NEW U, NEW k \in DOMAIN rows,
         "contacts" \in DOMAIN rows[k].base =>
           \A m \in RowMembers["operatingOrganizations"] : <<rows[k].base.contacts, m>> \in U
  PROVE  OrganizationsAsRead(d, Seqs!RemoveAt(rows, k), T \cup U)
<1> DEFINE less == Seqs!RemoveAt(rows, k)
           was == d.rows["operatingOrganizations"]
           ofRow == RowMembers["operatingOrganizations"]
<1>1. /\ DOMAIN less = 1..(Len(rows) - 1) /\ DOMAIN rows = 1..Len(rows) /\ Len(rows) \in Nat
      /\ \A i \in DOMAIN less : less[i] = rows[IF i < k THEN i ELSE i + 1]
  BY RemovedIs
<1> HIDE DEF less
<1>2. \A i \in DOMAIN less : \E j \in DOMAIN rows : less[i] = rows[j]
  BY <1>1
<1>3. ASSUME NEW j \in DOMAIN rows, j # k PROVE \E i \in DOMAIN less : less[i] = rows[j]
  <2> DEFINE i == IF j < k THEN j ELSE j - 1
  <2>1. i \in DOMAIN less /\ j = IF i < k THEN i ELSE i + 1
    BY <1>1, <1>3
  <2> HIDE DEF i
  <2> QED
    BY <1>1, <2>1
<1>4. ASSUME NEW j \in DOMAIN less, "contacts" \in DOMAIN less[j].base
      PROVE  \E i \in Named(was) : less[j].base = was[i]
  BY <1>2, <1>4 DEF OrganizationsAsRead
<1>5. ASSUME NEW i \in Named(was), NEW m \in ofRow, <<was[i].contacts, m>> \notin T \cup U
      PROVE  \E j \in DOMAIN less : less[j].base = was[i] /\ less[j].cells[m] = Reads(was[i], ofRow, <<>>)[m]
  <2>1. PICK j \in DOMAIN rows : rows[j].base = was[i] /\ rows[j].cells[m] = Reads(was[i], ofRow, <<>>)[m]
    BY <1>5 DEF OrganizationsAsRead
  <2>2. j # k
    <3>1. "contacts" \in DOMAIN was[i]
      BY DEF Named
    <3> QED
      BY <1>5, <2>1, <3>1
  <2> QED
    BY <1>3, <2>1, <2>2
<1>6. OrganizationsAsRead(d, less, T \cup U)
  BY <1>4, <1>5 DEF OrganizationsAsRead
<1> QED
  BY <1>6 DEF less

(* Rows may change places, and one of them what it shows of a touched member. *)
LEMMA ReplacedAsRead ==
  ASSUME NEW d, NEW rows, NEW T, OrganizationsAsRead(d, rows, T), NEW U, NEW t,
         \A i \in DOMAIN t : \E j \in DOMAIN rows : t[i].base = rows[j].base,
         \A j \in DOMAIN rows : \E i \in DOMAIN t :
           /\ t[i].base = rows[j].base
           /\ \A m \in RowMembers["operatingOrganizations"] :
                \/ t[i].cells[m] = rows[j].cells[m]
                \/ "contacts" \in DOMAIN rows[j].base => <<rows[j].base.contacts, m>> \in U
  PROVE  OrganizationsAsRead(d, t, T \cup U)
<1> DEFINE was == d.rows["operatingOrganizations"]
           ofRow == RowMembers["operatingOrganizations"]
<1>1. ASSUME NEW j \in DOMAIN t, "contacts" \in DOMAIN t[j].base
      PROVE  \E i \in Named(was) : t[j].base = was[i]
  <2>1. PICK k \in DOMAIN rows : t[j].base = rows[k].base
    OBVIOUS
  <2> QED
    BY <1>1, <2>1 DEF OrganizationsAsRead
<1>2. ASSUME NEW i \in Named(was), NEW m \in ofRow, <<was[i].contacts, m>> \notin T \cup U
      PROVE  \E j \in DOMAIN t : t[j].base = was[i] /\ t[j].cells[m] = Reads(was[i], ofRow, <<>>)[m]
  <2>1. PICK j \in DOMAIN rows : rows[j].base = was[i] /\ rows[j].cells[m] = Reads(was[i], ofRow, <<>>)[m]
    BY <1>2 DEF OrganizationsAsRead
  <2>2. PICK k \in DOMAIN t : /\ t[k].base = rows[j].base
                              /\ \A n \in ofRow :
                                   \/ t[k].cells[n] = rows[j].cells[n]
                                   \/ "contacts" \in DOMAIN rows[j].base => <<rows[j].base.contacts, n>> \in U
    OBVIOUS
  <2>3. "contacts" \in DOMAIN was[i]
    BY DEF Named
  <2> QED
    BY <1>2, <2>1, <2>2, <2>3
<1> QED
  BY <1>1, <1>2 DEF OrganizationsAsRead

(* So whatever is done to rows, what no edit touched is as it was read: *)
LEMMA RowEditsAsRead ==
  ASSUME NEW d, FormFits(editor), RestAsRead(d, editor, touched),
         OrganizationsAsRead(d, editor.rows["operatingOrganizations"], touched),
         NEW g \in AllGroups,
         \/ AddRow(g)
         \/ \E i \in DOMAIN editor.rows[g] :
              \/ RemoveRow(g, i) \/ MoveRow(g, i)
              \/ \E m \in RowMembers[g] : \E w \in MayHold(m) : EditRow(g, i, m, w)
  PROVE  /\ RestAsRead(d, editor', touched')
         /\ OrganizationsAsRead(d, editor'.rows["operatingOrganizations"], touched')
<1> DEFINE rows == editor.rows[g]
           Ok(new, U) == /\ editor' = WithRows(editor, g, new) /\ touched' = touched \cup U
                         /\ g \notin TopGroups => <<"details", g>> \in U
                         /\ g = "operatingOrganizations" => OrganizationsAsRead(d, new, touched \cup U)
<1>0. ASSUME NEW new, NEW U, Ok(new, U)
      PROVE  /\ RestAsRead(d, editor', touched')
             /\ OrganizationsAsRead(d, editor'.rows["operatingOrganizations"], touched')
  BY <1>0, RowsLeaveRest, RowsLeaveOrganizations
<1>w. \A row, members : g \notin TopGroups => <<"details", g>> \in Whose(g, row, members)
  BY DEF Whose
<1>o. \A row, members : g = "operatingOrganizations" /\ "contacts" \in DOMAIN row.base =>
        \A m \in members : <<row.base.contacts, m>> \in Whose(g, row, members)
  BY Known DEF Whose
<1>l. IsList(rows) /\ RowsFit(g, rows)
  BY DEF FormFits, RowsFit
<1>1. CASE AddRow(g)
  <2> DEFINE U == Whose(g, EmptyRow(g), {})
             new == Append(rows, EmptyRow(g))
  <2>1. editor' = WithRows(editor, g, new) /\ touched' = touched \cup U
    BY <1>1 DEF AddRow, Edit
  <2>2. EmptyRow(g).base = <<>>
    BY EmptyRowFits
  <2>3. g = "operatingOrganizations" => OrganizationsAsRead(d, new, touched \cup U)
    BY <1>l, <2>2, AddedAsRead
  <2>4. Ok(new, U)
    BY <1>w, <2>1, <2>3
  <2> QED
    BY <1>0, <2>4
<1>2. ASSUME NEW i \in DOMAIN rows, RemoveRow(g, i)
      PROVE  /\ RestAsRead(d, editor', touched')
             /\ OrganizationsAsRead(d, editor'.rows["operatingOrganizations"], touched')
  <2> DEFINE U == Whose(g, rows[i], RowMembers[g])
             new == Seqs!RemoveAt(rows, i)
  <2>1. editor' = WithRows(editor, g, new) /\ touched' = touched \cup U
    BY <1>2 DEF RemoveRow, Edit
  <2>3. g = "operatingOrganizations" => OrganizationsAsRead(d, new, touched \cup U)
    BY <1>l, <1>o, RemovedAsRead
  <2>4. Ok(new, U)
    BY <1>w, <2>1, <2>3
  <2> QED
    BY <1>0, <2>4
<1>3. ASSUME NEW i \in DOMAIN rows, MoveRow(g, i)
      PROVE  /\ RestAsRead(d, editor', touched')
             /\ OrganizationsAsRead(d, editor'.rows["operatingOrganizations"], touched')
  <2> DEFINE new == [rows EXCEPT ![i] = rows[i + 1], ![i + 1] = rows[i]]
  <2>1. /\ editor' = WithRows(editor, g, new) /\ touched' = touched \cup {}
        /\ i + 1 \in DOMAIN rows /\ g \in TopGroups
    BY <1>3 DEF MoveRow, Edit, TopGroups
  <2>2. rows \in [DOMAIN rows -> {rows[x] : x \in DOMAIN rows}] /\ i \in Nat
    BY <1>l, ListIs DEF IsList
  <2>3. DOMAIN new = DOMAIN rows /\ \A j \in DOMAIN rows : new[j] = rows[IF j = i THEN i + 1 ELSE IF j = i + 1 THEN i ELSE j]
    BY <2>1, <2>2
  <2> HIDE DEF new, rows
  <2>4. \A j \in DOMAIN new : \E k \in DOMAIN rows : new[j] = rows[k]
    BY <1>3, <2>1, <2>3
  <2>5. ASSUME NEW k \in DOMAIN rows PROVE \E j \in DOMAIN new : new[j] = rows[k]
    <3> DEFINE j == IF k = i THEN i + 1 ELSE IF k = i + 1 THEN i ELSE k
    <3>1. j \in DOMAIN new /\ k = IF j = i THEN i + 1 ELSE IF j = i + 1 THEN i ELSE j
      BY <1>3, <2>1, <2>2, <2>3
    <3> HIDE DEF j
    <3> QED
      BY <2>3, <3>1
  <2>6. g = "operatingOrganizations" => OrganizationsAsRead(d, new, touched \cup {})
    <3> SUFFICES ASSUME g = "operatingOrganizations" PROVE OrganizationsAsRead(d, new, touched \cup {})
      OBVIOUS
    <3>1. OrganizationsAsRead(d, rows, touched)
      BY DEF rows
    <3>2. \A j \in DOMAIN new : \E k \in DOMAIN rows : new[j].base = rows[k].base
      BY <2>4
    <3>3. \A k \in DOMAIN rows : \E j \in DOMAIN new :
            /\ new[j].base = rows[k].base
            /\ \A m \in RowMembers["operatingOrganizations"] :
                 \/ new[j].cells[m] = rows[k].cells[m]
                 \/ "contacts" \in DOMAIN rows[k].base => <<rows[k].base.contacts, m>> \in {}
      BY <2>5
    <3> QED
      BY <3>1, <3>2, <3>3, ReplacedAsRead
  <2>7. Ok(new, {})
    BY <2>1, <2>6
  <2> QED
    BY <1>0, <2>7
<1>4. ASSUME NEW i \in DOMAIN rows, NEW m \in RowMembers[g], NEW w \in MayHold(m), EditRow(g, i, m, w)
      PROVE  /\ RestAsRead(d, editor', touched')
             /\ OrganizationsAsRead(d, editor'.rows["operatingOrganizations"], touched')
  <2> DEFINE U == Whose(g, rows[i], {m})
             cells == Switched(g, rows[i].cells, m, w)
             new == [rows EXCEPT ![i].cells = cells]
  <2>1. editor' = WithRows(editor, g, new) /\ touched' = touched \cup U
    BY <1>4 DEF EditRow, Edit
  <2>2. rows \in [DOMAIN rows -> {rows[x] : x \in DOMAIN rows}] /\ RowFits(g, rows[i])
    BY <1>l, ListIs DEF IsList, RowsFit
  <2>c. \A n \in RowMembers[g] : g = "operatingOrganizations" /\ n # m => cells[n] = rows[i].cells[n]
    <3>1. DOMAIN rows[i].cells = RowMembers[g]
      BY <2>2 DEF RowFits, CellsFit, IsOn
    <3> QED
      BY <3>1, MembersAre DEF Switched
  <2> HIDE DEF cells
  <2>3. DOMAIN new = DOMAIN rows /\ \A j \in DOMAIN rows : j # i => new[j] = rows[j]
    BY <2>2
  <2>4. new[i].base = rows[i].base /\ new[i].cells = cells
    <3>1. new[i] = [rows[i] EXCEPT !.cells = cells]
      BY <2>2
    <3> HIDE DEF new
    <3>2. rows[i] \in [cells : {rows[i].cells}, base : {rows[i].base}]
      BY <2>2 DEF RowFits
    <3> QED
      BY <3>1, <3>2
  <2>u. g = "operatingOrganizations" /\ "contacts" \in DOMAIN rows[i].base => <<rows[i].base.contacts, m>> \in U
    BY <1>o
  <2> HIDE DEF new, rows, U
  <2>5. g = "operatingOrganizations" => OrganizationsAsRead(d, new, touched \cup U)
    <3> SUFFICES ASSUME g = "operatingOrganizations" PROVE OrganizationsAsRead(d, new, touched \cup U)
      OBVIOUS
    <3>1. OrganizationsAsRead(d, rows, touched)
      BY DEF rows
    <3>2. \A j \in DOMAIN new : new[j].base = rows[j].base
      BY <2>3, <2>4
    <3>3. ASSUME NEW j \in DOMAIN rows, NEW n \in RowMembers["operatingOrganizations"]
          PROVE  \/ new[j].cells[n] = rows[j].cells[n]
                 \/ "contacts" \in DOMAIN rows[j].base => <<rows[j].base.contacts, n>> \in U
      <4>1. CASE j # i
        BY <2>3, <4>1
      <4>2. CASE j = i /\ n # m
        BY <2>c, <2>4, <4>2
      <4>3. CASE j = i /\ n = m
        BY <2>u, <4>3
      <4> QED
        BY <4>1, <4>2, <4>3
    <3>4. \A j \in DOMAIN rows : \E k \in DOMAIN new :
            /\ new[k].base = rows[j].base
            /\ \A n \in RowMembers["operatingOrganizations"] :
                 \/ new[k].cells[n] = rows[j].cells[n]
                 \/ "contacts" \in DOMAIN rows[j].base => <<rows[j].base.contacts, n>> \in U
      BY <2>3, <3>2, <3>3
    <3>5. \A j \in DOMAIN new : \E k \in DOMAIN rows : new[j].base = rows[k].base
      BY <2>3, <3>2
    <3> QED
      BY <3>1, <3>4, <3>5, ReplacedAsRead
  <2>6. g \notin TopGroups => <<"details", g>> \in U
    BY <1>w DEF U
  <2>7. Ok(new, U)
    BY <2>1, <2>5, <2>6
  <2> QED
    BY <1>0, <2>7
<1> QED
  BY <1>1, <1>2, <1>3, <1>4

(* after an edit of a member at the top, *)
LEMMA FieldAsRead ==
  ASSUME NEW d, FormFits(editor), RestAsRead(d, editor, touched), NEW m \in Fields, NEW w, EditField(m, w)
  PROVE  RestAsRead(d, editor', touched') /\ editor'.rows = editor.rows /\ touched \subseteq touched'
<1> DEFINE f == [editor EXCEPT !.fields[m] = w]
<1>1. /\ IsForm(f) /\ f.rows = editor.rows /\ f.details = editor.details /\ f.remote = editor.remote
      /\ f.pays = editor.pays /\ f.fields = [editor.fields EXCEPT ![m] = w]
  BY DEF FormFits, IsForm
<1>2. (editor' = f \/ editor' = Following(f)) /\ touched' = touched \cup {<<"fields", m>>}
  BY DEF EditField, Edit
<1> HIDE DEF f
<1>3. /\ editor'.rows = f.rows /\ editor'.details = f.details /\ editor'.remote = f.remote
      /\ editor'.pays = f.pays /\ editor'.fields = f.fields
  BY <1>1, <1>2 DEF Following, IsForm
<1>4. \A n \in Fields : n # m => editor'.fields[n] = editor.fields[n]
  BY <1>1, <1>3
<1>5. RestAsRead(d, editor', touched')
  BY <1>1, <1>2, <1>3, <1>4 DEF RestAsRead
<1> QED
  BY <1>1, <1>2, <1>3, <1>5

(* of a cell of a branch, *)
LEMMA DetailAsRead ==
  ASSUME NEW d, FormFits(editor), RestAsRead(d, editor, touched),
         NEW m \in DetailMembers[editor.type], NEW w, EditDetail(m, w)
  PROVE  RestAsRead(d, editor', touched') /\ editor'.rows = editor.rows /\ touched \subseteq touched'
<1>1. /\ editor'.rows = editor.rows /\ editor'.fields = editor.fields /\ editor'.remote = editor.remote
      /\ editor'.pays = editor.pays /\ editor'.details = [editor.details EXCEPT ![editor.type][m] = w]
      /\ touched' = touched \cup {<<"details", m>>} /\ editor.type \in Types
  BY DEF EditDetail, Edit, FormFits, IsForm
<1>2. m # "bountyKind"
  BY DEF EditDetail, DetailOnPage
<1>3. \A t \in Types : \A n \in DetailMembers[t] : n # m => editor'.details[t][n] = editor.details[t][n]
  <2>1. editor.details \in [Types -> {editor.details[x] : x \in Types}]
        /\ \A t \in Types : editor.details[t] \in [DetailMembers[t] -> {editor.details[t][x] : x \in DetailMembers[t]}]
    BY DEF FormFits, DetailsFit, IsOn
  <2> TAKE t \in Types
  <2>2. CASE t = editor.type
    BY <1>1, <2>1, <2>2
  <2>3. CASE t # editor.type
    BY <1>1, <2>1, <2>3
  <2> QED
    BY <2>2, <2>3
<1>4. "bounty" \in Types /\ "bountyKind" \in DetailMembers["bounty"]
  BY MembersAre DEF Types
<1>5. RestAsRead(d, editor', touched')
  BY <1>1, <1>2, <1>3, <1>4 DEF RestAsRead
<1> QED
  BY <1>1, <1>5

(* after the choice of a bounty's kind, *)
LEMMA KindAsRead ==
  ASSUME NEW d, FormFits(editor), RestAsRead(d, editor, touched), NEW kind, ChooseKind(kind)
  PROVE  RestAsRead(d, editor', touched') /\ editor'.rows = editor.rows /\ touched \subseteq touched'
<1>1. /\ editor'.rows = editor.rows /\ editor'.fields = editor.fields /\ editor'.remote = editor.remote
      /\ editor'.details = [editor.details EXCEPT !["bounty"]["bountyKind"] = kind]
      /\ touched' = touched \cup {"details"} \X {"bountyKind", "reward", "rewardTiers"}
  BY DEF ChooseKind, Edit, FormFits, IsForm
<1>2. \A x \in {"bountyKind", "reward", "rewardTiers"} : <<"details", x>> \in touched'
  BY <1>1
<1>3. \A t \in Types : \A n \in DetailMembers[t] : n # "bountyKind" => editor'.details[t][n] = editor.details[t][n]
  <2>1. editor.details \in [Types -> {editor.details[x] : x \in Types}]
        /\ \A t \in Types : editor.details[t] \in [DetailMembers[t] -> {editor.details[t][x] : x \in DetailMembers[t]}]
    BY DEF FormFits, DetailsFit, IsOn
  <2> TAKE t \in Types
  <2>2. CASE t = "bounty"
    BY <1>1, <2>1, <2>2
  <2>3. CASE t # "bounty"
    BY <1>1, <2>1, <2>3
  <2> QED
    BY <2>2, <2>3
<1>4. touched \subseteq touched'
  BY <1>1
<1>5. RestAsRead(d, editor', touched')
  BY <1>1, <1>2, <1>3, <1>4 DEF RestAsRead
<1> QED
  BY <1>1, <1>4, <1>5

(* and after the other choices. *)
LEMMA ChoiceAsRead ==
  ASSUME NEW d, FormFits(editor), RestAsRead(d, editor, touched),
         \/ \E s \in Slugs : TypeId(<<s, ByHand>>)
         \/ \E t \in Types : ChooseType(t)
         \/ \E pays \in {"single", "tiers"} : ChoosePays(pays)
         \/ \E remote \in BOOLEAN : ClaimNoPlace(remote)
  PROVE  RestAsRead(d, editor', touched') /\ editor'.rows = editor.rows /\ touched \subseteq touched'
<1>1. CASE (\E s \in Slugs : TypeId(<<s, ByHand>>)) \/ \E t \in Types : ChooseType(t)
  <2>1. /\ editor'.rows = editor.rows /\ editor'.fields = editor.fields /\ editor'.remote = editor.remote
        /\ editor'.details = editor.details /\ editor'.pays = editor.pays /\ touched' = touched
    BY <1>1 DEF TypeId, ChooseType, Edit, FormFits, IsForm
  <2> QED
    BY <2>1 DEF RestAsRead
<1>2. ASSUME NEW pays, ChoosePays(pays)
      PROVE  RestAsRead(d, editor', touched') /\ editor'.rows = editor.rows /\ touched \subseteq touched'
  <2>1. /\ editor'.rows = editor.rows /\ editor'.fields = editor.fields /\ editor'.remote = editor.remote
        /\ editor'.details = editor.details
        /\ touched' = touched \cup {"details"} \X {"reward", "rewardTiers"}
    BY <1>2 DEF ChoosePays, Edit, FormFits, IsForm
  <2>2. \A x \in {"reward", "rewardTiers"} : <<"details", x>> \in touched'
    BY <2>1
  <2>3. touched \subseteq touched'
    BY <2>1
  <2> QED
    BY <2>1, <2>2, <2>3 DEF RestAsRead
<1>3. ASSUME NEW remote, ClaimNoPlace(remote)
      PROVE  RestAsRead(d, editor', touched') /\ editor'.rows = editor.rows /\ touched \subseteq touched'
  <2>1. /\ editor'.rows = editor.rows /\ editor'.fields = editor.fields /\ editor'.pays = editor.pays
        /\ editor'.details = editor.details
        /\ touched' = touched \cup {<<"details", "location">>}
    BY <1>3 DEF ClaimNoPlace, Edit, FormFits, IsForm
  <2> QED
    BY <2>1 DEF RestAsRead
<1> QED
  BY <1>1, <1>2, <1>3

(* More may be touched. *)
LEMMA LaterAsRead ==
  ASSUME NEW d, NEW rows, NEW T, OrganizationsAsRead(d, rows, T), NEW U, T \subseteq U
  PROVE  OrganizationsAsRead(d, rows, U)
  BY DEF OrganizationsAsRead

(* A form is as it was read when the page is opened, *)
LEMMA AsReadStarts == EditorInit => AsRead
<1> SUFFICES ASSUME EditorInit, mode = "edit"
             PROVE  /\ RestAsRead(carried, editor, touched)
                    /\ OrganizationsAsRead(carried, editor.rows["operatingOrganizations"], touched)
  BY DEF AsRead
<1>1. IsStored(stored) /\ editor = FromDocument(stored) /\ carried = stored /\ touched = {}
  BY ListingsAssumption DEF EditorInit, IsStored
<1> QED
  BY <1>1, ReadAsRead

(* and after any step of the page, what no edit touched. *)
LEMMA AsReadSafe ==
  ASSUME EditorInv, AsRead, [EditorNext]_editorVars
  PROVE  AsRead'
<1> DEFINE o == "operatingOrganizations"
           Goal == /\ RestAsRead(carried', editor', touched')
                   /\ OrganizationsAsRead(carried', editor'.rows[o], touched')
<1> SUFFICES ASSUME mode' = "edit" PROVE Goal
  BY DEF AsRead
<1>1. CASE OpenListing
  <2>1. IsStored(stored) /\ editor' = FromDocument(stored) /\ carried' = stored /\ touched' = {}
    BY <1>1 DEF OpenListing, EditorInv
  <2> QED
    BY <2>1, ReadAsRead
<1>2. CASE ~OpenListing
  <2>1. mode = "edit" /\ carried' = carried
    BY <1>2 DEF EditorNext, editorVars, AddRow, RemoveRow, MoveRow, EditRow, EditField, TypeId, ChooseType, ChooseKind,
         ChoosePays, ClaimNoPlace, EditDetail, SendListing, EditOn, Edit
  <2>2. /\ FormFits(editor) /\ RestAsRead(carried, editor, touched)
        /\ OrganizationsAsRead(carried, editor.rows[o], touched)
    BY <2>1 DEF EditorInv, AsRead
  <2>3. ASSUME NEW g \in AllGroups,
               \/ AddRow(g)
               \/ \E i \in DOMAIN editor.rows[g] :
                    \/ RemoveRow(g, i) \/ MoveRow(g, i)
                    \/ \E m \in RowMembers[g] : \E w \in MayHold(m) : EditRow(g, i, m, w)
        PROVE  Goal
    BY <2>1, <2>2, <2>3, RowEditsAsRead
  <2>4. ASSUME RestAsRead(carried, editor', touched') /\ editor'.rows = editor.rows /\ touched \subseteq touched'
        PROVE  Goal
    BY <2>1, <2>2, <2>4, LaterAsRead
  <2>5. CASE \E m \in Fields, w \in Words \cup {Unstated} : EditField(m, w)
    BY <2>2, <2>4, <2>5, FieldAsRead
  <2>6. CASE \/ \E s \in Slugs : TypeId(<<s, ByHand>>)
             \/ \E t \in Types : ChooseType(t)
             \/ \E pays \in {"single", "tiers"} : ChoosePays(pays)
             \/ \E remote \in BOOLEAN : ClaimNoPlace(remote)
    BY <2>2, <2>4, <2>6, ChoiceAsRead
  <2>7. CASE \E kind \in {"task", "security"} : ChooseKind(kind)
    BY <2>2, <2>4, <2>7, KindAsRead
  <2>8. CASE \E m \in DetailMembers[editor.type] : \E w \in Words \cup {Unstated} : EditDetail(m, w)
    BY <2>2, <2>4, <2>8, DetailAsRead
  <2>9. CASE SendListing \/ EditOn \/ UNCHANGED editorVars
    <3>1. editor' = editor /\ touched' = touched
      BY <2>1, <2>9 DEF SendListing, EditOn, editorVars
    <3> QED
      BY <2>1, <2>2, <3>1
  <2> QED
    BY <1>2, <2>3, <2>5, <2>6, <2>7, <2>8, <2>9 DEF EditorNext
<1> QED
  BY <1>1, <1>2

(* What is written of a cell that is as it was read says what it said. *)
LEMMA KeptCell ==
  ASSUME NEW old, NEW new, NEW ofRow, NEW m \in ofRow, NEW cell,
         m \in DOMAIN new <=> cell # Unstated, m \in DOMAIN new => new[m] = cell,
         cell = IF m \in DOMAIN old /\ old[m] # Null THEN Shows(old[m]) ELSE Unstated,
         m = "location" => ~(m \in DOMAIN old /\ old[m] = Null)
  PROVE  KeptAs(old, new, m, ofRow)
<1> DEFINE was == Claim(old, m)
<1>u. Unstated # Null /\ Shows(Unstated) = Unstated
  BY ShowsIs
<1>1. CASE m \notin DOMAIN old \/ old[m] = Null
  <2>1. was = Unstated
    BY <1>1 DEF Claim
  <2>2. cell = Unstated
    BY <1>1
  <2>3. Claim(new, m) = Unstated
    BY <2>2 DEF Claim
  <2> QED
    BY <2>1, <2>3 DEF KeptAs
<1>2. CASE m \in DOMAIN old /\ old[m] # Null
  <2>1. was = old[m] /\ cell = Shows(old[m])
    BY <1>2 DEF Claim
  <2>2. cell # Null
    BY <1>2, <2>1, ShowsIs
  <2>3. Claim(new, m) = cell
    BY <2>2 DEF Claim
  <2> QED
    BY <1>2, <1>u, <2>1, <2>3 DEF KeptAs
<1> QED
  BY <1>1, <1>2

(* What no edit touched is in the document as it was: at the top, *)
LEMMA FieldsKept ==
  ASSUME EditorInv, RestAsRead(carried, editor, touched),
         NEW m \in Fields \cup DOMAIN carried.fields, <<"fields", m>> \notin touched
  PROVE  KeptAs(carried.fields, Built.fields, m, Fields)
<1> DEFINE cells == editor.fields
           old == carried.fields
           new == Built.fields
<1>1. new = WrittenOver(old, cells) /\ DOMAIN cells = Fields
  BY BuiltIs DEF EditorInv, FormFits, IsOn
<1>2. FromDocument(carried).fields = Reads(old, Fields, <<>>)
  BY FromDocumentIs
<1>3. m \in Fields => cells[m] = FromDocument(carried).fields[m]
  BY DEF RestAsRead
<1> HIDE DEF cells, old, new
<1>4. CASE m \in Fields
  <2>0. /\ DOMAIN WrittenOver(old, cells) = (DOMAIN old \ DOMAIN cells) \cup {n \in DOMAIN cells : cells[n] # Unstated}
        /\ \A n \in DOMAIN cells : cells[n] # Unstated => WrittenOver(old, cells)[n] = cells[n]
    BY WrittenIs
  <2>1. m \in DOMAIN new <=> cells[m] # Unstated
    BY <1>1, <1>4, <2>0
  <2>2. m \in DOMAIN new => new[m] = cells[m]
    BY <1>1, <1>4, <2>0, <2>1
  <2>3. cells[m] = IF m \in DOMAIN old /\ old[m] # Null THEN Shows(old[m]) ELSE Unstated
    <3>1. DOMAIN <<>> = {}
      OBVIOUS
    <3> QED
      BY <1>2, <1>3, <1>4, <3>1, ReadsIs
  <2>4. m # "location"
    BY <1>4, ListingEditorAssumption
  <2> QED
    BY <1>4, <2>1, <2>2, <2>3, <2>4, KeptCell DEF old, new
<1>5. CASE m \notin Fields
  <2>1. m \in DOMAIN old
    BY <1>5 DEF old
  <2>2. m \in DOMAIN new /\ new[m] = old[m]
    BY <1>1, <1>5, <2>1 DEF WrittenOver
  <2> QED
    BY <1>5, <2>2 DEF KeptAs, old, new
<1> QED
  BY <1>4, <1>5

(* of an organization, wherever its row stands by now, *)
LEMMA AllOrganizationsKept ==
  ASSUME EditorInv, mode = "edit",
         OrganizationsAsRead(carried, editor.rows["operatingOrganizations"], touched)
  PROVE  OrganizationsKept(carried.rows["operatingOrganizations"], Built.rows["operatingOrganizations"])
<1> DEFINE g == "operatingOrganizations"
           ofRow == RowMembers[g]
           was == carried.rows[g]
           rows == editor.rows[g]
           now == Built.rows[g]
<1>1. /\ g \in AllGroups /\ FormFits(editor) /\ now = Build(editor, g) /\ Apart(was) /\ Apart(Bases(rows))
  BY Known, BuiltIs DEF EditorInv, FormFits, IsStored, IsListing
<1>2. /\ DOMAIN now = DOMAIN rows
      /\ \A j \in DOMAIN rows :
           /\ RowFits(g, rows[j]) /\ IsOn(rows[j].cells, ofRow)
           /\ now[j] = WrittenOver(rows[j].base, Stated(g, rows[j].cells))
  <2>1. /\ DOMAIN Build(editor, g) = DOMAIN rows
        /\ \A j \in DOMAIN rows :
             /\ RowFits(g, rows[j])
             /\ Build(editor, g)[j] = WrittenOver(rows[j].base, Stated(g, rows[j].cells))
    BY <1>1, BuildIs
  <2> HIDE DEF now, rows
  <2> QED
    BY <1>1, <2>1 DEF RowFits, CellsFit
<1>3. /\ \A j \in DOMAIN rows : "contacts" \in DOMAIN rows[j].base => \E i \in Named(was) : rows[j].base = was[i]
      /\ \A i \in Named(was) : \A m \in ofRow : <<was[i].contacts, m>> \notin touched =>
           \E j \in DOMAIN rows : rows[j].base = was[i] /\ rows[j].cells[m] = Reads(was[i], ofRow, <<>>)[m]
  BY DEF OrganizationsAsRead
<1>4. DOMAIN Bases(rows) = DOMAIN rows /\ \A j \in DOMAIN rows : Bases(rows)[j] = rows[j].base
  BY DEF Bases
<1>5. "contacts" \notin ofRow /\ "location" \notin ofRow
  BY MembersAre
<1> HIDE DEF rows, now, was
<1>6. ASSUME NEW j \in DOMAIN rows
      PROVE  /\ \A m : m \notin ofRow => (m \in DOMAIN now[j] <=> m \in DOMAIN rows[j].base)
             /\ \A m : m \notin ofRow /\ m \in DOMAIN now[j] => now[j][m] = rows[j].base[m]
             /\ \A m \in ofRow : /\ m \in DOMAIN now[j] <=> rows[j].cells[m] # Unstated
                                 /\ m \in DOMAIN now[j] => now[j][m] = rows[j].cells[m]
  <2>1. RowFits(g, rows[j]) /\ now[j] = WrittenOver(rows[j].base, Stated(g, rows[j].cells))
        /\ Stated(g, rows[j].cells) = rows[j].cells
    BY <1>1, <1>2, StatedIs
  <2>2. \A m \in ofRow : /\ m \in DOMAIN now[j] <=> Stated(g, rows[j].cells)[m] # Unstated
                         /\ m \in DOMAIN now[j] => now[j][m] = Stated(g, rows[j].cells)[m]
    BY <1>1, <2>1, RowWritten
  <2>3. \A m : m \notin ofRow => (m \in DOMAIN now[j] <=> m \in DOMAIN rows[j].base)
    BY <1>1, <2>1, UnknownKept
  <2>4. \A m : m \notin ofRow /\ m \in DOMAIN now[j] => now[j][m] = rows[j].base[m]
    BY <1>1, <2>1, UnknownKept
  <2> QED
    BY <2>1, <2>2, <2>3, <2>4
<1>7. \A i, j \in DOMAIN rows : "contacts" \in DOMAIN rows[i].base /\ "contacts" \in DOMAIN rows[j].base /\ i # j
         => rows[i].base.contacts # rows[j].base.contacts
  BY <1>1, <1>4 DEF Apart, Named
<1>8. ASSUME NEW i \in Named(was), NEW j \in Named(now)
      PROVE  now[j].contacts = was[i].contacts <=> rows[j].base = was[i]
  <2>1. j \in DOMAIN rows /\ "contacts" \in DOMAIN rows[j].base /\ now[j].contacts = rows[j].base.contacts
    BY <1>2, <1>5, <1>6 DEF Named
  <2>2. PICK k \in Named(was) : rows[j].base = was[k]
    BY <1>3, <2>1
  <2>3. was[k].contacts = was[i].contacts => k = i
    BY <1>1 DEF Apart
  <2> QED
    BY <2>1, <2>2, <2>3
<1>9. ASSUME NEW i \in Named(was)
      PROVE  LET places == {j \in Named(now) : now[j].contacts = was[i].contacts}
                 kept == {m \in ofRow \cup DOMAIN was[i] : <<was[i].contacts, m>> \notin touched}
             IN IF ofRow \cap kept = {} THEN \A j, k \in places : j = k
                ELSE \E j \in places : places = {j} /\ \A m \in kept : KeptAs(was[i], now[j], m, ofRow)
  <2> DEFINE places == {j \in Named(now) : now[j].contacts = was[i].contacts}
             kept == {m \in ofRow \cup DOMAIN was[i] : <<was[i].contacts, m>> \notin touched}
  <2>1. \A j, k \in places : j = k
    <3> TAKE j, k \in places
    <3>1. rows[j].base = was[i] /\ rows[k].base = was[i] /\ j \in DOMAIN rows /\ k \in DOMAIN rows
      BY <1>2, <1>8 DEF Named
    <3>2. "contacts" \in DOMAIN was[i]
      BY DEF Named
    <3> QED
      BY <1>7, <3>1, <3>2
  <2>2. ASSUME ofRow \cap kept # {}
        PROVE  \E j \in places : places = {j} /\ \A m \in kept : KeptAs(was[i], now[j], m, ofRow)
    <3>1. PICK n \in ofRow : <<was[i].contacts, n>> \notin touched
      BY <2>2
    <3>2. PICK j \in DOMAIN rows : rows[j].base = was[i]
      BY <1>3, <3>1
    <3>3. "contacts" \in DOMAIN was[i]
      BY DEF Named
    <3>4. j \in Named(now)
      BY <1>2, <1>5, <1>6, <3>2, <3>3 DEF Named
    <3>5. j \in places
      BY <1>8, <3>2, <3>4
    <3>6. places = {j}
      BY <2>1, <3>5
    <3>w. \A x \in ofRow : /\ x \in DOMAIN now[j] <=> rows[j].cells[x] # Unstated
                           /\ x \in DOMAIN now[j] => now[j][x] = rows[j].cells[x]
      BY <1>6, <3>2
    <3>7. ASSUME NEW m \in kept PROVE KeptAs(was[i], now[j], m, ofRow)
      <4>1. CASE m \in ofRow
        <5>1. PICK k \in DOMAIN rows : rows[k].base = was[i] /\ rows[k].cells[m] = Reads(was[i], ofRow, <<>>)[m]
          BY <1>3, <4>1
        <5>2. k = j
          BY <1>7, <3>2, <3>3, <5>1
        <5>3. rows[j].cells[m] = IF m \in DOMAIN was[i] /\ was[i][m] # Null THEN Shows(was[i][m]) ELSE Unstated
          <6>1. DOMAIN <<>> = {}
            OBVIOUS
          <6> QED
            BY <4>1, <5>1, <5>2, <6>1, ReadsIs
        <5>4. /\ m \in DOMAIN now[j] <=> rows[j].cells[m] # Unstated
              /\ m \in DOMAIN now[j] => now[j][m] = rows[j].cells[m]
          <6> HIDE DEF ofRow, kept, places
          <6> QED
            BY <3>w, <4>1
        <5>6. m # "location"
          BY <1>5, <4>1
        <5> HIDE DEF ofRow
        <5> QED
          BY <4>1, <5>3, <5>4, <5>6, KeptCell
      <4>2. CASE m \notin ofRow
        <5>1. m \in DOMAIN was[i]
          BY <4>2
        <5>2. m \in DOMAIN now[j] /\ now[j][m] = was[i][m]
          BY <1>6, <3>2, <4>2, <5>1
        <5> QED
          BY <4>2, <5>2 DEF KeptAs
      <4> QED
        BY <4>1, <4>2
    <3> QED
      BY <3>5, <3>6, <3>7
  <2> QED
    BY <2>1, <2>2
<1> QED
  BY <1>9 DEF OrganizationsKept, was, now

(* in the branch, *)
LEMMA DetailsKept ==
  ASSUME EditorInv, mode = "edit", RestAsRead(carried, editor, touched), editor.type = carried.type,
         NEW m \in {"fundingType"} \cup DetailMembers[editor.type], <<"details", m>> \notin touched
  PROVE  KeptAs(carried.details, Built.details, m, DetailMembers[editor.type])
<1> DEFINE t == editor.type
           old == carried.details
           new == Built.details
           stated == StatedDetails(editor)
           DM == DetailMembers[t]
           cells == editor.details[t]
           read == FromDocument(carried)
<1>1. /\ t \in Types /\ FormFits(editor) /\ IsStored(carried) /\ old["fundingType"] = t /\ "fundingType" \in DOMAIN old
  BY DEF EditorInv, FormFits, IsForm, IsStored, IsListing, Conforms, DetailsConform
<1>2. /\ DOMAIN new = {"fundingType"} \cup {n \in DM : stated[n] # Unstated} \cup DOMAIN StatedRows(editor)
      /\ new["fundingType"] = t
      /\ \A n \in DM : n \in DOMAIN new => new[n] = stated[n]
  <2> DEFINE built == BuildDetails(editor, old)
  <2>1. /\ DOMAIN built = {"fundingType"} \cup {n \in DM : stated[n] # Unstated} \cup DOMAIN StatedRows(editor)
        /\ built["fundingType"] = t
        /\ \A n \in DM : n \in DOMAIN built => built[n] = stated[n]
    BY <1>1, CarriedIs, DetailsAre
  <2>2. new = built
    BY BuiltIs
  <2> HIDE DEF built, new, stated
  <2> QED
    BY <2>1, <2>2
<1>3. /\ "fundingType" \notin DM \cup ListOf(t) /\ DM \cap ListOf(t) = {} /\ DOMAIN StatedRows(editor) \subseteq ListOf(t)
  BY <1>1, BranchesApart, StatedRowsAre
<1>4. /\ read.details[t] = Reads(old, DM, Default(t)) /\ read.remote = ClaimsNoPlace(old)
      /\ read.pays = IF Listed(old, "rewardTiers") # <<>> \/ Listed(old, "bountyKind") = "security"
                     THEN "tiers" ELSE "single"
  <2>1. read.details = ReadDetails(old) /\ read.remote = ClaimsNoPlace(old)
        /\ read.pays = IF Listed(old, "rewardTiers") # <<>> \/ Listed(old, "bountyKind") = "security"
                     THEN "tiers" ELSE "single"
    BY FromDocumentIs
  <2> HIDE DEF read
  <2> QED
    BY <1>1, <2>1 DEF ReadDetails
<1>5. /\ m \in DM => cells[m] = read.details[t][m]
      /\ m = "location" => editor.remote = read.remote
      /\ m = "reward" => editor.details["bounty"]["bountyKind"] = read.details["bounty"]["bountyKind"]
                         /\ editor.pays = read.pays
  BY <1>1 DEF RestAsRead
<1>6. stated = CASE t \in Located /\ editor.remote[t] -> [cells EXCEPT !["location"] = Null]
                 [] t = "bounty" /\ PaysByTable(editor) -> [cells EXCEPT !["reward"] = Unstated]
                 [] OTHER -> cells
  BY DEF StatedDetails
<1>7. cells \in [DM -> {cells[x] : x \in DM}]
  BY <1>1 DEF FormFits, DetailsFit, IsOn
<1>b. t = "bounty" => /\ "bountyKind" \in DOMAIN old /\ old["bountyKind"] \in {"task", "security"}
                      /\ {"reward", "rewardTiers"} \cap DOMAIN old
                            \in {{"rewardTiers"}} \cup IF old["bountyKind"] = "task" THEN {{"reward"}} ELSE {}
  BY <1>1 DEF IsStored, IsListing, Conforms, DetailsConform
<1>u. "task" # Null /\ "security" # Null /\ Unstated # Null /\ Shows("task") = "task" /\ Shows("security") = "security"
  BY ListingEditorAssumption, ShowsIs DEF Choices
<1>d. DOMAIN old \subseteq {"fundingType"} \cup DM \cup ListOf(t)
  BY <1>1 DEF IsStored, Conforms, DetailsConform
<1>p. PaysByTable(editor) <=> editor.details["bounty"]["bountyKind"] = "security" \/ editor.pays = "tiers"
  BY DEF PaysByTable
<1>c. t = "bounty" => cells = editor.details["bounty"]
  OBVIOUS
<1> HIDE DEF old, new, stated, cells, read
<1>8. \A n \in DM : read.details[t][n] = IF n \in DOMAIN old /\ old[n] # Null THEN Shows(old[n])
                                          ELSE IF n \in DOMAIN Default(t) THEN Default(t)[n] ELSE Unstated
  BY <1>4, ReadsIs
<1>9. CASE m = "fundingType"
  <2>1. m \notin DM /\ m \in DOMAIN new /\ new[m] = old[m]
    <3> HIDE DEF DM
    <3> QED
      BY <1>1, <1>2, <1>3, <1>9
  <2>2. KeptAs(old, new, m, DM)
    <3> HIDE DEF DM
    <3> QED
      BY <2>1 DEF KeptAs
  <2> QED
    BY <2>2 DEF old, new
<1>10. ASSUME m \in DM
       PROVE  KeptAs(old, new, m, DM)
  <2>1. /\ m \in DOMAIN new <=> stated[m] # Unstated
        /\ m \in DOMAIN new => new[m] = stated[m]
    BY <1>2, <1>3, <1>10
  <2>2. t \in Types /\ (DOMAIN Default(t) # {} => t = "bounty" /\ DOMAIN Default(t) = {"bountyKind"})
    BY <1>1, DefaultIs DEF Types
  <2>3. m \in DOMAIN Default(t) => m \in DOMAIN old /\ old[m] # Null
    BY <1>b, <1>u, <2>2
  <2>4. cells[m] = IF m \in DOMAIN old /\ old[m] # Null THEN Shows(old[m]) ELSE Unstated
    BY <1>5, <1>8, <1>10, <2>3
  <2>5. CASE t \in Located
    <3>1. t # "bounty" /\ "location" \in DM
      BY <2>5 DEF Located, DetailMembers
    <3>2. m # "location" => stated[m] = cells[m]
      BY <1>6, <1>7, <1>10, <3>1
    <3>3. CASE m = "location"
      <4>1. editor.remote[t] = (old.fundingType = t /\ "location" \in DOMAIN old /\ old.location = Null)
        BY <1>4, <1>5, <2>5, <3>3 DEF ClaimsNoPlace
      <4>2. CASE editor.remote[t]
        <5>a. stated = [cells EXCEPT !["location"] = Null]
          BY <1>6, <2>5, <3>1, <4>2
        <5>b. stated[m] = Null
          <6> HIDE DEF DM
          <6> QED
            BY <1>7, <1>10, <3>3, <5>a
        <5>c. m \in DOMAIN old /\ old[m] = Null
          BY <3>3, <4>1, <4>2
        <5>1. stated[m] = Null /\ m \in DOMAIN old /\ old[m] = Null
          BY <5>b, <5>c
        <5>2. Claim(old, m) = Null /\ Claim(new, m) = Null
          BY <1>u, <2>1, <3>3, <5>1 DEF Claim
        <5> QED
          BY <1>10, <5>2 DEF KeptAs
      <4>3. CASE ~editor.remote[t]
        <5>1. stated[m] = cells[m] /\ ~(m \in DOMAIN old /\ old[m] = Null)
          BY <1>1, <1>6, <3>1, <3>3, <4>1, <4>3 DEF old
        <5> HIDE DEF DM
        <5> QED
          BY <1>10, <2>1, <2>4, <5>1, KeptCell
      <4> QED
        BY <4>2, <4>3
    <3>4. CASE m # "location"
      <4> HIDE DEF DM
      <4> QED
        BY <1>10, <2>1, <2>4, <3>2, <3>4, KeptCell
    <3> QED
      BY <3>3, <3>4
  <2>6. CASE t \notin Located
    <3>1. m # "location"
      BY <1>1, <1>10, <2>6 DEF Types, Located, DetailMembers
    <3>2. stated[m] = IF t = "bounty" /\ PaysByTable(editor) /\ m = "reward" THEN Unstated ELSE cells[m]
      BY <1>6, <1>7, <1>10, <2>6
    <3>3. CASE t = "bounty" /\ m = "reward"
      <4>0. "bounty" \in Types /\ "bountyKind" \in DM
        BY <3>3, MembersAre DEF Types
      <4>1. read.details[t]["bountyKind"] = old["bountyKind"]
        BY <1>8, <1>b, <1>u, <3>3, <4>0
      <4>2. editor.details["bounty"]["bountyKind"] = old["bountyKind"] /\ editor.pays = read.pays
        BY <1>5, <3>3, <4>1
      <4>3. Listed(old, "bountyKind") = old["bountyKind"]
        BY <1>b, <3>3 DEF Listed
      <4>4. PaysByTable(editor) => "reward" \notin DOMAIN old
        <5>1. ASSUME PaysByTable(editor) PROVE old["bountyKind"] = "security" \/ Listed(old, "rewardTiers") # <<>>
          BY <1>4, <1>p, <4>2, <4>3, <5>1
        <5>2. Listed(old, "rewardTiers") # <<>> => "rewardTiers" \in DOMAIN old
          BY DEF Listed
        <5> QED
          BY <1>b, <3>3, <5>1, <5>2
      <4>5. stated[m] = cells[m]
        BY <2>4, <3>2, <3>3, <4>4
      <4> HIDE DEF DM
      <4> QED
        BY <1>10, <2>1, <2>4, <3>1, <4>5, KeptCell
    <3>4. CASE ~(t = "bounty" /\ m = "reward")
      <4>1. stated[m] = cells[m]
        BY <3>2, <3>4
      <4> HIDE DEF DM
      <4> QED
        BY <1>10, <2>1, <2>4, <3>1, <4>1, KeptCell
    <3> QED
      BY <3>3, <3>4
  <2> QED
    BY <2>5, <2>6
<1> QED
  BY <1>9, <1>10 DEF old, new

(* in the list of the branch, *)
LEMMA ListsKept ==
  ASSUME EditorInv, mode = "edit", RestAsRead(carried, editor, touched), editor.type = carried.type,
         NEW g \in ListOf(editor.type), <<"details", g>> \notin touched
  PROVE  ListKept(Listed(carried.details, g), Listed(Built.details, g), g)
<1> DEFINE t == editor.type
           old == carried.details
           new == Built.details
           was == Listed(old, g)
           now == Listed(new, g)
           rows == editor.rows[g]
           ofRow == RowMembers[g]
           read == FromDocument(carried)
<1>1. /\ t \in Types /\ FormFits(editor) /\ IsStored(carried) /\ g \in {"prizes", "rewardTiers"} /\ g \in AllGroups
      /\ t = "hackathon" => g = "prizes"
      /\ t = "bounty" => g = "rewardTiers"
      /\ t \in {"hackathon", "bounty"}
  <2>1. t \in Types /\ FormFits(editor) /\ IsStored(carried)
    BY DEF EditorInv, FormFits, IsForm
  <2> QED
    BY <2>1, ListOfIs, Known
<1>2. rows = ReadRows(was, g)
  <2>1. read.rows[g] = ReadRows(was, g)
    BY <1>1, FromDocumentIs
  <2> QED
    BY <1>1, <2>1 DEF RestAsRead
<1>3. /\ IsList(was) /\ AreRows(g, was) /\ \A i \in DOMAIN was : RowConforms(g, was[i])
      /\ was # <<>> => g \in DOMAIN old
  <2>1. CASE g \in DOMAIN old
    <3>1. was = old[g]
      BY <2>1 DEF Listed
    <3>2. AreRows(g, old[g])
      BY <1>1, <2>1 DEF IsStored, IsListing
    <3>3. \A i \in DOMAIN was : RowConforms(g, old[g][i])
      BY <1>1 DEF IsStored, Conforms, DetailsConform
    <3> HIDE DEF was, old
    <3> QED
      BY <2>1, <3>1, <3>2, <3>3 DEF AreRows
  <2>2. CASE g \notin DOMAIN old
    BY <2>2, EmptyIs DEF Listed, AreRows
  <2> QED
    BY <2>1, <2>2
<1>4. /\ DOMAIN rows = DOMAIN was
      /\ \A i \in DOMAIN was : rows[i] = [cells |-> Reads(was[i], ofRow, Default(g)), base |-> was[i]]
      /\ rows = <<>> <=> was = <<>>
  <2> HIDE DEF was, rows
  <2>1. DOMAIN rows = DOMAIN was
    BY <1>2, <1>3, RowsReadAre
  <2>2. \A i \in DOMAIN was : ReadRows(was, g)[i] = [cells |-> Reads(was[i], ofRow, Default(g)), base |-> was[i]]
    BY <1>3, RowsReadAre
  <2>3. ReadRows(was, g) = <<>> <=> was = <<>>
    BY <1>3, RowsReadAre
  <2> QED
    BY <1>2, <2>1, <2>2, <2>3
<1>5. was # <<>> => (t = "bounty" => PaysByTable(editor))
  <2> SUFFICES ASSUME was # <<>>, t = "bounty" PROVE PaysByTable(editor)
    OBVIOUS
  <2>1. g = "rewardTiers" /\ editor.pays = read.pays
    BY <1>1 DEF RestAsRead
  <2>2. read.pays = "tiers"
    <3>1. read.pays = IF Listed(old, "rewardTiers") # <<>> \/ Listed(old, "bountyKind") = "security"
                     THEN "tiers" ELSE "single"
      BY FromDocumentIs
    <3> QED
      BY <2>1, <3>1
  <2> QED
    BY <2>1, <2>2 DEF PaysByTable
<1>6. now = IF g \in DOMAIN StatedRows(editor) THEN Build(editor, g) ELSE <<>>
  <2> DEFINE built == BuildDetails(editor, old)
  <2>1. /\ DOMAIN built = {"fundingType"} \cup {n \in DetailMembers[t] : StatedDetails(editor)[n] # Unstated}
                           \cup DOMAIN StatedRows(editor)
        /\ \A h \in DOMAIN StatedRows(editor) : built[h] = StatedRows(editor)[h]
    BY <1>1, CarriedIs, DetailsAre
  <2>2. new = built
    BY BuiltIs
  <2>3. g # "fundingType" /\ g \notin DetailMembers[t]
    BY <1>1, BranchesApart
  <2>4. \A h \in DOMAIN StatedRows(editor) : StatedRows(editor)[h] = Build(editor, h)
    BY <1>1, StatedRowsAre
  <2> HIDE DEF built, new
  <2> QED
    BY <2>1, <2>2, <2>3, <2>4 DEF Listed
<1>7. g \in DOMAIN StatedRows(editor) <=> rows # <<>> /\ (t = "bounty" => PaysByTable(editor))
  BY <1>1, StatedRowsAre
<1> HIDE DEF was, now, rows, read, old, new
<1>8. CASE was = <<>>
  <2>1. now = <<>>
    BY <1>4, <1>6, <1>7, <1>8
  <2>2. DOMAIN was = {} /\ DOMAIN now = {}
    BY <1>8, <2>1, EmptyIs
  <2> QED
    BY <2>2 DEF ListKept, was, now, old, new
<1>9. CASE was # <<>>
  <2>1. now = Build(editor, g)
    BY <1>4, <1>5, <1>6, <1>7, <1>9
  <2>2. /\ DOMAIN Build(editor, g) = DOMAIN rows
        /\ \A i \in DOMAIN rows :
             /\ RowFits(g, rows[i])
             /\ Build(editor, g)[i] = WrittenOver(rows[i].base, Stated(g, rows[i].cells))
    BY <1>1, BuildIs DEF rows
  <2>3. DOMAIN now = DOMAIN was
    BY <1>4, <2>1, <2>2
  <2>4. ASSUME NEW i \in DOMAIN was, NEW m \in ofRow \cup DOMAIN was[i]
        PROVE  KeptAs(was[i], now[i], m, ofRow)
    <3> DEFINE cells == Reads(was[i], ofRow, Default(g))
               object == was[i]
               written == now[i]
    <3>1. rows[i].base = object /\ rows[i].cells = cells
      <4>1. rows[i] = [cells |-> cells, base |-> object]
        BY <1>4
      <4> HIDE DEF cells, object
      <4> QED
        BY <4>1
    <3>2. RowFits(g, rows[i]) /\ written = WrittenOver(object, Stated(g, cells))
      BY <1>4, <2>1, <2>2, <3>1
    <3>3. \A n \in ofRow : cells[n] = IF n \in DOMAIN object /\ object[n] # Null THEN Shows(object[n])
                                      ELSE IF n \in DOMAIN Default(g) THEN Default(g)[n] ELSE Unstated
      BY ReadsIs
    <3>4. IsRow(g, object) /\ RowConforms(g, object)
      BY <1>3 DEF AreRows
    <3> HIDE DEF cells, object, written
    <3>5. CellsFit(g, cells)
      BY <3>1, <3>2 DEF RowFits
    <3>6. CASE m \notin ofRow
      <4>1. m \in DOMAIN object
        BY <3>6 DEF object
      <4>2. m \in DOMAIN written /\ written[m] = object[m]
        BY <1>1, <3>1, <3>2, <3>6, <4>1, UnknownKept
      <4> QED
        BY <3>6, <4>2 DEF KeptAs, object, written
    <3>7. CASE m \in ofRow
      <4>1. /\ m \in DOMAIN written <=> Stated(g, cells)[m] # Unstated
            /\ m \in DOMAIN written => written[m] = Stated(g, cells)[m]
        BY <1>1, <3>1, <3>2, <3>7, RowWritten
      <4>2. m # "location"
        BY <1>1, <3>7, MembersAre DEF Amounts
      <4>3. Stated(g, cells)[m] = IF m \in DOMAIN object /\ object[m] # Null THEN Shows(object[m]) ELSE Unstated
        <5>1. CASE g = "prizes"
          <6>1. DOMAIN Default(g) = {}
            BY <5>1, DefaultIs
          <6>2. "amount" \in ofRow /\ "amount" \in DOMAIN object /\ object["amount"] # Null /\ object["amount"] # Unstated
            BY <3>4, <5>1, MembersAre DEF IsRow
          <6>3. cells["amount"] # Unstated
            BY <3>3, <6>2, ShowsIs
          <6>4. Stated(g, cells) = cells
            BY <5>1, <6>3 DEF Stated
          <6> QED
            BY <3>3, <3>7, <6>1, <6>4
        <5>2. CASE g = "rewardTiers"
          <6>1. /\ "model" \in ofRow /\ "model" \notin Amounts
                /\ "model" \in DOMAIN object /\ object["model"] \in DOMAIN Allowed
                /\ "basis" \in DOMAIN object => object["basis"] # Null
            BY <3>4, <5>2, MembersAre DEF IsRow, Amounts
          <6>2. object["model"] # Null /\ Shows(object["model"]) = object["model"]
            <7>1. \A x \in DOMAIN Allowed : x \in Choices
              BY DEF Allowed, Choices
            <7> QED
              BY <6>1, <7>1, ShowsIs
          <6>3. cells["model"] = object["model"]
            BY <3>3, <6>1, <6>2
          <6>4. Stated(g, cells)[m] = IF m \in Amounts \ Allowed[cells["model"]] THEN Unstated ELSE cells[m]
            BY <1>1, <3>5, <3>7, <5>2, StatedIs DEF CellsFit
          <6>5. /\ DOMAIN object \cap Amounts \subseteq Allowed[object["model"]]
                /\ Allowed[object["model"]] \ {"floor", "cap"} \subseteq DOMAIN object
            BY <3>4, <5>2 DEF RowConforms, Organizations
          <6>6. DOMAIN Default(g) = {"model", "basis"}
            BY <5>2, DefaultIs
          <6>7. CASE m \in Amounts \ Allowed[cells["model"]]
            BY <6>3, <6>4, <6>5, <6>7
          <6>8. CASE m \notin Amounts \ Allowed[cells["model"]]
            <7>1. m = "basis" => m \in DOMAIN object /\ object[m] # Null
              BY <6>1, <6>3, <6>5, <6>8 DEF Amounts
            <7>2. m \in DOMAIN Default(g) => m \in DOMAIN object /\ object[m] # Null
              BY <6>1, <6>2, <6>6, <7>1
            <7> QED
              BY <3>3, <3>7, <6>4, <6>8, <7>2
          <6> QED
            BY <6>7, <6>8
        <5> QED
          BY <1>1, <5>1, <5>2
      <4> HIDE DEF ofRow
      <4>4. KeptAs(object, written, m, ofRow)
        BY <3>7, <4>1, <4>2, <4>3, KeptCell
      <4> QED
        BY <4>4 DEF object, written
    <3> QED
      BY <3>6, <3>7
  <2> QED
    BY <2>3, <2>4 DEF ListKept, was, now, old, new
<1> QED
  BY <1>8, <1>9

(* and so throughout the record. *)
LEMMA RestKept == EditorInv /\ AsRead => RestIsKept
<1> SUFFICES ASSUME EditorInv, AsRead, mode = "edit" PROVE RestIsKept
  BY DEF RestIsKept
<1>1. /\ RestAsRead(carried, editor, touched)
      /\ OrganizationsAsRead(carried, editor.rows["operatingOrganizations"], touched)
  BY DEF AsRead
<1>2. \A m \in Fields \cup DOMAIN carried.fields : <<"fields", m>> \notin touched =>
         KeptAs(carried.fields, Built.fields, m, Fields)
  BY <1>1, FieldsKept
<1>3. OrganizationsKept(carried.rows["operatingOrganizations"], Built.rows["operatingOrganizations"])
  BY <1>1, AllOrganizationsKept
<1>4. ASSUME editor.type = carried.type
      PROVE  \A m \in {"fundingType"} \cup DetailMembers[editor.type] : <<"details", m>> \notin touched =>
              KeptAs(carried.details, Built.details, m, DetailMembers[editor.type])
  BY <1>1, <1>4, DetailsKept
<1>5. ASSUME editor.type = carried.type
      PROVE  \A g \in ListOf(editor.type) : <<"details", g>> \notin touched =>
              ListKept(Listed(carried.details, g), Listed(Built.details, g), g)
  BY <1>1, <1>5, ListsKept
<1> QED
  BY <1>2, <1>3, <1>4, <1>5 DEF RestIsKept

-----------------------------------------------------------------------------
(* The form together. *)
EditInv == EditorInv /\ IdFollows /\ SavedIsShown /\ AsRead

(* It holds from the start and after any step, whichever program runs. *)
LEMMA EditInvariance == ClientsSpec => []EditInv
<1>1. ClientsInit => EditInv
  BY EditorStarts, IdStarts, SavedStarts, AsReadStarts DEF ClientsInit, EditInv
<1>2. ClientsNext => [EditorNext]_editorVars
  BY DEF ClientsNext, McpNext, PageNext, FormNext, EditingNext, ExporterNext
<1>3. UNCHANGED clientVars => UNCHANGED editorVars
  BY DEF clientVars
<1>4. EditInv /\ [ClientsNext]_clientVars => EditInv'
  BY <1>2, <1>3, EditorSafe, IdSafe, SavedSafe, AsReadSafe DEF EditInv
<1> QED
  BY <1>1, <1>4, PTL DEF ClientsSpec

(* For any words, slugs, groups and stored listings, and after any edits: what the form    *)
(* finds nothing wrong with, the Standard's validator in the page and the API take, but     *)
(* for deadlines that differ in the date of a rolling one only (fieldProblems, toDocument). *)
THEOREM FormLetsThroughWhatIsTaken == ClientsSpec => []LetThroughIsTaken
<1>1. EditInv => LetThroughIsTaken
  BY LetThroughTaken DEF EditInv
<1> QED
  BY <1>1, EditInvariance, PTL

(* For any words, slugs, groups and stored listings, and after any edits, in any order: a  *)
(* replacement changes what was edited and nothing else, what was saved is what the page    *)
(* shows, and the id that nobody typed goes with the edits (fromDocument, toDocument).       *)
THEOREM EveryEditIsExact == ClientsSpec => []EditsAreExact
<1>1. EditInv => EditsAreExact
  BY RestKept DEF EditInv, EditsAreExact
<1> QED
  BY <1>1, EditInvariance, PTL
=============================================================================
