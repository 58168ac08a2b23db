------------------------------- MODULE Drafts -------------------------------
(***************************************************************************)
(* The form for a new listing in one tab of the frontend, its drafts in the   *)
(* browser's storage, and the session they belong to. A draft is written      *)
(* half a second after the last keystroke and whenever the form leaves the    *)
(* page, removed by a submission, and removed for every account by a log-out.  *)
(*                                                                         *)
(* What React does in one commit, and one turn of the event loop, are steps.   *)
(* The session reads of the auth library are its own: they end in any order.   *)
(***************************************************************************)
EXTENDS Naturals

CONSTANTS
  People,            \* accounts that use this browser
  Texts,             \* what they may type
  Blank,             \* the form as it is opened
  Nobody, NoDraft

ASSUME DraftsAssumption ==
  /\ Nobody \notin People
  /\ Blank \notin Texts /\ NoDraft \notin Texts \cup {Blank}

VARIABLES
  token,             \* whose session token is stored
  known,             \* whom the last session read named
  asks,              \* the tokens of session reads under way
  leaving,           \* a sign-out is under way
  form,              \* the form of the page
  drafts,            \* the stored drafts, by account
  left,              \* accounts a submission is under way for, by a form that is gone
  work,              \* history: what an account wrote and did not submit, discard or log out from
  untouched          \* history: drafts were cleared, and nobody touched a form since

draftVars == <<token, known, asks, leaving, form, drafts, left, work, untouched>>

Form ==
  [of : People \cup {Nobody}, text : Texts \cup {Blank}, prompt : Texts \cup {NoDraft},
   ready : BOOLEAN, skip : BOOLEAN, timer : Texts \cup {Blank, NoDraft},
   sending : BOOLEAN, sent : BOOLEAN]

NoForm == [of |-> Nobody, text |-> Blank, prompt |-> NoDraft, ready |-> FALSE, skip |-> FALSE,
           timer |-> NoDraft, sending |-> FALSE, sent |-> FALSE]

DraftsTypeOK ==
  /\ token \in People \cup {Nobody} /\ known \in People \cup {Nobody}
  /\ asks \subseteq People \cup {Nobody}
  /\ leaving \in BOOLEAN /\ untouched \in BOOLEAN
  /\ form \in Form
  /\ drafts \in [People -> Texts \cup {NoDraft}] /\ work \in [People -> Texts \cup {NoDraft}]
  /\ left \subseteq People

DraftsInit ==
  /\ token = Nobody /\ known = Nobody /\ asks = {}
  /\ leaving = FALSE
  /\ form = NoForm
  /\ drafts = [p \in People |-> NoDraft] /\ work = drafts
  /\ left = {}
  /\ untouched = FALSE

Mounted == form.of # Nobody

-----------------------------------------------------------------------------
(* The storage *)

Empty == [p \in People |-> NoDraft]

Kept(text) == IF text = Blank THEN NoDraft ELSE text

(* persistDraft: a form that is as it was opened has no draft. *)
Persist(stored, text) ==
  IF form.ready THEN [stored EXCEPT ![form.of] = Kept(text)] ELSE stored

(* The cleanup of a form that leaves the page. *)
Flushed == IF Mounted /\ ~form.skip THEN Persist(drafts, form.text) ELSE drafts

Unmount ==
  /\ form' = NoForm
  /\ drafts' = Flushed
  /\ left' = IF form.sending THEN left \cup {form.of} ELSE left

(* A mistake: drafts are removed first, and the form is told then. *)
ClearedBeforeFlush == IF Mounted THEN Persist(Empty, form.text) ELSE Empty

(* clearAllOpportunityDrafts: the form of the page saves once more and knows that    *)
(* it must not again, and every draft is removed.                                   *)
Cleared == Empty

-----------------------------------------------------------------------------
(* The session *)

SignIn(p) ==
  /\ known = Nobody
  /\ token' = p
  /\ asks' = asks \cup {p}
  /\ UNCHANGED <<known, leaving, form, drafts, left, work, untouched>>

(* The library reads the session again: the tab has the focus, say. *)
Refetch ==
  /\ asks' = asks \cup {token}
  /\ UNCHANGED <<token, known, leaving, form, drafts, left, work, untouched>>

(* A page without a session, or whose session cannot be read, has no form. *)
AnswerSession(p) ==
  /\ asks' = asks \ {p}
  /\ known' \in {p, Nobody}
  /\ IF known' = Nobody /\ Mounted THEN Unmount ELSE UNCHANGED <<form, drafts, left>>
  /\ UNCHANGED <<token, leaving, work, untouched>>

LogOut ==
  /\ known # Nobody /\ ~leaving
  /\ leaving' = TRUE
  /\ UNCHANGED <<token, known, asks, form, drafts, left, work, untouched>>

(* A mistake: the timer of the form goes on. *)
SilencedLate == [form EXCEPT !.skip = TRUE]

(* beforeClear, on the form. *)
Silenced == [form EXCEPT !.skip = TRUE, !.timer = NoDraft]

(* The finally of logout, whether the server answered or not. One that did had the    *)
(* library read the session before the token was cleared.                            *)
LogOutEnds ==
  /\ leaving
  /\ leaving' = FALSE
  /\ drafts' = Cleared
  /\ form' = IF Mounted THEN Silenced ELSE form
  /\ token' = Nobody
  /\ \E before \in {{}, {token}} : asks' = asks \cup before \cup {Nobody}
  /\ work' = Empty
  /\ untouched' = TRUE
  /\ UNCHANGED <<known, left>>

-----------------------------------------------------------------------------
(* The form *)

session == <<token, known, asks, leaving>>

(* Somebody who is signed in, and whom the API knows by the token, opens the page. A  *)
(* draft is offered, and one that is older than DRAFT_LIFETIME_MS is removed.         *)
OpenForm ==
  /\ known # Nobody /\ token # Nobody /\ ~Mounted
  /\ \E expired \in BOOLEAN :
       LET draft == IF expired THEN NoDraft ELSE drafts[token]
       IN /\ form' = [NoForm EXCEPT !.of = token, !.prompt = draft, !.ready = draft = NoDraft,
                                    !.timer = IF draft = NoDraft THEN Blank ELSE NoDraft]
          /\ drafts' = [drafts EXCEPT ![token] = draft]
          /\ work' = IF draft = NoDraft THEN [work EXCEPT ![token] = NoDraft] ELSE work
  /\ UNCHANGED <<session, left, untouched>>

(* What is typed counts while one is signed in; the debounce starts again. *)
Rewrite(f) ==
  /\ form' = IF f.ready THEN [f EXCEPT !.timer = f.text] ELSE f
  /\ work' = IF f.ready /\ token # Nobody THEN [work EXCEPT ![f.of] = Kept(f.text)] ELSE work
  /\ untouched' = FALSE
  /\ UNCHANGED <<session, left>>

Type(text) ==
  /\ Mounted /\ ~form.sent /\ text # form.text
  /\ Rewrite([form EXCEPT !.text = text])
  /\ UNCHANGED drafts

Restore ==
  /\ form.prompt # NoDraft /\ ~form.sent
  /\ Rewrite([form EXCEPT !.text = form.prompt, !.prompt = NoDraft, !.ready = TRUE])
  /\ UNCHANGED drafts

Discard ==
  /\ form.prompt # NoDraft /\ ~form.sent
  /\ Rewrite([form EXCEPT !.prompt = NoDraft, !.ready = TRUE])
  /\ drafts' = [drafts EXCEPT ![form.of] = NoDraft]

(* The debounce is over. *)
Debounced ==
  /\ form.timer # NoDraft
  /\ drafts' = Persist(drafts, form.timer)
  /\ form' = [form EXCEPT !.timer = NoDraft]
  /\ UNCHANGED <<session, left, work, untouched>>

(* send. The fields stay open while it is under way. *)
Submit ==
  /\ Mounted /\ form.text # Blank /\ ~form.sending /\ ~form.sent
  /\ form' = [form EXCEPT !.sending = TRUE]
  /\ UNCHANGED <<session, drafts, left, work, untouched>>

Submitted(p) ==
  /\ drafts' = [drafts EXCEPT ![p] = NoDraft]
  /\ work' = [work EXCEPT ![p] = NoDraft]

Accepted ==
  /\ form.sending
  /\ form' = [form EXCEPT !.sending = FALSE, !.sent = TRUE, !.skip = TRUE, !.timer = NoDraft]
  /\ Submitted(form.of)
  /\ UNCHANGED <<session, left, untouched>>

Refused ==
  /\ form.sending
  /\ form' = [form EXCEPT !.sending = FALSE]
  /\ UNCHANGED <<session, drafts, left, work, untouched>>

(* The answer for a form that is gone: the account's draft goes, whichever it is. *)
AcceptedLate(p) ==
  /\ left' = left \ {p}
  /\ Submitted(p)
  /\ UNCHANGED <<session, form, untouched>>

RefusedLate(p) ==
  /\ left' = left \ {p}
  /\ UNCHANGED <<session, form, drafts, work, untouched>>

(* A mistake: the next form keeps what the last one learnt. *)
AnotherAsItWas == [form EXCEPT !.sent = FALSE, !.text = Blank, !.timer = IF form.ready THEN Blank ELSE NoDraft]

(* onAgain. *)
Another == [form EXCEPT !.sent = FALSE, !.skip = FALSE, !.text = Blank,
                        !.timer = IF form.ready THEN Blank ELSE NoDraft]

SubmitAnother ==
  /\ form.sent
  /\ form' = Another
  /\ UNCHANGED <<session, drafts, left, work, untouched>>

(* To another page of the site, past the question whether to. *)
LeavePage ==
  /\ Mounted
  /\ Unmount
  /\ UNCHANGED <<session, work, untouched>>

(* The tab is closed or loaded anew: nothing of the page runs any more, and what was   *)
(* typed within the debounce is gone.                                                *)
ClosePage ==
  /\ form' = NoForm
  /\ known' = Nobody /\ asks' = {token} /\ leaving' = FALSE /\ left' = {}
  /\ work' = IF Mounted /\ form.timer # NoDraft THEN [work EXCEPT ![form.of] = drafts[form.of]] ELSE work
  /\ UNCHANGED <<token, drafts, untouched>>

DraftsNext ==
  \/ \E p \in People : SignIn(p)
  \/ Refetch \/ LogOut \/ LogOutEnds
  \/ \E p \in asks : AnswerSession(p)
  \/ OpenForm \/ Restore \/ Discard \/ Debounced
  \/ \E text \in Texts \cup {Blank} : Type(text)
  \/ Submit \/ Accepted \/ Refused \/ SubmitAnother
  \/ \E p \in left : AcceptedLate(p) \/ RefusedLate(p)
  \/ LeavePage \/ ClosePage

-----------------------------------------------------------------------------
(* Properties *)

(* What somebody wrote is in the form or in the draft of the account, however the      *)
(* form leaves the page, comes back, is submitted again or loses its session; only a   *)
(* submission, a discard, the draft's age, a log-out and the last moments before the    *)
(* tab closes take it.                                                              *)
WorkIsKept ==
  /\ DraftsTypeOK
  /\ \A p \in People :
       work[p] # NoDraft =>
         IF form.of = p /\ form.ready THEN form.text = work[p] ELSE drafts[p] = work[p]

(* A log-out leaves no draft of anybody behind, and neither the timer of a form that is *)
(* still on the page nor its cleanup brings one back.                                *)
NothingAfterLogout == untouched => drafts = Empty
=============================================================================
