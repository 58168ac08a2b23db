----------------------------- MODULE Reminders -----------------------------
(***************************************************************************)
(* Reminders to one member of one organisation about its quiet listings. A   *)
(* generator lists whom to remind, locks the membership, looks at the        *)
(* cooldown and inserts; mails are sent from the same rows by others, without *)
(* that lock. A partial unique index admits one row that can still be mailed. *)
(***************************************************************************)
EXTENDS JobRunner, Sequences

CONSTANTS
  Cooldown,          \* STALE_REMINDER_COOLDOWN_DAYS
  MaxTries,          \* attempts of a mail (3)
  MaxReminders       \* bound on the rows

ASSUME RemindersAssumption ==
  /\ Cooldown \in Nat \ {0} /\ MaxTries \in Nat \ {0} /\ MaxReminders \in Nat

VARIABLES
  reminder,          \* the rows, oldest first
  generator,         \* what a runner is at
  membership         \* who locks the membership row

reminderVars == <<reminder, generator, membership>>

Reminder == [created : Times, sent : Times \cup {None}, tries : 0..MaxTries]
Generator == [at : {"idle", "listing", "listed", "begun", "locked", "checked", "done"}, asOf : Times, began : Times]

RemindersTypeOK ==
  /\ reminder \in Seq(Reminder)
  /\ Len(reminder) <= MaxReminders
  /\ generator \in [Runners -> Generator]
  /\ membership \in Runners \cup {None}

RemindersInit ==
  /\ reminder = <<>>
  /\ generator = [r \in Runners |-> [at |-> "idle", asOf |-> 0, began |-> 0]]
  /\ membership = None

-----------------------------------------------------------------------------
(* greatest(created_at, email_dispatched_at) *)
Activity(n) == IF n.sent = None \/ n.sent < n.created THEN n.created ELSE n.sent

Rows == 1..Len(reminder)

CoolingDown(t) == \E i \in Rows : Activity(reminder[i]) + Cooldown > t

(* ux_stale_listing_pending_recipient *)
InFlight(n) == n.sent = None /\ n.tries < MaxTries

At(r, step) == generator[r].at = step
To(r, step) == generator' = [generator EXCEPT ![r].at = step]

BeginReminding(r) ==
  /\ generator' = [generator EXCEPT ![r] = [at |-> "listing", asOf |-> now, began |-> now]]
  /\ UNCHANGED <<reminder, membership>>

(* listStaleReminderRecipients prunes by the cooldown, without a lock; whether    *)
(* there is a member, and a listing gone quiet, is as it may be at every look.    *)
ListRecipients(r) ==
  /\ At(r, "listing")
  /\ \/ ~CoolingDown(generator[r].asOf) /\ To(r, "listed")
     \/ To(r, "done")
  /\ UNCHANGED <<reminder, membership>>

(* A transaction begins: created_at will say when. *)
BeginTransaction(r) ==
  /\ At(r, "listed")
  /\ generator' = [generator EXCEPT ![r].at = "begun", ![r].began = now]
  /\ UNCHANGED <<reminder, membership>>

(* A mistake: the membership is read and not locked. *)
ReadMembership(r) ==
  /\ At(r, "begun")
  /\ To(r, "locked") \/ To(r, "done")
  /\ UNCHANGED <<reminder, membership>>

(* lockForAccountAndOrganization. *)
LockMembership(r) ==
  /\ At(r, "begun")
  /\ membership = None
  /\ \/ To(r, "locked") /\ membership' = r
     \/ To(r, "done") /\ UNCHANGED membership
  /\ UNCHANGED reminder

Unlock(r) == membership' = IF membership = r THEN None ELSE membership

(* The cooldown is looked at again, then the listings. *)
CheckCooldown(r) ==
  /\ At(r, "locked")
  /\ \/ ~CoolingDown(generator[r].asOf) /\ To(r, "checked") /\ UNCHANGED membership
     \/ To(r, "done") /\ Unlock(r)
  /\ UNCHANGED reminder

(* A mistake: no unique index; mails that wait are not looked for. *)
MayInsertAlways == TRUE

(* onConflictDoNothing, on the index. *)
MayInsert == \A i \in Rows : ~InFlight(reminder[i])

InsertReminder(r) ==
  /\ At(r, "checked")
  /\ reminder' = IF MayInsert /\ Len(reminder) < MaxReminders
                 THEN Append(reminder, [created |-> generator[r].began, sent |-> None, tries |-> 0])
                 ELSE reminder
  /\ To(r, "done")
  /\ Unlock(r)

RemindingOver(r) == At(r, "done")

(* The transaction fails, or there is nothing left to do. *)
EndReminding(r) ==
  /\ generator' = [generator EXCEPT ![r] = [at |-> "idle", asOf |-> 0, began |-> 0]]
  /\ Unlock(r)
  /\ UNCHANGED reminder

StepReminding(r) ==
  \/ ListRecipients(r) \/ BeginTransaction(r) \/ LockMembership(r)
  \/ CheckCooldown(r) \/ InsertReminder(r)

(* notification-dispatch claims a try, and stamps a success. *)
TryMail(i) ==
  /\ InFlight(reminder[i])
  /\ reminder' = [reminder EXCEPT ![i].tries = @ + 1]
  /\ UNCHANGED <<generator, membership>>

StampMail(i) ==
  /\ reminder[i].tries > 0 /\ reminder[i].sent = None
  /\ reminder' = [reminder EXCEPT ![i].sent = now]
  /\ UNCHANGED <<generator, membership>>

RemindersEnvironment == \E i \in Rows : TryMail(i) \/ StampMail(i)

-----------------------------------------------------------------------------
(* Properties *)

(* However many generators run, and however late a mail of an earlier row is      *)
(* sent, a new row is no nearer than the cooldown to the row before it ...        *)
RemindersApart ==
  \A i \in 2..Len(reminder) : reminder[i - 1].created + Cooldown <= reminder[i].created

(* ... and at most one of them can still be mailed.                              *)
OneInFlight == \A i, j \in Rows : InFlight(reminder[i]) /\ InFlight(reminder[j]) => i = j

(* A recipient is reminded once per cooldown, by one mail.                         *)
OneReminder == RunnerTypeOK /\ RemindersTypeOK /\ RemindersApart /\ OneInFlight
=============================================================================
