# The RFP Hub in TLA+

A model of the RFP Hub: how funding opportunities get their content, their owner
and their public status, how their links are vouched for and checked, how
duplicates are found and merged, how the people concerned are told, what the
night's jobs do to all of it, and what the programs around the API (the MCP
server, the pages of the frontend, the exporter) do when things come late or in
another order. Each part is a TLA+ module translated from the TypeScript in
`src/packages`; TLC checks the modules on small instances, TLAPS proves most of
their safety properties for instances of every size.

Paths below are relative to `src/packages/api/src/modules/` unless they say
otherwise. `PROJECT.json` has, for every definition, the lines it stands for
(`map`), for every hazard the line where it bites, and for every property a
mistake in the code it would notice (`mutants`).

## 1. The system

One Node process (or several) serves HTTP requests over one PostgreSQL
database; a second entry point runs nightly jobs over the same database, and an
admin's request may run the same jobs in a serving process. Outside the API are
the MCP server (processes over files they share), the web pages (asynchronous
reads and a form with drafts in the browser) and the nightly exporter (a reader
of the API, a writer of files). All
durable state is in tables, and nearly all concurrency is between database
transactions at READ COMMITTED, which serialise on rows they lock explicitly.
Three things happen outside transactions: fetches of source pages, calls of the
e-mail provider, and passes that read and write in several statements. Two
in-process queues start work right after a commit; nightly jobs pick up
whatever the queues lost.

| Component | State | Operations | How it interacts | What is hard | What makes it correct |
|---|---|---|---|---|---|
| Write path: `services/opportunities/opportunity-write.service.ts` | `opportunities`, `organizations` stubs, `audit_log` | POST, PUT of an entry: decide unlocked, lock, prove authority again, contain, requeue, meter, store | shares rows with review, claims, merges, checks; queues checks, notifications | authority taken away during a request; two creates; ceilings counted under the right lock | authority still holds at the write; public text was cleared by somebody entitled to; the queue ceiling |
| Review: `services/review/review.service.ts` | review status, listing, organisation verification, memberships | approve, reject, list, unlist, a namespace's own release, verify, grant, revoke | pins links, changes authority under running requests | the decision and the thing decided are read at different times | what is public was cleared; merged entries stay away |
| Claims: `services/claims/` | `opportunity_claims`, publisher of an entry | claim (grant or queue), approve, reject | changes the publisher replacements must keep | grants, decisions and writes race for one entry | ownership is granted once, to the claim that says approved; claim ceiling |
| Link-outs: `shared/link-out.ts`, `routes/redirects` | stored, pinned link, landing flag | decide whether `/v1/r/:id/apply` goes straight | every write of an entry may move the link | what was vouched for versus what is stored | a straight hop leads where it led when it was vouched for |
| Source checks: `services/verification/` | `verification_runs`, verdict, landing baseline | check one entry; nightly batch | fetches without a lock, then a transaction | edits, overlaps and timeouts between fetch and verdict | a verdict is about the text it is stored with; every entry is checked in the end |
| Duplicates: `services/dedupe/dedupe.service.ts` | `opportunity_duplicates`, `merged_into_id` | detect, prune, resweep, decide, reopen, merge | moves entries out of the catalogue | passes of several statements; overlapping merges | no chains; merged entries stay away; the survivor is public; decisions stand |
| Embeddings: same file, `repositories/opportunities/embedding.repository.ts` | one vector per entry | embed after a write, nightly backfill | read by detection | an old pass overtaking a new one | the vector ends up the one of the last text |
| Notifications: `services/notifications/`, `repositories/notifications/` | `notifications` (an outbox with a lease in its payload) | record, lease, renew, send, stamp | every mutation records events in its transaction | crashes, stalls, expired leases, several dispatchers, clock skew | bounded attempts, one mail per attempt, outcomes land, everything settles |
| In-process queues: `notification-dispatch.queue.ts`, `verification.service.ts` | a waiting list, a worker count | enqueue, pump, completion | started after commits | bounds, duplicates, a worker that stops | nothing waits for ever; no id is attempted beside itself |
| Row locks: all services, `repositories/memberships/membership.repository.ts` | row locks of open transactions | the lock sequences of every path | everything | orders differ, foreign keys lock too | no deadlock |
| Staleness: `services/jobs/staleness.service.ts` | status, next deadline | walk, settle each entry under its lock | closes entries under publishers | second look under the lock; failures of some rows | a publisher's newer word wins; a systemic failure is seen |
| Stale reminders: `services/jobs/stale-listing-reminder.service.ts` | notifications with a cooldown | generate per membership | records outbox rows | two generators | one reminder per cooldown |
| Jobs: `services/jobs/lock.ts`, `runner.ts`, `chain.ts` | advisory locks | lock, passes, chain | runs all nightly work | lost lock connection, failing jobs, cursors that do not drain | a job runs once at a time; the chain finishes |
| Submitter transfers: `services/opportunities/opportunity-submitter.service.ts` | submitter of an entry | assume, assign | opens and closes claims, ceilings | races with writes and claims | the submitter is somebody who may hold the entry |
| Accounts, roles: `services/admin/`, `services/auth/account.service.ts` | `accounts`, roles | sign in, change role, direct-create | authority of every request | two demotions at once | an admin is left |
| Invites: `services/memberships/` | `membership_invites` | invite, revoke, redeem | makes memberships | inviter loses authority, two redemptions | nobody joins by an authority that is gone |
| API keys, sessions: `services/auth/` | `api_keys` | mint, revoke, verify | limits what a request may do | the cap | the cap |
| Analytics: `services/insights/` | an in-process buffer, event tables | record, flush, close, roll up | shutdown order | joined flushes, cap | what was accepted is written or counted as dropped |
| Closing soon: `services/review/closing-soon.ts` | none | list what the job will close | reads the entries of the staleness job | a walk that stops early, deadlines that postpone a close | the list is exact, and its dates are the job's |
| Exporter: `packages/api/scripts/export-from-api.ts`, `export-writer.ts`, `export.ts` | archives, two aliases, a manifest, `dataset_snapshots` | walk the dataset, write, promote | reads a dataset that moves | pages that shift, a run that dies between two files | what is published is complete, and points to the bytes it names |
| Frontend: `packages/frontend/src/lib/resource.ts`, `components/OpportunityForm.tsx`, `lib/opportunity-form.ts`, `lib/opportunity-draft.ts`, `lib/session.tsx` | state of a page, the form and the record under it, drafts in `localStorage`, the session | read, reload, type, submit, log out | calls the API | late answers, timers and cleanups; a replacement by a form that knows a part of the record | a page shows its newest read; work is kept; nothing after a log-out; an edit changes what was edited |
| Catalogue, feeds, stats | none | queries | read what the others write | | |
| MCP server: `src/packages/mcp` | approval files, a budget file, a lock directory | preview, approve, submit | calls the API | several processes over one directory | an approval is spent once, the budget holds |
| Standard, validator, other scripts | none that the system relies on | | | | |

`PROJECT.json` "hazards" lists, line by line, what is hard to test here and
which property is about it; those no property covers yet say why.

## 2. Modules

| Module | Models | Checked by | Proofs |
|---|---|---|---|
| `EmailOutbox` | abstract: what the notification outbox promises | refined by `NotificationDispatch` | refinement: `NotificationDispatchProofs` |
| `NotificationDispatch` | concurrent dispatchers over the outbox rows | `dispatch` | `NotificationDispatchProofs` |
| `Publishing` | write path, review, release, claims, verification, memberships | `publishing` | `PublishingProofs` |
| `LinkOut` | one apply link: writers, reviewers, checks, sites | `linkout_checks` | `LinkOutProofs` |
| `WorkQueue`, `EventBuffer`, composed by `ApiProcess` | one process: its work queues, its analytics buffer, its shutdown and its death | `process` | `ApiProcessProofs` |
| `Administration` | roles, keys, invites, submitter transfers | `transactions` | `TransactionsProofs` |
| `Duplicates` | detection passes, reviewers, merges | `transactions`, `duplicates_decisions` | `TransactionsProofs` |
| `RowLocks` | the lock sequences of publishing, review, claims, administration and merges | `transactions`, `locks_foreign_keys` | `TransactionsProofs` |
| `Transactions` | the three before as views of one run | `transactions` | `TransactionsProofs` |
| `JobRunner` | the advisory lock, passes, failures and the clock of a job | `nightly` | `NightlyProofs` |
| `Staleness`, `ClosingSoon`, `Reminders`, `Rollup`, `Embeddings`, composed by `Nightly` | four jobs under that runner, and the list that foretells one of them | `nightly` | `NightlyProofs`, but for the embeddings |
| `McpSubmit` | the MCP server's write tool: previews, approvals, budget, file lock | `clients`, `mcp_lock` | `McpSubmitProofs` |
| `Resource`, `Drafts` | a read of a page; the form for a listing with its drafts and the session | `clients` | `ClientsProofs` |
| `ListingEditor` | that form between two documents: reading the stored one, editing, writing over it | `clients` | `ClientsProofs` |
| `ExportSource`, `ExportWriter` | the exporter: the walk over the API, and the files | `clients`, `export_partial`, `export_rewrite` | `ClientsProofs` |
| `Clients` | the programs around the API, one in a behaviour | `clients` | `ClientsProofs` |

Every `MCx` module extends `x` with the small sets its configurations name. A
definition whose comment begins "A mistake" is not part of a specification: it
is what a plausible slip in the code would make of the definition below it, and
shows that the properties notice it.

How the modules meet. `ApiProcess` is a composition proper: both halves live in
one process and die with it. So is `Nightly`: each job runs in the steps of
`JobRunner`, under its lock, on its clock, and `ClosingSoon` is stated over the
rows and the rule of `Staleness`. The other components meet in the database,
and each module has the other side of a meeting as actions of its own: `LinkOut`
has the writes, decisions, grants and closings that move a link; `Duplicates` has
the reviews that move an entry in and out of the catalogue; `Staleness` has the
publishers' writes; `RowLocks` has all transactions, reduced to what they lock.
`Transactions` and `Clients` are not compositions: their parts share no state,
and one run goes through them one after another (`view`, `program`).

### NotificationDispatch

State is the row (`recorded`, `dispatched`, `age` of `email_failed_at`,
`attempts` and `leaseToken` of the payload), what is true of its recipient, and
for each caller of `runBatch` where it is in its loop, its batch, its token,
the payload copies it leased and the addresses it loaded. `Lease` is the one
UPDATE of `selectForDispatch` (any set within the limit, because of SKIP
LOCKED); `Check` and `Renew`, `Accept`/`Reject` and the stamps are separate
steps because they are separate awaits. `Crash` may come at any of them. Time
is counted in ticks: a send and its stamp may last `HoldLimit`, a row is left
alone for `RetryDelay` after its last stamp, and two clocks differ by at most
`ClockSkew`. `EmailOutbox` is what a reader of the table may rely on; the
refinement maps a row to absent, waiting, trying or dispatched.

### Publishing

A request runs in the steps of its transaction: `AskWrite` is everything before
BEGIN, `LockForWrite`, `LockAccount`, `ReproveAuthority`, `Meter` and `Store`
follow `persist` and `applyWrite` in their order; claims and the namespace's
release likewise. Locks FOR SHARE and FOR UPDATE are sets of rows per request,
and a step that needs a row others hold is not enabled. Transactions of one
lock (a review decision, a verification, a membership) are one step. A
document is a model value with a set of operating organisations; authority is a
set of facts read under locks. Two variables are history: `cleared`, the content
that an entitled decision last made public, and `queuedBy`, whose write last put an
entry in the review queue. Who there is, and what they
may be, is a *cast*, chosen at the start.

### LinkOut

One entry, its apply link and everything that changes it. `updated_at` is a
counter; `verified_at` is kept as what it was compared with. A check is
`StartCheck` (the unlocked read), `Fetch` (transient failure, refusal or an
answer that landed on a site) and `Apply` or `Discard` (the transaction, with
the stale test). `Retarget` is the web: where a link leads may change at any
time. `Approve` names only the entry: what it pins is the link of the locked row.

### ApiProcess

A turn of the event loop is a step. `WorkQueue` is either of the two queues
(`kind`, chosen at the start): `enqueue` with its refusals, `pump`, the end of an
attempt. `EventBuffer` records events up to the cap, arms a timer, lets calls
join the flush under way and schedules what they brought; a write of a batch
ends well, or badly with the batch given up. `Close` begins an orderly shutdown,
in the order of the hooks of `app.ts`; `Stop` is its end or the forced exit that
follows a hang; `Start` is the next process, with an empty queue, an empty buffer
and rows nobody has sent.

### Administration, Duplicates, RowLocks

In `Administration` a request is let in by what its principal was (`Ask`), locks
rows one statement at a time, proves its right on the locked rows and writes in
its last step; `Rollback` may come at any point. Role changes lock the admins in
id order and count those they got; a key mint locks its account; an invite is
locked and its inviter looked at again when its address signs in; a transfer of
a submitter locks the entry and then the accounts. `role`, `member`, `verified`
are changed by others meanwhile. An *agenda* says which operations a behaviour is
about.

A detection pass of `Duplicates` is `Search`, `Record`, `SelectStale`, `Delete`,
each a statement or a transaction, with reviewers in between; what is similar to
what is any choice. A merge is `LockPair`, `LockEntries`, `Clear`, `Settle` or
`Refuse`; two merges of overlapping pairs interleave as their locks allow.

`RowLocks` describes every path by the sequence of locks it asks for and
PostgreSQL by who waits for whom; foreign keys are a switch, because the
documented order is about statements.

### Nightly

`JobRunner` is `withJobLock` and the loop of `runJob`: the lock belongs to a
connection (`LoseConnection`, after which the job goes on and another may start),
a run is several passes, and `Die` is a process that fails or is killed; two
runners stand for the night's chain and an admin's request.

`Staleness` walks the candidates by id, a page at a time: `ReadPage`, then one
`Settle` (its second decision under the lock of the row, `Decide`) or
`SkipPoison` per row, with publishers' writes (`Edit`) anywhere in between.
`ClosingSoon` has no state. It is the walk that stops early as functions of the
rows: when the rule will close an entry (`ClosesAt`), the order of the walk and
where it stops, for every window, length and scan cap; it reads one snapshot.
`Reminders` is one recipient: the listing, the lock of the membership, the look
at the cooldown, the insert under the partial unique index, and mails of earlier
rows that are sent, fail and end meanwhile. `Rollup` is one entry: events that
come late, the sweep that writes each day of its window by assignment, the
pruning. `Embeddings` is one vector: a pass is `Load`, `Embed`, `Look`, `Store`
with restarts up to `MaxDepth`, run by the backfill and by checks after a write.

### Clients

`McpSubmit` has every file-system call of a preview, an approval at a terminal, a
commit and a revocation as a step, over several servers: the lock directory with
its stale age and the rename that breaks it, the counters under it, the rename
that spends an approval, the request that may be lost or refused, and what is
given back then. The clock counts windows and may be set back.

`Resource` is `useResource`: generations, reads under way that are never aborted,
reloads after a mutation. `Drafts` is `OpportunityForm` with `opportunity-draft.ts`
and the session: the timer of half a second, the cleanup that writes, the
submission, the flag `submittedRef` that keeps a cleanup silent, `beforeClear`,
log-out and the reads of the session that answer in any order.

`ListingEditor` is `opportunity-form.ts` and the edits `OpportunityForm` offers. An
object is a function from the members it has, so that absent, empty and null differ
as they do in the code. `FromDocument` keeps beside the cells of each row the object
it was read from (`base`), and the whole record (`carried`); `ToDocument` writes what
is stated over them and removes what is not (`WrittenOver`). Every edit is an action:
rows are added, removed, moved, typed in; the type, the kind of a bounty, its way of
paying, a payout's model are switched, with what the code empties then; the id is typed
or follows. `HasProblem` is `fieldProblems`, `Conforms` the rules of the schema that
speak of members, `ApiTakes` the API's rule about the publisher. `touched` is the
history the properties need: what the publisher has edited since the form was read.

`ExportSource` is the walk of `fetchDataset` over a dataset in which entries appear
and vanish between any two statements: statistics, pages by rank, documents in any
order; whatever does not agree refuses the walk. `ExportWriter` is `writeExport`:
two archives (opened, then filled), two aliases staged and then renamed, the
manifest, the snapshots. The bytes of a file are a record of what they depend on,
so that the JSON of two runs differs and the CSV of the same data does not. A file
that is not whole is stored as the run that truncated it last; a run that is then
still writing the same file at its own offset may leave it so. Two histories tell an
order that is wrong from one that is right and was interrupted: `completed` (what some
run has written to the end) and `halted` (who ended while writing what). A pointer may
only name what is in `completed`, and what it names is whole unless the run that
truncated it is at its write or in `halted`.

## 3. What the runs check

Runs that hold:

| Run | Instance | Shows |
|---|---|---|
| `dispatch` | 2 rows (one malformed, one whose recipient may opt out), 2 dispatchers, 2 attempts, sends that may outlast the retry delay less the clock error | one mail per attempt, outcomes in time land, the outbox's promises, everything settles |
| `publishing` | 2 requests; four casts: a publisher and a reviewer over one entry; one account that submits two entries, ceiling 1; two organisations claiming one imported entry; one account claiming two entries, ceiling 1 | authority holds at the write (`AuthorityHolds`), what is public was cleared (`PublicIsCleared`), both ceilings, of what an account itself has put in the queue and of its claims (`CeilingsHold`), one grant and that to the approved claim (`OneWinner`), and only a grant moves a publisher |
| `linkout_checks` | 2 links, 2 sites, 1 check, 3 edits | verdicts are about the text; a straight hop stays put; an entry left alone is checked in the end |
| `process` | 3 ids, room for 2, 1 or 2 workers; batches of 2, a buffer of 3, 5 events | `QueueHolds`: no idle worker while something waits, no mail beside itself; `EventsAccounted`: an event is in one place, and none is left by a shutdown; `ProcessMovesOn`: what waits is attempted or written also when no request comes any more |
| `transactions` | three views: 2 requests over 2 or 3 accounts in five agendas, 1 key, 2 invites; 3 entries, 2 merges, 1 pass; 3 transactions of every path over 2 entries, 2 accounts, 1 organisation | `CountsHold`: an admin is left, the cap on keys, an invite is applied once; `ActsByRight`: who hands over, invites or redeems has the right when the step is taken; no chains of merges, merged entries stay away, survivors are public; no deadlock over statement locks |
| `nightly` | 2 runners and one check after a write; 3 entries, pages of 2, limit 2, one entry that may be poisonous; 2 reminders, cooldown 2; 2 events, window 2, retention 3; 4 texts, 3 restarts; 1 failure, 1 lost connection for the reminders | entries are closed for what their rows say (`ClosedForItsText`), the key of the next deadline is right, the list of what closes soon is exact and keeps its promises (`ClosingsExact`), one reminder per cooldown (`OneReminder`), a day's total settles (`SettledExact`), the night's work gets done (`NightWorkDone`) |
| `clients` | 2 servers, 1 terminal, 1 document, one crash or one window that passes; 2 loaders, 3 reads, 2 changes; 2 people, 2 texts; an empty form and 3 stored listings (a hackathon online with prizes, a bounty that pays by a table, an imported grant of two operators), 3 edits; 5 records in pages of 2, 3 moves; 3 runs, 3 datasets of which one is too short | `SpentOnce`, `BudgetExact` and `CallsEnd` for the write tool; `ShownIsLatest` for a page; `WorkIsKept` and `NothingAfterLogout` for the form; `EditsAreExact` (what was edited is saved, the rest stays, the id follows) and `LetThroughIsTaken` for what it makes of a document; `ExportIsComplete` and `PointersAgree` for the exporter |

A property that bundles several statements is their conjunction, each with its
own comment in the module: they are about one promise, and each has a mistake of
its own that breaks it.

Two racing requests are what each ceiling, each hand-over and each proof of
authority needs: one that has looked and one that moves what it looked at. Two
documents, two links and two sites tell "the same" from "another"; three entries
are the least in which merges can chain, and in which a page of two has a next
page that a limit of two leaves behind. A ceiling of one is reached at once,
which is where it can be off by one. In `dispatch` a tick is the unit in which
the error of the clocks is one and the retry delay two, so that a send is in
time before its first tick and overtaken after it. One check at a time loses
nothing in `linkout_checks`: a check's transaction depends on the row and on its
own read only, one check already arrives with every stale read there is, and
`VerdictIsAboutContent` is proved for any number of them. Three transactions are
enough to see a cycle of two or three paths; longer ones are not excluded by the
run. Three restarts and four texts let an embedding pass start over as often as
the code allows and still be overtaken. Five records make two full pages and one
that is not, so that the end of the walk falls on a boundary and beside it.
Three edits switch a type, or what a bounty pays by, away and back with an edit
between, and two prizes and two organizations are enough for a row to stand where
another was read. Two terminals that race for one approval are beyond the run, which
has one beside two servers; `SpentOnce` and `BudgetExact` are proved for any number of
both. Two runs of the exporter share an archive only where their data agree, and the
third is there to change what both have published. Bounds that only TLC needs are `MaxUpdates`, `MaxEdits` (one of the
night's and one of the editor), `MaxTexts`, `MaxEvents`,
`MaxReminders`, `MaxMoves`, `MaxReads`, `MaxVersion`, `MaxPreviews`, `MaxClock`,
`MaxNow`, `MaxInvites`, `MaxCuts`, `MaxCrashes` and the size of the sets.

Runs that find a documented statement violated, one property each; the finding
in `PROJECT.json` quotes the statement:

| Run | The statement | What the code does |
|---|---|---|
| `duplicates_decisions` | detection never resurrects a decision | the prune deletes by id a pair decided since it looked |
| `locks_foreign_keys` | there is no cycle | a claim decision holds the organisation and asks, by a foreign key, for the account; a write into the queue of that account holds the account and asks for the organisation |
| `mcp_lock` | two processes breaking one abandoned lock cannot delete a live one | the slower of the two renames away the fresh lock of the faster |
| `export_partial` | a dataset that changed under the run publishes nothing | an older entry that comes in takes a place on the last page, and the newest falls off it; every count agrees |
| `export_rewrite` | a run that dies leaves the last complete dataset | the second run of a day over unchanged data rewrites in place the CSV archive that the published manifest names |

A deadlock loses no data: PostgreSQL rolls one transaction back and its request
fails or is retried. The budget's promise survives the lost lock only in part:
`InBudget` is stated for behaviours in which no lock is lost.

Other places where the code and a sentence about it part, or where a sequence
ends somewhere unexpected, seen while the modules were written and not kept as
runs:

- *Publishing.* A reviewer's edit of an approved entry requeues it, and it counts
  against its submitter, whose limit is not asked (`opportunity-write.service.ts:825`
  against `docs/api-integration.md:365`); `PendingCap` counts what an account itself
  put in the queue.
  Approving a queued claim does not ask whether the claimant operates the
  programme (`claim.service.ts:286` against `opportunity-write.service.ts:370`), and
  claims, replacements and reviews in some order leave a publisher that does not.
  `reproveAuthority` reads membership, verification and direct-create again, not
  the account's role: roles are constants of a cast. An approval pins the link of
  the locked row, which may have been replaced since the reviewer read it.
- *Links.* A link edited away and back, with a check in between, loses the baseline
  its landing is compared with (`verification.service.ts:658` against
  `docs/api-integration.md:281`); `StraightHopStaysPut` excludes such links.
- *Duplicates.* A second merge of a loser that is merged already stops naming a
  survivor for it (`dedupe.service.ts:1042` against `:945`).
- *Locks.* Paths that take rows in another order than `membership.repository.ts:18`
  asks for are not in `RowLocks`: assigning a role (all admins, then the target,
  against a transfer that takes accounts in id order), redeeming invites (two
  people who invited each other), stubs of new organisations (in the order of the
  document), the import (organisations before the entry), and the foreign keys of
  a detection pass. An organisation admin's invite can demote somebody who has
  become owner since.
- *Embeddings.* A pass may store an older vector over a newer one between its second
  look and its upsert (`dedupe.service.ts:488`); the backfill repairs it, which is
  what `NightWorkDone` says.
- *Night.* Passes with a limit begin at the first id again, so candidates that no
  pass changes can keep the tail from being reached: `EventuallyClosed` speaks of
  what is within reach. A reminder that is mailed between another generator's look
  and its insert gives two mails closer than the cooldown, though two rows never
  are. With a retention of one or two days, which `config.ts:942` accepts, a second
  run of a day rewrites a day that is partly pruned, lower than it was
  (`rollup.service.ts:93` says "Idempotent by construction"); the instance has three.
  A day whose two following nights had no sweep is never rolled up. When the lock's
  connection is lost an old sweep may write after a newer one: `SettledExact` is for
  runs that keep theirs.
- *MCP lock.* `breakStaleLock` swallows the failure of its rename and the loop goes
  round without a pause or a look at the deadline, so that in a directory that
  cannot be written a call spins (`lock.ts:84`); and the `finally` of a holder that
  was robbed removes the lock of whoever holds it by then.
- *Frontend.* A key pressed after the log-out's clear, and before the session's read
  has ended, is stored as a draft half a second later (`opportunity-draft.ts:336` says
  what a log-out clears). The answer of a submission whose form is gone removes the
  draft the account has by then (`OpportunityForm.tsx:563`). A form that is reused
  for another account without a draft keeps its text (`:353`); no page of one tab
  does that. A session that changes its account without passing through
  signed-out does not read `me` again (`session.tsx:61`). A second tab is not told
  of a log-out.
- *Editor.* `test/opportunity-form.test.ts:836` asks that an edit of one field leaves the
  rest of the payload identical. An item of a list that holds a comma comes back as two
  (`opportunity-form.ts:610` against the `join` of `readDetails`), an instant in the
  second pass of an hour that is repeated in autumn comes back an hour earlier
  (`:707`), and explicit nulls disappear; `Shows` and `Claim` say so, and `RestIsKept`
  speaks of the rest. A row of the payout table that is incomplete and hidden, because
  the bounty pays a single reward again, blocks the submission with a problem on no
  visible field (`:1491`). "Edit again" after a replacement goes on with the record as it
  was before it (`OpportunityForm.tsx:590`): the form of an import whose first save made
  the publisher an operator lets a second one drop it, and the API refuses;
  `LetThroughIsTaken` asks the API only about a form whose record is the stored one.
  A rolling deadline that is stored with a date, which the schema permits, loses it when
  the form is saved (`:1000`), while the form's search for repeats still looks at it: two that
  differ in that date only pass the form, become equal and are refused as repeats
  (`HidesDate`, the exception of `LetThroughIsTaken`).
- *Exporter.* Archives are written without an fsync, though `export-writer.ts:484`
  says that everything the manifest names "was on disk and fsynced"; only their
  directory is. The nightly workflow admits one run at a time; runs by hand and
  from the database are not held to that.

### Fairness

- `NotificationDispatch`: weak fairness of time, of a dispatcher that is up, and
  of the lease of each sweep: the nightly job and the process's event loop. The
  in-process queue gets none, it may drop anything. Crashes need no assumption:
  each burns a counted attempt.
- `LinkOut`: weak fairness of starting a check that is owed (the nightly batch);
  strong fairness of a fetch that answers and of the transaction after it, since a
  source that is asked again and again answers some time and not every process
  dies there. A source that never answers is never current, rightly.
- `ApiProcess`: attempts end (mails and fetches have timeouts), an armed timer fires,
  a write of a batch and a drain end, and a process that stopped is replaced. No
  request is assumed to come.
- `Nightly`: every night some process runs the job (weak fairness of starting a run,
  of each step of one, of the next pass and of its end), and a check after a write
  goes on. Failures and lost connections are bounded by the constants.
- `McpSubmit` (`clients`): a call under way goes on. Terminals, people and the clock
  get none.

`Publishing` and the three views of `transactions` have safety properties only; none
of their requests is promised to succeed.

## 4. What is proved

The theorems are about the whole specification of a module (for a module that a run
reaches through another, of that one), for arbitrary constants under the module's
named assumption, and TLC evaluates every assumption on the instance of a run. Most
assumptions only say what kind of thing a constant is. These say more:

- `IsFiniteSet` of the servers, the records, the entries and the accounts, where a
  proof counts them or picks a last one; there are as many as there are rows and
  processes.
- `None`, `Nobody`, `Nothing`, `Nowhere` are none of the values they stand
  beside, and a run of the exporter is none of the bytes it writes.
- `NeverDeadlocked` and `TransactionsAreSafe` assume `~ForeignKeys`: the statement is
  about the locks the code asks for. With those the database takes for foreign keys
  it is false, which is what `locks_foreign_keys` shows.
- `SettledRowsStay` assumes `WindowDays < RetentionDays` (2 and 180 by default; the
  retentions of one and two days that the configuration accepts are where the
  statement fails, see section 3) and `MaxLate + 1 < 2 * WindowDays`, that an event
  comes before the last sweep that looks at its day.
- `StampLands` needs no assumption on the lengths of sends and delays, since
  `OutcomeLands` is about the sends still in time. The code's send timeout of seconds
  against its retry delay of minutes puts every send in time unless its process
  stalls.
- The stored `Listings` that may be edited are objects that conform to the Standard
  (`IsListing`, `Conforms`): their lists are lists, and what the schema chooses from a
  list or requires is so. Two organizations of one listing differ in what the form does
  not know of them (`Apart`). The schema does not ask for that: the history needs a name
  for the object that an edit touched, and this member is the name. A blank and a null are
  nothing that can be typed or chosen, and what a cell shows in place of a word is a
  word it shows as it is. A location is a member of a branch, not of the top.
- The deadlines a publisher writes are finitely many, so that the last of them exists.

Each proof has the same outline: an inductive invariant, checked by TLC first, whose
conjuncts are named for what they say; one lemma for an action, or for a group of
actions that disturb the same conjuncts; and a last step that puts them together.
What has to be added to a property to make it inductive is the argument for it:

**NotificationDispatch.** `OneMailPerAttempt` holds because of who owns an attempt: a
dispatcher's bookkeeping fits where it is in its loop (`Bookkeeping`), no two
dispatchers and no later lease have the same token (`TokensDiffer`), the copy a
dispatcher holds counts what the row counted when it was leased (`CountsAgree`), and
nothing has been mailed for an attempt that has not reached the wire
(`NothingEarly`). `OutcomeLands` needs that the stamp of a row sent in time is no
older than the send (`HoldInv`). `ImplementsLedger` is the refinement: each step of
the dispatchers is, through the mapping, a step of `EmailOutbox` or a stutter, since
a row that was never recorded has no lease and an accepted send is the one mail of
its attempt (`LedgerInv`).

**Publishing.** A request holds the rows its step says (`Holdings`), no row is held
twice if somebody owns it (`Exclusive`), and the facts it decided on are about rows
it holds (`Entitled`). What another request or a member of staff may do meanwhile is
stated once (`Steady`: nothing that a request holds moves), shown for each action,
and shown to keep everything a request relies on. The ceilings follow from
`Headroom`: what was counted under the account's lock still leaves room when the row
is written. `PublicIsCleared` and `OneWinner` are inductive beside them.
`PendingCap` was first stated about every pending entry of a submitter. That is not
an invariant of the code as soon as an editor may send somebody's entry back to the
queue, which the casts with a ceiling hid; it now counts what an account itself put
there (`queuedBy`), and the theorem is for casts with editors too.

**Transactions.** *Administration*: rows are apart, and whoever is counting admins
holds those it found (`Counting`), so that none of them is demoted before the count
is used; likewise the keys of an account (`Minting`), the row of an invite
(`Redeeming`) and the authority to hand an entry over (`HandingOver`).
*Duplicates*: a merge decides on what it read, so the invariant adds that two merges
never hold the same entry (`MergesApart`), that what a merge read of the entries it
holds is still so (`SeenIsCurrent`), and that one which passed its tests still passes
them (`ClearedIsClear`), the dependents of a held entry included: attaching one needs
the entry's lock.
*RowLocks*: what a transaction holds precedes what it still asks for (`Ordered`), pairs
and entries are only ever taken for update (`Written`), and the row of a membership is
taken under that of its organisation (`Backed`). A lock somebody waits for has a
`Stage` that depends on its kind and mode and on whether it is under an organisation,
and whoever is waited for either waits at a later stage or, in the same one, for a row
with a larger id (`WaitsForLater`). A finite set of waiting transactions has one whose
wait is last (`LastWaits`), so there is no cycle of any length.
`TransactionsAreSafe` puts the three views together.

**ApiProcess.** A pump starts one id at most, a queue has no id twice, and the workers
are all busy when something waits (`QueueInv`); how many attempts are under way is
kept with whose they are (`UnderWay`). `EventsAccounted` is inductive as it stands.

**LinkOut.** `VerdictIsAboutContent` is inductive together with types: `Apply` sets
`current` only under the stale test, every write of the entry clears it.
`StraightHopStaysPut` needs what was vouched for to be related to where it was seen to
land (`VouchedHolds`): while nobody edits a pinned link, the baseline is of that link
and every landing applied is the baseline's site, unless the link is flagged.

**Clients.** *Page*: the generation counts commits and reads, so one read at most is of
the present generation, and it is the newest (`GenerationCounts`, `ReadsKnown`).
*Form*: a form that will not save has nothing to keep (`NothingToKeep`), one without a
timer has saved (`SavedWhenQuiet`), and after a log-out no form on the page has
anything to write (`QuietAfterLogout`).
*Export, the walk*: before an entry is collected every page that was read was full of
older ones; or an older one that was collected has gone, and its document will be
refused (`OnTheWay`, `Doomed`). This rests on ranks being a bijection from the public
entries onto 1 .. their number.
*Export, the files*: archives stay; one that is not what its name says is a part, left
by the run that truncated it last, which is writing it or ended while it did
(`PartBy`), and a run that is past its writes has written both to the end
(`ArchivesStay`). What is pointed to is one that was (`PointersLand`), and as long as no
two promotions overlap one run is between its two renames (`OnePromotion`).
`PointersAlwaysAgree` does not say that a published archive is whole at all times:
`export_rewrite` shows that it need not be. It says who is to blame, and that no
pointer comes before the bytes.

*The editor*: a form fits (`FormFits`): each row has the cells of its group, a cell
shows what it would show again (`Shown`), what is chosen from a list is one of it, and
the objects the organizations were read from are told apart. That much each edit keeps,
and from it follows, in two steps, that what the form lets through is taken: a row that
it finds nothing wrong with is written as one that conforms (`RowWritten`), and a
branch has what its type needs and nothing of another (`BuiltDetailsConform`). For
`RestIsKept` the history is tied to the form: what no edit touched is there as it was
read (`AsRead`), wherever the row has moved to, and of what is as it was read the
document says what the record said (`RestKept`). `SavedIsShown` is that writing, reading
and writing again is writing once (`SavedAgain`), and `IdFollows` is inductive with
`FormFits`.

**McpSubmit.** An approval is in one place, and only a rename moves it (`OnePlace`), so it
is spent once. For the budget: whoever is inside the lock holds it (`LockHeld`) and has
read what there is (`CopiesFresh`), unless a live process was robbed; and the counter
of the last window is what was sent in it and what calls under way have taken and may
give back (`UnitsCounted`).

**Nightly.** A runner that runs holds the lock unless a connection was lost
(`HeldWhileRunning`). *Reminders*: what a generator saw under the membership's lock holds
until it inserts (`GeneratorHolds`), whether or not it has the job's lock. *Totals*: the
raw events of every day a sweep looks at are complete until the sweep is through
(`HasAll`), and the rows of settled days are exact (`SweepsHold`). *Entries*: a pass's
clock is not ahead of the night's, so a key is the one its deadlines had at some time
so far (`KeyHolds`), and a reason to close an entry does not go away with time; that
the earliest of some dates exists is by well-foundedness of the naturals.
*The list*: in terms of an entry's last date the rule of the job can be solved for
time (`RuleSolved`), so a promised date is the first on which the job says inactive.
A walk of k rows keeps the soonest of those it has examined, and of all of them when
it has stopped early (`ScanHolds`): one more row makes the same of what is kept as of
everything seen (`OneMoreRow`, `SoonestNested`), and a row that has been quiet too
briefly to close before the last one kept changes nothing, nor does any row after it
(`LaterRows`). The walk is a recursive function of the number of rows. That the
function exists and that every walk has the property are both shown by a least
counterexample (`Iterated`, `ScansHold`), since the library's induction theorems
cannot be used.

Some definitions were put differently so that they could be reasoned about, with the
same meaning for TLC: the least of a set of rows is named by `First`, the length of a
page is a cardinality, the walk of `ClosingSoon` goes by the set of the rows it has
seen instead of folding over a sorted list, updates of functions avoid the operators of the TLC module, the
paths of `RowLocks` are tuples put together with `\o`, `NoCycle` has parentheses
that the two parsers do not agree about without, and `ListingEditor` names the defaults
stated over the cells (`Stating`). A property was made stronger on the way: `RestIsKept`
speaks of the members that the form does not know too, and of the rows of a list that
nobody edited. And one had to say less: the proof of `LetThroughIsTaken` failed for a
rolling deadline that is stored with a date (`HidesDate`; section 3).

Out of the prover's reach and only model-checked: liveness under fairness and ENABLED
(`EventuallySettled`, `EventuallyCurrent`, `ProcessMovesOn`, `NightWorkDone`,
`CallsEnd`). Every invariant and every action property that a passing run checks is
the statement of a theorem, or a conjunct of one.

## 5. What is not modelled

Everything that only reads or renders (catalogue, feeds, statistics, what pages
show, the OpenAPI documents), the Standard's schema and its validator, the
arithmetic of similarity, the fetcher's URL filtering and HTML extraction, the
pacing of hosts, parsing of configuration, and the wording of audit rows and
mails: none changes state the properties are about. Scripts that a person runs
once (corpus conversion, threshold reports, migrations, seeds) and the end-to-end
harness are left out as well.

Within modelled components: the website link (it follows the same rules as the
apply link), `last_seen_at` and the re-check interval, listing in `LinkOut`,
merged entries in `Publishing` (in `Duplicates` instead), what a new submitter may
then write, several embedding providers, the fields a merge copies. `JobRunner`
leaves out exit codes, reports and the deprecated name of a job; `Reminders` the
pages of a recipient's listings; `Rollup` the kinds of events; `McpSubmit` the second
of the two windows; `Drafts` other tabs and storage that refuses; `ListingEditor` the look of texts
(URLs, lengths, numbers), advice that never blocks and the way a problem finds its field; `ExportWriter` power loss and the LICENSE file. A test of a token, a
preference of a mail or a rate limit is a function of one row and one request.

Transactions whose every decision is about rows they hold locked are single
steps. READ COMMITTED is what makes the others several.

## 6. Plan

Done: the modules above, and the theorems of section 4. Left to prove: that an
embedding pass stores the vector of a text the entry had, and that only a pass
overtaken between its second look and its upsert stores an old one.

To model: a `LinkOut` of several entries under the nightly limit (starvation of the
selection), detection's locks and the paths left out of `RowLocks`, roles as state
of `Publishing`.
