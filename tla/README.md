# Verification of the audit-tools backend

TLA+ models, TLC model checking and TLAPS proofs for the parts of the FastAPI
backend under `src/` whose correctness depends on concurrent requests,
failures and retries. Paths below are relative to the repository; `app/` is
`src/app/`. `PROJECT.json` gives, for each definition, the lines of code it
models, and lists runs, mutants, findings, hazards and theorems.

## The system

The backend serves two products, **Playspace** and **YEE**, from one code base
and two PostgreSQL databases. A request handler gets a session of its own
(`app/database.py`: READ COMMITTED, `autoflush=False`,
`expire_on_commit=False`), reads rows, decides, changes objects in memory, and
commits; nothing else in the process is shared between requests. So all
concurrency is between transactions. Three facts of this set-up shape every
model here:

* A decision rests on rows **as they were read**; the commit does not look
  again. An UPDATE names only the columns that differ from the copy.
* Rows are locked (`SELECT ... FOR UPDATE`) in few places: account deletion
  and ownership transfer (`account_deletion.py`), submit and submit intent
  (`audit_sessions.py:1157`), YEE activation (`yee/services/instrument.py:257`).
  Everything else relies on unique constraints, most of whose violations
  nobody handles.
* A request can end anywhere (client gone, process or connection lost); its
  transaction is then rolled back. An answer lost after the commit makes the
  client send the request again.

### Inventory

| Component | State | Operations | Interacts with | Hard behaviour | Correct when | Model |
|---|---|---|---|---|---|---|
| Playspace audit sessions (`playspace/services/audit_sessions.py`, `audit_state.py`) | submission row, section rows and snapshot, revision, scores, idempotency key, intent time | open or resume, save draft, submit, announce a submit | account deletion (profile row lock), project removal (cascade), sweep | unlocked saves racing submits, lost answers, two devices | one delivery, final once made, retry safe, announced work not destroyed | `AuditDelivery` |
| Account deletion (`account_deletion.py`) | user, profile, drafts, assignments | delete, preview, transfer ownership | audit sessions, auth | lock order, multi-row erasure | all or nothing, nothing announced is erased, one primary manager remains | auditors: `AuditDelivery`; managers: `Organisation` |
| Stalled-submission sweep (`jobs/stalled_submissions.py`, `notify_stalled_submissions`) | notification stamp per submission | select, mail, stamp | audit sessions, e-mail | crash between mail and stamp, failing addresses, limit | only a sent mail silences, no early repeat, everyone is noticed | `StalledSweep` |
| YEE audits (`yee/routes/audits.py`, `yee/services/audits.py`, `yee/services/dashboard.py`) | audit row and submission row | save, submit, manager edit, repair | instruments (version stamp) | races decided by unique constraints only | one accepted submit, rows agree, replay answered | `YeeDelivery` |
| Organisations and managers (`auth.py`, `dashboard_router.py`, `management.py`, `account_deletion.py`) | users, manager profiles, accounts, manager invites | sign up, repair at log-in, approve, invite, accept, revoke, remove, transfer, delete | staffing (accounts), audits (cascade) | requests decide on rows others change, two lock orders | one owner, entry by invitation only, no circular wait | `Organisation` |
| Management and assignments (`management.py`, `audit_assignments.py`, `dashboard_router.py`, `notification_service.py`) | projects, places, links, auditors, assignments, notifications | create, move, remove, assign singly and in bulk, erase | all others by cascade | guards checked before an insert, partial failure of a bulk call | assignments are of existing pairs, told to who can read | `Staffing`; removal also in `AuditDelivery` |
| Instruments (`playspace/services/instrument.py`, `yee/services/instrument*.py`) | versions, active flag, parent | create, fork, edit, activate, delete, start an audit | audits (version of an audit) | Playspace: no lock, no index; YEE: validation before the lock | one active version, validated, used versions stay | `Instruments` |
| Credentials of auditors (`auth.py`, `dashboard_router.py`, `management.py`, `demo_account_reconciler.py`) | users, auditor profiles, auditor invites, tokens | sign up, verify, reset, accept, approve, restore demos | staffing (profiles) | mail before commit, reads before writes, no lock on invites | invites admit once, admitted auditors have a profile, verification is kept, no token without a mail | `Credentials` |
| Scoring and progress, Playspace (`scoring.py`, `audit_state.py`) | answers of one audit, versions | answer, submit, publish | instruments | stale answers, version changes, Unsure | readable when complete, ranges hold | `PlayspaceScores` |
| Scoring and publication, YEE (`yee/services/scoring_*.py`, `instrument_activation.py`, `submission_validation.py`) | versions, answers, score of one audit | publish, answer, submit | instruments | gate and scorer are written separately | what passes the gate scores, complete audits count | `YeeScores` |
| Dashboards, lists, exports (`playspace/services/dashboard.py`, `admin.py`, `export_context.py`, lists of `audit_sessions.py`) | none (reads five tables) | some thirty queries | all Playspace rows | the same number by different joins | views agree | `PlayspaceViews` |
| YEE dashboard and reports (`dashboard_router.py`, `yee/services/dashboard.py`) | none, and the repair of submissions while reading | pages, lists, reports | all YEE rows | the same number by different joins, moved places | pages and reports agree | `YeeViews` |
| Bug reports (`bug_reports.py` of both products) | reports, known issues | file, triage, publish | projects, places, submissions | verified by separate reads before the insert | breadcrumbs are kept | `Support` |
| Masking of addresses, mobile release proxy, mail and SMS, database wiring, seed data, migrations | - | read-only, external or one-off | - | - | - | not modelled |

### Plan

Ordered by how much harm a mistake does. 1 to 9 exist.

1. `SubmissionContract`: what the product promises about an auditor's work.
2. `AuditDelivery`: sessions and account deletion as transactions with locks,
   shown to implement 1. `AuditDeliveryProofs`.
3. `StalledSweep`: the sweep, its failures and its liveness. `StalledSweepProofs`.
4. `YeeDelivery`: the YEE rows under unlocked races. `YeeDeliveryProofs`.
5. `Organisation`: owners, managers and invites of organisations.
6. `Staffing` and `Credentials`: who works where, and how he got there.
7. `Instruments`: the life of a version under the three protections the code
   has; `PlayspaceScores` and `YeeScores`: what a version makes of answers.
8. `PlayspaceViews` and `YeeViews`: what everybody is shown of all this.
9. `Support`: bug reports.
10. Proofs about 5 to 9, component by component: `OrganisationProofs`,
   `CredentialsProofs`, `InstrumentsProofs`, `AdministrationProofs` (staffing,
   support and the five together), `FiguresProofs` (views, scores, publication).

Every safety property that a run checks is also a theorem. What stays with TLC is
liveness; the hazards without a property are listed in `PROJECT.json` with the reason.

## Modules and code

| Module | Role |
|---|---|
| `SubmissionContract` | abstract: a slot is none, draft or delivered; may be promised or closed; an auditor may leave |
| `AuditDelivery` | detailed: requests, row locks, private copies, commits |
| `AuditDeliveryMC`, `*.cfg` | instances for TLC |
| `AuditDeliveryProofs` | TLAPS proofs about `AuditDelivery` |
| `StalledSweep`, `StalledSweepMC`, `StalledSweepProofs` | the sweep |
| `YeeDelivery`, `YeeDeliveryMC`, `YeeDeliveryProofs` | YEE submissions |
| `Organisation` | managers, organisations, manager invites, ownership |
| `Staffing` | projects, places, auditors, assignments, notifications, saved reports |
| `Instruments` | versions of an instrument, in three catalogues |
| `Credentials` | auditors' log-ins, invites, approval, passwords, demo accounts |
| `Support` | bug reports and known issues |
| `AdministrationMC` | the five above as one instance |
| `OrganisationProofs`, `CredentialsProofs`, `InstrumentsProofs` | proofs about the module of that name |
| `AdministrationProofs` | proofs about `Staffing`, `Support` and the five together |
| `PlayspaceScores` | progress and scores of an audit under changing versions |
| `YeeScores` | publication gates, completeness and scores |
| `PlayspaceViews`, `YeeViews` | what pages, lists, reports and exports show |
| `Totals` | the sum that the two view modules share |
| `FiguresMC` | the four above as one instance |
| `FiguresProofs` | proofs about the views, Playspace scores, and the types of all four |

A definition named `..._Bug` is a plausible mistake in the definition after
it; no specification uses it. Each checked property is known to notice one
(`mutants` in `PROJECT.json`).

### AuditDelivery

`row[s]` is the submission of slot `s` (a project, place, auditor triple) with
its child rows and its snapshot; `removed` the slots a manager has closed;
`linked[a]` whether the auditor's user still points at the profile;
`userLock`, `profileLock` the row locks; `pc`, `call`, `base` per request where
it is, what it asks for and the copy it has loaded. An action is what happens
between two points where other transactions can be seen:

| Actions | Code |
|---|---|
| `CreateCheck`, `CreateLookup`, `CreateInsert` | `create_or_resume_audit` |
| `PatchLoad`, `PatchCommit` | `patch_audit_draft` (one UPDATE of changed columns, child rows merged by what the copy held) |
| `LockProfileForAudit` | `_lock_auditor_profile_for_audit` (`audit_sessions.py:1137`) |
| `SubmitLoad`, `SubmitCommit` | `submit_audit` with the idempotent replay |
| `IntentLoad`, `IntentCommit` | `record_submit_intent` |
| `DeleteLockUser`, `DeleteLockProfile`, `DeleteVerify`, `DeleteErase` | `delete_account`, `_delete_auditor` |
| `Withdraw` | `delete_project`, `delete_place` and the unlinking of a place: cascade, no lock |
| `Crash` | disconnect or process loss before the commit |

Abstractions, all on the side of more behaviour or of data no property tells
apart:

* A load is one atomic read (parent row and child rows come from consecutive
  SELECTs of one handler). Answers are the identity of their writer: who
  inserted a section's rows and who wrote them last.
* A section has one row; a save always changes values. An UPDATE whose row is
  gone fails alone and is not counted in a batch (`Misses` allows both).
* Assignments are rows of another component: a nondeterministic refusal.
  Likewise the dependencies of a personal account.
* Not modelled: schema checks and execution modes (422), the correction of
  `started_at` on an untouched draft, audit codes, score values. No code sets
  the status PAUSED, so it is not a state.
* A submission that vanishes while a request waits for the lock is answered
  as missing; the reload after the commit only builds the response.

### StalledSweep

`status`, `rank`, `waited`, `reachable` are what the application keeps
(submission status, order and age of the intent, address on file); `silence`
is the age of `submit_stall_notified_at`; `mailed`, which no column stores, is
the age of the last notice that really left; `pc`, `todo`, `known`, `sent`,
`age` are one run. Time is counted in ticks and each clock stops at the last
value a comparison tells apart, so "never" and "at least the renotify period
ago" are one value. `Start` is the SELECT with its order and limit,
`SkipUnknown`, `SendFails` and `Send` one turn of the loop, `Finish` the
commit of the stamps (with the time the run **started**), `Crash` its loss.
`Announce`, `Deliver`, `Erase` and `ChangeAddress` are the application.
Only one run works at a time: it is an hourly cron job, which the platform
does not start twice. Two runs started by hand are outside the model.

### YeeDelivery

`audit` and `sub` are the two rows of one auditor and place, `base[r]` the
copy request `r` loaded. No pair shares a row with another, so one is enough.
`DraftCheck/Load/Commit` is `save_yee_draft`, `SubmitCheck/Load/Commit/Reload`
is `submit_yee_audit`, `EditJoin/EditCommit` is
`update_manager_audit_edit_state`, `ShowJoin/RepairCommit` is
`fetch_manager_audit_edit_state` with `_repair_missing_yee_submission`.
`Written` is the rule that an unchanged column is left out of the UPDATE, and
`SubTaken`, `AuditTaken` are the unique constraints. `Init` includes submitted
audits without a submission row, which the repair exists for.

Abstractions: scores are a function of answers and version and follow them;
audit rows without a version and submission ids of other audits are left out;
assignment, completeness and unknown versions are nondeterministic refusals.
The rollback of a lost race expires the place and the auditor in the session,
so a replay that lost the race ends in an error ("broken"); this is what the
ORM does with `AsyncSession`, see the findings.

### Organisation

A person is an e-mail address; `user`, `profile`, `account` and `invite` are
the rows of the four tables, `product` says whose database it is. A request is
a record in `request`: a first step (`SignupStart`, `InviteStart`,
`TransferStart`, ...) reads and applies the guards, a second writes against
what the database holds by then. Only `TransferOwn`/`TransferBoth`/`Transfer`
(`transfer_primary_manager`) and `DeleteOwn`/`Delete` (`_delete_manager`) lock
rows, one at a time; `rows` are the rows a request holds or has loaded, and a
row that was deleted and made again is not the one that was loaded. `Ensured`
is `_ensure_manager_profile_for_user`, which sign-up and every log-in run.
`named` remembers (the database does not) which address managers entered for
an organisation, since such an address lets its owner sign up into it.
Bounds: `Accounts`, `Invites`, `Slots` and `MaxAddresses`.

### Staffing

`projects`, `places`, `linked`, `auditor`, `assigned`, `notice`, `reports` are
rows, `site` the product. Requests whose guards the constraints repeat are one
step (`CreateProject`, `RelinkPlace`, `DeletePlace`, `EraseAuditor`, ...); those
that remember what they read are two (`Assign` after `CreateAssignmentStart` or
a bulk start, `Rescope`, `MovePlace`, `WriteReports`, `DeleteProject`). `Left`
is the cascade of the composite foreign key, `Tellable` the foreign key of a
notification. `Reports` bounds the saved reports.

### Instruments

One table `instr` under one of three protections (`catalogue`): Playspace with
none, YEE with lock and unique indexes, the site copy with the lock and no
index. `lock[r]` is what activation `r` has of the rows it deactivates: it has
`asked` for those it has `seen`, stands `behind` the activations that asked for
one of them before, and deactivates those in `cleared`: on Playspace what its
one UPDATE saw when it asked, else what is there when its turn has come
(`AskForRows`, `ClearRows`). `Use` is the start of an audit that read the
active version before, `Disuse` the removal of the last audit with it.
`raced` is history: the versions of which an edit and an activation were in
progress together, until an activation starts that meets neither. Content is "legacy", "authored" or "unsound".

### Credentials

`login`, `seat`, `offer`, `wanted` are users, auditor profiles, auditor invites
and access requests by e-mail; `mail` the links handed to the mailer, each with
whether its delivery succeeded (`arrived`). The code does not look at that:
`Post` lets it be either, and what commits afterwards (`Enrol`, `Remail`) writes
the token all the same. `Merged` writes only what differs
from the copy. `TakeUp` is `accept_invite`, `Admit` `approve_user`, each after
`LoadRest`, its second SELECT. `Reconcile` and `ResetDemoPassword` are the demo
accounts. Passwords and tokens are the numbers up to `MaxFresh`. `Vacant` is
the unique index on the address: who inserts one waits for an insertion that
has been flushed and is refused when that commits.

### Support

`FileStart` reads what the reporter may reach, `FileReport` inserts links and
crumbs, `RowDeleted`, `Reassigned`, `PlaceMoved` happen between and after.
What he reaches becomes a link, all else that he named a crumb.

### PlayspaceScores

One audit, and versions given as data (`Edition`): questions with their mode,
constructs, domains, options and conditions. `answers` keeps what was accepted
under any version; `Resolved` is the version that reads them. `ReadyToSubmit`
is the progress computation, `QuestionScore`, `Buckets` and `Score` are
`scoring.py` in its three readings of Unsure. `Breaks` and `Fails` are where the
code raises instead: a scaled question without the scale of provision, a
multiple choice whose options are not the three keys of company, an answer to it
that is none of them (`Unreadable`); such a submit changes nothing. Integers
stand for the weights; rounding and legacy aliases of options are left out.

### YeeScores

`versions` are published forms; `PublishDraft` and `CreateActive` apply the
gates (`KeepsQuestion`, `Resolves`, ...), `Reply` and `SubmitAnswers` are an
audit, `Missing` its completeness check, `Snapshot` the engine. Scores are
hundredths, since weighting divides. `SpecsAssumption` is what `ITEM_SPECS` has.
A form without authoring (or one whose authoring is only its derived view, and
is not stored) may lack a label for a scored answer. The gates admit it, and what
a copy of it then promises is part of the property (`Entire`).

### PlayspaceViews and YeeViews

The tables are the state; a view is an operator, written from its query with
the joins and filters it has: some thirty in `PlayspaceViews`, some twenty in
`YeeViews`.
The actions are what changes the tables, in the order requests allow. In
`PlayspaceViews` a save is split (`SaveStart`, `Save`) because it may commit
after the submit, and one save is under way at a time. In `YeeViews` requests
are atomic, because what a race could change there (the project of a place that
work refers to) the foreign keys refuse at the commit; reading a list can write
(`OpenAudits`, `OpenProject` repair missing submissions) and is therefore an
action. A mean is the set of submissions it is taken over.

## Runs

| Run | Shows | Bounds |
|---|---|---|
| `delivery` | types, one delivery, safe retries, announced work kept, lock discipline, deliveries final, intents stamped once, and the refinement of `SubmissionContract` | 3 requests of any kind, 1 slot, 2 sections, 1 key (or none) |
| `delivery_ends` | every request ends; the erasure of several slots is one abstract step | 2 requests, 2 slots of one auditor, weak fairness |
| `submitted_edited` | violation: a save changes a submitted audit | 1 slot |
| `revision_lost` | violation: two saves share a revision | 1 slot |
| `draft_orphaned` | violation: a draft outlives the account | 1 slot |
| `sweep` | types, stamps only after mails, a run owns its selection, no early repeat, every stalled audit is noticed for ever | 2 audits, limit 2, stall 1, renotify 2, 1 crash |
| `sweep_starves` | violation: with more unmailable audits than the limit others are never mailed | 2 audits, limit 1 |
| `yee` | types, the accepted submit is kept, replays are not refused, rows agree, never reopened | 3 requests, 2 answer sheets, 2 versions, 1 key (or none) |
| `yee_draft_overwrites` | violation: a late draft save changes a submitted audit row | 2 requests |
| `yee_replay_broken` | violation: a replay that lost the race gets an error | 2 requests |
| `administration` | one accountable owner, entry by invitation, profiles of members, no circular wait; sound assignments, none made for an erased auditor by who did not know; one active version, validated, used versions kept; invites spent once, the admitted have a profile, verification is kept; breadcrumbs of reports | 2 requests at a time; 2 persons, organisations; 2 projects, 1 place, 1 auditor, 2 assignments; 2 versions; 1 auditor address, 3 passwords or tokens; 1 report and issue |
| `figures` | ranges of Unsure, stale answers, complete audits are readable; publication promises; agreement of all views | 2 Playspace editions of 2 and 3 questions, company named as large groups or all three; 6 drafts of a form of 2 items, one of them without labels, 3 versions, a form without authoring names no parent, completeness unenforced only for an audit begun before the catalogue; 3 possible sessions, 2 submissions; 3 YEE projects, 2 places, 1 auditor |

Why the bounds are enough to meet the interesting cases. A race needs two
requests that overlap; a third one lets a retry follow a race, or a deletion
come between an announcement and its submit. Two sections separate partial
from complete answers and let two saves touch different or equal rows. Two
slots are needed only for an erasure that takes several rows at once. One key
plus "no key" separates replay, other key and none. In the sweep two audits
are needed for order and limit, a renotify period of two ticks lets a run end
inside and outside the window, and one crash shows the loss of stamps.
Symmetry (requests and sections; requests, answers and versions) is used in
safety runs only. All safety results are proved for all values below; for them the
bounds matter only as a check of the model.
`administration` and `figures` each hold several components that share no
variable. Their variable `part` says which one moves while the others stay
where they start: a product of independent state spaces would say nothing that
each does not say alone, and the properties of one component read only its own
variables (and hold of the others' initial states, which their own parts
check). In `administration` one of each pair of symmetric sets shares its
values with others, so that TLC permutes three pairs; no definition compares
members of different components. Two organisations and two persons let a
transfer meet a deletion, a removal and a sign-up; two versions are a race of
two activations; one auditor address is enough for the races of one person's
requests, the invitation and approval of others touch other rows. In `figures`
the editions differ in what has been seen to matter: a scale that changes from
one choice to many, a question that one of them lacks, a condition on a
follow-up, Unsure and not-applicable options, all of it content that validation
lets through; the drafts contain each kind of change that a gate
decides about. In one run by hand, `YeeViews` was also checked with 2 places
and 2 auditors (118 248 states).
The runs of `AuditDelivery` and `YeeDelivery` switch the deadlock check off:
every request is used once and the system stops when all have ended. What the
check would find (waiting for ever) is `EveryRequestEnds`. So do
`administration` and `figures`: identities of rows, passwords and versions are
bounded, and a component may stop at its bounds; there, waiting in a circle is
what `NoCircularWait` excludes. The sweep never stops and its deadlock check is
on.

### Fairness

* `AuditDelivery`: weak fairness of each request's next step. The event loop
  serves every coroutine and PostgreSQL grants row locks to waiters in order.
  Clients are not fair: nobody has to send anything, and crashes need not
  happen.
* `StalledSweep`: weak fairness of time, of starting and finishing runs and of
  the loop; strong fairness of a mail getting through, which says that a mail
  tried in every run does not fail every time. Without it the promise is void:
  no code can reach an address that always fails. `MaxCrashes` bounds the runs
  that die, since a job that is killed every time promises nothing.
* `YeeDelivery` states no liveness.

## Findings

1. `submitted_edited`: `patch_audit_draft` tests the status on an unlocked
   copy, so a save can change a submitted audit's answers, revision and
   scores. The delivered snapshot is safe (`DeliveredIsFinal`, proved).
2. `revision_lost`: the new revision is computed from the copy; concurrent
   saves share one, and the optimistic check lets both pass.
3. `draft_orphaned`: opening an audit is not protected against the deletion of
   the account between check and insert.
4. `sweep_starves`: rows that cannot be mailed stay oldest and eligible; when
   they fill the limit, nobody else is notified.
5. `yee_draft_overwrites`: the same shape as 1 for the YEE audit row.
6. `yee_replay_broken`: the handler of a lost race reads objects that its own
   rollback has expired.

### Observations without a run

What the newer modules contain and no property forbids, because no text of the
repository promises otherwise or the case is a plain race of two people; and
where a comment says more than the code does.

* Organisation (YEE): a removal that meets the confirmed second sign-up of the
  removed manager leaves his user without organisation while he owns a new one;
  a removal that meets `GET /me` leaves a profile nobody belongs to; revoking
  an invite while it is accepted deletes the linked profile. Hence
  `MembersHaveTheirProfile` speaks of Playspace. Two owners who name each other
  across organisations can deadlock (`account_deletion.py:508`); the limit of
  five further managers can be exceeded concurrently.
* Staffing: `update_place` does not refresh the place types of a project that
  a place leaves, though `management.py:239` says they always reflect it; bulk
  assignment says duplicates are skipped, but a repeated or concurrent one
  raises at the flush (`audit_assignments.py:237`), outside the handler around
  the commit; concurrent edits of the saved reports of a place lose one.
* Instruments: `next_published_version` calls its numbers monotonic and free of
  collisions, yet deleting the highest unused publication, or two creations,
  reuse a number; deleting a parent turns its drafts into publications; an
  audit that starts while its version is deleted keeps the stamp of a missing
  row, although `yee/services/instrument.py:405` protects referenced versions.
  In YEE an edit of the version that is being activated can put unvalidated
  content before auditors: `_update_yee_instrument_status` validates at line 257,
  before it takes the lock, and an edit takes none. `ActiveWasValidated` excepts
  exactly the versions this happened to (`raced`).
* Credentials: `auth.py:609` says an auditor who asked for access waits until a
  manager creates his profile; `create_auditor_profile` refuses it because the
  request has created the user, and the approval route exists for YEE only.
  A mail that could not be delivered goes unnoticed: `send_verification_email`
  returns False, `auth.py:944` ignores it and commits the new token over the one
  that was mailed before, and the answer to a request for a new link still says that one
  has been sent (`auth.py:1220`). Hence `VerificationIsKept` says that the token
  of an unverified user was given to the mailer for him, not that he got it.
* PlayspaceScores: lists score submitted audits again with the version in the
  file, the session view with the resolved one, the dashboard reads the stored
  score. `SCHEMA.md` calls the readings of Unsure a range: true of totals, as
  `UnsureRange` checks; as shares of the maximum it can fail, since the
  canonical maximum is smaller. A question counts once for each of its domains.
  Validation lets through what scoring does not expect: an Unsure option that
  opens follow-ups, multipliers below one (the range can then be reversed, see
  `Measures`); a condition on a follow-up or on a question that has a condition,
  so that an answer nobody sees any more keeps a question visible
  (`ShownByStale`); a scaled question that is not required, whose stale answer
  about company makes the submit fail after progress called the audit complete.
* YeeScores: no gate refuses two questions on one cell, which is the condition
  `OwnCells`; `PresenceItemSpec.max_score` has no floor of zero;
  the weighted total adds rounded scores, its maximum is rounded once; a legacy
  form without a label for a scored answer can be copied, and audits under the
  copy cannot be scored: the gate compares the questions derived from labels, and
  does not ask whether they can score.
* PlayspaceViews: averages without a status filter are right only because a
  submit alone writes score columns; the two `average_scores` are different
  means; admin lists of a hundred auditors also cap their total.
* YeeViews: the place list calls a place with only a draft up to date, its page
  says it needs review; audits of an auditor who changed accounts are counted
  but not listed; reports lack the oldest audits until a list is opened. Moving
  a place that work refers to is an unhandled integrity error
  (`dashboard_router.py:2025`): what keeps the views in agreement is the key.

## Proofs

All results are for every value of the constants that the assumptions admit: any
number of auditors, projects, places, versions, requests and so on.

**Assumptions.** Each module names its own, and TLC evaluates them in every run.
That the markers (no request, no key, nobody, no row) are none of the things
they stand beside: `DeliveryAssumption` (also: there is a slot, each has an
owner), `YeeAssumption` (there are answers and versions), `InstrumentsAssumption`,
`OrganisationAssumption`, `StaffingAssumption` (each project has an owner),
`SupportAssumption`. `SweepAssumption`: finitely many audits, a positive limit
and renotify period. `CredentialsAssumption`: there is an organisation,
addresses are finitely many, and a password can be made. `ViewsAssumption`, `YeeViewsAssumption`: finitely
many projects, places, auditors and accounts (what is shown are counts), each project
in one account. `SpecsAssumption`: `ITEM_SPECS` is a finite list with distinct keys, a
pair has scores for both items and some positive one for the first. `YeeFormAssumption`:
forms have the fields and whole-number scores of their schema (negative ones
included), "unanswered" is no option, and the form in the repository, with which
the catalogue begins, has no authoring and a label for each answer it scores; drafts
need have none. `EditionAssumption`: what is validated before auditors see an
instrument, that is known kinds, distinct option keys in a scale, and the three
keys of company, each worth one. (Versions stored before keys were validated can
have repeated ones, as two files in `instruments/` do; they are outside the
model.) What validation does not ask for is not assumed: where a property is true
only of content that measures as scoring expects, or of audits in which no unseen
answer keeps a question visible, it says so itself (`Measures`, `ShownByStale`,
`Entire`, `OwnCells`). Nothing else is assumed; the
bounds are constants like all others.

**AuditDelivery.** Types first. `LockDiscipline` is inductive together with
them: a lock is held exactly by the request whose program counter says so, a
submit or intent about to commit still finds its draft in progress with the
intent it read (unless a manager removed the slot), and a deletion about to
erase still finds nothing announced. It is needed because every other property
speaks of rows and outcomes only, and a step that commits is safe only by what
its request checked while it held the lock. From it `StepEffect` classifies
each step by its effect on the rows (opened, edited, delivered, announced,
erased, nothing), with `RowsSound` for the shape of rows. `DeliveredIsFinal`,
`IntentStampedOnce` and the refinement follow from that classification alone.
The outcomes need history: `Told` says that what a request was told stays true,
which gives `OneDelivery`, `RetryIsSafe` and `AnnouncedWorkIsKept`.
`Implementation` maps each commit to one step of `SubmissionContract` and the
rest to stuttering.

**StalledSweep.** The invariant is types, `StampMeansSent` and
`RunOwnsItsSelection`: what a run has selected or mailed is unstamped and each
mail of the run is no older than the run, so stamping with the start of the run
never claims a mail younger than it was, and time moves both clocks together.
`NoEarlyRepeat` follows because only `Finish` stamps and only one run is at work.

**YeeDelivery.** Without locks, the argument is that rows only grow: a
submission keeps its key and version, an audit keeps its version and is never
reopened. `CopySound` says a copy can be out of date only by growth; each commit
is checked against that, and what growth would break the unique constraints
refuse.

**Organisation.** `OrgInv` adds to types and properties what an open request
rests on. `RequestsSound`: the organisation it leads to exists, rows it has
loaded are what it found (a deleted row that was made again is not among them),
and what a transfer or a deletion has locked still is as it was checked.
`LocksApart`: no row is locked twice. `OfExisting`: users, profiles and invites
are of organisations that exist. `Addresses`: an organisation carries the
address of its owner or one that its managers entered; without it a sign-up
could not be told from an intrusion. Most steps are `Quiet`: they found nothing
and hand nothing over, and each part of the invariant follows from what `Quiet`
says of each table. `Founding` and `HandingOver` have lemmas of their own, since
only they touch who owns. `NoCircularWait` follows from the order in which the
two locking requests take rows. `EntryByInvitation`, an action property, follows
from `OrgInv` and what a request has loaded.

**Credentials.** Mail is sent before the commit and links are never unsent, so
the invariant need not say who reads them; it needs `WellFounded`: what a request
found is still there, its token has been given to the mailer, the invitation it accepts is its
own. `Moves` says what a step may do to each table; each action satisfies it,
and each part of the invariant follows from it. A new auditor code is one more
than the greatest, which exists because the addresses are finitely many.

**Instruments.** `RequestsInv` relates a request in progress to its row: who
stamps, edits or deletes what (`ActiveWasValidated`, `UsedVersionsStay`).
`RacesAreSeen` is the part about edits that meet activations: outside `raced`, the
content an activation validated is still what its row holds, and no edit of that
row is open.
`OneActiveVersion` is about the queue. `Queues`: of two activations that have
seen a common row one is behind the other, and who has cleared has nobody before
it. `SeesEarlier`: of two activations one has seen the other's version and waits
for it. Hence `ClearedButBorn`: when an activation has cleared its rows, what is
still active was inserted active, which YEE's index forbids and which the
property excepts for the other two.

**Staffing.** `TasksSound` says what stays true of what a request has read:
whom it assigns has a profile, and if he still has a user the request saw it.
`SoundAssignments` follows: rows are of linked pairs, by the foreign key, and an
auditor with a user is told. Three predicates (`ProfilesMove`, `NoticesMove`,
`AssignmentsMove`) stand between the actions and the invariant.

**Support.** `FilingsKeepCrumbs` extends the promise to reports under
verification: what `FileStart` found accounts for every name whose row exists,
and rows only go. A link may have gone since; `FileReport` then fails by its
foreign key, and `RowDeleted` takes the links of reports that are there.

**Administration.** `ComponentsRun`: in the joint specification each component
runs as its own specification says, so its theorems hold there.

**Views.** Where a row can be is the invariant: in YEE the project of an audit
or assignment is the one of its place (`WorkStaysInItsProject`); in Playspace
work is at places linked to its project, and a draft has no scores
(`WorkIsSited`). That two queries then agree is a matter of sets: one joins
through the place, another through the assignment, and both meet the same rows.
Where a page adds up the rows of a list, the sum is over a partition.
`TotalOfParts` and `TotalSplits` prove that a sum over the whole is the sum over
the parts, for any finite set. The library's induction rules cannot be used (they
take an operator), so `AllNumbers` derives induction from the least number of a
set, and `RunningTotal` shows the recursive function of a fold to be defined.

The attempt found a mistake in five definitions that classify a status or a
score: they were CASEs whose guards overlapped, where TLA+ takes **any** arm that
applies, while TLC and the code take the first. They are IF chains now.

**Scores.** `UnsureRange` compares three runs of the same computation.
`QuestionInOrder` is the heart: of one question the three tallies are in order,
by cases on the answer about provision (Unsure, not applicable, with or without
follow-ups), because a follow-up reads in order (`FollowUpsInOrder`) and
multipliers of at least one keep products in order. `SumsInOrder` carries the
order through sums over questions and domains. All this needs `Measures`, which the
property asks of the questions that are seen, and no assumption does. When no Unsure answer counts, no
question reads the policy at all (`SureQuestion`). The invariant needed of the
answers is `FewKeys`: a multiple choice of company never stores more than the
three keys that validation admits, or a total could exceed its maximum of three.

`StaleAnswersDontCount` holds because the same questions show without the unseen
answers (`ScrubbedConditions`, where `ShownByStale` is needed) and because scrubbed
answers read alike (`ReadAlike`): they agree about provision, and about everything
when the chosen provision opens follow-ups; whatever is computed reads nothing
else. `ReadyAuditsScore` holds because the test for completeness is at least as
strict as the reading that can fail, question by question (`CompleteDoesNotBreak`);
`OneChosen` uses that option keys are distinct.

**Publication in YEE.** `PublicationKeepsItsPromise` follows from `PublicationInv`. Every
version is well formed; one that is no copy can score, and a copy keeps the structure of its
parent (`KeepsParent`), which survives any later activation because a version that is
activated again is written with the questions it had (`FormsStay`). `AdmittedIsBound` is
what the gates give. `DerivedReads` is the core: the question derived from a scored item is
scored as that item, so a copy of a form without authoring but with labels (`Entire`) has
the contract `ITEM_SPECS` (`ContractOfQuestions`), and a copy of a copy that of its parent
(`StructureIsKept`). Of
the audit the invariant says that each cell holds an option of its question (`Fits`),
for which `OwnCells` is needed, and that what is stored is what scoring gives and was
complete. Then each question counts for no more than its maximum (`AnsweredCounts`,
`ItemsHaveMaxima`), sums keep the order (`TotalsInOrder`), and so does rounding, which
loses at most one hundredth of a difference (`RoundingKeepsOrder`).

**Types.** `FiguresTypes` and `AdministrationTypes` collect those of all
components. Two need more than the types: that an audit keeps an answer record
for every question, and that versions are a sequence of records.

**Only model-checked.**

* Liveness (`EveryRequestEnds`, `EveryStalledNoticed`): fairness and ENABLED are
  outside what the prover handles here. The violations are counterexamples,
  found by TLC.

## Not modelled

Masking of addresses (a pure function on strings), external services (mail,
SMS, app stores and the cache of their answers), the engine and its sessions
(`database.py`, present only as READ COMMITTED and rollback), password hashing
and token signatures, sessions and rate limits, seed data and migrations,
response assembly, the layout of exported files. In the modelled components,
what only displays read. `PROJECT.json` gives the reason for each, and for each
hazard the properties that cover it or why none does.

## Running

    tlc -workers 2 -config AuditDelivery.cfg AuditDeliveryMC.tla
    tlc -workers 2 -config StalledSweep.cfg StalledSweepMC.tla
    tlc -workers 2 -config YeeDelivery.cfg YeeDeliveryMC.tla
    tlc -workers 2 -config Administration.cfg AdministrationMC.tla
    tlc -workers 2 -config Figures.cfg FiguresMC.tla
    tlapm AuditDeliveryProofs.tla

The other configurations are run with the MC module of the same prefix
(`SubmittedEdited`, `RevisionLost` and `DraftOrphaned` with `AuditDeliveryMC`,
`SweepStarves` with `StalledSweepMC`), and `tlapm` with each of the `...Proofs`
modules. Each takes at most a few minutes.
