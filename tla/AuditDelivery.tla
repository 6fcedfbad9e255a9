--------------------------- MODULE AuditDelivery ---------------------------
(***************************************************************************)
(* Playspace audit sessions and auditor account deletion, as concurrent    *)
(* requests on one PostgreSQL database.                                    *)
(*                                                                         *)
(* Each request runs in its own session (app/database.py: READ COMMITTED,  *)
(* autoflush off), so what it loads is a private copy, `base', and nothing *)
(* it changes is visible before its commit.  The flush and the commit are  *)
(* one call and therefore one action here; every SELECT a decision rests   *)
(* on is an action of its own.  The UPDATE that the ORM emits names only   *)
(* the columns that differ from the copy.                                  *)
(*                                                                         *)
(* The only locks are SELECT ... FOR UPDATE on the user row (deletion) and *)
(* on the auditor profile row (deletion, submit, submit intent).  Opening  *)
(* an audit takes none, but its INSERT checks the foreign key to the       *)
(* profile, which waits while another transaction holds the row.  Saving   *)
(* a draft takes none at all, and neither does a manager who deletes the   *)
(* project or the place: that takes the submissions along in any state.    *)
(*                                                                         *)
(* Data is abstracted to who wrote it: a section holds the identity of the *)
(* request that created its rows and of the one that last wrote them.      *)
(***************************************************************************)
EXTENDS Naturals

CONSTANTS
    Auditors,   \* auditor profiles
    Slots,      \* (project, place, auditor) triples
    OwnerOf,    \* the auditor of each slot
    Sections,   \* sections of the instrument, all of them required
    Keys,       \* submit idempotency keys a client may send
    Requests,   \* HTTP requests, each used once
    NoRequest,  \* nobody
    Origin,     \* writer of what was there before the first request
    NoKey       \* a submit without idempotency key

ASSUME DeliveryAssumption ==
    /\ Slots # {}
    /\ OwnerOf \in [Slots -> Auditors]
    /\ NoRequest \notin Requests
    /\ Origin \notin Requests
    /\ Origin # NoRequest
    /\ NoKey \notin Keys

VARIABLES
    row,         \* row[s]: the submission row of slot s and its child rows
    removed,     \* slots whose project, place or link a manager has deleted
    linked,      \* linked[a]: the user exists and the profile points at it
    userLock,    \* userLock[a]: the request holding the user row
    profileLock, \* profileLock[a]: the request holding the profile row
    pc,          \* pc[r]: where request r is, or how it ended
    call,        \* call[r]: what request r asks for
    base         \* base[r]: the submission as request r loaded it

vars == <<row, removed, linked, userLock, profileLock, pc, call, base>>

Ids == Requests \cup {Origin, NoRequest}

\* The rows of one section: who inserted them and who wrote them last.
Cells == [born : Ids, by : Ids]
NoCell == [born |-> NoRequest, by |-> NoRequest]
Answers == [Sections -> Cells]
Blank == [x \in Sections |-> NoCell]
Answered(a) == {x \in Sections : a[x] # NoCell}
IsComplete(a) == Answered(a) = Sections

Rows == [ status   : {"absent", "in_progress", "submitted"},
          id       : Ids,
          answers  : Answers,
          revision : Nat,
          scores   : {"empty", "progress", "calculated"},
          snapshot : Answers,
          key      : Keys \cup {NoKey},
          intended : Ids ]

(***************************************************************************)
(* Definitions named ..._Bug stand for a plausible mistake in the code of  *)
(* the definition that follows them.  The specification does not use them; *)
(* each shows that a property would notice the mistake.                    *)
(***************************************************************************)
NewRow_Bug(i) == [ status |-> "paused", id |-> i, answers |-> Blank,
                   revision |-> 1, scores |-> "empty", snapshot |-> Blank,
                   key |-> NoKey, intended |-> NoRequest ]

\* A submission as create_or_resume_audit inserts it.
NewRow(i) == [ status |-> "in_progress", id |-> i, answers |-> Blank,
               revision |-> 1, scores |-> "empty", snapshot |-> Blank,
               key |-> NoKey, intended |-> NoRequest ]

AbsentRow == [NewRow(NoRequest) EXCEPT !.status = "absent", !.revision = 0]

\* A draft that was saved once before the first request.
SavedRow(done) ==
    [NewRow(Origin) EXCEPT
       !.answers = [x \in Sections |->
                      IF x \in done THEN [born |-> Origin, by |-> Origin] ELSE NoCell],
       !.revision = 2,
       !.scores = "progress"]

Calls == [ kind     : {"none", "create", "patch", "submit", "intent", "delete"},
           slot     : Slots,
           audit    : Ids,             \* the submission id the client names
           expected : Nat,             \* expected_revision, 0 when not sent
           key      : Keys \cup {NoKey},
           writes   : SUBSET Sections, \* sections the save carries
           replace  : BOOLEAN ]        \* payload.aggregate instead of a patch

NoCall == [ kind |-> "none", slot |-> CHOOSE s \in Slots : TRUE,
            audit |-> NoRequest, expected |-> 0, key |-> NoKey,
            writes |-> {}, replace |-> FALSE ]

Running == {"check", "lookup", "insert", "load", "lock", "commit",
            "lock_user", "lock_profile", "verify", "erase"}
Ended == {"created", "resumed", "saved", "delivered", "replayed", "recorded",
          "ignored", "deleted", "missing", "stale", "conflict", "incomplete",
          "refused", "failed"}

TypeOK ==
    /\ row \in [Slots -> Rows]
    /\ removed \in SUBSET Slots
    /\ linked \in [Auditors -> BOOLEAN]
    /\ userLock \in [Auditors -> Requests \cup {NoRequest}]
    /\ profileLock \in [Auditors -> Requests \cup {NoRequest}]
    /\ pc \in [Requests -> {"new"} \cup Running \cup Ended]
    /\ call \in [Requests -> Calls]
    /\ base \in [Requests -> Rows]

Init ==
    /\ \E present \in SUBSET Slots : \E done \in SUBSET Sections :
         row = [s \in Slots |->
                  IF s \notin present THEN AbsentRow
                  ELSE IF done = {} THEN NewRow(Origin) ELSE SavedRow(done)]
    /\ removed = {}
    /\ linked = [a \in Auditors |-> TRUE]
    /\ userLock = [a \in Auditors |-> NoRequest]
    /\ profileLock = [a \in Auditors |-> NoRequest]
    /\ pc = [r \in Requests |-> "new"]
    /\ call = [r \in Requests |-> NoCall]
    /\ base = [r \in Requests |-> AbsentRow]
-----------------------------------------------------------------------------
Slot(r) == call[r].slot
Owner(r) == OwnerOf[Slot(r)]

\* The submission the request names is there (SELECT ... WHERE id = audit_id).
Found(r) == /\ row[Slot(r)].status # "absent"
            /\ row[Slot(r)].id = call[r].audit

IsAt(r, kind, where) == call[r].kind = kind /\ pc[r] = where

Goto(r, where) == pc' = [pc EXCEPT ![r] = where]

FreeLocks_Bug(r) == UNCHANGED <<userLock, profileLock>>

\* Closing the session: the copy is gone and the row locks are released.
FreeLocks(r) ==
    /\ userLock' = [a \in Auditors |-> IF userLock[a] = r THEN NoRequest ELSE userLock[a]]
    /\ profileLock' = [a \in Auditors |->
                         IF profileLock[a] = r THEN NoRequest ELSE profileLock[a]]

End(r, outcome) ==
    /\ Goto(r, outcome)
    /\ base' = [base EXCEPT ![r] = AbsentRow]
    /\ FreeLocks(r)

\* A request that ends without writing anything (a rejection or a replay).
Reject(r, outcome) == End(r, outcome) /\ UNCHANGED <<row, removed, linked, call>>
-----------------------------------------------------------------------------
(***************************************************************************)
(* A request arrives.  A client names an audit it has seen, and sends      *)
(* either no expected revision or the one it last saw; the request reaches *)
(* the database later, when both may be out of date.  An auditor request   *)
(* is authenticated, so its user exists when it arrives; managers may save *)
(* and submit audits of their projects after the auditor is gone.          *)
(***************************************************************************)
Begin(r, c, where) ==
    /\ pc[r] = "new"
    /\ call' = [call EXCEPT ![r] = c]
    /\ Goto(r, where)
    /\ UNCHANGED <<row, removed, linked, userLock, profileLock, base>>

SeenRevisions(s) == {0, row[s].revision}

BeginCreate(r) ==
    \E s \in Slots :
      /\ linked[OwnerOf[s]]
      /\ Begin(r, [NoCall EXCEPT !.kind = "create", !.slot = s], "check")

BeginPatch(r) ==
    \E s \in Slots, w \in (SUBSET Sections) \ {{}}, whole \in BOOLEAN :
    \E e \in SeenRevisions(s) :
      /\ row[s].status # "absent"
      /\ Begin(r, [NoCall EXCEPT !.kind = "patch", !.slot = s, !.audit = row[s].id,
                     !.expected = e, !.writes = w, !.replace = whole], "load")

BeginSubmit(r) ==
    \E s \in Slots, k \in Keys \cup {NoKey} :
    \E e \in SeenRevisions(s) :
      /\ row[s].status # "absent"
      /\ Begin(r, [NoCall EXCEPT !.kind = "submit", !.slot = s, !.audit = row[s].id,
                     !.expected = e, !.key = k], "lock")

BeginIntent(r) ==
    \E s \in Slots :
      /\ row[s].status # "absent"
      /\ linked[OwnerOf[s]]
      /\ Begin(r, [NoCall EXCEPT !.kind = "intent", !.slot = s,
                     !.audit = row[s].id], "lock")

BeginDelete(r) ==
    \E s \in Slots :
      /\ linked[OwnerOf[s]]
      /\ Begin(r, [NoCall EXCEPT !.kind = "delete", !.slot = s], "lock_user")
-----------------------------------------------------------------------------
(***************************************************************************)
(* create_or_resume_audit                                                  *)
(***************************************************************************)

\* The profile of the user, the project-place link and the assignment of the
\* one to the other.  Managers assign and unassign at will (rows this module
\* does not model), and deletion of the auditor removes all assignments.
CreateCheck(r) ==
    /\ IsAt(r, "create", "check")
    /\ \/ /\ linked[Owner(r)] /\ Slot(r) \notin removed
          /\ Goto(r, "lookup")
          /\ UNCHANGED <<row, removed, linked, userLock, profileLock, call, base>>
       \/ (~linked[Owner(r)] \/ Slot(r) \in removed) /\ Reject(r, "missing")
       \/ Reject(r, "refused")

CreateLookup(r) ==
    /\ IsAt(r, "create", "lookup")
    /\ \/ /\ row[Slot(r)].status = "absent"
          /\ Goto(r, "insert")
          /\ UNCHANGED <<row, removed, linked, userLock, profileLock, call, base>>
       \/ row[Slot(r)].status # "absent" /\ Reject(r, "resumed")

\* The INSERT's foreign key check asks for a KEY SHARE lock on the profile
\* row, which a FOR UPDATE lock of another transaction makes wait.
ReferenceFree(a) == profileLock[a] = NoRequest

\* Nothing rechecks the assignment.  A second insert breaks the unique
\* constraint, one for a link that is gone the foreign key, and the
\* IntegrityError is not handled.
CreateInsert(r) ==
    /\ IsAt(r, "create", "insert")
    /\ \/ /\ row[Slot(r)].status = "absent"
          /\ Slot(r) \notin removed
          /\ ReferenceFree(Owner(r))
          /\ row' = [row EXCEPT ![Slot(r)] = NewRow(r)]
          /\ End(r, "created")
          /\ UNCHANGED <<removed, linked, call>>
       \/ row[Slot(r)].status # "absent" /\ Reject(r, "failed")
       \/ Slot(r) \in removed /\ Reject(r, "failed")
-----------------------------------------------------------------------------
(***************************************************************************)
(* patch_audit_draft                                                       *)
(***************************************************************************)
RevisionMatches(r) == call[r].expected \in {0, row[Slot(r)].revision}

PatchLoad(r) ==
    /\ IsAt(r, "patch", "load")
    /\ \/ ~Found(r) /\ Reject(r, "missing")
       \/ /\ Found(r)
          /\ row[Slot(r)].status = "submitted"
          /\ Reject(r, "conflict")
       \/ /\ Found(r)
          /\ row[Slot(r)].status = "in_progress"
          /\ ~RevisionMatches(r)
          /\ Reject(r, "stale")
       \/ /\ Found(r)
          /\ row[Slot(r)].status = "in_progress"
          /\ RevisionMatches(r)
          /\ base' = [base EXCEPT ![r] = row[Slot(r)]]
          /\ Goto(r, "commit")
          /\ UNCHANGED <<row, removed, linked, userLock, profileLock, call>>

\* The sections after the save: what this request updates only if it is still
\* the row it loaded, what it creates as new.  A whole aggregate drops the
\* sections it does not carry, a patch leaves them alone.
Merged(r, a) ==
    LET mine == base[r].answers
        same == {x \in Sections : a[x].born = mine[x].born}
    IN [x \in Sections |->
          IF x \in call[r].writes /\ mine[x] = NoCell THEN [born |-> r, by |-> r]
          ELSE IF x \in call[r].writes /\ x \in same THEN [a[x] EXCEPT !.by = r]
          ELSE IF x \notin call[r].writes /\ call[r].replace /\ x \in same THEN NoCell
          ELSE a[x]]

\* Another transaction inserted a section row this save inserts as well: the
\* unique constraint refuses it.
Collides(r) ==
    \E x \in call[r].writes :
      base[r].answers[x] = NoCell /\ row[Slot(r)].answers[x] # NoCell

\* Another transaction removed a section row this save updates.  A lone UPDATE
\* that matches no row fails (StaleDataError); a batch of them is not counted
\* by the driver, and the answers are lost without notice.
Misses(r) ==
    \E x \in call[r].writes :
      /\ base[r].answers[x] # NoCell
      /\ row[Slot(r)].answers[x].born # base[r].answers[x].born

\* scores_json is rewritten unless the copy already held the same progress.
ScoresAfterPatch(r) ==
    IF /\ base[r].scores = "progress"
       /\ Answered(Merged(r, base[r].answers)) = Answered(base[r].answers)
      THEN row[Slot(r)].scores
      ELSE "progress"

\* The new revision is one more than the loaded one, whatever it is by now.
Saved(r, now) == [now EXCEPT !.answers = Merged(r, now.answers),
                             !.revision = base[r].revision + 1,
                             !.scores = ScoresAfterPatch(r)]

\* Neither the status nor the revision is looked at again.
PatchCommit(r) ==
    /\ IsAt(r, "patch", "commit")
    /\ \/ (~Found(r) \/ Collides(r) \/ Misses(r)) /\ Reject(r, "failed")
       \/ /\ Found(r)
          /\ ~Collides(r)
          /\ row' = [row EXCEPT ![Slot(r)] = Saved(r, row[Slot(r)])]
          /\ End(r, "saved")
          /\ UNCHANGED <<removed, linked, call>>
-----------------------------------------------------------------------------
(***************************************************************************)
(* submit_audit and record_submit_intent                                   *)
(***************************************************************************)
ProfileFree_Bug(a) == TRUE

ProfileFree(a) == profileLock[a] = NoRequest

\* _lock_auditor_profile_for_audit
LockProfileForAudit(r) ==
    /\ call[r].kind \in {"submit", "intent"}
    /\ pc[r] = "lock"
    /\ \/ ~Found(r) /\ Reject(r, "missing")
       \/ /\ Found(r)
          /\ ProfileFree(Owner(r))
          /\ profileLock' = [profileLock EXCEPT ![Owner(r)] = r]
          /\ Goto(r, "load")
          /\ UNCHANGED <<row, removed, linked, userLock, call, base>>

IsReplay_Bug(r) == FALSE

\* A submit that was already carried out, sent again with its key.
IsReplay(r) ==
    /\ row[Slot(r)].status = "submitted"
    /\ call[r].key # NoKey
    /\ row[Slot(r)].key = call[r].key

ReadyToSubmit_Bug(a) == Answered(a) # {}

ReadyToSubmit(a) == IsComplete(a)

SubmitLoad(r) ==
    /\ IsAt(r, "submit", "load")
    /\ \/ ~Found(r) /\ Reject(r, "missing")
       \/ Found(r) /\ IsReplay(r) /\ Reject(r, "replayed")
       \/ /\ Found(r) /\ ~IsReplay(r)
          /\ row[Slot(r)].status = "submitted"
          /\ Reject(r, "conflict")
       \/ /\ Found(r)
          /\ row[Slot(r)].status = "in_progress"
          /\ ~RevisionMatches(r)
          /\ Reject(r, "stale")
       \/ /\ Found(r)
          /\ row[Slot(r)].status = "in_progress"
          /\ RevisionMatches(r)
          /\ ~ReadyToSubmit(row[Slot(r)].answers)
          /\ Reject(r, "incomplete")
       \/ /\ Found(r)
          /\ row[Slot(r)].status = "in_progress"
          /\ RevisionMatches(r)
          /\ ReadyToSubmit(row[Slot(r)].answers)
          /\ base' = [base EXCEPT ![r] = row[Slot(r)]]
          /\ Goto(r, "commit")
          /\ UNCHANGED <<row, removed, linked, userLock, profileLock, call>>

Submitted(r, now) ==
    [now EXCEPT !.status = "submitted",
                !.snapshot = base[r].answers,
                !.scores = "calculated",
                !.key = IF call[r].key = NoKey THEN now.key ELSE call[r].key]

\* The UPDATE of a row that a manager has deleted matches nothing.
SubmitCommit(r) ==
    /\ IsAt(r, "submit", "commit")
    /\ \/ ~Found(r) /\ Reject(r, "failed")
       \/ /\ Found(r)
          /\ row' = [row EXCEPT ![Slot(r)] = Submitted(r, row[Slot(r)])]
          /\ End(r, "delivered")
          /\ UNCHANGED <<removed, linked, call>>

IntentLoad(r) ==
    /\ IsAt(r, "intent", "load")
    /\ \/ ~Found(r) /\ Reject(r, "missing")
       \/ /\ Found(r)
          /\ row[Slot(r)].status = "submitted"
          /\ Reject(r, "ignored")
       \/ /\ Found(r)
          /\ row[Slot(r)].status = "in_progress"
          /\ base' = [base EXCEPT ![r] = row[Slot(r)]]
          /\ Goto(r, "commit")
          /\ UNCHANGED <<row, removed, linked, userLock, profileLock, call>>

Announced_Bug(r, now) == [now EXCEPT !.intended = r]

\* submit_intended_at is written only when the copy had none.
Announced(r, now) ==
    [now EXCEPT !.intended = IF base[r].intended = NoRequest THEN r ELSE now.intended]

IntentCommit(r) ==
    /\ IsAt(r, "intent", "commit")
    /\ \/ ~Found(r) /\ Reject(r, "failed")
       \/ /\ Found(r)
          /\ row' = [row EXCEPT ![Slot(r)] = Announced(r, row[Slot(r)])]
          /\ End(r, "recorded")
          /\ UNCHANGED <<removed, linked, call>>
-----------------------------------------------------------------------------
(***************************************************************************)
(* delete_account and _delete_auditor                                      *)
(***************************************************************************)

\* _load_deletable_user(lock=True), then the password is verified.
DeleteLockUser(r) ==
    /\ IsAt(r, "delete", "lock_user")
    /\ \/ ~linked[Owner(r)] /\ Reject(r, "missing")
       \/ /\ linked[Owner(r)]
          /\ userLock[Owner(r)] = NoRequest
          /\ \/ Reject(r, "refused")
             \/ /\ userLock' = [userLock EXCEPT ![Owner(r)] = r]
                /\ Goto(r, "lock_profile")
                /\ UNCHANGED <<row, removed, linked, profileLock, call, base>>

\* _load_auditor_profile(lock=True)
DeleteLockProfile(r) ==
    /\ IsAt(r, "delete", "lock_profile")
    /\ ProfileFree(Owner(r))
    /\ profileLock' = [profileLock EXCEPT ![Owner(r)] = r]
    /\ Goto(r, "verify")
    /\ UNCHANGED <<row, removed, linked, userLock, call, base>>

Pending_Bug(a) == {}

\* _pending_submission_count
Pending(a) == {s \in Slots : /\ OwnerOf[s] = a
                             /\ row[s].status = "in_progress"
                             /\ row[s].intended # NoRequest}

\* The personal account may hold something else (_personal_account_has_-
\* dependencies): rows this module does not model, so either answer.
DeleteVerify(r) ==
    /\ IsAt(r, "delete", "verify")
    /\ \/ Pending(Owner(r)) # {} /\ Reject(r, "conflict")
       \/ /\ Pending(Owner(r)) = {}
          /\ \/ Reject(r, "refused")
             \/ /\ Goto(r, "erase")
                /\ UNCHANGED <<row, removed, linked, userLock, profileLock, call, base>>

Erased_Bug(a) == {s \in Slots : OwnerOf[s] = a /\ row[s].status # "absent"}
ErasedSome_Bug(a) == {s \in Slots : OwnerOf[s] = a /\ row[s].status = "in_progress"
                                     /\ row[s].answers = Blank}

\* DELETE ... WHERE auditor_profile_id = ... AND status <> 'SUBMITTED'
Erased(a) == {s \in Slots : OwnerOf[s] = a /\ row[s].status = "in_progress"}

\* The deletes, the tombstone and the commit.
DeleteErase(r) ==
    /\ IsAt(r, "delete", "erase")
    /\ row' = [s \in Slots |-> IF s \in Erased(Owner(r)) THEN AbsentRow ELSE row[s]]
    /\ linked' = [linked EXCEPT ![Owner(r)] = FALSE]
    /\ End(r, "deleted")
    /\ UNCHANGED <<removed, call>>
-----------------------------------------------------------------------------
\* A manager deletes the project or the place of a slot, or unlinks the two
\* (management.py): the submission goes by cascade, whatever its state, and no
\* lock is asked for.
Withdraw(s) ==
    /\ s \notin removed
    /\ removed' = removed \cup {s}
    /\ row' = [row EXCEPT ![s] = AbsentRow]
    /\ UNCHANGED <<linked, userLock, profileLock, pc, call, base>>
-----------------------------------------------------------------------------
Arrive(r) == BeginCreate(r) \/ BeginPatch(r) \/ BeginSubmit(r)
                \/ BeginIntent(r) \/ BeginDelete(r)

Step(r) ==
    \/ CreateCheck(r) \/ CreateLookup(r) \/ CreateInsert(r)
    \/ PatchLoad(r) \/ PatchCommit(r)
    \/ LockProfileForAudit(r)
    \/ SubmitLoad(r) \/ SubmitCommit(r)
    \/ IntentLoad(r) \/ IntentCommit(r)
    \/ DeleteLockUser(r) \/ DeleteLockProfile(r) \/ DeleteVerify(r) \/ DeleteErase(r)

\* The client disconnects, the process dies or the connection is lost before
\* the commit: the transaction is rolled back.  (A response lost after the
\* commit shows as a later request that repeats the first one.)
Crash(r) == pc[r] \in Running /\ Reject(r, "failed")

Next == \/ \E r \in Requests : Arrive(r) \/ Step(r) \/ Crash(r)
        \/ \E s \in Slots : Withdraw(s)

Spec == Init /\ [][Next]_vars

\* A request that can run does: the event loop and the database serve it, and
\* lock waiters are queued.  Clients need not send anything.
FairSpec == Spec /\ \A r \in Requests : WF_vars(Step(r))
-----------------------------------------------------------------------------
(***************************************************************************)
(* Properties                                                              *)
(***************************************************************************)
Delivered(r) == call[r].kind = "submit" /\ pc[r] = "delivered"

\* However many submits of one audit race, one of them delivers it; the others
\* are replays, conflicts or failures (submit_audit, the profile lock).
OneDelivery ==
    \A r, q \in Requests :
      Delivered(r) /\ Delivered(q) /\ Slot(r) = Slot(q)
        /\ call[r].audit = call[q].audit => r = q

\* A submit refused because the audit is already submitted never carries the
\* key the audit was submitted with: a client that retries after a lost
\* response is answered with the session (the idempotent replay).
RetryIsSafe ==
    \A r \in Requests :
      call[r].kind = "submit" /\ pc[r] = "conflict" /\ call[r].key # NoKey
        => row[Slot(r)].key # call[r].key

\* Once a submit intent is acknowledged the deletion of the auditor does not
\* destroy the audit, in whatever order the two requests run
\* (_pending_submission_count under the lock both take): only the removal of
\* the project or place does.
AnnouncedWorkIsKept ==
    \A r \in Requests :
      call[r].kind = "intent" /\ pc[r] = "recorded" => Found(r) \/ Slot(r) \in removed

\* Who may hold a lock, and what a lock holder may rely on: the inductive core
\* of the argument.  A request about to write a status or an intent holds the
\* profile and, unless a manager has removed the slot, its draft is still
\* there; a deletion about to erase holds both rows and nothing is announced.
HoldsProfile(r) ==
    \/ call[r].kind \in {"submit", "intent"} /\ pc[r] \in {"load", "commit"}
    \/ call[r].kind = "delete" /\ pc[r] \in {"verify", "erase"}

HoldsUser(r) ==
    call[r].kind = "delete" /\ pc[r] \in {"lock_profile", "verify", "erase"}

WriterFindsDraft(r) ==
    call[r].kind \in {"submit", "intent"} /\ pc[r] = "commit" =>
      /\ Slot(r) \notin removed =>
           /\ Found(r)
           /\ row[Slot(r)].status = "in_progress"
           /\ base[r].intended = row[Slot(r)].intended
      /\ call[r].kind = "submit" => IsComplete(base[r].answers)

EraserFindsNothingAnnounced(r) ==
    call[r].kind = "delete" /\ pc[r] = "erase" => Pending(Owner(r)) = {}

LockDiscipline ==
    \A r \in Requests :
      /\ \A a \in Auditors :
           /\ profileLock[a] = r <=> a = Owner(r) /\ HoldsProfile(r)
           /\ userLock[a] = r <=> a = Owner(r) /\ HoldsUser(r)
      /\ HoldsUser(r) => linked[Owner(r)]
      /\ WriterFindsDraft(r)
      /\ EraserFindsNothingAnnounced(r)

\* A submitted audit stays submitted with the same snapshot and the same key:
\* no save, retry or account deletion takes delivered work back, only the
\* removal of its project or place does.
DeliveredIsFinal ==
    [][\A s \in Slots :
         row[s].status = "submitted" /\ removed' = removed =>
           /\ row'[s].status = "submitted"
           /\ row'[s].id = row[s].id
           /\ row'[s].snapshot = row[s].snapshot
           /\ row'[s].key = row[s].key]_vars

\* The server-side intent time is stamped once: of two beacons that race, the
\* second sees the stamp of the first (record_submit_intent).
IntentStampedOnce ==
    [][\A s \in Slots :
         row[s].intended # NoRequest /\ row'[s].status # "absent" =>
           row'[s].intended = row[s].intended]_vars

\* Every request gets an answer: the lock order user, profile, and profile
\* alone for submits, leaves nobody waiting for ever.
EveryRequestEnds ==
    \A r \in Requests : pc[r] \in Running ~> pc[r] \in Ended

\* The promise of SubmissionContract, read off the rows.
Contract == INSTANCE SubmissionContract WITH
    Sheets   <- {a \in Answers : IsComplete(a)},
    NoSheet  <- Blank,
    phase    <- [s \in Slots |->
                   IF row[s].status = "absent" THEN "none"
                   ELSE IF row[s].status = "in_progress" THEN "draft" ELSE "delivered"],
    promised <- [s \in Slots |-> row[s].intended # NoRequest],
    sheet    <- [s \in Slots |-> row[s].snapshot],
    closed   <- removed,
    member   <- linked

\* Requests, locks and transactions implement the promise: drafts vanish only
\* with their auditor, never after an announcement, or with their project;
\* deliveries are complete and final.
ImplementsContract == Contract!ContractSpec

(***************************************************************************)
(* Claims of the repository that the code does not keep.                   *)
(***************************************************************************)

\* audit_sessions.py:787: "Submitted audits cannot be edited."
SubmittedNotEdited ==
    [][\A s \in Slots :
         row[s].status = "submitted" /\ removed' = removed => row'[s] = row[s]]_vars

\* audit_state.py:249: "Advance the aggregate revision counter."
RevisionAdvances ==
    [][\A s \in Slots :
         row'[s].id = row[s].id /\ row'[s].answers # row[s].answers =>
           row'[s].revision > row[s].revision]_vars

\* account_deletion.py:330: unfinished work "is personal to the auditor", "so
\* it goes".
NoDraftAfterDeletion ==
    \A s \in Slots : ~linked[OwnerOf[s]] => row[s].status # "in_progress"
=============================================================================
