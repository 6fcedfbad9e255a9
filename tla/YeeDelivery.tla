---------------------------- MODULE YeeDelivery ----------------------------
(***************************************************************************)
(* The YEE audit of one auditor at one place, under concurrent requests.   *)
(*                                                                         *)
(* Two rows describe it.  The audit row (table audits, unique per project, *)
(* place and auditor) holds the draft and, later, a copy of what was       *)
(* submitted.  The submission row (yee_audit_submissions, unique per       *)
(* auditor and place) holds the delivered answers and is what is reported. *)
(* Draft saves, submits, manager edits and the repair of audits that have  *)
(* no submission row write them, each in its own READ COMMITTED            *)
(* transaction: what a request reads first may be out of date when it      *)
(* commits.  No row is ever locked; the unique constraints decide races.   *)
(* Different pairs share nothing, so one pair is enough.                   *)
(*                                                                         *)
(* An UPDATE names only the columns that differ from the copy the request  *)
(* loaded.  Scores are a function of the answers and the instrument        *)
(* version and are written and compared together with the answers.         *)
(***************************************************************************)
EXTENDS Naturals

CONSTANTS
    Requests,   \* HTTP requests, each used once
    Answers,    \* what an auditor or a manager may send
    Stamps,     \* instrument versions
    Keys,       \* submit idempotency keys
    NoKey,      \* no idempotency key
    Unstamped,  \* a request that names no instrument version
    Nobody      \* no answers

ASSUME YeeAssumption ==
    /\ Answers # {} /\ Stamps # {}
    /\ Nobody \notin Answers
    /\ NoKey \notin Keys
    /\ Unstamped \notin Stamps

VARIABLES
    audit,  \* the audit row
    sub,    \* the submission row
    pc,     \* pc[r]: where request r is, or how it ended
    call,   \* call[r]: what request r asks for
    base    \* base[r]: the two rows as request r loaded them

vars == <<audit, sub, pc, call, base>>

\* responses_json of the audit row: a draft is stored with the participant
\* information around it, a submitted audit is stored bare.
Sheets == [form : {"draft", "final"}, of : Answers \cup {Nobody}]
Blank == [form |-> "draft", of |-> Nobody]

AuditRows == [ status : {"absent", "in_progress", "submitted"},
               sheet  : Sheets,
               stamp  : Stamps \cup {Unstamped} ]

NoAudit == [status |-> "absent", sheet |-> Blank, stamp |-> Unstamped]

SubRows == [ present : BOOLEAN,
             answers : Answers \cup {Nobody},
             key     : Keys \cup {NoKey},
             stamp   : Stamps \cup {Unstamped} ]

NoSub == [present |-> FALSE, answers |-> Nobody, key |-> NoKey, stamp |-> Unstamped]

Copies == [audit : AuditRows, sub : SubRows]
NoCopy == [audit |-> NoAudit, sub |-> NoSub]

Calls == [ kind    : {"none", "draft", "submit", "edit", "show"},
           answers : Answers \cup {Nobody},
           key     : Keys \cup {NoKey},
           stamp   : Stamps \cup {Unstamped} ]

NoCall == [kind |-> "none", answers |-> Nobody, key |-> NoKey, stamp |-> Unstamped]

Running == {"check", "load", "commit", "reload", "join", "repair"}
Ended == {"saved", "created", "replayed", "edited", "shown", "conflict",
          "mismatch", "refused", "missing", "failed", "broken"}

TypeOK ==
    /\ audit \in AuditRows
    /\ sub \in SubRows
    /\ pc \in [Requests -> {"new"} \cup Running \cup Ended]
    /\ call \in [Requests -> Calls]
    /\ base \in [Requests -> Copies]

\* Nothing yet, a draft, a submitted audit that has no submission row (older
\* data, which _repair_missing_yee_submission is there for), or both rows.
Init ==
    /\ \E a \in Answers, v \in Stamps, k \in Keys \cup {NoKey} :
         \/ audit = NoAudit /\ sub = NoSub
         \/ /\ audit = [status |-> "in_progress", stamp |-> v,
                        sheet |-> [form |-> "draft", of |-> a]]
            /\ sub = NoSub
         \/ /\ audit = [status |-> "submitted", stamp |-> v,
                        sheet |-> [form |-> "final", of |-> a]]
            /\ sub \in {NoSub, [present |-> TRUE, answers |-> a, key |-> k, stamp |-> v]}
    /\ pc = [r \in Requests |-> "new"]
    /\ call = [r \in Requests |-> NoCall]
    /\ base = [r \in Requests |-> NoCopy]
-----------------------------------------------------------------------------
IsAt(r, kind, where) == call[r].kind = kind /\ pc[r] = where

Goto(r, where) == pc' = [pc EXCEPT ![r] = where]

\* A request ends; Reject, when it has written nothing.
End(r, outcome) == Goto(r, outcome) /\ base' = [base EXCEPT ![r] = NoCopy]

Reject(r, outcome) == End(r, outcome) /\ UNCHANGED <<audit, sub, call>>

Begin(r, kind, a, k, v, where) ==
    /\ pc[r] = "new"
    /\ call' = [call EXCEPT ![r] = [kind |-> kind, answers |-> a, key |-> k, stamp |-> v]]
    /\ Goto(r, where)
    /\ UNCHANGED <<audit, sub, base>>

BeginDraft(r) == \E a \in Answers, v \in Stamps \cup {Unstamped} :
                   Begin(r, "draft", a, NoKey, v, "check")

BeginSubmit(r) == \E a \in Answers, k \in Keys \cup {NoKey}, v \in Stamps \cup {Unstamped} :
                    Begin(r, "submit", a, k, v, "check")

BeginEdit(r) == \E a \in Answers : Begin(r, "edit", a, NoKey, Unstamped, "join")

BeginShow(r) == Begin(r, "show", Nobody, NoKey, Unstamped, "join")
-----------------------------------------------------------------------------
(***************************************************************************)
(* What draft save and submit have in common: the SELECT of the audit row, *)
(* then the instrument version.  A row that exists keeps its own; for a    *)
(* new one it is the requested version or the active one of the moment.    *)
(***************************************************************************)
Matches(v, row) == v \in {Unstamped, row.stamp}

LoadAudit(r) ==
    \/ /\ audit.status = "absent"
       /\ \E v \in Stamps :
            /\ call[r].stamp \in {Unstamped, v}
            /\ base' = [base EXCEPT ![r] = [audit |-> [NoAudit EXCEPT !.stamp = v],
                                            sub |-> NoSub]]
       /\ Goto(r, "commit")
       /\ UNCHANGED <<audit, sub, call>>
    \/ /\ audit.status # "absent"
       /\ Matches(call[r].stamp, audit)
       /\ base' = [base EXCEPT ![r] = [audit |-> audit, sub |-> NoSub]]
       /\ Goto(r, "commit")
       /\ UNCHANGED <<audit, sub, call>>
    \/ /\ audit.status # "absent"
       /\ ~Matches(call[r].stamp, audit)
       /\ Reject(r, "mismatch")
    \/ Reject(r, "refused")    \* unknown version, incomplete answers

\* The column after an UPDATE that writes it only when the copy differs.
Written(now, copy, new) == IF copy = new THEN now ELSE new

\* (Definitions named ..._Bug are mistakes the properties below would notice.)
Final_Bug(a) == [of |-> a]

Draft(a) == [form |-> "draft", of |-> a]
Final(a) == [form |-> "final", of |-> a]
-----------------------------------------------------------------------------
(***************************************************************************)
(* save_yee_draft                                                          *)
(***************************************************************************)
DraftCheck(r) ==
    /\ IsAt(r, "draft", "check")
    /\ \/ sub.present /\ Reject(r, "conflict")
       \/ /\ ~sub.present
          /\ Goto(r, "load")
          /\ UNCHANGED <<audit, sub, call, base>>
       \/ Reject(r, "refused")    \* not assigned to the place

DraftLoad(r) ==
    /\ IsAt(r, "draft", "load")
    /\ \/ audit.status = "submitted" /\ Reject(r, "conflict")
       \/ audit.status # "submitted" /\ LoadAudit(r)

DraftSaved_Bug(r) == [audit EXCEPT
    !.status = "in_progress",
    !.sheet = Written(audit.sheet, base[r].audit.sheet, Draft(call[r].answers))]

\* The status is IN_PROGRESS in the copy already, so it is not written.
DraftSaved(r) == [audit EXCEPT
    !.status = Written(audit.status, base[r].audit.status, "in_progress"),
    !.sheet = Written(audit.sheet, base[r].audit.sheet, Draft(call[r].answers))]

\* A second insert breaks the unique constraint and nothing handles it.
DraftCommit(r) ==
    /\ IsAt(r, "draft", "commit")
    /\ \/ /\ base[r].audit.status = "absent"
          /\ audit.status = "absent"
          /\ audit' = [status |-> "in_progress", stamp |-> base[r].audit.stamp,
                       sheet |-> Draft(call[r].answers)]
          /\ End(r, "saved")
          /\ UNCHANGED <<sub, call>>
       \/ /\ base[r].audit.status = "absent"
          /\ audit.status # "absent"
          /\ Reject(r, "failed")
       \/ /\ base[r].audit.status # "absent"
          /\ audit' = DraftSaved(r)
          /\ End(r, "saved")
          /\ UNCHANGED <<sub, call>>
-----------------------------------------------------------------------------
(***************************************************************************)
(* submit_yee_audit                                                        *)
(***************************************************************************)
IsReplay_Bug(r) == call[r].key = sub.key /\ call[r].answers = sub.answers

\* _resolve_existing_submission
IsReplay(r) == call[r].key # NoKey /\ call[r].key = sub.key

SubmitCheck(r) ==
    /\ IsAt(r, "submit", "check")
    /\ \/ sub.present /\ IsReplay(r) /\ Reject(r, "replayed")
       \/ sub.present /\ ~IsReplay(r) /\ Reject(r, "conflict")
       \/ /\ ~sub.present
          /\ Goto(r, "load")
          /\ UNCHANGED <<audit, sub, call, base>>
       \/ Reject(r, "refused")

SubmitLoad(r) == IsAt(r, "submit", "load") /\ LoadAudit(r)

SubTaken_Bug == FALSE

\* uq_yee_audit_submissions_auditor_place
SubTaken == sub.present

\* uq_audits_project_place_auditor
AuditTaken(r) == base[r].audit.status = "absent" /\ audit.status # "absent"

\* The audit row after a submit or a manager edit.
Closed(r) == [ status |-> "submitted",
               stamp  |-> IF audit.status = "absent" THEN base[r].audit.stamp ELSE audit.stamp,
               sheet  |-> Written(audit.sheet, base[r].audit.sheet, Final(call[r].answers)) ]

SubmitCommit(r) ==
    /\ IsAt(r, "submit", "commit")
    /\ \/ /\ ~SubTaken /\ ~AuditTaken(r)
          /\ audit' = Closed(r)
          /\ sub' = [present |-> TRUE, answers |-> call[r].answers,
                     key |-> call[r].key, stamp |-> base[r].audit.stamp]
          /\ End(r, "created")
          /\ UNCHANGED call
       \/ /\ SubTaken \/ AuditTaken(r)
          /\ Goto(r, "reload")
          /\ UNCHANGED <<audit, sub, call, base>>

\* After the rollback the submission is read again.  The rollback has also
\* expired the place and the auditor that the replay's answer is built from,
\* and an expired attribute cannot be read outside a database call: the
\* matching key ends in an error.
SubmitReload(r) ==
    /\ IsAt(r, "submit", "reload")
    /\ \/ ~sub.present /\ Reject(r, "failed")
       \/ sub.present /\ IsReplay(r) /\ Reject(r, "broken")
       \/ sub.present /\ ~IsReplay(r) /\ Reject(r, "conflict")
-----------------------------------------------------------------------------
(***************************************************************************)
(* update_manager_audit_edit_state and fetch_manager_audit_edit_state: one *)
(* SELECT joins both rows.                                                 *)
(***************************************************************************)
Join(r, where) ==
    /\ base' = [base EXCEPT ![r] = [audit |-> audit, sub |-> sub]]
    /\ Goto(r, where)
    /\ UNCHANGED <<audit, sub, call>>

EditJoin(r) ==
    /\ IsAt(r, "edit", "join")
    /\ \/ audit.status = "absent" /\ Reject(r, "missing")
       \/ audit.status # "absent" /\ Join(r, "commit")
       \/ Reject(r, "refused")

\* The instrument version and the idempotency key of a submission stay.
EditCommit(r) ==
    /\ IsAt(r, "edit", "commit")
    /\ \/ /\ ~base[r].sub.present /\ ~SubTaken
          /\ audit' = Closed(r)
          /\ sub' = [present |-> TRUE, answers |-> call[r].answers,
                     key |-> NoKey, stamp |-> base[r].audit.stamp]
          /\ End(r, "edited")
          /\ UNCHANGED call
       \/ ~base[r].sub.present /\ SubTaken /\ Reject(r, "failed")
       \/ /\ base[r].sub.present
          /\ audit' = Closed(r)
          /\ sub' = [sub EXCEPT !.answers =
                       Written(sub.answers, base[r].sub.answers, call[r].answers)]
          /\ End(r, "edited")
          /\ UNCHANGED call

ShowJoin(r) ==
    /\ IsAt(r, "show", "join")
    /\ \/ audit.status = "absent" /\ Reject(r, "missing")
       \/ audit.status = "submitted" /\ ~sub.present /\ Join(r, "repair")
       \/ audit.status = "in_progress" /\ Reject(r, "shown")
       \/ sub.present /\ Reject(r, "shown")
       \/ Reject(r, "refused")

\* _repair_missing_yee_submission
RepairCommit(r) ==
    /\ IsAt(r, "show", "repair")
    /\ \/ /\ ~SubTaken
          /\ sub' = [present |-> TRUE, answers |-> base[r].audit.sheet.of,
                     key |-> NoKey, stamp |-> base[r].audit.stamp]
          /\ End(r, "shown")
          /\ UNCHANGED <<audit, call>>
       \/ SubTaken /\ Reject(r, "failed")
-----------------------------------------------------------------------------
\* The process dies or the client goes away before the commit.
Crash(r) == pc[r] \in Running /\ Reject(r, "failed")

Arrive(r) == BeginDraft(r) \/ BeginSubmit(r) \/ BeginEdit(r) \/ BeginShow(r)

Step(r) == \/ DraftCheck(r) \/ DraftLoad(r) \/ DraftCommit(r)
           \/ SubmitCheck(r) \/ SubmitLoad(r) \/ SubmitCommit(r) \/ SubmitReload(r)
           \/ EditJoin(r) \/ EditCommit(r)
           \/ ShowJoin(r) \/ RepairCommit(r)

Next == \E r \in Requests : Arrive(r) \/ Step(r) \/ Crash(r)

Spec == Init /\ [][Next]_vars
-----------------------------------------------------------------------------
Created(r) == call[r].kind = "submit" /\ pc[r] = "created"

\* However submits, edits and repairs race, one submit at most is told that
\* it created the submission, and what it was told stays true: its key and
\* version are the stored ones, and only a manager changes its answers
\* (models.py:1246, "so the auditor never loses a completed audit").
AcceptedIsKept ==
    \A r \in Requests : Created(r) =>
      /\ \A q \in Requests : Created(q) => q = r
      /\ sub.present /\ sub.key = call[r].key
      /\ \/ sub.answers = call[r].answers
         \/ \E q \in Requests : call[q].kind = "edit" /\ pc[q] = "edited"

\* A submit that carries the stored key is never told 409, in the first check
\* and after a lost race alike (_resolve_existing_submission).
ReplayNotRefused ==
    \A r \in Requests :
      call[r].kind = "submit" /\ pc[r] = "conflict" /\ call[r].key # NoKey
        => sub.key # call[r].key

\* The two rows agree on what a report relies on: a submission has its audit,
\* the audit is SUBMITTED, and both name one instrument version.  A draft save
\* that commits after the submit does not reopen the audit only because the
\* unchanged status column is left out of its UPDATE.
RowsAgree ==
    sub.present => audit.status = "submitted" /\ audit.stamp = sub.stamp

\* A submitted audit is never reopened and never changes its version, with or
\* without a submission row.
NeverReopened ==
    [][audit.status = "submitted" =>
         audit'.status = "submitted" /\ audit'.stamp = audit.stamp]_vars

(***************************************************************************)
(* Claims of the repository that the code does not keep.                   *)
(***************************************************************************)

\* routes/audits.py:204: "This audit has already been submitted and is locked."
\* (for the auditor: manager edits are meant to change it)
SubmittedIsLocked ==
    [][\A r \in Requests :
         sub.present /\ call[r].kind = "draft" /\ pc'[r] # pc[r]
           => audit' = audit]_vars

\* routes/audits.py:391: "Reload the winning row and apply the same
\* idempotent-replay vs conflict rule."
ReplayAnsweredAfterRace ==
    \A r \in Requests : pc[r] # "broken"
=============================================================================
