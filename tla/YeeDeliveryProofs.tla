------------------------- MODULE YeeDeliveryProofs -------------------------
(***************************************************************************)
(* Safety of the YEE audit rows for any number of requests, answers, keys  *)
(* and instrument versions.                                                *)
(*                                                                         *)
(* The argument: the rows only grow (a submission keeps its key and its    *)
(* version, an audit row keeps its version and is never reopened), so the  *)
(* parts of a copy that a commit relies on cannot be out of date in a way  *)
(* that harms it; what could be, the unique constraints refuse.            *)
(***************************************************************************)
EXTENDS YeeDelivery, TLAPS

AuditGrows(old, new) ==
    old.status # "absent" =>
      /\ new.status # "absent"
      /\ new.stamp = old.stamp
      /\ old.status = "submitted" => new.status = "submitted"

SubGrows(old, new) ==
    old.present => new.present /\ new.key = old.key /\ new.stamp = old.stamp

\* What a request that is about to commit may assume of its copy.
CopySound(r) ==
    pc[r] \in {"commit", "repair"} =>
      /\ AuditGrows(base[r].audit, audit)
      /\ SubGrows(base[r].sub, sub)
      /\ call[r].kind = "draft" => base[r].audit.status # "submitted" /\ pc[r] = "commit"
      /\ call[r].kind = "submit" => pc[r] = "commit"
      /\ call[r].kind = "edit" => base[r].audit.status # "absent" /\ pc[r] = "commit"
      /\ call[r].kind = "show" => base[r].audit.status = "submitted" /\ pc[r] = "repair"
      /\ call[r].kind \in {"draft", "submit"} /\ base[r].audit.status = "absent" =>
           base[r].audit.stamp \in Stamps

\* A submit is told 409 only when there is a submission.
Refusal(r) ==
    call[r].kind = "submit" /\ pc[r] = "conflict" =>
      sub.present /\ (call[r].key # NoKey => sub.key # call[r].key)

Inv == /\ TypeOK
       /\ RowsAgree
       /\ \A r \in Requests : CopySound(r) /\ Refusal(r)
       /\ AcceptedIsKept
-----------------------------------------------------------------------------
LEMMA NoRowsType == NoAudit \in AuditRows /\ NoSub \in SubRows /\ NoCopy \in Copies
BY DEF NoAudit, NoSub, NoCopy, AuditRows, SubRows, Copies, Sheets, Blank

LEMMA SheetType ==
  ASSUME NEW a \in Answers \cup {Nobody}
  PROVE  Draft(a) \in Sheets /\ Final(a) \in Sheets
BY DEF Draft, Final, Sheets

LEMMA WrittenType ==
  ASSUME NEW S, NEW now \in S, NEW copy \in S, NEW new \in S
  PROVE  Written(now, copy, new) \in S
BY DEF Written

\* One step of request r leaves the calls and the copies of the others alone.
Frame(r) ==
    /\ \A q \in Requests : q # r => pc'[q] = pc[q] /\ base'[q] = base[q] /\ call'[q] = call[q]
    /\ AuditGrows(audit, audit')
    /\ SubGrows(sub, sub')

LEMMA GrowsRefl ==
  AuditGrows(audit, audit) /\ SubGrows(sub, sub)
BY DEF AuditGrows, SubGrows

LEMMA DraftSavedRow ==
  ASSUME TypeOK, NEW r \in Requests, call[r].kind = "draft"
  PROVE  /\ call[r].answers \in Answers \cup {Nobody}
         /\ DraftSaved(r) \in AuditRows
         /\ DraftSaved(r).stamp = audit.stamp
         /\ DraftSaved(r).status = Written(audit.status, base[r].audit.status, "in_progress")
<1>1. /\ call[r].answers \in Answers \cup {Nobody}
      /\ audit \in AuditRows /\ base[r].audit \in AuditRows
  BY DEF TypeOK, Calls, Copies
<1>2. Written(audit.sheet, base[r].audit.sheet, Draft(call[r].answers)) \in Sheets
  BY <1>1, SheetType, WrittenType DEF AuditRows
<1>3. Written(audit.status, base[r].audit.status, "in_progress")
         \in {"absent", "in_progress", "submitted"}
  BY <1>1 DEF AuditRows, Written
<1>4. QED
  BY <1>1, <1>2, <1>3 DEF DraftSaved, AuditRows

LEMMA ClosedRow ==
  ASSUME TypeOK, NEW r \in Requests
  PROVE  /\ Closed(r) \in AuditRows
         /\ Closed(r).status = "submitted"
         /\ Closed(r).stamp = IF audit.status = "absent" THEN base[r].audit.stamp ELSE audit.stamp
<1>1. /\ call[r].answers \in Answers \cup {Nobody}
      /\ audit \in AuditRows /\ base[r].audit \in AuditRows
  BY DEF TypeOK, Calls, Copies
<1>2. Written(audit.sheet, base[r].audit.sheet, Final(call[r].answers)) \in Sheets
  BY <1>1, SheetType, WrittenType DEF AuditRows
<1>3. QED
  BY <1>1, <1>2 DEF Closed, AuditRows

LEMMA RejectStep ==
  ASSUME TypeOK, NEW r \in Requests, NEW o \in Ended, Reject(r, o)
  PROVE  /\ TypeOK' /\ Frame(r)
         /\ UNCHANGED <<audit, sub, call>>
         /\ pc' = [pc EXCEPT ![r] = o]
<1>1. base' = [base EXCEPT ![r] = NoCopy] /\ pc' = [pc EXCEPT ![r] = o]
      /\ UNCHANGED <<audit, sub, call>>
  BY DEF Reject, End, Goto
<1>2. TypeOK'
  BY <1>1, NoRowsType DEF TypeOK
<1>3. Frame(r)
  BY <1>1, GrowsRefl DEF TypeOK, Frame, AuditGrows, SubGrows
<1>4. QED
  BY <1>1, <1>2, <1>3

LEMMA BeginStep ==
  ASSUME TypeOK, NEW r \in Requests, Arrive(r)
  PROVE  /\ TypeOK' /\ Frame(r)
         /\ UNCHANGED <<audit, sub, base>>
         /\ pc'[r] \in {"check", "join"}
<1>1. ASSUME NEW k \in {"draft", "submit", "edit", "show"}, NEW a \in Answers \cup {Nobody},
             NEW i \in Keys \cup {NoKey}, NEW v \in Stamps \cup {Unstamped},
             NEW w \in {"check", "join"}, Begin(r, k, a, i, v, w)
      PROVE  /\ TypeOK' /\ Frame(r)
             /\ UNCHANGED <<audit, sub, base>>
             /\ pc'[r] \in {"check", "join"}
  <2>1. [kind |-> k, answers |-> a, key |-> i, stamp |-> v] \in Calls
    BY DEF Calls
  <2>2. TypeOK'
    BY <1>1, <2>1 DEF TypeOK, Begin, Goto, Running
  <2>3. Frame(r)
    BY <1>1, GrowsRefl DEF TypeOK, Frame, Begin, Goto, AuditGrows, SubGrows
  <2>4. QED
    BY <1>1, <2>2, <2>3 DEF TypeOK, Begin, Goto
<1>2. CASE BeginDraft(r)
  BY <1>1, <1>2 DEF BeginDraft
<1>3. CASE BeginSubmit(r)
  BY <1>1, <1>3 DEF BeginSubmit
<1>4. CASE BeginEdit(r)
  BY <1>1, <1>4 DEF BeginEdit
<1>5. CASE BeginShow(r)
  BY <1>1, <1>5 DEF BeginShow
<1>6. QED
  BY <1>2, <1>3, <1>4, <1>5 DEF Arrive

\* A request that goes on without touching the rows or its copy.
LEMMA MoveStep ==
  ASSUME TypeOK, NEW r \in Requests, NEW w \in Running, Goto(r, w),
         UNCHANGED <<audit, sub, call, base>>
  PROVE  TypeOK' /\ Frame(r) /\ pc'[r] = w
BY GrowsRefl DEF TypeOK, Frame, Goto, AuditGrows, SubGrows

LEMMA CopyStep ==
  ASSUME TypeOK, NEW r \in Requests, NEW w \in Running, NEW c \in Copies, Goto(r, w),
         base' = [base EXCEPT ![r] = c], UNCHANGED <<audit, sub, call>>
  PROVE  TypeOK' /\ Frame(r) /\ pc'[r] = w /\ base'[r] = c
BY GrowsRefl DEF TypeOK, Frame, Goto, AuditGrows, SubGrows

LEMMA WriteStep ==
  ASSUME TypeOK, NEW r \in Requests, NEW o \in Ended, End(r, o),
         audit' \in AuditRows, sub' \in SubRows, call' = call,
         AuditGrows(audit, audit'), SubGrows(sub, sub')
  PROVE  TypeOK' /\ Frame(r) /\ pc' = [pc EXCEPT ![r] = o]
BY NoRowsType DEF TypeOK, Frame, End, Goto
-----------------------------------------------------------------------------
\* What a step of request r does to the submission, told apart as the claim
\* about accepted submits needs it.
Outcome(r) ==
    /\ pc[r] \notin Ended
    /\ \/ sub' = sub /\ pc'[r] # "created"
       \/ /\ ~sub.present /\ call' = call
          /\ pc'[r] = "created" /\ call[r].kind = "submit"
          /\ sub'.present /\ sub'.key = call[r].key /\ sub'.answers = call[r].answers
       \/ call' = call /\ pc'[r] = "edited" /\ call[r].kind = "edit"
       \/ ~sub.present /\ pc'[r] # "created" /\ call' = call

StepSound(r) ==
    /\ TypeOK' /\ Frame(r)
    /\ CopySound(r)' /\ Refusal(r)' /\ RowsAgree'
    /\ Outcome(r)

LEMMA StillRunning ==
  \A w \in Running \cup {"new"} : w \notin Ended
BY DEF Running, Ended

LEMMA RejectSound ==
  ASSUME Inv, NEW r \in Requests, NEW o \in Ended \ {"created"}, Reject(r, o),
         pc[r] \in Running,
         call[r].kind = "submit" /\ o = "conflict" => sub.present /\ ~IsReplay(r)
  PROVE  StepSound(r)
<1>1. TypeOK' /\ Frame(r) /\ UNCHANGED <<audit, sub, call>> /\ pc' = [pc EXCEPT ![r] = o]
  BY RejectStep DEF Inv
<1>2. pc'[r] = o /\ pc[r] \notin Ended
  BY <1>1, StillRunning DEF Inv, TypeOK
<1>3. CopySound(r)'
  BY <1>2 DEF CopySound, Ended
<1>4. Refusal(r)'
  BY <1>1, <1>2 DEF Refusal, IsReplay
<1>5. RowsAgree'
  BY <1>1 DEF Inv, RowsAgree
<1>6. QED
  BY <1>1, <1>2, <1>3, <1>4, <1>5 DEF StepSound, Outcome

LEMMA MoveSound ==
  ASSUME Inv, NEW r \in Requests, NEW w \in {"check", "load", "reload", "join"}, Goto(r, w),
         UNCHANGED <<audit, sub, call, base>>, pc[r] \in Running
  PROVE  StepSound(r)
<1>1. TypeOK' /\ Frame(r) /\ pc'[r] = w
  BY MoveStep DEF Inv, Running
<1>2. CopySound(r)' /\ Refusal(r)'
  BY <1>1 DEF CopySound, Refusal
<1>3. QED
  BY <1>1, <1>2, StillRunning DEF Inv, RowsAgree, StepSound, Outcome

LEMMA ArriveSound ==
  ASSUME Inv, NEW r \in Requests, Arrive(r)
  PROVE  StepSound(r)
<1>1. /\ TypeOK' /\ Frame(r) /\ UNCHANGED <<audit, sub, base>>
      /\ pc'[r] \in {"check", "join"}
  BY BeginStep DEF Inv
<1>2. pc[r] = "new"
  BY DEF Arrive, BeginDraft, BeginSubmit, BeginEdit, BeginShow, Begin
<1>3. CopySound(r)' /\ Refusal(r)'
  BY <1>1 DEF CopySound, Refusal
<1>4. QED
  BY <1>1, <1>2, <1>3, StillRunning DEF Inv, RowsAgree, StepSound, Outcome

\* A copy just taken is sound.
LEMMA CopySoundNow ==
  ASSUME Inv, NEW r \in Requests, NEW w \in {"commit", "repair"}, NEW c \in Copies,
         Goto(r, w), base' = [base EXCEPT ![r] = c], UNCHANGED <<audit, sub, call>>,
         pc[r] \in Running,
         AuditGrows(c.audit, audit), SubGrows(c.sub, sub),
         call[r].kind = "draft" => c.audit.status # "submitted" /\ w = "commit",
         call[r].kind = "submit" => w = "commit",
         call[r].kind = "edit" => c.audit.status # "absent" /\ w = "commit",
         call[r].kind = "show" => c.audit.status = "submitted" /\ w = "repair",
         call[r].kind \in {"draft", "submit"} /\ c.audit.status = "absent" =>
           c.audit.stamp \in Stamps
  PROVE  StepSound(r)
<1>1. TypeOK' /\ Frame(r) /\ pc'[r] = w /\ base'[r] = c
  BY CopyStep DEF Inv, Running
<1>2. CopySound(r)'
  BY <1>1 DEF CopySound
<1>3. Refusal(r)'
  BY <1>1 DEF Refusal
<1>4. QED
  BY <1>1, <1>2, <1>3, StillRunning DEF Inv, RowsAgree, StepSound, Outcome

LEMMA LoadSound ==
  ASSUME Inv, NEW r \in Requests, call[r].kind \in {"draft", "submit"}, pc[r] = "load",
         call[r].kind = "draft" => audit.status # "submitted", LoadAudit(r)
  PROVE  StepSound(r)
<1>0. audit \in AuditRows /\ sub \in SubRows /\ pc[r] \in Running
  BY DEF Inv, TypeOK, Running
<1>1. ASSUME NEW v \in Stamps, audit.status = "absent", Goto(r, "commit"),
             base' = [base EXCEPT ![r] = [audit |-> [NoAudit EXCEPT !.stamp = v], sub |-> NoSub]],
             UNCHANGED <<audit, sub, call>>
      PROVE  StepSound(r)
  <2>1. /\ [audit |-> [NoAudit EXCEPT !.stamp = v], sub |-> NoSub] \in Copies
        /\ [NoAudit EXCEPT !.stamp = v].status = "absent"
        /\ [NoAudit EXCEPT !.stamp = v].stamp = v
        /\ ~NoSub.present
    BY NoRowsType DEF Copies, AuditRows, NoAudit, NoSub
  <2>2. AuditGrows([NoAudit EXCEPT !.stamp = v], audit) /\ SubGrows(NoSub, sub)
    BY <2>1 DEF AuditGrows, SubGrows
  <2>3. QED
    BY <1>0, <1>1, <2>1, <2>2, CopySoundNow
<1>2. ASSUME audit.status # "absent", Goto(r, "commit"),
             base' = [base EXCEPT ![r] = [audit |-> audit, sub |-> NoSub]],
             UNCHANGED <<audit, sub, call>>
      PROVE  StepSound(r)
  <2>1. [audit |-> audit, sub |-> NoSub] \in Copies /\ ~NoSub.present
    BY <1>0, NoRowsType DEF Copies, NoSub
  <2>2. AuditGrows(audit, audit) /\ SubGrows(NoSub, sub)
    BY <2>1 DEF AuditGrows, SubGrows
  <2>3. QED
    BY <1>0, <1>2, <2>1, <2>2, CopySoundNow
<1>3. ASSUME NEW o \in {"mismatch", "refused"}, Reject(r, o)
      PROVE  StepSound(r)
  BY <1>0, <1>3, RejectSound DEF Ended
<1>4. QED
  BY <1>1, <1>2, <1>3 DEF LoadAudit

LEMMA DraftSound ==
  ASSUME Inv, NEW r \in Requests, DraftCheck(r) \/ DraftLoad(r) \/ DraftCommit(r)
  PROVE  StepSound(r)
<1>0. /\ audit \in AuditRows /\ sub \in SubRows /\ CopySound(r)
      /\ call[r].kind = "draft" /\ pc[r] \in Running
      /\ base[r].audit \in AuditRows /\ call[r].answers \in Answers \cup {Nobody}
  BY DEF Inv, TypeOK, DraftCheck, DraftLoad, DraftCommit, IsAt, Running, Calls, Copies
<1>1. ASSUME NEW o \in {"conflict", "refused", "failed"}, Reject(r, o)
      PROVE  StepSound(r)
  BY <1>0, <1>1, RejectSound DEF Ended
<1>2. CASE DraftCheck(r)
  BY <1>0, <1>1, <1>2, MoveSound DEF DraftCheck
<1>3. CASE DraftLoad(r)
  BY <1>0, <1>1, <1>3, LoadSound DEF DraftLoad, IsAt
<1>4. ASSUME End(r, "saved"), audit' \in AuditRows, sub' = sub, call' = call,
             AuditGrows(audit, audit'),
             sub.present => audit'.status = "submitted" /\ audit'.stamp = audit.stamp
      PROVE  StepSound(r)
  <2>1. SubGrows(sub, sub')
    BY <1>4 DEF SubGrows
  <2>2. TypeOK' /\ Frame(r) /\ pc' = [pc EXCEPT ![r] = "saved"]
    BY <1>0, <1>4, <2>1, WriteStep DEF Inv, Ended
  <2>3. pc'[r] = "saved"
    BY <2>2 DEF Inv, TypeOK
  <2>4. CopySound(r)' /\ Refusal(r)'
    BY <2>3 DEF CopySound, Refusal
  <2>5. RowsAgree'
    BY <1>4 DEF Inv, RowsAgree
  <2>6. QED
    BY <1>0, <1>4, <2>2, <2>3, <2>4, <2>5, StillRunning DEF StepSound, Outcome
<1>5. CASE DraftCommit(r)
  <2>0. pc[r] = "commit"
    BY <1>5 DEF DraftCommit, IsAt
  <2>1. CASE base[r].audit.status = "absent" /\ audit.status = "absent"
    <3>1. /\ audit' = [status |-> "in_progress", stamp |-> base[r].audit.stamp,
                       sheet |-> Draft(call[r].answers)]
          /\ End(r, "saved") /\ sub' = sub /\ call' = call
      BY <1>5, <2>1 DEF DraftCommit
    <3>2. audit' \in AuditRows
      BY <1>0, <3>1, SheetType DEF AuditRows
    <3>3. AuditGrows(audit, audit') /\ ~sub.present
      BY <2>1 DEF AuditGrows, Inv, RowsAgree
    <3>4. QED
      BY <1>4, <3>1, <3>2, <3>3
  <2>2. CASE base[r].audit.status = "absent" /\ audit.status # "absent"
    BY <1>1, <1>5, <2>2 DEF DraftCommit
  <2>3. CASE base[r].audit.status # "absent"
    <3>1. audit' = DraftSaved(r) /\ End(r, "saved") /\ sub' = sub /\ call' = call
      BY <1>5, <2>3 DEF DraftCommit
    <3>2. base[r].audit.status = "in_progress"
      BY <1>0, <2>0, <2>3 DEF CopySound, AuditRows
    <3>3. /\ audit' \in AuditRows /\ audit'.stamp = audit.stamp
          /\ audit'.status = audit.status
      BY <1>0, <3>1, <3>2, DraftSavedRow DEF Inv, Written
    <3>4. AuditGrows(audit, audit')
      BY <3>3 DEF AuditGrows
    <3>5. QED
      BY <1>4, <3>1, <3>3, <3>4 DEF Inv, RowsAgree
  <2>4. QED
    BY <2>1, <2>2, <2>3
<1>6. QED
  BY <1>2, <1>3, <1>5

\* The commits that write the submission, told by what they leave behind.
LEMMA DeliverySound ==
  ASSUME Inv, NEW r \in Requests, NEW o \in {"created", "edited", "shown"},
         pc[r] \in Running, End(r, o), call' = call,
         audit' \in AuditRows, sub' \in SubRows,
         AuditGrows(audit, audit'), SubGrows(sub, sub'),
         sub'.present, audit'.status = "submitted", audit'.stamp = sub'.stamp,
         o = "created" => /\ call[r].kind = "submit" /\ ~sub.present
                          /\ sub'.key = call[r].key /\ sub'.answers = call[r].answers,
         o = "edited" => call[r].kind = "edit",
         o = "shown" => ~sub.present
  PROVE  StepSound(r)
<1>1. TypeOK' /\ Frame(r) /\ pc' = [pc EXCEPT ![r] = o]
  BY WriteStep DEF Inv, Ended
<1>2. pc'[r] = o
  BY <1>1 DEF Inv, TypeOK
<1>3. CopySound(r)' /\ Refusal(r)'
  BY <1>2 DEF CopySound, Refusal
<1>4. RowsAgree'
  BY DEF RowsAgree
<1>5. Outcome(r)
  BY <1>2, StillRunning DEF Outcome
<1>6. QED
  BY <1>1, <1>3, <1>4, <1>5 DEF StepSound

LEMMA SubmitSound ==
  ASSUME Inv, NEW r \in Requests,
         SubmitCheck(r) \/ SubmitLoad(r) \/ SubmitCommit(r) \/ SubmitReload(r)
  PROVE  StepSound(r)
<1>0. /\ audit \in AuditRows /\ sub \in SubRows /\ CopySound(r)
      /\ call[r].kind = "submit" /\ pc[r] \in Running
      /\ base[r].audit \in AuditRows /\ call[r] \in Calls
  BY DEF Inv, TypeOK, SubmitCheck, SubmitLoad, SubmitCommit, SubmitReload, IsAt, Running, Copies
<1>1. ASSUME NEW o \in {"replayed", "refused", "failed", "broken"}, Reject(r, o)
      PROVE  StepSound(r)
  BY <1>0, <1>1, RejectSound DEF Ended
<1>2. ASSUME Reject(r, "conflict"), sub.present, ~IsReplay(r)
      PROVE  StepSound(r)
  BY <1>0, <1>2, RejectSound DEF Ended
<1>3. CASE SubmitCheck(r)
  BY <1>0, <1>1, <1>2, <1>3, MoveSound DEF SubmitCheck
<1>4. CASE SubmitLoad(r)
  BY <1>0, <1>4, LoadSound DEF SubmitLoad, IsAt
<1>5. CASE SubmitReload(r)
  BY <1>1, <1>2, <1>5 DEF SubmitReload
<1>6. CASE SubmitCommit(r)
  <2>0. pc[r] = "commit"
    BY <1>6 DEF SubmitCommit, IsAt
  <2>1. CASE SubTaken \/ AuditTaken(r)
    BY <1>0, <1>6, <2>1, MoveSound DEF SubmitCommit
  <2>2. CASE ~SubTaken /\ ~AuditTaken(r)
    <3>1. /\ audit' = Closed(r) /\ End(r, "created") /\ call' = call
          /\ sub' = [present |-> TRUE, answers |-> call[r].answers,
                     key |-> call[r].key, stamp |-> base[r].audit.stamp]
      BY <1>6, <2>2 DEF SubmitCommit
    <3>2. sub' \in SubRows
      BY <1>0, <3>1 DEF SubRows, Calls, AuditRows
    <3>3. audit' \in AuditRows /\ audit'.status = "submitted"
      BY <3>1, ClosedRow DEF Inv
    <3>4. AuditGrows(base[r].audit, audit)
      BY <1>0, <2>0 DEF CopySound
    <3>5. audit'.stamp = base[r].audit.stamp
      BY <2>2, <3>1, <3>4, ClosedRow DEF Inv, AuditGrows, AuditTaken
    <3>6. AuditGrows(audit, audit')
      BY <3>1, <3>3, ClosedRow DEF Inv, AuditGrows
    <3>7. ~sub.present /\ SubGrows(sub, sub')
      BY <2>2 DEF SubTaken, SubGrows
    <3>8. sub'.present /\ sub'.key = call[r].key /\ sub'.answers = call[r].answers
          /\ sub'.stamp = base[r].audit.stamp
      BY <3>1
    <3>9. QED
      BY <1>0, <3>1, <3>2, <3>3, <3>5, <3>6, <3>7, <3>8, DeliverySound
  <2>3. QED
    BY <2>1, <2>2
<1>7. QED
  BY <1>3, <1>4, <1>5, <1>6

LEMMA JoinSound ==
  ASSUME Inv, NEW r \in Requests, NEW w \in {"commit", "repair"}, Join(r, w),
         pc[r] \in Running, audit.status # "absent",
         \/ call[r].kind = "edit" /\ w = "commit"
         \/ call[r].kind = "show" /\ w = "repair" /\ audit.status = "submitted"
  PROVE  StepSound(r)
<1>1. /\ Goto(r, w) /\ UNCHANGED <<audit, sub, call>>
      /\ base' = [base EXCEPT ![r] = [audit |-> audit, sub |-> sub]]
  BY DEF Join
<1>2. [audit |-> audit, sub |-> sub] \in Copies
  BY DEF Inv, TypeOK, Copies
<1>3. QED
  BY <1>1, <1>2, GrowsRefl, CopySoundNow

LEMMA EditSound ==
  ASSUME Inv, NEW r \in Requests, EditJoin(r) \/ EditCommit(r)
  PROVE  StepSound(r)
<1>0. /\ audit \in AuditRows /\ sub \in SubRows /\ CopySound(r)
      /\ call[r].kind = "edit" /\ pc[r] \in Running
      /\ base[r].audit \in AuditRows /\ base[r].sub \in SubRows /\ call[r] \in Calls
  BY DEF Inv, TypeOK, EditJoin, EditCommit, IsAt, Running, Copies
<1>1. ASSUME NEW o \in {"missing", "refused", "failed"}, Reject(r, o)
      PROVE  StepSound(r)
  BY <1>0, <1>1, RejectSound DEF Ended
<1>2. CASE EditJoin(r)
  BY <1>0, <1>1, <1>2, JoinSound DEF EditJoin
<1>3. CASE EditCommit(r)
  <2>0. /\ AuditGrows(base[r].audit, audit) /\ base[r].audit.status # "absent"
        /\ SubGrows(base[r].sub, sub)
    BY <1>0, <1>3 DEF EditCommit, IsAt, CopySound
  <2>1. CASE ~base[r].sub.present /\ SubTaken
    BY <1>1, <1>3, <2>1 DEF EditCommit
  <2>2. ASSUME audit' = Closed(r)
        PROVE  /\ audit' \in AuditRows /\ audit'.status = "submitted"
               /\ audit'.stamp = audit.stamp /\ audit'.stamp = base[r].audit.stamp
               /\ AuditGrows(audit, audit')
    BY <2>0, <2>2, ClosedRow DEF Inv, AuditGrows
  <2>3. CASE ~base[r].sub.present /\ ~SubTaken
    <3>1. /\ audit' = Closed(r) /\ End(r, "edited") /\ call' = call
          /\ sub' = [present |-> TRUE, answers |-> call[r].answers,
                     key |-> NoKey, stamp |-> base[r].audit.stamp]
      BY <1>3, <2>3 DEF EditCommit
    <3>2. sub' \in SubRows /\ sub'.present /\ sub'.stamp = base[r].audit.stamp
      BY <1>0, <3>1 DEF SubRows, Calls, AuditRows
    <3>3. SubGrows(sub, sub')
      BY <2>3 DEF SubTaken, SubGrows
    <3>4. QED
      BY <1>0, <2>2, <3>1, <3>2, <3>3, DeliverySound
  <2>4. CASE base[r].sub.present
    <3>1. /\ audit' = Closed(r) /\ End(r, "edited") /\ call' = call
          /\ sub' = [sub EXCEPT !.answers =
                       Written(sub.answers, base[r].sub.answers, call[r].answers)]
      BY <1>3, <2>4 DEF EditCommit
    <3>2. Written(sub.answers, base[r].sub.answers, call[r].answers) \in Answers \cup {Nobody}
      BY <1>0, WrittenType DEF SubRows, Calls
    <3>3. /\ sub' \in SubRows /\ sub'.present = sub.present
          /\ sub'.stamp = sub.stamp /\ sub'.key = sub.key
      BY <1>0, <3>1, <3>2 DEF SubRows
    <3>4. sub.present /\ audit.stamp = sub.stamp
      BY <2>0, <2>4 DEF SubGrows, Inv, RowsAgree
    <3>5. SubGrows(sub, sub')
      BY <3>3 DEF SubGrows
    <3>6. QED
      BY <1>0, <2>2, <3>1, <3>3, <3>4, <3>5, DeliverySound
  <2>5. QED
    BY <2>1, <2>3, <2>4
<1>4. QED
  BY <1>2, <1>3

LEMMA ShowSound ==
  ASSUME Inv, NEW r \in Requests, ShowJoin(r) \/ RepairCommit(r)
  PROVE  StepSound(r)
<1>0. /\ audit \in AuditRows /\ sub \in SubRows /\ CopySound(r)
      /\ call[r].kind = "show" /\ pc[r] \in Running
      /\ base[r].audit \in AuditRows
  BY DEF Inv, TypeOK, ShowJoin, RepairCommit, IsAt, Running, Copies
<1>1. ASSUME NEW o \in {"missing", "refused", "failed", "shown"}, Reject(r, o)
      PROVE  StepSound(r)
  BY <1>0, <1>1, RejectSound DEF Ended
<1>2. CASE ShowJoin(r)
  BY <1>0, <1>1, <1>2, JoinSound DEF ShowJoin
<1>3. CASE RepairCommit(r)
  <2>1. CASE SubTaken
    BY <1>1, <1>3, <2>1 DEF RepairCommit
  <2>2. CASE ~SubTaken
    <3>1. /\ End(r, "shown") /\ audit' = audit /\ call' = call
          /\ sub' = [present |-> TRUE, answers |-> base[r].audit.sheet.of,
                     key |-> NoKey, stamp |-> base[r].audit.stamp]
      BY <1>3, <2>2 DEF RepairCommit
    <3>2. AuditGrows(base[r].audit, audit) /\ base[r].audit.status = "submitted"
      BY <1>0, <1>3 DEF RepairCommit, IsAt, CopySound
    <3>3. audit.status = "submitted" /\ audit.stamp = base[r].audit.stamp
      BY <3>2 DEF AuditGrows
    <3>4. sub' \in SubRows /\ sub'.present /\ sub'.stamp = base[r].audit.stamp
      BY <1>0, <3>1 DEF SubRows, AuditRows, Sheets
    <3>5. AuditGrows(audit, audit') /\ SubGrows(sub, sub') /\ ~sub.present
      BY <2>2, <3>1, GrowsRefl DEF SubTaken, SubGrows
    <3>6. QED
      BY <1>0, <3>1, <3>3, <3>4, <3>5, DeliverySound
  <2>3. QED
    BY <2>1, <2>2
<1>4. QED
  BY <1>2, <1>3

LEMMA EveryStepSound ==
  ASSUME Inv, NEW r \in Requests, Arrive(r) \/ Step(r) \/ Crash(r)
  PROVE  StepSound(r)
<1>1. CASE Arrive(r)
  BY <1>1, ArriveSound
<1>2. CASE Step(r)
  BY <1>2, DraftSound, SubmitSound, EditSound, ShowSound DEF Step
<1>3. CASE Crash(r)
  BY <1>3, RejectSound DEF Crash, Ended
<1>4. QED
  BY <1>1, <1>2, <1>3
-----------------------------------------------------------------------------
\* Growth keeps what the other requests rely on.
LEMMA OthersSound ==
  ASSUME Inv, NEW r \in Requests, StepSound(r), NEW q \in Requests, q # r
  PROVE  CopySound(q)' /\ Refusal(q)'
<1>1. /\ pc'[q] = pc[q] /\ base'[q] = base[q] /\ call'[q] = call[q]
      /\ AuditGrows(audit, audit') /\ SubGrows(sub, sub')
  BY DEF StepSound, Frame
<1>2. CopySound(q) /\ Refusal(q)
  BY DEF Inv
<1>3. \A c \in AuditRows : AuditGrows(c, audit) => AuditGrows(c, audit')
  BY <1>1 DEF AuditGrows
<1>4. \A c \in SubRows : SubGrows(c, sub) => SubGrows(c, sub')
  BY <1>1 DEF SubGrows
<1>5. base[q].audit \in AuditRows /\ base[q].sub \in SubRows
  BY DEF Inv, TypeOK, Copies
<1>6. CopySound(q)'
  BY <1>1, <1>2, <1>3, <1>4, <1>5 DEF CopySound
<1>7. Refusal(q)'
  BY <1>1, <1>2 DEF Refusal, SubGrows
<1>8. QED
  BY <1>6, <1>7

\* A submit is accepted only where there was no submission, and the stored
\* answers change only in an edit that is then known as such.
LEMMA AcceptedPreserved ==
  ASSUME Inv, NEW r \in Requests, StepSound(r)
  PROVE  AcceptedIsKept'
<1>1. SUFFICES ASSUME NEW p \in Requests, Created(p)'
      PROVE  /\ \A q \in Requests : Created(q)' => q = p
             /\ sub'.present /\ sub'.key = call'[p].key
             /\ \/ sub'.answers = call'[p].answers
                \/ \E q \in Requests : call'[q].kind = "edit" /\ pc'[q] = "edited"
  BY DEF AcceptedIsKept
<1>2. /\ \A q \in Requests : q # r => pc'[q] = pc[q] /\ call'[q] = call[q]
      /\ SubGrows(sub, sub') /\ Outcome(r)
  BY DEF StepSound, Frame
<1>3. ~Created(r)
  BY <1>2 DEF Outcome, Created, Ended
<1>4. CASE p = r
  <2>1. ~sub.present /\ sub'.present /\ sub'.key = call[r].key /\ sub'.answers = call[r].answers
        /\ call' = call
    BY <1>1, <1>2, <1>4 DEF Outcome, Created
  <2>2. \A q \in Requests : ~Created(q)
    BY <2>1 DEF Inv, AcceptedIsKept
  <2>3. \A q \in Requests : Created(q)' => q = p
    BY <1>2, <1>4, <2>2 DEF Created
  <2>4. QED
    BY <1>4, <2>1, <2>3
<1>5. CASE p # r
  <2>1. Created(p) /\ pc'[p] = pc[p] /\ call'[p] = call[p]
    BY <1>1, <1>2, <1>5 DEF Created
  <2>2. /\ \A q \in Requests : Created(q) => q = p
        /\ sub.present /\ sub.key = call[p].key
        /\ \/ sub.answers = call[p].answers
           \/ \E q \in Requests : call[q].kind = "edit" /\ pc[q] = "edited"
    BY <2>1 DEF Inv, AcceptedIsKept
  <2>3. sub'.present /\ sub'.key = sub.key
    BY <1>2, <2>2 DEF SubGrows
  <2>4. ~Created(r)'
    BY <1>2, <2>2 DEF Outcome, Created, Ended
  <2>5. \A q \in Requests : Created(q)' => q = p
    BY <1>2, <2>2, <2>4 DEF Created
  <2>6. \/ sub'.answers = call'[p].answers
        \/ \E q \in Requests : call'[q].kind = "edit" /\ pc'[q] = "edited"
    <3>1. CASE \E q \in Requests : call[q].kind = "edit" /\ pc[q] = "edited"
      <4>1. PICK q \in Requests : call[q].kind = "edit" /\ pc[q] = "edited"
        BY <3>1
      <4>2. q # r
        BY <1>2, <4>1 DEF Outcome, Ended
      <4>3. QED
        BY <1>2, <4>1, <4>2
    <3>2. CASE sub.answers = call[p].answers /\ sub' = sub
      BY <2>1, <3>2
    <3>3. CASE sub' # sub
      BY <1>2, <2>2, <3>3 DEF Outcome
    <3>4. QED
      BY <2>2, <3>1, <3>2, <3>3
  <2>7. QED
    BY <2>1, <2>2, <2>3, <2>5, <2>6
<1>6. QED
  BY <1>4, <1>5

LEMMA InvInit == Init => Inv
<1> SUFFICES ASSUME Init
    PROVE  Inv
  OBVIOUS
<1>1. audit \in AuditRows /\ sub \in SubRows /\ RowsAgree
  <2>1. ASSUME NEW a \in Answers, NEW v \in Stamps, NEW f \in {"draft", "final"},
               NEW t \in {"in_progress", "submitted"}
        PROVE  [status |-> t, stamp |-> v, sheet |-> [form |-> f, of |-> a]] \in AuditRows
    BY DEF AuditRows, Sheets
  <2>2. ASSUME NEW a \in Answers, NEW v \in Stamps, NEW k \in Keys \cup {NoKey}
        PROVE  [present |-> TRUE, answers |-> a, key |-> k, stamp |-> v] \in SubRows
    BY DEF SubRows
  <2>3. ~NoSub.present
    BY DEF NoSub
  <2>4. PICK a \in Answers, v \in Stamps, k \in Keys \cup {NoKey} :
          \/ audit = NoAudit /\ sub = NoSub
          \/ /\ audit = [status |-> "in_progress", stamp |-> v,
                         sheet |-> [form |-> "draft", of |-> a]]
             /\ sub = NoSub
          \/ /\ audit = [status |-> "submitted", stamp |-> v,
                         sheet |-> [form |-> "final", of |-> a]]
             /\ sub \in {NoSub, [present |-> TRUE, answers |-> a, key |-> k, stamp |-> v]}
    BY DEF Init
  <2>5. audit \in AuditRows /\ sub \in SubRows
    BY <2>1, <2>2, <2>4, NoRowsType
  <2>6. RowsAgree
    BY <2>3, <2>4 DEF RowsAgree
  <2>7. QED
    BY <2>5, <2>6
<1>2. NoCall \in Calls
  BY DEF NoCall, Calls
<1>3. TypeOK
  BY <1>1, <1>2, NoRowsType DEF Init, TypeOK
<1>4. \A r \in Requests : pc[r] = "new"
  BY DEF Init
<1>5. QED
  BY <1>1, <1>3, <1>4 DEF Inv, CopySound, Refusal, AcceptedIsKept, Created

LEMMA InvNext == Inv /\ [Next]_vars => Inv'
<1> SUFFICES ASSUME Inv, [Next]_vars
    PROVE  Inv'
  OBVIOUS
<1>1. ASSUME NEW r \in Requests, Arrive(r) \/ Step(r) \/ Crash(r)
      PROVE  Inv'
  <2>1. StepSound(r)
    BY <1>1, EveryStepSound
  <2>2. \A q \in Requests : CopySound(q)' /\ Refusal(q)'
    BY <2>1, OthersSound DEF StepSound
  <2>3. QED
    BY <2>1, <2>2, AcceptedPreserved DEF Inv, StepSound
<1>2. CASE UNCHANGED vars
  <2>1. UNCHANGED <<audit, sub, pc, call, base>>
    BY <1>2 DEF vars
  <2>2. TypeOK' /\ RowsAgree'
    BY <2>1 DEF Inv, TypeOK, RowsAgree
  <2>3. \A q \in Requests : CopySound(q)' /\ Refusal(q)'
    BY <2>1 DEF Inv, CopySound, Refusal
  <2>4. AcceptedIsKept'
    BY <2>1 DEF Inv, AcceptedIsKept, Created
  <2>5. QED
    BY <2>2, <2>3, <2>4 DEF Inv
<1>3. QED
  BY <1>1, <1>2 DEF Next

LEMMA AlwaysInv == Spec => []Inv
BY InvInit, InvNext, PTL DEF Spec

\* Every reachable state is well typed.
THEOREM TypeCorrect == Spec => []TypeOK
<1>1. Inv => TypeOK
  BY DEF Inv
<1>2. QED
  BY <1>1, AlwaysInv, PTL

\* One submit at most is accepted, and what it stored is kept.
THEOREM Accepted == Spec => []AcceptedIsKept
<1>1. Inv => AcceptedIsKept
  BY DEF Inv
<1>2. QED
  BY <1>1, AlwaysInv, PTL

\* A retry with the stored key is never refused as a duplicate.
THEOREM Replay == Spec => []ReplayNotRefused
<1>1. Inv => ReplayNotRefused
  BY DEF Inv, ReplayNotRefused, Refusal
<1>2. QED
  BY <1>1, AlwaysInv, PTL

\* Submission and audit agree on status and instrument version.
THEOREM Agreement == Spec => []RowsAgree
<1>1. Inv => RowsAgree
  BY DEF Inv
<1>2. QED
  BY <1>1, AlwaysInv, PTL

\* A submitted audit is never reopened nor restamped.
THEOREM Closure == Spec => NeverReopened
<1>1. Inv /\ [Next]_vars =>
        [audit.status = "submitted" =>
           audit'.status = "submitted" /\ audit'.stamp = audit.stamp]_vars
  <2> SUFFICES ASSUME Inv, Next
      PROVE  AuditGrows(audit, audit')
    BY DEF AuditGrows
  <2>1. PICK r \in Requests : Arrive(r) \/ Step(r) \/ Crash(r)
    BY DEF Next
  <2>2. QED
    BY <2>1, EveryStepSound DEF StepSound, Frame
<1>2. QED
  BY <1>1, AlwaysInv, PTL DEF Spec, NeverReopened
=============================================================================
