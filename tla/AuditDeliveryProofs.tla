------------------------ MODULE AuditDeliveryProofs ------------------------
(***************************************************************************)
(* Proofs about AuditDelivery for any number of auditors, slots, sections, *)
(* keys and requests.                                                      *)
(***************************************************************************)
EXTENDS AuditDelivery, TLAPS

USE DeliveryAssumption

LEMMA BlankType == Blank \in Answers /\ NoCell \in Cells
  BY DEF Blank, NoCell, Answers, Cells, Ids

LEMMA RowTypes ==
    /\ AbsentRow \in Rows
    /\ \A i \in Ids : NewRow(i) \in Rows
  BY BlankType DEF AbsentRow, NewRow, Rows, Ids

LEMMA SavedRowType == \A done \in SUBSET Sections : SavedRow(done) \in Rows
  BY BlankType DEF SavedRow, NewRow, Rows, Answers, Cells, Ids, NoCell

LEMMA NoCallType == NoCall \in Calls
<1>1. (CHOOSE s \in Slots : TRUE) \in Slots
  OBVIOUS
<1>2. QED
  BY <1>1 DEF NoCall, Calls, Ids

LEMMA InitType == Init => TypeOK
  BY RowTypes, SavedRowType, NoCallType DEF Init, TypeOK, Ids

LEMMA EndTypes ==
  ASSUME TypeOK, NEW r \in Requests, NEW o \in Ended, End(r, o)
  PROVE  /\ pc' \in [Requests -> {"new"} \cup Running \cup Ended]
         /\ base' \in [Requests -> Rows]
         /\ userLock' \in [Auditors -> Requests \cup {NoRequest}]
         /\ profileLock' \in [Auditors -> Requests \cup {NoRequest}]
  BY RowTypes DEF TypeOK, End, Goto, FreeLocks

LEMMA RejectType ==
  ASSUME TypeOK, NEW r \in Requests, NEW o \in Ended, Reject(r, o)
  PROVE  TypeOK'
<1>1. End(r, o) /\ UNCHANGED <<row, removed, linked, call>>
  BY DEF Reject
<1>2. QED
  BY <1>1, EndTypes DEF TypeOK

LEMMA ArriveType ==
  ASSUME TypeOK, NEW r \in Requests, Arrive(r)
  PROVE  TypeOK'
<1>1. ASSUME NEW c \in Calls, NEW where \in Running, Begin(r, c, where)
      PROVE  TypeOK'
  BY <1>1 DEF TypeOK, Begin, Goto
<1> USE NoCallType DEF TypeOK
<1>2. CASE BeginCreate(r)
  <2>1. PICK s \in Slots :
          Begin(r, [NoCall EXCEPT !.kind = "create", !.slot = s], "check")
    BY <1>2 DEF BeginCreate
  <2>2. [NoCall EXCEPT !.kind = "create", !.slot = s] \in Calls
    BY DEF Calls
  <2>3. QED
    BY <1>1, <2>1, <2>2 DEF Running
<1>3. CASE BeginPatch(r)
  <2>0. PICK s \in Slots, w \in (SUBSET Sections) \ {{}}, whole \in BOOLEAN :
          \E e \in SeenRevisions(s) :
            Begin(r, [NoCall EXCEPT !.kind = "patch", !.slot = s, !.audit = row[s].id,
                        !.expected = e, !.writes = w, !.replace = whole], "load")
    BY <1>3 DEF BeginPatch
  <2>1. PICK e \in SeenRevisions(s) :
          Begin(r, [NoCall EXCEPT !.kind = "patch", !.slot = s, !.audit = row[s].id,
                      !.expected = e, !.writes = w, !.replace = whole], "load")
    BY <2>0
  <2>2. row[s].id \in Ids /\ e \in Nat
    BY <2>1 DEF SeenRevisions, Rows
  <2>3. [NoCall EXCEPT !.kind = "patch", !.slot = s, !.audit = row[s].id,
           !.expected = e, !.writes = w, !.replace = whole] \in Calls
    BY <2>2 DEF Calls
  <2>4. QED
    BY <1>1, <2>1, <2>3 DEF Running
<1>4. CASE BeginSubmit(r)
  <2>0. PICK s \in Slots, k \in Keys \cup {NoKey} :
          \E e \in SeenRevisions(s) :
            Begin(r, [NoCall EXCEPT !.kind = "submit", !.slot = s, !.audit = row[s].id,
                        !.expected = e, !.key = k], "lock")
    BY <1>4 DEF BeginSubmit
  <2>1. PICK e \in SeenRevisions(s) :
          Begin(r, [NoCall EXCEPT !.kind = "submit", !.slot = s, !.audit = row[s].id,
                      !.expected = e, !.key = k], "lock")
    BY <2>0
  <2>2. row[s].id \in Ids /\ e \in Nat
    BY <2>1 DEF SeenRevisions, Rows
  <2>3. [NoCall EXCEPT !.kind = "submit", !.slot = s, !.audit = row[s].id,
           !.expected = e, !.key = k] \in Calls
    BY <2>2 DEF Calls
  <2>4. QED
    BY <1>1, <2>1, <2>3 DEF Running
<1>5. CASE BeginIntent(r)
  <2>1. PICK s \in Slots :
          Begin(r, [NoCall EXCEPT !.kind = "intent", !.slot = s,
                      !.audit = row[s].id], "lock")
    BY <1>5 DEF BeginIntent
  <2>2. row[s].id \in Ids
    BY DEF Rows
  <2>3. [NoCall EXCEPT !.kind = "intent", !.slot = s, !.audit = row[s].id] \in Calls
    BY <2>2 DEF Calls
  <2>4. QED
    BY <1>1, <2>1, <2>3 DEF Running
<1>6. CASE BeginDelete(r)
  <2>1. PICK s \in Slots :
          Begin(r, [NoCall EXCEPT !.kind = "delete", !.slot = s], "lock_user")
    BY <1>6 DEF BeginDelete
  <2>2. [NoCall EXCEPT !.kind = "delete", !.slot = s] \in Calls
    BY DEF Calls
  <2>3. QED
    BY <1>1, <2>1, <2>2 DEF Running
<1>7. QED
  BY <1>2, <1>3, <1>4, <1>5, <1>6 DEF Arrive

LEMMA CallFields ==
  ASSUME TypeOK, NEW r \in Requests
  PROVE  /\ call[r] \in Calls
         /\ Slot(r) \in Slots
         /\ Owner(r) \in Auditors
         /\ row[Slot(r)] \in Rows
         /\ base[r] \in Rows
  BY DEF TypeOK, Calls, Slot, Owner

\* A transaction that only reads and takes locks keeps the types.
LEMMA ReadType ==
  ASSUME TypeOK, NEW r \in Requests,
         NEW where \in Running, Goto(r, where),
         UNCHANGED <<row, removed, linked, call>>,
         base' = base \/ base' = [base EXCEPT ![r] = row[Slot(r)]],
         UNCHANGED userLock \/ userLock' = [userLock EXCEPT ![Owner(r)] = r],
         UNCHANGED profileLock \/ profileLock' = [profileLock EXCEPT ![Owner(r)] = r]
  PROVE  TypeOK'
  BY CallFields DEF TypeOK, Goto

LEMMA MergedType ==
  ASSUME TypeOK, NEW r \in Requests, NEW a \in Answers
  PROVE  Merged(r, a) \in Answers
<1>1. base[r].answers \in Answers
  BY CallFields DEF Rows
<1>2. \A x \in Sections : base[r].answers[x].born \in Ids /\ a[x] \in Cells
  BY <1>1 DEF Answers, Cells
<1>3. \A x \in Sections : [a[x] EXCEPT !.by = r] \in Cells
  BY <1>2 DEF Cells, Ids
<1>4. [born |-> r, by |-> r] \in Cells
  BY DEF Cells, Ids
<1>5. \A x \in Sections : Merged(r, a)[x] \in Cells
  BY <1>2, <1>3, <1>4, BlankType DEF Merged
<1>6. QED
  BY <1>5 DEF Merged, Answers

LEMMA WriteType ==
  ASSUME TypeOK, NEW r \in Requests, NEW o \in Ended, End(r, o),
         row' \in [Slots -> Rows], linked' \in [Auditors -> BOOLEAN],
         UNCHANGED <<removed, call>>
  PROVE  TypeOK'
  BY EndTypes DEF TypeOK

LEMMA StepType ==
  ASSUME TypeOK, NEW r \in Requests, Step(r)
  PROVE  TypeOK'
<1> DEFINE s == Slot(r)
<1>0. /\ row \in [Slots -> Rows] /\ linked \in [Auditors -> BOOLEAN]
      /\ s \in Slots /\ Owner(r) \in Auditors
      /\ row[s] \in Rows /\ base[r] \in Rows /\ call[r] \in Calls
  BY CallFields DEF TypeOK
<1>1. CASE CreateCheck(r)
  BY <1>1, ReadType, RejectType DEF CreateCheck, Running, Ended
<1>2. CASE CreateLookup(r)
  BY <1>2, ReadType, RejectType DEF CreateLookup, Running, Ended
<1>3. CASE CreateInsert(r)
  <2>1. CASE row' = [row EXCEPT ![s] = NewRow(r)] /\ End(r, "created")
             /\ UNCHANGED <<removed, linked, call>>
    <3>1. row' \in [Slots -> Rows]
      BY <1>0, <2>1, RowTypes DEF Ids
    <3>2. QED
      BY <1>0, <2>1, <3>1, WriteType DEF Ended
  <2>2. QED
    BY <1>3, <2>1, RejectType DEF CreateInsert, Ended
<1>4. CASE PatchLoad(r)
  BY <1>4, ReadType, RejectType DEF PatchLoad, Running, Ended
<1>5. CASE PatchCommit(r)
  <2>1. CASE /\ row' = [row EXCEPT ![s] = Saved(r, row[s])]
             /\ End(r, "saved") /\ UNCHANGED <<removed, linked, call>>
    <3>1. Merged(r, row[s].answers) \in Answers
      BY <1>0, MergedType DEF Rows
    <3>2. base[r].revision + 1 \in Nat
      BY <1>0 DEF Rows
    <3>3. ScoresAfterPatch(r) \in {"empty", "progress", "calculated"}
      BY <1>0 DEF ScoresAfterPatch, Rows
    <3>4. Saved(r, row[s]) \in Rows
      BY <1>0, <3>1, <3>2, <3>3 DEF Saved, Rows
    <3>5. row' \in [Slots -> Rows]
      BY <1>0, <2>1, <3>4
    <3>6. QED
      BY <1>0, <2>1, <3>5, WriteType DEF Ended
  <2>2. QED
    BY <1>5, <2>1, RejectType DEF PatchCommit, Ended
<1>6. CASE LockProfileForAudit(r)
  BY <1>6, ReadType, RejectType DEF LockProfileForAudit, Running, Ended
<1>7. CASE SubmitLoad(r)
  BY <1>7, ReadType, RejectType DEF SubmitLoad, Running, Ended
<1>8. CASE SubmitCommit(r)
  <2>0. /\ base[r].answers \in Answers
        /\ call[r].key \in Keys \cup {NoKey}
    BY <1>0 DEF Rows, Calls
  <2>1. CASE /\ row' = [row EXCEPT ![s] = Submitted(r, row[s])]
             /\ End(r, "delivered") /\ UNCHANGED <<removed, linked, call>>
    <3>1. Submitted(r, row[s]) \in Rows
      BY <1>0, <2>0 DEF Submitted, Rows
    <3>2. row' \in [Slots -> Rows]
      BY <1>0, <2>1, <3>1
    <3>3. QED
      BY <1>0, <2>1, <3>2, WriteType DEF Ended
  <2>2. QED
    BY <1>8, <2>1, RejectType DEF SubmitCommit, Ended
<1>9. CASE IntentLoad(r)
  BY <1>9, ReadType, RejectType DEF IntentLoad, Running, Ended
<1>10. CASE IntentCommit(r)
  <2>1. CASE /\ row' = [row EXCEPT ![s] = Announced(r, row[s])]
             /\ End(r, "recorded") /\ UNCHANGED <<removed, linked, call>>
    <3>1. Announced(r, row[s]) \in Rows
      BY <1>0 DEF Announced, Rows, Ids
    <3>2. row' \in [Slots -> Rows]
      BY <1>0, <2>1, <3>1
    <3>3. QED
      BY <1>0, <2>1, <3>2, WriteType DEF Ended
  <2>2. QED
    BY <1>10, <2>1, RejectType DEF IntentCommit, Ended
<1>11. CASE DeleteLockUser(r)
  BY <1>11, ReadType, RejectType DEF DeleteLockUser, Running, Ended
<1>12. CASE DeleteLockProfile(r)
  BY <1>12, ReadType, RejectType DEF DeleteLockProfile, Running, Ended
<1>13. CASE DeleteVerify(r)
  BY <1>13, ReadType, RejectType DEF DeleteVerify, Running, Ended
<1>14. CASE DeleteErase(r)
  <2>1. row' \in [Slots -> Rows] /\ linked' \in [Auditors -> BOOLEAN]
    BY <1>0, <1>14, RowTypes DEF DeleteErase
  <2>2. QED
    BY <1>14, <2>1, WriteType DEF DeleteErase, Ended
<1>15. QED
  BY <1>1, <1>2, <1>3, <1>4, <1>5, <1>6, <1>7, <1>8, <1>9, <1>10, <1>11,
     <1>12, <1>13, <1>14 DEF Step

LEMMA WithdrawType ==
  ASSUME TypeOK, NEW s \in Slots, Withdraw(s)
  PROVE  TypeOK'
  BY RowTypes DEF TypeOK, Withdraw

\* Every reachable state is well typed.
THEOREM TypeCorrect == Spec => []TypeOK
<1>1. TypeOK /\ [Next]_vars => TypeOK'
  <2> SUFFICES ASSUME TypeOK, [Next]_vars PROVE TypeOK'
    OBVIOUS
  <2>1. CASE UNCHANGED vars
    BY <2>1 DEF vars, TypeOK
  <2>2. ASSUME NEW r \in Requests, Arrive(r) \/ Step(r) \/ Crash(r)
        PROVE  TypeOK'
    BY <2>2, ArriveType, StepType, RejectType DEF Crash, Ended
  <2>3. QED
    BY <2>1, <2>2, WithdrawType DEF Next
<1>2. QED
  BY InitType, <1>1, PTL DEF Spec
-----------------------------------------------------------------------------
(***************************************************************************)
(* The lock argument.  Two requests never hold one profile, so the request *)
(* that holds it is alone in writing statuses, intents and erasures of its *)
(* auditor; saves and new audits, which take no lock, write nothing that a *)
(* holder relies on.                                                       *)
(***************************************************************************)

\* What a step of q may do to the rows.
WritesRow(q, s) ==
    \/ row'[s] = row[s]
    \/ /\ row'[s].status = row[s].status
       /\ row'[s].id = row[s].id
       /\ row'[s].intended = row[s].intended
    \/ row[s].status = "absent" /\ row'[s].intended = NoRequest
    \/ HoldsProfile(q) /\ OwnerOf[s] = Owner(q)

UnlinksOwn(q) ==
    \/ linked' = linked
    \/ /\ HoldsUser(q)
       /\ linked' = [linked EXCEPT ![Owner(q)] = FALSE]

\* A step of q leaves the other requests and their locks alone, and removes
\* no project or place.
Undisturbed(q) ==
  /\ removed' = removed
  /\ \A r \in Requests \ {q} :
      /\ pc'[r] = pc[r] /\ call'[r] = call[r] /\ base'[r] = base[r]
      /\ \A a \in Auditors : /\ profileLock'[a] = r <=> profileLock[a] = r
                             /\ userLock'[a] = r <=> userLock[a] = r

Disciplined(r) ==
    /\ \A a \in Auditors :
         /\ profileLock[a] = r <=> a = Owner(r) /\ HoldsProfile(r)
         /\ userLock[a] = r <=> a = Owner(r) /\ HoldsUser(r)
    /\ HoldsUser(r) => linked[Owner(r)]
    /\ WriterFindsDraft(r)
    /\ EraserFindsNothingAnnounced(r)

LEMMA DisciplinedAll == LockDiscipline <=> \A r \in Requests : Disciplined(r)
  BY DEF LockDiscipline, Disciplined

LEMMA OthersDisciplined ==
  ASSUME TypeOK, TypeOK', LockDiscipline, NEW q \in Requests, Undisturbed(q), UnlinksOwn(q),
         \A s \in Slots : WritesRow(q, s),
         NEW r \in Requests \ {q}
  PROVE  Disciplined(r)'
<1>1. /\ Disciplined(r) /\ Disciplined(q)
      /\ r # q /\ Slot(r) \in Slots /\ Owner(r) \in Auditors /\ Owner(q) \in Auditors
  BY DisciplinedAll, CallFields
<1>2. /\ Slot(r)' = Slot(r) /\ Owner(r)' = Owner(r) /\ call'[r] = call[r]
      /\ pc'[r] = pc[r] /\ base'[r] = base[r]
      /\ HoldsProfile(r)' = HoldsProfile(r) /\ HoldsUser(r)' = HoldsUser(r)
  BY DEF Undisturbed, Slot, Owner, HoldsProfile, HoldsUser
<1>3. HoldsProfile(r) /\ Owner(r) = Owner(q) => ~HoldsProfile(q)
  BY <1>1 DEF Disciplined
<1>4. HoldsUser(r) /\ Owner(r) = Owner(q) => ~HoldsUser(q)
  BY <1>1 DEF Disciplined
<1>5. \A a \in Auditors :
        /\ profileLock'[a] = r <=> a = Owner(r) /\ HoldsProfile(r)
        /\ userLock'[a] = r <=> a = Owner(r) /\ HoldsUser(r)
  BY <1>1 DEF Undisturbed, Disciplined
<1>6. HoldsUser(r) => linked'[Owner(r)]
  BY <1>1, <1>4 DEF Disciplined, UnlinksOwn, TypeOK
<1>7. WriterFindsDraft(r)'
  <2> SUFFICES ASSUME call[r].kind \in {"submit", "intent"}, pc[r] = "commit"
      PROVE  /\ Slot(r) \notin removed =>
                  /\ row'[Slot(r)].status = "in_progress"
                  /\ row'[Slot(r)].id = call[r].audit
                  /\ base[r].intended = row'[Slot(r)].intended
             /\ call[r].kind = "submit" => IsComplete(base[r].answers)
    BY <1>2 DEF WriterFindsDraft, Found, Undisturbed
  <2>1. /\ Slot(r) \notin removed =>
             /\ row[Slot(r)].status = "in_progress"
             /\ row[Slot(r)].id = call[r].audit
             /\ base[r].intended = row[Slot(r)].intended
        /\ call[r].kind = "submit" => IsComplete(base[r].answers)
    BY <1>1 DEF Disciplined, WriterFindsDraft, Found
  <2>2. HoldsProfile(r)
    BY DEF HoldsProfile
  <2>3. ~(HoldsProfile(q) /\ OwnerOf[Slot(r)] = Owner(q))
    BY <1>3, <2>2 DEF Owner
  <2>4. WritesRow(q, Slot(r))
    BY <1>1
  <2>5. QED
    BY <2>1, <2>3, <2>4 DEF WritesRow
<1>8. EraserFindsNothingAnnounced(r)'
  <2> SUFFICES ASSUME call[r].kind = "delete", pc[r] = "erase",
                      NEW s \in Slots, OwnerOf[s] = Owner(r)
      PROVE  ~(row'[s].status = "in_progress" /\ row'[s].intended # NoRequest)
    BY <1>2 DEF EraserFindsNothingAnnounced, Pending
  <2>1. ~(row[s].status = "in_progress" /\ row[s].intended # NoRequest)
    BY <1>1 DEF Disciplined, EraserFindsNothingAnnounced, Pending
  <2>2. HoldsProfile(r)
    BY DEF HoldsProfile
  <2>3. ~(HoldsProfile(q) /\ OwnerOf[s] = Owner(q))
    BY <1>3, <2>2
  <2>4. QED
    BY <2>1, <2>3 DEF WritesRow
<1>9. QED
  BY <1>2, <1>5, <1>6, <1>7, <1>8 DEF Disciplined

LEMMA InitDiscipline == Init => LockDiscipline
<1> SUFFICES ASSUME Init, NEW r \in Requests PROVE Disciplined(r)
  BY DisciplinedAll
<1>1. pc[r] = "new" /\ \A a \in Auditors : profileLock[a] # r /\ userLock[a] # r
  BY DEF Init
<1>2. QED
  BY <1>1 DEF Disciplined, HoldsProfile, HoldsUser, WriterFindsDraft,
              EraserFindsNothingAnnounced

\* How a request ends: it holds nothing and disturbs nobody.
LEMMA EndDiscipline ==
  ASSUME TypeOK, NEW q \in Requests, NEW o \in Ended, End(q, o),
         UNCHANGED <<removed, call>>
  PROVE  Undisturbed(q) /\ Disciplined(q)'
<1>1. pc'[q] = o /\ \A a \in Auditors : profileLock'[a] # q /\ userLock'[a] # q
  BY DEF End, Goto, FreeLocks, TypeOK
<1>2. Disciplined(q)'
  BY <1>1 DEF Disciplined, HoldsProfile, HoldsUser, WriterFindsDraft,
              EraserFindsNothingAnnounced, Ended
<1>3. Undisturbed(q)
  BY DEF Undisturbed, End, Goto, FreeLocks, TypeOK
<1>4. QED
  BY <1>2, <1>3

LEMMA RejectDiscipline ==
  ASSUME TypeOK, NEW q \in Requests, NEW o \in Ended, Reject(q, o)
  PROVE  /\ Undisturbed(q) /\ Disciplined(q)'
         /\ UnlinksOwn(q) /\ \A s \in Slots : WritesRow(q, s)
  BY EndDiscipline DEF Reject, UnlinksOwn, WritesRow

\* What a step of q must respect, whoever q is.
Respects(q) ==
    /\ Undisturbed(q)
    /\ UnlinksOwn(q)
    /\ \A s \in Slots : WritesRow(q, s)
    /\ Disciplined(q)'

LEMMA RejectRespects ==
  ASSUME TypeOK, NEW q \in Requests, NEW o \in Ended, Reject(q, o)
  PROVE  Respects(q)
  BY RejectDiscipline DEF Respects

\* A new request holds no lock, and arriving takes none.
LEMMA ArriveRespects ==
  ASSUME TypeOK, TypeOK', LockDiscipline, NEW q \in Requests, Arrive(q)
  PROVE  Respects(q)
<1>1. ASSUME NEW c, NEW where \in {"check", "load", "lock", "lock_user"},
             Begin(q, c, where),
             c.kind \in {"create", "patch"} \/ where \in {"lock", "lock_user"}
      PROVE  Respects(q)
  <2>1. /\ pc[q] = "new" /\ pc'[q] = where /\ call'[q] = c
        /\ row' = row /\ removed' = removed /\ linked' = linked
        /\ userLock' = userLock /\ profileLock' = profileLock
    BY <1>1 DEF Begin, Goto, TypeOK
  <2>2. Undisturbed(q)
    BY <1>1 DEF Undisturbed, Begin, Goto, TypeOK
  <2>3. \A a \in Auditors : profileLock[a] # q /\ userLock[a] # q
    BY <2>1, DisciplinedAll DEF Disciplined, HoldsProfile, HoldsUser
  <2>4. Disciplined(q)'
    BY <1>1, <2>1, <2>3 DEF Disciplined, HoldsProfile, HoldsUser, WriterFindsDraft,
                            EraserFindsNothingAnnounced
  <2>5. QED
    BY <2>1, <2>2, <2>4 DEF Respects, UnlinksOwn, WritesRow
<1>2. CASE BeginCreate(q)
  BY <1>1, <1>2 DEF BeginCreate, NoCall
<1>3. CASE BeginPatch(q)
  <2>1. PICK s \in Slots, w \in (SUBSET Sections) \ {{}}, whole \in BOOLEAN :
          \E e \in SeenRevisions(s) :
            Begin(q, [NoCall EXCEPT !.kind = "patch", !.slot = s, !.audit = row[s].id,
                        !.expected = e, !.writes = w, !.replace = whole], "load")
    BY <1>3 DEF BeginPatch
  <2>2. PICK e \in SeenRevisions(s) :
            Begin(q, [NoCall EXCEPT !.kind = "patch", !.slot = s, !.audit = row[s].id,
                        !.expected = e, !.writes = w, !.replace = whole], "load")
    BY <2>1
  <2>3. [NoCall EXCEPT !.kind = "patch", !.slot = s, !.audit = row[s].id,
           !.expected = e, !.writes = w, !.replace = whole].kind = "patch"
    BY DEF NoCall
  <2>4. QED
    BY <1>1, <2>2, <2>3
<1>4. CASE BeginSubmit(q)
  BY <1>1, <1>4 DEF BeginSubmit
<1>5. CASE BeginIntent(q)
  BY <1>1, <1>5 DEF BeginIntent
<1>6. CASE BeginDelete(q)
  BY <1>1, <1>6 DEF BeginDelete
<1>7. QED
  BY <1>2, <1>3, <1>4, <1>5, <1>6 DEF Arrive

\* A step that only reads, or takes a lock nobody holds, disturbs nobody.
LEMMA ReadRespects ==
  ASSUME TypeOK, NEW q \in Requests, NEW where, Goto(q, where),
         UNCHANGED <<row, removed, linked, call>>,
         base' = base \/ base' = [base EXCEPT ![q] = row[Slot(q)]],
         \/ UNCHANGED userLock
         \/ /\ userLock[Owner(q)] = NoRequest
            /\ userLock' = [userLock EXCEPT ![Owner(q)] = q],
         \/ UNCHANGED profileLock
         \/ /\ profileLock[Owner(q)] = NoRequest
            /\ profileLock' = [profileLock EXCEPT ![Owner(q)] = q],
         Disciplined(q)'
  PROVE  Respects(q)
<1>1. \A r \in Requests \ {q} : pc'[r] = pc[r] /\ call'[r] = call[r] /\ base'[r] = base[r]
  BY DEF Goto, TypeOK
<1>2. \A r \in Requests \ {q}, a \in Auditors :
        /\ profileLock'[a] = r <=> profileLock[a] = r
        /\ userLock'[a] = r <=> userLock[a] = r
  BY DEF TypeOK
<1>3. QED
  BY <1>1, <1>2 DEF Respects, Undisturbed, UnlinksOwn, WritesRow

\* A commit: what it writes is its own business, and then it is over.
LEMMA CommitRespects ==
  ASSUME TypeOK, NEW q \in Requests, NEW o \in Ended, End(q, o),
         UNCHANGED <<removed, call>>, UnlinksOwn(q), \A s \in Slots : WritesRow(q, s)
  PROVE  Respects(q)
  BY EndDiscipline DEF Respects

LEMMA StepRespects ==
  ASSUME TypeOK, TypeOK', LockDiscipline, NEW q \in Requests, Step(q)
  PROVE  Respects(q)
<1> DEFINE s == Slot(q)
           a == Owner(q)
<1>0. /\ Disciplined(q) /\ s \in Slots /\ a \in Auditors
      /\ row \in [Slots -> Rows] /\ call[q] \in Calls
      /\ call' = call => s' = s /\ a' = a
      /\ \A w : Goto(q, w) => pc'[q] = w
  BY DisciplinedAll, CallFields DEF TypeOK, Slot, Owner, Goto
<1>1. CASE CreateCheck(q)
  <2>1. CASE Goto(q, "lookup") /\ UNCHANGED <<row, removed, linked, userLock, profileLock, call, base>>
    <3>1. Disciplined(q)'
      BY <1>0, <1>1, <2>1 DEF CreateCheck, IsAt, Disciplined, HoldsProfile, HoldsUser,
         WriterFindsDraft, EraserFindsNothingAnnounced
    <3>2. QED
      BY <2>1, <3>1, ReadRespects
  <2>2. QED
    BY <1>1, <2>1, RejectRespects DEF CreateCheck, Ended
<1>2. CASE CreateLookup(q)
  <2>1. CASE Goto(q, "insert") /\ UNCHANGED <<row, removed, linked, userLock, profileLock, call, base>>
    <3>1. Disciplined(q)'
      BY <1>0, <1>2, <2>1 DEF CreateLookup, IsAt, Disciplined, HoldsProfile, HoldsUser,
         WriterFindsDraft, EraserFindsNothingAnnounced
    <3>2. QED
      BY <2>1, <3>1, ReadRespects
  <2>2. QED
    BY <1>2, <2>1, RejectRespects DEF CreateLookup, Ended
<1>3. CASE CreateInsert(q)
  <2>1. CASE /\ row[s].status = "absent" /\ row' = [row EXCEPT ![s] = NewRow(q)]
             /\ End(q, "created") /\ UNCHANGED <<removed, linked, call>>
    <3>1. \A t \in Slots : WritesRow(q, t)
      BY <1>0, <2>1 DEF WritesRow, NewRow
    <3>2. QED
      BY <2>1, <3>1, CommitRespects DEF UnlinksOwn, Ended
  <2>2. QED
    BY <1>3, <2>1, RejectRespects DEF CreateInsert, Ended
<1>4. CASE PatchLoad(q)
  <2>1. CASE /\ Goto(q, "commit") /\ base' = [base EXCEPT ![q] = row[s]]
             /\ UNCHANGED <<row, removed, linked, userLock, profileLock, call>>
    <3>1. Disciplined(q)'
      BY <1>0, <1>4, <2>1 DEF PatchLoad, IsAt, Disciplined, HoldsProfile, HoldsUser,
         WriterFindsDraft, EraserFindsNothingAnnounced
    <3>2. QED
      BY <2>1, <3>1, ReadRespects
  <2>2. QED
    BY <1>4, <2>1, RejectRespects DEF PatchLoad, Ended
<1>5. CASE PatchCommit(q)
  <2>1. CASE /\ row' = [row EXCEPT ![s] = Saved(q, row[s])]
             /\ End(q, "saved") /\ UNCHANGED <<removed, linked, call>>
    <3>1. /\ Saved(q, row[s]).status = row[s].status
          /\ Saved(q, row[s]).id = row[s].id
          /\ Saved(q, row[s]).intended = row[s].intended
      BY <1>0 DEF Saved, Rows
    <3>2. \A t \in Slots : WritesRow(q, t)
      BY <1>0, <2>1, <3>1 DEF WritesRow
    <3>3. QED
      BY <2>1, <3>2, CommitRespects DEF UnlinksOwn, Ended
  <2>2. QED
    BY <1>5, <2>1, RejectRespects DEF PatchCommit, Ended
<1>6. CASE LockProfileForAudit(q)
  <2>1. CASE /\ Found(q) /\ profileLock[a] = NoRequest
             /\ profileLock' = [profileLock EXCEPT ![a] = q]
             /\ Goto(q, "load") /\ UNCHANGED <<row, removed, linked, userLock, call, base>>
    <3>1. /\ pc[q] = "lock" /\ pc'[q] = "load"
          /\ call[q].kind \in {"submit", "intent"} /\ call'[q] = call[q]
      BY <1>0, <1>6, <2>1 DEF LockProfileForAudit
    <3>2. \A b \in Auditors : (profileLock'[b] = q <=> b = a) /\ userLock'[b] # q
      BY <1>0, <2>1, <3>1 DEF Disciplined, HoldsProfile, HoldsUser, TypeOK
    <3>3. Disciplined(q)'
      BY <1>0, <2>1, <3>1, <3>2 DEF Disciplined, HoldsProfile, HoldsUser,
         WriterFindsDraft, EraserFindsNothingAnnounced
    <3>4. QED
      BY <2>1, <3>3, ReadRespects
  <2>2. QED
    BY <1>6, <2>1, RejectRespects DEF LockProfileForAudit, ProfileFree, Ended
<1>7. CASE SubmitLoad(q)
  <2>1. CASE /\ Found(q) /\ row[s].status = "in_progress" /\ ReadyToSubmit(row[s].answers)
             /\ base' = [base EXCEPT ![q] = row[s]]
             /\ Goto(q, "commit") /\ UNCHANGED <<row, removed, linked, userLock, profileLock, call>>
    <3>1. /\ pc[q] = "load" /\ pc'[q] = "commit" /\ base'[q] = row[s]
          /\ call[q].kind = "submit" /\ call'[q] = call[q]
      BY <1>0, <1>7, <2>1 DEF SubmitLoad, IsAt, TypeOK
    <3>2. WriterFindsDraft(q)'
      BY <1>0, <2>1, <3>1 DEF WriterFindsDraft, Found, ReadyToSubmit, Slot
    <3>3. Disciplined(q)'
      BY <1>0, <2>1, <3>1, <3>2 DEF Disciplined, HoldsProfile, HoldsUser,
         EraserFindsNothingAnnounced
    <3>4. QED
      BY <2>1, <3>3, ReadRespects
  <2>2. QED
    BY <1>7, <2>1, RejectRespects DEF SubmitLoad, Ended
<1>8. CASE SubmitCommit(q)
  <2>1. HoldsProfile(q)
    BY <1>8 DEF SubmitCommit, IsAt, HoldsProfile
  <2>2. CASE /\ row' = [row EXCEPT ![s] = Submitted(q, row[s])]
             /\ End(q, "delivered") /\ UNCHANGED <<removed, linked, call>>
    <3>1. \A t \in Slots : WritesRow(q, t)
      BY <1>0, <2>1, <2>2 DEF WritesRow, Owner
    <3>2. QED
      BY <2>2, <3>1, CommitRespects DEF UnlinksOwn, Ended
  <2>3. QED
    BY <1>8, <2>2, RejectRespects DEF SubmitCommit, Ended
<1>9. CASE IntentLoad(q)
  <2>1. CASE /\ Found(q) /\ row[s].status = "in_progress"
             /\ base' = [base EXCEPT ![q] = row[s]]
             /\ Goto(q, "commit") /\ UNCHANGED <<row, removed, linked, userLock, profileLock, call>>
    <3>1. /\ pc[q] = "load" /\ pc'[q] = "commit" /\ base'[q] = row[s]
          /\ call[q].kind = "intent" /\ call'[q] = call[q]
      BY <1>0, <1>9, <2>1 DEF IntentLoad, IsAt, TypeOK
    <3>2. WriterFindsDraft(q)'
      BY <1>0, <2>1, <3>1 DEF WriterFindsDraft, Found, Slot
    <3>3. Disciplined(q)'
      BY <1>0, <2>1, <3>1, <3>2 DEF Disciplined, HoldsProfile, HoldsUser,
         EraserFindsNothingAnnounced
    <3>4. QED
      BY <2>1, <3>3, ReadRespects
  <2>2. QED
    BY <1>9, <2>1, RejectRespects DEF IntentLoad, Ended
<1>10. CASE IntentCommit(q)
  <2>1. HoldsProfile(q)
    BY <1>10 DEF IntentCommit, IsAt, HoldsProfile
  <2>2. CASE /\ row' = [row EXCEPT ![s] = Announced(q, row[s])]
             /\ End(q, "recorded") /\ UNCHANGED <<removed, linked, call>>
    <3>1. \A t \in Slots : WritesRow(q, t)
      BY <1>0, <2>1, <2>2 DEF WritesRow, Owner
    <3>2. QED
      BY <2>2, <3>1, CommitRespects DEF UnlinksOwn, Ended
  <2>3. QED
    BY <1>10, <2>2, RejectRespects DEF IntentCommit, Ended
<1>11. CASE DeleteLockUser(q)
  <2>1. CASE /\ linked[a] /\ userLock[a] = NoRequest
             /\ userLock' = [userLock EXCEPT ![a] = q]
             /\ Goto(q, "lock_profile") /\ UNCHANGED <<row, removed, linked, profileLock, call, base>>
    <3>1. /\ pc[q] = "lock_user" /\ pc'[q] = "lock_profile"
          /\ call[q].kind = "delete" /\ call'[q] = call[q]
      BY <1>0, <1>11, <2>1 DEF DeleteLockUser, IsAt
    <3>2. \A b \in Auditors : (userLock'[b] = q <=> b = a) /\ profileLock'[b] # q
      BY <1>0, <2>1, <3>1 DEF Disciplined, HoldsProfile, HoldsUser, TypeOK
    <3>3. Disciplined(q)'
      BY <1>0, <2>1, <3>1, <3>2 DEF Disciplined, HoldsProfile, HoldsUser,
         WriterFindsDraft, EraserFindsNothingAnnounced
    <3>4. QED
      BY <2>1, <3>3, ReadRespects
  <2>2. QED
    BY <1>11, <2>1, RejectRespects DEF DeleteLockUser, Ended
<1>12. CASE DeleteLockProfile(q)
  <2>1. /\ pc[q] = "lock_profile" /\ pc'[q] = "verify" /\ profileLock[a] = NoRequest
        /\ profileLock' = [profileLock EXCEPT ![a] = q]
        /\ call[q].kind = "delete" /\ call'[q] = call[q] /\ call' = call
        /\ linked' = linked /\ userLock' = userLock
    BY <1>0, <1>12 DEF DeleteLockProfile, IsAt, ProfileFree
  <2>2. \A b \in Auditors : profileLock'[b] = q <=> b = a
    BY <1>0, <2>1 DEF Disciplined, HoldsProfile, TypeOK
  <2>3. Disciplined(q)'
    BY <1>0, <2>1, <2>2 DEF Disciplined, HoldsProfile, HoldsUser,
       WriterFindsDraft, EraserFindsNothingAnnounced
  <2>4. QED
    BY <1>12, <2>1, <2>3, ReadRespects DEF DeleteLockProfile
<1>13. CASE DeleteVerify(q)
  <2>1. CASE /\ Pending(a) = {} /\ Goto(q, "erase")
             /\ UNCHANGED <<row, removed, linked, userLock, profileLock, call, base>>
    <3>1. /\ pc[q] = "verify" /\ pc'[q] = "erase"
          /\ call[q].kind = "delete" /\ call'[q] = call[q]
      BY <1>0, <1>13, <2>1 DEF DeleteVerify, IsAt
    <3>2. Pending(a)' = {}
      BY <1>0, <2>1 DEF Pending
    <3>3. Disciplined(q)'
      BY <1>0, <2>1, <3>1, <3>2 DEF Disciplined, HoldsProfile, HoldsUser,
         WriterFindsDraft, EraserFindsNothingAnnounced
    <3>4. QED
      BY <2>1, <3>3, ReadRespects
  <2>2. QED
    BY <1>13, <2>1, RejectRespects DEF DeleteVerify, Ended
<1>14. CASE DeleteErase(q)
  <2>1. HoldsProfile(q) /\ HoldsUser(q)
    BY <1>14 DEF DeleteErase, IsAt, HoldsProfile, HoldsUser
  <2>2. \A t \in Slots : WritesRow(q, t)
    BY <1>0, <1>14, <2>1 DEF WritesRow, DeleteErase, Erased
  <2>3. QED
    BY <1>14, <2>1, <2>2, CommitRespects DEF DeleteErase, UnlinksOwn, Ended
<1>15. QED
  BY <1>1, <1>2, <1>3, <1>4, <1>5, <1>6, <1>7, <1>8, <1>9, <1>10, <1>11,
     <1>12, <1>13, <1>14 DEF Step

\* The removal of a project or place takes drafts away from lock holders, but
\* never announces anything.
LEMMA WithdrawDiscipline ==
  ASSUME TypeOK, LockDiscipline, NEW s \in Slots, Withdraw(s)
  PROVE  LockDiscipline'
<1> SUFFICES ASSUME NEW r \in Requests PROVE Disciplined(r)'
  BY DEF LockDiscipline, Disciplined
<1>1. /\ Disciplined(r) /\ Slot(r)' = Slot(r) /\ Owner(r)' = Owner(r)
      /\ HoldsProfile(r)' = HoldsProfile(r) /\ HoldsUser(r)' = HoldsUser(r)
      /\ pc' = pc /\ call' = call /\ base' = base
      /\ profileLock' = profileLock /\ userLock' = userLock /\ linked' = linked
  BY DisciplinedAll DEF Withdraw, Slot, Owner, HoldsProfile, HoldsUser
<1>2. \A t \in Slots : t # s => row'[t] = row[t]
  BY DEF Withdraw, TypeOK
<1>3. row'[s].status = "absent" /\ removed' = removed \cup {s}
  BY DEF Withdraw, TypeOK, AbsentRow, NewRow
<1>4. WriterFindsDraft(r)'
  BY <1>1, <1>2, <1>3, CallFields DEF Disciplined, WriterFindsDraft, Found
<1>5. EraserFindsNothingAnnounced(r)'
  BY <1>1, <1>2, <1>3 DEF Disciplined, EraserFindsNothingAnnounced, Pending
<1>6. QED
  BY <1>1, <1>4, <1>5 DEF Disciplined

LEMMA NextDiscipline ==
  ASSUME TypeOK, TypeOK', LockDiscipline, [Next]_vars
  PROVE  LockDiscipline'
<1>1. CASE UNCHANGED vars
  BY <1>1 DEF vars, LockDiscipline, HoldsProfile, HoldsUser, WriterFindsDraft,
              EraserFindsNothingAnnounced, Pending, Found, Slot, Owner
<1>2. ASSUME NEW q \in Requests, Arrive(q) \/ Step(q) \/ Crash(q)
      PROVE  LockDiscipline'
  <2>1. Respects(q)
    BY <1>2, ArriveRespects, StepRespects, RejectRespects DEF Crash, Ended
  <2>2. \A r \in Requests : Disciplined(r)'
    BY <2>1, OthersDisciplined DEF Respects
  <2>3. QED
    BY <2>2 DEF LockDiscipline, Disciplined
<1>3. QED
  BY <1>1, <1>2, WithdrawDiscipline DEF Next

\* Row locks exclude: the holder of a profile is the only request that can
\* write a status or an intent of that auditor, and what it checked still holds
\* when it commits (submit_audit, record_submit_intent, delete_account).
THEOREM Locking == Spec => []LockDiscipline
  BY TypeCorrect, InitDiscipline, NextDiscipline, PTL DEF Spec
-----------------------------------------------------------------------------
(***************************************************************************)
(* What commits do to the rows.  Every step of a request leaves all rows   *)
(* alone, changes the row of its slot in one of four ways, or is the       *)
(* erasure of an account.                                                  *)
(***************************************************************************)

Opens(q, old, now) ==
    old.status = "absent" /\ now = NewRow(q) /\ Slot(q) \notin removed

Edits(old, now) ==
    /\ old.status # "absent"
    /\ now.status = old.status /\ now.id = old.id /\ now.intended = old.intended
    /\ now.snapshot = old.snapshot /\ now.key = old.key

Announces(q, old, now) ==
    /\ call[q].kind = "intent"
    /\ old.status = "in_progress" /\ now.status = "in_progress"
    /\ old.id = call[q].audit /\ now.id = old.id
    /\ now.intended # NoRequest
    /\ old.intended # NoRequest => now.intended = old.intended
    /\ now.snapshot = old.snapshot /\ now.key = old.key

Delivers(q, old, now) ==
    /\ call[q].kind = "submit"
    /\ old.status = "in_progress" /\ now.status = "submitted"
    /\ now.id = old.id /\ now.intended = old.intended
    /\ now.snapshot \in Answers /\ IsComplete(now.snapshot)

Changes(q, old, now) ==
    \/ Opens(q, old, now) \/ Edits(old, now)
    \/ Announces(q, old, now) \/ Delivers(q, old, now)

Erases(q) ==
    /\ Pending(Owner(q)) = {}
    /\ linked[Owner(q)]
    /\ row' = [s \in Slots |-> IF s \in Erased(Owner(q)) THEN AbsentRow ELSE row[s]]
    /\ linked' = [linked EXCEPT ![Owner(q)] = FALSE]
    /\ removed' = removed

Effect(q) ==
    \/ UNCHANGED <<row, removed, linked>>
    \/ /\ linked' = linked /\ removed' = removed
       /\ \E now \in Rows : /\ row' = [row EXCEPT ![Slot(q)] = now]
                            /\ Changes(q, row[Slot(q)], now)
    \/ Erases(q)

\* A slot without submission is as if none had ever been there, and only a
\* submitted one has a snapshot.  Nothing is left of a removed project or place.
RowsSound ==
    \A s \in Slots :
      /\ row[s].status = "absent" => row[s] = AbsentRow
      /\ row[s].status # "submitted" => row[s].snapshot = Blank
      /\ s \in removed => row[s].status = "absent"

LEMMA AbsentFields ==
  /\ AbsentRow.status = "absent" /\ AbsentRow.intended = NoRequest
  /\ AbsentRow.snapshot = Blank
  /\ AbsentRow.key = NoKey
  BY DEF AbsentRow, NewRow

\* The outcomes that tell the client something are given by one action each.
Outcome(q) ==
    /\ \A r \in Requests \ {q} : pc'[r] = pc[r] /\ call'[r] = call[r]
    /\ pc[q] # "new" => call'[q] = call[q]
    /\ pc[q] \in Ended => pc'[q] = pc[q]
    /\ pc'[q] = "delivered" /\ call'[q].kind = "submit" =>
         /\ pc[q] # "new" /\ row[Slot(q)].status = "in_progress"
         /\ row'[Slot(q)].status = "submitted"
    /\ pc'[q] = "recorded" /\ call'[q].kind = "intent" =>
         /\ pc[q] # "new" /\ row'[Slot(q)].status # "absent"
         /\ row'[Slot(q)].id = call[q].audit /\ row'[Slot(q)].intended # NoRequest
    /\ pc'[q] = "conflict" /\ call'[q].kind = "submit" =>
         /\ pc[q] # "new" /\ row[Slot(q)].status = "submitted"
         /\ call[q].key # NoKey => row[Slot(q)].key # call[q].key

LEMMA QuietRows ==
  ASSUME NEW q \in Requests, UNCHANGED <<row, removed, linked>>
  PROVE  Effect(q)
  BY DEF Effect

LEMMA StepEffect ==
  ASSUME TypeOK, TypeOK', LockDiscipline, RowsSound, NEW q \in Requests, Step(q)
  PROVE  Effect(q)
<1> DEFINE s == Slot(q)
<1>0. /\ Disciplined(q) /\ s \in Slots /\ row[s] \in Rows /\ base[q] \in Rows
      /\ row \in [Slots -> Rows] /\ call[q] \in Calls
      /\ row' \in [Slots -> Rows]
      /\ \A o : Reject(q, o) => Effect(q)
  BY DisciplinedAll, CallFields, QuietRows DEF TypeOK, Reject
<1>1. CASE CreateInsert(q)
  <2>1. CASE /\ row[s].status = "absent" /\ row' = [row EXCEPT ![s] = NewRow(q)]
             /\ linked' = linked /\ removed' = removed /\ s \notin removed
    BY <1>0, <2>1, RowTypes DEF Effect, Changes, Opens, Ids
  <2>2. QED
    BY <1>0, <1>1, <2>1 DEF CreateInsert
<1>2. CASE PatchCommit(q)
  <2>1. CASE /\ Found(q) /\ row' = [row EXCEPT ![s] = Saved(q, row[s])]
             /\ linked' = linked /\ removed' = removed
    <3>1. Saved(q, row[s]) \in Rows
      BY <1>0, <2>1
    <3>2. Edits(row[s], Saved(q, row[s]))
      BY <1>0, <2>1 DEF Saved, Rows, Edits, Found
    <3>3. QED
      BY <2>1, <3>1, <3>2 DEF Effect, Changes
  <2>2. QED
    BY <1>0, <1>2, <2>1 DEF PatchCommit
<1>3. CASE SubmitCommit(q)
  <2>1. CASE /\ Found(q) /\ row' = [row EXCEPT ![s] = Submitted(q, row[s])]
             /\ linked' = linked /\ removed' = removed
    <3>1. s \notin removed
      BY <1>0, <2>1 DEF RowsSound, Found
    <3>2. /\ call[q].kind = "submit" /\ row[s].status = "in_progress"
          /\ IsComplete(base[q].answers)
      BY <1>0, <1>3, <3>1 DEF SubmitCommit, IsAt, Disciplined, WriterFindsDraft
    <3>3. Submitted(q, row[s]) \in Rows
      BY <1>0, <2>1
    <3>4. Delivers(q, row[s], Submitted(q, row[s]))
      BY <1>0, <3>2 DEF Submitted, Rows, Delivers
    <3>5. QED
      BY <2>1, <3>3, <3>4 DEF Effect, Changes
  <2>2. QED
    BY <1>0, <1>3, <2>1 DEF SubmitCommit
<1>4. CASE IntentCommit(q)
  <2>1. CASE /\ Found(q) /\ row' = [row EXCEPT ![s] = Announced(q, row[s])]
             /\ linked' = linked /\ removed' = removed
    <3>1. s \notin removed
      BY <1>0, <2>1 DEF RowsSound, Found
    <3>2. /\ call[q].kind = "intent"
          /\ row[s].status = "in_progress" /\ row[s].id = call[q].audit
          /\ base[q].intended = row[s].intended
      BY <1>0, <1>4, <2>1, <3>1 DEF IntentCommit, IsAt, Disciplined, WriterFindsDraft, Found
    <3>3. Announced(q, row[s]) \in Rows
      BY <1>0, <2>1
    <3>4. Announces(q, row[s], Announced(q, row[s]))
      BY <1>0, <3>2 DEF Rows, Announced, Announces
    <3>5. QED
      BY <2>1, <3>3, <3>4 DEF Effect, Changes
  <2>2. QED
    BY <1>0, <1>4, <2>1 DEF IntentCommit
<1>5. CASE DeleteErase(q)
  BY <1>0, <1>5 DEF DeleteErase, IsAt, Disciplined, EraserFindsNothingAnnounced,
     HoldsUser, Effect, Erases
<1>6. CASE CreateCheck(q)
  BY <1>0, <1>6, QuietRows DEF CreateCheck
<1>7. CASE CreateLookup(q)
  BY <1>0, <1>7, QuietRows DEF CreateLookup
<1>8. CASE PatchLoad(q)
  BY <1>0, <1>8, QuietRows DEF PatchLoad
<1>9. CASE LockProfileForAudit(q)
  BY <1>0, <1>9, QuietRows DEF LockProfileForAudit
<1>10. CASE SubmitLoad(q)
  BY <1>0, <1>10, QuietRows DEF SubmitLoad
<1>11. CASE IntentLoad(q)
  BY <1>0, <1>11, QuietRows DEF IntentLoad
<1>12. CASE DeleteLockUser(q) \/ DeleteLockProfile(q) \/ DeleteVerify(q)
  BY <1>0, <1>12, QuietRows DEF DeleteLockUser, DeleteLockProfile, DeleteVerify
<1>13. QED
  BY <1>1, <1>2, <1>3, <1>4, <1>5, <1>6, <1>7, <1>8, <1>9, <1>10, <1>11,
     <1>12 DEF Step

LEMMA NextEffect ==
  ASSUME TypeOK, TypeOK', LockDiscipline, RowsSound, Next
  PROVE  (\E q \in Requests : Effect(q)) \/ (\E s \in Slots : Withdraw(s))
<1>1. ASSUME NEW q \in Requests, Arrive(q) \/ Step(q) \/ Crash(q)
      PROVE  Effect(q)
  <2>1. Arrive(q) => Effect(q)
    BY QuietRows DEF Arrive, BeginCreate, BeginPatch, BeginSubmit, BeginIntent,
       BeginDelete, Begin
  <2>2. Crash(q) => Effect(q)
    BY QuietRows DEF Crash, Reject
  <2>3. QED
    BY <1>1, <2>1, <2>2, StepEffect
<1>2. QED
  BY <1>1 DEF Next

LEMMA DraftFields ==
  ASSUME NEW done \in SUBSET Sections
  PROVE  /\ NewRow(Origin).status = "in_progress" /\ NewRow(Origin).snapshot = Blank
         /\ NewRow(Origin).intended = NoRequest
         /\ SavedRow(done).status = "in_progress" /\ SavedRow(done).snapshot = Blank
         /\ SavedRow(done).intended = NoRequest
  BY DEF SavedRow, NewRow

LEMMA InitRows == Init => RowsSound
<1> SUFFICES ASSUME Init PROVE RowsSound
  OBVIOUS
<1>1. PICK present \in SUBSET Slots : \E done \in SUBSET Sections :
        row = [s \in Slots |->
                 IF s \notin present THEN AbsentRow
                 ELSE IF done = {} THEN NewRow(Origin) ELSE SavedRow(done)]
  BY DEF Init
<1>2. PICK done \in SUBSET Sections :
        row = [s \in Slots |->
                 IF s \notin present THEN AbsentRow
                 ELSE IF done = {} THEN NewRow(Origin) ELSE SavedRow(done)]
  BY <1>1
<1>3. removed = {}
  BY DEF Init
<1>4. QED
  BY <1>2, <1>3, AbsentFields, DraftFields DEF RowsSound

LEMMA EffectRows ==
  ASSUME TypeOK, RowsSound, NEW q \in Requests, Effect(q)
  PROVE  RowsSound'
<1>1. CASE UNCHANGED <<row, removed>>
  BY <1>1 DEF RowsSound
<1>2. ASSUME NEW now \in Rows, row' = [row EXCEPT ![Slot(q)] = now], removed' = removed,
             Changes(q, row[Slot(q)], now)
      PROVE  RowsSound'
  <2>1. /\ now.status # "absent"
        /\ now.status # "submitted" => now.snapshot = Blank
        /\ Slot(q) \notin removed
    BY <1>2, CallFields DEF RowsSound, Changes, Opens, Edits, Announces, Delivers, NewRow
  <2>2. QED
    BY <1>2, <2>1 DEF RowsSound, TypeOK
<1>3. CASE Erases(q)
  BY <1>3, AbsentFields DEF Erases, RowsSound
<1>4. QED
  BY <1>1, <1>2, <1>3 DEF Effect

LEMMA EffectFinal ==
  ASSUME TypeOK, RowsSound, NEW q \in Requests, Effect(q), NEW s \in Slots
  PROVE  /\ row[s].status = "submitted" =>
              /\ row'[s].status = "submitted"
              /\ row'[s].id = row[s].id
              /\ row'[s].snapshot = row[s].snapshot
              /\ row'[s].key = row[s].key
         /\ row[s].intended # NoRequest =>
              /\ row'[s].intended = row[s].intended
              /\ row'[s].id = row[s].id
              /\ row'[s].status # "absent"
<1>1. CASE UNCHANGED row
  BY <1>1, AbsentFields DEF RowsSound
<1>2. ASSUME NEW now \in Rows, row' = [row EXCEPT ![Slot(q)] = now],
             Changes(q, row[Slot(q)], now), s = Slot(q)
      PROVE  /\ row[s].status = "submitted" =>
                  /\ now.status = "submitted"
                  /\ now.id = row[s].id
                  /\ now.snapshot = row[s].snapshot
                  /\ now.key = row[s].key
             /\ row[s].intended # NoRequest =>
                  /\ now.intended = row[s].intended
                  /\ now.id = row[s].id
                  /\ now.status # "absent"
  BY <1>2, AbsentFields DEF RowsSound, Changes, Opens, Edits, Announces, Delivers
<1>3. CASE \E now \in Rows : /\ row' = [row EXCEPT ![Slot(q)] = now]
                            /\ Changes(q, row[Slot(q)], now)
  <2>1. PICK now \in Rows : /\ row' = [row EXCEPT ![Slot(q)] = now]
                           /\ Changes(q, row[Slot(q)], now)
    BY <1>3
  <2>2. row'[s] = IF s = Slot(q) THEN now ELSE row[s]
    BY <2>1 DEF TypeOK
  <2>3. CASE s = Slot(q)
    BY <1>2, <2>1, <2>2, <2>3
  <2>4. CASE s # Slot(q)
    BY <2>2, <2>4, AbsentFields DEF RowsSound
  <2>5. QED
    BY <2>3, <2>4
<1>4. CASE Erases(q)
  <2>1. s \in Erased(Owner(q)) =>
          row[s].status = "in_progress" /\ row[s].intended = NoRequest
    BY <1>4 DEF Erases, Erased, Pending
  <2>2. row'[s] = IF s \in Erased(Owner(q)) THEN AbsentRow ELSE row[s]
    BY <1>4 DEF Erases
  <2>3. QED
    BY <2>1, <2>2, AbsentFields DEF RowsSound
<1>5. QED
  BY <1>1, <1>3, <1>4 DEF Effect

LEMMA WithdrawRows ==
  ASSUME TypeOK, RowsSound, NEW s \in Slots, Withdraw(s)
  PROVE  RowsSound'
  BY AbsentFields DEF TypeOK, RowsSound, Withdraw

\* The invariant the row theorems rest on.
Sound == TypeOK /\ LockDiscipline /\ RowsSound

LEMMA NextRows ==
  ASSUME TypeOK, TypeOK', LockDiscipline, RowsSound, [Next]_vars
  PROVE  RowsSound'
<1>1. CASE UNCHANGED vars
  BY <1>1 DEF vars, RowsSound
<1>2. CASE Next
  BY <1>2, NextEffect, EffectRows, WithdrawRows
<1>3. QED
  BY <1>1, <1>2

LEMMA AlwaysSound == Spec => []Sound
<1>1. Spec => []RowsSound
  BY InitRows, NextRows, TypeCorrect, Locking, PTL DEF Spec
<1>2. QED
  BY <1>1, TypeCorrect, Locking, PTL DEF Sound

\* What a step keeps of a delivered and of an announced submission.
KeepsDelivery(s) ==
    /\ row'[s].status = "submitted"
    /\ row'[s].id = row[s].id
    /\ row'[s].snapshot = row[s].snapshot
    /\ row'[s].key = row[s].key

KeepsIntent(s) ==
    /\ row'[s].intended = row[s].intended
    /\ row'[s].id = row[s].id
    /\ row'[s].status # "absent"

\* Only a removal takes either away, and it leaves nothing.
LEMMA FinalStep ==
  ASSUME Sound, Sound', [Next]_vars, NEW s \in Slots
  PROVE  \/ /\ row[s].status = "submitted" => KeepsDelivery(s)
            /\ row[s].intended # NoRequest => KeepsIntent(s)
            /\ removed \subseteq removed'
         \/ /\ removed' # removed /\ removed \subseteq removed'
            /\ s \in removed' /\ row'[s].status = "absent"
<1>1. CASE UNCHANGED vars
  BY <1>1, AbsentFields DEF vars, Sound, RowsSound, KeepsDelivery, KeepsIntent
<1>2. ASSUME NEW q \in Requests, Effect(q)
      PROVE  /\ row[s].status = "submitted" => KeepsDelivery(s)
             /\ row[s].intended # NoRequest => KeepsIntent(s)
             /\ removed' = removed
  BY <1>2, EffectFinal DEF Sound, KeepsDelivery, KeepsIntent, Effect, Erases
<1>3. ASSUME NEW t \in Slots, Withdraw(t)
      PROVE  \/ s # t /\ row'[s] = row[s] /\ removed \subseteq removed'
             \/ s = t /\ s \notin removed /\ removed' = removed \cup {s}
                /\ row'[s].status = "absent"
  BY <1>3, AbsentFields DEF Sound, TypeOK, Withdraw
<1>4. row[s].intended # NoRequest => row[s].status # "absent"
  BY AbsentFields DEF Sound, RowsSound
<1>5. CASE \E t \in Slots : Withdraw(t)
  BY <1>3, <1>4, <1>5 DEF KeepsDelivery, KeepsIntent
<1>6. QED
  BY <1>1, <1>2, <1>5, NextEffect DEF Sound

\* No step of any request takes delivered work back: status, identity,
\* snapshot and key of a submitted audit never change again (submit_audit,
\* patch_audit_draft, _delete_auditor), unless a manager removes its project.
THEOREM Finality == Spec => DeliveredIsFinal
<1>1. Sound /\ Sound' /\ [Next]_vars =>
        [\A s \in Slots :
           row[s].status = "submitted" /\ removed' = removed =>
             /\ row'[s].status = "submitted"
             /\ row'[s].id = row[s].id
             /\ row'[s].snapshot = row[s].snapshot
             /\ row'[s].key = row[s].key]_vars
  BY FinalStep DEF KeepsDelivery
<1>2. QED
  BY <1>1, AlwaysSound, PTL DEF Spec, DeliveredIsFinal

\* The first submit intent is the one that is kept (record_submit_intent).
THEOREM FirstIntent == Spec => IntentStampedOnce
<1>1. Sound /\ Sound' /\ [Next]_vars =>
        [\A s \in Slots :
           row[s].intended # NoRequest /\ row'[s].status # "absent" =>
             row'[s].intended = row[s].intended]_vars
  BY FinalStep DEF KeepsIntent
<1>2. QED
  BY <1>1, AlwaysSound, PTL DEF Spec, IntentStampedOnce
-----------------------------------------------------------------------------
(***************************************************************************)
(* What the clients were told stays true.                                  *)
(***************************************************************************)

LEMMA EndOutcome ==
  ASSUME TypeOK, NEW q \in Requests, NEW o, End(q, o), UNCHANGED call
  PROVE  /\ \A r \in Requests \ {q} : pc'[r] = pc[r] /\ call'[r] = call[r]
         /\ call'[q] = call[q] /\ pc'[q] = o
  BY DEF TypeOK, End, Goto

LEMMA RejectOutcome ==
  ASSUME TypeOK, NEW q \in Requests, NEW o \in Ended, Reject(q, o), pc[q] \in Running,
         o \notin {"delivered", "recorded"},
         o = "conflict" => call[q].kind # "submit"
  PROVE  Outcome(q)
<1>1. End(q, o) /\ UNCHANGED call
  BY DEF Reject
<1>2. QED
  BY <1>1, EndOutcome DEF Outcome, Running, Ended

LEMMA ReadOutcome ==
  ASSUME TypeOK, NEW q \in Requests, NEW w \in Running, Goto(q, w), UNCHANGED call,
         pc[q] \in Running
  PROVE  Outcome(q)
  BY DEF TypeOK, Goto, Outcome, Running, Ended

LEMMA ArriveOutcome ==
  ASSUME TypeOK, NEW q \in Requests, Arrive(q)
  PROVE  Outcome(q)
<1>1. PICK w \in Running : /\ pc[q] = "new" /\ Goto(q, w)
                          /\ \A r \in Requests \ {q} : call'[r] = call[r]
  BY DEF Arrive, BeginCreate, BeginPatch, BeginSubmit, BeginIntent, BeginDelete,
     Begin, TypeOK, Running
<1>2. QED
  BY <1>1 DEF TypeOK, Goto, Outcome, Running, Ended

LEMMA StepOutcome ==
  ASSUME TypeOK, TypeOK', LockDiscipline, RowsSound, NEW q \in Requests, Step(q)
  PROVE  Outcome(q)
<1> DEFINE s == Slot(q)
<1>0. /\ Disciplined(q) /\ s \in Slots /\ row[s] \in Rows /\ call[q] \in Calls
      /\ row \in [Slots -> Rows]
  BY DisciplinedAll, CallFields DEF TypeOK
<1>1. CASE CreateCheck(q)
  BY <1>1, RejectOutcome, ReadOutcome DEF CreateCheck, IsAt, Running, Ended
<1>2. CASE CreateLookup(q)
  BY <1>2, RejectOutcome, ReadOutcome DEF CreateLookup, IsAt, Running, Ended
<1>3. CASE CreateInsert(q)
  <2>1. CASE End(q, "created") /\ UNCHANGED call /\ pc[q] = "insert"
    BY <2>1, EndOutcome DEF Outcome, Ended
  <2>2. QED
    BY <1>3, <2>1, RejectOutcome DEF CreateInsert, IsAt, Running, Ended
<1>4. CASE PatchLoad(q)
  BY <1>4, RejectOutcome, ReadOutcome DEF PatchLoad, IsAt, Running, Ended
<1>5. CASE PatchCommit(q)
  <2>1. CASE End(q, "saved") /\ UNCHANGED call /\ pc[q] = "commit"
    BY <2>1, EndOutcome DEF Outcome, Ended
  <2>2. QED
    BY <1>5, <2>1, RejectOutcome DEF PatchCommit, IsAt, Running, Ended
<1>6. CASE LockProfileForAudit(q)
  BY <1>6, RejectOutcome, ReadOutcome DEF LockProfileForAudit, Running, Ended
<1>7. CASE SubmitLoad(q)
  <2>1. CASE /\ ~IsReplay(q) /\ row[s].status = "submitted" /\ Reject(q, "conflict")
             /\ pc[q] = "load"
    <3>1. call[q].key # NoKey => row[s].key # call[q].key
      BY <2>1 DEF IsReplay
    <3>2. QED
      BY <2>1, <3>1, EndOutcome DEF Reject, Outcome, Ended
  <2>2. QED
    BY <1>7, <2>1, RejectOutcome, ReadOutcome DEF SubmitLoad, IsAt, Running, Ended
<1>8. CASE SubmitCommit(q)
  <2>1. CASE /\ Found(q) /\ End(q, "delivered") /\ UNCHANGED call
             /\ row' = [row EXCEPT ![s] = Submitted(q, row[s])]
    <3>1. pc[q] = "commit" /\ row[s].status = "in_progress"
      BY <1>0, <1>8, <2>1 DEF SubmitCommit, IsAt, Disciplined, WriterFindsDraft,
                              RowsSound, Found
    <3>2. Submitted(q, row[s]).status = "submitted"
      BY <1>0 DEF Submitted, Rows
    <3>3. QED
      BY <1>0, <2>1, <3>1, <3>2, EndOutcome DEF Outcome, Ended
  <2>2. QED
    BY <1>8, <2>1, RejectOutcome DEF SubmitCommit, IsAt, Running, Ended
<1>9. CASE IntentLoad(q)
  BY <1>9, RejectOutcome, ReadOutcome DEF IntentLoad, IsAt, Running, Ended
<1>10. CASE IntentCommit(q)
  <2>1. CASE /\ Found(q) /\ End(q, "recorded") /\ UNCHANGED call
             /\ row' = [row EXCEPT ![s] = Announced(q, row[s])]
    <3>1. /\ pc[q] = "commit"
          /\ row[s].status = "in_progress" /\ row[s].id = call[q].audit
          /\ base[q].intended = row[s].intended
      BY <1>0, <1>10, <2>1 DEF IntentCommit, IsAt, Disciplined, WriterFindsDraft,
                               RowsSound, Found
    <3>2. /\ Announced(q, row[s]).status # "absent"
          /\ Announced(q, row[s]).id = call[q].audit
          /\ Announced(q, row[s]).intended # NoRequest
      BY <1>0, <3>1 DEF Rows, Announced
    <3>3. row'[s] = Announced(q, row[s])
      BY <1>0, <2>1
    <3>4. /\ row'[s].status # "absent" /\ row'[s].id = call[q].audit
          /\ row'[s].intended # NoRequest
      BY <3>2, <3>3
    <3>5. /\ \A r \in Requests \ {q} : pc'[r] = pc[r] /\ call'[r] = call[r]
          /\ call'[q] = call[q] /\ pc'[q] = "recorded" /\ pc[q] = "commit"
      BY <2>1, <3>1, EndOutcome
    <3>6. QED
      BY <3>4, <3>5 DEF Outcome, Ended
  <2>2. QED
    BY <1>10, <2>1, RejectOutcome DEF IntentCommit, IsAt, Running, Ended
<1>11. CASE DeleteLockUser(q)
  BY <1>11, RejectOutcome, ReadOutcome DEF DeleteLockUser, IsAt, Running, Ended
<1>12. CASE DeleteLockProfile(q)
  BY <1>12, ReadOutcome DEF DeleteLockProfile, IsAt, Running
<1>13. CASE DeleteVerify(q)
  BY <1>13, RejectOutcome, ReadOutcome DEF DeleteVerify, IsAt, Running, Ended
<1>14. CASE DeleteErase(q)
  BY <1>14, EndOutcome DEF DeleteErase, IsAt, Outcome, Ended
<1>15. QED
  BY <1>1, <1>2, <1>3, <1>4, <1>5, <1>6, <1>7, <1>8, <1>9, <1>10, <1>11,
     <1>12, <1>13, <1>14 DEF Step

\* What a request was told and what the rows must still say, unless a manager
\* has removed them.
ToldTrue(r) ==
    \/ Slot(r) \in removed
    \/ /\ Delivered(r) => row[Slot(r)].status = "submitted"
       /\ call[r].kind = "intent" /\ pc[r] = "recorded" =>
            /\ Found(r)
            /\ row[Slot(r)].intended # NoRequest
       /\ call[r].kind = "submit" /\ pc[r] = "conflict" =>
            /\ row[Slot(r)].status = "submitted"
            /\ call[r].key # NoKey => row[Slot(r)].key # call[r].key

\* Stronger than OneDelivery: one delivery per slot.
DeliveredOnce ==
    \A r, q \in Requests :
      Delivered(r) /\ Delivered(q) /\ Slot(r) = Slot(q) => r = q

Told == DeliveredOnce /\ \A r \in Requests : ToldTrue(r)

LEMMA InitTold == Init => Told
<1> SUFFICES ASSUME Init PROVE \A r \in Requests : pc[r] = "new"
  BY DEF Told, DeliveredOnce, ToldTrue, Delivered
<1>1. QED
  BY DEF Init

\* What was said to a request that is over stays true.
LEMMA ToldStays ==
  ASSUME Sound, Sound', [Next]_vars, NEW r \in Requests, ToldTrue(r),
         pc'[r] = pc[r], call'[r] = call[r]
  PROVE  ToldTrue(r)'
<1>1. Slot(r) \in Slots /\ Slot(r)' = Slot(r)
  BY CallFields DEF Sound, Slot
<1>2. QED
  BY <1>1, FinalStep DEF ToldTrue, Delivered, Found, KeepsDelivery, KeepsIntent

LEMMA OutcomeTold ==
  ASSUME Sound, Sound', Next, Told, NEW q \in Requests, Outcome(q)
  PROVE  Told'
<1>1. ASSUME NEW r \in Requests, r # q \/ pc[q] \in Ended
      PROVE  ToldTrue(r)' /\ pc'[r] = pc[r] /\ call'[r] = call[r]
  BY <1>1, ToldStays DEF Outcome, Told, Ended
<1>2. ASSUME pc[q] \notin Ended
      PROVE  ToldTrue(q)'
  <2>1. CASE pc[q] = "new"
    BY <2>1 DEF Outcome, ToldTrue, Delivered
  <2>2. CASE pc[q] # "new"
    <3>1. call'[q] = call[q] /\ Slot(q)' = Slot(q) /\ Slot(q) \in Slots
      BY <2>2, CallFields DEF Outcome, Sound, Slot
    <3>2. \/ Slot(q) \in removed'
          \/ row[Slot(q)].status = "submitted" =>
               row'[Slot(q)].status = "submitted" /\ row'[Slot(q)].key = row[Slot(q)].key
      BY <3>1, FinalStep DEF KeepsDelivery
    <3>3. QED
      BY <3>1, <3>2 DEF Outcome, ToldTrue, Delivered, Found
  <2>3. QED
    BY <2>1, <2>2
<1>3. \A r \in Requests : ToldTrue(r)'
  BY <1>1, <1>2
<1>4. ASSUME NEW r \in Requests \ {q}, Delivered(r)', Delivered(q)', Slot(r)' = Slot(q)'
      PROVE  pc[q] \in Ended
  <2>1. Delivered(r) /\ Slot(r) = Slot(r)'
    BY <1>1, <1>4 DEF Delivered, Slot
  <2>2. row[Slot(r)].status # "in_progress"
    BY <2>1, CallFields DEF Told, ToldTrue, Sound, RowsSound
  <2>3. SUFFICES ASSUME pc[q] \notin Ended PROVE FALSE
    OBVIOUS
  <2>4. pc[q] # "new" /\ row[Slot(q)].status = "in_progress"
    BY <1>4 DEF Outcome, Delivered
  <2>5. Slot(q)' = Slot(q)
    BY <2>4 DEF Outcome, Slot
  <2>6. QED
    BY <1>4, <2>1, <2>2, <2>4, <2>5
<1>5. \A r \in Requests : (r # q \/ pc[q] \in Ended) /\ Delivered(r)' =>
                         Delivered(r) /\ Slot(r)' = Slot(r)
  BY <1>1 DEF Delivered, Slot
<1>6. DeliveredOnce'
  BY <1>4, <1>5 DEF DeliveredOnce, Told
<1>7. QED
  BY <1>3, <1>6 DEF Told

LEMMA NextTold ==
  ASSUME Sound, Sound', Told, [Next]_vars
  PROVE  Told'
<1>1. CASE UNCHANGED vars
  BY <1>1 DEF vars, Told, DeliveredOnce, ToldTrue, Delivered, Found, Slot
<1>2. ASSUME NEW q \in Requests, Arrive(q) \/ Step(q) \/ Crash(q)
      PROVE  Outcome(q)
  <2>1. Crash(q) => Outcome(q)
    BY RejectOutcome DEF Crash, Ended, Sound
  <2>2. QED
    BY <1>2, <2>1, ArriveOutcome, StepOutcome DEF Sound
<1>3. ASSUME NEW s \in Slots, Withdraw(s)
      PROVE  Told'
  <2>1. pc' = pc /\ call' = call /\ \A r \in Requests : Slot(r)' = Slot(r)
    BY <1>3 DEF Withdraw, Slot
  <2>2. \A r \in Requests : ToldTrue(r)'
    BY <2>1, ToldStays DEF Told
  <2>3. DeliveredOnce'
    BY <2>1 DEF Told, DeliveredOnce, Delivered
  <2>4. QED
    BY <2>2, <2>3 DEF Told
<1>4. CASE Next
  BY <1>2, <1>3, <1>4, OutcomeTold DEF Next
<1>5. QED
  BY <1>1, <1>4

LEMMA AlwaysTold == Spec => []Told
  BY InitTold, NextTold, AlwaysSound, PTL DEF Spec

\* Of any number of racing submits of one audit, one delivers it.
THEOREM SingleDelivery == Spec => []OneDelivery
<1>1. Told => OneDelivery
  BY DEF Told, DeliveredOnce, OneDelivery
<1>2. QED
  BY <1>1, AlwaysTold, PTL

\* A retry with the key of the delivery is never answered with a conflict.
THEOREM SafeRetry == Spec => []RetryIsSafe
<1>1. Sound /\ Told => RetryIsSafe
  BY AbsentFields, CallFields DEF Sound, RowsSound, Told, ToldTrue, RetryIsSafe
<1>2. QED
  BY <1>1, AlwaysSound, AlwaysTold, PTL

\* An acknowledged submit intent protects the audit from the deletion of its
\* auditor, in every interleaving of the two (record_submit_intent,
\* delete_account).
THEOREM IntentProtects == Spec => []AnnouncedWorkIsKept
<1>1. Told => AnnouncedWorkIsKept
  BY DEF Told, ToldTrue, AnnouncedWorkIsKept
<1>2. QED
  BY <1>1, AlwaysTold, PTL
-----------------------------------------------------------------------------
(***************************************************************************)
(* Requests, locks and transactions implement SubmissionContract.          *)
(***************************************************************************)
Phase(x) == IF x.status = "absent" THEN "none"
            ELSE IF x.status = "in_progress" THEN "draft" ELSE "delivered"

LEMMA InitContract == Init => Contract!ContractInit
<1> SUFFICES ASSUME Init PROVE Contract!ContractInit
  OBVIOUS
<1>1. PICK present \in SUBSET Slots : \E done \in SUBSET Sections :
        row = [s \in Slots |->
                 IF s \notin present THEN AbsentRow
                 ELSE IF done = {} THEN NewRow(Origin) ELSE SavedRow(done)]
  BY DEF Init
<1>2. PICK done \in SUBSET Sections :
        row = [s \in Slots |->
                 IF s \notin present THEN AbsentRow
                 ELSE IF done = {} THEN NewRow(Origin) ELSE SavedRow(done)]
  BY <1>1
<1>3. \A s \in Slots : /\ row[s].status \in {"absent", "in_progress"}
                      /\ row[s].intended = NoRequest /\ row[s].snapshot = Blank
  BY <1>2, AbsentFields, DraftFields
<1>4. linked = [a \in Auditors |-> TRUE] /\ removed = {}
  BY DEF Init
<1>5. QED
  BY <1>3, <1>4 DEF Contract!ContractInit

LEMMA EffectContract ==
  ASSUME TypeOK, TypeOK', RowsSound, RowsSound', NEW q \in Requests, Effect(q)
  PROVE  Contract!ContractNext \/ UNCHANGED <<row, removed, linked>> \/ UNCHANGED Contract!contractVars
<1>a. Slot(q) \in Slots /\ Owner(q) \in Auditors
  BY CallFields
<1>s. PICK s \in Slots : s = Slot(q)
  BY <1>a
<1>b. PICK a \in Auditors : a = Owner(q)
  BY <1>a
<1>0. row[s] \in Rows /\ row \in [Slots -> Rows]
  BY DEF TypeOK
<1>1. ASSUME NEW now \in Rows, row' = [row EXCEPT ![s] = now], linked' = linked,
             removed' = removed, Changes(q, row[s], now)
      PROVE  Contract!ContractNext \/ UNCHANGED Contract!contractVars
  <2>0. \A t \in Slots : row'[t] = IF t = s THEN now ELSE row[t]
    BY <1>0, <1>1
  <2>1. CASE Opens(q, row[s], now)
    <3>1. /\ row[s].status = "absent" /\ now.status = "in_progress"
          /\ row[s].intended = NoRequest /\ now.intended = NoRequest
          /\ row[s].snapshot = Blank /\ now.snapshot = Blank
          /\ s \notin removed
      BY <1>0, <1>s, <2>1, AbsentFields DEF Opens, NewRow, RowsSound
    <3>2. Contract!Open(s)
      BY <1>0, <1>1, <2>0, <3>1 DEF Contract!Open
    <3>3. QED
      BY <3>2 DEF Contract!ContractNext
  <2>2. CASE Edits(row[s], now)
    <3>1. \A t \in Slots : /\ row'[t].status = row[t].status
                          /\ row'[t].intended = row[t].intended
                          /\ row'[t].snapshot = row[t].snapshot
      BY <2>0, <2>2 DEF Edits
    <3>2. QED
      BY <1>1, <3>1 DEF Contract!contractVars
  <2>3. CASE Announces(q, row[s], now)
    <3>1. Contract!Promise(s)
      BY <1>0, <1>1, <2>0, <2>3 DEF Announces, Contract!Promise
    <3>2. QED
      BY <3>1 DEF Contract!ContractNext
  <2>4. CASE Delivers(q, row[s], now)
    <3>1. now.snapshot \in {e \in Answers : IsComplete(e)}
      BY <2>4 DEF Delivers
    <3>2. Contract!Deliver(s)
      BY <1>0, <1>1, <2>0, <2>4, <3>1 DEF Delivers, Contract!Deliver
    <3>3. QED
      BY <3>2 DEF Contract!ContractNext
  <2>5. QED
    BY <1>1, <2>1, <2>2, <2>3, <2>4 DEF Changes
<1>2. CASE Erases(q)
  <2>1. \A t \in Slots : t \in Erased(a) =>
          /\ OwnerOf[t] = a /\ row[t].status = "in_progress"
          /\ row[t].intended = NoRequest /\ row[t].snapshot = Blank
    BY <1>b, <1>2 DEF Erases, Erased, Pending, RowsSound
  <2>2. \A t \in Slots : OwnerOf[t] = a /\ row[t].status = "in_progress" =>
          t \in Erased(a) /\ row[t].intended = NoRequest
    BY <1>b, <1>2 DEF Erases, Erased, Pending
  <2>3. /\ linked[a] /\ linked' = [linked EXCEPT ![a] = FALSE] /\ removed' = removed
        /\ \A t \in Slots : row'[t] = IF t \in Erased(a) THEN AbsentRow ELSE row[t]
    BY <1>b, <1>2 DEF Erases
  <2>4. \A t \in Slots : Phase(row'[t]) =
          IF OwnerOf[t] = a /\ Phase(row[t]) = "draft" THEN "none" ELSE Phase(row[t])
    BY <2>1, <2>2, <2>3, AbsentFields DEF Phase
  <2>5. \A t \in Slots : row'[t].intended = row[t].intended /\ row'[t].snapshot = row[t].snapshot
    BY <2>1, <2>3, AbsentFields
  <2>6. Contract!Leave(a)
    BY <1>0, <2>2, <2>3, <2>4, <2>5 DEF Contract!Leave, Phase
  <2>7. QED
    BY <2>6 DEF Contract!ContractNext
<1>3. QED
  BY <1>s, <1>1, <1>2 DEF Effect

LEMMA WithdrawContract ==
  ASSUME TypeOK, NEW s \in Slots, Withdraw(s)
  PROVE  Contract!ContractNext
<1>1. \A t \in Slots : row'[t] = IF t = s THEN AbsentRow ELSE row[t]
  BY DEF TypeOK, Withdraw
<1>2. s \notin removed /\ removed' = removed \cup {s} /\ linked' = linked
  BY DEF Withdraw
<1>3. Contract!Close(s)
  BY <1>1, <1>2, AbsentFields DEF Contract!Close
<1>4. QED
  BY <1>3 DEF Contract!ContractNext

\* The concurrent system implements the contract: each commit is one step of
\* it, everything else is invisible.
THEOREM Implementation == Spec => ImplementsContract
<1>1. Sound /\ Sound' /\ [Next]_vars => [Contract!ContractNext]_(Contract!contractVars)
  <2> SUFFICES ASSUME Sound, Sound', [Next]_vars
      PROVE  Contract!ContractNext \/ UNCHANGED Contract!contractVars
    OBVIOUS
  <2>1. UNCHANGED <<row, removed, linked>> => UNCHANGED Contract!contractVars
    BY DEF Contract!contractVars
  <2>2. CASE UNCHANGED vars
    BY <2>1, <2>2 DEF vars
  <2>3. CASE Next
    BY <2>1, <2>3, NextEffect, EffectContract, WithdrawContract DEF Sound
  <2>4. QED
    BY <2>2, <2>3
<1>2. QED
  BY <1>1, InitContract, AlwaysSound, PTL DEF Spec, ImplementsContract, Contract!ContractSpec
=============================================================================
