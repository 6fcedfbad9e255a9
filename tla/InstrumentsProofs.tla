------------------------- MODULE InstrumentsProofs -------------------------
(***************************************************************************)
(* What holds of the versions of an instrument for any number of versions  *)
(* and requests.  The lemmas up to Steps say what each action does to the  *)
(* rows, the requests and the locks; the invariants after them use these   *)
(* effects and not the definitions of the actions.                         *)
(*                                                                         *)
(* Three invariants carry the properties.  RequestsInv relates a request   *)
(* in progress to the row it is about and to whether an edit and an        *)
(* activation of that row have raced, and gives ActiveWasValidated and     *)
(* UsedVersionsStay.  Queues and SeesEarlier say of two activations that   *)
(* the later one has seen the row of the earlier one and waits for it;     *)
(* hence ClearedButBorn: what an activation leaves active when it has      *)
(* cleared its rows was inserted active.                                   *)
(***************************************************************************)
EXTENDS Instruments, TLAPS

\* The other rows than i stay what they are, those of `cleared` inactive.
OthersKept(rows, i, cleared) ==
  \A k \in Versions \ {i} :
     /\ instr[k] = Absent => rows[k] = Absent
     /\ instr[k] # Absent => /\ rows[k] # Absent
                             /\ rows[k].active <=> instr[k].active /\ k \notin cleared
                             /\ rows[k].parent = instr[k].parent
                             /\ rows[k].content = instr[k].content
                             /\ rows[k].bornActive = instr[k].bornActive

\* A row is not the mark for its absence.
LEMMA VersionsAreRows == \A x \in InstrumentRows : x # Absent
BY DEF InstrumentRows, Absent

\* What the fields of a changed row are.
LEMMA Deactivated ==
  ASSUME NEW x \in InstrumentRows
  PROVE  /\ [x EXCEPT !.active = FALSE] \in InstrumentRows
         /\ ~[x EXCEPT !.active = FALSE].active
         /\ [x EXCEPT !.active = FALSE].parent = x.parent
         /\ [x EXCEPT !.active = FALSE].content = x.content
         /\ [x EXCEPT !.active = FALSE].bornActive = x.bornActive
BY DEF InstrumentRows

\* An edit changes the content.
LEMMA Edited ==
  ASSUME NEW x \in InstrumentRows, NEW content \in Contents
  PROVE  /\ [x EXCEPT !.content = content] \in InstrumentRows
         /\ [x EXCEPT !.content = content].active = x.active
         /\ [x EXCEPT !.content = content].parent = x.parent
         /\ [x EXCEPT !.content = content].content = content
         /\ [x EXCEPT !.content = content].bornActive = x.bornActive
BY DEF InstrumentRows

\* A draft whose parent is deleted.
LEMMA Orphaned ==
  ASSUME NEW x \in InstrumentRows
  PROVE  /\ [x EXCEPT !.parent = NoRow] \in InstrumentRows
         /\ [x EXCEPT !.parent = NoRow].active = x.active
         /\ [x EXCEPT !.parent = NoRow].parent = NoRow
         /\ [x EXCEPT !.parent = NoRow].content = x.content
         /\ [x EXCEPT !.parent = NoRow].bornActive = x.bornActive
BY DEF InstrumentRows

\* The row that is activated; one of Playspace is no draft any more.
LEMMA PromotedRow ==
  ASSUME NEW i \in Versions, instr[i] \in InstrumentRows, NEW content \in Contents
  PROVE  /\ Promoted(i, content) \in InstrumentRows
         /\ Promoted(i, content).active
         /\ Promoted(i, content).content = content
         /\ Promoted(i, content).bornActive = instr[i].bornActive
         /\ Promoted(i, content).parent \in {instr[i].parent, NoRow}
         /\ catalogue = "playspace" => Promoted(i, content).parent = NoRow
BY DEF InstrumentRows, Promoted

\* A lock that no longer waits for r.
LEMMA Released ==
  ASSUME NEW x \in Locks, NEW r
  PROVE  /\ [x EXCEPT !.behind = @ \ {r}] \in Locks
         /\ [x EXCEPT !.behind = @ \ {r}].asked = x.asked
         /\ [x EXCEPT !.behind = @ \ {r}].seen = x.seen
         /\ [x EXCEPT !.behind = @ \ {r}].cleared = x.cleared
         /\ [x EXCEPT !.behind = @ \ {r}].behind = x.behind \ {r}
<1>1. (x.behind \ {r}) \in SUBSET Jobs
  BY DEF Locks
<1>2. QED
  BY <1>1 DEF Locks

\* No lock is a lock that holds nothing.
LEMMA NoLockHeld == NoLock \in Locks
BY DEF NoLock, Locks

\* The requests of each kind.
LEMMA JobShapes ==
  ASSUME NEW x \in JobRecords
  PROVE  /\ x.op \in {"none", "create", "deactivate", "activate", "edit", "delete", "use", "bootstrap"}
         /\ x = NoJob <=> x.op = "none"
         /\ x.op = "create" => /\ x.parent \in Versions \cup {NoRow} /\ x.content \in Contents
                               /\ x.active \in BOOLEAN
         /\ x.op \in {"deactivate", "activate", "edit", "delete", "use"} => x.row \in Versions
         /\ x.op \in {"activate", "edit"} => x.content \in Contents
         /\ x.op \in {"edit", "delete"} => x.used \in BOOLEAN
BY DEF JobRecords, NoJob

\* A request ends: its lock goes, and nobody waits for it any more.
LEMMA DoneEffect ==
  ASSUME InstrTypeOK, NEW r \in Jobs, Done(r)
  PROVE  /\ job' = [job EXCEPT ![r] = NoJob]
         /\ job' \in [Jobs -> JobRecords]
         /\ lock' \in [Jobs -> Locks]
         /\ lock'[r] = NoLock
         /\ \A q \in Jobs \ {r} : /\ lock'[q].asked = lock[q].asked
                                  /\ lock'[q].seen = lock[q].seen
                                  /\ lock'[q].cleared = lock[q].cleared
                                  /\ lock'[q].behind = lock[q].behind \ {r}
         /\ catalogue' = catalogue
<1>1. lock' = [q \in Jobs |-> IF q = r THEN NoLock ELSE [lock[q] EXCEPT !.behind = @ \ {r}]]
  BY DEF Done
<1>2. \A q \in Jobs : lock[q] \in Locks
  BY DEF InstrTypeOK
<1>3. \A q \in Jobs : [lock[q] EXCEPT !.behind = @ \ {r}] \in Locks
  BY <1>2, Released
<1>4. lock' \in [Jobs -> Locks] /\ lock'[r] = NoLock
  BY <1>1, <1>3, NoLockHeld
<1>5. ASSUME NEW q \in Jobs \ {r}
      PROVE  /\ lock'[q].asked = lock[q].asked
             /\ lock'[q].seen = lock[q].seen
             /\ lock'[q].cleared = lock[q].cleared
             /\ lock'[q].behind = lock[q].behind \ {r}
  <2>1. lock'[q] = [lock[q] EXCEPT !.behind = @ \ {r}]
    BY <1>1
  <2>2. QED
    BY <1>2, <2>1, Released
<1>6. job' \in [Jobs -> JobRecords]
  BY DEF Done, InstrTypeOK, JobRecords
<1>7. QED
  BY <1>4, <1>5, <1>6 DEF Done

\* A request begins.
LEMMA TakeEffect ==
  ASSUME InstrTypeOK, NEW r \in Jobs, NEW x \in JobRecords, Take(r, x)
  PROVE  /\ job[r] = NoJob
         /\ job' \in [Jobs -> JobRecords]
         /\ job'[r] = x
         /\ \A q \in Jobs \ {r} : job'[q] = job[q]
         /\ UNCHANGED <<catalogue, instr, stamps, lock>>
<1>1. job' = [job EXCEPT ![r] = x] /\ job \in [Jobs -> JobRecords]
  BY DEF Take, InstrTypeOK
<1>2. job' \in [Jobs -> JobRecords] /\ job'[r] = x /\ \A q \in Jobs \ {r} : job'[q] = job[q]
  BY <1>1
<1>3. QED
  BY <1>2 DEF Take

\* What an activation does to the row it activates and to the others.
LEMMA ActivatedRows ==
  ASSUME InstrTypeOK, NEW r \in Jobs, NEW i \in Versions, NEW row \in InstrumentRows
  PROVE  /\ Activated(r, i, row) \in [Versions -> InstrumentRows \cup {Absent}]
         /\ Activated(r, i, row)[i] = row
         /\ OthersKept(Activated(r, i, row), i, lock[r].cleared)
<1> DEFINE f == Activated(r, i, row)
<1>1. \A k \in Versions : instr[k] # Absent => instr[k] \in InstrumentRows
  BY DEF InstrTypeOK
<1>2. f = [k \in Versions |-> IF k = i THEN row
                    ELSE IF k \in lock[r].cleared /\ instr[k] # Absent
                    THEN [instr[k] EXCEPT !.active = FALSE] ELSE instr[k]]
  BY DEF Activated
<1> HIDE DEF f
<1>3. f[i] = row
  BY <1>2
<1>4. ASSUME NEW k \in Versions \ {i}
      PROVE  /\ f[k] \in InstrumentRows \cup {Absent}
             /\ instr[k] = Absent => f[k] = Absent
             /\ instr[k] # Absent =>
                   /\ f[k] # Absent
                   /\ f[k].active <=> instr[k].active /\ k \notin lock[r].cleared
                   /\ f[k].parent = instr[k].parent
                   /\ f[k].content = instr[k].content
                   /\ f[k].bornActive = instr[k].bornActive
  <2>1. CASE instr[k] = Absent
    BY <1>2, <2>1
  <2>2. CASE instr[k] # Absent /\ k \in lock[r].cleared
    <3>1. f[k] = [instr[k] EXCEPT !.active = FALSE] /\ instr[k] \in InstrumentRows
      BY <1>1, <1>2, <2>2
    <3>2. QED
      BY <2>2, <3>1, Deactivated, VersionsAreRows
  <2>3. CASE instr[k] # Absent /\ k \notin lock[r].cleared
    <3>1. f[k] = instr[k] /\ instr[k] \in InstrumentRows
      BY <1>1, <1>2, <2>3
    <3>2. QED
      BY <2>3, <3>1
  <2>4. QED
    BY <2>1, <2>2, <2>3
<1>5. f \in [Versions -> InstrumentRows \cup {Absent}]
  BY <1>2, <1>3, <1>4
<1>6. QED
  BY <1>3, <1>4, <1>5 DEF f, OthersKept

\* A row that no step before it had is inserted; the others are there as before,
\* or inactive.
LEMMA CreateEffect ==
  ASSUME InstrTypeOK, NEW r \in Jobs, NEW i \in Versions, CreateVersion(r, i)
  PROVE  /\ job[r].op = "create" /\ Fresh(i) /\ Done(r) /\ stamps' = stamps
         /\ job[r].active => Cleared(r)
         /\ Indexed(instr')
         /\ instr' \in [Versions -> InstrumentRows \cup {Absent}]
         /\ instr'[i] # Absent
         /\ instr'[i].active = job[r].active
         /\ instr'[i].parent = job[r].parent
         /\ instr'[i].content = job[r].content
         /\ instr'[i].bornActive <=> job[r].active /\ catalogue # "yee"
         /\ OthersKept(instr', i, IF job[r].active THEN lock[r].cleared ELSE {})
<1> DEFINE x == job[r]
           row == [active |-> x.active, parent |-> x.parent, content |-> x.content,
                   bornActive |-> x.active /\ catalogue # "yee"]
           rows == IF x.active THEN Activated(r, i, row) ELSE [instr EXCEPT ![i] = row]
<1>1. /\ x.op = "create" /\ Fresh(i) /\ Done(r) /\ stamps' = stamps
      /\ x.active => Cleared(r)
      /\ Indexed(rows) /\ instr' = rows
  BY DEF CreateVersion
<1>2. row \in InstrumentRows
  <2>1. x \in JobRecords
    BY DEF InstrTypeOK
  <2>2. x.parent \in Versions \cup {NoRow} /\ x.content \in Contents /\ x.active \in BOOLEAN
    BY <1>1, <2>1, JobShapes
  <2>3. (x.active /\ catalogue # "yee") \in BOOLEAN
    OBVIOUS
  <2>4. QED
    BY <2>2, <2>3 DEF InstrumentRows
<1>3. row.active = x.active /\ row.parent = x.parent /\ row.content = x.content
      /\ (row.bornActive <=> x.active /\ catalogue # "yee")
  OBVIOUS
<1> HIDE DEF row
<1>4. instr \in [Versions -> InstrumentRows \cup {Absent}]
  BY DEF InstrTypeOK
<1>5. /\ rows \in [Versions -> InstrumentRows \cup {Absent}]
      /\ rows[i] = row
      /\ OthersKept(rows, i, IF x.active THEN lock[r].cleared ELSE {})
  <2>1. CASE x.active
    BY <1>2, <2>1, ActivatedRows
  <2>2. CASE ~x.active
    BY <1>2, <1>4, <2>2 DEF OthersKept
  <2>3. QED
    BY <2>1, <2>2
<1>6. rows[i] # Absent
  BY <1>2, <1>5, VersionsAreRows
<1> HIDE DEF rows
<1>7. QED
  BY <1>1, <1>3, <1>5, <1>6

\* The row of an activation becomes active, with the content that was validated
\* or the content it has; the rows that were cleared become inactive.
LEMMA ActivateEffect ==
  ASSUME InstrTypeOK, NEW r \in Jobs, ActivateVersion(r)
  PROVE  \E i \in Versions :
         /\ job[r].op = "activate" /\ job[r].row = i /\ i \in Existing
         /\ Cleared(r) /\ Done(r) /\ stamps' = stamps
         /\ Indexed(instr')
         /\ instr' \in [Versions -> InstrumentRows \cup {Absent}]
         /\ instr'[i] # Absent
         /\ instr'[i].active
         /\ instr'[i].parent \in {instr[i].parent, NoRow}
         /\ catalogue = "playspace" => instr'[i].parent = NoRow
         /\ instr'[i].content \in {job[r].content, instr[i].content}
         /\ instr'[i].bornActive = instr[i].bornActive
         /\ OthersKept(instr', i, lock[r].cleared)
<1> DEFINE x == job[r]
           i == x.row
<1>1. /\ x.op = "activate" /\ i \in Existing /\ Cleared(r) /\ Done(r) /\ stamps' = stamps
      /\ \E content \in {x.content, instr[i].content} :
           /\ Indexed(Activated(r, i, Promoted(i, content)))
           /\ instr' = Activated(r, i, Promoted(i, content))
  BY DEF ActivateVersion
<1>2. i \in Versions /\ instr[i] \in InstrumentRows /\ x.content \in Contents
  <2>1. i \in Versions /\ instr[i] \in InstrumentRows
    BY <1>1 DEF Existing, InstrTypeOK
  <2>2. x \in JobRecords
    BY DEF InstrTypeOK
  <2>3. QED
    BY <1>1, <2>1, <2>2, JobShapes
<1>3. PICK content \in {x.content, instr[i].content} :
           /\ Indexed(Activated(r, i, Promoted(i, content)))
           /\ instr' = Activated(r, i, Promoted(i, content))
  BY <1>1
<1>4. content \in Contents
  BY <1>2, <1>3 DEF InstrumentRows
<1> DEFINE row == Promoted(i, content)
<1>5. /\ row \in InstrumentRows /\ row.active /\ row.content = content
      /\ row.bornActive = instr[i].bornActive
      /\ row.parent \in {instr[i].parent, NoRow}
      /\ catalogue = "playspace" => row.parent = NoRow
  BY <1>2, <1>4, PromotedRow
<1>6. instr' = Activated(r, i, row) /\ Indexed(instr')
  BY <1>3
<1> HIDE DEF row, i
<1>7. /\ instr' \in [Versions -> InstrumentRows \cup {Absent}]
      /\ instr'[i] = row
      /\ OthersKept(instr', i, lock[r].cleared)
  BY <1>2, <1>5, <1>6, ActivatedRows
<1>8. instr'[i] # Absent
  BY <1>5, <1>7, VersionsAreRows
<1>9. i = job[r].row
  BY DEF i
<1>10. QED
  BY <1>1, <1>2, <1>3, <1>5, <1>6, <1>7, <1>8, <1>9

\* A deactivation changes one row only.
LEMMA DeactivateEffect ==
  ASSUME InstrTypeOK, NEW r \in Jobs, DeactivateVersion(r)
  PROVE  \E i \in Versions :
         /\ i \in Existing /\ Done(r) /\ stamps' = stamps
         /\ instr' \in [Versions -> InstrumentRows \cup {Absent}]
         /\ instr'[i] # Absent
         /\ ~instr'[i].active
         /\ instr'[i].parent = instr[i].parent
         /\ instr'[i].content = instr[i].content
         /\ instr'[i].bornActive = instr[i].bornActive
         /\ OthersKept(instr', i, {})
<1> DEFINE i == job[r].row
<1>1. /\ i \in Existing /\ Done(r) /\ stamps' = stamps
      /\ instr' = [instr EXCEPT ![i] = [instr[i] EXCEPT !.active = FALSE]]
  BY DEF DeactivateVersion
<1> HIDE DEF i
<1>2. i \in Versions /\ instr[i] \in InstrumentRows /\ instr \in [Versions -> InstrumentRows \cup {Absent}]
  BY <1>1 DEF Existing, InstrTypeOK
<1>3. [instr[i] EXCEPT !.active = FALSE] \in InstrumentRows
  BY <1>2, Deactivated
<1>4. /\ instr' \in [Versions -> InstrumentRows \cup {Absent}]
      /\ instr'[i] = [instr[i] EXCEPT !.active = FALSE]
      /\ \A k \in Versions \ {i} : instr'[k] = instr[k]
  BY <1>1, <1>2, <1>3
<1>5. OthersKept(instr', i, {})
  BY <1>4 DEF OthersKept
<1>6. instr'[i] # Absent
  BY <1>3, <1>4, VersionsAreRows
<1>7. QED
  BY <1>1, <1>2, <1>4, <1>5, <1>6, Deactivated

\* An edit writes the content it has brought, and is about its own row.
LEMMA EditEffect ==
  ASSUME InstrTypeOK, NEW r \in Jobs, EditDraft(r)
  PROVE  \E i \in Versions :
         /\ job[r].op = "edit" /\ job[r].row = i
         /\ i \in Existing /\ Done(r) /\ stamps' = stamps
         /\ instr' \in [Versions -> InstrumentRows \cup {Absent}]
         /\ instr'[i] # Absent
         /\ instr'[i].active = instr[i].active
         /\ instr'[i].parent = instr[i].parent
         /\ instr'[i].content = job[r].content
         /\ instr'[i].bornActive = instr[i].bornActive
         /\ OthersKept(instr', i, {})
<1> DEFINE i == job[r].row
           content == job[r].content
<1>1. /\ job[r].op = "edit" /\ i \in Existing /\ Done(r) /\ stamps' = stamps
      /\ instr' = [instr EXCEPT ![i] = [instr[i] EXCEPT !.content = content]]
  BY DEF EditDraft
<1>2. content \in Contents
  <2>1. job[r] \in JobRecords
    BY DEF InstrTypeOK
  <2>2. QED
    BY <1>1, <2>1, JobShapes
<1>3. i = job[r].row /\ content = job[r].content
  OBVIOUS
<1> HIDE DEF i, content
<1>4. i \in Versions /\ instr[i] \in InstrumentRows /\ instr \in [Versions -> InstrumentRows \cup {Absent}]
  BY <1>1 DEF Existing, InstrTypeOK
<1>5. [instr[i] EXCEPT !.content = content] \in InstrumentRows
  BY <1>2, <1>4, Edited
<1>6. /\ instr' \in [Versions -> InstrumentRows \cup {Absent}]
      /\ instr'[i] = [instr[i] EXCEPT !.content = content]
      /\ \A k \in Versions \ {i} : instr'[k] = instr[k]
  BY <1>1, <1>4, <1>5
<1>7. OthersKept(instr', i, {})
  BY <1>6 DEF OthersKept
<1>8. instr'[i] # Absent
  BY <1>5, <1>6, VersionsAreRows
<1>9. /\ instr'[i].active = instr[i].active /\ instr'[i].parent = instr[i].parent
      /\ instr'[i].content = content /\ instr'[i].bornActive = instr[i].bornActive
  BY <1>2, <1>4, <1>6, Edited
<1>10. QED
  BY <1>1, <1>3, <1>4, <1>6, <1>7, <1>8, <1>9

\* ON DELETE SET NULL: a draft of the deleted version stays, without a parent.
LEMMA DeleteEffect ==
  ASSUME InstrTypeOK, NEW r \in Jobs, DeleteVersion(r)
  PROVE  /\ job[r].op = "delete" /\ job[r].row \in Existing /\ Done(r) /\ stamps' = stamps
         /\ instr' \in [Versions -> InstrumentRows \cup {Absent}]
         /\ instr'[job[r].row] = Absent
         /\ \A k \in Versions \ {job[r].row} :
              /\ instr[k] = Absent => instr'[k] = Absent
              /\ instr[k] # Absent => /\ instr'[k] # Absent
                                      /\ instr'[k].active = instr[k].active
                                      /\ instr'[k].parent \in {instr[k].parent, NoRow}
                                      /\ instr'[k].content = instr[k].content
                                      /\ instr'[k].bornActive = instr[k].bornActive
<1> DEFINE i == job[r].row
<1>1. /\ job[r].op = "delete" /\ i \in Existing /\ Done(r) /\ stamps' = stamps
      /\ instr' = [k \in Versions |->
            IF k = i THEN Absent
            ELSE IF instr[k] # Absent /\ instr[k].parent = i
            THEN [instr[k] EXCEPT !.parent = NoRow] ELSE instr[k]]
  BY DEF DeleteVersion
<1>2. i \in Versions /\ \A k \in Versions : instr[k] # Absent => instr[k] \in InstrumentRows
  BY <1>1 DEF Existing, InstrTypeOK
<1>3. i = job[r].row
  OBVIOUS
<1> HIDE DEF i
<1>4. instr'[i] = Absent
  BY <1>1, <1>2
<1>5. ASSUME NEW k \in Versions \ {i}
      PROVE  /\ instr'[k] \in InstrumentRows \cup {Absent}
             /\ instr[k] = Absent => instr'[k] = Absent
             /\ instr[k] # Absent => /\ instr'[k] # Absent
                                     /\ instr'[k].active = instr[k].active
                                     /\ instr'[k].parent \in {instr[k].parent, NoRow}
                                     /\ instr'[k].content = instr[k].content
                                     /\ instr'[k].bornActive = instr[k].bornActive
  <2>1. CASE instr[k] # Absent /\ instr[k].parent = i
    <3>1. instr'[k] = [instr[k] EXCEPT !.parent = NoRow] /\ instr[k] \in InstrumentRows
      BY <1>1, <1>2, <2>1
    <3>2. QED
      BY <2>1, <3>1, Orphaned, VersionsAreRows
  <2>2. CASE ~(instr[k] # Absent /\ instr[k].parent = i)
    <3>1. instr'[k] = instr[k]
      BY <1>1, <2>2
    <3>2. QED
      BY <1>2, <3>1
  <2>3. QED
    BY <2>1, <2>2
<1>6. instr' \in [Versions -> InstrumentRows \cup {Absent}]
  BY <1>1, <1>4, <1>5
<1>7. QED
  BY <1>1, <1>3, <1>4, <1>5, <1>6

\* The canonical file comes in as a new row, active.
LEMMA BootstrapEffect ==
  ASSUME InstrTypeOK, NEW r \in Jobs, NEW i \in Versions, Bootstrap(r, i)
  PROVE  /\ job[r].op = "bootstrap" /\ Fresh(i) /\ Done(r) /\ stamps' = stamps
         /\ Indexed(instr')
         /\ instr' \in [Versions -> InstrumentRows \cup {Absent}]
         /\ instr'[i] # Absent
         /\ instr'[i].active
         /\ instr'[i].parent = NoRow
         /\ instr'[i].content = "legacy"
         /\ OthersKept(instr', i, {})
<1> DEFINE row == [active |-> TRUE, parent |-> NoRow, content |-> "legacy", bornActive |-> FALSE]
<1>1. /\ job[r].op = "bootstrap" /\ Fresh(i) /\ Done(r) /\ stamps' = stamps
      /\ instr' = [instr EXCEPT ![i] = row] /\ Indexed(instr')
  BY DEF Bootstrap
<1>2. row \in InstrumentRows /\ row.active /\ row.parent = NoRow /\ row.content = "legacy"
  BY DEF InstrumentRows, Contents
<1> HIDE DEF row
<1>3. /\ instr' \in [Versions -> InstrumentRows \cup {Absent}]
      /\ instr'[i] = row
      /\ \A k \in Versions \ {i} : instr'[k] = instr[k]
  BY <1>1, <1>2 DEF InstrTypeOK
<1>4. OthersKept(instr', i, {})
  BY <1>3 DEF OthersKept
<1>5. QED
  BY <1>1, <1>2, <1>3, <1>4, VersionsAreRows

-----------------------------------------------------------------------------

\* What a request has found when it begins as x.
Begun(x) ==
  /\ x.op = "create" /\ x.active =>
       /\ catalogue = "playspace" => x.parent = NoRow
       /\ catalogue \in {"playspace", "yee"} => x.content # "unsound"
  /\ x.op = "activate" =>
       /\ x.row \in Existing /\ x.content = instr[x.row].content
       /\ catalogue \in {"playspace", "yee"} => x.content # "unsound"
  /\ x.op = "edit" => /\ catalogue = "yee" /\ ~x.used
                      /\ x.row \in Existing => ~instr[x.row].active
  /\ x.op = "delete" /\ x.used => /\ catalogue = "playspace"
                                  /\ x.row \in Existing \cap stamps
                                  /\ instr[x.row].parent # NoRow
  /\ x.op = "bootstrap" => catalogue = "yee"
  /\ x.op = "use" => x.row \in Existing /\ (catalogue # "yee" => instr[x.row].active)

\* The rows that an edit and an activation have had in progress together, when
\* x begins.
RacedWith(x) ==
  IF x.op = "activate"
  THEN IF Underway("edit", x.row) THEN raced \cup {x.row}
       ELSE IF Underway("activate", x.row) THEN raced ELSE raced \ {x.row}
  ELSE IF x.op = "edit" /\ Underway("activate", x.row) THEN raced \cup {x.row} ELSE raced

Begins(r, x) == Take(r, x) /\ Begun(x) /\ raced' = RacedWith(x)

\* create_instrument_version validates what it is to publish.
LEMMA CreateBegins ==
  ASSUME InstrTypeOK, NEW r \in Jobs, NEW parent \in Versions \cup {NoRow}, NEW content \in NewContents,
         NEW activate \in BOOLEAN, CreateStart(r, parent, content, activate)
  PROVE  \E x \in JobRecords : Begins(r, x)
<1> DEFINE x == [op |-> "create", content |-> content, active |-> activate,
                 parent |-> IF catalogue = "playspace" /\ activate THEN NoRow ELSE parent]
<1>1. content \in Contents
  BY DEF NewContents, Contents
<1>2. x \in JobRecords
  BY <1>1 DEF JobRecords
<1>3. Take(r, x) /\ raced' = RacedWith(x)
  BY DEF CreateStart, RacedWith
<1>4. Begun(x)
  <2>1. activate /\ catalogue \in {"playspace", "yee"} => content # "unsound"
    BY DEF CreateStart, Publishable
  <2>2. QED
    BY <2>1 DEF Begun
<1>5. QED
  BY <1>2, <1>3, <1>4 DEF Begins

\* What the other requests have looked at when they begin.
LEMMA OthersBegin ==
  ASSUME InstrTypeOK, NEW r \in Jobs, NEW i \in Versions,
         \/ ForkStart(r, i) \/ ActivateStart(r, i) \/ DeactivateStart(r, i)
         \/ DeleteVersionStart(r, i) \/ UseStart(r, i)
         \/ \E content \in Contents \ {"legacy"} : EditStart(r, i, content)
  PROVE  \E x \in JobRecords : Begins(r, x)
<1> USE DEF Begins
<1>1. instr[i] # Absent => instr[i] \in InstrumentRows /\ instr[i].content \in Contents
  BY DEF InstrTypeOK, InstrumentRows
<1>2. CASE ForkStart(r, i)
  <2> DEFINE x == [op |-> "create", active |-> FALSE, parent |-> i,
                   content |-> IF instr[i].content = "legacy" THEN "authored" ELSE instr[i].content]
  <2>1. (IF instr[i].content = "legacy" THEN "authored" ELSE instr[i].content) \in Contents
    BY <1>1, <1>2 DEF ForkStart, Existing, Contents
  <2>2. x \in JobRecords
    BY <2>1 DEF JobRecords
  <2>3. Take(r, x) /\ Begun(x) /\ raced' = RacedWith(x)
    BY <1>2 DEF ForkStart, Begun, RacedWith
  <2>4. QED
    BY <2>2, <2>3
<1>3. CASE ActivateStart(r, i)
  <2> DEFINE x == [op |-> "activate", row |-> i, content |-> instr[i].content]
  <2>1. i \in Existing /\ instr[i].content \in Contents
    BY <1>1, <1>3 DEF ActivateStart, Existing
  <2>2. x \in JobRecords
    BY <2>1 DEF JobRecords
  <2>3. catalogue \in {"playspace", "yee"} => instr[i].content # "unsound"
    BY <1>3 DEF ActivateStart, Publishable
  <2>4. Take(r, x) /\ Begun(x) /\ raced' = RacedWith(x)
    BY <1>3, <2>1, <2>3 DEF ActivateStart, Begun, RacedWith
  <2>5. QED
    BY <2>2, <2>4
<1>4. CASE DeactivateStart(r, i)
  <2> DEFINE x == [op |-> "deactivate", row |-> i]
  <2>1. x \in JobRecords
    BY DEF JobRecords
  <2>2. Take(r, x) /\ Begun(x) /\ raced' = RacedWith(x)
    BY <1>4 DEF DeactivateStart, Begun, RacedWith
  <2>3. QED
    BY <2>1, <2>2
<1>5. CASE DeleteVersionStart(r, i)
  <2> DEFINE x == [op |-> "delete", row |-> i, used |-> i \in stamps]
  <2>1. (i \in stamps) \in BOOLEAN
    OBVIOUS
  <2>2. x \in JobRecords
    BY <2>1 DEF JobRecords
  <2>3. Take(r, x) /\ Begun(x) /\ raced' = RacedWith(x)
    BY <1>5 DEF DeleteVersionStart, Deletable, Begun, RacedWith
  <2>4. QED
    BY <2>2, <2>3
<1>6. CASE UseStart(r, i)
  <2> DEFINE x == [op |-> "use", row |-> i]
  <2>1. x \in JobRecords
    BY DEF JobRecords
  <2>2. Take(r, x) /\ Begun(x) /\ raced' = RacedWith(x)
    BY <1>6 DEF UseStart, Begun, RacedWith
  <2>3. QED
    BY <2>1, <2>2
<1>7. ASSUME NEW content \in Contents \ {"legacy"}, EditStart(r, i, content)
      PROVE  \E x \in JobRecords : Begins(r, x)
  <2> DEFINE x == [op |-> "edit", row |-> i, content |-> content, used |-> i \in stamps]
  <2>1. (i \in stamps) \in BOOLEAN
    OBVIOUS
  <2>2. x \in JobRecords
    BY <2>1 DEF JobRecords
  <2>3. Take(r, x) /\ Begun(x) /\ raced' = RacedWith(x)
    BY <1>7 DEF EditStart, Immutable, Begun, RacedWith
  <2>4. QED
    BY <2>2, <2>3
<1>8. QED
  BY <1>2, <1>3, <1>4, <1>5, <1>6, <1>7

\* The steps of the component, each with what it has found.
LEMMA Steps ==
  ASSUME InstrTypeOK, [InstrNext]_instrVars
  PROVE  \/ \E r \in Jobs, x \in JobRecords : Begins(r, x)
         \/ \E r \in Jobs, i \in Versions : CreateVersion(r, i) \/ Bootstrap(r, i)
         \/ \E r \in Jobs : \/ AskForRows(r) \/ ClearRows(r) \/ ActivateVersion(r) \/ DeactivateVersion(r)
                            \/ EditDraft(r) \/ DeleteVersion(r) \/ Use(r) \/ GiveUp(r)
         \/ \E i \in Versions : Disuse(i)
         \/ UNCHANGED instrVars
<1>1. ASSUME NEW r \in Jobs, BootstrapStart(r)
      PROVE  \E x \in JobRecords : Begins(r, x)
  <2> DEFINE x == [op |-> "bootstrap"]
  <2>1. x \in JobRecords
    BY DEF JobRecords
  <2>2. Take(r, x) /\ Begun(x) /\ raced' = RacedWith(x)
    BY <1>1 DEF BootstrapStart, Begun, RacedWith
  <2>3. QED
    BY <2>1, <2>2 DEF Begins
<1>2. CASE InstrNext
  <2>1. CASE \E i \in Versions : Disuse(i)
    BY <2>1
  <2>2. CASE \E r \in Jobs : InstrRequest(r)
    <3>1. PICK r \in Jobs : InstrRequest(r)
      BY <2>2
    <3>2. CASE \E parent \in Versions \cup {NoRow}, content \in NewContents, activate \in BOOLEAN :
                  CreateStart(r, parent, content, activate)
      BY <3>2, CreateBegins
    <3>3. CASE \E i \in Versions :
                  \/ ForkStart(r, i) \/ ActivateStart(r, i) \/ DeactivateStart(r, i)
                  \/ DeleteVersionStart(r, i) \/ UseStart(r, i) \/ CreateVersion(r, i) \/ Bootstrap(r, i)
                  \/ \E content \in Contents \ {"legacy"} : EditStart(r, i, content)
      BY <3>3, OthersBegin
    <3>4. CASE BootstrapStart(r)
      BY <1>1, <3>4
    <3>5. QED
      BY <3>1, <3>2, <3>3, <3>4 DEF InstrRequest
  <2>3. QED
    BY <1>2, <2>1, <2>2 DEF InstrNext
<1>3. QED
  BY <1>2

-----------------------------------------------------------------------------

\* A Playspace request that publishes has dropped the parent.
PublishesAsRoot ==
  catalogue = "playspace" =>
     \A r \in Jobs : job[r].op = "create" /\ job[r].active => job[r].parent = NoRow

\* A Playspace draft is stamped only once it is published, and then has no parent.
StampedAreRoots ==
  catalogue = "playspace" =>
     /\ \A i \in Existing \cap stamps : instr[i].parent = NoRow
     /\ \A r \in Jobs : job[r].op = "use" /\ job[r].row \in Existing => instr[job[r].row].parent = NoRow

\* No request edits or deletes a version that it has seen in use.
SawNoUse == \A r \in Jobs : job[r].op \in {"edit", "delete"} => ~job[r].used

\* Of a version that an edit and an activation have not had in progress together,
\* an activation writes the content it has read, and no edit is in progress.
RacesAreSeen ==
  \A i \in Existing \ raced : \A r \in Jobs : job[r].op = "activate" /\ job[r].row = i =>
     instr[i].content = job[r].content /\ ~Underway("edit", i)

\* What becomes active was validated, and nothing that is active is being edited.
SoundContent ==
  /\ \A r \in Jobs : job[r].op \in {"edit", "bootstrap"} => catalogue = "yee"
  /\ catalogue # "yee" => raced = {}
  /\ catalogue \in {"playspace", "yee"} =>
       /\ \A r \in Jobs : job[r].op = "activate" \/ (job[r].op = "create" /\ job[r].active) =>
              job[r].content # "unsound"
       /\ \A i \in Active \ raced : instr[i].content # "unsound" /\ ~Underway("edit", i)

\* Who holds or waits for rows.  Of two activations of versions that are there, one
\* has seen the version of the other and waits for it.
Activating(r, i) == job[r].op = "activate" /\ job[r].row = i /\ i \in Existing /\ lock[r].asked
Queues ==
  /\ \A r \in Jobs : lock[r].asked => /\ job[r].op \in {"activate", "create"}
                                      /\ job[r].op = "create" => job[r].active
  /\ \A r \in Jobs : ~lock[r].asked => lock[r].seen = {} /\ lock[r].behind = {}
  /\ \A p, q \in Jobs : p \in lock[q].behind => lock[p].asked
  /\ \A p, q \in Jobs : p # q /\ lock[p].seen \cap lock[q].seen # {} =>
         p \in lock[q].behind \/ q \in lock[p].behind
  /\ \A r \in Jobs : lock[r].asked =>
         IF catalogue = "playspace" THEN lock[r].cleared = lock[r].seen
         ELSE lock[r].cleared # NotCleared => lock[r].behind = {}
SeesEarlier ==
  /\ \A r \in Jobs, i \in Versions : Activating(r, i) => i \in lock[r].seen
  /\ \A p, q \in Jobs, i \in Versions : Activating(p, i) /\ p \in lock[q].behind => i \in lock[q].seen
  /\ \A p, q \in Jobs, i, k \in Versions :
         Activating(p, i) /\ Activating(q, k) => i \in lock[q].seen \/ k \in lock[p].seen

\* What an activation leaves active was inserted active.
ClearedButBorn ==
  catalogue # "yee" =>
     \A r \in Jobs, i \in Versions : Activating(r, i) /\ lock[r].cleared # NotCleared =>
        /\ i \in lock[r].cleared
        /\ \A k \in Active \ lock[r].cleared : instr[k].bornActive

-----------------------------------------------------------------------------

\* The requests after one has ended.
LEMMA JobsAfter ==
  ASSUME InstrTypeOK, NEW r \in Jobs, Done(r)
  PROVE  /\ job'[r] = NoJob
         /\ \A q \in Jobs \ {r} : job'[q] = job[q]
         /\ \A q \in Jobs : job'[q].op # "none" => q # r /\ job'[q] = job[q]
BY DEF Done, InstrTypeOK, NoJob

\* Every step keeps the types.
LEMMA InstrTypesStep ==
  ASSUME InstrTypeOK, PublishesAsRoot, [InstrNext]_instrVars
  PROVE  InstrTypeOK'
<1>1. ASSUME NEW r \in Jobs, NEW x \in JobRecords, Begins(r, x)
      PROVE  InstrTypeOK'
  <2>1. raced' \subseteq Versions
    BY <1>1, JobShapes DEF Begins, RacedWith, InstrTypeOK
  <2>2. QED
    BY <1>1, <2>1, TakeEffect DEF Begins, InstrTypeOK, Active, Existing
<1>2. ASSUME NEW r \in Jobs, NEW i \in Versions, CreateVersion(r, i)
      PROVE  InstrTypeOK'
  <2>1. \A k \in Active' : k # i => k \in Active /\ instr'[k].parent = instr[k].parent
    BY <1>2, CreateEffect DEF OthersKept, Active, Existing
  <2>2. instr'[i].active /\ catalogue = "playspace" => instr'[i].parent = NoRow
    BY <1>2, CreateEffect DEF PublishesAsRoot
  <2>3. catalogue' = "playspace" => \A k \in Active' : instr'[k].parent = NoRow
    BY <1>2, <2>1, <2>2, CreateEffect, DoneEffect DEF InstrTypeOK, Active
  <2>4. QED
    BY <1>2, <2>3, CreateEffect, DoneEffect DEF InstrTypeOK, CreateVersion
<1>3. ASSUME NEW r \in Jobs, NEW i \in Versions, Bootstrap(r, i)
      PROVE  InstrTypeOK'
  <2>1. \A k \in Active' : k # i => k \in Active /\ instr'[k].parent = instr[k].parent
    BY <1>3, BootstrapEffect DEF OthersKept, Active, Existing
  <2>2. catalogue' = "playspace" => \A k \in Active' : instr'[k].parent = NoRow
    BY <1>3, <2>1, BootstrapEffect, DoneEffect DEF InstrTypeOK
  <2>3. QED
    BY <1>3, <2>2, BootstrapEffect, DoneEffect DEF InstrTypeOK, Bootstrap
<1>4. ASSUME NEW r \in Jobs, AskForRows(r)
      PROVE  InstrTypeOK'
  <2>1. [asked |-> TRUE, seen |-> Existing,
         cleared |-> IF catalogue = "playspace" THEN Existing ELSE NotCleared,
         behind |-> {q \in Jobs : lock[q].seen \cap Existing # {}}] \in Locks
    BY DEF Locks, Existing
  <2>2. lock' \in [Jobs -> Locks]
    BY <1>4, <2>1 DEF AskForRows, InstrTypeOK
  <2>3. QED
    BY <1>4, <2>2 DEF AskForRows, InstrTypeOK, Active, Existing
<1>5. ASSUME NEW r \in Jobs, ClearRows(r)
      PROVE  InstrTypeOK'
  <2>1. lock[r] \in Locks
    BY DEF InstrTypeOK
  <2>2. [lock[r] EXCEPT !.cleared = Existing] \in Locks
    BY <2>1 DEF Locks, Existing
  <2>3. lock' \in [Jobs -> Locks]
    BY <1>5, <2>2 DEF ClearRows, InstrTypeOK
  <2>4. QED
    BY <1>5, <2>3 DEF ClearRows, InstrTypeOK, Active, Existing
<1>6. ASSUME NEW r \in Jobs, ActivateVersion(r)
      PROVE  InstrTypeOK'
  <2>1. PICK i \in Versions :
            /\ Done(r) /\ stamps' = stamps /\ instr' \in [Versions -> InstrumentRows \cup {Absent}]
            /\ catalogue = "playspace" => instr'[i].parent = NoRow
            /\ OthersKept(instr', i, lock[r].cleared)
    BY <1>6, ActivateEffect
  <2>2. \A k \in Active' : k # i => k \in Active /\ instr'[k].parent = instr[k].parent
    BY <2>1 DEF OthersKept, Active, Existing
  <2>3. catalogue' = "playspace" => \A k \in Active' : instr'[k].parent = NoRow
    BY <2>1, <2>2, DoneEffect DEF InstrTypeOK
  <2>4. raced' = raced
    BY <1>6 DEF ActivateVersion
  <2>5. QED
    BY <2>1, <2>3, <2>4, DoneEffect DEF InstrTypeOK
<1>7. ASSUME NEW r \in Jobs, DeactivateVersion(r)
      PROVE  InstrTypeOK'
  <2>1. PICK i \in Versions :
            /\ Done(r) /\ stamps' = stamps /\ instr' \in [Versions -> InstrumentRows \cup {Absent}]
            /\ ~instr'[i].active
            /\ OthersKept(instr', i, {})
    BY <1>7, DeactivateEffect
  <2>2. \A k \in Active' : k \in Active /\ instr'[k].parent = instr[k].parent
    BY <2>1 DEF OthersKept, Active, Existing
  <2>3. raced' = raced
    BY <1>7 DEF DeactivateVersion
  <2>4. QED
    BY <2>1, <2>2, <2>3, DoneEffect DEF InstrTypeOK
<1>8. ASSUME NEW r \in Jobs, EditDraft(r)
      PROVE  InstrTypeOK'
  <2>1. PICK i \in Versions :
            /\ i \in Existing /\ Done(r) /\ stamps' = stamps
            /\ instr' \in [Versions -> InstrumentRows \cup {Absent}]
            /\ instr'[i].active = instr[i].active /\ instr'[i].parent = instr[i].parent
            /\ OthersKept(instr', i, {})
    BY <1>8, EditEffect
  <2>2. \A k \in Active' : k \in Active /\ instr'[k].parent = instr[k].parent
    BY <2>1 DEF OthersKept, Active, Existing
  <2>3. raced' = raced
    BY <1>8 DEF EditDraft
  <2>4. QED
    BY <2>1, <2>2, <2>3, DoneEffect DEF InstrTypeOK
<1>9. ASSUME NEW r \in Jobs, DeleteVersion(r)
      PROVE  InstrTypeOK'
  <2>1. \A k \in Active' : k \in Active /\ instr'[k].parent \in {instr[k].parent, NoRow}
    BY <1>9, DeleteEffect DEF Active, Existing
  <2>2. raced' \subseteq raced
    BY <1>9 DEF DeleteVersion
  <2>3. QED
    BY <1>9, <2>1, <2>2, DeleteEffect, DoneEffect DEF InstrTypeOK
<1>10. ASSUME NEW r \in Jobs, Use(r) \/ GiveUp(r)
       PROVE  InstrTypeOK'
  <2>1. Done(r) /\ instr' = instr /\ raced' = raced
    BY <1>10 DEF Use, GiveUp
  <2>2. stamps' \subseteq Versions
    <3>1. CASE Use(r)
      <4>1. job[r].op = "use" /\ job[r] \in JobRecords
        BY <3>1 DEF Use, InstrTypeOK
      <4>2. job[r].row \in Versions
        BY <4>1, JobShapes
      <4>3. QED
        BY <3>1, <4>2 DEF Use, InstrTypeOK
    <3>2. CASE GiveUp(r)
      BY <3>2 DEF GiveUp, InstrTypeOK
    <3>3. QED
      BY <1>10, <3>1, <3>2
  <2>3. QED
    BY <2>1, <2>2, DoneEffect DEF InstrTypeOK, Active, Existing
<1>11. ASSUME NEW i \in Versions, Disuse(i)
       PROVE  InstrTypeOK'
  BY <1>11 DEF Disuse, InstrTypeOK, Active, Existing
<1>12. CASE UNCHANGED instrVars
  BY <1>12 DEF instrVars, InstrTypeOK, Active, Existing
<1>13. QED
  BY <1>1, <1>2, <1>3, <1>4, <1>5, <1>6, <1>7, <1>8, <1>9, <1>10, <1>11, <1>12, Steps

\* How each step changes the requests: one begins, one ends, or none does.
LEMMA JobsStep ==
  ASSUME InstrTypeOK, [InstrNext]_instrVars
  PROVE  \/ \E r \in Jobs, x \in JobRecords : Begins(r, x)
         \/ \E r \in Jobs : Done(r)
         \/ UNCHANGED <<job, catalogue>>
<1>1. ASSUME NEW r \in Jobs, NEW i \in Versions, CreateVersion(r, i) \/ Bootstrap(r, i)
      PROVE  Done(r)
  BY <1>1 DEF CreateVersion, Bootstrap
<1>2. ASSUME NEW r \in Jobs, \/ ActivateVersion(r) \/ DeactivateVersion(r) \/ EditDraft(r)
                             \/ DeleteVersion(r) \/ Use(r) \/ GiveUp(r)
      PROVE  Done(r)
  BY <1>2 DEF ActivateVersion, DeactivateVersion, EditDraft, DeleteVersion, Use, GiveUp
<1>3. ASSUME NEW r \in Jobs, AskForRows(r) \/ ClearRows(r)
      PROVE  UNCHANGED <<job, catalogue>>
  BY <1>3 DEF AskForRows, ClearRows
<1>4. QED
  BY <1>1, <1>2, <1>3, Steps DEF Disuse, instrVars

\* A publication in progress keeps that it has no parent.
LEMMA PublishesAsRootStep ==
  ASSUME InstrTypeOK, PublishesAsRoot, [InstrNext]_instrVars
  PROVE  PublishesAsRoot'
<1>1. ASSUME NEW r \in Jobs, NEW x \in JobRecords, Begins(r, x)
      PROVE  PublishesAsRoot'
  BY <1>1, TakeEffect DEF Begins, Begun, PublishesAsRoot
<1>2. ASSUME NEW r \in Jobs, Done(r)
      PROVE  PublishesAsRoot'
  BY <1>2, JobsAfter, DoneEffect DEF PublishesAsRoot
<1>3. CASE UNCHANGED <<job, catalogue>>
  BY <1>3 DEF PublishesAsRoot
<1>4. QED
  BY <1>1, <1>2, <1>3, JobsStep

\* At first there are neither versions nor requests.
LEMMA InstrumentsBegin ==
  ASSUME InstrInit
  PROVE  /\ Existing = {} /\ Active = {} /\ stamps = {}
         /\ \A r \in Jobs : job[r].op = "none" /\ lock[r] = NoLock
         /\ InstrTypeOK /\ PublishesAsRoot
<1>1. instr \in [Versions -> InstrumentRows \cup {Absent}] /\ Existing = {} /\ Active = {}
  BY DEF InstrInit, Existing, Active
<1>2. \A r \in Jobs : job[r].op = "none" /\ lock[r] = NoLock
  BY DEF InstrInit, NoJob
<1>3. job \in [Jobs -> JobRecords]
  BY DEF InstrInit, JobRecords
<1>4. lock \in [Jobs -> Locks]
  BY NoLockHeld DEF InstrInit
<1>5. InstrTypeOK
  BY <1>1, <1>3, <1>4 DEF InstrInit, InstrTypeOK
<1>6. PublishesAsRoot
  BY <1>2 DEF PublishesAsRoot
<1>7. QED
  BY <1>1, <1>2, <1>5, <1>6 DEF InstrInit

\* Versions, requests and what activations hold have their types; a published
\* version of Playspace has no parent.
THEOREM InstrumentsTypes == InstrSpec => []InstrTypeOK
<1> DEFINE IInv == InstrTypeOK /\ PublishesAsRoot
<1>1. InstrInit => IInv
  BY InstrumentsBegin
<1>2. IInv /\ [InstrNext]_instrVars => IInv'
  BY InstrTypesStep, PublishesAsRootStep
<1>3. QED
  BY <1>1, <1>2, PTL DEF InstrSpec

-----------------------------------------------------------------------------

\* What the rows of a step were: those that are new were fresh, the others keep
\* the parent or lose it, and only an edit or an activation changes content.
LEMMA RowsStep ==
  ASSUME InstrTypeOK, [InstrNext]_instrVars, NEW i \in Versions, instr'[i] # Absent
  PROVE  \/ /\ instr[i] = Absent /\ Fresh(i) /\ stamps' = stamps
            /\ \A r \in Jobs : job'[r].op \in {"use", "activate", "edit", "deactivate", "delete"} => job'[r].row # i
            /\ instr'[i].active =>
                 \/ instr'[i].content = "legacy"
                 \/ \E r \in Jobs : /\ job[r].op = "create" /\ job[r].active
                                    /\ instr'[i].content = job[r].content
         \/ /\ instr[i] # Absent
            /\ instr'[i].parent \in {instr[i].parent, NoRow}
            /\ \/ instr'[i].content = instr[i].content
               \/ \E r \in Jobs : /\ job[r].op \in {"edit", "activate"} /\ job[r].row = i
                                  /\ instr'[i].content = job[r].content /\ Done(r)
            /\ instr'[i].active => \/ instr[i].active
                                   \/ \E r \in Jobs : job[r].op = "activate" /\ job[r].row = i /\ Done(r)
<1>1. ASSUME NEW r \in Jobs, NEW k \in Versions, CreateVersion(r, k) \/ Bootstrap(r, k), k # i
      PROVE  /\ instr[i] # Absent /\ instr'[i].parent = instr[i].parent
             /\ instr'[i].content = instr[i].content /\ (instr'[i].active => instr[i].active)
  BY <1>1, CreateEffect, BootstrapEffect DEF OthersKept
<1>2. ASSUME NEW r \in Jobs, CreateVersion(r, i) \/ Bootstrap(r, i)
      PROVE  /\ instr[i] = Absent /\ Fresh(i) /\ stamps' = stamps
             /\ \A q \in Jobs : job'[q].op \in {"use", "activate", "edit", "deactivate", "delete"} => job'[q].row # i
             /\ instr'[i].active =>
                  \/ instr'[i].content = "legacy"
                  \/ job[r].op = "create" /\ job[r].active /\ instr'[i].content = job[r].content
  <2>1. Fresh(i) /\ Done(r) /\ stamps' = stamps
    BY <1>2, CreateEffect, BootstrapEffect
  <2>2. instr'[i].active =>
            \/ instr'[i].content = "legacy"
            \/ job[r].op = "create" /\ job[r].active /\ instr'[i].content = job[r].content
    BY <1>2, CreateEffect, BootstrapEffect
  <2>3. QED
    BY <2>1, <2>2, JobsAfter DEF Fresh, Existing
<1>3. ASSUME NEW r \in Jobs, ActivateVersion(r)
      PROVE  /\ instr[i] # Absent
             /\ instr'[i].parent \in {instr[i].parent, NoRow}
             /\ \/ instr'[i].content = instr[i].content
                \/ /\ job[r].op = "activate" /\ job[r].row = i
                   /\ instr'[i].content = job[r].content /\ Done(r)
             /\ instr'[i].active => instr[i].active \/ (job[r].op = "activate" /\ job[r].row = i /\ Done(r))
  <2>1. PICK k \in Versions :
         /\ job[r].op = "activate" /\ job[r].row = k /\ k \in Existing /\ Done(r)
         /\ instr'[k].content \in {job[r].content, instr[k].content}
         /\ instr'[k].parent \in {instr[k].parent, NoRow}
         /\ OthersKept(instr', k, lock[r].cleared)
    BY <1>3, ActivateEffect
  <2>2. QED
    BY <2>1 DEF OthersKept, Existing
<1>4. ASSUME NEW r \in Jobs, DeactivateVersion(r) \/ DeleteVersion(r)
      PROVE  /\ instr[i] # Absent /\ instr'[i].parent \in {instr[i].parent, NoRow}
             /\ instr'[i].content = instr[i].content /\ (instr'[i].active => instr[i].active)
  BY <1>4, DeactivateEffect, DeleteEffect DEF OthersKept, Existing
<1>5. ASSUME NEW r \in Jobs, EditDraft(r)
      PROVE  /\ instr[i] # Absent /\ instr'[i].parent = instr[i].parent /\ (instr'[i].active => instr[i].active)
             /\ \/ instr'[i].content = instr[i].content
                \/ /\ job[r].op = "edit" /\ job[r].row = i
                   /\ instr'[i].content = job[r].content /\ Done(r)
  BY <1>5, EditEffect DEF OthersKept, Existing
<1>6. ASSUME instr' = instr
      PROVE  /\ instr[i] # Absent /\ instr'[i].parent = instr[i].parent
             /\ instr'[i].content = instr[i].content /\ (instr'[i].active => instr[i].active)
  BY <1>6
<1>7. ASSUME NEW r \in Jobs, NEW x \in JobRecords, Begins(r, x)
      PROVE  instr' = instr
  BY <1>7, TakeEffect DEF Begins
<1>8. ASSUME NEW r \in Jobs, AskForRows(r) \/ ClearRows(r) \/ Use(r) \/ GiveUp(r)
      PROVE  instr' = instr
  BY <1>8 DEF AskForRows, ClearRows, Use, GiveUp
<1>9. ASSUME NEW k \in Versions, Disuse(k)
      PROVE  instr' = instr
  BY <1>9 DEF Disuse
<1>10. CASE UNCHANGED instrVars
  BY <1>6, <1>10 DEF instrVars
<1>11. QED
  BY <1>1, <1>2, <1>3, <1>4, <1>5, <1>6, <1>7, <1>8, <1>9, <1>10, Steps

\* A version is stamped by a request that has found it published.
LEMMA StampsStep ==
  ASSUME InstrTypeOK, [InstrNext]_instrVars, NEW i \in stamps'
  PROVE  \/ i \in stamps
         \/ \E r \in Jobs : job[r].op = "use" /\ job[r].row = i /\ instr' = instr
<1>1. ASSUME NEW r \in Jobs, NEW x \in JobRecords, Begins(r, x)
      PROVE  stamps' = stamps
  BY <1>1, TakeEffect DEF Begins
<1>2. ASSUME NEW r \in Jobs, NEW k \in Versions, CreateVersion(r, k) \/ Bootstrap(r, k)
      PROVE  stamps' = stamps
  BY <1>2 DEF CreateVersion, Bootstrap
<1>3. ASSUME NEW r \in Jobs, \/ AskForRows(r) \/ ClearRows(r) \/ ActivateVersion(r) \/ DeactivateVersion(r)
                             \/ EditDraft(r) \/ DeleteVersion(r) \/ GiveUp(r)
      PROVE  stamps' = stamps
  BY <1>3 DEF AskForRows, ClearRows, ActivateVersion, DeactivateVersion, EditDraft, DeleteVersion, GiveUp
<1>4. ASSUME NEW r \in Jobs, Use(r)
      PROVE  i \in stamps \/ (job[r].op = "use" /\ job[r].row = i /\ instr' = instr)
  BY <1>4 DEF Use
<1>5. ASSUME NEW k \in Versions, Disuse(k)
      PROVE  i \in stamps
  BY <1>5 DEF Disuse
<1>6. CASE UNCHANGED instrVars
  BY <1>6 DEF instrVars
<1>7. QED
  BY <1>1, <1>2, <1>3, <1>4, <1>5, <1>6, Steps

\* A request as a step leaves it is one that has just begun or one that was there.
LEMMA JobAfterStep ==
  ASSUME InstrTypeOK, [InstrNext]_instrVars, NEW q \in Jobs
  PROVE  /\ catalogue' = catalogue
         /\ \/ /\ Begins(q, job'[q]) /\ UNCHANGED <<instr, stamps, lock>> /\ job'[q] \in JobRecords
               /\ \A p \in Jobs \ {q} : job'[p] = job[p]
            \/ job'[q] = job[q] /\ \A r \in Jobs : Done(r) /\ job[q] # NoJob => r # q
            \/ job'[q] = NoJob
<1>1. ASSUME NEW r \in Jobs, NEW x \in JobRecords, Begins(r, x)
      PROVE  /\ catalogue' = catalogue
             /\ \/ /\ Begins(q, job'[q]) /\ UNCHANGED <<instr, stamps, lock>> /\ job'[q] \in JobRecords
                   /\ \A p \in Jobs \ {q} : job'[p] = job[p]
                \/ job'[q] = job[q] /\ \A p \in Jobs : Done(p) /\ job[q] # NoJob => p # q
  <2>1. /\ job'[r] = x /\ \A p \in Jobs \ {r} : job'[p] = job[p]
        /\ UNCHANGED <<catalogue, instr, stamps, lock>>
    BY <1>1, TakeEffect DEF Begins
  <2>2. CASE q = r
    <3>1. Begins(q, job'[q])
      BY <1>1, <2>1, <2>2
    <3>2. QED
      BY <2>1, <2>2, <3>1
  <2>3. CASE q # r
    BY <2>1, <2>3, JobsAfter
  <2>4. QED
    BY <2>2, <2>3
<1>2. ASSUME NEW r \in Jobs, Done(r)
      PROVE  /\ catalogue' = catalogue
             /\ \/ job'[q] = job[q] /\ \A p \in Jobs : Done(p) /\ job[q] # NoJob => p # q
                \/ job'[q] = NoJob
  BY <1>2, JobsAfter DEF Done
<1>3. CASE UNCHANGED <<job, catalogue>>
  <2>1. \A p \in Jobs : Done(p) /\ job[q] # NoJob => p # q
    BY <1>3, JobsAfter
  <2>2. QED
    BY <1>3, <2>1
<1>4. QED
  BY <1>1, <1>2, <1>3, JobsStep

\* A version is raced no more when an activation of it begins and finds neither
\* an edit nor another activation of it; or when it is deleted.
LEMMA RacedStep ==
  ASSUME InstrTypeOK, [InstrNext]_instrVars
  PROVE  /\ \A i \in raced' : i \in raced \/ \E q \in Jobs : job[q].op = "edit" \/ job'[q].op = "edit"
         /\ \A i \in Versions : instr'[i] # Absent /\ i \notin raced' =>
              \/ i \notin raced
              \/ /\ instr' = instr /\ ~Underway("edit", i) /\ ~Underway("activate", i)
                 /\ \E q \in Jobs : Begins(q, job'[q]) /\ job'[q].op = "activate" /\ job'[q].row = i
<1>1. ASSUME NEW r \in Jobs, NEW x \in JobRecords, Begins(r, x)
      PROVE  /\ \A i \in raced' : i \in raced \/ \E q \in Jobs : job[q].op = "edit" \/ job'[q].op = "edit"
             /\ \A i \in Versions : i \notin raced' =>
                  \/ i \notin raced
                  \/ /\ instr' = instr /\ ~Underway("edit", i) /\ ~Underway("activate", i)
                     /\ \E q \in Jobs : Begins(q, job'[q]) /\ job'[q].op = "activate" /\ job'[q].row = i
  <2>1. raced' = RacedWith(x) /\ job'[r] = x /\ instr' = instr /\ Begins(r, job'[r])
    BY <1>1, TakeEffect DEF Begins
  <2>2. QED
    BY <2>1 DEF RacedWith, Underway
<1>2. ASSUME raced' = raced
      PROVE  /\ \A i \in raced' : i \in raced
             /\ \A i \in Versions : i \notin raced' => i \notin raced
  BY <1>2
<1>3. ASSUME NEW r \in Jobs, NEW i \in Versions, CreateVersion(r, i) \/ Bootstrap(r, i)
      PROVE  raced' = raced
  BY <1>3 DEF CreateVersion, Bootstrap
<1>4. ASSUME NEW r \in Jobs, \/ AskForRows(r) \/ ClearRows(r) \/ ActivateVersion(r) \/ DeactivateVersion(r)
                             \/ EditDraft(r) \/ Use(r) \/ GiveUp(r)
      PROVE  raced' = raced
  BY <1>4 DEF AskForRows, ClearRows, ActivateVersion, DeactivateVersion, EditDraft, Use, GiveUp
<1>5. ASSUME NEW r \in Jobs, DeleteVersion(r)
      PROVE  /\ \A i \in raced' : i \in raced
             /\ \A i \in Versions : instr'[i] # Absent /\ i \notin raced' => i \notin raced
  <2>1. raced' = raced \ {job[r].row} /\ instr'[job[r].row] = Absent
    BY <1>5, DeleteEffect DEF DeleteVersion
  <2>2. QED
    BY <2>1
<1>6. ASSUME (\E i \in Versions : Disuse(i)) \/ UNCHANGED instrVars
      PROVE  raced' = raced
  BY <1>6 DEF Disuse, instrVars
<1>7. QED
  BY <1>1, <1>2, <1>3, <1>4, <1>5, <1>6, Steps

-----------------------------------------------------------------------------

\* The catalogue stays.
LEMMA FlagsStep ==
  ASSUME InstrTypeOK, [InstrNext]_instrVars
  PROVE  catalogue' = catalogue
BY JobsStep, TakeEffect DEF Begins, Done

\* Only published versions are stamped, and they never get a parent.
LEMMA StampedAreRootsStep ==
  ASSUME InstrTypeOK, StampedAreRoots, [InstrNext]_instrVars
  PROVE  StampedAreRoots'
<1>1. ASSUME catalogue = "playspace", NEW i \in Existing', i \in stamps'
      PROVE  instr'[i].parent = NoRow
  <2>1. i \in Versions /\ instr'[i] # Absent
    BY DEF Existing
  <2>2. CASE i \in stamps
    BY <1>1, <2>1, <2>2, RowsStep DEF StampedAreRoots, Existing, Fresh
  <2>3. CASE i \notin stamps
    <3>1. PICK r \in Jobs : job[r].op = "use" /\ job[r].row = i /\ instr' = instr
      BY <1>1, <2>3, StampsStep
    <3>2. QED
      BY <1>1, <2>1, <3>1 DEF StampedAreRoots, Existing
  <2>4. QED
    BY <2>2, <2>3
<1>2. ASSUME catalogue = "playspace", NEW q \in Jobs, job'[q].op = "use", job'[q].row \in Existing'
      PROVE  instr'[job'[q].row].parent = NoRow
  <2> DEFINE i == job'[q].row
  <2>1. i \in Versions /\ instr'[i] # Absent
    BY <1>2 DEF Existing
  <2>2. CASE Begins(q, job'[q]) /\ instr' = instr
    BY <1>2, <2>1, <2>2 DEF Begins, Begun, InstrTypeOK, Active, Existing
  <2>3. CASE job'[q] = job[q]
    BY <1>2, <2>1, <2>3, RowsStep DEF StampedAreRoots, Existing
  <2>4. CASE job'[q] = NoJob
    BY <1>2, <2>4 DEF NoJob
  <2>5. QED
    BY <2>2, <2>3, <2>4, JobAfterStep
<1>3. QED
  BY <1>1, <1>2, FlagsStep DEF StampedAreRoots

\* An edit looks for use, and a stamped version of Playspace is no draft.
LEMMA SawNoUseStep ==
  ASSUME InstrTypeOK, StampedAreRoots, SawNoUse, [InstrNext]_instrVars
  PROVE  SawNoUse'
<1>1. ASSUME NEW q \in Jobs, job'[q].op \in {"edit", "delete"}
      PROVE  ~job'[q].used
  <2>1. CASE Begins(q, job'[q]) /\ job'[q] \in JobRecords
    BY <1>1, <2>1, JobShapes DEF Begins, Begun, StampedAreRoots
  <2>2. CASE job'[q] = job[q]
    BY <1>1, <2>2 DEF SawNoUse
  <2>3. CASE job'[q] = NoJob
    BY <1>1, <2>3 DEF NoJob
  <2>4. QED
    BY <2>1, <2>2, <2>3, JobAfterStep
<1>2. QED
  BY <1>1 DEF SawNoUse

\* An edit that begins while an activation of its version is in progress, or the
\* other way round, makes the version a raced one.
LEMMA RacesAreSeenStep ==
  ASSUME InstrTypeOK, RacesAreSeen, [InstrNext]_instrVars
  PROVE  RacesAreSeen'
<1>1. SUFFICES ASSUME NEW i \in Versions, instr'[i] # Absent, i \notin raced',
                      NEW q \in Jobs, job'[q].op = "activate", job'[q].row = i
               PROVE  /\ instr'[i].content = job'[q].content
                      /\ \A p \in Jobs : ~(job'[p].op = "edit" /\ job'[p].row = i)
  BY DEF RacesAreSeen, Existing, Underway
<1>2. instr[i] # Absent
  BY <1>1, RowsStep
<1>3. \/ Begins(q, job'[q]) /\ instr' = instr /\ \A p \in Jobs \ {q} : job'[p] = job[p]
      \/ job'[q] = job[q] /\ \A r \in Jobs : Done(r) /\ job[q] # NoJob => r # q
  BY <1>1, JobAfterStep DEF NoJob
<1>4. i \notin raced => \A r \in Jobs : job[r].op = "activate" /\ job[r].row = i =>
                          instr[i].content = job[r].content /\ ~Underway("edit", i)
  BY <1>2 DEF RacesAreSeen, Existing
<1>5. CASE Begins(q, job'[q]) /\ instr' = instr /\ \A p \in Jobs \ {q} : job'[p] = job[p]
  <2>1. instr'[i].content = job'[q].content
    BY <1>1, <1>5 DEF Begins, Begun
  <2>2. ~Underway("edit", i)
    BY <1>1, <1>5 DEF Begins, RacedWith
  <2>3. QED
    BY <1>1, <1>5, <2>1, <2>2 DEF Underway
<1>6. CASE job'[q] = job[q]
  <2>1. Underway("activate", i)
    BY <1>1, <1>6 DEF Underway
  <2>2. i \notin raced
    BY <1>1, <2>1, RacedStep
  <2>3. instr[i].content = job[q].content /\ ~Underway("edit", i)
    BY <1>1, <1>4, <1>6, <2>2
  <2>4. instr'[i].content = instr[i].content
    <3>1. ASSUME NEW r \in Jobs, job[r].op \in {"edit", "activate"}, job[r].row = i
          PROVE  job[r].content = instr[i].content
      BY <1>4, <2>2, <2>3, <3>1 DEF Underway
    <3>2. QED
      BY <1>1, <1>2, <3>1, RowsStep
  <2>5. ASSUME NEW p \in Jobs, job'[p].op = "edit", job'[p].row = i
        PROVE  FALSE
    <3>1. CASE Begins(p, job'[p])
      BY <1>1, <2>1, <2>5, <3>1 DEF Begins, RacedWith
    <3>2. CASE job'[p] = job[p]
      BY <2>3, <2>5, <3>2 DEF Underway
    <3>3. QED
      BY <2>5, <3>1, <3>2, JobAfterStep DEF NoJob
  <2>6. QED
    BY <1>6, <2>3, <2>4, <2>5
<1>7. QED
  BY <1>3, <1>5, <1>6

\* Validated content stays validated while no edit races an activation.
LEMMA SoundContentStep ==
  ASSUME InstrTypeOK, RacesAreSeen, SoundContent, [InstrNext]_instrVars
  PROVE  SoundContent'
<1>1. ASSUME NEW q \in Jobs, job'[q].op \in {"edit", "bootstrap"}
      PROVE  catalogue' = "yee"
  BY <1>1, JobAfterStep DEF Begins, Begun, SoundContent, NoJob
<1>2. catalogue' = catalogue
  BY FlagsStep
<1>3. catalogue' # "yee" => raced' = {}
  <2>1. ASSUME catalogue # "yee", NEW i \in raced'
        PROVE  FALSE
    <3>1. i \in raced \/ \E q \in Jobs : job[q].op = "edit" \/ job'[q].op = "edit"
      BY <2>1, RacedStep
    <3>2. QED
      BY <1>1, <1>2, <2>1, <3>1 DEF SoundContent
  <2>2. QED
    BY <1>2, <2>1
<1>4. ASSUME catalogue \in {"playspace", "yee"}, NEW q \in Jobs,
             job'[q].op = "activate" \/ (job'[q].op = "create" /\ job'[q].active)
      PROVE  job'[q].content # "unsound"
  <2>1. CASE Begins(q, job'[q])
    BY <1>4, <2>1 DEF Begins, Begun
  <2>2. CASE job'[q] = job[q]
    BY <1>4, <2>2 DEF SoundContent
  <2>3. CASE job'[q] = NoJob
    BY <1>4, <2>3 DEF NoJob
  <2>4. QED
    BY <2>1, <2>2, <2>3, JobAfterStep
<1>5. ASSUME catalogue \in {"playspace", "yee"}, NEW i \in Versions, i \notin raced',
             instr'[i] # Absent, instr'[i].active
      PROVE  /\ instr'[i].content # "unsound"
             /\ \A p \in Jobs : ~(job'[p].op = "edit" /\ job'[p].row = i)
  <2>1. \A r \in Jobs : job[r].op = "activate" => job[r].content # "unsound"
    BY <1>5 DEF SoundContent
  <2>2. CASE instr[i] = Absent
    <3>1. /\ \/ instr'[i].content = "legacy"
             \/ \E r \in Jobs : /\ job[r].op = "create" /\ job[r].active
                                /\ instr'[i].content = job[r].content
          /\ \A p \in Jobs : job'[p].op = "edit" => job'[p].row # i
      BY <1>5, <2>2, RowsStep
    <3>2. QED
      BY <1>5, <3>1 DEF SoundContent
  <2>3. CASE instr[i] # Absent /\ i \notin raced
    <3>1. /\ \/ instr'[i].content = instr[i].content
             \/ \E r \in Jobs : /\ job[r].op \in {"edit", "activate"} /\ job[r].row = i
                                /\ instr'[i].content = job[r].content /\ Done(r)
          /\ \/ instr[i].active
             \/ \E r \in Jobs : job[r].op = "activate" /\ job[r].row = i /\ Done(r)
      BY <1>5, <2>3, RowsStep
    <3>2. instr[i].content # "unsound" /\ ~Underway("edit", i)
      <4>1. CASE instr[i].active
        BY <1>5, <2>3, <4>1 DEF SoundContent, Active, Existing
      <4>2. ASSUME NEW r \in Jobs, job[r].op = "activate", job[r].row = i
            PROVE  instr[i].content # "unsound" /\ ~Underway("edit", i)
        BY <2>1, <2>3, <4>2 DEF RacesAreSeen, Existing
      <4>3. QED
        BY <3>1, <4>1, <4>2
    <3>3. instr'[i].content # "unsound"
      BY <2>1, <3>1, <3>2 DEF Underway
    <3>4. ASSUME NEW p \in Jobs, job'[p].op = "edit", job'[p].row = i
          PROVE  FALSE
      <4>1. CASE Begins(p, job'[p]) /\ instr' = instr
        BY <1>5, <2>3, <3>4, <4>1 DEF Begins, Begun, Existing
      <4>2. CASE job'[p] = job[p]
        BY <3>2, <3>4, <4>2 DEF Underway
      <4>3. QED
        BY <3>4, <4>1, <4>2, JobAfterStep DEF NoJob
    <3>5. QED
      BY <3>3, <3>4
  <2>4. CASE i \in raced
    <3>1. /\ instr' = instr /\ ~Underway("edit", i) /\ ~Underway("activate", i)
          /\ \E q \in Jobs : Begins(q, job'[q]) /\ job'[q].op = "activate" /\ job'[q].row = i
      BY <1>5, <2>4, RacedStep
    <3>2. PICK q \in Jobs : Begins(q, job'[q]) /\ job'[q].op = "activate" /\ job'[q].row = i
      BY <3>1
    <3>3. instr'[i].content # "unsound"
      BY <1>5, <3>1, <3>2 DEF Begins, Begun
    <3>4. \A p \in Jobs \ {q} : job'[p] = job[p]
      BY <3>2 DEF Begins, Take, InstrTypeOK
    <3>5. QED
      BY <3>1, <3>2, <3>3, <3>4 DEF Underway
  <2>5. QED
    BY <2>2, <2>3, <2>4
<1>6. \A i \in (Active \ raced)' : catalogue \in {"playspace", "yee"} =>
         instr'[i].content # "unsound" /\ ~Underway("edit", i)'
  BY <1>5 DEF Active, Existing, Underway
<1>7. QED
  BY <1>1, <1>2, <1>3, <1>4, <1>6 DEF SoundContent

-----------------------------------------------------------------------------

RequestsInv == StampedAreRoots /\ SawNoUse /\ RacesAreSeen /\ SoundContent

\* The first part of the argument, for every reachable state.
LEMMA RequestsHold == InstrSpec => []RequestsInv
<1>1. InstrInit => RequestsInv
  <2> SUFFICES ASSUME InstrInit
      PROVE  RequestsInv
    OBVIOUS
  <2>1. StampedAreRoots /\ SawNoUse /\ RacesAreSeen
    BY InstrumentsBegin DEF StampedAreRoots, SawNoUse, RacesAreSeen
  <2>2. SoundContent
    BY InstrumentsBegin DEF SoundContent, InstrInit
  <2>3. QED
    BY <2>1, <2>2 DEF RequestsInv
<1>2. InstrTypeOK /\ RequestsInv /\ [InstrNext]_instrVars => RequestsInv'
  BY StampedAreRootsStep, SawNoUseStep, RacesAreSeenStep, SoundContentStep DEF RequestsInv
<1>3. QED
  BY <1>1, <1>2, InstrumentsTypes, PTL DEF InstrSpec

\* Auditors are shown validated content: in Playspace always
\* (update_instrument_status), in YEE unless an edit of that very version and an
\* activation of it, which validates before it locks the catalogue
\* (_update_yee_instrument_status), were in progress together since the last
\* activation that found neither.
THEOREM OnlyValidatedIsActive == InstrSpec => []ActiveWasValidated
<1>1. RequestsInv => ActiveWasValidated
  BY DEF RequestsInv, SoundContent, ActiveWasValidated
<1>2. QED
  BY <1>1, RequestsHold, PTL

\* A version goes by the request that deletes it.
LEMMA RowGone ==
  ASSUME InstrTypeOK, [InstrNext]_instrVars, NEW i \in Existing, instr'[i] = Absent
  PROVE  \E r \in Jobs : job[r].op = "delete" /\ job[r].row = i
<1> USE DEF Existing
<1>1. ASSUME NEW r \in Jobs, NEW x \in JobRecords, Begins(r, x)
      PROVE  FALSE
  BY <1>1, TakeEffect DEF Begins
<1>2. ASSUME NEW r \in Jobs, NEW k \in Versions, CreateVersion(r, k) \/ Bootstrap(r, k)
      PROVE  FALSE
  BY <1>2, CreateEffect, BootstrapEffect DEF OthersKept
<1>3. ASSUME NEW r \in Jobs, ActivateVersion(r) \/ DeactivateVersion(r) \/ EditDraft(r)
      PROVE  FALSE
  BY <1>3, ActivateEffect, DeactivateEffect, EditEffect DEF OthersKept
<1>4. ASSUME NEW r \in Jobs, AskForRows(r) \/ ClearRows(r) \/ Use(r) \/ GiveUp(r)
      PROVE  FALSE
  BY <1>4 DEF AskForRows, ClearRows, Use, GiveUp
<1>5. ASSUME NEW r \in Jobs, DeleteVersion(r)
      PROVE  job[r].op = "delete" /\ job[r].row = i
  BY <1>5, DeleteEffect
<1>6. ASSUME NEW k \in Versions, Disuse(k)
      PROVE  FALSE
  BY <1>6 DEF Disuse
<1>7. CASE UNCHANGED instrVars
  BY <1>7 DEF instrVars
<1>8. QED
  BY <1>1, <1>2, <1>3, <1>4, <1>5, <1>6, <1>7, Steps

\* A version that audits bear goes or changes only by a request that looked before
\* they bore it (update_instrument_draft, delete_instrument_version), or by an
\* activation of it that such an edit has raced.
THEOREM VersionsInUseStay == InstrSpec => UsedVersionsStay
<1>1. ASSUME InstrTypeOK, RequestsInv, [InstrNext]_instrVars,
             NEW i \in Existing \cap stamps, instr'[i] = Absent \/ instr'[i].content # instr[i].content
      PROVE  \E r \in Jobs : /\ job[r].op \in {"edit", "delete", "activate"}
                             /\ job[r].row = i
                             /\ IF job[r].op = "activate" THEN i \in raced ELSE ~job[r].used
  <2>1. CASE instr'[i] = Absent
    <3>1. PICK r \in Jobs : job[r].op = "delete" /\ job[r].row = i
      BY <1>1, <2>1, RowGone
    <3>2. ~job[r].used
      BY <1>1, <3>1 DEF RequestsInv, SawNoUse
    <3>3. QED
      BY <3>1, <3>2
  <2>2. CASE instr'[i] # Absent
    <3>1. i \in Versions /\ instr[i] # Absent
      BY DEF Existing
    <3>2. PICK r \in Jobs : /\ job[r].op \in {"edit", "activate"} /\ job[r].row = i
                            /\ instr'[i].content = job[r].content
      BY <1>1, <2>2, <3>1, RowsStep
    <3>3. CASE job[r].op = "edit"
      BY <1>1, <3>2, <3>3 DEF RequestsInv, SawNoUse
    <3>4. CASE job[r].op = "activate"
      BY <1>1, <2>2, <3>2, <3>4 DEF RequestsInv, RacesAreSeen
    <3>5. QED
      BY <3>2, <3>3, <3>4
  <2>3. QED
    BY <2>1, <2>2
<1>2. InstrTypeOK /\ RequestsInv /\ [InstrNext]_instrVars =>
        [\A i \in Existing \cap stamps :
            instr'[i] = Absent \/ instr'[i].content # instr[i].content =>
                \E r \in Jobs : /\ job[r].op \in {"edit", "delete", "activate"}
                                /\ job[r].row = i
                                /\ IF job[r].op = "activate" THEN i \in raced ELSE ~job[r].used]_instrVars
  BY <1>1
<1>3. QED
  BY <1>2, InstrumentsTypes, RequestsHold, PTL DEF InstrSpec, UsedVersionsStay

-----------------------------------------------------------------------------

\* What a step does to the locks: one asks, one clears, one ends, or none changes.
LEMMA LocksStep ==
  ASSUME InstrTypeOK, [InstrNext]_instrVars
  PROVE  \/ \E r \in Jobs : AskForRows(r) \/ ClearRows(r) \/ Done(r)
         \/ \E r \in Jobs, x \in JobRecords : Begins(r, x)
         \/ UNCHANGED <<job, lock, catalogue, instr>>
<1>1. ASSUME NEW r \in Jobs, NEW i \in Versions, CreateVersion(r, i) \/ Bootstrap(r, i)
      PROVE  Done(r)
  BY <1>1 DEF CreateVersion, Bootstrap
<1>2. ASSUME NEW r \in Jobs, \/ ActivateVersion(r) \/ DeactivateVersion(r) \/ EditDraft(r)
                             \/ DeleteVersion(r) \/ Use(r) \/ GiveUp(r)
      PROVE  Done(r)
  BY <1>2 DEF ActivateVersion, DeactivateVersion, EditDraft, DeleteVersion, Use, GiveUp
<1>3. QED
  BY <1>1, <1>2, Steps DEF Disuse, instrVars

\* The lock of an activation that asks, and of one that clears.
LEMMA AskEffect ==
  ASSUME InstrTypeOK, NEW r \in Jobs, AskForRows(r)
  PROVE  /\ job[r].op \in {"activate", "create"} /\ (job[r].op = "create" => job[r].active)
         /\ ~lock[r].asked
         /\ lock'[r].asked /\ lock'[r].seen = Existing
         /\ lock'[r].cleared = IF catalogue = "playspace" THEN Existing ELSE NotCleared
         /\ lock'[r].behind = {q \in Jobs : lock[q].seen \cap Existing # {}}
         /\ \A q \in Jobs \ {r} : lock'[q] = lock[q]
         /\ UNCHANGED <<catalogue, instr, job>>
<1> DEFINE x == [asked |-> TRUE, seen |-> Existing,
                 cleared |-> IF catalogue = "playspace" THEN Existing ELSE NotCleared,
                 behind |-> {q \in Jobs : lock[q].seen \cap Existing # {}}]
<1>1. /\ job[r].op \in {"activate", "create"} /\ (job[r].op = "create" => job[r].active)
      /\ ~lock[r].asked /\ lock' = [lock EXCEPT ![r] = x] /\ UNCHANGED <<catalogue, instr, job>>
  BY DEF AskForRows
<1>2. /\ x.asked /\ x.seen = Existing
      /\ x.cleared = IF catalogue = "playspace" THEN Existing ELSE NotCleared
      /\ x.behind = {q \in Jobs : lock[q].seen \cap Existing # {}}
  OBVIOUS
<1> HIDE DEF x
<1>3. lock'[r] = x /\ \A q \in Jobs \ {r} : lock'[q] = lock[q]
  BY <1>1 DEF InstrTypeOK
<1>4. QED
  BY <1>1, <1>2, <1>3

\* The rows that an activation clears are those there are by then.
LEMMA ClearEffect ==
  ASSUME InstrTypeOK, NEW r \in Jobs, ClearRows(r)
  PROVE  /\ Granted(r) /\ lock[r].cleared = NotCleared
         /\ lock'[r].asked /\ lock'[r].seen = lock[r].seen
         /\ lock'[r].cleared = Existing /\ lock'[r].behind = {}
         /\ \A q \in Jobs \ {r} : lock'[q] = lock[q]
         /\ UNCHANGED <<catalogue, instr, job>>
<1>1. /\ Granted(r) /\ lock[r].cleared = NotCleared
      /\ lock' = [lock EXCEPT ![r] = [lock[r] EXCEPT !.cleared = Existing]]
      /\ UNCHANGED <<catalogue, instr, job>>
  BY DEF ClearRows
<1>2. lock[r] \in Locks /\ lock \in [Jobs -> Locks]
  BY DEF InstrTypeOK
<1> DEFINE x == [lock[r] EXCEPT !.cleared = Existing]
<1>3. x.asked = lock[r].asked /\ x.seen = lock[r].seen /\ x.cleared = Existing /\ x.behind = lock[r].behind
  BY <1>2 DEF Locks
<1>4. lock' = [lock EXCEPT ![r] = x]
  BY <1>1
<1> HIDE DEF x
<1>5. lock'[r] = x /\ \A q \in Jobs \ {r} : lock'[q] = lock[q]
  BY <1>2, <1>4
<1>6. QED
  BY <1>1, <1>3, <1>5 DEF Granted

\* The queues keep their order.
LEMMA QueuesStep ==
  ASSUME InstrTypeOK, Queues, [InstrNext]_instrVars
  PROVE  Queues'
<1>1. ASSUME NEW r \in Jobs, AskForRows(r)
      PROVE  Queues'
  <2>1. \A q \in Jobs : q \in lock'[r].behind => lock[q].asked /\ q # r
    BY <1>1, AskEffect DEF Queues
  <2>2. \A p, q \in Jobs : p \in lock'[q].behind => lock'[p].asked
    BY <1>1, <2>1, AskEffect DEF Queues
  <2>3. \A p, q \in Jobs : p # q /\ lock'[p].seen \cap lock'[q].seen # {} =>
            p \in lock'[q].behind \/ q \in lock'[p].behind
    BY <1>1, AskEffect DEF Queues
  <2>4. QED
    BY <1>1, <2>2, <2>3, AskEffect DEF Queues
<1>2. ASSUME NEW r \in Jobs, ClearRows(r)
      PROVE  Queues'
  <2>1. catalogue # "playspace"
    <3>1. lock[r].seen \subseteq Versions /\ lock[r].asked
      BY <1>2, ClearEffect DEF InstrTypeOK, Locks, Granted
    <3>2. lock[r].seen # lock[r].cleared
      BY <1>2, <3>1, ClearEffect, InstrumentsAssumption DEF NotCleared
    <3>3. QED
      BY <3>1, <3>2 DEF Queues
  <2>2. lock[r].behind = {} /\ lock[r].asked
    BY <1>2, ClearEffect DEF Granted
  <2>3. QED
    BY <1>2, <2>1, <2>2, ClearEffect DEF Queues
<1>3. ASSUME NEW r \in Jobs, Done(r)
      PROVE  Queues'
  <2>1. lock'[r].seen = {} /\ ~lock'[r].asked /\ lock'[r].behind = {}
    BY <1>3, DoneEffect DEF NoLock
  <2>2. \A q \in Jobs \ {r} : /\ lock'[q].asked = lock[q].asked
                              /\ lock'[q].seen = lock[q].seen
                              /\ lock'[q].cleared = lock[q].cleared
                              /\ lock'[q].behind = lock[q].behind \ {r}
                              /\ job'[q] = job[q]
    BY <1>3, DoneEffect, JobsAfter
  <2>3. catalogue' = catalogue
    BY <1>3, DoneEffect
  <2>4. QED
    BY <2>1, <2>2, <2>3 DEF Queues
<1>4. ASSUME NEW r \in Jobs, NEW x \in JobRecords, Begins(r, x)
      PROVE  Queues'
  <2>1. /\ job[r] = NoJob /\ UNCHANGED <<catalogue, lock>>
        /\ \A q \in Jobs \ {r} : job'[q] = job[q]
    BY <1>4, TakeEffect DEF Begins
  <2>2. ~lock[r].asked
    BY <2>1 DEF Queues, NoJob
  <2>3. QED
    BY <2>1, <2>2 DEF Queues
<1>5. CASE UNCHANGED <<job, lock, catalogue, instr>>
  BY <1>5 DEF Queues
<1>6. QED
  BY <1>1, <1>2, <1>3, <1>4, <1>5, LocksStep

\* Who activates a version after a step did before it, or has just asked.
LEMMA ActivatingStep ==
  ASSUME InstrTypeOK, Queues, [InstrNext]_instrVars, NEW r \in Jobs, NEW i \in Versions, Activating(r, i)'
  PROVE  /\ job'[r] = job[r] /\ i \in Existing
         /\ Activating(r, i) \/ AskForRows(r)
         /\ ~Done(r)
<1>1. job'[r].op = "activate" /\ job'[r].row = i /\ instr'[i] # Absent /\ lock'[r].asked
  BY DEF Activating, Existing
<1>2. i \in Existing
  BY <1>1, RowsStep DEF Existing
<1>3. ~Done(r)
  BY <1>1, DoneEffect DEF NoLock
<1>4. ASSUME NEW q \in Jobs, AskForRows(q)
      PROVE  job'[r] = job[r] /\ (Activating(r, i) \/ AskForRows(r))
  BY <1>1, <1>2, <1>4, AskEffect DEF Activating
<1>5. ASSUME NEW q \in Jobs, ClearRows(q)
      PROVE  job'[r] = job[r] /\ Activating(r, i)
  BY <1>1, <1>2, <1>5, ClearEffect DEF Activating, Granted
<1>6. ASSUME NEW q \in Jobs, Done(q)
      PROVE  job'[r] = job[r] /\ Activating(r, i)
  BY <1>1, <1>2, <1>3, <1>6, DoneEffect, JobsAfter DEF Activating
<1>7. ASSUME NEW q \in Jobs, NEW x \in JobRecords, Begins(q, x)
      PROVE  job'[r] = job[r] /\ Activating(r, i)
  <2>1. /\ job[q] = NoJob /\ lock' = lock /\ \A p \in Jobs \ {q} : job'[p] = job[p]
    BY <1>7, TakeEffect DEF Begins
  <2>2. ~lock[q].asked
    BY <2>1 DEF Queues, NoJob
  <2>3. QED
    BY <1>1, <1>2, <2>1, <2>2 DEF Activating
<1>8. CASE UNCHANGED <<job, lock, catalogue, instr>>
  BY <1>1, <1>2, <1>3, <1>8 DEF Activating
<1>9. QED
  BY <1>2, <1>3, <1>4, <1>5, <1>6, <1>7, <1>8, LocksStep

\* What a lock has seen stays, and nobody comes in front of it.
LEMMA LockKept ==
  ASSUME InstrTypeOK, [InstrNext]_instrVars, NEW q \in Jobs, ~AskForRows(q), lock'[q].asked
  PROVE  lock'[q].seen = lock[q].seen /\ lock'[q].behind \subseteq lock[q].behind
<1>1. ASSUME NEW r \in Jobs, AskForRows(r)
      PROVE  lock'[q] = lock[q]
  BY <1>1, AskEffect
<1>2. ASSUME NEW r \in Jobs, ClearRows(r)
      PROVE  lock'[q].seen = lock[q].seen /\ lock'[q].behind \subseteq lock[q].behind
  BY <1>2, ClearEffect
<1>3. ASSUME NEW r \in Jobs, Done(r)
      PROVE  lock'[q].seen = lock[q].seen /\ lock'[q].behind \subseteq lock[q].behind
  BY <1>3, DoneEffect DEF NoLock
<1>4. ASSUME NEW r \in Jobs, NEW x \in JobRecords, Begins(r, x)
      PROVE  lock' = lock
  BY <1>4, TakeEffect DEF Begins
<1>5. QED
  BY <1>1, <1>2, <1>3, <1>4, LocksStep

\* A version in activation stays there, so that later locks see it.
LEMMA SeesEarlierStep ==
  ASSUME InstrTypeOK, Queues, SeesEarlier, [InstrNext]_instrVars
  PROVE  SeesEarlier'
<1>1. ASSUME NEW q \in Jobs, AskForRows(q), NEW i \in Existing
      PROVE  i \in lock'[q].seen
  BY <1>1, AskEffect
<1>2. ASSUME NEW r \in Jobs, NEW i \in Versions, Activating(r, i)'
      PROVE  i \in lock'[r].seen
  <2>1. lock'[r].asked
    BY <1>2 DEF Activating
  <2>2. QED
    BY <1>1, <1>2, <2>1, ActivatingStep, LockKept DEF SeesEarlier
<1>3. ASSUME NEW p \in Jobs, NEW q \in Jobs, NEW i \in Versions, Activating(p, i)', p \in lock'[q].behind
      PROVE  i \in lock'[q].seen
  <2>1. CASE AskForRows(q)
    BY <1>1, <1>3, <2>1, ActivatingStep
  <2>2. CASE ~AskForRows(q)
    <3>1. lock'[q].asked
      BY <1>3, QueuesStep DEF Queues
    <3>2. p \in lock[q].behind /\ lock'[q].seen = lock[q].seen
      BY <1>3, <2>2, <3>1, LockKept
    <3>3. lock[p].asked
      BY <3>2 DEF Queues
    <3>4. ~AskForRows(p)
      BY <3>3, AskEffect
    <3>5. QED
      BY <1>3, <3>2, <3>4, ActivatingStep DEF SeesEarlier
  <2>3. QED
    BY <2>1, <2>2
<1>4. ASSUME NEW p \in Jobs, NEW q \in Jobs, NEW i \in Versions, NEW k \in Versions,
             Activating(p, i)', Activating(q, k)'
      PROVE  i \in lock'[q].seen \/ k \in lock'[p].seen
  <2>1. lock'[p].asked /\ lock'[q].asked
    BY <1>4 DEF Activating
  <2>2. CASE AskForRows(q)
    BY <1>1, <1>4, <2>2, ActivatingStep
  <2>3. CASE AskForRows(p)
    BY <1>1, <1>4, <2>3, ActivatingStep
  <2>4. CASE ~AskForRows(p) /\ ~AskForRows(q)
    BY <1>4, <2>1, <2>4, ActivatingStep, LockKept DEF SeesEarlier
  <2>5. QED
    BY <2>2, <2>3, <2>4
<1>5. QED
  BY <1>2, <1>3, <1>4 DEF SeesEarlier

\* How a version comes to be active where there is no index: inserted so, active
\* before, or by an activation that holds its rows.
LEMMA ActiveStep ==
  ASSUME InstrTypeOK, SoundContent, [InstrNext]_instrVars, catalogue # "yee", NEW i \in Active'
  PROVE  \/ instr'[i].bornActive
         \/ i \in Active /\ instr'[i].bornActive = instr[i].bornActive
         \/ \E r \in Jobs : /\ Activating(r, i) /\ Cleared(r)
                            /\ OthersKept(instr', i, lock[r].cleared)
<1>1. i \in Versions /\ instr'[i] # Absent /\ instr'[i].active
  BY DEF Active, Existing
<1>2. ASSUME NEW r \in Jobs, NEW k \in Versions, CreateVersion(r, k)
      PROVE  instr'[i].bornActive \/ (i \in Active /\ instr'[i].bornActive = instr[i].bornActive)
  <2>1. CASE i = k
    BY <1>1, <1>2, <2>1, CreateEffect
  <2>2. CASE i # k
    BY <1>1, <1>2, <2>2, CreateEffect DEF OthersKept, Active, Existing
  <2>3. QED
    BY <2>1, <2>2
<1>3. ASSUME NEW r \in Jobs, NEW k \in Versions, Bootstrap(r, k)
      PROVE  FALSE
  BY <1>3, BootstrapEffect DEF SoundContent
<1>4. ASSUME NEW r \in Jobs, ActivateVersion(r)
      PROVE  \/ i \in Active /\ instr'[i].bornActive = instr[i].bornActive
             \/ Activating(r, i) /\ Cleared(r) /\ OthersKept(instr', i, lock[r].cleared)
  <2>1. PICK k \in Versions :
         /\ job[r].op = "activate" /\ job[r].row = k /\ k \in Existing
         /\ Cleared(r) /\ OthersKept(instr', k, lock[r].cleared)
    BY <1>4, ActivateEffect
  <2>2. CASE i = k
    BY <2>1, <2>2 DEF Activating, Cleared, Granted
  <2>3. CASE i # k
    BY <1>1, <2>1, <2>3 DEF OthersKept, Active, Existing
  <2>4. QED
    BY <2>2, <2>3
<1>5. ASSUME NEW r \in Jobs, DeactivateVersion(r) \/ EditDraft(r) \/ DeleteVersion(r)
      PROVE  i \in Active /\ instr'[i].bornActive = instr[i].bornActive
  BY <1>1, <1>5, DeactivateEffect, EditEffect, DeleteEffect DEF OthersKept, Active, Existing
<1>6. ASSUME instr' = instr
      PROVE  i \in Active /\ instr'[i].bornActive = instr[i].bornActive
  BY <1>6 DEF Active, Existing
<1>7. ASSUME NEW r \in Jobs, NEW x \in JobRecords, Begins(r, x)
      PROVE  instr' = instr
  BY <1>7, TakeEffect DEF Begins
<1>8. ASSUME NEW r \in Jobs, AskForRows(r) \/ ClearRows(r) \/ Use(r) \/ GiveUp(r)
      PROVE  instr' = instr
  BY <1>8 DEF AskForRows, ClearRows, Use, GiveUp
<1>9. ASSUME NEW k \in Versions, Disuse(k)
      PROVE  instr' = instr
  BY <1>9 DEF Disuse
<1>10. CASE UNCHANGED instrVars
  BY <1>6, <1>10 DEF instrVars
<1>11. QED
  BY <1>2, <1>3, <1>4, <1>5, <1>6, <1>7, <1>8, <1>9, <1>10, Steps

\* What a lock has cleared stays cleared until it ends.
LEMMA ClearedKept ==
  ASSUME InstrTypeOK, [InstrNext]_instrVars, NEW r \in Jobs, lock'[r].asked
  PROVE  \/ lock'[r].cleared = lock[r].cleared /\ lock'[r].asked = lock[r].asked
         \/ lock'[r].cleared = NotCleared
         \/ lock'[r].cleared = Existing /\ instr' = instr
<1>1. ASSUME NEW q \in Jobs, AskForRows(q) \/ ClearRows(q)
      PROVE  \/ lock'[r].cleared = lock[r].cleared /\ lock'[r].asked = lock[r].asked
             \/ lock'[r].cleared = NotCleared
             \/ lock'[r].cleared = Existing /\ instr' = instr
  BY <1>1, AskEffect, ClearEffect
<1>2. ASSUME NEW q \in Jobs, Done(q)
      PROVE  lock'[r].cleared = lock[r].cleared /\ lock'[r].asked = lock[r].asked
  <2>1. q # r
    BY <1>2, DoneEffect DEF NoLock
  <2>2. QED
    BY <1>2, <2>1, DoneEffect
<1>3. ASSUME NEW q \in Jobs, NEW x \in JobRecords, Begins(q, x)
      PROVE  lock' = lock
  BY <1>3, TakeEffect DEF Begins
<1>4. QED
  BY <1>1, <1>2, <1>3, LocksStep

\* Of two activations that hold their rows, the second has deactivated the first's.
LEMMA SecondClearsFirst ==
  ASSUME InstrTypeOK, Queues, SeesEarlier, catalogue # "yee",
         NEW p \in Jobs, NEW k \in Versions, Activating(p, k), Cleared(p),
         NEW r \in Jobs, NEW i \in Versions, Activating(r, i), lock[r].cleared # NotCleared, p # r
  PROVE  k \in lock[r].cleared
<1>1. lock[p].behind = {} /\ lock[r].asked
  BY DEF Cleared, Granted, Activating
<1>2. lock[p].seen \cap lock[r].seen # {}
  <2>1. k \in lock[p].seen /\ i \in lock[r].seen /\ (k \in lock[r].seen \/ i \in lock[p].seen)
    BY DEF SeesEarlier
  <2>2. QED
    BY <2>1
<1>3. p \in lock[r].behind
  BY <1>1, <1>2 DEF Queues
<1>4. k \in lock[r].seen
  BY <1>3 DEF SeesEarlier
<1>5. lock[r].cleared = lock[r].seen
  BY <1>1, <1>3 DEF Queues
<1>6. QED
  BY <1>4, <1>5

\* Between clearing and committing, only insertions make versions active.
LEMMA ClearedButBornStep ==
  ASSUME InstrTypeOK, SoundContent, Queues, SeesEarlier, ClearedButBorn, [InstrNext]_instrVars
  PROVE  ClearedButBorn'
<1> SUFFICES ASSUME catalogue # "yee", NEW r \in Jobs, NEW i \in Versions, Activating(r, i)',
                    lock'[r].cleared # NotCleared
             PROVE  /\ i \in lock'[r].cleared
                    /\ \A k \in Active' \ lock'[r].cleared : instr'[k].bornActive
  BY FlagsStep DEF ClearedButBorn
<1>1. job'[r] = job[r] /\ i \in Existing /\ (Activating(r, i) \/ AskForRows(r)) /\ ~Done(r)
  BY ActivatingStep
<1>2. lock'[r].asked
  BY DEF Activating
<1>3. CASE lock'[r].cleared = Existing /\ instr' = instr
  BY <1>1, <1>3 DEF Active, Existing
<1>4. CASE lock'[r].cleared = lock[r].cleared /\ lock'[r].asked = lock[r].asked
  <2>1. Activating(r, i) /\ lock[r].cleared # NotCleared
    BY <1>1, <1>2, <1>4, AskEffect
  <2>2. i \in lock[r].cleared /\ \A k \in Active \ lock[r].cleared : instr[k].bornActive
    BY <2>1 DEF ClearedButBorn
  <2>3. ASSUME NEW k \in Active', k \notin lock[r].cleared, ~instr'[k].bornActive
        PROVE  FALSE
    <3>1. k \notin Active \/ instr'[k].bornActive # instr[k].bornActive
      BY <2>2, <2>3
    <3>2. PICK p \in Jobs : Activating(p, k) /\ Cleared(p)
      BY <2>3, <3>1, ActiveStep
    <3>3. k \in Versions
      BY DEF Active, Existing
    <3>4. p = r
      BY <2>1, <2>3, <3>2, <3>3, SecondClearsFirst
    <3>5. k = i
      BY <2>1, <3>2, <3>4 DEF Activating
    <3>6. QED
      BY <2>2, <2>3, <3>5
  <2>4. QED
    BY <1>4, <2>2, <2>3
<1>5. QED
  BY <1>2, <1>3, <1>4, ClearedKept

\* YEE by its index; elsewhere by what the activation has cleared.
LEMMA OneActiveVersionStep ==
  ASSUME InstrTypeOK, SoundContent, ClearedButBorn, OneActiveVersion, [InstrNext]_instrVars
  PROVE  OneActiveVersion'
<1> SUFFICES ASSUME NEW i \in Active', NEW k \in Active', i # k
             PROVE  catalogue # "yee" /\ (instr'[i].bornActive \/ instr'[k].bornActive)
  BY FlagsStep DEF OneActiveVersion
<1>1. /\ i \in Versions /\ instr'[i] # Absent /\ instr'[i].active
      /\ k \in Versions /\ instr'[k] # Absent /\ instr'[k].active
  BY DEF Active, Existing
<1>2. catalogue # "yee"
  <2> SUFFICES ASSUME catalogue = "yee"
               PROVE  FALSE
    OBVIOUS
  <2>1. ASSUME Indexed(instr')
        PROVE  FALSE
    BY <1>1, <2>1 DEF Indexed
  <2>2. ASSUME NEW r \in Jobs, NEW m \in Versions, CreateVersion(r, m) \/ Bootstrap(r, m)
        PROVE  Indexed(instr')
    BY <2>2, CreateEffect, BootstrapEffect
  <2>3. ASSUME NEW r \in Jobs, ActivateVersion(r)
        PROVE  Indexed(instr')
    BY <2>3, ActivateEffect
  <2>4. ASSUME i \in Active, k \in Active
        PROVE  FALSE
    BY <2>4 DEF OneActiveVersion
  <2>5. ASSUME NEW r \in Jobs, DeactivateVersion(r) \/ EditDraft(r) \/ DeleteVersion(r)
        PROVE  i \in Active /\ k \in Active
    BY <1>1, <2>5, DeactivateEffect, EditEffect, DeleteEffect DEF OthersKept, Active, Existing
  <2>6. ASSUME instr' = instr
        PROVE  i \in Active /\ k \in Active
    BY <2>6 DEF Active, Existing
  <2>7. ASSUME NEW r \in Jobs, NEW x \in JobRecords, Begins(r, x)
        PROVE  instr' = instr
    BY <2>7, TakeEffect DEF Begins
  <2>8. ASSUME NEW r \in Jobs, AskForRows(r) \/ ClearRows(r) \/ Use(r) \/ GiveUp(r)
        PROVE  instr' = instr
    BY <2>8 DEF AskForRows, ClearRows, Use, GiveUp
  <2>9. ASSUME NEW m \in Versions, Disuse(m)
        PROVE  instr' = instr
    BY <2>9 DEF Disuse
  <2>10. CASE UNCHANGED instrVars
    BY <2>4, <2>6, <2>10 DEF instrVars
  <2>11. QED
    BY <2>1, <2>2, <2>3, <2>4, <2>5, <2>6, <2>7, <2>8, <2>9, <2>10, Steps
<1>3. ASSUME NEW a \in Active', NEW b \in Active', a # b, ~instr'[a].bornActive, ~instr'[b].bornActive,
             NEW r \in Jobs, Activating(r, a), Cleared(r), OthersKept(instr', a, lock[r].cleared)
      PROVE  FALSE
  <2>1. a \in Versions /\ b \in Versions /\ instr'[b] # Absent /\ instr'[b].active
    BY DEF Active, Existing
  <2>2. b \in Active /\ b \notin lock[r].cleared /\ instr'[b].bornActive = instr[b].bornActive
    BY <1>3, <2>1 DEF OthersKept, Active, Existing
  <2>3. lock[r].cleared # NotCleared
    BY <1>3 DEF Cleared
  <2>4. instr[b].bornActive
    BY <1>2, <1>3, <2>1, <2>2, <2>3 DEF ClearedButBorn
  <2>5. QED
    BY <1>3, <2>2, <2>4
<1>4. ASSUME ~instr'[i].bornActive, ~instr'[k].bornActive
      PROVE  FALSE
  <2>1. CASE i \in Active /\ k \in Active /\ instr'[i].bornActive = instr[i].bornActive
             /\ instr'[k].bornActive = instr[k].bornActive
    BY <1>4, <2>1 DEF OneActiveVersion
  <2>2. QED
    BY <1>2, <1>3, <1>4, <2>1, ActiveStep
<1>5. QED
  BY <1>2, <1>4

LocksInv == Queues /\ SeesEarlier /\ ClearedButBorn /\ OneActiveVersion

\* One version is active (uq_instruments_yee_single_active), except that without an
\* index some may have been inserted active (create_instrument_version,
\* _create_yee_instrument_version).
THEOREM OneVersionIsActive == InstrSpec => []OneActiveVersion
<1>1. InstrInit => LocksInv
  <2> SUFFICES ASSUME InstrInit
      PROVE  LocksInv
    OBVIOUS
  <2>1. \A r \in Jobs : lock[r].seen = {} /\ lock[r].behind = {} /\ ~lock[r].asked
    BY InstrumentsBegin DEF NoLock
  <2>2. Queues
    BY <2>1 DEF Queues
  <2>3. SeesEarlier /\ ClearedButBorn
    BY <2>1 DEF SeesEarlier, ClearedButBorn, Activating
  <2>4. OneActiveVersion
    BY InstrumentsBegin DEF OneActiveVersion
  <2>5. QED
    BY <2>2, <2>3, <2>4 DEF LocksInv
<1>2. InstrTypeOK /\ RequestsInv /\ LocksInv /\ [InstrNext]_instrVars => LocksInv'
  BY QueuesStep, SeesEarlierStep, ClearedButBornStep, OneActiveVersionStep DEF LocksInv, RequestsInv
<1>3. LocksInv => OneActiveVersion
  BY DEF LocksInv
<1>4. QED
  BY <1>1, <1>2, <1>3, InstrumentsTypes, RequestsHold, PTL DEF InstrSpec
=============================================================================
