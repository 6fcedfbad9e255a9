------------------------ MODULE AdministrationProofs ------------------------
(***************************************************************************)
(* Proofs about the components around the audits: staffing, for any number *)
(* of projects, places, auditors and overlapping requests; support, for    *)
(* any number of reports and known issues; and the five components         *)
(* together, which the run `administration' checks.                        *)
(*                                                                         *)
(* A staffing request that has read its guards writes later, against       *)
(* whatever the database holds by then.  TasksSound says what stays true   *)
(* of what it read: who is told of an assignment rests on it.  Three       *)
(* predicates say what a step may do to profiles, notifications and        *)
(* assignments; the invariant follows from them, and each action satisfies *)
(* them.  A bug report keeps what its reporter named: the invariant speaks *)
(* of the reports that are still being verified as well, since what one of *)
(* them has found stays found while rows only go.                          *)
(***************************************************************************)
EXTENDS AdministrationMC, InstrumentsProofs, CredentialsProofs, OrganisationProofs, TLAPS

-----------------------------------------------------------------------------
(* Rows *)

\* A row is not the mark for its absence.
LEMMA AbsentRows ==
  /\ NoAssignment \notin Scopes /\ NoNotice \notin Notices /\ NoNotice.to = None
  /\ None \notin Auditors
  /\ \A x \in Scopes : x.auditor \in Auditors /\ x.project \in Projects /\ x.place \in Places
  /\ \A x \in Notices : x.to \in Auditors /\ x.to # None
  /\ NoAssignment.project = None /\ NoAssignment.auditor = None
BY StaffingAssumption DEF NoAssignment, Scopes, NoNotice, Notices

\* What a request remembers, by its operation.
LEMMA TaskParts ==
  ASSUME NEW x \in TaskRecords
  PROVE  /\ x.op \in {"none", "delete project", "move place", "assign", "rescope", "reports"}
         /\ x.op = "delete project" => x.project \in Projects
         /\ x.op = "move place" => x.place \in Places /\ x.from \subseteq Projects /\ x.to \subseteq Projects
         /\ x.op = "assign" => x.new \subseteq Scopes /\ x.users \subseteq Auditors
         /\ x.op = "rescope" => x.row \in Assignments /\ x.to \in Scopes
         /\ x.op = "reports" => x.place \in Places /\ x.new \in Seq(Reports)
<1>1. CASE x = NoTask
  BY <1>1 DEF NoTask
<1>2. CASE x \in [op : {"delete project"}, project : Projects]
  BY <1>2
<1>3. CASE x \in [op : {"move place"}, place : Places, from : SUBSET Projects, to : SUBSET Projects]
  BY <1>3
<1>4. CASE x \in [op : {"assign"}, new : SUBSET Scopes, users : SUBSET Auditors]
  BY <1>4
<1>5. CASE x \in [op : {"rescope"}, row : Assignments, to : Scopes]
  BY <1>5
<1>6. CASE x \in [op : {"reports"}, place : Places, new : Seq(Reports)]
  BY <1>6
<1>7. QED
  BY <1>1, <1>2, <1>3, <1>4, <1>5, <1>6 DEF TaskRecords

-----------------------------------------------------------------------------
(* The invariant *)

\* Whoever is assigned by a request has a profile, and if he still has his
\* user the request saw it; a row that is to be moved was told to the auditor
\* it goes to, unless his account has been deleted.
TaskSound(x) ==
  /\ x.op = "assign" =>
        \A s \in x.new : /\ s.auditor \in DOMAIN auditor
                         /\ auditor[s.auditor].user => s.auditor \in x.users
  /\ x.op = "rescope" =>
        /\ x.to.auditor \in DOMAIN auditor
        /\ auditor[x.to.auditor].user => notice[x.row].to = x.to.auditor

TasksSound == \A r \in Tasks : TaskSound(task[r])

StaffInv == StaffTypeOK /\ TasksSound /\ SoundAssignments

-----------------------------------------------------------------------------
(* What a step may do *)

\* Profiles stay, and a user that is gone does not come back.
ProfilesMove ==
  /\ site' = site
  /\ DOMAIN auditor \subseteq DOMAIN auditor' /\ DOMAIN auditor' \subseteq Auditors
  /\ \A u \in DOMAIN auditor' : auditor'[u] \in Profiles
  /\ \A u \in DOMAIN auditor : auditor'[u].user => auditor[u].user

\* A notification keeps whom it is for, until he deletes his account.
NoticeMoves(i) ==
  \/ notice'[i].to = notice[i].to
  \/ notice[i] = NoNotice
  \/ notice[i].to \in DOMAIN auditor' /\ ~auditor'[notice[i].to].user

NoticesMove ==
  /\ notice' \in [Assignments -> Notices \cup {NoNotice}]
  /\ \A i \in Assignments : NoticeMoves(i)

\* A row is kept, deleted, or written anew, of a pair that is linked then and
\* with a notification for an auditor who has a user.
AssignmentMoves(i) ==
  \/ assigned'[i] = NoAssignment
  \/ assigned'[i] = assigned[i]
  \/ /\ assigned'[i] \in Scopes
     /\ assigned'[i].auditor \in DOMAIN auditor'
     /\ site = "playspace" /\ auditor'[assigned'[i].auditor].user
          => notice'[i].to = assigned'[i].auditor

AssignmentsMove ==
  /\ assigned' = [i \in Assignments |-> assigned'[i]]
  /\ \A i \in Assignments : AssignmentMoves(i)
  /\ \A i \in Assignments : assigned'[i] # NoAssignment =>
        <<assigned'[i].project, assigned'[i].place>> \in linked'
  /\ \A i, k \in Assignments : assigned'[i] = assigned'[k] /\ assigned'[i] # NoAssignment => i = k

\* The three predicates keep assignments sound.
LEMMA SoundStep ==
  ASSUME StaffInv, ProfilesMove, NoticesMove, AssignmentsMove
  PROVE  SoundAssignments' /\ assigned' \in [Assignments -> Scopes \cup {NoAssignment}]
<1>1. \A i \in Assignments : assigned'[i] \in Scopes \cup {NoAssignment}
  BY DEF AssignmentsMove, AssignmentMoves, StaffInv, StaffTypeOK
<1>2. assigned' \in [Assignments -> Scopes \cup {NoAssignment}]
  BY <1>1 DEF AssignmentsMove
<1>3. ASSUME NEW i \in Assignments, assigned'[i] # NoAssignment
      PROVE  /\ assigned'[i].auditor \in DOMAIN auditor'
             /\ site = "playspace" /\ auditor'[assigned'[i].auditor].user
                  => notice'[i].to = assigned'[i].auditor
  <2>1. CASE assigned'[i] = assigned[i]
    <3>1. PICK u \in Auditors : u = assigned[i].auditor
      BY <1>3, <2>1, AbsentRows DEF StaffInv, StaffTypeOK
    <3>2. /\ u \in DOMAIN auditor
          /\ site = "playspace" /\ auditor[u].user => notice[i].to = u
      BY <1>3, <2>1, <3>1 DEF StaffInv, SoundAssignments
    <3>3. NoticeMoves(i)
      BY DEF NoticesMove
    <3>4. site = "playspace" /\ auditor'[u].user => notice'[i].to = u
      BY <3>1, <3>2, <3>3, AbsentRows DEF NoticeMoves, ProfilesMove
    <3>5. QED
      BY <2>1, <3>1, <3>2, <3>4 DEF ProfilesMove
  <2>2. CASE assigned'[i] # assigned[i]
    BY <1>3, <2>2 DEF AssignmentsMove, AssignmentMoves
  <2>3. QED
    BY <2>1, <2>2
<1>4. SoundAssignments'
  BY <1>3 DEF AssignmentsMove, SoundAssignments, ProfilesMove
<1>5. QED
  BY <1>2, <1>4

\* What a request remembers stays true while others commit.
LEMMA TaskStays ==
  ASSUME StaffInv, ProfilesMove, NoticesMove, NEW x \in TaskRecords, TaskSound(x)
  PROVE  TaskSound(x)'
<1>1. x.op = "assign" =>
        \A s \in x.new : /\ s.auditor \in DOMAIN auditor'
                         /\ auditor'[s.auditor].user => s.auditor \in x.users
  BY DEF TaskSound, ProfilesMove
<1>2. ASSUME x.op = "rescope"
      PROVE  /\ x.to.auditor \in DOMAIN auditor'
             /\ auditor'[x.to.auditor].user => notice'[x.row].to = x.to.auditor
  <2>1. PICK u \in Auditors : u = x.to.auditor /\ x.row \in Assignments
    BY <1>2, TaskParts, AbsentRows
  <2>2. u \in DOMAIN auditor /\ (auditor[u].user => notice[x.row].to = u)
    BY <1>2, <2>1 DEF TaskSound
  <2>3. NoticeMoves(x.row)
    BY <2>1 DEF NoticesMove
  <2>4. auditor'[u].user => notice'[x.row].to = u
    BY <2>2, <2>3, AbsentRows DEF NoticeMoves, ProfilesMove
  <2>5. QED
    BY <2>1, <2>2, <2>4 DEF ProfilesMove
<1>3. QED
  BY <1>1, <1>2 DEF TaskSound

\* The requests after a step of r, which leaves it with x.
LEMMA TasksStep ==
  ASSUME StaffInv, ProfilesMove, NoticesMove, NEW r \in Tasks, NEW x \in TaskRecords,
         TaskSound(x)', task' = [task EXCEPT ![r] = x]
  PROVE  TasksSound' /\ task' \in [Tasks -> TaskRecords]
<1>1. task \in [Tasks -> TaskRecords]
  BY DEF StaffInv, StaffTypeOK
<1>2. task'[r] = x /\ \A q \in Tasks \ {r} : task'[q] = task[q]
  BY <1>1
<1>3. ASSUME NEW q \in Tasks
      PROVE  \E y : y = task'[q] /\ TaskSound(y)'
  <2>1. CASE q = r
    BY <1>2, <2>1
  <2>2. CASE q # r
    <3>1. PICK y \in TaskRecords : y = task[q] /\ TaskSound(y)
      BY <1>1 DEF StaffInv, TasksSound
    <3>2. TaskSound(y)'
      BY <3>1, TaskStays
    <3>3. QED
      BY <1>2, <2>2, <3>1, <3>2
  <2>3. QED
    BY <2>1, <2>2
<1>4. TasksSound'
  BY <1>3 DEF TasksSound
<1>5. QED
  BY <1>1, <1>4

\* The rest of the tables.
SitesMove ==
  /\ projects' \subseteq Projects /\ places' \subseteq Places
  /\ reports' \in [Places -> Seq(Reports)]
  /\ linked' \subseteq projects' \X places'

\* No request in progress is not unsound.
LEMMA NoTaskIsSound ==
  NoTask \in TaskRecords /\ TaskSound(NoTask) /\ TaskSound(NoTask)'
BY DEF NoTask, TaskRecords, TaskSound

\* A step of a request that satisfies them keeps the invariant.
LEMMA RequestStep ==
  ASSUME StaffInv, ProfilesMove, NoticesMove, AssignmentsMove, SitesMove,
         NEW r \in Tasks, NEW x \in TaskRecords, TaskSound(x)', task' = [task EXCEPT ![r] = x]
  PROVE  StaffInv'
<1>1. SoundAssignments' /\ assigned' \in [Assignments -> Scopes \cup {NoAssignment}]
  BY SoundStep
<1>2. TasksSound' /\ task' \in [Tasks -> TaskRecords]
  BY TasksStep
<1>3. StaffTypeOK'
  BY <1>1, <1>2 DEF StaffInv, StaffTypeOK, ProfilesMove, NoticesMove, SitesMove
<1>4. QED
  BY <1>1, <1>2, <1>3 DEF StaffInv

\* A request that is one step.
LEMMA SingleStep ==
  ASSUME StaffInv, ProfilesMove, NoticesMove, AssignmentsMove, SitesMove, task' = task
  PROVE  StaffInv'
<1>1. SoundAssignments' /\ assigned' \in [Assignments -> Scopes \cup {NoAssignment}]
  BY SoundStep
<1>2. ASSUME NEW q \in Tasks
      PROVE  \E y : y = task'[q] /\ TaskSound(y)'
  <2>1. PICK y \in TaskRecords : y = task[q] /\ TaskSound(y)
    BY DEF StaffInv, StaffTypeOK, TasksSound
  <2>2. TaskSound(y)'
    BY <2>1, TaskStays
  <2>3. QED
    BY <2>1, <2>2
<1>3. TasksSound'
  BY <1>2 DEF TasksSound
<1>4. StaffTypeOK'
  BY <1>1 DEF StaffInv, StaffTypeOK, ProfilesMove, NoticesMove, SitesMove
<1>5. QED
  BY <1>1, <1>3, <1>4 DEF StaffInv

-----------------------------------------------------------------------------
(* Tables that a step leaves alone, or changes in the usual way *)

\* A step that leaves a table alone moves nothing in it.
LEMMA SameProfiles ==
  ASSUME StaffInv, UNCHANGED <<site, auditor>>
  PROVE  ProfilesMove
BY DEF StaffInv, StaffTypeOK, ProfilesMove

\* So it is with notifications,
LEMMA SameNotices ==
  ASSUME StaffInv, UNCHANGED notice
  PROVE  NoticesMove
BY DEF StaffInv, StaffTypeOK, NoticesMove, NoticeMoves

\* Links may come.
LEMMA SameAssignments ==
  ASSUME StaffInv, UNCHANGED assigned, linked \subseteq linked'
  PROVE  AssignmentsMove
BY DEF StaffInv, StaffTypeOK, SoundAssignments, AssignmentsMove, AssignmentMoves

\* and with projects, places, reports and links.
LEMMA SameSites ==
  ASSUME StaffInv, UNCHANGED <<projects, places, reports, linked>>
  PROVE  SitesMove
BY DEF StaffInv, StaffTypeOK, SitesMove

\* The assignments that are left after some are deleted.
LEMMA FewerAssignments ==
  ASSUME StaffInv, assigned' = [i \in Assignments |-> assigned'[i]],
         \A i \in Assignments : assigned'[i] \in {assigned[i], NoAssignment},
         \A i \in Assignments : assigned'[i] # NoAssignment =>
            <<assigned'[i].project, assigned'[i].place>> \in linked'
  PROVE  AssignmentsMove
BY DEF StaffInv, SoundAssignments, AssignmentsMove, AssignmentMoves

\* The foreign key leaves those whose link is left.
LEMMA LeftAssignments ==
  ASSUME StaffInv, assigned' = Left(linked')
  PROVE  AssignmentsMove
<1>1. /\ assigned' = [i \in Assignments |-> assigned'[i]]
      /\ \A i \in Assignments : assigned'[i] \in {assigned[i], NoAssignment}
  BY DEF Left
<1>2. \A i \in Assignments : assigned'[i] # NoAssignment =>
         <<assigned'[i].project, assigned'[i].place>> \in linked'
  BY DEF Left
<1>3. QED
  BY <1>1, <1>2, FewerAssignments

-----------------------------------------------------------------------------
(* Requests begin *)

\* A request that begins has read what it remembers.
LEMMA StartStep ==
  ASSUME StaffInv, NEW r \in Tasks, NEW x \in TaskRecords, Start(r, x), TaskSound(x)
  PROVE  StaffInv'
<1>1. ProfilesMove /\ NoticesMove /\ AssignmentsMove /\ SitesMove
  BY SameProfiles, SameNotices, SameAssignments, SameSites DEF Start, staffTables
<1>2. TaskSound(x)'
  BY <1>1, TaskStays
<1>3. QED
  BY <1>1, <1>2, RequestStep DEF Start

\* What is assigned is new, and whoever of its auditors has a user is told.
LEMMA AssignStart ==
  ASSUME StaffInv, NEW r \in Tasks, NEW new \in SUBSET Scopes, Start(r, AssignTask(new)),
         \A s \in new : s.auditor \in DOMAIN auditor
  PROVE  StaffInv'
<1>1. PICK users : users = {u \in {s.auditor : s \in new} : auditor[u].user}
  OBVIOUS
<1>2. PICK x : x = [op |-> "assign", new |-> new, users |-> users]
  OBVIOUS
<1>3. users \subseteq Auditors
  BY <1>1, AbsentRows
<1>4. x \in TaskRecords /\ x.op = "assign" /\ x.new = new /\ x.users = users
  BY <1>2, <1>3 DEF TaskRecords
<1>5. Start(r, x)
  BY <1>1, <1>2 DEF AssignTask
<1>6. TaskSound(x)
  BY <1>1, <1>4 DEF TaskSound
<1>7. QED
  BY <1>4, <1>5, <1>6, StartStep

\* One assignment.
LEMMA CreateAssignmentStartStep ==
  ASSUME StaffInv, NEW r \in Tasks, NEW u \in Auditors, NEW j \in Projects, NEW q \in Places,
         CreateAssignmentStart(r, u, j, q)
  PROVE  StaffInv'
<1>1. Scope(u, j, q) \in Scopes /\ Scope(u, j, q).auditor = u
  BY DEF Scope, Scopes
<1>2. u \in DOMAIN auditor /\ Start(r, AssignTask({Scope(u, j, q)}))
  BY <1>1 DEF CreateAssignmentStart, Assignable
<1>3. QED
  BY <1>1, <1>2, AssignStart

\* All pairs of some auditors and some places.
LEMMA CreateBulkStartStep ==
  ASSUME StaffInv, NEW r \in Tasks, NEW j \in Projects, NEW us \in SUBSET Auditors,
         NEW qs \in SUBSET Places, CreateBulkStart(r, j, us, qs) \/ CreateAssignmentsStart(r, j, us, qs)
  PROVE  StaffInv'
<1> DEFINE new == {Scope(u, j, q) : u \in us, q \in qs} \ ScopesInUse
<1>1. Start(r, AssignTask(new)) /\ us \subseteq DOMAIN auditor
  BY DEF CreateBulkStart, CreateAssignmentsStart
<1>2. \A u \in us, q \in qs : Scope(u, j, q) \in Scopes /\ Scope(u, j, q).auditor = u
  BY DEF Scope, Scopes
<1>3. \A s \in new : s \in Scopes /\ s.auditor \in us
  BY <1>2
<1> HIDE DEF new
<1>4. new \in SUBSET Scopes /\ \A s \in new : s.auditor \in DOMAIN auditor
  BY <1>1, <1>3
<1>5. QED
  BY <1>1, <1>4, AssignStart

\* The auditor of the row has been told of it.
LEMMA RescopeStartStep ==
  ASSUME StaffInv, NEW r \in Tasks, NEW i \in Assignments, NEW j \in Projects, NEW q \in Places,
         RescopeStart(r, i, j, q)
  PROVE  StaffInv'
<1>1. PICK old \in Scopes : old = assigned[i]
  BY DEF RescopeStart, StaffInv, StaffTypeOK
<1>2. PICK to : to = [old EXCEPT !.project = j, !.place = q]
  OBVIOUS
<1>3. to \in Scopes /\ to.auditor = old.auditor
  BY <1>2 DEF Scopes
<1>4. PICK x : x = [op |-> "rescope", row |-> i, to |-> to]
  OBVIOUS
<1>5. x \in TaskRecords /\ x.op = "rescope" /\ x.row = i /\ x.to = to
  BY <1>3, <1>4 DEF TaskRecords
<1>6. Start(r, x) /\ site = "playspace" /\ assigned[i] # NoAssignment /\ to.auditor \in DOMAIN auditor
  BY <1>1, <1>2, <1>4 DEF RescopeStart, Assignable
<1>7. auditor[to.auditor].user => notice[i].to = to.auditor
  BY <1>1, <1>3, <1>6 DEF StaffInv, SoundAssignments
<1>8. TaskSound(x)
  BY <1>5, <1>6, <1>7 DEF TaskSound
<1>9. QED
  BY <1>5, <1>6, <1>8, StartStep

\* A request to delete a project remembers which.
LEMMA DeleteProjectStartStep ==
  ASSUME StaffInv, NEW r \in Tasks, NEW j \in Projects, DeleteProjectStart(r, j)
  PROVE  StaffInv'
<1>1. PICK x : x = [op |-> "delete project", project |-> j]
  OBVIOUS
<1>2. x \in TaskRecords /\ TaskSound(x)
  BY <1>1 DEF TaskRecords, TaskSound
<1>3. QED
  BY <1>1, <1>2, StartStep DEF DeleteProjectStart

\* A request to move a place remembers the links it found.
LEMMA MovePlaceStartStep ==
  ASSUME StaffInv, NEW r \in Tasks, NEW q \in Places, NEW js \in SUBSET Projects, MovePlaceStart(r, q, js)
  PROVE  StaffInv'
<1>1. PICK from : from = LinkedProjects(q)
  OBVIOUS
<1>2. from \subseteq Projects
  BY <1>1 DEF LinkedProjects, StaffInv, StaffTypeOK
<1>3. PICK x : x = [op |-> "move place", place |-> q, from |-> from, to |-> js]
  OBVIOUS
<1>4. x \in TaskRecords /\ TaskSound(x)
  BY <1>2, <1>3 DEF TaskRecords, TaskSound
<1>5. QED
  BY <1>1, <1>3, <1>4, StartStep DEF MovePlaceStart

\* A saved report makes the list longer,
LEMMA SaveReportStartStep ==
  ASSUME StaffInv, NEW r \in Tasks, NEW q \in Places, NEW z \in Reports, SaveReportStart(r, q, z)
  PROVE  StaffInv'
<1>1. PICK new : new = Append(reports[q], z)
  OBVIOUS
<1>2. new \in Seq(Reports)
  BY <1>1 DEF StaffInv, StaffTypeOK
<1>3. PICK x : x = [op |-> "reports", place |-> q, new |-> new]
  OBVIOUS
<1>4. x \in TaskRecords /\ TaskSound(x)
  BY <1>2, <1>3 DEF TaskRecords, TaskSound
<1>5. QED
  BY <1>1, <1>3, <1>4, StartStep DEF SaveReportStart

\* a deleted one shorter.
LEMMA DeleteReportStartStep ==
  ASSUME StaffInv, NEW r \in Tasks, NEW q \in Places, NEW n \in 1 .. Len(reports[q]),
         DeleteReportStart(r, q, n)
  PROVE  StaffInv'
<1>1. PICK new : new = RemoveAt(reports[q], n)
  OBVIOUS
<1>2. new \in Seq(Reports)
  <2>1. PICK list \in Seq(Reports) : list = reports[q]
    BY DEF StaffInv, StaffTypeOK
  <2>2. PICK front : front = SubSeq(list, 1, n - 1)
    OBVIOUS
  <2>3. PICK back : back = SubSeq(list, n + 1, Len(list))
    OBVIOUS
  <2>4. front \in Seq(Reports) /\ back \in Seq(Reports)
    BY <2>1, <2>2, <2>3
  <2>5. QED
    BY <1>1, <2>1, <2>2, <2>3, <2>4 DEF RemoveAt
<1>3. PICK x : x = [op |-> "reports", place |-> q, new |-> new]
  OBVIOUS
<1>4. x \in TaskRecords /\ TaskSound(x)
  BY <1>2, <1>3 DEF TaskRecords, TaskSound
<1>5. QED
  BY <1>1, <1>3, <1>4, StartStep DEF DeleteReportStart

\* A request that ends without a write.
LEMMA AbandonStep ==
  ASSUME StaffInv, NEW r \in Tasks, Abandon(r)
  PROVE  StaffInv'
<1>1. ProfilesMove /\ NoticesMove /\ AssignmentsMove /\ SitesMove
  BY SameProfiles, SameNotices, SameAssignments, SameSites DEF Abandon, staffTables
<1>2. QED
  BY <1>1, NoTaskIsSound, RequestStep DEF Abandon, Finish

-----------------------------------------------------------------------------
(* Projects and places *)

\* A new project.
LEMMA CreateProjectStep ==
  ASSUME StaffInv, NEW j \in Projects, CreateProject(j)
  PROVE  StaffInv'
<1>1. ProfilesMove /\ NoticesMove /\ AssignmentsMove
  BY SameProfiles, SameNotices, SameAssignments DEF CreateProject
<1>2. SitesMove
  BY DEF CreateProject, SitesMove, StaffInv, StaffTypeOK
<1>3. QED
  BY <1>1, <1>2, SingleStep DEF CreateProject

\* Its links go with a project, and assignments with their link, those
\* included that came after the request had looked for them.
LEMMA DeleteProjectStep ==
  ASSUME StaffInv, NEW r \in Tasks, DeleteProject(r)
  PROVE  StaffInv'
<1>1. PICK links : links = {l \in linked : l[1] # task[r].project}
  OBVIOUS
<1>2. /\ projects' = projects \ {task[r].project} /\ linked' = links /\ assigned' = Left(links)
      /\ Finish(r) /\ UNCHANGED <<site, places, reports, auditor, notice>>
  BY <1>1 DEF DeleteProject
<1>3. ProfilesMove /\ NoticesMove
  BY <1>2, SameProfiles, SameNotices
<1>4. AssignmentsMove
  BY <1>2, LeftAssignments
<1>5. SitesMove
  BY <1>1, <1>2 DEF SitesMove, StaffInv, StaffTypeOK
<1>6. QED
  BY <1>2, <1>3, <1>4, <1>5, NoTaskIsSound, RequestStep DEF Finish

\* A new place with its projects,
LEMMA CreatePlaceStep ==
  ASSUME StaffInv, NEW q \in Places, NEW js \in SUBSET Projects, CreatePlace(q, js)
  PROVE  StaffInv'
<1>1. ProfilesMove /\ NoticesMove /\ AssignmentsMove
  BY SameProfiles, SameNotices, SameAssignments DEF CreatePlace
<1>2. SitesMove
  BY DEF CreatePlace, Validated, SitesMove, StaffInv, StaffTypeOK
<1>3. QED
  BY <1>1, <1>2, SingleStep DEF CreatePlace

\* and in YEE with one.
LEMMA CreatePlaceInStep ==
  ASSUME StaffInv, NEW q \in Places, NEW j \in Projects, CreatePlaceIn(j, q)
  PROVE  StaffInv'
<1>1. ProfilesMove /\ NoticesMove /\ AssignmentsMove
  BY SameProfiles, SameNotices, SameAssignments DEF CreatePlaceIn
<1>2. SitesMove
  BY DEF CreatePlaceIn, SitesMove, StaffInv, StaffTypeOK
<1>3. QED
  BY <1>1, <1>2, SingleStep DEF CreatePlaceIn

\* Projects that were added to the place meanwhile stay, and those that it
\* has lost are no error.
LEMMA MovePlaceStep ==
  ASSUME StaffInv, NEW r \in Tasks, MovePlace(r)
  PROVE  StaffInv'
<1>1. PICK x \in TaskRecords : x = task[r]
  BY DEF StaffInv, StaffTypeOK
<1>2. PICK links : links = (linked \ ((x.from \ x.to) \X {x.place})) \cup ((x.to \ x.from) \X {x.place})
  OBVIOUS
<1>3. /\ x.place \in places /\ x.to \ x.from \subseteq projects
      /\ linked' = links /\ assigned' = Left(links)
      /\ Finish(r) /\ UNCHANGED <<site, projects, places, reports, auditor, notice>>
  BY <1>1, <1>2 DEF MovePlace
<1>4. ProfilesMove /\ NoticesMove
  BY <1>3, SameProfiles, SameNotices
<1>5. AssignmentsMove
  BY <1>3, LeftAssignments
<1>6. SitesMove
  BY <1>2, <1>3 DEF SitesMove, StaffInv, StaffTypeOK
<1>7. QED
  BY <1>3, <1>4, <1>5, <1>6, NoTaskIsSound, RequestStep DEF Finish

\* The constraint keeps a link that assignments refer to.
LEMMA RelinkPlaceStep ==
  ASSUME StaffInv, NEW q \in Places, NEW j \in Projects, RelinkPlace(q, j)
  PROVE  StaffInv'
<1>1. PICK k \in projects :
         /\ \A i \in AssignmentsOf(k) : assigned[i].place # q
         /\ linked' = (linked \ {<<k, q>>}) \cup {<<j, q>>}
  BY DEF RelinkPlace
<1>2. ProfilesMove /\ NoticesMove
  BY SameProfiles, SameNotices DEF RelinkPlace
<1>3. \A i \in Assignments : assigned[i] # NoAssignment =>
         <<assigned[i].project, assigned[i].place>> \in linked'
  <2>1. ASSUME NEW i \in Assignments, assigned[i] # NoAssignment
        PROVE  <<assigned[i].project, assigned[i].place>> # <<k, q>>
    BY <1>1 DEF AssignmentsOf
  <2>2. QED
    BY <1>1, <2>1 DEF StaffInv, SoundAssignments
<1>4. AssignmentsMove
  <2>1. assigned' = assigned /\ assigned' = [i \in Assignments |-> assigned'[i]]
    BY DEF RelinkPlace, StaffInv, StaffTypeOK
  <2>2. QED
    BY <1>3, <2>1, FewerAssignments
<1>5. SitesMove
  BY <1>1 DEF RelinkPlace, SitesMove, StaffInv, StaffTypeOK
<1>6. QED
  BY <1>2, <1>4, <1>5, SingleStep DEF RelinkPlace

\* A place goes with its reports, links and assignments.
LEMMA DeletePlaceStep ==
  ASSUME StaffInv, NEW q \in Places, DeletePlace(q)
  PROVE  StaffInv'
<1>1. PICK links : links = {l \in linked : l[2] # q}
  OBVIOUS
<1>2. /\ places' = places \ {q} /\ reports' = [reports EXCEPT ![q] = <<>>]
      /\ linked' = links /\ assigned' = Left(links)
      /\ UNCHANGED <<site, projects, auditor, notice, task>>
  BY <1>1 DEF DeletePlace
<1>3. ProfilesMove /\ NoticesMove
  BY <1>2, SameProfiles, SameNotices
<1>4. AssignmentsMove
  BY <1>2, LeftAssignments
<1>5. SitesMove
  <2>1. <<>> \in Seq(Reports)
    OBVIOUS
  <2>2. QED
    BY <1>1, <1>2, <2>1 DEF SitesMove, StaffInv, StaffTypeOK
<1>6. QED
  BY <1>2, <1>3, <1>4, <1>5, SingleStep

\* The list of reports is written as it was read and changed.
LEMMA WriteReportsStep ==
  ASSUME StaffInv, NEW r \in Tasks, WriteReports(r)
  PROVE  StaffInv'
<1>1. PICK x \in TaskRecords : x = task[r] /\ x.op = "reports"
  BY DEF StaffInv, StaffTypeOK, WriteReports
<1>2. /\ reports' = [reports EXCEPT ![x.place] = x.new] /\ x.new \in Seq(Reports)
      /\ Finish(r) /\ UNCHANGED <<site, projects, places, linked, auditor, assigned, notice>>
  BY <1>1, TaskParts DEF WriteReports
<1>3. ProfilesMove /\ NoticesMove /\ AssignmentsMove
  BY <1>2, SameProfiles, SameNotices, SameAssignments
<1>4. SitesMove
  BY <1>2 DEF SitesMove, StaffInv, StaffTypeOK
<1>5. QED
  BY <1>2, <1>3, <1>4, NoTaskIsSound, RequestStep DEF Finish

-----------------------------------------------------------------------------
(* Auditors *)

\* A new auditor has no assignment yet.
LEMMA CreateAuditorStep ==
  ASSUME StaffInv, NEW u \in Auditors, NEW a \in Accts, CreateAuditor(u, a)
  PROVE  StaffInv'
<1>1. PICK row : row = [home |-> a, user |-> TRUE]
  OBVIOUS
<1>2. row \in Profiles
  BY <1>1 DEF Profiles
<1>3. /\ u \notin DOMAIN auditor /\ DOMAIN auditor' = DOMAIN auditor \cup {u}
      /\ auditor'[u] = row /\ \A v \in DOMAIN auditor : auditor'[v] = auditor[v]
  BY <1>1 DEF CreateAuditor
<1>4. ProfilesMove
  BY <1>2, <1>3 DEF ProfilesMove, CreateAuditor, StaffInv, StaffTypeOK
<1>5. NoticesMove /\ AssignmentsMove /\ SitesMove
  BY SameNotices, SameAssignments, SameSites DEF CreateAuditor
<1>6. QED
  BY <1>4, <1>5, SingleStep DEF CreateAuditor

\* An auditor who is removed keeps his user, and what he was told.
LEMMA RemoveAuditorStep ==
  ASSUME StaffInv, NEW u \in Auditors, RemoveAuditor(u)
  PROVE  StaffInv'
<1>1. PICK old \in Profiles : old = auditor[u]
  BY DEF RemoveAuditor, StaffInv, StaffTypeOK
<1>2. PICK row : row = [old EXCEPT !.home = None]
  OBVIOUS
<1>3. row \in Profiles /\ row.user = old.user
  BY <1>2 DEF Profiles
<1>4. /\ u \in DOMAIN auditor /\ DOMAIN auditor' = DOMAIN auditor
      /\ auditor'[u] = row /\ \A v \in DOMAIN auditor \ {u} : auditor'[v] = auditor[v]
  BY <1>1, <1>2 DEF RemoveAuditor
<1>5. ProfilesMove
  BY <1>1, <1>3, <1>4 DEF ProfilesMove, RemoveAuditor, StaffInv, StaffTypeOK
<1>6. NoticesMove /\ AssignmentsMove /\ SitesMove
  BY SameNotices, SameAssignments, SameSites DEF RemoveAuditor
<1>7. QED
  BY <1>5, <1>6, SingleStep DEF RemoveAuditor

\* The deletion of an account takes the notifications that would be missed.
LEMMA EraseAuditorStep ==
  ASSUME StaffInv, NEW u \in Auditors, EraseAuditor(u)
  PROVE  StaffInv'
<1>1. PICK old \in Profiles : old = auditor[u]
  BY DEF EraseAuditor, StaffInv, StaffTypeOK
<1>2. PICK row : row = [old EXCEPT !.user = FALSE]
  OBVIOUS
<1>3. row \in Profiles /\ ~row.user
  BY <1>2 DEF Profiles
<1>4. /\ u \in DOMAIN auditor /\ DOMAIN auditor' = DOMAIN auditor
      /\ auditor'[u] = row /\ \A v \in DOMAIN auditor \ {u} : auditor'[v] = auditor[v]
  BY <1>1, <1>2 DEF EraseAuditor
<1>5. ProfilesMove
  BY <1>3, <1>4 DEF ProfilesMove, EraseAuditor, StaffInv, StaffTypeOK
<1>6. NoticesMove
  <2>1. notice' = [i \in Assignments |-> IF notice[i].to = u THEN NoNotice ELSE notice[i]]
    BY DEF EraseAuditor
  <2>2. notice' \in [Assignments -> Notices \cup {NoNotice}]
    BY <2>1 DEF StaffInv, StaffTypeOK
  <2>3. \A i \in Assignments : NoticeMoves(i)
    BY <1>3, <1>4, <2>1 DEF NoticeMoves
  <2>4. QED
    BY <2>2, <2>3 DEF NoticesMove
<1>7. AssignmentsMove
  <2>1. /\ assigned' = [i \in Assignments |-> assigned'[i]]
        /\ \A i \in Assignments : assigned'[i] \in {assigned[i], NoAssignment}
    BY DEF EraseAuditor
  <2>2. linked' = linked
    BY DEF EraseAuditor
  <2>3. QED
    BY <2>1, <2>2, FewerAssignments DEF StaffInv, SoundAssignments
<1>8. SitesMove
  BY SameSites DEF EraseAuditor
<1>9. QED
  BY <1>5, <1>6, <1>7, <1>8, SingleStep DEF EraseAuditor

-----------------------------------------------------------------------------
(* Assignments *)

\* What the assignment x writes: a row for each of its new scopes, with a
\* notification where the request saw a user.
Writes(x) ==
  /\ \A s \in x.new : <<s.project, s.place>> \in linked
  /\ assigned' = [i \in Assignments |-> assigned'[i]]
  /\ notice' = [i \in Assignments |-> notice'[i]]
  /\ \A i \in Assignments : assigned'[i] # assigned[i] =>
        /\ assigned'[i] \in x.new /\ assigned[i] = NoAssignment
        /\ site = "playspace" /\ assigned'[i].auditor \in x.users =>
             notice'[i] = [to |-> assigned'[i].auditor, read |-> FALSE]
  /\ \A i \in Assignments : notice'[i] # notice[i] =>
        /\ notice[i] = NoNotice
        /\ \E s \in x.new : notice'[i] = [to |-> s.auditor, read |-> FALSE]
  /\ \A i, k \in Assignments :
        assigned'[i] = assigned'[k] /\ assigned'[i] # NoAssignment => i = k

\* An assignment does, whatever identities its rows get.
LEMMA AssignedRows ==
  ASSUME StaffInv, NEW r \in Tasks, Assign(r)
  PROVE  Writes(task[r])
<1> DEFINE x == task[r]
           told == {s \in x.new : site = "playspace" /\ s.auditor \in x.users}
<1>1. x \in TaskRecords /\ x.op = "assign" /\ TaskSound(x)
  BY DEF Assign, StaffInv, StaffTypeOK, TasksSound
<1>2. told = {s \in x.new : site = "playspace" /\ s.auditor \in x.users}
  OBVIOUS
<1>3. PICK rows \in [x.new -> {i \in Assignments : assigned[i] = NoAssignment /\ notice[i] = NoNotice}] :
        /\ \A s, t \in x.new : rows[s] = rows[t] => s = t
        /\ assigned' = [i \in Assignments |->
                IF \E s \in x.new : rows[s] = i THEN CHOOSE s \in x.new : rows[s] = i
                ELSE assigned[i]]
        /\ notice' = [i \in Assignments |->
                IF \E s \in told : rows[s] = i
                THEN [to |-> (CHOOSE s \in told : rows[s] = i).auditor, read |-> FALSE]
                ELSE notice[i]]
  BY DEF Assign
<1>4. /\ Tellable(x) /\ x.new \cap ScopesInUse = {}
      /\ \A s \in x.new : <<s.project, s.place>> \in linked
  BY <1>1 DEF Assign
<1>5. told \subseteq x.new
  BY <1>2
<1>6. ASSUME NEW s \in x.new
      PROVE  /\ rows[s] \in Assignments /\ assigned[rows[s]] = NoAssignment /\ notice[rows[s]] = NoNotice
             /\ assigned'[rows[s]] = s
             /\ s \in told => notice'[rows[s]] = [to |-> s.auditor, read |-> FALSE]
  <2>1. rows[s] \in Assignments /\ assigned[rows[s]] = NoAssignment /\ notice[rows[s]] = NoNotice
    BY <1>3
  <2>2. (CHOOSE t \in x.new : rows[t] = rows[s]) = s
    <3>1. PICK t : t = CHOOSE c \in x.new : rows[c] = rows[s]
      OBVIOUS
    <3>2. t \in x.new /\ rows[t] = rows[s]
      BY <3>1
    <3>3. QED
      BY <1>3, <3>1, <3>2
  <2>3. assigned'[rows[s]] = s
    BY <1>3, <2>1, <2>2
  <2>4. ASSUME s \in told
        PROVE  notice'[rows[s]] = [to |-> s.auditor, read |-> FALSE]
    <3>1. PICK t : t = CHOOSE c \in told : rows[c] = rows[s]
      OBVIOUS
    <3>2. t \in told /\ rows[t] = rows[s]
      BY <2>4, <3>1
    <3>3. t = s
      BY <1>3, <1>5, <3>2
    <3>4. notice'[rows[s]] = [to |-> t.auditor, read |-> FALSE]
      BY <1>3, <2>1, <2>4, <3>1
    <3>5. QED
      BY <3>3, <3>4
  <2>5. QED
    BY <2>1, <2>3, <2>4
<1>7. ASSUME NEW i \in Assignments, \A s \in x.new : rows[s] # i
      PROVE  assigned'[i] = assigned[i] /\ notice'[i] = notice[i]
  BY <1>3, <1>5, <1>7
<1>8. ASSUME NEW i \in Assignments, assigned'[i] # assigned[i]
      PROVE  /\ assigned'[i] \in x.new /\ assigned[i] = NoAssignment
             /\ site = "playspace" /\ assigned'[i].auditor \in x.users =>
                  notice'[i] = [to |-> assigned'[i].auditor, read |-> FALSE]
  <2>1. PICK s \in x.new : rows[s] = i
    BY <1>7, <1>8
  <2>2. assigned'[i] = s /\ assigned[i] = NoAssignment
    BY <1>6, <2>1
  <2>3. site = "playspace" /\ s.auditor \in x.users => s \in told
    BY <1>2
  <2>4. QED
    BY <1>6, <2>1, <2>2, <2>3
<1>9. ASSUME NEW i \in Assignments, notice'[i] # notice[i]
      PROVE  notice[i] = NoNotice /\ \E s \in x.new : notice'[i] = [to |-> s.auditor, read |-> FALSE]
  <2>1. PICK s \in x.new : rows[s] = i
    BY <1>7, <1>9
  <2>2. notice[i] = NoNotice
    BY <1>6, <2>1
  <2>3. s \in told
    <3>1. SUFFICES ASSUME s \notin told
                   PROVE  FALSE
      OBVIOUS
    <3>2. \A t \in told : rows[t] # i
      BY <1>3, <1>5, <2>1, <3>1
    <3>3. QED
      BY <1>3, <1>9, <3>2
  <2>4. QED
    BY <1>6, <2>1, <2>2, <2>3
<1>10. ASSUME NEW i \in Assignments, NEW k \in Assignments,
              assigned'[i] = assigned'[k], assigned'[i] # NoAssignment
       PROVE  i = k
  <2>1. CASE \E s \in x.new : rows[s] = i
    <3>1. PICK s \in x.new : rows[s] = i
      BY <2>1
    <3>2. assigned'[k] = s
      BY <1>6, <1>10, <3>1
    <3>3. s # NoAssignment /\ s \notin ScopesInUse
      BY <1>4, <1>6, <1>10, <3>1
    <3>4. assigned[k] # s
      BY <3>3 DEF ScopesInUse
    <3>5. PICK t \in x.new : rows[t] = k
      BY <1>7, <3>2, <3>4
    <3>6. t = s
      BY <1>6, <3>2, <3>5
    <3>7. QED
      BY <3>1, <3>5, <3>6
  <2>2. CASE \E s \in x.new : rows[s] = k
    <3>1. PICK s \in x.new : rows[s] = k
      BY <2>2
    <3>2. assigned'[i] = s
      BY <1>6, <1>10, <3>1
    <3>3. s # NoAssignment /\ s \notin ScopesInUse
      BY <1>4, <1>10, <3>2
    <3>4. assigned[i] # s
      BY <3>3 DEF ScopesInUse
    <3>5. PICK t \in x.new : rows[t] = i
      BY <1>7, <3>2, <3>4
    <3>6. t = s
      BY <1>6, <3>2, <3>5
    <3>7. QED
      BY <3>1, <3>5, <3>6
  <2>3. CASE \A s \in x.new : rows[s] # i /\ rows[s] # k
    <3>1. assigned'[i] = assigned[i] /\ assigned'[k] = assigned[k]
      BY <1>7, <2>3
    <3>2. QED
      BY <1>10, <3>1 DEF StaffInv, SoundAssignments
  <2>4. QED
    BY <2>1, <2>2, <2>3
<1>11. /\ assigned' = [i \in Assignments |-> assigned'[i]]
       /\ notice' = [i \in Assignments |-> notice'[i]]
  BY <1>3
<1>12. QED
  BY <1>4, <1>8, <1>9, <1>10, <1>11 DEF Writes


\* What a request assigns is sound at the commit, although it looked before.
LEMMA AssignStep ==
  ASSUME StaffInv, NEW r \in Tasks, Assign(r)
  PROVE  StaffInv'
<1>1. PICK x \in TaskRecords : x = task[r] /\ x.op = "assign" /\ TaskSound(x)
  BY DEF Assign, StaffInv, StaffTypeOK, TasksSound
<1>2. Writes(x)
  BY <1>1, AssignedRows
<1>3. x.new \subseteq Scopes
  BY <1>1, TaskParts
<1>4. ProfilesMove
  BY SameProfiles DEF Assign
<1>5. NoticesMove
  <2>1. \A i \in Assignments : notice'[i] \in Notices \cup {NoNotice}
    <3>1. ASSUME NEW s \in Scopes
          PROVE  [to |-> s.auditor, read |-> FALSE] \in Notices
      BY AbsentRows DEF Notices
    <3>2. QED
      BY <1>2, <1>3, <3>1 DEF Writes, StaffInv, StaffTypeOK
  <2>2. notice' \in [Assignments -> Notices \cup {NoNotice}]
    BY <1>2, <2>1 DEF Writes
  <2>3. \A i \in Assignments : NoticeMoves(i)
    BY <1>2 DEF Writes, NoticeMoves
  <2>4. QED
    BY <2>2, <2>3 DEF NoticesMove
<1>6. AssignmentsMove
  <2>1. auditor' = auditor /\ linked' = linked
    BY DEF Assign
  <2>2. ASSUME NEW i \in Assignments
        PROVE  AssignmentMoves(i)
    <3>1. CASE assigned'[i] = assigned[i]
      BY <3>1 DEF AssignmentMoves
    <3>2. CASE assigned'[i] # assigned[i]
      <4>1. PICK s \in x.new : s = assigned'[i]
        BY <1>2, <3>2 DEF Writes
      <4>2. s \in Scopes /\ s.auditor \in DOMAIN auditor /\ (auditor[s.auditor].user => s.auditor \in x.users)
        BY <1>1, <1>3, <4>1 DEF TaskSound
      <4>3. site = "playspace" /\ s.auditor \in x.users => notice'[i] = [to |-> s.auditor, read |-> FALSE]
        BY <1>2, <3>2, <4>1 DEF Writes
      <4>4. QED
        BY <2>1, <4>1, <4>2, <4>3 DEF AssignmentMoves
    <3>3. QED
      BY <3>1, <3>2
  <2>3. \A i \in Assignments : assigned'[i] # NoAssignment =>
           <<assigned'[i].project, assigned'[i].place>> \in linked'
    BY <1>2, <2>1 DEF Writes, StaffInv, SoundAssignments
  <2>4. QED
    BY <1>2, <2>2, <2>3 DEF Writes, AssignmentsMove
<1>7. SitesMove
  BY SameSites DEF Assign
<1>8. QED
  BY <1>4, <1>5, <1>6, <1>7, NoTaskIsSound, RequestStep DEF Assign, Finish

\* The row may have become another assignment of the auditor; it is not one
\* of somebody else, whose notification would have to be there.
LEMMA RescopeStep ==
  ASSUME StaffInv, NEW r \in Tasks, Rescope(r)
  PROVE  StaffInv'
<1>1. PICK x \in TaskRecords : x = task[r] /\ x.op = "rescope" /\ TaskSound(x)
  BY DEF Rescope, StaffInv, StaffTypeOK, TasksSound
<1>2. PICK n \in Assignments, to \in Scopes : n = x.row /\ to = x.to
  BY <1>1, TaskParts
<1>3. /\ <<to.project, to.place>> \in linked /\ to \notin ScopesInUse
      /\ assigned' = [assigned EXCEPT ![n] = to]
      /\ UNCHANGED <<site, projects, places, reports, linked, auditor, notice>>
  BY <1>1, <1>2 DEF Rescope
<1>4. to.auditor \in DOMAIN auditor /\ (auditor[to.auditor].user => notice[n].to = to.auditor)
  BY <1>1, <1>2 DEF TaskSound
<1>5. /\ assigned'[n] = to /\ assigned' = [i \in Assignments |-> assigned'[i]]
      /\ \A i \in Assignments \ {n} : assigned'[i] = assigned[i]
  BY <1>3 DEF StaffInv, StaffTypeOK
<1>6. AssignmentsMove
  <2>1. \A i \in Assignments : AssignmentMoves(i)
    BY <1>3, <1>4, <1>5 DEF AssignmentMoves
  <2>2. \A i \in Assignments : assigned'[i] # NoAssignment =>
           <<assigned'[i].project, assigned'[i].place>> \in linked'
    BY <1>3, <1>5 DEF StaffInv, SoundAssignments
  <2>3. to # NoAssignment /\ \A i \in Assignments : assigned[i] # to
    BY <1>3, AbsentRows DEF ScopesInUse
  <2>4. \A i, k \in Assignments : assigned'[i] = assigned'[k] /\ assigned'[i] # NoAssignment => i = k
    BY <1>5, <2>3 DEF StaffInv, SoundAssignments
  <2>5. QED
    BY <1>5, <2>1, <2>2, <2>4 DEF AssignmentsMove
<1>7. ProfilesMove /\ NoticesMove /\ SitesMove
  BY <1>3, SameProfiles, SameNotices, SameSites
<1>8. QED
  BY <1>6, <1>7, NoTaskIsSound, RequestStep DEF Rescope, Finish

\* Deleting assignments leaves sound ones.
LEMMA UnassignedStep ==
  ASSUME StaffInv, NEW gone, Unassigned(gone)
  PROVE  StaffInv'
<1>1. ProfilesMove /\ NoticesMove /\ SitesMove
  BY SameProfiles, SameNotices, SameSites DEF Unassigned
<1>2. /\ assigned' = [i \in Assignments |-> assigned'[i]]
      /\ \A i \in Assignments : assigned'[i] \in {assigned[i], NoAssignment}
      /\ linked' = linked
  BY DEF Unassigned
<1>3. AssignmentsMove
  BY <1>2, FewerAssignments DEF StaffInv, SoundAssignments
<1>4. QED
  BY <1>1, <1>3, SingleStep DEF Unassigned

\* A notification that is read is still for the same auditor.
LEMMA ReadStep ==
  ASSUME StaffInv, NEW read \in SUBSET Assignments, Read(read), \A i \in read : notice[i] # NoNotice
  PROVE  StaffInv'
<1>1. ASSUME NEW i \in Assignments
      PROVE  notice'[i] \in Notices \cup {NoNotice} /\ notice'[i].to = notice[i].to
  <2>1. CASE i \in read
    <3>1. PICK n \in Notices : n = notice[i]
      BY <2>1 DEF StaffInv, StaffTypeOK
    <3>2. [n EXCEPT !.read = TRUE] \in Notices /\ [n EXCEPT !.read = TRUE].to = n.to
      BY DEF Notices
    <3>3. notice'[i] = [n EXCEPT !.read = TRUE]
      BY <2>1, <3>1 DEF Read
    <3>4. QED
      BY <3>1, <3>2, <3>3
  <2>2. CASE i \notin read
    BY <2>2 DEF Read, StaffInv, StaffTypeOK
  <2>3. QED
    BY <2>1, <2>2
<1>2. notice' = [i \in Assignments |-> notice'[i]]
  BY DEF Read
<1>3. NoticesMove
  BY <1>1, <1>2 DEF NoticesMove, NoticeMoves
<1>4. ProfilesMove /\ AssignmentsMove /\ SitesMove
  BY SameProfiles, SameAssignments, SameSites DEF Read
<1>5. QED
  BY <1>3, <1>4, SingleStep DEF Read

-----------------------------------------------------------------------------
(* Every behaviour *)

\* An empty database satisfies the invariant.
LEMMA StaffInitHolds ==
  ASSUME StaffInit
  PROVE  StaffInv
<1>1. DOMAIN auditor = {}
  BY DEF StaffInit
<1>2. <<>> \in Seq(Reports)
  OBVIOUS
<1>3. StaffTypeOK
  BY <1>1, <1>2, NoTaskIsSound DEF StaffInit, StaffTypeOK
<1>4. TasksSound
  BY NoTaskIsSound DEF StaffInit, TasksSound
<1>5. SoundAssignments
  BY DEF StaffInit, SoundAssignments
<1>6. QED
  BY <1>3, <1>4, <1>5 DEF StaffInv

\* A step that changes nothing.
LEMMA StaffStutterStep ==
  ASSUME StaffInv, UNCHANGED staffVars
  PROVE  StaffInv'
<1>1. ProfilesMove /\ NoticesMove /\ AssignmentsMove /\ SitesMove
  BY SameProfiles, SameNotices, SameAssignments, SameSites DEF staffVars, staffTables
<1>2. QED
  BY <1>1, SingleStep DEF staffVars

\* Every step keeps the invariant.
LEMMA StaffStep ==
  ASSUME StaffInv, [StaffNext]_staffVars
  PROVE  StaffInv'
<1>1. ASSUME NEW r \in Tasks, StaffRequest(r)
      PROVE  StaffInv'
  <2>1. ASSUME NEW j \in Projects, DeleteProjectStart(r, j)
        PROVE  StaffInv'
    BY <2>1, DeleteProjectStartStep
  <2>2. ASSUME NEW j \in Projects, NEW us \in SUBSET Auditors, NEW qs \in SUBSET Places,
               CreateBulkStart(r, j, us, qs) \/ CreateAssignmentsStart(r, j, us, qs)
        PROVE  StaffInv'
    BY <2>2, CreateBulkStartStep
  <2>3. ASSUME NEW j \in Projects, NEW u \in Auditors, NEW q \in Places, CreateAssignmentStart(r, u, j, q)
        PROVE  StaffInv'
    BY <2>3, CreateAssignmentStartStep
  <2>4. ASSUME NEW j \in Projects, NEW i \in Assignments, NEW q \in Places, RescopeStart(r, i, j, q)
        PROVE  StaffInv'
    BY <2>4, RescopeStartStep
  <2>5. ASSUME NEW q \in Places, NEW js \in SUBSET Projects, MovePlaceStart(r, q, js)
        PROVE  StaffInv'
    BY <2>5, MovePlaceStartStep
  <2>6. ASSUME NEW q \in Places, NEW z \in Reports, SaveReportStart(r, q, z)
        PROVE  StaffInv'
    BY <2>6, SaveReportStartStep
  <2>7. ASSUME NEW q \in Places, NEW n \in 1 .. Len(reports[q]), DeleteReportStart(r, q, n)
        PROVE  StaffInv'
    BY <2>7, DeleteReportStartStep
  <2>8. CASE \/ DeleteProject(r) \/ MovePlace(r) \/ WriteReports(r) \/ Assign(r) \/ Rescope(r)
             \/ Abandon(r)
    BY <2>8, DeleteProjectStep, MovePlaceStep, WriteReportsStep, AssignStep, RescopeStep, AbandonStep
  <2>9. QED
    BY <1>1, <2>1, <2>2, <2>3, <2>4, <2>5, <2>6, <2>7, <2>8 DEF StaffRequest
<1>2. ASSUME NEW j \in Projects, CreateProject(j)
      PROVE  StaffInv'
  BY <1>2, CreateProjectStep
<1>3. ASSUME NEW j \in Projects, NEW q \in Places, CreatePlaceIn(j, q) \/ RelinkPlace(q, j)
      PROVE  StaffInv'
  BY <1>3, CreatePlaceInStep, RelinkPlaceStep
<1>4. ASSUME NEW q \in Places, DeletePlace(q) \/ \E js \in SUBSET Projects : CreatePlace(q, js)
      PROVE  StaffInv'
  BY <1>4, DeletePlaceStep, CreatePlaceStep
<1>5. ASSUME NEW u \in Auditors,
             \/ \E a \in Accts : CreateAuditor(u, a)
             \/ RemoveAuditor(u) \/ EraseAuditor(u)
      PROVE  StaffInv'
  BY <1>5, CreateAuditorStep, RemoveAuditorStep, EraseAuditorStep
<1>6. ASSUME NEW u \in Auditors, MarkAllAsRead(u)
      PROVE  StaffInv'
  <2>1. PICK read : read = {i \in Assignments : notice[i].to = u}
    OBVIOUS
  <2>2. Read(read)
    BY <1>6, <2>1 DEF MarkAllAsRead
  <2>3. \A i \in read : notice[i] # NoNotice
    BY <2>1, AbsentRows
  <2>4. read \in SUBSET Assignments
    BY <2>1
  <2>5. QED
    BY <2>2, <2>3, <2>4, ReadStep
<1>7. ASSUME NEW u \in Auditors, NEW j \in Projects, NEW qs \in SUBSET Places, DeleteAssignments(u, j, qs)
      PROVE  StaffInv'
  BY <1>7, UnassignedStep DEF DeleteAssignments
<1>8. ASSUME NEW i \in Assignments, DeleteAssignment(i)
      PROVE  StaffInv'
  BY <1>8, UnassignedStep DEF DeleteAssignment
<1>9. ASSUME NEW i \in Assignments, MarkAsRead(i)
      PROVE  StaffInv'
  BY <1>9, ReadStep DEF MarkAsRead
<1>10. QED
  BY <1>1, <1>2, <1>3, <1>4, <1>5, <1>6, <1>7, <1>8, <1>9, StaffStutterStep DEF StaffNext

\* Every behaviour satisfies the invariant, for any number of projects,
\* places, auditors, assignments and overlapping requests.
THEOREM StaffInvariant == StaffSpec => []StaffInv
BY StaffInitHolds, StaffStep, PTL DEF StaffSpec

\* Projects, places, links, profiles, assignments, notifications and requests
\* have their types.
THEOREM StaffTypes == StaffSpec => []StaffTypeOK
<1>1. StaffInv => StaffTypeOK
  BY DEF StaffInv
<1>2. QED
  BY <1>1, StaffInvariant, PTL

\* An assignment is of a place that is linked to its project, no two are the
\* same, and its auditor has been told of it, whatever assigns, moves, unlinks
\* and deletes at the same time (PlayspaceAssignmentService, and the routes of
\* src/app/dashboard_router.py).
THEOREM AssignmentsAreSound == StaffSpec => []SoundAssignments
<1>1. StaffInv => SoundAssignments
  BY DEF StaffInv
<1>2. QED
  BY <1>1, StaffInvariant, PTL

-----------------------------------------------------------------------------
(* Erased auditors *)

\* Whom a step assigns has his user still, or had none when he was picked.
LEMMA NewlyAssigned ==
  ASSUME StaffInv, StaffNext, site = "playspace", NEW i \in Assignments,
         assigned[i] = NoAssignment, assigned'[i] # NoAssignment
  PROVE  \/ auditor[assigned'[i].auditor].user
         \/ \E r \in Tasks : /\ task[r].op = "assign" /\ assigned'[i] \in task[r].new
                             /\ assigned'[i].auditor \notin task[r].users
<1>1. ASSUME NEW r \in Tasks, Assign(r)
      PROVE  \/ auditor[assigned'[i].auditor].user
             \/ task[r].op = "assign" /\ assigned'[i] \in task[r].new /\ assigned'[i].auditor \notin task[r].users
  <2>1. Writes(task[r]) /\ Tellable(task[r]) /\ task[r].op = "assign"
    BY <1>1, AssignedRows DEF Assign
  <2>2. assigned'[i] \in task[r].new
    BY <2>1 DEF Writes
  <2>3. QED
    BY <2>1, <2>2 DEF Tellable
<1>2. ASSUME NEW links, assigned' = Left(links)
      PROVE  FALSE
  BY <1>2 DEF Left
<1>3. ASSUME NEW gone, Unassigned(gone)
      PROVE  FALSE
  BY <1>3 DEF Unassigned
<1>4. assigned' # assigned
  OBVIOUS
<1>5. ASSUME NEW r \in Tasks, StaffRequest(r)
      PROVE  Assign(r)
  <2>1. ~DeleteProject(r) /\ ~MovePlace(r)
    BY <1>2 DEF DeleteProject, MovePlace
  <2>2. ~WriteReports(r) /\ ~Abandon(r)
    BY <1>4 DEF WriteReports, Abandon, staffTables
  <2>3. ~Rescope(r)
    BY DEF Rescope, StaffInv, StaffTypeOK
  <2>4. /\ \A j \in Projects : ~DeleteProjectStart(r, j)
        /\ \A j \in Projects, u \in Auditors, q \in Places : ~CreateAssignmentStart(r, u, j, q)
        /\ \A j \in Projects, k \in Assignments, q \in Places : ~RescopeStart(r, k, j, q)
    BY <1>4 DEF Start, staffTables, DeleteProjectStart, CreateAssignmentStart, RescopeStart
  <2>5. \A j \in Projects, us \in SUBSET Auditors, qs \in SUBSET Places :
              ~CreateBulkStart(r, j, us, qs) /\ ~CreateAssignmentsStart(r, j, us, qs)
    BY <1>4 DEF Start, staffTables, CreateBulkStart, CreateAssignmentsStart
  <2>6. /\ \A q \in Places, js \in SUBSET Projects : ~MovePlaceStart(r, q, js)
        /\ \A q \in Places, z \in Reports : ~SaveReportStart(r, q, z)
        /\ \A q \in Places : \A n \in 1 .. Len(reports[q]) : ~DeleteReportStart(r, q, n)
    BY <1>4 DEF Start, staffTables, MovePlaceStart, SaveReportStart, DeleteReportStart
  <2>7. QED
    BY <1>5, <2>1, <2>2, <2>3, <2>4, <2>5, <2>6 DEF StaffRequest
<1>6. \A j \in Projects : ~CreateProject(j) /\ \A q \in Places : ~CreatePlaceIn(j, q) /\ ~RelinkPlace(q, j)
  BY <1>4 DEF CreateProject, CreatePlaceIn, RelinkPlace
<1>7. \A q \in Places : ~DeletePlace(q) /\ \A js \in SUBSET Projects : ~CreatePlace(q, js)
  BY <1>2, <1>4 DEF DeletePlace, CreatePlace
<1>8. \A u \in Auditors : /\ \A a \in Accts : ~CreateAuditor(u, a)
                          /\ ~RemoveAuditor(u) /\ ~EraseAuditor(u) /\ ~MarkAllAsRead(u)
  BY <1>4 DEF CreateAuditor, RemoveAuditor, EraseAuditor, MarkAllAsRead, Read
<1>9. \A u \in Auditors, j \in Projects, qs \in SUBSET Places : ~DeleteAssignments(u, j, qs)
  BY <1>3 DEF DeleteAssignments
<1>10. \A k \in Assignments : ~DeleteAssignment(k) /\ ~MarkAsRead(k)
  BY <1>3, <1>4 DEF DeleteAssignment, MarkAsRead, Read
<1>11. PICK r \in Tasks : StaffRequest(r)
  BY <1>6, <1>7, <1>8, <1>9, <1>10 DEF StaffNext
<1>12. QED
  BY <1>1, <1>5, <1>11

\* A request that saw an auditor with his user assigns him nothing once his
\* account is deleted: the notification it owes him fails.
THEOREM ErasedAuditorsGetNothing == StaffSpec => NothingForTheErased
<1>1. ASSUME StaffInv, [StaffNext]_staffVars
      PROVE  [\A i \in Assignments :
            assigned[i] = NoAssignment /\ assigned'[i] # NoAssignment /\ site = "playspace" =>
                \/ auditor[assigned'[i].auditor].user
                \/ \E r \in Tasks : task[r].op = "assign" /\ assigned'[i] \in task[r].new
                                        /\ assigned'[i].auditor \notin task[r].users]_staffVars
  BY <1>1, NewlyAssigned
<1>2. QED
  BY <1>1, StaffInvariant, PTL DEF StaffSpec, NothingForTheErased

-----------------------------------------------------------------------------
(* Support *)

\* A row is not the mark for its absence.
LEMMA ReportsAreRows ==
  /\ \A x \in ReportRows : x # NoReport
  /\ \A x \in IssueRows : x # NoIssue
BY SupportAssumption DEF ReportRows, NoReport, IssueRows, NoIssue

\* What FileStart finds: each name is gone, a link or a crumb.
LEMMA Verified ==
  ASSUME NEW role \in {"admin", "manager", "auditor"}, NEW scope \in {Home, Outside},
         NEW names \in SUBSET Kinds
  PROVE  /\ names \cap exists \subseteq Vouched(role, scope, names) \cup Crumbs(role, scope, names)
         /\ [role |-> role, account |-> scope, named |-> names,
             link |-> Vouched(role, scope, names), crumbs |-> Crumbs(role, scope, names),
             known |-> Unset] \in ReportRows
<1>1. /\ Vouched(role, scope, names) \subseteq names
      /\ Crumbs(role, scope, names) \subseteq names
      /\ names \cap exists \subseteq Vouched(role, scope, names) \cup Crumbs(role, scope, names)
  BY DEF Vouched, Crumbs
<1>2. /\ Vouched(role, scope, names) \in SUBSET Kinds
      /\ Crumbs(role, scope, names) \in SUBSET Kinds
  BY <1>1
<1>3. QED
  BY <1>1, <1>2 DEF ReportRows

\* A row that loses links is a row.
LEMMA LinkTaken ==
  ASSUME NEW x \in ReportRows, NEW gone
  PROVE  /\ [x EXCEPT !.link = @ \ gone] \in ReportRows
         /\ [x EXCEPT !.link = @ \ gone].link = x.link \ gone
         /\ [x EXCEPT !.link = @ \ gone].named = x.named
         /\ [x EXCEPT !.link = @ \ gone].crumbs = x.crumbs
         /\ [x EXCEPT !.link = @ \ gone].known = x.known
<1>1. (x.link \ gone) \in SUBSET Kinds
  BY DEF ReportRows
<1>2. QED
  BY <1>1 DEF ReportRows

\* So is one that is linked to an issue, or no more.
LEMMA Linked ==
  ASSUME NEW x \in ReportRows, NEW known \in Issues \cup {Unset}
  PROVE  /\ [x EXCEPT !.known = known] \in ReportRows
         /\ [x EXCEPT !.known = known].known = known
         /\ [x EXCEPT !.known = known].link = x.link
         /\ [x EXCEPT !.known = known].named = x.named
         /\ [x EXCEPT !.known = known].crumbs = x.crumbs
BY DEF ReportRows

\* Reports, issues and the rows they name have their types (bug_reports.py).
THEOREM SupportTypes == SupportSpec => []SupportTypeOK
<1>1. SupportInit => SupportTypeOK
  BY DEF SupportInit, SupportTypeOK, Kinds
<1>2. SupportTypeOK /\ [SupportNext]_supportVars => SupportTypeOK'
  <2> SUFFICES ASSUME SupportTypeOK, [SupportNext]_supportVars
      PROVE  SupportTypeOK'
    OBVIOUS
  <2>1. ASSUME NEW n \in Tickets, NEW role \in {"admin", "manager", "auditor"}, NEW scope \in {Home, Outside},
               NEW names \in SUBSET Kinds, FileStart(n, role, scope, names)
        PROVE  SupportTypeOK'
    BY <2>1, Verified DEF FileStart, SupportTypeOK, world
  <2>2. ASSUME NEW n \in Tickets, FileReport(n) \/ FilingFails(n)
        PROVE  SupportTypeOK'
    BY <2>2 DEF FileReport, FilingFails, SupportTypeOK, world
  <2>3. ASSUME NEW n \in Tickets, NEW known \in Issues, Triage(n, known)
        PROVE  SupportTypeOK'
    <3>1. report[n] \in ReportRows
      BY <2>3 DEF Triage, SupportTypeOK
    <3>2. [report[n] EXCEPT !.known = known] \in ReportRows
      BY <3>1, Linked
    <3>3. QED
      BY <2>3, <3>2 DEF Triage, SupportTypeOK, world
  <2>4. ASSUME NEW k \in Issues, NEW published \in BOOLEAN, CreateIssue(k, published) \/ UpdateIssue(k, published)
        PROVE  SupportTypeOK'
    <3>1. [published |-> published] \in IssueRows
      BY DEF IssueRows
    <3>2. issue' = [issue EXCEPT ![k] = [published |-> published]]
      <4>1. CASE CreateIssue(k, published)
        BY <4>1 DEF CreateIssue
      <4>2. CASE UpdateIssue(k, published)
        <5>1. issue[k] \in IssueRows
          BY <4>2 DEF UpdateIssue, SupportTypeOK
        <5>2. [issue[k] EXCEPT !.published = published] = [published |-> published]
          BY <5>1 DEF IssueRows
        <5>3. QED
          BY <4>2, <5>2 DEF UpdateIssue
      <4>3. QED
        BY <2>4, <4>1, <4>2
    <3>3. QED
      BY <2>4, <3>1, <3>2 DEF CreateIssue, UpdateIssue, SupportTypeOK, world
  <2>5. ASSUME NEW k \in Issues, DeleteIssue(k)
        PROVE  SupportTypeOK'
    <3>1. \A n \in Tickets : report[n] # NoReport => [report[n] EXCEPT !.known = Unset] \in ReportRows
      BY Linked DEF SupportTypeOK
    <3>2. report' \in [Tickets -> ReportRows \cup {NoReport}]
      BY <2>5, <3>1 DEF DeleteIssue, SupportTypeOK
    <3>3. QED
      BY <2>5, <3>2 DEF DeleteIssue, SupportTypeOK, world
  <2>6. ASSUME NEW k \in Kinds, RowDeleted(k)
        PROVE  SupportTypeOK'
    <3> DEFINE gone == {k, "submission"}
    <3>1. \A n \in Tickets : report[n] # NoReport => [report[n] EXCEPT !.link = @ \ gone] \in ReportRows
      BY LinkTaken DEF SupportTypeOK
    <3>2. report' = [n \in Tickets |->
            IF report[n] = NoReport THEN NoReport ELSE [report[n] EXCEPT !.link = @ \ gone]]
      BY <2>6 DEF RowDeleted
    <3> HIDE DEF gone
    <3>3. report' \in [Tickets -> ReportRows \cup {NoReport}]
      BY <3>1, <3>2
    <3>4. QED
      BY <2>6, <3>3 DEF RowDeleted, SupportTypeOK
  <2>7. ASSUME NEW scope \in SUBSET {"project", "place"}, Reassigned(scope)
        PROVE  SupportTypeOK'
    BY <2>7 DEF Reassigned, SupportTypeOK
  <2>8. CASE PlaceMoved
    BY <2>8 DEF PlaceMoved, SupportTypeOK
  <2>9. CASE UNCHANGED supportVars
    BY <2>9 DEF supportVars, world, SupportTypeOK
  <2>10. QED
    BY <2>1, <2>2, <2>3, <2>4, <2>5, <2>6, <2>7, <2>8, <2>9 DEF SupportNext
<1>3. QED
  BY <1>1, <1>2, PTL DEF SupportSpec

\* What a report in verification has named is accounted for, too.
FilingsKeepCrumbs ==
  \A n \in Tickets : filing[n] # NoReport =>
     /\ filing[n].named \cap exists \subseteq filing[n].link \cup filing[n].crumbs
     /\ filing[n].known = Unset

\* The promise reads rows, reports and issues only.
LEMMA CrumbsFrame ==
  ASSUME BreadcrumbsAreKept, UNCHANGED <<exists, report, issue>>
  PROVE  BreadcrumbsAreKept'
BY DEF BreadcrumbsAreKept

\* Triage keeps the breadcrumb (create_bug_report): whatever is deleted, moved
\* or reassigned while a report is verified and afterwards.
THEOREM ReportsKeepBreadcrumbs == SupportSpec => []BreadcrumbsAreKept
<1> DEFINE IInv == BreadcrumbsAreKept /\ FilingsKeepCrumbs
<1>1. SupportInit => IInv
  BY DEF SupportInit, BreadcrumbsAreKept, FilingsKeepCrumbs
<1>2. SupportTypeOK /\ IInv /\ [SupportNext]_supportVars => IInv'
  <2> SUFFICES ASSUME SupportTypeOK, BreadcrumbsAreKept, FilingsKeepCrumbs, [SupportNext]_supportVars
      PROVE  BreadcrumbsAreKept' /\ FilingsKeepCrumbs'
    OBVIOUS
  <2>1. ASSUME NEW n \in Tickets, NEW role \in {"admin", "manager", "auditor"}, NEW scope \in {Home, Outside},
               NEW names \in SUBSET Kinds, FileStart(n, role, scope, names)
        PROVE  BreadcrumbsAreKept' /\ FilingsKeepCrumbs'
    <3>1. BreadcrumbsAreKept'
      BY <2>1, CrumbsFrame DEF FileStart, world
    <3>2. FilingsKeepCrumbs'
      BY <2>1, Verified DEF FileStart, FilingsKeepCrumbs, SupportTypeOK, world
    <3>3. QED
      BY <3>1, <3>2
  <2>2. ASSUME NEW n \in Tickets, FileReport(n)
        PROVE  BreadcrumbsAreKept' /\ FilingsKeepCrumbs'
    BY <2>2 DEF FileReport, BreadcrumbsAreKept, FilingsKeepCrumbs, SupportTypeOK, world
  <2>3. ASSUME NEW n \in Tickets, FilingFails(n)
        PROVE  BreadcrumbsAreKept' /\ FilingsKeepCrumbs'
    <3>1. BreadcrumbsAreKept'
      BY <2>3, CrumbsFrame DEF FilingFails, world
    <3>2. FilingsKeepCrumbs'
      BY <2>3 DEF FilingFails, FilingsKeepCrumbs, SupportTypeOK, world
    <3>3. QED
      BY <3>1, <3>2
  <2>4. ASSUME NEW n \in Tickets, NEW known \in Issues, Triage(n, known)
        PROVE  BreadcrumbsAreKept' /\ FilingsKeepCrumbs'
    <3>1. report[n] \in ReportRows
      BY <2>4 DEF Triage, SupportTypeOK
    <3>2. BreadcrumbsAreKept'
      BY <2>4, <3>1, Linked DEF Triage, BreadcrumbsAreKept, SupportTypeOK, world
    <3>3. FilingsKeepCrumbs'
      BY <2>4 DEF Triage, FilingsKeepCrumbs, world
    <3>4. QED
      BY <3>2, <3>3
  <2>5. ASSUME NEW k \in Issues, NEW published \in BOOLEAN, CreateIssue(k, published) \/ UpdateIssue(k, published)
        PROVE  BreadcrumbsAreKept' /\ FilingsKeepCrumbs'
    <3>1. \A i \in Issues : issue[i] # NoIssue => issue'[i] # NoIssue
      <4>1. [published |-> published] # NoIssue
        BY ReportsAreRows DEF IssueRows
      <4>2. CASE CreateIssue(k, published)
        BY <4>1, <4>2 DEF CreateIssue, SupportTypeOK
      <4>3. CASE UpdateIssue(k, published)
        <5>1. issue[k] \in IssueRows
          BY <4>3 DEF UpdateIssue, SupportTypeOK
        <5>2. [issue[k] EXCEPT !.published = published] \in IssueRows
          BY <5>1 DEF IssueRows
        <5>3. QED
          BY <4>3, <5>2, ReportsAreRows DEF UpdateIssue, SupportTypeOK
      <4>4. QED
        BY <2>5, <4>2, <4>3
    <3>2. \A n \in Tickets : report[n] # NoReport => report[n].known \in Issues \cup {Unset}
      BY DEF SupportTypeOK, ReportRows
    <3>3. BreadcrumbsAreKept'
      BY <2>5, <3>1, <3>2 DEF CreateIssue, UpdateIssue, BreadcrumbsAreKept, world
    <3>4. FilingsKeepCrumbs'
      BY <2>5 DEF CreateIssue, UpdateIssue, FilingsKeepCrumbs, world
    <3>5. QED
      BY <3>3, <3>4
  <2>6. ASSUME NEW k \in Issues, DeleteIssue(k)
        PROVE  BreadcrumbsAreKept' /\ FilingsKeepCrumbs'
    <3>1. ASSUME NEW n \in Tickets, report'[n] # NoReport
          PROVE  /\ report[n] # NoReport
                 /\ report'[n].named = report[n].named /\ report'[n].link = report[n].link
                 /\ report'[n].crumbs = report[n].crumbs
                 /\ report'[n].known # Unset => report'[n].known = report[n].known /\ report[n].known # k
      <4>1. report[n] \in ReportRows
        BY <2>6, <3>1 DEF DeleteIssue, SupportTypeOK
      <4>2. QED
        BY <2>6, <3>1, <4>1, Linked, ReportsAreRows DEF DeleteIssue
    <3>2. \A n \in Tickets : report[n] # NoReport => report[n].known \in Issues \cup {Unset}
      BY DEF SupportTypeOK, ReportRows
    <3>3. \A i \in Issues \ {k} : issue'[i] = issue[i]
      BY <2>6 DEF DeleteIssue, SupportTypeOK
    <3>4. exists' = exists /\ filing' = filing
      BY <2>6 DEF DeleteIssue, world
    <3>5. BreadcrumbsAreKept'
      BY <3>1, <3>2, <3>3, <3>4 DEF BreadcrumbsAreKept
    <3>6. FilingsKeepCrumbs'
      BY <3>4 DEF FilingsKeepCrumbs
    <3>7. QED
      BY <3>5, <3>6
  <2>7. ASSUME NEW k \in Kinds, RowDeleted(k)
        PROVE  BreadcrumbsAreKept' /\ FilingsKeepCrumbs'
    <3> DEFINE gone == {k, "submission"}
    <3>1. /\ exists' = exists \ gone /\ filing' = filing /\ issue' = issue
          /\ report' = [n \in Tickets |->
               IF report[n] = NoReport THEN NoReport ELSE [report[n] EXCEPT !.link = @ \ gone]]
      BY <2>7 DEF RowDeleted
    <3> HIDE DEF gone
    <3>2. ASSUME NEW n \in Tickets, report'[n] # NoReport
          PROVE  /\ report[n] # NoReport
                 /\ report'[n].link = report[n].link \ gone
                 /\ report'[n].named = report[n].named /\ report'[n].crumbs = report[n].crumbs
                 /\ report'[n].known = report[n].known
      <4>1. report[n] # NoReport /\ report'[n] = [report[n] EXCEPT !.link = @ \ gone]
        BY <3>1, <3>2
      <4>2. report[n] \in ReportRows
        BY <4>1 DEF SupportTypeOK
      <4>3. QED
        BY <4>1, <4>2, LinkTaken
    <3>3. BreadcrumbsAreKept'
      BY <3>1, <3>2 DEF BreadcrumbsAreKept
    <3>4. FilingsKeepCrumbs'
      BY <3>1 DEF FilingsKeepCrumbs
    <3>5. QED
      BY <3>3, <3>4
  <2>8. CASE PlaceMoved \/ (\E scope \in SUBSET {"project", "place"} : Reassigned(scope)) \/ UNCHANGED supportVars
    <3>1. UNCHANGED <<exists, report, issue, filing>>
      BY <2>8 DEF PlaceMoved, Reassigned, supportVars, world
    <3>2. QED
      BY <3>1, CrumbsFrame DEF FilingsKeepCrumbs
  <2>9. QED
    BY <2>1, <2>2, <2>3, <2>4, <2>5, <2>6, <2>7, <2>8 DEF SupportNext
<1>3. IInv => BreadcrumbsAreKept
  OBVIOUS
<1>4. QED
  BY <1>1, <1>2, <1>3, SupportTypes, PTL DEF SupportSpec

-----------------------------------------------------------------------------
(* The components together *)

\* Whichever component moves, each runs as it does alone: its steps are its own,
\* and while another moves it stutters.
LEMMA ComponentsRun ==
  AdminSpec => OrgSpec /\ StaffSpec /\ InstrSpec /\ CredSpec /\ SupportSpec
<1>1. AdminInit => OrgInit /\ StaffInit /\ InstrInit /\ CredInit /\ SupportInit
  BY DEF AdminInit
<1>2. [AdminNext]_adminVars => [OrgNext]_orgVars
  BY DEF AdminNext, adminVars
<1>3. [AdminNext]_adminVars => [StaffNext]_staffVars
  BY DEF AdminNext, adminVars
<1>4. [AdminNext]_adminVars => [InstrNext]_instrVars
  BY DEF AdminNext, adminVars
<1>5. [AdminNext]_adminVars => [CredNext]_credVars
  BY DEF AdminNext, adminVars
<1>6. [AdminNext]_adminVars => [SupportNext]_supportVars
  BY DEF AdminNext, adminVars
<1>7. QED
  BY <1>1, <1>2, <1>3, <1>4, <1>5, <1>6, PTL
     DEF AdminSpec, OrgSpec, StaffSpec, InstrSpec, CredSpec, SupportSpec

\* In every state of the run `administration' each variable has a value of its type:
\* rows that the tables of models.py can hold, requests that the handlers can be in.
THEOREM AdministrationTypes == AdminSpec => []AdministrationTypeOK
<1>1. OrgTypeOK /\ StaffTypeOK /\ InstrTypeOK /\ CredTypeOK /\ SupportTypeOK
         => AdministrationTypeOK
  BY DEF AdministrationTypeOK
<1>2. QED
  BY <1>1, ComponentsRun, OrganisationTypes, StaffTypes, InstrumentsTypes, CredentialsTypes,
     SupportTypes, PTL
=============================================================================
