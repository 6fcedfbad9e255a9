------------------------------ MODULE Staffing ------------------------------
(***************************************************************************)
(* Projects, their places, the auditors and who is assigned to audit what: *)
(* the Playspace management and assignment services with the notifications *)
(* they send, and the routes of the YEE dashboard that do the same.        *)
(*                                                                         *)
(* A request whose guards are only repeated by the constraints of the      *)
(* tables is one step.  One that remembers what it read is two or three:   *)
(* it begins with its reads and guards, then writes against the database   *)
(* of that moment and commits.  A write that a constraint refuses rolls    *)
(* the request back.                                                       *)
(*                                                                         *)
(* Left out is what only displays read: the attributes of projects and     *)
(* places, and projects.place_types, which a second transaction of the     *)
(* Playspace place operations recomputes from the places.                  *)
(***************************************************************************)
EXTENDS Naturals, Sequences, SequencesExt

CONSTANTS
    Projects, Places, Auditors,
    Assignments,    \* identities for rows of auditor_assignments
    Reports,        \* saved place reports (bound: each is saved once)
    Tasks,          \* bound: how many requests are in progress at a time
    OwnerOf,        \* the account of a project, which never changes
    None            \* no such row

ASSUME StaffingAssumption ==
    /\ None \notin Auditors \cup Projects \cup Places
    /\ DOMAIN OwnerOf = Projects /\ None \notin {OwnerOf[j] : j \in Projects}

VARIABLES
    site,           \* which product's database this is
    projects,       \* the projects that exist
    places,         \* the places that exist
    reports,        \* reports[q]: places.saved_place_reports
    linked,         \* the rows of project_places
    auditor,        \* auditor[u]: the row of auditor_profiles
    assigned,       \* assigned[i]: a row of auditor_assignments, or NoAssignment
    notice,         \* notice[i]: the notification of assignment i, or NoNotice
    task            \* task[r]: the request r has in progress, or NoTask

staffTables == <<site, projects, places, reports, linked, auditor, assigned, notice>>
staffVars == <<staffTables, task>>

-----------------------------------------------------------------------------
(* Rows and requests *)

Accts == {OwnerOf[j] : j \in Projects}

\* A profile is created with its user; it loses its organisation when the
\* manager removes the auditor, and its user when he deletes his account.
Profiles == [home : Accts \cup {None}, user : BOOLEAN]

NoAssignment == [auditor |-> None, project |-> None, place |-> None]
Scopes == [auditor : Auditors, project : Projects, place : Places]

NoNotice == [to |-> None, read |-> FALSE]
Notices == [to : Auditors, read : BOOLEAN]

NoTask == [op |-> "none"]
TaskRecords ==
    {NoTask}
    \cup [op : {"delete project"}, project : Projects]
    \cup [op : {"move place"}, place : Places, from : SUBSET Projects, to : SUBSET Projects]
    \cup [op : {"assign"}, new : SUBSET Scopes, users : SUBSET Auditors]
    \cup [op : {"rescope"}, row : Assignments, to : Scopes]
    \cup [op : {"reports"}, place : Places, new : Seq(Reports)]

StaffTypeOK ==
    /\ site \in {"yee", "playspace"}
    /\ projects \subseteq Projects
    /\ places \subseteq Places
    /\ reports \in [Places -> Seq(Reports)]
    /\ linked \subseteq projects \X places
    /\ DOMAIN auditor \subseteq Auditors
    /\ \A u \in DOMAIN auditor : auditor[u] \in Profiles
    /\ assigned \in [Assignments -> Scopes \cup {NoAssignment}]
    /\ notice \in [Assignments -> Notices \cup {NoNotice}]
    /\ task \in [Tasks -> TaskRecords]

StaffInit ==
    /\ site \in {"yee", "playspace"}
    /\ projects = {} /\ places = {} /\ linked = {} /\ auditor = <<>>
    /\ reports = [q \in Places |-> <<>>]
    /\ assigned = [i \in Assignments |-> NoAssignment]
    /\ notice = [i \in Assignments |-> NoNotice]
    /\ task = [r \in Tasks |-> NoTask]

Start(r, x) ==
    /\ task[r] = NoTask
    /\ task' = [task EXCEPT ![r] = x]
    /\ UNCHANGED staffTables

Finish(r) == task' = [task EXCEPT ![r] = NoTask]

\* A write that fails, or a connection that does.
Abandon(r) ==
    /\ task[r] # NoTask
    /\ Finish(r)
    /\ UNCHANGED staffTables

-----------------------------------------------------------------------------
(* Constraints of the tables *)

AssignmentsOf(j) == {i \in Assignments : assigned[i].project = j}

\* fk_auditor_assignments_project_place_pair, ON DELETE CASCADE: assignments
\* go with the link of their place to their project.  (Definitions named
\* ..._Bug are mistakes the properties would notice: here, no cascade.)
Left_Bug(links) == assigned

Left(links) ==
    [i \in Assignments |->
        IF <<assigned[i].project, assigned[i].place>> \in links THEN assigned[i] ELSE NoAssignment]

ScopesInUse == {assigned[i] : i \in Assignments} \ {NoAssignment}

LinkedProjects(q) == {j \in projects : <<j, q>> \in linked}

-----------------------------------------------------------------------------
(* Projects *)

CreateProject(j) ==
    /\ j \notin projects
    /\ projects' = projects \cup {j}
    /\ UNCHANGED <<site, places, reports, linked, auditor, assigned, notice, task>>

\* The mapper detaches the assignments it finds of a project before it deletes
\* the project, and their project_id may not be null: such a project stays.
DeleteProjectStart(r, j) ==
    /\ site = "playspace" /\ j \in projects
    /\ AssignmentsOf(j) = {}
    /\ Start(r, [op |-> "delete project", project |-> j])

\* (A mistake: the links of the project stay.)
DeleteProject_Bug(r) ==
    /\ task[r].op = "delete project"
    /\ projects' = projects \ {task[r].project}
    /\ Finish(r)
    /\ UNCHANGED <<site, places, reports, linked, auditor, assigned, notice>>

\* Assignments that came since go with the links.
DeleteProject(r) ==
    LET links == {l \in linked : l[1] # task[r].project} IN
    /\ task[r].op = "delete project"
    /\ projects' = projects \ {task[r].project}
    /\ linked' = links
    /\ assigned' = Left(links)
    /\ Finish(r)
    /\ UNCHANGED <<site, places, reports, auditor, notice>>

-----------------------------------------------------------------------------
(* Places *)

\* _validate_project_ids: at least one project, all of one account.
Validated(js) ==
    /\ js # {} /\ js \subseteq projects
    /\ \A j, k \in js : OwnerOf[j] = OwnerOf[k]

CreatePlace(q, js) ==
    /\ site = "playspace" /\ q \notin places
    /\ Validated(js)
    /\ places' = places \cup {q}
    /\ linked' = linked \cup (js \X {q})
    /\ UNCHANGED <<site, projects, reports, auditor, assigned, notice, task>>

\* YEE's create_place has one project.
CreatePlaceIn(j, q) ==
    /\ site = "yee" /\ q \notin places /\ j \in projects
    /\ places' = places \cup {q}
    /\ linked' = linked \cup {<<j, q>>}
    /\ UNCHANGED <<site, projects, reports, auditor, assigned, notice, task>>

\* update_place of Playspace with other projects reads the links of the place
\* and later deletes and inserts rows; links found gone are no error.
MovePlaceStart(r, q, js) ==
    /\ site = "playspace" /\ q \in places
    /\ LinkedProjects(q) # {} /\ Validated(js)
    /\ Start(r, [op |-> "move place", place |-> q, from |-> LinkedProjects(q), to |-> js])

MovePlace(r) ==
    LET x == task[r]
        added == x.to \ x.from
        links == (linked \ ((x.from \ x.to) \X {x.place})) \cup (added \X {x.place}) IN
    /\ x.op = "move place"
    /\ x.place \in places /\ added \subseteq projects \ LinkedProjects(x.place)
    /\ linked' = links
    /\ assigned' = Left(links)
    /\ Finish(r)
    /\ UNCHANGED <<site, projects, places, reports, auditor, notice>>

\* YEE's update_place changes the project of the only link of the place,
\* which the constraint forbids while assignments refer to it.
RelinkPlace(q, j) ==
    /\ site = "yee" /\ q \in places /\ j \in projects
    /\ \E k \in projects :
        /\ LinkedProjects(q) = {k} /\ OwnerOf[k] = OwnerOf[j] /\ k # j
        /\ \A i \in AssignmentsOf(k) : assigned[i].place # q
        /\ linked' = (linked \ {<<k, q>>}) \cup {<<j, q>>}
    /\ UNCHANGED <<site, projects, places, reports, auditor, assigned, notice, task>>

DeletePlace(q) ==
    LET links == {l \in linked : l[2] # q} IN
    /\ site = "playspace"
    /\ q \in places /\ LinkedProjects(q) # {}
    /\ places' = places \ {q}
    /\ reports' = [reports EXCEPT ![q] = <<>>]
    /\ linked' = links
    /\ assigned' = Left(links)
    /\ UNCHANGED <<site, projects, auditor, notice, task>>

\* save_place_report and delete_place_report read the list, change it, and
\* write all of it.
Reportable(q) == site = "playspace" /\ q \in places /\ LinkedProjects(q) # {}

SaveReportStart(r, q, x) ==
    /\ Reportable(q)
    /\ \A p \in Places : x \notin Range(reports[p])
    /\ Start(r, [op |-> "reports", place |-> q, new |-> Append(reports[q], x)])

DeleteReportStart(r, q, n) ==
    /\ Reportable(q)
    /\ n \in 1 .. Len(reports[q])
    /\ Start(r, [op |-> "reports", place |-> q, new |-> RemoveAt(reports[q], n)])

WriteReports(r) ==
    LET x == task[r] IN
    /\ x.op = "reports" /\ x.place \in places
    /\ reports' = [reports EXCEPT ![x.place] = x.new]
    /\ Finish(r)
    /\ UNCHANGED <<site, projects, places, linked, auditor, assigned, notice>>

-----------------------------------------------------------------------------
(* Auditors *)

\* create_auditor_profile; its duplicate checks repeat unique columns.
CreateAuditor(u, a) ==
    /\ u \notin DOMAIN auditor
    /\ auditor' = [v \in DOMAIN auditor \cup {u} |->
                    IF v = u THEN [home |-> a, user |-> TRUE] ELSE auditor[v]]
    /\ UNCHANGED <<site, projects, places, reports, linked, assigned, notice, task>>

\* delete_auditor_profile keeps every record, and unlinks the profile.
RemoveAuditor(u) ==
    /\ site = "playspace" /\ u \in DOMAIN auditor
    /\ auditor' = [auditor EXCEPT ![u].home = None]
    /\ UNCHANGED <<site, projects, places, reports, linked, assigned, notice, task>>

\* delete_account: the user row and its notifications go, the profile stays
\* as a tombstone without assignments.
EraseAuditor(u) ==
    /\ site = "playspace"
    /\ u \in DOMAIN auditor /\ auditor[u].user
    /\ auditor' = [auditor EXCEPT ![u].user = FALSE]
    /\ notice' = [i \in Assignments |-> IF notice[i].to = u THEN NoNotice ELSE notice[i]]
    /\ assigned' = [i \in Assignments |->
                        IF assigned[i].auditor = u THEN NoAssignment ELSE assigned[i]]
    /\ UNCHANGED <<site, projects, places, reports, linked, task>>

-----------------------------------------------------------------------------
(* Assignments *)

Scope(u, j, q) == [auditor |-> u, project |-> j, place |-> q]

\* _validate_assignment_scope and _ensure_assignment_scope_is_unique.
Assignable(scope) ==
    /\ scope.auditor \in DOMAIN auditor
    /\ <<scope.project, scope.place>> \in linked
    /\ scope \notin ScopesInUse

AssignTask(new) ==
    [op |-> "assign", new |-> new,
     users |-> {u \in {s.auditor : s \in new} : auditor[u].user}]

CreateAssignmentStart(r, u, j, q) ==
    /\ site = "playspace"
    /\ Assignable(Scope(u, j, q))
    /\ Start(r, AssignTask({Scope(u, j, q)}))

\* All pairs of the auditors us and the places qs that are not assigned yet.
CreateBulkStart(r, j, us, qs) ==
    LET new == {Scope(u, j, q) : u \in us, q \in qs} \ ScopesInUse IN
    /\ site = "playspace"
    /\ j \in projects /\ us \subseteq DOMAIN auditor
    /\ \A q \in qs : <<j, q>> \in linked
    /\ new # {}
    /\ Start(r, AssignTask(new))

\* The same in YEE, for auditors of the project's account.
CreateAssignmentsStart(r, j, us, qs) ==
    LET new == {Scope(u, j, q) : u \in us, q \in qs} \ ScopesInUse IN
    /\ site = "yee"
    /\ j \in projects /\ us \subseteq DOMAIN auditor
    /\ \A u \in us : auditor[u].home = OwnerOf[j]
    /\ \A q \in qs : <<j, q>> \in linked
    /\ new # {}
    /\ Start(r, AssignTask(new))

\* The notification's user must exist: a notification that fails takes the
\* whole request with it.  (A mistake: its failure is ignored.)
Tellable_Bug(x) == TRUE

Tellable(x) ==
    site = "playspace" => \A s \in x.new : s.auditor \in x.users => auditor[s.auditor].user

\* Nobody else has assigned one of the pairs, or removed a link, meanwhile.
Assign(r) ==
    LET x == task[r] IN
    /\ x.op = "assign"
    /\ x.new \cap ScopesInUse = {}
    /\ \A s \in x.new : <<s.project, s.place>> \in linked
    /\ Tellable(x)
    /\ \E rows \in [x.new -> {i \in Assignments : assigned[i] = NoAssignment /\ notice[i] = NoNotice}] :
        LET told == {s \in x.new : site = "playspace" /\ s.auditor \in x.users} IN
        /\ \A s, t \in x.new : rows[s] = rows[t] => s = t
        /\ assigned' = [i \in Assignments |->
                IF \E s \in x.new : rows[s] = i THEN CHOOSE s \in x.new : rows[s] = i
                ELSE assigned[i]]
        /\ notice' = [i \in Assignments |->
                IF \E s \in told : rows[s] = i
                THEN [to |-> (CHOOSE s \in told : rows[s] = i).auditor, read |-> FALSE]
                ELSE notice[i]]
    /\ Finish(r)
    /\ UNCHANGED <<site, projects, places, reports, linked, auditor>>

\* update_assignment gives a row another project and place.
RescopeStart(r, i, j, q) ==
    LET to == [assigned[i] EXCEPT !.project = j, !.place = q] IN
    /\ site = "playspace" /\ assigned[i] # NoAssignment
    /\ Assignable(to)
    /\ Start(r, [op |-> "rescope", row |-> i, to |-> to])

Rescope(r) ==
    LET x == task[r] IN
    /\ x.op = "rescope"
    /\ assigned[x.row] # NoAssignment
    /\ <<x.to.project, x.to.place>> \in linked
    /\ x.to \notin ScopesInUse
    /\ assigned' = [assigned EXCEPT ![x.row] = x.to]
    /\ Finish(r)
    /\ UNCHANGED <<site, projects, places, reports, linked, auditor, notice>>

\* delete_assignment: one row in Playspace; in YEE an auditor's row of one
\* place, or his rows of the whole project.
Unassigned(gone) ==
    /\ assigned' = [i \in Assignments |-> IF i \in gone THEN NoAssignment ELSE assigned[i]]
    /\ UNCHANGED <<site, projects, places, reports, linked, auditor, notice, task>>

DeleteAssignment(i) ==
    /\ site = "playspace" /\ assigned[i] # NoAssignment
    /\ Unassigned({i})

DeleteAssignments(u, j, qs) ==
    LET gone == {i \in AssignmentsOf(j) : assigned[i].auditor = u /\ assigned[i].place \in qs} IN
    /\ site = "yee" /\ j \in projects /\ u \in DOMAIN auditor
    /\ auditor[u].home = OwnerOf[j]
    /\ qs = Places \/ \E q \in Places : qs = {q} /\ <<j, q>> \in linked
    /\ gone # {}
    /\ Unassigned(gone)

\* mark_as_read of one notification, mark_all_as_read of a user's.
Read(read) ==
    /\ notice' = [i \in Assignments |->
                    IF i \in read THEN [notice[i] EXCEPT !.read = TRUE] ELSE notice[i]]
    /\ UNCHANGED <<site, projects, places, reports, linked, auditor, assigned, task>>

MarkAsRead(i) == notice[i] # NoNotice /\ Read({i})

MarkAllAsRead(u) ==
    Read({i \in Assignments : notice[i].to = u})

-----------------------------------------------------------------------------

StaffRequest(r) ==
    \/ \E j \in Projects :
        \/ DeleteProjectStart(r, j)
        \/ \E us \in SUBSET Auditors, qs \in SUBSET Places :
                CreateBulkStart(r, j, us, qs) \/ CreateAssignmentsStart(r, j, us, qs)
        \/ \E u \in Auditors, q \in Places : CreateAssignmentStart(r, u, j, q)
        \/ \E i \in Assignments, q \in Places : RescopeStart(r, i, j, q)
    \/ \E q \in Places :
        \/ \E js \in SUBSET Projects : MovePlaceStart(r, q, js)
        \/ \E x \in Reports : SaveReportStart(r, q, x)
        \/ \E n \in 1 .. Len(reports[q]) : DeleteReportStart(r, q, n)
    \/ DeleteProject(r) \/ MovePlace(r) \/ WriteReports(r) \/ Assign(r) \/ Rescope(r) \/ Abandon(r)

StaffNext ==
    \/ \E r \in Tasks : StaffRequest(r)
    \/ \E j \in Projects : CreateProject(j) \/ \E q \in Places : CreatePlaceIn(j, q) \/ RelinkPlace(q, j)
    \/ \E q \in Places : DeletePlace(q) \/ \E js \in SUBSET Projects : CreatePlace(q, js)
    \/ \E u \in Auditors :
        \/ \E a \in Accts : CreateAuditor(u, a)
        \/ RemoveAuditor(u) \/ EraseAuditor(u) \/ MarkAllAsRead(u)
        \/ \E j \in Projects, qs \in SUBSET Places : DeleteAssignments(u, j, qs)
    \/ \E i \in Assignments : DeleteAssignment(i) \/ MarkAsRead(i)

StaffSpec == StaffInit /\ [][StaffNext]_staffVars

-----------------------------------------------------------------------------
(* Properties *)

\* Assignments that several requests make, move and lose at once stay sound:
\* each is of an existing pair of project and place, no two are the same, and
\* its auditor has been told of it if he can read it.
SoundAssignments ==
    /\ \A i \in Assignments : assigned[i] # NoAssignment =>
        /\ <<assigned[i].project, assigned[i].place>> \in linked
        /\ assigned[i].auditor \in DOMAIN auditor
        /\ site = "playspace" /\ auditor[assigned[i].auditor].user
            => notice[i].to = assigned[i].auditor
    /\ \A i, k \in Assignments : assigned[i] = assigned[k] /\ assigned[i] # NoAssignment => i = k

\* A request that found an auditor with his user assigns him nothing once his
\* account is deleted, although it only looked before: what an erased auditor
\* gets is assigned by requests that knew.
NothingForTheErased ==
    [][\A i \in Assignments :
            assigned[i] = NoAssignment /\ assigned'[i] # NoAssignment /\ site = "playspace" =>
                \/ auditor[assigned'[i].auditor].user
                \/ \E r \in Tasks : task[r].op = "assign" /\ assigned'[i] \in task[r].new
                                        /\ assigned'[i].auditor \notin task[r].users]_staffVars
=============================================================================
