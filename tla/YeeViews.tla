------------------------------ MODULE YeeViews ------------------------------
(***************************************************************************)
(* What YEE's dashboard, lists, reports and the auditor's own pages show.  *)
(* Some queries reach the fieldwork through the audits, others through the *)
(* submissions and the places; they agree only because a place stays in    *)
(* one project once work refers to it.                                     *)
(*                                                                         *)
(* Requests are atomic here (YeeDelivery interleaves them): all that one   *)
(* of them could get wrong, the foreign keys of the link between place and *)
(* project refuse at its commit.  Scores, names, dates and order are left  *)
(* out, and so are the limits of the latest audits (6 and 8).              *)
(***************************************************************************)
EXTENDS Naturals, FiniteSets, Totals

CONSTANTS
    Fields, Spots, Walkers,   \* projects, places, auditor profiles
    Firms, FirmOf,            \* accounts; FirmOf[j]: the account of a project
    Unplaced                  \* no project, no account

ASSUME YeeViewsAssumption ==
    /\ IsFiniteSet(Fields) /\ IsFiniteSet(Spots) /\ IsFiniteSet(Walkers)
    /\ FirmOf \in [Fields -> Firms] /\ Unplaced \notin Fields \cup Firms

VARIABLES
    lot,      \* lot[q]: the project of a place, or Unplaced while it is not created
    crew,     \* crew[u]: the account of an auditor profile, or Unplaced
    tasks,    \* auditor_assignments: auditor, place and project
    shells,   \* shells[k]: the audit row of auditor and place k, or NoShell
    sheets    \* the pairs that have a row in yee_audit_submissions

yeeViewVars == <<lot, crew, tasks, shells, sheets>>

Visits == Walkers \X Spots
NoShell == [project |-> Unplaced, status |-> "none"]

YeeViewsTypeOK ==
    /\ lot \in [Spots -> Fields \cup {Unplaced}]
    /\ crew \in [Walkers -> Firms \cup {Unplaced}]
    /\ tasks \subseteq Walkers \X Spots \X Fields
    /\ shells \in [Visits -> [project : Fields, status : {"draft", "submitted"}] \cup {NoShell}]
    /\ sheets \subseteq Visits

\* Nothing, or one submitted audit of the time before there were submission rows.
YeeViewsInit ==
    /\ crew = [u \in Walkers |-> Unplaced]
    /\ tasks = {} /\ sheets = {}
    /\ \/ lot = [q \in Spots |-> Unplaced] /\ shells = [k \in Visits |-> NoShell]
       \/ \E k \in Visits, j \in Fields :
            /\ lot = [q \in Spots |-> IF q = k[2] THEN j ELSE Unplaced]
            /\ shells = [m \in Visits |-> IF m = k THEN [project |-> j, status |-> "submitted"]
                                                   ELSE NoShell]

-----------------------------------------------------------------------------
(* What changes the tables *)

AddPlace(q, j) ==
    /\ lot[q] = Unplaced
    /\ lot' = [lot EXCEPT ![q] = j]
    /\ UNCHANGED <<crew, tasks, shells, sheets>>

\* (A mistake: the link moves under the work that was done.)
Unreferenced_Bug(q) == \A t \in tasks : t[2] # q \/ t[3] # lot[q]

\* Nothing refers to the link of q: the foreign keys of assignments and audits
\* do not follow a change of its project, they refuse it.
Unreferenced(q) ==
    /\ \A t \in tasks : t[2] # q \/ t[3] # lot[q]
    /\ \A u \in Walkers : shells[<<u, q>>].project # lot[q]

\* The manager of both projects moves a place.
Relocate(q, j) ==
    /\ lot[q] # Unplaced /\ lot[q] # j
    /\ FirmOf[lot[q]] = FirmOf[j]
    /\ Unreferenced(q)
    /\ lot' = [lot EXCEPT ![q] = j]
    /\ UNCHANGED <<crew, tasks, shells, sheets>>

\* An administrator approves an auditor, for the first time or again, into an
\* account; assignments and audits stay where they are.
ApproveInto(u, a) ==
    /\ crew' = [crew EXCEPT ![u] = a]
    /\ UNCHANGED <<lot, tasks, shells, sheets>>

\* A manager makes himself an auditor of his account.
CreateOwnProfile(u, a) ==
    /\ crew[u] = Unplaced
    /\ crew' = [crew EXCEPT ![u] = a]
    /\ UNCHANGED <<lot, tasks, shells, sheets>>

CreateTask(u, q) ==
    /\ lot[q] # Unplaced /\ crew[u] = FirmOf[lot[q]]
    /\ tasks' = tasks \cup {<<u, q, lot[q]>>}
    /\ UNCHANGED <<lot, crew, shells, sheets>>

DeleteTask(t) ==
    /\ t \in tasks /\ crew[t[1]] = FirmOf[t[3]]
    /\ tasks' = tasks \ {t}
    /\ UNCHANGED <<lot, crew, shells, sheets>>

Written(t, status) ==
    shells' = [shells EXCEPT ![<<t[1], t[2]>>] = [project |-> t[3], status |-> status]]

SaveDraft(t) ==
    /\ t \in tasks /\ <<t[1], t[2]>> \notin sheets
    /\ shells[<<t[1], t[2]>>].status # "submitted"
    /\ Written(t, "draft")
    /\ UNCHANGED <<lot, crew, tasks, sheets>>

\* The audit and its submission are written in one transaction.
HandIn(t) ==
    /\ t \in tasks /\ <<t[1], t[2]>> \notin sheets
    /\ Written(t, "submitted")
    /\ sheets' = sheets \cup {<<t[1], t[2]>>}
    /\ UNCHANGED <<lot, crew, tasks>>

\* The manager's edit makes a submission of any audit.
EditAudit(k) ==
    /\ shells[k] # NoShell
    /\ shells' = [shells EXCEPT ![k].status = "submitted"]
    /\ sheets' = sheets \cup {k}
    /\ UNCHANGED <<lot, crew, tasks>>

-----------------------------------------------------------------------------
(* Readers: a manager sees his account, an administrator everything *)

Everything == [scope |-> "everything"]
Readers == {Everything} \cup {[scope |-> "account", of |-> a] : a \in Firms}

Covers(s, a) == s = Everything \/ s.of = a

ScopedFields(s) == {j \in Fields : Covers(s, FirmOf[j])}
ScopedSpots(s) == {q \in Spots : lot[q] \in ScopedFields(s)}
ScopedWalkers(s) == {u \in Walkers : s = Everything \/ crew[u] = s.of}

Shelled == {k \in Visits : shells[k] # NoShell}
Delivered == {k \in Visits : shells[k].status = "submitted"}

\* Audits in K that belong to project j, to place q.
OfField(K, j) == {k \in K : shells[k].project = j}
OfSpot(K, q) == {k \in K : k[2] = q}
OfWalker(K, u) == {k \in K : k[1] = u}
Within(K, s) == {k \in K : shells[k].project \in ScopedFields(s)}

\* The list of audits, which also asks that the auditor be in the account.
AuditList(s) == {k \in Within(Shelled, s) : k[1] \in ScopedWalkers(s)}

\* Opening it writes the submissions its rows lack, where their answers can be scored.
OpenAudits(s) ==
    \E K \in SUBSET ((AuditList(s) \cap Delivered) \ sheets) :
        /\ K # {}
        /\ sheets' = sheets \cup K
        /\ UNCHANGED <<lot, crew, tasks, shells>>

\* So does opening a project, whatever the account of the auditor.
OpenProject(j) ==
    \E K \in SUBSET (OfField(Delivered, j) \ sheets) :
        /\ K # {}
        /\ sheets' = sheets \cup K
        /\ UNCHANGED <<lot, crew, tasks, shells>>

YeeViewsNext ==
    \/ \E q \in Spots, j \in Fields : AddPlace(q, j) \/ Relocate(q, j)
    \/ \E u \in Walkers, a \in Firms : ApproveInto(u, a) \/ CreateOwnProfile(u, a)
    \/ \E u \in Walkers, q \in Spots : CreateTask(u, q)
    \/ \E t \in tasks : DeleteTask(t) \/ SaveDraft(t) \/ HandIn(t)
    \/ \E k \in Visits : EditAudit(k)
    \/ \E s \in Readers : OpenAudits(s)
    \/ \E j \in Fields : OpenProject(j)

YeeViewsSpec == YeeViewsInit /\ [][YeeViewsNext]_yeeViewVars

-----------------------------------------------------------------------------
(* Lists *)

ProjectList(s) ==
    [j \in ScopedFields(s) |->
        LET here == {q \in Spots : lot[q] = j} IN
        [places |-> Cardinality(here),
         audits |-> Cardinality({k \in OfField(Shelled, j) : k[2] \in here})]]

PlaceList(s) ==
    [q \in ScopedSpots(s) |->
        [audits   |-> Cardinality(OfField(OfSpot(Shelled, q), lot[q])),
         auditors |-> {t[1] : t \in {t \in tasks : t[2] = q /\ t[3] = lot[q]}}
                      \cap ScopedWalkers(s)]]

\* The rows that an update answers with are counted anew.
UpdatedProject(j) ==
    [places |-> Cardinality({q \in Spots : lot[q] = j}),
     audits |-> Cardinality(OfField(Shelled, j))]

UpdatedPlace(s, q) ==
    [audits   |-> Cardinality(OfSpot(Shelled, q)),
     auditors |-> {u \in ScopedWalkers(s) : <<u, q, lot[q]>> \in tasks}]

AuditorList(s) ==
    [u \in ScopedWalkers(s) |->
        [places    |-> {t[2] : t \in {t \in tasks : t[1] = u /\ t[3] \in ScopedFields(s)}},
         completed |-> Within(OfWalker(Delivered, u), s)]]

\* The projects the administrator's list of users shows for an auditor.
ProjectsOfAuditor(u) == {t[3] : t \in {t \in tasks : t[1] = u}}

-----------------------------------------------------------------------------
(* Details *)

ProjectDetail(s, j) ==
    LET here == {q \in Spots : lot[q] = j}
        tasked(u) == {t[2] : t \in {t \in tasks : t[1] = u /\ t[3] = j}} \cap here IN
    [places    |-> [q \in here |-> Cardinality(OfField(OfSpot(Shelled, q), j))],
     submitted |-> Cardinality(OfField(Delivered, j)),
     latest    |-> OfField(Shelled, j),
     auditors  |-> [u \in {u \in ScopedWalkers(s) : tasked(u) # {}} |->
                     [places    |-> Cardinality(tasked(u)),
                      completed |-> OfField(OfWalker(Delivered, u), j)]]]

\* The reports start from the submissions and reach the project through the place.
Reported(s) == {k \in sheets : lot[k[2]] \in ScopedFields(s)}

Comparisons(s) ==
    LET rows == Reported(s)
    IN [q \in {k[2] : k \in rows} |-> OfSpot(rows, q)]

PlaceDetail(s, q) ==
    [total     |-> Cardinality(OfSpot(Shelled, q)),
     submitted |-> Cardinality(OfSpot(Delivered, q)),
     compared  |-> LET groups == Comparisons(s) IN IF q \in DOMAIN groups THEN groups[q] ELSE {},
     auditors  |-> [u \in {u \in ScopedWalkers(s) : <<u, q, lot[q]>> \in tasks} |->
                     Cardinality(OfSpot(OfWalker(Delivered, u), q))]]

-----------------------------------------------------------------------------
(* Totals *)

DashboardOverview(s) ==
    [projects |-> Cardinality(ScopedFields(s)),
     places   |-> Cardinality(IF s = Everything THEN {q \in Spots : lot[q] # Unplaced}
                                                ELSE ScopedSpots(s)),
     auditors |-> Cardinality(ScopedWalkers(s)),
     audits   |-> Cardinality(IF s = Everything THEN Delivered ELSE Within(Delivered, s))]

OrganizationSummary(a) ==
    [projects |-> Cardinality({j \in Fields : FirmOf[j] = a}),
     places   |-> Cardinality({q \in Spots : lot[q] # Unplaced /\ FirmOf[lot[q]] = a}),
     audits   |-> Cardinality({k \in Delivered : FirmOf[shells[k].project] = a})]

-----------------------------------------------------------------------------
(* The pages of an auditor, and single audits *)

MyPlaces(u) ==
    [q \in {q \in Spots : <<u, q, lot[q]>> \in tasks} |->
        Cardinality(OfField({<<u, q>>}, lot[q]))]

MyAudits(u) == OfWalker(sheets, u)

MayOpenSubmission(a, k) == k \in sheets /\ lot[k[2]] # Unplaced /\ FirmOf[lot[k[2]]] = a

MayEdit(a, k) == k \in Shelled /\ FirmOf[shells[k].project] = a

-----------------------------------------------------------------------------
(* Agreement *)

\* The overview, the summary of an organization, the lists and the details count
\* the same places and the same audits.
NumbersAddUp(s) ==
    LET all == DashboardOverview(s) projects == ProjectList(s) places == PlaceList(s) IN
    /\ all.places = Total([j \in DOMAIN projects |-> projects[j].places])
    /\ all.places = Cardinality(DOMAIN places)
    /\ all.audits = Total([j \in DOMAIN projects |-> ProjectDetail(s, j).submitted])
    /\ all.audits = Total([q \in DOMAIN places |-> PlaceDetail(s, q).submitted])
    /\ \A j \in DOMAIN projects :
         LET detail == ProjectDetail(s, j) IN
         /\ projects[j] = UpdatedProject(j)
         /\ projects[j].places = Cardinality(DOMAIN detail.places)
         /\ projects[j].audits = Total(detail.places)
         /\ projects[j].audits = Cardinality(detail.latest)
         /\ \A q \in DOMAIN detail.places :
              /\ places[q] = UpdatedPlace(s, q)
              /\ detail.places[q] = places[q].audits
              /\ places[q].audits = PlaceDetail(s, q).total
    /\ s # Everything =>
         LET sum == OrganizationSummary(s.of) IN
         /\ sum.projects = all.projects /\ sum.places = all.places /\ sum.audits = all.audits

\* The reports hold each submission once.  They lack a submitted audit only
\* until a list that shows it has been opened, and a manager may open
\* and edit exactly the submissions that his reports hold.
ReportsAreComplete(s) ==
    LET rows == Reported(s) groups == Comparisons(s) IN
    /\ UNION {groups[q] : q \in DOMAIN groups} = rows
    /\ rows \subseteq Within(Delivered, s)
    /\ Within(Delivered, s) \ rows \subseteq Delivered \ sheets
    /\ (UNION {MyAudits(u) : u \in Walkers}) \cap Within(Visits, s) = rows
    /\ s # Everything =>
         /\ rows = {k \in Visits : MayOpenSubmission(s.of, k)}
         /\ rows = {k \in sheets : MayEdit(s.of, k)}

\* An auditor's places and audits are the same wherever they are shown; only what
\* he did for another account, or before he left this one, is missing from it.
AuditorsAgree(s) ==
    LET auditors == AuditorList(s) places == PlaceList(s) IN
    /\ \A u \in DOMAIN auditors :
         /\ auditors[u].places = DOMAIN MyPlaces(u) \cap DOMAIN places
         /\ auditors[u].places = {q \in DOMAIN places : u \in places[q].auditors}
         /\ \A q \in auditors[u].places :
              /\ lot[q] \in ProjectsOfAuditor(u)
              /\ PlaceDetail(s, q).auditors[u] <= MyPlaces(u)[q]
         /\ \A j \in ScopedFields(s) :
              LET shown == ProjectDetail(s, j).auditors IN
              u \in DOMAIN shown =>
                /\ shown[u].completed \subseteq auditors[u].completed
                /\ shown[u].places = Cardinality({q \in auditors[u].places : lot[q] = j})
    /\ Within(Delivered, s) \ UNION {auditors[u].completed : u \in DOMAIN auditors}
         = {k \in Within(Delivered, s) : k[1] \notin ScopedWalkers(s)}
    /\ AuditList(s) = {k \in Within(Shelled, s) : k[1] \in DOMAIN auditors}

\* Whoever asks, and through whichever page: the dashboard, the lists, the details,
\* the reports and the auditors' own pages of YEE tell one story.
YeeViewsAgree ==
    \A s \in Readers : NumbersAddUp(s) /\ ReportsAreComplete(s) /\ AuditorsAgree(s)
=============================================================================
