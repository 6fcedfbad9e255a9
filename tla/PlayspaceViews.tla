--------------------------- MODULE PlayspaceViews ---------------------------
(***************************************************************************)
(* What Playspace's dashboards, lists and exports show: some thirty        *)
(* queries, written one by one, over the same five tables.  The tables are *)
(* the state, a view is an operator, and a mean stands for the submissions *)
(* over which it is taken.  Names, dates, order, pages, the text search    *)
(* and the limits of lists (100, 500 and the export's) are left out.       *)
(***************************************************************************)
EXTENDS Naturals, FiniteSets, Totals

CONSTANTS
    Programs, Venues, Surveyors,   \* projects, places, auditor profiles
    Orgs, HomeOf,                  \* accounts; HomeOf[j]: the account of a project
    Asked,                         \* Asked[mode]: the axes that have questions in a mode;
                                   \* bound: its domain, the modes that occur
    Sessions,                      \* bound: who may work where, <<auditor, project, place>>
    MaxWork,                       \* bound: submissions at a time, and assignments
    Detached                       \* NULL, as the account of an auditor profile

ASSUME ViewsAssumption ==
    /\ IsFiniteSet(Programs) /\ IsFiniteSet(Venues) /\ IsFiniteSet(Surveyors) /\ IsFiniteSet(Orgs)
    /\ HomeOf \in [Programs -> Orgs] /\ Detached \notin Orgs
    /\ Sessions \subseteq Surveyors \X Programs \X Venues
    /\ DOMAIN Asked \subseteq {"audit", "survey", "both"}
    /\ \A mode \in DOMAIN Asked : Asked[mode] \subseteq {"audit", "survey"}

Axes == {"audit", "survey"}

VARIABLES
    sited,          \* project_places: pairs of project and place
    roster,         \* the account of each auditor profile
    engaged,         \* auditor_assignments, in Sessions
    work,           \* work[k]: the row of playspace_submissions of k, or NoWork
    saving          \* the submissions that a draft save has loaded

viewVars == <<sited, roster, engaged, work, saving>>

NoWork == [status |-> "none"]
WorkRows == [status : {"IN_PROGRESS", "SUBMITTED"}, mode : Axes \cup {"both", "unset"},
             scored : SUBSET Axes]

ViewsTypeOK ==
    /\ sited \subseteq Programs \X Venues
    /\ roster \in [Surveyors -> Orgs \cup {Detached}]
    /\ engaged \subseteq Sessions
    /\ work \in [Sessions -> WorkRows \cup {NoWork}]
    /\ saving \subseteq Sessions

ViewsInit ==
    /\ sited = {} /\ engaged = {} /\ saving = {}
    /\ roster \in [Surveyors -> Orgs]
    /\ work = [k \in Sessions |-> NoWork]

-----------------------------------------------------------------------------
(* What changes the tables *)

Work == {k \in Sessions : work[k] # NoWork}

Site(j, q) ==
    /\ <<j, q>> \notin sited
    /\ sited' = sited \cup {<<j, q>>}
    /\ UNCHANGED <<roster, engaged, work, saving>>

\* A pair that goes takes its assignments and submissions with it.
Unsite(j, q) ==
    /\ <<j, q>> \in sited
    /\ sited' = sited \ {<<j, q>>}
    /\ engaged' = {k \in engaged : <<k[2], k[3]>> # <<j, q>>}
    /\ work' = [k \in Sessions |-> IF <<k[2], k[3]>> = <<j, q>> THEN NoWork ELSE work[k]]
    /\ saving' = saving \cap {k \in Sessions : work'[k] # NoWork}
    /\ UNCHANGED roster

Engage(k) ==
    /\ <<k[2], k[3]>> \in sited /\ k \notin engaged
    /\ Cardinality(engaged) < MaxWork
    /\ engaged' = engaged \cup {k}
    /\ UNCHANGED <<sited, roster, work, saving>>

Disengage(k) ==
    /\ k \in engaged
    /\ engaged' = engaged \ {k}
    /\ UNCHANGED <<sited, roster, work, saving>>

Detach(u) ==
    /\ roster[u] # Detached
    /\ roster' = [roster EXCEPT ![u] = Detached]
    /\ UNCHANGED <<sited, engaged, work, saving>>

\* An auditor who deletes his account leaves what he submitted.
Erase(u) ==
    /\ roster' = [roster EXCEPT ![u] = Detached]
    /\ engaged' = {k \in engaged : k[1] # u}
    /\ work' = [k \in Sessions |->
                    IF k[1] = u /\ work[k].status # "SUBMITTED" THEN NoWork ELSE work[k]]
    /\ saving' = saving \cap {k \in Sessions : work'[k] # NoWork}
    /\ UNCHANGED sited

Open(k, mode) ==
    /\ k \in engaged /\ work[k] = NoWork
    /\ Cardinality(Work) < MaxWork
    /\ work' = [work EXCEPT ![k] = [status |-> "IN_PROGRESS", mode |-> mode, scored |-> {}]]
    /\ UNCHANGED <<sited, roster, engaged, saving>>

\* A save reads the draft, and may write its mode after it was submitted.
SaveStart(k) ==
    /\ work[k].status = "IN_PROGRESS" /\ saving = {}
    /\ saving' = saving \cup {k}
    /\ UNCHANGED <<sited, roster, engaged, work>>

\* (A mistake: a save also writes the score columns.)
Save_Bug(k, mode) ==
    /\ k \in saving
    /\ work' = [work EXCEPT ![k].mode = mode, ![k].scored = Axes]
    /\ saving' = saving \ {k}
    /\ UNCHANGED <<sited, roster, engaged>>

Save(k, mode) ==
    /\ k \in saving
    /\ work' = [work EXCEPT ![k].mode = mode]
    /\ saving' = saving \ {k}
    /\ UNCHANGED <<sited, roster, engaged>>

\* Only here are the score columns written: for an axis that has questions.
SubmitWork(k) ==
    /\ work[k].status = "IN_PROGRESS" /\ work[k].mode # "unset"
    /\ work' = [work EXCEPT ![k].status = "SUBMITTED", ![k].scored = Asked[work[k].mode]]
    /\ UNCHANGED <<sited, roster, engaged, saving>>

ViewsNext ==
    \/ \E j \in Programs, q \in Venues : Site(j, q) \/ Unsite(j, q)
    \/ \E u \in Surveyors : Detach(u) \/ Erase(u)
    \/ \E k \in Sessions :
        \/ Engage(k) \/ Disengage(k) \/ SaveStart(k) \/ SubmitWork(k)
        \/ \E mode \in DOMAIN Asked \cup {"unset"} : Open(k, mode) \/ Save(k, mode)

ViewsSpec == ViewsInit /\ [][ViewsNext]_viewVars

-----------------------------------------------------------------------------
(* What the views share *)

\* An empty filter lets everything pass.
Passes(x, chosen) == chosen = {} \/ x \in chosen

WorkIn(j) == {k \in Work : k[2] = j}
WorkAt(j, q) == {k \in Work : k[2] = j /\ k[3] = q}
VenuesOf(j) == {q \in Venues : <<j, q>> \in sited}
EngagedIn(j) == {k[1] : k \in {e \in engaged : e[2] = j}}

OfStatus(statuses, S) == {k \in S : work[k].status \in statuses}
Submitted(S) == OfStatus({"SUBMITTED"}, S)
Underway(S) == OfStatus({"IN_PROGRESS", "PAUSED"}, S)

Includes(mode, axis) == mode \in {axis, "both"}
On(axis, S) == {k \in S : Includes(work[k].mode, axis)}

\* The submissions that an average of the axis' score columns is over.
Mean(axis, S) == {k \in S : axis \in work[k].scored}
Means(S) == [axis \in Axes |-> Mean(axis, S)]

\* _place_rollup.py, over rows that Python holds
ActivityStatus(S) ==
    IF \E k \in S : work[k].status = "SUBMITTED" THEN "submitted"
    ELSE IF \E k \in S : work[k].status \in {"IN_PROGRESS", "PAUSED"} THEN "in_progress"
    ELSE "not_started"

RowStatus(S) ==
    IF \E k \in S : work[k].status \in {"IN_PROGRESS", "PAUSED"} THEN "in_progress"
    ELSE IF \E k \in S : work[k].status = "SUBMITTED" THEN "submitted"
    ELSE "not_started"

Rollup(S) ==
    [status |-> [axis \in Axes |-> ActivityStatus(On(axis, S))],
     count  |-> [axis \in Axes |-> Cardinality(On(axis, S))],
     means  |-> Means(Submitted(S))]

\* The same, grouped by the database
GroupedStatus(submitted, active) ==
    IF submitted > 0 THEN "submitted" ELSE IF active > 0 THEN "in_progress" ELSE "not_started"

Grouped(S) ==
    [status |-> [axis \in Axes |-> GroupedStatus(Cardinality(On(axis, Submitted(S))),
                                                 Cardinality(On(axis, Underway(S))))],
     count  |-> [axis \in Axes |-> Cardinality(On(axis, S))],
     means  |-> [axis \in Axes |-> Mean(axis, Submitted(S))]]

PlaceRow(j, q, rollup) ==
    [program |-> j, venue |-> q, rollup |-> rollup,
     completed |-> Cardinality(Submitted(WorkAt(j, q)))]

\* Rows of lists of projects and of auditors.  The averages of a project have
\* no filter on the status.
ProjectRow(j, means) ==
    [program |-> j, places |-> Cardinality(VenuesOf(j)), means |-> means,
     auditors |-> Cardinality(EngagedIn(j)), completed |-> Cardinality(Submitted(WorkIn(j)))]

AuditorRow(u) ==
    [surveyor |-> u, assignments |-> Cardinality({k \in engaged : k[1] = u}),
     completed |-> Cardinality({k \in Submitted(Work) : k[1] = u})]

-----------------------------------------------------------------------------
(* Managers.  A manager of organisation a asks for account b. *)

InScope(a, b) == a = b

Owned(a, b) == {j \in Programs : InScope(a, b) /\ HomeOf[j] = b}
OwnedWork(a, b) == {k \in Work : k[2] \in Owned(a, b)}
OwnedSites(a, b) == {s \in sited : s[1] \in Owned(a, b)}

AccountProjects(a, b) == {ProjectRow(j, Means(WorkIn(j))) : j \in Owned(a, b)}

PlaceRows(a, b, js, us) ==
    {PlaceRow(s[1], s[2], Rollup(WorkAt(s[1], s[2]))) :
        s \in {s \in OwnedSites(a, b) : /\ Passes(s[1], js)
                                        /\ us = {} \/ \E k \in WorkAt(s[1], s[2]) : k[1] \in us}}

HasStatus(row, axis, statuses) == Passes(row.rollup.status[axis], statuses)

AccountPlaces(a, b, js, us, statuses) ==
    {row \in PlaceRows(a, b, js, us) : \A axis \in Axes : HasStatus(row, axis, statuses[axis])}

\* The summary is over the rows before the filter on statuses.
PlacesSummary(a, b, js, us) ==
    LET rows == PlaceRows(a, b, js, us)
        With(status) == {row \in rows : RowStatus(WorkAt(row.program, row.venue)) = status} IN
    [total |-> Cardinality(rows), submitted |-> Cardinality(With("submitted")),
     underway |-> Cardinality(With("in_progress")),
     completed |-> [axis \in Axes |->
        Cardinality({row \in rows : row.rollup.status[axis] = "submitted"})]]

AccountAudits(a, b, js, us, qs, statuses) ==
    {k \in OwnedWork(a, b) : /\ Passes(k[2], js) /\ Passes(k[1], us) /\ Passes(k[3], qs)
                             /\ Passes(work[k].status, statuses)}

\* The summary is over all of the account.
AuditsSummary(a, b) ==
    LET all == OwnedWork(a, b) IN
    [total |-> Cardinality(all), submitted |-> Cardinality(Submitted(all)),
     underway |-> Cardinality(Underway(all)), means |-> Means(all)]

\* A place counts once for each of the account's projects that it is in.
AccountDetail(a, b) ==
    [projects |-> Cardinality(Owned(a, b)), places |-> Cardinality(OwnedSites(a, b)),
     auditors |-> Cardinality({u \in Surveyors : InScope(a, b) /\ roster[u] = b}),
     completed |-> Cardinality(Submitted(OwnedWork(a, b)))]

AccountAuditors(a, b) == {AuditorRow(u) : u \in {u \in Surveyors : InScope(a, b) /\ roster[u] = b}}

\* A paused audit is not in progress here.
ProjectStats(j) ==
    LET loaded == UNION {WorkAt(j, q) : q \in VenuesOf(j)} IN
    [places |-> Cardinality(VenuesOf(j)), auditors |-> Cardinality(EngagedIn(j)),
     started |-> Cardinality({q \in VenuesOf(j) : WorkAt(j, q) # {}}),
     completed |-> Cardinality(Submitted(loaded)),
     underway |-> Cardinality(OfStatus({"IN_PROGRESS"}, loaded)),
     means |-> [q \in VenuesOf(j) |-> Means(Submitted(WorkAt(j, q)))]]

ProjectPlaces(j) == {PlaceRow(j, q, Rollup(WorkAt(j, q))) : q \in VenuesOf(j)}

PlaceAudits(j, q) == IF q \in VenuesOf(j) THEN WorkAt(j, q) ELSE {}

PlaceHistory(j, q) ==
    LET audits == WorkAt(j, q) IN
    [total |-> Cardinality(audits), submitted |-> Cardinality(Submitted(audits)),
     underway |-> Cardinality(Underway(audits)), audits |-> PlaceAudits(j, q),
     rollup |-> Rollup(audits)]

\* Exports hold what is submitted, whatever statuses the caller names.
ExportProjects(a, b, js) ==
    {ProjectRow(j, Means(Submitted(WorkIn(j)))) : j \in {j \in Owned(a, b) : Passes(j, js)}}

ExportPlaces(a, b, js, qs, statuses) ==
    {row \in {PlaceRow(s[1], s[2], Grouped(WorkAt(s[1], s[2]))) : s \in OwnedSites(a, b)} :
        /\ Passes(row.program, js) /\ Passes(row.venue, qs)
        /\ \A axis \in Axes : HasStatus(row, axis, statuses[axis])}

ExportAuditors(a, b, js, qs) ==
    {row \in AccountAuditors(a, b) :
        /\ js = {} \/ \E k \in engaged : k[1] = row.surveyor /\ k[2] \in js
        /\ qs = {} \/ \E k \in engaged : k[1] = row.surveyor /\ k[3] \in qs}

ExportAudits(a, b, js, us, qs) ==
    Submitted({k \in OwnedWork(a, b) : Passes(k[2], js) /\ Passes(k[1], us) /\ Passes(k[3], qs)})

ExportReports(a, b, js) == ExportAudits(a, b, js, {}, {})

NoBundle == [projects |-> {}, places |-> {}, auditors |-> {}, audits |-> {}]
AnyStatus == [axis \in Axes |-> {}]

ProjectsBundle(a, b, js) ==
    LET ids == IF js # {} THEN js ELSE {row.program : row \in ExportProjects(a, b, {})} IN
    IF ids = {} THEN NoBundle
    ELSE [projects |-> ExportProjects(a, b, ids),
          places   |-> ExportPlaces(a, b, ids, {}, AnyStatus),
          auditors |-> ExportAuditors(a, b, ids, {}),
          audits   |-> ExportAudits(a, b, ids, {}, {})]

\* The filters give the places, which are then exported with all their rows,
\* those of projects and statuses outside the filters too.
PlacesBundle(a, b, js, qs, statuses) ==
    LET ids == IF qs # {} THEN qs ELSE {row.venue : row \in ExportPlaces(a, b, js, {}, statuses)} IN
    IF ids = {} THEN NoBundle
    ELSE [projects |-> {},
          places   |-> ExportPlaces(a, b, {}, ids, AnyStatus),
          auditors |-> ExportAuditors(a, b, {}, ids),
          audits   |-> ExportAudits(a, b, {}, {}, ids)]

-----------------------------------------------------------------------------
(* Administrators: everything, or some accounts *)

OfAccounts(accounts) == {j \in Programs : Passes(HomeOf[j], accounts)}

Overview ==
    [projects |-> Cardinality(Programs), auditors |-> Cardinality(Surveyors),
     total |-> Cardinality(Work), submitted |-> Cardinality(Submitted(Work)),
     underway |-> Cardinality(Underway(Work))]

AdminAccount(b) ==
    [account |-> b, projects |-> Cardinality({j \in Programs : HomeOf[j] = b}),
     places |-> Cardinality({s \in sited : HomeOf[s[1]] = b}),
     auditors |-> Cardinality({u \in Surveyors : roster[u] = b})]

AdminProjects(accounts) == {ProjectRow(j, Means(WorkIn(j))) : j \in OfAccounts(accounts)}

AdminPlaces(accounts, js, statuses) ==
    {row \in {PlaceRow(s[1], s[2], Grouped(WorkAt(s[1], s[2]))) : s \in sited} :
        /\ row.program \in OfAccounts(accounts) /\ Passes(row.program, js)
        /\ \A axis \in Axes : HasStatus(row, axis, statuses[axis])}

AdminAuditors(accounts, js, qs) ==
    {AuditorRow(u) : u \in {u \in Surveyors :
        /\ Passes(roster[u], accounts)
        /\ js = {} \/ \E k \in engaged : k[1] = u /\ k[2] \in js
        /\ qs = {} \/ \E k \in engaged : k[1] = u /\ k[3] \in qs}}

AdminAudits(accounts, js, us, qs, statuses) ==
    {k \in Work : /\ k[2] \in OfAccounts(accounts)
                  /\ Passes(k[2], js) /\ Passes(k[1], us) /\ Passes(k[3], qs)
                  /\ Passes(work[k].status, statuses)}

AdminExportProjects(accounts, js) ==
    {ProjectRow(j, Means(Submitted(WorkIn(j)))) : j \in {j \in OfAccounts(accounts) : Passes(j, js)}}

AdminExportPlaces(accounts, js, qs, statuses) ==
    {row \in AdminPlaces(accounts, js, statuses) : Passes(row.venue, qs)}

AdminExportAudits(accounts, js, qs) ==
    Submitted({k \in Work : k[2] \in OfAccounts(accounts) /\ Passes(k[2], js) /\ Passes(k[3], qs)})

AdminExportReports(accounts, js) == AdminExportAudits(accounts, js, {})

\* Either filter is enough, where a manager's export needs both.
AdminExportAuditors(js, qs) ==
    {AuditorRow(u) : u \in {k[1] : k \in {e \in engaged : e[2] \in js \/ e[3] \in qs}}}

AdminProjectsBundle(accounts, js) ==
    LET ids == IF js # {} THEN js ELSE {row.program : row \in AdminExportProjects(accounts, {})} IN
    IF ids = {} THEN NoBundle
    ELSE [projects |-> AdminExportProjects({}, ids),
          places   |-> AdminExportPlaces({}, ids, {}, AnyStatus),
          auditors |-> AdminExportAuditors(ids, {}),
          audits   |-> AdminExportAudits({}, ids, {})]

AdminPlacesBundle(accounts, js, qs, statuses) ==
    LET ids == IF qs # {} THEN qs
               ELSE {row.venue : row \in AdminExportPlaces(accounts, js, {}, statuses)} IN
    IF ids = {} THEN NoBundle
    ELSE [projects |-> {},
          places   |-> AdminExportPlaces({}, {}, ids, AnyStatus),
          auditors |-> AdminExportAuditors({}, ids),
          audits   |-> AdminExportAudits({}, {}, ids)]

-----------------------------------------------------------------------------
(* Auditors *)

\* _derive_place_axis_status, of the auditor's one submission
OwnStatus(k, axis) ==
    IF work[k] = NoWork \/ ~Includes(work[k].mode, axis) THEN "not_started"
    ELSE IF work[k].status = "SUBMITTED" THEN "submitted" ELSE "in_progress"

CompositeStatus(mode, status) ==
    IF mode \in Axes THEN status[mode]
    ELSE IF \A axis \in Axes : status[axis] = "submitted" THEN "submitted"
    ELSE IF \E axis \in Axes : status[axis] = "in_progress" THEN "in_progress"
    ELSE "not_started"

AuditorPlace(k) ==
    LET status == [axis \in Axes |-> OwnStatus(k, axis)]
        mode == IF work[k] = NoWork THEN "unset" ELSE work[k].mode IN
    [program |-> k[2], venue |-> k[3], status |-> status,
     composite |-> CompositeStatus(mode, status)]

AuditorPlaces(u, statuses) ==
    {row \in {AuditorPlace(k) : k \in {k \in engaged : k[1] = u}} : Passes(row.composite, statuses)}

AuditorAudits(u, statuses) == {k \in Work : k[1] = u /\ Passes(work[k].status, statuses)}

\* Submissions without an assignment are subtracted too, but never below zero.
AuditorSummary(u) ==
    LET assigned == Cardinality({k \in engaged : k[1] = u})
        own == {k \in Work : k[1] = u}
        open == Cardinality(Underway(own))
        done == Cardinality(Submitted(own)) IN
    [assigned |-> assigned, underway |-> open, submitted |-> done,
     pending |-> IF assigned > open + done THEN assigned - open - done ELSE 0]

-----------------------------------------------------------------------------
(* Properties *)

\* What the managers of all accounts are shown is what an administrator is,
\* and nobody is shown another account.
PartsMakeTheWhole ==
    /\ UNION {AccountProjects(b, b) : b \in Orgs} = AdminProjects({})
    /\ UNION {ExportProjects(b, b, {}) : b \in Orgs} = AdminExportProjects({}, {})
    /\ UNION {AccountPlaces(b, b, {}, {}, AnyStatus) : b \in Orgs} = AdminPlaces({}, {}, AnyStatus)
    /\ UNION {AccountAudits(b, b, {}, {}, {}, {}) : b \in Orgs} = AdminAudits({}, {}, {}, {}, {})
    /\ UNION {ExportReports(b, b, {}) : b \in Orgs} = AdminExportReports({}, {})
    /\ \A b \in Orgs :
        /\ AccountProjects(b, b) = AdminProjects({b})
        /\ AccountAuditors(b, b) = AdminAuditors({b}, {}, {})
        /\ LET detail == AccountDetail(b, b) IN
           [account |-> b, projects |-> detail.projects, places |-> detail.places,
            auditors |-> detail.auditors] = AdminAccount(b)
        /\ \A a \in Orgs \ {b} :
            /\ AccountPlaces(a, b, {}, {}, AnyStatus) = {} /\ AccountAudits(a, b, {}, {}, {}, {}) = {}
            /\ \A row \in ExportProjects(a, a, Programs) : HomeOf[row.program] = a

\* Python's rollup of a place and the database's are the same row, in the
\* account's list, the project's list, the place's history and the exports,
\* for every filter on statuses.
OneRowPerPlace ==
    /\ \A b \in Orgs, axis \in Axes :
            LET busy == [AnyStatus EXCEPT ![axis] = {"in_progress", "submitted"}] IN
            AccountPlaces(b, b, {}, {}, busy) = ExportPlaces(b, b, {}, {}, busy)
    /\ \A s \in sited :
            /\ \E row \in ProjectPlaces(s[1]) : row.venue = s[2] /\ row \in AdminPlaces({}, {s[1]}, AnyStatus)
            /\ PlaceHistory(s[1], s[2]).rollup = Grouped(WorkAt(s[1], s[2]))

\* The counts of a project, of an account and of everything are those of their
\* places, and averages that do not ask for submitted audits are over the same
\* audits as those that do: a submission never is where no list would find it,
\* and a draft carries no score.
TotalsAddUp ==
    LET total(rows) == Total([row \in rows |-> row.completed]) IN
    /\ \A j \in Programs :
        LET row == CHOOSE row \in AdminProjects({}) : row.program = j
            stats == ProjectStats(j) IN
        /\ row.completed = stats.completed /\ row.completed = total(ProjectPlaces(j))
        /\ row.completed = Cardinality(AdminExportAudits({}, {j}, {}))
        /\ row.places = stats.places /\ row.auditors = stats.auditors
        /\ row \in AdminExportProjects({}, {j})
        /\ \A axis \in Axes : row.means[axis] = UNION {stats.means[q][axis] : q \in VenuesOf(j)}
        /\ stats.completed + stats.underway =
               Total([q \in VenuesOf(j) |-> PlaceHistory(j, q).total])
    /\ \A b \in Orgs :
        LET summary == AuditsSummary(b, b) IN
        /\ summary.submitted = AccountDetail(b, b).completed
        /\ summary.submitted = total(AccountPlaces(b, b, {}, {}, AnyStatus))
        /\ summary.total = summary.submitted + summary.underway
        /\ summary.means = Means(ExportReports(b, b, {}))
        /\ LET places == PlacesSummary(b, b, {}, {}) IN
           /\ places.submitted + places.underway <= places.total
           /\ \A axis \in Axes : places.completed[axis] <= places.submitted + places.underway
    /\ Overview.submitted = Total([b \in Orgs |-> AccountDetail(b, b).completed])
    /\ Overview.total = Total([u \in Surveyors |-> Cardinality(AuditorAudits(u, {}))])

\* Every audit of a bundle is of a project and a place of the bundle.
BundlesAreClosed ==
    LET Closed(bundle) ==
            /\ \A k \in bundle.audits :
                    \E row \in bundle.places : row.program = k[2] /\ row.venue = k[3]
            /\ \A row \in bundle.places : bundle.projects # {} =>
                    \E p \in bundle.projects : p.program = row.program IN
    \A j \in Programs :
        LET own == PlacesBundle(HomeOf[j], HomeOf[j], {j}, {}, AnyStatus)
            admins == AdminPlacesBundle({}, {j}, {}, AnyStatus) IN
        /\ Closed(own) /\ Closed(admins) /\ own.audits \subseteq admins.audits
        /\ Closed(ProjectsBundle(HomeOf[j], HomeOf[j], {j})) /\ Closed(AdminProjectsBundle({}, {j}))
        /\ Closed(ProjectsBundle(HomeOf[j], HomeOf[j], {})) /\ Closed(AdminProjectsBundle({}, {}))

\* An auditor and his managers see the same progress.
AuditorsAreInThePicture ==
    \A u \in Surveyors :
        LET summary == AuditorSummary(u) IN
        /\ summary.underway + summary.submitted = Cardinality(AuditorAudits(u, {}))
        /\ summary.assigned = Cardinality(AuditorPlaces(u, {}))
        /\ AuditorRow(u).completed = summary.submitted
        /\ \A row \in AuditorPlaces(u, {"in_progress", "submitted"}), axis \in Axes :
            /\ row.status[axis] # "not_started" =>
                   PlaceHistory(row.program, row.venue).rollup.status[axis] # "not_started"
            /\ row.status[axis] = "submitted" =>
                   PlaceHistory(row.program, row.venue).rollup.status[axis] = "submitted"

\* All views tell one story of the tables, in every state that linking,
\* assigning, auditing, removing and erasing reach.
ViewsAgree ==
    /\ PartsMakeTheWhole
    /\ OneRowPerPlace
    /\ TotalsAddUp
    /\ BundlesAreClosed
    /\ AuditorsAreInThePicture
=============================================================================
