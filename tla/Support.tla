------------------------------ MODULE Support ------------------------------
(***************************************************************************)
(* Bug reports and known issues.  A reporter names the project, the place  *)
(* and the submission he was working on.  The service verifies each name   *)
(* with reads of its own and then inserts the report: what the reporter    *)
(* can reach becomes a foreign key, what he cannot reach becomes a crumb   *)
(* in the report's context.  The rows may go while it does so.  There is   *)
(* one row of each kind, in organisation Home.                             *)
(***************************************************************************)
CONSTANTS
    Tickets,        \* identities for rows of bug_reports
    Issues,         \* identities for rows of known_issues
    Home, Outside,   \* the rows' organisation, and another
    Unset           \* NULL

ASSUME SupportAssumption == Home # Outside /\ Unset \notin Issues \cup BOOLEAN

Kinds == {"project", "place", "submission"}

VARIABLES
    tool,           \* which product's database this is
    exists,         \* the kinds whose row exists
    assignedTo,     \* the rows that the reporter has an assignment to
    wrote,          \* whether the reporter is the submission's auditor
    inside,         \* whether the place is in a project of Home
    report,         \* report[n]: a row of bug_reports, or NoReport
    issue,          \* issue[k]: a row of known_issues, or NoIssue
    filing          \* filing[n]: the report that is being verified, or NoReport

world == <<tool, exists, assignedTo, wrote, inside>>
supportVars == <<world, report, issue, filing>>

NoReport == [role |-> "none"]
ReportRows == [role : {"admin", "manager", "auditor"}, account : {Home, Outside},
               named : SUBSET Kinds, link : SUBSET Kinds, crumbs : SUBSET Kinds,
               known : Issues \cup {Unset}]

NoIssue == [published |-> Unset]
IssueRows == [published : BOOLEAN]

SupportTypeOK ==
    /\ tool \in {"yee", "playspace"}
    /\ exists \subseteq Kinds /\ assignedTo \subseteq {"project", "place"}
    /\ wrote \in BOOLEAN /\ inside \in BOOLEAN
    /\ report \in [Tickets -> ReportRows \cup {NoReport}]
    /\ issue \in [Issues -> IssueRows \cup {NoIssue}]
    /\ filing \in [Tickets -> ReportRows \cup {NoReport}]

-----------------------------------------------------------------------------
(* Who can reach what *)

\* Managers reach what is in their organisation.  The submission is in its
\* project's in Playspace, and where its place is in YEE.
OwnedBy(account, kind) ==
    /\ account = Home
    /\ kind = "place" \/ (kind = "submission" /\ tool = "yee") => inside

\* _auditor_has_assignment, and the submission's own auditor
WorksOn(kind) == IF kind = "submission" THEN wrote ELSE kind \in assignedTo

\* In YEE a manager may also be an auditor.
Reaches(role, account, kind) ==
    \/ role = "admin"
    \/ role = "manager" /\ OwnedBy(account, kind)
    \/ (role = "auditor" \/ tool = "yee") /\ WorksOn(kind)

\* What becomes of a name: of a row that is gone not even a crumb is kept.
Vouched(role, account, named) == {k \in named \cap exists : Reaches(role, account, k)}
Crumbs_Bug(role, account, named) == {k \in named \cap exists : ~Reaches(role, account, k) /\ k # "submission"}
Crumbs(role, account, named) == {k \in named \cap exists : ~Reaches(role, account, k)}

-----------------------------------------------------------------------------
(* Reporting and triage *)

\* _verify_project, _verify_place and _verify_submission read one after the
\* other; a row that goes in between counts as gone before or after them all.
FileStart(n, role, account, named) ==
    /\ report[n] = NoReport /\ filing[n] = NoReport
    /\ filing' = [filing EXCEPT ![n] =
            [role |-> role, account |-> account, named |-> named,
             link |-> Vouched(role, account, named), crumbs |-> Crumbs(role, account, named),
             known |-> Unset]]
    /\ UNCHANGED <<world, report, issue>>

\* The foreign keys are checked again by the database.
FileReport(n) ==
    /\ filing[n] # NoReport
    /\ filing[n].link \subseteq exists
    /\ report' = [report EXCEPT ![n] = filing[n]]
    /\ filing' = [filing EXCEPT ![n] = NoReport]
    /\ UNCHANGED <<world, issue>>

FilingFails(n) ==
    /\ filing[n] # NoReport
    /\ filing' = [filing EXCEPT ![n] = NoReport]
    /\ UNCHANGED <<world, report, issue>>

\* An administrator links an issue (a status he sets is left out).  One that
\* does not exist refuses the whole update, as its foreign key would.
Triage(n, known) ==
    /\ report[n] # NoReport
    /\ issue[known] # NoIssue
    /\ report' = [report EXCEPT ![n].known = known]
    /\ UNCHANGED <<world, issue, filing>>

CreateIssue(k, published) ==
    /\ issue[k] = NoIssue
    /\ issue' = [issue EXCEPT ![k] = [published |-> published]]
    /\ UNCHANGED <<world, report, filing>>

UpdateIssue(k, published) ==
    /\ issue[k] # NoIssue
    /\ issue' = [issue EXCEPT ![k].published = published]
    /\ UNCHANGED <<world, report, filing>>

DeleteIssue(k) ==
    /\ issue[k] # NoIssue
    /\ issue' = [issue EXCEPT ![k] = NoIssue]
    /\ report' = [n \in Tickets |->
            IF report[n] # NoReport /\ report[n].known = k THEN [report[n] EXCEPT !.known = Unset] ELSE report[n]]
    /\ UNCHANGED <<world, filing>>

-----------------------------------------------------------------------------
(* The rows that reports name *)

\* ON DELETE SET NULL; a submission goes with its project or its place.
RowDeleted(k) ==
    LET gone == {k, "submission"} IN
    /\ k \in exists
    /\ exists' = exists \ gone
    /\ assignedTo' = assignedTo \ gone
    /\ wrote' = FALSE
    /\ inside' = (inside /\ k = "submission")
    /\ report' = [n \in Tickets |->
            IF report[n] = NoReport THEN NoReport ELSE [report[n] EXCEPT !.link = @ \ gone]]
    /\ UNCHANGED <<tool, issue, filing>>

\* Assignments come and go, and places are moved (module Staffing).
Reassigned(scope) ==
    /\ scope \subseteq exists
    /\ assignedTo' = scope
    /\ UNCHANGED <<tool, exists, wrote, inside, report, issue, filing>>

PlaceMoved ==
    /\ "place" \in exists
    /\ inside' = ~inside
    /\ UNCHANGED <<tool, exists, assignedTo, wrote, report, issue, filing>>

SupportInit ==
    /\ tool \in {"yee", "playspace"}
    /\ exists = Kinds
    /\ assignedTo \in SUBSET {"project", "place"}
    /\ wrote \in BOOLEAN
    /\ inside = TRUE
    /\ report = [n \in Tickets |-> NoReport]
    /\ issue = [k \in Issues |-> NoIssue]
    /\ filing = [n \in Tickets |-> NoReport]

SupportNext ==
    \/ \E n \in Tickets, role \in {"admin", "manager", "auditor"}, account \in {Home, Outside}, named \in SUBSET Kinds :
            FileStart(n, role, account, named)
    \/ \E n \in Tickets : FileReport(n) \/ FilingFails(n)
    \/ \E n \in Tickets, known \in Issues : Triage(n, known)
    \/ \E k \in Issues : DeleteIssue(k) \/ \E published \in BOOLEAN : CreateIssue(k, published) \/ UpdateIssue(k, published)
    \/ \E k \in Kinds : RowDeleted(k)
    \/ \E scope \in SUBSET {"project", "place"} : Reassigned(scope)
    \/ PlaceMoved

SupportSpec == SupportInit /\ [][SupportNext]_supportVars

-----------------------------------------------------------------------------
(* Properties *)

\* Triage keeps the breadcrumb (create_bug_report): whatever the reporter
\* named is a foreign key or a crumb of the report as long as the row exists,
\* and a foreign key names a row that exists, although rows are deleted, and
\* access to them is lost, while the report is verified and afterwards.
BreadcrumbsAreKept == \A n \in Tickets :
    report[n] # NoReport =>
        /\ report[n].named \cap exists \subseteq report[n].link \cup report[n].crumbs
        /\ report[n].link \subseteq exists
        /\ report[n].known # Unset => issue[report[n].known] # NoIssue

=============================================================================
