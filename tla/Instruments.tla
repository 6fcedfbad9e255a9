---------------------------- MODULE Instruments ----------------------------
(***************************************************************************)
(* The versions of an audit instrument: how administrators create, fork,   *)
(* edit, activate and delete them while audits are stamped with the        *)
(* version they are answered and scored by.  One table serves three        *)
(* catalogues with different protection:                                   *)
(*                                                                         *)
(*   "playspace"  numbers its publications itself; no lock, no index;      *)
(*   "yee"        labels, a lock on the rows and two unique indexes;       *)
(*   "copy"       YEE's site copy: the lock, no index, no validation.      *)
(*                                                                         *)
(* A request reads and checks first, an activation then asks for the rows  *)
(* it deactivates, and every request writes when it commits.  Content is   *)
(* only whether it may be published: "legacy" content by itself,           *)
(* "authored" content under a parent that cannot change any more.  A row   *)
(* stands for its version, whose number or label is left out.              *)
(***************************************************************************)
EXTENDS Naturals

CONSTANTS
    Versions,           \* identities for rows of the table instruments
    Jobs,           \* bound: how many requests are in progress at a time
    NoRow           \* no parent

ASSUME InstrumentsAssumption == NoRow \notin Versions

VARIABLES
    catalogue,      \* which of the three this is
    instr,          \* instr[i]: a row, or Absent
    stamps,         \* the versions that submissions or drafts of audits bear
    lock,           \* lock[r]: the rows that the activation r has or waits for
    job,            \* job[r]: the request r has in progress, or NoJob
    raced           \* history: the rows that an edit and an activation have had in
                    \* progress together since they were last validated

instrVars == <<catalogue, instr, stamps, lock, job, raced>>

-----------------------------------------------------------------------------
(* Versions and requests *)

Contents == {"legacy", "authored", "unsound"}

\* What creation brings; YEE's unsound content comes by editing.
NewContents == CASE catalogue = "playspace" -> {"authored", "unsound"}
                 [] catalogue = "yee" -> {"legacy", "authored"}
                 [] OTHER -> {"legacy"}

\* bornActive: inserted active, recorded where there is no index.
Absent == [active |-> FALSE]
InstrumentRows == [active : BOOLEAN, parent : Versions \cup {NoRow}, content : Contents, bornActive : BOOLEAN]

Existing == {i \in Versions : instr[i] # Absent}
Active == {i \in Existing : instr[i].active}

\* Identities are not used twice.
Fresh(i) ==
    /\ i \notin Existing \cup stamps
    /\ \A r \in Jobs :
        /\ job[r].op = "create" => job[r].parent # i
        /\ job[r].op \in {"activate", "deactivate", "edit", "delete", "use"} => job[r].row # i

NoJob == [op |-> "none"]
JobRecords ==
    {NoJob}
    \cup [op : {"create"}, parent : Versions \cup {NoRow}, content : Contents, active : BOOLEAN]
    \cup [op : {"deactivate"}, row : Versions]
    \cup [op : {"activate"}, row : Versions, content : Contents]
    \cup [op : {"edit"}, row : Versions, content : Contents, used : BOOLEAN]
    \cup [op : {"delete"}, row : Versions, used : BOOLEAN]
    \cup [op : {"use"}, row : Versions]
    \cup [op : {"bootstrap"}]

\* What an activation holds: the rows it saw when it asked for them, the rows that
\* it deactivates once it has them, and the activations that asked before it for
\* one of its rows.
NotCleared == {NoRow}
Locks == [asked : BOOLEAN, seen : SUBSET Versions, cleared : (SUBSET Versions) \cup {NotCleared}, behind : SUBSET Jobs]
NoLock == [asked |-> FALSE, seen |-> {}, cleared |-> NotCleared, behind |-> {}]

\* A Playspace version loses its parent when it becomes the active one.
InstrTypeOK ==
    /\ catalogue \in {"playspace", "yee", "copy"}
    /\ instr \in [Versions -> InstrumentRows \cup {Absent}]
    /\ stamps \subseteq Versions
    /\ lock \in [Jobs -> Locks]
    /\ job \in [Jobs -> JobRecords]
    /\ raced \subseteq Versions
    /\ catalogue = "playspace" => \A i \in Active : instr[i].parent = NoRow

InstrInit ==
    /\ catalogue \in {"playspace", "yee", "copy"}
    /\ instr = [i \in Versions |-> Absent]
    /\ stamps = {} /\ raced = {}
    /\ lock = [r \in Jobs |-> NoLock]
    /\ job = [r \in Jobs |-> NoJob]

Take(r, x) ==
    /\ job[r] = NoJob
    /\ job' = [job EXCEPT ![r] = x]
    /\ UNCHANGED <<catalogue, instr, stamps, lock>>

\* A request of that kind for row i is in progress.
Underway(op, i) == \E r \in Jobs : job[r].op = op /\ job[r].row = i

Done(r) ==
    /\ job' = [job EXCEPT ![r] = NoJob]
    /\ lock' = [q \in Jobs |-> IF q = r THEN NoLock ELSE [lock[q] EXCEPT !.behind = @ \ {r}]]
    /\ UNCHANGED catalogue

\* A failed flush, a deadlock among promotions, a lost connection.
GiveUp(r) == job[r] # NoJob /\ Done(r) /\ UNCHANGED <<instr, stamps, raced>>

-----------------------------------------------------------------------------
(* Protection *)

\* Versions that the UPDATE or SELECT ... FOR UPDATE of an activation waits for.
Unlocked(i) == \A q \in Jobs : i \notin lock[q].seen

Granted(r) == lock[r].asked /\ lock[r].behind = {}
Cleared(r) == Granted(r) /\ lock[r].cleared # NotCleared

\* uq_instruments_yee_single_active.  (A mistake: the migration that creates it
\* is left out.)
Indexed_Bug(rows) == TRUE
Indexed(rows) ==
    catalogue = "yee" =>
        \A i, k \in {m \in Versions : rows[m] # Absent} : i # k =>
            ~(rows[i].active /\ rows[k].active)

\* The rows after request r has activated row i as `row`.
Activated(r, i, row) ==
    [k \in Versions |-> IF k = i THEN row
                    ELSE IF k \in lock[r].cleared /\ instr[k] # Absent
                    THEN [instr[k] EXCEPT !.active = FALSE] ELSE instr[k]]

\* Active, or borne by an audit: not editable any more.
Immutable(i) == instr[i].active \/ i \in stamps

\* _resolved_parent; a parent is set once, at insertion, so lineages end.
RollbackTarget(parent) == parent \in Existing /\ Immutable(parent)

\* What validate_instrument_content, and for YEE the scoring compatibility and
\* validated_activation_content, let become active.
Publishable(content, parent) ==
    CASE catalogue = "playspace" -> content # "unsound"
      [] catalogue = "yee" ->
            \/ content = "legacy"
            \/ (content = "authored" /\ RollbackTarget(parent))
      [] OTHER -> TRUE

-----------------------------------------------------------------------------
(* What administrators ask for *)

\* create_instrument_version and _create_yee_instrument_version.  A Playspace
\* publication has no parent.
CreateStart(r, parent, content, activate) ==
    /\ parent = NoRow \/ parent \in Existing
    /\ activate => Publishable(content, parent)
    /\ Take(r, [op |-> "create", content |-> content, active |-> activate,
                parent |-> IF catalogue = "playspace" /\ activate THEN NoRow ELSE parent])
    /\ UNCHANGED raced

\* fork_instrument_draft, which derives the authoring document of its source.
ForkStart(r, i) ==
    /\ catalogue = "yee" /\ i \in Existing
    /\ Take(r, [op |-> "create", active |-> FALSE, parent |-> i,
                content |-> IF instr[i].content = "legacy" THEN "authored" ELSE instr[i].content])
    /\ UNCHANGED raced

\* update_instrument_status and _update_yee_instrument_status, also by way of
\* publish_instrument_draft.
ActivateStart(r, i) ==
    /\ i \in Existing
    /\ Publishable(instr[i].content, instr[i].parent)
    /\ Take(r, [op |-> "activate", row |-> i, content |-> instr[i].content])
    /\ raced' = IF Underway("edit", i) THEN raced \cup {i}
                ELSE IF Underway("activate", i) THEN raced ELSE raced \ {i}

DeactivateStart(r, i) ==
    /\ i \in Existing
    /\ Take(r, [op |-> "deactivate", row |-> i])
    /\ UNCHANGED raced

\* update_instrument_draft.  (A mistake: it looks only at audits.)
EditStart_Bug(r, i, content) ==
    /\ catalogue = "yee" /\ i \in Existing /\ i \notin stamps
    /\ Take(r, [op |-> "edit", row |-> i, content |-> content, used |-> FALSE])
    /\ raced' = IF Underway("activate", i) THEN raced \cup {i} ELSE raced

EditStart(r, i, content) ==
    /\ catalogue = "yee" /\ i \in Existing /\ ~Immutable(i)
    /\ Take(r, [op |-> "edit", row |-> i, content |-> content, used |-> i \in stamps])
    /\ raced' = IF Underway("activate", i) THEN raced \cup {i} ELSE raced

\* delete_instrument_version and _delete_yee_instrument_version.  (A mistake:
\* drafts, which may be deleted unlooked at, are told by what is inactive.)
Deletable_Bug(i) == ~instr[i].active

Deletable(i) ==
    /\ ~instr[i].active
    /\ i \in stamps => catalogue = "playspace" /\ instr[i].parent # NoRow

DeleteVersionStart(r, i) ==
    /\ catalogue # "copy" /\ i \in Existing /\ Deletable(i)
    /\ Take(r, [op |-> "delete", row |-> i, used |-> i \in stamps])
    /\ UNCHANGED raced

-----------------------------------------------------------------------------
(* What they write *)

\* Playspace's UPDATE deactivates the rows it sees, when it has them.  YEE
\* first locks the rows there are, then updates those there are by then.
AskForRows(r) ==
    /\ job[r].op \in {"activate", "create"}
    /\ job[r].op = "create" => job[r].active
    /\ ~lock[r].asked
    /\ lock' = [lock EXCEPT ![r] = [asked |-> TRUE, seen |-> Existing,
                                    cleared |-> IF catalogue = "playspace" THEN Existing ELSE NotCleared,
                                    behind |-> {q \in Jobs : lock[q].seen \cap Existing # {}}]]
    /\ UNCHANGED <<catalogue, instr, stamps, job, raced>>

ClearRows(r) ==
    /\ Granted(r) /\ lock[r].cleared = NotCleared
    /\ lock' = [lock EXCEPT ![r].cleared = Existing]
    /\ UNCHANGED <<catalogue, instr, stamps, job, raced>>

CreateVersion(r, i) ==
    LET x == job[r]
        row == [active |-> x.active, parent |-> x.parent, content |-> x.content,
                bornActive |-> x.active /\ catalogue # "yee"]
        rows == IF x.active THEN Activated(r, i, row) ELSE [instr EXCEPT ![i] = row]
    IN
    /\ x.op = "create" /\ Fresh(i)
    /\ x.parent = NoRow \/ x.parent \in Existing
    /\ x.active => Cleared(r)
    /\ Indexed(rows)
    /\ instr' = rows
    /\ Done(r)
    /\ UNCHANGED <<stamps, raced>>

\* (A mistake: a published draft of Playspace stays a draft.)
Promoted_Bug(i, content) == [instr[i] EXCEPT !.active = TRUE, !.content = content]

Promoted(i, content) ==
    [instr[i] EXCEPT !.active = TRUE, !.content = content,
                     !.parent = IF catalogue = "playspace" THEN NoRow ELSE @]

\* The mapper writes the content that validation returned unless it is what it
\* read; then an edit that came between stays.
ActivateVersion(r) ==
    LET x == job[r] IN
    /\ x.op = "activate" /\ x.row \in Existing /\ Cleared(r)
    /\ \E content \in {x.content, instr[x.row].content} :
        LET rows == Activated(r, x.row, Promoted(x.row, content)) IN
        /\ Indexed(rows)
        /\ instr' = rows
    /\ Done(r)
    /\ UNCHANGED <<stamps, raced>>

DeactivateVersion(r) ==
    LET x == job[r] IN
    /\ x.op = "deactivate" /\ x.row \in Existing /\ Unlocked(x.row)
    /\ instr' = [instr EXCEPT ![x.row].active = FALSE]
    /\ Done(r)
    /\ UNCHANGED <<stamps, raced>>

EditDraft(r) ==
    LET x == job[r] IN
    /\ x.op = "edit" /\ x.row \in Existing /\ Unlocked(x.row)
    /\ instr' = [instr EXCEPT ![x.row].content = x.content]
    /\ Done(r)
    /\ UNCHANGED <<stamps, raced>>

\* ON DELETE SET NULL: drafts of the deleted row have no parent any more.
DeleteVersion(r) ==
    LET x == job[r] IN
    /\ x.op = "delete" /\ x.row \in Existing /\ Unlocked(x.row)
    /\ instr' = [i \in Versions |->
            IF i = x.row THEN Absent
            ELSE IF instr[i] # Absent /\ instr[i].parent = x.row
            THEN [instr[i] EXCEPT !.parent = NoRow] ELSE instr[i]]
    /\ raced' = raced \ {x.row}
    /\ Done(r)
    /\ UNCHANGED stamps

\* _bootstrap_yee_instrument_if_missing: the canonical file, active.
BootstrapStart(r) ==
    /\ catalogue = "yee" /\ Existing = {}
    /\ Take(r, [op |-> "bootstrap"])
    /\ UNCHANGED raced

Bootstrap(r, i) ==
    LET rows == [instr EXCEPT ![i] = [active |-> TRUE, parent |-> NoRow, content |-> "legacy",
                                      bornActive |-> FALSE]] IN
    /\ job[r].op = "bootstrap" /\ Fresh(i)
    /\ Indexed(rows)
    /\ instr' = rows
    /\ Done(r)
    /\ UNCHANGED <<stamps, raced>>

-----------------------------------------------------------------------------
(* Audits *)

\* An audit is stamped with the active version, or, in YEE, with any version
\* that the client names and the table has.
UseStart(r, i) ==
    /\ catalogue # "copy" /\ i \in Existing
    /\ catalogue = "yee" \/ instr[i].active
    /\ Take(r, [op |-> "use", row |-> i])
    /\ UNCHANGED raced

Use(r) ==
    /\ job[r].op = "use"
    /\ stamps' = stamps \cup {job[r].row}
    /\ Done(r)
    /\ UNCHANGED <<instr, raced>>

\* The last audit with a version is removed with its project or account.
Disuse(i) ==
    /\ i \in stamps
    /\ stamps' = stamps \ {i}
    /\ UNCHANGED <<catalogue, instr, lock, job, raced>>

-----------------------------------------------------------------------------

InstrRequest(r) ==
    \/ \E parent \in Versions \cup {NoRow}, content \in NewContents, activate \in BOOLEAN :
            CreateStart(r, parent, content, activate)
    \/ \E i \in Versions :
        \/ ForkStart(r, i) \/ ActivateStart(r, i) \/ DeactivateStart(r, i)
        \/ DeleteVersionStart(r, i) \/ UseStart(r, i) \/ CreateVersion(r, i) \/ Bootstrap(r, i)
        \/ \E content \in Contents \ {"legacy"} : EditStart(r, i, content)
    \/ BootstrapStart(r) \/ AskForRows(r) \/ ClearRows(r) \/ ActivateVersion(r) \/ DeactivateVersion(r) \/ EditDraft(r)
    \/ DeleteVersion(r) \/ Use(r) \/ GiveUp(r)

InstrNext ==
    \/ \E r \in Jobs : InstrRequest(r)
    \/ \E i \in Versions : Disuse(i)

InstrSpec == InstrInit /\ [][InstrNext]_instrVars

-----------------------------------------------------------------------------
(* Properties *)

\* However activations interleave, YEE has one active version.  Without an
\* index two versions can be active, but never by activating rows that are
\* there: one of the two was inserted active, in Playspace while the other's
\* UPDATE ran, of the site copy when its creator had found no row to lock.
OneActiveVersion ==
    \A i, k \in Active : i # k =>
        /\ catalogue # "yee"
        /\ instr[i].bornActive \/ instr[k].bornActive

\* Auditors are shown content that validation has let through: in Playspace
\* always, in YEE unless an edit of that very version was in progress together
\* with an activation of it, which validates before it locks the catalogue
\* (_update_yee_instrument_status).  No other overlap lets unsound content
\* through: of edits and activations of different versions, two activations,
\* forks, deletions, or what the last activation took down.
ActiveWasValidated ==
    \A i \in Active :
        catalogue = "playspace" \/ (catalogue = "yee" /\ i \notin raced) => instr[i].content # "unsound"

\* A version that audits bear keeps its row and its content: only a request
\* that looked before the first audit bore it can still delete or change it,
\* or an activation of it that such an edit has raced take the change back.
UsedVersionsStay ==
    [][\A i \in Existing \cap stamps :
            instr'[i] = Absent \/ instr'[i].content # instr[i].content =>
                \E r \in Jobs : /\ job[r].op \in {"edit", "delete", "activate"}
                                /\ job[r].row = i
                                /\ IF job[r].op = "activate" THEN i \in raced ELSE ~job[r].used]_instrVars
=============================================================================
