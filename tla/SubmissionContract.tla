------------------------- MODULE SubmissionContract -------------------------
(***************************************************************************)
(* What the Playspace backend promises about one auditor's work, without   *)
(* requests, locks or transactions.                                        *)
(*                                                                         *)
(* A slot is a (project, place, auditor) triple; it holds at most one      *)
(* submission (uq_playspace_submissions_project_place_auditor).  A draft   *)
(* may be edited freely, and edits are not visible at this level.  Once a  *)
(* draft is delivered its answer sheet is fixed for good.  Work disappears *)
(* in two ways: the organisation closes the slot (with its project or      *)
(* place), or the auditor leaves, which takes the drafts only, and an      *)
(* auditor whose announced delivery has not arrived yet cannot leave.      *)
(***************************************************************************)
CONSTANTS
    Auditors,   \* people with an auditor profile
    Slots,      \* (project, place, auditor) triples
    OwnerOf,    \* the auditor of each slot
    Sheets,     \* answer sheets complete enough to be delivered
    NoSheet     \* what a slot shows before delivery

VARIABLES
    phase,      \* phase[s]: "none", "draft" or "delivered"
    promised,   \* promised[s]: a delivery has been announced
    sheet,      \* sheet[s]: the delivered answers
    closed,     \* slots whose project or place is gone
    member      \* member[a]: the auditor still has an account

contractVars == <<phase, promised, sheet, closed, member>>

ContractInit ==
    /\ phase \in [Slots -> {"none", "draft"}]
    /\ promised = [s \in Slots |-> FALSE]
    /\ sheet = [s \in Slots |-> NoSheet]
    /\ closed = {}
    /\ member = [a \in Auditors |-> TRUE]

Open(s) ==
    /\ phase[s] = "none"
    /\ s \notin closed
    /\ phase' = [phase EXCEPT ![s] = "draft"]
    /\ UNCHANGED <<promised, sheet, closed, member>>

Promise(s) ==
    /\ phase[s] = "draft"
    /\ promised' = [promised EXCEPT ![s] = TRUE]
    /\ UNCHANGED <<phase, sheet, closed, member>>

Deliver(s) ==
    /\ phase[s] = "draft"
    /\ phase' = [phase EXCEPT ![s] = "delivered"]
    /\ \E x \in Sheets : sheet' = [sheet EXCEPT ![s] = x]
    /\ UNCHANGED <<promised, closed, member>>

\* The organisation gives the place up, and all work on it.
Close(s) ==
    /\ s \notin closed
    /\ closed' = closed \cup {s}
    /\ phase' = [phase EXCEPT ![s] = "none"]
    /\ promised' = [promised EXCEPT ![s] = FALSE]
    /\ sheet' = [sheet EXCEPT ![s] = NoSheet]
    /\ UNCHANGED member

\* The person goes, the delivered work stays, the drafts go with the person.
Leave(a) ==
    /\ member[a]
    /\ \A s \in Slots :
         OwnerOf[s] = a /\ phase[s] = "draft" => ~promised[s]
    /\ member' = [member EXCEPT ![a] = FALSE]
    /\ phase' = [s \in Slots |->
                   IF OwnerOf[s] = a /\ phase[s] = "draft" THEN "none" ELSE phase[s]]
    /\ UNCHANGED <<promised, sheet, closed>>

ContractNext ==
    \/ \E s \in Slots : Open(s) \/ Promise(s) \/ Deliver(s) \/ Close(s)
    \/ \E a \in Auditors : Leave(a)

ContractSpec == ContractInit /\ [][ContractNext]_contractVars
=============================================================================
