-------------------------- MODULE AdministrationMC --------------------------
(***************************************************************************)
(* The components around the audits that change rows, on a small instance  *)
(* of each.  They share no variable, so a state of one beside a state of   *)
(* another says nothing that each does not say alone: a behaviour moves    *)
(* one component and leaves the others where they start.                   *)
(***************************************************************************)
EXTENDS Organisation, Staffing, Instruments, Credentials, Support, TLC

VARIABLE part   \* the component that moves

adminVars == <<part, orgVars, staffVars, instrVars, credVars, supportVars>>

AdminInit ==
    /\ part \in {"organisation", "staffing", "instruments", "credentials", "support"}
    /\ OrgInit     /\ (part # "organisation" => product = "yee")
    /\ StaffInit   /\ (part # "staffing" => site = "yee")
    /\ InstrInit   /\ (part # "instruments" => catalogue = "yee")
    /\ CredInit    /\ (part # "credentials" => side = "yee" /\ demos = {})
    /\ SupportInit /\ (part # "support" => tool = "yee" /\ assignedTo = {} /\ ~wrote)

AdminNext ==
    /\ UNCHANGED part
    /\ IF part = "organisation" THEN OrgNext ELSE UNCHANGED orgVars
    /\ IF part = "staffing" THEN StaffNext ELSE UNCHANGED staffVars
    /\ IF part = "instruments" THEN InstrNext ELSE UNCHANGED instrVars
    /\ IF part = "credentials" THEN CredNext ELSE UNCHANGED credVars
    /\ IF part = "support" THEN SupportNext ELSE UNCHANGED supportVars

AdminSpec == AdminInit /\ [][AdminNext]_adminVars

\* Every variable of the component that moves has a value of its type: rows that the
\* tables of src/app/models.py can hold, requests that the handlers can be in.
AdministrationTypeOK ==
    /\ part = "organisation" => OrgTypeOK
    /\ part = "staffing" => StaffTypeOK
    /\ part = "instruments" => InstrTypeOK
    /\ part = "credentials" => CredTypeOK
    /\ part = "support" => SupportTypeOK

\* Sets whose members no definition tells apart.
AdminSymmetry ==
    UNION {Permutations(S) : S \in {Persons, Accounts, OrgRequests, Projects, Assignments,
                                    Tasks, Versions, Jobs, Desks}}

\* Two projects of one account.
OneOwner == [j \in Projects |-> "account"]
=============================================================================
