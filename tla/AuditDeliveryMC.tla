-------------------------- MODULE AuditDeliveryMC --------------------------
(***************************************************************************)
(* Instances of AuditDelivery for TLC: one auditor, whose slots are given. *)
(***************************************************************************)
EXTENDS AuditDelivery, TLC

CONSTANT Ann
AllOfAnn == [s \in Slots |-> Ann]

\* Requests and sections are interchangeable: no definition tells two of them
\* apart.  Used by the safety runs only.
Interchangeable == Permutations(Requests) \cup Permutations(Sections)
=============================================================================
