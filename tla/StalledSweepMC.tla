-------------------------- MODULE StalledSweepMC --------------------------
(***************************************************************************)
(* A small instance of StalledSweep.                                       *)
(***************************************************************************)
EXTENDS StalledSweep

CONSTANTS a1, a2

TwoAudits == {a1, a2}
===========================================================================
