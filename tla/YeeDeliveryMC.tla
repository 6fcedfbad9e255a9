--------------------------- MODULE YeeDeliveryMC ---------------------------
(***************************************************************************)
(* A small instance of YeeDelivery.                                        *)
(***************************************************************************)
EXTENDS YeeDelivery, TLC

CONSTANTS r1, r2, r3, x, y, v1, v2, k1

ThreeRequests == {r1, r2, r3}
TwoRequests == {r1, r2}
TwoSheets == {x, y}
TwoVersions == {v1, v2}
OneKey == {k1}

Interchangeable == Permutations(ThreeRequests) \cup Permutations(TwoSheets)
                     \cup Permutations(TwoVersions)
============================================================================
