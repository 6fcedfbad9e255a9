------------------------------- MODULE Totals -------------------------------
(***************************************************************************)
(* Sums over the rows of a list.                                           *)
(***************************************************************************)
EXTENDS Naturals, FiniteSetsExt

\* The sum of the values of f.
Total(f) == FoldSet(LAMBDA x, n : n + f[x], 0, DOMAIN f)
=============================================================================
