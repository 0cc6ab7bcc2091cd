------------------------------- MODULE Totals ------------------------------
(***************************************************************************)
(* Sums, for the properties that compare what many accounts have with what *)
(* there is in all.                                                        *)
(***************************************************************************)
EXTENDS Integers, FiniteSets, FiniteSetsExt

Total(f) == MapThenSumSet(LAMBDA x : f[x], DOMAIN f)
=============================================================================
