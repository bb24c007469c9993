--------------------------- MODULE MCEgoLifecycle ---------------------------
(* An instance of EgoServing for TLC. *)
EXTENDS EgoServing, TLC

CONSTANTS w1, w2, a, b, r, s

TwoVersions == 1..2

Symmetry == Permutations({w1, w2}) \cup Permutations({a, b})
=============================================================================
