---------------------------- MODULE MCPromotion ----------------------------
(* Instances of Promotion for TLC. *)
EXTENDS Promotion, TLC

CONSTANTS w1, w2, a, b, e, f

Symmetry == Permutations({w1, w2}) \cup Permutations({e, f})
=============================================================================
