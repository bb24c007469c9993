-------------------------- MODULE MCMemoryPipeline --------------------------
(* An instance of MemoryPipeline for TLC. *)
EXTENDS MemoryPipeline, TLC

CONSTANTS w1, w2, a, b

Symmetry == Permutations({w1, w2}) \cup Permutations({a, b})
=============================================================================
