----------------------------- MODULE MCRestore -----------------------------
(* An instance of Restore for TLC. *)
EXTENDS Restore, TLC
=============================================================================
