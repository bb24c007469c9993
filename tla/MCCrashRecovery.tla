--------------------------- MODULE MCCrashRecovery ---------------------------
(* Instances of EngineContext for TLC. *)
EXTENDS EngineContext, TLC

CONSTANTS q1, q2, k1, k2
=============================================================================
