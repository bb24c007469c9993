---------------------------- MODULE EngineContext ----------------------------
(***************************************************************************)
(* The requests of CrashRecovery with what their engine is shown           *)
(* (ContextBudget).  What it is shown is computed before it is asked, from *)
(* what is known then: the computations are pure, and what is said of them *)
(* is said where it matters.                                               *)
(***************************************************************************)
EXTENDS CrashRecovery, ContextBudget

\* The context an engine is asked with fits its budget and gives up old and
\* minor things first (PacksFit).
ContextFits == pc = "engine" => PacksFit

\* ... and what warns before what recommends (GuardrailsSurvive).
WarningsSurvive == pc = "engine" => GuardrailsSurvive
=============================================================================
