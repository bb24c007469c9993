----------------------------- MODULE GatedRuns ------------------------------
(***************************************************************************)
(* The runs of SideEffects with the gate they ask.  SideEffects leaves open *)
(* what the gate says; ActionGate says it, of whatever E.G.O.s, tools and   *)
(* rules there are.                                                        *)
(***************************************************************************)
EXTENDS SideEffects, ActionGate

\* A run that asks the gate is let through exactly when one selected E.G.O.
\* answers for all of it (HasOneAnswerable).
OneEgoAnswers == (\E r \in Runs : At(r, "gate")) => HasOneAnswerable

\* ... and what was hidden from its model would have been refused
\* (HidesOnlyTheUseless).
HiddenIsRefused == \A r \in Runs : At(r, "gate") => HidesOnlyTheUseless
=============================================================================
