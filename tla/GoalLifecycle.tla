---------------------------- MODULE GoalLifecycle ----------------------------
(***************************************************************************)
(* The life of one goal as its users see it: the state machine that         *)
(* _ALLOWED_TRANSITIONS of goal/service.py lays down, with the blockers a   *)
(* goal shows in each state.  A goal that is over stays over and shows no   *)
(* blocker; a blocked goal always says what blocks it.                      *)
(***************************************************************************)
CONSTANT Blockers

VARIABLES
  state,
  blockers   \* the blockers the goal shows

Init == state = "planned" /\ blockers = {}

Move(from, to) == state \in from /\ state' = to

Start    == Move({"planned"}, "active") /\ UNCHANGED blockers
Block    == Move({"active"}, "blocked") /\ \E b \in Blockers : blockers' = {b}
Unblock  == Move({"blocked"}, "active") /\ blockers' = {}
Complete == Move({"active"}, "completed") /\ blockers' = {}
Cancel   == Move({"planned", "active", "blocked"}, "cancelled") /\ blockers' = {}

\* A goal that is not over may have its blockers rewritten, never erased.
Report ==
  /\ state \in {"planned", "active", "blocked"}
  /\ \E b \in Blockers : blockers' = {b}
  /\ UNCHANGED state

Next == Start \/ Block \/ Unblock \/ Complete \/ Cancel \/ Report

Spec == Init /\ [][Next]_<<state, blockers>>
=============================================================================
