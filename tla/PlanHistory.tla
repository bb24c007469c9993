----------------------------- MODULE PlanHistory -----------------------------
(***************************************************************************)
(* What the append-only revisions of a plan promise: a history in which     *)
(* every revision is what one operation makes of the revision before it.    *)
(***************************************************************************)
CONSTANTS
  NoPlan,        \* nothing accepted yet
  Begins(_),     \* may this be a first revision?
  Follows(_, _)  \* may one operation make the second revision of the first?

VARIABLE plan

Init == plan = NoPlan

Accept == plan = NoPlan /\ Begins(plan')

Operate == plan # NoPlan /\ Follows(plan, plan')

Next == Accept \/ Operate

Spec == Init /\ [][Next]_plan
=============================================================================
