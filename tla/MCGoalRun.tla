------------------------------ MODULE MCGoalRun ------------------------------
(* An instance of GoalRun for TLC. *)
EXTENDS GoalRun, TLC

CONSTANTS c1, c2, r1, r2, b1, b2

\* c2 has not come yet.
C1Only == ops[c2] = 0

\* Bounds: without c2, c1 begins any four operations; in company c1 begins
\* two and c2 one, of one run and with one blocker.
First(o) == o.run = r1 /\ o.blocker = b1

Bounds ==
  /\ First(op[c2])
  /\ C1Only \/ /\ First(op[c1]) /\ journal[r2] = <<>> /\ b2 \notin goal.blockers
               /\ ops[c1] <= 2 /\ ops[c2] = 1
=============================================================================
