------------------------------ MODULE PlanGraph ------------------------------
(***************************************************************************)
(* A revision of a durable plan and what the operations of PlanService      *)
(* (planning/service.py) and PlanCompiler (planning/compiler.py) make of    *)
(* it: for each operation the condition it checks and the revision that     *)
(* follows.  No state here; PlanService stores the revisions.               *)
(*                                                                         *)
(* A step id fixes title, dependencies, budget and priority for good        *)
(* (_spec_matches_step); a proposal is therefore a set of ids.  Rank is the *)
(* scheduler's order, taken from priorities that are all different, so that *)
(* positions in a proposal never decide.                                    *)
(***************************************************************************)
EXTENDS Naturals

CONSTANTS
  StepIds,
  DependsOn,    \* the dependencies of each step
  MaxAttempts,  \* the attempt budget of each step
  Rank,         \* the scheduler's order on steps
  NoPlan        \* latest() found no revision

ASSUME GraphAssumption ==
  /\ DependsOn \in [StepIds -> SUBSET StepIds]
  /\ MaxAttempts \in [StepIds -> Nat \ {0}]
  /\ Rank \in [StepIds -> Nat]
  /\ \A s, t \in StepIds : Rank[s] = Rank[t] => s = t

\* "none": the plan has no such step.
StepStates == {"none", "pending", "running", "completed", "failed", "blocked"}

\* "superseded" is declared as well, and never stored.
PlanStates == {"active", "blocked", "completed", "cancelled"}

Step == [state: StepStates, attempts: Nat]

Plan == [state: PlanStates, steps: [StepIds -> Step]]

ASSUME NoPlanAssumption == NoPlan \notin Plan

Terminal(p) == p.state \in {"completed", "cancelled"}

In(p, state) == {s \in StepIds : p.steps[s].state = state}

Ids(p) == {s \in StepIds : p.steps[s].state # "none"}

AllDone(p) == In(p, "completed") = Ids(p)

-----------------------------------------------------------------------------
(* The scheduler *)

Ready(p) ==
  {s \in In(p, "pending") :
     p.state = "active" /\ DependsOn[s] \subseteq In(p, "completed")}

Retryable(p) ==
  {s \in In(p, "failed") : p.steps[s].attempts < MaxAttempts[s]}

First(S) == CHOOSE s \in S : \A t \in S : Rank[s] <= Rank[t]

\* execution_decision once the plan is known not to be over.
Advice(p, running, ready) ==
  CASE running # {} -> "step_running"
    [] running = {} /\ ready # {} -> "start_step"
    [] running = {} /\ ready = {} ->
         IF Retryable(p) # {} THEN "retry_step"
         ELSE IF In(p, "blocked") # {} THEN "step_blocked"
         ELSE IF In(p, "failed") # {} THEN "replan_required"
         ELSE "dependencies_not_ready"

\* execution_decision
Decision(p) ==
  CASE p.state = "completed" -> "completed"
    [] p.state = "cancelled" -> "stop"
    [] OTHER -> Advice(p, In(p, "running"), Ready(p))

-----------------------------------------------------------------------------
(* PlanCompiler *)

Absent == [state |-> "none", attempts |-> 0]

Fresh == [state |-> "pending", attempts |-> 0]

\* _validate_specs and _assert_acyclic: dependencies exist, no cycle.
Valid(ids) ==
  /\ ids # {}
  /\ \A s \in ids : DependsOn[s] \subseteq ids
  /\ \A C \in (SUBSET ids) \ {{}} : \E s \in C : DependsOn[s] \cap C = {}

Compiled(ids) ==
  [state |-> "active",
   steps |-> [s \in StepIds |-> IF s \in ids THEN Fresh ELSE Absent]]

\* Mutant: a revision always starts out active.
RevisedStateActive(steps) == "active"

RevisedState(steps) ==
  LET states == {steps[s].state : s \in StepIds} \ {"none"}
  IN IF states = {"completed"} THEN "completed"
     ELSE IF states \cap {"failed", "blocked"} # {} THEN "blocked"
     ELSE "active"

\* compile_revision accepts the proposal.
CanRevise(p, ids) ==
  /\ ~Terminal(p)
  /\ In(p, "running") = {}
  /\ Valid(ids)
  /\ In(p, "completed") \subseteq ids

Revised(p, ids) ==
  LET steps == [s \in StepIds |-> IF s \notin ids THEN Absent
                                 ELSE IF s \in Ids(p) THEN p.steps[s]
                                 ELSE Fresh]
  IN [state |-> RevisedState(steps), steps |-> steps]

-----------------------------------------------------------------------------
(* The operations on one step, and cancel *)

\* _replace_step
With(p, s, step, state) ==
  [state |-> state, steps |-> [p.steps EXCEPT ![s] = step]]

Becomes(p, s, new, state) ==
  With(p, s, [state |-> new, attempts |-> p.steps[s].attempts], state)

Attempted(p, s) ==
  With(p, s, [state |-> "running", attempts |-> p.steps[s].attempts + 1],
       "active")

CanStart(p, s) ==
  /\ p.steps[s].state = "pending"
  /\ p.state \in {"active", "blocked"}
  /\ DependsOn[s] \subseteq In(p, "completed")
  /\ p.steps[s].attempts < MaxAttempts[s]

CanRetry(p, s) ==
  /\ p.steps[s].state = "failed"
  /\ p.steps[s].attempts < MaxAttempts[s]

CanEnd(p, s) == p.steps[s].state = "running"

CompletedStep(p, s) ==
  LET done == Becomes(p, s, "completed", "active")
  IN [done EXCEPT !.state = IF AllDone(done) THEN "completed" ELSE "active"]

FailedStep(p, s) == Becomes(p, s, "failed", "blocked")

CanBlock(p, s) == p.steps[s].state \in {"pending", "running"}

BlockedStep(p, s) == Becomes(p, s, "blocked", "blocked")

CanUnblock(p, s) == p.steps[s].state = "blocked"

UnblockedStep(p, s) == Becomes(p, s, "pending", "active")

Cancelled(p) == [p EXCEPT !.state = "cancelled"]

-----------------------------------------------------------------------------
\* q is what one operation makes of p.
Follows(p, q) ==
  \/ \E ids \in SUBSET StepIds : CanRevise(p, ids) /\ q = Revised(p, ids)
  \/ \E s \in StepIds :
       \/ (CanStart(p, s) \/ CanRetry(p, s)) /\ q = Attempted(p, s)
       \/ CanEnd(p, s) /\ q \in {CompletedStep(p, s), FailedStep(p, s)}
       \/ CanBlock(p, s) /\ q = BlockedStep(p, s)
       \/ CanUnblock(p, s) /\ q = UnblockedStep(p, s)
  \/ ~Terminal(p) /\ q = Cancelled(p)

\* A first revision.
Begins(q) == \E ids \in SUBSET StepIds : Valid(ids) /\ q = Compiled(ids)
=============================================================================
