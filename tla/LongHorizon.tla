----------------------------- MODULE LongHorizon -----------------------------
(***************************************************************************)
(* LongHorizonExecutionCoordinator (planning/execution.py): the bridge      *)
(* between the steps of a plan (PlanGraph) and the durable runs of its goal *)
(* (GoalRun).  start_next, complete_step and fail_step are chains of calls  *)
(* to the plan service, the goal service, the run controller and the        *)
(* journal; a crash, another coordinator or an operator of the plan service *)
(* can come between any two.  Each of those calls is one step here: what    *)
(* they are made of is in PlanService and GoalRun.                          *)
(***************************************************************************)
EXTENDS PlanGraph, FiniteSets

CONSTANTS
  Coordinators,  \* callers of the coordinator
  Runs,          \* run ids
  NoRun,         \* a step no run is bound to
  Operated,      \* does an operator replan, block and unblock meanwhile?
  Crashes,       \* may a coordinator die in the middle of an operation?
  MaxOps         \* bound: operations per coordinator

ASSUME HorizonAssumption ==
  /\ NoRun \notin Runs
  /\ Operated \in BOOLEAN /\ Crashes \in BOOLEAN
  /\ MaxOps \in Nat

GoalStates == {"planned", "active", "blocked", "completed"}

EventTypes == {"step_planned", "step_completed", "step_failed"}

Event == [run: Runs, type: EventTypes, step: StepIds]

Stages == {"idle", "decide", "unblock", "announce", "attempt", "planned",
           "complete", "completed", "over", "progress", "checkpoint",
           "fail", "failed", "block"}

VARIABLES
  plan, bound,      \* the latest revision, and the run_id of each of its steps
  goal,             \* the state of the goal
  journal,          \* the events about steps
  work,             \* how often Goal.completed_work names each step
  covered,          \* steps whose completion a checkpoint covers
  pc, run, step,    \* where each coordinator is, for which run and step
  seen,             \* the revision it works from
  ops,              \* operations begun (bounded by MaxOps)
  disturbed         \* history: has a coordinator crashed or an operator acted?

vars == <<plan, bound, goal, journal, work, covered, pc, run, step, seen, ops,
          disturbed>>

\* An accepted plan of a goal nobody has started.
Init ==
  /\ Begins(plan)
  /\ bound = [s \in StepIds |-> NoRun]
  /\ goal = "planned"
  /\ journal = {}
  /\ work = [s \in StepIds |-> 0]
  /\ covered = {}
  /\ pc = [c \in Coordinators |-> "idle"]
  /\ run = [c \in Coordinators |-> NoRun]
  /\ step = [c \in Coordinators |-> CHOOSE s \in StepIds : TRUE]
  /\ seen = [c \in Coordinators |-> plan]
  /\ ops = [c \in Coordinators |-> 0]
  /\ disturbed = FALSE

Durable == <<plan, bound, goal, journal, work, covered>>

-----------------------------------------------------------------------------
At(c, stage) == pc[c] = stage

Goto(c, stage) == pc' = [pc EXCEPT ![c] = stage]

\* The operation returns or raises.
Leave(c) == Goto(c, "idle")

\* A call of the plan service on the step of c that may raise.
Move(c, allowed, next, r, stage) ==
  IF step[c] \in Ids(plan) /\ allowed
  THEN /\ plan' = next
       /\ bound' = [bound EXCEPT ![step[c]] = r]
       /\ seen' = [seen EXCEPT ![c] = next]
       /\ Goto(c, stage)
  ELSE Leave(c) /\ UNCHANGED <<plan, bound, seen>>

Emit(c, type) ==
  journal' = journal \cup {[run |-> run[c], type |-> type, step |-> step[c]]}

Begin(c, stage) ==
  /\ At(c, "idle")
  /\ ops[c] < MaxOps
  /\ ops' = [ops EXCEPT ![c] = @ + 1]
  /\ Goto(c, stage)
  /\ UNCHANGED Durable

\* start_next, as far as execution_decision reads the plan the first time.  A
\* plan that is over or has a running step changes nothing: left out.
StartNext(c) ==
  /\ plan.state \notin {"completed", "cancelled"}
  /\ In(plan, "running") = {}
  /\ \E r \in Runs : run' = [run EXCEPT ![c] = r]
  /\ seen' = [seen EXCEPT ![c] = plan]
  /\ Begin(c, "decide")
  /\ UNCHANGED step

\* ready_steps reads the plan again; what to retry comes from the first read.
Decide(c) ==
  LET advice == Advice(seen[c], {}, Ready(plan))
      target == IF advice = "start_step" THEN First(Ready(plan))
                                         ELSE First(Retryable(seen[c]))
  IN /\ At(c, "decide")
     /\ IF advice \in {"start_step", "retry_step"}
        THEN step' = [step EXCEPT ![c] = target] /\ Goto(c, "unblock")
        ELSE Leave(c) /\ UNCHANGED step
     /\ UNCHANGED <<Durable, run, seen, ops>>

\* Mutant: the goal is activated after the step.
UnblockThenAttempt(c) ==
  /\ At(c, "unblock")
  /\ goal' = IF goal = "blocked" THEN "active" ELSE goal
  /\ Goto(c, "attempt")
  /\ UNCHANGED <<plan, bound, journal, work, covered, run, step, seen, ops>>

\* A blocked goal is unblocked ...
Unblock(c) ==
  /\ At(c, "unblock")
  /\ goal' = IF goal = "blocked" THEN "active" ELSE goal
  /\ Goto(c, "announce")
  /\ UNCHANGED <<plan, bound, journal, work, covered, run, step, seen, ops>>

\* ... and RecoveryRunController.start and record_progress activate it.
Announce(c) ==
  /\ At(c, "announce")
  /\ IF goal \in {"planned", "active"}
     THEN goal' = "active" /\ Goto(c, "attempt")
     ELSE Leave(c) /\ UNCHANGED goal
  /\ UNCHANGED <<plan, bound, journal, work, covered, run, step, seen, ops>>

\* start_step or retry_step, as decided.
Attempt(c) ==
  LET retry == seen[c].steps[step[c]].state = "failed"
  IN /\ At(c, "attempt")
     /\ Move(c, IF retry THEN CanRetry(plan, step[c]) ELSE CanStart(plan, step[c]),
             Attempted(plan, step[c]), run[c], "planned")
     /\ UNCHANGED <<goal, journal, work, covered, run, step, ops>>

JournalPlanned(c) ==
  /\ At(c, "planned")
  /\ Emit(c, "step_planned")
  /\ Leave(c)
  /\ UNCHANGED <<plan, bound, goal, work, covered, run, step, seen, ops>>

-----------------------------------------------------------------------------
\* complete_step and fail_step read the plan and check the binding first.
BeginEnd(c, stage) ==
  /\ \E s \in Ids(plan) :
       /\ bound[s] # NoRun
       /\ run' = [run EXCEPT ![c] = bound[s]]
       /\ step' = [step EXCEPT ![c] = s]
  /\ Begin(c, stage)
  /\ UNCHANGED seen

BeginComplete(c) == BeginEnd(c, "complete")

BeginFail(c) == BeginEnd(c, "fail")

\* Mutant: a completed step may be completed again.
CompleteAgain(c) ==
  /\ At(c, "complete")
  /\ Move(c, plan.steps[step[c]].state \in {"running", "completed"},
          CompletedStep(plan, step[c]), bound[step[c]], "completed")
  /\ UNCHANGED <<goal, journal, work, covered, run, step, ops>>

Complete(c) ==
  /\ At(c, "complete")
  /\ Move(c, CanEnd(plan, step[c]), CompletedStep(plan, step[c]),
          bound[step[c]], "completed")
  /\ UNCHANGED <<goal, journal, work, covered, run, step, ops>>

\* Mutant: the last step is reported like any other.
JournalCompletedAlike(c) ==
  /\ At(c, "completed")
  /\ Emit(c, "step_completed")
  /\ Goto(c, "progress")
  /\ UNCHANGED <<plan, bound, goal, work, covered, run, step, seen, ops>>

\* The revision that complete_step returned decides what comes next.
JournalCompleted(c) ==
  /\ At(c, "completed")
  /\ Emit(c, "step_completed")
  /\ Goto(c, IF seen[c].state = "completed" THEN "over" ELSE "progress")
  /\ UNCHANGED <<plan, bound, goal, work, covered, run, step, seen, ops>>

Worked(c) == work' = [work EXCEPT ![step[c]] = @ + 1]

\* RecoveryRunController.complete: record the work, then end an active goal and
\* checkpoint it, or raise.
FinishGoal(c) ==
  /\ At(c, "over")
  /\ IF goal = "completed"
     THEN UNCHANGED <<work, goal, covered>>
     ELSE /\ Worked(c)
          /\ IF goal = "active"
             THEN goal' = "completed" /\ covered' = covered \cup {step[c]}
             ELSE UNCHANGED <<goal, covered>>
  /\ Leave(c)
  /\ UNCHANGED <<plan, bound, journal, run, step, seen, ops>>

\* Mutant: the step's work is progress enough.
ProgressOnly(c) ==
  /\ At(c, "progress")
  /\ IF goal = "completed" THEN UNCHANGED work ELSE Worked(c)
  /\ Leave(c)
  /\ UNCHANGED <<plan, bound, goal, journal, covered, run, step, seen, ops>>

\* record_progress refuses a goal that is over.
Progress(c) ==
  /\ At(c, "progress")
  /\ IF goal = "completed"
     THEN Leave(c) /\ UNCHANGED work
     ELSE Worked(c) /\ Goto(c, "checkpoint")
  /\ UNCHANGED <<plan, bound, goal, journal, covered, run, step, seen, ops>>

CheckpointStep(c) ==
  /\ At(c, "checkpoint")
  /\ covered' = covered \cup {step[c]}
  /\ Leave(c)
  /\ UNCHANGED <<plan, bound, goal, journal, work, run, step, seen, ops>>

Fail(c) ==
  /\ At(c, "fail")
  /\ Move(c, CanEnd(plan, step[c]), FailedStep(plan, step[c]),
          bound[step[c]], "failed")
  /\ UNCHANGED <<goal, journal, work, covered, run, step, ops>>

JournalFailed(c) ==
  /\ At(c, "failed")
  /\ Emit(c, "step_failed")
  /\ Goto(c, "block")
  /\ UNCHANGED <<plan, bound, goal, work, covered, run, step, seen, ops>>

\* Mutant: a step that can be retried leaves the goal active.
BlockGoalExhausted(c) ==
  /\ At(c, "block")
  /\ goal' = IF goal = "active" /\ Retryable(plan) = {} THEN "blocked" ELSE goal
  /\ Leave(c)
  /\ UNCHANGED <<plan, bound, journal, work, covered, run, step, seen, ops>>

\* RecoveryRunController.block: an active goal is blocked, a blocked one stays
\* so, any other state raises.
BlockGoal(c) ==
  /\ At(c, "block")
  /\ goal' = IF goal = "active" THEN "blocked" ELSE goal
  /\ Leave(c)
  /\ UNCHANGED <<plan, bound, journal, work, covered, run, step, seen, ops>>

-----------------------------------------------------------------------------
Crash(c) ==
  /\ Crashes
  /\ ~At(c, "idle")
  /\ Leave(c)
  /\ disturbed' = TRUE
  /\ UNCHANGED <<Durable, run, step, seen, ops>>

\* An operator of the plan service: replans, blocks a step, unblocks one.
Operator ==
  /\ Operated
  /\ \/ \E ids \in SUBSET StepIds :
          /\ CanRevise(plan, ids)
          /\ plan' = Revised(plan, ids)
          /\ bound' = [s \in StepIds |->
                         IF s \in ids \cap Ids(plan) THEN bound[s] ELSE NoRun]
     \/ \E s \in StepIds :
          /\ \/ CanBlock(plan, s) /\ plan' = BlockedStep(plan, s)
             \/ CanUnblock(plan, s) /\ plan' = UnblockedStep(plan, s)
          /\ UNCHANGED bound
  /\ disturbed' = TRUE
  /\ UNCHANGED <<goal, journal, work, covered, pc, run, step, seen, ops>>

Stage(c) ==
  /\ UNCHANGED disturbed
  /\ \/ Decide(c) \/ Unblock(c) \/ Announce(c) \/ Attempt(c) \/ JournalPlanned(c)
     \/ Complete(c) \/ JournalCompleted(c) \/ FinishGoal(c) \/ Progress(c)
     \/ CheckpointStep(c) \/ Fail(c) \/ JournalFailed(c) \/ BlockGoal(c)

Next ==
  \/ \E c \in Coordinators :
       \/ (StartNext(c) \/ BeginComplete(c) \/ BeginFail(c)) /\ UNCHANGED disturbed
       \/ Stage(c) \/ Crash(c)
  \/ Operator

Spec == Init /\ [][Next]_vars

-----------------------------------------------------------------------------
(* Properties *)

\* Every variable keeps its type.
TypeOK ==
  /\ plan \in Plan
  /\ bound \in [StepIds -> Runs \cup {NoRun}]
  /\ goal \in GoalStates
  /\ journal \subseteq Event
  /\ work \in [StepIds -> Nat]
  /\ covered \subseteq StepIds
  /\ pc \in [Coordinators -> Stages]
  /\ run \in [Coordinators -> Runs \cup {NoRun}]
  /\ step \in [Coordinators -> StepIds]
  /\ seen \in [Coordinators -> Plan]
  /\ ops \in [Coordinators -> 0..MaxOps]
  /\ disturbed \in BOOLEAN

\* One coordinator is the only one so far.
Alone == \E c \in Coordinators : \A d \in Coordinators \ {c} : ops[d] = 0

\* Work goes on under an active goal only: what is running can be completed,
\* and its goal ended, without unblocking anything first.
RunningHasActiveGoal == In(plan, "running") # {} => goal = "active"

\* Each completed step is named in completed_work at most once, whoever
\* reported it, and nothing else is.
WorkIsDone ==
  \A s \in StepIds : work[s] <= (IF s \in In(plan, "completed") THEN 1 ELSE 0)

Quiet == \A c \in Coordinators : At(c, "idle")

\* "A failed step blocks the Goal": undisturbed, a plan that waits for a failed
\* step has a blocked goal between operations.
FailureBlocksGoal ==
  Quiet /\ ~disturbed /\ In(plan, "failed") # {} /\ In(plan, "running") = {}
    => goal = "blocked"

\* "Step completion updates Goal.completed_work / next_action and writes a
\* recovery checkpoint before advancing": undisturbed, no step runs before the
\* completed ones are in a checkpoint.
AdvanceIsCheckpointed ==
  ~disturbed /\ In(plan, "running") # {} => In(plan, "completed") \subseteq covered

\* Undisturbed, a plan that is over has ended its goal between operations.
PlanEndReachesGoal ==
  Quiet /\ ~disturbed /\ plan.state = "completed" => goal = "completed"

\* What is promised of a plan that one coordinator works on, whoever operates
\* on it meanwhile.
RunningHasActiveGoalAlone == Alone => RunningHasActiveGoal

FailureBlocksGoalAlone == Alone => FailureBlocksGoal

AdvanceIsCheckpointedAlone == Alone => AdvanceIsCheckpointed

PlanEndReachesGoalAlone == Alone => PlanEndReachesGoal
=============================================================================
