------------------------------- MODULE GoalRun -------------------------------
(***************************************************************************)
(* The lifecycle of one durable goal: RecoveryRunController                 *)
(* (recovery/run_controller.py) driving GoalService (goal/service.py), the  *)
(* run journal and the checkpoints of RecoveryCoordinator.write_checkpoint. *)
(*                                                                         *)
(* Every operation of the controller is a chain of separate store calls:    *)
(* read the goal, write it back whole, append an event, read the goal and   *)
(* the journal again, put a checkpoint, append its event.  Each call is one *)
(* step here, so a crash or a second controller can come between any two.   *)
(***************************************************************************)
EXTENDS Naturals, Sequences, FiniteSets

CONSTANTS
  Controllers,  \* callers of RecoveryRunController
  Runs,         \* run ids of the goal
  Blockers,     \* what can block the goal
  Crashes,      \* may a controller die in the middle of an operation?
  MaxOps        \* bound: operations per controller

ASSUME ConstantsAssumption ==
  /\ Controllers # {} /\ Runs # {} /\ Blockers # {}
  /\ Crashes \in BOOLEAN
  /\ MaxOps \in Nat

Terminal == {"completed", "cancelled"}

GoalStates == {"planned", "active", "blocked"} \cup Terminal

Goal == [state: GoalStates, blockers: SUBSET Blockers]

\* _ALLOWED_TRANSITIONS
Allowed(from) ==
  CASE from = "planned" -> {"active", "cancelled"}
    [] from = "active" -> {"blocked", "completed", "cancelled"}
    [] from = "blocked" -> {"active", "cancelled"}
    [] from \in Terminal -> {}

OpNames == {"start", "checkpoint", "block", "unblock", "complete", "cancel"}

\* work: does complete() report a completed_work, which it records first?
Op == [name: OpNames, run: Runs, blocker: Blockers, work: BOOLEAN]

EventTypes == {"goal_started", "blocker_detected", "goal_completed",
               "goal_cancelled", "checkpoint_written"}

Checkpoint == [run: Runs, seq: Nat, state: GoalStates, blockers: SUBSET Blockers]

Steps == {"idle", "read", "p_read", "p_write", "t_read", "t_write", "first",
          "note", "cp_goal", "cp_seq", "cp_put", "cp_note"}

VARIABLES
  goal,         \* the row of the goal
  journal,      \* run_journal of the goal, by run
  checkpoints,  \* recovery_checkpoints of the goal
  pc, op,       \* where each controller is, and in which operation
  seen,         \* the goal a controller read and will write back or checkpoint
  covers,       \* the latest_sequence a controller read for its checkpoint
  ops           \* operations begun (bounded by MaxOps)

vars == <<goal, journal, checkpoints, pc, op, seen, covers, ops>>

\* Any operation may be the first: no operation has been called yet.
Init ==
  /\ goal = [state |-> "planned", blockers |-> {}]
  /\ journal = [r \in Runs |-> <<>>]
  /\ checkpoints = {}
  /\ pc = [c \in Controllers |-> "idle"]
  /\ op \in [Controllers -> {o \in Op : o.name = "start" /\ ~o.work}]
  /\ seen = [c \in Controllers |-> goal]
  /\ covers = [c \in Controllers |-> 0]
  /\ ops = [c \in Controllers |-> 0]

-----------------------------------------------------------------------------
At(c, step) == pc[c] = step

Goto(c, step) == pc' = [pc EXCEPT ![c] = step]

\* A GoalStateError, or the end of an operation: the controller is idle again.
Leave(c) == Goto(c, "idle")

Emit(r, type) == journal' = [journal EXCEPT ![r] = Append(@, type)]

See(c, g) == seen' = [seen EXCEPT ![c] = g]

FirstStep(name) ==
  CASE name = "block" -> "p_read"
    [] name = "checkpoint" -> "cp_goal"
    [] OTHER -> "read"

Begin(c) ==
  /\ At(c, "idle")
  /\ ops[c] < MaxOps
  /\ ops' = [ops EXCEPT ![c] = @ + 1]
  /\ \E o \in Op :
       /\ o.work => o.name = "complete"
       /\ op' = [op EXCEPT ![c] = o]
       /\ Goto(c, FirstStep(o.name))
  /\ UNCHANGED <<goal, journal, checkpoints, seen, covers>>

\* What start, unblock, complete and cancel do with the goal they get first.
AfterRead(o, state) ==
  CASE o.name = "start" /\ state = "planned" -> "t_read"
    [] o.name = "start" /\ state = "active" -> "first"
    [] o.name = "unblock" /\ state = "blocked" -> "t_read"
    [] o.name = "complete" /\ o.work -> "p_read"
    [] o.name = "complete" /\ ~o.work /\ state = "active" -> "t_read"
    [] o.name = "cancel" /\ state \notin Terminal -> "t_read"
    [] OTHER -> "idle"

Read(c) ==
  /\ At(c, "read")
  /\ Goto(c, AfterRead(op[c], goal.state))
  /\ UNCHANGED <<goal, journal, checkpoints, op, seen, covers, ops>>

\* GoalService.record_progress: read, refuse a terminal goal, ...
ProgressRead(c) ==
  /\ At(c, "p_read")
  /\ IF goal.state \in Terminal
     THEN Leave(c) /\ UNCHANGED seen
     ELSE See(c, goal) /\ Goto(c, "p_write")
  /\ UNCHANGED <<goal, journal, checkpoints, op, covers, ops>>

\* What block and complete do with the goal record_progress returned.
AfterProgress(name, state) ==
  CASE state = "active" -> "t_read"
    [] name = "block" /\ state = "blocked" -> "note"
    [] OTHER -> "idle"

\* ... then write back the goal that was read, block with its new blocker.
ProgressWrite(c) ==
  LET name == op[c].name
  IN /\ At(c, "p_write")
     /\ goal' = [seen[c] EXCEPT !.blockers =
                   IF name = "block" THEN {op[c].blocker} ELSE @]
     /\ Goto(c, AfterProgress(name, seen[c].state))
     /\ UNCHANGED <<journal, checkpoints, op, seen, covers, ops>>

TargetOf(name) ==
  CASE name \in {"start", "unblock"} -> "active"
    [] name = "block" -> "blocked"
    [] name = "complete" -> "completed"
    [] OTHER -> "cancelled"

AfterTransition(name) ==
  CASE name = "start" -> "first"
    [] name = "unblock" -> "idle"
    [] OTHER -> "note"

\* Mutant: an operation that ends the goal is journalled before it is written.
TransitionJournalsFirst(c) ==
  /\ At(c, "t_read")
  /\ goal.state # TargetOf(op[c].name)
  /\ TargetOf(op[c].name) \in Allowed(goal.state)
  /\ See(c, goal)
  /\ Goto(c, "t_write")
  /\ IF op[c].name \in {"complete", "cancel"}
     THEN Emit(op[c].run, IF op[c].name = "complete" THEN "goal_completed"
                                                     ELSE "goal_cancelled")
     ELSE UNCHANGED journal
  /\ UNCHANGED <<goal, checkpoints, op, covers, ops>>

\* GoalService.transition reads the goal again: a goal already there is
\* returned as it is, a transition that is not allowed raises, ...
TransitionRead(c) ==
  LET to == TargetOf(op[c].name)
  IN /\ At(c, "t_read")
     /\ \/ /\ goal.state = to
           /\ Goto(c, AfterTransition(op[c].name))
           /\ UNCHANGED seen
        \/ /\ goal.state # to /\ to \in Allowed(goal.state)
           /\ See(c, goal)
           /\ Goto(c, "t_write")
        \/ /\ goal.state # to /\ to \notin Allowed(goal.state)
           /\ Leave(c)
           /\ UNCHANGED seen
     /\ UNCHANGED <<goal, journal, checkpoints, op, covers, ops>>

\* Mutant: blockers=None, so the goal keeps the blockers it was read with.
TransitionKeepsBlockers(c) ==
  /\ At(c, "t_write")
  /\ goal' = [seen[c] EXCEPT !.state = TargetOf(op[c].name)]
  /\ Goto(c, AfterTransition(op[c].name))
  /\ UNCHANGED <<journal, checkpoints, op, seen, covers, ops>>

\* ... and what was read is written back with the new state and blockers.
TransitionWrite(c) ==
  LET name == op[c].name
  IN /\ At(c, "t_write")
     /\ goal' = [state |-> TargetOf(name),
                 blockers |-> CASE name = "start" -> seen[c].blockers
                                [] name = "block" -> {op[c].blocker}
                                [] OTHER -> {}]
     /\ Goto(c, AfterTransition(name))
     /\ UNCHANGED <<journal, checkpoints, op, seen, covers, ops>>

\* start journals goal_started into an empty journal only.
FirstEvent(c) ==
  /\ At(c, "first")
  /\ Goto(c, IF journal[op[c].run] = <<>> THEN "note" ELSE "idle")
  /\ UNCHANGED <<goal, journal, checkpoints, op, seen, covers, ops>>

EventOf(name) ==
  CASE name = "start" -> "goal_started"
    [] name = "block" -> "blocker_detected"
    [] name = "complete" -> "goal_completed"
    [] OTHER -> "goal_cancelled"

Note(c) ==
  /\ At(c, "note")
  /\ Emit(op[c].run, EventOf(op[c].name))
  /\ Goto(c, IF op[c].name = "start" THEN "idle" ELSE "cp_goal")
  /\ UNCHANGED <<goal, checkpoints, op, seen, covers, ops>>

-----------------------------------------------------------------------------
(* RecoveryCoordinator.write_checkpoint *)

CheckpointGoal(c) ==
  /\ At(c, "cp_goal")
  /\ See(c, goal)
  /\ Goto(c, "cp_seq")
  /\ UNCHANGED <<goal, journal, checkpoints, op, covers, ops>>

CheckpointSequence(c) ==
  /\ At(c, "cp_seq")
  /\ covers' = [covers EXCEPT ![c] = Len(journal[op[c].run])]
  /\ Goto(c, "cp_put")
  /\ UNCHANGED <<goal, journal, checkpoints, op, seen, ops>>

CheckpointPut(c) ==
  /\ At(c, "cp_put")
  /\ checkpoints' = checkpoints \cup
       {[run |-> op[c].run, seq |-> covers[c],
         state |-> seen[c].state, blockers |-> seen[c].blockers]}
  /\ Goto(c, "cp_note")
  /\ UNCHANGED <<goal, journal, op, seen, covers, ops>>

CheckpointNote(c) ==
  /\ At(c, "cp_note")
  /\ Emit(op[c].run, "checkpoint_written")
  /\ Leave(c)
  /\ UNCHANGED <<goal, checkpoints, op, seen, covers, ops>>

Crash(c) ==
  /\ Crashes
  /\ ~At(c, "idle")
  /\ Leave(c)
  /\ UNCHANGED <<goal, journal, checkpoints, op, seen, covers, ops>>

Step(c) ==
  \/ Read(c) \/ ProgressRead(c) \/ ProgressWrite(c)
  \/ TransitionRead(c) \/ TransitionWrite(c) \/ FirstEvent(c) \/ Note(c)
  \/ CheckpointGoal(c) \/ CheckpointSequence(c)
  \/ CheckpointPut(c) \/ CheckpointNote(c)

Next == \E c \in Controllers : Begin(c) \/ Step(c) \/ Crash(c)

Spec == Init /\ [][Next]_vars

-----------------------------------------------------------------------------
(* Properties *)

\* Every variable keeps its type.
TypeOK ==
  /\ goal \in Goal
  /\ journal \in [Runs -> Seq(EventTypes)]
  /\ checkpoints \subseteq Checkpoint
  /\ pc \in [Controllers -> Steps]
  /\ op \in [Controllers -> Op]
  /\ seen \in [Controllers -> Goal]
  /\ covers \in [Controllers -> Nat]
  /\ ops \in [Controllers -> 0..MaxOps]

\* A blocked goal says what blocks it, in the row and in every checkpoint, even
\* when controllers overwrite each other's rows: each writes a whole record
\* whose state and blockers belong together.
Explained(g) == g.state = "blocked" => g.blockers # {}

BlockedHasBlocker == Explained(goal) /\ \A cp \in checkpoints : Explained(cp)

\* A goal driven by one controller at a time lives as GoalLifecycle says, over
\* every crash and every refused or repeated operation.
Life == INSTANCE GoalLifecycle WITH
  state <- goal.state, blockers <- goal.blockers

ImplementsLifecycle == Life!Spec

\* Only one controller has come to the goal so far.
Alone == \E c \in Controllers : \A d \in Controllers \ {c} : ops[d] = 0

\* A step made while one controller drives the goal is a step of its life.
ImplementsLifecycleAlone ==
  Life!Init /\ [][Alone' => Life!Next \/ UNCHANGED goal]_vars

\* A checkpoint whose sequence covers the event that ended the goal carries the
\* terminal state: resuming from it cannot redo the end (transition before
\* event, event before checkpoint).
CheckpointKnowsTheEnd ==
  \A cp \in checkpoints :
    /\ cp.seq <= Len(journal[cp.run])
    /\ \A i \in 1..cp.seq :
         journal[cp.run][i] \in {"goal_completed", "goal_cancelled"}
           => cp.state \in Terminal

\* It holds as long as one controller drives the goal.
CheckpointKnowsTheEndAlone == Alone => CheckpointKnowsTheEnd
=============================================================================
