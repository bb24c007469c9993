---------------------------- MODULE GoalRunProofs ----------------------------
(***************************************************************************)
(* Proofs about GoalRun, for any controllers, runs, blockers and number of  *)
(* operations.                                                              *)
(*                                                                         *)
(* 1. Types are kept (TypeCorrect) and a blocked goal is always explained   *)
(*    (BlockedIsExplained): every row a controller read, holds or writes    *)
(*    carries its state and blockers together, so stale rows do no harm     *)
(*    here.  That is why the invariant speaks of seen as well.              *)
(* 2. While only one controller has come, nothing moves between its read    *)
(*    and its write, so what it writes back is the goal, one allowed        *)
(*    transition later (AboutTo): the goal implements GoalLifecycle, and    *)
(*    what ended stays as it is.                                            *)
(* 3. Hence an event that tells the end is journalled under an ended goal   *)
(*    (Told), and a checkpoint that covers it was taken from one            *)
(*    (AboutToTell, CheckpointsKnowTheEnd).                                 *)
(***************************************************************************)
EXTENDS GoalRun, TLAPS

\* The step of an operation keeps the types: one fact per variable.
LEMMA InitType == Init => TypeOK
<1> SUFFICES ASSUME Init PROVE TypeOK
  OBVIOUS
<1>1. goal \in Goal
  BY DEF Init, Goal, GoalStates, Terminal
<1>2. journal \in [Runs -> Seq(EventTypes)] /\ checkpoints \subseteq Checkpoint
  BY DEF Init
<1>3. op \in [Controllers -> Op]
  BY DEF Init
<1>4. seen \in [Controllers -> Goal] /\ covers \in [Controllers -> Nat]
  BY <1>1 DEF Init
<1>5. pc \in [Controllers -> Steps] /\ ops \in [Controllers -> 0..MaxOps]
  BY ConstantsAssumption DEF Init, Steps
<1> QED
  BY <1>1, <1>2, <1>3, <1>4, <1>5 DEF TypeOK

\* The goal a step of GoalService writes is a goal.
LEMMA WrittenType ==
  ASSUME TypeOK, NEW c \in Controllers
  PROVE  /\ [seen[c] EXCEPT !.blockers =
               IF op[c].name = "block" THEN {op[c].blocker} ELSE @] \in Goal
         /\ [state |-> TargetOf(op[c].name),
             blockers |-> CASE op[c].name = "start" -> seen[c].blockers
                            [] op[c].name = "block" -> {op[c].blocker}
                            [] OTHER -> {}] \in Goal
<1>1. seen[c] \in Goal /\ op[c] \in Op
  BY DEF TypeOK
<1>2. TargetOf(op[c].name) \in GoalStates
  BY <1>1 DEF TargetOf, GoalStates, Terminal, Op, OpNames
<1> QED
  BY <1>1, <1>2 DEF Goal, Op

\* Where the branches of an operation lead.
LEMMA StepsAhead ==
  ASSUME NEW o \in Op, NEW s \in GoalStates
  PROVE  /\ FirstStep(o.name) \in Steps
         /\ AfterRead(o, s) \in Steps
         /\ AfterProgress(o.name, s) \in Steps
         /\ AfterTransition(o.name) \in Steps
         /\ EventOf(o.name) \in EventTypes
  BY DEF FirstStep, AfterRead, AfterProgress, AfterTransition, EventOf, Steps,
         EventTypes, Op, OpNames

LEMMA JournalType ==
  ASSUME TypeOK, NEW r \in Runs, NEW e \in EventTypes, Emit(r, e)
  PROVE  journal' \in [Runs -> Seq(EventTypes)]
  BY DEF TypeOK, Emit

LEMMA TypeStep == TypeOK /\ [Next]_vars => TypeOK'
<1> SUFFICES ASSUME TypeOK, [Next]_vars PROVE TypeOK'
  OBVIOUS
<1>1. CASE UNCHANGED vars
  BY <1>1 DEF TypeOK, vars
<1>2. ASSUME NEW c \in Controllers, Begin(c) \/ Step(c) \/ Crash(c)
      PROVE  TypeOK'
  <2>0. /\ op[c] \in Op /\ op[c].run \in Runs /\ goal \in Goal
        /\ goal.state \in GoalStates /\ seen[c] \in Goal
        /\ seen[c].state \in GoalStates
    BY DEF TypeOK, Op, Goal
  <2>1. CASE Begin(c)
    <3>1. pc' \in [Controllers -> Steps] /\ op' \in [Controllers -> Op]
      BY <2>1, StepsAhead, <2>0 DEF Begin, Goto, TypeOK
    <3>2. ops' \in [Controllers -> 0..MaxOps]
      BY <2>1, ConstantsAssumption DEF Begin, TypeOK
    <3> QED
      BY <2>1, <3>1, <3>2 DEF Begin, TypeOK
  <2>2. CASE Read(c)
    BY <2>2, <2>0, StepsAhead DEF Read, Goto, TypeOK
  <2>3. CASE ProgressRead(c)
    BY <2>3, <2>0 DEF ProgressRead, Goto, Leave, See, TypeOK, Steps
  <2>4. CASE ProgressWrite(c)
    BY <2>4, <2>0, WrittenType, StepsAhead DEF ProgressWrite, Goto, TypeOK
  <2>5. CASE TransitionRead(c)
    <3>1. AfterTransition(op[c].name) \in Steps
      BY <2>0, StepsAhead
    <3> QED
      BY <2>5, <2>0, <3>1 DEF TransitionRead, Goto, Leave, See, TypeOK, Steps
  <2>6. CASE TransitionWrite(c)
    <3>1. AfterTransition(op[c].name) \in Steps
      BY <2>0, StepsAhead
    <3> QED
      BY <2>6, <3>1, WrittenType DEF TransitionWrite, Goto, TypeOK
  <2>7. CASE FirstEvent(c)
    BY <2>7 DEF FirstEvent, Goto, TypeOK, Steps
  <2>8. CASE Note(c)
    <3>1. journal' \in [Runs -> Seq(EventTypes)]
      BY <2>8, <2>0, StepsAhead, JournalType DEF Note
    <3> QED
      BY <2>8, <3>1 DEF Note, Goto, TypeOK, Steps
  <2>9. CASE CheckpointGoal(c)
    BY <2>9, <2>0 DEF CheckpointGoal, Goto, See, TypeOK, Steps
  <2>10. CASE CheckpointSequence(c)
    <3>1. Len(journal[op[c].run]) \in Nat
      BY <2>0 DEF TypeOK
    <3> QED
      BY <2>10, <3>1 DEF CheckpointSequence, Goto, TypeOK, Steps
  <2>11. CASE CheckpointPut(c)
    <3>1. checkpoints' \subseteq Checkpoint
      BY <2>11, <2>0 DEF CheckpointPut, TypeOK, Checkpoint, Goal
    <3> QED
      BY <2>11, <3>1 DEF CheckpointPut, Goto, TypeOK, Steps
  <2>12. CASE CheckpointNote(c)
    <3>1. journal' \in [Runs -> Seq(EventTypes)]
      BY <2>12, <2>0, JournalType DEF CheckpointNote, EventTypes
    <3> QED
      BY <2>12, <3>1 DEF CheckpointNote, Goto, Leave, TypeOK, Steps
  <2>13. CASE Crash(c)
    BY <2>13 DEF Crash, Goto, Leave, TypeOK, Steps
  <2> QED
    BY <1>2, <2>1, <2>2, <2>3, <2>4, <2>5, <2>6, <2>7, <2>8, <2>9, <2>10,
       <2>11, <2>12, <2>13 DEF Step
<1> QED
  BY <1>1, <1>2 DEF Next

\* Every variable of the run controller keeps its type.
THEOREM TypeCorrect == Spec => []TypeOK
  BY InitType, TypeStep, PTL DEF Spec

-----------------------------------------------------------------------------
\* What is known of the goal is known of every row a controller holds.
RowsExplained ==
  /\ Explained(goal)
  /\ \A c \in Controllers : Explained(seen[c])
  /\ \A cp \in checkpoints : Explained(cp)

LEMMA WrittenExplained ==
  ASSUME TypeOK, RowsExplained, NEW c \in Controllers,
         ProgressWrite(c) \/ TransitionWrite(c)
  PROVE  Explained(goal')
<1>1. /\ Explained(seen[c]) /\ op[c].blocker \in Blockers
      /\ seen[c] \in Goal /\ op[c].name \in OpNames
  BY DEF RowsExplained, TypeOK, Op
<1>2. CASE ProgressWrite(c)
  BY <1>1, <1>2 DEF ProgressWrite, Explained, Goal
<1>3. CASE TransitionWrite(c)
  BY <1>1, <1>3 DEF TransitionWrite, Explained, Goal, TargetOf, OpNames
<1> QED
  BY <1>2, <1>3

LEMMA RowsStep == TypeOK /\ RowsExplained /\ [Next]_vars => RowsExplained'
<1> SUFFICES ASSUME TypeOK, RowsExplained, [Next]_vars PROVE RowsExplained'
  OBVIOUS
<1> USE DEF RowsExplained
<1>1. CASE UNCHANGED vars
  BY <1>1 DEF vars, Explained
<1>2. ASSUME NEW c \in Controllers, Begin(c) \/ Step(c) \/ Crash(c)
      PROVE  RowsExplained'
  <2>1. Explained(goal')
    <3>1. CASE ProgressWrite(c) \/ TransitionWrite(c)
      BY <3>1, WrittenExplained
    <3>2. CASE ~(ProgressWrite(c) \/ TransitionWrite(c))
      <4>1. goal' = goal
        BY <1>2, <3>2 DEF Step, Begin, Crash, Read, ProgressRead,
           TransitionRead, FirstEvent, Note, CheckpointGoal,
           CheckpointSequence, CheckpointPut, CheckpointNote
      <4> QED
        BY <4>1 DEF Explained
    <3> QED
      BY <3>1, <3>2
  <2>2. ASSUME NEW d \in Controllers PROVE Explained(seen[d])'
    <3>1. seen'[d] = seen[d] \/ seen'[d] = goal
      BY <1>2 DEF Step, Begin, Crash, Read, ProgressRead, ProgressWrite, See,
         TransitionRead, TransitionWrite, FirstEvent, Note, CheckpointGoal,
         CheckpointSequence, CheckpointPut, CheckpointNote, TypeOK
    <3> QED
      BY <3>1 DEF Explained
  <2>3. ASSUME NEW cp \in checkpoints' PROVE Explained(cp)
    <3>1. CASE CheckpointPut(c)
      <4>1. Explained(seen[c])
        OBVIOUS
      <4> QED
        BY <2>3, <3>1, <4>1 DEF CheckpointPut, Explained
    <3>2. CASE ~CheckpointPut(c)
      <4>1. checkpoints' = checkpoints
        BY <1>2, <3>2 DEF Step, Begin, Crash, Read, ProgressRead,
           ProgressWrite, TransitionRead, TransitionWrite, FirstEvent, Note,
           CheckpointGoal, CheckpointSequence, CheckpointNote
      <4> QED
        BY <2>3, <4>1
    <3> QED
      BY <3>1, <3>2
  <2> QED
    BY <2>1, <2>2, <2>3 DEF Explained
<1> QED
  BY <1>1, <1>2 DEF Next

\* However many controllers overwrite each other's rows, a goal, and a
\* checkpoint of it, that says "blocked" also says by what.
THEOREM BlockedIsExplained == Spec => []BlockedHasBlocker
<1>1. Init => RowsExplained
  BY DEF Init, RowsExplained, Explained
<1>2. RowsExplained => BlockedHasBlocker
  BY DEF RowsExplained, BlockedHasBlocker
<1> QED
  BY <1>1, <1>2, RowsStep, TypeCorrect, PTL DEF Spec

-----------------------------------------------------------------------------
\* While one controller drives the goal: what an operation is about to write back is the goal
\* as it is, and the transition it is about to make is allowed from there.
AboutTo(c) ==
  LET name == op[c].name
  IN /\ pc[c] = "p_write" => seen[c] = goal /\ goal.state \notin Terminal
     /\ pc[c] \in {"t_read", "t_write"} =>
          /\ name = "start" => goal.state = "planned"
          /\ name = "unblock" => goal.state = "blocked"
     /\ pc[c] = "t_write" =>
          seen[c] = goal /\ TargetOf(name) \in Allowed(goal.state)
     /\ name = "unblock" => pc[c] \in {"idle", "read", "t_read", "t_write"}
     /\ name = "start" =>
          pc[c] \in {"idle", "read", "t_read", "t_write", "first", "note"}

\* A controller that has begun nothing does nothing.
Begun == \A c \in Controllers : ops[c] = 0 => pc[c] = "idle"

\* The events that tell the goal's end.
Ends == {"goal_completed", "goal_cancelled"}

\* An end is journalled when the goal is there, and what a checkpoint is about
\* to say is the goal as it is and a journal that is no longer than it is.
AboutToTell(c) ==
  /\ pc[c] = "first" => op[c].name = "start"
  /\ pc[c] = "note" => op[c].name \in {"start", "block"} \/ goal.state \in Terminal
  /\ pc[c] \in {"cp_seq", "cp_put"} => seen[c] = goal
  /\ pc[c] = "cp_put" => covers[c] <= Len(journal[op[c].run])

Told ==
  \A r \in Runs : \A i \in 1..Len(journal[r]) :
    journal[r][i] \in Ends => goal.state \in Terminal

\* What holds while only one controller has come.
AloneInv ==
  /\ \A c \in Controllers : AboutTo(c) /\ AboutToTell(c)
  /\ Told
  /\ CheckpointKnowsTheEnd

LEMMA AboutToStep ==
  ASSUME TypeOK, NEW c \in Controllers, AboutTo(c), Begin(c) \/ Step(c) \/ Crash(c)
  PROVE  AboutTo(c)'
<1>0. AboutTo(c) /\ op[c] \in Op /\ pc[c] \in Steps
  BY DEF TypeOK
<1>2. CASE Begin(c)
  <2>1. pc'[c] = FirstStep(op'[c].name) /\ op'[c].name \in OpNames
    BY <1>2 DEF Begin, Goto, TypeOK, Op
  <2> QED
    BY <2>1 DEF AboutTo, FirstStep, OpNames
<1>3. CASE Read(c)
  <2>1. pc'[c] = AfterRead(op[c], goal.state) /\ UNCHANGED <<op, goal, seen>>
    BY <1>3 DEF At, Read, Goto, TypeOK
  <2> QED
    BY <1>0, <2>1 DEF AboutTo, AfterRead, Terminal
<1>4. CASE ProgressRead(c)
  BY <1>0, <1>4 DEF At, AboutTo, ProgressRead, Goto, Leave, See, TypeOK
<1>5. CASE ProgressWrite(c)
  <2>1. /\ pc'[c] = AfterProgress(op[c].name, goal.state)
        /\ UNCHANGED op /\ pc[c] = "p_write"
    BY <1>0, <1>5 DEF At, ProgressWrite, Goto, TypeOK, AboutTo
  <2> QED
    BY <1>0, <2>1 DEF AboutTo, AfterProgress
<1>6. CASE TransitionRead(c)
  <2>1. /\ pc[c] = "t_read" /\ UNCHANGED <<op, goal>>
        /\ \/ pc'[c] = AfterTransition(op[c].name)
           \/ pc'[c] = "idle"
           \/ /\ pc'[c] = "t_write" /\ seen'[c] = goal
              /\ TargetOf(op[c].name) \in Allowed(goal.state)
    BY <1>6 DEF At, TransitionRead, Goto, Leave, See, TypeOK
  <2> QED
    BY <1>0, <2>1 DEF AboutTo, AfterTransition
<1>7. CASE TransitionWrite(c)
  <2>1. pc[c] = "t_write" /\ UNCHANGED op /\ pc'[c] = AfterTransition(op[c].name)
    BY <1>7 DEF At, TransitionWrite, Goto, TypeOK
  <2> QED
    BY <1>0, <2>1 DEF AboutTo, AfterTransition
<1>8. CASE FirstEvent(c)
  BY <1>0, <1>8 DEF At, AboutTo, FirstEvent, Goto, TypeOK
<1>9. CASE Note(c)
  BY <1>0, <1>9 DEF At, AboutTo, Note, Goto, TypeOK
<1>10. CASE CheckpointGoal(c)
  BY <1>0, <1>10 DEF At, AboutTo, CheckpointGoal, Goto, TypeOK
<1>11. CASE CheckpointSequence(c) \/ CheckpointPut(c) \/ CheckpointNote(c)
  BY <1>0, <1>11 DEF At, AboutTo, CheckpointSequence, CheckpointPut,
     CheckpointNote, Goto, Leave, TypeOK
<1>12. CASE Crash(c)
  BY <1>0, <1>12 DEF At, AboutTo, Crash, Goto, Leave, TypeOK
<1> QED
  BY <1>2, <1>3, <1>4, <1>5, <1>6, <1>7, <1>8, <1>9, <1>10, <1>11,
     <1>12 DEF Step

\* A step that moves the goal is one write of GoalService.
LEMMA GoalMoves ==
  ASSUME NEW c \in Controllers, Begin(c) \/ Step(c) \/ Crash(c)
  PROVE  goal' = goal \/ ProgressWrite(c) \/ TransitionWrite(c)
  BY DEF Step, Begin, Crash, Read, ProgressRead, TransitionRead, FirstEvent,
     Note, CheckpointGoal, CheckpointSequence, CheckpointPut, CheckpointNote

LEMMA LifeStep ==
  ASSUME TypeOK, \A c \in Controllers : AboutTo(c), [Next]_vars
  PROVE  [Life!Next]_<<goal.state, goal.blockers>>
<1>1. CASE goal' = goal
  BY <1>1
<1>2. ASSUME NEW c \in Controllers, ProgressWrite(c)
      PROVE  [Life!Next]_<<goal.state, goal.blockers>>
  <2>1. seen[c] = goal /\ goal.state \notin Terminal
    BY <1>2 DEF At, AboutTo, ProgressWrite
  <2>2. goal \in Goal /\ op[c].blocker \in Blockers
    BY DEF TypeOK, Op
  <2>3. CASE op[c].name = "block"
    <3>1. goal'.state = goal.state /\ goal'.blockers = {op[c].blocker}
      BY <1>2, <2>1, <2>2, <2>3 DEF ProgressWrite, Goal
    <3>2. Life!Report
      BY <2>1, <2>2, <3>1 DEF Life!Report, Goal, GoalStates
    <3> QED
      BY <3>2 DEF Life!Next
  <2>4. CASE op[c].name # "block"
    BY <1>2, <2>1, <2>2, <2>4 DEF ProgressWrite, Goal
  <2> QED
    BY <2>3, <2>4
<1>3. ASSUME NEW c \in Controllers, TransitionWrite(c)
      PROVE  [Life!Next]_<<goal.state, goal.blockers>>
  <2> DEFINE name == op[c].name
  <2>1. /\ seen[c] = goal /\ TargetOf(name) \in Allowed(goal.state)
        /\ name = "start" => goal.state = "planned"
        /\ name = "unblock" => goal.state = "blocked"
    BY <1>3 DEF At, AboutTo, TransitionWrite
  <2>2. goal \in Goal /\ op[c].blocker \in Blockers /\ name \in OpNames
    BY DEF TypeOK, Op
  <2>3. /\ goal'.state = TargetOf(name)
        /\ goal'.blockers = CASE name = "start" -> goal.blockers
                               [] name = "block" -> {op[c].blocker}
                               [] OTHER -> {}
    BY <1>3, <2>1 DEF TransitionWrite
  <2>4. CASE name = "start"
    BY <2>1, <2>3, <2>4 DEF TargetOf, Life!Next, Life!Start, Life!Move
  <2>5. CASE name = "block"
    <3>1. goal.state = "active"
      BY <2>1, <2>2, <2>5 DEF TargetOf, Allowed, Goal, GoalStates, Terminal
    <3> QED
      BY <3>1, <2>2, <2>3, <2>5 DEF TargetOf, Life!Next, Life!Block, Life!Move
  <2>6. CASE name = "unblock"
    BY <2>1, <2>3, <2>6 DEF TargetOf, Life!Next, Life!Unblock, Life!Move
  <2>7. CASE name = "complete"
    <3>1. goal.state = "active"
      BY <2>1, <2>2, <2>7 DEF TargetOf, Allowed, Goal, GoalStates, Terminal
    <3> QED
      BY <3>1, <2>3, <2>7 DEF TargetOf, Life!Next, Life!Complete, Life!Move
  <2>8. CASE name \in {"cancel", "checkpoint"}
    <3>1. goal.state \in {"planned", "active", "blocked"}
      BY <2>1, <2>2, <2>8 DEF TargetOf, Allowed, Goal, GoalStates, Terminal
    <3> QED
      BY <3>1, <2>3, <2>8 DEF TargetOf, Life!Next, Life!Cancel, Life!Move
  <2> QED
    BY <2>2, <2>4, <2>5, <2>6, <2>7, <2>8 DEF OpNames
<1> QED
  BY <1>1, <1>2, <1>3, GoalMoves DEF Next, vars

\* What the others are while one drives the goal: idle, and they stay so.
LEMMA LoneActor ==
  ASSUME TypeOK, Begun, Alone', NEW c \in Controllers,
         Begin(c) \/ Step(c) \/ Crash(c)
  PROVE  /\ Alone
         /\ \A d \in Controllers \ {c} :
              pc[d] = "idle" /\ pc'[d] = "idle" /\ op'[d] = op[d]
<1>1. PICK w \in Controllers : \A d \in Controllers \ {w} : ops'[d] = 0
  BY DEF Alone
<1>2. /\ \A d \in Controllers \ {c} : /\ ops'[d] = ops[d] /\ pc'[d] = pc[d]
                                      /\ op'[d] = op[d]
      /\ IF Begin(c) THEN ops'[c] = ops[c] + 1 ELSE ops'[c] = ops[c]
      /\ ops[c] \in Nat
  <2>1. ops \in [Controllers -> Nat] /\ pc \in [Controllers -> Steps]
        /\ op \in [Controllers -> Op]
    BY ConstantsAssumption DEF TypeOK
  <2>2. CASE Begin(c)
    BY <2>1, <2>2 DEF Begin, Goto
  <2>3. CASE Step(c) \/ Crash(c)
    <3>1. ops' = ops /\ op' = op
      BY <2>3 DEF Step, Crash, Read, ProgressRead, ProgressWrite,
         TransitionRead, TransitionWrite, FirstEvent, Note, CheckpointGoal,
         CheckpointSequence, CheckpointPut, CheckpointNote
    <3>2. \A d \in Controllers \ {c} : pc'[d] = pc[d]
      BY <2>1, <2>3 DEF Step, Crash, Read, ProgressRead, ProgressWrite,
         TransitionRead, TransitionWrite, FirstEvent, Note, CheckpointGoal,
         CheckpointSequence, CheckpointPut, CheckpointNote, Goto, Leave
    <3>3. ~Begin(c)
      BY <2>1, <3>1 DEF Begin
    <3> QED
      BY <2>1, <3>1, <3>2, <3>3
  <2> QED
    BY <2>2, <2>3
<1>3. w = c
  <2> SUFFICES ASSUME w # c PROVE FALSE
    OBVIOUS
  <2>1. ops'[c] = 0
    BY <1>1
  <2>2. ops[c] = 0 /\ ~Begin(c)
    BY <1>2, <2>1
  <2>3. pc[c] = "idle"
    BY <2>2 DEF Begun
  <2> QED
    BY <2>2, <2>3 DEF Step, Crash, Read, ProgressRead, ProgressWrite, At,
       TransitionRead, TransitionWrite, FirstEvent, Note, CheckpointGoal,
       CheckpointSequence, CheckpointPut, CheckpointNote
<1>4. \A d \in Controllers \ {c} : ops[d] = 0
  BY <1>1, <1>2, <1>3
<1> QED
  BY <1>2, <1>4 DEF Alone, Begun

LEMMA BegunStep == TypeOK /\ Begun /\ [Next]_vars => Begun'
<1> SUFFICES ASSUME TypeOK, Begun, [Next]_vars, NEW d \in Controllers,
                    ops'[d] = 0
             PROVE  pc'[d] = "idle"
  BY DEF Begun
<1>1. CASE UNCHANGED vars
  BY <1>1 DEF vars, Begun
<1>2. ASSUME NEW c \in Controllers, Begin(c)
      PROVE  pc'[d] = "idle"
  <2>1. ops \in [Controllers -> Nat]
    BY ConstantsAssumption DEF TypeOK
  <2>2. d # c /\ ops[d] = 0
    BY <1>2, <2>1 DEF Begin
  <2> QED
    BY <1>2, <2>2 DEF Begin, Goto, Begun, TypeOK
<1>3. ASSUME NEW c \in Controllers, Step(c) \/ Crash(c)
      PROVE  pc'[d] = "idle"
  <2>1. ops' = ops /\ pc[c] # "idle" /\ (d # c => pc'[d] = pc[d])
    BY <1>3 DEF Step, Crash, Read, ProgressRead, ProgressWrite, At,
       TransitionRead, TransitionWrite, FirstEvent, Note, CheckpointGoal,
       CheckpointSequence, CheckpointPut, CheckpointNote, Goto, Leave, TypeOK
  <2> QED
    BY <2>1 DEF Begun
<1> QED
  BY <1>1, <1>2, <1>3 DEF Next

\* A goal that has ended stays as it is.
LEMMA EndStays ==
  ASSUME NEW c \in Controllers, AboutTo(c), Begin(c) \/ Step(c) \/ Crash(c),
         goal.state \in Terminal
  PROVE  goal' = goal
<1>1. ~ProgressWrite(c)
  BY DEF ProgressWrite, At, AboutTo
<1>2. ~TransitionWrite(c)
  BY DEF TransitionWrite, At, AboutTo, Allowed, Terminal
<1> QED
  BY <1>1, <1>2, GoalMoves

LEMMA AboutToTellStep ==
  ASSUME TypeOK, NEW c \in Controllers, AboutTo(c), AboutToTell(c),
         Begin(c) \/ Step(c) \/ Crash(c)
  PROVE  AboutToTell(c)'
<1>0. op[c] \in Op /\ pc[c] \in Steps
  BY DEF TypeOK
<1>1. CASE Begin(c)
  <2>1. pc'[c] = FirstStep(op'[c].name)
    BY <1>1 DEF Begin, Goto, TypeOK
  <2> QED
    BY <2>1 DEF AboutToTell, FirstStep
<1>2. CASE Read(c)
  <2>1. pc'[c] = AfterRead(op[c], goal.state) /\ UNCHANGED op
    BY <1>2 DEF Read, Goto, TypeOK
  <2> QED
    BY <2>1 DEF AboutToTell, AfterRead
<1>3. CASE ProgressRead(c)
  BY <1>3 DEF AboutToTell, ProgressRead, Goto, Leave, TypeOK
<1>4. CASE ProgressWrite(c)
  <2>1. pc'[c] = AfterProgress(op[c].name, seen[c].state) /\ UNCHANGED op
    BY <1>4 DEF ProgressWrite, Goto, TypeOK
  <2> QED
    BY <2>1 DEF AboutToTell, AfterProgress
<1>5. ASSUME AfterTransition(op[c].name) = pc'[c], UNCHANGED op,
             goal'.state = TargetOf(op[c].name)
      PROVE  AboutToTell(c)'
  <2>1. pc'[c] = "first" => op[c].name = "start"
    BY <1>5 DEF AfterTransition
  <2>2. pc'[c] = "note" => op[c].name \notin {"start", "unblock"}
    BY <1>5 DEF AfterTransition
  <2>3. pc'[c] = "note" => op[c].name = "block" \/ goal'.state \in Terminal
    BY <1>5, <2>2 DEF TargetOf, Terminal
  <2>4. pc'[c] \in {"first", "note", "idle"}
    BY <1>5 DEF AfterTransition
  <2> QED
    BY <1>5, <2>1, <2>3, <2>4 DEF AboutToTell
<1>6. CASE TransitionRead(c)
  <2>1. UNCHANGED <<op, goal>>
    BY <1>6 DEF TransitionRead
  <2>2. CASE pc'[c] \in {"t_write", "idle"}
    BY <2>2 DEF AboutToTell
  <2>3. CASE pc'[c] \notin {"t_write", "idle"}
    <3>1. goal.state = TargetOf(op[c].name) /\ pc'[c] = AfterTransition(op[c].name)
      BY <1>6, <2>3 DEF TransitionRead, Goto, Leave, TypeOK
    <3> QED
      BY <1>5, <2>1, <3>1
  <2> QED
    BY <2>2, <2>3
<1>7. CASE TransitionWrite(c)
  <2>1. /\ goal'.state = TargetOf(op[c].name) /\ UNCHANGED op
        /\ pc'[c] = AfterTransition(op[c].name)
    BY <1>7 DEF TransitionWrite, Goto, TypeOK
  <2> QED
    BY <1>5, <2>1
<1>8. CASE FirstEvent(c)
  BY <1>8 DEF At, AboutToTell, FirstEvent, Goto, TypeOK
<1>9. CASE Note(c) \/ CheckpointPut(c) \/ CheckpointNote(c) \/ Crash(c)
  <2>1. pc'[c] \in {"idle", "cp_goal", "cp_note"}
    BY <1>9 DEF Note, CheckpointPut, CheckpointNote, Crash, Goto, Leave, TypeOK
  <2> QED
    BY <2>1 DEF AboutToTell
<1>10. CASE CheckpointGoal(c)
  BY <1>10 DEF AboutToTell, CheckpointGoal, See, Goto, TypeOK
<1>11. CASE CheckpointSequence(c)
  <2>1. /\ pc[c] = "cp_seq" /\ pc'[c] = "cp_put" /\ UNCHANGED <<goal, journal, op, seen>>
        /\ covers'[c] = Len(journal[op[c].run])
    BY <1>11 DEF At, CheckpointSequence, Goto, TypeOK
  <2>2. Len(journal[op[c].run]) \in Nat
    BY <1>0 DEF TypeOK, Op
  <2> QED
    BY <2>1, <2>2 DEF AboutToTell
<1> QED
  BY <1>1, <1>2, <1>3, <1>4, <1>6, <1>7, <1>8, <1>9, <1>10, <1>11 DEF Step

\* A step adds at most one event to a journal, and an event that tells the
\* goal's end only when the goal is there.
LEMMA JournalGrows ==
  ASSUME TypeOK, NEW c \in Controllers, AboutToTell(c),
         Begin(c) \/ Step(c) \/ Crash(c), NEW r \in Runs
  PROVE  /\ Len(journal[r]) \in Nat /\ Len(journal'[r]) \in Nat
         /\ Len(journal[r]) <= Len(journal'[r])
         /\ \A i \in 1..Len(journal[r]) : journal'[r][i] = journal[r][i]
         /\ \A i \in 1..Len(journal'[r]) :
              i > Len(journal[r]) /\ journal'[r][i] \in Ends
                => goal.state \in Terminal
<1>0. op[c] \in Op /\ op[c].run \in Runs /\ op[c].name \in OpNames
      /\ journal[r] \in Seq(EventTypes)
  BY DEF TypeOK, Op
<1>1. ASSUME NEW e \in EventTypes, Emit(op[c].run, e),
             e \in Ends => goal.state \in Terminal
      PROVE  /\ Len(journal[r]) \in Nat /\ Len(journal'[r]) \in Nat
             /\ Len(journal[r]) <= Len(journal'[r])
             /\ \A i \in 1..Len(journal[r]) : journal'[r][i] = journal[r][i]
             /\ \A i \in 1..Len(journal'[r]) :
                  i > Len(journal[r]) /\ journal'[r][i] \in Ends
                    => goal.state \in Terminal
  <2>1. CASE r = op[c].run
    <3>1. journal'[r] = Append(journal[r], e)
      BY <1>1, <2>1 DEF Emit, TypeOK
    <3> QED
      BY <1>0, <1>1, <3>1
  <2>2. CASE r # op[c].run
    <3>1. journal'[r] = journal[r]
      BY <1>1, <2>2 DEF Emit, TypeOK
    <3> QED
      BY <1>0, <3>1
  <2> QED
    BY <2>1, <2>2
<1>2. CASE Note(c)
  <2>1. EventOf(op[c].name) \in EventTypes
    BY <1>0, StepsAhead DEF TypeOK, Goal
  <2>2. EventOf(op[c].name) \in Ends => goal.state \in Terminal
    BY <1>2 DEF At, Note, AboutToTell, EventOf, Ends
  <2> QED
    BY <1>1, <1>2, <2>1, <2>2 DEF Note
<1>3. CASE CheckpointNote(c)
  BY <1>1, <1>3 DEF CheckpointNote, EventTypes, Ends
<1>4. CASE journal' = journal
  BY <1>0, <1>4
<1> QED
  BY <1>2, <1>3, <1>4 DEF Step, Begin, Crash, Read, ProgressRead,
     ProgressWrite, TransitionRead, TransitionWrite, FirstEvent,
     CheckpointGoal, CheckpointSequence, CheckpointPut

LEMMA ToldStep ==
  ASSUME TypeOK, NEW c \in Controllers, AboutTo(c), AboutToTell(c), Told,
         Begin(c) \/ Step(c) \/ Crash(c)
  PROVE  Told'
<1> SUFFICES ASSUME NEW r \in Runs, NEW i \in 1..Len(journal'[r]),
                    journal'[r][i] \in Ends
             PROVE  goal'.state \in Terminal
  BY DEF Told
<1>1. goal.state \in Terminal
  <2>1. CASE i > Len(journal[r])
    BY <2>1, JournalGrows
  <2>2. CASE ~(i > Len(journal[r]))
    <3>1. i \in 1..Len(journal[r]) /\ journal'[r][i] = journal[r][i]
      BY <2>2, JournalGrows
    <3> QED
      BY <3>1 DEF Told
  <2> QED
    BY <2>1, <2>2
<1> QED
  BY <1>1, EndStays

LEMMA CoveredStep ==
  ASSUME TypeOK, NEW c \in Controllers, AboutToTell(c), Told,
         CheckpointKnowsTheEnd, Begin(c) \/ Step(c) \/ Crash(c)
  PROVE  CheckpointKnowsTheEnd'
<1> SUFFICES ASSUME NEW cp \in checkpoints'
             PROVE  /\ cp.seq <= Len(journal'[cp.run])
                    /\ \A i \in 1..cp.seq :
                         journal'[cp.run][i] \in Ends => cp.state \in Terminal
  BY DEF CheckpointKnowsTheEnd, Ends
<1>1. CASE cp \in checkpoints
  <2>1. /\ cp.run \in Runs /\ cp.seq \in Nat
        /\ cp.seq <= Len(journal[cp.run])
        /\ \A i \in 1..cp.seq :
             journal[cp.run][i] \in Ends => cp.state \in Terminal
    BY <1>1 DEF TypeOK, Checkpoint, CheckpointKnowsTheEnd, Ends
  <2>2. /\ Len(journal[cp.run]) \in Nat /\ Len(journal'[cp.run]) \in Nat
        /\ Len(journal[cp.run]) <= Len(journal'[cp.run])
        /\ \A i \in 1..Len(journal[cp.run]) :
             journal'[cp.run][i] = journal[cp.run][i]
    BY <2>1, JournalGrows
  <2> QED
    BY <2>1, <2>2
<1>2. CASE cp \notin checkpoints
  <2>1. CheckpointPut(c)
    BY <1>2 DEF Step, Begin, Crash, Read, ProgressRead, ProgressWrite,
       TransitionRead, TransitionWrite, FirstEvent, Note, CheckpointGoal,
       CheckpointSequence, CheckpointNote
  <2>2. /\ cp.run = op[c].run /\ cp.seq = covers[c] /\ cp.state = seen[c].state
        /\ pc[c] = "cp_put" /\ journal' = journal
    BY <1>2, <2>1 DEF At, CheckpointPut
  <2>3. /\ op[c].run \in Runs /\ covers[c] \in Nat
        /\ Len(journal[op[c].run]) \in Nat
    BY DEF TypeOK, Op
  <2>4. seen[c] = goal /\ covers[c] <= Len(journal[op[c].run])
    BY <2>2 DEF AboutToTell
  <2> QED
    BY <2>2, <2>3, <2>4 DEF Told
<1> QED
  BY <1>1, <1>2

LEMMA AloneInit == Init => Begun /\ AloneInv
<1> SUFFICES ASSUME Init PROVE Begun /\ AloneInv
  OBVIOUS
<1>1. Begun /\ \A c \in Controllers : AboutTo(c) /\ AboutToTell(c)
  BY DEF Init, Begun, AboutTo, AboutToTell
<1>2. Told
  BY DEF Init, Told
<1>3. CheckpointKnowsTheEnd
  BY DEF Init, CheckpointKnowsTheEnd
<1> QED
  BY <1>1, <1>2, <1>3 DEF AloneInv

LEMMA AloneStep ==
  TypeOK /\ Begun /\ (Alone => AloneInv) /\ [Next]_vars
    => (Alone' => Alone /\ AloneInv')
<1> SUFFICES ASSUME TypeOK, Begun, Alone => AloneInv, [Next]_vars, Alone'
             PROVE  Alone /\ AloneInv'
  OBVIOUS
<1>1. CASE UNCHANGED vars
  BY <1>1 DEF vars, Alone, AloneInv, AboutTo, AboutToTell, Told,
     CheckpointKnowsTheEnd
<1>2. ASSUME NEW c \in Controllers, Begin(c) \/ Step(c) \/ Crash(c)
      PROVE  Alone /\ AloneInv'
  <2>1. /\ Alone
        /\ \A d \in Controllers \ {c} :
             pc[d] = "idle" /\ pc'[d] = "idle" /\ op'[d] = op[d]
    BY <1>2, LoneActor
  <2>2. /\ \A d \in Controllers : AboutTo(d) /\ AboutToTell(d)
        /\ Told /\ CheckpointKnowsTheEnd
    BY <2>1 DEF AloneInv
  <2>3. AboutTo(c)' /\ AboutToTell(c)'
    BY <1>2, <2>2, AboutToStep, AboutToTellStep
  <2>4. \A d \in Controllers \ {c} : AboutTo(d)' /\ AboutToTell(d)'
    BY <2>1 DEF AboutTo, AboutToTell
  <2>5. Told' /\ CheckpointKnowsTheEnd'
    BY <1>2, <2>2, ToldStep, CoveredStep
  <2> QED
    BY <2>1, <2>3, <2>4, <2>5 DEF AloneInv
<1> QED
  BY <1>1, <1>2 DEF Next

\* While one controller has come to the goal, each of its rows, events and
\* checkpoints follows from the one before.
LEMMA WhileAlone == Spec => [](TypeOK /\ Begun /\ (Alone => AloneInv))
<1>1. Init => Begun /\ (Alone => AloneInv)
  BY AloneInit
<1>2. TypeOK /\ Begun /\ (Alone => AloneInv) /\ [Next]_vars
        => Begun' /\ (Alone' => AloneInv')
  BY BegunStep, AloneStep
<1> QED
  BY <1>1, <1>2, TypeCorrect, PTL DEF Spec

\* A checkpoint that one controller writes, over every crash and repetition,
\* covers the event of the goal's end only if it says the goal has ended.
THEOREM CheckpointsKnowTheEnd == Spec => []CheckpointKnowsTheEndAlone
<1>1. (Alone => AloneInv) => CheckpointKnowsTheEndAlone
  BY DEF AloneInv, CheckpointKnowsTheEndAlone
<1> QED
  BY <1>1, WhileAlone, PTL

\* Until a second controller comes, every step takes the goal through the life
\* GoalLifecycle allows, however often the first crashes.
THEOREM AloneImplementsLifecycle == Spec => ImplementsLifecycleAlone
<1>1. Init => Life!Init
  BY DEF Init, Life!Init
<1>2. TypeOK /\ Begun /\ (Alone => AloneInv) /\ [Next]_vars
        => [Alone' => Life!Next \/ UNCHANGED goal]_vars
  <2> SUFFICES ASSUME TypeOK, Begun, Alone => AloneInv, [Next]_vars, Alone'
               PROVE  Life!Next \/ UNCHANGED goal
    OBVIOUS
  <2>1. \A c \in Controllers : AboutTo(c)
    BY AloneStep DEF AloneInv
  <2>2. [Life!Next]_<<goal.state, goal.blockers>>
    BY <2>1, LifeStep
  <2>3. goal \in Goal /\ goal' \in Goal
    BY TypeStep DEF TypeOK
  <2> QED
    BY <2>2, <2>3 DEF Goal
<1> QED
  BY <1>1, <1>2, WhileAlone, PTL DEF Spec, ImplementsLifecycleAlone

\* One controller, however often it crashes and whatever it is asked to do,
\* takes the goal through the life GoalLifecycle allows.
THEOREM OneControllerImplementsLifecycle ==
  ASSUME \A c, d \in Controllers : c = d
  PROVE  Spec => ImplementsLifecycle
<1>1. Init => Life!Init
  BY DEF Init, Life!Init
<1>2. Alone
  BY ConstantsAssumption DEF Alone
<1>3. TypeOK /\ (Alone => AloneInv) /\ [Next]_vars
        => [Life!Next]_<<goal.state, goal.blockers>>
  BY <1>2, LifeStep DEF AloneInv
<1> QED
  BY <1>1, <1>3, WhileAlone, PTL DEF Spec, ImplementsLifecycle, Life!Spec
=============================================================================
