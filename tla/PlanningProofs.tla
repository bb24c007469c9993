--------------------------- MODULE PlanningProofs ---------------------------
(***************************************************************************)
(* Proofs about plans: the revisions PlanService stores for concurrent      *)
(* callers, and the coordinators of LongHorizon that carry a plan out, for  *)
(* every step graph and any number of callers, coordinators, runs, revisions*)
(* and operations, with crashes and an operator.                            *)
(*                                                                         *)
(* Over the data: what one operation makes of a sound revision is sound     *)
(* (FollowsSound).  Over the callers: a draft whose base is still the latest*)
(* revision is one operation away from the stored plan (Current), so that an*)
(* append is an operation and a lost race is a stutter.                     *)
(*                                                                         *)
(* Who reports work: a step becomes completed once and stays so, and the    *)
(* coordinator that completed it is alone in owing it to completed_work     *)
(* (Owed).  Who starts work: as long as one coordinator is the only one, it *)
(* is between two operations when a step runs (Calm), so that nothing it    *)
(* does to the goal can meet a running step; and undisturbed, goal and plan *)
(* agree wherever it is between them (Harmony).                             *)
(***************************************************************************)
EXTENDS PlanService, LongHorizon, TLAPS
LOCAL INSTANCE WellFoundedInduction

\* A sound revision: budget, dependencies, graph, and a state that agrees with
\* the steps.
Budgeted(p) == \A s \in StepIds : p.steps[s].attempts <= MaxAttempts[s]

Grounded(p) ==
  \A s \in StepIds :
    /\ p.steps[s].attempts > 0 => DependsOn[s] \subseteq In(p, "completed")
    /\ p.steps[s].state \in {"running", "completed", "failed"}
         => p.steps[s].attempts > 0

Agrees(p) ==
  /\ p.state = "completed" <=> AllDone(p)
  /\ p.state = "blocked" => In(p, "failed") \cup In(p, "blocked") # {}

Sound(p) ==
  p \in Plan /\ Valid(Ids(p)) /\ Budgeted(p) /\ Grounded(p) /\ Agrees(p)

-----------------------------------------------------------------------------
(* What _replace_step does to a revision *)

\* Replacing a step that is neither missing nor completed keeps the ids, and
\* the completed steps but for this one.
LEMMA WithSets ==
  ASSUME NEW p \in Plan, NEW s \in StepIds,
         p.steps[s].state \notin {"none", "completed"},
         NEW entry \in Step, entry.state # "none", NEW state \in PlanStates
  PROVE  /\ With(p, s, entry, state) \in Plan
         /\ With(p, s, entry, state).state = state
         /\ With(p, s, entry, state).steps[s] = entry
         /\ \A t \in StepIds \ {s} :
              With(p, s, entry, state).steps[t] = p.steps[t]
         /\ Ids(With(p, s, entry, state)) = Ids(p)
         /\ In(With(p, s, entry, state), "completed")
              = In(p, "completed") \cup
                  (IF entry.state = "completed" THEN {s} ELSE {})
  BY DEF With, Plan, Step, Ids, In

\* So it keeps the revision sound when the step's attempts are within budget
\* and grounded, and the new state agrees with the steps.
LEMMA WithSound ==
  ASSUME NEW p, Sound(p), NEW s \in StepIds,
         p.steps[s].state \notin {"none", "completed"},
         NEW entry \in Step, entry.state # "none", NEW state \in PlanStates,
         entry.attempts <= MaxAttempts[s],
         entry.attempts > 0 => DependsOn[s] \subseteq In(p, "completed"),
         entry.state \in {"running", "completed", "failed"} => entry.attempts > 0,
         Agrees(With(p, s, entry, state))
  PROVE  Sound(With(p, s, entry, state))
  <1> DEFINE q == With(p, s, entry, state)
  <1>0. p \in Plan
    BY DEF Sound
  <1>1. /\ q \in Plan
        /\ q.steps[s] = entry
        /\ \A t \in StepIds \ {s} : q.steps[t] = p.steps[t]
        /\ Ids(q) = Ids(p)
        /\ In(p, "completed") \subseteq In(q, "completed")
    BY <1>0, WithSets
  <1> HIDE DEF q
  <1>2. Valid(Ids(q))
    BY <1>1 DEF Sound
  <1>3. Budgeted(q)
    BY <1>1 DEF Sound, Budgeted
  <1>4. Grounded(q)
    BY <1>1 DEF Sound, Grounded
  <1>5. Agrees(q)
    BY DEF q
  <1>6. QED
    BY <1>1, <1>2, <1>3, <1>4, <1>5 DEF Sound, q

\* A plan with a step that is not completed is not done.
LEMMA NotDone ==
  ASSUME NEW p, NEW s \in StepIds, p.steps[s].state \notin {"none", "completed"}
  PROVE  ~AllDone(p)
  BY DEF AllDone, In, Ids

-----------------------------------------------------------------------------
(* Each operation keeps a revision sound *)

LEMMA AttemptedSound ==
  ASSUME NEW p, Sound(p), NEW s \in StepIds, CanStart(p, s) \/ CanRetry(p, s)
  PROVE  Sound(Attempted(p, s))
  <1> DEFINE entry == [state |-> "running", attempts |-> p.steps[s].attempts + 1]
             q == With(p, s, entry, "active")
  <1>1. p \in Plan /\ p.steps[s].attempts \in Nat /\ MaxAttempts[s] \in Nat
    BY GraphAssumption DEF Sound, Plan, Step
  <1>2. entry \in Step /\ entry.attempts \in 1..MaxAttempts[s]
    BY <1>1 DEF CanStart, CanRetry, Step, StepStates
  <1>3. p.steps[s].state \notin {"none", "completed"}
    BY DEF CanStart, CanRetry
  <1>4. DependsOn[s] \subseteq In(p, "completed")
    BY <1>1 DEF CanStart, CanRetry, Sound, Grounded
  <1>5. q.state = "active" /\ q.steps[s].state = "running"
    BY <1>1, <1>2, <1>3, WithSets DEF PlanStates
  <1>6. Agrees(q)
    BY <1>5, NotDone DEF Agrees
  <1>7. Sound(q)
    BY <1>2, <1>3, <1>4, <1>6, WithSound DEF PlanStates
  <1>8. QED
    BY <1>7 DEF Attempted

\* The operations that only give a step another state, with its attempts.
LEMMA BecomesSound ==
  ASSUME NEW p, Sound(p), NEW s \in StepIds,
         p.steps[s].state \notin {"none", "completed"},
         NEW new \in StepStates \ {"none"}, NEW state \in PlanStates,
         new \in {"completed", "failed"} => p.steps[s].state = "running",
         new # "running",
         Agrees(Becomes(p, s, new, state))
  PROVE  Sound(Becomes(p, s, new, state))
  <1> DEFINE entry == [state |-> new, attempts |-> p.steps[s].attempts]
  <1>1. p \in Plan /\ entry \in Step
    BY DEF Sound, Plan, Step
  <1>2. /\ entry.attempts <= MaxAttempts[s]
        /\ entry.attempts > 0 => DependsOn[s] \subseteq In(p, "completed")
        /\ entry.state \in {"running", "completed", "failed"} => entry.attempts > 0
    BY DEF Sound, Budgeted, Grounded
  <1>3. Agrees(With(p, s, entry, state))
    BY DEF Becomes
  <1>4. Sound(With(p, s, entry, state))
    BY <1>1, <1>2, <1>3, WithSound
  <1>5. QED
    BY <1>4 DEF Becomes

LEMMA BecomesSets ==
  ASSUME NEW p \in Plan, NEW s \in StepIds,
         p.steps[s].state \notin {"none", "completed"},
         NEW new \in StepStates \ {"none"}, NEW state \in PlanStates
  PROVE  /\ Becomes(p, s, new, state).state = state
         /\ Becomes(p, s, new, state).steps[s].state = new
         /\ \A t \in StepIds \ {s} :
              Becomes(p, s, new, state).steps[t] = p.steps[t]
         /\ Ids(Becomes(p, s, new, state)) = Ids(p)
  <1>1. [state |-> new, attempts |-> p.steps[s].attempts] \in Step
    BY DEF Plan, Step
  <1>2. QED
    BY <1>1, WithSets DEF Becomes

LEMMA CompletedStepSound ==
  ASSUME NEW p, Sound(p), NEW s \in StepIds, CanEnd(p, s)
  PROVE  Sound(CompletedStep(p, s))
  <1> DEFINE done == Becomes(p, s, "completed", "active")
             end == IF AllDone(done) THEN "completed" ELSE "active"
             q == Becomes(p, s, "completed", end)
  <1>1. p \in Plan /\ p.steps[s].state \notin {"none", "completed"}
    BY DEF Sound, CanEnd
  <1>2. CompletedStep(p, s) = q
    BY DEF CompletedStep, Becomes, With
  <1>3. q.state = end
    BY <1>1, BecomesSets DEF StepStates, PlanStates
  <1>4. AllDone(q) <=> AllDone(done)
    BY DEF AllDone, In, Ids, Becomes, With
  <1>5. Agrees(q)
    BY <1>3, <1>4 DEF Agrees
  <1>6. QED
    BY <1>1, <1>2, <1>5, BecomesSound DEF StepStates, PlanStates, CanEnd

\* A step that fails or blocks blocks the plan; one that is unblocked makes it
\* active.
LEMMA HandedBackSound ==
  ASSUME NEW p, Sound(p), NEW s \in StepIds
  PROVE  /\ CanEnd(p, s) => Sound(FailedStep(p, s))
         /\ CanBlock(p, s) => Sound(BlockedStep(p, s))
         /\ CanUnblock(p, s) => Sound(UnblockedStep(p, s))
  <1>0. p \in Plan
    BY DEF Sound
  <1>1. ASSUME CanEnd(p, s) PROVE Sound(FailedStep(p, s))
    <2> DEFINE q == Becomes(p, s, "failed", "blocked")
    <2>1. q.state = "blocked" /\ q.steps[s].state = "failed"
      BY <1>0, <1>1, BecomesSets DEF StepStates, PlanStates, CanEnd
    <2>2. Agrees(q)
      BY <2>1, NotDone DEF Agrees, In
    <2>3. QED
      BY <1>1, <2>2, BecomesSound DEF FailedStep, StepStates, PlanStates, CanEnd
  <1>2. ASSUME CanBlock(p, s) PROVE Sound(BlockedStep(p, s))
    <2> DEFINE q == Becomes(p, s, "blocked", "blocked")
    <2>1. q.state = "blocked" /\ q.steps[s].state = "blocked"
      BY <1>0, <1>2, BecomesSets DEF StepStates, PlanStates, CanBlock
    <2>2. Agrees(q)
      BY <2>1, NotDone DEF Agrees, In
    <2>3. QED
      BY <1>2, <2>2, BecomesSound DEF BlockedStep, StepStates, PlanStates, CanBlock
  <1>3. ASSUME CanUnblock(p, s) PROVE Sound(UnblockedStep(p, s))
    <2> DEFINE q == Becomes(p, s, "pending", "active")
    <2>1. q.state = "active" /\ q.steps[s].state = "pending"
      BY <1>0, <1>3, BecomesSets DEF StepStates, PlanStates, CanUnblock
    <2>2. Agrees(q)
      BY <2>1, NotDone DEF Agrees
    <2>3. QED
      BY <1>3, <2>2, BecomesSound
         DEF UnblockedStep, StepStates, PlanStates, CanUnblock
  <1>4. QED
    BY <1>1, <1>2, <1>3

LEMMA CancelledSound ==
  ASSUME NEW p, Sound(p), ~Terminal(p)
  PROVE  Sound(Cancelled(p))
  <1> DEFINE q == Cancelled(p)
  <1>1. q \in Plan /\ q.state = "cancelled" /\ q.steps = p.steps
    BY DEF Sound, Plan, Cancelled, PlanStates
  <1>2. ~AllDone(p)
    BY DEF Sound, Agrees, Terminal
  <1>3. Ids(q) = Ids(p) /\ \A x : In(q, x) = In(p, x)
    BY <1>1 DEF Ids, In
  <1>4. Agrees(q)
    BY <1>1, <1>2, <1>3 DEF Agrees, AllDone
  <1> HIDE DEF q
  <1>5. QED
    BY <1>1, <1>3, <1>4 DEF Sound, Budgeted, Grounded, q

\* A step without attempts is within budget.
LEMMA UntriedFits ==
  ASSUME NEW s \in StepIds, NEW n, n = 0
  PROVE  n <= MaxAttempts[s] /\ ~(n > 0)
  <1>1. MaxAttempts[s] \in Nat
    BY GraphAssumption
  <1>2. n \in Nat /\ ~(0 > 0)
    OBVIOUS
  <1>3. QED
    BY <1>1, <1>2

LEMMA CompiledSound ==
  ASSUME NEW ids \in SUBSET StepIds, Valid(ids)
  PROVE  Sound(Compiled(ids))
  <1> DEFINE q == Compiled(ids)
  <1>1. q \in Plan /\ q.state = "active"
    BY DEF Compiled, Plan, Step, StepStates, PlanStates, Fresh, Absent
  <1>2. \A s \in StepIds : /\ q.steps[s].attempts = 0
                           /\ s \in ids => q.steps[s].state = "pending"
                           /\ s \notin ids => q.steps[s].state = "none"
    BY DEF Compiled, Fresh, Absent
  <1> HIDE DEF q
  <1>3. Ids(q) = ids /\ In(q, "completed") = {}
    BY <1>2 DEF Ids, In
  <1>4. Agrees(q)
    BY <1>1, <1>3 DEF Agrees, AllDone, Valid
  <1>5. Budgeted(q)
    BY <1>2, UntriedFits DEF Budgeted
  <1>6. Grounded(q)
    BY <1>2, UntriedFits DEF Grounded
  <1>7. Sound(q)
    BY <1>1, <1>3, <1>4, <1>5, <1>6 DEF Sound
  <1>8. QED
    BY <1>7 DEF q

\* What replanning keeps: the proposed ids, and each step it knew of as it was.
LEMMA RevisedSteps ==
  ASSUME NEW p \in Plan, NEW ids \in SUBSET StepIds
  PROVE  /\ Revised(p, ids).steps \in [StepIds -> Step]
         /\ \A s \in StepIds :
              Revised(p, ids).steps[s] = IF s \notin ids THEN Absent
                                        ELSE IF s \in Ids(p) THEN p.steps[s]
                                        ELSE Fresh
         /\ Ids(Revised(p, ids)) = ids
  BY DEF Revised, Plan, Step, StepStates, Absent, Fresh, Ids

LEMMA RevisedSound ==
  ASSUME NEW p, Sound(p), NEW ids \in SUBSET StepIds, CanRevise(p, ids)
  PROVE  Sound(Revised(p, ids))
  <1> DEFINE q == Revised(p, ids)
             states == {q.steps[s].state : s \in StepIds} \ {"none"}
  <1>0. p \in Plan
    BY DEF Sound
  <1>1. /\ q.steps \in [StepIds -> Step]
        /\ \A s \in StepIds : q.steps[s] = IF s \notin ids THEN Absent
                                         ELSE IF s \in Ids(p) THEN p.steps[s]
                                         ELSE Fresh
        /\ Ids(q) = ids
    BY <1>0, RevisedSteps
  <1>2. q.state = RevisedState(q.steps)
    BY DEF Revised
  <1> HIDE DEF q
  <1>3. q.state = IF states = {"completed"} THEN "completed"
                  ELSE IF states \cap {"failed", "blocked"} # {} THEN "blocked"
                  ELSE "active"
    BY <1>2 DEF RevisedState
  <1>4. q \in Plan
    <2>1. q = [state |-> q.state, steps |-> q.steps]
      BY DEF q, Revised
    <2>2. QED
      BY <2>1, <1>1, <1>3 DEF Plan, PlanStates
  <1>5. In(p, "completed") \subseteq In(q, "completed")
    BY <1>1 DEF In, Ids, CanRevise
  <1>6. Valid(ids) /\ ids # {}
    BY DEF CanRevise, Valid
  <1>7. Budgeted(q)
    <2>1. ASSUME NEW s \in StepIds
          PROVE  q.steps[s].attempts <= MaxAttempts[s]
      BY <1>1, UntriedFits DEF Budgeted, Sound, Absent, Fresh
    <2>2. QED
      BY <2>1 DEF Budgeted
  <1>8. Grounded(q)
    <2>1. ASSUME NEW s \in StepIds
          PROVE  \/ q.steps[s] = p.steps[s]
                 \/ /\ q.steps[s].attempts = 0
                    /\ q.steps[s].state \in {"none", "pending"}
      BY <1>1 DEF Absent, Fresh
    <2>2. QED
      BY <2>1, <1>5, UntriedFits DEF Grounded, Sound
  <1>9. Agrees(q)
    <2>1. states = {"completed"} <=> AllDone(q)
      <3>1. ASSUME AllDone(q) PROVE states = {"completed"}
        BY <3>1, <1>1, <1>6 DEF AllDone, In, Ids
      <3>2. ASSUME states = {"completed"} PROVE AllDone(q)
        BY <3>2 DEF AllDone, In, Ids
      <3>3. QED
        BY <3>1, <3>2
    <2>2. ASSUME q.state = "blocked"
          PROVE  In(q, "failed") \cup In(q, "blocked") # {}
      BY <2>2, <1>3 DEF In
    <2>3. QED
      BY <2>1, <2>2, <1>3 DEF Agrees
  <1>10. QED
    BY <1>1, <1>4, <1>6, <1>7, <1>8, <1>9 DEF Sound, q

LEMMA BeginsSound ==
  ASSUME NEW q, Begins(q)
  PROVE  Sound(q)
  BY CompiledSound DEF Begins

\* What one operation makes of a sound revision is sound.
LEMMA FollowsSound ==
  ASSUME NEW p, Sound(p), NEW q, Follows(p, q)
  PROVE  Sound(q)
  <1>1. CASE \E ids \in SUBSET StepIds : CanRevise(p, ids) /\ q = Revised(p, ids)
    BY <1>1, RevisedSound
  <1>2. CASE \E s \in StepIds :
               (CanStart(p, s) \/ CanRetry(p, s)) /\ q = Attempted(p, s)
    BY <1>2, AttemptedSound
  <1>3. CASE \E s \in StepIds :
               CanEnd(p, s) /\ q \in {CompletedStep(p, s), FailedStep(p, s)}
    BY <1>3, CompletedStepSound, HandedBackSound
  <1>4. CASE \E s \in StepIds :
               \/ CanBlock(p, s) /\ q = BlockedStep(p, s)
               \/ CanUnblock(p, s) /\ q = UnblockedStep(p, s)
    BY <1>4, HandedBackSound
  <1>5. CASE ~Terminal(p) /\ q = Cancelled(p)
    BY <1>5, CancelledSound
  <1>6. QED
    BY <1>1, <1>2, <1>3, <1>4, <1>5 DEF Follows

\* One operation keeps completed steps as they are and running steps in the
\* plan.
LEMMA FollowsKeeps ==
  ASSUME NEW p, Sound(p), NEW q, Follows(p, q)
  PROVE  /\ \A s \in In(p, "completed") : q.steps[s] = p.steps[s]
         /\ In(p, "running") \subseteq Ids(q)
  <1>0. p \in Plan
    BY DEF Sound
  <1>1. CASE \E ids \in SUBSET StepIds : CanRevise(p, ids) /\ q = Revised(p, ids)
    <2>1. PICK ids \in SUBSET StepIds : CanRevise(p, ids) /\ q = Revised(p, ids)
      BY <1>1
    <2>2. \A s \in ids \cap Ids(p) : q.steps[s] = p.steps[s]
      BY <2>1, <1>0, RevisedSteps
    <2>3. In(p, "completed") \subseteq ids \cap Ids(p) /\ In(p, "running") = {}
      BY <2>1 DEF CanRevise, In, Ids
    <2>4. QED
      BY <2>2, <2>3
  <1>2. CASE \E s \in StepIds, new \in Step, state \in PlanStates :
               /\ p.steps[s].state \notin {"none", "completed"}
               /\ new.state # "none"
               /\ q = With(p, s, new, state)
    <2>1. PICK s \in StepIds, new \in Step, state \in PlanStates :
            /\ p.steps[s].state \notin {"none", "completed"}
            /\ new.state # "none"
            /\ q = With(p, s, new, state)
      BY <1>2
    <2>2. Ids(q) = Ids(p) /\ \A t \in StepIds \ {s} : q.steps[t] = p.steps[t]
      BY <2>1, <1>0, WithSets
    <2>3. QED
      BY <2>1, <2>2 DEF In, Ids
  <1>3. CASE q = Cancelled(p)
    BY <1>3, <1>0 DEF Cancelled, Plan, In, Ids
  <1>4. ASSUME NEW s \in StepIds,
               \/ (CanStart(p, s) \/ CanRetry(p, s)) /\ q = Attempted(p, s)
               \/ CanEnd(p, s) /\ q \in {CompletedStep(p, s), FailedStep(p, s)}
               \/ CanBlock(p, s) /\ q = BlockedStep(p, s)
               \/ CanUnblock(p, s) /\ q = UnblockedStep(p, s)
        PROVE  \E new \in Step, state \in PlanStates :
                 /\ p.steps[s].state \notin {"none", "completed"}
                 /\ new.state # "none"
                 /\ q = With(p, s, new, state)
    <2>0. p.steps[s].attempts \in Nat
      BY <1>0 DEF Plan, Step
    <2>1. p.steps[s].state \notin {"none", "completed"}
      BY <1>4 DEF CanStart, CanRetry, CanEnd, CanBlock, CanUnblock
    <2>2. \E new \in Step, state \in PlanStates :
            new.state # "none" /\ q = With(p, s, new, state)
      <3> DEFINE to(x, n) == [state |-> x, attempts |-> n]
                 a == p.steps[s].attempts
      <3>1. \A x \in StepStates, n \in Nat : to(x, n) \in Step /\ to(x, n).state = x
        BY DEF Step
      <3>2. CASE q = Attempted(p, s)
        BY <3>1, <3>2, <2>0 DEF Attempted, StepStates, PlanStates
      <3>3. CASE q = FailedStep(p, s)
        BY <3>1, <3>3, <2>0 DEF FailedStep, Becomes, StepStates, PlanStates
      <3>4. CASE q = BlockedStep(p, s)
        BY <3>1, <3>4, <2>0 DEF BlockedStep, Becomes, StepStates, PlanStates
      <3>5. CASE q = UnblockedStep(p, s)
        BY <3>1, <3>5, <2>0 DEF UnblockedStep, Becomes, StepStates, PlanStates
      <3>6. CASE q = CompletedStep(p, s)
        <4> DEFINE end == IF AllDone(Becomes(p, s, "completed", "active"))
                          THEN "completed" ELSE "active"
        <4>1. q = With(p, s, to("completed", a), end)
          BY <3>6 DEF CompletedStep, Becomes, With
        <4>2. end \in PlanStates
          BY DEF PlanStates
        <4>3. QED
          BY <4>1, <4>2, <3>1, <2>0 DEF StepStates
      <3>7. QED
        BY <1>4, <3>2, <3>3, <3>4, <3>5, <3>6
    <2>3. QED
      BY <2>1, <2>2
  <1>5. QED
    BY <1>1, <1>2, <1>3, <1>4 DEF Follows

-----------------------------------------------------------------------------
(* The scheduler always has an answer *)

\* A step of an acyclic plan that nothing else keeps from running is ready.
LEMMA SoundIsAdvised ==
  ASSUME NEW p, Sound(p)
  PROVE  Decision(p) # "dependencies_not_ready"
  <1> SUFFICES ASSUME Decision(p) = "dependencies_not_ready" PROVE FALSE
    OBVIOUS
  <1>1. /\ p.state \notin {"completed", "cancelled"}
        /\ In(p, "running") = {} /\ Ready(p) = {}
        /\ In(p, "blocked") = {} /\ In(p, "failed") = {}
    BY DEF Decision, Advice
  <1>2. p.state = "active"
    BY <1>1 DEF Sound, Agrees, Plan, PlanStates
  <1>3. Ids(p) = In(p, "pending") \cup In(p, "completed")
    BY <1>1 DEF Sound, Plan, Step, StepStates, In, Ids
  <1>4. In(p, "pending") # {}
    BY <1>1, <1>3 DEF Sound, Agrees, AllDone
  <1>5. In(p, "pending") \in (SUBSET Ids(p)) \ {{}}
    BY <1>3, <1>4
  <1>6. PICK s \in In(p, "pending") : DependsOn[s] \cap In(p, "pending") = {}
    BY <1>5 DEF Sound, Valid
  <1>7. DependsOn[s] \subseteq Ids(p)
    BY <1>3, <1>6 DEF Sound, Valid
  <1>8. s \in Ready(p)
    BY <1>2, <1>3, <1>6, <1>7 DEF Ready
  <1>9. QED
    BY <1>1, <1>8

-----------------------------------------------------------------------------
(* The callers *)

Revises(p, q) == IF p # NoPlan THEN Follows(p, q) ELSE Begins(q)

\* A draft made from the latest revision is one operation away from it.
Current ==
  \A c \in Clients : phase[c] = "append" =>
    /\ draft[c].base <= revision /\ draft[c].base < MaxRevisions
    /\ draft[c].base = revision => Revises(latest, draft[c].plan)

ServiceInv == ServiceTypeOK /\ (Planned => Sound(latest)) /\ Current

\* Every operation prepares a draft that revises the plan.
LEMMA OperationsRevise ==
  ASSUME NEW c \in Clients,
         \/ AcceptProposal(c) \/ AcceptRevision(c) \/ Cancel(c)
         \/ \E s \in StepIds : StepOperation(c, s)
  PROVE  \E next : Prepare(c, next) /\ Revises(latest, next)
  <1>1. CASE AcceptProposal(c)
    BY <1>1 DEF AcceptProposal, Planned, Revises, Begins
  <1>2. CASE AcceptRevision(c)
    BY <1>2 DEF AcceptRevision, Planned, Revises, Follows
  <1>3. CASE Cancel(c)
    BY <1>3 DEF Cancel, Planned, Revises, Follows
  <1>4. CASE \E s \in StepIds : StepOperation(c, s)
    <2>1. PICK s \in StepIds : StepOperation(c, s)
      BY <1>4
    <2>2. CASE StartStep(c, s)
      BY <2>2 DEF StartStep, Planned, Revises, Follows
    <2>3. CASE RetryStep(c, s)
      BY <2>3 DEF RetryStep, Planned, Revises, Follows
    <2>4. CASE CompleteStep(c, s)
      BY <2>4 DEF CompleteStep, Planned, Revises, Follows
    <2>5. CASE FailStep(c, s)
      BY <2>5 DEF FailStep, Planned, Revises, Follows
    <2>6. CASE BlockStep(c, s)
      BY <2>6 DEF BlockStep, Planned, Revises, Follows
    <2>7. CASE UnblockStep(c, s)
      BY <2>7 DEF UnblockStep, Planned, Revises, Follows
    <2>8. QED
      BY <2>1, <2>2, <2>3, <2>4, <2>5, <2>6, <2>7 DEF StepOperation
  <1>5. QED
    BY <1>1, <1>2, <1>3, <1>4

LEMMA RevisesSound ==
  ASSUME ServiceInv, NEW q, Revises(latest, q)
  PROVE  Sound(q) /\ q \in Plan /\ q # NoPlan
  <1>1. Sound(q)
    BY BeginsSound, FollowsSound DEF ServiceInv, Planned, Revises
  <1>2. QED
    BY <1>1, NoPlanAssumption DEF Sound

LEMMA Initial == ServiceInit => ServiceInv
  <1> SUFFICES ASSUME ServiceInit PROVE ServiceInv
    OBVIOUS
  <1>1. ServiceTypeOK
    BY BoundAssumption DEF ServiceInit, ServiceTypeOK
  <1>2. QED
    BY <1>1 DEF ServiceInit, ServiceInv, Current, Planned

\* An append either is one operation on the stored plan or changes nothing.
LEMMA AppendRevises ==
  ASSUME ServiceInv, NEW c \in Clients, AppendDraft(c)
  PROVE  \/ /\ draft[c].base = revision
            /\ Revises(latest, draft[c].plan)
            /\ latest' = draft[c].plan /\ revision' = revision + 1
         \/ UNCHANGED <<latest, revision>>
  BY DEF ServiceInv, Current, AppendDraft, Store

LEMMA Inductive == ServiceInv /\ [ServiceNext]_serviceVars => ServiceInv'
  <1> SUFFICES ASSUME ServiceInv, [ServiceNext]_serviceVars PROVE ServiceInv'
    OBVIOUS
  <1> USE DEF ServiceInv
  <1>1. CASE UNCHANGED serviceVars
    BY <1>1 DEF serviceVars, ServiceTypeOK, Planned, Current
  <1>2. ASSUME NEW c \in Clients, NEW next,
               Prepare(c, next), Revises(latest, next)
        PROVE  ServiceInv'
    <2>1. next \in Plan
      BY <1>2, RevisesSound
    <2>2. ServiceTypeOK'
      BY <1>2, <2>1 DEF ServiceTypeOK, Prepare
    <2>3. (Planned => Sound(latest))'
      BY <1>2 DEF Prepare, Planned
    <2>4. Current'
      <3> SUFFICES ASSUME NEW d \in Clients, phase'[d] = "append"
                   PROVE  /\ draft'[d].base <= revision'
                          /\ draft'[d].base < MaxRevisions
                          /\ draft'[d].base = revision'
                               => Revises(latest', draft'[d].plan)
        BY DEF Current
      <3>1. CASE d = c
        <4>1. draft'[d] = [base |-> revision, plan |-> next]
          BY <1>2, <3>1 DEF Prepare, ServiceTypeOK
        <4>2. revision \in Nat /\ revision < MaxRevisions
          BY <1>2 DEF Prepare, ServiceTypeOK
        <4>3. revision' = revision /\ latest' = latest
          BY <1>2 DEF Prepare
        <4>4. QED
          BY <1>2, <4>1, <4>2, <4>3
      <3>2. CASE d # c
        BY <1>2, <3>2 DEF Prepare, Current, ServiceTypeOK
      <3>3. QED
        BY <3>1, <3>2
    <2>5. QED
      BY <2>2, <2>3, <2>4
  <1>3. ASSUME NEW c \in Clients, AppendDraft(c) PROVE ServiceInv'
    <2>1. phase[c] = "append" /\ phase' = [phase EXCEPT ![c] = "idle"] /\ draft' = draft
      BY <1>3 DEF AppendDraft
    <2>2. CASE /\ draft[c].base = revision
               /\ Revises(latest, draft[c].plan)
               /\ latest' = draft[c].plan /\ revision' = revision + 1
      <3>1. Sound(latest') /\ latest' \in Plan
        BY <2>2, RevisesSound
      <3>2. revision' \in 1..MaxRevisions
        <4>1. draft[c].base < MaxRevisions
          BY <2>1 DEF Current
        <4>2. QED
          BY <2>2, <4>1, BoundAssumption DEF ServiceTypeOK
      <3>3. ServiceTypeOK'
        BY <2>1, <3>1, <3>2 DEF ServiceTypeOK
      <3>4. Current'
        <4> SUFFICES ASSUME NEW d \in Clients, phase'[d] = "append"
                     PROVE  /\ draft'[d].base <= revision'
                            /\ draft'[d].base < MaxRevisions
                            /\ draft'[d].base # revision'
          BY DEF Current
        <4>1. phase[d] = "append"
          BY <2>1 DEF ServiceTypeOK
        <4>2. draft[d].base <= revision /\ draft[d].base < MaxRevisions
          BY <4>1 DEF Current
        <4>3. draft[d].base \in Nat /\ revision \in Nat
          BY DEF ServiceTypeOK
        <4>4. QED
          BY <2>1, <2>2, <4>2, <4>3
      <3>5. QED
        BY <3>1, <3>3, <3>4 DEF Planned
    <2>3. CASE UNCHANGED <<latest, revision>>
      <3>1. ServiceTypeOK'
        BY <2>1, <2>3 DEF ServiceTypeOK
      <3>2. Current'
        BY <2>1, <2>3 DEF Current, ServiceTypeOK
      <3>3. QED
        BY <2>3, <3>1, <3>2 DEF Planned
    <2>4. QED
      BY <1>3, <2>2, <2>3, AppendRevises
  <1>4. QED
    BY <1>1, <1>2, <1>3, OperationsRevise DEF ServiceNext

LEMMA Invariance == ServiceSpec => []ServiceInv
  BY Initial, Inductive, PTL DEF ServiceSpec

\* What a step of the system may do to the stored plan.
LEMMA StepsRevise ==
  ASSUME ServiceInv, [ServiceNext]_serviceVars
  PROVE  Revises(latest, latest') \/ UNCHANGED latest
  <1>1. ASSUME NEW c \in Clients, AppendDraft(c)
        PROVE  Revises(latest, latest') \/ UNCHANGED latest
    BY <1>1, AppendRevises
  <1>2. ASSUME NEW c \in Clients, NEW next, Prepare(c, next)
        PROVE  UNCHANGED latest
    BY <1>2 DEF Prepare
  <1>3. QED
    BY <1>1, <1>2, OperationsRevise DEF ServiceNext, serviceVars

-----------------------------------------------------------------------------
(* The theorems *)

\* Every variable keeps its type.
THEOREM ServiceTypeCorrect == ServiceSpec => []ServiceTypeOK
  <1>1. ServiceInv => ServiceTypeOK
    BY DEF ServiceInv
  <1>2. QED
    BY <1>1, Invariance, PTL

\* Callers that race on read, build and append leave a history in which every
\* revision is one operation applied to the revision before it.
THEOREM AppendsAreOperations == ServiceSpec => ImplementsHistory
  <1>1. ServiceInit => History!Init
    BY DEF ServiceInit, History!Init
  <1>2. ServiceInv /\ [ServiceNext]_serviceVars => [History!Next]_latest
    <2>1. ASSUME Revises(latest, latest') PROVE History!Next
      BY <2>1 DEF Revises, History!Next, History!Accept, History!Operate
    <2>2. QED
      BY <2>1, StepsRevise
  <1>3. QED
    BY <1>1, <1>2, Invariance, PTL DEF ServiceSpec, ImplementsHistory, History!Spec

\* A step that was ever attempted has its dependencies completed.
THEOREM DependenciesAlwaysHold == ServiceSpec => []DependenciesHold
  <1>1. ServiceInv => DependenciesHold
    BY DEF ServiceInv, DependenciesHold, Sound, Grounded
  <1>2. QED
    BY <1>1, Invariance, PTL

\* No step is attempted more often than its budget allows.
THEOREM BudgetIsKept == ServiceSpec => []WithinBudget
  <1>1. ServiceInv => WithinBudget
    BY DEF ServiceInv, WithinBudget, Sound, Budgeted
  <1>2. QED
    BY <1>1, Invariance, PTL

\* The state of a plan agrees with its steps, and the scheduler always has a
\* way on: no plan waits for dependencies nobody will complete.
THEOREM NeverStuck == ServiceSpec => []AlwaysAdvised
  <1>1. ServiceInv => AlwaysAdvised
    BY SoundIsAdvised DEF ServiceInv, AlwaysAdvised, Sound, Agrees
  <1>2. QED
    BY <1>1, Invariance, PTL

\* Completed steps stay in every later revision as they are.
THEOREM CompletedStaysDone == ServiceSpec => CompletedIsKept
  <1>1. ServiceInv /\ [ServiceNext]_serviceVars
          => [Planned => \A s \in In(latest, "completed") :
                latest'.steps[s] = latest.steps[s]]_serviceVars
    BY StepsRevise, FollowsKeeps DEF ServiceInv, Planned, Revises
  <1>2. QED
    BY <1>1, Invariance, PTL DEF ServiceSpec, CompletedIsKept

\* No revision drops a step that is running.
THEOREM RunningStaysPlanned == ServiceSpec => RunningIsKept
  <1>1. ServiceInv /\ [ServiceNext]_serviceVars
          => [Planned => In(latest, "running") \subseteq Ids(latest')]_serviceVars
    BY StepsRevise, FollowsKeeps DEF ServiceInv, Planned, Revises, In, Ids
  <1>2. QED
    BY <1>1, Invariance, PTL DEF ServiceSpec, RunningIsKept

-----------------------------------------------------------------------------
(* The scheduler's choice *)

LEMMA LeastNat ==
  ASSUME NEW T \in SUBSET Nat, T # {}
  PROVE  \E m \in T : \A n \in T : m <= n
  <1> DEFINE R == OpToRel(<, Nat)
  <1>1. IsWellFoundedOn(R, Nat)
    BY NatLessThanWellFounded
  <1>2. \A m, n \in T : n < m => <<n, m>> \in R
    BY DEF OpToRel
  <1> HIDE DEF R
  <1>3. PICK m \in T : \A n \in T : ~(<<n, m>> \in R)
    BY <1>1, WFMin
  <1>4. \A n \in T : ~(n < m)
    BY <1>2, <1>3
  <1>5. QED
    BY <1>4

LEMMA FirstIsIn ==
  ASSUME NEW S \in SUBSET StepIds, S # {}
  PROVE  First(S) \in S
  <1> DEFINE T == {Rank[s] : s \in S}
  <1>1. T \in SUBSET Nat /\ T # {}
    BY GraphAssumption
  <1>2. PICK m \in T : \A n \in T : m <= n
    BY <1>1, LeastNat
  <1>3. \E s \in S : \A t \in S : Rank[s] <= Rank[t]
    BY <1>2
  <1>4. QED
    BY <1>3 DEF First

\* A decision to start or to retry names a step of the plan.
LEMMA TargetIsStep ==
  ASSUME NEW p \in Plan, NEW q \in Plan,
         NEW advice, advice = Advice(p, {}, Ready(q)),
         advice \in {"start_step", "retry_step"}
  PROVE  (IF advice = "start_step" THEN First(Ready(q)) ELSE First(Retryable(p)))
           \in StepIds
  <1>1. Ready(q) \in SUBSET StepIds /\ Retryable(p) \in SUBSET StepIds
    BY DEF Ready, Retryable, In
  <1>2. advice = "start_step" => Ready(q) # {}
    BY DEF Advice
  <1>3. advice = "retry_step" => Retryable(p) # {}
    BY DEF Advice
  <1>4. QED
    BY <1>1, <1>2, <1>3, FirstIsIn

-----------------------------------------------------------------------------
(* What the operations of the plan service do to the steps of a plan *)

\* One step becomes new, the others keep their states.
Gains(p, q, s, new) ==
  /\ q \in Plan
  /\ q.steps[s].state = new
  /\ \A t \in StepIds \ {s} : q.steps[t].state = p.steps[t].state

LEMMA WithGains ==
  ASSUME NEW p \in Plan, NEW s \in StepIds, NEW step_ \in Step,
         NEW state \in PlanStates
  PROVE  Gains(p, With(p, s, step_, state), s, step_.state)
  BY DEF With, Plan, Step, Gains

LEMMA AttemptedGains ==
  ASSUME NEW p \in Plan, NEW s \in StepIds
  PROVE  Gains(p, Attempted(p, s), s, "running")
  <1> DEFINE new == [state |-> "running", attempts |-> p.steps[s].attempts + 1]
  <1>1. new \in Step /\ new.state = "running"
    BY DEF Plan, Step, StepStates
  <1>2. Gains(p, With(p, s, new, "active"), s, new.state)
    BY <1>1, WithGains DEF PlanStates
  <1>3. QED
    BY <1>1, <1>2 DEF Attempted

LEMMA BecomesGains ==
  ASSUME NEW p \in Plan, NEW s \in StepIds, NEW new \in StepStates,
         NEW state \in PlanStates
  PROVE  Gains(p, Becomes(p, s, new, state), s, new)
  <1> DEFINE it == [state |-> new, attempts |-> p.steps[s].attempts]
  <1>1. it \in Step /\ it.state = new
    BY DEF Plan, Step
  <1>2. Gains(p, With(p, s, it, state), s, it.state)
    BY <1>1, WithGains
  <1>3. QED
    BY <1>1, <1>2 DEF Becomes

LEMMA CompletedGains ==
  ASSUME NEW p \in Plan, NEW s \in StepIds
  PROVE  Gains(p, CompletedStep(p, s), s, "completed")
  <1> DEFINE done == Becomes(p, s, "completed", "active")
  <1>1. Gains(p, done, s, "completed")
    BY BecomesGains DEF StepStates, PlanStates
  <1>2. CompletedStep(p, s)
          = [done EXCEPT !.state = IF AllDone(done) THEN "completed" ELSE "active"]
    BY DEF CompletedStep
  <1> HIDE DEF done
  <1>3. QED
    BY <1>1, <1>2 DEF Gains, Plan, PlanStates

LEMMA HandedBackGains ==
  ASSUME NEW p \in Plan, NEW s \in StepIds
  PROVE  /\ Gains(p, FailedStep(p, s), s, "failed")
         /\ Gains(p, BlockedStep(p, s), s, "blocked")
         /\ Gains(p, UnblockedStep(p, s), s, "pending")
  BY BecomesGains
     DEF FailedStep, BlockedStep, UnblockedStep, StepStates, PlanStates

\* A new revision keeps what is completed and runs nothing.
LEMMA RevisedKeeps ==
  ASSUME NEW p \in Plan, NEW ids \in SUBSET StepIds, CanRevise(p, ids)
  PROVE  /\ Revised(p, ids) \in Plan
         /\ In(p, "completed") = In(Revised(p, ids), "completed")
         /\ In(Revised(p, ids), "running") = {}
  <1> DEFINE steps == Revised(p, ids).steps
  <1>1. /\ steps \in [StepIds -> Step]
        /\ \A s \in StepIds : steps[s] = IF s \notin ids THEN Absent
                                         ELSE IF s \in Ids(p) THEN p.steps[s]
                                         ELSE Fresh
    BY DEF Revised, Plan, Step, StepStates, Absent, Fresh
  <1>2. Revised(p, ids).state \in PlanStates
    BY DEF Revised, RevisedState, PlanStates
  <1>3. Revised(p, ids) \in Plan
    BY <1>1, <1>2 DEF Revised, Plan
  <1>4. \A s \in StepIds : p.steps[s].state # "running"
    BY DEF CanRevise, In
  <1>5. Absent.state = "none" /\ Fresh.state = "pending"
    BY DEF Absent, Fresh
  <1> HIDE DEF steps
  <1>6. \A s \in StepIds : steps[s].state # "running"
    BY <1>1, <1>4, <1>5
  <1>7. \A s \in StepIds : p.steps[s].state = "completed" => s \in ids \cap Ids(p)
    BY DEF CanRevise, In, Ids
  <1>8. \A s \in StepIds :
          steps[s].state = "completed" <=> p.steps[s].state = "completed"
    BY <1>1, <1>5, <1>7
  <1>9. QED
    BY <1>3, <1>6, <1>8 DEF In, steps

LEMMA BeginsFresh ==
  ASSUME NEW q, Begins(q)
  PROVE  q \in Plan /\ In(q, "completed") = {} /\ In(q, "running") = {}
  BY DEF Begins, Compiled, Plan, PlanStates, Step, StepStates, Absent, Fresh, In

-----------------------------------------------------------------------------
(* Types *)

\* Who is in an operation has begun it for a run.
Working == \A c \in Coordinators : ~At(c, "idle") => run[c] \in Runs /\ ops[c] > 0

Typed == TypeOK /\ Working

\* What a call of the plan service on the step of c leads to.
Moved(c, q, r, stage) ==
  /\ plan' = q
  /\ bound' = [bound EXCEPT ![step[c]] = r]
  /\ seen' = [seen EXCEPT ![c] = q]
  /\ Goto(c, stage)

Stays(c) == Leave(c) /\ UNCHANGED <<plan, bound, seen>>

Others == <<goal, journal, work, covered, run, step, ops>>

\* The three operations that move a step, in the states where they do.
LEMMA MovingSteps ==
  ASSUME TypeOK, NEW c \in Coordinators
  PROVE  /\ Attempt(c) =>
              /\ At(c, "attempt") /\ UNCHANGED Others
              /\ \/ Stays(c)
                 \/ /\ Gains(plan, plan', step[c], "running")
                    /\ plan.steps[step[c]].state # "completed"
                    /\ Moved(c, plan', run[c], "planned")
         /\ Complete(c) =>
              /\ At(c, "complete") /\ UNCHANGED Others
              /\ \/ Stays(c)
                 \/ /\ Gains(plan, plan', step[c], "completed")
                    /\ plan.steps[step[c]].state = "running"
                    /\ Moved(c, plan', bound[step[c]], "completed")
         /\ Fail(c) =>
              /\ At(c, "fail") /\ UNCHANGED Others
              /\ \/ Stays(c)
                 \/ /\ Gains(plan, plan', step[c], "failed")
                    /\ plan.steps[step[c]].state = "running"
                    /\ Moved(c, plan', bound[step[c]], "failed")
  <1>1. plan \in Plan /\ step[c] \in StepIds
    BY DEF TypeOK
  <1>2. ASSUME Attempt(c)
        PROVE  /\ At(c, "attempt") /\ UNCHANGED Others
               /\ \/ Stays(c)
                  \/ /\ plan' = Attempted(plan, step[c])
                     /\ plan.steps[step[c]].state # "completed"
                     /\ Moved(c, plan', run[c], "planned")
    BY <1>2 DEF Attempt, Move, Moved, Stays, Others, CanStart, CanRetry
  <1>3. ASSUME Complete(c)
        PROVE  /\ At(c, "complete") /\ UNCHANGED Others
               /\ \/ Stays(c)
                  \/ /\ plan' = CompletedStep(plan, step[c])
                     /\ plan.steps[step[c]].state = "running"
                     /\ Moved(c, plan', bound[step[c]], "completed")
    BY <1>3 DEF Complete, Move, Moved, Stays, Others, CanEnd
  <1>4. ASSUME Fail(c)
        PROVE  /\ At(c, "fail") /\ UNCHANGED Others
               /\ \/ Stays(c)
                  \/ /\ plan' = FailedStep(plan, step[c])
                     /\ plan.steps[step[c]].state = "running"
                     /\ Moved(c, plan', bound[step[c]], "failed")
    BY <1>4 DEF Fail, Move, Moved, Stays, Others, CanEnd
  <1>5. /\ Gains(plan, Attempted(plan, step[c]), step[c], "running")
        /\ Gains(plan, CompletedStep(plan, step[c]), step[c], "completed")
        /\ Gains(plan, FailedStep(plan, step[c]), step[c], "failed")
    BY <1>1, AttemptedGains, CompletedGains, HandedBackGains
  <1>6. QED
    BY <1>2, <1>3, <1>4, <1>5

\* What an operator leaves alone: it completes no step and starts none.
LEMMA OperatorKeeps ==
  ASSUME TypeOK, Operator
  PROVE  /\ plan' \in Plan /\ disturbed'
         /\ bound' \in [StepIds -> Runs \cup {NoRun}]
         /\ In(plan', "completed") = In(plan, "completed")
         /\ In(plan', "running") \subseteq In(plan, "running")
         /\ UNCHANGED <<goal, journal, work, covered, pc, run, step, seen, ops>>
  <1>1. CASE \E ids \in SUBSET StepIds :
               /\ CanRevise(plan, ids)
               /\ plan' = Revised(plan, ids)
               /\ bound' = [s \in StepIds |->
                              IF s \in ids \cap Ids(plan) THEN bound[s] ELSE NoRun]
    <2>1. /\ plan' \in Plan
          /\ In(plan', "completed") = In(plan, "completed")
          /\ In(plan', "running") = {}
      BY <1>1, RevisedKeeps DEF TypeOK
    <2>2. bound' \in [StepIds -> Runs \cup {NoRun}]
      BY <1>1 DEF TypeOK
    <2>3. QED
      BY <2>1, <2>2 DEF Operator
  <1>2. CASE \E s \in StepIds :
               /\ \/ CanBlock(plan, s) /\ plan' = BlockedStep(plan, s)
                  \/ CanUnblock(plan, s) /\ plan' = UnblockedStep(plan, s)
               /\ UNCHANGED bound
    <2>1. PICK s \in StepIds :
               /\ \/ CanBlock(plan, s) /\ plan' = BlockedStep(plan, s)
                  \/ CanUnblock(plan, s) /\ plan' = UnblockedStep(plan, s)
               /\ UNCHANGED bound
      BY <1>2
    <2>2. /\ plan.steps[s].state # "completed"
          /\ \E new \in {"blocked", "pending"} : Gains(plan, plan', s, new)
      BY <2>1, HandedBackGains DEF TypeOK, CanBlock, CanUnblock
    <2>3. /\ plan' \in Plan
          /\ In(plan', "completed") = In(plan, "completed")
          /\ In(plan', "running") \subseteq In(plan, "running")
      BY <2>2 DEF Gains, In
    <2>4. QED
      BY <2>1, <2>3 DEF Operator, TypeOK
  <1>3. QED
    BY <1>1, <1>2 DEF Operator

LEMMA TypeInit == Init => Typed
  <1> SUFFICES ASSUME Init PROVE Typed
    OBVIOUS
  <1>1. plan \in Plan
    BY BeginsFresh DEF Init
  <1>2. \A c \in Coordinators : step[c] \in StepIds
    <2>1. StepIds # {}
      BY DEF Init, Begins, Valid
    <2>2. QED
      BY <2>1 DEF Init
  <1>3. ops \in [Coordinators -> 0..MaxOps] /\ work \in [StepIds -> Nat]
    BY HorizonAssumption DEF Init
  <1>4. /\ goal \in GoalStates /\ journal \subseteq Event /\ covered \subseteq StepIds
        /\ pc \in [Coordinators -> Stages] /\ disturbed \in BOOLEAN
    BY DEF Init, GoalStates, Stages
  <1>5. /\ bound \in [StepIds -> Runs \cup {NoRun}]
        /\ run \in [Coordinators -> Runs \cup {NoRun}]
        /\ step \in [Coordinators -> StepIds]
        /\ seen \in [Coordinators -> Plan]
    BY <1>1, <1>2 DEF Init
  <1>6. Working
    BY DEF Init, Working, At
  <1>7. QED
    BY <1>1, <1>3, <1>4, <1>5, <1>6 DEF Typed, TypeOK

LEMMA TypeNext == Typed /\ [Next]_vars => Typed'
  <1> SUFFICES ASSUME Typed, [Next]_vars PROVE Typed'
    OBVIOUS
  <1> USE DEF Typed, Working, At, Goto, Leave
  <1>0. CASE UNCHANGED vars
    BY <1>0 DEF vars, TypeOK
  <1>1. ASSUME NEW c \in Coordinators, StartNext(c), UNCHANGED disturbed
        PROVE  Typed'
    BY <1>1, HorizonAssumption
       DEF StartNext, Begin, Durable, TypeOK, Stages
  <1>2. ASSUME NEW c \in Coordinators, BeginComplete(c) \/ BeginFail(c),
               UNCHANGED disturbed
        PROVE  Typed'
    <2>1. PICK s \in Ids(plan) : /\ bound[s] # NoRun
                                 /\ run' = [run EXCEPT ![c] = bound[s]]
                                 /\ step' = [step EXCEPT ![c] = s]
      BY <1>2 DEF BeginComplete, BeginFail, BeginEnd
    <2>2. s \in StepIds /\ bound[s] \in Runs
      BY <2>1 DEF Ids, TypeOK
    <2>3. PICK stage \in {"complete", "fail"} : Begin(c, stage) /\ UNCHANGED seen
      BY <1>2 DEF BeginComplete, BeginFail, BeginEnd
    <2>4. QED
      BY <1>2, <2>1, <2>2, <2>3, HorizonAssumption
         DEF Begin, Durable, TypeOK, Stages
  <1>3. ASSUME NEW c \in Coordinators, Decide(c), UNCHANGED disturbed
        PROVE  Typed'
    <2>1. \/ Leave(c) /\ UNCHANGED step
          \/ Goto(c, "unblock") /\ \E t \in StepIds : step' = [step EXCEPT ![c] = t]
      <3>1. seen[c] \in Plan /\ plan \in Plan
        BY DEF TypeOK
      <3>2. PICK advice : advice = Advice(seen[c], {}, Ready(plan))
        OBVIOUS
      <3>3. CASE advice \in {"start_step", "retry_step"}
        <4> DEFINE target == IF advice = "start_step" THEN First(Ready(plan))
                                                     ELSE First(Retryable(seen[c]))
        <4>1. target \in StepIds
          BY <3>1, <3>2, <3>3, TargetIsStep
        <4>2. step' = [step EXCEPT ![c] = target] /\ Goto(c, "unblock")
          BY <1>3, <3>2, <3>3 DEF Decide
        <4>3. QED
          BY <4>1, <4>2
      <3>4. CASE advice \notin {"start_step", "retry_step"}
        BY <1>3, <3>2, <3>4 DEF Decide
      <3>5. QED
        BY <3>3, <3>4
    <2>2. pc[c] = "decide" /\ UNCHANGED <<Durable, run, seen, ops>>
      BY <1>3 DEF Decide
    <2>3. QED
      BY <1>3, <2>1, <2>2 DEF Durable, TypeOK, Stages
  <1>4. ASSUME NEW c \in Coordinators, UNCHANGED disturbed,
               Unblock(c) \/ Announce(c) \/ BlockGoal(c)
        PROVE  Typed'
    BY <1>4 DEF Unblock, Announce, BlockGoal, TypeOK, Stages, GoalStates
  <1>5. ASSUME NEW c \in Coordinators, UNCHANGED disturbed,
               JournalPlanned(c) \/ JournalCompleted(c) \/ JournalFailed(c)
        PROVE  Typed'
    <2>1. run[c] \in Runs /\ step[c] \in StepIds
      BY <1>5 DEF JournalPlanned, JournalCompleted, JournalFailed, TypeOK
    <2>2. journal' \subseteq Event
      BY <1>5, <2>1 DEF JournalPlanned, JournalCompleted, JournalFailed, Emit,
                        TypeOK, Event, EventTypes
    <2>3. QED
      BY <1>5, <2>2 DEF JournalPlanned, JournalCompleted, JournalFailed, TypeOK,
                        Stages
  <1>6. ASSUME NEW c \in Coordinators, UNCHANGED disturbed,
               FinishGoal(c) \/ Progress(c) \/ CheckpointStep(c)
        PROVE  Typed'
    BY <1>6 DEF FinishGoal, Progress, CheckpointStep, Worked, TypeOK, Stages,
                GoalStates
  <1>7. ASSUME NEW c \in Coordinators, UNCHANGED disturbed,
               Attempt(c) \/ Complete(c) \/ Fail(c)
        PROVE  Typed'
    <2>1. /\ UNCHANGED Others /\ ~At(c, "idle")
          /\ \/ Stays(c)
             \/ /\ plan' \in Plan
                /\ \E r \in Runs \cup {NoRun}, stage \in Stages : Moved(c, plan', r, stage)
      BY <1>7, MovingSteps DEF Gains, TypeOK, Stages
    <2>2. QED
      BY <1>7, <2>1 DEF Stays, Moved, Others, TypeOK, Stages
  <1>8. ASSUME NEW c \in Coordinators, Crash(c)
        PROVE  Typed'
    BY <1>8 DEF Crash, Durable, TypeOK, Stages
  <1>9. CASE Operator
    BY <1>9, OperatorKeeps DEF TypeOK
  <1>10. QED
    BY <1>0, <1>1, <1>2, <1>3, <1>4, <1>5, <1>6, <1>7, <1>8, <1>9 DEF Next, Stage

\* The variables keep their types, whoever crashes or interferes.
THEOREM TypeCorrect == Spec => []TypeOK
  <1>1. Typed => TypeOK
    BY DEF Typed
  <1>2. QED
    BY <1>1, TypeInit, TypeNext, PTL DEF Spec

-----------------------------------------------------------------------------
(* Completed work is reported once *)

Owes(c) == pc[c] \in {"completed", "over", "progress"}

\* A step is named in completed_work or owed by the one who completed it.
Owed ==
  /\ \A s \in StepIds : work[s] <= 1 /\ (work[s] = 1 => s \in In(plan, "completed"))
  /\ \A c \in Coordinators :
       Owes(c) => step[c] \in In(plan, "completed") /\ work[step[c]] = 0
  /\ \A c, d \in Coordinators : Owes(c) /\ Owes(d) /\ step[c] = step[d] => c = d

\* Nobody completes a step, reports one or comes to owe one.
NothingOwed ==
  /\ In(plan, "completed") \subseteq In(plan', "completed")
  /\ UNCHANGED work
  /\ \A c \in Coordinators : Owes(c)' => Owes(c) /\ step'[c] = step[c]

LEMMA NothingOwedKeeps ==
  ASSUME Typed, Owed, NothingOwed
  PROVE  Owed'
  BY DEF Typed, TypeOK, Owed, NothingOwed, Owes

LEMMA OwedNext == Typed /\ Owed /\ [Next]_vars => Owed'
  <1> SUFFICES ASSUME Typed, Owed, [Next]_vars PROVE Owed'
    OBVIOUS
  <1> USE DEF At, Goto, Leave
  <1>0. CASE UNCHANGED vars
    BY <1>0, NothingOwedKeeps DEF vars, NothingOwed, Owes
  <1>1. ASSUME NEW c \in Coordinators,
               StartNext(c) \/ BeginComplete(c) \/ BeginFail(c) \/ Decide(c)
        PROVE  NothingOwed
    BY <1>1 DEF StartNext, BeginComplete, BeginFail, BeginEnd, Begin, Decide,
                Durable, NothingOwed, Owes, Typed, TypeOK
  <1>2. ASSUME NEW c \in Coordinators,
               \/ Unblock(c) \/ Announce(c) \/ BlockGoal(c) \/ JournalPlanned(c)
               \/ JournalCompleted(c) \/ JournalFailed(c) \/ CheckpointStep(c)
               \/ Crash(c)
        PROVE  NothingOwed
    BY <1>2 DEF Unblock, Announce, BlockGoal, JournalPlanned, JournalCompleted,
                JournalFailed, CheckpointStep, Crash, Durable, NothingOwed, Owes,
                Typed, TypeOK
  <1>3. ASSUME NEW c \in Coordinators, Attempt(c) \/ Fail(c)
        PROVE  NothingOwed
    <2>1. /\ ~Owes(c) /\ UNCHANGED Others
          /\ \/ Stays(c)
             \/ /\ plan.steps[step[c]].state # "completed"
                /\ \E new \in StepStates : Gains(plan, plan', step[c], new)
                /\ \E r \in Runs \cup {NoRun}, stage \in {"planned", "failed"} :
                     Moved(c, plan', r, stage)
      <3>1. CASE Attempt(c)
        BY <1>3, <3>1, MovingSteps DEF Typed, TypeOK, Owes, StepStates
      <3>2. CASE Fail(c)
        BY <1>3, <3>2, MovingSteps DEF Typed, TypeOK, Owes, StepStates
      <3>3. QED
        BY <1>3, <3>1, <3>2
    <2>2. In(plan, "completed") \subseteq In(plan', "completed")
      BY <2>1 DEF Stays, Gains, In
    <2>3. QED
      BY <2>1, <2>2 DEF NothingOwed, Owes, Stays, Moved, Others, Typed, TypeOK
  <1>4. ASSUME NEW c \in Coordinators, Complete(c)
        PROVE  Owed'
    <2>1. /\ ~Owes(c) /\ UNCHANGED Others
          /\ \/ Stays(c)
             \/ /\ Gains(plan, plan', step[c], "completed")
                /\ plan.steps[step[c]].state = "running"
                /\ Moved(c, plan', bound[step[c]], "completed")
      BY <1>4, MovingSteps DEF Typed, Owes
    <2>2. CASE Stays(c)
      BY <2>1, <2>2, NothingOwedKeeps
         DEF NothingOwed, Owes, Stays, Others, Typed, TypeOK
    <2>3. CASE ~Stays(c)
      <3>1. step[c] \notin In(plan, "completed") /\ step[c] \in StepIds
        BY <2>1, <2>3 DEF In, Typed, TypeOK
      <3>2. In(plan', "completed") = In(plan, "completed") \cup {step[c]}
        BY <2>1, <2>3, <3>1 DEF Gains, In
      <3>3. work[step[c]] = 0
        BY <3>1 DEF Owed, Typed, TypeOK
      <3>4. \A d \in Coordinators : Owes(d)' <=> Owes(d) \/ d = c
        BY <2>1, <2>3 DEF Moved, Owes, Typed, TypeOK
      <3>5. \A d \in Coordinators : Owes(d) => step[d] # step[c]
        BY <3>1 DEF Owed
      <3>6. UNCHANGED <<work, step>>
        BY <2>1 DEF Others
      <3>7. QED
        BY <3>2, <3>3, <3>4, <3>5, <3>6 DEF Owed
    <2>4. QED
      BY <2>2, <2>3
  <1>5. ASSUME NEW c \in Coordinators, FinishGoal(c) \/ Progress(c)
        PROVE  Owed'
    <2>1. /\ Owes(c) /\ UNCHANGED <<plan, step>>
          /\ \A d \in Coordinators : Owes(d)' <=> Owes(d) /\ d # c
      BY <1>5 DEF FinishGoal, Progress, Owes, Typed, TypeOK
    <2>2. UNCHANGED work \/ work' = [work EXCEPT ![step[c]] = 1]
      BY <1>5, <2>1 DEF FinishGoal, Progress, Worked, Owed
    <2>3. step[c] \in In(plan, "completed")
      BY <2>1 DEF Owed
    <2>4. \A d \in Coordinators : Owes(d) /\ d # c => step[d] # step[c]
      BY <2>1 DEF Owed
    <2>5. QED
      BY <2>1, <2>2, <2>3, <2>4 DEF Owed, Typed, TypeOK
  <1>6. CASE Operator
    BY <1>6, OperatorKeeps, NothingOwedKeeps DEF NothingOwed, Owes, Typed
  <1>7. QED
    BY <1>0, <1>1, <1>2, <1>3, <1>4, <1>5, <1>6, NothingOwedKeeps DEF Next, Stage

\* Every completed step is named in completed_work at most once, and no other
\* step is: with any number of coordinators, crashes and replanning.
THEOREM WorkIsNamedOnce == Spec => []WorkIsDone
  <1>1. Init => Owed
    BY DEF Init, Owed, Owes
  <1>2. Typed /\ Owed => WorkIsDone
    <2> SUFFICES ASSUME Typed, Owed, NEW s \in StepIds
                 PROVE  work[s] <= (IF s \in In(plan, "completed") THEN 1 ELSE 0)
      BY DEF WorkIsDone
    <2>1. work[s] \in Nat /\ work[s] <= 1
      BY DEF Typed, TypeOK, Owed
    <2>2. work[s] = 1 => s \in In(plan, "completed")
      BY DEF Owed
    <2>3. QED
      BY <2>1, <2>2
  <1>3. QED
    BY <1>1, <1>2, TypeInit, TypeNext, OwedNext, PTL DEF Spec

-----------------------------------------------------------------------------
(* One coordinator starts and ends work in turn *)

\* Where a step may run: elsewhere c has seen none, or has just ended it.
AtWork(c) == pc[c] \in {"idle", "planned", "complete", "fail"}

Covers(c, s) == (Owes(c) \/ At(c, "checkpoint")) /\ step[c] = s

InTurn ==
  /\ \A c \in Coordinators : AtWork(c) \/ In(plan, "running") = {}
  /\ \A s, t \in In(plan, "running") : s = t
  /\ \A c \in Coordinators : At(c, "attempt") => goal = "active"
  /\ RunningHasActiveGoal

\* Undisturbed, what is completed is covered or about to be, under a goal that
\* lets it.
Covering ==
  ~disturbed =>
    /\ \A s \in In(plan, "completed") :
         s \in covered \/ \E c \in Coordinators : Covers(c, s)
    /\ \A c \in Coordinators : Owes(c) => goal = "active"

Calm == Alone => InTurn /\ Covering

LEMMA OpsGrow ==
  ASSUME Typed, [Next]_vars, Alone'
  PROVE  Alone
  <1>1. ASSUME NEW c \in Coordinators, NEW stage, Begin(c, stage)
        PROVE  ops' = [ops EXCEPT ![c] = @ + 1]
    BY <1>1 DEF Begin
  <1>2. \/ UNCHANGED ops
        \/ \E c \in Coordinators : ops' = [ops EXCEPT ![c] = @ + 1]
    BY <1>1 DEF Next, Stage, StartNext, BeginComplete, BeginFail, BeginEnd, Decide,
                Unblock, Announce, Attempt, JournalPlanned, Complete,
                JournalCompleted, FinishGoal, Progress, CheckpointStep, Fail,
                JournalFailed, BlockGoal, Crash, Operator, vars
  <1>3. \A d \in Coordinators : ops[d] \in Nat
    BY HorizonAssumption DEF Typed, TypeOK
  <1>4. \A d \in Coordinators : ops'[d] = 0 => ops[d] = 0
    BY <1>2, <1>3 DEF Typed, TypeOK
  <1>5. QED
    BY <1>4 DEF Alone

\* Who is in an operation while one is alone is that one.
LEMMA Solo ==
  ASSUME Typed, Alone, NEW c \in Coordinators, ~At(c, "idle"),
         NEW d \in Coordinators \ {c}
  PROVE  pc[d] = "idle"
  <1>1. PICK e \in Coordinators : \A f \in Coordinators \ {e} : ops[f] = 0
    BY DEF Alone
  <1>2. \A f \in Coordinators : ~At(f, "idle") => f = e
    BY <1>1 DEF Typed, Working
  <1>3. QED
    BY <1>2 DEF At

\* Who begins an operation and is alone then finds nobody in one.
LEMMA SoloBegins ==
  ASSUME Typed, Alone', NEW c \in Coordinators, NEW stage, Begin(c, stage),
         NEW d \in Coordinators
  PROVE  pc[d] = "idle"
  <1>1. /\ ops[c] \in Nat /\ At(c, "idle") /\ ops' = [ops EXCEPT ![c] = @ + 1]
        /\ ops \in [Coordinators -> 0..MaxOps]
    BY HorizonAssumption DEF Typed, TypeOK, Begin
  <1>2. PICK e \in Coordinators : \A f \in Coordinators \ {e} : ops'[f] = 0
    BY DEF Alone
  <1>3. e = c
    BY <1>1, <1>2
  <1>4. d # c => ops[d] = 0
    BY <1>1, <1>2, <1>3
  <1>5. QED
    BY <1>1, <1>4 DEF Typed, Working, At

\* The plan and the goal stay, and with them what is at work and covered.
LEMMA CalmBegin ==
  ASSUME Typed, InTurn, Covering, Alone', NEW c \in Coordinators, UNCHANGED disturbed,
         StartNext(c) \/ BeginComplete(c) \/ BeginFail(c)
  PROVE  InTurn' /\ Covering'
  <1>1. PICK stage \in {"decide", "complete", "fail"} :
          /\ Begin(c, stage)
          /\ stage = "decide" => In(plan, "running") = {}
    BY DEF StartNext, BeginComplete, BeginFail, BeginEnd
  <1>2. \A d \in Coordinators : pc[d] = "idle"
    BY <1>1, SoloBegins
  <1>3. \A d \in Coordinators \ {c} : pc'[d] = "idle"
    BY <1>1, <1>2 DEF Begin, Goto, Typed, TypeOK
  <1>4. pc'[c] = stage
    BY <1>1 DEF Begin, Goto, Typed, TypeOK
  <1>5. UNCHANGED <<plan, goal, covered>>
    BY <1>1 DEF Begin, Durable
  <1>6. InTurn'
    BY <1>1, <1>2, <1>3, <1>4, <1>5 DEF InTurn, AtWork, At, RunningHasActiveGoal
  <1>7. ~disturbed => \A s \in In(plan, "completed") : s \in covered
    BY <1>2 DEF Covering, Covers, Owes, At
  <1>8. \A d \in Coordinators : ~Owes(d)'
    BY <1>1, <1>3, <1>4 DEF Owes
  <1>9. QED
    BY <1>5, <1>6, <1>7, <1>8 DEF Covering

\* Between two operations on the plan.
LEMMA CalmStage ==
  ASSUME Typed, InTurn, Covering, Alone, NEW c \in Coordinators,
         \/ Crash(c)
         \/ /\ UNCHANGED disturbed
            /\ \/ Decide(c) \/ Unblock(c) \/ Announce(c) \/ JournalPlanned(c)
               \/ JournalCompleted(c) \/ FinishGoal(c) \/ Progress(c)
               \/ CheckpointStep(c) \/ JournalFailed(c) \/ BlockGoal(c)
  PROVE  InTurn' /\ Covering'
  <1> USE DEF At, Goto, Leave
  <1>1. /\ pc[c] # "idle" /\ UNCHANGED plan
        /\ pc \in [Coordinators -> Stages] /\ step \in [Coordinators -> StepIds]
    BY DEF Crash, Decide, Unblock, Announce, JournalPlanned, JournalCompleted,
           FinishGoal, Progress, CheckpointStep, JournalFailed, BlockGoal, Durable,
           Typed, TypeOK
  <1>2. \A d \in Coordinators \ {c} : pc[d] = "idle"
    BY <1>1, Solo
  <1>3. \A d \in Coordinators \ {c} : pc'[d] = pc[d]
    BY <1>1 DEF Crash, Decide, Unblock, Announce, JournalPlanned, JournalCompleted,
                FinishGoal, Progress, CheckpointStep, JournalFailed, BlockGoal
  <1>4. \A d \in Coordinators \ {c} :
          AtWork(d)' /\ pc'[d] # "attempt" /\ ~Owes(d)' /\ pc[d] # "checkpoint"
    BY <1>2, <1>3 DEF AtWork, Owes
  <1>5. \/ UNCHANGED goal
        \/ goal' = "active"
        \/ In(plan, "running") = {}
    BY DEF Crash, Decide, Unblock, Announce, JournalPlanned, JournalCompleted,
           FinishGoal, Progress, CheckpointStep, JournalFailed, BlockGoal, Durable,
           InTurn, AtWork
  <1>6. AtWork(c)' \/ In(plan, "running") = {}
    BY <1>1 DEF Crash, Decide, Unblock, Announce, JournalPlanned, JournalCompleted,
           FinishGoal, Progress, CheckpointStep, JournalFailed, BlockGoal,
           InTurn, AtWork
  <1>7. pc'[c] = "attempt" => goal' = "active"
    BY <1>1 DEF Crash, Decide, Unblock, Announce, JournalPlanned, JournalCompleted,
           FinishGoal, Progress, CheckpointStep, JournalFailed, BlockGoal
  <1>8. InTurn'
    BY <1>1, <1>4, <1>5, <1>6, <1>7 DEF InTurn, RunningHasActiveGoal
  <1>9. ASSUME ~disturbed'
        PROVE  /\ \A s \in In(plan, "completed") : s \in covered' \/ Covers(c, s)'
               /\ Owes(c)' => goal' = "active"
    <2>1. ~disturbed /\ ~Crash(c)
      BY <1>9 DEF Crash
    <2>2. /\ \A s \in In(plan, "completed") : s \in covered \/ Covers(c, s)
          /\ Owes(c) => goal = "active"
      BY <1>2, <2>1 DEF Covering, Covers, Owes
    <2>3. CASE Decide(c) \/ Unblock(c) \/ Announce(c) \/ JournalPlanned(c)
                 \/ JournalFailed(c) \/ BlockGoal(c)
      BY <1>1, <2>2, <2>3 DEF Decide, Unblock, Announce, JournalPlanned, JournalFailed,
                              BlockGoal, Durable, Covers, Owes
    <2>4. CASE JournalCompleted(c) \/ Progress(c)
      BY <1>1, <2>2, <2>4 DEF JournalCompleted, Progress, Covers, Owes
    <2>5. CASE FinishGoal(c) \/ CheckpointStep(c)
      BY <1>1, <2>2, <2>5 DEF FinishGoal, CheckpointStep, Covers, Owes
    <2>6. QED
      BY <2>1, <2>3, <2>4, <2>5
  <1>10. QED
    BY <1>1, <1>4, <1>8, <1>9 DEF Covering

\* The operations on a step.
LEMMA CalmMoves ==
  ASSUME Typed, InTurn, Covering, Alone, NEW c \in Coordinators,
         UNCHANGED disturbed, Attempt(c) \/ Complete(c) \/ Fail(c)
  PROVE  InTurn' /\ Covering'
  <1> USE DEF At, Goto, Leave
  <1>1. /\ pc \in [Coordinators -> Stages] /\ step \in [Coordinators -> StepIds]
        /\ step[c] \in StepIds
    BY DEF Typed, TypeOK
  <1>2. PICK move \in {<<"attempt", "running", "planned">>,
                       <<"complete", "completed", "completed">>,
                       <<"fail", "failed", "failed">>} :
          /\ pc[c] = move[1] /\ UNCHANGED Others
          /\ \/ Stays(c)
             \/ /\ Gains(plan, plan', step[c], move[2])
                /\ move[1] # "attempt" => plan.steps[step[c]].state = "running"
                /\ plan.steps[step[c]].state # "completed"
                /\ \E r : Moved(c, plan', r, move[3])
    <2>1. CASE Attempt(c)
      BY <2>1, MovingSteps DEF Typed
    <2>2. CASE Complete(c)
      BY <2>2, MovingSteps DEF Typed
    <2>3. CASE Fail(c)
      BY <2>3, MovingSteps DEF Typed
    <2>4. QED
      BY <2>1, <2>2, <2>3
  <1>3. \A d \in Coordinators \ {c} : pc[d] = "idle" /\ pc'[d] = "idle"
    BY <1>1, <1>2, Solo DEF Stays, Moved
  <1>4. UNCHANGED <<goal, covered, step>>
    BY <1>2 DEF Others
  <1>5. ~disturbed => /\ \A s \in In(plan, "completed") : s \in covered
                      /\ ~Owes(c)
    BY <1>2, <1>3 DEF Covering, Covers, Owes
  <1>6. CASE Stays(c)
    <2>1. pc'[c] = "idle" /\ UNCHANGED plan
      BY <1>1, <1>6 DEF Stays
    <2>2. InTurn'
      BY <1>3, <1>4, <2>1 DEF InTurn, AtWork, RunningHasActiveGoal
    <2>3. QED
      BY <1>3, <1>4, <1>5, <2>1, <2>2 DEF Covering, Owes
  <1>7. CASE ~Stays(c)
    <2>1. /\ Gains(plan, plan', step[c], move[2]) /\ pc'[c] = move[3]
          /\ move[1] # "attempt" => plan.steps[step[c]].state = "running"
      BY <1>1, <1>2, <1>7 DEF Moved
    <2>2. goal = "active"
      BY <1>1, <1>2, <2>1 DEF InTurn, RunningHasActiveGoal, In
    <2>3. /\ move[1] = "attempt" => In(plan', "running") = {step[c]}
          /\ move[1] # "attempt" => In(plan', "running") = {}
      <3>1. CASE move[1] = "attempt"
        <4>1. In(plan, "running") = {}
          BY <1>2, <3>1 DEF InTurn, AtWork
        <4>2. QED
          BY <1>1, <1>2, <2>1, <3>1, <4>1 DEF Gains, In
      <3>2. CASE move[1] # "attempt"
        <4>1. In(plan, "running") = {step[c]} /\ move[2] # "running"
          BY <1>1, <1>2, <2>1, <3>2 DEF InTurn, In
        <4>2. QED
          BY <1>1, <2>1, <3>2, <4>1 DEF Gains, In
      <3>3. QED
        BY <3>1, <3>2
    <2>4. InTurn'
      BY <1>2, <1>3, <1>4, <2>1, <2>2, <2>3 DEF InTurn, AtWork, RunningHasActiveGoal
    <2>5. \A s \in In(plan', "completed") :
            s \in In(plan, "completed") \/ (s = step[c] /\ move[2] = "completed")
      BY <1>1, <2>1 DEF Gains, In
    <2>6. ASSUME NEW s, s = step[c], move[2] = "completed" PROVE Covers(c, s)'
      BY <1>2, <1>4, <2>1, <2>6 DEF Covers, Owes
    <2>7. ~disturbed => \A s \in In(plan', "completed") :
                           s \in covered \/ \E d \in Coordinators : Covers(d, s)'
      BY <1>5, <2>5, <2>6
    <2>8. QED
      BY <1>4, <2>2, <2>4, <2>7 DEF Covering
  <1>8. QED
    BY <1>6, <1>7

LEMMA CalmNext == Typed /\ Calm /\ [Next]_vars => Calm'
  <1> SUFFICES ASSUME Typed, Calm, [Next]_vars, Alone' PROVE InTurn' /\ Covering'
    BY DEF Calm
  <1>1. Alone /\ InTurn /\ Covering
    BY OpsGrow DEF Calm
  <1>2. CASE UNCHANGED vars
    BY <1>1, <1>2 DEF vars, InTurn, AtWork, At, RunningHasActiveGoal, Covering,
                      Covers, Owes
  <1>3. CASE Operator
    <2>1. /\ In(plan', "running") \subseteq In(plan, "running")
          /\ UNCHANGED <<goal, pc>> /\ disturbed'
      BY <1>3, OperatorKeeps DEF Typed
    <2>2. QED
      BY <1>1, <2>1 DEF InTurn, AtWork, At, RunningHasActiveGoal, Covering
  <1>4. ASSUME NEW c \in Coordinators, UNCHANGED disturbed,
               StartNext(c) \/ BeginComplete(c) \/ BeginFail(c)
        PROVE  InTurn' /\ Covering'
    BY <1>1, <1>4, CalmBegin
  <1>5. ASSUME NEW c \in Coordinators, Stage(c) \/ Crash(c)
        PROVE  InTurn' /\ Covering'
    BY <1>1, <1>5, CalmStage, CalmMoves DEF Stage
  <1>6. QED
    BY <1>2, <1>3, <1>4, <1>5 DEF Next

LEMMA CalmInit == Init => Calm
  BY BeginsFresh DEF Init, Calm, InTurn, AtWork, At, RunningHasActiveGoal, Covering,
                     Owes

LEMMA Calmness == Spec => [](Typed /\ Calm)
  BY TypeInit, TypeNext, CalmInit, CalmNext, PTL DEF Spec

\* As long as one coordinator works on a plan, a step runs under an active goal
\* only, whatever crashes and whatever an operator does meanwhile.
THEOREM GoalIsActive == Spec => []RunningHasActiveGoalAlone
  <1>1. Calm => RunningHasActiveGoalAlone
    BY DEF Calm, InTurn, RunningHasActiveGoalAlone
  <1>2. QED
    BY <1>1, Calmness, PTL

\* Undisturbed, it starts no step before the completed ones are in a checkpoint.
THEOREM CheckpointsPrecede == Spec => []AdvanceIsCheckpointedAlone
  <1>1. Calm => AdvanceIsCheckpointedAlone
    <2> SUFFICES ASSUME InTurn, Covering, ~disturbed, In(plan, "running") # {},
                        NEW s \in In(plan, "completed")
                 PROVE  s \in covered
      BY DEF Calm, AdvanceIsCheckpointedAlone, AdvanceIsCheckpointed
    <2>1. \A c \in Coordinators : AtWork(c)
      BY DEF InTurn
    <2>2. \A c \in Coordinators : ~Covers(c, s)
      BY <2>1 DEF Covers, Owes, AtWork, At
    <2>3. QED
      BY <2>2 DEF Covering
  <1>2. QED
    BY <1>1, Calmness, PTL

-----------------------------------------------------------------------------
(* Undisturbed, one coordinator keeps plan and goal together *)

\* What nobody but an operator can change of a plan: a failed step is alone,
\* blocks the plan, and keeps everything from running until it is retried.
Orderly(p) ==
  /\ \A s, t \in In(p, "failed") : s = t
  /\ In(p, "failed") # {} => p.state = "blocked" /\ In(p, "running") = {}
  /\ \A s \in In(p, "pending") : p.steps[s].attempts = 0
  /\ p.state = "completed" => AllDone(p)

\* The coordinator works from the plan as it is: what it decided can be done.
UpToDate(c) ==
  /\ pc[c] \in {"decide", "unblock", "announce", "attempt"} =>
       seen[c] = plan /\ plan.state # "completed" /\ In(plan, "running") = {}
  /\ pc[c] \in {"unblock", "announce", "attempt"} =>
       step[c] \in Ready(plan) \cup Retryable(plan)
  /\ pc[c] = "announce" => goal \in {"planned", "active"}
  /\ Owes(c) => seen[c] = plan
  /\ pc[c] = "over" => plan.state = "completed"
  /\ pc[c] = "progress" => plan.state # "completed"
  /\ pc[c] \in {"failed", "block"} => goal = "active"

\* The goal follows the plan, or is about to.
Together ==
  /\ goal = "completed" => plan.state = "completed"
  /\ plan.state = "completed" =>
       goal = "completed" \/ \E c \in Coordinators : pc[c] \in {"completed", "over"}
  /\ In(plan, "failed") # {} =>
       \/ goal = "blocked"
       \/ \E c \in Coordinators : pc[c] \in {"failed", "block", "announce", "attempt"}

Harmony == Orderly(plan) /\ Together /\ \A c \in Coordinators : UpToDate(c)

Undisturbed == Alone /\ ~disturbed => Harmony

LEMMA WithSteps ==
  ASSUME NEW p \in Plan, NEW s \in StepIds, NEW it, NEW state
  PROVE  /\ With(p, s, it, state).state = state
         /\ \A t \in StepIds :
              With(p, s, it, state).steps[t] = IF t = s THEN it ELSE p.steps[t]
  BY DEF With, Plan

\* A step that is ready or retryable takes its attempt, and nothing is left that
\* has failed.
LEMMA AttemptedOrderly ==
  ASSUME NEW p \in Plan, Orderly(p), In(p, "running") = {}, p.state # "completed",
         NEW s \in Ready(p) \cup Retryable(p)
  PROVE  /\ s \in Ids(p)
         /\ p.steps[s].state = "failed" => CanRetry(p, s)
         /\ p.steps[s].state # "failed" => CanStart(p, s)
         /\ Orderly(Attempted(p, s))
         /\ In(Attempted(p, s), "failed") = {} /\ Attempted(p, s).state = "active"
  <1>1. s \in StepIds /\ p.steps[s].state \in {"pending", "failed"}
    BY DEF Ready, Retryable, In
  <1>2. p.steps[s].state = "failed" => CanRetry(p, s)
    BY DEF Ready, Retryable, In, CanRetry
  <1>3. ASSUME p.steps[s].state # "failed"
        PROVE  CanStart(p, s) /\ In(p, "failed") = {}
    <2>1. s \in Ready(p)
      BY <1>3 DEF Retryable, In
    <2>2. MaxAttempts[s] \in Nat \ {0} /\ p.steps[s].attempts = 0
      BY <1>1, <2>1, GraphAssumption DEF Ready, Orderly
    <2>3. QED
      BY <1>1, <2>1, <2>2 DEF Ready, Orderly, In, CanStart
  <1>4. \A t \in StepIds \ {s} : p.steps[t].state # "failed"
    BY <1>1, <1>3 DEF Orderly, In
  <1> DEFINE it == [state |-> "running", attempts |-> p.steps[s].attempts + 1]
             q == Attempted(p, s)
  <1>5. /\ q.state = "active"
        /\ \A t \in StepIds : q.steps[t] = IF t = s THEN it ELSE p.steps[t]
    BY <1>1, WithSteps DEF Attempted
  <1>6. it.state = "running"
    OBVIOUS
  <1> HIDE DEF q, it
  <1>7. In(q, "failed") = {}
    BY <1>4, <1>5, <1>6 DEF In
  <1>8. Orderly(q)
    BY <1>5, <1>6, <1>7 DEF Orderly, In
  <1>9. QED
    BY <1>1, <1>2, <1>3, <1>5, <1>7, <1>8 DEF Ids, q

\* A step that was running ends, one way or the other.
LEMMA EndedOrderly ==
  ASSUME NEW p \in Plan, Orderly(p), NEW s \in StepIds, CanEnd(p, s),
         \A t \in In(p, "running") : t = s
  PROVE  /\ Orderly(CompletedStep(p, s)) /\ In(CompletedStep(p, s), "failed") = {}
         /\ Orderly(FailedStep(p, s)) /\ FailedStep(p, s).state = "blocked"
  <1>1. p.steps[s].state = "running" /\ In(p, "failed") = {}
    BY DEF CanEnd, Orderly, In
  <1>2. ASSUME NEW new, NEW state
        PROVE  /\ Becomes(p, s, new, state).state = state
               /\ \A t \in StepIds \ {s} :
                    Becomes(p, s, new, state).steps[t] = p.steps[t]
               /\ Becomes(p, s, new, state).steps[s].state = new
    BY WithSteps DEF Becomes
  <1>3. Orderly(FailedStep(p, s)) /\ FailedStep(p, s).state = "blocked"
    <2> DEFINE q == FailedStep(p, s)
    <2>1. /\ q.state = "blocked" /\ q.steps[s].state = "failed"
          /\ \A t \in StepIds \ {s} : q.steps[t] = p.steps[t]
      BY <1>2 DEF FailedStep
    <2> HIDE DEF q
    <2>2. Orderly(q)
      BY <1>1, <2>1 DEF Orderly, In
    <2>3. QED
      BY <2>1, <2>2 DEF q
  <1>4. Orderly(CompletedStep(p, s)) /\ In(CompletedStep(p, s), "failed") = {}
    <2> DEFINE done == Becomes(p, s, "completed", "active")
               q == CompletedStep(p, s)
    <2>1. /\ done.steps[s].state = "completed"
          /\ \A t \in StepIds \ {s} : done.steps[t] = p.steps[t]
      BY <1>2
    <2>2. q.steps = done.steps
          /\ q.state = IF AllDone(done) THEN "completed" ELSE "active"
      BY DEF CompletedStep, Becomes, With
    <2> HIDE DEF q, done
    <2>3. AllDone(q) <=> AllDone(done)
      BY <2>2 DEF AllDone, In, Ids
    <2>4. In(q, "failed") = {}
      BY <1>1, <2>1, <2>2 DEF In
    <2>5. Orderly(q)
      BY <1>1, <2>1, <2>2, <2>3, <2>4 DEF Orderly, In
    <2>6. QED
      BY <2>4, <2>5 DEF q
  <1>5. QED
    BY <1>3, <1>4

LEMMA HarmonyBegin ==
  ASSUME Typed, Harmony, Alone', NEW c \in Coordinators,
         StartNext(c) \/ BeginComplete(c) \/ BeginFail(c)
  PROVE  Harmony'
  <1>1. PICK stage \in {"decide", "complete", "fail"} :
          /\ Begin(c, stage)
          /\ stage = "decide" => /\ In(plan, "running") = {}
                                 /\ plan.state # "completed" /\ seen'[c] = plan
    BY DEF StartNext, BeginComplete, BeginFail, BeginEnd, Typed, TypeOK
  <1>2. \A d \in Coordinators : pc[d] = "idle"
    BY <1>1, SoloBegins
  <1>3. pc'[c] = stage /\ \A d \in Coordinators \ {c} : pc'[d] = "idle"
    BY <1>1, <1>2 DEF Begin, Goto, Typed, TypeOK
  <1>4. UNCHANGED <<plan, goal>>
    BY <1>1 DEF Begin, Durable
  <1>5. Together'
    BY <1>2, <1>4 DEF Harmony, Together
  <1>6. \A d \in Coordinators : UpToDate(d)'
    BY <1>1, <1>3, <1>4 DEF UpToDate, Owes
  <1>7. QED
    BY <1>4, <1>5, <1>6 DEF Harmony, Orderly

\* Who is alone and not idle leaves the others idle.
LEMMA OthersIdle ==
  ASSUME Typed, Alone, NEW c \in Coordinators, ~At(c, "idle"),
         \E stage : Goto(c, stage)
  PROVE  \A d \in Coordinators \ {c} : pc[d] = "idle" /\ pc'[d] = "idle"
  BY Solo DEF Goto, Typed, TypeOK

LEMMA HarmonyStage ==
  ASSUME Typed, Harmony, InTurn, Covering, Alone, ~disturbed, NEW c \in Coordinators,
         \/ Decide(c) \/ Unblock(c) \/ Announce(c) \/ JournalPlanned(c)
         \/ JournalCompleted(c) \/ FinishGoal(c) \/ Progress(c)
         \/ CheckpointStep(c) \/ JournalFailed(c) \/ BlockGoal(c)
  PROVE  Harmony'
  <1> USE DEF At, Goto, Leave
  <1>1. /\ pc[c] # "idle" /\ UNCHANGED <<plan, seen>>
        /\ pc \in [Coordinators -> Stages] /\ step \in [Coordinators -> StepIds]
    BY DEF Decide, Unblock, Announce, JournalPlanned, JournalCompleted,
           FinishGoal, Progress, CheckpointStep, JournalFailed, BlockGoal, Durable,
           Typed, TypeOK
  <1>2. \E stage : Goto(c, stage)
    BY DEF Decide, Unblock, Announce, JournalPlanned, JournalCompleted,
           FinishGoal, Progress, CheckpointStep, JournalFailed, BlockGoal
  <1>3. \A d \in Coordinators \ {c} : pc[d] = "idle" /\ pc'[d] = "idle"
    BY <1>1, <1>2, OthersIdle
  <1>4. Orderly(plan)'
    BY <1>1 DEF Harmony, Orderly
  <1>5. \A d \in Coordinators \ {c} : UpToDate(d)'
    BY <1>3 DEF UpToDate, Owes
  <1>6. /\ goal = "completed" => plan.state = "completed"
        /\ plan.state = "completed" =>
             goal = "completed" \/ pc[c] \in {"completed", "over"}
        /\ In(plan, "failed") # {} =>
             goal = "blocked" \/ pc[c] \in {"failed", "block", "announce", "attempt"}
        /\ UpToDate(c)
        /\ Owes(c) => goal = "active"
        /\ In(plan, "failed") # {} => plan.state = "blocked"
    BY <1>3 DEF Harmony, Together, Covering, Orderly
  <1>7. ASSUME /\ goal' = "completed" => plan.state = "completed"
               /\ plan.state = "completed" =>
                    goal' = "completed" \/ pc'[c] \in {"completed", "over"}
               /\ In(plan, "failed") # {} =>
                    \/ goal' = "blocked"
                    \/ pc'[c] \in {"failed", "block", "announce", "attempt"}
               /\ UpToDate(c)'
        PROVE  Harmony'
    BY <1>1, <1>4, <1>5, <1>7 DEF Harmony, Together
  <1>8. CASE Decide(c)
    <2>1. seen[c] = plan /\ pc[c] = "decide"
      BY <1>6, <1>8 DEF Decide, UpToDate
    <2>2. \/ pc'[c] = "idle"
          \/ /\ pc'[c] = "unblock"
             /\ step'[c] \in Ready(plan) \cup Retryable(plan)
      <3>1. PICK advice : advice = Advice(plan, {}, Ready(plan))
        OBVIOUS
      <3>2. /\ advice = "start_step" => Ready(plan) # {}
            /\ advice = "retry_step" => Retryable(plan) # {}
        BY <3>1 DEF Advice
      <3>3. Ready(plan) \in SUBSET StepIds /\ Retryable(plan) \in SUBSET StepIds
        BY DEF Ready, Retryable, In
      <3>4. CASE advice = "start_step"
        <4>1. step' = [step EXCEPT ![c] = First(Ready(plan))] /\ Goto(c, "unblock")
          BY <1>8, <2>1, <3>1, <3>4 DEF Decide
        <4>2. First(Ready(plan)) \in Ready(plan)
          BY <3>2, <3>3, <3>4, FirstIsIn
        <4>3. QED
          BY <1>1, <4>1, <4>2
      <3>5. CASE advice = "retry_step"
        <4>1. step' = [step EXCEPT ![c] = First(Retryable(plan))] /\ Goto(c, "unblock")
          BY <1>8, <2>1, <3>1, <3>5 DEF Decide
        <4>2. First(Retryable(plan)) \in Retryable(plan)
          BY <3>2, <3>3, <3>5, FirstIsIn
        <4>3. QED
          BY <1>1, <4>1, <4>2
      <3>6. CASE advice \notin {"start_step", "retry_step"}
        BY <1>1, <1>8, <2>1, <3>1, <3>6 DEF Decide
      <3>7. QED
        BY <3>4, <3>5, <3>6
    <2>3. goal' = goal
      BY <1>8 DEF Decide, Durable
    <2>4. UpToDate(c)'
      BY <1>1, <1>6, <2>1, <2>2 DEF UpToDate, Owes
    <2>5. QED
      BY <1>6, <1>7, <2>1, <2>3, <2>4
  <1>9. CASE Unblock(c) \/ Announce(c)
    <2>1. step' = step /\ goal \in GoalStates
      BY <1>9 DEF Unblock, Announce, Typed, TypeOK
    <2>2. UpToDate(c)' /\ (goal' = "completed" => plan.state = "completed")
      BY <1>1, <1>6, <1>9, <2>1 DEF Unblock, Announce, UpToDate, Owes, GoalStates
    <2>3. plan.state # "completed" /\ pc'[c] \in {"announce", "attempt"}
      BY <1>1, <1>6, <1>9 DEF Unblock, Announce, UpToDate
    <2>4. QED
      BY <1>7, <2>2, <2>3
  <1>10. CASE JournalPlanned(c) \/ CheckpointStep(c)
    BY <1>1, <1>6, <1>7, <1>10 DEF JournalPlanned, CheckpointStep, UpToDate, Owes
  <1>11. CASE JournalCompleted(c)
    BY <1>1, <1>6, <1>7, <1>11 DEF JournalCompleted, UpToDate, Owes
  <1>12. CASE FinishGoal(c) \/ Progress(c)
    BY <1>1, <1>6, <1>7, <1>12 DEF FinishGoal, Progress, UpToDate, Owes
  <1>13. CASE JournalFailed(c) \/ BlockGoal(c)
    BY <1>1, <1>6, <1>7, <1>13 DEF JournalFailed, BlockGoal, UpToDate, Owes
  <1>14. QED
    BY <1>8, <1>9, <1>10, <1>11, <1>12, <1>13

\* A plan on which the step of c moved.
LEMMA HarmonyMoves ==
  ASSUME Typed, Harmony, InTurn, Alone, NEW c \in Coordinators,
         Attempt(c) \/ Complete(c) \/ Fail(c)
  PROVE  Harmony'
  <1> USE DEF At, Goto, Leave
  <1>1. /\ pc \in [Coordinators -> Stages] /\ seen \in [Coordinators -> Plan]
        /\ step[c] \in StepIds /\ plan \in Plan /\ goal' = goal /\ step' = step
    BY DEF Attempt, Complete, Fail, Typed, TypeOK
  <1>2. pc[c] \in {"attempt", "complete", "fail"} /\ \E stage : Goto(c, stage)
    BY DEF Attempt, Complete, Fail, Move
  <1>3. \A d \in Coordinators \ {c} : pc[d] = "idle" /\ pc'[d] = "idle"
    BY <1>2, OthersIdle
  <1>4. Orderly(plan) /\ UpToDate(c) /\ \A d \in Coordinators \ {c} : UpToDate(d)'
    BY <1>3 DEF Harmony, UpToDate, Owes
  <1>5. /\ goal = "completed" => plan.state = "completed"
        /\ pc[c] # "attempt" /\ In(plan, "failed") # {} => goal = "blocked"
        /\ plan.state = "completed" => goal = "completed"
    BY <1>2, <1>3 DEF Harmony, Together
  <1>6. CASE Attempt(c)
    <2>1. /\ plan.state # "completed" /\ In(plan, "running") = {} /\ seen[c] = plan
          /\ step[c] \in Ready(plan) \cup Retryable(plan) /\ pc[c] = "attempt"
      BY <1>4, <1>6 DEF Attempt, UpToDate
    <2>2. PICK q : q = Attempted(plan, step[c])
      OBVIOUS
    <2>3. /\ step[c] \in Ids(plan)
          /\ plan.steps[step[c]].state = "failed" => CanRetry(plan, step[c])
          /\ plan.steps[step[c]].state # "failed" => CanStart(plan, step[c])
          /\ Orderly(q) /\ In(q, "failed") = {} /\ q.state = "active"
      BY <1>1, <1>4, <2>1, <2>2, AttemptedOrderly
    <2>4. plan' = q /\ pc'[c] = "planned"
      BY <1>1, <1>6, <2>1, <2>2, <2>3 DEF Attempt, Move
    <2>5. UpToDate(c)' /\ goal' # "completed"
      BY <1>1, <1>5, <2>1, <2>4 DEF UpToDate, Owes
    <2>6. QED
      BY <1>4, <2>3, <2>4, <2>5 DEF Harmony, Together, Orderly, AllDone, In, Ids
  <1>7. CASE Complete(c) \/ Fail(c)
    <2>1. pc[c] \in {"complete", "fail"}
      BY <1>7 DEF Complete, Fail
    <2>2. CASE ~(step[c] \in Ids(plan) /\ CanEnd(plan, step[c]))
      <3>1. plan' = plan /\ pc'[c] = "idle"
        BY <1>1, <1>7, <2>2 DEF Complete, Fail, Move
      <3>2. UpToDate(c)'
        BY <3>1 DEF UpToDate, Owes
      <3>3. QED
        BY <1>1, <1>4, <1>5, <2>1, <3>1, <3>2
           DEF Harmony, Together, Orderly, AllDone, In, Ids
    <2>3. CASE CanEnd(plan, step[c]) /\ step[c] \in Ids(plan)
      <3>1. goal = "active" /\ \A t \in In(plan, "running") : t = step[c]
        BY <1>1, <2>3 DEF InTurn, RunningHasActiveGoal, In, CanEnd
      <3>2. /\ Orderly(CompletedStep(plan, step[c]))
            /\ In(CompletedStep(plan, step[c]), "failed") = {}
            /\ Orderly(FailedStep(plan, step[c]))
            /\ FailedStep(plan, step[c]).state = "blocked"
        BY <1>1, <1>4, <2>3, <3>1, EndedOrderly
      <3>3. CASE Complete(c)
        <4>1. PICK q : q = CompletedStep(plan, step[c])
          OBVIOUS
        <4>2. plan' = q /\ seen'[c] = q /\ pc'[c] = "completed"
          BY <1>1, <2>3, <3>3, <4>1 DEF Complete, Move
        <4>3. UpToDate(c)' /\ Orderly(q) /\ In(q, "failed") = {}
          BY <1>1, <3>2, <4>1, <4>2 DEF UpToDate, Owes
        <4>4. QED
          BY <1>1, <1>4, <3>1, <4>2, <4>3
             DEF Harmony, Together, Orderly, AllDone, In, Ids
      <3>4. CASE Fail(c)
        <4>1. PICK q : q = FailedStep(plan, step[c])
          OBVIOUS
        <4>2. plan' = q /\ seen'[c] = q /\ pc'[c] = "failed"
          BY <1>1, <2>3, <3>4, <4>1 DEF Fail, Move
        <4>3. UpToDate(c)' /\ Orderly(q) /\ q.state = "blocked"
          BY <1>1, <3>1, <3>2, <4>1, <4>2 DEF UpToDate, Owes
        <4>4. QED
          BY <1>1, <1>4, <3>1, <4>2, <4>3
             DEF Harmony, Together, Orderly, AllDone, In, Ids
      <3>5. QED
        BY <1>7, <3>3, <3>4
    <2>4. QED
      BY <2>2, <2>3
  <1>8. QED
    BY <1>6, <1>7

LEMMA HarmonyInit == Init => Harmony
  <1> SUFFICES ASSUME Init PROVE Harmony
    OBVIOUS
  <1>1. /\ plan.state = "active" /\ goal = "planned"
        /\ \A s \in StepIds : plan.steps[s] \in {Fresh, Absent}
    BY DEF Init, Begins, Compiled
  <1>2. Fresh.state = "pending" /\ Fresh.attempts = 0 /\ Absent.state = "none"
    BY DEF Fresh, Absent
  <1>3. Orderly(plan) /\ In(plan, "failed") = {}
    BY <1>1, <1>2 DEF Orderly, In
  <1>4. QED
    BY <1>1, <1>3 DEF Init, Harmony, Together, UpToDate, Owes

LEMMA UndisturbedNext == Typed /\ Calm /\ Undisturbed /\ [Next]_vars => Undisturbed'
  <1> SUFFICES ASSUME Typed, Calm, Undisturbed, [Next]_vars, Alone', ~disturbed'
               PROVE  Harmony'
    BY DEF Undisturbed
  <1>1. ~disturbed /\ ~Operator /\ \A c \in Coordinators : ~Crash(c)
    BY OperatorKeeps DEF Next, Stage, Crash, vars, Typed, Operator
  <1>2. Alone /\ InTurn /\ Covering /\ Harmony
    BY <1>1, OpsGrow DEF Calm, Undisturbed
  <1>3. CASE UNCHANGED vars
    BY <1>2, <1>3 DEF vars, Harmony, Orderly, AllDone, In, Ids, Together, UpToDate,
                      Owes, Ready, Retryable
  <1>4. ASSUME NEW c \in Coordinators,
               StartNext(c) \/ BeginComplete(c) \/ BeginFail(c)
        PROVE  Harmony'
    BY <1>2, <1>4, HarmonyBegin
  <1>5. ASSUME NEW c \in Coordinators, Stage(c) PROVE Harmony'
    BY <1>1, <1>2, <1>5, HarmonyStage, HarmonyMoves DEF Stage
  <1>6. QED
    BY <1>1, <1>3, <1>4, <1>5 DEF Next

LEMMA Undisturbance == Spec => []Undisturbed
  <1>1. Init => Undisturbed
    BY HarmonyInit DEF Undisturbed
  <1>2. QED
    BY <1>1, UndisturbedNext, Calmness, PTL DEF Spec

\* "A failed step blocks the Goal": undisturbed and alone, a coordinator leaves a
\* plan that waits for a failed step with a blocked goal, whatever was retried
\* before.
THEOREM FailureBlocks == Spec => []FailureBlocksGoalAlone
  <1>1. Undisturbed => FailureBlocksGoalAlone
    BY DEF Undisturbed, Harmony, Together, FailureBlocksGoalAlone, FailureBlocksGoal,
           Quiet, At
  <1>2. QED
    BY <1>1, Undisturbance, PTL

\* Undisturbed and alone, it leaves no plan that is over with a goal that is not.
THEOREM PlanEndsItsGoal == Spec => []PlanEndReachesGoalAlone
  <1>1. Undisturbed => PlanEndReachesGoalAlone
    BY DEF Undisturbed, Harmony, Together, PlanEndReachesGoalAlone,
           PlanEndReachesGoal, Quiet, At
  <1>2. QED
    BY <1>1, Undisturbance, PTL

-----------------------------------------------------------------------------
(* What coordinators do to the plan is what callers of PlanService do *)

\* The plan of LongHorizon as a history.
Coordinated == INSTANCE PlanHistory

\* A step of the coordinators, of a crash or of an operator is one operation of
\* the plan service, or leaves the plan alone.
LEMMA CoordinatorsFollow ==
  ASSUME TypeOK, [Next]_vars
  PROVE  Follows(plan, plan') \/ UNCHANGED plan
  <1>1. ASSUME NEW c \in Coordinators, Attempt(c)
        PROVE  Follows(plan, plan') \/ UNCHANGED plan
    BY <1>1 DEF Attempt, Move, Follows, TypeOK
  <1>2. ASSUME NEW c \in Coordinators, Complete(c) \/ Fail(c)
        PROVE  Follows(plan, plan') \/ UNCHANGED plan
    BY <1>2 DEF Complete, Fail, Move, Follows, TypeOK
  <1>3. ASSUME Operator
        PROVE  Follows(plan, plan')
    BY <1>3 DEF Operator, Follows
  <1>4. ASSUME NEW c \in Coordinators,
               StartNext(c) \/ BeginComplete(c) \/ BeginFail(c) \/ Crash(c)
        PROVE  UNCHANGED plan
    BY <1>4 DEF StartNext, BeginComplete, BeginFail, BeginEnd, Begin, Crash, Durable
  <1>5. ASSUME NEW c \in Coordinators, Stage(c)
        PROVE  Follows(plan, plan') \/ UNCHANGED plan
    BY <1>1, <1>2, <1>5
       DEF Stage, Decide, Unblock, Announce, JournalPlanned, JournalCompleted,
           FinishGoal, Progress, CheckpointStep, JournalFailed, BlockGoal, Durable
  <1>6. QED
    BY <1>3, <1>4, <1>5 DEF Next, vars

\* However many coordinators carry out a plan, crash and are replanned under,
\* every revision is one operation applied to the one before: what PlanService
\* promises of its store is what LongHorizon takes for one step.
THEOREM CoordinatorsRevise == Spec => [][Coordinated!Next]_plan
  <1>1. TypeOK /\ [Next]_vars => [Coordinated!Next]_plan
    BY CoordinatorsFollow, NoPlanAssumption
       DEF TypeOK, Coordinated!Next, Coordinated!Operate
  <1>2. QED
    BY <1>1, TypeCorrect, PTL DEF Spec

\* Hence the plan they work on stays within budgets and dependencies, agrees with
\* its steps and, until it is over, always has something to run, retry, unblock
\* or replan.
THEOREM CoordinatedPlansAreSound ==
  Spec => [](Sound(plan) /\ Decision(plan) # "dependencies_not_ready")
  <1>1. Init => Sound(plan)
    BY BeginsSound DEF Init
  <1>2. Sound(plan) /\ TypeOK /\ [Next]_vars => Sound(plan)'
    <2> SUFFICES ASSUME Sound(plan), TypeOK, [Next]_vars PROVE Sound(plan)'
      OBVIOUS
    <2>1. Sound(plan')
      BY CoordinatorsFollow, FollowsSound
    <2>2. QED
      BY <2>1 DEF Sound, Ids, Budgeted, Grounded, Agrees, AllDone, In
  <1>3. Sound(plan) => Decision(plan) # "dependencies_not_ready"
    BY SoundIsAdvised
  <1>4. QED
    BY <1>1, <1>2, <1>3, TypeCorrect, PTL DEF Spec
=============================================================================
