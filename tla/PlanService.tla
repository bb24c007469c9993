----------------------------- MODULE PlanService -----------------------------
(***************************************************************************)
(* A durable plan shared by several callers of PlanService                  *)
(* (planning/service.py) over the revision store of planning/sqlite.py.     *)
(*                                                                         *)
(* Every operation reads the latest revision, builds the next one from it   *)
(* (PlanGraph), and appends that; append refuses a revision that is not the *)
(* successor of the one it finds.  Reading and appending are two steps, so  *)
(* several callers can work from the same revision.                         *)
(***************************************************************************)
EXTENDS PlanGraph

CONSTANTS
  Clients,      \* callers of the service
  MaxRevisions  \* bound: revisions of the plan

ASSUME BoundAssumption == MaxRevisions \in Nat

VARIABLES
  latest,    \* the latest revision in the store
  revision,  \* its number, 0 when there is none
  draft,     \* the revision a client is about to append, and what it read
  phase      \* is a client between reading and appending?

serviceVars == <<latest, revision, draft, phase>>

ServiceInit ==
  /\ latest = NoPlan
  /\ revision = 0
  /\ draft = [c \in Clients |-> [base |-> 0, plan |-> NoPlan]]
  /\ phase = [c \in Clients |-> "idle"]

Planned == latest # NoPlan

-----------------------------------------------------------------------------
\* latest() and a draft that follows it.
Prepare(c, next) ==
  /\ phase[c] = "idle"
  /\ revision < MaxRevisions
  /\ draft' = [draft EXCEPT ![c] = [base |-> revision, plan |-> next]]
  /\ phase' = [phase EXCEPT ![c] = "append"]
  /\ UNCHANGED <<latest, revision>>

AcceptProposal(c) ==
  /\ ~Planned
  /\ \E ids \in SUBSET StepIds : Valid(ids) /\ Prepare(c, Compiled(ids))

AcceptRevision(c) ==
  /\ Planned
  /\ \E ids \in SUBSET StepIds :
       CanRevise(latest, ids) /\ Prepare(c, Revised(latest, ids))

StartStep(c, s) ==
  Planned /\ CanStart(latest, s) /\ Prepare(c, Attempted(latest, s))

RetryStep(c, s) ==
  Planned /\ CanRetry(latest, s) /\ Prepare(c, Attempted(latest, s))

CompleteStep(c, s) ==
  Planned /\ CanEnd(latest, s) /\ Prepare(c, CompletedStep(latest, s))

FailStep(c, s) ==
  Planned /\ CanEnd(latest, s) /\ Prepare(c, FailedStep(latest, s))

BlockStep(c, s) ==
  Planned /\ CanBlock(latest, s) /\ Prepare(c, BlockedStep(latest, s))

UnblockStep(c, s) ==
  Planned /\ CanUnblock(latest, s) /\ Prepare(c, UnblockedStep(latest, s))

Cancel(c) == Planned /\ ~Terminal(latest) /\ Prepare(c, Cancelled(latest))

Store(p) ==
  /\ latest' = p
  /\ revision' = revision + 1

\* Mutant: the store takes whatever comes.
AppendUnchecked(c) ==
  /\ phase[c] = "append"
  /\ Store(draft[c].plan)
  /\ phase' = [phase EXCEPT ![c] = "idle"]
  /\ UNCHANGED draft

\* port.append: the successor of the latest revision, or a ValueError.
AppendDraft(c) ==
  /\ phase[c] = "append"
  /\ IF draft[c].base = revision THEN Store(draft[c].plan)
                                 ELSE UNCHANGED <<latest, revision>>
  /\ phase' = [phase EXCEPT ![c] = "idle"]
  /\ UNCHANGED draft

StepOperation(c, s) ==
  \/ StartStep(c, s) \/ RetryStep(c, s) \/ CompleteStep(c, s) \/ FailStep(c, s)
  \/ BlockStep(c, s) \/ UnblockStep(c, s)

ServiceNext ==
  \E c \in Clients :
    \/ AcceptProposal(c) \/ AcceptRevision(c) \/ Cancel(c) \/ AppendDraft(c)
    \/ \E s \in StepIds : StepOperation(c, s)

ServiceSpec == ServiceInit /\ [][ServiceNext]_serviceVars

-----------------------------------------------------------------------------
(* Properties *)

\* Every variable keeps its type.
ServiceTypeOK ==
  /\ latest \in Plan \cup {NoPlan}
  /\ revision \in 0..MaxRevisions
  /\ draft \in [Clients -> [base: Nat, plan: Plan \cup {NoPlan}]]
  /\ phase \in [Clients -> {"idle", "append"}]

\* Callers that read, build and append at the same time leave a history in
\* which each revision is one operation applied to the one before: no update is
\* lost and none is applied to a plan other than the one it was decided on.
History == INSTANCE PlanHistory WITH plan <- latest

ImplementsHistory == History!Spec

\* A step that was ever attempted has all its dependencies completed, over
\* replanning and concurrent callers: nothing it built on was taken away.
DependenciesHold ==
  Planned => \A s \in StepIds :
    latest.steps[s].attempts > 0 => DependsOn[s] \subseteq In(latest, "completed")

\* The attempts of a step stay within its budget.
WithinBudget ==
  Planned => \A s \in StepIds : latest.steps[s].attempts <= MaxAttempts[s]

\* "Completed steps cannot be removed": a completed step stays completed with
\* its attempts in every later revision.
CompletedIsKept ==
  [][Planned => \A s \in In(latest, "completed") :
       latest'.steps[s] = latest.steps[s]]_serviceVars

\* "A running step must be recovered/resolved before replanning": no revision
\* drops a step somebody is running, however the revisions interleave.
RunningIsKept == [][Planned => In(latest, "running") \subseteq Ids(latest')]_serviceVars

\* A plan says completed exactly when all its steps are, so the scheduler's
\* last answer, that dependencies are not ready, is never given: somebody can
\* always move the plan on.
AlwaysAdvised ==
  Planned =>
    /\ latest.state = "completed" <=> AllDone(latest)
    /\ Decision(latest) # "dependencies_not_ready"
=============================================================================
