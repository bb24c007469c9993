# YiSang in TLA+

A model of YiSang, the model-independent persistent-agent runtime of this
repository: TLA+ modules translated from `src/yisang`, TLC configurations that
check them on small instances, and theorems that TLAPS proves for every
instance. Paths below are relative to `src/yisang` unless they say otherwise.

YiSang is mostly a set of services over SQLite stores. Every store call is
atomic (an `RLock` around one statement or transaction); almost nothing longer
is. An operation of the runtime is a chain of such calls, so what makes the code
hard to get right is what may come between two of them: the death of the
process, a second caller, an operator, time. The models therefore take one store
call as one step and let those come between any two.

The rest of YiSang is computation without state: what may run, what the model is
shown, how a request is translated. These parts are operators, compared with a
reference definition over bounded inputs in the run of the component that calls
them; all of it but the repair of arguments is proved for inputs of any size as
well.

## 1. The system

| component | state | operations | talks to | hard behaviour |
|---|---|---|---|---|
| side-effect receipts, recovery-aware actions (`recovery/action_runtime.py`, `sqlite.py`, `coordinator.py`) | receipt per (goal, key), journal per run | `execute`; `resolve_uncertain_as_committed/_failed`, `authorize_retry` | gate, handler, journal | crash between reserve, effect and commit; runs contending for a key; check and update under two lock holds |
| action gate (`execution/`, `policy.py`) | none | evaluate, preflight, execute | E.G.O.s, policy, tools | three filters over several E.G.O.s; a preflight that does not know the arguments |
| goal lifecycle and run controller (`goal/`, `recovery/run_controller.py`) | goal row, journal, checkpoints | start, checkpoint, block, unblock, complete, cancel | goal service, journal, coordinator | goal is read and written back whole; event and checkpoint follow the transition |
| request loop and crash planner (`core/runtime.py`, `recovery/checkpoint_orchestrator.py`, `crash_planner.py`) | journal, receipts, checkpoints; session, telemetry and episodes are told last | `run`, `after_verification`, `plan` | engine, verifier, receipts | killed anywhere; the next action is read off what survived; resubmitted requests |
| context (`context/`, `library/delivery.py`) | none | deliver, compile | runtime | two budgets one after the other, six stages of pruning |
| plans (`planning/service.py`, `compiler.py`, `sqlite.py`, `scheduler.py`) | append-only revisions | accept, revise, start, retry, complete, fail, block, unblock, cancel; decision | store | read, build, compare-and-append by several callers; replanning; attempt budgets |
| long-horizon coordinator (`planning/execution.py`) | none of its own | `start_next`, `complete_step`, `fail_step`, `assess_resume` | plans, goals, run controller, journal | four stores in one operation, no transaction over them |
| governed memory (`memory/pipeline.py`, `governor.py`, `sqlite.py`, `quarantine*.py`, `projected.py`) | records, quarantine, read-side projections | submit, release, revoke, revalidate, discard | governor, store, projection | check-then-write; two writes for one supersession; validity windows; stale projection |
| experience promotion (`experience/promotion.py`, `sqlite.py`) | candidates, usage notes, audit log | observe, revoke | Library | three writes undone one by one; a chain of mutations undone at once |
| E.G.O packages (`ego/sqlite_port.py`, `lifecycle.py`, `experience/application.py`) | versions, invalidation candidates, audit, telemetry, application receipts | install, disable, rollback, apply, assess, approve, reject | telemetry, replay | several reviewers; crash between disabling and resolving; receipts in memory |
| E.G.O routing (`ego/router_v2.py`, `adaptive_router.py`, `telemetry.py`) | telemetry | route, adjust | registry | feedback beside relevance |
| identity continuity (`identity/`) | runtime references | bundle, load, plan, restore | all stores | several reads for one moment; staged, swapped, validated, set back |
| model server (`server/http.py`, `rate_limit.py`, `upstream.py`) | rate-limit governor | before_request, success, 429, transient failure | provider | threads share one cooldown; streams that break off |
| translation (`server/responses.py`, `native_responses.py`, `completion.py`) | none | request to chat and back, tools, arguments | model server | two ways to the same model; replies that are not what was asked for |

What makes each one correct, in short: an effect happens once and its receipt
tells the truth; an action runs when one E.G.O. answers for all of it; a goal
moves along its transition table, and a checkpoint knows the end it covers;
after a crash nothing unverified is built upon and recovery ends; a context fits
and keeps its warnings; plan revisions are operations one after another,
dependencies and budgets hold, and somebody can always move the plan on; goal
and plan agree; memory loses nothing that was reviewed, never revives what was
superseded, and finds what is active; what is learned can be told from the audit
and withdrawn; the E.G.O. version served is the newest that is active, and the only
one listed unless an operator wanted others beside it; a
bundle is one moment, and a restore is all or nothing; slots keep their distance
and requests end; a conversation survives its translation.

`PROJECT.json` lists under `hazards` each place where the code could lose one of
these, by line, with the properties that watch it.

## 2. Plan

In order, the most important behaviour first; all of it is done.

1. `SideEffects` with the abstract `OnceEffect`, `GatedRuns` with `ActionGate`;
   `SideEffectsProofs`.
2. `GoalRun` with the abstract `GoalLifecycle`; `GoalRunProofs`.
3. `CrashRecovery` with `ContextBudget`, composed in `EngineContext`;
   `RecoveryProofs`.
4. `PlanGraph`, `PlanService` with the abstract `PlanHistory`, and
   `LongHorizon`, which composes the plan operators of `PlanGraph` with the goal
   states of `GoalRun`; `PlanningProofs`.
5. `MemoryPipeline`; `MemoryPipelineProofs`.
6. `ModelServer` with `Responses`, composed in `ModelReplies`, and with
   `ToolArguments`; `ModelServerProofs`.
7. `EgoLifecycle` with `EgoRouting`, composed in `EgoServing`;
   `EgoLifecycleProofs`.
8. `Promotion`; `PromotionProofs`.
9. `Restore`; `RecoveryProofs`, beside the recovery of a run.

Left for whoever goes on, in this order: the repair of arguments without a
recursive operator, so that it could be proved of schemas of any depth; the
conditions under which properties of `CrashRecovery` survive several actions per
request; replay beside `Promotion`; memory transfer
(`import_record`) beside `MemoryPipeline`.

## 3. Modules

Parameters are CONSTANTS with named assumptions, and there is one action per
call. Only `ToolArguments` declares recursive operators, and no module with a
theorem uses it; the loops of `ContextBudget`, `Responses` and `EgoRouting` are
recursive functions and folds. Operators headed "Mutant:" are not part of a
model. Each is a variant of the definition below it with a plausible bug, kept
to show that the properties notice it.

### SideEffects, OnceEffect, SideEffectsProofs

`receipts` is the table `side_effect_receipts`, `journal` is `run_journal`,
`pc[r]` is where the run r is inside `RecoveryAwareActionRuntime.execute`.
`Propose` and `GateDenies`/`GateAllows` are the start and the gate of `execute`;
`Validate`, the four `Lookup...` actions, `Reserve`, `NoteReserved`,
`HandlerReturns`/`HandlerRaises`, `Record` and `Finish` follow in the order of
the code, with every early return. `commit_receipt`, `fail_receipt` and `retry_receipt`
read the row, release the lock, decide and then update, so they are two steps
(`StoreCheck`, `StoreWrite`). `Decide` starts one of the three decisions of
`RecoveryCoordinator` and `JournalDecision` ends it. `Crash` drops everything but the tables. `effects` and
`vouched` are history. A handler may fail before or after its effect.

`OnceEffect` is what a user may rely on for one key: announced before it
happens, at most once, committed for good.

### ActionGate, GatedRuns

What `GateAllows` stands for: `ActionGate.evaluate` as its three filters
(capability, permission, policy) over the selected E.G.O.s, the policy
engine, `preflight_tool`, which decides what the model is shown before there is
an action, `execute`, and the failure a refusal is reported as. E.G.O.s are told
apart by their position in the selection; the first that passes all three filters
answers. `GatedRuns` puts it beside the runs of `SideEffects` and asks, whenever
a run is at its gate, that an action reaches the handler
exactly when one E.G.O. answers for all of it, and that what was hidden would
have been refused.

### GoalRun, GoalLifecycle, GoalRunProofs

`goal` is the row (state and blockers; progress fields are abstracted),
`journal` and `checkpoints` are the two stores of the run controller. Each
operation of `RecoveryRunController` is the chain `Begin`, reads and writes of
`GoalService`, the event, then `write_checkpoint`'s read of the goal, read of
the latest sequence, put and event. `seen` is the copy a controller works from.
`GoalLifecycle` is `_ALLOWED_TRANSITIONS` with the blockers users see.

### CrashRecovery, RecoveryProofs

One run of an active goal: the journalled part of `YiSangRuntime.run`, its
actions with their receipts, the verdict, the orchestrated checkpoint, and the
`Directive` of the crash planner as an operator over the stores. The planner
only advises; `Recover` is a client that does what it is told. After the
checkpoint come the two messages of the session (`Question`, `Answer`: a set,
since their order is the order of the steps), the telemetry of the E.G.O. that was
used (`RecordUse`, refused for a request that was recorded before) and the episode
(`PutEpisode`). `done` in a message is kept for the property: the session itself
stores only the verdict.

`port` is the checkpoint port the coordinator was given. `Readable` says whether
`latest` and `list_all` return: in memory always, in SQLite as long as there is no
checkpoint, because `_checkpoint_from_row` asks for columns that the table lacks
(section 6). `Directive` is the `Mode` of the planner, or "raises"; `Orchestrate`
checkpoints, finds the request's checkpoint, or raises, which ends the request. A
request asks for no directive, so `Submit` is possible where none can be had. With
checkpoints in memory a `Crash` is an exception that unwinds the request in a
process that lives on, which is what `recovery/faults.py` injects; a death of the
process would empty the stores in memory and be a fresh start, and is not a step of
the model. Stores in memory and in SQLite are not mixed.

### ContextBudget, EngineContext

What the engine of `CrashRecovery` is asked with: `Roles` and `Delivered` are
the delivery of library entries (primary, complement, guardrail and the order
they are cut in), `Fitted` the second cut inside the compiler,
`Compile` the compiler with the stages of its pruning in their order.
Sizes are in units of one item. What is claimed of one pack (`PackFits`) or one
delivery (`Survives`) is an operator of its own, which the runs ask of bounded
inputs and the proofs of all. `EngineContext` asks both when an engine is about
to be called.

### PlanGraph, PlanService, PlanHistory, PlanningProofs

`PlanGraph` holds the plan as a record (state, steps with state and attempts)
and every operation of `PlanService`, the compiler and the scheduler as an
operator from one revision to the next. `PlanService` adds callers that read the
latest revision, build a draft and append it; `AppendDraft` refuses a draft whose
base is no longer the latest. `PlanHistory` is the promise: each revision is one
operation applied to the one before. `PlanService` has names of its own
(`serviceVars`, `ServiceInit`, `ServiceSpec`), so that `PlanningProofs` can speak
of it and of `LongHorizon` together.

### LongHorizon, PlanningProofs

`StartNext` .. `Begin*` .. `BlockGoal` are the calls `start_next`,
`complete_step` and `fail_step` make, one step each. The plan operators are
PlanGraph's. The operator of the plan service (`Operator`) replans, blocks and
unblocks. `disturbed` remembers whether a crash or the operator interfered, so
that one run can state both what always holds and what holds undisturbed.
`Alone` says that only one coordinator has ever begun an operation: properties
that end in `Alone` are about one coordinator, and TLC checks them in the same
run in which a second one may come.

### MemoryPipeline, MemoryPipelineProofs

`records`, `quarantine` and `index` are the three stores, `call[w]` what caller
w is doing. `Submit` and `Release` start with the governor's trust check;
`CheckSuperseded` and `Dedupe` are its two reads of the store, `Commit`,
`Index`, `Supersede`, `Reindex`, `Put`, `Remove` the writes; `Revoke`,
`Revalidate` and `Discard` the rest. `Tick` opens and closes validity windows.
`Crash` ends every call; the next process rebuilds the projection. `mishap`
remembers whether calls overlapped or the process died.

### EgoLifecycle, EgoLifecycleProofs

`packages`, `candidates`, `audit` and `telemetry` are the tables of one E.G.O
id, `applied` the receipts of the adapter, which are in memory. Versions are
numbers in semantic order. `Install`, `InstallBeside` (`supersede_active=False`,
which leaves active what is active), `Disable` and `Rollback` are transactions
of the store, called by an operator in one step; `Apply` .. `RecordReceipt` are
the adapter, `Assess` .. `AuditCreated` the replay guard, `Approve`/`Reject` ..
`AuditResolved` the review. `Served` is what `get` selects: the newest active
version. `beside` is history: was a version installed beside an active one since the
last install or rollback that supersedes? `enacted` is history too: the candidates in
whose name a version was disabled.

### EgoRouting, EgoServing, EgoLifecycleProofs

The rank of `HybridCapabilityRouter`, the score `EgoAdaptiveScorer` makes of a
version's past, and the route of `AdaptiveCapabilityRouter`, in thousandths. A
past is a list of events, each with its kind, how it went, its age and how often
it was; `InOrder` is the sort by falling score and then by id. `OnlyReorders`
compares the adaptive route of any E.G.O.s with the plain one. `EgoServing` asks
it, while a version is served, of two.

### Promotion, PromotionProofs

`candidates` and `audit` are the two tables, `book` the notes in the Library
(read and written whole), `published` the book that a process which keeps the
Library in memory comes back to. `Observe` ..
`AppendMutation` is `observe`; `AppendFails`, `Refetch`, `Rewrite` and
`RestoreCandidate` are its compensation; `Revoke`, `ReadLog` (the `First` and the
`Latest` of the mutations that applied) and `FetchNote` are the reads of
`revoke`, which then writes the book, the candidate and the log as `observe` does. `Edit` is somebody else who changes a
note or withdraws the book; `edited` remembers the lessons it touched.

### ModelServer, ModelServerProofs

`governor` holds the deadlines of `RateLimitGovernor` (measured from now: `Tick`
brings them nearer), its strikes and the status it refuses with. A request of a
thread is `Accept`, `Reserve`, `Wake` (the second look at
the cooldown, after the sleep), one of the answers of a provider, and then a whole reply (`Render`) or a
stream (`ReadFirst`, `StartStream`, `EndStream`); `Reply` tells an error.
`gap` and `promise` are history: how long a start has to wait to keep its
distance from the last slot, and how long the failures since the last success
asked everybody to wait.

### Responses, ModelReplies, ToolArguments

`Responses` is what the threads compute once `Accept` has taken the request (an input
without a message is refused there): the translation of a Responses request
to chat and of the answer back, the native way, the small tool profile, recovery
of calls that a model printed, and the words memory is asked for. A name is the
sequence of what "__" separates in it, so that collisions of namespaced and
plain names are in the model. `ToolArguments` is the repair of arguments by
their schema. `Keeps`, `Offers`, `OfferTheSame` and `AskTheSame` say what is
claimed of one conversation or one reply; `ModelReplies` asks them of bounded
ones at the step of a thread that uses them, and `MCModelServer` what is claimed
of arguments.

### Restore, RecoveryProofs

`runtime` says which store each of seven references names, `store` what each
store holds, as the number of the write that made it so. `Build` ..
`TakeArchive` is `create_identity_bundle` with its second reading, `Reload` the loading
of a bundle, `Plan`, `ComparePart`, `Stage`, `Swap`, `Validate`, `Fingerprint`
and `Undo` are the restore. A request is `BeginWrite`, which reads the
reference, and `Write`, which may come after a swap. `before` and `instant` are
history.

## 4. Runs

Counts are distinct states; a run takes from a few seconds to two minutes on two
workers.

| run | instance | what it shows |
|---|---|---|
| `side_effects` | one run with two proposals from all kinds (two keys, two requests that clash, a tool without side effects, missing key, missing context), crashes, a retry; or two runs (two proposals and one) after one key; an operator either way | alone, the receipts implement `OnceEffect` and answers are true; in company, commits are backed and commit events are earned; what the gate allows and hides is right |
| `side_effects_twice` (violation) | two runs, one key, an operator | `AtMostOnce` fails across runs: see section 6 |
| `goal` | one controller, four operations, two runs, two blockers; or two controllers, two operations and one; crashes | alone, the goal implements `GoalLifecycle` and checkpoints know the end they cover; in company, a blocked goal names a blocker although whole rows are overwritten |
| `crash_recover` (0.3M) | two submissions, of one id or two, one action each, three crashes; checkpoints in memory, or in SQLite | while checkpoints can be read, nothing unverified is built on, recovery converges and verified work ends up in a checkpoint; a request has one checkpoint, and has it before session or telemetry say that its work is done; the context fits and keeps its warnings |
| `crash_round` (violation) | two actions in one request, one crash | `WorkIsVerifiedFirst` fails: see section 6 |
| `plan_revisions` | two callers, three steps with a dependency, five revisions | `PlanHistory`; the scheduler always has advice |
| `horizon` (0.8M) | one coordinator, four operations, crashes, an operator; or two coordinators, two operations each; two steps, two runs | goal, plan and checkpoints agree as far as the code says; no work is recorded twice |
| `memory_pipeline` (3.5M) | two callers, two records, one quarantined item, two contents, three instants, crashes | without overlap records are novel, indexed, and supersession retires |
| `ego_lifecycle` (0.5M) | two callers, two versions of which one is monitored, two artifacts, two replays of which one fails, crashes | the newest active version is served, and is the only one listed unless an install left others active; an artifact is installed once; an approved candidate disabled its version; feedback only reorders routes |
| `promotion` | two callers, one lesson, two evidences, three mutations, an editor, failing audits, crashes | the audit tells the note; a revoked lesson is withdrawn |
| `model_server` | two threads, an interval of 2, backoffs up to 4, a wait of 5 the provider asks for, two strikes | slots keep their distance and every request ends; conversations, calls and arguments survive translation |
| `restore` (3.8M) | three writes, one restore per process, any number of reloads, a library or none, migrated or not | a bundle is one moment, a restore is all or nothing |

**One actor or several.** The instances that say "or" put both cases in one run
by a state constraint: the second actor may come or not, and what is allowed
shrinks when it does. `Alone`, in `SideEffects`, `GoalRun` and `LongHorizon`,
says that it has not come so far. A property that ends in `Alone` is about
those states, because the code keeps it for one actor only; section 6 says what
happens to it in company. The other properties hold in both. `PatientAlone` keeps
the operator of `side_effects` from deciding on a key that a lone run is working
on (what a careful operator does, since a decision takes the receipt away under
the run); `Separate` keeps crashes and operator of `horizon` to the case of one
coordinator.

**Pure functions.** `ActionGate`, `ContextBudget`, `EgoRouting`, `Responses` and
`ToolArguments` have no state of their own. Their properties quantify over all
bounded inputs (`Worlds`, `Givens`, `Pairs`, `Inputs`, `Values` and the like in
those modules) and compare what the translated code computes with a definition
that does not follow it. `GatedRuns`, `EngineContext`, `EgoServing`,
`ModelReplies` and, for arguments, `MCModelServer` ask them at the step of the
component that makes the call.

**Why the bounds are enough.** The interesting cases need two actors on one
object, one crash inside an operation and one operation after it: two
proposals (a second one meets the receipt of the first), two submissions with
three crashes (one in the request, one in its recovery, one when it is submitted
again), five revisions (accept, start, fail, retry or replan, complete), two records (one that supersedes the
other, or repeats it), three instants (a proposal that expires before it is
released, a window that opens and closes), two versions (one displaces the
other and may come back), three mutations (promote, reinforce, revoke), three
writes (one in the bundle, one during it, one during the restore), two strikes
(a backoff that has grown). Each property has a mutant of the code that breaks
it under the same bounds, so none of them holds for lack of room. Symmetry is
used only in runs that check no liveness.

Deadlock checking is off everywhere: bounded counters stop every instance, and a
completed goal or plan, an idle server or a restored runtime really may rest.

**Fairness.** Two runs check liveness. `CrashRecovery` assumes weak fairness
of the request loop, which runs straight on once entered (its actions are
bounded by `max_action_rounds`), and of the client that carries out the
directive it was given; nothing is assumed of crashes or new requests. Both
liveness properties end in a state without directives as well, where the checkpoints
cannot be read: with `port = "in_memory"` nothing but convergence is left.
`ModelServer` assumes that time passes and that a thread that can go on does:
a provider answers or times out (every request carries a timeout), and a sleep
ends. Elsewhere "must happen" is stated for states at rest (`Quiet`): what an
undisturbed operation has to have done when it returned.

## 5. Proofs

`tlapm` checks every leaf (SMT, Zenon, LS4). The theorems hold for every value of
the constants, so for any number of runs, requests, controllers, coordinators,
callers, threads, keys, steps, versions, lessons and writes, any acyclic graph
and any bounds.

Two kinds of invariant recur. What holds however steps interleave rests on what
cannot be taken back: rows are only added, a receipt stays, a store that is
unchanged was never changed. What the code promises only while nobody interferes
(one run, one controller, calls that do not overlap) rests on an invariant guarded by
that condition: the one operation under way knows the state it works on, and carries
what it has still to do. Since a history variable or a count only ever leaves
the condition, it holds now if it holds next, and the guarded invariant can be
used in the step.

What a loop of the code computes is argued about in a third way. A recursive
function such as `Delivered`'s `left` expands to `CHOOSE` of a function that
satisfies its equation, so the proofs first build one that does, value by value
(`RoundsExist`, `IterExists`, `TotalIs`), then show that the chosen one agrees
with it, and after that reason about its values by `Inductive`: what holds at 0
and of the next number holds up to n, stated of sets and proved from the least
counterexample, because the library's induction takes an operator as parameter.

* `SideEffectsProofs`. The inductive invariant `IInv` conjoins `TypeOK`,
  `Identified` (a call that reaches its lookup is for a side-effecting tool under
  a proper key), `Reserved` (a side-effecting call at or past its handler has
  its receipt), `DecidesOnReceipt` (an operator at work is about an existing
  receipt), the safety claim `EffectsMatchReceipt`, `NotYet` (a run between its
  lookup and the return of its handler has never applied the effect of that key)
  and `OncePerRun`. `NotYet` is what makes `OncePerRun` inductive.
  `StepFrame` sums up what one step may change, so that each conjunct is argued
  once. `Committing` (a commit under way has an effect or an operator's word
  behind it) and `EventsBacked` carry what a receipt and the journal say about
  effects. Of a run alone on the store, `Knows` says what it knows of its receipt
  at each of its steps and `Decides` that an operator never writes a receipt the
  run holds: so answers are true (`AnswersAreTrue`) and every step is a step of
  `OnceEffect` or a stutter (`OneRunImplementsOnceEffect`). Both assume one
  operator, because one of two can overwrite with its stale "failed" what the
  other has committed (section 6), and `~LiveResolution`, decisions only while no
  run executes, which is what `PatientAlone` grants in the run.
  Of the gate, `IsWorld` says what it may be asked of (any selection, tool and
  policy), `AllowingAnswers` that the positions its filters leave are those of
  the E.G.O.s that answer for all of the action, and `PreflightPermits` that those
  of the preflight are no fewer. Theorems: `TypeCorrect`, `WriteAhead`,
  `NeverTwiceByOneRun`, `SingleRunAtMostOnce`, `CommitsAreBacked`,
  `EventsAreEarned`, `AnswersAreTrue`, `OneRunImplementsOnceEffect`, `OneAnswers`,
  `HiddenIsUseless`, and, for the runs, `EgosAnswer` and `HiddenAreRefused`.
* `GoalRunProofs`. `RowsExplained` (the row, each copy a controller holds and
  each checkpoint name a blocker if blocked) is inductive although rows are
  overwritten. While one controller is alone, `AboutTo` (the copy it is about to
  write from agrees with the row) gives that every step is a step of
  `GoalLifecycle` or a stutter, and `Told` and `AboutToTell` (who tells an end
  has brought it about, and a checkpoint is taken from the goal as it is) that
  checkpoints know the end they cover. Theorems: `TypeCorrect`,
  `BlockedIsExplained`, `OneControllerImplementsLifecycle` (one controller) and
  `AloneImplementsLifecycle` (as long as the others have not come),
  `CheckpointsKnowTheEnd`.
* `PlanningProofs`. Every operator of `PlanGraph` keeps a plan `Sound`: its
  steps form a valid graph, budgets and dependencies hold, and the state of the
  plan agrees with its steps. `Current` says that a draft whose base is the
  latest revision follows from it; together they are inductive. `NeverStuck`
  also needs that a plan with work left has a step to run, wait for or report:
  `Valid` says that every nonempty set of steps has one with no dependency
  inside the set, which the compiler's rejection of cycles provides.
  `CoordinatorsRevise` shows that the plan of `LongHorizon` changes by
  operations of `PlanHistory` only, so that taking a call of the plan service as
  one step there is what `PlanService` delivers, and `CoordinatedPlansAreSound`
  carries soundness over. A step becomes completed once and stays so; `Owed` says
  that its work is named, or that exactly one coordinator, the one that completed
  it, is on its way to name it. That is `WorkIsNamedOnce`, for any number of
  coordinators. For one alone, `Calm` says where it can be when a step runs and
  which completed steps it has still to cover, and, undisturbed, `Harmony` that
  goal and plan agree but for what it is about to do: a failed step blocks the
  goal, a completed plan completes it. Theorems: `AppendsAreOperations`,
  `DependenciesAlwaysHold`, `BudgetIsKept`, `NeverStuck`, `CompletedStaysDone`,
  `RunningStaysPlanned`, `CoordinatorsRevise`, `CoordinatedPlansAreSound`,
  `WorkIsNamedOnce`, `GoalIsActive`, `CheckpointsPrecede`, `FailureBlocks`,
  `PlanEndsItsGoal`; `ServiceTypeCorrect`, `TypeCorrect`.
* `RecoveryProofs`, of runs. `Engaged` types a step's request and key. `Once`
  holds what makes a checkpoint unique and early: it is put only where none was
  there when the verdict was read, nobody else puts one for a request, and
  session and telemetry hear that work is done only behind it. This needs no
  bound on crashes, submissions or actions. `Pending` describes work that was
  executed and not verified: it is the last event of the journal, no checkpoint
  covers it and no effect is uncertain beside it, so the directive, which looks
  at nothing else, is about it. `Pending` is inductive only for one action per
  request (a second one hides the first, as `crash_round` shows) and if no
  uncertain effect is declared committed (which is work that nobody is asked to
  verify, section 6); `WorkComesFirst` assumes both. It speaks of checkpoints that
  can be read back: once they cannot, they never can again (`ReadableBefore`), so
  `Pending` is carried as long as they can. `OneCheckpoint` needs no such thing:
  where the request's checkpoint cannot be looked for, none is put. Theorems: `RunTypeCorrect`,
  `OneCheckpoint`, `WorkComesFirst`.
* `RecoveryProofs`, of what the engine is shown. Every round of the two programs
  that cut a delivery is a `Round`: it shortens an item (`Trims`), drops one that
  may go (`Drops`), or finds that nothing may go (`Bare`). What no round takes is
  there in the end (`Guarded`: all guardrails, no complement without the
  primary item, something if there was something; `Distinct`: no item twice). A round that
  changes anything takes a character (`RoundShrinks`), and a program has as many rounds
  as there are characters, so it ends with what fits or with what is `Bare`
  (`FittedEnds`). The seven stages of the compiler are `Sheds`: a list loses
  nothing while the pack fits, and is down to its floor if the pack does not fit
  after it; `ShedAll` puts them in a row. Hence a pack is refused exactly when the
  floors alone exceed the budget, and history is shorter only if memories and
  messages have gone before. `EveryWarningSurvives` needs nothing of the items or
  of the limits. `EveryPackFits` assumes a budget of at least one item
  for every list and a library no larger than the budget's number of library
  items (`GivenFor`): the runtime retrieves at most `library_limit` results, and
  both numbers are 3 unless a caller sets them; with a larger `library_limit` the
  compiler's cut by number, which looks at no role, comes first.
  Theorems: both, and for the run `WarningsAlwaysSurvive` and `ContextAlwaysFits`.
* `RecoveryProofs`, of identities. A write makes a store newer than everything
  that was read or noted (`NumbersKnown`), so a store that is found as it was has
  been so all the time between. For a bundle that time lies between the
  snapshot and the archive, for a restore between staging (or the plan, of what is
  left alone) and validation: hence a single moment. `Place` and `Target` say
  which references a swap or its undoing has come to. Theorems: `TypeCorrect`,
  `BundlesAreCuts`, `AppliedAreWhole`, `FailuresChangeNothing`, `ReferencesAgree`.
* `MemoryPipelineProofs`. `RowsLinked` strengthens the two claims about records:
  links lead to rows, and a record with a successor has an end that has passed,
  which is why lifting its invalidation does not bring it back. `Sound` says what
  a caller carries from one store call to the next (a proposal that may be
  written, a row, an item that has become a record); it stays true under every
  step of the others because rows and items are only added and origins never
  change (`Grown`, `SoundKept`). `Assembled`, `RowAppended`, `RowRewritten` and
  `ItemLeaves` are the four ways the stores change. While calls do not overlap
  (`LoneInv`) the one under way knows its row as it is, and a row the
  projection does not know is the one it is about to tell; while the process lives
  too (`RetiringInv`) a record has retired what it supersedes, or its caller is
  about to. `Dated` (no record is from the future) lets the clock move. Theorems:
  `TypeCorrect`, `AuditAlwaysClean`, `RetiredForGood`, `NothingEverLost`,
  `ActiveAreFound`, `SubmittedRetire`, `CommitsAreNovel`.
* `EgoLifecycleProofs`. Only four transactions of the store write packages
  (`Stores`), so one active version (unless one was installed `beside`), one package
  per artifact and a current audit (`PackagesFit`) do not depend on who calls them in
  what order. `CallsFit` is
  what callers carry: a version that exists, because rows are never deleted
  (`RowsStay`). `Verdicts` adds that who is about to resolve a candidate as
  approved has disabled its version, and, while calls do not overlap, that a
  candidate is enacted by nobody else. Theorems: `TypeCorrect`,
  `ServesTheActive`, `ArtifactsAreUnique`, `AuditIsCurrent`, `VerdictsTell`.
* `EgoLifecycleProofs`, of the routing. A past of any length, of events of any age and
  number, adjusts by at most the bound (`AdjustmentBounds`), and the smallest hit
  weighs more than twice the bound (`ScoreFollows`, `LeastHit`): the same E.G.O.s
  are ranked with feedback as without (`FeedbackReorders`). A finite set in an
  order has a sorted sequence, which has all of it (`LinesUp`, `LineHasAll`),
  so the same are routed. Where each is more than four times the bound above the
  next, any two are (`FallsApart`), feedback leaves their order alone
  (`OrderOfLine`), and the sequence is the same (`SameLines`).
  `EveryFeedbackReorders` says so of any finite number of E.G.O.s with any hits and
  any past, `RoutesByRelevance` of the run.
* `PromotionProofs`. `Sound` holds whatever overlaps and dies: what a caller
  carries fits the log it read (`Fits`), a log starts with a promotion and each
  revocation in it leads back to the note that promotion found (`Audited`);
  `LogRead` tells what `First` and `Latest` are then. `Lone` holds without
  overlap and crash: the call under way (`Only`) carries what book, candidates and
  log agreed on when it began (`Holds`) and is all that can be between them
  (`Agree`), so that it can be finished or, when the audit fails, undone to
  where they agree again. Theorems: `TypeCorrect`, `RevocationsLeadBack`,
  `AuditTellsTheNote`, `RevokedAreWithdrawn`.
* `ModelServerProofs`. `GovernorSteps` reduces every step to one of a few things
  that can happen to the governor; each keeps its deadlines in order, so late
  answers of requests that started before a cooldown need no case of their own.
  `Told` says what a thread has sent at each of its steps. Theorems:
  `TypeCorrect`, `ErrorsAreClean`, `Spacing`, `Promises`, `Cooldowns`.
* `ModelServerProofs`, of the translation. Names and roles are made of a set P of
  words, of which nothing is assumed; items, tools, texts and answers are typed over
  it. Each loop that makes a list is a `FlatMap`, about which there
  are laws: of one item, of what is concatenated, of two maps one after the
  other, of a filter behind a map (`MapOne`, `MapConcat`, `MapTwice`, `MapEach`).
  The loop that holds calls back (`After`) is a fold: `LoopRuns` opens it up, and
  what is said so far, flushed, is at each item the words of the items so far
  (`WordsAfter`) with no two messages of calls side by side (`AfterApart`). A reply
  shows by what `Metadata` keeps of an offer the name that was offered
  (`CallItemOf`, `MetadataOf`), also for what was printed (`ResolvedIn`).
  `EveryConversationIsKept`, `EveryOfferIsTheSame` and `EveryOfferIsCallable` hold
  of any length. `EveryQuestionIsTheSame` is about conversations of at most
  eleven items, whose roles both ways know: the one way looks for the words among
  the last twelve messages, the other among the last sixteen items, and beyond
  that they may differ. For the run: `ConversationsAreKept`, `CallsAreCallable`,
  `WaysAlwaysAgree`.

Assumptions are those of the modules (`ConstantsAssumption`, `RunAssumption` and
their like), which TLC evaluates in the runs. The ones that matter: the
scheduler's order `Rank` has no ties and every step has at least one attempt;
runs and operators are different processes; `NoKey`, `NoReceipt`, `NoPlan`,
`NoPackage`, `NoRequest`, `NoCandidate`, `NoNote`, `NoBook` (`MarksAssumption`) and
their like are not values of the types they stand beside; a nonempty set of
versions has a newest one (`NewestAssumption`), and powers of two are numbers
(`PowersAssumption`, which TLAPS's arithmetic cannot see of a variable
exponent); the clock's bound `MaxTime` and the number of writes are at least 1.
Six theorems assume more, for the reasons given above: `AnswersAreTrue` and
`OneRunImplementsOnceEffect`, `WorkComesFirst`,
`OneControllerImplementsLifecycle`, `EveryPackFits` and
`EveryQuestionIsTheSame`.

Some theorems state what no run lists, because a run on a small instance would
add nothing to them: `EffectsMatchReceipt`, `OncePerRun`, `DependenciesHold`,
`WithinBudget`, `CompletedIsKept`, `RunningIsKept`, `AuditClean`,
`RetiredStaysRetired`, `NothingIsLost`, `AuditTellsState`, `PromiseIsKept`,
`CooldownIsBounded`, `ErrorsComeClean`, `RefsAgree`, `Audited`, that coordinators
revise, and what the gate, the ranking, the compiler and the translation do with
inputs of any size (the theorems whose names begin with `Every`, and
`OneAnswers`). `PROJECT.json` lists the theorems that say most; type correctness,
and what a stronger theorem implies, are proved and not listed.

Only model-checked:

* all liveness (`RecoveryConverges`, `PassIsCheckpointed` and that requests of
  the server end), which is out of TLAPS's reach;
* `RepairIsNeeded`: arguments nest, and so does their repair, so `ToolArguments`
  needs recursive operators, about which TLAPS cannot reason;
* `WorkIsVerifiedFirst` for several actions, which is violated.

## 6. What the code does differently from what it says

Three disagreements are findings (see `PROJECT.json`); the first two are runs of
their own:

* `side_effects_twice`: two runs of a goal can apply the effect of one key
  twice, although `docs/V08_GOAL_RECOVERY_FOUNDATION.md` rules a second execution
  out.
* `crash_round`: after a crash in the middle of a request with several actions
  the planner can let the client go on while executed work is unverified.
* `crash_recover`: a checkpoint in SQLite cannot be read back. `_checkpoint_from_row`
  reads `attempt_count` and `last_retry_reason` (`recovery/sqlite.py:556`), which are
  columns of `side_effect_receipts` and not of `recovery_checkpoints`, and passes them
  to `RecoveryCheckpoint`, which has no such fields. Once a goal has a checkpoint,
  `latest` and `list_all` raise: there is no directive, no resume plan and no
  assessment any more, and a request whose work is verified raises in
  `after_verification`. `ROADMAP.md:807` lets a killed process resume from a safe
  checkpoint. The run checks that this is the only way in which recovery fails to
  converge: without the exception for checkpoints that cannot be read it is refuted,
  by a request that is verified, killed and checkpointed on the directive.

Others were met while modelling. The models behave like the code, so the
properties are stated to leave room for them.

Side effects and recovery:

* `fail_receipt` overwrites a receipt another caller has committed since the
  check (`recovery/sqlite.py:413`).
* A retry authorized by an operator reopens the receipt as started, which the
  lookup of `execute` refuses, so it never runs (`recovery/action_runtime.py:165`;
  `docs/V08_GOAL_RECOVERY_FOUNDATION.md:213` says it may run). The number of
  attempts and the reason of a retry are written and not read back with the receipt
  (`recovery/sqlite.py:583`): the two lines stand in the reader of checkpoints.
* An effect resolved as committed is never asked to be verified
  (`recovery/coordinator.py:335`).
* `plan_resume` prefers the blockers of the latest checkpoint, where that can be
  read, which unblocking does not rewrite (`recovery/coordinator.py:87`).
* The telemetry event of a resubmitted request has the id of the first one and
  another content, which a store refuses: `run` raises when checkpoint and session
  are already written, and the second episode is never put (`core/runtime.py:360`,
  `ego/telemetry_sqlite.py:51`).
* An episode of a request that passed is a success even if its actions failed,
  which the telemetry of the same request calls a failure.

Gate and failures:

* A permit that names a requester never matches in the preflight, which knows
  none, so its tool is hidden (`execution/gate.py:158`).
* A timeout of a tool with side effects is reported as retryable
  (`execution/failure.py:122`).

Goals, plans and their coordinator:

* A controller with an old copy of the goal revives one that is over
  (`goal/service.py:43`); blocking a goal that is only planned is refused but
  leaves its blockers in the row (`recovery/run_controller.py:73`).
* A crash between the terminal transition and its event leaves an end without
  evidence, and the operation cannot be repeated
  (`recovery/run_controller.py:139`).
* complete, fail, retry, block and unblock of a step bring a cancelled plan back
  (`planning/service.py:262`, `:350`). Dropping a failed step and adding it again
  resets its attempts (`planning/compiler.py:112`;
  `docs/V09_PLANNER_FOUNDATION.md:162`). An exhausted step is offered by
  `ready_steps` and then refused by `start_step` (`planning/service.py:96`,
  `:224`).
* A revision without the steps that were left completes the plan and leaves the
  goal active (`planning/compiler.py:141`), as does a crash between the end of the
  last step and that of the goal (`planning/execution.py:126`): `complete_step` is
  the only operation that ends the goal, and has no step left to complete.
* Two coordinators can run two steps at once (`planning/service.py:143`) and
  complete a step for a run it is no longer bound to (`planning/execution.py:106`).
  A crash before the checkpoint lets the next step start uncovered
  (`planning/execution.py:107`), one before the event leaves `step_planned` out
  of the journal (`planning/execution.py:39`).

Memory:

* `release` commits a proposal that supersedes a record but does not supersede
  it, as `submit` does (`memory/pipeline.py:124`). Overlapping submissions commit
  the same content twice (`memory/pipeline.py:42`), and overlapping changes of a
  record can leave the projection stale (`memory/projected.py:237`). A crash
  between commit and supersede leaves both records active
  (`memory/pipeline.py:45`). A record valid from a later time never enters a
  projection until it is rebuilt (`memory/projection.py:73`). A proposal that
  expired in quarantine makes `release` raise (`memory/models.py:57`).

E.G.O.s and promotion:

* `approve` disables the version and then resolves the candidate: after a crash
  between the two the candidate can only be rejected (`ego/lifecycle.py:152`).
* An install with `supersede_active=False` leaves two versions active: `get` serves
  the newer, `list_active` lists both (`ego/sqlite_port.py:118`).
* The replay guard records telemetry before it raises the candidate, under an id
  a second attempt shares and with a time it does not: after a crash between the
  two every attempt is refused (`ego/lifecycle.py:73`;
  `docs/EGO_V2_DURABLE_PROMOTION_VALIDATION.md:79` promises a candidate).
* A failure of long ago can raise a score: it hardly counts in the rate of
  success and in full in the number of samples (`ego/telemetry.py:216`).
* A failure or a stricter risk after a promotion takes the candidate out of the
  promoted state, and its note can no longer be revoked
  (`experience/promotion.py:143`, `:237`).

Server and context:

* A request that started before a 429 and succeeds after it clears the cooldown
  for all (`server/rate_limit.py:114`).
* A stream that breaks off is told of by a second status line in the middle of
  the first reply (`server/http.py:229`).
* An item the translation ignores, between two calls, splits a group of parallel
  calls in two messages. A `tool_choice` that is an object is looked up in a set,
  which raises: the request is answered with a 500, and the branch that would pass
  its name on is never reached (`server/responses.py:357`). In the model it is one of
  the refusals of `Accept`; `Responses` has no tool choice.
* Arguments that conform are changed, although `server/responses.py:649` says
  otherwise, where an optional string reads "null" or "none", and in unions whose
  branches have one type.
* Cutting an item adds the marks of the cut, so sections of a pack can be a little
  over their own budgets; the total is kept.

Identity:

* A bundle with an E.G.O manifest of schema 2 is written and cannot be loaded:
  the digest covers fields the archive leaves out. A migrated snapshot can be
  planned and never restored (`identity/restore.py:321`).

## 7. Not modelled

* Memory retrieval, indexes, audit and transfer: ranking, text and vector scoring
  and digests are functions over data with no property to compare them with; the
  other indexes are kept by the same calls as the one that is modelled.
* Replay and the legacy promotion gate: inputs of `Promotion`, one insert each.
* E.G.O loading: files read once at start.
* Workspace tools: what handlers do to the outside world is an effect, an
  exception, or both, in `SideEffects`.
* Idempotency keys and workspace reconciliation: a proposal carries any key; the
  outcomes of reconciliation are the operator's decisions.
* The Roland Library itself: a dictionary of books; what promotion writes into
  it and what delivery cuts from it are modelled.
* Snapshot migrations: a search for one path among a handful of versions.
* Engines, verifiers and handlers are environment: they may answer anything
  their types allow.
* Evaluation, gym and smoke scripts drive the other components and keep no
  state.

Of the components that are partly modelled, the notes in `PROJECT.json` say what
is left out: in the request loop retrieval, the outcome counters of memories and the
submission of memory proposals; of the session, clearing and several sessions
side by side; of the episodes, replay checks over them; in memory the governor's
static checks, search, counters and import; in packages the building of an instruction patch
and the content of manifests; in routing the success priors.

Timestamps matter in `MemoryPipeline` and `ModelServer`, where the clock is a
counter, and nowhere else. SQLite itself is taken at its word: a committed
transaction survives a crash, an uncommitted one does not.
