---------------------------- MODULE CrashRecovery ----------------------------
(***************************************************************************)
(* Recovering one run of an active goal: the request loop of YiSangRuntime  *)
(* (core/runtime.py) with its recovery-aware actions, its verified          *)
(* checkpoints (recovery/checkpoint_orchestrator.py) and what it tells the  *)
(* session, the telemetry and the episodes, killed anywhere, and the        *)
(* directive CrashRecoveryPlanner (recovery/crash_planner.py) reads off the *)
(* journal, the checkpoints and the receipts afterwards.                    *)
(*                                                                         *)
(* The planner only advises.  Its reader is a client outside the            *)
(* repository that does what it is told: it starts a request only on        *)
(* resume_next_action, and otherwise reconciles, verifies or checkpoints.   *)
(* A goal that is blocked or over is told to stop before the journal is     *)
(* looked at (GoalRun has those states); here the goal stays active.        *)
(*                                                                         *)
(* Checkpoints are kept by one of two ports.  InMemoryCheckpointPort        *)
(* returns what was put; with it a crash is the exception that the tests    *)
(* inject (recovery/faults.py), which unwinds the request in a process that *)
(* lives on.  SQLiteRecoveryStore survives the process, but cannot read a   *)
(* checkpoint back: once there is a row, latest and list_all raise          *)
(* (_checkpoint_from_row asks for columns the table does not have).         *)
(***************************************************************************)
EXTENDS Naturals, SequencesExt

CONSTANTS
  Requests,     \* request ids; one may be submitted again after a crash
  NoRequest,    \* a checkpoint written on a directive has no request id
  Keys,         \* idempotency keys of side-effecting actions
  NoKey,        \* an action without side effects
  Resolutions,  \* how the client settles an uncertain receipt
  MaxActions,   \* bound: actions per request (max_action_rounds, proposals)
  MaxRequests,  \* bound: requests submitted
  MaxCrashes    \* bound: crashes

ASSUME RunAssumption ==
  /\ NoRequest \notin Requests /\ NoKey \notin Keys
  /\ Resolutions # {} /\ Resolutions \subseteq {"committed", "failed"}
  /\ MaxActions \in Nat /\ MaxRequests \in Nat /\ MaxCrashes \in Nat

EventTypes ==
  {"goal_started", "action_proposed", "action_authorized", "action_executed",
   "verification_result", "checkpoint_written", "side_effect_reserved",
   "side_effect_committed", "side_effect_failed", "recovery_decision"}

\* The payload, as far as the properties tell payloads apart.
Event ==
  [type: EventTypes,
   status: {"-", "EXECUTED", "ERROR", "PASS", "FAIL", "committed", "failed"}]

Modes == {"resume_next_action", "reconcile_side_effect", "verify_prior_action",
          "write_checkpoint"}

RunSteps == {"idle", "engine", "gate", "lookup", "reserved", "handler", "commit",
          "committed", "fail", "failed", "executed", "error",
          "orchestrate", "cp_seq", "cp_put", "cp_note", "decided",
          "question", "answer", "telemetry", "episode"}

EpisodeOutcomes == {"success", "failure"}

CheckpointPorts == {"in_memory", "sqlite"}

\* A message of the session, in which order is of no account here; whether all
\* that was done for an answer was executed and verified.
Message == [request: Requests, role: {"user", "assistant"}, done: BOOLEAN]

VARIABLES
  journal,      \* run_journal of the run
  receipts,     \* side_effect_receipts: key to state
  checkpoints,  \* recovery_checkpoints of the run
  session,      \* session_messages of the session the requests belong to
  telemetry,    \* ego_telemetry of the E.G.O. selected: the use by a request
  episodes,     \* experience_episodes
  pc,           \* where the process is
  request,      \* the request it runs
  key,          \* the key of the action it executes
  clean,        \* is every action result of the request EXECUTED?
  actions,      \* actions the request proposed (bounded by MaxActions)
  covers,       \* the latest_sequence read for a checkpoint
  port,         \* the CheckpointPort the coordinator was given, for good
  requests, crashes   \* how many there were (MaxRequests, MaxCrashes)

traces == <<session, telemetry, episodes>>
durable == <<journal, receipts, checkpoints, traces>>
volatile == <<request, key, clean, actions, covers>>
outside == <<port, requests, crashes>>
runVars == <<durable, pc, volatile, outside>>

RunInit ==
  /\ journal = <<>>
  /\ receipts = [k \in Keys |-> "none"]
  /\ checkpoints = {}
  /\ session = {} /\ telemetry = [q \in Requests |-> "none"] /\ episodes = {}
  /\ pc = "idle"
  /\ request = NoRequest /\ key = NoKey
  /\ clean = TRUE /\ actions = 0 /\ covers = 0
  /\ port \in CheckpointPorts
  /\ requests = 0 /\ crashes = 0

Emit(type, status) ==
  journal' = Append(journal, [type |-> type, status |-> status])

-----------------------------------------------------------------------------
(* RecoveryCoordinator.plan_resume, assess_restart; CrashRecoveryPlanner.plan *)

\* Do latest and list_all return?
Readable == port = "in_memory" \/ checkpoints = {}

\* The cursor of the checkpoint with the highest sequence, or 0: what latest
\* returns, if it does.
Cursor == Max({0} \cup {cp.seq : cp \in checkpoints})

NewEvents == SubSeq(journal, Cursor + 1, Len(journal))

Uncertain == {k \in Keys : receipts[k] = "started"}

\* Executed work: an action that ran, an effect that was committed by its run
\* or declared so by the client.
IsWork(e) ==
  \/ e.type = "side_effect_committed"
  \/ e.type = "action_executed" /\ e.status = "EXECUTED"
  \/ e.type = "recovery_decision" /\ e.status = "committed"

\* Mutant: a PASS verification is treated like any other event.
ModeIgnoresPass ==
  CASE Uncertain # {} -> "reconcile_side_effect"
    [] Uncertain = {} /\ NewEvents = <<>> -> "resume_next_action"
    [] OTHER -> IF IsWork(Last(NewEvents)) THEN "verify_prior_action"
                                           ELSE "resume_next_action"

\* Mutant: only action_executed outside as executed work.
ModeForgetsCommit ==
  CASE Uncertain # {} -> "reconcile_side_effect"
    [] Uncertain = {} /\ NewEvents = <<>> -> "resume_next_action"
    [] OTHER ->
         CASE Last(NewEvents).type = "action_executed" -> "verify_prior_action"
           [] Last(NewEvents).status = "PASS" -> "write_checkpoint"
           [] OTHER -> "resume_next_action"

\* Mutant: a reservation without an outcome is read off the journal.
ModeTrustsJournal ==
  CASE Uncertain # {} -> "reconcile_side_effect"
    [] Uncertain = {} /\ NewEvents = <<>> -> "resume_next_action"
    [] OTHER ->
         LET last == Last(NewEvents)
         IN CASE last.type = "side_effect_reserved" -> "reconcile_side_effect"
              [] last.status = "PASS" -> "write_checkpoint"
              [] IsWork(last) -> "verify_prior_action"
              [] OTHER -> "resume_next_action"

\* The mode of the directive, for a plan that could be read.
Mode ==
  CASE Uncertain # {} -> "reconcile_side_effect"
    [] Uncertain = {} /\ NewEvents = <<>> -> "resume_next_action"
    [] OTHER ->
         LET last == Last(NewEvents)
         IN CASE last.type = "verification_result" /\ last.status = "PASS"
                   -> "write_checkpoint"
              [] last.type \in {"action_executed", "side_effect_committed"}
                   -> "verify_prior_action"
              [] OTHER -> "resume_next_action"

\* What plan answers: the directive's mode, or the exception of plan_resume.
Directive == IF Readable THEN Mode ELSE "raises"

-----------------------------------------------------------------------------
(* YiSangRuntime.run, the part that is journalled *)

Move(from, to) == pc = from /\ pc' = to

\* run itself asks for no directive: a client that gets none may go on.
Submit(q) ==
  /\ Move("idle", "engine")
  /\ Directive \in {"resume_next_action", "raises"}
  /\ requests < MaxRequests
  /\ requests' = requests + 1
  /\ IF journal = <<>> THEN Emit("goal_started", "-") ELSE UNCHANGED journal
  /\ request' = q /\ clean' = TRUE /\ actions' = 0
  /\ UNCHANGED <<receipts, checkpoints, traces, key, covers, port, crashes>>

\* The engine proposes one more action: execute journals it.
Propose(k) ==
  /\ Move("engine", "gate")
  /\ actions < MaxActions
  /\ actions' = actions + 1
  /\ key' = k
  /\ Emit("action_proposed", "-")
  /\ UNCHANGED <<receipts, checkpoints, traces, request, clean, covers, outside>>

Deny ==
  /\ Move("gate", "engine")
  /\ Emit("action_authorized", "-")
  /\ clean' = FALSE
  /\ UNCHANGED <<receipts, checkpoints, traces, request, key, actions, covers, outside>>

\* Allowed; then invalid arguments are an error before anything is reserved.
Authorize ==
  /\ pc = "gate"
  /\ pc' \in {IF key = NoKey THEN "handler" ELSE "lookup", "error"}
  /\ Emit("action_authorized", "-")
  /\ UNCHANGED <<receipts, checkpoints, traces, volatile, outside>>

\* The receipt decides: reserve, skip (EXECUTED without a handler) or deny.
Lookup ==
  /\ pc = "lookup"
  /\ \/ /\ receipts[key] = "none"
        /\ pc' = "reserved"
        /\ receipts' = [receipts EXCEPT ![key] = "started"]
        /\ UNCHANGED <<journal, clean>>
     \/ /\ receipts[key] = "committed"
        /\ pc' = "engine"
        /\ Emit("recovery_decision", "-")
        /\ UNCHANGED <<receipts, clean>>
     \/ /\ receipts[key] \in {"started", "failed"}
        /\ pc' = "engine"
        /\ clean' = FALSE
        /\ UNCHANGED <<journal, receipts>>
  /\ UNCHANGED <<checkpoints, traces, request, key, actions, covers, outside>>

\* A step that journals one event and goes on.
Record(from, type, status, to) ==
  /\ Move(from, to)
  /\ Emit(type, status)
  /\ UNCHANGED <<receipts, checkpoints, traces, volatile, outside>>

Reserved == Record("reserved", "side_effect_reserved", "-", "handler")
Committed == Record("committed", "side_effect_committed", "-", "executed")
Failed == Record("failed", "side_effect_failed", "-", "error")
Executed == Record("executed", "action_executed", "EXECUTED", "engine")

Handler ==
  /\ pc = "handler"
  /\ pc' \in (IF key = NoKey THEN {"executed", "error"} ELSE {"commit", "fail"})
  /\ UNCHANGED <<durable, volatile, outside>>

\* commit_receipt and fail_receipt; nobody else touches the receipt meanwhile.
Settle ==
  /\ \/ Move("commit", "committed") /\ receipts' = [receipts EXCEPT ![key] = "committed"]
     \/ Move("fail", "failed") /\ receipts' = [receipts EXCEPT ![key] = "failed"]
  /\ UNCHANGED <<journal, checkpoints, traces, volatile, outside>>

Error ==
  /\ Move("error", "engine")
  /\ Emit("action_executed", "ERROR")
  /\ clean' = FALSE
  /\ UNCHANGED <<receipts, checkpoints, traces, request, key, actions, covers, outside>>

\* What the verifier says depends on the request and is left open.
Verify ==
  /\ Move("engine", "orchestrate")
  /\ \E status \in {"PASS", "FAIL"} : Emit("verification_result", status)
  /\ UNCHANGED <<receipts, checkpoints, traces, volatile, outside>>

-----------------------------------------------------------------------------
(* VerifiedCheckpointOrchestrator.after_verification and write_checkpoint *)

Verdicts == {i \in DOMAIN journal : journal[i].type = "verification_result"}

Passed == journal[Max(Verdicts)].status = "PASS"

Existing == {cp \in checkpoints : cp.request = request}

Done == Passed /\ clean

\* Mutant: an existing checkpoint is not looked at.
OrchestrateAgain ==
  /\ Move("orchestrate", IF Done THEN "cp_seq" ELSE "question")
  /\ UNCHANGED <<durable, volatile, outside>>

\* When list_all raises, so does run: nobody else is told of the request.
Orchestrate ==
  /\ pc = "orchestrate"
  /\ \/ ~Done /\ pc' = "question"
     \/ Done /\ ~Readable /\ pc' = "idle"
     \/ Done /\ Readable /\ Existing = {} /\ pc' = "cp_seq"
     \/ Done /\ Readable /\ Existing # {} /\ pc' = "question"
  /\ UNCHANGED <<durable, volatile, outside>>

CheckpointSequence ==
  /\ Move("cp_seq", "cp_put")
  /\ covers' = Len(journal)
  /\ UNCHANGED <<durable, request, key, clean, actions, outside>>

CheckpointPut ==
  /\ Move("cp_put", "cp_note")
  /\ checkpoints' = checkpoints \cup {[request |-> request, seq |-> covers]}
  /\ UNCHANGED <<journal, receipts, traces, volatile, outside>>

\* The request goes on; the client is done.
CheckpointNote ==
  Record("cp_note", "checkpoint_written", "-", IF request = NoRequest THEN "idle" ELSE "question")

-----------------------------------------------------------------------------
(* The rest of YiSangRuntime.run: what others are told of the request *)

\* EgoTelemetryEvent.runtime_use
Use == IF Done THEN "success" ELSE "failure"

Tell(from, role, to) ==
  /\ Move(from, to)
  /\ session' = session \cup {[request |-> request, role |-> role, done |-> Done]}
  /\ UNCHANGED <<journal, receipts, checkpoints, telemetry, episodes, volatile, outside>>

Question == Tell("question", "user", "answer")
Answer == Tell("answer", "assistant", "telemetry")

\* The id of the event is the request's, its latency and time are not: a request
\* that was recorded before is refused, and run raises.
RecordUse ==
  /\ pc = "telemetry"
  /\ IF telemetry[request] = "none"
     THEN /\ pc' = "episode"
          /\ telemetry' = [telemetry EXCEPT ![request] = Use]
     ELSE pc' = "idle" /\ UNCHANGED telemetry
  /\ UNCHANGED <<journal, receipts, checkpoints, session, episodes, volatile, outside>>

\* The outcome of an episode is the verdict, whatever its actions came to.
Episode == [request |-> request, outcome |-> IF Passed THEN "success" ELSE "failure"]

PutEpisode ==
  /\ Move("episode", "idle")
  /\ episodes' = episodes \cup {Episode}
  /\ UNCHANGED <<journal, receipts, checkpoints, session, telemetry, volatile, outside>>

-----------------------------------------------------------------------------
(* The client obeys the directive *)

\* resolve_uncertain_as_committed or resolve_uncertain_as_failed
Reconcile ==
  /\ Move("idle", "decided")
  /\ Directive = "reconcile_side_effect"
  /\ \E k \in Uncertain, state \in Resolutions :
       receipts' = [receipts EXCEPT ![k] = state] /\ key' = k
  /\ UNCHANGED <<journal, checkpoints, traces, request, clean, actions, covers, outside>>

Decided == Record("decided", "recovery_decision", receipts[key], "idle")

\* The client checks the work the crash cut off and journals its verdict.
VerifyPrior ==
  /\ pc = "idle"
  /\ Directive = "verify_prior_action"
  /\ \E status \in {"PASS", "FAIL"} : Emit("verification_result", status)
  /\ UNCHANGED <<receipts, checkpoints, traces, pc, volatile, outside>>

WriteCheckpoint ==
  /\ Move("idle", "cp_seq")
  /\ Directive = "write_checkpoint"
  /\ request' = NoRequest
  /\ UNCHANGED <<durable, key, clean, actions, covers, outside>>

Crash ==
  /\ pc # "idle"
  /\ pc' = "idle"
  /\ crashes < MaxCrashes
  /\ crashes' = crashes + 1
  /\ UNCHANGED <<durable, volatile, port, requests>>

Loop ==
  \/ \E k \in Keys \cup {NoKey} : Propose(k)
  \/ Deny \/ Authorize \/ Lookup \/ Reserved \/ Handler \/ Settle \/ Committed
  \/ Failed \/ Executed \/ Error \/ Verify \/ Orchestrate
  \/ CheckpointSequence \/ CheckpointPut \/ CheckpointNote
  \/ Question \/ Answer \/ RecordUse \/ PutEpisode

Recover == Reconcile \/ Decided \/ VerifyPrior \/ WriteCheckpoint

RunNext == (\E q \in Requests : Submit(q)) \/ Loop \/ Recover \/ Crash

RunSpec == RunInit /\ [][RunNext]_runVars

\* A running request runs on (its actions are bounded by max_action_rounds),
\* and the client does carry out the directive it is given.
FairRunSpec == RunSpec /\ WF_runVars(Loop) /\ WF_runVars(Recover)

-----------------------------------------------------------------------------
(* Properties *)

\* Every variable keeps its type.
RunTypeOK ==
  /\ journal \in Seq(Event)
  /\ receipts \in [Keys -> {"none", "started", "committed", "failed"}]
  /\ checkpoints \subseteq [request: Requests \cup {NoRequest}, seq: Nat]
  /\ session \subseteq Message
  /\ telemetry \in [Requests -> EpisodeOutcomes \cup {"none"}]
  /\ episodes \subseteq [request: Requests, outcome: EpisodeOutcomes]
  /\ pc \in RunSteps
  /\ request \in Requests \cup {NoRequest}
  /\ key \in Keys \cup {NoKey}
  /\ clean \in BOOLEAN
  /\ actions \in 0..MaxActions
  /\ covers \in Nat
  /\ port \in CheckpointPorts
  /\ requests \in 0..MaxRequests /\ crashes \in 0..MaxCrashes

Unverified ==
  {i \in DOMAIN journal :
     /\ IsWork(journal[i])
     /\ \A j \in i..Len(journal) : journal[j].type # "verification_result"}

\* "Action/side effect executed but no verification -> verify_prior_action":
\* a client at rest that gets an answer is never told to go on while executed
\* work was not verified.
WorkIsVerifiedFirst ==
  pc = "idle" /\ Readable /\ Unverified # {}
    => Directive \in {"verify_prior_action", "reconcile_side_effect"}

\* "Checkpoint creation is idempotent per goal + run + request_id": wherever a
\* request is killed and however often it is submitted, it has one checkpoint, and
\* has it before a session or the telemetry is told that its work was done.
OneCheckpointPerRequest ==
  \A q \in Requests :
    LET own == {cp \in checkpoints : cp.request = q}
        told == telemetry[q] = "success" \/ \E m \in session : m.request = q /\ m.done
    IN  Cardinality(own) <= 1 /\ (told => own # {})

\* Obeying the directives ends: after the last crash the client is told to go
\* on with the next action, unless its store holds a checkpoint by then and
\* cannot read it.  In SQLite the first checkpoint ends the directives.
RecoveryConverges ==
  pc = "idle" ~> pc = "idle" /\ (Directive = "resume_next_action" \/ ~Readable)

Uncovered ==
  {i \in Cursor + 1 .. Len(journal) : journal[i].status = "PASS"}

\* Verified work is covered by a checkpoint in the end, although the process may
\* die before, within and after the checkpoint that should have covered it.  In
\* SQLite this is so of the first checkpoint only.
PassIsCheckpointed == Readable /\ Uncovered # {} ~> Uncovered = {}
=============================================================================
