----------------------------- MODULE SideEffects -----------------------------
(***************************************************************************)
(* Side-effecting actions under recovery: RecoveryAwareActionRuntime.execute*)
(* (recovery/action_runtime.py) as a process that talks to the durable     *)
(* receipt store and run journal (recovery/sqlite.py), and the operator    *)
(* decisions of RecoveryCoordinator (recovery/coordinator.py).             *)
(*                                                                         *)
(* One step is one call of the store, of the journal or of the handler:    *)
(* each of those is atomic (the store holds its RLock for the length of    *)
(* one SQL statement or transaction), and nothing longer is.  In           *)
(* particular commit_receipt, fail_receipt and retry_receipt read the      *)
(* receipt, release the lock, decide, and then UPDATE without looking      *)
(* again: StoreCheck and StoreWrite below.                                 *)
(*                                                                         *)
(* A run is one run_id.  It executes one proposal at a time; several runs  *)
(* of a goal may share the store.  A key stands for a (goal_id,            *)
(* idempotency_key) pair, a request for the digest of a tool and its       *)
(* arguments.  A crash loses everything but the store and the journal.     *)
(***************************************************************************)
EXTENDS Naturals, Sequences, FiniteSets

CONSTANTS
  Runs,           \* run ids
  Operators,      \* callers of the coordinator's decision methods
  Keys,           \* (goal, idempotency key) pairs
  NoKey,          \* an absent or blank idempotency key
  Reqs,           \* request digests
  SideEffecting,  \* the requests whose tool is registered as side effecting
  Proposals,      \* what the engine may ask for: [key, req, ctx]
  NoReceipt,      \* get_receipt returned None
  LiveResolution, \* may an operator decide on a key a run is working on?
  MaxCalls,       \* bound: proposals of each run
  MaxAttempts     \* bound: attempt_count of a receipt

ASSUME ConstantsAssumption ==
  /\ Runs \cap Operators = {}
  /\ NoKey \notin Keys
  /\ SideEffecting \subseteq Reqs
  /\ Proposals # {}
  /\ Proposals \subseteq [key: Keys \cup {NoKey}, req: Reqs, ctx: BOOLEAN]
  /\ LiveResolution \in BOOLEAN
  /\ MaxCalls \in [Runs -> Nat]
  /\ MaxAttempts \in Nat \ {0}

Procs == Runs \cup Operators

ReceiptStates == {"started", "committed", "failed"}

Receipt == [req: Reqs, state: ReceiptStates, attempts: Nat \ {0}]

ASSUME NoReceiptAssumption == NoReceipt \notin Receipt

EventTypes ==
  {"action_proposed", "action_authorized", "action_executed",
   "side_effect_reserved", "side_effect_committed", "side_effect_failed",
   "recovery_decision"}

\* The payload of an event, as far as the properties tell payloads apart.
Infos == {"-", "allowed", "denied", "EXECUTED", "ERROR", "skip",
          "resolve_committed", "resolve_failed", "retry"}

Event == [type: EventTypes, key: Keys \cup {NoKey}, info: Infos]

Verbs == {"commit", "fail", "retry"}

Steps == {"idle", "gate", "validate", "lookup", "reserve", "note", "handler",
          "check", "write", "record", "finish"}

Results == {"none", "executed", "skipped", "denied", "error", "raised",
            "crashed"}

VARIABLES
  receipts,  \* side_effect_receipts, by key
  journal,   \* run_journal, by run
  pc,        \* where each run and operator is
  verb,      \* the receipt transition each of them is making
  call,      \* the proposal a run is executing, or executed last
  decision,  \* the key an operator decides on and the run it journals under
  calls,     \* proposals made so far by each run (bounded by MaxCalls)
  result,    \* what a run's last call gave its caller
  effects,   \* history: the effects handlers applied under a key, in order
  vouched    \* history: keys an operator declared committed

vars == <<receipts, journal, pc, verb, call, decision, calls, result, effects,
          vouched>>

store == <<receipts, effects, vouched>>

Init ==
  /\ receipts = [k \in Keys |-> NoReceipt]
  /\ journal = [r \in Runs |-> <<>>]
  /\ pc = [p \in Procs |-> "idle"]
  /\ verb = [p \in Procs |-> "commit"]
  /\ call = [r \in Runs |-> CHOOSE c \in Proposals : TRUE]
  /\ decision \in [Operators -> [key: Keys, run: Runs]]
  /\ calls = [r \in Runs |-> 0]
  /\ result = [r \in Runs |-> "none"]
  /\ effects = [k \in Keys |-> <<>>]
  /\ vouched = {}

-----------------------------------------------------------------------------
(* Helpers *)

Goto(p, step) == pc' = [pc EXCEPT ![p] = step]

At(p, step) == pc[p] = step

Ev(type, key, info) == [type |-> type, key |-> key, info |-> info]

\* journal.append, which execute calls only with a goal and a run.
Log(r, type, info) ==
  journal' = IF call[r].ctx
             THEN [journal EXCEPT ![r] = Append(@, Ev(type, call[r].key, info))]
             ELSE journal

Return(r, status) ==
  /\ Goto(r, "idle")
  /\ result' = [result EXCEPT ![r] = status]

\* The key whose receipt a run or an operator is working on.
KeyOf(p) == IF p \in Runs THEN call[p].key ELSE decision[p].key

Has(k) == k \in Keys /\ receipts[k] # NoReceipt

locals == <<call, decision, calls, vouched>>

-----------------------------------------------------------------------------
(* RecoveryAwareActionRuntime.execute *)

Propose(r) ==
  /\ At(r, "idle")
  /\ calls[r] < MaxCalls[r]
  /\ \E p \in Proposals :
       /\ call' = [call EXCEPT ![r] = p]
       /\ journal' = IF p.ctx
                     THEN [journal EXCEPT ![r] =
                             Append(@, Ev("action_proposed", p.key, "-"))]
                     ELSE journal
  /\ calls' = [calls EXCEPT ![r] = @ + 1]
  /\ Goto(r, "gate")
  /\ UNCHANGED store
  /\ UNCHANGED <<verb, decision, result>>

\* The gate's verdict depends on egos and policy and is left open here.
GateDenies(r) ==
  /\ At(r, "gate")
  /\ Log(r, "action_authorized", "denied")
  /\ Return(r, "denied")
  /\ UNCHANGED store
  /\ UNCHANGED <<verb, call, decision, calls>>

GateAllows(r) ==
  /\ At(r, "gate")
  /\ Log(r, "action_authorized", "allowed")
  /\ Goto(r, "validate")
  /\ UNCHANGED store
  /\ UNCHANGED <<verb, call, decision, calls, result>>

\* validate_arguments or build_recovery_metadata raised: _error.
ArgumentError(r) ==
  /\ \/ At(r, "validate")
     \/ At(r, "lookup") /\ ~Has(call[r].key)
  /\ Log(r, "action_executed", "ERROR")
  /\ Return(r, "error")
  /\ UNCHANGED store
  /\ UNCHANGED <<verb, call, decision, calls>>

Validate(r) ==
  LET sideEffecting == call[r].req \in SideEffecting
      identified == call[r].ctx /\ call[r].key # NoKey
  IN /\ At(r, "validate")
     /\ \/ /\ ~sideEffecting
           /\ Goto(r, "handler")
           /\ UNCHANGED result
        \/ /\ sideEffecting /\ ~identified
           /\ Return(r, "denied")
        \/ /\ sideEffecting /\ identified
           /\ Goto(r, "lookup")
           /\ UNCHANGED result
     /\ UNCHANGED store
     /\ UNCHANGED <<journal, verb, call, decision, calls>>

\* Mutant: the receipt is not reserved before the handler runs.
LookupSkipsReserve(r) ==
  /\ At(r, "lookup")
  /\ ~Has(call[r].key)
  /\ Goto(r, "handler")
  /\ UNCHANGED store
  /\ UNCHANGED <<journal, verb, call, decision, calls, result>>

\* get_receipt, and what execute makes of a receipt that is there.
LookupFresh(r) ==
  /\ At(r, "lookup")
  /\ ~Has(call[r].key)
  /\ Goto(r, "reserve")
  /\ UNCHANGED store
  /\ UNCHANGED <<journal, verb, call, decision, calls, result>>

\* Mutant: the digest of the request is not compared.
RefusesByState(r) == receipts[call[r].key].state # "committed"

Refuses(r) ==
  LET found == receipts[call[r].key]
  IN found.req # call[r].req \/ found.state # "committed"

LookupDenied(r) ==
  /\ At(r, "lookup")
  /\ Has(call[r].key)
  /\ Refuses(r)
  /\ Return(r, "denied")
  /\ UNCHANGED store
  /\ UNCHANGED <<journal, verb, call, decision, calls>>

LookupSkip(r) ==
  /\ At(r, "lookup")
  /\ Has(call[r].key)
  /\ ~Refuses(r)
  /\ Log(r, "recovery_decision", "skip")
  /\ Return(r, "skipped")
  /\ UNCHANGED store
  /\ UNCHANGED <<verb, call, decision, calls>>

\* Mutant: an existing receipt is taken for the outcome of this call.
ReserveTrustsExisting(r) ==
  LET k == call[r].key
      fresh == [req |-> call[r].req, state |-> "started", attempts |-> 1]
  IN /\ At(r, "reserve")
     /\ receipts' = IF Has(k) THEN receipts ELSE [receipts EXCEPT ![k] = fresh]
     /\ Goto(r, IF Has(k) THEN "record" ELSE "note")
     /\ UNCHANGED locals
     /\ UNCHANGED <<journal, verb, effects, result>>

\* reserve inserts a started receipt, returns an existing receipt of the same
\* request whatever its state, and raises for another request.
Reserve(r) ==
  LET k == call[r].key
      fresh == [req |-> call[r].req, state |-> "started", attempts |-> 1]
  IN /\ At(r, "reserve")
     /\ \/ /\ ~Has(k)
           /\ receipts' = [receipts EXCEPT ![k] = fresh]
           /\ Goto(r, "note")
           /\ UNCHANGED result
        \/ /\ Has(k) /\ receipts[k].req = call[r].req
           /\ Goto(r, "note")
           /\ UNCHANGED <<receipts, result>>
        \/ /\ Has(k) /\ receipts[k].req # call[r].req
           /\ Return(r, "raised")
           /\ UNCHANGED receipts
     /\ UNCHANGED locals
     /\ UNCHANGED <<journal, verb, effects>>

NoteReserved(r) ==
  /\ At(r, "note")
  /\ Log(r, "side_effect_reserved", "-")
  /\ Goto(r, "handler")
  /\ UNCHANGED store
  /\ UNCHANGED <<verb, call, decision, calls, result>>

Apply(r) ==
  effects' = [effects EXCEPT
    ![call[r].key] = Append(@, [run |-> r, req |-> call[r].req])]

\* The tool's handler: external code that applies the effect or raises, and
\* may raise after it applied it.
HandlerReturns(r) ==
  /\ At(r, "handler")
  /\ IF call[r].req \in SideEffecting
     THEN /\ Apply(r)
          /\ verb' = [verb EXCEPT ![r] = "commit"]
          /\ Goto(r, "check")
     ELSE /\ Goto(r, "finish")
          /\ UNCHANGED <<effects, verb>>
  /\ UNCHANGED locals
  /\ UNCHANGED <<receipts, journal, result>>

\* Mutant: the receipt is committed whether or not the handler raised.
HandlerRaisesCommits(r) ==
  /\ At(r, "handler")
  /\ call[r].req \in SideEffecting
  /\ Apply(r) \/ UNCHANGED effects
  /\ verb' = [verb EXCEPT ![r] = "commit"]
  /\ Goto(r, "check")
  /\ UNCHANGED locals
  /\ UNCHANGED <<journal, result, receipts>>

HandlerRaises(r) ==
  /\ At(r, "handler")
  /\ IF call[r].req \in SideEffecting
     THEN /\ Apply(r) \/ UNCHANGED effects
          /\ verb' = [verb EXCEPT ![r] = "fail"]
          /\ Goto(r, "check")
          /\ UNCHANGED <<journal, result>>
     ELSE /\ Log(r, "action_executed", "ERROR")
          /\ Return(r, "error")
          /\ UNCHANGED <<effects, verb>>
  /\ UNCHANGED locals
  /\ UNCHANGED <<receipts>>

\* The journal event after the receipt's transition.
Record(r) ==
  /\ At(r, "record")
  /\ Log(r, IF verb[r] = "commit" THEN "side_effect_committed"
                                  ELSE "side_effect_failed", "-")
  /\ Goto(r, "finish")
  /\ UNCHANGED store
  /\ UNCHANGED <<verb, call, decision, calls, result>>

Finish(r) ==
  LET failed == call[r].req \in SideEffecting /\ verb[r] = "fail"
  IN /\ At(r, "finish")
     /\ Log(r, "action_executed", IF failed THEN "ERROR" ELSE "EXECUTED")
     /\ Return(r, IF failed THEN "error" ELSE "executed")
     /\ UNCHANGED store
     /\ UNCHANGED <<verb, call, decision, calls>>

-----------------------------------------------------------------------------
(* The receipt transitions of the store, for runs and operators alike *)

\* commit_receipt, fail_receipt and retry_receipt: the state they move a
\* receipt from and to, and the states they return unchanged.  Any other
\* state raises ValueError.
Source(v) == IF v = "retry" THEN "failed" ELSE "started"
Target(v) == CASE v = "commit" -> "committed"
               [] v = "fail" -> "failed"
               [] v = "retry" -> "started"
Already(v) == IF v = "retry" THEN {} ELSE {Target(v)}

\* The row after the UPDATE.
Moved(receipt, v) ==
  [receipt EXCEPT !.state = Target(v),
                  !.attempts = IF v = "retry" THEN @ + 1 ELSE @]

\* The ValueError leaves execute, or the coordinator's method.
Raise(p) ==
  IF p \in Runs THEN Return(p, "raised")
                ELSE Goto(p, "idle") /\ UNCHANGED result

StoreCheck(p) ==
  LET v == verb[p]
      state == receipts[KeyOf(p)].state
  IN /\ At(p, "check")
     /\ \/ /\ state = Source(v)
           /\ Goto(p, "write")
           /\ UNCHANGED result
        \/ /\ state \in Already(v)
           /\ Goto(p, "record")
           /\ UNCHANGED result
        \/ /\ state \notin {Source(v)} \cup Already(v)
           /\ Raise(p)
     /\ UNCHANGED store
     /\ UNCHANGED <<journal, verb, call, decision, calls>>

StoreWrite(p) ==
  LET v == verb[p]
      k == KeyOf(p)
  IN /\ At(p, "write")
     /\ receipts' = [receipts EXCEPT ![k] = Moved(@, v)]
     /\ vouched' = IF p \in Operators /\ v = "commit" THEN vouched \cup {k}
                                                      ELSE vouched
     /\ Goto(p, "record")
     /\ UNCHANGED <<journal, verb, call, decision, calls, result, effects>>

-----------------------------------------------------------------------------
(* RecoveryCoordinator: authorize_retry, resolve_uncertain_as_committed and *)
(* resolve_uncertain_as_failed                                              *)

Busy(k) == \E r \in Runs : ~At(r, "idle") /\ call[r].key = k

\* get_receipt and the coordinator's own check; authorize_retry has none.
Decide(o) ==
  /\ At(o, "idle")
  /\ \E d \in [key: Keys, run: Runs], v \in Verbs :
       /\ Has(d.key)
       /\ LiveResolution \/ ~Busy(d.key)
       /\ v \in {"commit", "fail"} => receipts[d.key].state = "started"
       /\ v = "retry" => receipts[d.key].attempts < MaxAttempts
       /\ decision' = [decision EXCEPT ![o] = d]
       /\ verb' = [verb EXCEPT ![o] = v]
  /\ Goto(o, "check")
  /\ UNCHANGED store
  /\ UNCHANGED <<journal, call, calls, result>>

DecisionName(v) == CASE v = "commit" -> "resolve_committed"
                     [] v = "fail" -> "resolve_failed"
                     [] v = "retry" -> "retry"

JournalDecision(o) ==
  LET d == decision[o]
  IN /\ At(o, "record")
     /\ journal' = [journal EXCEPT ![d.run] =
          Append(@, Ev("recovery_decision", d.key, DecisionName(verb[o])))]
     /\ Goto(o, "idle")
     /\ UNCHANGED store
     /\ UNCHANGED <<verb, call, decision, calls, result>>

-----------------------------------------------------------------------------
\* The process dies between two steps (the fault points of recovery/faults.py
\* are three such places).
Crash(p) ==
  /\ ~At(p, "idle")
  /\ IF p \in Runs THEN Return(p, "crashed")
                   ELSE Goto(p, "idle") /\ UNCHANGED result
  /\ UNCHANGED store
  /\ UNCHANGED <<journal, verb, call, decision, calls>>

RunStep(r) ==
  \/ GateDenies(r) \/ GateAllows(r) \/ ArgumentError(r) \/ Validate(r)
  \/ LookupFresh(r) \/ LookupDenied(r) \/ LookupSkip(r)
  \/ Reserve(r) \/ NoteReserved(r)
  \/ HandlerReturns(r) \/ HandlerRaises(r)
  \/ StoreCheck(r) \/ StoreWrite(r) \/ Record(r) \/ Finish(r)

OperatorStep(o) == StoreCheck(o) \/ StoreWrite(o) \/ JournalDecision(o)

Next ==
  \/ \E r \in Runs : Propose(r) \/ RunStep(r) \/ Crash(r)
  \/ \E o \in Operators : Decide(o) \/ OperatorStep(o) \/ Crash(o)

Spec == Init /\ [][Next]_vars

-----------------------------------------------------------------------------
(* Properties *)

\* Every variable keeps its type.
TypeOK ==
  /\ receipts \in [Keys -> Receipt \cup {NoReceipt}]
  /\ journal \in [Runs -> Seq(Event)]
  /\ pc \in [Procs -> Steps]
  /\ verb \in [Procs -> Verbs]
  /\ call \in [Runs -> Proposals]
  /\ decision \in [Operators -> [key: Keys, run: Runs]]
  /\ calls \in [Runs -> Nat] /\ \A r \in Runs : calls[r] <= MaxCalls[r]
  /\ result \in [Runs -> Results]
  /\ effects \in [Keys -> Seq([run: Runs, req: Reqs])]
  /\ vouched \subseteq Keys

\* No effect is applied before its receipt is durable, and every effect ever
\* applied under a key is the one request the key was first bound to: whatever
\* crashes, retries and concurrent runs there are, the receipt tells a restart
\* which request may have happened (reserve before handler, digest check in
\* execute and in reserve).
EffectsMatchReceipt ==
  \A k \in Keys : \A i \in DOMAIN effects[k] :
    receipts[k] # NoReceipt /\ effects[k][i].req = receipts[k].req

\* One run never applies the effect of a key twice, across its own crashes and
\* re-proposals and the operators' decisions.
OncePerRun ==
  \A k \in Keys : \A i, j \in DOMAIN effects[k] :
    effects[k][i].run = effects[k][j].run => i = j

\* "If an identical committed receipt already exists, the handler is not
\* invoked again", "if only a started receipt exists, execution is denied":
\* the effect of a key is applied at most once.
AtMostOnce == \A k \in Keys : Len(effects[k]) <= 1

\* A receipt is committed only over an effect that happened, or on the word of
\* an operator (resolve_uncertain_as_committed).
CommittedIsBacked ==
  \A k \in Keys :
    Has(k) /\ receipts[k].state = "committed" => effects[k] # <<>> \/ k \in vouched

\* A caller that was told EXECUTED, or was given the recovered skip, holds a
\* receipt of its own request that says committed.
AnswerIsTrue ==
  \A r \in Runs :
    /\ At(r, "idle")
    /\ result[r] \in {"executed", "skipped"}
    /\ call[r].req \in SideEffecting
    => LET k == call[r].key
       IN Has(k) /\ receipts[k].state = "committed" /\ receipts[k].req = call[r].req

\* A side_effect_committed event in a run's journal is backed by an effect that
\* same run applied: no run claims a commit another run's handler earned.
CommitEventIsEarned ==
  \A r \in Runs : \A i \in DOMAIN journal[r] :
    journal[r][i].type = "side_effect_committed"
      => \E j \in DOMAIN effects[journal[r][i].key] :
           effects[journal[r][i].key][j].run = r

\* The receipts and effects of one run at a time implement the promise of
\* OnceEffect: every step of every call, crash and decision is one of its
\* steps or leaves ledger and count alone.
Once == INSTANCE OnceEffect WITH
  ledger <- [k \in Keys |-> IF Has(k) THEN receipts[k].state ELSE "none"],
  applied <- [k \in Keys |-> Len(effects[k])]

ImplementsOnceEffect == Once!Spec

\* Only one run has come to the goal so far.
Alone == \E r \in Runs : \A q \in Runs \ {r} : calls[q] = 0

\* AnswerIsTrue holds as long as one run works.
AnswerIsTrueAlone == Alone => AnswerIsTrue

\* Every step of a run that is alone, of its crashes and of the decisions about
\* it is a step of OnceEffect, or leaves ledger and count alone.
ImplementsOnceEffectAlone ==
  Once!Init /\ [][Alone' => Once!Next \/ UNCHANGED Once!vars]_vars
=============================================================================
