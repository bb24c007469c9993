-------------------------- MODULE SideEffectsProofs --------------------------
(***************************************************************************)
(* Proofs about SideEffects, for any sets of runs, operators, keys and      *)
(* requests and any bounds.                                                *)
(*                                                                         *)
(* A receipt precedes every effect (Reserved), and a run that may still     *)
(* apply one has not done so before (NotYet).  StepFrame sums up what one   *)
(* step may change; the invariants follow from it.  What receipts and       *)
(* journal say of commits rests on Committing: a run that is about to       *)
(* commit has applied the effect itself.  While one run works, what it      *)
(* knows of its receipt stays true until it ends (Knows), because an        *)
(* operator writes the receipt it checked, and never the run's (Decides):   *)
(* callers are told the truth and OnceEffect is implemented.                *)
(*                                                                         *)
(* What the gate says is proved of any E.G.O.s, tools and policies          *)
(* (IsWorld): the positions it goes through are those of the E.G.O.s that   *)
(* answer for all of the action, and those of the preflight are no fewer.   *)
(***************************************************************************)
EXTENDS GatedRuns, WellFoundedInduction, TLAPS

\* A call past its lookup is for a side-effecting tool, under a proper key.
Identified ==
  \A r \in Runs :
    pc[r] \in {"lookup", "reserve", "note", "check", "write", "record"}
      => /\ call[r].req \in SideEffecting
         /\ call[r].key \in Keys

\* A side-effecting call at or past its handler has its receipt.
Reserved ==
  \A r \in Runs :
    /\ pc[r] \in {"note", "handler", "check", "write", "record"}
    /\ call[r].req \in SideEffecting
    => /\ call[r].key \in Keys
       /\ receipts[call[r].key] # NoReceipt
       /\ receipts[call[r].key].req = call[r].req

\* An operator at work is about a receipt that exists.
DecidesOnReceipt ==
  \A o \in Operators : pc[o] # "idle" => receipts[decision[o].key] # NoReceipt

\* A run between its lookup and the return of its handler has never applied
\* the effect of that key.
NotYet ==
  \A r \in Runs :
    /\ pc[r] \in {"reserve", "note", "handler"}
    /\ call[r].req \in SideEffecting
    => \A i \in DOMAIN effects[call[r].key] : effects[call[r].key][i].run # r

IInv ==
  /\ TypeOK
  /\ Identified
  /\ Reserved
  /\ DecidesOnReceipt
  /\ EffectsMatchReceipt
  /\ NotYet
  /\ OncePerRun

-----------------------------------------------------------------------------
\* Appending keeps a sequence's elements where they are and adds one at the end.
LEMMA AppendFacts ==
  ASSUME NEW S, NEW s \in Seq(S), NEW e \in S
  PROVE  /\ Append(s, e) \in Seq(S)
         /\ DOMAIN Append(s, e) = DOMAIN s \cup {Len(s) + 1}
         /\ \A i \in DOMAIN s : Append(s, e)[i] = s[i]
         /\ Append(s, e)[Len(s) + 1] = e
         /\ Len(s) + 1 \notin DOMAIN s
  OBVIOUS

\* The elements of a sequence over S are in S.
LEMMA ElementType ==
  ASSUME NEW S, NEW s \in Seq(S), NEW i \in DOMAIN s
  PROVE  s[i] \in S
  OBVIOUS

\* What Log and journal appends write is an event.
LEMMA EvIsEvent ==
  ASSUME NEW t \in EventTypes, NEW k \in Keys \cup {NoKey}, NEW x \in Infos
  PROVE  Ev(t, k, x) \in Event
  BY DEF Ev, Event

LEMMA LogType ==
  ASSUME TypeOK, NEW r \in Runs, NEW t \in EventTypes, NEW x \in Infos,
         Log(r, t, x)
  PROVE  journal' \in [Runs -> Seq(Event)]
  <1>1. call[r].key \in Keys \cup {NoKey}
    BY ConstantsAssumption DEF TypeOK
  <1>2. Ev(t, call[r].key, x) \in Event
    BY <1>1, EvIsEvent
  <1>3. QED
    BY <1>2 DEF Log, TypeOK

\* What a handler's effect adds to the history is typed.
LEMMA EffectType ==
  ASSUME IInv, NEW r \in Runs, At(r, "handler"), call[r].req \in SideEffecting,
         Apply(r)
  PROVE  effects' \in [Keys -> Seq([run: Runs, req: Reqs])]
  <1>1. call[r].key \in Keys
    BY DEF IInv, Reserved, At
  <1>2. [run |-> r, req |-> call[r].req] \in [run: Runs, req: Reqs]
    BY ConstantsAssumption DEF IInv, TypeOK
  <1>3. effects[call[r].key] \in Seq([run: Runs, req: Reqs])
    BY <1>1 DEF IInv, TypeOK
  <1>4. Append(effects[call[r].key], [run |-> r, req |-> call[r].req])
          \in Seq([run: Runs, req: Reqs])
    BY <1>2, <1>3, AppendFacts
  <1>5. QED
    BY <1>1, <1>4 DEF Apply, IInv, TypeOK

\* commit, fail and retry keep the shape and the request of a receipt.
LEMMA MovedType ==
  ASSUME NEW receipt \in Receipt, NEW v, Target(v) \in ReceiptStates
  PROVE  Moved(receipt, v) \in Receipt /\ Moved(receipt, v).req = receipt.req
  <1>1. receipt.attempts + 1 \in Nat \ {0}
    BY DEF Receipt
  <1>2. QED
    BY <1>1 DEF Receipt, Moved

\* Every step keeps every variable in its type.
LEMMA TypeStep == IInv /\ [Next]_vars => TypeOK'
  <1> SUFFICES ASSUME IInv, [Next]_vars PROVE TypeOK'
    OBVIOUS
  <1> USE ConstantsAssumption
  <1>typ. TypeOK
    BY DEF IInv
  <1>1. ASSUME NEW r \in Runs, Propose(r) PROVE TypeOK'
    <2>1. PICK p \in Proposals :
            /\ call' = [call EXCEPT ![r] = p]
            /\ journal' = IF p.ctx
                          THEN [journal EXCEPT ![r] =
                                  Append(@, Ev("action_proposed", p.key, "-"))]
                          ELSE journal
      BY <1>1 DEF Propose
    <2>2. Ev("action_proposed", p.key, "-") \in Event
      <3>1. p.key \in Keys \cup {NoKey}
        OBVIOUS
      <3>2. QED
        BY <3>1, EvIsEvent DEF EventTypes, Infos
    <2>3. journal' \in [Runs -> Seq(Event)]
      BY <1>typ, <2>1, <2>2 DEF TypeOK
    <2>4. /\ call' \in [Runs -> Proposals]
         /\ calls' \in [Runs -> Nat] /\ \A s \in Runs : calls'[s] <= MaxCalls[s]
      BY <1>1, <1>typ, <2>1, ConstantsAssumption DEF Propose, TypeOK
    <2>5. pc' \in [Procs -> Steps]
      BY <1>1, <1>typ DEF Propose, TypeOK, Goto, Steps
    <2>6. QED
      BY <1>1, <1>typ, <2>3, <2>4, <2>5 DEF Propose, TypeOK, store
  <1>2. ASSUME NEW r \in Runs, GateDenies(r) PROVE TypeOK'
    <2>1. journal' \in [Runs -> Seq(Event)]
      BY <1>2, <1>typ, LogType DEF GateDenies, EventTypes, Infos, TypeOK
    <2>2. QED
      BY <1>2, <1>typ, <2>1 DEF GateDenies, TypeOK, Return, Goto, Steps, Results, store
  <1>3. ASSUME NEW r \in Runs, GateAllows(r) PROVE TypeOK'
    <2>1. journal' \in [Runs -> Seq(Event)]
      BY <1>3, <1>typ, LogType DEF GateAllows, EventTypes, Infos, TypeOK
    <2>2. QED
      BY <1>3, <1>typ, <2>1 DEF GateAllows, TypeOK, Return, Goto, Steps, Results, store
  <1>4. ASSUME NEW r \in Runs, ArgumentError(r) PROVE TypeOK'
    <2>1. journal' \in [Runs -> Seq(Event)]
      BY <1>4, <1>typ, LogType DEF ArgumentError, EventTypes, Infos, TypeOK
    <2>2. QED
      BY <1>4, <1>typ, <2>1 DEF ArgumentError, TypeOK, Return, Goto, Steps, Results, store
  <1>5. ASSUME NEW r \in Runs, Validate(r) PROVE TypeOK'
    <2>1. pc' \in [Procs -> Steps]
      BY <1>5, <1>typ DEF Validate, TypeOK, Return, Goto, Steps
    <2>2. result' \in [Runs -> Results]
      BY <1>5, <1>typ DEF Validate, TypeOK, Return, Results
    <2>3. QED
      BY <1>5, <1>typ, <2>1, <2>2 DEF Validate, TypeOK, store
  <1>6. ASSUME NEW r \in Runs, LookupFresh(r) PROVE TypeOK'
    BY <1>6, <1>typ DEF LookupFresh, TypeOK, Return, Goto, Steps, Results, store
  <1>7. ASSUME NEW r \in Runs, LookupDenied(r) PROVE TypeOK'
    BY <1>7, <1>typ DEF LookupDenied, TypeOK, Return, Goto, Steps, Results, store
  <1>8. ASSUME NEW r \in Runs, LookupSkip(r) PROVE TypeOK'
    <2>1. journal' \in [Runs -> Seq(Event)]
      BY <1>8, <1>typ, LogType DEF LookupSkip, EventTypes, Infos, TypeOK
    <2>2. QED
      BY <1>8, <1>typ, <2>1 DEF LookupSkip, TypeOK, Return, Goto, Steps, Results, store
  <1>9. ASSUME NEW r \in Runs, Reserve(r) PROVE TypeOK'
    <2>1. pc' \in [Procs -> Steps]
      BY <1>9, <1>typ DEF Reserve, TypeOK, Return, Goto, Steps
    <2>2. result' \in [Runs -> Results]
      BY <1>9, <1>typ DEF Reserve, TypeOK, Return, Results
    <2>3. receipts' \in [Keys -> Receipt \cup {NoReceipt}]
      <3>1. [req |-> call[r].req, state |-> "started", attempts |-> 1] \in Receipt
        BY <1>typ DEF TypeOK, Receipt, ReceiptStates
      <3>2. QED
        BY <1>9, <1>typ, <3>1 DEF Reserve, TypeOK
    <2>4. QED
      BY <1>9, <1>typ, <2>1, <2>2, <2>3 DEF Reserve, TypeOK, locals
  <1>10. ASSUME NEW r \in Runs, NoteReserved(r) PROVE TypeOK'
    <2>1. journal' \in [Runs -> Seq(Event)]
      BY <1>10, <1>typ, LogType DEF NoteReserved, EventTypes, Infos, TypeOK
    <2>2. QED
      BY <1>10, <1>typ, <2>1 DEF NoteReserved, TypeOK, Return, Goto, Steps, Results, store
  <1>11. ASSUME NEW r \in Runs, HandlerReturns(r) PROVE TypeOK'
    <2>1. pc' \in [Procs -> Steps] /\ verb' \in [Procs -> Verbs]
      BY <1>11, <1>typ DEF HandlerReturns, TypeOK, Goto, Steps, Verbs
    <2>2. effects' \in [Keys -> Seq([run: Runs, req: Reqs])]
      BY <1>11, <1>typ, EffectType DEF HandlerReturns, TypeOK
    <2>3. QED
      BY <1>11, <1>typ, <2>1, <2>2 DEF HandlerReturns, TypeOK, locals
  <1>12. ASSUME NEW r \in Runs, HandlerRaises(r) PROVE TypeOK'
    <2>1. journal' \in [Runs -> Seq(Event)]
      BY <1>12, <1>typ, LogType DEF HandlerRaises, EventTypes, Infos, TypeOK
    <2>2. pc' \in [Procs -> Steps] /\ verb' \in [Procs -> Verbs]
      BY <1>12, <1>typ DEF HandlerRaises, TypeOK, Return, Goto, Steps, Verbs
    <2>3. effects' \in [Keys -> Seq([run: Runs, req: Reqs])]
      BY <1>12, <1>typ, EffectType DEF HandlerRaises, TypeOK
    <2>4. result' \in [Runs -> Results]
      BY <1>12, <1>typ DEF HandlerRaises, TypeOK, Return, Results
    <2>5. QED
      BY <1>12, <1>typ, <2>1, <2>2, <2>3, <2>4 DEF HandlerRaises, TypeOK, locals
  <1>13. ASSUME NEW r \in Runs, Record(r) PROVE TypeOK'
    <2>1. journal' \in [Runs -> Seq(Event)]
      BY <1>13, <1>typ, LogType DEF Record, EventTypes, Infos, TypeOK
    <2>2. QED
      BY <1>13, <1>typ, <2>1 DEF Record, TypeOK, Return, Goto, Steps, Results, store
  <1>14. ASSUME NEW r \in Runs, Finish(r) PROVE TypeOK'
    <2>1. journal' \in [Runs -> Seq(Event)]
      BY <1>14, <1>typ, LogType DEF Finish, EventTypes, Infos, TypeOK
    <2>2. QED
      BY <1>14, <1>typ, <2>1 DEF Finish, TypeOK, Return, Goto, Steps, Results, store
  <1>15. ASSUME NEW p \in Procs, StoreCheck(p) PROVE TypeOK'
    BY <1>15, <1>typ DEF StoreCheck, Raise, TypeOK, Return, Goto, Steps, Results, store
  <1>16. ASSUME NEW p \in Procs, StoreWrite(p) PROVE TypeOK'
    <2> DEFINE k == KeyOf(p)
    <2>1. k \in Keys /\ receipts[k] \in Receipt
      BY <1>16, <1>typ DEF StoreWrite, IInv, Identified, Reserved, DecidesOnReceipt, TypeOK,
         At, KeyOf, Procs
    <2>2. Target(verb[p]) \in ReceiptStates
      BY <1>typ DEF TypeOK, Target, ReceiptStates, Verbs
    <2>3. receipts'[k] \in Receipt
      <3>1. receipts'[k] = Moved(receipts[k], verb[p])
        BY <1>16, <1>typ, <2>1 DEF StoreWrite, TypeOK
      <3>2. QED
        BY <2>1, <2>2, <3>1, MovedType
    <2>4. receipts' \in [Keys -> Receipt \cup {NoReceipt}]
      BY <1>16, <1>typ, <2>1, <2>3 DEF StoreWrite, TypeOK
    <2>5. pc' \in [Procs -> Steps] /\ vouched' \subseteq Keys
      BY <1>16, <1>typ, <2>1 DEF StoreWrite, TypeOK, Goto, Steps
    <2>6. QED
      BY <1>16, <1>typ, <2>4, <2>5 DEF StoreWrite, TypeOK
  <1>17. ASSUME NEW o \in Operators, Decide(o) PROVE TypeOK'
    <2>1. PICK d \in [key: Keys, run: Runs], v \in Verbs :
            /\ decision' = [decision EXCEPT ![o] = d]
            /\ verb' = [verb EXCEPT ![o] = v]
      BY <1>17 DEF Decide
    <2>2. decision' \in [Operators -> [key: Keys, run: Runs]] /\ verb' \in [Procs -> Verbs]
      BY <1>typ, <2>1 DEF TypeOK
    <2>3. pc' \in [Procs -> Steps]
      BY <1>17, <1>typ DEF Decide, TypeOK, Goto, Steps
    <2>4. QED
      BY <1>17, <1>typ, <2>2, <2>3 DEF Decide, TypeOK, store
  <1>18. ASSUME NEW o \in Operators, JournalDecision(o) PROVE TypeOK'
    <2>1. Ev("recovery_decision", decision[o].key, DecisionName(verb[o])) \in Event
      BY <1>typ DEF TypeOK, Ev, Event, EventTypes, Infos, DecisionName, Procs, Verbs
    <2>2. journal' \in [Runs -> Seq(Event)]
      BY <1>18, <1>typ, <2>1 DEF JournalDecision, TypeOK
    <2>3. QED
      BY <1>18, <1>typ, <2>2 DEF JournalDecision, TypeOK, Goto, Steps, store, Procs
  <1>19. ASSUME NEW p \in Procs, Crash(p) PROVE TypeOK'
    BY <1>19, <1>typ DEF Crash, TypeOK, Return, Goto, Steps, Results, store
  <1>20. CASE UNCHANGED vars
    BY <1>20, <1>typ DEF vars, TypeOK
  <1>21. QED
    BY <1>1, <1>2, <1>3, <1>4, <1>5, <1>6, <1>7, <1>8, <1>9, <1>10, <1>11, <1>12,
       <1>13, <1>14, <1>15, <1>16, <1>17, <1>18, <1>19, <1>20
       DEF Next, RunStep, OperatorStep, Procs

-----------------------------------------------------------------------------
(* What a step may do, in three frames: to the place of a run, to a receipt  *)
(* and to the effects of a key.  The invariants follow from the frames.      *)

RunEdge(r) ==
  \/ pc'[r] = pc[r] /\ call'[r] = call[r]
  \/ pc'[r] \in {"idle", "gate", "validate", "finish"}
  \/ /\ call'[r] = call[r]
     /\ \/ /\ pc[r] = "validate" /\ pc'[r] = "lookup"
           /\ call[r].req \in SideEffecting /\ call[r].key \in Keys
        \/ pc[r] = "validate" /\ pc'[r] = "handler" /\ call[r].req \notin SideEffecting
        \/ pc[r] = "lookup" /\ pc'[r] = "reserve" /\ receipts[call[r].key] = NoReceipt
        \/ /\ pc[r] = "reserve" /\ pc'[r] = "note"
           /\ receipts'[call[r].key] # NoReceipt
           /\ receipts'[call[r].key].req = call[r].req
        \/ pc[r] = "note" /\ pc'[r] = "handler"
        \/ pc[r] = "handler" /\ pc'[r] = "check" /\ call[r].req \in SideEffecting
        \/ pc[r] \in {"check", "write"} /\ pc'[r] \in {"write", "record"}

ReceiptKept(k) ==
  receipts[k] # NoReceipt
    => receipts'[k] # NoReceipt /\ receipts'[k].req = receipts[k].req

EffectAdded(k) ==
  \E r \in Runs :
    /\ pc[r] = "handler" /\ pc'[r] = "check"
    /\ call[r].req \in SideEffecting
    /\ call[r].key = k
    /\ effects'[k] = Append(effects[k], [run |-> r, req |-> call[r].req])

Frame ==
  /\ \A r \in Runs : RunEdge(r)
  /\ \A k \in Keys : ReceiptKept(k)
  /\ \A k \in Keys : effects'[k] = effects[k] \/ EffectAdded(k)

\* A handler that applied its effect added exactly one, its own, under its key.
LEMMA EffectOfHandler ==
  ASSUME IInv, NEW r \in Runs, pc[r] = "handler", call[r].req \in SideEffecting,
         pc' = [pc EXCEPT ![r] = "check"],
         Apply(r) \/ UNCHANGED effects
  PROVE  \A k \in Keys : effects'[k] = effects[k] \/ EffectAdded(k)
  <1>1. pc'[r] = "check"
    BY DEF IInv, TypeOK, Procs
  <1>2. CASE UNCHANGED effects
    BY <1>2
  <1>3. CASE Apply(r)
    <2> TAKE k \in Keys
    <2>1. CASE call[r].key = k
      <3>1. effects'[k] = Append(effects[k], [run |-> r, req |-> call[r].req])
        BY <1>3, <2>1 DEF Apply, IInv, TypeOK
      <3>2. QED
        BY <1>1, <2>1, <3>1 DEF EffectAdded
    <2>2. CASE call[r].key # k
      BY <1>3, <2>2 DEF Apply, IInv, TypeOK
    <2>3. QED
      BY <2>1, <2>2
  <1>4. QED
    BY <1>2, <1>3

\* Every step stays within the frames.
LEMMA StepFrame == IInv /\ [Next]_vars => Frame
  <1> SUFFICES ASSUME IInv, [Next]_vars PROVE Frame
    OBVIOUS
  <1> USE ConstantsAssumption
  <1>typ. TypeOK
    BY DEF IInv
  <1>1. ASSUME NEW r \in Runs, Propose(r) PROVE Frame
    <2>1. \A q \in Runs : RunEdge(q)
      BY <1>1, <1>typ DEF Propose, RunEdge, TypeOK, Return, Goto, At, Has, Procs, Steps, IInv, Identified, locals
    <2>2. \A k \in Keys : ReceiptKept(k)
      BY <1>1 DEF Propose, ReceiptKept, store
    <2>3. \A k \in Keys : effects'[k] = effects[k]
      BY <1>1 DEF Propose, store
    <2>4. QED
      BY <2>1, <2>2, <2>3 DEF Frame
  <1>2. ASSUME NEW r \in Runs, GateDenies(r) PROVE Frame
    <2>1. \A q \in Runs : RunEdge(q)
      BY <1>2, <1>typ DEF GateDenies, RunEdge, TypeOK, Return, Goto, At, Has, Procs, Steps, IInv, Identified, locals
    <2>2. \A k \in Keys : ReceiptKept(k)
      BY <1>2 DEF GateDenies, ReceiptKept, store
    <2>3. \A k \in Keys : effects'[k] = effects[k]
      BY <1>2 DEF GateDenies, store
    <2>4. QED
      BY <2>1, <2>2, <2>3 DEF Frame
  <1>3. ASSUME NEW r \in Runs, GateAllows(r) PROVE Frame
    <2>1. \A q \in Runs : RunEdge(q)
      BY <1>3, <1>typ DEF GateAllows, RunEdge, TypeOK, Return, Goto, At, Has, Procs, Steps, IInv, Identified, locals
    <2>2. \A k \in Keys : ReceiptKept(k)
      BY <1>3 DEF GateAllows, ReceiptKept, store
    <2>3. \A k \in Keys : effects'[k] = effects[k]
      BY <1>3 DEF GateAllows, store
    <2>4. QED
      BY <2>1, <2>2, <2>3 DEF Frame
  <1>4. ASSUME NEW r \in Runs, ArgumentError(r) PROVE Frame
    <2>1. \A q \in Runs : RunEdge(q)
      BY <1>4, <1>typ DEF ArgumentError, RunEdge, TypeOK, Return, Goto, At, Has, Procs, Steps, IInv, Identified, locals
    <2>2. \A k \in Keys : ReceiptKept(k)
      BY <1>4 DEF ArgumentError, ReceiptKept, store
    <2>3. \A k \in Keys : effects'[k] = effects[k]
      BY <1>4 DEF ArgumentError, store
    <2>4. QED
      BY <2>1, <2>2, <2>3 DEF Frame
  <1>5. ASSUME NEW r \in Runs, Validate(r) PROVE Frame
    <2>1. \A q \in Runs : RunEdge(q)
      BY <1>5, <1>typ DEF Validate, RunEdge, TypeOK, Return, Goto, At, Has, Procs, Steps, IInv, Identified, locals
    <2>2. \A k \in Keys : ReceiptKept(k)
      BY <1>5 DEF Validate, ReceiptKept, store
    <2>3. \A k \in Keys : effects'[k] = effects[k]
      BY <1>5 DEF Validate, store
    <2>4. QED
      BY <2>1, <2>2, <2>3 DEF Frame
  <1>6. ASSUME NEW r \in Runs, LookupFresh(r) PROVE Frame
    <2>1. \A q \in Runs : RunEdge(q)
      BY <1>6, <1>typ DEF LookupFresh, RunEdge, TypeOK, Return, Goto, At, Has, Procs, Steps, IInv, Identified, locals
    <2>2. \A k \in Keys : ReceiptKept(k)
      BY <1>6 DEF LookupFresh, ReceiptKept, store
    <2>3. \A k \in Keys : effects'[k] = effects[k]
      BY <1>6 DEF LookupFresh, store
    <2>4. QED
      BY <2>1, <2>2, <2>3 DEF Frame
  <1>7. ASSUME NEW r \in Runs, LookupDenied(r) PROVE Frame
    <2>1. \A q \in Runs : RunEdge(q)
      BY <1>7, <1>typ DEF LookupDenied, RunEdge, TypeOK, Return, Goto, At, Has, Procs, Steps, IInv, Identified, locals
    <2>2. \A k \in Keys : ReceiptKept(k)
      BY <1>7 DEF LookupDenied, ReceiptKept, store
    <2>3. \A k \in Keys : effects'[k] = effects[k]
      BY <1>7 DEF LookupDenied, store
    <2>4. QED
      BY <2>1, <2>2, <2>3 DEF Frame
  <1>8. ASSUME NEW r \in Runs, LookupSkip(r) PROVE Frame
    <2>1. \A q \in Runs : RunEdge(q)
      BY <1>8, <1>typ DEF LookupSkip, RunEdge, TypeOK, Return, Goto, At, Has, Procs, Steps, IInv, Identified, locals
    <2>2. \A k \in Keys : ReceiptKept(k)
      BY <1>8 DEF LookupSkip, ReceiptKept, store
    <2>3. \A k \in Keys : effects'[k] = effects[k]
      BY <1>8 DEF LookupSkip, store
    <2>4. QED
      BY <2>1, <2>2, <2>3 DEF Frame
  <1>9. ASSUME NEW r \in Runs, Reserve(r) PROVE Frame
    <2>1. \A q \in Runs : RunEdge(q)
      <3>1. pc[r] = "reserve" /\ call' = call
        BY <1>9 DEF Reserve, At, locals
      <3>2. call[r].key \in Keys
        BY <3>1 DEF IInv, Identified
      <3>3. ASSUME NEW q \in Runs, q # r PROVE pc'[q] = pc[q]
        BY <1>9, <1>typ, <3>3 DEF Reserve, TypeOK, Return, Goto, Procs
      <3>4. \/ pc'[r] = "idle"
            \/ /\ pc'[r] = "note"
               /\ \/ receipts' = [receipts EXCEPT ![call[r].key] =
                       [req |-> call[r].req, state |-> "started", attempts |-> 1]]
                  \/ receipts' = receipts /\ Has(call[r].key)
                     /\ receipts[call[r].key].req = call[r].req
        BY <1>9, <1>typ DEF Reserve, TypeOK, Return, Goto, Procs
      <3>5. [req |-> call[r].req, state |-> "started", attempts |-> 1] \in Receipt
        BY <1>typ DEF TypeOK, Receipt, ReceiptStates
      <3>6. pc'[r] = "note" =>
              receipts'[call[r].key] # NoReceipt /\ receipts'[call[r].key].req = call[r].req
        BY <1>typ, <3>2, <3>4, <3>5, NoReceiptAssumption DEF TypeOK, Has
      <3>7. QED
        BY <3>1, <3>3, <3>4, <3>6 DEF RunEdge
    <2>2. \A k \in Keys : ReceiptKept(k)
      BY <1>9, <1>typ DEF Reserve, ReceiptKept, TypeOK, Has
    <2>3. \A k \in Keys : effects'[k] = effects[k]
      BY <1>9 DEF Reserve, store
    <2>4. QED
      BY <2>1, <2>2, <2>3 DEF Frame
  <1>10. ASSUME NEW r \in Runs, NoteReserved(r) PROVE Frame
    <2>1. \A q \in Runs : RunEdge(q)
      BY <1>10, <1>typ DEF NoteReserved, RunEdge, TypeOK, Return, Goto, At, Has, Procs, Steps, IInv, Identified, locals
    <2>2. \A k \in Keys : ReceiptKept(k)
      BY <1>10 DEF NoteReserved, ReceiptKept, store
    <2>3. \A k \in Keys : effects'[k] = effects[k]
      BY <1>10 DEF NoteReserved, store
    <2>4. QED
      BY <2>1, <2>2, <2>3 DEF Frame
  <1>11. ASSUME NEW r \in Runs, HandlerReturns(r) PROVE Frame
    <2>1. \A q \in Runs : RunEdge(q)
      BY <1>11, <1>typ DEF HandlerReturns, RunEdge, TypeOK, Return, Goto, At, Has, Procs, Steps, IInv, Identified, locals
    <2>2. \A k \in Keys : ReceiptKept(k)
      BY <1>11 DEF HandlerReturns, ReceiptKept, store
    <2>3. \A k \in Keys : effects'[k] = effects[k] \/ EffectAdded(k)
      BY <1>11, EffectOfHandler DEF HandlerReturns, At, Goto
    <2>4. QED
      BY <2>1, <2>2, <2>3 DEF Frame
  <1>12. ASSUME NEW r \in Runs, HandlerRaises(r) PROVE Frame
    <2>1. \A q \in Runs : RunEdge(q)
      BY <1>12, <1>typ DEF HandlerRaises, RunEdge, TypeOK, Return, Goto, At, Has, Procs, Steps, IInv, Identified, locals
    <2>2. \A k \in Keys : ReceiptKept(k)
      BY <1>12 DEF HandlerRaises, ReceiptKept, store
    <2>3. \A k \in Keys : effects'[k] = effects[k] \/ EffectAdded(k)
      BY <1>12, EffectOfHandler DEF HandlerRaises, At, Goto
    <2>4. QED
      BY <2>1, <2>2, <2>3 DEF Frame
  <1>13. ASSUME NEW r \in Runs, Record(r) PROVE Frame
    <2>1. \A q \in Runs : RunEdge(q)
      BY <1>13, <1>typ DEF Record, RunEdge, TypeOK, Return, Goto, At, Has, Procs, Steps, IInv, Identified, locals
    <2>2. \A k \in Keys : ReceiptKept(k)
      BY <1>13 DEF Record, ReceiptKept, store
    <2>3. \A k \in Keys : effects'[k] = effects[k]
      BY <1>13 DEF Record, store
    <2>4. QED
      BY <2>1, <2>2, <2>3 DEF Frame
  <1>14. ASSUME NEW r \in Runs, Finish(r) PROVE Frame
    <2>1. \A q \in Runs : RunEdge(q)
      BY <1>14, <1>typ DEF Finish, RunEdge, TypeOK, Return, Goto, At, Has, Procs, Steps, IInv, Identified, locals
    <2>2. \A k \in Keys : ReceiptKept(k)
      BY <1>14 DEF Finish, ReceiptKept, store
    <2>3. \A k \in Keys : effects'[k] = effects[k]
      BY <1>14 DEF Finish, store
    <2>4. QED
      BY <2>1, <2>2, <2>3 DEF Frame
  <1>15. ASSUME NEW p \in Procs, StoreCheck(p) PROVE Frame
    <2>1. \A q \in Runs : RunEdge(q)
      BY <1>15, <1>typ DEF StoreCheck, Raise, RunEdge, TypeOK, Return, Goto, At, Procs
    <2>2. \A k \in Keys : ReceiptKept(k) /\ effects'[k] = effects[k]
      BY <1>15 DEF StoreCheck, ReceiptKept, store
    <2>3. QED
      BY <2>1, <2>2 DEF Frame
  <1>16. ASSUME NEW p \in Procs, StoreWrite(p) PROVE Frame
    <2>1. \A q \in Runs : RunEdge(q)
      BY <1>16, <1>typ DEF StoreWrite, RunEdge, TypeOK, Goto, At, Procs
    <2>2. KeyOf(p) \in Keys /\ receipts[KeyOf(p)] \in Receipt
      BY <1>16, <1>typ DEF StoreWrite, IInv, Identified, Reserved, DecidesOnReceipt, TypeOK,
         At, KeyOf, Procs
    <2>3. Target(verb[p]) \in ReceiptStates
      BY <1>typ DEF TypeOK, Target, ReceiptStates, Verbs
    <2>4. ASSUME NEW k \in Keys PROVE ReceiptKept(k)
      <3>1. CASE k = KeyOf(p)
        <4>1. receipts'[k] = Moved(receipts[k], verb[p])
          BY <1>16, <1>typ, <3>1 DEF StoreWrite, TypeOK
        <4>2. QED
          BY <2>2, <2>3, <3>1, <4>1, MovedType, NoReceiptAssumption DEF ReceiptKept
      <3>2. CASE k # KeyOf(p)
        BY <1>16, <1>typ, <3>2 DEF StoreWrite, TypeOK, ReceiptKept
      <3>3. QED
        BY <3>1, <3>2
    <2>5. \A k \in Keys : effects'[k] = effects[k]
      BY <1>16 DEF StoreWrite
    <2>6. QED
      BY <2>1, <2>4, <2>5 DEF Frame
  <1>17. ASSUME NEW o \in Operators, Decide(o) PROVE Frame
    <2>1. \A q \in Runs : RunEdge(q)
      BY <1>17, <1>typ DEF Decide, RunEdge, TypeOK, Return, Goto, At, Procs
    <2>2. \A k \in Keys : ReceiptKept(k) /\ effects'[k] = effects[k]
      BY <1>17 DEF Decide, ReceiptKept, store
    <2>3. QED
      BY <2>1, <2>2 DEF Frame
  <1>18. ASSUME NEW o \in Operators, JournalDecision(o) PROVE Frame
    <2>1. \A q \in Runs : RunEdge(q)
      BY <1>18, <1>typ DEF JournalDecision, RunEdge, TypeOK, Return, Goto, At, Procs
    <2>2. \A k \in Keys : ReceiptKept(k) /\ effects'[k] = effects[k]
      BY <1>18 DEF JournalDecision, ReceiptKept, store
    <2>3. QED
      BY <2>1, <2>2 DEF Frame
  <1>19. ASSUME NEW p \in Procs, Crash(p) PROVE Frame
    <2>1. \A q \in Runs : RunEdge(q)
      BY <1>19, <1>typ DEF Crash, RunEdge, TypeOK, Return, Goto, At, Procs
    <2>2. \A k \in Keys : ReceiptKept(k) /\ effects'[k] = effects[k]
      BY <1>19 DEF Crash, ReceiptKept, store
    <2>3. QED
      BY <2>1, <2>2 DEF Frame
  <1>20. CASE UNCHANGED vars
    BY <1>20 DEF vars, Frame, RunEdge, ReceiptKept
  <1>21. QED
    BY <1>1, <1>2, <1>3, <1>4, <1>5, <1>6, <1>7, <1>8, <1>9, <1>10, <1>11, <1>12,
       <1>13, <1>14, <1>15, <1>16, <1>17, <1>18, <1>19, <1>20
       DEF Next, RunStep, OperatorStep, Procs

\* An operator that is at work was at work on the same decision, or has just
\* taken one about a receipt that exists.
OperatorEdge(o) ==
  \/ pc'[o] = "idle"
  \/ pc[o] # "idle" /\ decision'[o] = decision[o]
  \/ receipts[decision'[o].key] # NoReceipt

LEMMA OperatorFrame == IInv /\ [Next]_vars => \A o \in Operators : OperatorEdge(o)
  <1> SUFFICES ASSUME IInv, [Next]_vars, NEW o \in Operators PROVE OperatorEdge(o)
    OBVIOUS
  <1> USE ConstantsAssumption
  <1>typ. TypeOK
    BY DEF IInv
  <1>1. ASSUME NEW r \in Runs, Propose(r) \/ RunStep(r) PROVE OperatorEdge(o)
    <2>1. pc'[o] = pc[o]
      BY <1>1, <1>typ DEF RunStep, Propose, GateDenies, GateAllows, ArgumentError, Validate,
         LookupFresh, LookupDenied, LookupSkip, Reserve, NoteReserved, HandlerReturns,
         HandlerRaises, StoreCheck, StoreWrite, Record, Finish, Raise, Return, Goto,
         TypeOK, Procs
    <2>2. decision' = decision
      BY <1>1 DEF RunStep, Propose, GateDenies, GateAllows, ArgumentError, Validate,
         LookupFresh, LookupDenied, LookupSkip, Reserve, NoteReserved, HandlerReturns,
         HandlerRaises, StoreCheck, StoreWrite, Record, Finish, locals
    <2>3. QED
      BY <2>1, <2>2 DEF OperatorEdge
  <1>2. ASSUME NEW q \in Operators, Decide(q) PROVE OperatorEdge(o)
    <2>1. PICK d \in [key: Keys, run: Runs] :
            /\ receipts[d.key] # NoReceipt
            /\ decision' = [decision EXCEPT ![q] = d]
      BY <1>2 DEF Decide, Has
    <2>2. pc' = [pc EXCEPT ![q] = "check"]
      BY <1>2 DEF Decide, Goto
    <2>3. QED
      BY <1>typ, <2>1, <2>2 DEF TypeOK, OperatorEdge, Procs
  <1>3. ASSUME NEW q \in Operators, OperatorStep(q) PROVE OperatorEdge(o)
    <2>1. decision' = decision /\ pc[q] # "idle"
      BY <1>3 DEF OperatorStep, StoreCheck, StoreWrite, JournalDecision, At
    <2>2. o # q => pc'[o] = pc[o]
      BY <1>3, <1>typ DEF OperatorStep, StoreCheck, StoreWrite, JournalDecision, Raise, Return,
         Goto, TypeOK, Procs
    <2>3. QED
      BY <2>1, <2>2 DEF OperatorEdge
  <1>4. ASSUME NEW p \in Procs, Crash(p) PROVE OperatorEdge(o)
    <2>1. decision' = decision
      BY <1>4 DEF Crash
    <2>2. pc' = [pc EXCEPT ![p] = "idle"]
      BY <1>4 DEF Crash, Return, Goto
    <2>3. QED
      BY <1>typ, <2>1, <2>2 DEF TypeOK, OperatorEdge, Procs
  <1>5. CASE UNCHANGED vars
    BY <1>5 DEF vars, OperatorEdge
  <1>6. QED
    BY <1>1, <1>2, <1>3, <1>4, <1>5 DEF Next, Procs

-----------------------------------------------------------------------------
(* The invariants *)

LEMMA InitIInv == Init => IInv
  <1> SUFFICES ASSUME Init PROVE IInv
    OBVIOUS
  <1> USE ConstantsAssumption
  <1>1. TypeOK
    <2>1. (CHOOSE c \in Proposals : TRUE) \in Proposals
      OBVIOUS
    <2>2. QED
      BY <2>1 DEF Init, TypeOK, Steps, Verbs, Results
  <1>2. \A p \in Procs : pc[p] = "idle"
    BY DEF Init
  <1>3. \A k \in Keys : DOMAIN effects[k] = {}
    BY DEF Init
  <1>4. Identified /\ Reserved /\ DecidesOnReceipt
    BY <1>2 DEF Identified, Reserved, DecidesOnReceipt, Procs
  <1>5. EffectsMatchReceipt /\ OncePerRun
    BY <1>3 DEF EffectsMatchReceipt, OncePerRun
  <1>6. NotYet
    BY <1>2 DEF NotYet, Procs
  <1>7. QED
    BY <1>1, <1>4, <1>5, <1>6 DEF IInv

LEMMA StepIInv == IInv /\ [Next]_vars => IInv'
  <1> SUFFICES ASSUME IInv, [Next]_vars PROVE IInv'
    OBVIOUS
  <1> USE ConstantsAssumption
  <1>typ. TypeOK /\ TypeOK'
    BY TypeStep DEF IInv
  <1>frame. Frame
    BY StepFrame
  <1>1. Identified'
    <2> SUFFICES ASSUME NEW r \in Runs,
                        pc'[r] \in {"lookup", "reserve", "note", "check", "write", "record"}
                 PROVE  call'[r].req \in SideEffecting /\ call'[r].key \in Keys
      BY DEF Identified
    <2>1. RunEdge(r)
      BY <1>frame DEF Frame
    <2>2. CASE pc[r] = "handler" /\ pc'[r] = "check"
      BY <2>1, <2>2 DEF RunEdge, IInv, Reserved
    <2>3. CASE ~(pc[r] = "handler" /\ pc'[r] = "check")
      BY <2>1, <2>3 DEF RunEdge, IInv, Identified
    <2>4. QED
      BY <2>2, <2>3
  <1>2. Reserved'
    <2> SUFFICES ASSUME NEW r \in Runs,
                        pc'[r] \in {"note", "handler", "check", "write", "record"},
                        call'[r].req \in SideEffecting
                 PROVE  /\ call'[r].key \in Keys
                        /\ receipts'[call'[r].key] # NoReceipt
                        /\ receipts'[call'[r].key].req = call'[r].req
      BY DEF Reserved
    <2>1. RunEdge(r)
      BY <1>frame DEF Frame
    <2>2. CASE pc[r] \in {"note", "handler", "check", "write", "record"} /\ call'[r] = call[r]
      BY <2>2, <1>frame DEF IInv, Reserved, Frame, ReceiptKept
    <2>3. CASE pc[r] = "reserve" /\ pc'[r] = "note"
      BY <2>1, <2>3 DEF RunEdge, IInv, Identified
    <2>4. QED
      BY <2>1, <2>2, <2>3 DEF RunEdge
  <1>3. DecidesOnReceipt'
    <2> SUFFICES ASSUME NEW o \in Operators, pc'[o] # "idle"
                 PROVE  receipts'[decision'[o].key] # NoReceipt
      BY DEF DecidesOnReceipt
    <2>1. receipts[decision'[o].key] # NoReceipt
      BY OperatorFrame DEF OperatorEdge, IInv, DecidesOnReceipt
    <2>2. decision'[o].key \in Keys
      BY <1>typ DEF TypeOK
    <2>3. QED
      BY <1>frame, <2>1, <2>2 DEF Frame, ReceiptKept
  <1>4. EffectsMatchReceipt'
    <2> SUFFICES ASSUME NEW k \in Keys, NEW i \in DOMAIN effects'[k]
                 PROVE  receipts'[k] # NoReceipt /\ effects'[k][i].req = receipts'[k].req
      BY DEF EffectsMatchReceipt
    <2>1. ReceiptKept(k)
      BY <1>frame DEF Frame
    <2>2. CASE effects'[k] = effects[k]
      BY <2>1, <2>2 DEF IInv, EffectsMatchReceipt, ReceiptKept
    <2>3. CASE EffectAdded(k)
      <3>1. PICK r \in Runs :
              /\ pc[r] = "handler"
              /\ call[r].req \in SideEffecting
              /\ call[r].key = k
              /\ effects'[k] = Append(effects[k], [run |-> r, req |-> call[r].req])
        BY <2>3 DEF EffectAdded
      <3>2. receipts[k] # NoReceipt /\ receipts[k].req = call[r].req
        BY <3>1 DEF IInv, Reserved
      <3>3. effects[k] \in Seq([run: Runs, req: Reqs])
        BY <1>typ DEF TypeOK
      <3>4. [run |-> r, req |-> call[r].req] \in [run: Runs, req: Reqs]
        BY <1>typ DEF TypeOK
      <3>5. CASE i \in DOMAIN effects[k]
        <4>1. effects'[k][i] = effects[k][i]
          BY <3>1, <3>3, <3>4, <3>5, AppendFacts
        <4>2. QED
          BY <2>1, <3>5, <4>1 DEF IInv, EffectsMatchReceipt, ReceiptKept
      <3>6. CASE i = Len(effects[k]) + 1
        <4>1. effects'[k][i] = [run |-> r, req |-> call[r].req]
          BY <3>1, <3>3, <3>4, <3>6, AppendFacts
        <4>2. QED
          BY <2>1, <3>2, <4>1 DEF ReceiptKept
      <3>7. QED
        BY <3>1, <3>3, <3>4, <3>5, <3>6, AppendFacts
    <2>4. QED
      BY <1>frame, <2>2, <2>3 DEF Frame
  <1>5. NotYet'
    <2> SUFFICES ASSUME NEW r \in Runs,
                        pc'[r] \in {"reserve", "note", "handler"},
                        call'[r].req \in SideEffecting,
                        NEW i \in DOMAIN effects'[call'[r].key]
                 PROVE  effects'[call'[r].key][i].run # r
      BY DEF NotYet
    <2> DEFINE k == call'[r].key
    <2>1. k \in Keys
      BY <1>1, <1>2 DEF Identified, Reserved
    <2>2. RunEdge(r) /\ call'[r] = call[r]
      BY <1>frame DEF Frame, RunEdge
    <2>3. \/ pc[r] \in {"reserve", "note", "handler"}
          \/ pc[r] = "lookup" /\ receipts[k] = NoReceipt
      BY <2>2 DEF RunEdge
    <2>4. CASE effects'[k] = effects[k]
      BY <2>1, <2>2, <2>3, <2>4 DEF IInv, NotYet, EffectsMatchReceipt
    <2>5. CASE EffectAdded(k)
      <3>1. PICK q \in Runs :
              /\ pc[q] = "handler" /\ pc'[q] = "check"
              /\ call[q].req \in SideEffecting
              /\ call[q].key = k
              /\ effects'[k] = Append(effects[k], [run |-> q, req |-> call[q].req])
        BY <2>5 DEF EffectAdded
      <3>2. q # r
        BY <3>1
      <3>3. receipts[k] # NoReceipt
        BY <3>1 DEF IInv, Reserved
      <3>4. \A j \in DOMAIN effects[k] : effects[k][j].run # r
        BY <2>2, <2>3, <3>3 DEF IInv, NotYet
      <3>5. /\ effects[k] \in Seq([run: Runs, req: Reqs])
            /\ [run |-> q, req |-> call[q].req] \in [run: Runs, req: Reqs]
        <4>1. effects[k] \in Seq([run: Runs, req: Reqs])
          BY <1>typ, <2>1 DEF TypeOK
        <4>2. call[q].req \in Reqs
          BY <1>typ DEF TypeOK
        <4>3. QED
          BY <4>1, <4>2
      <3>6. CASE i \in DOMAIN effects[k]
        BY <3>1, <3>4, <3>5, <3>6, AppendFacts
      <3>7. CASE i = Len(effects[k]) + 1
        BY <3>1, <3>2, <3>5, <3>7, AppendFacts
      <3>8. QED
        BY <3>1, <3>5, <3>6, <3>7, AppendFacts
    <2>6. QED
      BY <1>frame, <2>1, <2>4, <2>5 DEF Frame
  <1>6. OncePerRun'
    <2> SUFFICES ASSUME NEW k \in Keys,
                        NEW i \in DOMAIN effects'[k], NEW j \in DOMAIN effects'[k],
                        effects'[k][i].run = effects'[k][j].run
                 PROVE  i = j
      BY DEF OncePerRun
    <2>1. CASE effects'[k] = effects[k]
      BY <2>1 DEF IInv, OncePerRun
    <2>2. CASE EffectAdded(k)
      <3>1. PICK q \in Runs :
              /\ pc[q] = "handler"
              /\ call[q].req \in SideEffecting
              /\ call[q].key = k
              /\ effects'[k] = Append(effects[k], [run |-> q, req |-> call[q].req])
        BY <2>2 DEF EffectAdded
      <3>2. \A h \in DOMAIN effects[k] : effects[k][h].run # q
        BY <3>1 DEF IInv, NotYet
      <3>3. /\ effects[k] \in Seq([run: Runs, req: Reqs])
            /\ [run |-> q, req |-> call[q].req] \in [run: Runs, req: Reqs]
        <4>1. effects[k] \in Seq([run: Runs, req: Reqs])
          BY <1>typ DEF TypeOK
        <4>2. call[q].req \in Reqs
          BY <1>typ DEF TypeOK
        <4>3. QED
          BY <4>1, <4>2
      <3>4. \A h \in DOMAIN effects'[k] :
              \/ h \in DOMAIN effects[k] /\ effects'[k][h] = effects[k][h]
              \/ h = Len(effects[k]) + 1 /\ effects'[k][h].run = q
        BY <3>1, <3>3, AppendFacts
      <3>5. QED
        <4>1. CASE i \in DOMAIN effects[k] /\ j \in DOMAIN effects[k]
          <5>1. effects[k][i].run = effects[k][j].run
            BY <3>1, <3>3, <4>1, AppendFacts
          <5>2. QED
            BY <4>1, <5>1 DEF IInv, OncePerRun
        <4>2. CASE i \in DOMAIN effects[k] /\ j \notin DOMAIN effects[k]
          BY <3>2, <3>4, <4>2
        <4>3. CASE i \notin DOMAIN effects[k] /\ j \in DOMAIN effects[k]
          BY <3>2, <3>4, <4>3
        <4>4. CASE i \notin DOMAIN effects[k] /\ j \notin DOMAIN effects[k]
          BY <3>4, <4>4
        <4>5. QED
          BY <4>1, <4>2, <4>3, <4>4
    <2>3. QED
      BY <1>frame, <2>1, <2>2 DEF Frame
  <1>7. QED
    BY <1>typ, <1>1, <1>2, <1>3, <1>4, <1>5, <1>6 DEF IInv

\* The inductive invariant holds in every reachable state.
THEOREM Invariance == Spec => []IInv
  BY InitIInv, StepIInv, PTL DEF Spec

\* Every variable keeps its type.
THEOREM TypeCorrect == Spec => []TypeOK
  <1>1. IInv => TypeOK
    BY DEF IInv
  <1>2. QED
    BY <1>1, Invariance, PTL

\* An effect is only ever applied under a durable receipt of its own request:
\* what reserve writes before the handler runs, a restart can rely on.
THEOREM WriteAhead == Spec => []EffectsMatchReceipt
  <1>1. IInv => EffectsMatchReceipt
    BY DEF IInv
  <1>2. QED
    BY <1>1, Invariance, PTL

\* No run applies the effect of a key twice, however often it crashes, proposes
\* again, races with other runs or is overruled by operators.
THEOREM NeverTwiceByOneRun == Spec => []OncePerRun
  <1>1. IInv => OncePerRun
    BY DEF IInv
  <1>2. QED
    BY <1>1, Invariance, PTL

\* When a goal has a single run, the receipts keep the documented promise: the
\* effect of a key is applied at most once.
THEOREM SingleRunAtMostOnce ==
  ASSUME \A q, r \in Runs : q = r
  PROVE  Spec => []AtMostOnce
  <1>1. IInv => AtMostOnce
    <2> SUFFICES ASSUME IInv, NEW k \in Keys PROVE Len(effects[k]) <= 1
      BY DEF AtMostOnce
    <2>1. effects[k] \in Seq([run: Runs, req: Reqs])
      BY DEF IInv, TypeOK
    <2>2. CASE Len(effects[k]) > 1
      <3>1. 1 \in DOMAIN effects[k] /\ 2 \in DOMAIN effects[k]
        BY <2>1, <2>2
      <3>2. effects[k][1].run \in Runs /\ effects[k][2].run \in Runs
        <4>1. effects[k][1] \in [run: Runs, req: Reqs] /\ effects[k][2] \in [run: Runs, req: Reqs]
          BY <2>1, <3>1, ElementType
        <4>2. QED
          BY <4>1
      <3>3. effects[k][1].run = effects[k][2].run
        BY <3>2
      <3>4. 1 = 2
        BY <3>1, <3>3 DEF IInv, OncePerRun
      <3>5. QED
        BY <3>4
    <2>3. QED
      BY <2>1, <2>2
  <1>2. QED
    BY <1>1, Invariance, PTL

-----------------------------------------------------------------------------
(* Commits are earned *)

ByRun(r, k) == \E i \in DOMAIN effects[k] : effects[k][i].run = r

\* A run that is about to commit, or to say so, has applied the effect.
Committing ==
  \A r \in Runs :
    pc[r] \in {"check", "write", "record"} /\ verb[r] = "commit" => ByRun(r, call[r].key)

\* An event about a commit is about a proper key its run applied the effect of.
EventsBacked ==
  \A r \in Runs : \A i \in DOMAIN journal[r] :
    journal[r][i].type = "side_effect_committed"
      => journal[r][i].key \in Keys /\ ByRun(r, journal[r][i].key)

Earned == Committing /\ CommittedIsBacked /\ EventsBacked

\* What was applied stays in the history.
LEMMA EffectsGrow ==
  ASSUME IInv, [Next]_vars, NEW k \in Keys
  PROVE  /\ effects[k] # <<>> => effects'[k] # <<>>
         /\ \A r \in Runs : ByRun(r, k) => ByRun(r, k)'
  <1>1. CASE effects'[k] = effects[k]
    BY <1>1 DEF ByRun
  <1>2. CASE EffectAdded(k)
    <2>1. PICK r \in Runs :
            effects'[k] = Append(effects[k], [run |-> r, req |-> call[r].req])
      BY <1>2 DEF EffectAdded
    <2>2. /\ effects[k] \in Seq([run: Runs, req: Reqs])
          /\ [run |-> r, req |-> call[r].req] \in [run: Runs, req: Reqs]
      <3>1. effects[k] \in Seq([run: Runs, req: Reqs])
        BY DEF IInv, TypeOK
      <3>2. call[r].req \in Reqs
        BY ConstantsAssumption DEF IInv, TypeOK
      <3>3. QED
        BY <3>1, <3>2
    <2>3. /\ \A i \in DOMAIN effects[k] :
               i \in DOMAIN effects'[k] /\ effects'[k][i] = effects[k][i]
          /\ effects'[k] # <<>>
      BY <2>1, <2>2, AppendFacts
    <2>4. QED
      BY <2>3 DEF ByRun
  <1>3. QED
    BY <1>1, <1>2, StepFrame DEF Frame

\* A run is about to commit because it was before, or because its handler has
\* just returned.
LEMMA CommitEdge ==
  ASSUME IInv, [Next]_vars, NEW r \in Runs,
         pc'[r] \in {"check", "write", "record"}, verb'[r] = "commit"
  PROVE  \/ pc[r] \in {"check", "write", "record"} /\ verb[r] = "commit"
         \/ HandlerReturns(r)
  <1>typ. TypeOK
    BY DEF IInv
  <1> USE ConstantsAssumption DEF TypeOK, Goto, At, Return, Procs
  <1>1. ASSUME NEW q \in Runs, Propose(q)
        PROVE  pc[r] = pc'[r] /\ verb[r] = verb'[r]
    BY <1>1, <1>typ DEF Propose
  <1>2. ASSUME NEW q \in Runs,
               \/ GateDenies(q) \/ GateAllows(q) \/ ArgumentError(q) \/ Validate(q)
               \/ LookupFresh(q) \/ LookupDenied(q) \/ LookupSkip(q)
               \/ Reserve(q) \/ NoteReserved(q) \/ Record(q) \/ Finish(q)
        PROVE  pc[r] = pc'[r] /\ verb[r] = verb'[r]
    BY <1>2, <1>typ DEF GateDenies, GateAllows, ArgumentError, Validate, LookupFresh,
                        LookupDenied, LookupSkip, Reserve, NoteReserved, Record, Finish
  <1>3. ASSUME NEW q \in Runs, HandlerReturns(q), q # r
        PROVE  pc[r] = pc'[r] /\ verb[r] = verb'[r]
    BY <1>3, <1>typ DEF HandlerReturns
  <1>4. ASSUME NEW q \in Runs, HandlerRaises(q)
        PROVE  pc[r] = pc'[r] /\ verb[r] = verb'[r]
    BY <1>4, <1>typ DEF HandlerRaises
  <1>5. ASSUME NEW p \in Procs, StoreCheck(p) \/ StoreWrite(p)
        PROVE  pc[r] \in {"check", "write", "record"} /\ verb[r] = verb'[r]
    BY <1>5, <1>typ DEF StoreCheck, StoreWrite, Raise
  <1>6. ASSUME NEW o \in Operators, Decide(o) \/ JournalDecision(o)
        PROVE  pc[r] = pc'[r] /\ verb[r] = verb'[r]
    BY <1>6, <1>typ DEF Decide, JournalDecision
  <1>7. ASSUME NEW p \in Procs, Crash(p)
        PROVE  pc[r] = pc'[r] /\ verb[r] = verb'[r]
    BY <1>7, <1>typ DEF Crash
  <1>8. CASE UNCHANGED vars
    BY <1>8 DEF vars
  <1>9. QED
    BY <1>1, <1>2, <1>3, <1>4, <1>5, <1>6, <1>7, <1>8 DEF Next, RunStep, OperatorStep

LEMMA CommittingStep == IInv /\ Committing /\ [Next]_vars => Committing'
  <1> SUFFICES ASSUME IInv, Committing, [Next]_vars, NEW r \in Runs,
                      pc'[r] \in {"check", "write", "record"}, verb'[r] = "commit"
               PROVE  ByRun(r, call[r].key)'
    BY DEF Committing
  <1>1. CASE pc[r] \in {"check", "write", "record"} /\ verb[r] = "commit"
    <2>1. call'[r] = call[r]
      BY <1>1, StepFrame DEF Frame, RunEdge
    <2>2. call[r].key \in Keys /\ ByRun(r, call[r].key)
      BY <1>1 DEF IInv, Identified, Committing
    <2>3. PICK k \in Keys : k = call[r].key
      BY <2>2
    <2>4. ByRun(r, k)'
      BY <2>2, <2>3, EffectsGrow
    <2>5. QED
      BY <2>1, <2>3, <2>4 DEF ByRun
  <1>2. CASE HandlerReturns(r)
    <2>1. /\ pc[r] = "handler" /\ call' = call
          /\ call[r].req \in SideEffecting /\ Apply(r)
      BY <1>2, ConstantsAssumption
         DEF HandlerReturns, IInv, TypeOK, Goto, At, Procs, locals
    <2>2. PICK k \in Keys : k = call[r].key
      BY <2>1 DEF IInv, Reserved
    <2>3. effects'[k] = Append(effects[k], [run |-> r, req |-> call[r].req])
      BY <2>1, <2>2 DEF Apply, IInv, TypeOK
    <2>4. /\ effects[k] \in Seq([run: Runs, req: Reqs])
          /\ [run |-> r, req |-> call[r].req] \in [run: Runs, req: Reqs]
      <3>1. effects[k] \in Seq([run: Runs, req: Reqs])
        BY DEF IInv, TypeOK
      <3>2. call[r].req \in Reqs
        BY ConstantsAssumption DEF IInv, TypeOK
      <3>3. QED
        BY <3>1, <3>2
    <2>5. /\ Len(effects[k]) + 1 \in DOMAIN effects'[k]
          /\ effects'[k][Len(effects[k]) + 1].run = r
      BY <2>3, <2>4, AppendFacts
    <2>6. QED
      BY <2>1, <2>2, <2>5 DEF ByRun
  <1>3. QED
    BY <1>1, <1>2, CommitEdge

\* Which steps may leave a receipt committed that was not.
LEMMA CommitOfStore ==
  ASSUME IInv, [Next]_vars, NEW k \in Keys, receipts'[k] # NoReceipt,
         receipts'[k].state = "committed"
  PROVE  /\ vouched \subseteq vouched'
         /\ \/ receipts[k] # NoReceipt /\ receipts[k].state = "committed"
            \/ \E r \in Runs : pc[r] = "write" /\ verb[r] = "commit" /\ call[r].key = k
            \/ k \in vouched'
  <1> DEFINE Goal == /\ vouched \subseteq vouched'
                     /\ \/ receipts[k] # NoReceipt /\ receipts[k].state = "committed"
                        \/ \E r \in Runs :
                             pc[r] = "write" /\ verb[r] = "commit" /\ call[r].key = k
                        \/ k \in vouched'
  <1>typ. TypeOK
    BY DEF IInv
  <1>1. ASSUME UNCHANGED <<receipts, vouched>> PROVE Goal
    BY <1>1
  <1>2. ASSUME NEW r \in Runs, Propose(r) \/ RunStep(r), ~Reserve(r), ~StoreWrite(r)
        PROVE  UNCHANGED <<receipts, vouched>>
    BY <1>2 DEF Propose, RunStep, GateDenies, GateAllows, ArgumentError, Validate,
                LookupFresh, LookupDenied, LookupSkip, NoteReserved, HandlerReturns,
                HandlerRaises, StoreCheck, Record, Finish, store, locals
  <1>3. ASSUME NEW r \in Runs, Reserve(r) PROVE Goal
    <2> DEFINE fresh == [req |-> call[r].req, state |-> "started", attempts |-> 1]
    <2>1. UNCHANGED vouched
      BY <1>3 DEF Reserve, locals
    <2>2. \/ UNCHANGED receipts
          \/ receipts' = [receipts EXCEPT ![call[r].key] = fresh]
      BY <1>3 DEF Reserve
    <2>3. receipts'[k] = receipts[k] \/ receipts'[k] = fresh
      BY <1>typ, <2>2 DEF TypeOK
    <2>4. fresh.state # "committed"
      OBVIOUS
    <2> HIDE DEF fresh
    <2>5. QED
      BY <2>1, <2>3, <2>4
  <1>4. ASSUME NEW p \in Procs, StoreWrite(p) PROVE Goal
    <2>1. /\ vouched' = IF p \in Operators /\ verb[p] = "commit"
                        THEN vouched \cup {KeyOf(p)} ELSE vouched
          /\ receipts' = [receipts EXCEPT ![KeyOf(p)] = Moved(@, verb[p])]
          /\ pc[p] = "write"
      BY <1>4 DEF StoreWrite, At
    <2>2. CASE KeyOf(p) # k
      BY <1>typ, <2>1, <2>2 DEF TypeOK
    <2>3. CASE KeyOf(p) = k
      <3>1. receipts[k] \in Receipt
        BY <1>4, <1>typ, <2>3 DEF StoreWrite, IInv, Identified, Reserved,
           DecidesOnReceipt, TypeOK, At, KeyOf, Procs
      <3>2. receipts'[k] = Moved(receipts[k], verb[p])
        BY <1>typ, <2>1, <2>3 DEF TypeOK
      <3>3. Moved(receipts[k], verb[p]).state = Target(verb[p])
        BY <3>1 DEF Moved, Receipt
      <3>4. verb[p] \in Verbs
        BY <1>typ DEF TypeOK
      <3>5. verb[p] = "commit"
        BY <3>2, <3>3, <3>4 DEF Target, Verbs
      <3>6. QED
        BY <2>1, <2>3, <3>5 DEF KeyOf, Procs
    <2>4. QED
      BY <2>2, <2>3
  <1>5. ASSUME NEW o \in Operators, Decide(o) \/ StoreCheck(o) \/ JournalDecision(o)
        PROVE  UNCHANGED <<receipts, vouched>>
    BY <1>5 DEF Decide, StoreCheck, JournalDecision, store
  <1>6. ASSUME NEW p \in Procs, Crash(p) PROVE UNCHANGED <<receipts, vouched>>
    BY <1>6 DEF Crash, store
  <1>7. ASSUME UNCHANGED vars PROVE UNCHANGED <<receipts, vouched>>
    BY <1>7 DEF vars
  <1> HIDE DEF Goal
  <1>8. Goal
    <2>1. CASE \E r \in Runs : Propose(r) \/ RunStep(r) \/ Crash(r)
      <3>1. PICK r \in Runs : Propose(r) \/ RunStep(r) \/ Crash(r)
        BY <2>1
      <3>2. r \in Procs
        BY DEF Procs
      <3>3. QED
        BY <1>1, <1>2, <1>3, <1>4, <1>6, <3>1, <3>2
    <2>2. CASE \E o \in Operators : Decide(o) \/ OperatorStep(o) \/ Crash(o)
      <3>1. PICK o \in Operators : Decide(o) \/ OperatorStep(o) \/ Crash(o)
        BY <2>2
      <3>2. o \in Procs
        BY DEF Procs
      <3>3. QED
        BY <1>1, <1>4, <1>5, <1>6, <3>1, <3>2 DEF OperatorStep
    <2>3. QED
      BY <1>1, <1>7, <2>1, <2>2 DEF Next
  <1>9. QED
    BY <1>8 DEF Goal

LEMMA BackedStep ==
  IInv /\ Committing /\ CommittedIsBacked /\ [Next]_vars => CommittedIsBacked'
  <1> SUFFICES ASSUME IInv, Committing, CommittedIsBacked, [Next]_vars, NEW k \in Keys,
                      receipts'[k] # NoReceipt, receipts'[k].state = "committed"
               PROVE  effects'[k] # <<>> \/ k \in vouched'
    BY DEF CommittedIsBacked, Has
  <1>1. CASE receipts[k] # NoReceipt /\ receipts[k].state = "committed"
    BY <1>1, CommitOfStore, EffectsGrow DEF CommittedIsBacked, Has
  <1>2. CASE \E r \in Runs : pc[r] = "write" /\ verb[r] = "commit" /\ call[r].key = k
    <2>1. PICK r \in Runs : ByRun(r, k)
      BY <1>2 DEF Committing
    <2>2. effects[k] # <<>>
      BY <2>1 DEF ByRun
    <2>3. QED
      BY <2>2, EffectsGrow
  <1>3. QED
    BY <1>1, <1>2, CommitOfStore

\* Which step may journal a commit.
LEMMA LogAdds ==
  ASSUME TypeOK, NEW r \in Runs, NEW t \in EventTypes, NEW x \in Infos,
         Log(r, t, x), NEW q \in Runs, NEW i \in DOMAIN journal'[q]
  PROVE  \/ i \in DOMAIN journal[q] /\ journal'[q][i] = journal[q][i]
         \/ q = r /\ journal'[q][i] = Ev(t, call[r].key, x)
  <1>1. Ev(t, call[r].key, x) \in Event
    <2>1. call[r].key \in Keys \cup {NoKey}
      BY ConstantsAssumption DEF TypeOK
    <2>2. QED
      BY <2>1, EvIsEvent
  <1>2. journal[q] \in Seq(Event)
    BY DEF TypeOK
  <1>3. \/ journal'[q] = journal[q]
        \/ q = r /\ journal'[q] = Append(journal[q], Ev(t, call[r].key, x))
    BY DEF Log, TypeOK
  <1>4. QED
    BY <1>1, <1>2, <1>3, AppendFacts

LEMMA NewEvents ==
  ASSUME IInv, Committing, [Next]_vars, NEW q \in Runs, NEW i \in DOMAIN journal'[q]
  PROVE  \/ i \in DOMAIN journal[q] /\ journal'[q][i] = journal[q][i]
         \/ journal'[q][i].type # "side_effect_committed"
         \/ journal'[q][i].key \in Keys /\ ByRun(q, journal'[q][i].key)
  <1> DEFINE Goal == \/ i \in DOMAIN journal[q] /\ journal'[q][i] = journal[q][i]
                     \/ journal'[q][i].type # "side_effect_committed"
                     \/ journal'[q][i].key \in Keys /\ ByRun(q, journal'[q][i].key)
  <1>typ. TypeOK
    BY DEF IInv
  <1>1. ASSUME UNCHANGED journal PROVE Goal
    BY <1>1
  <1>2. ASSUME NEW r \in Runs, NEW t \in EventTypes \ {"side_effect_committed"},
               NEW x \in Infos, Log(r, t, x)
        PROVE  Goal
    <2>1. \/ i \in DOMAIN journal[q] /\ journal'[q][i] = journal[q][i]
          \/ journal'[q][i] = Ev(t, call[r].key, x)
      BY <1>2, <1>typ, LogAdds
    <2>2. Ev(t, call[r].key, x).type # "side_effect_committed"
      BY DEF Ev
    <2>3. QED
      BY <2>1, <2>2
  <1>3. ASSUME NEW r \in Runs, Propose(r) PROVE Goal
    <2>1. PICK p \in Proposals :
            journal' = IF p.ctx
                       THEN [journal EXCEPT ![r] =
                               Append(@, Ev("action_proposed", p.key, "-"))]
                       ELSE journal
      BY <1>3 DEF Propose
    <2>2. Ev("action_proposed", p.key, "-") \in Event
      <3>1. p.key \in Keys \cup {NoKey}
        BY ConstantsAssumption
      <3>2. QED
        BY <3>1, EvIsEvent DEF EventTypes, Infos
    <2>3. journal[q] \in Seq(Event)
      BY <1>typ DEF TypeOK
    <2>4. journal'[q] = journal[q]
            \/ journal'[q] = Append(journal[q], Ev("action_proposed", p.key, "-"))
      BY <1>typ, <2>1 DEF TypeOK
    <2>5. \/ i \in DOMAIN journal[q] /\ journal'[q][i] = journal[q][i]
          \/ journal'[q][i] = Ev("action_proposed", p.key, "-")
      BY <2>2, <2>3, <2>4, AppendFacts
    <2>6. QED
      BY <2>5 DEF Ev
  <1>4. ASSUME NEW r \in Runs, Record(r) PROVE Goal
    <2>1. /\ pc[r] = "record"
          /\ Log(r, IF verb[r] = "commit" THEN "side_effect_committed"
                                          ELSE "side_effect_failed", "-")
      BY <1>4 DEF Record, At
    <2>2. CASE verb[r] # "commit"
      BY <1>2, <2>1, <2>2 DEF EventTypes, Infos
    <2>3. CASE verb[r] = "commit"
      <3>1. \/ i \in DOMAIN journal[q] /\ journal'[q][i] = journal[q][i]
            \/ q = r /\ journal'[q][i] = Ev("side_effect_committed", call[r].key, "-")
        BY <1>typ, <2>1, <2>3, LogAdds DEF EventTypes, Infos
      <3>2. call[r].key \in Keys /\ ByRun(r, call[r].key)
        BY <2>1, <2>3 DEF IInv, Identified, Committing
      <3>3. QED
        BY <3>1, <3>2 DEF Ev
    <2>4. QED
      BY <2>2, <2>3
  <1>5. ASSUME NEW r \in Runs,
               \/ GateDenies(r) \/ GateAllows(r) \/ ArgumentError(r) \/ LookupSkip(r)
               \/ NoteReserved(r) \/ HandlerRaises(r) \/ Finish(r)
        PROVE  Goal
    <2>1. \/ UNCHANGED journal
          \/ \E t \in EventTypes \ {"side_effect_committed"}, x \in Infos : Log(r, t, x)
      BY <1>5 DEF GateDenies, GateAllows, ArgumentError, LookupSkip, NoteReserved,
                  HandlerRaises, Finish, EventTypes, Infos
    <2>2. QED
      BY <1>1, <1>2, <2>1
  <1>6. ASSUME NEW r \in Runs,
               \/ Validate(r) \/ LookupFresh(r) \/ LookupDenied(r) \/ Reserve(r)
               \/ HandlerReturns(r)
        PROVE  UNCHANGED journal
    BY <1>6 DEF Validate, LookupFresh, LookupDenied, Reserve, HandlerReturns
  <1>7. ASSUME NEW p \in Procs, StoreCheck(p) \/ StoreWrite(p) \/ Crash(p)
        PROVE  UNCHANGED journal
    BY <1>7 DEF StoreCheck, StoreWrite, Crash
  <1>8. ASSUME NEW o \in Operators, JournalDecision(o) PROVE Goal
    <2>1. Ev("recovery_decision", decision[o].key, DecisionName(verb[o])) \in Event
      BY <1>typ DEF TypeOK, Ev, Event, EventTypes, Infos, DecisionName, Procs, Verbs
    <2>2. journal[q] \in Seq(Event)
      BY <1>typ DEF TypeOK
    <2>3. \/ journal'[q] = journal[q]
          \/ journal'[q] = Append(journal[q],
                Ev("recovery_decision", decision[o].key, DecisionName(verb[o])))
      BY <1>8, <1>typ DEF JournalDecision, TypeOK
    <2>4. \/ i \in DOMAIN journal[q] /\ journal'[q][i] = journal[q][i]
          \/ journal'[q][i] =
               Ev("recovery_decision", decision[o].key, DecisionName(verb[o]))
      BY <2>1, <2>2, <2>3, AppendFacts
    <2>5. QED
      BY <2>4 DEF Ev
  <1>9. ASSUME NEW o \in Operators, Decide(o) PROVE UNCHANGED journal
    BY <1>9 DEF Decide
  <1>10. ASSUME UNCHANGED vars PROVE UNCHANGED journal
    BY <1>10 DEF vars
  <1> HIDE DEF Goal
  <1>11. CASE \E r \in Runs : Propose(r) \/ RunStep(r) \/ Crash(r)
    <2>1. PICK r \in Runs : Propose(r) \/ RunStep(r) \/ Crash(r)
      BY <1>11
    <2>2. r \in Procs
      BY DEF Procs
    <2>3. Goal
      BY <1>1, <1>3, <1>4, <1>5, <1>6, <1>7, <2>1, <2>2 DEF RunStep
    <2>4. QED
      BY <2>3 DEF Goal
  <1>12. CASE \E o \in Operators : Decide(o) \/ OperatorStep(o) \/ Crash(o)
    <2>1. PICK o \in Operators : Decide(o) \/ OperatorStep(o) \/ Crash(o)
      BY <1>12
    <2>2. o \in Procs
      BY DEF Procs
    <2>3. Goal
      BY <1>1, <1>7, <1>8, <1>9, <2>1, <2>2 DEF OperatorStep
    <2>4. QED
      BY <2>3 DEF Goal
  <1>13. CASE UNCHANGED vars
    BY <1>1, <1>10, <1>13 DEF Goal
  <1>14. QED
    BY <1>11, <1>12, <1>13 DEF Next

LEMMA EventsStep == IInv /\ Committing /\ EventsBacked /\ [Next]_vars => EventsBacked'
  <1> SUFFICES ASSUME IInv, Committing, EventsBacked, [Next]_vars,
                      NEW q \in Runs, NEW i \in DOMAIN journal'[q],
                      journal'[q][i].type = "side_effect_committed",
                      NEW k, k = journal'[q][i].key
               PROVE  k \in Keys /\ ByRun(q, k)'
    BY DEF EventsBacked, ByRun
  <1>1. k \in Keys /\ ByRun(q, k)
    BY NewEvents DEF EventsBacked
  <1>2. QED
    BY <1>1, EffectsGrow

LEMMA EarnedAlways == Spec => [](IInv /\ Earned)
  <1>1. Init => Earned
    BY DEF Init, Earned, Committing, CommittedIsBacked, EventsBacked, Has, Procs
  <1>2. IInv /\ Earned /\ [Next]_vars => Earned'
    BY CommittingStep, BackedStep, EventsStep DEF Earned
  <1>3. QED
    BY <1>1, <1>2, InitIInv, StepIInv, PTL DEF Spec

\* A receipt that says committed stands for an effect that was applied, or for
\* the word of an operator, whichever runs and operators write it at once.
THEOREM CommitsAreBacked == Spec => []CommittedIsBacked
  <1>1. Earned => CommittedIsBacked
    BY DEF Earned
  <1>2. QED
    BY <1>1, EarnedAlways, PTL

\* A run that journals a commit has applied the effect itself.
THEOREM EventsAreEarned == Spec => []CommitEventIsEarned
  <1>1. Earned => CommitEventIsEarned
    BY DEF Earned, EventsBacked, CommitEventIsEarned, ByRun
  <1>2. QED
    BY <1>1, EarnedAlways, PTL

-----------------------------------------------------------------------------
(* While one run works and an operator that decides keeps off its keys,      *)
(* nobody moves the receipt a run holds but the run, and nobody moves the    *)
(* receipt an operator checked but the operator.                             *)

\* A run that has proposed nothing does nothing and was told nothing.
Quiet == \A r \in Runs : calls[r] = 0 => pc[r] = "idle" /\ result[r] = "none"

\* A run from its reservation to the receipt's transition.
Holds(r) ==
  /\ pc[r] \in {"reserve", "note", "handler", "check", "write"}
  /\ call[r].req \in SideEffecting

Settled(r) ==
  LET k == call[r].key
  IN /\ k \in Keys /\ receipts[k] # NoReceipt
     /\ receipts[k].state = "committed" /\ receipts[k].req = call[r].req

\* What a run that is alone knows of the receipt it works on.
Knows(r) ==
  LET k == call[r].key
  IN call[r].req \in SideEffecting =>
     /\ pc[r] = "reserve" => receipts[k] = NoReceipt
     /\ pc[r] \in {"note", "handler"} => effects[k] = <<>>
     /\ pc[r] \in {"note", "handler", "check", "write"} =>
          receipts[k].state = "started"
     /\ pc[r] \in {"check", "write", "record", "finish"} =>
          verb[r] \in {"commit", "fail"}
     /\ \/ pc[r] \in {"record", "finish"} /\ verb[r] = "commit"
        \/ pc[r] = "idle" /\ result[r] \in {"executed", "skipped"}
        => Settled(r)

\* What an operator that decides knows: no run holds the receipt, and it has
\* not moved since the store checked it.
Decides(o) ==
  /\ pc[o] \in {"check", "write"} =>
       \A r \in Runs : Holds(r) => call[r].key # decision[o].key
  /\ pc[o] = "write" => receipts[decision[o].key].state = Source(verb[o])

AloneInv == (\A r \in Runs : Knows(r)) /\ (\A o \in Operators : Decides(o))

\* A step of a run, other than a new proposal, moves nobody else.
LEMMA RunActs ==
  ASSUME IInv, NEW r \in Runs, RunStep(r) \/ Crash(r)
  PROVE  /\ pc[r] # "idle" /\ UNCHANGED <<call, calls, decision>>
         /\ \A p \in Procs \ {r} : pc'[p] = pc[p] /\ verb'[p] = verb[p]
         /\ \A q \in Runs \ {r} : result'[q] = result[q]
<1>typ. /\ pc \in [Procs -> Steps] /\ verb \in [Procs -> Verbs]
        /\ result \in [Runs -> Results] /\ r \in Procs
  BY DEF IInv, TypeOK, Procs
<1>1. CASE GateDenies(r)
  BY <1>1, <1>typ DEF GateDenies, At, Return, Goto
<1>2. CASE GateAllows(r)
  BY <1>2, <1>typ DEF GateAllows, At, Goto
<1>3. CASE ArgumentError(r)
  BY <1>3, <1>typ DEF ArgumentError, At, Return, Goto
<1>4. CASE Validate(r)
  BY <1>4, <1>typ DEF Validate, At, Return, Goto
<1>5. CASE LookupFresh(r) \/ LookupDenied(r) \/ LookupSkip(r)
  BY <1>5, <1>typ DEF LookupFresh, LookupDenied, LookupSkip, At, Return, Goto
<1>6. CASE Reserve(r)
  BY <1>6, <1>typ DEF Reserve, At, Return, Goto, locals
<1>7. CASE NoteReserved(r) \/ Record(r) \/ Finish(r)
  BY <1>7, <1>typ DEF NoteReserved, Record, Finish, At, Return, Goto
<1>8. CASE HandlerReturns(r)
  BY <1>8, <1>typ DEF HandlerReturns, At, Goto, locals
<1>9. CASE HandlerRaises(r)
  BY <1>9, <1>typ DEF HandlerRaises, At, Return, Goto, locals
<1>10. CASE StoreCheck(r)
  BY <1>10, <1>typ DEF StoreCheck, At, Raise, Return, Goto
<1>11. CASE StoreWrite(r)
  BY <1>11, <1>typ DEF StoreWrite, At, Goto
<1>12. CASE Crash(r)
  BY <1>12, <1>typ DEF Crash, At, Return, Goto
<1> QED
  BY <1>1, <1>2, <1>3, <1>4, <1>5, <1>6, <1>7, <1>8, <1>9, <1>10, <1>11,
     <1>12 DEF RunStep

LEMMA RunProposes ==
  ASSUME IInv, NEW r \in Runs, Propose(r)
  PROVE  /\ pc'[r] = "gate" /\ calls'[r] = calls[r] + 1
         /\ UNCHANGED <<receipts, effects, decision, verb, result>>
         /\ \A p \in Procs \ {r} : pc'[p] = pc[p]
         /\ \A q \in Runs \ {r} : calls'[q] = calls[q] /\ call'[q] = call[q]
  BY DEF IInv, TypeOK, Procs, Propose, Goto, store

\* A step of an operator moves no run.
LEMMA OperatorActs ==
  ASSUME IInv, NEW o \in Operators, Decide(o) \/ OperatorStep(o) \/ Crash(o)
  PROVE  /\ UNCHANGED <<call, calls, result, effects>>
         /\ \A r \in Runs : pc'[r] = pc[r] /\ verb'[r] = verb[r]
<1>typ. /\ pc \in [Procs -> Steps] /\ verb \in [Procs -> Verbs]
        /\ o \notin Runs /\ Runs \subseteq Procs
  BY ConstantsAssumption DEF IInv, TypeOK, Procs
<1>1. CASE Decide(o)
  BY <1>1, <1>typ DEF Decide, Goto, store
<1>2. CASE StoreCheck(o)
  BY <1>2, <1>typ DEF StoreCheck, Raise, Goto, store
<1>3. CASE StoreWrite(o) \/ JournalDecision(o) \/ Crash(o)
  BY <1>3, <1>typ DEF StoreWrite, JournalDecision, Crash, Goto, store
<1> QED
  BY <1>1, <1>2, <1>3 DEF OperatorStep

LEMMA QuietStep == IInv /\ Quiet /\ [Next]_vars => Quiet'
<1> SUFFICES ASSUME IInv, Quiet, [Next]_vars, NEW q \in Runs, calls'[q] = 0
             PROVE  pc'[q] = "idle" /\ result'[q] = "none"
  BY DEF Quiet
<1>0. calls[q] \in Nat /\ q \in Procs
  BY DEF IInv, TypeOK, Procs
<1>1. CASE UNCHANGED vars
  BY <1>1 DEF vars, Quiet
<1>2. ASSUME NEW r \in Runs, Propose(r)
      PROVE  pc'[q] = "idle" /\ result'[q] = "none"
  <2>1. q # r
    BY <1>0, <1>2, RunProposes
  <2> QED
    BY <1>0, <1>2, <2>1, RunProposes DEF Quiet
<1>3. ASSUME NEW r \in Runs, RunStep(r) \/ Crash(r)
      PROVE  pc'[q] = "idle" /\ result'[q] = "none"
  <2>1. calls' = calls /\ pc[r] # "idle"
    BY <1>3, RunActs
  <2>2. q # r
    BY <2>1 DEF Quiet
  <2> QED
    BY <1>0, <1>3, <2>1, <2>2, RunActs DEF Quiet
<1>4. ASSUME NEW o \in Operators, Decide(o) \/ OperatorStep(o) \/ Crash(o)
      PROVE  pc'[q] = "idle" /\ result'[q] = "none"
  BY <1>4, OperatorActs DEF Quiet
<1> QED
  BY <1>1, <1>2, <1>3, <1>4 DEF Next

\* The run that acts while one is alone is the one; the others have never acted.
LEMMA LoneRun ==
  ASSUME IInv, Quiet, Alone', NEW r \in Runs,
         Propose(r) \/ RunStep(r) \/ Crash(r)
  PROVE  /\ Alone
         /\ \A q \in Runs \ {r} : pc'[q] = "idle" /\ result'[q] = "none"
<1>0. calls \in [Runs -> Nat] /\ Runs \subseteq Procs
  BY DEF IInv, TypeOK, Procs
<1>1. PICK w \in Runs : \A q \in Runs \ {w} : calls'[q] = 0
  BY DEF Alone
<1>2. w = r
  <2> SUFFICES ASSUME w # r PROVE FALSE
    OBVIOUS
  <2>1. calls'[r] = 0
    BY <1>1
  <2>2. CASE Propose(r)
    BY <1>0, <2>1, <2>2, RunProposes
  <2>3. CASE RunStep(r) \/ Crash(r)
    <3>1. calls' = calls /\ pc[r] # "idle"
      BY <2>3, RunActs
    <3> QED
      BY <2>1, <3>1 DEF Quiet
  <2> QED
    BY <2>2, <2>3
<1>3. \A q \in Runs \ {r} : /\ calls[q] = 0 /\ pc'[q] = pc[q]
                            /\ result'[q] = result[q]
  BY <1>0, <1>1, <1>2, RunProposes, RunActs
<1> QED
  BY <1>3 DEF Alone, Quiet

\* A key without a receipt is a key without an effect.
LEMMA NoEffectYet ==
  ASSUME IInv, NEW k \in Keys, receipts[k] = NoReceipt
  PROVE  effects[k] = <<>>
<1>1. effects[k] \in Seq([run: Runs, req: Reqs])
  BY DEF IInv, TypeOK
<1>2. \A i \in DOMAIN effects[k] : FALSE
  BY DEF IInv, EffectsMatchReceipt
<1> QED
  BY <1>1, <1>2

LEMMA KnowsStep ==
  ASSUME IInv, NEW r \in Runs, Knows(r), Propose(r) \/ RunStep(r) \/ Crash(r)
  PROVE  Knows(r)'
<1>typ. /\ pc \in [Procs -> Steps] /\ verb \in [Procs -> Verbs]
        /\ result \in [Runs -> Results] /\ r \in Procs
        /\ receipts \in [Keys -> Receipt \cup {NoReceipt}]
  BY DEF IInv, TypeOK, Procs
<1>0. Propose(r) \/ call' = call
  BY RunActs
<1>1. CASE pc'[r] \in {"gate", "validate", "lookup"}
  BY <1>1 DEF Knows
<1>2. CASE pc'[r] = "idle" /\ result'[r] \in {"denied", "error", "raised", "crashed"}
  BY <1>2 DEF Knows
<1>3. CASE Propose(r)
  BY <1>1, <1>3, RunProposes
<1>4. CASE GateDenies(r) \/ GateAllows(r) \/ ArgumentError(r) \/ LookupDenied(r)
  BY <1>1, <1>2, <1>4, <1>typ DEF GateDenies, GateAllows, ArgumentError,
     LookupDenied, Return, Goto
<1>5. CASE Validate(r)
  <2>1. \/ pc'[r] = "handler" /\ call[r].req \notin SideEffecting
        \/ pc'[r] = "idle" /\ result'[r] = "denied"
        \/ pc'[r] = "lookup"
    BY <1>5, <1>typ DEF Validate, Return, Goto
  <2> QED
    BY <1>1, <1>2, <1>5, <2>1 DEF Knows, Validate
<1>6. CASE LookupFresh(r)
  <2>1. pc[r] = "lookup" /\ pc'[r] = "reserve" /\ UNCHANGED <<receipts, call>>
        /\ ~Has(call[r].key)
    BY <1>6, <1>typ DEF LookupFresh, At, Goto, store
  <2>2. receipts[call[r].key] = NoReceipt
    BY <2>1 DEF IInv, Identified, Has
  <2> QED
    BY <2>1, <2>2 DEF Knows
<1>7. CASE LookupSkip(r)
  <2>1. /\ pc'[r] = "idle" /\ UNCHANGED <<receipts, call>>
        /\ Has(call[r].key) /\ ~Refuses(r)
    BY <1>7, <1>typ DEF LookupSkip, Return, Goto, store
  <2>2. Settled(r)'
    BY <2>1 DEF Settled, Has, Refuses
  <2> QED
    BY <2>1, <2>2 DEF Knows
<1>8. CASE Reserve(r)
  <2>1. pc[r] = "reserve" /\ call' = call /\ effects' = effects
    BY <1>8 DEF Reserve, At, locals
  <2>2. call[r].key \in Keys /\ call[r].req \in SideEffecting
    BY <2>1 DEF IInv, Identified
  <2>3. receipts[call[r].key] = NoReceipt
    BY <2>1, <2>2 DEF Knows
  <2>4. /\ receipts'[call[r].key].state = "started" /\ pc'[r] = "note"
    BY <1>8, <1>typ, <2>2, <2>3 DEF Reserve, Has, Goto
  <2>5. effects[call[r].key] = <<>>
    BY <2>2, <2>3, NoEffectYet
  <2> QED
    BY <2>1, <2>4, <2>5 DEF Knows
<1>9. CASE NoteReserved(r)
  <2>1. /\ pc[r] = "note" /\ pc'[r] = "handler"
        /\ UNCHANGED <<receipts, effects, call>>
    BY <1>9, <1>typ DEF NoteReserved, At, Goto, store
  <2> QED
    BY <2>1 DEF Knows
<1>10. CASE HandlerReturns(r)
  <2>1. CASE call[r].req \in SideEffecting
    <3>1. /\ pc[r] = "handler" /\ pc'[r] = "check" /\ verb'[r] = "commit"
          /\ UNCHANGED <<receipts, call>>
      BY <1>10, <1>typ, <2>1 DEF HandlerReturns, At, Goto, locals
    <3> QED
      BY <3>1 DEF Knows
  <2>2. CASE call[r].req \notin SideEffecting
    BY <1>0, <1>10, <2>2 DEF Knows, HandlerReturns, locals
  <2> QED
    BY <2>1, <2>2
<1>11. CASE HandlerRaises(r)
  <2>1. CASE call[r].req \in SideEffecting
    <3>1. /\ pc[r] = "handler" /\ pc'[r] = "check" /\ verb'[r] = "fail"
          /\ UNCHANGED <<receipts, call>>
      BY <1>11, <1>typ, <2>1 DEF HandlerRaises, At, Goto, locals
    <3> QED
      BY <3>1 DEF Knows
  <2>2. CASE call[r].req \notin SideEffecting
    BY <1>11, <2>2 DEF Knows, HandlerRaises, locals
  <2> QED
    BY <2>1, <2>2
<1>12. CASE StoreCheck(r)
  <2>1. /\ pc[r] = "check" /\ UNCHANGED <<receipts, call, verb>>
        /\ call[r].req \in SideEffecting
    BY <1>12 DEF StoreCheck, At, store, IInv, Identified
  <2>2. receipts[call[r].key].state = "started" /\ verb[r] \in {"commit", "fail"}
    BY <2>1 DEF Knows
  <2>3. receipts[call[r].key].state \notin Already(verb[r])
    BY <2>2 DEF Already, Target
  <2>4. \/ pc'[r] = "write"
        \/ pc'[r] = "idle" /\ result'[r] = "raised"
    BY <1>12, <1>typ, <2>3 DEF StoreCheck, KeyOf, Raise, Return, Goto
  <2> QED
    BY <1>2, <2>1, <2>2, <2>4 DEF Knows
<1>13. CASE StoreWrite(r)
  <2>1. /\ pc[r] = "write" /\ pc'[r] = "record" /\ UNCHANGED <<call, verb>>
        /\ receipts' = [receipts EXCEPT ![call[r].key] = Moved(@, verb[r])]
    BY <1>13, <1>typ DEF StoreWrite, At, Goto, KeyOf
  <2>2. /\ call[r].key \in Keys /\ call[r].req \in SideEffecting
        /\ receipts[call[r].key] # NoReceipt
        /\ receipts[call[r].key].req = call[r].req
    BY <2>1 DEF IInv, Identified, Reserved
  <2>3. verb[r] \in {"commit", "fail"}
    BY <2>1, <2>2 DEF Knows
  <2>4. /\ receipts'[call[r].key].state = Target(verb[r])
        /\ receipts'[call[r].key].req = call[r].req
        /\ receipts'[call[r].key] \in Receipt
    <3>1. receipts[call[r].key] \in Receipt
      BY <1>typ, <2>2
    <3>2. Target(verb[r]) \in ReceiptStates
      BY <2>3 DEF Target, ReceiptStates
    <3>3. receipts'[call[r].key] = Moved(receipts[call[r].key], verb[r])
      BY <1>typ, <2>1, <2>2
    <3> QED
      BY <2>2, <3>1, <3>2, <3>3, MovedType DEF Moved, Receipt
  <2>5. verb[r] = "commit" => Settled(r)'
    BY <2>1, <2>2, <2>4, NoReceiptAssumption DEF Settled, Target
  <2> QED
    BY <2>1, <2>3, <2>5 DEF Knows
<1>14. CASE Record(r)
  <2>1. /\ pc[r] = "record" /\ pc'[r] = "finish"
        /\ UNCHANGED <<receipts, call, verb>>
    BY <1>14, <1>typ DEF Record, At, Goto, store
  <2> QED
    BY <2>1 DEF Knows, Settled
<1>15. CASE Finish(r)
  <2>1. /\ pc[r] = "finish" /\ pc'[r] = "idle" /\ UNCHANGED <<receipts, call>>
        /\ call[r].req \in SideEffecting /\ verb[r] = "fail" => result'[r] = "error"
    BY <1>15, <1>typ DEF Finish, At, Goto, Return, store
  <2> QED
    BY <2>1 DEF Knows, Settled
<1>16. CASE Crash(r)
  BY <1>2, <1>16, <1>typ DEF Crash, Return, Goto
<1> QED
  BY <1>3, <1>4, <1>5, <1>6, <1>7, <1>8, <1>9, <1>10, <1>11, <1>12, <1>13,
     <1>14, <1>15, <1>16 DEF RunStep

\* What a run's step does to the receipts: none moves but the one it holds.
LEMMA RunMoves ==
  ASSUME IInv, NEW r \in Runs, Propose(r) \/ RunStep(r) \/ Crash(r)
  PROVE  \/ receipts' = receipts
         \/ /\ pc[r] \in {"reserve", "write"} /\ call[r].key \in Keys
            /\ call[r].req \in SideEffecting
            /\ \A k \in Keys \ {call[r].key} : receipts'[k] = receipts[k]
<1>1. CASE receipts' = receipts
  BY <1>1
<1>2. CASE receipts' # receipts
  <2>1. Reserve(r) \/ StoreWrite(r)
    BY <1>2 DEF RunStep, Propose, Crash, GateDenies, GateAllows, ArgumentError,
       Validate, LookupFresh, LookupDenied, LookupSkip, NoteReserved,
       HandlerReturns, HandlerRaises, StoreCheck, Record, Finish, store
  <2>2. pc[r] \in {"reserve", "write"}
    BY <2>1 DEF Reserve, StoreWrite, At
  <2>3. call[r].key \in Keys /\ call[r].req \in SideEffecting
    BY <2>2 DEF IInv, Identified
  <2>4. ASSUME NEW k \in Keys \ {call[r].key} PROVE receipts'[k] = receipts[k]
    BY <2>1, <2>4 DEF Reserve, StoreWrite, KeyOf, IInv, TypeOK
  <2> QED
    BY <2>2, <2>3, <2>4
<1> QED
  BY <1>1, <1>2

\* A run comes to hold a receipt by finding none, or held it before.
LEMMA ComesToHold ==
  ASSUME IInv, NEW r \in Runs, Propose(r) \/ RunStep(r) \/ Crash(r), Holds(r)'
  PROVE  /\ call' = call
         /\ \/ Holds(r)
            \/ receipts[call[r].key] = NoReceipt
<1>1. ~Propose(r)
  BY RunProposes DEF Holds
<1>2. call' = call
  BY <1>1, RunActs
<1>3. RunEdge(r)
  BY StepFrame DEF Frame, Next
<1>4. pc'[r] \in {"reserve", "note", "handler", "check", "write"}
      /\ call[r].req \in SideEffecting
  BY <1>2 DEF Holds
<1> QED
  BY <1>2, <1>3, <1>4 DEF RunEdge, Holds

LEMMA DecidesUnderRun ==
  ASSUME IInv, NEW r \in Runs, Propose(r) \/ RunStep(r) \/ Crash(r),
         NEW o \in Operators, Decides(o),
         \A q \in Runs \ {r} : pc'[q] = "idle"
  PROVE  Decides(o)'
<1>0. /\ o \in Procs \ {r} /\ decision[o].key \in Keys
  BY ConstantsAssumption DEF IInv, TypeOK, Procs
<1>1. /\ pc'[o] = pc[o] /\ decision'[o] = decision[o] /\ verb'[o] = verb[o]
      /\ decision[o].key \in Keys
  <2>1. CASE Propose(r)
    BY <1>0, <2>1, RunProposes
  <2>2. CASE RunStep(r) \/ Crash(r)
    BY <1>0, <2>2, RunActs
  <2> QED
    BY <2>1, <2>2
<1>2. ASSUME pc[o] \in {"check", "write"}, NEW q \in Runs, Holds(q)'
      PROVE  call'[q].key # decision[o].key
  <2>1. q = r
    BY <1>2 DEF Holds
  <2>2. call' = call /\ (Holds(r) \/ receipts[call[r].key] = NoReceipt)
    BY <1>2, <2>1, ComesToHold
  <2>3. receipts[decision[o].key] # NoReceipt
    BY <1>2 DEF IInv, DecidesOnReceipt
  <2> QED
    BY <1>2, <2>1, <2>2, <2>3 DEF Decides
<1>3. ASSUME pc[o] = "write" PROVE receipts'[decision[o].key].state = Source(verb[o])
  <2>1. receipts[decision[o].key].state = Source(verb[o])
        /\ (Holds(r) => call[r].key # decision[o].key)
    BY <1>3 DEF Decides
  <2>2. \/ receipts' = receipts
        \/ Holds(r) /\ receipts'[decision[o].key] = receipts[decision[o].key]
    BY <1>1, <2>1, RunMoves DEF Holds
  <2> QED
    BY <2>1, <2>2
<1> QED
  BY <1>1, <1>2, <1>3 DEF Decides

\* An operator's write is of the receipt it checked, from the state it saw.
LEMMA OperatorMoves ==
  ASSUME IInv, NEW o \in Operators, Decides(o),
         Decide(o) \/ OperatorStep(o) \/ Crash(o)
  PROVE  \/ receipts' = receipts
         \/ /\ StoreWrite(o) /\ pc[o] = "write" /\ decision[o].key \in Keys
            /\ receipts[decision[o].key] \in Receipt
            /\ receipts[decision[o].key].state = Source(verb[o])
            /\ receipts' = [receipts EXCEPT ![decision[o].key] = Moved(@, verb[o])]
            /\ Moved(receipts[decision[o].key], verb[o]) \in Receipt
<1>1. CASE ~StoreWrite(o)
  BY <1>1 DEF Decide, OperatorStep, StoreCheck, JournalDecision, Crash, store
<1>2. CASE StoreWrite(o)
  <2>1. /\ pc[o] = "write" /\ decision[o].key \in Keys /\ verb[o] \in Verbs
        /\ receipts' = [receipts EXCEPT ![decision[o].key] = Moved(@, verb[o])]
    BY <1>2, ConstantsAssumption DEF StoreWrite, At, KeyOf, IInv, TypeOK, Procs
  <2>2. receipts[decision[o].key] \in Receipt
    BY <2>1 DEF IInv, DecidesOnReceipt, TypeOK
  <2>3. Target(verb[o]) \in ReceiptStates
    BY <2>1 DEF Verbs, Target, ReceiptStates
  <2> QED
    BY <1>2, <2>1, <2>2, <2>3, MovedType DEF Decides
<1> QED
  BY <1>1, <1>2

LEMMA KnowsUnderOperator ==
  ASSUME IInv, NEW o \in Operators, Decides(o),
         Decide(o) \/ OperatorStep(o) \/ Crash(o), NEW r \in Runs, Knows(r)
  PROVE  Knows(r)'
<1>1. /\ UNCHANGED <<call, result, effects>>
      /\ pc'[r] = pc[r] /\ verb'[r] = verb[r]
  BY OperatorActs
<1>2. CASE receipts' = receipts
  BY <1>1, <1>2 DEF Knows, Settled
<1>3. CASE receipts' # receipts
  <2> DEFINE k == call[r].key
  <2>1. /\ pc[o] = "write" /\ decision[o].key \in Keys
        /\ receipts[decision[o].key].state = Source(verb[o])
        /\ \A x \in Keys \ {decision[o].key} : receipts'[x] = receipts[x]
        /\ receipts' \in [Keys -> Receipt \cup {NoReceipt}]
        /\ receipts \in [Keys -> Receipt \cup {NoReceipt}]
    BY <1>3, OperatorMoves DEF IInv, TypeOK
  <2>2. ASSUME Holds(r) PROVE k \in Keys /\ receipts'[k] = receipts[k]
    <3>1. k \in Keys
      BY <2>2 DEF Holds, IInv, Identified, Reserved
    <3>2. k # decision[o].key
      BY <2>1, <2>2 DEF Decides
    <3> QED
      BY <2>1, <3>1, <3>2
  <2>3. ASSUME Settled(r) PROVE Settled(r)'
    <3>1. k \in Keys /\ receipts[k].state = "committed"
      BY <2>3 DEF Settled
    <3>2. k # decision[o].key
      BY <2>1, <3>1 DEF Source
    <3> QED
      BY <1>1, <2>1, <2>3, <3>2 DEF Settled
  <2> QED
    BY <1>1, <2>2, <2>3 DEF Knows, Holds
<1> QED
  BY <1>2, <1>3

LEMMA DecidesStep ==
  ASSUME IInv, ~LiveResolution, NEW o \in Operators, Decides(o),
         Decide(o) \/ OperatorStep(o) \/ Crash(o)
  PROVE  Decides(o)'
<1>typ. /\ pc \in [Procs -> Steps] /\ verb \in [Procs -> Verbs]
        /\ decision \in [Operators -> [key: Keys, run: Runs]]
        /\ o \in Procs /\ o \notin Runs
  BY ConstantsAssumption DEF IInv, TypeOK, Procs
<1>0. call' = call /\ \A r \in Runs : pc'[r] = pc[r]
  BY OperatorActs
<1>1. CASE Decide(o)
  <2>1. pc'[o] = "check" /\ ~Busy(decision'[o].key)
    <3>1. PICK d \in [key: Keys, run: Runs] :
            ~Busy(d.key) /\ decision' = [decision EXCEPT ![o] = d]
      BY <1>1 DEF Decide
    <3> QED
      BY <1>1, <1>typ, <3>1 DEF Decide, Goto
  <2>2. ASSUME NEW r \in Runs, Holds(r)' PROVE call'[r].key # decision'[o].key
    BY <1>0, <2>1, <2>2 DEF Holds, Busy, At
  <2> QED
    BY <2>1, <2>2 DEF Decides
<1>2. CASE StoreCheck(o)
  <2>1. /\ pc[o] = "check" /\ UNCHANGED <<receipts, verb, decision>>
        /\ pc'[o] \in {"write", "record", "idle"}
        /\ pc'[o] = "write" => receipts[decision[o].key].state = Source(verb[o])
    BY <1>2, <1>typ DEF StoreCheck, Raise, At, Goto, KeyOf, store
  <2> QED
    BY <1>0, <2>1 DEF Decides, Holds
<1>3. CASE StoreWrite(o) \/ JournalDecision(o) \/ Crash(o)
  <2>1. pc'[o] \in {"record", "idle"}
    BY <1>3, <1>typ DEF StoreWrite, JournalDecision, Crash, Goto
  <2> QED
    BY <2>1 DEF Decides
<1> QED
  BY <1>1, <1>2, <1>3 DEF OperatorStep

LEMMA AloneStep ==
  ASSUME ~LiveResolution, \A o, p \in Operators : o = p
  PROVE  IInv /\ Quiet /\ (Alone => AloneInv) /\ [Next]_vars
           => (Alone' => Alone /\ AloneInv')
<1> SUFFICES ASSUME IInv, Quiet, Alone => AloneInv, [Next]_vars, Alone'
             PROVE  Alone /\ AloneInv'
  OBVIOUS
<1>1. CASE UNCHANGED vars
  BY <1>1 DEF vars, Alone, AloneInv, Knows, Settled, Decides, Holds
<1>2. ASSUME NEW r \in Runs, Propose(r) \/ RunStep(r) \/ Crash(r)
      PROVE  Alone /\ AloneInv'
  <2>1. Alone /\ \A q \in Runs \ {r} : pc'[q] = "idle" /\ result'[q] = "none"
    BY <1>2, LoneRun
  <2>2. Knows(r) /\ \A o \in Operators : Decides(o)
    BY <2>1 DEF AloneInv
  <2>3. Knows(r)'
    BY <1>2, <2>2, KnowsStep
  <2>4. \A q \in Runs \ {r} : Knows(q)'
    BY <2>1 DEF Knows
  <2>5. \A o \in Operators : Decides(o)'
    BY <1>2, <2>1, <2>2, DecidesUnderRun
  <2> QED
    BY <2>1, <2>3, <2>4, <2>5 DEF AloneInv
<1>3. ASSUME NEW o \in Operators, Decide(o) \/ OperatorStep(o) \/ Crash(o)
      PROVE  Alone /\ AloneInv'
  <2>1. Alone
    BY <1>3, OperatorActs DEF Alone
  <2>2. Decides(o) /\ \A r \in Runs : Knows(r)
    BY <2>1 DEF AloneInv
  <2>3. \A r \in Runs : Knows(r)'
    BY <1>3, <2>2, KnowsUnderOperator
  <2>4. Decides(o)'
    BY <1>3, <2>2, DecidesStep
  <2> QED
    BY <2>1, <2>3, <2>4 DEF AloneInv
<1> QED
  BY <1>1, <1>2, <1>3 DEF Next

\* While one run works, what it knows of its receipt stays true.
LEMMA WhileAlone ==
  ASSUME ~LiveResolution, \A o, p \in Operators : o = p
  PROVE  Spec => [](IInv /\ Quiet /\ (Alone => AloneInv))
<1>1. Init => Quiet /\ (Alone => AloneInv)
  BY DEF Init, Quiet, Alone, AloneInv, Knows, Decides, Procs
<1>2. IInv /\ Quiet /\ (Alone => AloneInv) /\ [Next]_vars
        => Quiet' /\ (Alone' => AloneInv')
  BY QuietStep, AloneStep
<1> QED
  BY <1>1, <1>2, Invariance, PTL DEF Spec

\* A caller that was told EXECUTED, or was given the recovered skip, holds a
\* committed receipt of its own request: for any proposals, crashes and
\* retries of one run, when one operator decides and keeps off a key in use.
THEOREM AnswersAreTrue ==
  ASSUME ~LiveResolution, \A o, p \in Operators : o = p
  PROVE  Spec => []AnswerIsTrueAlone
<1>1. IInv /\ (Alone => AloneInv) => AnswerIsTrueAlone
  BY DEF AloneInv, Knows, Settled, AnswerIsTrueAlone, AnswerIsTrue, At, Has
<1> QED
  BY <1>1, WhileAlone, PTL

-----------------------------------------------------------------------------
(* The refinement of OnceEffect while one run works.                         *)

Ledger == [k \in Keys |-> IF Has(k) THEN receipts[k].state ELSE "none"]
Applied == [k \in Keys |-> Len(effects[k])]

\* A receipt written under one key moves the ledger there and nowhere else.
LEMMA LedgerMoves ==
  ASSUME IInv, NEW k \in Keys, NEW x \in Receipt,
         receipts' = [receipts EXCEPT ![k] = x], UNCHANGED effects
  PROVE  /\ Ledger' = [Ledger EXCEPT ![k] = x.state]
         /\ Applied' = Applied
  BY NoReceiptAssumption DEF Ledger, Applied, Has, IInv, TypeOK

\* The transitions of the store are those of the promise.
LEMMA WriteIsOnce ==
  ASSUME IInv, NEW p \in Procs, StoreWrite(p), NEW k \in Keys, k = KeyOf(p),
         receipts[k] \in Receipt, verb[p] \in Verbs,
         receipts[k].state = Source(verb[p])
  PROVE  Once!Next
<1>1. Target(verb[p]) \in ReceiptStates
  BY DEF Target, ReceiptStates, Verbs
<1>2. Moved(receipts[k], verb[p]) \in Receipt
      /\ Moved(receipts[k], verb[p]).state = Target(verb[p])
  BY <1>1, MovedType DEF Moved, Receipt
<1>3. /\ receipts' = [receipts EXCEPT ![k] = Moved(receipts[k], verb[p])]
      /\ UNCHANGED effects
  BY DEF StoreWrite
<1>4. /\ Ledger' = [Ledger EXCEPT ![k] = Target(verb[p])]
      /\ Applied' = Applied
  BY <1>2, <1>3, LedgerMoves
<1>5. Ledger[k] = Source(verb[p])
  BY NoReceiptAssumption DEF Ledger, Has
<1>6. ASSUME NEW from, NEW to, from = Source(verb[p]), to = Target(verb[p])
      PROVE  Once!Become(k, from, to)
  BY <1>4, <1>5, <1>6 DEF Once!Become, Ledger, Applied
<1>7. Once!Commit(k) \/ Once!Fail(k) \/ Once!Reopen(k)
  <2>1. CASE verb[p] = "commit"
    BY <1>6, <2>1 DEF Once!Commit, Source, Target
  <2>2. CASE verb[p] = "fail"
    BY <1>6, <2>2 DEF Once!Fail, Source, Target
  <2>3. CASE verb[p] = "retry"
    BY <1>6, <2>3 DEF Once!Reopen, Source, Target
  <2> QED
    BY <2>1, <2>2, <2>3 DEF Verbs
<1> QED
  BY <1>7 DEF Once!Next

LEMMA ReserveIsOnce ==
  ASSUME IInv, NEW r \in Runs, Knows(r), Reserve(r)
  PROVE  Once!Next
<1> DEFINE fresh == [req |-> call[r].req, state |-> "started", attempts |-> 1]
<1>1. pc[r] = "reserve" /\ effects' = effects
  BY DEF Reserve, At
<1>2. PICK k \in Keys : k = call[r].key /\ receipts[k] = NoReceipt
  BY <1>1 DEF IInv, Identified, Knows
<1>3. receipts' = [receipts EXCEPT ![k] = fresh]
  BY <1>2 DEF Reserve, Has
<1>4. fresh \in Receipt /\ fresh.state = "started"
  BY ConstantsAssumption DEF IInv, TypeOK, Receipt, ReceiptStates
<1>5. Ledger' = [Ledger EXCEPT ![k] = "started"] /\ Applied' = Applied
  BY <1>1, <1>2, <1>3, <1>4, LedgerMoves
<1>6. Ledger[k] = "none"
  BY <1>2 DEF Ledger, Has
<1>7. Once!Announce(k)
  BY <1>5, <1>6 DEF Once!Announce, Once!Become, Ledger, Applied
<1> QED
  BY <1>2, <1>7 DEF Once!Next

LEMMA EffectIsOnce ==
  ASSUME IInv, NEW r \in Runs, Knows(r), pc[r] = "handler",
         call[r].req \in SideEffecting, Apply(r), UNCHANGED receipts
  PROVE  Once!Next
<1> DEFINE e == [run |-> r, req |-> call[r].req]
<1>1. PICK k \in Keys :
        /\ k = call[r].key /\ receipts[k] # NoReceipt /\ effects[k] = <<>>
        /\ receipts[k].state = "started"
  BY DEF IInv, Reserved, Knows
<1>2. effects' = [effects EXCEPT ![k] = <<e>>]
  BY <1>1 DEF Apply
<1>3. /\ Ledger' = Ledger /\ Ledger[k] = "started" /\ Applied[k] = 0
  BY <1>1 DEF Ledger, Applied, Has
<1>4. Applied' = [Applied EXCEPT ![k] = 1]
  <2>1. ASSUME NEW x \in Keys
        PROVE  Len(effects'[x]) = IF x = k THEN 1 ELSE Len(effects[x])
    BY <1>2 DEF IInv, TypeOK
  <2> QED
    BY <2>1 DEF Applied
<1>5. Once!Happen(k)
  BY <1>3, <1>4 DEF Once!Happen, Ledger, Applied
<1> QED
  BY <1>1, <1>5 DEF Once!Next

LEMMA OnceStep ==
  ASSUME IInv, AloneInv, [Next]_vars
  PROVE  Once!Next \/ UNCHANGED Once!vars
<1>0. CASE UNCHANGED <<receipts, effects>>
  BY <1>0 DEF Once!vars, Has
<1>1. ASSUME NEW r \in Runs, Propose(r) \/ RunStep(r) \/ Crash(r)
      PROVE  Once!Next \/ UNCHANGED <<receipts, effects>>
  <2>0. Knows(r)
    BY DEF AloneInv
  <2>1. CASE Reserve(r)
    BY <2>0, <2>1, ReserveIsOnce
  <2>2. CASE StoreWrite(r)
    <3>1. pc[r] = "write" /\ KeyOf(r) = call[r].key
      BY <2>2 DEF StoreWrite, At, KeyOf
    <3>2. /\ call[r].req \in SideEffecting /\ KeyOf(r) \in Keys
          /\ receipts[KeyOf(r)] \in Receipt /\ verb[r] \in Verbs /\ r \in Procs
      BY <3>1 DEF IInv, Identified, Reserved, TypeOK, Procs
    <3>3. receipts[KeyOf(r)].state = "started" /\ verb[r] \in {"commit", "fail"}
      BY <2>0, <3>1, <3>2 DEF Knows
    <3> QED
      BY <2>2, <3>2, <3>3, WriteIsOnce DEF Source
  <2>3. CASE HandlerReturns(r) \/ HandlerRaises(r)
    <3>1. pc[r] = "handler" /\ receipts' = receipts
      BY <2>3 DEF HandlerReturns, HandlerRaises, At
    <3>2. effects' = effects \/ (call[r].req \in SideEffecting /\ Apply(r))
      BY <2>3 DEF HandlerReturns, HandlerRaises
    <3> QED
      BY <2>0, <3>1, <3>2, EffectIsOnce
  <2>4. CASE ~(Reserve(r) \/ StoreWrite(r) \/ HandlerReturns(r) \/ HandlerRaises(r))
    BY <1>1, <2>4 DEF RunStep, Propose, Crash, GateDenies, GateAllows,
       ArgumentError, Validate, LookupFresh, LookupDenied, LookupSkip,
       NoteReserved, StoreCheck, Record, Finish, store
  <2> QED
    BY <2>1, <2>2, <2>3, <2>4
<1>2. ASSUME NEW o \in Operators, Decide(o) \/ OperatorStep(o) \/ Crash(o)
      PROVE  Once!Next \/ UNCHANGED <<receipts, effects>>
  <2>0. Decides(o) /\ effects' = effects /\ o \in Procs /\ verb[o] \in Verbs
        /\ KeyOf(o) = decision[o].key
    BY <1>2, OperatorActs, ConstantsAssumption
       DEF AloneInv, Procs, IInv, TypeOK, KeyOf
  <2>1. CASE receipts' # receipts
    BY <1>2, <2>0, <2>1, OperatorMoves, WriteIsOnce
  <2> QED
    BY <2>0, <2>1
<1> QED
  BY <1>0, <1>1, <1>2 DEF Next, vars

\* Receipts and effects keep the promise of OnceEffect as long as one run
\* works, whatever it proposes, wherever it or the operator dies, for any
\* number of keys, calls and retries.
THEOREM OneRunImplementsOnceEffect ==
  ASSUME ~LiveResolution, \A o, p \in Operators : o = p
  PROVE  Spec => ImplementsOnceEffectAlone
<1>1. Init => Once!Init
  BY DEF Init, Once!Init, Has
<1>2. IInv /\ Quiet /\ (Alone => AloneInv) /\ [Next]_vars
        => [Alone' => Once!Next \/ UNCHANGED Once!vars]_vars
  BY AloneStep, OnceStep
<1> QED
  BY <1>1, <1>2, WhileAlone, PTL DEF Spec, ImplementsOnceEffectAlone

-----------------------------------------------------------------------------
(* The gate *)

LEMMA LeastPosition ==
  ASSUME NEW T \in SUBSET Nat, T # {}
  PROVE  First(T) \in T
  <1> DEFINE R == OpToRel(<, Nat)
  <1>1. IsWellFoundedOn(R, Nat)
    BY NatLessThanWellFounded
  <1>2. \A m, n \in T : n < m => <<n, m>> \in R
    BY DEF OpToRel
  <1> HIDE DEF R
  <1>3. PICK m \in T : \A n \in T : ~(<<n, m>> \in R)
    BY <1>1, WFMin
  <1>4. \A n \in T : ~(n < m)
    BY <1>2, <1>3
  <1>5. \A n \in T : m <= n
    BY <1>4
  <1>6. QED
    BY <1>5 DEF First

\* What the gate may be asked of: any E.G.O.s, with any names and capabilities,
\* in any number, any rules and any tool, as far as their fields have a meaning.
IsWorld(w) ==
  /\ w.registered \in BOOLEAN /\ w.allowSideEffects \in BOOLEAN /\ w.engine \in BOOLEAN
  /\ \E n \in Nat : DOMAIN w.egos = 1..n
  /\ \A i \in DOMAIN w.egos :
       /\ w.egos[i].permissions.files \in
            {"none", "read", "workspace", "unrestricted", "absent"}
       /\ w.egos[i].permissions.flag \in BOOLEAN
  /\ w.tool.sideEffecting \in BOOLEAN
  /\ w.tool.needs.files \in {"-", "workspace"} /\ w.tool.needs.flag \in BOOLEAN
  /\ \A r \in w.policy : r.effect \in {"permit", "forbid"}

LEMMA PermissionsMean ==
  ASSUME NEW granted, NEW needed,
         granted.files \in {"none", "read", "workspace", "unrestricted", "absent"},
         needed.files \in {"-", "workspace"}
  PROVE  PermissionsAllow(granted, needed) <=>
           /\ needed.flag => granted.flag
           /\ needed.files = "workspace" => granted.files \in {"workspace", "unrestricted"}
  <1>1. needed.files # "-" => needed.files = "workspace"
    OBVIOUS
  <1>2. /\ Level("none", -1) = 0 /\ Level("read", -1) = 1 /\ Level("workspace", -1) = 2
        /\ Level("unrestricted", -1) = 3 /\ Level("absent", -1) = -1
        /\ Level("workspace", 10) = 2
    BY DEF Level
  <1>3. Level(granted.files, -1) >= Level("workspace", 10)
          <=> granted.files \in {"workspace", "unrestricted"}
    BY <1>2
  <1>4. QED
    BY <1>1, <1>3 DEF PermissionsAllow

\* The positions the gate goes through are those of the E.G.O.s that answer.
LEMMA AllowingAnswers ==
  ASSUME NEW w, IsWorld(w), NEW action
  PROVE  Allowing(w, action, FALSE) =
           {i \in DOMAIN w.egos : Answers(w, action, w.egos[i])}
  <1>1. ASSUME NEW i \in DOMAIN w.egos
        PROVE  i \in Allowing(w, action, FALSE) <=> Answers(w, action, w.egos[i])
    <2> DEFINE e == w.egos[i]
               matched == {r \in w.policy : RuleMatches(r, e, action, FALSE)}
    <2>1. matched = {r \in w.policy : /\ r.principal \in {"*", e.id}
                                      /\ r.resource \in {"*", ResourceOf(action)}
                                      /\ r.by \in {"anyone", action.by}}
      BY DEF RuleMatches, Matches
    <2>2. Verdict(w.policy, e, action, FALSE) = "explicit_permit"
            <=> matched # {} /\ \A r \in matched : r.effect = "permit"
      <3>1. \A r \in matched : r.effect \in {"permit", "forbid"}
        BY DEF IsWorld
      <3>2. Verdict(w.policy, e, action, FALSE) =
              IF {r \in matched : r.effect = "forbid"} # {} THEN "explicit_forbid"
              ELSE IF {r \in matched : r.effect = "permit"} # {} THEN "explicit_permit"
              ELSE "no_matching_permit"
        BY DEF Verdict
      <3> HIDE DEF matched
      <3>3. QED
        BY <3>1, <3>2
    <2>3. PermissionsAllow(e.permissions, w.tool.needs) <=>
            /\ w.tool.needs.flag => e.permissions.flag
            /\ w.tool.needs.files = "workspace" =>
                 e.permissions.files \in {"workspace", "unrestricted"}
      BY PermissionsMean DEF IsWorld
    <2>4. i \in Allowing(w, action, FALSE) <=>
            /\ w.tool.requires \subseteq e.provides
            /\ PermissionsAllow(e.permissions, w.tool.needs)
            /\ w.engine => Verdict(w.policy, e, action, FALSE) = "explicit_permit"
      BY DEF Allowing, Permitted, Capable
    <2>5. Answers(w, action, e) <=>
            /\ w.tool.requires \subseteq e.provides
            /\ w.tool.needs.flag => e.permissions.flag
            /\ w.tool.needs.files = "workspace" =>
                 e.permissions.files \in {"workspace", "unrestricted"}
            /\ w.engine => matched # {} /\ \A r \in matched : r.effect = "permit"
      BY <2>1 DEF Answers
    <2> HIDE DEF matched, e
    <2>6. QED
      BY <2>2, <2>3, <2>4, <2>5 DEF e
  <1>2. Allowing(w, action, FALSE) \subseteq DOMAIN w.egos
    BY DEF Allowing, Permitted, Capable
  <1>3. QED
    BY <1>1, <1>2

Reasons == {"unknown_tool", "side_effects_disabled", "missing_capability",
            "insufficient_permission", "policy_denied", "policy_no_permit"}

\* What a gate says, by the positions it goes through.
LEMMA Evaluated ==
  ASSUME NEW w, IsWorld(w), NEW action, NEW exposure
  PROVE  LET given == Evaluate(w, action, exposure)
             passes == /\ w.registered /\ (w.tool.sideEffecting => w.allowSideEffects)
                       /\ Allowing(w, action, exposure) # {}
         IN  /\ passes => /\ given.allowed
                          /\ \E i \in Allowing(w, action, exposure) : given.ego = w.egos[i].id
             /\ ~passes => ~given.allowed /\ given.reason \in Reasons
             /\ w.registered => given.reason # "unknown_tool"
  <1> DEFINE permitted == Permitted(w.egos, w.tool)
             allowing == Allowing(w, action, exposure)
             forbidden == \E i \in permitted :
                            Verdict(w.policy, w.egos[i], action, exposure) = "explicit_forbid"
  <1>1. allowing \subseteq permitted /\ permitted \subseteq Capable(w.egos, w.tool)
    BY DEF Allowing, Permitted
  <1>2. allowing # {} => First(allowing) \in allowing
    <2>1. Capable(w.egos, w.tool) \subseteq Nat
      BY DEF Capable, IsWorld
    <2>2. QED
      BY <1>1, <2>1, LeastPosition
  <1>3. Evaluate(w, action, exposure) =
          IF ~w.registered THEN Denied("unknown_tool")
          ELSE IF w.tool.sideEffecting /\ ~w.allowSideEffects THEN Denied("side_effects_disabled")
          ELSE IF Capable(w.egos, w.tool) = {} THEN Denied("missing_capability")
          ELSE IF permitted = {} THEN Denied("insufficient_permission")
          ELSE IF allowing # {}
               THEN [allowed |-> TRUE, reason |-> "allowed", ego |-> w.egos[First(allowing)].id]
          ELSE IF forbidden THEN Denied("policy_denied") ELSE Denied("policy_no_permit")
    BY DEF Evaluate
  <1> HIDE DEF permitted, allowing, forbidden
  <1>4. w.registered \in BOOLEAN /\ w.tool.sideEffecting \in BOOLEAN
        /\ w.allowSideEffects \in BOOLEAN
    BY DEF IsWorld
  <1>5. CASE w.registered /\ (w.tool.sideEffecting => w.allowSideEffects) /\ allowing # {}
    <2>1. Evaluate(w, action, exposure) =
            [allowed |-> TRUE, reason |-> "allowed", ego |-> w.egos[First(allowing)].id]
      BY <1>1, <1>3, <1>4, <1>5
    <2>2. QED
      BY <1>2, <1>5, <2>1 DEF allowing
  <1>6. CASE ~(w.registered /\ (w.tool.sideEffecting => w.allowSideEffects) /\ allowing # {})
    <2>1. \E reason \in Reasons : /\ Evaluate(w, action, exposure) = Denied(reason)
                                  /\ w.registered => reason # "unknown_tool"
      BY <1>1, <1>3, <1>4, <1>6 DEF Reasons
    <2>2. QED
      BY <1>6, <2>1 DEF Denied, allowing
  <1>7. QED
    BY <1>5, <1>6

\* An action reaches its handler exactly when one E.G.O. answers for all of it, and
\* is booked on one that does: for any selection, tool, policy and proposal.
THEOREM OneAnswers ==
  ASSUME NEW w, IsWorld(w), NEW action
  PROVE  LET given == Executed(w, action, "returns")
             able == {w.egos[i].id : i \in {j \in DOMAIN w.egos : Answers(w, action, w.egos[j])}}
         IN  IF w.registered /\ (w.tool.sideEffecting => w.allowSideEffects) /\ able # {}
             THEN given.status = "EXECUTED" /\ given.ego \in able
             ELSE given.status = "DENIED"
  <1> DEFINE verdict == Evaluate(w, action, FALSE)
             answering == {j \in DOMAIN w.egos : Answers(w, action, w.egos[j])}
             passes == /\ w.registered /\ (w.tool.sideEffecting => w.allowSideEffects)
                       /\ answering # {}
  <1>1. Allowing(w, action, FALSE) = answering
    BY AllowingAnswers
  <1>2. /\ passes => verdict.allowed /\ \E i \in answering : verdict.ego = w.egos[i].id
        /\ ~passes => ~verdict.allowed
    BY <1>1, Evaluated
  <1>3. /\ verdict.allowed => /\ Executed(w, action, "returns").status = "EXECUTED"
                              /\ Executed(w, action, "returns").ego = verdict.ego
        /\ ~verdict.allowed => Executed(w, action, "returns").status = "DENIED"
    BY DEF Executed, Raised
  <1> HIDE DEF verdict, answering
  <1>4. {w.egos[i].id : i \in answering} # {} <=> answering # {}
    OBVIOUS
  <1>5. QED
    BY <1>2, <1>3, <1>4 DEF answering

LEMMA Refusals ==
  ASSUME NEW reason \in Reasons
  PROVE  FailureFromGate(reason).retryable => reason = "unknown_tool"
  BY DEF Reasons, FailureFromGate, Failure

\* A rule that applies to a preflight as a whole applies to every action.
LEMMA PreflightPermits ==
  ASSUME NEW policy, NEW ego, NEW action,
         \A r \in policy : r.effect \in {"permit", "forbid"} /\ r.by = "anyone",
         Verdict(policy, ego, action, FALSE) = "explicit_permit"
  PROVE  Verdict(policy, ego, Preflight, TRUE) = "explicit_permit"
  <1> DEFINE matched == {r \in policy : RuleMatches(r, ego, action, FALSE)}
             shown == {r \in policy : RuleMatches(r, ego, Preflight, TRUE)}
  <1>1. \A r \in policy : r \in matched => r \in shown
    BY DEF RuleMatches
  <1>2. \A r \in shown : r.resource = "*" => r \in matched
    BY DEF RuleMatches, Matches
  <1>3. /\ Verdict(policy, ego, action, FALSE) =
             IF {r \in matched : r.effect = "forbid"} # {} THEN "explicit_forbid"
             ELSE IF {r \in matched : r.effect = "permit"} # {} THEN "explicit_permit"
             ELSE "no_matching_permit"
        /\ Verdict(policy, ego, Preflight, TRUE) =
             IF {r \in shown : r.effect = "forbid" /\ r.resource = "*"} # {}
             THEN "explicit_forbid"
             ELSE IF {r \in shown : r.effect = "permit"} # {} THEN "explicit_permit"
             ELSE "no_matching_permit"
    BY DEF Verdict
  <1>4. matched \subseteq policy
    OBVIOUS
  <1> HIDE DEF matched, shown
  <1>5. {r \in matched : r.effect = "forbid"} = {} /\ {r \in matched : r.effect = "permit"} # {}
    BY <1>3
  <1>6. QED
    BY <1>1, <1>2, <1>3, <1>4, <1>5

\* A tool that is hidden from the model is one that no argument makes executable,
\* and a refusal to retry only if it is not registered: for any selection and tool
\* and any policy that names no requester.
THEOREM HiddenIsUseless ==
  ASSUME NEW w, IsWorld(w), \A r \in w.policy : r.by = "anyone", ~Shown(w), NEW action
  PROVE  LET given == Executed(w, action, "returns")
         IN  given.status = "DENIED" /\ (given.failure.retryable => ~w.registered)
  <1> DEFINE verdict == Evaluate(w, action, FALSE)
  <1>1. Allowing(w, action, FALSE) \subseteq Allowing(w, Preflight, TRUE)
    <2>1. \A i \in DOMAIN w.egos :
            Verdict(w.policy, w.egos[i], action, FALSE) = "explicit_permit"
              => Verdict(w.policy, w.egos[i], Preflight, TRUE) = "explicit_permit"
      BY PreflightPermits DEF IsWorld
    <2>2. QED
      BY <2>1 DEF Allowing, Permitted, Capable
  <1>2. ~(/\ w.registered /\ (w.tool.sideEffecting => w.allowSideEffects)
          /\ Allowing(w, Preflight, TRUE) # {})
    BY Evaluated DEF Shown
  <1>3. ~verdict.allowed /\ verdict.reason \in Reasons
        /\ (w.registered => verdict.reason # "unknown_tool")
    BY <1>1, <1>2, Evaluated
  <1>4. Executed(w, action, "returns") =
          [status |-> "DENIED", ego |-> verdict.ego,
           failure |-> FailureFromGate(verdict.reason)]
    BY <1>3 DEF Executed
  <1> HIDE DEF verdict
  <1>5. QED
    BY <1>3, <1>4, Refusals

LEMMA WorldsAre == \A w \in Worlds : IsWorld(w)
  <1>1. ASSUME NEW egos \in Selections
        PROVE  /\ \E n \in Nat : DOMAIN egos = 1..n
               /\ \A i \in DOMAIN egos : egos[i].permissions \in Grants
    <2>1. CASE egos = <<>>
      BY <2>1
    <2>2. CASE egos # <<>>
      <3>1. \/ \E a \in EgosNamed("a") : egos = <<a>>
            \/ \E a \in EgosNamed("a"), b \in EgosNamed("b") : egos = <<a, b>>
        BY <2>2 DEF Selections
      <3>2. \A id : \A e \in EgosNamed(id) : e.permissions \in Grants
        BY DEF EgosNamed
      <3>3. CASE \E a \in EgosNamed("a") : egos = <<a>>
        <4>1. PICK a \in EgosNamed("a") : egos = <<a>>
          BY <3>3
        <4>2. 1 \in Nat /\ DOMAIN egos = 1..1 /\ \A i \in DOMAIN egos : egos[i] = a
          BY <4>1
        <4>3. QED
          BY <3>2, <4>2
      <3>4. CASE \E a \in EgosNamed("a"), b \in EgosNamed("b") : egos = <<a, b>>
        <4>1. PICK a \in EgosNamed("a"), b \in EgosNamed("b") : egos = <<a, b>>
          BY <3>4
        <4>2. 2 \in Nat /\ DOMAIN egos = 1..2 /\ \A i \in DOMAIN egos : egos[i] \in {a, b}
          BY <4>1
        <4>3. QED
          BY <3>2, <4>2
      <3>5. QED
        BY <3>1, <3>3, <3>4
    <2>3. QED
      BY <2>1, <2>2
  <1>2. \A g \in Grants :
          g.files \in {"none", "read", "workspace", "unrestricted", "absent"} /\ g.flag \in BOOLEAN
    <2>1. ASSUME NEW files \in {"read", "workspace", "absent"}, NEW flag \in BOOLEAN,
                 NEW g, g = [files |-> files, flag |-> flag]
          PROVE  g.files = files /\ g.flag = flag
      BY <2>1, Zenon
    <2>2. \A g \in Grants : \E files \in {"read", "workspace", "absent"}, flag \in BOOLEAN :
            g = [files |-> files, flag |-> flag]
      BY Zenon DEF Grants
    <2>3. \A g \in Grants : \E files \in {"read", "workspace", "absent"}, flag \in BOOLEAN :
            g.files = files /\ g.flag = flag
      BY <2>1, <2>2
    <2>4. QED
      BY <2>3, Zenon
  <1>3. \A policy \in Policies : \A r \in policy : r.effect \in {"permit", "forbid"}
    BY DEF Policies, Rules
  <1>4. \A tool \in ToolSet : /\ tool.sideEffecting \in BOOLEAN
                              /\ tool.needs.files \in {"-", "workspace"}
                              /\ tool.needs.flag \in BOOLEAN
    <2>1. ASSUME NEW files \in {"-", "workspace"}, NEW flag \in BOOLEAN,
                 NEW g, g = [files |-> files, flag |-> flag]
          PROVE  g.files = files /\ g.flag = flag
      BY <2>1, Zenon
    <2>2. \A tool \in ToolSet :
            \E files \in {"-", "workspace"}, flag \in BOOLEAN :
              tool.needs = [files |-> files, flag |-> flag]
      BY Zenon DEF ToolSet
    <2>3. \A tool \in ToolSet :
            \E files \in {"-", "workspace"}, flag \in BOOLEAN :
              tool.needs.files = files /\ tool.needs.flag = flag
      BY <2>1, <2>2
    <2>4. \A tool \in ToolSet : tool.sideEffecting \in BOOLEAN
      BY Zenon DEF ToolSet
    <2>5. QED
      BY <2>3, <2>4, Zenon
  <1>5. \A w \in Worlds :
          /\ w.registered \in BOOLEAN /\ w.allowSideEffects \in BOOLEAN /\ w.engine \in BOOLEAN
          /\ w.egos \in Selections /\ w.tool \in ToolSet /\ w.policy \in Policies
    <2>1. {} \in Policies
      BY DEF Policies
    <2>2. QED
      BY <2>1 DEF Worlds
  <1>6. QED
    BY <1>1, <1>2, <1>3, <1>4, <1>5 DEF IsWorld

LEMMA GateAnswers == HasOneAnswerable
  BY WorldsAre, OneAnswers DEF HasOneAnswerable

LEMMA GateHides == HidesOnlyTheUseless
  BY WorldsAre, HiddenIsUseless DEF HidesOnlyTheUseless

\* Hence in every state: a run at its gate is let through exactly when one selected
\* E.G.O. answers for all that its action needs.
THEOREM EgosAnswer == Spec => []OneEgoAnswers
  <1>1. OneEgoAnswers
    BY GateAnswers DEF OneEgoAnswers
  <1>2. QED
    BY <1>1, PTL

\* ... and is refused what was hidden from its model.
THEOREM HiddenAreRefused == Spec => []HiddenIsRefused
  <1>1. HiddenIsRefused
    BY GateHides DEF HiddenIsRefused
  <1>2. QED
    BY <1>1, PTL
=============================================================================
