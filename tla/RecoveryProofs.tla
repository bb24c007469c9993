--------------------------- MODULE RecoveryProofs ---------------------------
(***************************************************************************)
(* Proofs about coming back: to an identity from a bundle (Restore), for    *)
(* any number of writes and restores, and to a run from a crash             *)
(* (CrashRecovery), for any requests, keys and number of crashes; and about *)
(* what the engine of that run is shown (ContextBudget), for lists of any   *)
(* length and any budget.                                                   *)
(*                                                                         *)
(* The argument for a bundle and that for a restore are the same.  A write  *)
(* makes a store newer than everything (NumbersKnown), so a store that is   *)
(* found as it was has been so all the time between: what is read at two    *)
(* moments and is the same tells what was there at any moment between them. *)
(* For a bundle the moments are the snapshot and the archive, for a restore *)
(* the staging (or the plan, of what is left alone) and the validation.     *)
(*                                                                         *)
(* A request has one checkpoint because one is put only where there was     *)
(* none when its verdict was read, and nobody else puts one for it; others  *)
(* are told that its work was done only from there on (Once).  Work that    *)
(* was executed and not verified is the last event of the journal and no    *)
(* effect is uncertain beside it (Pending), so the directive, which looks   *)
(* at nothing else, is about it - as long as a request has one action and   *)
(* an uncertain effect is never declared committed.                         *)
(*                                                                         *)
(* The two programs that cut a delivery are the same kind of program: every *)
(* round trims an item, drops one that may go, or finds that nothing may go *)
(* (Round), so what no round takes is there in the end (Guarded, Distinct), *)
(* and as every round takes a character the program ends with what fits or  *)
(* with what may not be taken (Bare).  The rest of a pack is shed list by   *)
(* list, each not while the pack fits and down to its floor if it does not  *)
(* fit after (Sheds): if the last does not fit, all are at their floors.    *)
(***************************************************************************)
EXTENDS Restore, EngineContext, FiniteSetTheorems, WellFoundedInduction, TLAPS
LOCAL ST == INSTANCE SequenceTheorems

OpSet == [step : Steps, at : 1..7, restores : 0..MaxRestores, needs : SUBSET Parts,
          outcome : {"none", "built", "blocked", "failed", "applied"},
          staged : [Refs -> Stores], old : [Refs -> Stores]]

-----------------------------------------------------------------------------
(* The orders *)

LEMMA SnapshotParts ==
  /\ Len(SnapshotOrder) = 4
  /\ \A i \in 1..4 : SnapshotOrder[i] \in Written
  /\ \A i, j \in 1..4 : SnapshotOrder[i] = SnapshotOrder[j] => i = j
  /\ \A part \in Written : \E i \in 1..4 : part = SnapshotOrder[i]
  /\ SnapshotOrder[4] = "state" /\ SnapshotOrder[1] = "memory"
  BY DEF SnapshotOrder, Written

LEMMA ArchiveParts ==
  /\ Len(ArchiveOrder) = 3
  /\ \A i \in 1..3 : ArchiveOrder[i] \in Written \ {"state"}
  /\ \A i, j \in 1..3 : ArchiveOrder[i] = ArchiveOrder[j] => i = j
  /\ \A part \in Written \ {"state"} : \E i \in 1..3 : part = ArchiveOrder[i]
  BY DEF ArchiveOrder, Written

LEMMA StageParts ==
  /\ Len(StageOrder) = 5
  /\ \A i \in 1..5 : StageOrder[i] \in Parts
  /\ \A i, j \in 1..5 : StageOrder[i] = StageOrder[j] => i = j
  /\ \A part \in Parts : \E i \in 1..5 : part = StageOrder[i]
  BY DEF StageOrder, Parts

\* The place of a reference in SwapOrder.
Place(ref) == CHOOSE i \in 1..7 : SwapOrder[i] = ref

LEMMA SwapRefs ==
  /\ Len(SwapOrder) = 7
  /\ \A i \in 1..7 : SwapOrder[i] \in Refs /\ Place(SwapOrder[i]) = i
  /\ \A ref \in Refs : Place(ref) \in 1..7 /\ SwapOrder[Place(ref)] = ref
<1>1. Len(SwapOrder) = 7
  BY DEF SwapOrder
<1>2. /\ \A i \in 1..7 : SwapOrder[i] \in Refs
      /\ \A i, j \in 1..7 : SwapOrder[i] = SwapOrder[j] => i = j
  BY DEF SwapOrder, Refs, Parts
<1>3. \A ref \in Refs : \E i \in 1..7 : SwapOrder[i] = ref
  <2>1. /\ SwapOrder[1] = "identity" /\ SwapOrder[2] = "state" /\ SwapOrder[3] = "memory"
        /\ SwapOrder[4] = "egos" /\ SwapOrder[5] = "library" /\ SwapOrder[6] = "retriever"
        /\ SwapOrder[7] = "pipeline"
    BY DEF SwapOrder
  <2> QED
    BY <2>1 DEF Refs, Parts
<1>4. \A ref \in Refs : Place(ref) \in 1..7 /\ SwapOrder[Place(ref)] = ref
  BY <1>3 DEF Place
<1> QED
  BY <1>1, <1>2, <1>4

-----------------------------------------------------------------------------
(* The operator's thread *)

Moved(step, at) == [op EXCEPT !.step = step, !.at = at]

Planned(step, at, needs, staged) ==
  [op EXCEPT !.step = step, !.at = at, !.needs = needs, !.staged = staged]

Ahead(at) == [op EXCEPT !.at = at]

LEMMA AheadType ==
  ASSUME op \in OpSet, NEW at \in 1..7
  PROVE  /\ Ahead(at) \in OpSet
         /\ Ahead(at).step = op.step /\ Ahead(at).at = at
         /\ Ahead(at).outcome = op.outcome /\ Ahead(at).restores = op.restores
         /\ Ahead(at).needs = op.needs
         /\ Ahead(at).staged = op.staged /\ Ahead(at).old = op.old
  BY DEF OpSet, Ahead

Compared(at, needs) == [op EXCEPT !.at = at, !.needs = needs]

Swapped(at, old) == [op EXCEPT !.at = at, !.old = old]

LEMMA MovedType ==
  ASSUME op \in OpSet, NEW step \in Steps, NEW at \in 1..7
  PROVE  /\ Moved(step, at) \in OpSet
         /\ Moved(step, at).step = step /\ Moved(step, at).at = at
         /\ Moved(step, at).outcome = op.outcome /\ Moved(step, at).restores = op.restores
         /\ Moved(step, at).needs = op.needs
         /\ Moved(step, at).staged = op.staged /\ Moved(step, at).old = op.old
  BY DEF OpSet, Moved

LEMMA PlannedType ==
  ASSUME op \in OpSet, NEW step \in Steps, NEW at \in 1..7, NEW needs \in SUBSET Parts,
         NEW staged \in [Refs -> Stores]
  PROVE  /\ Planned(step, at, needs, staged) \in OpSet
         /\ Planned(step, at, needs, staged).step = step
         /\ Planned(step, at, needs, staged).at = at
         /\ Planned(step, at, needs, staged).outcome = op.outcome
         /\ Planned(step, at, needs, staged).restores = op.restores
         /\ Planned(step, at, needs, staged).needs = needs
         /\ Planned(step, at, needs, staged).staged = staged
  BY DEF OpSet, Planned

LEMMA ComparedType ==
  ASSUME op \in OpSet, NEW at \in 1..7, NEW needs \in SUBSET Parts
  PROVE  /\ Compared(at, needs) \in OpSet
         /\ Compared(at, needs).step = op.step /\ Compared(at, needs).at = at
         /\ Compared(at, needs).outcome = op.outcome
         /\ Compared(at, needs).restores = op.restores
         /\ Compared(at, needs).needs = needs
  BY DEF OpSet, Compared

LEMMA SwappedType ==
  ASSUME op \in OpSet, NEW at \in 1..7, NEW old \in [Refs -> Stores]
  PROVE  /\ Swapped(at, old) \in OpSet
         /\ Swapped(at, old).step = op.step /\ Swapped(at, old).at = at
         /\ Swapped(at, old).outcome = op.outcome
         /\ Swapped(at, old).restores = op.restores
         /\ Swapped(at, old).needs = op.needs
         /\ Swapped(at, old).staged = op.staged /\ Swapped(at, old).old = old
  BY DEF OpSet, Swapped

Outcomes == {"none", "built", "blocked", "failed", "applied"}

LEMMA NoOpType ==
  ASSUME NEW outcome \in Outcomes, NEW restores \in 0..MaxRestores
  PROVE  /\ NoOp(outcome, restores) \in OpSet
         /\ NoOp(outcome, restores).step = "idle" /\ NoOp(outcome, restores).at = 1
         /\ NoOp(outcome, restores).outcome = outcome
         /\ NoOp(outcome, restores).restores = restores
<1>1. 0 \in Stores /\ {} \in SUBSET Parts /\ 1 \in 1..7 /\ "idle" \in Steps
  BY ConstantsAssumption DEF Stores, Steps
<1>2. NoOp(outcome, restores) \in OpSet
  BY <1>1 DEF NoOp, OpSet, Outcomes
<1>3. /\ NoOp(outcome, restores).step = "idle" /\ NoOp(outcome, restores).at = 1
      /\ NoOp(outcome, restores).outcome = outcome
      /\ NoOp(outcome, restores).restores = restores
  BY DEF NoOp
<1> QED
  BY <1>2, <1>3

\* The first step of an operation.
Begun(step, restores) == [NoOp("none", restores) EXCEPT !.step = step]

LEMMA BegunType ==
  ASSUME NEW restores \in 0..MaxRestores, NEW step \in Steps
  PROVE  /\ Begun(step, restores) \in OpSet
         /\ Begun(step, restores).step = step /\ Begun(step, restores).at = 1
         /\ Begun(step, restores).outcome = "none"
         /\ Begun(step, restores).restores = restores
<1>1. ASSUME NEW o \in OpSet
      PROVE  /\ [o EXCEPT !.step = step] \in OpSet
             /\ [o EXCEPT !.step = step].step = step
             /\ [o EXCEPT !.step = step].at = o.at
             /\ [o EXCEPT !.step = step].outcome = o.outcome
             /\ [o EXCEPT !.step = step].restores = o.restores
  BY DEF OpSet
<1>2. "none" \in Outcomes
  BY DEF Outcomes
<1> QED
  BY <1>1, <1>2, NoOpType DEF Begun

-----------------------------------------------------------------------------
(* The invariant *)

\* No store holds, and no bundle refers to, what is yet to be written.
NumbersKnown ==
  /\ \A part \in Written, id \in Stores : store[part][id] <= writes + 1
  /\ \A part \in Written : bundle.held[part] <= writes + 1
  /\ writer = NoWrite \/ (writer.part \in Written /\ writes < MaxWrites)

\* Only a thread that does nothing has an outcome.
OutcomeFits == At("idle") \/ op.outcome = "none"

\* What has been read for the snapshot was there, and is or has been overwritten.
SnapshotFits ==
  At("snapshot") =>
    /\ op.at \in 1..4
    /\ \A i \in 1..4 : i < op.at => bundle.held[SnapshotOrder[i]] <= Held(SnapshotOrder[i])

\* What has been archived was there at the instant of the snapshot.
ArchiveFits ==
  At("archive") =>
    /\ op.at \in 1..3
    /\ bundle.held.state = instant.state /\ bundle.held.identity = instant.identity
    /\ \A part \in Written \ {"state"} :
         bundle.held[part] <= instant[part] /\ instant[part] <= Held(part)
    /\ \A i \in 1..3 : i < op.at => bundle.held[ArchiveOrder[i]] = instant[ArchiveOrder[i]]

Agrees(refs) == refs["pipeline"] = refs["memory"] /\ refs["retriever"] = refs["library"]

\* Until a restore begins to set references it changes none.
PlanFits ==
  At("plan") =>
    /\ op.at \in 1..4 /\ before = runtime /\ Agrees(before)
    /\ \A i \in 1..4 : i < op.at /\ SnapshotOrder[i] \notin op.needs =>
         store[SnapshotOrder[i]][before[SnapshotOrder[i]]] >= bundle.held[SnapshotOrder[i]]

\* A part that is staged has what the bundle has, or something newer by now.
IsStaged(part) ==
  /\ store[part][op.staged[part]] >= bundle.held[part]
  /\ part = "identity" => store[part][op.staged[part]] = bundle.held[part]
  /\ part = "library" /\ part \notin op.needs => op.staged[part] = before[part]

StageFits ==
  At("stage") =>
    /\ op.at \in 1..5 /\ before = runtime /\ Agrees(before)
    /\ \A part \in Written \ op.needs : store[part][before[part]] >= bundle.held[part]
    /\ \A i \in 1..5 : IF i < op.at THEN IsStaged(StageOrder[i])
                       ELSE op.staged[StageOrder[i]] = op.restores

\* What a reference is set to, in terms of what it was.
Target(ref) ==
  CASE ref = "pipeline" -> op.staged["memory"]
    [] ref \in {"library", "retriever"} ->
         IF "library" \in op.needs THEN op.staged["library"] ELSE before[ref]
    [] OTHER -> op.staged[ref]

AllStaged == Agrees(before) /\ \A part \in Parts : IsStaged(part)

\* The references are set one after the other ...
SwapFits ==
  At("swap") =>
    /\ op.at \in 1..7 /\ AllStaged
    /\ op.at > 1 => op.old = before
    /\ \A ref \in Refs : runtime[ref] = IF Place(ref) < op.at THEN Target(ref) ELSE before[ref]

IsSet == AllStaged /\ op.old = before /\ \A ref \in Refs : runtime[ref] = Target(ref)

\* Was a part as in the bundle at the instant of the validation?
Whole(part) ==
  (part = "library" /\ bundle.held["library"] = Absent) \/ instant[part] = bundle.held[part]

\* ... and validated one after the other ...
ValidateFits ==
  At("validate") =>
    /\ op.at \in 1..4 /\ IsSet
    /\ op.at > 1 =>
         /\ instant["identity"] = bundle.held["identity"]
         /\ \A part \in Written :
              bundle.held[part] <= instant[part] /\ instant[part] <= Held(part)
    /\ \A i \in 1..4 : i < op.at => Whole(SnapshotOrder[i])

FingerprintFits ==
  At("fingerprint") => op.at \in 1..4 /\ IsSet /\ \A part \in Parts : Whole(part)

\* ... and set back one after the other.
UndoFits ==
  At("undo") =>
    /\ op.at \in 1..7 /\ op.old = before /\ Agrees(before)
    /\ \A ref \in Refs : Place(ref) < op.at => runtime[ref] = before[ref]

\* The outcome tells what has become of it.
IdleFits ==
  At("idle") =>
    /\ Agrees(runtime)
    /\ op.outcome \in {"failed", "blocked"} => runtime = before
    /\ op.outcome = "built" => bundle.held = instant
    /\ op.outcome = "applied" => \A part \in Parts : Whole(part)

BuildFits == At("snapshot") \/ At("archive") => Agrees(runtime)

Fit ==
  /\ TypeOK /\ NumbersKnown /\ OutcomeFits
  /\ SnapshotFits /\ ArchiveFits /\ BuildFits
  /\ PlanFits /\ StageFits /\ SwapFits /\ ValidateFits /\ FingerprintFits /\ UndoFits
  /\ IdleFits

\* The parts of the invariant that a step does not lead to hold at its end.
LEMMA Elsewhere ==
  /\ ~At("snapshot")' => SnapshotFits'
  /\ ~At("archive")' => ArchiveFits'
  /\ ~At("snapshot")' /\ ~At("archive")' => BuildFits'
  /\ ~At("plan")' => PlanFits'
  /\ ~At("stage")' => StageFits'
  /\ ~At("swap")' => SwapFits'
  /\ ~At("validate")' => ValidateFits'
  /\ ~At("fingerprint")' => FingerprintFits'
  /\ ~At("undo")' => UndoFits'
  /\ ~At("idle")' => IdleFits'
  BY DEF SnapshotFits, ArchiveFits, BuildFits, PlanFits, StageFits, SwapFits, ValidateFits,
     FingerprintFits, UndoFits, IdleFits

\* Types, in the form in which the steps need them.
LEMMA Types ==
  ASSUME TypeOK
  PROVE  /\ op \in OpSet /\ op.step \in Steps /\ op.at \in 1..7 /\ op.needs \in SUBSET Parts
         /\ op.restores \in 0..MaxRestores /\ op.restores \in Stores
         /\ op.staged \in [Refs -> Stores] /\ op.old \in [Refs -> Stores]
         /\ runtime \in [Refs -> Stores] /\ before \in [Refs -> Stores]
         /\ store \in [Parts -> [Stores -> Contents]]
         /\ \A part \in Parts, id \in Stores : store[part][id] \in Contents
         /\ \A part \in Parts : /\ part \in Refs /\ Held(part) \in Contents
                                /\ bundle.held[part] \in Contents /\ instant[part] \in Contents
         /\ bundle.held \in [Parts -> Contents] /\ instant \in [Parts -> Contents]
         /\ writes \in 0..MaxWrites /\ Contents \subseteq Nat /\ Written \subseteq Parts
         /\ "identity" \in Parts /\ "memory" \in Parts /\ "state" \in Parts
         /\ "library" \in Parts /\ "pipeline" \in Refs /\ "retriever" \in Refs
<1>1. /\ op \in OpSet /\ runtime \in [Refs -> Stores] /\ before \in [Refs -> Stores]
      /\ store \in [Parts -> [Stores -> Contents]] /\ writes \in 0..MaxWrites
      /\ instant \in [Parts -> Contents] /\ bundle.held \in [Parts -> Contents]
  BY DEF TypeOK, OpSet
<1>2. /\ op.step \in Steps /\ op.at \in 1..7 /\ op.needs \in SUBSET Parts
      /\ op.restores \in 0..MaxRestores
      /\ op.staged \in [Refs -> Stores] /\ op.old \in [Refs -> Stores]
  BY <1>1 DEF OpSet
<1>3. op.restores \in Stores /\ Contents \subseteq Nat
  BY <1>2, ConstantsAssumption DEF Stores, Contents
<1>4. /\ Parts \subseteq Refs /\ Written \subseteq Parts
      /\ "identity" \in Parts /\ "memory" \in Parts /\ "state" \in Parts
      /\ "library" \in Parts /\ "pipeline" \in Refs /\ "retriever" \in Refs
  BY DEF Refs, Parts, Written
<1>5. \A part \in Parts, id \in Stores : store[part][id] \in Contents
  BY <1>1
<1>6. \A part \in Parts : /\ part \in Refs /\ Held(part) \in Contents
                          /\ bundle.held[part] \in Contents /\ instant[part] \in Contents
  BY <1>1, <1>4, <1>5 DEF Held
<1> QED
  BY <1>1, <1>2, <1>3, <1>4, <1>5, <1>6

-----------------------------------------------------------------------------
(* Requests *)

LEMMA WriteGrows ==
  ASSUME Fit, Write
  PROVE  /\ TypeOK' /\ NumbersKnown'
         /\ \A part \in Parts, id \in Stores : store'[part][id] >= store[part][id]
         /\ store'["identity"] = store["identity"]
         /\ \A part \in Parts : Held(part)' >= Held(part)
<1>0. TypeOK /\ NumbersKnown
  BY DEF Fit
<1>1. /\ writer.part \in Written /\ writes < MaxWrites /\ writer.target \in Stores
      /\ writer.part # "identity"
  BY <1>0 DEF Write, NumbersKnown, TypeOK, Written
<1>2. store' = [store EXCEPT ![writer.part] =
                  [store[writer.part] EXCEPT ![writer.target] = writes + 2]]
  BY <1>0, <1>1 DEF Write
<1>3. writes + 2 \in Contents /\ writes' = writes + 1 /\ writes' \in 0..MaxWrites
  BY <1>0, <1>1, Types, ConstantsAssumption DEF Write, Contents
<1>4. store' \in [Parts -> [Stores -> Contents]]
  BY <1>0, <1>1, <1>2, <1>3, Types
<1>5. ASSUME NEW part \in Parts, NEW id \in Stores
      PROVE  /\ store'[part][id] = IF part = writer.part /\ id = writer.target
                                   THEN writes + 2 ELSE store[part][id]
             /\ store[part][id] \in Nat
             /\ part \in Written => store[part][id] <= writes + 1
  BY <1>0, <1>1, <1>2, Types DEF NumbersKnown
<1>6. \A part \in Parts, id \in Stores : store'[part][id] >= store[part][id]
  <2>1. writes \in Nat
    BY <1>0, Types, ConstantsAssumption
  <2> QED
    BY <1>1, <1>5, <2>1
<1>7. store'["identity"] = store["identity"]
  BY <1>0, <1>1, <1>2, Types
<1>8. NumbersKnown'
  <2>1. writes \in Nat
    BY <1>0, Types, ConstantsAssumption
  <2>2. writer' = NoWrite /\ bundle' = bundle
    BY DEF Write
  <2>3. \A part \in Written, id \in Stores : store'[part][id] <= writes' + 1
    BY <1>0, <1>3, <1>5, <2>1, Types
  <2>4. \A part \in Written : bundle'.held[part] <= writes' + 1
    BY <1>0, <1>3, <2>1, <2>2, Types DEF NumbersKnown
  <2> QED
    BY <2>2, <2>3, <2>4 DEF NumbersKnown
<1>9. TypeOK'
  <2>1. NoWrite \in [part : Written \cup {"none"}, target : Stores]
    BY ConstantsAssumption DEF NoWrite, Stores
  <2> QED
    BY <1>0, <1>3, <1>4, <2>1 DEF TypeOK, Write
<1>10. \A part \in Parts : Held(part)' >= Held(part)
  BY <1>0, <1>6, Types DEF Held, Write
<1> QED
  BY <1>6, <1>7, <1>8, <1>9, <1>10

LEMMA FitWrite == Fit /\ Write => Fit'
<1> SUFFICES ASSUME Fit, Write PROVE Fit'
  OBVIOUS
<1>1. /\ TypeOK' /\ NumbersKnown'
      /\ \A part \in Parts, id \in Stores : store'[part][id] >= store[part][id]
      /\ store'["identity"] = store["identity"]
      /\ \A part \in Parts : Held(part)' >= Held(part)
  BY WriteGrows
<1>2. UNCHANGED <<runtime, bundle, op, before, instant>>
  BY DEF Write
<1>3. /\ TypeOK /\ \A part \in Parts, id \in Stores : store'[part][id] \in Nat /\ store[part][id] \in Nat
      /\ \A part \in Parts : /\ Held(part)' \in Nat /\ Held(part) \in Nat
                             /\ bundle.held[part] \in Nat /\ instant[part] \in Nat
  <2>1. TypeOK
    BY DEF Fit
  <2>2. store' \in [Parts -> [Stores -> Contents]]
    BY <1>1 DEF TypeOK
  <2>3. \A part \in Parts : Held(part)' \in Nat
    BY <1>2, <2>1, <2>2, Types DEF Held
  <2> QED
    BY <2>1, <2>2, <2>3, Types
<1>4. \A step \in Steps : At(step)' <=> At(step)
  BY <1>2 DEF At
<1>5. OutcomeFits' /\ BuildFits' /\ IdleFits' /\ UndoFits'
  BY <1>2 DEF Fit, OutcomeFits, BuildFits, IdleFits, UndoFits, At, Whole, Agrees
<1>6. SnapshotFits'
  BY <1>1, <1>2, <1>3, SnapshotParts, Types DEF Fit, SnapshotFits, At
<1>7. ArchiveFits'
  BY <1>1, <1>2, <1>3, Types DEF Fit, ArchiveFits, At
<1>8. PlanFits'
  <2>1. ASSUME At("plan")
        PROVE  \A i \in 1..4 : /\ SnapshotOrder[i] \in Parts
                               /\ before[SnapshotOrder[i]] \in Stores
    BY <1>3, SnapshotParts, Types
  <2> QED
    BY <1>1, <1>2, <1>3, <2>1, Types DEF Fit, PlanFits, At
<1>9. \A part \in Parts : IsStaged(part) => IsStaged(part)'
  <2>1. ASSUME NEW part \in Parts, IsStaged(part) PROVE IsStaged(part)'
    <3>1. op.staged[part] \in Stores
      BY <1>3, Types
    <3> QED
      BY <1>1, <1>2, <1>3, <2>1, <3>1 DEF IsStaged
  <2> QED
    BY <2>1
<1>10. StageFits'
  <2>1. /\ \A i \in 1..5 : StageOrder[i] \in Parts
        /\ \A part \in Written : part \in Parts /\ before[part] \in Stores
    BY <1>3, StageParts, Types
  <2> QED
    BY <1>1, <1>2, <1>3, <1>9, <2>1 DEF Fit, StageFits, At
<1>11. AllStaged => AllStaged'
  BY <1>2, <1>9 DEF AllStaged
<1>12. SwapFits' /\ ValidateFits' /\ FingerprintFits'
  <2>1. SwapFits'
    BY <1>2, <1>11 DEF Fit, SwapFits, At, Target
  <2>2. IsSet => IsSet'
    BY <1>2, <1>11 DEF IsSet, Target
  <2>3. FingerprintFits'
    BY <1>2, <2>2 DEF Fit, FingerprintFits, At, Whole
  <2>4. ValidateFits'
    <3>1. \A part \in Written : instant[part] <= Held(part) => instant'[part] <= Held(part)'
      BY <1>1, <1>2, <1>3, Types
    <3> QED
      BY <1>2, <2>2, <3>1 DEF Fit, ValidateFits, At, Whole
  <2> QED
    BY <2>1, <2>3, <2>4
<1> QED
  BY <1>1, <1>5, <1>6, <1>7, <1>8, <1>10, <1>12 DEF Fit

LEMMA FitBeginWrite ==
  ASSUME Fit, NEW part \in Written, BeginWrite(part)
  PROVE  Fit'
<1>1. UNCHANGED <<runtime, store, bundle, op, writes, before, instant>>
  BY DEF BeginWrite
<1>2. /\ writes < MaxWrites
      /\ writer' \in [part : Written \cup {"none"}, target : Stores] /\ writer'.part \in Written
  <2>1. runtime["pipeline"] \in Stores /\ runtime[part] \in Stores
    BY Types DEF Fit
  <2> QED
    BY <2>1 DEF BeginWrite
<1>3. TypeOK' /\ NumbersKnown'
  BY <1>1, <1>2 DEF Fit, TypeOK, NumbersKnown
<1>4. /\ OutcomeFits' /\ BuildFits' /\ IdleFits' /\ UndoFits' /\ SnapshotFits' /\ ArchiveFits'
      /\ PlanFits'
  BY <1>1 DEF Fit, OutcomeFits, BuildFits, IdleFits, UndoFits, At, Whole, Agrees, SnapshotFits,
     ArchiveFits, PlanFits, Held
<1>5. StageFits' /\ SwapFits' /\ ValidateFits' /\ FingerprintFits'
  BY <1>1 DEF Fit, StageFits, SwapFits, ValidateFits, FingerprintFits, At, IsSet, AllStaged,
     IsStaged, Agrees, Target, Whole, Held
<1> QED
  BY <1>3, <1>4, <1>5 DEF Fit

-----------------------------------------------------------------------------
(* Building a bundle *)

LEMMA NoBundleType ==
  /\ NoBundle \in [held : [Parts -> Contents], whole : BOOLEAN, migrated : BOOLEAN]
  /\ \A part \in Parts : NoBundle.held[part] = 0
  /\ \A migrated \in BOOLEAN :
       /\ [NoBundle EXCEPT !.migrated = migrated]
             \in [held : [Parts -> Contents], whole : BOOLEAN, migrated : BOOLEAN]
       /\ \A part \in Parts : [NoBundle EXCEPT !.migrated = migrated].held[part] = 0
<1>1. 0 \in Contents
  BY ConstantsAssumption DEF Contents
<1>2. /\ NoBundle \in [held : [Parts -> Contents], whole : BOOLEAN, migrated : BOOLEAN]
      /\ NoBundle.held = [part \in Parts |-> 0]
  BY <1>1 DEF NoBundle, Absent
<1>3. ASSUME NEW migrated \in BOOLEAN
      PROVE  /\ [NoBundle EXCEPT !.migrated = migrated]
                   \in [held : [Parts -> Contents], whole : BOOLEAN, migrated : BOOLEAN]
             /\ [NoBundle EXCEPT !.migrated = migrated].held = NoBundle.held
  BY <1>2
<1> QED
  BY <1>2, <1>3

LEMMA FitBuild == Fit /\ Build => Fit'
<1> SUFFICES ASSUME Fit, Build PROVE Fit'
  OBVIOUS
<1>0. TypeOK /\ NumbersKnown /\ At("idle") /\ Agrees(runtime)
  BY DEF Fit, Build, IdleFits
<1>1. "snapshot" \in Steps
  BY DEF Steps
<1>2. /\ op' \in OpSet /\ op'.step = "snapshot" /\ op'.at = 1 /\ op'.outcome = "none"
  <2>1. op' = Begun("snapshot", op.restores)
    BY DEF Build, Begun
  <2> QED
    BY <1>0, <1>1, <2>1, Types, BegunType
<1>3. /\ bundle' \in [held : [Parts -> Contents], whole : BOOLEAN, migrated : BOOLEAN]
      /\ \A part \in Parts : bundle'.held[part] = 0
  BY NoBundleType DEF Build
<1>4. UNCHANGED <<runtime, store, writer, writes, before, instant>>
  BY DEF Build
<1>5. TypeOK'
  BY <1>0, <1>2, <1>3, <1>4 DEF TypeOK, OpSet
<1>6. NumbersKnown'
  <2>1. \A part \in Written : bundle'.held[part] <= writes' + 1
    BY <1>0, <1>3, <1>4, Types, ConstantsAssumption
  <2> QED
    BY <1>0, <1>4, <2>1 DEF NumbersKnown
<1>7. SnapshotFits'
  BY <1>2 DEF SnapshotFits
<1>8. OutcomeFits' /\ BuildFits'
  BY <1>0, <1>2, <1>4 DEF OutcomeFits, BuildFits, Agrees
<1> QED
  BY <1>2, <1>5, <1>6, <1>7, <1>8, Elsewhere DEF Fit, At

LEMMA FitTakeSnapshot == Fit /\ TakeSnapshot => Fit'
<1> SUFFICES ASSUME Fit, TakeSnapshot PROVE Fit'
  OBVIOUS
<1> DEFINE part == SnapshotOrder[op.at]
<1>0. /\ TypeOK /\ NumbersKnown /\ At("snapshot") /\ op.at \in 1..4 /\ Agrees(runtime)
      /\ op.outcome = "none"
      /\ \A i \in 1..4 : i < op.at => bundle.held[SnapshotOrder[i]] <= Held(SnapshotOrder[i])
  BY DEF Fit, TakeSnapshot, SnapshotFits, BuildFits, OutcomeFits, At
<1>1. /\ part \in Written /\ part \in Parts /\ part # "identity"
      /\ part = "state" <=> op.at = 4
      /\ UNCHANGED <<runtime, store, writer, writes, before>>
  BY <1>0, SnapshotParts, Types DEF TakeSnapshot, Written
<1>2. /\ bundle' \in [held : [Parts -> Contents], whole : BOOLEAN, migrated : BOOLEAN]
      /\ bundle'.held[part] = Held(part)
      /\ bundle'.held["identity"] = Held("identity")
      /\ \A p \in Parts \ {part, "identity"} : bundle'.held[p] = bundle.held[p]
  <2>1. Held(part) \in Contents /\ Held("identity") \in Contents
    BY <1>0, <1>1, Types
  <2>2. bundle' = [bundle EXCEPT !.held =
                     [[bundle.held EXCEPT ![part] = Held(part)]
                        EXCEPT !["identity"] = Held("identity")]]
    BY <1>0, <1>1 DEF TakeSnapshot, TypeOK
  <2>3. bundle \in [held : [Parts -> Contents], whole : BOOLEAN, migrated : BOOLEAN]
    BY <1>0 DEF TypeOK
  <2>4. "identity" \in Parts
    BY DEF Parts
  <2> QED
    BY <1>1, <2>1, <2>2, <2>3, <2>4
<1>3. \A p \in Parts : Held(p)' = Held(p) /\ Held(p) \in Nat
  BY <1>0, <1>1, Types DEF Held
<1>4. NumbersKnown'
  <2>1. Held(part) <= writes + 1
    BY <1>0, <1>1, Types DEF NumbersKnown, Held
  <2>2. \A p \in Written : bundle'.held[p] <= writes' + 1
    BY <1>0, <1>1, <1>2, <2>1, Types DEF NumbersKnown, Written
  <2> QED
    BY <1>0, <1>1, <2>2 DEF NumbersKnown
<1>5. ASSUME NEW i \in 1..4, i <= op.at
      PROVE  bundle'.held[SnapshotOrder[i]] <= Held(SnapshotOrder[i])
  <2>1. SnapshotOrder[i] \in Written /\ SnapshotOrder[i] # "identity"
    BY SnapshotParts DEF Written
  <2>2. CASE i = op.at
    BY <1>1, <1>2, <1>3, <2>2
  <2>3. CASE i < op.at
    <3>1. SnapshotOrder[i] # part
      BY <1>0, <2>3, SnapshotParts
    <3> QED
      BY <1>0, <1>2, <2>1, <2>3, <3>1, Types
  <2> QED
    BY <1>0, <1>5, <2>2, <2>3
<1>6. CASE op.at = 4
  <2>1. op' = Moved("archive", 1)
    BY <1>0, <1>6, SnapshotParts DEF TakeSnapshot, Go, Goto, Moved
  <2>2. op' \in OpSet /\ op'.step = "archive" /\ op'.at = 1 /\ op'.outcome = "none"
    <3>1. "archive" \in Steps /\ 1 \in 1..7
      BY DEF Steps
    <3> QED
      BY <1>0, <2>1, <3>1, Types, MovedType
  <2>3. instant' = Now /\ Now \in [Parts -> Contents] /\ \A p \in Parts : Now[p] = Held(p)
    <3>1. \A p \in Parts : Held(p) \in Contents
      BY <1>0, Types
    <3> QED
      BY <1>1, <1>6, <3>1 DEF TakeSnapshot, Now
  <2>4. TypeOK'
    BY <1>0, <1>1, <1>2, <2>2, <2>3 DEF TypeOK, OpSet
  <2>5. \A p \in Written : bundle'.held[p] <= Held(p)
    BY <1>5, <1>6, SnapshotParts
  <2>6. ArchiveFits'
    <3>1. bundle'.held["state"] = instant'["state"] /\ bundle'.held["identity"] = instant'["identity"]
      BY <1>1, <1>2, <1>6, <2>3, Types, <1>0
    <3>2. \A p \in Written \ {"state"} :
            bundle'.held[p] <= instant'[p] /\ instant'[p] <= Held(p)'
      BY <1>3, <2>3, <2>5 DEF Written, Parts
    <3> QED
      BY <2>2, <3>1, <3>2 DEF ArchiveFits
  <2>7. OutcomeFits' /\ BuildFits'
    BY <1>0, <1>1, <2>2 DEF OutcomeFits, BuildFits, Agrees
  <2> QED
    BY <1>4, <2>2, <2>4, <2>6, <2>7, Elsewhere DEF Fit, At
<1>7. CASE op.at # 4
  <2>1. op' = Ahead(op.at + 1)
    BY <1>0, <1>7, SnapshotParts DEF TakeSnapshot, Go, Ahead
  <2>2. op' \in OpSet /\ op'.step = "snapshot" /\ op'.at = op.at + 1 /\ op'.outcome = "none"
    <3>1. op.at + 1 \in 1..7
      BY <1>0
    <3> QED
      BY <1>0, <2>1, <3>1, Types, AheadType DEF At
  <2>3. instant' = instant
    BY <1>1, <1>7 DEF TakeSnapshot
  <2>4. TypeOK'
    BY <1>0, <1>1, <1>2, <2>2, <2>3 DEF TypeOK, OpSet
  <2>5. SnapshotFits'
    <3>1. \A i \in 1..4 : i < op'.at =>
            bundle'.held[SnapshotOrder[i]] <= Held(SnapshotOrder[i])'
      <4>1. ASSUME NEW i \in 1..4, i < op'.at
            PROVE  bundle'.held[SnapshotOrder[i]] <= Held(SnapshotOrder[i])'
        <5>1. i <= op.at
          BY <1>0, <2>2, <4>1
        <5>2. Held(SnapshotOrder[i])' = Held(SnapshotOrder[i])
          BY <1>1 DEF Held
        <5> QED
          BY <1>5, <5>1, <5>2
      <4> QED
        BY <4>1
    <3> QED
      BY <1>0, <1>7, <2>2, <3>1 DEF SnapshotFits
  <2>6. OutcomeFits' /\ BuildFits'
    BY <1>0, <1>1, <2>2 DEF OutcomeFits, BuildFits, Agrees
  <2> QED
    BY <1>4, <2>2, <2>4, <2>5, <2>6, Elsewhere DEF Fit, At
<1> QED
  BY <1>6, <1>7

LEMMA FitTakeArchive == Fit /\ TakeArchive => Fit'
<1> SUFFICES ASSUME Fit, TakeArchive PROVE Fit'
  OBVIOUS
<1> DEFINE part == ArchiveOrder[op.at]
<1>0. /\ TypeOK /\ NumbersKnown /\ At("archive") /\ op.at \in 1..3 /\ Agrees(runtime)
      /\ op.outcome = "none"
      /\ bundle.held.state = instant.state /\ bundle.held.identity = instant.identity
      /\ \A p \in Written \ {"state"} :
           bundle.held[p] <= instant[p] /\ instant[p] <= Held(p)
      /\ \A i \in 1..3 : i < op.at => bundle.held[ArchiveOrder[i]] = instant[ArchiveOrder[i]]
  BY DEF Fit, TakeArchive, ArchiveFits, BuildFits, OutcomeFits, At
<1>1. UNCHANGED <<runtime, store, writer, writes, before, instant>> /\ "none" \in Outcomes /\ "built" \in Outcomes
  BY DEF TakeArchive, Outcomes
<1>2. CASE ~Fits(part)
  <2>1. bundle' = NoBundle /\ op' = NoOp("none", op.restores)
    BY <1>2 DEF TakeArchive, End
  <2>2. op' \in OpSet /\ op'.step = "idle" /\ op'.outcome = "none"
    BY <1>0, <1>1, <2>1, NoOpType, Types
  <2>3. TypeOK'
    BY <1>0, <1>1, <2>1, <2>2, NoBundleType DEF TypeOK, OpSet
  <2>4. NumbersKnown'
    <3>1. \A p \in Written : bundle'.held[p] <= writes' + 1
      BY <1>0, <1>1, <2>1, NoBundleType, Types, ConstantsAssumption
    <3> QED
      BY <1>0, <1>1, <3>1 DEF NumbersKnown
  <2>5. OutcomeFits' /\ IdleFits'
    BY <1>0, <1>1, <2>2 DEF OutcomeFits, IdleFits, At, Agrees
  <2> QED
    BY <2>2, <2>3, <2>4, <2>5, Elsewhere DEF Fit, At
<1>3. CASE Fits(part)
  <2>2. /\ bundle' \in [held : [Parts -> Contents], whole : BOOLEAN, migrated : BOOLEAN]
        /\ bundle'.held = bundle.held
    BY <1>0, <1>3 DEF TakeArchive, TypeOK
  <2>3. bundle.held[part] = instant[part]
    <3>1. part \in Written \ {"state"} /\ part \in Parts
      BY <1>0, ArchiveParts DEF Written, Parts
    <3>2. Held(part) \in Nat /\ instant[part] \in Nat /\ Held(part) = bundle.held[part]
      BY <1>0, <1>3, <3>1, Types DEF Fits
    <3> QED
      BY <1>0, <3>1, <3>2
  <2>4. NumbersKnown'
    BY <1>0, <1>1, <2>2 DEF NumbersKnown
  <2>5. CASE op.at = 3
    <3>1. op' = NoOp("built", op.restores)
      BY <1>3, <2>5, ArchiveParts DEF TakeArchive, End
    <3>2. op' \in OpSet /\ op'.step = "idle" /\ op'.outcome = "built"
      BY <1>0, <1>1, <3>1, NoOpType, Types
    <3>3. TypeOK'
      BY <1>0, <1>1, <2>2, <3>2 DEF TypeOK, OpSet
    <3>4. \A p \in Parts : bundle.held[p] = instant[p]
      <4>1. \A i \in 1..3 : bundle.held[ArchiveOrder[i]] = instant[ArchiveOrder[i]]
        BY <1>0, <2>3, <2>5
      <4>2. \A p \in Written \ {"state"} : bundle.held[p] = instant[p]
        BY <4>1, ArchiveParts
      <4> QED
        BY <1>0, <4>2 DEF Written, Parts
    <3>5. bundle'.held = instant'
      BY <1>0, <1>1, <2>2, <3>4, Types
    <3>6. OutcomeFits' /\ IdleFits'
      BY <1>0, <1>1, <3>2, <3>5 DEF OutcomeFits, IdleFits, At, Agrees
    <3> QED
      BY <2>4, <3>2, <3>3, <3>6, Elsewhere DEF Fit, At
  <2>6. CASE op.at # 3
    <3>1. op' = Ahead(op.at + 1)
      BY <1>0, <1>3, <2>6, ArchiveParts DEF TakeArchive, Go, Ahead
    <3>2. op' \in OpSet /\ op'.step = "archive" /\ op'.at = op.at + 1 /\ op'.outcome = "none"
      <4>1. op.at + 1 \in 1..7
        BY <1>0
      <4> QED
        BY <1>0, <3>1, <4>1, Types, AheadType DEF At
    <3>3. TypeOK'
      BY <1>0, <1>1, <2>2, <3>2 DEF TypeOK, OpSet
    <3>4. \A p \in Written : Held(p)' = Held(p)
      BY <1>1 DEF Held
    <3>5. \A i \in 1..3 : i < op'.at => bundle.held[ArchiveOrder[i]] = instant[ArchiveOrder[i]]
      BY <1>0, <2>3, <3>2
    <3>6. ArchiveFits'
      BY <1>0, <1>1, <2>2, <2>6, <3>2, <3>4, <3>5 DEF ArchiveFits
    <3>7. OutcomeFits' /\ BuildFits'
      BY <1>0, <1>1, <3>2 DEF OutcomeFits, BuildFits, Agrees
    <3> QED
      BY <2>4, <3>2, <3>3, <3>6, <3>7, Elsewhere DEF Fit, At
  <2> QED
    BY <2>5, <2>6
<1> QED
  BY <1>2, <1>3

LEMMA FitReload == Fit /\ Reload => Fit'
<1> SUFFICES ASSUME Fit, Reload PROVE Fit'
  OBVIOUS
<1>0. TypeOK /\ NumbersKnown
  BY DEF Fit
<1>1. /\ runtime' = [ref \in Refs |-> 0] /\ before' = runtime'
      /\ writer' = NoWrite /\ op' = NoOp("none", 0) /\ UNCHANGED <<writes, instant>>
  BY DEF Reload
<1>2. 0 \in Stores /\ 0 \in 0..MaxRestores /\ "none" \in Outcomes
  BY ConstantsAssumption DEF Stores, Outcomes
<1>3. op' \in OpSet /\ op'.step = "idle" /\ op'.outcome = "none"
  BY <1>1, <1>2, NoOpType
<1>4. PICK library \in {Absent, Empty}, identity \in {Empty, Empty + 1} :
             store' = Fresh(library, identity)
  BY DEF Reload
<1>5. /\ store' \in [Parts -> [Stores -> Contents]]
      /\ \A part \in Written, id \in Stores : store'[part][id] <= 1
  <2>1. library \in 0..1 /\ identity \in Contents /\ Absent = 0 /\ Empty = 1
    BY ConstantsAssumption DEF Absent, Empty, Contents
  <2>2. 0 \in Contents /\ 1 \in Contents /\ 0..1 \subseteq Contents
    BY ConstantsAssumption DEF Contents
  <2>3. ASSUME NEW part \in Parts, NEW id \in Stores
        PROVE  /\ store'[part][id] \in Contents
               /\ part # "identity" => store'[part][id] \in 0..1
    <3>1. store'[part][id] = CASE part = "library" -> IF id = 0 THEN library ELSE Absent
                               [] part = "identity" -> identity
                               [] OTHER -> Empty
      BY <1>4 DEF Fresh
    <3> QED
      BY <2>1, <2>2, <3>1
  <2>4. store' \in [Parts -> [Stores -> Contents]]
    BY <1>4, <2>3 DEF Fresh
  <2> QED
    BY <2>3, <2>4 DEF Written, Parts
<1>6. /\ bundle' \in [held : [Parts -> Contents], whole : BOOLEAN, migrated : BOOLEAN]
      /\ \A part \in Written : bundle'.held[part] <= writes + 1
  <2>1. CASE bundle' = bundle
    BY <1>0, <2>1 DEF TypeOK, NumbersKnown
  <2>2. CASE bundle' = NoBundle
    BY <1>0, <2>2, NoBundleType, Types, ConstantsAssumption
  <2> QED
    BY <2>1, <2>2 DEF Reload, Loaded
<1>7. NumbersKnown'
  <2>1. \A part \in Written, id \in Stores : store'[part][id] <= writes' + 1
    <3>1. writes \in Nat /\ writes' = writes
      BY <1>0, <1>1, Types, ConstantsAssumption
    <3>2. \A part \in Written, id \in Stores : store'[part][id] \in Nat
      BY <1>5 DEF Written, Parts, Contents
    <3> QED
      BY <1>5, <3>1, <3>2
  <2> QED
    BY <1>1, <1>6, <2>1 DEF NumbersKnown
<1>8. runtime' \in [Refs -> Stores] /\ Agrees(runtime)'
  BY <1>1, <1>2 DEF Agrees, Refs, Parts
<1>9. TypeOK'
  <2>1. NoWrite \in [part : Written \cup {"none"}, target : Stores]
    BY <1>2 DEF NoWrite
  <2> QED
    BY <1>0, <1>1, <1>3, <1>5, <1>6, <1>8, <2>1 DEF TypeOK, OpSet
<1>10. OutcomeFits' /\ IdleFits'
  BY <1>3, <1>8 DEF OutcomeFits, IdleFits, At
<1> QED
  BY <1>3, <1>7, <1>9, <1>10, Elsewhere DEF Fit, At

-----------------------------------------------------------------------------
(* Planning and staging a restore *)

\* A step that only ends the operation, with the runtime as it was.
LEMMA FitEnd ==
  ASSUME Fit, NEW outcome \in {"none", "failed", "blocked"}, End(outcome),
         UNCHANGED <<runtime, store, bundle, writer, writes, instant>>,
         before' \in [Refs -> Stores], Agrees(runtime),
         outcome # "none" => runtime = before'
  PROVE  Fit'
<1>1. op' = NoOp(outcome, op.restores) /\ outcome \in Outcomes
  BY DEF End, Outcomes
<1>2. op' \in OpSet /\ op'.step = "idle" /\ op'.outcome = outcome
  BY <1>1, NoOpType, Types DEF Fit
<1>3. TypeOK' /\ NumbersKnown'
  BY <1>2 DEF Fit, TypeOK, OpSet, NumbersKnown
<1>4. OutcomeFits' /\ IdleFits'
  BY <1>2 DEF OutcomeFits, IdleFits, At, Agrees
<1> QED
  BY <1>2, <1>3, <1>4, Elsewhere DEF Fit, At

LEMMA FitPlan == Fit /\ (IsBlocked \/ Plan) => Fit'
<1> SUFFICES ASSUME Fit, IsBlocked \/ Plan PROVE Fit'
  OBVIOUS
<1>0. TypeOK /\ NumbersKnown /\ Agrees(runtime) /\ runtime \in [Refs -> Stores]
  BY Types DEF Fit, IsBlocked, Plan, IdleFits
<1>1. CASE IsBlocked
  BY <1>0, <1>1, FitEnd DEF IsBlocked
<1>2. CASE Plan
  <2>1. op' = Begun("plan", op.restores + 1)
    BY <1>2 DEF Plan, Begun
  <2>2. "plan" \in Steps /\ op.restores + 1 \in 0..MaxRestores
    BY <1>0, <1>2, Types, ConstantsAssumption DEF Plan, Steps
  <2>3. op' \in OpSet /\ op'.step = "plan" /\ op'.at = 1 /\ op'.outcome = "none"
    BY <2>1, <2>2, BegunType
  <2>4. UNCHANGED <<runtime, store, bundle, writer, writes, instant>> /\ before' = runtime
    BY <1>2 DEF Plan
  <2>5. TypeOK' /\ NumbersKnown'
    BY <1>0, <2>3, <2>4 DEF TypeOK, OpSet, NumbersKnown
  <2>6. PlanFits' /\ OutcomeFits'
    BY <1>0, <2>3, <2>4 DEF PlanFits, OutcomeFits, Agrees
  <2> QED
    BY <2>3, <2>5, <2>6, Elsewhere DEF Fit, At
<1> QED
  BY <1>1, <1>2

LEMMA FitComparePart == Fit /\ ComparePart => Fit'
<1> SUFFICES ASSUME Fit, ComparePart PROVE Fit'
  OBVIOUS
<1> DEFINE part == SnapshotOrder[op.at]
           needs == op.needs \cup {p \in {part} : Differs(p)}
<1>0. /\ TypeOK /\ NumbersKnown /\ At("plan") /\ op.outcome = "none" /\ op.at \in 1..4
      /\ before = runtime /\ Agrees(before)
      /\ \A i \in 1..4 : i < op.at /\ SnapshotOrder[i] \notin op.needs =>
           store[SnapshotOrder[i]][before[SnapshotOrder[i]]] >= bundle.held[SnapshotOrder[i]]
  BY DEF Fit, ComparePart, PlanFits, OutcomeFits, At
<1>1. UNCHANGED <<runtime, store, bundle, writer, writes, before, instant>>
  BY DEF ComparePart
<1>2. part \in Written /\ part \in Parts /\ needs \in SUBSET Parts
  BY <1>0, SnapshotParts, Types
<1>3. part \notin needs => store[part][before[part]] >= bundle.held[part]
  <2>1. Held(part) \in Nat /\ bundle.held[part] \in Nat
    BY <1>0, <1>2, Types
  <2>2. ~Differs(part) => Held(part) >= bundle.held[part]
    BY <2>1 DEF Differs, Absent
  <2> QED
    BY <1>0, <2>2 DEF Held
<1>4. \A i \in 1..4 : i <= op.at /\ SnapshotOrder[i] \notin needs =>
        store[SnapshotOrder[i]][before[SnapshotOrder[i]]] >= bundle.held[SnapshotOrder[i]]
  BY <1>0, <1>3
<1>5. CASE op.at = 4
  <2>1. op' = Planned("stage", 1, needs, [ref \in Refs |-> op.restores])
    BY <1>0, <1>5, SnapshotParts DEF ComparePart, Planned
  <2>2. "stage" \in Steps /\ 1 \in 1..7 /\ [ref \in Refs |-> op.restores] \in [Refs -> Stores]
    BY <1>0, Types DEF Steps
  <2> HIDE DEF needs
  <2>3. /\ op' \in OpSet /\ op'.step = "stage" /\ op'.at = 1 /\ op'.outcome = "none"
        /\ op'.needs = needs /\ op'.restores = op.restores
        /\ op'.staged = [ref \in Refs |-> op.restores]
    BY <1>0, <1>2, <2>1, <2>2, Types, PlannedType
  <2>4. TypeOK' /\ NumbersKnown'
    BY <1>0, <1>1, <2>3 DEF TypeOK, OpSet, NumbersKnown
  <2>5. \A p \in Written \ needs : store[p][before[p]] >= bundle.held[p]
    BY <1>4, <1>5, SnapshotParts
  <2>6. \A i \in 1..5 : op'.staged[StageOrder[i]] = op'.restores /\ ~(i < op'.at)
    BY <1>0, <2>3, StageParts, Types
  <2>7. StageFits' /\ OutcomeFits'
    BY <1>0, <1>1, <2>3, <2>5, <2>6 DEF StageFits, OutcomeFits, Agrees
  <2> QED
    BY <2>3, <2>4, <2>7, Elsewhere DEF Fit, At
<1>6. CASE op.at # 4
  <2>1. op' = Compared(op.at + 1, needs)
    BY <1>0, <1>6, SnapshotParts DEF ComparePart, Compared
  <2> HIDE DEF needs
  <2>2. /\ op' \in OpSet /\ op'.step = "plan" /\ op'.at = op.at + 1 /\ op'.outcome = "none"
        /\ op'.needs = needs
    <3>1. op.at + 1 \in 1..7
      BY <1>0
    <3> QED
      BY <1>0, <1>2, <2>1, <3>1, Types, ComparedType DEF At
  <2>3. TypeOK' /\ NumbersKnown'
    BY <1>0, <1>1, <2>2 DEF TypeOK, OpSet, NumbersKnown
  <2>4. \A i \in 1..4 : i < op'.at /\ SnapshotOrder[i] \notin needs =>
          store[SnapshotOrder[i]][before[SnapshotOrder[i]]] >= bundle.held[SnapshotOrder[i]]
    BY <1>0, <1>4, <2>2
  <2>5. PlanFits' /\ OutcomeFits'
    BY <1>0, <1>1, <1>6, <2>2, <2>4 DEF PlanFits, OutcomeFits, Agrees
  <2> QED
    BY <2>2, <2>3, <2>5, Elsewhere DEF Fit, At
<1> QED
  BY <1>5, <1>6

LEMMA FitStage == Fit /\ Stage => Fit'
<1> SUFFICES ASSUME Fit, Stage PROVE Fit'
  OBVIOUS
<1>p. PICK part \in Parts : part = StageOrder[op.at]
  BY StageParts DEF Fit, Stage, StageFits
<1> DEFINE isNeeded == part \in op.needs \cup {"identity", "state"}
           step == IF op.at = 5 THEN "swap" ELSE "stage"
           at == IF op.at = 5 THEN 1 ELSE op.at + 1
<1>0. /\ TypeOK /\ NumbersKnown /\ At("stage") /\ op.outcome = "none" /\ op.at \in 1..5
      /\ before = runtime /\ Agrees(before)
      /\ \A p \in Written \ op.needs : store[p][before[p]] >= bundle.held[p]
      /\ \A i \in 1..5 : IF i < op.at THEN IsStaged(StageOrder[i])
                         ELSE op.staged[StageOrder[i]] = op.restores
  BY DEF Fit, Stage, StageFits, OutcomeFits, At
<1>1. /\ UNCHANGED <<runtime, bundle, writer, writes, before, instant>>
      /\ part \in Refs /\ op.restores \in Stores
      /\ step \in Steps /\ at \in 1..7
  BY <1>0, StageParts, Types DEF Stage, Steps
<1>2. /\ op' \in OpSet /\ op'.step = step /\ op'.at = at /\ op'.outcome = "none"
      /\ op'.needs = op.needs /\ op'.restores = op.restores
      /\ \A ref \in Refs \ {part} : op'.staged[ref] = op.staged[ref]
      /\ op'.staged[part] = IF isNeeded THEN op.staged[part] ELSE before[part]
  <2> DEFINE next == IF op.at = 5 THEN Moved("swap", 1) ELSE Ahead(op.at + 1)
  <2>1. /\ next \in OpSet /\ next.step = step /\ next.at = at /\ next.outcome = "none"
        /\ next.needs = op.needs /\ next.restores = op.restores /\ next.staged = op.staged
    <3>1. CASE op.at = 5
      <4>1. "swap" \in Steps /\ 1 \in 1..7
        BY DEF Steps
      <4> QED
        BY <1>0, <3>1, <4>1, Types, MovedType
    <3>2. CASE op.at # 5
      <4>1. op.at + 1 \in 1..7
        BY <1>0
      <4> QED
        BY <1>0, <3>2, <4>1, Types, AheadType DEF At
    <3> QED
      BY <3>1, <3>2
  <2>2. op' = IF isNeeded THEN next ELSE [next EXCEPT !.staged[part] = before[part]]
    BY <1>0, <1>p, StageParts DEF Stage, Moved, Ahead
  <2>3. ASSUME NEW o \in OpSet, NEW ref \in Refs, NEW id \in Stores
        PROVE  /\ [o EXCEPT !.staged[ref] = id] \in OpSet
               /\ [o EXCEPT !.staged[ref] = id].step = o.step
               /\ [o EXCEPT !.staged[ref] = id].at = o.at
               /\ [o EXCEPT !.staged[ref] = id].outcome = o.outcome
               /\ [o EXCEPT !.staged[ref] = id].needs = o.needs
               /\ [o EXCEPT !.staged[ref] = id].restores = o.restores
               /\ [o EXCEPT !.staged[ref] = id].staged = [o.staged EXCEPT ![ref] = id]
    BY DEF OpSet
  <2>4. before[part] \in Stores /\ op.staged \in [Refs -> Stores]
    BY <1>0, <1>1, Types
  <2> HIDE DEF next, step, at
  <2>5. CASE isNeeded
    BY <2>1, <2>2, <2>5
  <2>6. CASE ~isNeeded
    <3>1. /\ op' \in OpSet /\ op'.step = step /\ op'.at = at /\ op'.outcome = "none"
          /\ op'.needs = op.needs /\ op'.restores = op.restores
          /\ op'.staged = [op.staged EXCEPT ![part] = before[part]]
      BY <1>1, <2>1, <2>2, <2>3, <2>4, <2>6
    <3> QED
      BY <1>1, <2>4, <2>6, <3>1
  <2> QED
    BY <2>5, <2>6
<1>3. op.staged[part] = op.restores
  BY <1>0, <1>p
<1>4. /\ store' \in [Parts -> [Stores -> Contents]]
      /\ isNeeded => /\ store'[part][op.restores] = bundle.held[part]
                     /\ \A p \in Parts \ {part} : store'[p] = store[p]
      /\ ~isNeeded => store' = store
      /\ isNeeded => \A id \in Stores \ {op.restores} : store'[part][id] = store[part][id]
  <2>1. CASE isNeeded
    <3>1. store' = [store EXCEPT ![part] = [store[part] EXCEPT ![op.restores] = bundle.held[part]]]
      BY <1>0, <1>p, <2>1, Types DEF Stage
    <3> QED
      BY <1>0, <1>1, <2>1, <3>1, Types
  <2>2. CASE ~isNeeded
    BY <1>0, <1>p, <2>2, Types DEF Stage
  <2> QED
    BY <2>1, <2>2
<1>5. TypeOK'
  BY <1>0, <1>1, <1>2, <1>4 DEF TypeOK, OpSet
<1>6. NumbersKnown'
  <2>1. ASSUME NEW p \in Written, NEW id \in Stores PROVE store'[p][id] <= writes + 1
    <3>1. p \in Parts /\ store[p][id] <= writes + 1 /\ bundle.held[p] <= writes + 1
      BY <1>0, Types DEF NumbersKnown
    <3>2. CASE p = part /\ isNeeded
      BY <1>4, <3>1, <3>2
    <3>3. CASE ~(p = part /\ isNeeded)
      BY <1>4, <3>1, <3>3
    <3> QED
      BY <3>2, <3>3
  <2> QED
    BY <1>0, <1>1, <2>1 DEF NumbersKnown
<1>7. IsStaged(part)'
  <2>1. bundle.held[part] \in Nat /\ store'[part][op'.staged[part]] \in Nat
    <3>1. op'.staged[part] \in Stores
      BY <1>1, <1>2 DEF OpSet
    <3> QED
      BY <1>0, <1>1, <1>4, <3>1, Types
  <2>2. CASE isNeeded
    <3>1. store'[part][op'.staged[part]] = bundle.held[part]
      BY <1>2, <1>3, <1>4, <2>2
    <3>2. part = "library" => part \in op'.needs
      BY <1>2, <2>2
    <3> QED
      BY <1>1, <2>1, <3>1, <3>2 DEF IsStaged
  <2>3. CASE ~isNeeded
    <3>1. part \in Written \ op.needs /\ part # "identity"
      BY <1>1, <2>3 DEF Parts, Written
    <3>2. store'[part][op'.staged[part]] >= bundle.held[part]
      BY <1>0, <1>2, <1>4, <2>3, <3>1
    <3> QED
      BY <1>1, <1>2, <2>3, <3>1, <3>2 DEF IsStaged
  <2> QED
    BY <2>2, <2>3
<1>8. \A p \in Parts \ {part} : IsStaged(p) => IsStaged(p)'
  <2>1. ASSUME NEW p \in Parts \ {part}, IsStaged(p) PROVE IsStaged(p)'
    <3>1. p \in Refs /\ op'.staged[p] = op.staged[p] /\ store'[p] = store[p]
      BY <1>0, <1>2, <1>4, <2>1, Types
    <3> QED
      BY <1>1, <1>2, <2>1, <3>1 DEF IsStaged
  <2> QED
    BY <2>1
<1>9. \A i \in 1..5 : IF i <= op.at THEN IsStaged(StageOrder[i])'
                    ELSE op'.staged[StageOrder[i]] = op'.restores
  <2>1. ASSUME NEW i \in 1..5
        PROVE  IF i <= op.at THEN IsStaged(StageOrder[i])'
               ELSE op'.staged[StageOrder[i]] = op'.restores
    <3>1. StageOrder[i] \in Parts /\ StageOrder[i] \in Refs
      BY <1>0, StageParts, Types
    <3>2. CASE i = op.at
      BY <1>7, <1>p, <3>2
    <3>3. CASE i # op.at
      <4>1. StageOrder[i] # part
        BY <1>0, <1>p, <3>3, StageParts
      <4>2. CASE i < op.at
        <5>1. IsStaged(StageOrder[i])
          BY <1>0, <4>2
        <5>2. PICK p \in Parts \ {part} : p = StageOrder[i] /\ IsStaged(p)
          BY <3>1, <4>1, <5>1
        <5>3. IsStaged(p)'
          BY <1>8, <5>2
        <5> QED
          BY <1>0, <4>2, <5>2, <5>3
      <4>3. CASE ~(i < op.at)
        BY <1>0, <1>2, <3>1, <3>3, <4>1, <4>3
      <4> QED
        BY <4>2, <4>3
    <3> QED
      BY <3>2, <3>3
  <2> QED
    BY <2>1
<1>10. OutcomeFits'
  BY <1>2 DEF OutcomeFits
<1>11. CASE op.at = 5
  <2>1. op'.step = "swap" /\ op'.at = 1
    BY <1>2, <1>11
  <2>2. AllStaged'
    <3>1. ASSUME NEW p \in Parts PROVE IsStaged(p)'
      <4>1. PICK i \in 1..5 : p = StageOrder[i]
        BY StageParts
      <4> QED
        BY <1>9, <1>11, <4>1
    <3> QED
      BY <1>0, <1>1, <3>1 DEF AllStaged, Agrees
  <2>3. \A ref \in Refs : ~(Place(ref) < op'.at) /\ runtime'[ref] = before'[ref]
    BY <1>0, <1>1, <2>1, SwapRefs
  <2>4. SwapFits'
    BY <2>1, <2>2, <2>3 DEF SwapFits
  <2> QED
    BY <1>5, <1>6, <1>10, <2>1, <2>4, Elsewhere DEF Fit, At
<1>12. CASE op.at # 5
  <2>1. op'.step = "stage" /\ op'.at = op.at + 1 /\ op'.at \in 1..5
    BY <1>0, <1>2, <1>12
  <2>2. \A p \in Written \ op'.needs : store'[p][before'[p]] >= bundle'.held[p]
    <3>1. ASSUME NEW p \in Written \ op.needs PROVE store'[p][before[p]] >= bundle.held[p]
      <4>1. /\ p \in Parts /\ before[p] \in Stores /\ bundle.held[p] \in Nat
            /\ store[p][before[p]] >= bundle.held[p]
        BY <1>0, Types
      <4> QED
        BY <1>0, <1>1, <1>4, <4>1
    <3> QED
      BY <1>1, <1>2, <3>1
  <2>3. \A i \in 1..5 : IF i < op'.at THEN IsStaged(StageOrder[i])'
                        ELSE op'.staged[StageOrder[i]] = op'.restores
    BY <1>0, <1>9, <2>1
  <2>4. StageFits'
    BY <1>0, <1>1, <2>1, <2>2, <2>3 DEF StageFits, Agrees
  <2> QED
    BY <1>5, <1>6, <1>10, <2>1, <2>4, Elsewhere DEF Fit, At
<1> QED
  BY <1>11, <1>12

LEMMA FitIsRefused == Fit /\ IsRefused => Fit'
<1> SUFFICES ASSUME Fit, IsRefused PROVE Fit'
  OBVIOUS
<1>1. before = runtime /\ Agrees(runtime) /\ before \in [Refs -> Stores]
  BY Types DEF Fit, IsRefused, StageFits
<1> QED
  BY <1>1, FitEnd DEF IsRefused

-----------------------------------------------------------------------------
(* Swapping, validating and going back *)

\* References that are set lead to the parts that are staged.
LEMMA SetHeld ==
  ASSUME TypeOK, IsSet
  PROVE  /\ \A part \in Parts : Held(part) >= bundle.held[part]
         /\ Held("identity") = bundle.held["identity"]
         /\ Agrees(runtime)
<1>1. ASSUME NEW part \in Parts PROVE Held(part) = store[part][op.staged[part]]
  <2>1. part \in Refs /\ part # "pipeline" /\ part # "retriever"
    BY DEF Refs, Parts
  <2>2. runtime[part] = op.staged[part]
    BY <2>1 DEF IsSet, AllStaged, IsStaged, Target
  <2> QED
    BY <2>2 DEF Held
<1>2. \A part \in Parts : Held(part) >= bundle.held[part]
  BY <1>1 DEF IsSet, AllStaged, IsStaged
<1>3. Held("identity") = bundle.held["identity"]
  BY <1>1 DEF IsSet, AllStaged, IsStaged, Parts
<1>4. Agrees(runtime)
  BY DEF Agrees, IsSet, AllStaged, Target, Refs, Parts
<1> QED
  BY <1>2, <1>3, <1>4

\* What is staged does not depend on where the operation is.
LEMMA StagedStays ==
  ASSUME UNCHANGED <<store, bundle, before>>, op'.staged = op.staged, op'.needs = op.needs
  PROVE  /\ AllStaged' <=> AllStaged
         /\ \A ref \in Refs : Target(ref)' = Target(ref)
  BY DEF AllStaged, IsStaged, Agrees, Target

LEMMA FitSwap == Fit /\ Swap => Fit'
<1> SUFFICES ASSUME Fit, Swap PROVE Fit'
  OBVIOUS
<1>0. /\ TypeOK /\ NumbersKnown /\ At("swap") /\ op.outcome = "none" /\ op.at \in 1..7
      /\ AllStaged
      /\ op.at > 1 => op.old = before
      /\ \A ref \in Refs : runtime[ref] = IF Place(ref) < op.at THEN Target(ref) ELSE before[ref]
  BY DEF Fit, Swap, SwapFits, OutcomeFits, At
<1>1. PICK ref \in Refs : ref = SwapOrder[op.at] /\ Place(ref) = op.at
  BY <1>0, SwapRefs
<1>2. SwappedRef(ref) = Target(ref) /\ Target(ref) \in Stores
  <2>1. runtime[ref] = before[ref]
    BY <1>0, <1>1
  <2>2. SwappedRef(ref) = Target(ref)
    BY <2>1 DEF SwappedRef, Target
  <2>3. \A r \in Refs : op.staged[r] \in Stores /\ before[r] \in Stores
    BY <1>0, Types
  <2>4. Target(ref) \in Stores
    BY <2>3 DEF Target, Refs, Parts
  <2> QED
    BY <2>2, <2>4
<1>3. /\ runtime' \in [Refs -> Stores] /\ runtime'[ref] = Target(ref)
      /\ \A r \in Refs \ {ref} : runtime'[r] = runtime[r]
      /\ UNCHANGED <<store, bundle, writer, writes, before, instant>>
  BY <1>0, <1>1, <1>2, Types DEF Swap
<1>4. \A r \in Refs : runtime'[r] = IF Place(r) <= op.at THEN Target(r) ELSE before[r]
  <2>1. ASSUME NEW r \in Refs
        PROVE  runtime'[r] = IF Place(r) <= op.at THEN Target(r) ELSE before[r]
    <3>1. CASE r = ref
      BY <1>0, <1>1, <1>3, <3>1
    <3>2. CASE r # ref
      <4>1. Place(r) \in 1..7 /\ Place(r) # op.at
        BY <1>1, <3>2, SwapRefs
      <4> QED
        BY <1>0, <1>3, <3>2, <4>1
    <3> QED
      BY <3>1, <3>2
  <2> QED
    BY <2>1
<1>5. NumbersKnown'
  BY <1>0, <1>3 DEF NumbersKnown
<1>6. CASE op.at = 7
  <2>1. op' = Moved("validate", 1)
    BY <1>6, SwapRefs DEF Swap, Moved
  <2>2. /\ op' \in OpSet /\ op'.step = "validate" /\ op'.at = 1 /\ op'.outcome = "none"
        /\ op'.needs = op.needs /\ op'.staged = op.staged /\ op'.old = before
    <3>1. "validate" \in Steps /\ 1 \in 1..7
      BY DEF Steps
    <3> QED
      BY <1>0, <1>6, <2>1, <3>1, Types, MovedType
  <2>3. TypeOK'
    BY <1>0, <1>3, <2>2 DEF TypeOK, OpSet
  <2>4. IsSet'
    <3>1. \A r \in Refs : runtime'[r] = Target(r)'
      BY <1>3, <1>4, <1>6, <2>2, StagedStays, SwapRefs
    <3> QED
      BY <1>0, <1>3, <2>2, <3>1, StagedStays DEF IsSet
  <2>5. ValidateFits' /\ OutcomeFits'
    BY <2>2, <2>4 DEF ValidateFits, OutcomeFits
  <2> QED
    BY <1>5, <2>2, <2>3, <2>5, Elsewhere DEF Fit, At
<1>7. CASE op.at # 7
  <2> DEFINE old == IF op.at = 1 THEN runtime ELSE op.old
  <2>1. old = before /\ before \in [Refs -> Stores]
    <3>1. op.at = 1 => \A r \in Refs : runtime[r] = before[r]
      BY <1>0, SwapRefs
    <3> QED
      BY <1>0, <3>1, Types
  <2>2. op' = Swapped(op.at + 1, old)
    BY <1>7, SwapRefs DEF Swap, Swapped
  <2>3. /\ op' \in OpSet /\ op'.step = "swap" /\ op'.at = op.at + 1 /\ op'.outcome = "none"
        /\ op'.needs = op.needs /\ op'.staged = op.staged /\ op'.old = before
    <3>1. op.at + 1 \in 1..7
      BY <1>0, <1>7
    <3> QED
      BY <1>0, <2>1, <2>2, <3>1, Types, SwappedType DEF At
  <2>4. TypeOK'
    BY <1>0, <1>3, <2>3 DEF TypeOK, OpSet
  <2>5. \A r \in Refs : runtime'[r] = IF Place(r) < op'.at THEN Target(r)' ELSE before'[r]
    BY <1>0, <1>3, <1>4, <2>3, StagedStays, SwapRefs
  <2>6. SwapFits' /\ OutcomeFits'
    BY <1>0, <1>3, <1>7, <2>3, <2>5, StagedStays DEF SwapFits, OutcomeFits
  <2> QED
    BY <1>5, <2>3, <2>4, <2>6, Elsewhere DEF Fit, At
<1> QED
  BY <1>6, <1>7

\* The restore is found to be wrong, and will be undone.
LEMMA FitGoBack ==
  ASSUME Fit, IsSet, op.outcome = "none", Goto("undo"),
         UNCHANGED <<runtime, store, bundle, writer, writes, before>>,
         instant' \in [Parts -> Contents]
  PROVE  Fit'
<1>1. op' = Moved("undo", 1) /\ "undo" \in Steps /\ 1 \in 1..7
  BY DEF Goto, Moved, Steps
<1>2. /\ op' \in OpSet /\ op'.step = "undo" /\ op'.at = 1 /\ op'.outcome = "none"
      /\ op'.old = before
  BY <1>1, Types, MovedType DEF Fit, IsSet
<1>3. TypeOK' /\ NumbersKnown'
  BY <1>2 DEF Fit, TypeOK, OpSet, NumbersKnown
<1>4. UndoFits' /\ OutcomeFits'
  BY <1>2, SwapRefs DEF UndoFits, OutcomeFits, IsSet, AllStaged, Agrees
<1> QED
  BY <1>2, <1>3, <1>4, Elsewhere DEF Fit, At

\* A part that does not differ was whole at an instant it has not grown since.
LEMMA NotDiffering ==
  ASSUME TypeOK, NEW part \in Parts, ~Differs(part), NEW n \in Nat,
         bundle.held[part] <= n, n <= Held(part)
  PROVE  (part = "library" /\ bundle.held["library"] = Absent) \/ n = bundle.held[part]
<1>1. bundle.held[part] \in Nat /\ Held(part) \in Nat
  BY Types
<1> QED
  BY <1>1 DEF Differs

LEMMA FitValidate == Fit /\ Validate => Fit'
<1> SUFFICES ASSUME Fit, Validate PROVE Fit'
  OBVIOUS
<1>0. /\ TypeOK /\ NumbersKnown /\ At("validate") /\ op.outcome = "none" /\ op.at \in 1..4
      /\ IsSet
      /\ op.at > 1 =>
           /\ instant["identity"] = bundle.held["identity"]
           /\ \A part \in Written :
                bundle.held[part] <= instant[part] /\ instant[part] <= Held(part)
      /\ \A i \in 1..4 : i < op.at => Whole(SnapshotOrder[i])
  BY DEF Fit, Validate, ValidateFits, OutcomeFits, At
<1>1. PICK part \in Written : part = SnapshotOrder[op.at] /\ (part = "memory" <=> op.at = 1)
  BY <1>0, SnapshotParts
<1>2. /\ UNCHANGED <<runtime, store, bundle, writer, writes, before>>
      /\ instant' = IF op.at = 1 THEN Now ELSE instant
      /\ instant' \in [Parts -> Contents]
      /\ \A p \in Parts : Now[p] = Held(p) /\ Held(p)' = Held(p)
  <2>1. Now \in [Parts -> Contents] /\ \A p \in Parts : Now[p] = Held(p)
    BY <1>0, Types DEF Now
  <2> QED
    BY <1>0, <1>1, <2>1, Types DEF Validate, Held
<1>3. CASE IsWrong(part)
  BY <1>0, <1>1, <1>2, <1>3, FitGoBack DEF Validate
<1>4. CASE ~IsWrong(part)
  <2>1. /\ instant'["identity"] = bundle.held["identity"]
        /\ \A p \in Written : bundle.held[p] <= instant'[p] /\ instant'[p] <= Held(p)
    <3>1. CASE op.at = 1
      <4>1. \A p \in Parts : instant'[p] = Held(p) /\ Held(p) \in Nat
        BY <1>0, <1>2, <3>1, Types
      <4> QED
        BY <1>0, <4>1, SetHeld, Types
    <3>2. CASE op.at # 1
      BY <1>0, <1>2, <3>2
    <3> QED
      BY <3>1, <3>2
  <2>2. \A i \in 1..4 : i <= op.at => Whole(SnapshotOrder[i])'
    <3>1. Whole(part)'
      <4>1. ~Differs(part) /\ part \in Parts /\ instant'[part] \in Nat
        BY <1>0, <1>2, <1>4, Types DEF IsWrong
      <4> QED
        BY <1>0, <1>2, <2>1, <4>1, NotDiffering DEF Whole
    <3>2. \A i \in 1..4 : i < op.at => Whole(SnapshotOrder[i])'
      BY <1>0, <1>2 DEF Whole
    <3> QED
      BY <1>0, <1>1, <3>1, <3>2
  <2>3. CASE op.at = 4
    <3>1. op' = Moved("fingerprint", 1) /\ "fingerprint" \in Steps /\ 1 \in 1..7
      BY <1>1, <1>4, <2>3, SnapshotParts DEF Validate, Go, Goto, Moved, Steps
    <3>2. /\ op' \in OpSet /\ op'.step = "fingerprint" /\ op'.at = 1 /\ op'.outcome = "none"
          /\ op'.needs = op.needs /\ op'.staged = op.staged /\ op'.old = op.old
      BY <1>0, <3>1, Types, MovedType
    <3>3. TypeOK' /\ NumbersKnown'
      BY <1>0, <1>2, <3>2 DEF TypeOK, OpSet, NumbersKnown
    <3>4. IsSet'
      BY <1>0, <1>2, <3>2, StagedStays DEF IsSet
    <3>5. \A p \in Parts : Whole(p)'
      <4>1. \A p \in Written : Whole(p)'
        BY <2>2, <2>3, SnapshotParts
      <4>2. Whole("identity")'
        BY <1>2, <2>1 DEF Whole
      <4> QED
        BY <4>1, <4>2 DEF Written, Parts
    <3>6. FingerprintFits' /\ OutcomeFits'
      BY <3>2, <3>4, <3>5 DEF FingerprintFits, OutcomeFits
    <3> QED
      BY <3>2, <3>3, <3>6, Elsewhere DEF Fit, At
  <2>4. CASE op.at # 4
    <3>1. op' = Ahead(op.at + 1) /\ op.at + 1 \in 1..7
      BY <1>0, <1>1, <1>4, <2>4, SnapshotParts DEF Validate, Go, Ahead
    <3>2. /\ op' \in OpSet /\ op'.step = "validate" /\ op'.at = op.at + 1 /\ op'.outcome = "none"
          /\ op'.needs = op.needs /\ op'.staged = op.staged /\ op'.old = op.old
      BY <1>0, <3>1, Types, AheadType DEF At
    <3>3. TypeOK' /\ NumbersKnown'
      BY <1>0, <1>2, <3>2 DEF TypeOK, OpSet, NumbersKnown
    <3>4. IsSet'
      BY <1>0, <1>2, <3>2, StagedStays DEF IsSet
    <3>5. \A i \in 1..4 : i < op'.at => Whole(SnapshotOrder[i])'
      BY <1>0, <2>2, <3>2
    <3>6. \A p \in Written : bundle'.held[p] <= instant'[p] /\ instant'[p] <= Held(p)'
      BY <1>2, <2>1 DEF Written, Parts
    <3>7. ValidateFits' /\ OutcomeFits'
      BY <1>0, <1>2, <2>1, <2>4, <3>2, <3>4, <3>5, <3>6 DEF ValidateFits, OutcomeFits
    <3> QED
      BY <3>2, <3>3, <3>7, Elsewhere DEF Fit, At
  <2> QED
    BY <2>3, <2>4
<1> QED
  BY <1>3, <1>4

LEMMA FitFingerprint == Fit /\ Fingerprint => Fit'
<1> SUFFICES ASSUME Fit, Fingerprint PROVE Fit'
  OBVIOUS
<1>0. /\ TypeOK /\ NumbersKnown /\ At("fingerprint") /\ op.outcome = "none" /\ op.at \in 1..4
      /\ IsSet /\ \A part \in Parts : Whole(part)
  BY DEF Fit, Fingerprint, FingerprintFits, OutcomeFits, At
<1>1. UNCHANGED <<runtime, store, bundle, writer, writes, before, instant>>
  BY DEF Fingerprint
<1>2. CASE Goto("undo")
  BY <1>0, <1>1, <1>2, FitGoBack, Types
<1>3. CASE End("applied")
  <2>1. op' = NoOp("applied", op.restores) /\ "applied" \in Outcomes
    BY <1>3 DEF End, Outcomes
  <2>2. op' \in OpSet /\ op'.step = "idle" /\ op'.outcome = "applied"
    BY <1>0, <2>1, NoOpType, Types
  <2>3. TypeOK' /\ NumbersKnown'
    BY <1>0, <1>1, <2>2 DEF TypeOK, OpSet, NumbersKnown
  <2>4. Agrees(runtime)
    BY <1>0, SetHeld
  <2>5. OutcomeFits' /\ IdleFits'
    BY <1>0, <1>1, <2>2, <2>4 DEF OutcomeFits, IdleFits, At, Agrees, Whole
  <2> QED
    BY <2>2, <2>3, <2>5, Elsewhere DEF Fit, At
<1>4. CASE ~Goto("undo") /\ ~End("applied")
  <2>1. op' = Ahead(op.at + 1) /\ op.at + 1 \in 1..4 /\ op.at + 1 \in 1..7
    <3>1. Len(FingerprintOrder) = 4
      BY DEF FingerprintOrder
    <3> QED
      BY <1>0, <1>4, <3>1 DEF Fingerprint, Go, Ahead
  <2>2. /\ op' \in OpSet /\ op'.step = "fingerprint" /\ op'.at \in 1..4 /\ op'.outcome = "none"
        /\ op'.needs = op.needs /\ op'.staged = op.staged /\ op'.old = op.old
    BY <1>0, <2>1, Types, AheadType DEF At
  <2>3. TypeOK' /\ NumbersKnown'
    BY <1>0, <1>1, <2>2 DEF TypeOK, OpSet, NumbersKnown
  <2>4. IsSet'
    BY <1>0, <1>1, <2>2, StagedStays DEF IsSet
  <2>5. FingerprintFits' /\ OutcomeFits'
    BY <1>0, <1>1, <2>2, <2>4 DEF FingerprintFits, OutcomeFits, Whole
  <2> QED
    BY <2>2, <2>3, <2>5, Elsewhere DEF Fit, At
<1> QED
  BY <1>2, <1>3, <1>4

LEMMA FitUndo == Fit /\ Undo => Fit'
<1> SUFFICES ASSUME Fit, Undo PROVE Fit'
  OBVIOUS
<1>0. /\ TypeOK /\ NumbersKnown /\ At("undo") /\ op.outcome = "none" /\ op.at \in 1..7
      /\ op.old = before /\ Agrees(before)
      /\ \A ref \in Refs : Place(ref) < op.at => runtime[ref] = before[ref]
  BY DEF Fit, Undo, UndoFits, OutcomeFits, At
<1>1. PICK ref \in Refs : ref = SwapOrder[op.at] /\ Place(ref) = op.at
  BY <1>0, SwapRefs
<1>2. /\ runtime' = [runtime EXCEPT ![ref] = before[ref]]
      /\ runtime' \in [Refs -> Stores]
      /\ UNCHANGED <<store, bundle, writer, writes, before, instant>>
  BY <1>0, <1>1, Types DEF Undo, OldRef
<1>3. \A r \in Refs : Place(r) <= op.at => runtime'[r] = before[r]
  <2>1. ASSUME NEW r \in Refs, Place(r) <= op.at PROVE runtime'[r] = before[r]
    <3>1. CASE r = ref
      BY <1>0, <1>2, <3>1, Types
    <3>2. CASE r # ref
      <4>1. Place(r) \in 1..7 /\ Place(r) # op.at
        BY <1>1, <3>2, SwapRefs
      <4> QED
        BY <1>0, <1>2, <2>1, <3>2, <4>1, Types
    <3> QED
      BY <3>1, <3>2
  <2> QED
    BY <2>1
<1>4. NumbersKnown'
  BY <1>0, <1>2 DEF NumbersKnown
<1>5. CASE op.at = 7
  <2>1. op' = NoOp("failed", op.restores) /\ "failed" \in Outcomes
    BY <1>5, SwapRefs DEF Undo, End, Outcomes
  <2>2. op' \in OpSet /\ op'.step = "idle" /\ op'.outcome = "failed"
    BY <1>0, <2>1, NoOpType, Types
  <2>3. TypeOK'
    BY <1>0, <1>2, <2>2 DEF TypeOK, OpSet
  <2>4. runtime' = before
    <3>1. \A r \in Refs : runtime'[r] = before[r]
      BY <1>3, <1>5, SwapRefs
    <3> QED
      BY <1>0, <1>2, <3>1, Types
  <2>5. OutcomeFits' /\ IdleFits'
    BY <1>0, <1>2, <2>2, <2>4 DEF OutcomeFits, IdleFits, At, Agrees
  <2> QED
    BY <1>4, <2>2, <2>3, <2>5, Elsewhere DEF Fit, At
<1>6. CASE op.at # 7
  <2>1. op' = Ahead(op.at + 1) /\ op.at + 1 \in 1..7
    BY <1>0, <1>6, SwapRefs DEF Undo, Go, Ahead
  <2>2. /\ op' \in OpSet /\ op'.step = "undo" /\ op'.at = op.at + 1 /\ op'.outcome = "none"
        /\ op'.old = op.old
    BY <1>0, <2>1, Types, AheadType DEF At
  <2>3. TypeOK'
    BY <1>0, <1>2, <2>2 DEF TypeOK, OpSet
  <2>4. \A r \in Refs : Place(r) < op'.at => runtime'[r] = before[r]
    BY <1>0, <1>3, <2>2, SwapRefs
  <2>5. UndoFits' /\ OutcomeFits'
    BY <1>0, <1>2, <2>1, <2>2, <2>4 DEF UndoFits, OutcomeFits, Agrees
  <2> QED
    BY <1>4, <2>2, <2>3, <2>5, Elsewhere DEF Fit, At
<1> QED
  BY <1>5, <1>6

-----------------------------------------------------------------------------
LEMMA FitInit == Init => Fit
<1> SUFFICES ASSUME Init PROVE Fit
  OBVIOUS
<1>1. PICK library \in {Absent, Empty} : store = Fresh(library, Empty)
  BY DEF Init
<1>2. 0 \in Stores /\ 0 \in 0..MaxRestores /\ "none" \in Outcomes
  BY ConstantsAssumption DEF Stores, Outcomes
<1>3. op \in OpSet /\ op.step = "idle" /\ op.outcome = "none"
  BY <1>2, NoOpType DEF Init
<1>4. /\ store \in [Parts -> [Stores -> Contents]]
      /\ \A part \in Parts, id \in Stores : store[part][id] \in 0..1
  <2>1. library \in 0..1 /\ Absent = 0 /\ Empty = 1 /\ 0..1 \subseteq Contents
    BY ConstantsAssumption DEF Absent, Empty, Contents
  <2>2. ASSUME NEW part \in Parts, NEW id \in Stores PROVE store[part][id] \in 0..1
    <3>1. store[part][id] = CASE part = "library" -> IF id = 0 THEN library ELSE Absent
                              [] part = "identity" -> Empty
                              [] OTHER -> Empty
      BY <1>1 DEF Fresh
    <3> QED
      BY <2>1, <3>1
  <2>3. store \in [Parts -> [Stores -> Contents]]
    BY <1>1, <2>1, <2>2 DEF Fresh
  <2> QED
    BY <2>2, <2>3
<1>5. runtime \in [Refs -> Stores] /\ Agrees(runtime) /\ before = runtime
  BY <1>2 DEF Init, Agrees, Refs, Parts
<1>6. NoWrite \in [part : Written \cup {"none"}, target : Stores] /\ 0 \in 0..MaxWrites
  BY <1>2, ConstantsAssumption DEF NoWrite
<1>7. instant \in [Parts -> Contents]
  BY ConstantsAssumption DEF Init, Absent, Contents
<1>8. TypeOK
  BY <1>3, <1>4, <1>5, <1>6, <1>7, NoBundleType DEF Init, TypeOK, OpSet
<1>9. NumbersKnown
  <2>1. \A part \in Written, id \in Stores : store[part][id] <= writes + 1
    BY <1>4 DEF Init, Written, Parts
  <2>2. \A part \in Written : bundle.held[part] <= writes + 1
    BY NoBundleType DEF Init, Written, Parts
  <2> QED
    BY <2>1, <2>2 DEF Init, NumbersKnown
<1>10. OutcomeFits /\ IdleFits
  BY <1>3, <1>5 DEF OutcomeFits, IdleFits, At
<1> QED
  BY <1>3, <1>8, <1>9, <1>10
     DEF Fit, At, SnapshotFits, ArchiveFits, BuildFits, PlanFits, StageFits, SwapFits,
         ValidateFits, FingerprintFits, UndoFits

LEMMA FitStep == Fit /\ [Next]_vars => Fit'
<1> SUFFICES ASSUME Fit, [Next]_vars PROVE Fit'
  OBVIOUS
<1>1. CASE UNCHANGED vars
  <2>1. TypeOK' /\ NumbersKnown' /\ OutcomeFits' /\ IdleFits' /\ BuildFits'
    BY <1>1 DEF vars, Fit, TypeOK, NumbersKnown, OutcomeFits, IdleFits, BuildFits, At, Whole, Agrees
  <2>2. SnapshotFits' /\ ArchiveFits' /\ PlanFits' /\ UndoFits'
    BY <1>1 DEF vars, Fit, SnapshotFits, ArchiveFits, PlanFits, UndoFits, At, Held, Agrees
  <2>3. StageFits' /\ SwapFits' /\ ValidateFits' /\ FingerprintFits'
    BY <1>1 DEF vars, Fit, StageFits, SwapFits, ValidateFits, FingerprintFits, At, IsSet,
       AllStaged, IsStaged, Agrees, Target, Whole, Held
  <2> QED
    BY <2>1, <2>2, <2>3 DEF Fit
<1>2. CASE Next
  BY <1>2, FitWrite, FitBeginWrite, FitBuild, FitTakeSnapshot, FitTakeArchive, FitReload, FitPlan,
     FitComparePart, FitStage, FitIsRefused, FitSwap, FitValidate, FitFingerprint, FitUndo
     DEF Next, Operator
<1> QED
  BY <1>1, <1>2

\* All that makes bundles cuts and restores whole holds always.
THEOREM Invariant == Spec => []Fit
  BY FitInit, FitStep, PTL DEF Spec

\* Types, in every execution.
THEOREM TypeCorrect == Spec => []TypeOK
<1>1. Fit => TypeOK
  BY DEF Fit
<1> QED
  BY <1>1, Invariant, PTL

\* A bundle that is built is one moment of the runtime, however many requests
\* write while it is (bundle.py, snapshot.py).
THEOREM BundlesAreCuts == Spec => []BundleIsACut
<1>1. Fit => BundleIsACut
  BY DEF Fit, IdleFits, BundleIsACut
<1> QED
  BY <1>1, Invariant, PTL

\* A restore that reports success was whole at one moment, however many requests
\* write while it goes on (restore.py).
THEOREM AppliedAreWhole == Spec => []AppliedIsWhole
<1>1. Fit => AppliedIsWhole
  <2>1. ASSUME Fit, op.outcome = "applied" PROVE \A part \in Parts : Whole(part)
    BY <2>1 DEF Fit, OutcomeFits, IdleFits
  <2> QED
    BY <2>1 DEF AppliedIsWhole, Whole
<1> QED
  BY <1>1, Invariant, PTL

\* A restore that fails leaves every reference as it was (restore.py).
THEOREM FailuresChangeNothing == Spec => []FailureChangesNothing
<1>1. Fit => FailureChangesNothing
  BY DEF Fit, IdleFits, FailureChangesNothing
<1> QED
  BY <1>1, Invariant, PTL

\* The pipeline and the retriever follow the stores of the runtime, whether a
\* restore succeeds or fails (restore.py).
THEOREM ReferencesAgree == Spec => []RefsAgree
<1>1. ASSUME Fit, ~At("swap"), ~At("undo") PROVE Agrees(runtime)
  <2>1. TypeOK
    BY <1>1 DEF Fit
  <2>2. CASE At("idle") \/ At("snapshot") \/ At("archive")
    BY <1>1, <2>2 DEF Fit, IdleFits, BuildFits
  <2>3. CASE At("plan") \/ At("stage")
    BY <1>1, <2>3 DEF Fit, PlanFits, StageFits
  <2>4. CASE At("validate") \/ At("fingerprint")
    BY <1>1, <2>1, <2>4, SetHeld DEF Fit, ValidateFits, FingerprintFits
  <2> QED
    BY <1>1, <2>1, <2>2, <2>3, <2>4, Types DEF At, Steps
<1>2. Fit => RefsAgree
  BY <1>1 DEF RefsAgree, Agrees
<1> QED
  BY <1>2, Invariant, PTL

-----------------------------------------------------------------------------
(* A run and its crashes *)

LEMMA Emitting ==
  ASSUME journal \in Seq(Event), NEW type \in EventTypes,
         NEW status \in {"-", "EXECUTED", "ERROR", "PASS", "FAIL", "committed", "failed"},
         Emit(type, status)
  PROVE  /\ journal' \in Seq(Event)
         /\ Len(journal) \in Nat /\ Len(journal') = Len(journal) + 1
         /\ journal'[Len(journal')] = [type |-> type, status |-> status]
         /\ \A i \in 1..Len(journal) : journal'[i] = journal[i]
  BY DEF Emit, Event

\* Where a request is under way, and where it is about a key.
Working == {"engine", "gate", "lookup", "reserved", "handler", "commit", "committed",
            "fail", "failed", "executed", "error", "orchestrate", "question", "answer",
            "telemetry", "episode"}
Keyed == {"lookup", "reserved", "commit", "committed", "fail", "failed", "decided"}

\* The types, and what is known of a step's request and key.
Engaged ==
  /\ RunTypeOK
  /\ pc \in Working => request \in Requests
  /\ pc \in Keyed => key \in Keys
  /\ pc = "decided" => receipts[key] \in {"committed", "failed"}

LEMMA EngagedInit == RunInit => Engaged
  BY RunAssumption DEF RunInit, Engaged, RunTypeOK, RunSteps, Working, Keyed

\* A step that journals an event.
LEMMA EngagedRecord ==
  ASSUME Engaged, NEW type \in EventTypes,
         NEW status \in {"-", "EXECUTED", "ERROR", "PASS", "FAIL", "committed", "failed"},
         NEW from, NEW to \in RunSteps, Record(from, type, status, to),
         to \in Working => from \in Working \/ request \in Requests,
         to \in Keyed => from \in Keyed, to # "decided"
  PROVE  Engaged'
  <1>1. journal' \in Seq(Event)
    BY Emitting DEF Record, Engaged, RunTypeOK
  <1>2. QED
    BY <1>1 DEF Record, Move, Engaged, RunTypeOK, traces, volatile, outside

LEMMA EngagedSubmit == ASSUME Engaged, NEW q \in Requests, Submit(q) PROVE Engaged'
  <1>1. journal' \in Seq(Event)
    BY Emitting DEF Submit, Engaged, RunTypeOK, EventTypes
  <1>2. requests' \in 0..MaxRequests /\ actions' \in 0..MaxActions
    BY RunAssumption DEF Submit, Engaged, RunTypeOK
  <1>3. QED
    BY <1>1, <1>2 DEF Submit, Move, Engaged, RunTypeOK, traces, RunSteps, Working, Keyed

LEMMA EngagedActions ==
  ASSUME Engaged,
         \/ \E k \in Keys \cup {NoKey} : Propose(k)
         \/ Deny \/ Authorize \/ Lookup \/ Handler \/ Settle \/ Error \/ Verify
  PROVE  Engaged'
  <1>1. ASSUME NEW k \in Keys \cup {NoKey}, Propose(k) PROVE Engaged'
    <2>1. journal' \in Seq(Event)
      BY <1>1, Emitting DEF Propose, Engaged, RunTypeOK, EventTypes
    <2>2. actions' \in 0..MaxActions
      BY <1>1, RunAssumption DEF Propose, Engaged, RunTypeOK
    <2>3. QED
      BY <1>1, <2>1, <2>2
      DEF Propose, Move, Engaged, RunTypeOK, traces, outside, RunSteps, Working, Keyed
  <1>2. CASE Deny
    <2>1. journal' \in Seq(Event)
      BY <1>2, Emitting DEF Deny, Engaged, RunTypeOK, EventTypes
    <2>2. QED
      BY <1>2, <2>1
      DEF Deny, Move, Engaged, RunTypeOK, traces, outside, RunSteps, Working, Keyed
  <1>3. CASE Authorize
    <2>1. journal' \in Seq(Event)
      BY <1>3, Emitting DEF Authorize, Engaged, RunTypeOK, EventTypes
    <2>2. QED
      BY <1>3, <2>1
      DEF Authorize, Engaged, RunTypeOK, traces, volatile, outside, RunSteps, Working, Keyed
  <1>4. CASE Lookup
    <2>1. journal' \in Seq(Event)
      BY <1>4, Emitting DEF Lookup, Engaged, RunTypeOK, EventTypes
    <2>2. receipts' \in [Keys -> {"none", "started", "committed", "failed"}]
      BY <1>4 DEF Lookup, Engaged, RunTypeOK
    <2>3. pc' \in {"reserved", "engine"} /\ clean' \in BOOLEAN
      BY <1>4 DEF Lookup, Engaged, RunTypeOK
    <2>4. QED
      BY <1>4, <2>1, <2>2, <2>3
      DEF Lookup, Engaged, RunTypeOK, traces, outside, RunSteps, Working, Keyed
  <1>5. CASE Handler
    BY <1>5 DEF Handler, Engaged, RunTypeOK, durable, traces, volatile, outside, RunSteps,
                Working, Keyed
  <1>6. CASE Settle
    <2>1. receipts' \in [Keys -> {"none", "started", "committed", "failed"}]
      BY <1>6 DEF Settle, Engaged, RunTypeOK
    <2>2. QED
      BY <1>6, <2>1
      DEF Settle, Move, Engaged, RunTypeOK, traces, volatile, outside, RunSteps, Working, Keyed
  <1>7. CASE Error
    <2>1. journal' \in Seq(Event)
      BY <1>7, Emitting DEF Error, Engaged, RunTypeOK, EventTypes
    <2>2. QED
      BY <1>7, <2>1
      DEF Error, Move, Engaged, RunTypeOK, traces, outside, RunSteps, Working, Keyed
  <1>8. CASE Verify
    <2>1. journal' \in Seq(Event)
      BY <1>8, Emitting DEF Verify, Engaged, RunTypeOK, EventTypes
    <2>2. QED
      BY <1>8, <2>1
      DEF Verify, Move, Engaged, RunTypeOK, traces, volatile, outside, RunSteps, Working, Keyed
  <1>9. QED
    BY <1>1, <1>2, <1>3, <1>4, <1>5, <1>6, <1>7, <1>8

LEMMA EngagedRecords ==
  ASSUME Engaged, Reserved \/ Committed \/ Failed \/ Executed \/ CheckpointNote
  PROVE  Engaged'
  <1> USE DEF EventTypes, RunSteps, Working, Keyed
  <1>1. CASE Reserved
    BY <1>1, EngagedRecord DEF Reserved
  <1>2. CASE Committed
    BY <1>2, EngagedRecord DEF Committed
  <1>3. CASE Failed
    BY <1>3, EngagedRecord DEF Failed
  <1>4. CASE Executed
    BY <1>4, EngagedRecord DEF Executed
  <1>5. CASE CheckpointNote
    <2>1. request # NoRequest => request \in Requests
      BY DEF Engaged, RunTypeOK
    <2>2. QED
      BY <1>5, <2>1, EngagedRecord DEF CheckpointNote
  <1>6. QED
    BY <1>1, <1>2, <1>3, <1>4, <1>5

LEMMA EngagedCheckpoint ==
  ASSUME Engaged, Orchestrate \/ CheckpointSequence \/ CheckpointPut
  PROVE  Engaged'
  <1>1. CASE Orchestrate
    BY <1>1 DEF Orchestrate, Move, Engaged, RunTypeOK, durable, traces, volatile, outside,
                RunSteps, Working, Keyed
  <1>2. CASE CheckpointSequence
    <2>1. covers' \in Nat
      BY <1>2 DEF CheckpointSequence, Engaged, RunTypeOK
    <2>2. QED
      BY <1>2, <2>1 DEF CheckpointSequence, Move, Engaged, RunTypeOK, durable, traces, outside,
                        RunSteps, Working, Keyed
  <1>3. CASE CheckpointPut
    BY <1>3 DEF CheckpointPut, Move, Engaged, RunTypeOK, traces, volatile, outside,
                RunSteps, Working, Keyed
  <1>4. QED
    BY <1>1, <1>2, <1>3

LEMMA EngagedTelling ==
  ASSUME Engaged, Question \/ Answer \/ RecordUse \/ PutEpisode
  PROVE  Engaged'
  <1>1. Passed \in BOOLEAN /\ Done \in BOOLEAN
    BY DEF Passed, Done
  <1>2. ASSUME NEW role \in {"user", "assistant"}, NEW from \in Working, NEW to \in Working,
               to \in RunSteps \ Keyed, Tell(from, role, to)
        PROVE  Engaged'
    <2>1. [request |-> request, role |-> role, done |-> Done] \in Message
      BY <1>1, <1>2 DEF Tell, Move, Engaged, Message
    <2>2. session' \subseteq Message
      BY <1>2, <2>1 DEF Tell, Engaged, RunTypeOK
    <2>3. QED
      BY <1>2, <2>2 DEF Tell, Move, Engaged, RunTypeOK, volatile, outside, Keyed
  <1>3. CASE Question
    BY <1>2, <1>3 DEF Question, Working, Keyed, RunSteps
  <1>4. CASE Answer
    BY <1>2, <1>4 DEF Answer, Working, Keyed, RunSteps
  <1>5. CASE RecordUse
    <2>1. telemetry' \in [Requests -> EpisodeOutcomes \cup {"none"}]
      BY <1>5 DEF RecordUse, Use, EpisodeOutcomes, Engaged, RunTypeOK
    <2>2. QED
      BY <1>5, <2>1 DEF RecordUse, Engaged, RunTypeOK, volatile, outside, Working, Keyed, RunSteps
  <1>6. CASE PutEpisode
    <2>1. Episode \in [request: Requests, outcome: EpisodeOutcomes]
      BY <1>1, <1>6 DEF PutEpisode, Move, Episode, EpisodeOutcomes, Engaged, Working
    <2>2. QED
      BY <1>6, <2>1
      DEF PutEpisode, Move, Engaged, RunTypeOK, volatile, outside, Working, Keyed, RunSteps
  <1>7. QED
    BY <1>3, <1>4, <1>5, <1>6

LEMMA EngagedRecover == ASSUME Engaged, Recover \/ Crash PROVE Engaged'
  <1>1. CASE Reconcile
    <2>1. PICK k \in Uncertain, state \in Resolutions :
            receipts' = [receipts EXCEPT ![k] = state] /\ key' = k
      BY <1>1 DEF Reconcile
    <2>2. k \in Keys /\ state \in {"committed", "failed"}
      BY RunAssumption DEF Uncertain
    <2>3. /\ receipts' \in [Keys -> {"none", "started", "committed", "failed"}]
          /\ receipts'[key'] = state
      BY <2>1, <2>2 DEF Engaged, RunTypeOK
    <2>4. QED
      BY <1>1, <2>1, <2>2, <2>3
      DEF Reconcile, Move, Engaged, RunTypeOK, traces, outside, Working, Keyed, RunSteps
  <1>2. CASE Decided
    <2>1. receipts[key] \in {"committed", "failed"}
      BY <1>2 DEF Decided, Record, Move, Engaged
    <2>2. QED
      BY <1>2, <2>1, EngagedRecord DEF Decided, EventTypes, RunSteps, Working, Keyed
  <1>3. CASE VerifyPrior
    <2>1. journal' \in Seq(Event)
      BY <1>3, Emitting DEF VerifyPrior, Engaged, RunTypeOK, EventTypes
    <2>2. QED
      BY <1>3, <2>1
      DEF VerifyPrior, Engaged, RunTypeOK, traces, volatile, outside, Working, Keyed, RunSteps
  <1>4. CASE WriteCheckpoint
    BY <1>4 DEF WriteCheckpoint, Move, Engaged, RunTypeOK, durable, traces, outside, Working,
                Keyed, RunSteps
  <1>5. CASE Crash
    BY <1>5, RunAssumption DEF Crash, Engaged, RunTypeOK, durable, traces, volatile, Working,
                               Keyed, RunSteps
  <1>6. QED
    BY <1>1, <1>2, <1>3, <1>4, <1>5 DEF Recover

LEMMA EngagedNext == Engaged /\ [RunNext]_runVars => Engaged'
  <1> SUFFICES ASSUME Engaged, [RunNext]_runVars PROVE Engaged'
    OBVIOUS
  <1>1. CASE UNCHANGED runVars
    BY <1>1 DEF runVars, durable, traces, volatile, outside, Engaged, RunTypeOK
  <1>2. CASE Loop
    BY <1>2, EngagedActions, EngagedRecords, EngagedCheckpoint, EngagedTelling DEF Loop
  <1>3. QED
    BY <1>1, <1>2, EngagedSubmit, EngagedRecover DEF RunNext

\* A run's state has its type.
THEOREM RunTypeCorrect == RunSpec => []RunTypeOK
  <1>1. Engaged => RunTypeOK
    BY DEF Engaged
  <1>2. QED
    BY <1>1, EngagedInit, EngagedNext, PTL DEF RunSpec

-----------------------------------------------------------------------------
(* One checkpoint for a request *)

Own(q) == {cp \in checkpoints : cp.request = q}

ToldOf(q) == telemetry[q] = "success" \/ \E m \in session : m.request = q /\ m.done

Once ==
  /\ \A cp, other \in checkpoints :
       cp.request = other.request /\ cp.request \in Requests => cp = other
  /\ \A q \in Requests : ToldOf(q) => Own(q) # {}
  /\ pc \in {"cp_seq", "cp_put"} /\ request \in Requests => Existing = {}
  /\ pc = "cp_note" /\ request \in Requests => Existing # {}
  /\ pc \in {"question", "answer", "telemetry"} /\ Done => Existing # {}

LEMMA OnceInit == RunInit => Once
  BY RunAssumption DEF RunInit, Once, ToldOf, Own

\* A step that leaves the checkpoints and what was told alone and is not on the
\* way from a verdict to the telemetry.
LEMMA OnceElsewhere ==
  ASSUME Once, UNCHANGED <<checkpoints, traces>>,
         pc' \notin {"cp_seq", "cp_put", "cp_note", "question", "answer", "telemetry"}
  PROVE  Once'
  BY DEF Once, ToldOf, Own, traces

LEMMA OnceLoop ==
  ASSUME Engaged, Once, Loop
  PROVE  Once'
  <1> USE DEF Engaged, RunTypeOK
  <1>1. CASE \/ \E k \in Keys \cup {NoKey} : Propose(k)
             \/ Deny \/ Authorize \/ Lookup \/ Reserved \/ Handler \/ Settle \/ Committed
             \/ Failed \/ Executed \/ Error \/ Verify
    <2>1. /\ UNCHANGED <<checkpoints, traces>>
          /\ pc' \notin {"cp_seq", "cp_put", "cp_note", "question", "answer", "telemetry"}
      BY <1>1 DEF Propose, Deny, Authorize, Lookup, Reserved, Handler, Settle, Committed,
                  Failed, Executed, Error, Verify, Record, Move, durable
    <2>2. QED
      BY <2>1, OnceElsewhere
  <1>2. CASE Orchestrate
    <2>1. /\ \/ pc' = "idle"
             \/ pc' = "cp_seq" /\ Existing = {}
             \/ pc' = "question" /\ (Done => Existing # {})
          /\ UNCHANGED <<journal, checkpoints, traces, request, clean>>
      BY <1>2 DEF Orchestrate, durable, volatile
    <2>2. (Done' <=> Done) /\ Existing' = Existing
      BY <2>1 DEF Done, Passed, Verdicts, Existing
    <2>3. QED
      BY <2>1, <2>2 DEF Once, ToldOf, Own, traces, Done
  <1>3. CASE CheckpointSequence
    <2>1. /\ pc = "cp_seq" /\ pc' = "cp_put"
          /\ UNCHANGED <<checkpoints, traces, request>>
      BY <1>3 DEF CheckpointSequence, Move, durable
    <2>2. QED
      BY <2>1 DEF Once, ToldOf, Own, traces, Existing
  <1>4. CASE CheckpointPut
    <2> DEFINE new == [request |-> request, seq |-> covers]
    <2>1. /\ pc = "cp_put" /\ pc' = "cp_note"
          /\ UNCHANGED <<traces, request>>
          /\ checkpoints' = checkpoints \cup {new}
      BY <1>4 DEF CheckpointPut, Move, volatile
    <2>2. new.request = request /\ new \in checkpoints'
      BY <2>1
    <2> HIDE DEF new
    <2>3. request \in Requests => \A cp \in checkpoints : cp.request # request
      BY <2>1 DEF Once, Existing
    <2>4. \A cp, other \in checkpoints' :
            cp.request = other.request /\ cp.request \in Requests => cp = other
      BY <2>1, <2>2, <2>3 DEF Once
    <2>5. Existing' # {}
      BY <2>1, <2>2 DEF Existing
    <2>6. \A q \in Requests : ToldOf(q)' => Own(q)' # {}
      BY <2>1 DEF Once, ToldOf, Own, traces
    <2>7. QED
      BY <2>1, <2>4, <2>5, <2>6 DEF Once
  <1>5. CASE CheckpointNote
    <2>1. /\ pc = "cp_note" /\ pc' = (IF request = NoRequest THEN "idle" ELSE "question")
          /\ UNCHANGED <<checkpoints, traces, request>>
      BY <1>5 DEF CheckpointNote, Record, Move, volatile
    <2>2. request # NoRequest => Existing' # {}
      BY <2>1 DEF Once, Existing
    <2>3. QED
      BY <2>1, <2>2 DEF Once, ToldOf, Own, traces
  <1>6. ASSUME NEW role, NEW from \in {"question", "answer"}, NEW to \in {"answer", "telemetry"},
               Tell(from, role, to)
        PROVE  Once'
    <2>1. /\ pc = from /\ pc' = to
          /\ UNCHANGED <<journal, checkpoints, telemetry, request, clean>>
          /\ session' = session \cup {[request |-> request, role |-> role, done |-> Done]}
      BY <1>6 DEF Tell, Move, volatile
    <2>2. (Done' <=> Done) /\ Existing' = Existing
      BY <2>1 DEF Done, Passed, Verdicts, Existing
    <2>3. Done => Existing # {}
      BY <2>1 DEF Once
    <2>4. ASSUME NEW q \in Requests, ToldOf(q)' PROVE Own(q)' # {}
      <3>1. CASE ToldOf(q)
        BY <2>1, <3>1 DEF Once, Own
      <3>2. CASE ~ToldOf(q)
        <4>1. PICK m \in session' : m.request = q /\ m.done
          BY <2>1, <2>4, <3>2 DEF ToldOf
        <4>2. m = [request |-> request, role |-> role, done |-> Done]
          BY <2>1, <3>2, <4>1 DEF ToldOf
        <4>3. q = request /\ Done
          BY <4>1, <4>2, Zenon
        <4>4. QED
          BY <2>1, <2>3, <4>3 DEF Existing, Own
      <3>3. QED
        BY <3>1, <3>2
    <2>5. QED
      BY <2>1, <2>2, <2>3, <2>4 DEF Once
  <1>7. CASE Question \/ Answer
    BY <1>6, <1>7 DEF Question, Answer
  <1>8. CASE RecordUse
    <2>1. /\ pc = "telemetry" /\ pc' \in {"idle", "episode"}
          /\ UNCHANGED <<checkpoints, session, request>>
          /\ \/ UNCHANGED telemetry
             \/ telemetry' = [telemetry EXCEPT ![request] = Use]
      BY <1>8 DEF RecordUse, volatile
    <2>2. Use = "success" => Existing # {}
      BY <2>1 DEF Use, Once
    <2>3. ASSUME NEW q \in Requests, ToldOf(q)' PROVE Own(q)' # {}
      <3>1. CASE ToldOf(q)
        BY <2>1, <3>1 DEF Once, Own
      <3>2. CASE ~ToldOf(q)
        <4>1. q = request /\ Use = "success"
          BY <2>1, <2>3, <3>2 DEF ToldOf
        <4>2. QED
          BY <2>1, <2>2, <4>1 DEF Existing, Own
      <3>3. QED
        BY <3>1, <3>2
    <2>4. QED
      BY <2>1, <2>3 DEF Once
  <1>9. CASE PutEpisode
    BY <1>9 DEF PutEpisode, Move, Once, ToldOf, Own
  <1>10. QED
    BY <1>1, <1>2, <1>3, <1>4, <1>5, <1>7, <1>8, <1>9 DEF Loop

LEMMA OnceNext == Engaged /\ Once /\ [RunNext]_runVars => Once'
  <1> SUFFICES ASSUME Engaged, Once, [RunNext]_runVars PROVE Once'
    OBVIOUS
  <1>1. CASE UNCHANGED runVars
    <2>1. UNCHANGED <<journal, checkpoints, traces, pc, request, clean>>
      BY <1>1 DEF runVars, durable, volatile
    <2>2. (Done' <=> Done) /\ Existing' = Existing
      BY <2>1 DEF Done, Passed, Verdicts, Existing
    <2>3. QED
      BY <2>1, <2>2 DEF Once, ToldOf, Own, traces
  <1>2. CASE WriteCheckpoint
    <2>1. pc' = "cp_seq" /\ request' = NoRequest /\ UNCHANGED <<checkpoints, traces>>
      BY <1>2 DEF WriteCheckpoint, Move, durable
    <2>2. QED
      BY <2>1, RunAssumption DEF Once, ToldOf, Own, traces
  <1>3. CASE (\E q \in Requests : Submit(q)) \/ Reconcile \/ Decided \/ VerifyPrior \/ Crash
    <2>1. /\ UNCHANGED <<checkpoints, traces>>
          /\ pc' \notin {"cp_seq", "cp_put", "cp_note", "question", "answer", "telemetry"}
      BY <1>3 DEF Submit, Reconcile, Decided, VerifyPrior, Crash, Record, Move, durable
    <2>2. QED
      BY <2>1, OnceElsewhere
  <1>4. QED
    BY <1>1, <1>2, <1>3, OnceLoop DEF RunNext, Recover

\* A request has one checkpoint, whichever port keeps it.
THEOREM OneCheckpoint == RunSpec => []OneCheckpointPerRequest
  <1>1. Engaged /\ Once => OneCheckpointPerRequest
    <2> SUFFICES ASSUME Once, NEW q \in Requests
                 PROVE  Cardinality(Own(q)) <= 1 /\ (ToldOf(q) => Own(q) # {})
      BY DEF OneCheckpointPerRequest, Own, ToldOf
    <2>1. CASE Own(q) = {}
      BY <2>1, FS_EmptySet DEF Once
    <2>2. CASE Own(q) # {}
      <3>1. PICK cp \in checkpoints : cp.request = q
        BY <2>2 DEF Own
      <3>2. Own(q) = {cp}
        BY <3>1 DEF Own, Once
      <3>3. Cardinality(Own(q)) = 1
        BY <3>2, FS_Singleton
      <3>4. QED
        BY <2>2, <3>3
    <2>3. QED
      BY <2>1, <2>2
  <1>2. QED
    BY <1>1, EngagedInit, EngagedNext, OnceInit, OnceNext, PTL DEF RunSpec

-----------------------------------------------------------------------------
(* Executed work comes first *)

\* Numbers have a least one.
LEMMA LeastNat ==
  ASSUME NEW T \in SUBSET Nat, T # {}
  PROVE  \E m \in T : \A n \in T : m <= n
  <1> DEFINE R == OpToRel(<, Nat)
  <1>1. IsWellFoundedOn(R, Nat)
    BY NatLessThanWellFounded
  <1>2. \A m, n \in T : n < m => <<n, m>> \in R
    BY DEF OpToRel
  <1> HIDE DEF R
  <1>3. PICK m \in T : \A n \in T : ~(<<n, m>> \in R)
    BY <1>1, WFMin
  <1>4. \A n \in T : ~(n < m)
    BY <1>2, <1>3
  <1>5. QED
    BY <1>4

LEMMA MaxOf ==
  ASSUME NEW n \in Nat, NEW T \in SUBSET (0..n), T # {}
  PROVE  Max(T) \in T
  <1> DEFINE D == {n - i : i \in T}
  <1>1. D \in SUBSET Nat /\ D # {}
    <2>1. \A i \in T : n - i \in Nat
      OBVIOUS
    <2>2. QED
      BY <2>1
  <1> HIDE DEF D
  <1>2. PICK d \in D : \A e \in D : d <= e
    BY <1>1, LeastNat
  <1>3. PICK m \in T : d = n - m
    BY <1>2 DEF D
  <1>4. ASSUME NEW i \in T PROVE m >= i
    <2>1. d <= n - i
      BY <1>2 DEF D
    <2>2. m \in 0..n /\ i \in 0..n
      OBVIOUS
    <2>3. QED
      BY <1>3, <2>1, <2>2
  <1>5. QED
    BY <1>4 DEF Max

\* Where no executed work is left to verify.
Tidy == {"gate", "lookup", "reserved", "handler", "commit", "committed", "fail", "failed",
         "error", "decided", "orchestrate", "cp_seq", "cp_put", "cp_note", "question",
         "answer", "telemetry", "episode"}

\* Where the one action of a request has been proposed.
Proposed == {"gate", "lookup", "reserved", "handler", "commit", "committed", "fail", "failed",
             "executed", "error"}

\* Where the effect of the action may be uncertain.
Open == {"reserved", "handler", "commit", "fail"}

\* Work that was not verified is the last thing that happened, no checkpoint
\* covers it, and no effect is uncertain beside it.
Pending ==
  /\ \A cp \in checkpoints : cp.seq <= Len(journal) /\ \A i \in Unverified : cp.seq < i
  /\ pc = "cp_put" => covers <= Len(journal)
  /\ pc \in Tidy => Unverified = {}
  /\ pc \in Proposed \/ (pc = "engine" /\ Unverified # {}) => actions # 0
  /\ Unverified # {} =>
       /\ Len(journal) \in Unverified
       /\ journal[Len(journal)].type \in {"action_executed", "side_effect_committed"}
       /\ Uncertain = {}
  /\ pc \notin Open \cup {"idle", "decided"} => Uncertain = {}
  /\ pc \in Open => Uncertain \subseteq {key}
  /\ pc = "decided" => receipts[key] = "failed"

LEMMA CursorBehind ==
  ASSUME Engaged, Pending
  PROVE  /\ Cursor \in 0..Len(journal)
         /\ \A i \in Unverified : Cursor < i
  <1>1. Len(journal) \in Nat /\ DOMAIN journal = 1..Len(journal)
    BY DEF Engaged, RunTypeOK
  <1> DEFINE T == {0} \cup {cp.seq : cp \in checkpoints}
  <1>2. T \in SUBSET (0..Len(journal)) /\ T # {}
    <2>1. \A cp \in checkpoints : cp.seq \in Nat
      BY DEF Engaged, RunTypeOK
    <2>2. QED
      BY <1>1, <2>1 DEF Pending
  <1>3. Cursor \in T
    BY <1>1, <1>2, MaxOf DEF Cursor
  <1>4. \A i \in Unverified : \A t \in T : t < i
    BY <1>1 DEF Pending, Unverified
  <1>5. QED
    BY <1>2, <1>3, <1>4

\* Executed work that waits for its verification is what the directive is about.
LEMMA PendingDirects ==
  ASSUME Engaged, Pending, Unverified # {}
  PROVE  Mode = "verify_prior_action"
  <1>1. Uncertain = {} /\ Len(journal) \in Unverified
    BY DEF Pending
  <1>2. /\ journal \in Seq(Event) /\ Len(journal) \in Nat
        /\ Cursor \in 0..Len(journal) /\ Cursor < Len(journal)
    BY <1>1, CursorBehind DEF Engaged, RunTypeOK
  <1>3. /\ NewEvents \in Seq(Event) /\ Len(NewEvents) = Len(journal) - Cursor
        /\ NewEvents[Len(NewEvents)] = journal[Len(journal)]
    <2>1. ASSUME NEW s \in Seq(Event), NEW c \in 0..Len(s), c < Len(s)
          PROVE  /\ SubSeq(s, c + 1, Len(s)) \in Seq(Event)
                 /\ Len(SubSeq(s, c + 1, Len(s))) = Len(s) - c
                 /\ SubSeq(s, c + 1, Len(s))[Len(s) - c] = s[Len(s)]
      <3>1. \A i \in (c + 1)..Len(s) : s[i] \in Event
        OBVIOUS
      <3>2. PICK m \in Int, n \in Int, d \in Int :
              /\ m = c + 1 /\ n = Len(s) /\ d = Len(s) - c
              /\ m <= n /\ n - m + 1 = d /\ d \in 1..d /\ m + d - 1 = n
        BY <2>1
      <3>3. \A i \in m..n : s[i] \in Event
        BY <3>1, <3>2
      <3>4. /\ SubSeq(s, m, n) \in Seq(Event)
            /\ Len(SubSeq(s, m, n)) = IF m <= n THEN n - m + 1 ELSE 0
            /\ \A i \in 1..(n - m + 1) : SubSeq(s, m, n)[i] = s[m + i - 1]
        BY <3>3, ST!SubSeqProperties
      <3>5. SubSeq(s, m, n)[d] = s[n]
        BY <3>2, <3>4
      <3>6. QED
        BY <3>2, <3>4, <3>5
    <2>2. QED
      BY <1>2, <2>1 DEF NewEvents
  <1>4. NewEvents # <<>>
    BY <1>2, <1>3
  <1>5. Last(NewEvents).type \in {"action_executed", "side_effect_committed"}
    BY <1>3 DEF Last, Pending
  <1>6. QED
    BY <1>1, <1>4, <1>5 DEF Mode

LEMMA PendingInit == RunInit => Pending
  <1> SUFFICES ASSUME RunInit PROVE Pending
    OBVIOUS
  <1>1. Unverified = {}
    BY DEF RunInit, Unverified
  <1>2. QED
    BY <1>1 DEF RunInit, Pending, Tidy, Proposed, Open

\* What an event does to what is to be verified.
LEMMA Judging ==
  ASSUME Engaged, NEW status \in {"PASS", "FAIL"}, Emit("verification_result", status)
  PROVE  Unverified' = {}
  <1>1. /\ journal' \in Seq(Event) /\ Len(journal') \in Nat
        /\ journal'[Len(journal')].type = "verification_result"
    BY Emitting DEF Engaged, RunTypeOK, EventTypes
  <1>2. QED
    BY <1>1 DEF Unverified

LEMMA Noting ==
  ASSUME Engaged, NEW type \in EventTypes,
         NEW status \in {"-", "EXECUTED", "ERROR", "PASS", "FAIL", "committed", "failed"},
         Emit(type, status), ~IsWork([type |-> type, status |-> status])
  PROVE  Unverified' \subseteq Unverified
  <1>1. /\ journal \in Seq(Event) /\ journal' \in Seq(Event)
        /\ Len(journal) \in Nat /\ Len(journal') = Len(journal) + 1
        /\ journal'[Len(journal')] = [type |-> type, status |-> status]
        /\ \A i \in 1..Len(journal) : journal'[i] = journal[i]
    BY Emitting DEF Engaged, RunTypeOK
  <1>2. ASSUME NEW i \in Unverified' PROVE i \in Unverified
    <2>1. /\ i \in 1..Len(journal') /\ IsWork(journal'[i])
          /\ \A j \in i..Len(journal') : journal'[j].type # "verification_result"
      BY <1>1, <1>2 DEF Unverified
    <2>2. i # Len(journal')
      BY <1>1, <2>1
    <2>3. i \in 1..Len(journal) /\ journal'[i] = journal[i]
      BY <1>1, <2>1, <2>2
    <2>4. \A j \in i..Len(journal) : journal[j].type # "verification_result"
      BY <1>1, <2>1, <2>3
    <2>5. IsWork(journal[i])
      BY <2>1, <2>3
    <2>6. QED
      BY <1>1, <2>3, <2>4, <2>5 DEF Unverified
  <1>3. QED
    BY <1>2

LEMMA Doing ==
  ASSUME Engaged, Pending, Uncertain = {},
         NEW type \in {"action_executed", "side_effect_committed"},
         NEW status \in {"-", "EXECUTED"}, IsWork([type |-> type, status |-> status]),
         Emit(type, status), UNCHANGED <<receipts, checkpoints>>
  PROVE  /\ \A cp \in checkpoints' :
              cp.seq <= Len(journal') /\ \A i \in Unverified' : cp.seq < i
         /\ Unverified' # {}
         /\ Len(journal') \in Unverified'
         /\ journal'[Len(journal')].type \in {"action_executed", "side_effect_committed"}
         /\ Uncertain' = {}
  <1>1. /\ journal \in Seq(Event) /\ journal' \in Seq(Event)
        /\ Len(journal) \in Nat /\ Len(journal') = Len(journal) + 1
        /\ journal'[Len(journal')] = [type |-> type, status |-> status]
        /\ \A i \in 1..Len(journal) : journal'[i] = journal[i]
    BY Emitting DEF Engaged, RunTypeOK, EventTypes
  <1>2. Len(journal') \in Unverified'
    <2>1. /\ DOMAIN journal' = 1..Len(journal') /\ Len(journal') \in 1..Len(journal')
          /\ Len(journal')..Len(journal') = {Len(journal')}
      BY <1>1
    <2>2. /\ IsWork(journal'[Len(journal')])
          /\ journal'[Len(journal')].type # "verification_result"
      BY <1>1
    <2>3. QED
      BY <2>1, <2>2 DEF Unverified
  <1>3. ASSUME NEW i \in Unverified', i # Len(journal') PROVE i \in Unverified
    <2>1. /\ i \in 1..Len(journal') /\ IsWork(journal'[i])
          /\ \A j \in i..Len(journal') : journal'[j].type # "verification_result"
      BY <1>1, <1>3 DEF Unverified
    <2>2. i \in 1..Len(journal) /\ journal'[i] = journal[i]
      BY <1>1, <1>3, <2>1
    <2>3. \A j \in i..Len(journal) : journal[j].type # "verification_result"
      BY <1>1, <2>1, <2>2
    <2>4. QED
      BY <1>1, <2>1, <2>2, <2>3 DEF Unverified
  <1>4. \A cp \in checkpoints : cp.seq \in Nat
    BY DEF Engaged, RunTypeOK
  <1>5. \A cp \in checkpoints : cp.seq < Len(journal')
    BY <1>1, <1>4 DEF Pending
  <1>6. ASSUME NEW cp \in checkpoints', NEW i \in Unverified' PROVE cp.seq < i
    BY <1>3, <1>5 DEF Pending
  <1>7. QED
    BY <1>1, <1>2, <1>4, <1>5, <1>6 DEF Uncertain

\* A step after which no executed work is to be verified.
LEMMA PendingNothing ==
  ASSUME Engaged, Pending, Unverified' = {}, UNCHANGED checkpoints,
         Len(journal') \in Nat, Len(journal) <= Len(journal'),
         pc' = "cp_put" => covers' <= Len(journal'),
         pc' \in Proposed => actions' # 0,
         pc' \notin Open \cup {"idle", "decided"} => Uncertain' = {},
         pc' \in Open => Uncertain' \subseteq {key'},
         pc' = "decided" => receipts'[key'] = "failed"
  PROVE  Pending'
  <1>1. \A cp \in checkpoints' : cp.seq <= Len(journal')
    <2>1. \A cp \in checkpoints : cp.seq \in Nat
      BY DEF Engaged, RunTypeOK
    <2>2. Len(journal) \in Nat
      BY DEF Engaged, RunTypeOK
    <2>3. QED
      BY <2>1, <2>2 DEF Pending
  <1>2. QED
    BY <1>1 DEF Pending

LEMMA Lengths ==
  ASSUME Engaged,
         \/ UNCHANGED journal
         \/ \E type \in EventTypes,
               status \in {"-", "EXECUTED", "ERROR", "PASS", "FAIL", "committed", "failed"} :
              Emit(type, status)
  PROVE  Len(journal') \in Nat /\ Len(journal) <= Len(journal')
  <1>1. journal \in Seq(Event) /\ Len(journal) \in Nat
    BY DEF Engaged, RunTypeOK
  <1>2. CASE UNCHANGED journal
    BY <1>1, <1>2
  <1>3. ASSUME NEW type \in EventTypes,
               NEW status \in {"-", "EXECUTED", "ERROR", "PASS", "FAIL", "committed", "failed"},
               Emit(type, status)
        PROVE  Len(journal') = Len(journal) + 1
    BY <1>1, <1>3, Emitting
  <1>4. QED
    BY <1>1, <1>2, <1>3

\* An event that is no work, or none, while nothing is to be verified.
LEMMA StillNothing ==
  ASSUME Engaged, Unverified = {},
         \/ UNCHANGED journal
         \/ \E type \in EventTypes,
               status \in {"-", "EXECUTED", "ERROR", "PASS", "FAIL", "committed", "failed"} :
              Emit(type, status) /\ ~IsWork([type |-> type, status |-> status])
  PROVE  /\ Unverified' = {}
         /\ Len(journal') \in Nat /\ Len(journal) <= Len(journal')
  <1>1. Len(journal') \in Nat /\ Len(journal) <= Len(journal')
    BY Lengths
  <1>2. CASE UNCHANGED journal
    BY <1>1, <1>2 DEF Unverified
  <1>3. CASE ~(UNCHANGED journal)
    BY <1>1, <1>3, Noting
  <1>4. QED
    BY <1>1, <1>2, <1>3

LEMMA SameReceipts == ASSUME UNCHANGED receipts PROVE Uncertain' = Uncertain
  BY DEF Uncertain

\* What the directive says of effects and work.
LEMMA Directed ==
  ASSUME Engaged, Pending, Mode \in {"resume_next_action", "write_checkpoint"}
  PROVE  Unverified = {} /\ Uncertain = {}
  <1>1. Unverified = {}
    BY PendingDirects
  <1>2. Uncertain # {} => Mode = "reconcile_side_effect"
    BY DEF Mode
  <1>3. QED
    BY <1>1, <1>2

LEMMA PendingSubmit ==
  ASSUME Engaged, Pending, Readable, NEW q \in Requests, Submit(q)
  PROVE  Pending'
  <1>a. /\ pc' = "engine" /\ UNCHANGED <<receipts, checkpoints>>
        /\ UNCHANGED journal \/ Emit("goal_started", "-")
    BY DEF Submit, Move
  <1>b. Mode = "resume_next_action"
    <2>1. Directive \in {"resume_next_action", "raises"} /\ Directive = Mode
      BY DEF Submit, Directive
    <2>2. Mode # "raises"
      BY DEF Mode
    <2>3. QED
      BY <2>1, <2>2
  <1>c. Unverified = {} /\ Uncertain = {}
    BY <1>b, Directed
  <1>1. /\ pc' = "engine" /\ UNCHANGED <<receipts, checkpoints>>
        /\ Unverified = {} /\ Uncertain' = {}
        /\ UNCHANGED journal \/ Emit("goal_started", "-")
    BY <1>a, <1>c, SameReceipts
  <1>2. ~IsWork([type |-> "goal_started", status |-> "-"]) /\ "goal_started" \in EventTypes
    BY DEF IsWork, EventTypes
  <1>3. /\ Unverified' = {}
        /\ Len(journal') \in Nat /\ Len(journal) <= Len(journal')
    BY <1>1, <1>2, StillNothing
  <1>4. QED
    BY <1>1, <1>3, PendingNothing DEF Proposed, Open

\* The steps of an action that add no work.
LEMMA PendingActions ==
  ASSUME MaxActions <= 1, Engaged, Pending,
         \/ \E k \in Keys \cup {NoKey} : Propose(k)
         \/ Deny \/ Authorize \/ Lookup \/ Reserved \/ Handler \/ Settle \/ Failed \/ Error
  PROVE  Pending'
  <1> DEFINE Noted == \/ UNCHANGED journal
                      \/ \E type \in EventTypes,
                            status \in {"-", "EXECUTED", "ERROR", "PASS", "FAIL", "committed",
                                        "failed"} :
                           Emit(type, status) /\ ~IsWork([type |-> type, status |-> status])
  <1>1. \A type \in {"action_proposed", "action_authorized", "side_effect_reserved",
                     "side_effect_failed", "recovery_decision"} :
          Emit(type, "-") => Noted
    BY DEF IsWork, EventTypes
  <1>2. Emit("action_executed", "ERROR") => Noted
    BY DEF IsWork, EventTypes
  <1>3. (UNCHANGED journal => Noted)
    OBVIOUS
  <1> HIDE DEF Noted
  <1>4. Unverified = {} /\ Noted => /\ Unverified' = {}
                                    /\ Len(journal') \in Nat /\ Len(journal) <= Len(journal')
    BY StillNothing DEF Noted
  <1>5. UNCHANGED receipts => Uncertain' = Uncertain
    BY SameReceipts
  <1>6. actions \in 0..MaxActions /\ MaxActions \in Nat
    BY RunAssumption DEF Engaged, RunTypeOK
  <1> USE DEF Proposed, Open, Tidy
  <1>7. ASSUME NEW k \in Keys \cup {NoKey}, Propose(k) PROVE Pending'
    <2>1. /\ pc = "engine" /\ pc' = "gate" /\ Noted /\ UNCHANGED <<receipts, checkpoints>>
          /\ actions < MaxActions /\ actions' = actions + 1
      BY <1>1, <1>7 DEF Propose, Move
    <2>2. actions = 0 /\ actions' # 0
      BY <1>6, <2>1
    <2>3. Unverified = {} /\ Uncertain = {}
      BY <2>1, <2>2 DEF Pending
    <2>4. QED
      BY <1>4, <1>5, <2>1, <2>2, <2>3, PendingNothing
  <1>8. CASE Deny
    <2>1. /\ pc = "gate" /\ pc' = "engine" /\ Noted /\ UNCHANGED <<receipts, checkpoints, actions>>
      BY <1>1, <1>8 DEF Deny, Move
    <2>2. Unverified = {} /\ Uncertain = {}
      BY <2>1 DEF Pending
    <2>3. QED
      BY <1>4, <1>5, <2>1, <2>2, PendingNothing
  <1>9. CASE Authorize
    <2>1. /\ pc = "gate" /\ pc' \in {"handler", "lookup", "error"} /\ Noted
          /\ UNCHANGED <<receipts, checkpoints, actions>>
      BY <1>1, <1>9 DEF Authorize, volatile
    <2>2. Unverified = {} /\ Uncertain = {} /\ actions # 0
      BY <2>1 DEF Pending
    <2>3. QED
      BY <1>4, <1>5, <2>1, <2>2, PendingNothing
  <1>10. CASE Lookup
    <2>1. /\ pc = "lookup" /\ Noted /\ UNCHANGED <<checkpoints, actions, key>>
          /\ \/ pc' = "engine" /\ UNCHANGED receipts
             \/ pc' = "reserved" /\ receipts' = [receipts EXCEPT ![key] = "started"]
      BY <1>1, <1>3, <1>10 DEF Lookup
    <2>2. Unverified = {} /\ Uncertain = {} /\ actions # 0
      BY <2>1 DEF Pending
    <2>3. pc' = "reserved" => Uncertain' \subseteq {key'}
      BY <2>1, <2>2 DEF Uncertain, Engaged, RunTypeOK
    <2>4. QED
      BY <1>4, <1>5, <2>1, <2>2, <2>3, PendingNothing
  <1>11. CASE Reserved
    <2>1. /\ pc = "reserved" /\ pc' = "handler" /\ Noted
          /\ UNCHANGED <<receipts, checkpoints, actions, key>>
      BY <1>1, <1>11 DEF Reserved, Record, Move, volatile
    <2>2. Unverified = {} /\ Uncertain \subseteq {key} /\ actions # 0
      BY <2>1 DEF Pending
    <2>3. QED
      BY <1>4, <1>5, <2>1, <2>2, PendingNothing
  <1>12. CASE Handler
    <2>1. /\ pc = "handler" /\ Noted /\ UNCHANGED <<receipts, checkpoints, actions, key>>
          /\ pc' \in (IF key = NoKey THEN {"executed", "error"} ELSE {"commit", "fail"})
      BY <1>3, <1>12 DEF Handler, durable, volatile
    <2>2. Unverified = {} /\ Uncertain \subseteq {key} /\ actions # 0
      BY <2>1 DEF Pending
    <2>3. key = NoKey => Uncertain = {}
      BY <2>2, RunAssumption DEF Uncertain
    <2>4. QED
      BY <1>4, <1>5, <2>1, <2>2, <2>3, PendingNothing
  <1>13. CASE Settle
    <2>1. /\ Noted /\ UNCHANGED <<checkpoints, actions>>
          /\ \E state \in {"committed", "failed"} : receipts' = [receipts EXCEPT ![key] = state]
          /\ pc \in {"commit", "fail"} /\ pc' \in {"committed", "failed"}
      BY <1>3, <1>13 DEF Settle, Move, volatile
    <2>2. Unverified = {} /\ Uncertain \subseteq {key} /\ actions # 0
      BY <2>1 DEF Pending
    <2>3. Uncertain' = {}
      BY <2>1, <2>2 DEF Uncertain, Engaged, RunTypeOK
    <2>4. QED
      BY <1>4, <2>1, <2>2, <2>3, PendingNothing
  <1>14. CASE Failed
    <2>1. /\ pc = "failed" /\ pc' = "error" /\ Noted
          /\ UNCHANGED <<receipts, checkpoints, actions>>
      BY <1>1, <1>14 DEF Failed, Record, Move, volatile
    <2>2. Unverified = {} /\ Uncertain = {} /\ actions # 0
      BY <2>1 DEF Pending
    <2>3. QED
      BY <1>4, <1>5, <2>1, <2>2, PendingNothing
  <1>15. CASE Error
    <2>1. /\ pc = "error" /\ pc' = "engine" /\ Noted
          /\ UNCHANGED <<receipts, checkpoints, actions>>
      BY <1>2, <1>15 DEF Error, Move
    <2>2. Unverified = {} /\ Uncertain = {}
      BY <2>1 DEF Pending
    <2>3. QED
      BY <1>4, <1>5, <2>1, <2>2, PendingNothing
  <1>16. QED
    BY <1>7, <1>8, <1>9, <1>10, <1>11, <1>12, <1>13, <1>14, <1>15

\* The steps that add work.
LEMMA PendingWork == ASSUME Engaged, Pending, Committed \/ Executed PROVE Pending'
  <1> USE DEF Proposed, Open, Tidy
  <1>1. CASE Committed
    <2>1. /\ pc = "committed" /\ pc' = "executed" /\ Emit("side_effect_committed", "-")
          /\ UNCHANGED <<receipts, checkpoints, actions>>
      BY <1>1 DEF Committed, Record, Move, volatile
    <2>2. Uncertain = {} /\ actions # 0
      BY <2>1 DEF Pending
    <2>3. IsWork([type |-> "side_effect_committed", status |-> "-"])
      BY DEF IsWork
    <2>4. /\ \A cp \in checkpoints' :
               cp.seq <= Len(journal') /\ \A i \in Unverified' : cp.seq < i
          /\ Len(journal') \in Unverified'
          /\ journal'[Len(journal')].type \in {"action_executed", "side_effect_committed"}
          /\ Uncertain' = {}
      BY <2>1, <2>2, <2>3, Doing
    <2>5. QED
      BY <2>1, <2>2, <2>4 DEF Pending
  <1>2. CASE Executed
    <2>1. /\ pc = "executed" /\ pc' = "engine" /\ Emit("action_executed", "EXECUTED")
          /\ UNCHANGED <<receipts, checkpoints, actions>>
      BY <1>2 DEF Executed, Record, Move, volatile
    <2>2. Uncertain = {} /\ actions # 0
      BY <2>1 DEF Pending
    <2>3. IsWork([type |-> "action_executed", status |-> "EXECUTED"])
      BY DEF IsWork
    <2>4. /\ \A cp \in checkpoints' :
               cp.seq <= Len(journal') /\ \A i \in Unverified' : cp.seq < i
          /\ Len(journal') \in Unverified'
          /\ journal'[Len(journal')].type \in {"action_executed", "side_effect_committed"}
          /\ Uncertain' = {}
      BY <2>1, <2>2, <2>3, Doing
    <2>5. QED
      BY <2>1, <2>2, <2>4 DEF Pending
  <1>3. QED
    BY <1>1, <1>2

\* The verdict, the checkpoint and what others are told.
LEMMA PendingVerdict ==
  ASSUME Engaged, Pending,
         \/ Verify \/ Orchestrate \/ CheckpointSequence \/ CheckpointPut \/ CheckpointNote
         \/ Question \/ Answer \/ RecordUse \/ PutEpisode
  PROVE  Pending'
  <1> USE DEF Proposed, Open, Tidy
  <1>1. UNCHANGED receipts => Uncertain' = Uncertain
    BY SameReceipts
  <1>2. Unverified = {} /\ UNCHANGED journal => /\ Unverified' = {}
                                               /\ Len(journal') \in Nat /\ Len(journal) <= Len(journal')
    BY StillNothing
  <1>3. CASE Verify
    <2>1. /\ pc = "engine" /\ pc' = "orchestrate" /\ UNCHANGED <<receipts, checkpoints>>
          /\ \E status \in {"PASS", "FAIL"} : Emit("verification_result", status)
      BY <1>3 DEF Verify, Move
    <2>2. Uncertain = {}
      BY <2>1 DEF Pending
    <2>3. Len(journal') \in Nat /\ Len(journal) <= Len(journal')
      BY <2>1, Lengths DEF EventTypes
    <2>4. Unverified' = {}
      BY <2>1, Judging
    <2>5. QED
      BY <1>1, <2>1, <2>2, <2>3, <2>4, PendingNothing
  <1>4. CASE Orchestrate \/ CheckpointSequence \/ Question \/ Answer \/ RecordUse \/ PutEpisode
    <2>1. /\ pc \in {"orchestrate", "cp_seq", "question", "answer", "telemetry", "episode"}
          /\ pc' \in {"cp_seq", "cp_put", "question", "answer", "telemetry", "episode", "idle"}
          /\ UNCHANGED <<journal, receipts, checkpoints>>
          /\ pc' = "cp_put" => covers' = Len(journal)
      BY <1>4 DEF Orchestrate, CheckpointSequence, Question, Answer, Tell, RecordUse, PutEpisode,
                  Move, durable
    <2>2. Unverified = {} /\ Uncertain = {}
      BY <2>1 DEF Pending
    <2>3. pc' = "cp_put" => covers' <= Len(journal')
      BY <1>2, <2>1, <2>2
    <2>4. QED
      BY <1>1, <1>2, <2>1, <2>2, <2>3, PendingNothing
  <1>5. CASE CheckpointPut
    <2>1. /\ pc = "cp_put" /\ pc' = "cp_note" /\ UNCHANGED <<journal, receipts>>
          /\ checkpoints' = checkpoints \cup {[request |-> request, seq |-> covers]}
      BY <1>5 DEF CheckpointPut, Move
    <2>2. Unverified = {} /\ Uncertain = {} /\ covers <= Len(journal)
      BY <2>1 DEF Pending
    <2>3. \A cp \in checkpoints' : cp.seq <= Len(journal')
      BY <2>1, <2>2 DEF Pending
    <2>4. QED
      BY <1>1, <1>2, <2>1, <2>2, <2>3 DEF Pending
  <1>6. CASE CheckpointNote
    <2>1. /\ pc = "cp_note" /\ pc' \in {"idle", "question"} /\ UNCHANGED <<receipts, checkpoints>>
          /\ Emit("checkpoint_written", "-")
      BY <1>6 DEF CheckpointNote, Record, Move
    <2>2. Unverified = {} /\ Uncertain = {}
      BY <2>1 DEF Pending
    <2>3. ~IsWork([type |-> "checkpoint_written", status |-> "-"])
          /\ "checkpoint_written" \in EventTypes
      BY DEF IsWork, EventTypes
    <2>4. /\ Unverified' = {}
          /\ Len(journal') \in Nat /\ Len(journal) <= Len(journal')
      BY <2>1, <2>2, <2>3, StillNothing
    <2>5. QED
      BY <1>1, <2>1, <2>2, <2>4, PendingNothing
  <1>7. QED
    BY <1>3, <1>4, <1>5, <1>6

LEMMA PendingRecover ==
  ASSUME "committed" \notin Resolutions, Engaged, Pending, Recover \/ Crash
  PROVE  Pending'
  <1> USE DEF Proposed, Open, Tidy
  <1>1. UNCHANGED receipts => Uncertain' = Uncertain
    BY SameReceipts
  <1>2. Unverified = {} /\ UNCHANGED journal => /\ Unverified' = {}
                                               /\ Len(journal') \in Nat /\ Len(journal) <= Len(journal')
    BY StillNothing
  <1>3. CASE Reconcile
    <2>1. /\ pc' = "decided" /\ UNCHANGED <<journal, checkpoints>>
          /\ \E k \in Uncertain, state \in Resolutions :
               receipts' = [receipts EXCEPT ![k] = state] /\ key' = k
      BY <1>3 DEF Reconcile, Move
    <2>2. Unverified = {}
      BY <2>1 DEF Pending
    <2>3. Resolutions \subseteq {"failed"}
      BY RunAssumption
    <2>4. receipts'[key'] = "failed"
      BY <2>1, <2>3 DEF Uncertain, Engaged, RunTypeOK
    <2>5. QED
      BY <1>2, <2>1, <2>2, <2>4, PendingNothing
  <1>4. CASE Decided
    <2>1. /\ pc = "decided" /\ pc' = "idle" /\ UNCHANGED <<receipts, checkpoints>>
          /\ Emit("recovery_decision", receipts[key])
      BY <1>4 DEF Decided, Record, Move
    <2>2. Unverified = {} /\ receipts[key] = "failed"
      BY <2>1 DEF Pending
    <2>3. ~IsWork([type |-> "recovery_decision", status |-> "failed"])
          /\ "recovery_decision" \in EventTypes /\ Emit("recovery_decision", "failed")
      BY <2>1, <2>2 DEF IsWork, EventTypes
    <2>4. /\ Unverified' = {}
          /\ Len(journal') \in Nat /\ Len(journal) <= Len(journal')
      BY <2>2, <2>3, StillNothing
    <2>5. QED
      BY <2>1, <2>4, PendingNothing
  <1>5. CASE VerifyPrior
    <2>1. /\ pc = "idle" /\ pc' = "idle" /\ UNCHANGED <<receipts, checkpoints>>
          /\ \E status \in {"PASS", "FAIL"} : Emit("verification_result", status)
      BY <1>5 DEF VerifyPrior
    <2>2. Unverified' = {}
      BY <2>1, Judging
    <2>3. Len(journal') \in Nat /\ Len(journal) <= Len(journal')
      BY <2>1, Lengths DEF EventTypes
    <2>4. QED
      BY <2>1, <2>2, <2>3, PendingNothing
  <1>6. CASE WriteCheckpoint
    <2>1. /\ pc' = "cp_seq" /\ UNCHANGED <<journal, receipts, checkpoints>>
          /\ Unverified = {} /\ Uncertain = {}
      BY <1>6, Directed DEF WriteCheckpoint, Move, durable, Directive
    <2>2. QED
      BY <1>1, <1>2, <2>1, PendingNothing
  <1>7. CASE Crash
    <2>1. pc' = "idle" /\ UNCHANGED <<journal, receipts, checkpoints>>
      BY <1>7 DEF Crash, durable
    <2>2. Unverified' = Unverified /\ Uncertain' = Uncertain
      BY <2>1 DEF Unverified, Uncertain
    <2>3. QED
      BY <2>1, <2>2 DEF Pending
  <1>8. QED
    BY <1>3, <1>4, <1>5, <1>6, <1>7 DEF Recover

\* A store that can be read could be read before: rows stay, and so does the port.
LEMMA ReadableBefore ==
  ASSUME [RunNext]_runVars, Readable'
  PROVE  Readable
  <1>1. port' = port /\ checkpoints \subseteq checkpoints'
    <2>1. CASE UNCHANGED runVars
      BY <2>1 DEF runVars, durable, outside
    <2>2. CASE \/ \E k \in Keys \cup {NoKey} : Propose(k)
               \/ Deny \/ Authorize \/ Lookup \/ Reserved \/ Handler \/ Settle \/ Committed
               \/ Failed \/ Executed \/ Error \/ Verify
      BY <2>2 DEF Propose, Deny, Authorize, Lookup, Reserved, Handler, Settle, Committed,
                  Failed, Executed, Error, Verify, Record, durable, outside
    <2>3. CASE \/ Orchestrate \/ CheckpointSequence \/ CheckpointPut \/ CheckpointNote
               \/ Question \/ Answer \/ RecordUse \/ PutEpisode
      BY <2>3 DEF Orchestrate, CheckpointSequence, CheckpointPut, CheckpointNote, Question,
                  Answer, Tell, RecordUse, PutEpisode, Record, durable, outside
    <2>4. CASE (\E q \in Requests : Submit(q)) \/ Recover \/ Crash
      BY <2>4 DEF Submit, Recover, Reconcile, Decided, VerifyPrior, WriteCheckpoint, Crash,
                  Record, durable, outside
    <2>5. QED
      BY <2>1, <2>2, <2>3, <2>4 DEF RunNext, Loop
  <1>2. QED
    BY <1>1 DEF Readable

LEMMA PendingNext ==
  ASSUME MaxActions <= 1, "committed" \notin Resolutions
  PROVE  Engaged /\ (Readable => Pending) /\ [RunNext]_runVars => (Readable => Pending)'
  <1> SUFFICES ASSUME Engaged, Readable => Pending, [RunNext]_runVars, Readable'
               PROVE  Pending'
    OBVIOUS
  <1>1. Readable /\ Pending
    BY ReadableBefore
  <1>2. CASE UNCHANGED runVars
    <2>1. UNCHANGED <<journal, receipts, checkpoints, pc, key, covers, actions>>
      BY <1>2 DEF runVars, durable, volatile
    <2>2. Unverified' = Unverified /\ Uncertain' = Uncertain
      BY <2>1 DEF Unverified, Uncertain
    <2>3. QED
      BY <1>1, <2>1, <2>2 DEF Pending
  <1>3. CASE Loop
    BY <1>1, <1>3, PendingActions, PendingWork, PendingVerdict DEF Loop
  <1>4. QED
    BY <1>1, <1>2, <1>3, PendingSubmit, PendingRecover DEF RunNext

\* Executed work is verified first, for requests of one action whose uncertain
\* effects are declared failed, as long as the checkpoints can be read.
THEOREM WorkComesFirst ==
  ASSUME MaxActions <= 1, "committed" \notin Resolutions
  PROVE  RunSpec => []WorkIsVerifiedFirst
  <1>1. Engaged /\ (Readable => Pending) => WorkIsVerifiedFirst
    BY PendingDirects DEF WorkIsVerifiedFirst, Directive
  <1>2. Engaged /\ (Readable => Pending) /\ [RunNext]_runVars => (Readable => Pending)'
    BY PendingNext
  <1>3. QED
    BY <1>1, <1>2, EngagedInit, EngagedNext, PendingInit, PTL DEF RunSpec

-----------------------------------------------------------------------------
(* What an engine is shown *)

\* What holds at 0 and of the next number holds up to n.
LEMMA Inductive ==
  ASSUME NEW n \in Nat, NEW T, 0 \in T, \A i \in 1 .. n : i - 1 \in T => i \in T
  PROVE  \A i \in 0 .. n : i \in T
<1> DEFINE R == OpToRel(<, Nat)
           Out == {i \in 0 .. n : i \notin T}
<1>1. IsWellFoundedOn(R, Nat)
  BY NatLessThanWellFounded
<1>2. \A i, j \in Out : i < j => <<i, j>> \in R
  BY DEF OpToRel
<1>3. Out \subseteq Nat
  OBVIOUS
<1> HIDE DEF R
<1>4. SUFFICES ASSUME Out # {} PROVE FALSE
  OBVIOUS
<1>5. PICK m \in Out : \A i \in Out : ~(<<i, m>> \in R)
  <2> HIDE DEF Out
  <2> QED
    BY <1>1, <1>3, <1>4, WFMin
<1>6. m \in 1 .. n /\ m - 1 \in 0 .. n /\ m - 1 < m
  OBVIOUS
<1>7. m - 1 \notin Out
  BY <1>2, <1>5, <1>6
<1> QED
  BY <1>6, <1>7

\* Rounds taken one after the other.
Rounds(run, first, step, n) == run[0] = first /\ \A i \in 1 .. n : run[i] = step[i][run[i - 1]]

\* Rounds go on by one more.
LEMMA RoundsGoOn ==
  ASSUME NEW n \in Nat, NEW X, NEW first \in X, NEW step \in [1 .. n -> [X -> X]],
         NEW m \in 1 .. n, NEW run \in [0 .. m - 1 -> X], Rounds(run, first, step, m - 1)
  PROVE  \E more \in [0 .. m -> X] : Rounds(more, first, step, m)
<1> DEFINE more == [i \in 0 .. m |-> IF i = m THEN step[m][run[m - 1]] ELSE run[i]]
<1>1. more \in [0 .. m -> X]
  <2>1. step[m] \in [X -> X] /\ run[m - 1] \in X
    OBVIOUS
  <2> QED
    BY <2>1
<1>2. more[0] = first
  BY DEF Rounds
<1>3. \A i \in 1 .. m : more[i] = step[i][more[i - 1]]
  BY DEF Rounds
<1> QED
  <2> HIDE DEF more
  <2> QED
    BY <1>1, <1>2, <1>3 DEF Rounds

\* Every round can be taken.
LEMMA RoundsExist ==
  ASSUME NEW n \in Nat, NEW X, NEW first \in X, NEW step \in [1 .. n -> [X -> X]]
  PROVE  \E run \in [0 .. n -> X] : Rounds(run, first, step, n)
<1> DEFINE T == {m \in 0 .. n : \E run \in [0 .. m -> X] : Rounds(run, first, step, m)}
<1>1. 0 \in T
  <2>1. PICK run : run = [i \in 0 .. 0 |-> first]
    OBVIOUS
  <2>2. run \in [0 .. 0 -> X] /\ Rounds(run, first, step, 0)
    BY <2>1 DEF Rounds
  <2> QED
    BY <2>2
<1>2. ASSUME NEW m \in 1 .. n, m - 1 \in T PROVE m \in T
  <2>1. PICK run \in [0 .. m - 1 -> X] : Rounds(run, first, step, m - 1)
    BY <1>2
  <2>2. PICK more \in [0 .. m -> X] : Rounds(more, first, step, m)
    BY <2>1, RoundsGoOn
  <2> QED
    BY <2>2
<1>3. \A m \in 0 .. n : m \in T
  <2> HIDE DEF T
  <2> QED
    BY <1>1, <1>2, Inductive
<1> QED
  BY <1>3

-----------------------------------------------------------------------------
(* Library items *)

PartNames == {"pitfalls", "use_when"}
LibraryItem ==
  [role : {"primary", "complement", "guardrail"}, id : Nat, parts : SUBSET PartNames,
   knowledge : Nat \ {0}]
Library == Seq(LibraryItem)

\* A sequence is a function on 1 .. Len(s).
LEMMA SeqArrow ==
  ASSUME NEW S, NEW s \in Seq(S)
  PROVE  Len(s) \in Nat /\ s \in [1 .. Len(s) -> S] /\ DOMAIN s = 1 .. Len(s)
  BY ST!LenProperties

\* A function on 1 .. n is a sequence.
LEMMA ArrowSeq ==
  ASSUME NEW S, NEW n \in Nat, NEW f \in [1 .. n -> S]
  PROVE  f \in Seq(S) /\ Len(f) = n /\ DOMAIN f = 1 .. n
<1>1. f \in Seq(S)
  BY ST!SeqDef
<1> QED
  BY <1>1, ST!LenProperties

\* The fields of an item.
LEMMA ItemFields ==
  ASSUME NEW x \in LibraryItem
  PROVE  /\ x.role \in {"primary", "complement", "guardrail"} /\ x.id \in Nat
         /\ x.parts \in SUBSET PartNames /\ x.knowledge \in Nat /\ x.knowledge >= 1
         /\ Cardinality(x.parts) \in Nat /\ Compact(x) \in Nat
         /\ Compact(x) = 1 + Cardinality(x.parts) + x.knowledge
<1>1. IsFiniteSet(PartNames)
  <2>1. PartNames = {"pitfalls"} \cup {"use_when"}
    BY DEF PartNames
  <2> QED
    BY <2>1, FS_Singleton, FS_Union
<1>2. x.parts \in SUBSET PartNames /\ x.knowledge \in Nat \ {0}
  BY DEF LibraryItem
<1>3. Cardinality(x.parts) \in Nat
  BY <1>1, <1>2, FS_Subset, FS_CardinalityType
<1> QED
  BY <1>2, <1>3 DEF LibraryItem, Compact

\* The sums of the first items.
Sums(run, s) ==
  /\ run \in [0 .. Len(s) -> Int] /\ run[0] = 0
  /\ \A i \in 1 .. Len(s) : run[i] = run[i - 1] + Compact(s[i])

\* Where they start and go on is where they are.
LEMMA SumsAre ==
  ASSUME NEW s \in Library, NEW run, Sums(run, s)
  PROVE  DeliveryChars(s) = run[Len(s)]
<1> DEFINE n == Len(s)
<1>0. n \in Nat
  BY SeqArrow DEF Library
<1> HIDE DEF n
<1>1. PICK g : /\ g = CHOOSE sum : sum = [i \in 0 .. n |-> IF i = 0 THEN 0
                                                        ELSE sum[i - 1] + Compact(s[i])]
               /\ DeliveryChars(s) = g[n]
  BY DEF DeliveryChars, Sizes, n
<1>2. run = [i \in 0 .. n |-> IF i = 0 THEN 0 ELSE run[i - 1] + Compact(s[i])]
  <2>1. run \in [0 .. n -> Int] /\ run[0] = 0
        /\ \A i \in 1 .. n : run[i] = run[i - 1] + Compact(s[i])
    BY DEF Sums, n
  <2>2. ASSUME NEW i \in 0 .. n
        PROVE  run[i] = IF i = 0 THEN 0 ELSE run[i - 1] + Compact(s[i])
    <3>1. i = 0 \/ i \in 1 .. n
      BY <1>0
    <3> QED
      BY <2>1, <3>1
  <2> QED
    BY <2>1, <2>2
<1>3. g = [i \in 0 .. n |-> IF i = 0 THEN 0 ELSE g[i - 1] + Compact(s[i])]
  BY <1>1, <1>2
<1> DEFINE T == {i \in 0 .. n : g[i] = run[i]}
<1>4. 0 \in T
  <2>1. 0 \in 0 .. n
    BY <1>0
  <2> QED
    BY <2>1, <1>2, <1>3
<1>5. ASSUME NEW i \in 1 .. n, i - 1 \in T PROVE i \in T
  <2>1. i \in 0 .. n /\ i # 0
    BY <1>0
  <2>2. g[i] = g[i - 1] + Compact(s[i]) /\ run[i] = run[i - 1] + Compact(s[i])
    BY <1>2, <1>3, <2>1
  <2> QED
    BY <1>5, <2>1, <2>2
<1>6. \A i \in 0 .. n : i \in T
  <2> HIDE DEF T
  <2> QED
    BY <1>0, <1>4, <1>5, Inductive
<1> QED
  BY <1>0, <1>1, <1>6 DEF Sums, n

\* There are such sums.
LEMMA SumsExist ==
  ASSUME NEW s \in Library
  PROVE  \E run : Sums(run, s) /\ run[Len(s)] \in Nat
<1> DEFINE n == Len(s)
           step == [i \in 1 .. n |-> [k \in Nat |-> k + Compact(s[i])]]
<1>1. n \in Nat /\ \A i \in 1 .. n : s[i] \in LibraryItem
  BY SeqArrow DEF Library
<1>2. step \in [1 .. n -> [Nat -> Nat]]
  <2>1. ASSUME NEW i \in 1 .. n, NEW k \in Nat PROVE k + Compact(s[i]) \in Nat
    BY <1>1, ItemFields
  <2> QED
    BY <2>1
<1>3. PICK run \in [0 .. n -> Nat] : Rounds(run, 0, step, n)
  <2> HIDE DEF n, step
  <2> QED
    BY <1>1, <1>2, RoundsExist
<1>4. ASSUME NEW i \in 1 .. n PROVE run[i] = run[i - 1] + Compact(s[i])
  <2>1. run[i - 1] \in Nat /\ run[i] = step[i][run[i - 1]]
    BY <1>1, <1>3 DEF Rounds
  <2> QED
    BY <2>1
<1> QED
  BY <1>1, <1>3, <1>4 DEF Sums, Rounds

\* Their characters are a number.
LEMMA CharsType ==
  ASSUME NEW s \in Library
  PROVE  DeliveryChars(s) \in Nat /\ JsonChars(s) \in Nat /\ DeliveryChars(s) <= JsonChars(s)
<1>1. Len(s) \in Nat
  BY SeqArrow DEF Library
<1>2. DeliveryChars(s) \in Nat
  BY SumsExist, SumsAre
<1> QED
  BY <1>1, <1>2 DEF JsonChars

\* Without one of its items a library is one shorter.
Dropped(s, i, t) ==
  /\ Len(t) = Len(s) - 1
  /\ \A j \in 1 .. Len(t) : t[j] = IF j < i THEN s[j] ELSE s[j + 1]

\* ... that is what Without makes of it.
LEMMA WithoutIs ==
  ASSUME NEW s \in Library, NEW i \in 1 .. Len(s)
  PROVE  Without(s, i) \in Library /\ Dropped(s, i, Without(s, i))
<1>1. Len(s) \in Nat
  BY SeqArrow DEF Library
<1>2. PICK a \in Library, b \in Library : a = SubSeq(s, 1, i - 1) /\ b = SubSeq(s, i + 1, Len(s))
  <2>1. SubSeq(s, 1, i - 1) \in Library /\ SubSeq(s, i + 1, Len(s)) \in Library
    BY <1>1 DEF Library
  <2> QED
    BY <2>1
<1>3. /\ Len(a) = i - 1 /\ \A j \in 1 .. i - 1 : a[j] = s[j]
      /\ Len(b) = Len(s) - i /\ \A j \in 1 .. Len(s) - i : b[j] = s[i + j]
  BY <1>1, <1>2 DEF Library
<1>4. Without(s, i) = a \o b
  BY <1>2 DEF Without, RemoveAt
<1>5. /\ a \o b \in Library /\ Len(a \o b) = Len(a) + Len(b)
      /\ \A j \in 1 .. Len(a) + Len(b) : (a \o b)[j] = IF j <= Len(a) THEN a[j] ELSE b[j - Len(a)]
  BY ST!ConcatProperties DEF Library
<1>6. Len(a \o b) = Len(s) - 1
  BY <1>1, <1>3, <1>5
<1>7. ASSUME NEW j \in 1 .. Len(s) - 1 PROVE (a \o b)[j] = IF j < i THEN s[j] ELSE s[j + 1]
  <2>1. CASE j < i
    <3>1. j \in 1 .. i - 1 /\ j <= Len(a)
      BY <1>1, <1>3, <2>1
    <3> QED
      BY <1>1, <1>3, <1>5, <1>6, <2>1, <3>1
  <2>2. CASE ~(j < i)
    <3>1. j - (i - 1) \in 1 .. Len(s) - i /\ ~(j <= Len(a)) /\ i + (j - (i - 1)) = j + 1
      BY <1>1, <1>3, <2>2
    <3>2. (a \o b)[j] = b[j - (i - 1)]
      BY <1>1, <1>3, <1>5, <1>6, <3>1
    <3> QED
      BY <1>3, <2>2, <3>1, <3>2
  <2> QED
    BY <2>1, <2>2
<1> QED
  BY <1>4, <1>5, <1>6, <1>7 DEF Dropped

\* What is dropped is no longer counted.
LEMMA CharsWithout ==
  ASSUME NEW s \in Library, NEW i \in 1 .. Len(s)
  PROVE  DeliveryChars(Without(s, i)) = DeliveryChars(s) - Compact(s[i])
<1>1. PICK t \in Library : t = Without(s, i) /\ Dropped(s, i, t)
  BY WithoutIs
<1>2. PICK run : Sums(run, s)
  BY SumsExist
<1>3. PICK n \in Nat : n = Len(s) /\ Len(t) = n - 1
  BY <1>1, SeqArrow DEF Library, Dropped
<1>4. \A j \in 1 .. n : s[j] \in LibraryItem
  BY <1>3, SeqArrow DEF Library
<1>5. PICK c \in Nat : c = Compact(s[i])
  BY <1>3, <1>4, ItemFields
<1>6. PICK few : few = [j \in 0 .. n - 1 |-> IF j < i THEN run[j] ELSE run[j + 1] - c]
  OBVIOUS
<1>7. /\ run \in [0 .. n -> Int] /\ run[0] = 0
      /\ \A j \in 1 .. n : run[j] = run[j - 1] + Compact(s[j])
  BY <1>2, <1>3 DEF Sums
<1>8. few \in [0 .. n - 1 -> Int] /\ few[0] = 0
  BY <1>3, <1>6, <1>7
<1>9. ASSUME NEW j \in 1 .. n - 1 PROVE few[j] = few[j - 1] + Compact(t[j])
  <2>0. t[j] = (IF j < i THEN s[j] ELSE s[j + 1]) /\ j \in 0 .. n - 1 /\ j - 1 \in 0 .. n - 1
        /\ j \in 1 .. n /\ j + 1 \in 1 .. n /\ (j + 1) - 1 = j
    BY <1>1, <1>3 DEF Dropped
  <2>1. PICK x \in Nat, y \in Nat : x = Compact(s[j]) /\ y = Compact(s[j + 1])
    BY <1>4, <2>0, ItemFields
  <2>2. run[j] = run[j - 1] + x /\ run[j + 1] = run[j] + y
    BY <1>7, <2>0, <2>1
  <2>3. run[j - 1] \in Int /\ run[j] \in Int /\ run[j + 1] \in Int
    BY <1>7, <2>0
  <2>4. CASE j < i
    BY <1>6, <2>0, <2>1, <2>2, <2>3, <2>4
  <2>5. CASE j = i
    <3>1. few[j] = run[j + 1] - c /\ few[j - 1] = run[j - 1] /\ t[j] = s[j + 1] /\ c = x
      BY <1>3, <1>5, <1>6, <2>0, <2>1, <2>5
    <3> QED
      BY <2>1, <2>2, <2>3, <3>1
  <2>6. CASE j > i
    <3>1. few[j] = run[j + 1] - c /\ few[j - 1] = run[j] - c /\ t[j] = s[j + 1]
      BY <1>3, <1>6, <2>0, <2>6
    <3> QED
      BY <2>1, <2>2, <2>3, <3>1
  <2> QED
    BY <1>3, <2>0, <2>4, <2>5, <2>6
<1>10. Sums(few, t)
  BY <1>3, <1>8, <1>9 DEF Sums
<1>11. few[n - 1] = run[n] - c
  <2>0. n \in 1 .. n /\ n - 1 \in 0 .. n - 1 /\ n - 1 \in 0 .. n /\ i \in 1 .. n
    BY <1>3
  <2>1. CASE i = n
    <3>1. run[n] = run[n - 1] + c /\ run[n - 1] \in Int
      BY <1>5, <1>7, <2>0, <2>1
    <3> QED
      BY <1>6, <2>0, <2>1, <3>1
  <2>2. CASE i # n
    BY <1>3, <1>6, <2>0, <2>2
  <2> QED
    BY <2>1, <2>2
<1> QED
  BY <1>1, <1>2, <1>3, <1>5, <1>10, <1>11, SumsAre

\* An item is replaced by another one.
Edited(s, i, x, t) ==
  Len(t) = Len(s) /\ \A j \in 1 .. Len(s) : t[j] = IF j = i THEN x ELSE s[j]

\* EXCEPT edits one item.
LEMMA ExceptIs ==
  ASSUME NEW s \in Library, NEW i \in 1 .. Len(s), NEW x \in LibraryItem
  PROVE  [s EXCEPT ![i] = x] \in Library /\ Edited(s, i, x, [s EXCEPT ![i] = x])
  BY DEF Library, Edited

\* What it counts for is counted instead.
LEMMA CharsEdited ==
  ASSUME NEW s \in Library, NEW i \in 1 .. Len(s), NEW x \in LibraryItem,
         NEW t \in Library, Edited(s, i, x, t)
  PROVE  DeliveryChars(t) = DeliveryChars(s) - Compact(s[i]) + Compact(x)
<1>2. PICK run : Sums(run, s)
  BY SumsExist
<1>3. PICK n \in Nat : n = Len(s) /\ Len(t) = n
  BY SeqArrow DEF Library, Edited
<1>4. \A j \in 1 .. n : s[j] \in LibraryItem /\ t[j] = IF j = i THEN x ELSE s[j]
  BY <1>3, SeqArrow DEF Library, Edited
<1>5. PICK c \in Nat, d \in Nat : c = Compact(s[i]) /\ d = Compact(x)
  BY <1>3, <1>4, ItemFields
<1>6. PICK now : now = [j \in 0 .. n |-> IF j < i THEN run[j] ELSE run[j] - c + d]
  OBVIOUS
<1>7. /\ run \in [0 .. n -> Int] /\ run[0] = 0
      /\ \A j \in 1 .. n : run[j] = run[j - 1] + Compact(s[j])
  BY <1>2, <1>3 DEF Sums
<1>8. now \in [0 .. n -> Int] /\ now[0] = 0
  BY <1>3, <1>6, <1>7
<1>9. ASSUME NEW j \in 1 .. n PROVE now[j] = now[j - 1] + Compact(t[j])
  <2>0. j \in 0 .. n /\ j - 1 \in 0 .. n
    BY <1>3
  <2>1. PICK y \in Nat : y = Compact(s[j])
    BY <1>4, ItemFields
  <2>2. run[j] = run[j - 1] + y /\ run[j - 1] \in Int /\ run[j] \in Int
    BY <1>7, <2>0, <2>1
  <2>4. CASE j < i
    BY <1>4, <1>6, <2>0, <2>1, <2>2, <2>4
  <2>5. CASE j = i
    BY <1>4, <1>5, <1>6, <2>0, <2>1, <2>2, <2>5
  <2>6. CASE j > i
    <3>1. now[j] = run[j] - c + d /\ now[j - 1] = run[j - 1] - c + d /\ t[j] = s[j]
      BY <1>3, <1>4, <1>6, <2>0, <2>6
    <3> QED
      BY <2>1, <2>2, <3>1
  <2> QED
    BY <1>3, <2>0, <2>4, <2>5, <2>6
<1>10. Sums(now, t)
  BY <1>3, <1>8, <1>9 DEF Sums
<1>11. now[n] = run[n] - c + d
  BY <1>3, <1>5, <1>6, <1>7
<1> QED
  BY <1>2, <1>3, <1>5, <1>10, <1>11, SumsAre

\* Numbers up to n have a last one, or there is none.
LEMMA LastOfAll ==
  ASSUME NEW n \in Nat, NEW T \in SUBSET (1 .. n)
  PROVE  \E m \in 0 .. n : (m > 0 => m \in T) /\ \A j \in m + 1 .. n : j \notin T
<1> DEFINE Up == {i \in 0 .. n : \E m \in 0 .. i : (m > 0 => m \in T) /\ \A j \in m + 1 .. i : j \notin T}
<1>1. 0 \in Up
  OBVIOUS
<1>2. ASSUME NEW i \in 1 .. n, i - 1 \in Up PROVE i \in Up
  <2>1. PICK m \in 0 .. i - 1 : (m > 0 => m \in T) /\ \A j \in m + 1 .. i - 1 : j \notin T
    BY <1>2
  <2>2. CASE i \in T
    <3>1. i \in 0 .. i /\ \A j \in i + 1 .. i : j \notin T
      OBVIOUS
    <3> QED
      BY <2>2, <3>1
  <2>3. CASE i \notin T
    <3>1. \A j \in m + 1 .. i : j \in m + 1 .. i - 1 \/ j = i
      OBVIOUS
    <3>2. m \in 0 .. i
      OBVIOUS
    <3> QED
      BY <2>1, <2>3, <3>1, <3>2
  <2> QED
    BY <2>2, <2>3
<1>3. \A i \in 0 .. n : i \in Up
  <2> HIDE DEF Up
  <2> QED
    BY <1>1, <1>2, Inductive
<1> QED
  BY <1>3

\* The last complement.
LEMMA LastComplement ==
  ASSUME NEW s \in Library, NEW k, k = LastSuch(s, IsComplement)
  PROVE  /\ k \in 0 .. Len(s) /\ (k > 0 => s[k].role = "complement")
         /\ \A j \in k + 1 .. Len(s) : s[j].role # "complement"
<1>1. PICK n \in Nat : n = Len(s)
  BY SeqArrow DEF Library
<1>2. PICK T \in SUBSET (1 .. n) : T = {j \in 1 .. n : s[j].role = "complement"}
  OBVIOUS
<1>3. \E m \in 0 .. n : (m > 0 => m \in T) /\ \A j \in m + 1 .. n : j \notin T
  BY LastOfAll
<1>4. k = CHOOSE i \in 0 .. n : /\ i > 0 => s[i].role = "complement"
                                /\ \A j \in i + 1 .. n : ~(s[j].role = "complement")
  BY <1>1 DEF LastSuch, IsComplement
<1>5. \E i \in 0 .. n : /\ i > 0 => s[i].role = "complement"
                        /\ \A j \in i + 1 .. n : ~(s[j].role = "complement")
  BY <1>2, <1>3
<1> QED
  BY <1>1, <1>4, <1>5

\* The last advice.
LEMMA LastAdvice ==
  ASSUME NEW s \in Library, NEW k, k = LastSuch(s, IsAdvice)
  PROVE  /\ k \in 0 .. Len(s) /\ (k > 0 => s[k].role # "guardrail")
         /\ \A j \in k + 1 .. Len(s) : s[j].role = "guardrail"
<1>1. PICK n \in Nat : n = Len(s)
  BY SeqArrow DEF Library
<1>2. PICK T \in SUBSET (1 .. n) : T = {j \in 1 .. n : ~(s[j].role = "guardrail")}
  OBVIOUS
<1>3. \E m \in 0 .. n : (m > 0 => m \in T) /\ \A j \in m + 1 .. n : j \notin T
  BY LastOfAll
<1>4. k = CHOOSE i \in 0 .. n : /\ i > 0 => ~(s[i].role = "guardrail")
                                /\ \A j \in i + 1 .. n : ~~(s[j].role = "guardrail")
  BY <1>1 DEF LastSuch, IsAdvice, IsGuardrail
<1>5. \E i \in 0 .. n : /\ i > 0 => ~(s[i].role = "guardrail")
                        /\ \A j \in i + 1 .. n : ~~(s[j].role = "guardrail")
  BY <1>2, <1>3
<1> QED
  BY <1>1, <1>4, <1>5

\* The last item that has a part.
LastWith(s, p) == LastSuch(s, LAMBDA x : p \in x.parts)

\* ... is the last of all that have it.
LEMMA LastPart ==
  ASSUME NEW s \in Library, NEW p, NEW k, k = LastWith(s, p)
  PROVE  /\ k \in 0 .. Len(s) /\ (k > 0 => p \in s[k].parts)
         /\ \A j \in k + 1 .. Len(s) : p \notin s[j].parts
<1>1. PICK n \in Nat : n = Len(s)
  BY SeqArrow DEF Library
<1>2. PICK T \in SUBSET (1 .. n) : T = {j \in 1 .. n : p \in s[j].parts}
  OBVIOUS
<1>3. \E m \in 0 .. n : (m > 0 => m \in T) /\ \A j \in m + 1 .. n : j \notin T
  BY LastOfAll
<1>4. k = CHOOSE i \in 0 .. n : /\ i > 0 => p \in s[i].parts
                                /\ \A j \in i + 1 .. n : ~(p \in s[j].parts)
  BY <1>1 DEF LastWith, LastSuch
<1>5. \E i \in 0 .. n : /\ i > 0 => p \in s[i].parts
                        /\ \A j \in i + 1 .. n : ~(p \in s[j].parts)
  BY <1>2, <1>3
<1> QED
  BY <1>1, <1>4, <1>5

-----------------------------------------------------------------------------
(* A round *)

\* An item is made shorter.
Trims(s, t) ==
  \E i \in 1 .. Len(s), x \in LibraryItem :
    /\ Edited(s, i, x, t)
    /\ x.role = s[i].role /\ x.id = s[i].id /\ Compact(x) < Compact(s[i])

\* A complement goes, or without any other advice.
Drops(s, t) ==
  \E i \in 1 .. Len(s) :
    /\ t = Without(s, i)
    /\ \/ s[i].role = "complement"
       \/ /\ s[i].role # "guardrail" /\ Len(s) > 1
          /\ \A j \in 1 .. Len(s) : s[j].role # "complement"

\* Nothing is left that may be taken.
Bare(s) ==
  /\ \A j \in 1 .. Len(s) : s[j].parts = {} /\ s[j].knowledge <= 1 /\ s[j].role # "complement"
  /\ Len(s) > 1 => \A j \in 1 .. Len(s) : s[j].role = "guardrail"

Round(s, t) == t \in Library /\ (Trims(s, t) \/ Drops(s, t) \/ (t = s /\ Bare(s)))

\* A part is given up.
LEMMA GiveUpTrims ==
  ASSUME NEW s \in Library, GivesUp(s)
  PROVE  GiveUp(s) \in Library /\ Trims(s, GiveUp(s))
<1>1. PICK n \in Nat : n = Len(s) /\ DOMAIN s = 1 .. n /\ \A j \in 1 .. n : s[j] \in LibraryItem
  BY SeqArrow DEF Library
<1>2. PICK k1 : k1 = LastWith(s, "pitfalls")
  OBVIOUS
<1>3. PICK k2 : k2 = LastWith(s, "use_when")
  OBVIOUS
<1>4. /\ k1 \in 0 .. n /\ (k1 > 0 => "pitfalls" \in s[k1].parts)
      /\ \A j \in k1 + 1 .. n : "pitfalls" \notin s[j].parts
  BY <1>1, <1>2, LastPart
<1>5. /\ k2 \in 0 .. n /\ (k2 > 0 => "use_when" \in s[k2].parts)
      /\ \A j \in k2 + 1 .. n : "use_when" \notin s[j].parts
  BY <1>1, <1>3, LastPart
<1>6. PICK i \in 1 .. n, p \in PartNames :
        p \in s[i].parts /\ GiveUp(s) = [s EXCEPT ![i].parts = @ \ {p}]
  <2>0. Optional[1] = "pitfalls" /\ Optional[2] = "use_when"
    BY DEF Optional
  <2>1. CASE k1 > 0
    <3>1. GiveUp(s) = [s EXCEPT ![k1].parts = @ \ {"pitfalls"}]
      BY <1>2, <2>0, <2>1 DEF GiveUp, LastWith
    <3>2. k1 \in 1 .. n /\ "pitfalls" \in PartNames
      BY <1>4, <2>1 DEF PartNames
    <3> QED
      BY <1>4, <2>1, <3>1, <3>2
  <2>2. CASE ~(k1 > 0)
    <3>1. GiveUp(s) = [s EXCEPT ![k2].parts = @ \ {"use_when"}]
      BY <1>2, <1>3, <2>0, <2>2 DEF GiveUp, LastWith
    <3>2. PICK j \in 1 .. n : s[j].parts # {}
      BY <1>1 DEF GivesUp
    <3>3. j \in k1 + 1 .. n
      BY <1>4, <2>2
    <3>4. "pitfalls" \notin s[j].parts
      BY <1>4, <3>3
    <3>5. s[j].parts \in SUBSET PartNames
      BY <1>1, ItemFields
    <3>6. "use_when" \in s[j].parts
      BY <3>2, <3>4, <3>5 DEF PartNames
    <3>7. k2 > 0
      <4>1. CASE k2 = 0
        BY <1>5, <3>6, <4>1
      <4> QED
        BY <1>5, <4>1
    <3>8. k2 \in 1 .. n /\ "use_when" \in PartNames
      BY <1>5, <3>7 DEF PartNames
    <3> QED
      BY <1>5, <3>1, <3>7, <3>8
  <2> QED
    BY <2>1, <2>2
<1>7. PICK x : x = [s[i] EXCEPT !.parts = @ \ {p}]
  OBVIOUS
<1>8. x \in LibraryItem /\ x.role = s[i].role /\ x.id = s[i].id /\ x.parts = s[i].parts \ {p}
      /\ x.knowledge = s[i].knowledge
  BY <1>1, <1>7 DEF LibraryItem
<1>9. GiveUp(s) = [s EXCEPT ![i] = x]
  BY <1>1, <1>6, <1>7
<1>10. Compact(x) < Compact(s[i])
  <2>1. IsFiniteSet(s[i].parts)
    <3>1. PartNames = {"pitfalls"} \cup {"use_when"}
      BY DEF PartNames
    <3>2. IsFiniteSet(PartNames)
      BY <3>1, FS_Singleton, FS_Union
    <3>3. s[i].parts \in SUBSET PartNames
      BY <1>1, ItemFields
    <3> QED
      BY <3>2, <3>3, FS_Subset
  <2>2. Cardinality(s[i].parts \ {p}) = Cardinality(s[i].parts) - 1
    BY <1>6, <2>1, FS_RemoveElement
  <2>3. /\ Compact(x) = 1 + Cardinality(x.parts) + x.knowledge
        /\ Compact(s[i]) = 1 + Cardinality(s[i].parts) + s[i].knowledge
        /\ Cardinality(s[i].parts) \in Nat /\ s[i].knowledge \in Nat
    BY <1>1, <1>8, ItemFields
  <2> QED
    BY <1>8, <2>2, <2>3
<1>11. [s EXCEPT ![i] = x] \in Library /\ Edited(s, i, x, [s EXCEPT ![i] = x])
  BY <1>1, <1>8, ExceptIs
<1> QED
  BY <1>1, <1>8, <1>9, <1>10, <1>11 DEF Trims

\* The longest knowledge of the first m items is at i for the first time.
IsLongest(s, i, m) ==
  /\ i \in 1 .. m /\ \A j \in 1 .. m : s[j].knowledge <= s[i].knowledge
  /\ \A j \in 1 .. i - 1 : s[j].knowledge < s[i].knowledge

\* There is a longest knowledge, and Longest finds it.
LEMMA LongestIs ==
  ASSUME NEW s \in Library, s # <<>>
  PROVE  /\ Longest(s) \in 1 .. Len(s)
         /\ \A j \in 1 .. Len(s) : s[j].knowledge <= s[Longest(s)].knowledge
<1>1. PICK n \in Nat : n = Len(s) /\ DOMAIN s = 1 .. n /\ \A j \in 1 .. n : s[j].knowledge \in Nat
  <2>1. \A j \in 1 .. Len(s) : s[j] \in LibraryItem
    BY SeqArrow DEF Library
  <2> QED
    BY <2>1, SeqArrow, ItemFields DEF Library
<1> DEFINE T == {m \in 0 .. n : m = 0 \/ \E i \in 1 .. m : IsLongest(s, i, m)}
<1>2. 0 \in T
  OBVIOUS
<1>3. ASSUME NEW m \in 1 .. n, m - 1 \in T PROVE m \in T
  <2>1. CASE m = 1
    <3>1. IsLongest(s, 1, 1)
      BY <1>1, <2>1 DEF IsLongest
    <3> QED
      BY <2>1, <3>1
  <2>2. CASE m # 1
    <3>1. PICK i \in 1 .. m - 1 : IsLongest(s, i, m - 1)
      BY <1>3, <2>2
    <3>2. \A j \in 1 .. m : j \in 1 .. m - 1 \/ j = m
      OBVIOUS
    <3>3. CASE s[m].knowledge <= s[i].knowledge
      <4>1. IsLongest(s, i, m)
        BY <3>1, <3>2, <3>3 DEF IsLongest
      <4> QED
        BY <3>1, <4>1
    <3>4. CASE ~(s[m].knowledge <= s[i].knowledge)
      <4>1. /\ m \in 1 .. n /\ i \in 1 .. n /\ s[m].knowledge \in Nat /\ s[i].knowledge \in Nat
            /\ \A j \in 1 .. m - 1 : j \in 1 .. n /\ s[j].knowledge \in Nat
        BY <1>1
      <4>2. \A j \in 1 .. m - 1 : s[j].knowledge < s[m].knowledge
        BY <3>1, <3>4, <4>1 DEF IsLongest
      <4>3. IsLongest(s, m, m)
        BY <3>2, <4>1, <4>2 DEF IsLongest
      <4> QED
        BY <4>3
    <3> QED
      BY <3>3, <3>4
  <2> QED
    BY <2>1, <2>2
<1>4. \A m \in 0 .. n : m \in T
  <2> HIDE DEF T
  <2> QED
    BY <1>1, <1>2, <1>3, Inductive
<1>5. n # 0
  BY <1>1 DEF Library
<1>6. PICK i \in 1 .. n : IsLongest(s, i, n)
  BY <1>4, <1>5
<1>7. \E k \in DOMAIN s : /\ \A j \in DOMAIN s : s[j].knowledge <= s[k].knowledge
                          /\ \A j \in 1 .. (k - 1) : s[j].knowledge < s[k].knowledge
  BY <1>1, <1>6 DEF IsLongest
<1>8. /\ Longest(s) \in DOMAIN s
      /\ \A j \in DOMAIN s : s[j].knowledge <= s[Longest(s)].knowledge
  BY <1>7 DEF Longest
<1> QED
  BY <1>1, <1>8

\* Knowledge is cut.
LEMMA CutTrims ==
  ASSUME NEW s \in Library, NEW i \in 1 .. Len(s), NEW k \in Nat \ {0}, k < s[i].knowledge
  PROVE  [s EXCEPT ![i].knowledge = k] \in Library /\ Trims(s, [s EXCEPT ![i].knowledge = k])
<1>1. PICK n \in Nat : n = Len(s) /\ DOMAIN s = 1 .. n /\ \A j \in 1 .. n : s[j] \in LibraryItem
  BY SeqArrow DEF Library
<1>2. PICK x : x = [s[i] EXCEPT !.knowledge = k]
  OBVIOUS
<1>3. x \in LibraryItem /\ x.role = s[i].role /\ x.id = s[i].id /\ x.parts = s[i].parts
      /\ x.knowledge = k
  BY <1>1, <1>2 DEF LibraryItem
<1>4. [s EXCEPT ![i].knowledge = k] = [s EXCEPT ![i] = x]
  BY <1>1, <1>2
<1>5. Compact(x) < Compact(s[i])
  <2>1. /\ Compact(x) = 1 + Cardinality(x.parts) + x.knowledge
        /\ Compact(s[i]) = 1 + Cardinality(s[i].parts) + s[i].knowledge
        /\ Cardinality(s[i].parts) \in Nat /\ s[i].knowledge \in Nat
    BY <1>1, <1>3, ItemFields
  <2> QED
    BY <1>3, <2>1
<1>6. [s EXCEPT ![i] = x] \in Library /\ Edited(s, i, x, [s EXCEPT ![i] = x])
  BY <1>1, <1>3, ExceptIs
<1> QED
  BY <1>1, <1>3, <1>4, <1>5, <1>6 DEF Trims

\* Advice is dropped where no complement is left, or nothing is.
LEMMA AdviceDrops ==
  ASSUME NEW s \in Library,
         \A j \in 1 .. Len(s) : s[j].role # "complement" /\ s[j].parts = {} /\ s[j].knowledge <= 1
  PROVE  Round(s, DropAdvice(s))
<1>1. PICK k : k = LastSuch(s, IsAdvice)
  OBVIOUS
<1>2. /\ k \in 0 .. Len(s) /\ (k > 0 => s[k].role # "guardrail")
      /\ \A j \in k + 1 .. Len(s) : s[j].role = "guardrail"
  BY <1>1, LastAdvice
<1>3. Len(s) \in Nat
  BY SeqArrow DEF Library
<1>4. CASE Len(s) > 1 /\ k > 0
  <2>1. k \in 1 .. Len(s) /\ DropAdvice(s) = Without(s, k)
    BY <1>1, <1>2, <1>4 DEF DropAdvice
  <2>2. Without(s, k) \in Library
    BY <2>1, WithoutIs
  <2>3. Drops(s, DropAdvice(s))
    BY <1>2, <1>4, <2>1 DEF Drops
  <2> QED
    BY <2>1, <2>2, <2>3 DEF Round
<1>5. CASE ~(Len(s) > 1 /\ k > 0)
  <2>1. DropAdvice(s) = s
    BY <1>1, <1>5 DEF DropAdvice
  <2>2. Len(s) > 1 => k = 0
    BY <1>2, <1>5
  <2>3. Len(s) > 1 => \A j \in 1 .. Len(s) : s[j].role = "guardrail"
    BY <1>2, <2>2
  <2> QED
    BY <2>1, <2>3 DEF Round, Bare
<1> QED
  BY <1>4, <1>5

\* A round of the compiler.
LEMMA PruneRound ==
  ASSUME NEW s \in Library
  PROVE  Round(s, PruneOnce(s))
<1>1. PICK n \in Nat : n = Len(s) /\ DOMAIN s = 1 .. n /\ \A j \in 1 .. n : s[j] \in LibraryItem
  BY SeqArrow DEF Library
<1>2. PICK k : k = LastSuch(s, IsComplement)
  OBVIOUS
<1>3. /\ k \in 0 .. Len(s) /\ (k > 0 => s[k].role = "complement")
      /\ \A j \in k + 1 .. Len(s) : s[j].role # "complement"
  BY <1>2, LastComplement
<1>4. CASE s = <<>>
  <2>1. PruneOnce(s) = s /\ Len(s) = 0
    BY <1>4 DEF PruneOnce
  <2> QED
    BY <2>1 DEF Round, Bare
<1>5. CASE s # <<>> /\ GivesUp(s)
  BY <1>5, GiveUpTrims DEF PruneOnce, Round
<1>6. CASE s # <<>> /\ ~GivesUp(s) /\ k > 0
  <2>1. PruneOnce(s) = Without(s, k) /\ k \in 1 .. Len(s)
    BY <1>2, <1>3, <1>6 DEF PruneOnce
  <2>2. Without(s, k) \in Library
    BY <2>1, WithoutIs
  <2>3. Drops(s, PruneOnce(s))
    BY <1>3, <1>6, <2>1 DEF Drops
  <2> QED
    BY <2>1, <2>2, <2>3 DEF Round
<1>7. CASE s # <<>> /\ ~GivesUp(s) /\ k = 0
  <2>1. PICK l \in 1 .. n : l = Longest(s) /\ \A j \in 1 .. n : s[j].knowledge <= s[l].knowledge
    BY <1>1, <1>7, LongestIs
  <2>2. \A j \in 1 .. n : s[j].parts = {}
    BY <1>1, <1>7 DEF GivesUp
  <2>3. CASE s[l].knowledge > 1
    <3>1. PruneOnce(s) = [s EXCEPT ![l].knowledge = 1]
      BY <1>2, <1>7, <2>1, <2>3 DEF PruneOnce
    <3>2. s[l].knowledge \in Nat
      BY <1>1, ItemFields
    <3>3. 1 \in Nat \ {0} /\ 1 < s[l].knowledge
      BY <2>3, <3>2
    <3>4. l \in 1 .. Len(s)
      BY <1>1
    <3>5. [s EXCEPT ![l].knowledge = 1] \in Library /\ Trims(s, [s EXCEPT ![l].knowledge = 1])
      BY <3>3, <3>4, CutTrims
    <3> QED
      BY <3>1, <3>5 DEF Round
  <2>4. CASE ~(s[l].knowledge > 1)
    <3>1. PruneOnce(s) = DropAdvice(s)
      BY <1>2, <1>7, <2>1, <2>4 DEF PruneOnce
    <3>2. \A j \in 1 .. n : s[j].knowledge \in Nat
      BY <1>1, ItemFields
    <3>3. \A j \in 1 .. n : s[j].knowledge <= 1
      BY <2>1, <2>4, <3>2
    <3>4. \A j \in 1 .. n : s[j].role # "complement"
      BY <1>1, <1>3, <1>7
    <3> QED
      BY <1>1, <2>2, <3>1, <3>3, <3>4, AdviceDrops
  <2> QED
    BY <2>3, <2>4
<1>8. k = 0 \/ k > 0
  BY <1>1, <1>3
<1> QED
  BY <1>4, <1>5, <1>6, <1>7, <1>8

\* A round of the delivery.
LEMMA DeliverRound ==
  ASSUME NEW s \in Library, NEW limit \in Nat, DeliveryChars(s) > limit
  PROVE  Round(s, Deliver1(s, limit))
<1>1. PICK n \in Nat : n = Len(s) /\ DOMAIN s = 1 .. n /\ \A j \in 1 .. n : s[j] \in LibraryItem
  BY SeqArrow DEF Library
<1>2. PICK k : k = LastSuch(s, IsComplement)
  OBVIOUS
<1>3. /\ k \in 0 .. Len(s) /\ (k > 0 => s[k].role = "complement")
      /\ \A j \in k + 1 .. Len(s) : s[j].role # "complement"
  BY <1>2, LastComplement
<1>4. s # <<>>
  <2>1. ASSUME s = <<>> PROVE FALSE
    <3>1. PICK run : Sums(run, s)
      BY SumsExist
    <3>2. DeliveryChars(s) = run[0] /\ run[0] = 0
      BY <2>1, <3>1, SumsAre DEF Sums
    <3> QED
      BY <3>2
  <2> QED
    BY <2>1
<1>5. CASE GivesUp(s)
  BY <1>5, GiveUpTrims DEF Deliver1, Round
<1>6. CASE ~GivesUp(s) /\ k > 0
  <2>1. Deliver1(s, limit) = Without(s, k) /\ k \in 1 .. Len(s)
    BY <1>2, <1>3, <1>6 DEF Deliver1
  <2>2. Without(s, k) \in Library
    BY <2>1, WithoutIs
  <2>3. Drops(s, Deliver1(s, limit))
    BY <1>3, <1>6, <2>1 DEF Drops
  <2> QED
    BY <2>1, <2>2, <2>3 DEF Round
<1>7. CASE ~GivesUp(s) /\ k = 0
  <2>1. PICK l \in 1 .. n : l = Longest(s) /\ \A j \in 1 .. n : s[j].knowledge <= s[l].knowledge
    BY <1>1, <1>4, LongestIs
  <2>2. \A j \in 1 .. n : s[j].parts = {}
    BY <1>1, <1>7 DEF GivesUp
  <2>3. CASE s[l].knowledge > 1
    <3>1. PICK cut : cut = Greater(1, s[l].knowledge - Greater(1, DeliveryChars(s) - limit))
      OBVIOUS
    <3>2. Deliver1(s, limit) = [s EXCEPT ![l].knowledge = cut]
      BY <1>2, <1>7, <2>1, <2>3, <3>1 DEF Deliver1
    <3>3. s[l].knowledge \in Nat /\ DeliveryChars(s) \in Nat
      BY <1>1, ItemFields, CharsType
    <3>4. cut \in Nat \ {0} /\ cut < s[l].knowledge
      BY <2>3, <3>1, <3>3 DEF Greater
    <3>5. l \in 1 .. Len(s)
      BY <1>1
    <3>6. [s EXCEPT ![l].knowledge = cut] \in Library /\ Trims(s, [s EXCEPT ![l].knowledge = cut])
      BY <3>4, <3>5, CutTrims
    <3> QED
      BY <3>2, <3>6 DEF Round
  <2>4. CASE ~(s[l].knowledge > 1)
    <3>1. Deliver1(s, limit) = DropAdvice(s)
      BY <1>2, <1>7, <2>1, <2>4 DEF Deliver1
    <3>2. \A j \in 1 .. n : s[j].knowledge \in Nat
      BY <1>1, ItemFields
    <3>3. \A j \in 1 .. n : s[j].knowledge <= 1
      BY <2>1, <2>4, <3>2
    <3>4. \A j \in 1 .. n : s[j].role # "complement"
      BY <1>1, <1>3, <1>7
    <3> QED
      BY <1>1, <2>2, <3>1, <3>3, <3>4, AdviceDrops
  <2> QED
    BY <2>3, <2>4
<1>8. k = 0 \/ k > 0
  BY <1>1, <1>3
<1> QED
  BY <1>5, <1>6, <1>7, <1>8

\* The ids of what has a role of R.
IdsOf(s, R) == {s[j].id : j \in {k \in 1 .. Len(s) : s[k].role \in R}}

HasComplement(s) == \E j \in 1 .. Len(s) : s[j].role = "complement"

\* No warning has gone, no complement is there without the primary advice, and
\* something is left.
Guarded(first, s) ==
  /\ IdsOf(s, {"guardrail"}) = IdsOf(first, {"guardrail"})
  /\ HasComplement(s) =>
       IdsOf(s, {"primary"}) = IdsOf(first, {"primary"}) /\ IdsOf(first, {"primary"}) # {}
  /\ first # <<>> => s # <<>>

\* What is trimmed keeps its id and its role.
LEMMA TrimmedIds ==
  ASSUME NEW s \in Library, NEW t \in Library, Trims(s, t)
  PROVE  /\ Len(t) = Len(s) /\ \A j \in 1 .. Len(s) : t[j].role = s[j].role
         /\ \A R : IdsOf(t, R) = IdsOf(s, R)
<1>1. PICK i \in 1 .. Len(s), x \in LibraryItem :
        Edited(s, i, x, t) /\ x.role = s[i].role /\ x.id = s[i].id
  BY DEF Trims
<1>2. Len(t) = Len(s) /\ \A j \in 1 .. Len(s) : t[j] = IF j = i THEN x ELSE s[j]
  BY <1>1 DEF Edited
<1>3. \A j \in 1 .. Len(s) : t[j].role = s[j].role /\ t[j].id = s[j].id
  BY <1>1, <1>2
<1> QED
  BY <1>2, <1>3 DEF IdsOf

\* What is dropped of one role leaves the others.
LEMMA DroppedIds ==
  ASSUME NEW s \in Library, NEW i \in 1 .. Len(s), NEW R, s[i].role \notin R,
         NEW t \in Library, Dropped(s, i, t)
  PROVE  IdsOf(t, R) = IdsOf(s, R)
<1>1. PICK n \in Nat : n = Len(s) /\ Len(t) = n - 1
  BY SeqArrow DEF Library, Dropped
<1>2. \A j \in 1 .. n - 1 : t[j] = IF j < i THEN s[j] ELSE s[j + 1]
  BY <1>1 DEF Dropped
<1>3. ASSUME NEW j \in 1 .. n - 1, t[j].role \in R
      PROVE  \E k \in 1 .. n : s[k].role \in R /\ s[k].id = t[j].id
  <2>1. CASE j < i
    BY <1>1, <1>2, <1>3, <2>1
  <2>2. CASE ~(j < i)
    <3>1. j + 1 \in 1 .. n
      BY <1>1
    <3> QED
      BY <1>2, <1>3, <2>2, <3>1
  <2> QED
    BY <2>1, <2>2
<1>4. ASSUME NEW j \in 1 .. n, s[j].role \in R
      PROVE  \E k \in 1 .. n - 1 : t[k].role \in R /\ t[k].id = s[j].id
  <2>0. j # i
    BY <1>4
  <2>1. CASE j < i
    <3>1. j \in 1 .. n - 1 /\ t[j] = s[j]
      BY <1>1, <1>2, <2>1
    <3> QED
      BY <1>4, <3>1
  <2>2. CASE j > i
    <3>1. j - 1 \in 1 .. n - 1 /\ ~(j - 1 < i) /\ (j - 1) + 1 = j
      BY <1>1, <2>2
    <3>2. t[j - 1] = s[j]
      BY <1>2, <3>1
    <3> QED
      BY <1>4, <3>1, <3>2
  <2> QED
    BY <1>1, <2>0, <2>1, <2>2
<1>5. ASSUME NEW x \in IdsOf(t, R) PROVE x \in IdsOf(s, R)
  <2>1. PICK j \in 1 .. n - 1 : t[j].role \in R /\ x = t[j].id
    BY <1>1 DEF IdsOf
  <2>2. PICK k \in 1 .. n : s[k].role \in R /\ s[k].id = x
    BY <1>3, <2>1
  <2> QED
    BY <1>1, <2>2 DEF IdsOf
<1>6. ASSUME NEW x \in IdsOf(s, R) PROVE x \in IdsOf(t, R)
  <2>1. PICK j \in 1 .. n : s[j].role \in R /\ x = s[j].id
    BY <1>1 DEF IdsOf
  <2>2. PICK k \in 1 .. n - 1 : t[k].role \in R /\ t[k].id = x
    BY <1>4, <2>1
  <2> QED
    BY <1>1, <2>2 DEF IdsOf
<1> QED
  BY <1>5, <1>6

\* Every round leaves the warnings.
LEMMA RoundGuards ==
  ASSUME NEW first \in Library, NEW s \in Library, NEW t, Round(s, t), Guarded(first, s)
  PROVE  Guarded(first, t)
<1>0. t \in Library /\ Len(s) \in Nat
  BY SeqArrow DEF Round, Library
<1>1. CASE Trims(s, t)
  <2>1. /\ Len(t) = Len(s) /\ \A j \in 1 .. Len(s) : t[j].role = s[j].role
        /\ \A R : IdsOf(t, R) = IdsOf(s, R)
    BY <1>0, <1>1, TrimmedIds
  <2>2. HasComplement(t) <=> HasComplement(s)
    BY <2>1 DEF HasComplement
  <2>3. s # <<>> => t # <<>>
    BY <1>0, <2>1 DEF Library
  <2> QED
    BY <2>1, <2>2, <2>3 DEF Guarded
<1>2. CASE Drops(s, t)
  <2>1. PICK i \in 1 .. Len(s) :
          /\ t = Without(s, i)
          /\ \/ s[i].role = "complement"
             \/ s[i].role # "guardrail" /\ Len(s) > 1 /\ ~HasComplement(s)
    BY <1>2 DEF Drops, HasComplement
  <2>2. Dropped(s, i, t)
    BY <2>1, WithoutIs
  <2>3. s[i].role # "guardrail"
    BY <2>1
  <2>4. IdsOf(t, {"guardrail"}) = IdsOf(s, {"guardrail"})
    <3>1. s[i].role \notin {"guardrail"}
      BY <2>3
    <3> QED
      BY <1>0, <2>2, <3>1, DroppedIds
  <2>5. CASE s[i].role = "complement"
    <3>1. s[i].role \notin {"primary"} /\ HasComplement(s)
      BY <2>5 DEF HasComplement
    <3>2. IdsOf(t, {"primary"}) = IdsOf(s, {"primary"})
      BY <1>0, <2>2, <3>1, DroppedIds
    <3>3. IdsOf(t, {"primary"}) # {}
      BY <3>1, <3>2 DEF Guarded
    <3>4. PICK j \in 1 .. Len(t) : TRUE
      BY <3>3 DEF IdsOf
    <3>5. t # <<>>
      BY <3>4
    <3> QED
      BY <2>4, <3>1, <3>2, <3>5 DEF Guarded
  <2>6. CASE s[i].role # "complement"
    <3>1. Len(s) > 1 /\ ~HasComplement(s)
      BY <2>1, <2>6
    <3>2. Len(t) = Len(s) - 1 /\ \A j \in 1 .. Len(t) : \E k \in 1 .. Len(s) : t[j] = s[k]
      <4>1. Len(t) = Len(s) - 1 /\ \A j \in 1 .. Len(t) : t[j] = s[j] \/ t[j] = s[j + 1]
        BY <2>2 DEF Dropped
      <4>2. \A j \in 1 .. Len(s) - 1 : j \in 1 .. Len(s) /\ j + 1 \in 1 .. Len(s)
        BY <1>0
      <4> QED
        BY <4>1, <4>2
    <3>3. ~HasComplement(t)
      BY <3>1, <3>2 DEF HasComplement
    <3>4. t # <<>>
      BY <1>0, <3>1, <3>2
    <3> QED
      BY <2>4, <3>3, <3>4 DEF Guarded
  <2> QED
    BY <2>5, <2>6
<1>3. CASE t = s
  BY <1>3
<1> QED
  BY <1>1, <1>2, <1>3 DEF Round

\* A round that takes anything takes a character.
LEMMA RoundShrinks ==
  ASSUME NEW s \in Library, NEW t, Round(s, t)
  PROVE  JsonChars(t) < JsonChars(s) \/ (t = s /\ Bare(s))
<1>0. t \in Library /\ Len(s) \in Nat /\ Len(t) \in Nat
      /\ DeliveryChars(s) \in Nat /\ DeliveryChars(t) \in Nat
      /\ \A j \in 1 .. Len(s) : Compact(s[j]) \in Nat
  <2>1. t \in Library
    BY DEF Round
  <2>2. \A j \in 1 .. Len(s) : s[j] \in LibraryItem
    BY SeqArrow DEF Library
  <2> QED
    BY <2>1, <2>2, SeqArrow, CharsType, ItemFields DEF Library
<1>1. CASE Trims(s, t)
  <2>1. PICK i \in 1 .. Len(s), x \in LibraryItem : Edited(s, i, x, t) /\ Compact(x) < Compact(s[i])
    BY <1>1 DEF Trims
  <2>2. DeliveryChars(t) = DeliveryChars(s) - Compact(s[i]) + Compact(x) /\ Compact(x) \in Nat
    BY <1>0, <2>1, CharsEdited, ItemFields
  <2>3. Len(t) = Len(s)
    BY <2>1 DEF Edited
  <2>4. Compact(s[i]) \in Nat
    BY <1>0
  <2> QED
    BY <1>0, <2>1, <2>2, <2>3, <2>4 DEF JsonChars
<1>2. CASE Drops(s, t)
  <2>1. PICK i \in 1 .. Len(s) : t = Without(s, i)
    BY <1>2 DEF Drops
  <2>2. DeliveryChars(t) = DeliveryChars(s) - Compact(s[i]) /\ Len(t) = Len(s) - 1
    BY <2>1, CharsWithout, WithoutIs DEF Dropped
  <2>3. Compact(s[i]) \in Nat
    BY <1>0
  <2> QED
    BY <1>0, <2>2, <2>3 DEF JsonChars
<1> QED
  BY <1>1, <1>2 DEF Round

-----------------------------------------------------------------------------
(* The two programs *)

\* A program's rounds: steps of Round, or none once the budget is met.
Cuts(run, n, fits) ==
  /\ run \in [0 .. n -> Library]
  /\ \A i \in 1 .. n : \/ run[i - 1] \in fits /\ run[i] = run[i - 1]
                       \/ run[i - 1] \notin fits /\ Round(run[i - 1], run[i])
  /\ \A i \in 1 .. n - 1 : run[i] = run[i - 1] => run[i + 1] = run[i]

\* What is left after each round of a step.
LEMMA Loops ==
  ASSUME NEW items \in Library, NEW n \in Nat, NEW step \in [Library -> Library]
  PROVE  \E run \in [0 .. n -> Library] :
           run[0] = items /\ \A i \in 1 .. n : run[i] = step[run[i - 1]]
<1>1. PICK steps : steps = [i \in 1 .. n |-> step]
  OBVIOUS
<1>2. steps \in [1 .. n -> [Library -> Library]]
  BY <1>1
<1>3. PICK run \in [0 .. n -> Library] : Rounds(run, items, steps, n)
  BY <1>2, RoundsExist
<1>4. run[0] = items /\ \A i \in 1 .. n : run[i] = step[run[i - 1]]
  BY <1>1, <1>3 DEF Rounds
<1> QED
  BY <1>3, <1>4

\* What fits a budget in each measure.
FitsJson(limit) == {s \in Library : JsonChars(s) <= limit}
FitsChars(limit) == {s \in Library : DeliveryChars(s) <= limit}

\* The compiler's program.
LEMMA Fitting ==
  ASSUME NEW items \in Library, NEW limit \in Nat
  PROVE  \E run : /\ Cuts(run, JsonChars(items), FitsJson(limit))
                  /\ run[0] = items /\ Fitted(items, limit) = run[JsonChars(items)]
<1>1. PICK n \in Nat : n = JsonChars(items)
  BY CharsType
<1>2. PICK step : step = [s \in Library |-> IF JsonChars(s) <= limit THEN s ELSE PruneOnce(s)]
  OBVIOUS
<1>3. step \in [Library -> Library]
  BY <1>2, PruneRound DEF Round
<1>4. PICK left : /\ left = CHOOSE g : g = [i \in 0 .. n |-> IF i = 0 THEN items
                     ELSE IF JsonChars(g[i - 1]) <= limit THEN g[i - 1] ELSE PruneOnce(g[i - 1])]
                  /\ Fitted(items, limit) = left[n]
  BY <1>1 DEF Fitted
<1>6. PICK run \in [0 .. n -> Library] :
        run[0] = items /\ \A i \in 1 .. n : run[i] = step[run[i - 1]]
  BY <1>3, Loops
<1>7. run = [i \in 0 .. n |-> IF i = 0 THEN items
              ELSE IF JsonChars(run[i - 1]) <= limit THEN run[i - 1] ELSE PruneOnce(run[i - 1])]
  <2>1. ASSUME NEW i \in 0 .. n
        PROVE  run[i] = IF i = 0 THEN items ELSE IF JsonChars(run[i - 1]) <= limit
                                                 THEN run[i - 1] ELSE PruneOnce(run[i - 1])
    <3>1. CASE i = 0
      BY <1>6, <3>1
    <3>2. CASE i # 0
      <4>1. i \in 1 .. n /\ i - 1 \in 0 .. n
        BY <3>2
      <4>2. run[i - 1] \in Library /\ run[i] = step[run[i - 1]]
        BY <1>6, <4>1
      <4> QED
        BY <1>2, <3>2, <4>2
    <3> QED
      BY <3>1, <3>2
  <2> QED
    BY <1>6, <2>1
<1>8. left = [i \in 0 .. n |-> IF i = 0 THEN items
               ELSE IF JsonChars(left[i - 1]) <= limit THEN left[i - 1] ELSE PruneOnce(left[i - 1])]
  BY <1>4, <1>7
<1> DEFINE T == {i \in 0 .. n : left[i] = run[i]}
<1>9. 0 \in T
  <2>1. 0 \in 0 .. n
    OBVIOUS
  <2> QED
    BY <1>6, <1>8, <2>1
<1>10. ASSUME NEW i \in 1 .. n, i - 1 \in T PROVE i \in T
  <2>1. i \in 0 .. n /\ i # 0 /\ left[i - 1] = run[i - 1]
    BY <1>10
  <2>2. left[i] = IF JsonChars(left[i - 1]) <= limit THEN left[i - 1] ELSE PruneOnce(left[i - 1])
    BY <1>8, <2>1
  <2>3. run[i] = IF JsonChars(run[i - 1]) <= limit THEN run[i - 1] ELSE PruneOnce(run[i - 1])
    BY <1>7, <2>1
  <2> QED
    BY <2>1, <2>2, <2>3
<1>11. \A i \in 0 .. n : i \in T
  <2> HIDE DEF T
  <2> QED
    BY <1>9, <1>10, Inductive
<1>12. Fitted(items, limit) = run[n]
  BY <1>4, <1>11
<1>13. Cuts(run, n, FitsJson(limit))
  <2>1. ASSUME NEW i \in 1 .. n
        PROVE  \/ run[i - 1] \in FitsJson(limit) /\ run[i] = run[i - 1]
               \/ run[i - 1] \notin FitsJson(limit) /\ Round(run[i - 1], run[i])
    <3>1. PICK s \in Library : s = run[i - 1] /\ run[i] = step[s]
      BY <1>6
    <3>2. CASE JsonChars(s) <= limit
      BY <1>2, <3>1, <3>2 DEF FitsJson
    <3>3. CASE ~(JsonChars(s) <= limit)
      BY <1>2, <3>1, <3>3, PruneRound DEF FitsJson
    <3> QED
      BY <3>2, <3>3
  <2>2. ASSUME NEW i \in 1 .. n - 1, run[i] = run[i - 1] PROVE run[i + 1] = run[i]
    <3>1. i \in 1 .. n /\ i + 1 \in 1 .. n /\ (i + 1) - 1 = i
      OBVIOUS
    <3> QED
      BY <1>6, <2>2, <3>1
  <2> QED
    BY <1>6, <2>1, <2>2 DEF Cuts
<1> QED
  BY <1>1, <1>6, <1>12, <1>13

\* The delivery's program.
LEMMA Delivering ==
  ASSUME NEW items \in Library, NEW limit \in Nat
  PROVE  \E run : /\ Cuts(run, DeliveryChars(items), FitsChars(limit))
                  /\ run[0] = items /\ Delivered(items, limit) = run[DeliveryChars(items)]
<1>1. PICK n \in Nat : n = DeliveryChars(items)
  BY CharsType
<1>2. PICK step : step = [s \in Library |-> IF DeliveryChars(s) <= limit THEN s ELSE Deliver1(s, limit)]
  OBVIOUS
<1>3. step \in [Library -> Library]
  <2>1. ASSUME NEW s \in Library
        PROVE  (IF DeliveryChars(s) <= limit THEN s ELSE Deliver1(s, limit)) \in Library
    <3>1. DeliveryChars(s) \in Nat
      BY CharsType
    <3>2. CASE DeliveryChars(s) > limit
      BY <3>2, DeliverRound DEF Round
    <3> QED
      BY <3>1, <3>2
  <2> QED
    BY <1>2, <2>1
<1>4. PICK left : /\ left = CHOOSE g : g = [i \in 0 .. n |-> IF i = 0 THEN items
                     ELSE IF DeliveryChars(g[i - 1]) <= limit THEN g[i - 1] ELSE Deliver1(g[i - 1], limit)]
                  /\ Delivered(items, limit) = left[n]
  BY <1>1 DEF Delivered
<1>6. PICK run \in [0 .. n -> Library] :
        run[0] = items /\ \A i \in 1 .. n : run[i] = step[run[i - 1]]
  BY <1>3, Loops
<1>7. run = [i \in 0 .. n |-> IF i = 0 THEN items
              ELSE IF DeliveryChars(run[i - 1]) <= limit THEN run[i - 1] ELSE Deliver1(run[i - 1], limit)]
  <2>1. ASSUME NEW i \in 0 .. n
        PROVE  run[i] = IF i = 0 THEN items ELSE IF DeliveryChars(run[i - 1]) <= limit
                                                 THEN run[i - 1] ELSE Deliver1(run[i - 1], limit)
    <3>1. CASE i = 0
      BY <1>6, <3>1
    <3>2. CASE i # 0
      <4>1. i \in 1 .. n /\ i - 1 \in 0 .. n
        BY <3>2
      <4>2. run[i - 1] \in Library /\ run[i] = step[run[i - 1]]
        BY <1>6, <4>1
      <4> QED
        BY <1>2, <3>2, <4>2
    <3> QED
      BY <3>1, <3>2
  <2> QED
    BY <1>6, <2>1
<1>8. left = [i \in 0 .. n |-> IF i = 0 THEN items
               ELSE IF DeliveryChars(left[i - 1]) <= limit THEN left[i - 1] ELSE Deliver1(left[i - 1], limit)]
  BY <1>4, <1>7
<1> DEFINE T == {i \in 0 .. n : left[i] = run[i]}
<1>9. 0 \in T
  <2>1. 0 \in 0 .. n
    OBVIOUS
  <2> QED
    BY <1>6, <1>8, <2>1
<1>10. ASSUME NEW i \in 1 .. n, i - 1 \in T PROVE i \in T
  <2>1. i \in 0 .. n /\ i # 0 /\ left[i - 1] = run[i - 1]
    BY <1>10
  <2>2. left[i] = IF DeliveryChars(left[i - 1]) <= limit THEN left[i - 1] ELSE Deliver1(left[i - 1], limit)
    BY <1>8, <2>1
  <2>3. run[i] = IF DeliveryChars(run[i - 1]) <= limit THEN run[i - 1] ELSE Deliver1(run[i - 1], limit)
    BY <1>7, <2>1
  <2> QED
    BY <2>1, <2>2, <2>3
<1>11. \A i \in 0 .. n : i \in T
  <2> HIDE DEF T
  <2> QED
    BY <1>9, <1>10, Inductive
<1>12. Delivered(items, limit) = run[n]
  BY <1>4, <1>11
<1>13. Cuts(run, n, FitsChars(limit))
  <2>1. ASSUME NEW i \in 1 .. n
        PROVE  \/ run[i - 1] \in FitsChars(limit) /\ run[i] = run[i - 1]
               \/ run[i - 1] \notin FitsChars(limit) /\ Round(run[i - 1], run[i])
    <3>1. PICK s \in Library : s = run[i - 1] /\ run[i] = step[s]
      BY <1>6
    <3>2. CASE DeliveryChars(s) <= limit
      BY <1>2, <3>1, <3>2 DEF FitsChars
    <3>3. CASE ~(DeliveryChars(s) <= limit)
      <4>1. DeliveryChars(s) \in Nat
        BY CharsType
      <4>2. DeliveryChars(s) > limit
        BY <3>3, <4>1
      <4>3. Round(s, Deliver1(s, limit))
        BY <4>2, DeliverRound
      <4> QED
        BY <1>2, <3>1, <3>3, <4>3 DEF FitsChars
    <3> QED
      BY <3>2, <3>3
  <2>2. ASSUME NEW i \in 1 .. n - 1, run[i] = run[i - 1] PROVE run[i + 1] = run[i]
    <3>1. i \in 1 .. n /\ i + 1 \in 1 .. n /\ (i + 1) - 1 = i
      OBVIOUS
    <3> QED
      BY <1>6, <2>2, <3>1
  <2> QED
    BY <1>6, <2>1, <2>2 DEF Cuts
<1> QED
  BY <1>1, <1>6, <1>12, <1>13

\* What retrieval may find.
FoundItem(F) == [fit : F, parts : SUBSET PartNames, knowledge : Nat \ {0}]

\* The roles of what was found: one advises first, whatever warns.
LEMMA RolesAre ==
  ASSUME NEW F, NEW found \in Seq(FoundItem(F))
  PROVE  /\ Roles(found) \in Library /\ Guarded(Roles(found), Roles(found))
         /\ Len(Roles(found)) = Len(found)
<1>1. PICK n \in Nat : n = Len(found) /\ DOMAIN found = 1 .. n
                       /\ \A i \in 1 .. n : found[i] \in FoundItem(F)
  BY SeqArrow
<1>2. PICK advising \in SUBSET (1 .. n) : advising = {i \in 1 .. n : found[i].fit # "avoid"}
  OBVIOUS
<1>3. PICK primary : primary = IF advising = {} THEN 1
                               ELSE CHOOSE i \in advising : \A j \in advising : i <= j
  OBVIOUS
<1>4. PICK items : items = [i \in 1 .. n |->
        [role |-> IF i = primary THEN "primary"
                  ELSE IF found[i].fit = "avoid" THEN "guardrail" ELSE "complement",
         id |-> i, parts |-> found[i].parts, knowledge |-> found[i].knowledge]]
  OBVIOUS
<1>5. Roles(found) = items
  BY <1>1, <1>2, <1>3, <1>4 DEF Roles
<1>6. ASSUME NEW i \in 1 .. n PROVE items[i] \in LibraryItem
  <2>1. PICK role \in {"primary", "complement", "guardrail"} :
          role = IF i = primary THEN "primary"
                 ELSE IF found[i].fit = "avoid" THEN "guardrail" ELSE "complement"
    OBVIOUS
  <2>2. items[i] = [role |-> role, id |-> i, parts |-> found[i].parts,
                    knowledge |-> found[i].knowledge]
    BY <1>4, <2>1
  <2>3. found[i].parts \in SUBSET PartNames /\ found[i].knowledge \in Nat \ {0}
    BY <1>1 DEF FoundItem
  <2> QED
    BY <2>2, <2>3 DEF LibraryItem
<1>7. items \in Library /\ Len(items) = n
  <2>1. items \in [1 .. n -> LibraryItem]
    BY <1>4, <1>6
  <2> QED
    BY <2>1, ArrowSeq DEF Library
<1>8. n > 0 => primary \in 1 .. n
  <2>1. CASE advising = {}
    BY <1>3, <2>1
  <2>2. CASE advising # {}
    <3>1. \E i \in advising : \A j \in advising : i <= j
      BY <2>2, LeastNat
    <3>2. primary \in advising
      BY <1>3, <2>2, <3>1
    <3> QED
      BY <3>2
  <2> QED
    BY <2>1, <2>2
<1>9. n > 0 => IdsOf(items, {"primary"}) # {}
  <2>1. ASSUME n > 0 PROVE items[primary].role = "primary" /\ primary \in 1 .. Len(items)
    BY <1>4, <1>7, <1>8, <2>1
  <2> QED
    BY <2>1 DEF IdsOf
<1>10. HasComplement(items) => n > 0
  BY <1>7 DEF HasComplement
<1> QED
  BY <1>1, <1>5, <1>7, <1>9, <1>10 DEF Guarded

\* No program drops a warning.
LEMMA CutsGuard ==
  ASSUME NEW first \in Library, NEW n \in Nat, NEW fits, NEW run, Cuts(run, n, fits),
         Guarded(first, run[0])
  PROVE  run[n] \in Library /\ Guarded(first, run[n])
<1>1. run \in [0 .. n -> Library]
  BY DEF Cuts
<1> DEFINE T == {i \in 0 .. n : Guarded(first, run[i])}
<1>2. 0 \in T
  OBVIOUS
<1>3. ASSUME NEW i \in 1 .. n, i - 1 \in T PROVE i \in T
  <2>1. PICK s \in Library : s = run[i - 1]
    BY <1>1
  <2>2. run[i] = s \/ Round(s, run[i])
    BY <2>1 DEF Cuts
  <2>3. Guarded(first, s)
    BY <1>3, <2>1
  <2>4. Guarded(first, run[i])
    BY <2>2, <2>3, RoundGuards
  <2> QED
    BY <2>4
<1>4. \A i \in 0 .. n : i \in T
  <2> HIDE DEF T
  <2> QED
    BY <1>2, <1>3, Inductive
<1> QED
  BY <1>1, <1>4

\* However much retrieval finds, of whatever lengths, and whatever the two budgets:
\* _fit_budget and _fit_library_payload together drop no warning, keep no second
\* recommendation without the primary one and never all there is (Survives).
THEOREM EveryWarningSurvives ==
  ASSUME NEW F, NEW found \in Seq(FoundItem(F)), NEW limit \in Nat, NEW again \in Nat
  PROVE  Survives(found, limit, again)
<1>1. PICK items \in Library : items = Roles(found) /\ Guarded(items, items)
  BY RolesAre
<1>2. PICK some \in Library : some = Delivered(items, limit) /\ Guarded(items, some)
  <2>1. PICK run : /\ Cuts(run, DeliveryChars(items), FitsChars(limit))
                   /\ run[0] = items /\ Delivered(items, limit) = run[DeliveryChars(items)]
    BY Delivering
  <2>2. PICK n \in Nat : n = DeliveryChars(items)
    BY CharsType
  <2>3. run[n] \in Library /\ Guarded(items, run[n])
    BY <1>1, <2>1, <2>2, CutsGuard
  <2> QED
    BY <2>1, <2>2, <2>3
<1>3. PICK shown \in Library : shown = Fitted(some, again) /\ Guarded(items, shown)
  <2>1. PICK run : /\ Cuts(run, JsonChars(some), FitsJson(again))
                   /\ run[0] = some /\ Fitted(some, again) = run[JsonChars(some)]
    BY Fitting
  <2>2. PICK n \in Nat : n = JsonChars(some)
    BY CharsType
  <2>3. run[n] \in Library /\ Guarded(items, run[n])
    BY <1>2, <2>1, <2>2, CutsGuard
  <2> QED
    BY <2>1, <2>2, <2>3
<1>4. DOMAIN items = 1 .. Len(items) /\ DOMAIN shown = 1 .. Len(shown)
      /\ \A i \in 1 .. Len(shown) : shown[i] \in LibraryItem
  BY SeqArrow DEF Library
<1>5. /\ Ids(shown, IsGuardrail) = IdsOf(shown, {"guardrail"})
      /\ Ids(items, IsGuardrail) = IdsOf(items, {"guardrail"})
      /\ Ids(items, IsPrimary) = IdsOf(items, {"primary"})
  BY <1>4 DEF Ids, IdsOf, IsGuardrail, IsPrimary
<1>6. IdsOf(shown, {"primary"}) \subseteq Ids(shown, IsAdvice)
  BY <1>4 DEF Ids, IdsOf, IsGuardrail, IsAdvice
<1>7. Ids(shown, IsComplement) # {} => HasComplement(shown)
  BY <1>4 DEF Ids, IsComplement, HasComplement
<1>8. Ids(shown, IsComplement) # {} => Ids(shown, IsAdvice) \cap Ids(items, IsPrimary) # {}
  BY <1>3, <1>5, <1>6, <1>7 DEF Guarded
<1>9. Ids(shown, IsGuardrail) = Ids(items, IsGuardrail) /\ (items # <<>> => shown # <<>>)
  BY <1>3, <1>5 DEF Guarded
<1> QED
  BY <1>1, <1>2, <1>3, <1>8, <1>9 DEF Survives

\* In every delivery the runs enumerate they survive.
LEMMA WarningsSurvived == GuardrailsSurvive
<1>1. Found \subseteq FoundItem({"apply", "avoid"})
  BY DEF Found, FoundItem, PartNames
<1>2. SeqUpTo(Found, 3) \subseteq Seq(FoundItem({"apply", "avoid"}))
  <2>1. ASSUME NEW k \in 0 .. 3, NEW s \in [1 .. k -> Found]
        PROVE  s \in Seq(FoundItem({"apply", "avoid"}))
    <3>1. s \in [1 .. k -> FoundItem({"apply", "avoid"})] /\ k \in Nat
      BY <1>1
    <3> QED
      BY <3>1, ArrowSeq
  <2> QED
    BY <2>1 DEF SeqUpTo
<1>3. \A limit \in {1, 4, 7, 10}, again \in {1, 5, 9, 14} : limit \in Nat /\ again \in Nat
  OBVIOUS
<1> QED
  BY <1>2, <1>3, EveryWarningSurvives DEF GuardrailsSurvive

\* What an engine is asked with warns as long as it recommends (WarningsSurvive).
THEOREM WarningsAlwaysSurvive == RunSpec => []WarningsSurvive
<1>1. WarningsSurvive
  BY WarningsSurvived DEF WarningsSurvive
<1> QED
  BY <1>1, PTL

-----------------------------------------------------------------------------
(* Where the compiler's program ends *)

\* It leaves a library that fits as it is, and otherwise ends with one that fits
\* or of which nothing may be taken.
LEMMA FittedEnds ==
  ASSUME NEW items \in Library, NEW limit \in Nat
  PROVE  /\ Fitted(items, limit) \in Library
         /\ JsonChars(items) <= limit => Fitted(items, limit) = items
         /\ JsonChars(Fitted(items, limit)) <= limit \/ Bare(Fitted(items, limit))
         /\ JsonChars(Fitted(items, limit)) <= JsonChars(items)
<1>1. PICK n \in Nat : n = JsonChars(items)
  BY CharsType
<1>2. PICK run : Cuts(run, n, FitsJson(limit)) /\ run[0] = items /\ Fitted(items, limit) = run[n]
  BY <1>1, Fitting
<1>3. /\ run \in [0 .. n -> Library]
      /\ \A i \in 1 .. n : \/ run[i - 1] \in FitsJson(limit) /\ run[i] = run[i - 1]
                           \/ run[i - 1] \notin FitsJson(limit) /\ Round(run[i - 1], run[i])
      /\ \A i \in 1 .. n - 1 : run[i] = run[i - 1] => run[i + 1] = run[i]
  BY <1>2 DEF Cuts
<1>4. ASSUME NEW i \in 0 .. n
      PROVE  JsonChars(run[i]) \in Nat /\ (run[i] \in FitsJson(limit) <=> JsonChars(run[i]) <= limit)
  BY <1>3, CharsType DEF FitsJson
<1> DEFINE T == {i \in 0 .. n : \/ JsonChars(run[i]) <= n - i
                                \/ run[i] \in FitsJson(limit)
                                \/ i > 0 /\ run[i] = run[i - 1] /\ Bare(run[i])}
           L == {i \in 0 .. n : JsonChars(run[i]) <= n}
           U == {i \in 0 .. n : run[i] = items}
<1>5. 0 \in T /\ 0 \in L /\ 0 \in U
  BY <1>1, <1>2
<1>6. ASSUME NEW i \in 1 .. n, i - 1 \in T PROVE i \in T
  <2>0. i \in 0 .. n /\ i - 1 \in 0 .. n
    OBVIOUS
  <2>1. CASE run[i - 1] \in FitsJson(limit)
    BY <1>3, <2>0, <2>1
  <2>2. CASE run[i - 1] \notin FitsJson(limit) /\ JsonChars(run[i - 1]) <= n - (i - 1)
    <3>1. PICK s \in Library : s = run[i - 1] /\ Round(s, run[i])
      BY <1>3, <2>2
    <3>2. JsonChars(run[i]) < JsonChars(s) \/ (run[i] = s /\ Bare(s))
      BY <3>1, RoundShrinks
    <3>3. JsonChars(run[i]) \in Nat /\ JsonChars(s) \in Nat
      BY <1>4, <2>0, <3>1
    <3> QED
      BY <2>0, <2>2, <3>1, <3>2, <3>3
  <2>3. CASE i - 1 > 0 /\ run[i - 1] = run[(i - 1) - 1] /\ Bare(run[i - 1])
    <3>1. i - 1 \in 1 .. n - 1 /\ (i - 1) + 1 = i
      BY <2>3
    <3>2. run[i] = run[i - 1]
      BY <1>3, <2>3, <3>1
    <3> QED
      BY <2>0, <2>3, <3>2
  <2> QED
    BY <1>6, <2>1, <2>2, <2>3
<1>7. ASSUME NEW i \in 1 .. n, i - 1 \in L PROVE i \in L
  <2>0. i \in 0 .. n /\ i - 1 \in 0 .. n
    OBVIOUS
  <2>1. PICK s \in Library : s = run[i - 1] /\ (run[i] = s \/ Round(s, run[i]))
    BY <1>3, <2>0
  <2>2. JsonChars(run[i]) < JsonChars(s) \/ run[i] = s
    BY <2>1, RoundShrinks
  <2>3. JsonChars(run[i]) \in Nat /\ JsonChars(s) \in Nat
    BY <1>4, <2>0, <2>1
  <2> QED
    BY <1>7, <2>0, <2>1, <2>2, <2>3
<1>8. ASSUME JsonChars(items) <= limit, NEW i \in 1 .. n, i - 1 \in U PROVE i \in U
  <2>0. i \in 0 .. n /\ i - 1 \in 0 .. n /\ run[i - 1] = items
    BY <1>8
  <2>1. run[i - 1] \in FitsJson(limit)
    BY <1>4, <1>8, <2>0
  <2> QED
    BY <1>3, <2>0, <2>1
<1>9. \A i \in 0 .. n : i \in T
  <2> HIDE DEF T
  <2> QED
    BY <1>5, <1>6, Inductive
<1>10. \A i \in 0 .. n : i \in L
  <2> HIDE DEF L
  <2> QED
    BY <1>5, <1>7, Inductive
<1>11. JsonChars(items) <= limit => \A i \in 0 .. n : i \in U
  <2> HIDE DEF U
  <2> QED
    BY <1>5, <1>8, Inductive
<1>12. n \in 0 .. n
  OBVIOUS
<1>13. JsonChars(run[n]) <= limit \/ Bare(run[n])
  BY <1>4, <1>9, <1>12
<1> QED
  BY <1>1, <1>2, <1>3, <1>10, <1>11, <1>12, <1>13

\* What each item counts for at least, and what bare items count for.
LEMMA CharsBounds ==
  ASSUME NEW s \in Library
  PROVE  /\ JsonChars(s) >= 3 * Len(s)
         /\ Bare(s) => JsonChars(s) = 3 * Len(s)
<1>1. PICK n \in Nat : n = Len(s) /\ \A i \in 1 .. n : s[i] \in LibraryItem
  BY SeqArrow DEF Library
<1>2. PICK run : Sums(run, s) /\ DeliveryChars(s) = run[n]
  BY <1>1, SumsExist, SumsAre
<1>3. /\ run \in [0 .. n -> Int] /\ run[0] = 0
      /\ \A i \in 1 .. n : run[i] = run[i - 1] + Compact(s[i])
  BY <1>1, <1>2 DEF Sums
<1>4. ASSUME NEW i \in 1 .. n PROVE Compact(s[i]) \in Nat /\ Compact(s[i]) >= 2
  BY <1>1, ItemFields
<1> DEFINE T == {i \in 0 .. n : run[i] >= 2 * i}
           U == {i \in 0 .. n : run[i] = 2 * i}
<1>5. 0 \in T /\ 0 \in U
  BY <1>3
<1>6. ASSUME NEW i \in 1 .. n, i - 1 \in T PROVE i \in T
  <2>1. PICK x \in Nat : x = Compact(s[i]) /\ x >= 2
    BY <1>4
  <2>2. PICK a \in Int, b \in Int : a = run[i - 1] /\ b = run[i] /\ b = a + x
    BY <1>3, <2>1
  <2>3. a >= 2 * (i - 1)
    BY <1>6, <2>2
  <2>4. i \in 0 .. n /\ run[i] >= 2 * i
    BY <2>1, <2>2, <2>3
  <2> QED
    BY <2>4
<1>7. ASSUME Bare(s), NEW i \in 1 .. n, i - 1 \in U PROVE i \in U
  <2>1. Compact(s[i]) = 2
    <3>1. s[i].parts = {} /\ s[i].knowledge <= 1
      BY <1>1, <1>7 DEF Bare
    <3>2. Cardinality({}) = 0
      BY FS_EmptySet
    <3>3. s[i].knowledge \in Nat /\ s[i].knowledge >= 1
          /\ Compact(s[i]) = 1 + Cardinality(s[i].parts) + s[i].knowledge
      BY <1>1, ItemFields
    <3> QED
      BY <3>1, <3>2, <3>3
  <2>2. PICK a \in Int, b \in Int : a = run[i - 1] /\ b = run[i] /\ b = a + 2
    BY <1>3, <2>1
  <2>3. a = 2 * (i - 1)
    BY <1>7, <2>2
  <2>4. i \in 0 .. n /\ run[i] = 2 * i
    BY <2>2, <2>3
  <2> QED
    BY <2>4
<1>8. \A i \in 0 .. n : i \in T
  <2> HIDE DEF T
  <2> QED
    BY <1>5, <1>6, Inductive
<1>9. Bare(s) => \A i \in 0 .. n : i \in U
  <2> HIDE DEF U
  <2> QED
    BY <1>5, <1>7, Inductive
<1>10. run[n] \in Int /\ run[n] >= 2 * n /\ (Bare(s) => run[n] = 2 * n)
  BY <1>3, <1>8, <1>9
<1> QED
  BY <1>1, <1>2, <1>10 DEF JsonChars

\* No two items have one id.
Distinct(s) == \A j, k \in 1 .. Len(s) : s[j].id = s[k].id => j = k

\* No round makes two of one.
LEMMA RoundDistinct ==
  ASSUME NEW s \in Library, NEW t, Round(s, t), Distinct(s)
  PROVE  Distinct(t) /\ Len(t) <= Len(s)
<1>0. t \in Library /\ Len(s) \in Nat
  BY SeqArrow DEF Round, Library
<1>1. CASE Trims(s, t)
  <2>1. PICK i \in 1 .. Len(s), x \in LibraryItem : Edited(s, i, x, t) /\ x.id = s[i].id
    BY <1>1 DEF Trims
  <2>2. Len(t) = Len(s) /\ \A j \in 1 .. Len(s) : t[j].id = s[j].id
    BY <2>1 DEF Edited
  <2> QED
    BY <1>0, <2>2 DEF Distinct
<1>2. CASE Drops(s, t)
  <2>1. PICK i \in 1 .. Len(s) : t = Without(s, i)
    BY <1>2 DEF Drops
  <2>2. PICK n \in Nat : n = Len(s) /\ Len(t) = n - 1
    BY <1>0, <2>1, WithoutIs DEF Dropped
  <2>3. \A j \in 1 .. n - 1 : t[j] = IF j < i THEN s[j] ELSE s[j + 1]
    BY <2>1, <2>2, WithoutIs DEF Dropped
  <2>4. \A j \in 1 .. n - 1 : j \in 1 .. n /\ j + 1 \in 1 .. n
    BY <2>2
  <2>5. ASSUME NEW j \in 1 .. n - 1, NEW k \in 1 .. n - 1, t[j].id = t[k].id
        PROVE  j = k
    <3>1. PICK a \in 1 .. n : a = (IF j < i THEN j ELSE j + 1) /\ t[j] = s[a]
      BY <2>3, <2>4
    <3>2. PICK b \in 1 .. n : b = (IF k < i THEN k ELSE k + 1) /\ t[k] = s[b]
      BY <2>3, <2>4
    <3>3. a = b
      BY <2>2, <2>5, <3>1, <3>2 DEF Distinct
    <3> QED
      BY <2>2, <3>1, <3>2, <3>3
  <2> QED
    BY <2>2, <2>5 DEF Distinct
<1>3. CASE t = s
  BY <1>0, <1>3
<1> QED
  BY <1>1, <1>2, <1>3 DEF Round

\* No program does.
LEMMA CutsDistinct ==
  ASSUME NEW n \in Nat, NEW fits, NEW run, Cuts(run, n, fits), Distinct(run[0])
  PROVE  Distinct(run[n]) /\ Len(run[n]) <= Len(run[0])
<1>1. run \in [0 .. n -> Library]
  BY DEF Cuts
<1> DEFINE T == {i \in 0 .. n : Distinct(run[i]) /\ Len(run[i]) <= Len(run[0])}
<1>0. \A i \in 0 .. n : Len(run[i]) \in Nat
  BY <1>1, SeqArrow DEF Library
<1>2. 0 \in T
  BY <1>0
<1>3. ASSUME NEW i \in 1 .. n, i - 1 \in T PROVE i \in T
  <2>0. i \in 0 .. n /\ i - 1 \in 0 .. n /\ 0 \in 0 .. n
    OBVIOUS
  <2>1. PICK s \in Library : s = run[i - 1]
    BY <1>1
  <2>2. run[i] = s \/ Round(s, run[i])
    BY <2>1 DEF Cuts
  <2>3. Distinct(s) /\ Len(s) <= Len(run[0])
    BY <1>3, <2>1
  <2>4. Distinct(run[i]) /\ Len(run[i]) <= Len(s)
    BY <1>0, <2>0, <2>1, <2>2, <2>3, RoundDistinct
  <2> QED
    BY <1>0, <2>0, <2>1, <2>3, <2>4
<1>4. \A i \in 0 .. n : i \in T
  <2> HIDE DEF T
  <2> QED
    BY <1>2, <1>3, Inductive
<1> QED
  BY <1>1, <1>4

\* What the compiler's program keeps.
LEMMA FittedKeeps ==
  ASSUME NEW first \in Library, NEW items \in Library, NEW limit \in Nat,
         Guarded(first, items), Distinct(items)
  PROVE  /\ Guarded(first, Fitted(items, limit)) /\ Distinct(Fitted(items, limit))
         /\ Len(Fitted(items, limit)) <= Len(items)
<1>1. PICK n \in Nat : n = JsonChars(items)
  BY CharsType
<1>2. PICK run : Cuts(run, n, FitsJson(limit)) /\ run[0] = items /\ Fitted(items, limit) = run[n]
  BY <1>1, Fitting
<1>3. Guarded(first, run[n])
  BY <1>2, CutsGuard
<1>4. Distinct(run[n]) /\ Len(run[n]) <= Len(items)
  BY <1>2, CutsDistinct
<1> QED
  BY <1>2, <1>3, <1>4

\* How many warn: as many as there are ids of warnings.
Warning(s) == {i \in 1 .. Len(s) : s[i].role = "guardrail"}

\* ... no more than there are items.
LEMMA WarningsAre ==
  ASSUME NEW s \in Library, Distinct(s)
  PROVE  /\ IsFiniteSet(Warning(s)) /\ Cardinality(Warning(s)) \in Nat
         /\ Cardinality(Warning(s)) <= Len(s)
         /\ Cardinality(Warning(s)) = Cardinality(IdsOf(s, {"guardrail"}))
<1>1. PICK n \in Nat : n = Len(s)
  BY SeqArrow DEF Library
<1>2. IsFiniteSet(1 .. n) /\ Cardinality(1 .. n) = n
  BY FS_Interval
<1>3. /\ IsFiniteSet(Warning(s)) /\ Cardinality(Warning(s)) <= n
      /\ Cardinality(Warning(s)) \in Nat
  <2>1. Warning(s) \in SUBSET (1 .. n)
    BY <1>1 DEF Warning
  <2> QED
    BY <1>2, <2>1, FS_Subset, FS_CardinalityType
<1>4. PICK W, I : W = Warning(s) /\ I = IdsOf(s, {"guardrail"})
  OBVIOUS
<1>5. PICK f : f = [i \in W |-> s[i].id]
  OBVIOUS
<1>6. f \in Bijection(W, I)
  <2>1. I = {s[i].id : i \in W}
    BY <1>4 DEF IdsOf, Warning
  <2>2. f \in [W -> I]
    BY <1>5, <2>1
  <2>3. \A a, b \in W : f[a] = f[b] => a = b
    BY <1>4, <1>5 DEF Distinct, Warning
  <2>4. \A x \in I : \E a \in W : f[a] = x
    BY <1>5, <2>1
  <2> QED
    BY <2>2, <2>3, <2>4 DEF Bijection, Injection, Surjection, IsInjective
<1>7. Cardinality(W) = Cardinality(I)
  <2>1. ExistsBijection(W, I)
    BY <1>6 DEF ExistsBijection
  <2> QED
    BY <1>3, <1>4, <2>1, FS_Bijection
<1> QED
  BY <1>1, <1>3, <1>4, <1>7

\* The items no pruning may take.
Fewest(first) == IF Cardinality(Warning(first)) > 0 THEN Cardinality(Warning(first))
                 ELSE Lesser(1, Len(first))

\* They are all there, and all there is when nothing may be taken.
LEMMA FewestStay ==
  ASSUME NEW first \in Library, NEW s \in Library, Distinct(first), Distinct(s), Guarded(first, s),
         Len(s) <= Len(first)
  PROVE  Fewest(first) \in Nat /\ Fewest(first) <= Len(s) /\ (Bare(s) => Fewest(first) = Len(s))
<1>1. PICK n \in Nat : n = Len(s)
  BY SeqArrow DEF Library
<1>2. PICK m \in Nat : m = Len(first)
  BY SeqArrow DEF Library
<1>3. PICK w \in Nat : w = Cardinality(Warning(first)) /\ w = Cardinality(Warning(s)) /\ w <= n /\ w <= m
  <2>1. IdsOf(first, {"guardrail"}) = IdsOf(s, {"guardrail"})
    BY DEF Guarded
  <2> QED
    BY <1>1, <1>2, <2>1, WarningsAre
<1>4. m > 0 => n > 0
  <2>1. first # <<>> => s # <<>>
    BY DEF Guarded
  <2>2. m > 0 => first # <<>>
    BY <1>2
  <2>3. s # <<>> => n > 0
    BY <1>1 DEF Library
  <2> QED
    BY <2>1, <2>2, <2>3
<1>5. (w = 0 /\ Fewest(first) = (IF m = 0 THEN 0 ELSE 1)) \/ (w > 0 /\ Fewest(first) = w)
  BY <1>2, <1>3 DEF Fewest, Lesser
<1>6. n <= m
  BY <1>1, <1>2
<1>7. ASSUME Bare(s), n > 1 PROVE w = n
  <2>1. \A j \in 1 .. n : s[j].role = "guardrail"
    BY <1>1, <1>7 DEF Bare
  <2>2. Warning(s) = 1 .. n
    BY <1>1, <2>1 DEF Warning
  <2> QED
    BY <1>3, <2>2, FS_Interval
<1> QED
  BY <1>1, <1>3, <1>4, <1>5, <1>6, <1>7

-----------------------------------------------------------------------------
(* The lists of a pack *)

\* The best of a list.
LEMMA BestOf ==
  ASSUME NEW S, NEW s \in Seq(S), NEW n \in Nat
  PROVE  /\ Best(s, n) \in Seq(S) /\ Len(Best(s, n)) = Lesser(n, Len(s))
         /\ Len(s) <= n => Best(s, n) = s
<1>1. PICK m \in Nat : m = Len(s)
  BY SeqArrow
<1>2. PICK k \in 0 .. m : k = Lesser(n, m)
  BY DEF Lesser
<1>3. Best(s, n) = SubSeq(s, 1, k)
  BY <1>1, <1>2 DEF Best
<1>4. /\ SubSeq(s, 1, k) \in Seq(S)
      /\ Len(SubSeq(s, 1, k)) = IF 1 <= k THEN k - 1 + 1 ELSE 0
  BY <1>1, ST!SubSeqProperties
<1>5. m <= n => SubSeq(s, 1, k) = s
  BY <1>1, <1>2, ST!SubSeqFull DEF Lesser
<1> QED
  BY <1>1, <1>2, <1>3, <1>4, <1>5

\* The newest of a list: the last stays.
LEMMA NewestOf ==
  ASSUME NEW S, NEW s \in Seq(S), NEW n \in Nat
  PROVE  /\ Newest(s, n) \in Seq(S) /\ Len(Newest(s, n)) = Lesser(n, Len(s))
         /\ n > 0 /\ s # <<>> => Newest(s, n) # <<>> /\ Last(Newest(s, n)) = Last(s)
<1>1. PICK m \in Nat : m = Len(s)
  BY SeqArrow
<1>0. Monus(m, n) \in 0 .. m
  BY DEF Monus
<1>2. PICK k \in 0 .. m : k = Monus(m, n)
  BY <1>0
<1>3. PICK t : t = Newest(s, n) /\ t = SubSeq(s, 1 + k, m)
  BY <1>1, <1>2 DEF Newest
<1>4. /\ t \in Seq(S)
      /\ Len(t) = IF 1 + k <= m THEN m - (1 + k) + 1 ELSE 0
      /\ \A i \in 1 .. m - (1 + k) + 1 : t[i] = s[(1 + k) + i - 1]
  BY <1>1, <1>3, ST!SubSeqProperties
<1>5. Len(t) = Lesser(n, m)
  BY <1>2, <1>4 DEF Monus, Lesser
<1>6. ASSUME n > 0, s # <<>> PROVE t # <<>> /\ Last(t) = Last(s)
  <2>1. m > 0
    BY <1>1, <1>6
  <2>0. m - k \in 1 .. m /\ Len(t) = m - k /\ (1 + k) + (m - k) - 1 = m
    BY <1>2, <1>4, <1>6, <2>1 DEF Monus
  <2>2. PICK j \in 1 .. m : j = m - k /\ Len(t) = j /\ (1 + k) + j - 1 = m
    BY <2>0
  <2>3. t[j] = s[m]
    <3>1. j \in 1 .. m - (1 + k) + 1
      BY <2>2
    <3>2. t[j] = s[(1 + k) + j - 1]
      BY <1>4, <3>1
    <3> QED
      BY <2>2, <3>2
  <2>4. t # <<>>
    BY <2>2
  <2> QED
    BY <1>1, <2>2, <2>3, <2>4 DEF Last
<1> QED
  BY <1>1, <1>3, <1>4, <1>5, <1>6

-----------------------------------------------------------------------------
(* Packs *)

\* A pack of lists of S.
Pack(S) == [user : Nat, memories : Seq(S), egos : Seq(S), tools : Seq(S), history : Seq(S),
            session : Seq(S), library : Library]

\* What a library counts for in a pack.
LEMMA EmptyChars ==
  ASSUME NEW l \in Library
  PROVE  (IF l = <<>> THEN 0 ELSE JsonChars(l)) = JsonChars(l)
<1>1. CASE l = <<>>
  <2>1. Bare(l) /\ Len(l) = 0
    BY <1>1 DEF Bare
  <2>2. JsonChars(l) = 3 * 0
    BY <2>1, CharsBounds
  <2> QED
    BY <1>1, <2>2
<1> QED
  BY <1>1

\* What a pack counts for.
LEMMA PackIs ==
  ASSUME NEW S, NEW p \in Pack(S)
  PROVE  /\ p.user \in Nat /\ Len(p.memories) \in Nat /\ Len(p.session) \in Nat
         /\ Len(p.history) \in Nat /\ Len(p.egos) \in Nat /\ Len(p.tools) \in Nat
         /\ JsonChars(p.library) \in Nat /\ PackChars(p) \in Nat
         /\ PackChars(p) = 2 + p.user + Len(p.memories) + Len(p.session) + Len(p.history)
                             + Len(p.egos) + Len(p.tools) + JsonChars(p.library)
<1>1. /\ p.user \in Nat /\ p.memories \in Seq(S) /\ p.session \in Seq(S) /\ p.history \in Seq(S)
      /\ p.egos \in Seq(S) /\ p.tools \in Seq(S) /\ p.library \in Library
  BY DEF Pack
<1>2. /\ Len(p.memories) \in Nat /\ Len(p.session) \in Nat /\ Len(p.history) \in Nat
      /\ Len(p.egos) \in Nat /\ Len(p.tools) \in Nat
  BY <1>1, SeqArrow
<1>3. JsonChars(p.library) \in Nat
  BY <1>1, CharsType
<1>4. PackChars(p) = 2 + p.user + Len(p.memories) + Len(p.session) + Len(p.history)
                       + Len(p.egos) + Len(p.tools) + JsonChars(p.library)
  BY <1>1, EmptyChars DEF PackChars, Envelope
<1>5. PackChars(p) \in Nat
  <2>1. \A a, b, c, d, e, f, g \in Nat : 2 + a + b + c + d + e + f + g \in Nat
    OBVIOUS
  <2>2. PICK a \in Nat, b \in Nat, c \in Nat, d \in Nat, e \in Nat, f \in Nat, g \in Nat :
          /\ a = p.user /\ b = Len(p.memories) /\ c = Len(p.session) /\ d = Len(p.history)
          /\ e = Len(p.egos) /\ f = Len(p.tools) /\ g = JsonChars(p.library)
    BY <1>1, <1>2, <1>3
  <2>3. PackChars(p) = 2 + a + b + c + d + e + f + g
    BY <1>4, <2>2
  <2> QED
    BY <2>1, <2>3
<1> QED
  BY <1>1, <1>2, <1>3, <1>4, <1>5

\* ... by its parts.
Counts(p, u, m, s, h, e, t, l) ==
  /\ u \in Nat /\ m \in Nat /\ s \in Nat /\ h \in Nat /\ e \in Nat /\ t \in Nat /\ l \in Nat
  /\ u = p.user /\ m = Len(p.memories) /\ s = Len(p.session) /\ h = Len(p.history)
  /\ e = Len(p.egos) /\ t = Len(p.tools) /\ l = JsonChars(p.library)
  /\ PackChars(p) = 2 + u + m + s + h + e + t + l

\* Every pack counts so.
LEMMA PackCounts ==
  ASSUME NEW S, NEW p \in Pack(S)
  PROVE  \E u, m, s, h, e, t, l : Counts(p, u, m, s, h, e, t, l)
<1>1. Counts(p, p.user, Len(p.memories), Len(p.session), Len(p.history), Len(p.egos),
             Len(p.tools), JsonChars(p.library))
  <2>1. /\ p.user \in Nat /\ Len(p.memories) \in Nat /\ Len(p.session) \in Nat
        /\ Len(p.history) \in Nat /\ Len(p.egos) \in Nat /\ Len(p.tools) \in Nat
        /\ JsonChars(p.library) \in Nat
        /\ PackChars(p) = 2 + p.user + Len(p.memories) + Len(p.session) + Len(p.history)
                            + Len(p.egos) + Len(p.tools) + JsonChars(p.library)
    BY PackIs
  <2> QED
    BY <2>1 DEF Counts
<1> QED
  BY <1>1

\* A part of a pack that counts for x is shed to y: not while the pack fits, and
\* down to the floor if it does not fit after.
Sheds(was, becomes, x, y, floor, total) ==
  /\ becomes \in Nat /\ y \in Nat /\ becomes = was - x + y
  /\ y <= x /\ floor <= y
  /\ was <= total => y = x
  /\ becomes > total => y = floor

\* What is over is taken away.
LEMMA ShedBy ==
  ASSUME NEW was \in Nat, NEW x \in Nat, x <= was, NEW floor \in Nat, floor <= x,
         NEW total \in Nat, NEW y, y = Greater(floor, Monus(x, Monus(was, total))),
         NEW becomes, becomes = was - x + y
  PROVE  Sheds(was, becomes, x, y, floor, total)
  BY DEF Sheds, Greater, Monus

\* Dropping from the end.
LEMMA EndIs ==
  ASSUME NEW S, NEW s \in Seq(S), NEW n \in Nat
  PROVE  FromEnd(s, n) \in Seq(S) /\ Len(FromEnd(s, n)) = Greater(0, Monus(Len(s), n))
<1>1. PICK m \in Nat : m = Len(s)
  BY SeqArrow
<1>0. Monus(m, n) \in Nat /\ Lesser(Monus(m, n), m) = Monus(m, n) /\ Greater(0, Monus(m, n)) = Monus(m, n)
  BY DEF Monus, Lesser, Greater
<1>2. PICK k \in Nat : k = Monus(m, n) /\ Lesser(k, m) = k /\ Greater(0, k) = k
  BY <1>0
<1> QED
  BY <1>1, <1>2, BestOf DEF FromEnd

\* Dropping from the front, but not the last.
LEMMA FrontIs ==
  ASSUME NEW S, NEW s \in Seq(S), NEW n \in Nat
  PROVE  /\ FromFront(s, n, 1) \in Seq(S)
         /\ Len(FromFront(s, n, 1)) = Greater(Lesser(1, Len(s)), Monus(Len(s), n))
         /\ s # <<>> => FromFront(s, n, 1) # <<>> /\ Last(FromFront(s, n, 1)) = Last(s)
<1>1. PICK m \in Nat : m = Len(s)
  BY SeqArrow
<1>6. Monus(m, n) \in Nat /\ Monus(m, n) <= m
  BY DEF Monus
<1>0. PICK a \in Nat : a = Monus(m, n) /\ a <= m
  BY <1>6
<1>5. PICK c \in Nat : c = Lesser(1, m) /\ c <= m /\ (m > 0 => c > 0)
  BY DEF Lesser
<1>4. Greater(c, a) \in Nat /\ Greater(c, a) <= m /\ Greater(c, a) >= c
  BY <1>0, <1>5 DEF Greater
<1>2. PICK k \in Nat : k = Greater(Lesser(1, m), Monus(m, n)) /\ Lesser(k, m) = k
                       /\ (m > 0 => k > 0)
  BY <1>0, <1>4, <1>5 DEF Lesser
<1>3. s # <<>> => m > 0
  BY <1>1
<1> QED
  BY <1>1, <1>2, <1>3, NewestOf DEF FromFront

\* Both packs have the same parts, but for those in f.
Others(p, q, f) ==
  /\ "user" \notin f => q.user = p.user
  /\ "memories" \notin f => q.memories = p.memories
  /\ "session" \notin f => q.session = p.session
  /\ "history" \notin f => q.history = p.history
  /\ "egos" \notin f => q.egos = p.egos
  /\ "tools" \notin f => q.tools = p.tools
  /\ "library" \notin f => q.library = p.library

\* What one part changes is all that changes.
LEMMA Differ ==
  ASSUME NEW S, NEW p \in Pack(S), NEW q \in Pack(S)
  PROVE  /\ Others(p, q, {"user"}) =>
              /\ PackChars(q) = PackChars(p) - p.user + q.user
              /\ p.user <= PackChars(p)
         /\ Others(p, q, {"memories"}) =>
              /\ PackChars(q) = PackChars(p) - Len(p.memories) + Len(q.memories)
              /\ Len(p.memories) <= PackChars(p)
         /\ Others(p, q, {"session"}) =>
              /\ PackChars(q) = PackChars(p) - Len(p.session) + Len(q.session)
              /\ Len(p.session) <= PackChars(p)
         /\ Others(p, q, {"history"}) =>
              /\ PackChars(q) = PackChars(p) - Len(p.history) + Len(q.history)
              /\ Len(p.history) <= PackChars(p)
         /\ Others(p, q, {"egos"}) =>
              /\ PackChars(q) = PackChars(p) - Len(p.egos) + Len(q.egos)
              /\ Len(p.egos) <= PackChars(p)
         /\ Others(p, q, {"tools"}) =>
              /\ PackChars(q) = PackChars(p) - Len(p.tools) + Len(q.tools)
              /\ Len(p.tools) <= PackChars(p)
         /\ Others(p, q, {"library"}) =>
              /\ PackChars(q) = PackChars(p) - JsonChars(p.library) + JsonChars(q.library)
              /\ JsonChars(p.library) <= PackChars(p)
<1>1. PICK u, m, s, h, e, t, c : Counts(p, u, m, s, h, e, t, c)
  BY PackCounts
<1>2. PICK u2, m2, s2, h2, e2, t2, c2 : Counts(q, u2, m2, s2, h2, e2, t2, c2)
  BY PackCounts
<1>3. /\ PackChars(p) = 2 + u + m + s + h + e + t + c
      /\ PackChars(q) = 2 + u2 + m2 + s2 + h2 + e2 + t2 + c2
      /\ u \in Nat /\ m \in Nat /\ s \in Nat /\ h \in Nat /\ e \in Nat /\ t \in Nat /\ c \in Nat
      /\ u2 \in Nat /\ m2 \in Nat /\ s2 \in Nat /\ h2 \in Nat /\ e2 \in Nat /\ t2 \in Nat /\ c2 \in Nat
  BY <1>1, <1>2 DEF Counts
<1>4. ASSUME Others(p, q, {"user"})
      PROVE  PackChars(q) = PackChars(p) - p.user + q.user /\ p.user <= PackChars(p)
  <2>1. /\ q.memories = p.memories /\ q.session = p.session /\ q.history = p.history
        /\ q.egos = p.egos /\ q.tools = p.tools /\ q.library = p.library
    BY <1>4 DEF Others
  <2>2. m2 = m /\ s2 = s /\ h2 = h /\ e2 = e /\ t2 = t /\ c2 = c
    BY <1>1, <1>2, <2>1 DEF Counts
  <2>3. p.user = u /\ q.user = u2
    BY <1>1, <1>2 DEF Counts
  <2> QED
    BY <1>3, <2>2, <2>3
<1>5. ASSUME Others(p, q, {"memories"})
      PROVE  /\ PackChars(q) = PackChars(p) - Len(p.memories) + Len(q.memories)
             /\ Len(p.memories) <= PackChars(p)
  <2>1. /\ q.user = p.user /\ q.session = p.session /\ q.history = p.history
        /\ q.egos = p.egos /\ q.tools = p.tools /\ q.library = p.library
    BY <1>5 DEF Others
  <2>2. u2 = u /\ s2 = s /\ h2 = h /\ e2 = e /\ t2 = t /\ c2 = c
    BY <1>1, <1>2, <2>1 DEF Counts
  <2>3. Len(p.memories) = m /\ Len(q.memories) = m2
    BY <1>1, <1>2 DEF Counts
  <2> QED
    BY <1>3, <2>2, <2>3
<1>6. ASSUME Others(p, q, {"session"})
      PROVE  /\ PackChars(q) = PackChars(p) - Len(p.session) + Len(q.session)
             /\ Len(p.session) <= PackChars(p)
  <2>1. /\ q.user = p.user /\ q.memories = p.memories /\ q.history = p.history
        /\ q.egos = p.egos /\ q.tools = p.tools /\ q.library = p.library
    BY <1>6 DEF Others
  <2>2. u2 = u /\ m2 = m /\ h2 = h /\ e2 = e /\ t2 = t /\ c2 = c
    BY <1>1, <1>2, <2>1 DEF Counts
  <2>3. Len(p.session) = s /\ Len(q.session) = s2
    BY <1>1, <1>2 DEF Counts
  <2> QED
    BY <1>3, <2>2, <2>3
<1>7. ASSUME Others(p, q, {"history"})
      PROVE  /\ PackChars(q) = PackChars(p) - Len(p.history) + Len(q.history)
             /\ Len(p.history) <= PackChars(p)
  <2>1. /\ q.user = p.user /\ q.memories = p.memories /\ q.session = p.session
        /\ q.egos = p.egos /\ q.tools = p.tools /\ q.library = p.library
    BY <1>7 DEF Others
  <2>2. u2 = u /\ m2 = m /\ s2 = s /\ e2 = e /\ t2 = t /\ c2 = c
    BY <1>1, <1>2, <2>1 DEF Counts
  <2>3. Len(p.history) = h /\ Len(q.history) = h2
    BY <1>1, <1>2 DEF Counts
  <2> QED
    BY <1>3, <2>2, <2>3
<1>8. ASSUME Others(p, q, {"egos"})
      PROVE  PackChars(q) = PackChars(p) - Len(p.egos) + Len(q.egos) /\ Len(p.egos) <= PackChars(p)
  <2>1. /\ q.user = p.user /\ q.memories = p.memories /\ q.session = p.session
        /\ q.history = p.history /\ q.tools = p.tools /\ q.library = p.library
    BY <1>8 DEF Others
  <2>2. u2 = u /\ m2 = m /\ s2 = s /\ h2 = h /\ t2 = t /\ c2 = c
    BY <1>1, <1>2, <2>1 DEF Counts
  <2>3. Len(p.egos) = e /\ Len(q.egos) = e2
    BY <1>1, <1>2 DEF Counts
  <2> QED
    BY <1>3, <2>2, <2>3
<1>9. ASSUME Others(p, q, {"tools"})
      PROVE  /\ PackChars(q) = PackChars(p) - Len(p.tools) + Len(q.tools)
             /\ Len(p.tools) <= PackChars(p)
  <2>1. /\ q.user = p.user /\ q.memories = p.memories /\ q.session = p.session
        /\ q.history = p.history /\ q.egos = p.egos /\ q.library = p.library
    BY <1>9 DEF Others
  <2>2. u2 = u /\ m2 = m /\ s2 = s /\ h2 = h /\ e2 = e /\ c2 = c
    BY <1>1, <1>2, <2>1 DEF Counts
  <2>3. Len(p.tools) = t /\ Len(q.tools) = t2
    BY <1>1, <1>2 DEF Counts
  <2> QED
    BY <1>3, <2>2, <2>3
<1>10. ASSUME Others(p, q, {"library"})
      PROVE  /\ PackChars(q) = PackChars(p) - JsonChars(p.library) + JsonChars(q.library)
             /\ JsonChars(p.library) <= PackChars(p)
  <2>1. /\ q.user = p.user /\ q.memories = p.memories /\ q.session = p.session
        /\ q.history = p.history /\ q.egos = p.egos /\ q.tools = p.tools
    BY <1>10 DEF Others
  <2>2. u2 = u /\ m2 = m /\ s2 = s /\ h2 = h /\ e2 = e /\ t2 = t
    BY <1>1, <1>2, <2>1 DEF Counts
  <2>3. JsonChars(p.library) = c /\ JsonChars(q.library) = c2
    BY <1>1, <1>2 DEF Counts
  <2> QED
    BY <1>3, <2>2, <2>3
<1> QED
  BY <1>4, <1>5, <1>6, <1>7, <1>8, <1>9, <1>10

\* How much a pack is over its budget.
LEMMA OverIs ==
  ASSUME NEW S, NEW p \in Pack(S), NEW b, b.total \in Nat
  PROVE  Over(p, b) \in Nat /\ Over(p, b) = Monus(PackChars(p), b.total)
  BY PackIs DEF Over, Monus

\* Memories are shed, the least relevant first.
LEMMA ShedMemoriesIs ==
  ASSUME NEW S, NEW p \in Pack(S), NEW b, b.total \in Nat
  PROVE  /\ ShedMemories(p, b) \in Pack(S) /\ Others(p, ShedMemories(p, b), {"memories"})
         /\ Sheds(PackChars(p), PackChars(ShedMemories(p, b)), Len(p.memories),
                  Len(ShedMemories(p, b).memories), 0, b.total)
<1>1. PICK o \in Nat : o = Over(p, b) /\ o = Monus(PackChars(p), b.total)
  BY OverIs
<1>2. p.memories \in Seq(S)
  BY DEF Pack
<1>3. PICK l \in Seq(S) :
      /\ l = FromEnd(p.memories, o)
      /\ Len(l) = Greater(0, Monus(Len(p.memories), o))
  BY <1>2, EndIs
<1>4. PICK q : q = [p EXCEPT !.memories = l]
  OBVIOUS
<1>5. q = ShedMemories(p, b)
  BY <1>1, <1>3, <1>4 DEF ShedMemories
<1>6. q \in Pack(S) /\ Others(p, q, {"memories"}) /\ q.memories = l
  BY <1>3, <1>4 DEF Pack, Others
<1>7. PICK x \in Nat, y \in Nat : x = Len(p.memories) /\ y = Len(q.memories)
  BY <1>2, <1>3, <1>6, SeqArrow
<1>8. PackChars(q) = PackChars(p) - x + y /\ x <= PackChars(p) /\ PackChars(p) \in Nat
  BY <1>6, <1>7, Differ, PackIs
<1>9. 0 \in Nat /\ 0 <= x
  BY <1>7 DEF Lesser
<1> QED
  BY <1>1, <1>3, <1>5, <1>6, <1>7, <1>8, <1>9, ShedBy

\* Messages are shed, the oldest first and never the last.
LEMMA ShedSessionIs ==
  ASSUME NEW S, NEW p \in Pack(S), NEW b, b.total \in Nat
  PROVE  /\ ShedSession(p, b) \in Pack(S) /\ Others(p, ShedSession(p, b), {"session"})
         /\ Sheds(PackChars(p), PackChars(ShedSession(p, b)), Len(p.session),
                  Len(ShedSession(p, b).session), Lesser(1, Len(p.session)), b.total)
         /\ p.session # <<>> => /\ ShedSession(p, b).session # <<>>
                                /\ Last(ShedSession(p, b).session) = Last(p.session)
<1>1. PICK o \in Nat : o = Over(p, b) /\ o = Monus(PackChars(p), b.total)
  BY OverIs
<1>2. p.session \in Seq(S)
  BY DEF Pack
<1>3. PICK l \in Seq(S) :
      /\ l = FromFront(p.session, o, 1)
      /\ Len(l) = Greater(Lesser(1, Len(p.session)), Monus(Len(p.session), o))
      /\ p.session # <<>> => l # <<>> /\ Last(l) = Last(p.session)
  BY <1>2, FrontIs
<1>4. PICK q : q = [p EXCEPT !.session = l]
  OBVIOUS
<1>5. q = ShedSession(p, b)
  BY <1>1, <1>3, <1>4 DEF ShedSession
<1>6. q \in Pack(S) /\ Others(p, q, {"session"}) /\ q.session = l
  BY <1>3, <1>4 DEF Pack, Others
<1>7. PICK x \in Nat, y \in Nat : x = Len(p.session) /\ y = Len(q.session)
  BY <1>2, <1>3, <1>6, SeqArrow
<1>8. PackChars(q) = PackChars(p) - x + y /\ x <= PackChars(p) /\ PackChars(p) \in Nat
  BY <1>6, <1>7, Differ, PackIs
<1>9. Lesser(1, Len(p.session)) \in Nat /\ Lesser(1, Len(p.session)) <= x
  BY <1>7 DEF Lesser
<1> QED
  BY <1>1, <1>3, <1>5, <1>6, <1>7, <1>8, <1>9, ShedBy

\* Results of actions are shed, the oldest first and never the last.
LEMMA ShedHistoryIs ==
  ASSUME NEW S, NEW p \in Pack(S), NEW b, b.total \in Nat
  PROVE  /\ ShedHistory(p, b) \in Pack(S) /\ Others(p, ShedHistory(p, b), {"history"})
         /\ Sheds(PackChars(p), PackChars(ShedHistory(p, b)), Len(p.history),
                  Len(ShedHistory(p, b).history), Lesser(1, Len(p.history)), b.total)
         /\ p.history # <<>> => /\ ShedHistory(p, b).history # <<>>
                                /\ Last(ShedHistory(p, b).history) = Last(p.history)
<1>1. PICK o \in Nat : o = Over(p, b) /\ o = Monus(PackChars(p), b.total)
  BY OverIs
<1>2. p.history \in Seq(S)
  BY DEF Pack
<1>3. PICK l \in Seq(S) :
      /\ l = FromFront(p.history, o, 1)
      /\ Len(l) = Greater(Lesser(1, Len(p.history)), Monus(Len(p.history), o))
      /\ p.history # <<>> => l # <<>> /\ Last(l) = Last(p.history)
  BY <1>2, FrontIs
<1>4. PICK q : q = [p EXCEPT !.history = l]
  OBVIOUS
<1>5. q = ShedHistory(p, b)
  BY <1>1, <1>3, <1>4 DEF ShedHistory
<1>6. q \in Pack(S) /\ Others(p, q, {"history"}) /\ q.history = l
  BY <1>3, <1>4 DEF Pack, Others
<1>7. PICK x \in Nat, y \in Nat : x = Len(p.history) /\ y = Len(q.history)
  BY <1>2, <1>3, <1>6, SeqArrow
<1>8. PackChars(q) = PackChars(p) - x + y /\ x <= PackChars(p) /\ PackChars(p) \in Nat
  BY <1>6, <1>7, Differ, PackIs
<1>9. Lesser(1, Len(p.history)) \in Nat /\ Lesser(1, Len(p.history)) <= x
  BY <1>7 DEF Lesser
<1> QED
  BY <1>1, <1>3, <1>5, <1>6, <1>7, <1>8, <1>9, ShedBy

\* E.G.Os are shed from the end.
LEMMA ShedEgosIs ==
  ASSUME NEW S, NEW p \in Pack(S), NEW b, b.total \in Nat
  PROVE  /\ ShedEgos(p, b) \in Pack(S) /\ Others(p, ShedEgos(p, b), {"egos"})
         /\ Sheds(PackChars(p), PackChars(ShedEgos(p, b)), Len(p.egos),
                  Len(ShedEgos(p, b).egos), 0, b.total)
<1>1. PICK o \in Nat : o = Over(p, b) /\ o = Monus(PackChars(p), b.total)
  BY OverIs
<1>2. p.egos \in Seq(S)
  BY DEF Pack
<1>3. PICK l \in Seq(S) :
      /\ l = FromEnd(p.egos, o)
      /\ Len(l) = Greater(0, Monus(Len(p.egos), o))
  BY <1>2, EndIs
<1>4. PICK q : q = [p EXCEPT !.egos = l]
  OBVIOUS
<1>5. q = ShedEgos(p, b)
  BY <1>1, <1>3, <1>4 DEF ShedEgos
<1>6. q \in Pack(S) /\ Others(p, q, {"egos"}) /\ q.egos = l
  BY <1>3, <1>4 DEF Pack, Others
<1>7. PICK x \in Nat, y \in Nat : x = Len(p.egos) /\ y = Len(q.egos)
  BY <1>2, <1>3, <1>6, SeqArrow
<1>8. PackChars(q) = PackChars(p) - x + y /\ x <= PackChars(p) /\ PackChars(p) \in Nat
  BY <1>6, <1>7, Differ, PackIs
<1>9. 0 \in Nat /\ 0 <= x
  BY <1>7 DEF Lesser
<1> QED
  BY <1>1, <1>3, <1>5, <1>6, <1>7, <1>8, <1>9, ShedBy

\* Tools are shed from the end.
LEMMA ShedToolsIs ==
  ASSUME NEW S, NEW p \in Pack(S), NEW b, b.total \in Nat
  PROVE  /\ ShedTools(p, b) \in Pack(S) /\ Others(p, ShedTools(p, b), {"tools"})
         /\ Sheds(PackChars(p), PackChars(ShedTools(p, b)), Len(p.tools),
                  Len(ShedTools(p, b).tools), 0, b.total)
<1>1. PICK o \in Nat : o = Over(p, b) /\ o = Monus(PackChars(p), b.total)
  BY OverIs
<1>2. p.tools \in Seq(S)
  BY DEF Pack
<1>3. PICK l \in Seq(S) :
      /\ l = FromEnd(p.tools, o)
      /\ Len(l) = Greater(0, Monus(Len(p.tools), o))
  BY <1>2, EndIs
<1>4. PICK q : q = [p EXCEPT !.tools = l]
  OBVIOUS
<1>5. q = ShedTools(p, b)
  BY <1>1, <1>3, <1>4 DEF ShedTools
<1>6. q \in Pack(S) /\ Others(p, q, {"tools"}) /\ q.tools = l
  BY <1>3, <1>4 DEF Pack, Others
<1>7. PICK x \in Nat, y \in Nat : x = Len(p.tools) /\ y = Len(q.tools)
  BY <1>2, <1>3, <1>6, SeqArrow
<1>8. PackChars(q) = PackChars(p) - x + y /\ x <= PackChars(p) /\ PackChars(p) \in Nat
  BY <1>6, <1>7, Differ, PackIs
<1>9. 0 \in Nat /\ 0 <= x
  BY <1>7 DEF Lesser
<1> QED
  BY <1>1, <1>3, <1>5, <1>6, <1>7, <1>8, <1>9, ShedBy

\* What may be left of a library.
LeftOf(first, s) == s \in Library /\ Guarded(first, s) /\ Distinct(s) /\ Len(s) <= Len(first)

\* The compiler's program leaves what may be left, counts for no more, for as much
\* if that fits, and for what may not be taken if what it leaves does not.
LEMMA FittedLeaves ==
  ASSUME NEW first \in Library, Distinct(first), NEW s, LeftOf(first, s), NEW limit \in Nat,
         NEW t, t = Fitted(s, limit)
  PROVE  /\ LeftOf(first, t) /\ Fewest(first) \in Nat
         /\ JsonChars(s) \in Nat /\ JsonChars(t) \in Nat
         /\ JsonChars(t) <= JsonChars(s) /\ 3 * Fewest(first) <= JsonChars(t)
         /\ JsonChars(s) <= limit => JsonChars(t) = JsonChars(s)
         /\ JsonChars(t) > limit => JsonChars(t) = 3 * Fewest(first)
<1>1. s \in Library /\ Guarded(first, s) /\ Distinct(s) /\ Len(s) <= Len(first)
  BY DEF LeftOf
<1>2. /\ t \in Library /\ JsonChars(t) <= JsonChars(s)
      /\ JsonChars(s) <= limit => t = s
      /\ JsonChars(t) <= limit \/ Bare(t)
  BY <1>1, FittedEnds
<1>3. Guarded(first, t) /\ Distinct(t) /\ Len(t) <= Len(s)
  BY <1>1, FittedKeeps
<1>4. Len(t) \in Nat /\ Len(s) \in Nat /\ Len(first) \in Nat
  BY <1>1, <1>2, SeqArrow DEF Library
<1>5. Len(t) <= Len(first)
  BY <1>1, <1>3, <1>4
<1>6. Fewest(first) \in Nat /\ Fewest(first) <= Len(t) /\ (Bare(t) => Fewest(first) = Len(t))
  BY <1>2, <1>3, <1>5, FewestStay
<1>7. JsonChars(t) >= 3 * Len(t) /\ (Bare(t) => JsonChars(t) = 3 * Len(t))
  BY <1>2, CharsBounds
<1>8. JsonChars(t) \in Nat /\ JsonChars(s) \in Nat
  BY <1>1, <1>2, CharsType
<1>9. LeftOf(first, t)
  BY <1>2, <1>3, <1>5 DEF LeftOf
<1> QED
  BY <1>2, <1>4, <1>6, <1>7, <1>8, <1>9

\* The library is pruned to what the rest leaves of the budget.
LEMMA ShedLibraryIs ==
  ASSUME NEW S, NEW p \in Pack(S), NEW b, b.total \in Nat,
         NEW first \in Library, Distinct(first), LeftOf(first, p.library)
  PROVE  /\ ShedLibrary(p, b) \in Pack(S) /\ Others(p, ShedLibrary(p, b), {"library"})
         /\ Sheds(PackChars(p), PackChars(ShedLibrary(p, b)), JsonChars(p.library),
                  JsonChars(ShedLibrary(p, b).library), 3 * Fewest(first), b.total)
<1>1. PICK bare : bare = [p EXCEPT !.library = <<>>]
  OBVIOUS
<1>2. <<>> \in Library /\ JsonChars(<<>>) = 0
  <2>1. <<>> \in Library
    BY DEF Library
  <2> QED
    BY <2>1, EmptyChars
<1>3. bare \in Pack(S) /\ Others(p, bare, {"library"}) /\ bare.library = <<>>
  BY <1>1, <1>2 DEF Pack, Others
<1>4. PICK P \in Nat, x \in Nat : P = PackChars(p) /\ x = JsonChars(p.library)
  BY PackIs
<1>5. PackChars(bare) = P - x + 0 /\ x <= P
  <2>1. PackChars(bare) = PackChars(p) - JsonChars(p.library) + JsonChars(bare.library)
        /\ JsonChars(p.library) <= PackChars(p)
    BY <1>3, Differ
  <2> QED
    BY <1>2, <1>3, <1>4, <2>1
<1>6. PICK limit \in Nat : limit = Monus(b.total, P - x) /\ limit = Monus(b.total, PackChars(bare))
  <2>1. P - x + 0 = P - x /\ Monus(b.total, P - x) \in Nat
    BY <1>5 DEF Monus
  <2> QED
    BY <1>5, <2>1
<1>7. PICK l : l = Fitted(p.library, limit)
  OBVIOUS
<1>8. PICK y \in Nat, f \in Nat :
        /\ y = JsonChars(l) /\ f = Fewest(first) /\ LeftOf(first, l)
        /\ y <= x /\ 3 * f <= y /\ (x <= limit => y = x) /\ (y > limit => y = 3 * f)
  <2>1. /\ LeftOf(first, l) /\ Fewest(first) \in Nat
        /\ JsonChars(l) \in Nat
        /\ JsonChars(l) <= JsonChars(p.library) /\ 3 * Fewest(first) <= JsonChars(l)
        /\ JsonChars(p.library) <= limit => JsonChars(l) = JsonChars(p.library)
        /\ JsonChars(l) > limit => JsonChars(l) = 3 * Fewest(first)
    BY <1>6, <1>7, FittedLeaves
  <2> QED
    BY <1>4, <2>1
<1>9. PICK q : q = [p EXCEPT !.library = l]
  OBVIOUS
<1>10. q = ShedLibrary(p, b)
  BY <1>1, <1>6, <1>7, <1>9 DEF ShedLibrary
<1>11. q \in Pack(S) /\ Others(p, q, {"library"}) /\ q.library = l
  BY <1>8, <1>9 DEF Pack, Others, LeftOf
<1>12. PackChars(q) = P - x + y
  BY <1>4, <1>8, <1>11, Differ
<1>13. limit = IF b.total > P - x THEN b.total - (P - x) ELSE 0
  BY <1>6 DEF Monus
<1>14. Sheds(P, P - x + y, x, y, 3 * f, b.total)
  BY <1>5, <1>8, <1>13 DEF Sheds
<1> QED
  BY <1>4, <1>8, <1>10, <1>11, <1>12, <1>14

\* The user's words are cut, to nothing if need be.
LEMMA ShedUserIs ==
  ASSUME NEW S, NEW p \in Pack(S), NEW b, b.total \in Nat
  PROVE  /\ ShedUser(p, b) \in Pack(S) /\ Others(p, ShedUser(p, b), {"user"})
         /\ Sheds(PackChars(p), PackChars(ShedUser(p, b)), p.user, ShedUser(p, b).user, 0, b.total)
<1>1. PICK o \in Nat : o = Over(p, b) /\ o = Monus(PackChars(p), b.total)
  BY OverIs
<1>2. PICK P \in Nat, x \in Nat : P = PackChars(p) /\ x = p.user /\ x <= P
  <2>1. Others(p, p, {"user"})
    BY DEF Others
  <2> QED
    BY <2>1, PackIs, Differ
<1>3. PICK y \in Nat : y = TrimText(x, Monus(x, o)) /\ y = Greater(0, Monus(x, o))
  <2>1. TrimText(x, Monus(x, o)) \in Nat /\ TrimText(x, Monus(x, o)) = Greater(0, Monus(x, o))
    BY DEF TrimText, Monus, Greater
  <2> QED
    BY <2>1
<1>4. PICK q : q = [p EXCEPT !.user = y]
  OBVIOUS
<1>5. q = ShedUser(p, b)
  BY <1>1, <1>2, <1>3, <1>4 DEF ShedUser
<1>6. q \in Pack(S) /\ Others(p, q, {"user"}) /\ q.user = y
  BY <1>3, <1>4 DEF Pack, Others
<1>7. PackChars(q) = P - x + y
  BY <1>2, <1>6, Differ
<1>8. Sheds(P, P - x + y, x, y, 0, b.total)
  BY <1>1, <1>2, <1>3, ShedBy
<1> QED
  BY <1>2, <1>5, <1>6, <1>7, <1>8

\* What a compilation is given: lists of S and a library of what was found, no
\* more than the budget has room for.
GivenFor(S, F, n) ==
  [user : Nat, memories : Seq(S), egos : Seq(S), tools : Seq(S), history : Seq(S),
   session : Seq(S), library : {Roles(found) : found \in {s \in Seq(FoundItem(F)) : Len(s) <= n}}]

\* ... and its budget, at least one item of everything.
Limits == [total : Nat, user : Nat, items : Nat \ {0}, libraryItems : Nat, library : Nat]

\* No two roles have one id.
LEMMA RolesDistinct ==
  ASSUME NEW F, NEW found \in Seq(FoundItem(F))
  PROVE  Distinct(Roles(found)) /\ LeftOf(Roles(found), Roles(found))
<1>1. PICK n \in Nat : n = Len(found) /\ DOMAIN found = 1 .. n
  BY SeqArrow
<1>2. PICK s \in Library : s = Roles(found) /\ Guarded(s, s) /\ Len(s) = n
  BY <1>1, RolesAre
<1>3. \A i \in 1 .. n : s[i].id = i
  BY <1>1, <1>2 DEF Roles
<1>4. Distinct(s)
  BY <1>2, <1>3 DEF Distinct
<1> QED
  BY <1>2, <1>4 DEF LeftOf

\* What is selected by number.
LEMMA SelectedIs ==
  ASSUME NEW S, NEW F, NEW b \in Limits, NEW given \in GivenFor(S, F, b.libraryItems)
  PROVE  /\ Selected(given, b) \in Pack(S)
         /\ given.library \in Library /\ Distinct(given.library)
         /\ LeftOf(given.library, Selected(given, b).library)
         /\ Len(given.session) \in Nat /\ Len(given.history) \in Nat
         /\ Len(Selected(given, b).session) = Lesser(b.items, Len(given.session))
         /\ Len(Selected(given, b).history) = Lesser(b.items, Len(given.history))
         /\ given.session # <<>> => /\ Selected(given, b).session # <<>>
                                    /\ Last(Selected(given, b).session) = Last(given.session)
         /\ given.history # <<>> => /\ Selected(given, b).history # <<>>
                                    /\ Last(Selected(given, b).history) = Last(given.history)
<1>1. /\ b.user \in Nat /\ b.items \in Nat /\ b.items > 0 /\ b.libraryItems \in Nat
      /\ b.library \in Nat
  BY DEF Limits
<1>2. /\ given.user \in Nat /\ given.memories \in Seq(S) /\ given.egos \in Seq(S)
      /\ given.tools \in Seq(S) /\ given.history \in Seq(S) /\ given.session \in Seq(S)
  BY DEF GivenFor
<1>3. PICK found \in Seq(FoundItem(F)) : given.library = Roles(found) /\ Len(found) <= b.libraryItems
  BY DEF GivenFor
<1>4. PICK first \in Library : /\ first = given.library /\ Len(first) <= b.libraryItems
                               /\ Distinct(first) /\ LeftOf(first, first)
  BY <1>3, RolesAre, RolesDistinct
<1>5. Best(first, b.libraryItems) = first
  BY <1>1, <1>4, BestOf DEF Library
<1>6. PICK l \in Library : l = Fitted(first, b.library) /\ LeftOf(first, l)
  <2>1. LeftOf(first, Fitted(first, b.library))
    BY <1>1, <1>4, FittedLeaves
  <2> QED
    BY <2>1 DEF LeftOf
<1>7. PICK s \in Seq(S) :
        /\ s = Newest(given.session, b.items) /\ Len(s) = Lesser(b.items, Len(given.session))
        /\ given.session # <<>> => s # <<>> /\ Last(s) = Last(given.session)
  BY <1>1, <1>2, NewestOf
<1>8. PICK h \in Seq(S) :
        /\ h = Newest(given.history, b.items) /\ Len(h) = Lesser(b.items, Len(given.history))
        /\ given.history # <<>> => h # <<>> /\ Last(h) = Last(given.history)
  BY <1>1, <1>2, NewestOf
<1>9. PICK m \in Seq(S), e \in Seq(S), t \in Seq(S) :
        m = Best(given.memories, b.items) /\ e = Best(given.egos, b.items)
        /\ t = Best(given.tools, b.items)
  BY <1>1, <1>2, BestOf
<1>10. PICK u \in Nat : u = TrimText(given.user, b.user)
  <2>1. TrimText(given.user, b.user) \in Nat
    BY <1>1, <1>2 DEF TrimText
  <2> QED
    BY <2>1
<1>11. Selected(given, b) = [user |-> u, memories |-> m, egos |-> e, tools |-> t, history |-> h,
                             session |-> s, library |-> l]
  BY <1>4, <1>5, <1>6, <1>7, <1>8, <1>9, <1>10 DEF Selected
<1>12. PICK p : p = Selected(given, b)
  OBVIOUS
<1>13. p \in Pack(S) /\ p.session = s /\ p.history = h /\ p.library = l
  BY <1>11, <1>12 DEF Pack
<1>14. Len(given.session) \in Nat /\ Len(given.history) \in Nat
  BY <1>2, SeqArrow
<1> QED
  BY <1>4, <1>6, <1>7, <1>8, <1>12, <1>13, <1>14

\* After all has been shed: what is left fits if what may not be taken does, and
\* history goes only where memories and session have gone.
LEMMA ShedAll ==
  ASSUME NEW T \in Nat, NEW P0 \in Nat, NEW P1, NEW P2, NEW P3, NEW P4, NEW P5, NEW P6, NEW P7,
         NEW m0 \in Nat, NEW m1, NEW s0 \in Nat, NEW s1, NEW h0 \in Nat, NEW h1,
         NEW e0 \in Nat, NEW e1, NEW t0 \in Nat, NEW t1, NEW l0 \in Nat, NEW l1,
         NEW u0 \in Nat, NEW u1, NEW f \in Nat, NEW sf \in Nat, NEW hf \in Nat,
         Sheds(P0, P1, m0, m1, 0, T), Sheds(P1, P2, s0, s1, sf, T), Sheds(P2, P3, h0, h1, hf, T),
         Sheds(P3, P4, e0, e1, 0, T), Sheds(P4, P5, t0, t1, 0, T), Sheds(P5, P6, l0, l1, f, T),
         Sheds(P6, P7, u0, u1, 0, T),
         P7 = 2 + u1 + m1 + s1 + h1 + e1 + t1 + l1
  PROVE  /\ P7 <= T <=> 2 + sf + hf + f <= T
         /\ h1 < h0 => m1 = 0 /\ s1 = sf
<1>1. /\ P1 \in Nat /\ P2 \in Nat /\ P3 \in Nat /\ P4 \in Nat /\ P5 \in Nat /\ P6 \in Nat /\ P7 \in Nat
      /\ m1 \in Nat /\ s1 \in Nat /\ h1 \in Nat /\ e1 \in Nat /\ t1 \in Nat /\ l1 \in Nat /\ u1 \in Nat
  BY DEF Sheds
<1>2. P7 <= P6 /\ P6 <= P5 /\ P5 <= P4 /\ P4 <= P3 /\ P3 <= P2 /\ P2 <= P1
  BY <1>1 DEF Sheds
<1>3. ASSUME P7 > T
      PROVE  m1 = 0 /\ s1 = sf /\ h1 = hf /\ e1 = 0 /\ t1 = 0 /\ l1 = f /\ u1 = 0
  <2>1. P1 > T /\ P2 > T /\ P3 > T /\ P4 > T /\ P5 > T /\ P6 > T
    BY <1>1, <1>2, <1>3
  <2> QED
    BY <1>3, <2>1 DEF Sheds
<1>4. sf <= s1 /\ hf <= h1 /\ f <= l1
  BY DEF Sheds
<1>5. ASSUME h1 < h0 PROVE m1 = 0 /\ s1 = sf
  <2>1. P2 > T
    BY <1>1, <1>5 DEF Sheds
  <2>2. P1 > T
    BY <1>1, <1>2, <2>1
  <2> QED
    BY <2>1, <2>2 DEF Sheds
<1> QED
  BY <1>1, <1>3, <1>4, <1>5

\* However long the lists, whatever retrieval found and whatever the budget:
\* compile_with_report keeps its budget, refuses no request it could have made fit,
\* keeps the newest result and message, and sheds in the order it says (PackFits).
THEOREM EveryPackFits ==
  ASSUME NEW S, NEW F, NEW b \in Limits, NEW given \in GivenFor(S, F, b.libraryItems)
  PROVE  PackFits(given, b)
<1>0. b.total \in Nat /\ b.items \in Nat /\ b.items > 0
  BY DEF Limits
<1>1. PICK first \in Library : first = given.library /\ Distinct(first)
  BY SelectedIs
<1>2. PICK S0 \in Nat, H0 \in Nat : S0 = Len(given.session) /\ H0 = Len(given.history)
  BY SelectedIs
<1>3. PICK p \in Pack(S) :
        /\ p = Selected(given, b) /\ LeftOf(first, p.library)
        /\ Len(p.session) = Lesser(b.items, S0) /\ Len(p.history) = Lesser(b.items, H0)
        /\ given.session # <<>> => p.session # <<>> /\ Last(p.session) = Last(given.session)
        /\ given.history # <<>> => p.history # <<>> /\ Last(p.history) = Last(given.history)
  <2>1. /\ Selected(given, b) \in Pack(S) /\ LeftOf(given.library, Selected(given, b).library)
        /\ Len(Selected(given, b).session) = Lesser(b.items, Len(given.session))
        /\ Len(Selected(given, b).history) = Lesser(b.items, Len(given.history))
        /\ given.session # <<>> => /\ Selected(given, b).session # <<>>
                                   /\ Last(Selected(given, b).session) = Last(given.session)
        /\ given.history # <<>> => /\ Selected(given, b).history # <<>>
                                   /\ Last(Selected(given, b).history) = Last(given.history)
    BY SelectedIs
  <2> QED
    BY <1>1, <1>2, <2>1
<1>4. PICK p1 \in Pack(S) :
        /\ p1 = ShedMemories(p, b) /\ Others(p, p1, {"memories"})
        /\ Sheds(PackChars(p), PackChars(p1), Len(p.memories), Len(p1.memories), 0, b.total)
  BY <1>0, ShedMemoriesIs
<1>5. PICK p2 \in Pack(S) :
        /\ p2 = ShedSession(p1, b) /\ Others(p1, p2, {"session"})
        /\ Sheds(PackChars(p1), PackChars(p2), Len(p1.session), Len(p2.session),
                 Lesser(1, Len(p1.session)), b.total)
        /\ p1.session # <<>> => p2.session # <<>> /\ Last(p2.session) = Last(p1.session)
  BY <1>0, ShedSessionIs
<1>6. PICK p3 \in Pack(S) :
        /\ p3 = ShedHistory(p2, b) /\ Others(p2, p3, {"history"})
        /\ Sheds(PackChars(p2), PackChars(p3), Len(p2.history), Len(p3.history),
                 Lesser(1, Len(p2.history)), b.total)
        /\ p2.history # <<>> => p3.history # <<>> /\ Last(p3.history) = Last(p2.history)
  BY <1>0, ShedHistoryIs
<1>7. PICK p4 \in Pack(S) :
        /\ p4 = ShedEgos(p3, b) /\ Others(p3, p4, {"egos"})
        /\ Sheds(PackChars(p3), PackChars(p4), Len(p3.egos), Len(p4.egos), 0, b.total)
  BY <1>0, ShedEgosIs
<1>8. PICK p5 \in Pack(S) :
        /\ p5 = ShedTools(p4, b) /\ Others(p4, p5, {"tools"})
        /\ Sheds(PackChars(p4), PackChars(p5), Len(p4.tools), Len(p5.tools), 0, b.total)
  BY <1>0, ShedToolsIs
<1>9. p5.library = p.library /\ p4.library = p.library
  BY <1>4, <1>5, <1>6, <1>7, <1>8 DEF Others
<1>10. PICK p6 \in Pack(S) :
        /\ p6 = ShedLibrary(p5, b) /\ Others(p5, p6, {"library"})
        /\ Sheds(PackChars(p5), PackChars(p6), JsonChars(p5.library), JsonChars(p6.library),
                 3 * Fewest(first), b.total)
  <2>1. LeftOf(first, p5.library)
    BY <1>3, <1>9
  <2> QED
    BY <1>0, <1>1, <2>1, ShedLibraryIs
<1>11. PICK p7 \in Pack(S) :
        /\ p7 = ShedUser(p6, b) /\ Others(p6, p7, {"user"})
        /\ Sheds(PackChars(p6), PackChars(p7), p6.user, p7.user, 0, b.total)
  BY <1>0, ShedUserIs
<1>12. Compile(given, b) = [ok |-> PackChars(p7) <= b.total, pack |-> p7]
  BY <1>3, <1>4, <1>5, <1>6, <1>7, <1>8, <1>10, <1>11 DEF Compile, Pruned
<1>13. /\ p1.session = p.session /\ p1.history = p.history /\ p2.history = p.history
       /\ p7.memories = p1.memories /\ p7.session = p2.session /\ p7.history = p3.history
       /\ p7.egos = p4.egos /\ p7.tools = p5.tools /\ p7.library = p6.library
  BY <1>4, <1>5, <1>6, <1>7, <1>8, <1>10, <1>11 DEF Others
<1>14. PICK m0 \in Nat, s0 \in Nat, h0 \in Nat, e0 \in Nat, t0 \in Nat, l0 \in Nat, u0 \in Nat :
        /\ m0 = Len(p.memories) /\ s0 = Len(p.session) /\ h0 = Len(p.history) /\ e0 = Len(p3.egos)
        /\ t0 = Len(p4.tools) /\ l0 = JsonChars(p5.library) /\ u0 = p6.user
  BY PackIs
<1>15. PICK u1, m1, s1, h1, e1, t1, l1 : Counts(p7, u1, m1, s1, h1, e1, t1, l1)
  BY PackCounts
<1>16. /\ m1 = Len(p1.memories) /\ s1 = Len(p2.session) /\ h1 = Len(p3.history)
       /\ e1 = Len(p4.egos) /\ t1 = Len(p5.tools) /\ l1 = JsonChars(p6.library) /\ u1 = p7.user
       /\ PackChars(p7) = 2 + u1 + m1 + s1 + h1 + e1 + t1 + l1
  BY <1>13, <1>15 DEF Counts
<1>17. PICK f \in Nat : f = 3 * Fewest(first)
  <2>1. Fewest(first) \in Nat
    BY <1>0, <1>1, <1>3, FittedLeaves
  <2> QED
    BY <2>1
<1>18. PICK sf \in Nat, hf \in Nat : sf = Lesser(1, s0) /\ hf = Lesser(1, h0)
  <2>1. Lesser(1, s0) \in Nat /\ Lesser(1, h0) \in Nat
    BY DEF Lesser
  <2> QED
    BY <2>1
<1>19. PackChars(p) \in Nat
  BY PackIs
<1>20. /\ PackChars(p7) <= b.total <=> 2 + sf + hf + f <= b.total
       /\ h1 < h0 => m1 = 0 /\ s1 = sf
  <2>1. /\ Sheds(PackChars(p), PackChars(p1), m0, m1, 0, b.total)
        /\ Sheds(PackChars(p1), PackChars(p2), s0, s1, sf, b.total)
        /\ Sheds(PackChars(p2), PackChars(p3), h0, h1, hf, b.total)
        /\ Sheds(PackChars(p3), PackChars(p4), e0, e1, 0, b.total)
        /\ Sheds(PackChars(p4), PackChars(p5), t0, t1, 0, b.total)
        /\ Sheds(PackChars(p5), PackChars(p6), l0, l1, f, b.total)
        /\ Sheds(PackChars(p6), PackChars(p7), u0, u1, 0, b.total)
    BY <1>4, <1>5, <1>6, <1>7, <1>8, <1>10, <1>11, <1>13, <1>14, <1>16, <1>17, <1>18
  <2>5. PICK T \in Nat, P0 \in Nat : T = b.total /\ P0 = PackChars(p)
    BY <1>0, <1>19
  <2>2. PICK P1, P2, P3, P4, P5, P6, P7 :
          /\ P1 = PackChars(p1) /\ P2 = PackChars(p2)
          /\ P3 = PackChars(p3) /\ P4 = PackChars(p4) /\ P5 = PackChars(p5)
          /\ P6 = PackChars(p6) /\ P7 = PackChars(p7)
    OBVIOUS
  <2>3. /\ Sheds(P0, P1, m0, m1, 0, T) /\ Sheds(P1, P2, s0, s1, sf, T)
        /\ Sheds(P2, P3, h0, h1, hf, T) /\ Sheds(P3, P4, e0, e1, 0, T)
        /\ Sheds(P4, P5, t0, t1, 0, T) /\ Sheds(P5, P6, l0, l1, f, T)
        /\ Sheds(P6, P7, u0, u1, 0, T) /\ P7 = 2 + u1 + m1 + s1 + h1 + e1 + t1 + l1
    BY <1>16, <2>1, <2>2, <2>5
  <2>4. (P7 <= T <=> 2 + sf + hf + f <= T) /\ (h1 < h0 => m1 = 0 /\ s1 = sf)
    BY <2>3, ShedAll
  <2> QED
    BY <2>2, <2>4, <2>5
<1>21. Irreducible(given) = 2 + sf + hf + f
  <2>1. Cardinality({i \in DOMAIN given.library : IsGuardrail(given.library[i])})
          = Cardinality(Warning(first))
    <3>1. DOMAIN first = 1 .. Len(first)
      BY SeqArrow DEF Library
    <3> QED
      BY <1>1, <3>1 DEF Warning, IsGuardrail
  <2>2. Irreducible(given) = 2 + Lesser(1, S0) + Lesser(1, H0) + 3 * Fewest(first)
    BY <1>1, <1>2, <2>1 DEF Irreducible, Envelope, Fewest
  <2>3. Lesser(1, S0) = sf /\ Lesser(1, H0) = hf
    BY <1>0, <1>2, <1>3, <1>14, <1>18 DEF Lesser
  <2> QED
    BY <1>17, <2>2, <2>3
<1>22. given.history # <<>> => p7.history # <<>> /\ Last(p7.history) = Last(given.history)
  BY <1>3, <1>6, <1>13
<1>23. given.session # <<>> => p7.session # <<>> /\ Last(p7.session) = Last(given.session)
  BY <1>3, <1>5, <1>13
<1>24. ASSUME Len(p7.history) < Lesser(Len(given.history), b.items)
       PROVE  p7.memories = <<>> /\ Len(p7.session) <= 1
  <2>1. h1 < h0
    BY <1>0, <1>2, <1>3, <1>13, <1>14, <1>16, <1>24 DEF Lesser
  <2>2. Len(p7.memories) = 0 /\ Len(p7.session) = sf
    BY <1>13, <1>16, <1>20, <2>1
  <2>3. p7.memories \in Seq(S)
    BY DEF Pack
  <2>4. sf <= 1
    BY <1>18 DEF Lesser
  <2> QED
    BY <2>2, <2>3, <2>4
<1>25. PICK result : result = Compile(given, b) /\ result.pack = p7
                      /\ (result.ok <=> PackChars(p7) <= b.total)
  <2>1. PICK ok \in BOOLEAN : ok <=> PackChars(p7) <= b.total
    OBVIOUS
  <2>2. Compile(given, b) = [ok |-> ok, pack |-> p7]
    BY <1>12, <2>1
  <2> QED
    BY <2>1, <2>2
<1>26. result.ok <=> Irreducible(given) <= b.total
  BY <1>20, <1>21, <1>25
<1> QED
  BY <1>22, <1>23, <1>24, <1>25, <1>26 DEF PackFits

\* The shelves the runs use hold what was found, at most three items of it.
LEMMA ShelvesAre ==
  Shelves \subseteq {Roles(found) : found \in {s \in Seq(FoundItem({"apply", "avoid"})) : Len(s) <= 3}}
<1>1. PICK X : X = FoundItem({"apply", "avoid"})
  OBVIOUS
<1>2. \A f \in {"apply", "avoid"}, k \in {1, 3} :
        /\ [fit |-> f, parts |-> {"pitfalls"}, knowledge |-> k] \in X
        /\ [fit |-> f, parts |-> {"use_when"}, knowledge |-> k] \in X
        /\ [fit |-> f, parts |-> {}, knowledge |-> k] \in X
  BY <1>1 DEF FoundItem, PartNames
<1>3. \A x \in X : <<x>> \in Seq(X) /\ Len(<<x>>) <= 3
  OBVIOUS
<1>4. \A x, y, z \in X : <<x, y, z>> \in Seq(X) /\ Len(<<x, y, z>>) <= 3
  OBVIOUS
<1>5. ASSUME NEW found \in Lone PROVE found \in Seq(X) /\ Len(found) <= 3
  <2>1. PICK f \in {"apply", "avoid"}, k \in {1, 3} :
          found = <<[fit |-> f, parts |-> {"pitfalls"}, knowledge |-> k]>>
    BY DEF Lone
  <2>2. PICK x \in X : x = [fit |-> f, parts |-> {"pitfalls"}, knowledge |-> k]
    BY <1>2
  <2> QED
    BY <1>3, <2>1, <2>2
<1>6. ASSUME NEW found \in Mixed PROVE found \in Seq(X) /\ Len(found) <= 3
  <2>1. PICK f \in {"apply", "avoid"}, g \in {"apply", "avoid"} :
          found = <<[fit |-> f, parts |-> {"use_when"}, knowledge |-> 1],
                    [fit |-> "avoid", parts |-> {}, knowledge |-> 3],
                    [fit |-> g, parts |-> {}, knowledge |-> 1]>>
    BY DEF Mixed
  <2>2. PICK x \in X : x = [fit |-> f, parts |-> {"use_when"}, knowledge |-> 1]
    BY <1>2
  <2>3. PICK y \in X : y = [fit |-> "avoid", parts |-> {}, knowledge |-> 3]
    BY <1>2
  <2>4. PICK z \in X : z = [fit |-> g, parts |-> {}, knowledge |-> 1]
    BY <1>2
  <2> QED
    BY <1>4, <2>1, <2>2, <2>3, <2>4
<1>7. <<>> \in Seq(X) /\ Len(<<>>) <= 3
  OBVIOUS
<1>8. {<<>>} \cup Lone \cup Mixed \subseteq {s \in Seq(X) : Len(s) <= 3}
  BY <1>5, <1>6, <1>7
<1> QED
  BY <1>1, <1>8 DEF Shelves

\* Numbered lists are sequences of numbers.
LEMMA ListsAre ==
  ASSUME NEW N \in SUBSET Nat
  PROVE  Lists(N) \subseteq Seq(Nat)
<1>1. ASSUME NEW n \in N PROVE [i \in 1 .. n |-> i] \in Seq(Nat)
  <2>1. [i \in 1 .. n |-> i] \in [1 .. n -> Nat] /\ n \in Nat
    OBVIOUS
  <2> QED
    BY <2>1, ArrowSeq
<1> QED
  BY <1>1 DEF Lists

\* Every pack the runs enumerate fits.
LEMMA PacksAllFit == PacksFit
<1> DEFINE F == {"apply", "avoid"}
<1>1. ASSUME NEW b \in Budgets PROVE b \in Limits /\ b.libraryItems = 3
  BY DEF Budgets, Limits
<1>2. ASSUME NEW given \in Givens PROVE given \in GivenFor(Nat, F, 3)
  <2>1. /\ Lists(0 .. 2) \subseteq Seq(Nat) /\ Lists({0, 2, 3}) \subseteq Seq(Nat)
        /\ Lists(0 .. 1) \subseteq Seq(Nat)
    <3>1. 0 .. 2 \in SUBSET Nat /\ {0, 2, 3} \in SUBSET Nat /\ 0 .. 1 \in SUBSET Nat
      OBVIOUS
    <3> QED
      BY <3>1, ListsAre
  <2>2. Shelves \subseteq {Roles(found) : found \in {r \in Seq(FoundItem(F)) : Len(r) <= 3}}
    BY ShelvesAre
  <2> QED
    BY <2>1, <2>2 DEF Givens, GivenFor
<1>3. ASSUME NEW given \in Givens, NEW b \in Budgets PROVE PackFits(given, b)
  <2>1. b \in Limits /\ given \in GivenFor(Nat, F, b.libraryItems)
    BY <1>1, <1>2
  <2> QED
    BY <2>1, EveryPackFits
<1> QED
  BY <1>3 DEF PacksFit

\* What an engine is asked with fits its budget, and gives up old and minor things
\* first (ContextFits).
THEOREM ContextAlwaysFits == RunSpec => []ContextFits
<1>1. ContextFits
  BY PacksAllFit DEF ContextFits
<1> QED
  BY <1>1, PTL
=============================================================================
