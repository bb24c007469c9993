------------------------------- MODULE Restore -------------------------------
(***************************************************************************)
(* Identity continuity: a bundle is built from a runtime                    *)
(* (identity/bundle.py, identity/snapshot.py) and restored into it, or into *)
(* another one, later (identity/restore.py), while requests in other        *)
(* threads go on writing.                                                  *)
(*                                                                         *)
(* The runtime refers to stores, and a restore makes it refer to others.    *)
(* What a store holds is numbered by the write that made it so, and two     *)
(* digests are equal if the numbers are.  Each read of a store and each     *)
(* assignment to the runtime is a step.                                    *)
(***************************************************************************)
EXTENDS Naturals, Sequences

CONSTANTS
  MaxWrites,   \* bound: of writes
  MaxRestores, \* bound: of restores, each of which makes stores of its own
  Versioned    \* contents of the E.G.O registry with manifests of schema 2

ASSUME ConstantsAssumption ==
  /\ MaxWrites \in Nat \ {0} /\ MaxRestores \in Nat
  /\ Versioned \subseteq Nat

\* The kinds of stores; the identity changes only by restore.
Parts == {"identity", "state", "memory", "egos", "library"}

Written == {"state", "memory", "egos", "library"}

\* What the runtime holds: one store of each kind, and two objects that refer to
\* a store themselves.
Refs == Parts \cup {"retriever", "pipeline"}

\* The orders in which the code goes through them.
SnapshotOrder == <<"memory", "egos", "library", "state">>
ArchiveOrder == <<"memory", "library", "egos">>
SwapOrder == <<"identity", "state", "memory", "egos", "library", "retriever", "pipeline">>

Absent == 0 \* of a runtime without library
Empty == 1

Contents == 0 .. MaxWrites + 1

VARIABLES
  runtime, \* the store each reference leads to
  store,   \* what the stores hold
  bundle,  \* the last continuity bundle
  op,      \* what the operator's thread is doing
  writer,  \* the write of a request under way
  writes,  \* the number of writes
  before,  \* history: the runtime when the restore began
  instant  \* history: what the runtime held at one moment of the operation

vars == <<runtime, store, bundle, op, writer, writes, before, instant>>

Stores == 0 .. MaxRestores

NoBundle == [held |-> [part \in Parts |-> Absent], whole |-> FALSE, migrated |-> FALSE]

\* The step, the position in its order, the number of the restore, the parts it
\* replaces, the runtime it prepares and the one it goes back to.
NoOp(outcome, restores) ==
  [step |-> "idle", at |-> 1, outcome |-> outcome, restores |-> restores,
   needs |-> {}, staged |-> [ref \in Refs |-> 0], old |-> [ref \in Refs |-> 0]]

NoWrite == [part |-> "none", target |-> 0]

Fresh(library, identity) ==
  [part \in Parts |-> [id \in Stores |->
    CASE part = "library" -> IF id = 0 THEN library ELSE Absent
      [] part = "identity" -> identity
      [] OTHER -> Empty]]

Init ==
  /\ runtime = [ref \in Refs |-> 0]
  /\ \E library \in {Absent, Empty} : store = Fresh(library, Empty)
  /\ bundle = NoBundle
  /\ op = NoOp("none", 0)
  /\ writer = NoWrite /\ writes = 0
  /\ before = runtime /\ instant = [part \in Parts |-> Absent]

-----------------------------------------------------------------------------
Held(part) == store[part][runtime[part]]

Now == [part \in Parts |-> Held(part)]

At(step) == op.step = step

Goto(step) == op' = [op EXCEPT !.step = step, !.at = 1]

\* The next position, or the next step at the end of the order.
Go(order, step) == IF op.at = Len(order) THEN Goto(step) ELSE op' = [op EXCEPT !.at = @ + 1]

End(outcome) == op' = NoOp(outcome, op.restores)

-----------------------------------------------------------------------------
(* Requests *)

\* A request takes the store it will write to: memory through the pipeline.
BeginWrite(part) ==
  /\ writer = NoWrite /\ writes < MaxWrites /\ Held(part) # Absent
  /\ writer' = [part |-> part,
                target |-> IF part = "memory" THEN runtime.pipeline ELSE runtime[part]]
  /\ UNCHANGED <<runtime, store, bundle, op, writes, before, instant>>

Write ==
  /\ writer # NoWrite
  /\ store' = [store EXCEPT ![writer.part][writer.target] = writes + 2]
  /\ writes' = writes + 1 /\ writer' = NoWrite
  /\ UNCHANGED <<runtime, bundle, op, before, instant>>

-----------------------------------------------------------------------------
(* build_continuity_bundle *)

Build ==
  /\ At("idle") /\ op' = [NoOp("none", op.restores) EXCEPT !.step = "snapshot"]
  /\ \E migrated \in BOOLEAN : bundle' = [NoBundle EXCEPT !.migrated = migrated]
  /\ UNCHANGED <<runtime, store, writer, writes, before, instant>>

\* build_identity_snapshot; the state and the identity are read last.
TakeSnapshot ==
  /\ At("snapshot")
  /\ LET part == SnapshotOrder[op.at] IN
     /\ bundle' = [bundle EXCEPT !.held[part] = Held(part),
                                 !.held.identity = Held("identity")]
     /\ instant' = IF part = "state" THEN Now ELSE instant
  /\ Go(SnapshotOrder, "archive")
  /\ UNCHANGED <<runtime, store, writer, writes, before>>

\* Mutant: the library is not read a second time.
FitsButLibrary(part) == part = "library" \/ Held(part) = bundle.held[part]

\* validate_continuity_bundle: what is archived is what the snapshot refers to.
Fits(part) == Held(part) = bundle.held[part]

\* The stores are read a second time for the archives.
TakeArchive ==
  /\ At("archive")
  /\ LET part == ArchiveOrder[op.at]
         last == op.at = Len(ArchiveOrder)
     IN  IF Fits(part)
         THEN /\ bundle' = [bundle EXCEPT !.whole = last]
              /\ IF last THEN End("built") ELSE Go(ArchiveOrder, "idle")
         ELSE bundle' = NoBundle /\ End("none")
  /\ UNCHANGED <<runtime, store, writer, writes, before, instant>>

\* The digest of the registry covers what schema 2 adds to a manifest ...
CoversMore(egos) == egos \in Versioned

\* ... which the bundle's payload leaves out, so that it is refused when it is
\* loaded.
Loaded == IF CoversMore(bundle.held.egos) THEN NoBundle ELSE bundle

\* The bundle is written and loaded by another process with another runtime.
Reload ==
  /\ At("idle") /\ bundle.whole
  /\ bundle' = Loaded
  /\ runtime' = [ref \in Refs |-> 0] /\ before' = runtime'
  /\ \E library \in {Absent, Empty}, identity \in {Empty, Empty + 1} :
       store' = Fresh(library, identity)
  /\ writer' = NoWrite /\ op' = NoOp("none", 0)
  /\ UNCHANGED <<writes, instant>>

-----------------------------------------------------------------------------
(* plan_restore and apply_restore *)

\* The target engine is not registered, or the agent is another one.
IsBlocked ==
  /\ At("idle") /\ bundle.whole
  /\ End("blocked") /\ before' = runtime
  /\ UNCHANGED <<runtime, store, bundle, writer, writes, instant>>

Plan ==
  /\ At("idle") /\ bundle.whole /\ op.restores < MaxRestores
  /\ op' = [NoOp("none", op.restores + 1) EXCEPT !.step = "plan"]
  /\ before' = runtime
  /\ UNCHANGED <<runtime, store, bundle, writer, writes, instant>>

\* A snapshot without library leaves the runtime's alone.
Differs(part) ==
  Held(part) # bundle.held[part] /\ ~(part = "library" /\ bundle.held.library = Absent)

ComparePart ==
  /\ At("plan")
  /\ LET part == SnapshotOrder[op.at]
         needs == op.needs \cup {p \in {part} : Differs(p)}
     IN  IF op.at = Len(SnapshotOrder)
         THEN op' = [op EXCEPT !.step = "stage", !.at = 1, !.needs = needs,
                               !.staged = [ref \in Refs |-> op.restores]]
         ELSE op' = [op EXCEPT !.at = @ + 1, !.needs = needs]
  /\ UNCHANGED <<runtime, store, bundle, writer, writes, before, instant>>

\* Identity and state are made anew, the others only if they are needed: from an
\* archive, in an empty store the caller provides, and with the right digest.
StageOrder == <<"identity", "state", "memory", "egos", "library">>

Stage ==
  /\ At("stage")
  /\ LET part == StageOrder[op.at]
         isNeeded == part \in op.needs \cup {"identity", "state"}
         next == IF op.at = Len(StageOrder) THEN [op EXCEPT !.step = "swap", !.at = 1]
                 ELSE [op EXCEPT !.at = @ + 1]
     IN  IF isNeeded
         THEN /\ store' = [store EXCEPT ![part][op.restores] = bundle.held[part]]
              /\ op' = next
         ELSE /\ op' = [next EXCEPT !.staged[part] = runtime[part]]
              /\ UNCHANGED store
  /\ UNCHANGED <<runtime, bundle, writer, writes, before, instant>>

\* An artifact is missing, does not fit, or the store is not empty.
IsRefused ==
  /\ At("stage") /\ StageOrder[op.at] \in op.needs \ {"state"}
  /\ End("failed")
  /\ UNCHANGED <<runtime, store, bundle, writer, writes, before, instant>>

\* What a reference is set to; library and retriever only if they are replaced.
SwappedRef(ref) ==
  CASE ref = "pipeline" -> op.staged.memory
    [] ref \in {"library", "retriever"} ->
         IF "library" \in op.needs THEN op.staged.library ELSE runtime[ref]
    [] OTHER -> op.staged[ref]

Swap ==
  /\ At("swap")
  /\ LET ref == SwapOrder[op.at]
         old == IF op.at = 1 THEN runtime ELSE op.old
     IN  /\ runtime' = [runtime EXCEPT ![ref] = SwappedRef(ref)]
         /\ op' = IF op.at = Len(SwapOrder)
                  THEN [op EXCEPT !.step = "validate", !.at = 1]
                  ELSE [op EXCEPT !.at = @ + 1, !.old = old]
  /\ UNCHANGED <<store, bundle, writer, writes, before, instant>>

\* Mutant: what the plan found to be right is not looked at again.
IsWrongIfReplaced(part) == part \in op.needs /\ Differs(part)

IsWrong(part) == Differs(part)

\* validate_snapshot_against_runtime
Validate ==
  /\ At("validate")
  /\ LET part == SnapshotOrder[op.at] IN
     /\ IF IsWrong(part) THEN Goto("undo") ELSE Go(SnapshotOrder, "fingerprint")
     /\ instant' = IF part = "memory" THEN Now ELSE instant
  /\ UNCHANGED <<runtime, store, bundle, writer, writes, before>>

FingerprintOrder == <<"memory", "egos", "state", "identity">>

\* continuity_fingerprint of the snapshot and of the runtime as it is now, which
\* records no migrations.
Fingerprint ==
  /\ At("fingerprint")
  /\ LET part == FingerprintOrder[op.at]
         last == op.at = Len(FingerprintOrder)
     IN  IF IsWrong(part) \/ (last /\ bundle.migrated) THEN Goto("undo")
         ELSE IF last THEN End("applied") ELSE Go(FingerprintOrder, "idle")
  /\ UNCHANGED <<runtime, store, bundle, writer, writes, before, instant>>

\* Mutant: the pipeline is left where it is.
OldRefButPipeline(ref) == IF ref = "pipeline" THEN runtime[ref] ELSE op.old[ref]

OldRef(ref) == op.old[ref]

Undo ==
  /\ At("undo")
  /\ LET ref == SwapOrder[op.at] IN runtime' = [runtime EXCEPT ![ref] = OldRef(ref)]
  /\ IF op.at = Len(SwapOrder) THEN End("failed") ELSE Go(SwapOrder, "idle")
  /\ UNCHANGED <<store, bundle, writer, writes, before, instant>>

-----------------------------------------------------------------------------
Operator ==
  \/ Build \/ TakeSnapshot \/ TakeArchive \/ Reload
  \/ IsBlocked \/ Plan \/ ComparePart \/ Stage \/ IsRefused
  \/ Swap \/ Validate \/ Fingerprint \/ Undo

Next == Write \/ Operator \/ \E part \in Written : BeginWrite(part)

Spec == Init /\ [][Next]_vars

-----------------------------------------------------------------------------
Steps == {"idle", "snapshot", "archive", "plan", "stage", "swap", "validate",
          "fingerprint", "undo"}

TypeOK ==
  /\ runtime \in [Refs -> Stores]
  /\ store \in [Parts -> [Stores -> Contents]]
  /\ bundle \in [held : [Parts -> Contents], whole : BOOLEAN, migrated : BOOLEAN]
  /\ op \in [step : Steps, at : 1..7, restores : 0..MaxRestores, needs : SUBSET Parts,
             outcome : {"none", "built", "blocked", "failed", "applied"},
             staged : [Refs -> Stores], old : [Refs -> Stores]]
  /\ writer \in [part : Written \cup {"none"}, target : Stores]
  /\ writes \in 0..MaxWrites
  /\ before \in [Refs -> Stores] /\ instant \in [Parts -> Contents]

\* A bundle is one moment of the runtime, not a mixture of moments: though its parts
\* are read one after the other while requests write, reading them again for the
\* archives shows that none of them changed between.
BundleIsACut == At("idle") /\ op.outcome = "built" => bundle.held = instant

\* A restore that reports success was whole: there was a moment after the swap at
\* which every part was as in the bundle, and memory and pipeline were one.
AppliedIsWhole ==
  op.outcome = "applied" =>
    \A part \in Parts : \/ part = "library" /\ bundle.held.library = Absent
                        \/ instant[part] = bundle.held[part]

\* A restore that fails, wherever it does, leaves the runtime with the stores it
\* had, each one of them, among them those only the pipeline or the retriever
\* refer to.
FailureChangesNothing ==
  At("idle") /\ op.outcome \in {"failed", "blocked"} => runtime = before

\* While references are not being set the pipeline writes the memory the runtime
\* reads, and the retriever reads the library promotion writes.
RefsAgree ==
  ~At("swap") /\ ~At("undo") => /\ runtime.pipeline = runtime.memory
                                /\ runtime.retriever = runtime.library
=============================================================================
