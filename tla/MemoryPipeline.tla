--------------------------- MODULE MemoryPipeline ---------------------------
(***************************************************************************)
(* Durable memory: MemoryWritePipeline (memory/pipeline.py) with its        *)
(* governor, the authoritative store (memory/sqlite.py), the quarantine     *)
(* and one read-side projection kept by ProjectedMemoryPort                 *)
(* (memory/projected.py).                                                   *)
(*                                                                         *)
(* Each call of a store or of the projection is atomic and is one step; the *)
(* pipeline holds no lock across them, so several callers interleave, time  *)
(* passes and the process may die between any two.  A memory id is the      *)
(* position of its row, a quarantine id that of its item.                   *)
(***************************************************************************)
EXTENDS Naturals, Sequences, FiniteSets

CONSTANTS
  Writers,     \* callers of the pipeline
  Contents,    \* normalized contents
  MaxRecords,  \* bound: rows, counting the ones callers are about to add
  MaxItems,    \* bound: quarantined proposals, counted the same way
  MaxTime,     \* bound: the clock
  NoProposal,  \* what a caller holds before it has ...
  NoRecord     \* ... a proposal, a record

ASSUME ConstantsAssumption ==
  MaxRecords \in Nat /\ MaxItems \in Nat /\ MaxTime \in Nat \ {0}

None == 0            \* no id, no valid_from
Never == MaxTime + 1 \* no valid_until

\* What passed the static checks (kind, confidence, evidence) of the governor.
Proposal ==
  [content: Contents, trusted: BOOLEAN, from: Nat, until: Nat, supersedes: Nat]

Record ==
  [content: Contents, state: {"committed", "invalidated", "superseded"},
   invalidated: BOOLEAN, created: Nat, from: Nat, until: Nat,
   supersedes: Nat, by: Nat, origin: Nat]

\* state keeps what became of an item after its row was deleted.
Item == [proposal: Proposal \cup {NoProposal},
         state: {"held", "released", "discarded"}]

Steps == {"idle", "check", "dedupe", "commit", "index", "supersede", "put",
          "remove", "reindex"}

VARIABLES
  records,     \* memories
  quarantine,  \* memory_quarantine
  index,       \* the ids the projection holds
  clock,
  call,        \* what a caller is doing
  mishap       \* history: did calls overlap, or else did the process die?

stores == <<records, quarantine, index, clock>>
vars == <<stores, call, mishap>>

\* The proposal a caller submits or releases, the quarantined item it releases,
\* the row it wrote last and what the store returned for it.
Call ==
  [step: Steps, proposal: Proposal \cup {NoProposal}, item: Nat, row: Nat,
   snapshot: Record \cup {NoRecord}]

NoCall == [step |-> "idle", proposal |-> NoProposal, item |-> None, row |-> None,
           snapshot |-> NoRecord]

Init ==
  /\ records = <<>> /\ quarantine = <<>> /\ index = {}
  /\ clock = 1
  /\ call = [w \in Writers |-> NoCall]
  /\ mishap = "none"

-----------------------------------------------------------------------------
At(w, step) == call[w].step = step

\* The caller goes on with c; a call that is over leaves nothing behind.
Goto(w, c) == call' = [call EXCEPT ![w] = IF c.step = "idle" THEN NoCall ELSE c]

GotoStep(w, step) == Goto(w, [call[w] EXCEPT !.step = step])

\* MemoryRecord.is_active
ActiveAt(r, time) == ~r.invalidated /\ r.from <= time /\ time < r.until

Active(m) == ActiveAt(records[m], clock)

InFlight == Cardinality({w \in Writers : ~At(w, "idle")})

\* A call begins.
Enter(w, c) ==
  /\ At(w, "idle")
  /\ Goto(w, c)
  /\ mishap' = IF \E d \in Writers : ~At(d, "idle") THEN "overlap" ELSE mishap

\* quarantine.remove; a row that is gone stays gone.
Gone(q, fate) ==
  IF quarantine[q].state = "held"
  THEN quarantine' = [quarantine EXCEPT ![q] = [proposal |-> NoProposal, state |-> fate]]
  ELSE UNCHANGED quarantine

-----------------------------------------------------------------------------
(* MemoryWritePipeline.submit and release *)

\* The governor's first verdict: an untrusted proposal goes to quarantine.
FirstCheck(p) ==
  CASE ~p.trusted -> "put"
    [] p.trusted /\ p.supersedes = None -> "dedupe"
    [] p.trusted /\ p.supersedes # None -> "check"

\* From now on or later, for ever or not.
Windows == {<<None, Never>>, <<None, clock + 1>>, <<clock + 1, Never>>}

Submit(w) ==
  /\ Len(records) + InFlight < MaxRecords
  /\ \E c \in Contents, t \in BOOLEAN, v \in Windows,
        m \in {None} \cup DOMAIN records :
       LET p == [content |-> c, trusted |-> t, from |-> v[1], until |-> v[2],
                 supersedes |-> m]
       IN
       /\ p.trusted \/ Len(quarantine) + InFlight < MaxItems
       /\ Enter(w, [NoCall EXCEPT !.step = FirstCheck(p), !.proposal = p])
  /\ UNCHANGED stores

\* quarantine.get, and the reviewed proposal, trusted from now on.
Release(w) ==
  /\ Len(records) + InFlight < MaxRecords
  /\ \E q \in DOMAIN quarantine :
       LET p == [quarantine[q].proposal EXCEPT !.trusted = TRUE]
       IN /\ quarantine[q].state = "held"
          /\ Enter(w, [NoCall EXCEPT !.step = FirstCheck(p), !.proposal = p,
                                     !.item = q])
  /\ UNCHANGED stores

\* The record to supersede must be active.
CheckSuperseded(w) ==
  /\ At(w, "check")
  /\ GotoStep(w, IF Active(call[w].proposal.supersedes) THEN "dedupe" ELSE "idle")
  /\ UNCHANGED <<stores, mishap>>

\* Mutant: the content is compared with that of the record to supersede only.
DuplicateOfSuperseded(p) ==
  p.supersedes # None /\ records[p.supersedes].content = p.content

\* Another active record has the content.
Duplicate(p) ==
  \E m \in DOMAIN records :
    Active(m) /\ m # p.supersedes /\ records[m].content = p.content

Dedupe(w) ==
  /\ At(w, "dedupe")
  /\ GotoStep(w, IF Duplicate(call[w].proposal) THEN "idle" ELSE "commit")
  /\ UNCHANGED <<stores, mishap>>

\* MemoryProposal.to_record
ToRecord(p, q) ==
  [content |-> p.content, state |-> "committed", invalidated |-> FALSE,
   created |-> clock, from |-> IF p.from = None THEN clock ELSE p.from,
   until |-> p.until, supersedes |-> p.supersedes, by |-> None, origin |-> q]

\* A record that would end before it begins is refused with a ValueError: the
\* proposal expired in quarantine.
Commit(w) ==
  LET r == ToRecord(call[w].proposal, call[w].item)
  IN /\ At(w, "commit")
     /\ IF r.until < r.from
        THEN GotoStep(w, "idle") /\ UNCHANGED records
        ELSE /\ records' = Append(records, r)
             /\ Goto(w, [call[w] EXCEPT !.step = "index", !.row = Len(records) + 1,
                                        !.snapshot = r])
     /\ UNCHANGED <<quarantine, index, clock, mishap>>

\* projection.upsert
Upsert(m, r) ==
  index' = IF ActiveAt(r, clock) THEN index \cup {m} ELSE index \ {m}

\* Mutant: submit does not retire the record its proposal supersedes.
AfterIndexAlike(c) == IF c.item # None THEN "remove" ELSE "idle"

\* release does not supersede; submit has no item to remove.
AfterIndex(c) ==
  CASE c.item # None -> "remove"
    [] c.item = None /\ c.proposal.supersedes # None -> "supersede"
    [] OTHER -> "idle"

Index(w) ==
  /\ At(w, "index")
  /\ Upsert(call[w].row, call[w].snapshot)
  /\ GotoStep(w, AfterIndex(call[w]))
  /\ UNCHANGED <<records, quarantine, clock, mishap>>

Superseded(r, m) ==
  [r EXCEPT !.invalidated = TRUE, !.state = "superseded", !.until = clock,
            !.by = m]

\* memory.supersede, whatever became of the record since it was checked.
Supersede(w) ==
  LET m == call[w].proposal.supersedes
      r == Superseded(records[m], call[w].row)
  IN /\ At(w, "supersede")
     /\ records' = [records EXCEPT ![m] = r]
     /\ Goto(w, [call[w] EXCEPT !.step = "reindex", !.row = m, !.snapshot = r])
     /\ UNCHANGED <<quarantine, index, clock, mishap>>

\* Mutant: the projection is only told what to drop.
ReindexDropped(w) ==
  /\ At(w, "reindex")
  /\ index' = IF ActiveAt(call[w].snapshot, clock) THEN index
                                                   ELSE index \ {call[w].row}
  /\ GotoStep(w, "idle")
  /\ UNCHANGED <<records, quarantine, clock, mishap>>

Reindex(w) ==
  /\ At(w, "reindex")
  /\ Upsert(call[w].row, call[w].snapshot)
  /\ GotoStep(w, "idle")
  /\ UNCHANGED <<records, quarantine, clock, mishap>>

Put(w) ==
  /\ At(w, "put")
  /\ quarantine' = Append(quarantine, [proposal |-> call[w].proposal, state |-> "held"])
  /\ GotoStep(w, "idle")
  /\ UNCHANGED <<records, index, clock, mishap>>

Remove(w) ==
  /\ At(w, "remove")
  /\ Gone(call[w].item, "released")
  /\ GotoStep(w, "idle")
  /\ UNCHANGED <<records, index, clock, mishap>>

-----------------------------------------------------------------------------
(* revoke, revalidate and discard *)

Revoked(r) == [r EXCEPT !.invalidated = TRUE, !.state = "invalidated"]

Revalidated(r) == [r EXCEPT !.invalidated = FALSE, !.state = "committed"]

\* _set_invalidated writes r for the row m, and the projection is told.
Rewrite(w, m, r) ==
  /\ records' = [records EXCEPT ![m] = r]
  /\ Enter(w, [NoCall EXCEPT !.step = "reindex", !.row = m, !.snapshot = r])
  /\ UNCHANGED <<quarantine, index, clock>>

\* A row that is already so is not written, but is indexed again.
Revoke(w) ==
  \E m \in DOMAIN records :
    Rewrite(w, m, IF records[m].invalidated THEN records[m] ELSE Revoked(records[m]))

Revalidate(w) ==
  \E m \in DOMAIN records :
    Rewrite(w, m, IF records[m].invalidated THEN Revalidated(records[m])
                                            ELSE records[m])

Discard(w) ==
  /\ Enter(w, NoCall)
  /\ \E q \in DOMAIN quarantine :
       quarantine[q].state = "held" /\ Gone(q, "discarded")
  /\ UNCHANGED <<records, index, clock>>

-----------------------------------------------------------------------------
Tick ==
  /\ clock < MaxTime
  /\ clock' = clock + 1
  /\ UNCHANGED <<records, quarantine, index, call, mishap>>

\* The process dies with all its callers; the next one rebuilds the projection
\* before it serves anybody.
Crash ==
  /\ call' = [w \in Writers |-> NoCall]
  /\ index' = {m \in DOMAIN records : Active(m)}
  /\ mishap' = IF mishap = "none" THEN "crash" ELSE mishap
  /\ UNCHANGED <<records, quarantine, clock>>

Step(w) ==
  \/ CheckSuperseded(w) \/ Dedupe(w) \/ Commit(w) \/ Index(w) \/ Supersede(w)
  \/ Reindex(w) \/ Put(w) \/ Remove(w)

Next ==
  \/ \E w \in Writers :
       \/ Submit(w) \/ Release(w) \/ Revoke(w) \/ Revalidate(w) \/ Discard(w)
       \/ Step(w)
  \/ Tick
  \/ Crash

Spec == Init /\ [][Next]_vars

-----------------------------------------------------------------------------
(* Properties *)

\* Every variable keeps its type.
TypeOK ==
  /\ records \in Seq(Record)
  /\ quarantine \in Seq(Item)
  /\ index \subseteq DOMAIN records
  /\ clock \in 1..MaxTime
  /\ call \in [Writers -> Call]
  /\ \A w \in Writers : call[w].row \in {None} \cup DOMAIN records
  /\ mishap \in {"none", "crash", "overlap"}

\* What audit_memory reports as errors never comes about, however calls overlap
\* and wherever the process dies: no link dangles, and a superseded record is
\* invalid, has an end and names its successor.
AuditClean ==
  \A m \in DOMAIN records :
    LET r == records[m]
    IN /\ {r.supersedes, r.by} \subseteq {None} \cup DOMAIN records
       /\ r.state = "superseded" => r.invalidated /\ r.until # Never /\ r.by # None

\* A record that has a successor is never active again, although it can be
\* revalidated.
RetiredStaysRetired ==
  \A m \in DOMAIN records : records[m].by # None => ~Active(m)

\* Nothing reviewed is lost: a proposal leaves quarantine by being discarded or
\* after its record was committed.
NothingIsLost ==
  \A q \in DOMAIN quarantine :
    quarantine[q].state = "released"
      => \E m \in DOMAIN records : records[m].origin = q

Smooth == mishap # "overlap"

Postdated(r) == r.from > r.created

\* When calls do not overlap a new record repeats no active one, except the one
\* it supersedes and those that were postdated and only became active since.
NewIsNovel ==
  [][Smooth /\ Len(records') > Len(records) =>
       LET r == records'[Len(records')]
       IN \A m \in DOMAIN records :
            Active(m) /\ m # r.supersedes /\ ~Postdated(records[m])
              => records[m].content # r.content]_vars

Quiet == \A w \in Writers : At(w, "idle")

\* When calls do not overlap, what is active can be found between calls,
\* through revocations, restorations and crashes; a record that was postdated
\* when it was committed may be missing.
ActiveIsIndexed ==
  Quiet /\ Smooth =>
    \A m \in DOMAIN records :
      /\ Active(m) /\ ~Postdated(records[m]) => m \in index
      /\ m \in index => ~records[m].invalidated

\* Undisturbed, a submitted record retires the one it supersedes.
SupersedingRetires ==
  Quiet /\ mishap = "none" =>
    \A m \in DOMAIN records :
      LET old == records[m].supersedes
      IN records[m].origin = None /\ old # None => records[old].by # None
=============================================================================
