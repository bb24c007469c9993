------------------------ MODULE MemoryPipelineProofs ------------------------
(***************************************************************************)
(* Proofs about MemoryPipeline, for any callers, contents and bounds, with  *)
(* calls that overlap at will and a process that may die at any step.       *)
(*                                                                         *)
(* No link dangles, a superseded record is complete (AuditAlwaysClean), a   *)
(* record with a successor never comes back (RetiredForGood) and no         *)
(* reviewed proposal is lost (NothingEverLost).  All of them need to know   *)
(* what a caller carries from one store call to the next (CallsSound): it   *)
(* was true of the stores when the caller read it and, because rows are     *)
(* never deleted and origins never change (Grown), it stays true whatever   *)
(* the others do.                                                           *)
(*                                                                         *)
(* While calls do not overlap (LoneInv) the one under way knows its row as  *)
(* it is, and what the projection does not know is what it is about to      *)
(* tell; unless the process dies, what a record supersedes is retired, or   *)
(* its caller is about to retire it (RetiringInv).                          *)
(***************************************************************************)
EXTENDS MemoryPipeline, TLAPS

\* Links lead to rows, and a record with a successor has ended.
Linked(r) ==
  /\ {r.supersedes, r.by} \subseteq {None} \cup DOMAIN records
  /\ r.state = "superseded" => r.invalidated /\ r.by # None
  /\ r.by # None => r.until <= clock

RowsLinked == \A m \in DOMAIN records : Linked(records[m])

\* A proposal that may be written.
Writable(p) == p \in Proposal /\ p.supersedes \in {None} \cup DOMAIN records

HeldWritable ==
  \A q \in DOMAIN quarantine :
    quarantine[q].state = "held" => Writable(quarantine[q].proposal)

\* The item q has become a record.
Written(q) == \E m \in DOMAIN records : records[m].origin = q

\* What a caller holds, by where it is.
Sound(c) ==
  /\ c.step \in {"check", "dedupe", "commit", "index", "supersede", "put"}
       => Writable(c.proposal)
  /\ c.step \in {"check", "supersede"} => c.proposal.supersedes # None
  /\ c.step \in {"index", "supersede", "reindex"}
       => c.row \in DOMAIN records /\ c.snapshot \in Record
  /\ c.row \in {None} \cup DOMAIN records
  /\ c.item \in {None} \cup DOMAIN quarantine
  /\ c.step = "index" /\ c.item # None => Written(c.item)
  /\ c.step = "remove" => c.item # None /\ Written(c.item)

CallsSound == \A w \in Writers : Sound(call[w])

IInv ==
  TypeOK /\ RowsLinked /\ HeldWritable /\ CallsSound /\ NothingIsLost

-----------------------------------------------------------------------------
(* Rows and items are only ever added *)

LEMMA Appended ==
  ASSUME NEW S, NEW s \in Seq(S), NEW e \in S
  PROVE  /\ Append(s, e) \in Seq(S)
         /\ DOMAIN Append(s, e) = DOMAIN s \cup {Len(s) + 1}
         /\ \A i \in DOMAIN s : Append(s, e)[i] = s[i]
         /\ Append(s, e)[Len(s) + 1] = e
         /\ Len(s) + 1 \in Nat \ {0}
  OBVIOUS

LEMMA Replaced ==
  ASSUME NEW S, NEW s \in Seq(S), NEW e \in S, NEW i \in DOMAIN s
  PROVE  /\ [s EXCEPT ![i] = e] \in Seq(S)
         /\ DOMAIN [s EXCEPT ![i] = e] = DOMAIN s
         /\ \A j \in DOMAIN s : [s EXCEPT ![i] = e][j] = IF j = i THEN e ELSE s[j]
  OBVIOUS

LEMMA Positions ==
  ASSUME NEW S, NEW s \in Seq(S)
  PROVE  DOMAIN s \subseteq Nat \ {0}
  OBVIOUS

Grown ==
  /\ DOMAIN records \subseteq DOMAIN records'
  /\ DOMAIN quarantine \subseteq DOMAIN quarantine'
  /\ \A m \in DOMAIN records : records'[m].origin = records[m].origin

\* What was sound stays sound.
LEMMA SoundKept ==
  ASSUME Grown, NEW c, Sound(c)
  PROVE  Sound(c)'
<1>1. ASSUME NEW p, Writable(p) PROVE Writable(p)'
  BY <1>1 DEF Writable, Grown
<1>2. ASSUME NEW q, Written(q) PROVE Written(q)'
  BY <1>2 DEF Written, Grown
<1> QED
  BY <1>1, <1>2 DEF Sound, Grown

LEMMA NoCallSound == NoCall \in Call /\ Sound(NoCall) /\ Sound(NoCall)'
  BY DEF NoCall, Call, Steps, Sound, None

\* A caller goes on with a sound call: all calls are sound.
LEMMA CallsKept ==
  ASSUME CallsSound, call \in [Writers -> Call], Grown, NEW w \in Writers,
         NEW c \in Call, Sound(c)', Goto(w, c)
  PROVE  CallsSound' /\ call' \in [Writers -> Call]
<1> QED
  BY NoCallSound, SoundKept DEF CallsSound, Goto

-----------------------------------------------------------------------------
(* The invariant, step by step *)

StoresSound ==
  /\ records \in Seq(Record)
  /\ quarantine \in Seq(Item)
  /\ index \subseteq DOMAIN records
  /\ clock \in 1..MaxTime
  /\ RowsLinked
  /\ HeldWritable

Mishaps == {"none", "crash", "overlap"}

\* The parts of IInv that a step has to answer for.
LEMMA Assembled ==
  ASSUME IInv, Grown, StoresSound', NothingIsLost', mishap' \in Mishaps,
         NEW w \in Writers, NEW c \in Call, Sound(c)', Goto(w, c)
  PROVE  IInv'
<1>1. CallsSound' /\ call' \in [Writers -> Call]
  BY CallsKept DEF IInv, TypeOK
<1>2. (\A d \in Writers : call[d].row \in {None} \cup DOMAIN records)'
  BY <1>1 DEF CallsSound, Sound
<1> QED
  BY <1>1, <1>2 DEF IInv, TypeOK, StoresSound, Mishaps

\* The time, the rows and the items stay: the projection does not matter.
LEMMA OnlyIndex ==
  ASSUME IInv, UNCHANGED <<records, quarantine, clock>>,
         index' \subseteq DOMAIN records
  PROVE  Grown /\ StoresSound' /\ NothingIsLost'
  BY DEF IInv, TypeOK, StoresSound, Grown, RowsLinked, Linked, HeldWritable,
         Writable, NothingIsLost

\* A call moves on and nothing but the projection changes.
LEMMA CallMoves ==
  ASSUME IInv, UNCHANGED <<records, quarantine, clock>>,
         index' \subseteq DOMAIN records, mishap' \in Mishaps,
         NEW w \in Writers, NEW c \in Call, Sound(c), Goto(w, c)
  PROVE  IInv'
  BY OnlyIndex, SoundKept, Assembled

\* The row m is rewritten, and the caller goes on to tell the projection.
LEMMA RowRewritten ==
  ASSUME IInv, NEW w \in Writers, NEW m \in DOMAIN records, NEW r \in Record,
         Linked(r), r.origin = records[m].origin,
         records' = [records EXCEPT ![m] = r],
         UNCHANGED <<quarantine, index, clock>>, mishap' \in Mishaps,
         NEW c \in Call, Goto(w, c),
         c.step = "reindex", c.row = m, c.snapshot = r,
         c.item \in {None} \cup DOMAIN quarantine
  PROVE  IInv'
<1>1. records \in Seq(Record)
  BY DEF IInv, TypeOK
<1>2. /\ records' \in Seq(Record)
      /\ DOMAIN records' = DOMAIN records
      /\ \A j \in DOMAIN records : records'[j] = IF j = m THEN r ELSE records[j]
  BY <1>1, Replaced
<1>3. Grown
  BY <1>2 DEF Grown
<1>4. \A x : Linked(x) => Linked(x)'
  BY <1>2 DEF Linked
<1>5. RowsLinked'
  BY <1>2, <1>4 DEF IInv, RowsLinked
<1>6. HeldWritable'
  BY <1>2 DEF IInv, HeldWritable, Writable
<1>7. StoresSound'
  BY <1>2, <1>5, <1>6 DEF StoresSound, IInv, TypeOK
<1>8. NothingIsLost'
  BY <1>2 DEF NothingIsLost, IInv
<1>9. Sound(c)'
  BY <1>2 DEF Sound
<1> QED
  BY <1>3, <1>7, <1>8, <1>9, Assembled

-----------------------------------------------------------------------------
(* submit and release begin *)

LEMMA EnterFacts ==
  ASSUME IInv, NEW w \in Writers, NEW c, Enter(w, c)
  PROVE  Goto(w, c) /\ mishap' \in Mishaps
  BY DEF Enter, IInv, TypeOK, Mishaps

\* A call on a proposal that may be written begins soundly.
LEMMA Begins ==
  ASSUME IInv, NEW p, Writable(p), NEW q \in {None} \cup DOMAIN quarantine,
         NEW c, \/ c = [NoCall EXCEPT !.step = FirstCheck(p), !.proposal = p]
                \/ c = [NoCall EXCEPT !.step = FirstCheck(p), !.proposal = p,
                                      !.item = q]
  PROVE  c \in Call /\ Sound(c)
<1>1. FirstCheck(p) \in {"put", "dedupe", "check"}
      /\ (FirstCheck(p) = "check" => p.supersedes # None)
  BY DEF FirstCheck, Writable, Proposal
<1>2. q \in Nat
  BY Positions DEF IInv, TypeOK, None
<1>3. /\ c.step = FirstCheck(p) /\ c.proposal = p
      /\ c.item \in {None, q} /\ c.row = None
  BY DEF NoCall
<1>4. c \in Call
  <2>1. PICK i \in {None, q} :
          c = [step |-> FirstCheck(p), proposal |-> p, item |-> i, row |-> None,
               snapshot |-> NoRecord]
    BY DEF NoCall
  <2>2. i \in Nat /\ FirstCheck(p) \in Steps /\ p \in Proposal
    BY <1>1, <1>2 DEF Steps, Writable, None
  <2> QED
    BY <2>1, <2>2 DEF Call, None
<1>5. Sound(c)
  BY <1>1, <1>3 DEF Sound
<1> QED
  BY <1>4, <1>5

LEMMA InitSound == Init => IInv
<1> SUFFICES ASSUME Init PROVE IInv
  OBVIOUS
<1>1. TypeOK
  BY NoCallSound, ConstantsAssumption DEF Init, TypeOK, NoCall, None
<1>2. CallsSound
  BY NoCallSound DEF Init, CallsSound
<1> QED
  BY <1>1, <1>2 DEF Init, IInv, RowsLinked, HeldWritable, NothingIsLost

LEMMA SubmitSound == ASSUME IInv, NEW w \in Writers, Submit(w) PROVE IInv'
<1>1. PICK x \in Contents, t \in BOOLEAN, v \in Windows,
           m \in {None} \cup DOMAIN records :
        Enter(w, [NoCall EXCEPT
                    !.step = FirstCheck([content |-> x, trusted |-> t, from |-> v[1],
                                         until |-> v[2], supersedes |-> m]),
                    !.proposal = [content |-> x, trusted |-> t, from |-> v[1],
                                  until |-> v[2], supersedes |-> m]])
  BY DEF Submit
<1> DEFINE p == [content |-> x, trusted |-> t, from |-> v[1], until |-> v[2],
                 supersedes |-> m]
           c == [NoCall EXCEPT !.step = FirstCheck(p), !.proposal = p]
<1>2. v[1] \in Nat /\ v[2] \in Nat
  BY ConstantsAssumption DEF IInv, TypeOK, Windows, None, Never
<1>3. m \in Nat
  BY Positions DEF IInv, TypeOK, None
<1>4. Writable(p)
  BY <1>2, <1>3 DEF Writable, Proposal
<1>5. c \in Call /\ Sound(c)
  <2> HIDE DEF p
  <2> QED
    BY <1>4, Begins
<1>6. Goto(w, c) /\ mishap' \in Mishaps
  BY <1>1, EnterFacts
<1>7. UNCHANGED <<records, quarantine, clock>> /\ index' \subseteq DOMAIN records
  BY DEF Submit, stores, IInv, TypeOK
<1> QED
  BY <1>5, <1>6, <1>7, CallMoves

LEMMA ReleaseSound == ASSUME IInv, NEW w \in Writers, Release(w) PROVE IInv'
<1>1. PICK q \in DOMAIN quarantine :
        LET p == [quarantine[q].proposal EXCEPT !.trusted = TRUE]
        IN /\ quarantine[q].state = "held"
           /\ Enter(w, [NoCall EXCEPT !.step = FirstCheck(p), !.proposal = p,
                                      !.item = q])
  BY DEF Release
<1> DEFINE p == [quarantine[q].proposal EXCEPT !.trusted = TRUE]
           c == [NoCall EXCEPT !.step = FirstCheck(p), !.proposal = p, !.item = q]
<1>2. Writable(quarantine[q].proposal)
  BY <1>1 DEF IInv, HeldWritable
<1>3. Writable(p)
  BY <1>2 DEF Writable, Proposal
<1>4. c \in Call /\ Sound(c)
  <2> HIDE DEF p
  <2> QED
    BY <1>3, Begins
<1>5. Goto(w, c) /\ mishap' \in Mishaps
  BY <1>1, EnterFacts
<1>6. UNCHANGED <<records, quarantine, clock>> /\ index' \subseteq DOMAIN records
  BY DEF Release, stores, IInv, TypeOK
<1> QED
  BY <1>4, <1>5, <1>6, CallMoves

-----------------------------------------------------------------------------
(* The steps of a call *)

\* A call that goes on with its proposal, its item and its row.
LEMMA StepsOn ==
  ASSUME IInv, NEW w \in Writers, NEW s \in Steps,
         UNCHANGED <<records, quarantine, clock>>,
         index' \subseteq DOMAIN records, UNCHANGED mishap,
         Sound([call[w] EXCEPT !.step = s]), GotoStep(w, s)
  PROVE  IInv'
<1>1. call[w] \in Call /\ mishap' \in Mishaps
  BY DEF IInv, TypeOK, Mishaps
<1>2. [call[w] EXCEPT !.step = s] \in Call
  BY <1>1 DEF Call
<1> QED
  BY <1>1, <1>2, CallMoves DEF GotoStep

LEMMA Holds ==
  ASSUME IInv, NEW w \in Writers
  PROVE  call[w] \in Call /\ Sound(call[w])
  BY DEF IInv, TypeOK, CallsSound

LEMMA CheckSound ==
  ASSUME IInv, NEW w \in Writers, CheckSuperseded(w) \/ Dedupe(w) PROVE IInv'
<1>1. call[w] \in Call /\ Sound(call[w])
  BY Holds
<1>2. PICK s \in {"dedupe", "commit", "idle"} : GotoStep(w, s)
  BY DEF CheckSuperseded, Dedupe
<1>3. Writable(call[w].proposal)
  BY <1>1 DEF CheckSuperseded, Dedupe, At, Sound
<1>4. Sound([call[w] EXCEPT !.step = s])
  BY <1>1, <1>3 DEF Sound, Call
<1>5. UNCHANGED <<records, quarantine, clock, mishap>>
      /\ index' \subseteq DOMAIN records
  BY DEF CheckSuperseded, Dedupe, stores, IInv, TypeOK
<1> QED
  BY <1>2, <1>4, <1>5, StepsOn DEF Steps

LEMMA IndexSound ==
  ASSUME IInv, NEW w \in Writers, Index(w) \/ Reindex(w) PROVE IInv'
<1>1. call[w] \in Call /\ Sound(call[w])
  BY Holds
<1>2. call[w].row \in DOMAIN records
  BY <1>1 DEF Index, Reindex, At, Sound
<1>3. index' \subseteq DOMAIN records
  BY <1>2 DEF Index, Reindex, Upsert, IInv, TypeOK
<1>4. PICK s \in {"idle", "remove", "supersede"} :
        /\ GotoStep(w, s)
        /\ s # "idle" => At(w, "index") /\ s = AfterIndex(call[w])
  BY DEF Index, Reindex, AfterIndex
<1>5. /\ s = "remove" => call[w].item # None
      /\ s = "supersede" => call[w].proposal.supersedes # None
  BY <1>4 DEF AfterIndex
<1>6. Sound([call[w] EXCEPT !.step = s])
  BY <1>1, <1>2, <1>4, <1>5 DEF Sound, Call, At
<1>7. UNCHANGED <<records, quarantine, clock, mishap>>
  BY DEF Index, Reindex
<1> QED
  BY <1>3, <1>4, <1>6, <1>7, StepsOn DEF Steps

\* A record is appended, and the caller goes on to tell the projection.
LEMMA RowAppended ==
  ASSUME IInv, NEW w \in Writers, NEW r \in Record, NEW n, NEW d,
         n = Len(records) + 1, d = call[w], d.step = "commit",
         r.supersedes = d.proposal.supersedes, r.by = None,
         r.state = "committed", r.origin = d.item,
         records' = Append(records, r),
         UNCHANGED <<quarantine, index, clock, mishap>>,
         NEW c, c = [d EXCEPT !.step = "index", !.row = n, !.snapshot = r],
         Goto(w, c)
  PROVE  IInv'
<1>1. records \in Seq(Record) /\ d \in Call /\ Sound(d) /\ Writable(d.proposal)
  BY Holds DEF IInv, TypeOK, Sound
<1>2. /\ records' \in Seq(Record) /\ DOMAIN records' = DOMAIN records \cup {n}
      /\ \A m \in DOMAIN records : records'[m] = records[m]
      /\ records'[n] = r /\ n \in Nat \ {0}
  BY <1>1, Appended
<1>3. Grown
  BY <1>2 DEF Grown
<1>4. \A x : Linked(x) => Linked(x)'
  BY <1>2 DEF Linked
<1>5. Linked(r)'
  BY <1>1, <1>2 DEF Linked, Writable
<1>6. RowsLinked'
  BY <1>2, <1>4, <1>5 DEF RowsLinked, IInv
<1>7. HeldWritable'
  BY <1>2 DEF HeldWritable, Writable, IInv
<1>8. StoresSound'
  BY <1>2, <1>6, <1>7 DEF StoresSound, IInv, TypeOK
<1>9. NothingIsLost'
  BY <1>2 DEF NothingIsLost, IInv
<1>10. Written(d.item)'
  BY <1>2 DEF Written
<1>11. c \in Call
  BY <1>1, <1>2 DEF Call, Steps
<1>12. Sound(d)'
  BY <1>1, <1>3, SoundKept
<1>13. /\ c.step = "index" /\ c.row = n /\ c.snapshot = r
       /\ c.proposal = d.proposal /\ c.item = d.item
  BY <1>1 DEF Call
<1>14. Sound(c)'
  BY <1>2, <1>10, <1>12, <1>13 DEF Sound
<1>15. mishap' \in Mishaps
  BY DEF IInv, TypeOK, Mishaps
<1> QED
  BY <1>3, <1>8, <1>9, <1>11, <1>14, <1>15, Assembled

LEMMA CommitSound == ASSUME IInv, NEW w \in Writers, Commit(w) PROVE IInv'
<1> DEFINE p == call[w].proposal
           r == ToRecord(p, call[w].item)
<1>1. call[w] \in Call /\ Sound(call[w]) /\ p \in Proposal
  BY Holds DEF Commit, At, Sound, Writable
<1>2. CASE r.until < r.from
  <2>1. GotoStep(w, "idle") /\ UNCHANGED <<records, quarantine, index, clock, mishap>>
    BY <1>2 DEF Commit
  <2>2. Sound([call[w] EXCEPT !.step = "idle"])
    BY <1>1 DEF Sound, Call
  <2> QED
    BY <2>1, <2>2, StepsOn DEF Steps, IInv, TypeOK
<1>3. CASE ~(r.until < r.from)
  <2>1. /\ records' = Append(records, r) /\ call[w].step = "commit"
        /\ Goto(w, [call[w] EXCEPT !.step = "index", !.row = Len(records) + 1,
                                   !.snapshot = r])
        /\ UNCHANGED <<quarantine, index, clock, mishap>>
    BY <1>3 DEF Commit, At
  <2>2. r \in Record
    BY <1>1 DEF ToRecord, Record, Proposal, Call, IInv, TypeOK, None
  <2>3. /\ r.supersedes = p.supersedes /\ r.by = None /\ r.state = "committed"
        /\ r.origin = call[w].item
    BY DEF ToRecord
  <2> HIDE DEF r
  <2> QED
    BY <2>1, <2>2, <2>3, RowAppended
<1> QED
  BY <1>2, <1>3

\* What becomes of a record that is superseded, revoked or revalidated.
LEMMA Endings ==
  ASSUME IInv, NEW r \in Record, Linked(r)
  PROVE  /\ \A s \in DOMAIN records :
              /\ Superseded(r, s) \in Record
              /\ Superseded(r, s).origin = r.origin
              /\ Linked(Superseded(r, s))
         /\ Revoked(r) \in Record /\ Revoked(r).origin = r.origin
         /\ Linked(Revoked(r))
         /\ Revalidated(r) \in Record /\ Revalidated(r).origin = r.origin
         /\ Linked(Revalidated(r))
<1>1. clock \in Nat /\ DOMAIN records \subseteq Nat \ {0}
  BY Positions DEF IInv, TypeOK
<1>2. ASSUME NEW s \in DOMAIN records
      PROVE  /\ Superseded(r, s) \in Record
             /\ Superseded(r, s).origin = r.origin
             /\ Linked(Superseded(r, s))
  <2>1. Superseded(r, s) \in Record
    BY <1>1 DEF Superseded, Record
  <2>2. /\ Superseded(r, s).supersedes = r.supersedes /\ Superseded(r, s).by = s
        /\ Superseded(r, s).invalidated /\ Superseded(r, s).until = clock
        /\ Superseded(r, s).origin = r.origin
    BY DEF Superseded, Record
  <2> QED
    BY <1>1, <2>1, <2>2 DEF Linked, None
<1>3. /\ Revoked(r) \in Record /\ Revoked(r).origin = r.origin
      /\ Linked(Revoked(r))
  <2>1. Revoked(r) \in Record
    BY DEF Revoked, Record
  <2>2. /\ Revoked(r).supersedes = r.supersedes /\ Revoked(r).by = r.by
        /\ Revoked(r).state # "superseded" /\ Revoked(r).until = r.until
        /\ Revoked(r).origin = r.origin
    BY DEF Revoked, Record
  <2> QED
    BY <2>1, <2>2 DEF Linked
<1>4. /\ Revalidated(r) \in Record /\ Revalidated(r).origin = r.origin
      /\ Linked(Revalidated(r))
  <2>1. Revalidated(r) \in Record
    BY DEF Revalidated, Record
  <2>2. /\ Revalidated(r).supersedes = r.supersedes /\ Revalidated(r).by = r.by
        /\ Revalidated(r).state # "superseded" /\ Revalidated(r).until = r.until
        /\ Revalidated(r).origin = r.origin
    BY DEF Revalidated, Record
  <2> QED
    BY <2>1, <2>2 DEF Linked
<1> QED
  BY <1>2, <1>3, <1>4

LEMMA SupersedeSound == ASSUME IInv, NEW w \in Writers, Supersede(w) PROVE IInv'
<1> DEFINE m == call[w].proposal.supersedes
           r == Superseded(records[m], call[w].row)
           c == [call[w] EXCEPT !.step = "reindex", !.row = m, !.snapshot = r]
<1>1. /\ call[w] \in Call /\ Sound(call[w]) /\ m \in DOMAIN records /\ m \in Nat
      /\ call[w].row \in DOMAIN records
  BY Holds, Positions DEF Supersede, At, Sound, Writable, IInv, TypeOK, None
<1>2. records[m] \in Record /\ Linked(records[m])
  BY <1>1 DEF IInv, TypeOK, RowsLinked
<1>3. r \in Record /\ r.origin = records[m].origin /\ Linked(r)
  BY <1>1, <1>2, Endings
<1>4. records' = [records EXCEPT ![m] = r] /\ Goto(w, c)
      /\ UNCHANGED <<quarantine, index, clock, mishap>>
  BY DEF Supersede
<1> HIDE DEF r
<1>5. c \in Call
  BY <1>1, <1>3 DEF Call, Steps
<1>6. /\ c.step = "reindex" /\ c.row = m /\ c.snapshot = r
      /\ c.item \in {None} \cup DOMAIN quarantine
  BY <1>1 DEF Call, Sound
<1>7. mishap' \in Mishaps
  BY <1>4 DEF IInv, TypeOK, Mishaps
<1> HIDE DEF c, m
<1> QED
  BY <1>1, <1>3, <1>4, <1>5, <1>6, <1>7, RowRewritten

LEMMA RewriteSound ==
  ASSUME IInv, NEW w \in Writers, Revoke(w) \/ Revalidate(w) PROVE IInv'
<1>0. PICK m \in DOMAIN records :
        \E r \in {records[m], Revoked(records[m]), Revalidated(records[m])} :
          Rewrite(w, m, r)
  BY DEF Revoke, Revalidate
<1>1. PICK r \in {records[m], Revoked(records[m]), Revalidated(records[m])} :
        Rewrite(w, m, r)
  BY <1>0
<1>2. records[m] \in Record /\ Linked(records[m]) /\ m \in Nat
  BY Positions DEF IInv, TypeOK, RowsLinked
<1>3. r \in Record /\ r.origin = records[m].origin /\ Linked(r)
  BY <1>1, <1>2, Endings
<1> DEFINE c == [NoCall EXCEPT !.step = "reindex", !.row = m, !.snapshot = r]
<1>4. /\ records' = [records EXCEPT ![m] = r] /\ Enter(w, c)
      /\ UNCHANGED <<quarantine, index, clock>>
  BY <1>1 DEF Rewrite
<1>5. c \in Call
  BY <1>2, <1>3, NoCallSound DEF Call, Steps
<1>6. /\ c.step = "reindex" /\ c.row = m /\ c.snapshot = r
      /\ c.item \in {None} \cup DOMAIN quarantine
  BY DEF NoCall
<1> HIDE DEF c
<1> QED
  BY <1>3, <1>4, <1>5, <1>6, EnterFacts, RowRewritten

LEMMA PutSound == ASSUME IInv, NEW w \in Writers, Put(w) PROVE IInv'
<1> DEFINE e == [proposal |-> call[w].proposal, state |-> "held"]
<1>1. /\ call[w] \in Call /\ Sound(call[w]) /\ Writable(call[w].proposal)
      /\ quarantine \in Seq(Item)
  BY Holds DEF Put, At, Sound, IInv, TypeOK
<1>2. e \in Item
  BY <1>1 DEF Item, Writable
<1>3. Writable(e.proposal) /\ e.state = "held"
  BY <1>1
<1>4. quarantine' = Append(quarantine, e) /\ GotoStep(w, "idle")
      /\ UNCHANGED <<records, index, clock, mishap>>
  BY DEF Put
<1> HIDE DEF e
<1>5. PICK d \in Item : d = e
  BY <1>2
<1>6. /\ quarantine' \in Seq(Item)
      /\ DOMAIN quarantine' = DOMAIN quarantine \cup {Len(quarantine) + 1}
      /\ \A q \in DOMAIN quarantine : quarantine'[q] = quarantine[q]
      /\ quarantine'[Len(quarantine) + 1] = d
  BY <1>1, <1>4, <1>5, Appended
<1>7. Grown
  BY <1>4, <1>6 DEF Grown
<1>8. RowsLinked'
  BY <1>4 DEF RowsLinked, Linked, IInv
<1>9. HeldWritable'
  BY <1>3, <1>4, <1>5, <1>6 DEF HeldWritable, Writable, IInv
<1>10. StoresSound'
  BY <1>4, <1>6, <1>8, <1>9 DEF StoresSound, IInv, TypeOK
<1>11. NothingIsLost'
  BY <1>3, <1>4, <1>5, <1>6 DEF NothingIsLost, IInv
<1>12. Goto(w, NoCall)
  BY <1>1, <1>4 DEF GotoStep, Goto, Call, NoCall
<1>13. mishap' \in Mishaps
  BY <1>4 DEF IInv, TypeOK, Mishaps
<1> QED
  BY <1>7, <1>10, <1>11, <1>12, <1>13, NoCallSound, Assembled

\* An item leaves quarantine: it was discarded, or it has become a record.
LEMMA ItemLeaves ==
  ASSUME IInv, NEW w \in Writers, NEW q \in DOMAIN quarantine,
         NEW fate \in {"released", "discarded"}, Gone(q, fate),
         fate = "released" => Written(q),
         UNCHANGED <<records, index, clock>>, mishap' \in Mishaps,
         Goto(w, NoCall)
  PROVE  IInv'
<1> DEFINE e == [proposal |-> NoProposal, state |-> fate]
<1>1. /\ quarantine \in Seq(Item) /\ e \in Item
  BY DEF IInv, TypeOK, Item
<1>2. /\ quarantine' \in Seq(Item)
      /\ DOMAIN quarantine' = DOMAIN quarantine
      /\ \A j \in DOMAIN quarantine :
           quarantine'[j] = quarantine[j] \/ (j = q /\ quarantine'[j] = e)
  BY <1>1, Replaced DEF Gone
<1>3. Grown
  BY <1>2 DEF Grown
<1>4. RowsLinked'
  BY DEF RowsLinked, Linked, IInv
<1>5. HeldWritable'
  BY <1>2 DEF HeldWritable, Writable, IInv
<1>6. StoresSound'
  BY <1>2, <1>4, <1>5 DEF StoresSound, IInv, TypeOK
<1>7. NothingIsLost'
  BY <1>2 DEF NothingIsLost, Written, IInv
<1> QED
  BY <1>3, <1>6, <1>7, NoCallSound, Assembled

LEMMA RemoveSound == ASSUME IInv, NEW w \in Writers, Remove(w) PROVE IInv'
<1>1. call[w] \in Call /\ Sound(call[w])
  BY Holds
<1>2. call[w].item \in DOMAIN quarantine /\ Written(call[w].item)
  BY <1>1 DEF Remove, At, Sound
<1>3. Goto(w, NoCall)
  BY <1>1 DEF Remove, GotoStep, Goto, Call, NoCall
<1>4. mishap' \in Mishaps
  BY DEF Remove, IInv, TypeOK, Mishaps
<1> QED
  BY <1>2, <1>3, <1>4, ItemLeaves DEF Remove

LEMMA DiscardSound == ASSUME IInv, NEW w \in Writers, Discard(w) PROVE IInv'
<1>1. PICK q \in DOMAIN quarantine : Gone(q, "discarded")
  BY DEF Discard
<1>2. Goto(w, NoCall) /\ mishap' \in Mishaps
  BY EnterFacts DEF Discard
<1> QED
  BY <1>1, <1>2, ItemLeaves DEF Discard

\* Time passes, or the process dies.
LEMMA WorldSound == ASSUME IInv, Tick \/ Crash PROVE IInv'
<1>1. Grown /\ UNCHANGED <<records, quarantine>>
  BY DEF Tick, Crash, Grown
<1>2. clock \in 1..MaxTime /\ clock' \in 1..MaxTime /\ clock <= clock'
  BY ConstantsAssumption DEF Tick, Crash, IInv, TypeOK
<1>3. RowsLinked'
  <2>1. ASSUME NEW m \in DOMAIN records PROVE Linked(records[m])'
    <3>1. records[m] \in Record /\ Linked(records[m])
      BY DEF IInv, TypeOK, RowsLinked
    <3>2. records[m].until \in Nat
      BY <3>1 DEF Record
    <3> QED
      BY <1>1, <1>2, <3>1, <3>2 DEF Linked
  <2> QED
    BY <1>1, <2>1 DEF RowsLinked
<1>4. HeldWritable' /\ NothingIsLost'
  BY <1>1 DEF HeldWritable, Writable, NothingIsLost, IInv
<1>5. StoresSound' /\ mishap' \in Mishaps
  BY <1>1, <1>2, <1>3, <1>4
     DEF StoresSound, Tick, Crash, IInv, TypeOK, Mishaps
<1>6. CallsSound' /\ call' \in [Writers -> Call]
  BY <1>1, SoundKept, NoCallSound DEF Tick, Crash, CallsSound, IInv, TypeOK
<1> QED
  BY <1>4, <1>5, <1>6 DEF IInv, TypeOK, StoresSound, Mishaps, CallsSound, Sound

LEMMA StepSound == IInv /\ [Next]_vars => IInv'
<1> SUFFICES ASSUME IInv, [Next]_vars PROVE IInv'
  OBVIOUS
<1>1. CASE UNCHANGED vars
  BY <1>1 DEF vars, stores, IInv, TypeOK, RowsLinked, Linked, HeldWritable,
              Writable, CallsSound, Sound, Written, NothingIsLost
<1>2. ASSUME NEW w \in Writers, Step(w) PROVE IInv'
  BY <1>2, CheckSound, CommitSound, IndexSound, SupersedeSound, PutSound,
     RemoveSound DEF Step
<1>3. ASSUME NEW w \in Writers,
             Submit(w) \/ Release(w) \/ Revoke(w) \/ Revalidate(w) \/ Discard(w)
      PROVE  IInv'
  BY <1>3, SubmitSound, ReleaseSound, RewriteSound, DiscardSound
<1> QED
  BY <1>1, <1>2, <1>3, WorldSound DEF Next

-----------------------------------------------------------------------------
(* While calls do not overlap *)

\* What the projection should hold of a row.
Known(m) ==
  /\ Active(m) /\ ~Postdated(records[m]) => m \in index
  /\ m \in index => ~records[m].invalidated

\* The caller w is about to tell the projection of the row m.
Telling(w, m) == call[w].step \in {"index", "reindex"} /\ call[w].row = m

\* No active record repeats the proposal p, but the one it supersedes and those
\* that were postdated.
Novel(p) ==
  \A m \in DOMAIN records :
    Active(m) /\ m # p.supersedes /\ ~Postdated(records[m])
      => records[m].content # p.content

\* What the only call under way knows: the row as it is, and that it repeats
\* nothing.
Fresh(c) ==
  /\ c.step \in {"index", "reindex"} => c.snapshot = records[c.row]
  /\ c.step = "commit" => Novel(c.proposal)

LoneInv ==
  /\ \A v, w \in Writers : ~At(v, "idle") /\ ~At(w, "idle") => v = w
  /\ \A w \in Writers : Fresh(call[w])
  /\ \A m \in DOMAIN records : Known(m) \/ \E w \in Writers : Telling(w, m)

Dated == \A m \in DOMAIN records : records[m].created <= clock

\* The record m has retired the one it supersedes.
HasRetired(m) ==
  LET old == records[m].supersedes
  IN records[m].origin = None /\ old # None => records[old].by # None

\* The caller w committed the row m and will retire the row it supersedes.
Retiring(w, m) ==
  /\ call[w].step \in {"index", "supersede"}
  /\ call[w].row = m /\ call[w].item = records[m].origin
  /\ call[w].proposal.supersedes = records[m].supersedes

\* Every record has retired what it supersedes, or its caller is about to.
RetiringInv ==
  \A m \in DOMAIN records : HasRetired(m) \/ \E w \in Writers : Retiring(w, m)

JInv ==
  /\ IInv
  /\ Dated
  /\ Smooth => LoneInv
  /\ mishap = "none" => RetiringInv

\* What no change of a row touches, and that a successor stays.
Alike(r, s) ==
  /\ s.created = r.created /\ s.origin = r.origin /\ s.supersedes = r.supersedes
  /\ r.by # None => s.by # None

\* The row m becomes r, and the caller w is about to tell the projection.
Changed(w, m, r) ==
  /\ records' = [records EXCEPT ![m] = r]
  /\ call'[w].step = "reindex" /\ call'[w].row = m /\ call'[w].snapshot = r
  /\ UNCHANGED <<index, clock>>

\* The caller w goes on without a change of rows or of the projection.
Proceeds(w) ==
  /\ UNCHANGED <<records, index, clock>>
  /\ call[w].step \notin {"index", "supersede", "reindex"}
  /\ call'[w].step \in {"check", "dedupe", "commit", "put", "idle"}
  /\ call'[w].step = "commit" => Novel(call'[w].proposal)

\* A call of w begins or goes on.
Moves(w) ==
  Submit(w) \/ Release(w) \/ Revoke(w) \/ Revalidate(w) \/ Discard(w) \/ Step(w)

LEMMA GoesTo ==
  ASSUME IInv, NEW w \in Writers, NEW c, Goto(w, c)
  PROVE  /\ call'[w] = IF c.step = "idle" THEN NoCall ELSE c
         /\ \A d \in Writers \ {w} : call'[d] = call[d]
  BY DEF Goto, IInv, TypeOK

LEMMA Rewriting ==
  ASSUME IInv, NEW w \in Writers, Revoke(w) \/ Revalidate(w) \/ Supersede(w)
  PROVE  \E m \in DOMAIN records, r \in Record :
           /\ Changed(w, m, r) /\ Alike(records[m], r)
           /\ Supersede(w) => /\ m = call[w].proposal.supersedes
                              /\ r.by = call[w].row /\ call[w].row # None
<1>1. ASSUME NEW m \in DOMAIN records
      PROVE  /\ records[m] \in Record /\ Linked(records[m])
             /\ \A s \in {records[m], Revoked(records[m]), Revalidated(records[m])} :
                  s \in Record /\ Alike(records[m], s)
  <2>1. records[m] \in Record /\ Linked(records[m])
    BY DEF IInv, TypeOK, RowsLinked
  <2>2. Revoked(records[m]) \in Record /\ Revalidated(records[m]) \in Record
    BY <2>1, Endings
  <2> QED
    BY <2>1, <2>2 DEF Alike, Revoked, Revalidated, Record
<1>2. CASE Revoke(w) \/ Revalidate(w)
  <2>1. PICK m \in DOMAIN records :
          \E r \in {records[m], Revoked(records[m]), Revalidated(records[m])} :
            Rewrite(w, m, r)
    BY <1>2 DEF Revoke, Revalidate
  <2>2. PICK r \in {records[m], Revoked(records[m]), Revalidated(records[m])} :
          Rewrite(w, m, r)
    BY <2>1
  <2>3. r \in Record /\ Alike(records[m], r)
    BY <1>1
  <2> DEFINE c == [NoCall EXCEPT !.step = "reindex", !.row = m, !.snapshot = r]
  <2>4. c.step = "reindex" /\ c.row = m /\ c.snapshot = r
    BY DEF NoCall
  <2>5. Enter(w, c) /\ records' = [records EXCEPT ![m] = r]
        /\ UNCHANGED <<index, clock>>
    BY <2>2 DEF Rewrite
  <2> HIDE DEF c
  <2>6. call'[w] = c
    BY <2>4, <2>5, GoesTo DEF Enter
  <2>7. ~Supersede(w)
    BY <2>5 DEF Enter, Supersede, At
  <2> QED
    BY <2>3, <2>4, <2>5, <2>6, <2>7 DEF Changed
<1>3. CASE Supersede(w)
  <2> DEFINE m == call[w].proposal.supersedes
             r == Superseded(records[m], call[w].row)
             c == [call[w] EXCEPT !.step = "reindex", !.row = m, !.snapshot = r]
  <2>1. /\ call[w] \in Call /\ m \in DOMAIN records
        /\ call[w].row \in DOMAIN records /\ call[w].row # None
    BY <1>3, Holds, Positions DEF Supersede, At, Sound, Writable, IInv, TypeOK, None
  <2>2. r \in Record
    BY <1>1, <2>1, Endings
  <2>3. Alike(records[m], r) /\ r.by = call[w].row
    BY <1>1, <2>1 DEF Alike, Superseded, Record
  <2>4. c.step = "reindex" /\ c.row = m /\ c.snapshot = r
    BY <2>1 DEF Call
  <2>5. Goto(w, c) /\ records' = [records EXCEPT ![m] = r]
        /\ UNCHANGED <<index, clock>>
    BY <1>3 DEF Supersede
  <2> HIDE DEF c
  <2>6. call'[w] = c
    BY <2>4, <2>5, GoesTo
  <2> HIDE DEF r, m
  <2>7. Changed(w, m, r)
    BY <2>4, <2>5, <2>6 DEF Changed
  <2> QED
    BY <2>1, <2>2, <2>3, <2>7 DEF m
<1> QED
  BY <1>2, <1>3

\* A row is appended by commit.
Adds(w) ==
  LET r == ToRecord(call[w].proposal, call[w].item)
      n == Len(records) + 1
  IN /\ At(w, "commit")
     /\ records' = Append(records, r)
     /\ call'[w] = [call[w] EXCEPT !.step = "index", !.row = n, !.snapshot = r]
     /\ UNCHANGED <<index, clock>>

\* The projection is told of a row.
Tells(w) ==
  /\ call[w].step \in {"index", "reindex"}
  /\ Upsert(call[w].row, call[w].snapshot)
  /\ call'[w].step \in {"idle", "remove", "supersede"}
  /\ UNCHANGED <<records, clock>>
  /\ At(w, "index") =>
       LET to == AfterIndex(call[w])
       IN call'[w] = IF to = "idle" THEN NoCall ELSE [call[w] EXCEPT !.step = to]

LEMMA StepOf ==
  ASSUME IInv, NEW w \in Writers, NEW s \in Steps, GotoStep(w, s)
  PROVE  /\ call'[w] = IF s = "idle" THEN NoCall ELSE [call[w] EXCEPT !.step = s]
         /\ call'[w].step = s
         /\ s # "idle" => /\ call'[w].proposal = call[w].proposal
                          /\ call'[w].item = call[w].item
                          /\ call'[w].row = call[w].row
<1>1. call[w] \in Call
  BY DEF IInv, TypeOK
<1>2. [call[w] EXCEPT !.step = s].step = s
  BY <1>1 DEF Call
<1>3. call'[w] = IF s = "idle" THEN NoCall ELSE [call[w] EXCEPT !.step = s]
  BY <1>2, GoesTo DEF GotoStep
<1> QED
  BY <1>1, <1>3 DEF Call, NoCall

\* Whatever a caller does is one of five things.
LEMMA KindsOfMoves ==
  ASSUME IInv, NEW w \in Writers, Moves(w)
  PROVE  \/ Proceeds(w)
         \/ Revoke(w) \/ Revalidate(w) \/ Supersede(w)
         \/ Adds(w)
         \/ Tells(w)
<1>1. CASE Submit(w) \/ Release(w) \/ Discard(w)
  <2>1. PICK c : Enter(w, c) /\ c.step \in {"put", "dedupe", "check", "idle"}
    <3>1. ASSUME NEW p, p.trusted \in BOOLEAN
          PROVE  FirstCheck(p) \in {"put", "dedupe", "check", "idle"}
      BY <3>1 DEF FirstCheck
    <3>2. CASE Discard(w)
      BY <3>2 DEF Discard, NoCall
    <3>3. CASE Submit(w)
      <4>1. PICK x \in Contents, t \in BOOLEAN, v \in Windows,
                 m \in {None} \cup DOMAIN records :
              Enter(w, [NoCall EXCEPT
                !.step = FirstCheck([content |-> x, trusted |-> t, from |-> v[1],
                                     until |-> v[2], supersedes |-> m]),
                !.proposal = [content |-> x, trusted |-> t, from |-> v[1],
                              until |-> v[2], supersedes |-> m]])
        BY <3>3 DEF Submit
      <4> DEFINE p == [content |-> x, trusted |-> t, from |-> v[1],
                       until |-> v[2], supersedes |-> m]
                 c == [NoCall EXCEPT !.step = FirstCheck(p), !.proposal = p]
      <4>2. c.step = FirstCheck(p) /\ p.trusted \in BOOLEAN
        BY DEF NoCall
      <4>3. Enter(w, c)
        BY <4>1
      <4> HIDE DEF c, p
      <4> QED
        BY <3>1, <4>2, <4>3
    <3>4. CASE Release(w)
      <4>1. PICK q \in DOMAIN quarantine :
              LET p == [quarantine[q].proposal EXCEPT !.trusted = TRUE]
              IN /\ quarantine[q].state = "held"
                 /\ Enter(w, [NoCall EXCEPT !.step = FirstCheck(p),
                                            !.proposal = p, !.item = q])
        BY <3>4 DEF Release
      <4> DEFINE p == [quarantine[q].proposal EXCEPT !.trusted = TRUE]
                 c == [NoCall EXCEPT !.step = FirstCheck(p), !.proposal = p,
                                     !.item = q]
      <4>2. quarantine[q].proposal \in Proposal
        BY <4>1 DEF IInv, HeldWritable, Writable
      <4>3. p.trusted \in BOOLEAN
        BY <4>2 DEF Proposal
      <4>4. c.step = FirstCheck(p)
        BY DEF NoCall
      <4>5. Enter(w, c)
        BY <4>1
      <4> HIDE DEF c, p
      <4> QED
        BY <3>1, <4>3, <4>4, <4>5
    <3> QED
      BY <1>1, <3>2, <3>3, <3>4
  <2>2. call'[w].step \in {"put", "dedupe", "check", "idle"}
    BY <2>1, GoesTo DEF Enter, NoCall
  <2>3. call[w].step = "idle" /\ UNCHANGED <<records, index, clock>>
    BY <1>1 DEF Submit, Release, Discard, Enter, At, stores
  <2> QED
    BY <2>2, <2>3 DEF Proceeds
<1>2. CASE CheckSuperseded(w) \/ Put(w) \/ Remove(w)
  <2>1. PICK s \in {"dedupe", "idle"} : GotoStep(w, s)
    BY <1>2 DEF CheckSuperseded, Put, Remove
  <2>2. call'[w].step = s
    BY <2>1, StepOf DEF Steps
  <2> QED
    BY <1>2, <2>2 DEF Proceeds, CheckSuperseded, Put, Remove, At, stores
<1>3. CASE Dedupe(w)
  <2>1. CASE Duplicate(call[w].proposal)
    <3>1. GotoStep(w, "idle")
      BY <1>3, <2>1 DEF Dedupe
    <3>2. call'[w].step = "idle"
      BY <3>1, StepOf DEF Steps
    <3> QED
      BY <1>3, <3>2 DEF Proceeds, Dedupe, At, stores
  <2>2. CASE ~Duplicate(call[w].proposal)
    <3>1. GotoStep(w, "commit")
      BY <1>3, <2>2 DEF Dedupe
    <3>2. call'[w].step = "commit" /\ call'[w].proposal = call[w].proposal
      BY <3>1, StepOf DEF Steps
    <3>3. Novel(call[w].proposal)
      BY <2>2 DEF Novel, Duplicate
    <3> QED
      BY <1>3, <3>2, <3>3 DEF Proceeds, Dedupe, At, stores
  <2> QED
    BY <2>1, <2>2
<1>4. CASE Commit(w)
  <2> DEFINE r == ToRecord(call[w].proposal, call[w].item)
  <2>1. CASE r.until < r.from
    <3>1. GotoStep(w, "idle") /\ UNCHANGED records
      BY <1>4, <2>1 DEF Commit
    <3>2. call'[w].step = "idle"
      BY <3>1, StepOf DEF Steps
    <3> QED
      BY <1>4, <3>1, <3>2 DEF Proceeds, Commit, At
  <2>2. CASE ~(r.until < r.from)
    <3> DEFINE c == [call[w] EXCEPT !.step = "index", !.row = Len(records) + 1,
                                    !.snapshot = r]
    <3>1. Goto(w, c) /\ records' = Append(records, r)
      BY <1>4, <2>2 DEF Commit
    <3>2. c.step = "index"
      BY DEF IInv, TypeOK, Call
    <3>3. call'[w] = c
      <4> HIDE DEF c
      <4> QED
        BY <3>1, <3>2, GoesTo
    <3> QED
      BY <1>4, <3>1, <3>3 DEF Adds, Commit
  <2> QED
    BY <2>1, <2>2
<1>5. CASE Index(w) \/ Reindex(w)
  <2>1. CASE Index(w)
    <3>1. GotoStep(w, AfterIndex(call[w])) /\ At(w, "index")
      BY <2>1 DEF Index
    <3>2. AfterIndex(call[w]) \in {"idle", "remove", "supersede"}
      BY DEF AfterIndex
    <3> QED
      BY <2>1, <3>1, <3>2, StepOf DEF Tells, Index, At, Steps
  <2>2. CASE Reindex(w)
    <3>1. call'[w].step = "idle"
      BY <2>2, StepOf DEF Reindex, Steps
    <3> QED
      BY <2>2, <3>1 DEF Tells, Reindex, At
  <2> QED
    BY <1>5, <2>1, <2>2
<1> QED
  BY <1>1, <1>2, <1>3, <1>4, <1>5 DEF Moves, Step

-----------------------------------------------------------------------------
(* Dates *)

LEMMA DatedStep ==
  ASSUME IInv, Dated, [Next]_vars PROVE Dated'
<1>0. clock \in Nat
  BY DEF IInv, TypeOK
<1>1. CASE UNCHANGED <<records, clock>>
  BY <1>1 DEF Dated
<1>2. CASE Tick
  <2>1. ASSUME NEW m \in DOMAIN records PROVE records[m].created <= clock + 1
    <3>1. records[m] \in Record /\ records[m].created <= clock
      BY DEF Dated, IInv, TypeOK
    <3> QED
      BY <1>0, <3>1 DEF Record
  <2> QED
    BY <1>2, <2>1 DEF Dated, Tick
<1>3. ASSUME NEW w \in Writers, Moves(w) PROVE Dated'
  <2>1. CASE Proceeds(w) \/ Tells(w)
    BY <2>1, <1>1 DEF Proceeds, Tells
  <2>2. CASE Revoke(w) \/ Revalidate(w) \/ Supersede(w)
    <3>1. PICK m \in DOMAIN records, r \in Record :
            Changed(w, m, r) /\ Alike(records[m], r)
      BY <2>2, Rewriting
    <3>2. /\ DOMAIN records' = DOMAIN records /\ clock' = clock
          /\ \A j \in DOMAIN records : records'[j] = IF j = m THEN r ELSE records[j]
      BY <3>1, Replaced DEF Changed, IInv, TypeOK
    <3> QED
      BY <3>1, <3>2 DEF Dated, Alike
  <2>3. CASE Adds(w)
    <3> DEFINE r == ToRecord(call[w].proposal, call[w].item)
    <3>1. records' = Append(records, r) /\ clock' = clock /\ r.created = clock
      BY <2>3 DEF Adds, ToRecord
    <3> HIDE DEF r
    <3>2. /\ DOMAIN records' = DOMAIN records \cup {Len(records) + 1}
          /\ \A i \in DOMAIN records : records'[i] = records[i]
          /\ records'[Len(records) + 1] = r
      BY <3>1 DEF IInv, TypeOK
    <3> QED
      BY <1>0, <3>1, <3>2 DEF Dated
  <2> QED
    BY <1>3, <2>1, <2>2, <2>3, KindsOfMoves
<1> QED
  BY <1>1, <1>2, <1>3 DEF Next, Moves, vars, stores, Crash

-----------------------------------------------------------------------------
(* One call at a time *)

LEMMA EntersOrSteps ==
  ASSUME NEW w \in Writers, Moves(w)
  PROVE  \/ \E c : Enter(w, c)
         \/ (\E c : Goto(w, c)) /\ ~At(w, "idle") /\ UNCHANGED mishap
<1>1. CASE Submit(w) \/ Release(w) \/ Revoke(w) \/ Revalidate(w) \/ Discard(w)
  BY <1>1 DEF Submit, Release, Revoke, Revalidate, Discard, Rewrite
<1>2. CASE Step(w)
  <2>1. ~At(w, "idle") /\ UNCHANGED mishap
    BY <1>2 DEF Step, CheckSuperseded, Dedupe, Commit, Index, Supersede, Reindex,
                Put, Remove, At
  <2>2. \E c : Goto(w, c)
    BY <1>2 DEF Step, CheckSuperseded, Dedupe, Commit, Index, Supersede, Reindex,
                Put, Remove, GotoStep
  <2> QED
    BY <2>1, <2>2
<1> QED
  BY <1>1, <1>2 DEF Moves

\* While calls do not overlap, the others are idle when one moves.
LEMMA OthersRest ==
  ASSUME IInv, Smooth => LoneInv, Smooth', NEW w \in Writers, Moves(w)
  PROVE  /\ LoneInv /\ mishap' = mishap
         /\ \A d \in Writers \ {w} : At(d, "idle") /\ call'[d] = call[d]
<1>1. CASE \E c : Enter(w, c)
  BY <1>1, GoesTo DEF Enter, Smooth
<1>2. CASE (\E c : Goto(w, c)) /\ ~At(w, "idle") /\ UNCHANGED mishap
  <2>1. LoneInv
    BY <1>2 DEF Smooth
  <2> QED
    BY <1>2, <2>1, GoesTo DEF LoneInv
<1> QED
  BY <1>1, <1>2, EntersOrSteps

\* So it is enough to look at the call that moved.
LEMMA LoneAssembled ==
  ASSUME NEW w \in Writers,
         \A d \in Writers \ {w} : At(d, "idle") /\ call'[d] = call[d],
         Fresh(call[w])',
         \A m \in DOMAIN records' : Known(m)' \/ Telling(w, m)'
  PROVE  LoneInv'
  BY DEF LoneInv, Fresh, At

\* What is known of a row whose place in the projection stays.
LEMMA KnownKept ==
  ASSUME NEW m, Known(m), records'[m] = records[m], m \in index <=> m \in index',
         clock' = clock
  PROVE  Known(m)'
  BY DEF Known, Active

LEMMA LoneMoves ==
  ASSUME IInv, Smooth => LoneInv, Smooth', NEW w \in Writers, Moves(w)
  PROVE  LoneInv'
<1>1. /\ LoneInv
      /\ \A d \in Writers \ {w} : At(d, "idle") /\ call'[d] = call[d]
  BY OthersRest
<1>2. Fresh(call[w]) /\ \A m \in DOMAIN records : Known(m) \/ Telling(w, m)
  BY <1>1 DEF LoneInv, Telling, At
<1>3. call[w] \in Call /\ Sound(call[w]) /\ records \in Seq(Record)
  BY Holds DEF IInv, TypeOK
<1>4. CASE Proceeds(w)
  <2>1. \A m \in DOMAIN records' : Known(m)'
    BY <1>2, <1>4, KnownKept DEF Proceeds, Telling
  <2>2. Fresh(call[w])'
    BY <1>4 DEF Proceeds, Fresh, Novel, Active
  <2> QED
    BY <1>1, <2>1, <2>2, LoneAssembled
<1>5. CASE Revoke(w) \/ Revalidate(w) \/ Supersede(w)
  <2>1. PICK m \in DOMAIN records, r \in Record : Changed(w, m, r)
    BY <1>5, Rewriting
  <2>2. /\ DOMAIN records' = DOMAIN records
        /\ \A j \in DOMAIN records : records'[j] = IF j = m THEN r ELSE records[j]
    BY <1>3, <2>1, Replaced DEF Changed
  <2>3. call[w].step \notin {"index", "reindex"}
    BY <1>5 DEF Revoke, Revalidate, Rewrite, Enter, Supersede, At
  <2>4. ASSUME NEW j \in DOMAIN records, j # m PROVE Known(j)'
    BY <1>2, <2>1, <2>2, <2>3, <2>4, KnownKept DEF Changed, Telling
  <2>5. Telling(w, m)' /\ Fresh(call[w])'
    BY <2>1, <2>2 DEF Changed, Telling, Fresh
  <2> QED
    BY <1>1, <2>2, <2>4, <2>5, LoneAssembled
<1>6. CASE Adds(w)
  <2> DEFINE r == ToRecord(call[w].proposal, call[w].item)
  <2>0. PICK n : n = Len(records) + 1
    OBVIOUS
  <2>1. /\ records' = Append(records, r) /\ UNCHANGED <<index, clock>>
        /\ call[w].step = "commit"
        /\ call'[w] = [call[w] EXCEPT !.step = "index", !.row = n, !.snapshot = r]
    BY <1>6, <2>0 DEF Adds, At
  <2> HIDE DEF r
  <2>2. /\ DOMAIN records' = DOMAIN records \cup {n}
        /\ \A i \in DOMAIN records : records'[i] = records[i]
        /\ records'[n] = r
    BY <1>3, <2>0, <2>1
  <2>3. call'[w].step = "index" /\ call'[w].row = n /\ call'[w].snapshot = r
    BY <1>3, <2>1 DEF Call
  <2>4. Telling(w, n)' /\ Fresh(call[w])'
    BY <2>2, <2>3 DEF Telling, Fresh
  <2>5. ASSUME NEW j \in DOMAIN records PROVE Known(j)'
    BY <1>2, <2>1, <2>2, KnownKept DEF Telling
  <2> QED
    BY <1>1, <2>2, <2>4, <2>5, LoneAssembled
<1>7. CASE Tells(w)
  <2>0. PICK m : m = call[w].row
    OBVIOUS
  <2>1. call[w].snapshot = records[m] /\ m \in DOMAIN records
    BY <1>2, <1>3, <1>7, <2>0 DEF Tells, Fresh, Sound
  <2>2. index' = IF Active(m) THEN index \cup {m} ELSE index \ {m}
    BY <1>7, <2>0, <2>1 DEF Tells, Upsert, Active
  <2>3. Known(m)'
    BY <1>7, <2>1, <2>2 DEF Tells, Known, Active, ActiveAt
  <2>4. ASSUME NEW j \in DOMAIN records, j # m PROVE Known(j)'
    BY <1>2, <1>7, <2>0, <2>2, <2>4, KnownKept DEF Tells, Telling
  <2>5. Fresh(call[w])'
    BY <1>7 DEF Tells, Fresh
  <2> QED
    BY <1>1, <1>7, <2>3, <2>4, <2>5, LoneAssembled DEF Tells
<1> QED
  BY <1>4, <1>5, <1>6, <1>7, KindsOfMoves

\* Time makes active only what was postdated.
LEMMA ActiveBefore ==
  ASSUME IInv, Dated, Tick, NEW m \in DOMAIN records,
         Active(m)', ~Postdated(records[m])
  PROVE  Active(m)
<1>1. records[m] \in Record /\ clock \in Nat /\ records[m].created <= clock
  BY DEF IInv, TypeOK, Dated
<1>2. records' = records /\ clock' = clock + 1
  BY DEF Tick
<1> QED
  BY <1>1, <1>2 DEF Active, ActiveAt, Postdated, Record

LEMMA LoneStep ==
  ASSUME IInv, Dated, Smooth => LoneInv, Smooth', [Next]_vars
  PROVE  LoneInv'
<1>1. CASE UNCHANGED vars
  BY <1>1 DEF vars, stores, Smooth, LoneInv, At, Fresh, Novel, Known, Active,
              Telling
<1>2. CASE Tick
  <2>1. LoneInv /\ UNCHANGED <<records, index, call>>
    BY <1>2 DEF Tick, Smooth
  <2>2. ASSUME NEW m \in DOMAIN records, Known(m) PROVE Known(m)'
    BY <1>2, <2>1, <2>2, ActiveBefore DEF Known
  <2>3. ASSUME NEW p, Novel(p) PROVE Novel(p)'
    BY <1>2, <2>1, <2>3, ActiveBefore DEF Novel
  <2>4. ASSUME NEW c, Fresh(c) PROVE Fresh(c)'
    BY <2>1, <2>3, <2>4 DEF Fresh
  <2> QED
    BY <2>1, <2>2, <2>4 DEF LoneInv, At, Telling
<1>3. CASE Crash
  <2>1. \A w \in Writers : call'[w] = NoCall
    BY <1>3 DEF Crash
  <2>2. \A m \in DOMAIN records' : Known(m)'
    BY <1>3 DEF Crash, Known, Active, ActiveAt
  <2> QED
    BY <2>1, <2>2 DEF LoneInv, At, NoCall, Fresh
<1> QED
  BY <1>1, <1>2, <1>3, LoneMoves DEF Next, Moves

-----------------------------------------------------------------------------
(* What a record supersedes is retired *)

\* A record that has retired its predecessor has done so for good.
LEMMA RetiredKept ==
  ASSUME IInv, NEW m \in DOMAIN records, HasRetired(m),
         \A j \in DOMAIN records : Alike(records[j], records'[j])
  PROVE  HasRetired(m)'
<1>1. records[m].supersedes \in {None} \cup DOMAIN records
  BY DEF IInv, RowsLinked, Linked
<1> QED
  BY <1>1 DEF HasRetired, Alike

LEMMA RetiringMoves ==
  ASSUME IInv, LoneInv, RetiringInv, NEW w \in Writers, Moves(w),
         \A d \in Writers \ {w} : At(d, "idle") /\ call'[d] = call[d]
  PROVE  RetiringInv'
<1>1. \A m \in DOMAIN records : HasRetired(m) \/ Retiring(w, m)
  BY DEF RetiringInv, Retiring, At
<1>2. call[w] \in Call /\ Sound(call[w]) /\ records \in Seq(Record)
  BY Holds DEF IInv, TypeOK
<1>3. CASE Proceeds(w)
  BY <1>1, <1>3, RetiredKept DEF Proceeds, Retiring, Alike, RetiringInv
<1>4. CASE Revoke(w) \/ Revalidate(w) \/ Supersede(w)
  <2>1. PICK old \in DOMAIN records, r \in Record :
          /\ Changed(w, old, r) /\ Alike(records[old], r)
          /\ Supersede(w) => /\ old = call[w].proposal.supersedes
                             /\ r.by = call[w].row /\ call[w].row # None
    BY <1>4, Rewriting
  <2>2. /\ DOMAIN records' = DOMAIN records
        /\ \A j \in DOMAIN records : records'[j] = IF j = old THEN r ELSE records[j]
    BY <1>2, <2>1, Replaced DEF Changed
  <2>3. \A j \in DOMAIN records : Alike(records[j], records'[j])
    BY <2>1, <2>2 DEF Alike
  <2>4. ASSUME NEW m \in DOMAIN records, Retiring(w, m) PROVE HasRetired(m)'
    <3>1. Supersede(w)
      BY <1>4, <2>4 DEF Retiring, Revoke, Revalidate, Rewrite, Enter, At
    <3>2. records'[m].supersedes = old /\ records'[old].by # None
      BY <2>1, <2>2, <2>3, <2>4, <3>1 DEF Retiring, Alike
    <3> QED
      BY <3>2 DEF HasRetired
  <2> QED
    BY <1>1, <2>2, <2>3, <2>4, RetiredKept DEF RetiringInv
<1>5. CASE Adds(w)
  <2> DEFINE r == ToRecord(call[w].proposal, call[w].item)
  <2>0. PICK n : n = Len(records) + 1
    OBVIOUS
  <2>1. /\ records' = Append(records, r) /\ call[w].step = "commit"
        /\ call'[w] = [call[w] EXCEPT !.step = "index", !.row = n, !.snapshot = r]
        /\ r.origin = call[w].item /\ r.supersedes = call[w].proposal.supersedes
    BY <1>5, <2>0 DEF Adds, At, ToRecord
  <2> HIDE DEF r
  <2>2. /\ DOMAIN records' = DOMAIN records \cup {n}
        /\ \A i \in DOMAIN records : records'[i] = records[i]
        /\ records'[n] = r
    BY <1>2, <2>0, <2>1
  <2>3. /\ call'[w].step = "index" /\ call'[w].row = n
        /\ call'[w].item = call[w].item /\ call'[w].proposal = call[w].proposal
    BY <1>2, <2>1 DEF Call
  <2>4. Retiring(w, n)'
    BY <2>1, <2>2, <2>3 DEF Retiring
  <2>5. \A m \in DOMAIN records : HasRetired(m)
    BY <1>1, <2>1 DEF Retiring
  <2>6. \A m \in DOMAIN records : HasRetired(m)'
    BY <2>2, <2>5, RetiredKept DEF Alike
  <2> QED
    BY <2>2, <2>4, <2>6 DEF RetiringInv
<1>6. CASE Tells(w)
  <2>1. UNCHANGED records
    BY <1>6 DEF Tells
  <2>2. ASSUME NEW m \in DOMAIN records, HasRetired(m) PROVE HasRetired(m)'
    BY <2>1, <2>2, RetiredKept DEF Alike
  <2>3. ASSUME NEW m \in DOMAIN records, Retiring(w, m)
        PROVE  HasRetired(m)' \/ Retiring(w, m)'
    <3>1. At(w, "index")
      BY <1>6, <2>3 DEF Tells, Retiring, At
    <3>2. CASE call[w].item = None /\ call[w].proposal.supersedes # None
      <4>1. AfterIndex(call[w]) = "supersede"
        BY <3>2 DEF AfterIndex
      <4>2. call'[w] = [call[w] EXCEPT !.step = "supersede"]
        BY <1>6, <3>1, <4>1 DEF Tells
      <4>3. /\ call'[w].step = "supersede" /\ call'[w].row = call[w].row
            /\ call'[w].item = call[w].item /\ call'[w].proposal = call[w].proposal
        BY <1>2, <4>2 DEF Call
      <4> QED
        BY <2>1, <2>3, <4>3 DEF Retiring
    <3>3. CASE ~(call[w].item = None /\ call[w].proposal.supersedes # None)
      BY <2>1, <2>3, <3>3 DEF Retiring, HasRetired
    <3> QED
      BY <3>2, <3>3
  <2> QED
    BY <1>1, <2>1, <2>2, <2>3 DEF RetiringInv
<1> QED
  BY <1>3, <1>4, <1>5, <1>6, KindsOfMoves

LEMMA RetiringStep ==
  ASSUME IInv, Smooth => LoneInv, mishap = "none" => RetiringInv,
         mishap' = "none", [Next]_vars
  PROVE  RetiringInv'
<1>1. CASE UNCHANGED <<records, call, mishap>>
  BY <1>1 DEF RetiringInv, HasRetired, Retiring
<1>2. CASE Crash
  BY <1>2 DEF Crash
<1>3. ASSUME NEW w \in Writers, Moves(w) PROVE RetiringInv'
  BY <1>3, OthersRest, RetiringMoves DEF Smooth
<1> QED
  BY <1>1, <1>2, <1>3 DEF Next, Moves, Tick, vars, stores

-----------------------------------------------------------------------------
LEMMA JInitially == Init => JInv
<1> SUFFICES ASSUME Init PROVE JInv
  OBVIOUS
<1>1. IInv
  BY InitSound
<1>2. DOMAIN records = {}
  BY DEF Init
<1>3. LoneInv
  BY <1>2 DEF Init, LoneInv, At, NoCall, Fresh
<1> QED
  BY <1>1, <1>2, <1>3 DEF JInv, Dated, RetiringInv

LEMMA JStep == JInv /\ [Next]_vars => JInv'
  BY StepSound, DatedStep, LoneStep, RetiringStep DEF JInv

-----------------------------------------------------------------------------
(* Theorems *)

\* The stores, the projection and what callers hold keep their types.
THEOREM TypeCorrect == Spec => []TypeOK
<1>1. IInv => TypeOK
  BY DEF IInv
<1> QED
  BY <1>1, InitSound, StepSound, PTL DEF Spec

\* audit_memory never has an error to report, whatever calls overlap and
\* wherever the process dies.
THEOREM AuditAlwaysClean == Spec => []AuditClean
<1>1. IInv => AuditClean
  <2> SUFFICES ASSUME IInv, NEW m \in DOMAIN records
               PROVE  LET r == records[m]
                      IN /\ {r.supersedes, r.by} \subseteq {None} \cup DOMAIN records
                         /\ r.state = "superseded"
                              => r.invalidated /\ r.until # Never /\ r.by # None
    BY DEF AuditClean
  <2>1. records[m] \in Record /\ Linked(records[m]) /\ clock \in 1..MaxTime
    BY DEF IInv, TypeOK, RowsLinked
  <2>2. records[m].until \in Nat
    BY <2>1 DEF Record
  <2> QED
    BY <2>1, <2>2, ConstantsAssumption DEF Linked, Never
<1> QED
  BY <1>1, InitSound, StepSound, PTL DEF Spec

\* A record that was superseded is never active again, although revalidate may
\* lift its invalidation: its end has passed.
THEOREM RetiredForGood == Spec => []RetiredStaysRetired
<1>1. IInv => RetiredStaysRetired
  <2> SUFFICES ASSUME IInv, NEW m \in DOMAIN records, records[m].by # None
               PROVE  ~Active(m)
    BY DEF RetiredStaysRetired
  <2>1. records[m] \in Record /\ Linked(records[m]) /\ clock \in 1..MaxTime
    BY DEF IInv, TypeOK, RowsLinked
  <2>2. records[m].until \in Nat
    BY <2>1 DEF Record
  <2> QED
    BY <2>1, <2>2 DEF Linked, Active, ActiveAt
<1> QED
  BY <1>1, InitSound, StepSound, PTL DEF Spec

\* A reviewed proposal leaves quarantine only when it is discarded or after its
\* record was committed, even if the process dies in between.
THEOREM NothingEverLost == Spec => []NothingIsLost
<1>1. IInv => NothingIsLost
  BY DEF IInv
<1> QED
  BY <1>1, InitSound, StepSound, PTL DEF Spec

\* While calls do not overlap, and between them, what is active can be found and
\* what was invalidated cannot: through revocations, restorations, crashes and
\* the passing of time.
THEOREM ActiveAreFound == Spec => []ActiveIsIndexed
<1>1. JInv => ActiveIsIndexed
  BY DEF JInv, LoneInv, ActiveIsIndexed, Quiet, At, Telling, Known
<1> QED
  BY <1>1, JInitially, JStep, PTL DEF Spec

\* Undisturbed, whoever submits a record that supersedes another leaves with the
\* other one retired.
THEOREM SubmittedRetire == Spec => []SupersedingRetires
<1>1. JInv => SupersedingRetires
  BY DEF JInv, RetiringInv, SupersedingRetires, Quiet, At, Retiring, HasRetired
<1> QED
  BY <1>1, JInitially, JStep, PTL DEF Spec

\* While calls do not overlap, no record is committed whose content an active
\* one has, although time passes between the check and the write.
THEOREM CommitsAreNovel == Spec => NewIsNovel
<1> DEFINE Adding == Smooth /\ Len(records') > Len(records)
           r == records'[Len(records')]
           IsNovel == \A m \in DOMAIN records :
                        Active(m) /\ m # r.supersedes /\ ~Postdated(records[m])
                          => records[m].content # r.content
<1>1. JInv /\ [Next]_vars => [Adding => IsNovel]_vars
  <2> SUFFICES ASSUME JInv, Next, Adding PROVE IsNovel
    OBVIOUS
  <2>0. records \in Seq(Record)
    BY DEF JInv, IInv, TypeOK
  <2>1. PICK w \in Writers : Moves(w)
    BY <2>0 DEF Next, Moves, Tick, Crash
  <2>2. Adds(w)
    <3>1. UNCHANGED records => FALSE
      BY <2>0
    <3>2. ~Proceeds(w) /\ ~Tells(w)
      BY <3>1 DEF Proceeds, Tells
    <3>3. CASE Revoke(w) \/ Revalidate(w) \/ Supersede(w)
      <4>1. PICK m \in DOMAIN records, s \in Record : Changed(w, m, s)
        BY <3>3, Rewriting DEF JInv
      <4>2. Len(records') = Len(records)
        BY <2>0, <4>1 DEF Changed
      <4> QED
        BY <2>0, <4>2
    <3> QED
      BY <2>1, <3>2, <3>3, KindsOfMoves DEF JInv
  <2> DEFINE s == ToRecord(call[w].proposal, call[w].item)
  <2>3. /\ records' = Append(records, s) /\ call[w].step = "commit"
        /\ s.content = call[w].proposal.content
        /\ s.supersedes = call[w].proposal.supersedes
    BY <2>2 DEF Adds, At, ToRecord
  <2> HIDE DEF s
  <2>4. r = s
    BY <2>0, <2>3
  <2>5. Novel(call[w].proposal)
    BY <2>3 DEF JInv, LoneInv, Fresh
  <2> QED
    BY <2>3, <2>4, <2>5 DEF Novel
<1> QED
  BY <1>1, JInitially, JStep, PTL DEF Spec, NewIsNovel
=============================================================================
