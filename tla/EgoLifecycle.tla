---------------------------- MODULE EgoLifecycle ----------------------------
(***************************************************************************)
(* The durable versions of one E.G.O package: the store (ego/sqlite_port),  *)
(* the adapter that installs a promoted artifact (experience/application),  *)
(* the guard that turns replay regressions into invalidation candidates     *)
(* (ego/lifecycle) and the telemetry it reports to.                         *)
(*                                                                         *)
(* A call of the store or of the telemetry is one transaction and one step. *)
(* The adapter and the guard make several of them and hold no lock across   *)
(* them: callers interleave and the process may die between any two.  The   *)
(* promotion ledger is in memory only; everything else is durable.          *)
(***************************************************************************)
EXTENDS Naturals, FiniteSets

CONSTANTS
  Callers,    \* threads of the process
  Versions,   \* versions of the package, in semantic order
  Monitored,  \* bound: the versions whose replays are reported
  Artifacts,  \* promotion artifacts that target the package
  Runs,       \* replay runs
  Failing,    \* those with a failed test
  NoPackage,  \* no row for a version
  NoCandidate \* no row for a candidate

ASSUME ConstantsAssumption ==
  Versions \subseteq Nat \ {0} /\ Monitored \subseteq Versions /\ Failing \subseteq Runs

\* Of some versions one is the newest.
ASSUME NewestAssumption ==
  \A S \in (SUBSET Versions) \ {{}} : \E v \in S : \A u \in S : u <= v

None == 0 \* no superseding version

\* InstalledEgoPackage, without the manifest and the reasons.
Package == [state: {"active", "disabled", "superseded"},
            artifact: Artifacts, by: Versions \cup {None}]

ASSUME NoPackageAssumption == NoPackage \notin Package

\* The candidate of a run against a version: its id is a digest of both and of
\* the failed tests, which the run decides.
Ids == Monitored \X Failing

\* EgoInvalidationCandidate: the artifact and how it was resolved.
Candidate == [artifact: Artifacts, status: {"pending", "approved", "rejected"}]

ASSUME NoCandidateAssumption == NoCandidate \notin Candidate

VARIABLES
  packages,   \* ego_packages
  beside,     \* history: was a version last installed beside an active one?
  candidates, \* ego_invalidation_candidates
  audit,      \* ego_audit_events: the last one of a version, those of a candidate
  telemetry,  \* the <<version, run>> whose health was recorded
  applied,    \* the ledger: artifacts with a receipt
  call,       \* what a caller is doing
  enacted,    \* history: the candidates in whose name the version was disabled
  mishap      \* history: did calls overlap, or else did the process die?

vars == <<packages, beside, candidates, audit, telemetry, applied, call, enacted, mishap>>

Steps == {"idle", "lookup", "install", "receipt",
          "health", "find", "put", "created",
          "inspect", "disable", "resolve", "resolved"}

\* The version and artifact of an application, the version and run of a replay
\* report or of a candidate, and the verdict a reviewer gives.
Call == [step: Steps, version: Versions \cup {None},
         artifact: Artifacts \cup {NoPackage}, run: Runs \cup {NoCandidate},
         verdict: {"pending", "approved", "rejected"}]

NoCall == [step |-> "idle", version |-> None, artifact |-> NoPackage,
           run |-> NoCandidate, verdict |-> "pending"]

Init ==
  /\ packages = [v \in Versions |-> NoPackage]
  /\ beside = FALSE
  /\ candidates = [c \in Ids |-> NoCandidate]
  /\ audit = [last |-> [v \in Versions |-> "none"], review |-> {}]
  /\ telemetry = {} /\ applied = {}
  /\ call = [w \in Callers |-> NoCall]
  /\ enacted = {} /\ mishap = "none"

-----------------------------------------------------------------------------
At(w, step) == call[w].step = step

Version(w) == call[w].version

Id(w) == <<call[w].version, call[w].run>>

\* A call that is over leaves nothing behind.
Goto(w, step) ==
  call' = [call EXCEPT ![w] = IF step = "idle" THEN NoCall ELSE [@ EXCEPT !.step = step]]

\* record_audit of one event about a candidate.
Audits(c, action) == audit' = [audit EXCEPT !.review = @ \cup {<<c, action>>}]

\* Was any other call under way?
Overlap(w) ==
  mishap' = IF \E u \in Callers \ {w} : ~At(u, "idle") THEN "overlap" ELSE mishap

Enter(w, c) ==
  /\ At(w, "idle")
  /\ call' = [call EXCEPT ![w] = c]
  /\ Overlap(w)

Installed(v) == packages[v] # NoPackage

Active(v) == Installed(v) /\ packages[v].state = "active"

-----------------------------------------------------------------------------
(* The store *)

\* The versions a new active version v displaces, and what becomes of them.
Displaced(v) == {u \in Versions \ {v} : Active(u)}

DisplaceFor(v) ==
  [u \in Versions |->
     IF u \in Displaced(v) THEN [packages[u] EXCEPT !.state = "superseded", !.by = v]
     ELSE packages[u]]

\* One audit event for each displaced version, and then one for v.
AuditFor(v, action) ==
  audit' = [audit EXCEPT !.last = [u \in Versions |->
              IF u = v THEN action
              ELSE IF u \in Displaced(v) THEN "supersede" ELSE @[u]]]

\* Mutant: no unique index on the artifact.
ConflictsByVersion(v, a) == Installed(v)

\* An install conflicts with a row of the same version or of the same artifact.
Conflicts(v, a) ==
  Installed(v) \/ \E u \in Versions : Installed(u) /\ packages[u].artifact = a

Fresh(a) == [state |-> "active", artifact |-> a, by |-> None]

\* install; a conflict undoes the transaction.
Install(v, a) ==
  IF Conflicts(v, a) THEN UNCHANGED <<packages, beside, audit>>
  ELSE /\ packages' = [DisplaceFor(v) EXCEPT ![v] = Fresh(a)]
       /\ beside' = FALSE
       /\ AuditFor(v, "install")

\* install with supersede_active=False: what is active stays active.
InstallBeside(v, a) ==
  /\ ~Conflicts(v, a)
  /\ packages' = [packages EXCEPT ![v] = Fresh(a)]
  /\ beside' = (beside \/ Displaced(v) # {})
  /\ audit' = [audit EXCEPT !.last[v] = "install"]

\* disable, whatever the state of the version.
Disable(v) ==
  /\ packages' = [packages EXCEPT ![v].state = "disabled", ![v].by = None]
  /\ audit' = [audit EXCEPT !.last[v] = "disable"]
  /\ UNCHANGED beside

\* Mutant: what is active stays active.
RollbackBeside(v) ==
  /\ packages' = [packages EXCEPT ![v].state = "active", ![v].by = None]
  /\ beside' = FALSE
  /\ audit' = [audit EXCEPT !.last[v] = "rollback"]

\* rollback, to whatever the state of the version was.
Rollback(v) ==
  /\ packages' = [DisplaceFor(v) EXCEPT ![v].state = "active", ![v].by = None]
  /\ beside' = FALSE
  /\ AuditFor(v, "rollback")

\* An operator calls the store directly; an unknown version is refused.  A package
\* installed without an artifact is one with an artifact of its own: no other row
\* conflicts with it.
OperatorActs(w) ==
  /\ At(w, "idle")
  /\ \E v \in Versions :
       \/ Installed(v) /\ (Disable(v) \/ Rollback(v))
       \/ \E a \in Artifacts : Install(v, a) \/ InstallBeside(v, a)
  /\ Overlap(w)
  /\ UNCHANGED <<candidates, telemetry, applied, call, enacted>>

\* get without a version, as DurableEgoRegistryView calls it: the newest active
\* version, else the newest one, which the view then refuses.
Newest(S) == CHOOSE v \in S : \A u \in S : u <= v

Selected ==
  LET rows == {v \in Versions : Installed(v)}
      active == {v \in rows : Active(v)}
  IN  IF active # {} THEN Newest(active) ELSE IF rows # {} THEN Newest(rows) ELSE None

Served == IF Selected # None /\ Active(Selected) THEN Selected ELSE None

\* list_active, which the view lists.
Listed == {v \in Versions : Active(v)}

-----------------------------------------------------------------------------
(* DurableEgoApplyAdapter.apply *)

\* An artifact with a receipt has been applied already.
Apply(w) ==
  /\ \E v \in Versions, a \in Artifacts \ applied :
       Enter(w, [NoCall EXCEPT !.step = "lookup", !.version = v, !.artifact = a])
  /\ UNCHANGED <<packages, beside, candidates, audit, telemetry, applied, enacted>>

\* The manifest and its digest are made from the artifact and the version: the
\* row of a version has the digest asked for when it has the artifact.
SameProvenance(v, a) == packages[v].artifact = a

\* A row of the same provenance is taken for the installed one, whatever its
\* state; one of another provenance is an error.
LookUp(w) ==
  /\ At(w, "lookup")
  /\ LET v == Version(w) IN
       Goto(w, IF ~Installed(v) THEN "install"
               ELSE IF SameProvenance(v, call[w].artifact) THEN "receipt" ELSE "idle")
  /\ UNCHANGED <<packages, beside, candidates, audit, telemetry, applied, enacted, mishap>>

InstallArtifact(w) ==
  /\ At(w, "install")
  /\ Install(Version(w), call[w].artifact)
  /\ Goto(w, IF Conflicts(Version(w), call[w].artifact) THEN "idle" ELSE "receipt")
  /\ UNCHANGED <<candidates, telemetry, applied, enacted, mishap>>

RecordReceipt(w) ==
  /\ At(w, "receipt")
  /\ applied' = applied \cup {call[w].artifact}
  /\ Goto(w, "idle")
  /\ UNCHANGED <<packages, beside, candidates, audit, telemetry, enacted, mishap>>

-----------------------------------------------------------------------------
(* EgoLifecycleGuard *)

\* assess_replay of a report on an active version; the guard may have telemetry.
Assess(w, v, r) ==
  /\ Active(v)
  /\ \E step \in {"health"} \cup (IF r \in Failing THEN {"find"} ELSE {}) :
       Enter(w, [NoCall EXCEPT !.step = step, !.version = v, !.run = r])
  /\ UNCHANGED <<packages, beside, candidates, audit, telemetry, applied, enacted>>

\* The id of the event is a digest of the version and the run.
HealthEvent(w) == Id(w)

\* telemetry.record.  The event carries the time it is made at: a second event of a run differs and is refused, unless the
\* clock has not moved.
RecordHealth(w) ==
  /\ At(w, "health")
  /\ telemetry' = telemetry \cup {HealthEvent(w)}
  /\ \/ Goto(w, IF call[w].run \in Failing THEN "find" ELSE "idle")
     \/ HealthEvent(w) \in telemetry /\ Goto(w, "idle")
  /\ UNCHANGED <<packages, beside, candidates, audit, applied, enacted, mishap>>

FindCandidate(w) ==
  /\ At(w, "find")
  /\ Goto(w, IF candidates[Id(w)] = NoCandidate THEN "put" ELSE "idle")
  /\ UNCHANGED <<packages, beside, candidates, audit, telemetry, applied, enacted, mishap>>

\* put_invalidation_candidate; a row that exists is an error.
PutCandidate(w) ==
  /\ At(w, "put")
  /\ IF candidates[Id(w)] = NoCandidate
     THEN /\ candidates' = [candidates EXCEPT ![Id(w)] =
               [artifact |-> packages[Version(w)].artifact, status |-> "pending"]]
          /\ Goto(w, "created")
     ELSE UNCHANGED candidates /\ Goto(w, "idle")
  /\ UNCHANGED <<packages, beside, audit, telemetry, applied, enacted, mishap>>

AuditCreated(w) ==
  /\ At(w, "created")
  /\ Audits(Id(w), "pending")
  /\ Goto(w, "idle")
  /\ UNCHANGED <<packages, beside, candidates, telemetry, applied, enacted, mishap>>

Pending(c) == candidates[c] # NoCandidate /\ candidates[c].status = "pending"

\* A reviewer takes up a pending candidate.
Review(w, c, verdict, step) ==
  /\ Pending(c)
  /\ Enter(w, [NoCall EXCEPT !.step = step, !.version = c[1], !.run = c[2],
                             !.verdict = verdict])
  /\ UNCHANGED <<packages, beside, candidates, audit, telemetry, applied, enacted>>

Approve(w) == \E c \in Ids : Review(w, c, "approved", "inspect")

Reject(w) == \E c \in Ids : Review(w, c, "rejected", "resolve")

\* Mutant: approve resolves the candidate of a version that is not active any more.
InspectLeniently(w) ==
  /\ At(w, "inspect")
  /\ Goto(w, IF Active(Version(w)) THEN "disable" ELSE "resolve")
  /\ UNCHANGED <<packages, beside, candidates, audit, telemetry, applied, enacted, mishap>>

\* approve goes on only for the active version.
Inspect(w) ==
  /\ At(w, "inspect")
  /\ Goto(w, IF Active(Version(w)) THEN "disable" ELSE "idle")
  /\ UNCHANGED <<packages, beside, candidates, audit, telemetry, applied, enacted, mishap>>

DisableTarget(w) ==
  /\ At(w, "disable")
  /\ Disable(Version(w))
  /\ enacted' = enacted \cup {Id(w)}
  /\ Goto(w, "resolve")
  /\ UNCHANGED <<candidates, telemetry, applied, mishap>>

\* update_invalidation_candidate, whatever the status of the row.
Resolve(w) ==
  /\ At(w, "resolve")
  /\ candidates' = [candidates EXCEPT ![Id(w)].status = call[w].verdict]
  /\ Goto(w, "resolved")
  /\ UNCHANGED <<packages, beside, audit, telemetry, applied, enacted, mishap>>

AuditResolved(w) ==
  /\ At(w, "resolved")
  /\ Audits(Id(w), call[w].verdict)
  /\ Goto(w, "idle")
  /\ UNCHANGED <<packages, beside, candidates, telemetry, applied, enacted, mishap>>

-----------------------------------------------------------------------------
\* The process dies and comes back with an empty ledger.
Crash ==
  /\ mishap' = "crash"
  /\ applied' = {}
  /\ call' = [w \in Callers |-> NoCall]
  /\ UNCHANGED <<packages, beside, candidates, audit, telemetry, enacted>>

\* The rest of a call.
Advance(w) ==
  \/ LookUp(w) \/ InstallArtifact(w) \/ RecordReceipt(w)
  \/ RecordHealth(w) \/ FindCandidate(w) \/ PutCandidate(w) \/ AuditCreated(w)
  \/ Inspect(w) \/ DisableTarget(w) \/ Resolve(w) \/ AuditResolved(w)

Next ==
  \/ \E w \in Callers : OperatorActs(w) \/ Apply(w) \/ Approve(w) \/ Reject(w) \/ Advance(w)
  \/ \E w \in Callers, v \in Monitored, r \in Runs : Assess(w, v, r)
  \/ Crash

Spec == Init /\ [][Next]_vars

-----------------------------------------------------------------------------
\* Types of the tables, of the ledger and of the callers' locals.
TypeOK ==
  /\ packages \in [Versions -> Package \cup {NoPackage}]
  /\ beside \in BOOLEAN
  /\ candidates \in [Ids -> Candidate \cup {NoCandidate}]
  /\ audit \in [last: [Versions -> {"none", "install", "supersede", "disable", "rollback"}],
                review: SUBSET (Ids \X {"pending", "approved", "rejected"})]
  /\ telemetry \subseteq Monitored \X Runs
  /\ applied \subseteq Artifacts
  /\ call \in [Callers -> Call]
  /\ enacted \subseteq Ids
  /\ mishap \in {"none", "overlap", "crash"}

\* The version get selects for the registry view is the newest one it lists, never
\* one that is not active, and none active is hidden behind it.  Two are listed
\* only from an install that was told to leave the active ones so up to the next
\* install that was not, or the next rollback, however far back that reaches.
ServedIsListed ==
  /\ Served = IF Listed = {} THEN None ELSE Newest(Listed)
  /\ ~beside => Listed \subseteq {Served}

\* An artifact is installed under one version only, even when the ledger that
\* knows of its application is lost and it is applied again under another.
OnePackagePerArtifact ==
  \A v, u \in Versions :
    Installed(v) /\ Installed(u) /\ packages[v].artifact = packages[u].artifact => v = u

\* The last audit event of a version tells the state it is in, also for the
\* versions an install or a rollback of another one displaced.
AuditTellsState ==
  \A v \in Versions :
    LET last == audit.last[v] IN
    IF ~Installed(v) THEN last = "none"
    ELSE packages[v].state =
           CASE last \in {"install", "rollback"} -> "active"
             [] last = "supersede" -> "superseded"
             [] last = "disable" -> "disabled"

\* An approved candidate did disable its version, and while nobody's calls overlap
\* and the process does not die, a rejected or a pending one (of a reviewer who
\* has gone) did not.
VerdictTellsEffect ==
  \A c \in Ids : candidates[c] # NoCandidate =>
    /\ candidates[c].status = "approved" => c \in enacted
    /\ mishap = "none" /\ (\A w \in Callers : At(w, "idle")) =>
         (candidates[c].status = "approved" <=> c \in enacted)
=============================================================================
