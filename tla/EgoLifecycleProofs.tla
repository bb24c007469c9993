------------------------- MODULE EgoLifecycleProofs -------------------------
(***************************************************************************)
(* Proofs about EgoLifecycle, for any callers, versions, artifacts and      *)
(* runs.                                                                   *)
(*                                                                         *)
(* Only four operations of the store write packages, each in one step, and  *)
(* Stores says so of every step of the system.  What is proved of packages  *)
(* is therefore independent of who calls them in what order, and of crashes.*)
(* Only an install that is told to leave other versions active makes a      *)
(* second one active (OneActive), and the next one that is not ends that.   *)
(* The callers' side, CallsFit, is what makes those calls be about versions *)
(* that exist: a guard looks a version up before it disables it, and a row  *)
(* is never deleted (RowsStay).                                            *)
(*                                                                         *)
(* A verdict tells its effect because a reviewer disables before it         *)
(* approves (Resolving), and while there is one call at a time nobody       *)
(* enacts a candidate that another is about to reject (Orderly).            *)
(*                                                                         *)
(* Of the routing: the least hit weighs more than the largest adjustment    *)
(* (ScoreFollows), so feedback reorders and does not select, whatever the   *)
(* past (AdjustmentBounds, of sums that TotalIs finds).  A finite set has a *)
(* sequence in order (LinesUp), and two orders that agree choose the same   *)
(* one (SameLines): what relevance puts far apart, feedback leaves there.   *)
(***************************************************************************)
EXTENDS EgoServing, FiniteSetTheorems, WellFoundedInduction, TLAPS

LOCAL ST == INSTANCE SequenceTheorems

\* What a caller carries at each of its steps.
CallFits(c) ==
  /\ c.step \in {"lookup", "install", "receipt"} =>
       c.version \in Versions /\ c.artifact \in Artifacts
  /\ c.step = "health" =>
       c.version \in Monitored /\ c.run \in Runs /\ Installed(c.version)
  /\ c.step \in {"find", "put", "created", "inspect", "disable", "resolve", "resolved"} =>
       c.version \in Monitored /\ c.run \in Failing /\ Installed(c.version)
  /\ c.step \in {"inspect", "disable", "resolve", "resolved"} =>
       candidates[<<c.version, c.run>>] # NoCandidate

CallsFit == \A w \in Callers : CallFits(call[w])

\* A candidate is of a version that is installed.
CandidatesFit == \A c \in Ids : candidates[c] # NoCandidate => Installed(c[1])

\* Never two active versions, unless one was installed beside another.
OneActive == ~beside => \A v, u \in Versions : Active(v) /\ Active(u) => v = u

-----------------------------------------------------------------------------
(* The store *)

\* What a step may do to packages and to the last audit events of versions.
Stores ==
  \/ packages' = packages /\ beside' = beside /\ audit'.last = audit.last
  \/ \E v \in Versions, a \in Artifacts :
       (~Conflicts(v, a) /\ Install(v, a)) \/ InstallBeside(v, a)
  \/ \E v \in Versions : Installed(v) /\ (Disable(v) \/ Rollback(v))

LEMMA StoreSteps == TypeOK /\ CallsFit /\ [Next]_vars => Stores
<1> SUFFICES ASSUME TypeOK, CallsFit, [Next]_vars PROVE Stores
  OBVIOUS
<1>1. CASE UNCHANGED vars
  BY <1>1 DEF vars, Stores
<1>2. CASE Crash
  BY <1>2 DEF Crash, Stores
<1>3. ASSUME NEW w \in Callers,
             OperatorActs(w) \/ Apply(w) \/ Approve(w) \/ Reject(w) \/ Advance(w)
      PROVE  Stores
  <2>1. CASE OperatorActs(w)
    BY <2>1 DEF OperatorActs, Install, Stores
  <2>2. CASE InstallArtifact(w)
    <3>1. Version(w) \in Versions /\ call[w].artifact \in Artifacts
      BY <2>2 DEF InstallArtifact, At, CallsFit, CallFits, Version
    <3>2. CASE Conflicts(Version(w), call[w].artifact)
      BY <2>2, <3>2 DEF InstallArtifact, Install, Stores
    <3>3. CASE ~Conflicts(Version(w), call[w].artifact)
      BY <2>2, <3>1, <3>3 DEF InstallArtifact, Stores
    <3> QED
      BY <3>2, <3>3
  <2>3. CASE DisableTarget(w)
    <3>1. Version(w) \in Versions /\ Installed(Version(w))
      BY <2>3, ConstantsAssumption DEF DisableTarget, At, CallsFit, CallFits, Version
    <3> QED
      BY <2>3, <3>1 DEF DisableTarget, Stores
  <2>4. CASE AuditCreated(w) \/ AuditResolved(w)
    <3>1. audit'.last = audit.last
      BY <2>4 DEF AuditCreated, AuditResolved, Audits, TypeOK
    <3> QED
      BY <2>4, <3>1 DEF AuditCreated, AuditResolved, Stores
  <2>5. CASE Apply(w) \/ Approve(w) \/ Reject(w) \/ LookUp(w) \/ RecordReceipt(w)
             \/ RecordHealth(w) \/ FindCandidate(w) \/ PutCandidate(w) \/ Inspect(w) \/ Resolve(w)
    BY <2>5 DEF Apply, Approve, Reject, Review, LookUp, RecordReceipt, RecordHealth,
       FindCandidate, PutCandidate, Inspect, Resolve, Stores
  <2> QED
    BY <1>3, <2>1, <2>2, <2>3, <2>4, <2>5 DEF Advance
<1>4. ASSUME NEW w \in Callers, NEW v \in Monitored, NEW r \in Runs, Assess(w, v, r)
      PROVE  Stores
  BY <1>4 DEF Assess, Stores
<1> QED
  BY <1>1, <1>2, <1>3, <1>4 DEF Next

\* The rows after version v became active, and those of the versions it displaced.
LEMMA Displacing ==
  ASSUME packages \in [Versions -> Package \cup {NoPackage}], NEW v \in Versions
  PROVE  /\ DisplaceFor(v) \in [Versions -> Package \cup {NoPackage}]
         /\ DisplaceFor(v)[v] = packages[v]
         /\ \A u \in Versions \ {v} :
              /\ DisplaceFor(v)[u] = NoPackage <=> packages[u] = NoPackage
              /\ packages[u] # NoPackage =>
                   /\ DisplaceFor(v)[u].artifact = packages[u].artifact
                   /\ DisplaceFor(v)[u].state # "active"
              /\ u \in Displaced(v) => DisplaceFor(v)[u].state = "superseded"
              /\ u \notin Displaced(v) => DisplaceFor(v)[u] = packages[u]
<1> DEFINE Retired(p) == [p EXCEPT !.state = "superseded", !.by = v]
<1>1. ASSUME NEW p \in Package
      PROVE  /\ Retired(p) \in Package /\ Retired(p).state = "superseded"
             /\ Retired(p).artifact = p.artifact
  BY DEF Package
<1>a. ASSUME NEW u \in Displaced(v)
      PROVE  /\ u \in Versions /\ u # v /\ packages[u] \in Package
             /\ DisplaceFor(v)[u] = Retired(packages[u])
  BY DEF Displaced, DisplaceFor, Active, Installed
<1> HIDE DEF Retired
<1>2. ASSUME NEW u \in Displaced(v)
      PROVE  /\ u \in Versions /\ u # v /\ packages[u] \in Package
             /\ DisplaceFor(v)[u] \in Package /\ DisplaceFor(v)[u].state = "superseded"
             /\ DisplaceFor(v)[u].artifact = packages[u].artifact
  BY <1>1, <1>a
<1>3. ASSUME NEW u \in Versions \ Displaced(v)
      PROVE  /\ DisplaceFor(v)[u] = packages[u]
             /\ u # v /\ packages[u] # NoPackage => packages[u].state # "active"
  BY DEF Displaced, DisplaceFor, Active, Installed
<1>4. v \notin Displaced(v) /\ Displaced(v) \subseteq Versions
  BY DEF Displaced
<1>5. \A u \in Versions : DisplaceFor(v)[u] \in Package \cup {NoPackage}
  BY <1>2, <1>3
<1>6. DisplaceFor(v) \in [Versions -> Package \cup {NoPackage}]
  BY <1>5 DEF DisplaceFor
<1>7. DisplaceFor(v)[v] = packages[v]
  BY <1>3, <1>4
<1>8. ASSUME NEW u \in Versions \ {v}
      PROVE  /\ DisplaceFor(v)[u] = NoPackage <=> packages[u] = NoPackage
             /\ packages[u] # NoPackage =>
                  /\ DisplaceFor(v)[u].artifact = packages[u].artifact
                  /\ DisplaceFor(v)[u].state # "active"
             /\ u \in Displaced(v) => DisplaceFor(v)[u].state = "superseded"
             /\ u \notin Displaced(v) => DisplaceFor(v)[u] = packages[u]
  <2>1. CASE u \in Displaced(v)
    BY <1>2, <2>1, NoPackageAssumption
  <2>2. CASE u \notin Displaced(v)
    BY <1>3, <2>2
  <2> QED
    BY <2>1, <2>2
<1> QED
  BY <1>6, <1>7, <1>8

LastEvents == {"none", "install", "supersede", "disable", "rollback"}

\* What every step keeps of packages.
PackagesFit ==
  /\ packages \in [Versions -> Package \cup {NoPackage}]
  /\ audit.last \in [Versions -> LastEvents] /\ beside \in BOOLEAN
  /\ OneActive /\ OnePackagePerArtifact /\ AuditTellsState

RowsStay == \A v \in Versions : Installed(v) => Installed(v)'

\* A version becomes active, with a row of its own artifact or of a new one.
LEMMA Activating ==
  ASSUME TypeOK, PackagesFit, NEW v \in Versions, NEW p \in Package, p.state = "active",
         packages' = [DisplaceFor(v) EXCEPT ![v] = p], beside' = FALSE,
         NEW action \in {"install", "rollback"}, AuditFor(v, action),
         \/ Installed(v) /\ p.artifact = packages[v].artifact
         \/ \A u \in Versions : Installed(u) => packages[u].artifact # p.artifact
  PROVE  PackagesFit' /\ RowsStay
<1>0. packages \in [Versions -> Package \cup {NoPackage}]
  BY DEF PackagesFit
<1>1. /\ packages' \in [Versions -> Package \cup {NoPackage}] /\ packages'[v] = p
      /\ \A u \in Versions \ {v} : packages'[u] = DisplaceFor(v)[u]
  BY <1>0, Displacing
<1>2. /\ Installed(v)' /\ packages'[v].artifact = p.artifact
      /\ \A u \in Versions \ {v} :
           /\ Installed(u)' <=> Installed(u)
           /\ Installed(u) => /\ packages'[u].artifact = packages[u].artifact
                              /\ packages'[u].state # "active"
  BY <1>0, <1>1, Displacing, NoPackageAssumption DEF Installed
<1>3. OneActive'
  BY <1>2 DEF OneActive, Active
<1>4. OnePackagePerArtifact'
  BY <1>2 DEF OnePackagePerArtifact, PackagesFit
<1>5. /\ audit'.last \in [Versions -> LastEvents]
      /\ audit'.last[v] = action
      /\ \A u \in Versions \ {v} :
           audit'.last[u] = IF u \in Displaced(v) THEN "supersede" ELSE audit.last[u]
  BY DEF AuditFor, PackagesFit, TypeOK, LastEvents
<1>6. AuditTellsState'
  <2>1. SUFFICES ASSUME NEW u \in Versions
                 PROVE LET last == audit'.last[u] IN
                       IF ~Installed(u)' THEN last = "none"
                       ELSE packages'[u].state =
                              CASE last \in {"install", "rollback"} -> "active"
                                [] last = "supersede" -> "superseded"
                                [] last = "disable" -> "disabled"
    BY DEF AuditTellsState
  <2>2. CASE u = v
    BY <1>1, <1>2, <1>5, <2>2
  <2>3. CASE u # v /\ u \in Displaced(v)
    <3>1. Installed(u)
      BY <2>3 DEF Displaced, Active
    <3>2. packages'[u].state = "superseded"
      BY <1>0, <1>1, <2>3, Displacing
    <3> QED
      BY <1>2, <1>5, <2>3, <3>1, <3>2
  <2>4. CASE u # v /\ u \notin Displaced(v)
    <3>1. packages'[u] = packages[u]
      BY <1>0, <1>1, <2>4, Displacing
    <3>2. audit'.last[u] = audit.last[u]
      BY <1>5, <2>4
    <3> QED
      BY <3>1, <3>2, <1>2, <2>4 DEF PackagesFit, AuditTellsState, Installed
  <2> QED
    BY <2>2, <2>3, <2>4
<1> QED
  BY <1>1, <1>2, <1>3, <1>4, <1>5, <1>6 DEF PackagesFit, RowsStay

\* Every operation of the store keeps it.
LEMMA StoresKeep ==
  ASSUME TypeOK, PackagesFit, Stores
  PROVE  PackagesFit' /\ RowsStay
<1>0. packages \in [Versions -> Package \cup {NoPackage}]
  BY DEF PackagesFit
<1>1. CASE packages' = packages /\ beside' = beside /\ audit'.last = audit.last
  BY <1>1 DEF PackagesFit, RowsStay, OneActive, Active, Installed, OnePackagePerArtifact,
     AuditTellsState
<1>2. ASSUME NEW v \in Versions, NEW a \in Artifacts, ~Conflicts(v, a), Install(v, a)
      PROVE  PackagesFit' /\ RowsStay
  <2>1. PICK p \in Package : /\ p.state = "active" /\ p.artifact = a
                             /\ packages' = [DisplaceFor(v) EXCEPT ![v] = p]
    BY <1>2 DEF Install, Fresh, Package, None
  <2>2. \A u \in Versions : Installed(u) => packages[u].artifact # a
    BY <1>2 DEF Conflicts
  <2>3. AuditFor(v, "install") /\ beside' = FALSE
    BY <1>2 DEF Install
  <2> QED
    BY <2>1, <2>2, <2>3, Activating
<1>3. ASSUME NEW v \in Versions, Installed(v), Rollback(v)
      PROVE  PackagesFit' /\ RowsStay
  <2>1. packages[v] \in Package
    BY <1>0, <1>3 DEF Installed
  <2>2. DisplaceFor(v)[v] = packages[v] /\ DisplaceFor(v) \in [Versions -> Package \cup {NoPackage}]
    BY <1>0, Displacing
  <2>3. ASSUME NEW p \in Package
        PROVE  /\ [p EXCEPT !.state = "active", !.by = None] \in Package
               /\ [p EXCEPT !.state = "active", !.by = None].state = "active"
               /\ [p EXCEPT !.state = "active", !.by = None].artifact = p.artifact
    BY DEF Package
  <2>4. packages' = [DisplaceFor(v) EXCEPT
                       ![v] = [packages[v] EXCEPT !.state = "active", !.by = None]]
    BY <1>3, <2>2 DEF Rollback
  <2>5. PICK p \in Package : /\ p.state = "active" /\ p.artifact = packages[v].artifact
                             /\ packages' = [DisplaceFor(v) EXCEPT ![v] = p]
    BY <2>1, <2>3, <2>4
  <2>6. AuditFor(v, "rollback") /\ beside' = FALSE
    BY <1>3 DEF Rollback
  <2> QED
    BY <1>3, <2>5, <2>6, Activating
<1>4. ASSUME NEW v \in Versions, Installed(v), Disable(v)
      PROVE  PackagesFit' /\ RowsStay
  <2>1. packages[v] \in Package
    BY <1>0, <1>4 DEF Installed
  <2>2. PICK p \in Package : /\ p.state = "disabled" /\ p.artifact = packages[v].artifact
                             /\ packages' = [packages EXCEPT ![v] = p]
    <3>1. ASSUME NEW q \in Package
          PROVE  /\ [q EXCEPT !.state = "disabled", !.by = None] \in Package
                 /\ [q EXCEPT !.state = "disabled", !.by = None].state = "disabled"
                 /\ [q EXCEPT !.state = "disabled", !.by = None].artifact = q.artifact
      BY DEF Package
    <3>2. packages' = [packages EXCEPT
                         ![v] = [packages[v] EXCEPT !.state = "disabled", !.by = None]]
      BY <1>0, <1>4 DEF Disable
    <3> QED
      BY <2>1, <3>1, <3>2
  <2>3. /\ packages' \in [Versions -> Package \cup {NoPackage}] /\ packages'[v] = p
        /\ \A u \in Versions \ {v} : packages'[u] = packages[u]
    BY <1>0, <2>2
  <2>4. /\ audit'.last \in [Versions -> LastEvents] /\ audit'.last[v] = "disable"
        /\ \A u \in Versions \ {v} : audit'.last[u] = audit.last[u]
    BY <1>4 DEF Disable, TypeOK, PackagesFit, LastEvents
  <2>5. OneActive' /\ beside' \in BOOLEAN
    BY <1>4, <2>2, <2>3 DEF Disable, PackagesFit, OneActive, Active, Installed
  <2>6. OnePackagePerArtifact'
    BY <1>4, <2>2, <2>3 DEF PackagesFit, OnePackagePerArtifact, Installed
  <2>7. AuditTellsState'
    BY <2>2, <2>3, <2>4, NoPackageAssumption DEF PackagesFit, AuditTellsState, Installed
  <2>8. RowsStay
    BY <2>2, <2>3, NoPackageAssumption DEF RowsStay, Installed
  <2> QED
    BY <2>3, <2>4, <2>5, <2>6, <2>7, <2>8 DEF PackagesFit
\* A version that joins the active ones has them listed as long as it is beside one.
<1>5. ASSUME NEW v \in Versions, NEW a \in Artifacts, InstallBeside(v, a)
      PROVE  PackagesFit' /\ RowsStay
  <2>1. Fresh(a) \in Package /\ Fresh(a).state = "active" /\ Fresh(a).artifact = a
    BY DEF Fresh, Package, None
  <2>2. /\ ~Installed(v) /\ \A u \in Versions : Installed(u) => packages[u].artifact # a
        /\ packages' = [packages EXCEPT ![v] = Fresh(a)]
        /\ beside' = (beside \/ Displaced(v) # {})
    BY <1>5 DEF InstallBeside, Conflicts
  <2>3. /\ packages' \in [Versions -> Package \cup {NoPackage}] /\ packages'[v] = Fresh(a)
        /\ \A u \in Versions \ {v} : packages'[u] = packages[u]
    BY <1>0, <2>1, <2>2
  <2>4. /\ audit'.last \in [Versions -> LastEvents] /\ audit'.last[v] = "install"
        /\ \A u \in Versions \ {v} : audit'.last[u] = audit.last[u]
    BY <1>5 DEF InstallBeside, TypeOK, PackagesFit, LastEvents
  <2>5. OneActive' /\ beside' \in BOOLEAN
    <3>1. ~beside' => \A u \in Versions \ {v} : ~Active(u)'
      BY <2>2, <2>3 DEF Displaced, Active, Installed
    <3> QED
      BY <2>2, <3>1 DEF PackagesFit, OneActive
  <2>6. OnePackagePerArtifact'
    BY <2>1, <2>2, <2>3 DEF PackagesFit, OnePackagePerArtifact, Installed
  <2>7. AuditTellsState'
    BY <2>1, <2>3, <2>4, NoPackageAssumption DEF PackagesFit, AuditTellsState, Installed
  <2>8. RowsStay
    BY <2>1, <2>3, NoPackageAssumption DEF RowsStay, Installed
  <2> QED
    BY <2>3, <2>4, <2>5, <2>6, <2>7, <2>8 DEF PackagesFit
<1> QED
  BY <1>1, <1>2, <1>3, <1>4, <1>5 DEF Stores

-----------------------------------------------------------------------------
(* Callers *)

Fits == TypeOK /\ CallsFit /\ CandidatesFit /\ PackagesFit


\* Candidates stay, and new ones are of versions that are installed.
CandidatesStay == \A c \in Ids : candidates[c] # NoCandidate => candidates'[c] # NoCandidate

LEMMA CandidatesStep ==
  ASSUME Fits, [Next]_vars, RowsStay
  PROVE  candidates' \in [Ids -> Candidate \cup {NoCandidate}] /\ CandidatesFit' /\ CandidatesStay
<1>0. candidates \in [Ids -> Candidate \cup {NoCandidate}] /\ call \in [Callers -> Call]
  BY DEF Fits, TypeOK
<1>1. CASE candidates' = candidates
  <2>1. ASSUME NEW c \in Ids, candidates[c] # NoCandidate PROVE Installed(c[1])'
    BY <2>1, ConstantsAssumption DEF Fits, CandidatesFit, RowsStay, Ids
  <2> QED
    BY <1>0, <1>1, <2>1 DEF CandidatesFit, CandidatesStay
<1>2. ASSUME NEW w \in Callers, PutCandidate(w)
      PROVE  candidates' \in [Ids -> Candidate \cup {NoCandidate}] /\ CandidatesFit' /\ CandidatesStay
  <2>1. CASE candidates' = candidates
    BY <1>1, <2>1
  <2>2. CASE candidates' # candidates
    <3>1. /\ candidates[Id(w)] = NoCandidate
          /\ candidates' = [candidates EXCEPT ![Id(w)] =
               [artifact |-> packages[Version(w)].artifact, status |-> "pending"]]
      BY <1>2, <2>2 DEF PutCandidate
    <3>2. Version(w) \in Monitored /\ Id(w) \in Ids /\ Installed(Version(w)) /\ Id(w)[1] = Version(w)
      BY <1>2 DEF PutCandidate, At, Fits, CallsFit, CallFits, Version, Id, Ids
    <3>3. Version(w) \in Versions /\ packages[Version(w)] \in Package
      BY <3>2, ConstantsAssumption DEF Fits, PackagesFit, Installed
    <3>4. [artifact |-> packages[Version(w)].artifact, status |-> "pending"] \in Candidate
      BY <3>3 DEF Package, Candidate
    <3>5. candidates' \in [Ids -> Candidate \cup {NoCandidate}]
      BY <1>0, <3>1, <3>4
    <3>6. ASSUME NEW c \in Ids
          PROVE  /\ candidates[c] # NoCandidate => candidates'[c] # NoCandidate
                 /\ candidates'[c] # NoCandidate => Installed(c[1])
      <4>1. CASE c = Id(w)
        BY <3>1, <3>2, <4>1
      <4>2. CASE c # Id(w)
        BY <1>0, <3>1, <4>2 DEF Fits, CandidatesFit
      <4> QED
        BY <4>1, <4>2
    <3>7. ASSUME NEW c \in Ids, Installed(c[1]) PROVE Installed(c[1])'
      BY <3>7, ConstantsAssumption DEF RowsStay, Ids
    <3> QED
      BY <3>5, <3>6, <3>7 DEF CandidatesFit, CandidatesStay
  <2> QED
    BY <2>1, <2>2
<1>3. ASSUME NEW w \in Callers, Resolve(w)
      PROVE  candidates' \in [Ids -> Candidate \cup {NoCandidate}] /\ CandidatesFit' /\ CandidatesStay
  <2>1. Id(w) \in Ids /\ candidates[Id(w)] # NoCandidate
    BY <1>3 DEF Resolve, At, Fits, CallsFit, CallFits, Id, Ids
  <2>2. call[w].verdict \in {"pending", "approved", "rejected"}
    BY <1>0 DEF Call
  <2>3. candidates[Id(w)] \in Candidate
    BY <1>0, <2>1
  <2>4. [candidates[Id(w)] EXCEPT !.status = call[w].verdict] \in Candidate
    BY <2>2, <2>3 DEF Candidate
  <2>5. candidates' = [candidates EXCEPT
                         ![Id(w)] = [candidates[Id(w)] EXCEPT !.status = call[w].verdict]]
    BY <1>0, <1>3, <2>1 DEF Resolve
  <2>6. candidates' \in [Ids -> Candidate \cup {NoCandidate}]
    BY <1>0, <2>4, <2>5
  <2>7. ASSUME NEW c \in Ids
        PROVE  candidates'[c] # NoCandidate <=> candidates[c] # NoCandidate
    BY <1>0, <2>1, <2>4, <2>5, NoCandidateAssumption
  <2>8. ASSUME NEW c \in Ids, Installed(c[1]) PROVE Installed(c[1])'
    BY <2>8, ConstantsAssumption DEF RowsStay, Ids
  <2> QED
    BY <2>6, <2>7, <2>8 DEF Fits, CandidatesFit, CandidatesStay
<1>4. CASE UNCHANGED vars \/ Crash
  BY <1>1, <1>4 DEF vars, Crash
<1>5. ASSUME NEW w \in Callers,
             \/ OperatorActs(w) \/ Apply(w) \/ Approve(w) \/ Reject(w)
             \/ LookUp(w) \/ InstallArtifact(w) \/ RecordReceipt(w)
             \/ RecordHealth(w) \/ FindCandidate(w) \/ AuditCreated(w)
             \/ Inspect(w) \/ DisableTarget(w) \/ AuditResolved(w)
             \/ \E v \in Monitored, r \in Runs : Assess(w, v, r)
      PROVE  candidates' = candidates
  BY <1>5 DEF OperatorActs, Apply, Approve, Reject, Review, LookUp, InstallArtifact, RecordReceipt,
     RecordHealth, FindCandidate, AuditCreated, Inspect, DisableTarget, AuditResolved, Assess
<1> QED
  BY <1>1, <1>2, <1>3, <1>4, <1>5 DEF Next, Advance

\* Calls at their first step.
Applying(step, v, a) == [NoCall EXCEPT !.step = step, !.version = v, !.artifact = a]

Reporting(step, v, r) == [NoCall EXCEPT !.step = step, !.version = v, !.run = r]

Reviewing(step, v, r, verdict) ==
  [NoCall EXCEPT !.step = step, !.version = v, !.run = r, !.verdict = verdict]

LEMMA NoCallType == NoCall \in Call /\ NoCall.step = "idle"
  BY DEF NoCall, Call, Steps

LEMMA ApplyingType ==
  ASSUME NEW step \in Steps, NEW v \in Versions, NEW a \in Artifacts
  PROVE  /\ Applying(step, v, a) \in Call /\ Applying(step, v, a).step = step
         /\ Applying(step, v, a).version = v /\ Applying(step, v, a).artifact = a
  BY NoCallType DEF Applying, Call

LEMMA ReportingType ==
  ASSUME NEW step \in Steps, NEW v \in Versions, NEW r \in Runs
  PROVE  /\ Reporting(step, v, r) \in Call /\ Reporting(step, v, r).step = step
         /\ Reporting(step, v, r).version = v /\ Reporting(step, v, r).run = r
  BY NoCallType DEF Reporting, Call

LEMMA ReviewingType ==
  ASSUME NEW step \in Steps, NEW v \in Versions, NEW r \in Runs,
         NEW verdict \in {"approved", "rejected"}
  PROVE  /\ Reviewing(step, v, r, verdict) \in Call
         /\ Reviewing(step, v, r, verdict).step = step
         /\ Reviewing(step, v, r, verdict).version = v
         /\ Reviewing(step, v, r, verdict).run = r
         /\ Reviewing(step, v, r, verdict).verdict = verdict
  BY NoCallType DEF Reviewing, Call

LEMMA MovingType ==
  ASSUME NEW c \in Call, NEW step \in Steps
  PROVE  /\ [c EXCEPT !.step = step] \in Call /\ [c EXCEPT !.step = step].step = step
         /\ [c EXCEPT !.step = step].version = c.version
         /\ [c EXCEPT !.step = step].artifact = c.artifact
         /\ [c EXCEPT !.step = step].run = c.run
         /\ [c EXCEPT !.step = step].verdict = c.verdict
  BY DEF Call

\* What fits goes on fitting while rows stay.
LEMMA FittingStays ==
  ASSUME NEW c \in Call, CallFits(c), RowsStay, CandidatesStay
  PROVE  CallFits(c)'
<1>1. ASSUME c.version \in Monitored, Installed(c.version) PROVE Installed(c.version)'
  BY <1>1, ConstantsAssumption DEF RowsStay
<1>2. ASSUME c.version \in Monitored, c.run \in Failing,
             candidates[<<c.version, c.run>>] # NoCandidate
      PROVE  candidates'[<<c.version, c.run>>] # NoCandidate
  BY <1>2 DEF CandidatesStay, Ids
<1> QED
  BY <1>1, <1>2 DEF CallFits

LEMMA CallsStep ==
  ASSUME Fits, [Next]_vars, RowsStay, CandidatesStay
  PROVE  call' \in [Callers -> Call] /\ CallsFit'
<1>0. call \in [Callers -> Call] /\ Monitored \subseteq Versions /\ Failing \subseteq Runs
  BY ConstantsAssumption DEF Fits, TypeOK
<1>1. /\ \A u \in Callers : call[u] \in Call /\ CallFits(call[u])
      /\ \A c \in Call : CallFits(c) => CallFits(c)'
  BY <1>0, FittingStays DEF Fits, CallsFit
<1>2. CASE UNCHANGED call
  BY <1>0, <1>1, <1>2 DEF CallsFit
<1>3. CASE Crash
  BY <1>3, NoCallType DEF Crash, CallsFit, CallFits
<1>4. ASSUME NEW w \in Callers, NEW c \in Call, call' = [call EXCEPT ![w] = c], CallFits(c)'
      PROVE  call' \in [Callers -> Call] /\ CallsFit'
  <2>1. ASSUME NEW u \in Callers PROVE \E d \in Call : d = call'[u] /\ CallFits(d)'
    BY <1>0, <1>1, <1>4
  <2> QED
    BY <1>0, <1>4, <2>1 DEF CallsFit
<1>5. ASSUME NEW w \in Callers, Goto(w, "idle")
      PROVE  call' \in [Callers -> Call] /\ CallsFit'
  BY <1>4, <1>5, NoCallType DEF Goto, CallFits
<1>6. ASSUME NEW w \in Callers, NEW step \in Steps, Goto(w, step), step # "idle"
      PROVE  \E c \in Call :
               /\ call' = [call EXCEPT ![w] = c]
               /\ c.step = step /\ c.version = call[w].version
               /\ c.artifact = call[w].artifact /\ c.run = call[w].run
  <2>1. call' = [call EXCEPT ![w] = [call[w] EXCEPT !.step = step]]
    BY <1>0, <1>6 DEF Goto
  <2> QED
    BY <1>1, <1>6, <2>1, MovingType
\* A step of an application to the next one.
<1>7. ASSUME NEW w \in Callers, NEW step \in {"install", "receipt"}, Goto(w, step),
             call[w].step \in {"lookup", "install"}
      PROVE  call' \in [Callers -> Call] /\ CallsFit'
  <2>1. step \in Steps /\ step # "idle"
    BY DEF Steps
  <2>2. PICK c \in Call : /\ call' = [call EXCEPT ![w] = c]
                          /\ c.step = step /\ c.version = call[w].version
                          /\ c.artifact = call[w].artifact
    BY <1>6, <1>7, <2>1
  <2>3. CallFits(c)'
    BY <1>1, <1>7, <2>2 DEF CallFits
  <2> QED
    BY <1>4, <2>2, <2>3
\* A step of the guard to one that needs no more.
<1>8. ASSUME NEW w \in Callers,
             NEW step \in {"find", "put", "created", "disable", "resolve", "resolved"},
             Goto(w, step),
             \/ call[w].step \in {"find", "put"} /\ step \in {"put", "created"}
             \/ /\ call[w].step \in {"inspect", "disable", "resolve"}
                /\ step \in {"disable", "resolve", "resolved"}
             \/ call[w].step = "health" /\ call[w].run \in Failing /\ step = "find"
      PROVE  call' \in [Callers -> Call] /\ CallsFit'
  <2>1. step \in Steps /\ step # "idle"
    BY DEF Steps
  <2>2. PICK c \in Call : /\ call' = [call EXCEPT ![w] = c]
                          /\ c.step = step /\ c.version = call[w].version
                          /\ c.run = call[w].run
    BY <1>6, <1>8, <2>1
  <2>3. /\ c.version \in Monitored /\ c.run \in Failing /\ Installed(c.version)
        /\ step \in {"disable", "resolve", "resolved"} =>
             candidates[<<c.version, c.run>>] # NoCandidate
    BY <1>1, <1>8, <2>2 DEF CallFits
  <2>4. Installed(c.version)'
    BY <1>0, <2>3 DEF RowsStay
  <2>5. step \in {"disable", "resolve", "resolved"} =>
          candidates'[<<c.version, c.run>>] # NoCandidate
    BY <2>3 DEF CandidatesStay, Ids
  <2>6. CallFits(c)'
    BY <2>2, <2>3, <2>4, <2>5 DEF CallFits
  <2> QED
    BY <1>4, <2>2, <2>6
<1>9. ASSUME NEW w \in Callers, Apply(w)
      PROVE  call' \in [Callers -> Call] /\ CallsFit'
  <2>1. PICK v \in Versions, a \in Artifacts : call' = [call EXCEPT ![w] = Applying("lookup", v, a)]
    BY <1>9 DEF Apply, Enter, Applying
  <2>2. "lookup" \in Steps
    BY DEF Steps
  <2>3. Applying("lookup", v, a) \in Call /\ CallFits(Applying("lookup", v, a))'
    BY <2>2, ApplyingType DEF CallFits
  <2> QED
    BY <1>4, <2>1, <2>3
<1>10. ASSUME NEW w \in Callers, NEW v \in Monitored, NEW r \in Runs, Assess(w, v, r)
       PROVE  call' \in [Callers -> Call] /\ CallsFit'
  <2>1. PICK step \in {"health", "find"} : /\ call' = [call EXCEPT ![w] = Reporting(step, v, r)]
                                           /\ step = "find" => r \in Failing
    BY <1>10 DEF Assess, Enter, Reporting
  <2>2. step \in Steps /\ v \in Versions
    BY <1>0 DEF Steps
  <2>3. Installed(v)'
    BY <1>10, <2>2 DEF Assess, Active, RowsStay
  <2>4. Reporting(step, v, r) \in Call /\ CallFits(Reporting(step, v, r))'
    BY <2>1, <2>2, <2>3, ReportingType DEF CallFits
  <2> QED
    BY <1>4, <2>1, <2>4
<1>11. ASSUME NEW w \in Callers, Approve(w) \/ Reject(w)
       PROVE  call' \in [Callers -> Call] /\ CallsFit'
  <2>1. PICK c \in Ids, verdict \in {"approved", "rejected"}, step \in {"inspect", "resolve"} :
               Review(w, c, verdict, step)
    BY <1>11 DEF Approve, Reject
  <2>2. /\ c[1] \in Monitored /\ c[2] \in Failing /\ c = <<c[1], c[2]>> /\ step \in Steps
        /\ candidates[c] # NoCandidate
    BY <2>1 DEF Ids, Review, Pending, Steps
  <2>3. Installed(c[1])' /\ candidates'[<<c[1], c[2]>>] # NoCandidate
    BY <1>0, <2>2 DEF Fits, CandidatesFit, CandidatesStay, RowsStay
  <2>4. call' = [call EXCEPT ![w] = Reviewing(step, c[1], c[2], verdict)]
    BY <2>1 DEF Review, Enter, Reviewing
  <2>5. /\ Reviewing(step, c[1], c[2], verdict) \in Call
        /\ Reviewing(step, c[1], c[2], verdict).version = c[1]
        /\ Reviewing(step, c[1], c[2], verdict).run = c[2]
        /\ Reviewing(step, c[1], c[2], verdict).step = step
    BY <1>0, <2>2, ReviewingType
  <2>6. CallFits(Reviewing(step, c[1], c[2], verdict))'
    BY <2>2, <2>3, <2>5 DEF CallFits
  <2> QED
    BY <1>4, <2>4, <2>5, <2>6
<1>12. ASSUME NEW w \in Callers, Advance(w)
       PROVE  call' \in [Callers -> Call] /\ CallsFit'
  <2>1. CASE LookUp(w)
    BY <1>5, <1>7, <2>1 DEF LookUp, At
  <2>2. CASE InstallArtifact(w)
    BY <1>5, <1>7, <2>2 DEF InstallArtifact, At
  <2>3. CASE RecordReceipt(w) \/ AuditCreated(w) \/ AuditResolved(w)
    BY <1>5, <2>3 DEF RecordReceipt, AuditCreated, AuditResolved
  <2>4. CASE RecordHealth(w)
    BY <1>5, <1>8, <2>4 DEF RecordHealth, At
  <2>5. CASE FindCandidate(w) \/ PutCandidate(w)
    BY <1>5, <1>8, <2>5 DEF FindCandidate, PutCandidate, At
  <2>6. CASE Inspect(w) \/ DisableTarget(w) \/ Resolve(w)
    BY <1>5, <1>8, <2>6 DEF Inspect, DisableTarget, Resolve, At
  <2> QED
    BY <1>12, <2>1, <2>2, <2>3, <2>4, <2>5, <2>6 DEF Advance
<1>13. ASSUME NEW w \in Callers, OperatorActs(w) PROVE UNCHANGED call
  BY <1>13 DEF OperatorActs
<1> QED
  BY <1>2, <1>3, <1>9, <1>10, <1>11, <1>12, <1>13 DEF Next, vars

-----------------------------------------------------------------------------
(* The invariant *)

LEMMA RestType ==
  ASSUME Fits, [Next]_vars
  PROVE  /\ audit'.review \in SUBSET (Ids \X {"pending", "approved", "rejected"})
         /\ audit' = [last |-> audit'.last, review |-> audit'.review]
         /\ telemetry' \subseteq Monitored \X Runs /\ applied' \subseteq Artifacts
         /\ enacted' \subseteq Ids /\ mishap' \in {"none", "overlap", "crash"}
<1>0. /\ audit.review \in SUBSET (Ids \X {"pending", "approved", "rejected"})
      /\ audit \in [last : [Versions -> LastEvents],
                    review : SUBSET (Ids \X {"pending", "approved", "rejected"})]
      /\ telemetry \subseteq Monitored \X Runs /\ applied \subseteq Artifacts
      /\ enacted \subseteq Ids /\ mishap \in {"none", "overlap", "crash"}
      /\ Failing \subseteq Runs /\ call \in [Callers -> Call]
  BY ConstantsAssumption DEF Fits, TypeOK, LastEvents
<1> DEFINE Good ==
      /\ audit'.review \in SUBSET (Ids \X {"pending", "approved", "rejected"})
      /\ audit' = [last |-> audit'.last, review |-> audit'.review]
      /\ telemetry' \subseteq Monitored \X Runs /\ applied' \subseteq Artifacts
      /\ enacted' \subseteq Ids /\ mishap' \in {"none", "overlap", "crash"}
<1>1. CASE UNCHANGED vars \/ Crash
  BY <1>0, <1>1 DEF vars, Crash
<1>2. ASSUME NEW w \in Callers, Overlap(w) PROVE mishap' \in {"none", "overlap", "crash"}
  BY <1>0, <1>2 DEF Overlap
<1>3. ASSUME NEW last PROVE /\ [audit EXCEPT !.last = last].review = audit.review
                            /\ [audit EXCEPT !.last = last] =
                                 [last |-> last, review |-> audit.review]
  BY <1>0
<1>4. ASSUME NEW v \in Versions,
             \/ UNCHANGED audit \/ Disable(v) \/ (\E action : AuditFor(v, action))
             \/ \E a \in Artifacts : InstallBeside(v, a)
      PROVE  \E last : audit' = [audit EXCEPT !.last = last]
  BY <1>0, <1>4 DEF Disable, AuditFor, InstallBeside
<1>5. ASSUME NEW w \in Callers, OperatorActs(w) PROVE Good
  <2>1. PICK v \in Versions : \/ Disable(v) \/ Rollback(v)
                              \/ \E a \in Artifacts : Install(v, a) \/ InstallBeside(v, a)
    BY <1>5 DEF OperatorActs
  <2>2. PICK last : audit' = [audit EXCEPT !.last = last]
    BY <1>4, <2>1 DEF Rollback, Install
  <2> QED
    BY <1>0, <1>2, <1>3, <1>5, <2>2 DEF OperatorActs
<1>6. ASSUME NEW w \in Callers, InstallArtifact(w) PROVE Good
  <2>1. CASE UNCHANGED audit
    BY <1>0, <1>6, <2>1 DEF InstallArtifact
  <2>2. CASE ~UNCHANGED audit
    <3>1. Version(w) \in Versions
      BY <1>6 DEF InstallArtifact, At, Fits, CallsFit, CallFits, Version
    <3>2. PICK last : audit' = [audit EXCEPT !.last = last]
      BY <1>4, <1>6, <2>2, <3>1 DEF InstallArtifact, Install
    <3> QED
      BY <1>0, <1>3, <1>6, <3>2 DEF InstallArtifact
  <2> QED
    BY <2>1, <2>2
<1>7. ASSUME NEW w \in Callers, DisableTarget(w) PROVE Good
  <2>1. Version(w) \in Versions /\ Id(w) \in Ids
    BY <1>7, ConstantsAssumption
       DEF DisableTarget, At, Fits, CallsFit, CallFits, Version, Id, Ids
  <2>2. PICK last : audit' = [audit EXCEPT !.last = last]
    BY <1>4, <1>7, <2>1 DEF DisableTarget
  <2> QED
    BY <1>0, <1>3, <1>7, <2>1, <2>2 DEF DisableTarget
<1>8. ASSUME NEW w \in Callers, AuditCreated(w) \/ AuditResolved(w) PROVE Good
  <2>1. Id(w) \in Ids
    BY <1>8 DEF AuditCreated, AuditResolved, At, Fits, CallsFit, CallFits, Id, Ids
  <2>2. PICK action \in {"pending", "approved", "rejected"} : Audits(Id(w), action)
    BY <1>0, <1>8 DEF AuditCreated, AuditResolved, Call
  <2>3. ASSUME NEW review PROVE /\ [audit EXCEPT !.review = review].review = review
                                /\ [audit EXCEPT !.review = review] =
                                     [last |-> audit.last, review |-> review]
                                /\ [audit EXCEPT !.review = review].last = audit.last
    BY <1>0
  <2>4. audit' = [audit EXCEPT !.review = audit.review \cup {<<Id(w), action>>}]
    BY <1>0, <2>2 DEF Audits
  <2>5. audit.review \cup {<<Id(w), action>>}
          \in SUBSET (Ids \X {"pending", "approved", "rejected"})
    BY <1>0, <2>1
  <2> QED
    BY <1>0, <1>8, <2>3, <2>4, <2>5 DEF AuditCreated, AuditResolved
<1>9. ASSUME NEW w \in Callers, RecordHealth(w) PROVE Good
  <2>1. HealthEvent(w) \in Monitored \X Runs
    BY <1>9 DEF RecordHealth, At, Fits, CallsFit, CallFits, Id, HealthEvent
  <2> QED
    BY <1>0, <1>9, <2>1 DEF RecordHealth
<1>10. ASSUME NEW w \in Callers, RecordReceipt(w) PROVE Good
  <2>1. call[w].artifact \in Artifacts
    BY <1>10 DEF RecordReceipt, At, Fits, CallsFit, CallFits
  <2> QED
    BY <1>0, <1>10, <2>1 DEF RecordReceipt
<1>11. ASSUME NEW w \in Callers,
              \/ LookUp(w) \/ FindCandidate(w) \/ PutCandidate(w) \/ Inspect(w) \/ Resolve(w)
       PROVE  Good
  BY <1>0, <1>11 DEF LookUp, FindCandidate, PutCandidate, Inspect, Resolve
<1>12. ASSUME NEW w \in Callers,
              \/ Apply(w) \/ Approve(w) \/ Reject(w)
              \/ \E v \in Monitored, r \in Runs : Assess(w, v, r)
       PROVE  Good
  BY <1>0, <1>2, <1>12 DEF Apply, Approve, Reject, Review, Assess, Enter
<1> QED
  BY <1>1, <1>5, <1>6, <1>7, <1>8, <1>9, <1>10, <1>11, <1>12 DEF Next, Advance

LEMMA FitsInit == Init => Fits
<1> SUFFICES ASSUME Init PROVE Fits
  OBVIOUS
<1>1. packages \in [Versions -> Package \cup {NoPackage}] /\ \A v \in Versions : ~Installed(v)
  BY DEF Init, Installed
<1>2. TypeOK
  BY <1>1, NoCallType DEF Init, TypeOK, Ids
<1>3. CallsFit /\ CandidatesFit
  BY NoCallType DEF Init, CallsFit, CallFits, CandidatesFit
<1>4. /\ audit.last \in [Versions -> LastEvents] /\ beside \in BOOLEAN
      /\ \A v \in Versions : audit.last[v] = "none"
  BY DEF Init, LastEvents
<1>5. PackagesFit
  BY <1>1, <1>4 DEF PackagesFit, OneActive, Active, OnePackagePerArtifact, AuditTellsState
<1> QED
  BY <1>2, <1>3, <1>5 DEF Fits

LEMMA FitsStep == Fits /\ [Next]_vars => Fits'
<1> SUFFICES ASSUME Fits, [Next]_vars PROVE Fits'
  OBVIOUS
<1>1. PackagesFit' /\ RowsStay
  BY StoreSteps, StoresKeep DEF Fits
<1>2. candidates' \in [Ids -> Candidate \cup {NoCandidate}] /\ CandidatesFit' /\ CandidatesStay
  BY <1>1, CandidatesStep
<1>3. call' \in [Callers -> Call] /\ CallsFit'
  BY <1>1, <1>2, CallsStep
<1>4. TypeOK'
  BY <1>1, <1>2, <1>3, RestType DEF TypeOK, PackagesFit, LastEvents
<1> QED
  BY <1>1, <1>2, <1>3, <1>4 DEF Fits

THEOREM Invariant == Spec => []Fits
  BY FitsInit, FitsStep, PTL DEF Spec

\* Types, in every execution.
THEOREM TypeCorrect == Spec => []TypeOK
<1>1. Fits => TypeOK
  BY DEF Fits
<1> QED
  BY <1>1, Invariant, PTL

\* The version the registry view serves is the newest one it lists, and no active
\* one is hidden, whatever installs (superseding the active ones or beside them),
\* rolls back, disables and dies; it is the only one listed unless an install was
\* told to leave the others active (sqlite_port.py, registry.py).
THEOREM ServesTheActive == Spec => []ServedIsListed
<1>1. ASSUME Fits PROVE ServedIsListed
  <2>1. ASSUME NEW S \in (SUBSET Versions) \ {{}}
        PROVE  Newest(S) \in S
    BY <2>1, NewestAssumption DEF Newest
  <2>2. Versions \subseteq Nat \ {0} /\ None = 0
    BY ConstantsAssumption DEF None
  <2>3. CASE Listed = {}
    <3>1. Selected # None => Selected \in Versions
      BY <2>1, <2>3 DEF Selected, Listed
    <3>2. Served = None
      BY <2>3, <3>1 DEF Served, Listed
    <3> QED
      BY <2>3, <3>2 DEF ServedIsListed
  <2>4. CASE Listed # {}
    <3>1. PICK v \in Listed : v = Newest(Listed)
      BY <2>1, <2>4 DEF Listed
    <3>2. Selected = v
      BY <2>4, <3>1 DEF Selected, Listed, Active
    <3>3. Served = v
      BY <2>2, <3>1, <3>2 DEF Served, Listed
    <3>4. ~beside => Listed \subseteq {v}
      BY <1>1, <3>1 DEF Listed, Fits, PackagesFit, OneActive
    <3> QED
      BY <2>4, <3>1, <3>3, <3>4 DEF ServedIsListed
  <2> QED
    BY <2>3, <2>4
<1> QED
  BY <1>1, Invariant, PTL

\* An artifact has one package, though the ledger of applications dies with the
\* process (application.py, sqlite_port.py).
THEOREM ArtifactsAreUnique == Spec => []OnePackagePerArtifact
<1>1. Fits => OnePackagePerArtifact
  BY DEF Fits, PackagesFit
<1> QED
  BY <1>1, Invariant, PTL

\* The audit of packages is never behind: its last event tells the state of every
\* version, the displaced ones included (sqlite_port.py).
THEOREM AuditIsCurrent == Spec => []AuditTellsState
<1>1. Fits => AuditTellsState
  BY DEF Fits, PackagesFit
<1> QED
  BY <1>1, Invariant, PTL

-----------------------------------------------------------------------------
(* Verdicts and effects                                                      *)

Approved(c) == candidates[c] # NoCandidate /\ candidates[c].status = "approved"

\* What a reviewer who is about to resolve a candidate has done about it.
Resolving(c) ==
  /\ c.step \in {"inspect", "disable"} => c.verdict = "approved"
  /\ c.step = "resolve" =>
       /\ c.verdict \in {"approved", "rejected"}
       /\ c.verdict = "approved" => <<c.version, c.run>> \in enacted

Resolves(w, verdict) == At(w, "resolve") /\ call[w].verdict = verdict

\* Without a mishap there is one call at a time: an enacted candidate is
\* approved, or its reviewer is about to say so, and nobody about to reject one.
OneCall == \A u, w \in Callers : ~At(u, "idle") /\ ~At(w, "idle") => u = w

NoneRejected == \A w \in Callers : Resolves(w, "rejected") => Id(w) \notin enacted

EnactedApproved ==
  \A c \in enacted :
    Approved(c) \/ \E w \in Callers : Resolves(w, "approved") /\ Id(w) = c

Orderly == OneCall /\ NoneRejected /\ EnactedApproved

Verdicts ==
  /\ \A w \in Callers : Resolving(call[w])
  /\ \A c \in Ids : Approved(c) => c \in enacted
  /\ mishap = "none" => Orderly

\* A new call: nobody else is at work, or calls overlap.
LEMMA VerdictsEnter ==
  ASSUME Fits, Verdicts, NEW w \in Callers, NEW d, Enter(w, d),
         UNCHANGED <<candidates, enacted>>,
         d.step \in {"inspect", "disable"} => d.verdict = "approved",
         d.step = "resolve" => d.verdict = "rejected" /\ Pending(<<d.version, d.run>>)
  PROVE  Verdicts'
<1>0. /\ call' = [call EXCEPT ![w] = d] /\ call \in [Callers -> Call]
      /\ At(w, "idle")
  BY DEF Enter, Fits, TypeOK
<1>1. ASSUME NEW u \in Callers PROVE Resolving(call[u])'
  BY <1>0, <1>1 DEF Verdicts, Resolving
<1>2. ASSUME NEW c \in Ids, Approved(c)' PROVE c \in enacted'
  BY <1>2 DEF Verdicts, Approved
<1>3. ASSUME mishap' = "none" PROVE Orderly'
  <2>1. Orderly /\ \A u \in Callers \ {w} : At(u, "idle") /\ At(u, "idle")'
    BY <1>0, <1>3 DEF Verdicts, Enter, Overlap, At
  <2>2. \A c \in enacted : Approved(c)
    BY <1>0, <2>1 DEF Orderly, EnactedApproved, Resolves, At
  <2>3. OneCall'
    BY <2>1 DEF OneCall
  <2>4. NoneRejected'
    BY <1>0, <2>1, <2>2 DEF NoneRejected, Resolves, At, Id, Pending, Approved
  <2>5. EnactedApproved'
    BY <2>2 DEF EnactedApproved, Approved
  <2> QED
    BY <2>3, <2>4, <2>5 DEF Orderly
<1> QED
  BY <1>1, <1>2, <1>3 DEF Verdicts

\* A call that goes on, and neither enacts nor resolves.
LEMMA VerdictsGoOn ==
  ASSUME Fits, Verdicts, NEW w \in Callers, NEW d,
         call' = [call EXCEPT ![w] = d],
         ~At(w, "idle"), ~At(w, "resolve"), d.step # "resolve",
         d.step \in {"inspect", "disable"} => d.verdict = "approved",
         \A c \in Ids : Approved(c)' <=> Approved(c),
         UNCHANGED <<enacted, mishap>>
  PROVE  Verdicts'
<1>0. call \in [Callers -> Call] /\ enacted \subseteq Ids
  BY DEF Fits, TypeOK
<1>1. ASSUME NEW u \in Callers PROVE Resolving(call[u])'
  BY <1>0, <1>1 DEF Verdicts, Resolving
<1>2. ASSUME NEW c \in Ids, Approved(c)' PROVE c \in enacted'
  BY <1>2 DEF Verdicts
<1>3. ASSUME mishap' = "none" PROVE Orderly'
  <2>1. Orderly
    BY <1>3 DEF Verdicts
  <2>2. /\ call'[w] = d
        /\ \A u \in Callers \ {w} : call'[u] = call[u]
    BY <1>0
  <2>3. OneCall'
    BY <2>1, <2>2 DEF OneCall, Orderly, At
  <2>4. NoneRejected'
    BY <2>1, <2>2 DEF NoneRejected, Orderly, Resolves, At, Id
  <2>5. ASSUME NEW c \in enacted', ~Approved(c)'
        PROVE  (\E u \in Callers : Resolves(u, "approved") /\ Id(u) = c)'
    <3>1. c \in enacted /\ ~Approved(c)
      BY <1>0, <2>5
    <3>2. PICK u \in Callers : Resolves(u, "approved") /\ Id(u) = c
      BY <2>1, <3>1 DEF Orderly, EnactedApproved
    <3>3. u # w
      BY <3>2 DEF Resolves
    <3>4. (Resolves(u, "approved") /\ Id(u) = c)'
      BY <2>2, <3>2, <3>3 DEF Resolves, At, Id
    <3> QED
      BY <3>4
  <2> QED
    BY <2>3, <2>4, <2>5 DEF Orderly, EnactedApproved
<1> QED
  BY <1>1, <1>2, <1>3 DEF Verdicts

\* What Goto makes of a call.
LEMMA GotoCall ==
  ASSUME Fits, NEW w \in Callers, NEW step \in Steps, Goto(w, step)
  PROVE  \E d : /\ call' = [call EXCEPT ![w] = d]
                /\ d.step = step
                /\ step # "idle" => /\ d.version = call[w].version /\ d.run = call[w].run
                                   /\ d.verdict = call[w].verdict
<1> DEFINE d == IF step = "idle" THEN NoCall ELSE [call[w] EXCEPT !.step = step]
<1>1. call[w] \in Call /\ call' = [call EXCEPT ![w] = d]
  BY DEF Fits, TypeOK, Goto
<1>2. /\ d.step = step
      /\ step # "idle" => /\ d.version = call[w].version /\ d.run = call[w].run
                         /\ d.verdict = call[w].verdict
  BY <1>1, NoCallType, MovingType
<1> QED
  BY <1>1, <1>2

LEMMA VerdictsMove ==
  ASSUME Fits, Verdicts, NEW w \in Callers, NEW step \in Steps, Goto(w, step),
         ~At(w, "idle"), ~At(w, "resolve"), step \notin {"inspect", "resolve"},
         step = "disable" => At(w, "inspect"),
         \A c \in Ids : Approved(c)' <=> Approved(c),
         UNCHANGED <<enacted, mishap>>
  PROVE  Verdicts'
<1>1. PICK d : /\ call' = [call EXCEPT ![w] = d]
               /\ d.step = step
               /\ step # "idle" => d.verdict = call[w].verdict
  BY GotoCall
<1>2. step = "disable" => d.verdict = "approved"
  BY <1>1 DEF Verdicts, Resolving, At
<1> QED
  BY <1>1, <1>2, VerdictsGoOn

LEMMA VerdictsDisable ==
  ASSUME Fits, Verdicts, NEW w \in Callers, DisableTarget(w)
  PROVE  Verdicts'
<1>0. /\ call \in [Callers -> Call] /\ At(w, "disable")
      /\ enacted' = enacted \cup {Id(w)} /\ UNCHANGED <<candidates, mishap>>
  BY DEF DisableTarget, Fits, TypeOK
<1>1. PICK d : /\ call' = [call EXCEPT ![w] = d] /\ d.step = "resolve"
               /\ <<d.version, d.run>> = Id(w) /\ d.verdict = "approved"
  <2>1. PICK d : /\ call' = [call EXCEPT ![w] = d] /\ d.step = "resolve"
                 /\ d.version = call[w].version /\ d.run = call[w].run
                 /\ d.verdict = call[w].verdict
    BY GotoCall DEF DisableTarget, Steps
  <2> QED
    BY <1>0, <2>1 DEF Verdicts, Resolving, At, Id
<1>2. /\ call'[w] = d
      /\ \A u \in Callers \ {w} : call'[u] = call[u]
  BY <1>0, <1>1
<1>3. ASSUME NEW u \in Callers PROVE Resolving(call[u])'
  BY <1>0, <1>1, <1>2, <1>3 DEF Verdicts, Resolving
<1>4. ASSUME NEW c \in Ids, Approved(c)' PROVE c \in enacted'
  BY <1>0, <1>4 DEF Verdicts, Approved
<1>5. ASSUME mishap' = "none" PROVE Orderly'
  <2>1. Orderly /\ \A u \in Callers \ {w} : At(u, "idle")
    BY <1>0, <1>5 DEF Verdicts, Orderly, OneCall, At
  <2>2. OneCall'
    BY <1>2, <2>1 DEF OneCall, At
  <2>3. NoneRejected'
    BY <1>1, <1>2, <2>1 DEF NoneRejected, Resolves, At
  <2>4. (Resolves(w, "approved"))' /\ Id(w)' = Id(w)
    BY <1>1, <1>2 DEF Resolves, At, Id
  <2>5. ASSUME NEW c \in enacted, c # Id(w) PROVE Approved(c)'
    BY <1>0, <2>1, <2>5 DEF Orderly, EnactedApproved, Resolves, At, Approved
  <2>6. EnactedApproved'
    BY <1>0, <2>4, <2>5 DEF EnactedApproved
  <2> QED
    BY <2>2, <2>3, <2>6 DEF Orderly
<1> QED
  BY <1>3, <1>4, <1>5 DEF Verdicts

LEMMA VerdictsResolve ==
  ASSUME Fits, Verdicts, NEW w \in Callers, Resolve(w)
  PROVE  Verdicts'
<1>0. /\ call \in [Callers -> Call] /\ At(w, "resolve") /\ enacted \subseteq Ids
      /\ UNCHANGED <<enacted, mishap>>
      /\ candidates \in [Ids -> Candidate \cup {NoCandidate}]
  BY DEF Resolve, Fits, TypeOK
<1>1. PICK d : call' = [call EXCEPT ![w] = d] /\ d.step = "resolved"
  BY GotoCall DEF Resolve, Steps
<1>2. /\ call'[w] = d
      /\ \A u \in Callers \ {w} : call'[u] = call[u]
  BY <1>0, <1>1
<1>3. PICK i \in Ids : i = Id(w) /\ candidates[i] \in Candidate
  BY <1>0 DEF Fits, CallsFit, CallFits, Id, Ids, At
<1>4. call[w].verdict \in {"approved", "rejected"}
      /\ (call[w].verdict = "approved" => i \in enacted)
  BY <1>0, <1>3 DEF Verdicts, Resolving, At, Id
<1>5. /\ candidates'[i] \in Candidate /\ candidates'[i].status = call[w].verdict
      /\ \A c \in Ids \ {i} : candidates'[c] = candidates[c]
  BY <1>0, <1>3, <1>4 DEF Resolve, Candidate
<1>6. /\ Approved(i)' <=> call[w].verdict = "approved"
      /\ \A c \in Ids \ {i} : Approved(c)' <=> Approved(c)
  BY <1>5, NoCandidateAssumption DEF Approved
<1>7. ASSUME NEW u \in Callers PROVE Resolving(call[u])'
  BY <1>0, <1>1, <1>2, <1>7 DEF Verdicts, Resolving
<1>8. ASSUME NEW c \in Ids, Approved(c)' PROVE c \in enacted'
  BY <1>0, <1>4, <1>6, <1>8 DEF Verdicts
<1>9. ASSUME mishap' = "none" PROVE Orderly'
  <2>1. Orderly /\ \A u \in Callers \ {w} : At(u, "idle")
    BY <1>0, <1>9 DEF Verdicts, Orderly, OneCall, At
  <2>2. OneCall'
    BY <1>2, <2>1 DEF OneCall, At
  <2>3. NoneRejected'
    BY <1>1, <1>2, <2>1 DEF NoneRejected, Resolves, At
  <2>4. ASSUME NEW c \in enacted' PROVE Approved(c)'
    <3>1. CASE c = i
      BY <1>0, <1>3, <1>4, <1>6, <2>1, <2>4, <3>1 DEF Orderly, NoneRejected, Resolves
    <3>2. CASE c # i
      <4>1. Approved(c)
        BY <1>0, <1>3, <2>1, <2>4, <3>2 DEF Orderly, EnactedApproved, Resolves, At
      <4> QED
        BY <1>0, <1>6, <2>4, <3>2, <4>1
    <3> QED
      BY <3>1, <3>2
  <2> QED
    BY <2>2, <2>3, <2>4 DEF Orderly, EnactedApproved
<1> QED
  BY <1>7, <1>8, <1>9 DEF Verdicts

LEMMA VerdictsStep == Fits /\ Verdicts /\ [Next]_vars => Verdicts'
<1> SUFFICES ASSUME Fits, Verdicts, [Next]_vars PROVE Verdicts'
  OBVIOUS
<1>1. CASE UNCHANGED vars
  BY <1>1 DEF vars, Verdicts, Resolving, Approved, Orderly, OneCall,
     NoneRejected, EnactedApproved, Resolves, At, Id
<1>2. CASE Crash
  <2>1. \A w \in Callers : Resolving(call[w])'
    BY <1>2, NoCallType DEF Crash, Resolving
  <2> QED
    BY <1>2, <2>1 DEF Crash, Verdicts, Approved
<1>3. ASSUME NEW w \in Callers, OperatorActs(w) PROVE Verdicts'
  <2>1. UNCHANGED <<candidates, call, enacted>> /\ (mishap' = "none" => mishap = "none")
    BY <1>3 DEF OperatorActs, Overlap
  <2> QED
    BY <2>1 DEF Verdicts, Resolving, Approved, Orderly, OneCall,
       NoneRejected, EnactedApproved, Resolves, At, Id
<1>4. ASSUME NEW w \in Callers, Apply(w) PROVE Verdicts'
  <2>1. PICK v \in Versions, a \in Artifacts \ applied : Enter(w, Applying("lookup", v, a))
    BY <1>4 DEF Apply, Applying
  <2>2. Applying("lookup", v, a).step = "lookup"
    BY ApplyingType DEF Steps
  <2> QED
    BY <1>4, <2>1, <2>2, VerdictsEnter DEF Apply
<1>5. ASSUME NEW w \in Callers, NEW v \in Monitored, NEW r \in Runs, Assess(w, v, r)
      PROVE  Verdicts'
  <2>1. PICK step \in {"health", "find"} : Enter(w, Reporting(step, v, r))
    BY <1>5 DEF Assess, Reporting
  <2>2. Reporting(step, v, r).step = step
    BY ReportingType, ConstantsAssumption DEF Steps
  <2> QED
    BY <1>5, <2>1, <2>2, VerdictsEnter DEF Assess
<1>6. ASSUME NEW w \in Callers, Approve(w) PROVE Verdicts'
  <2>1. PICK c \in Ids : Review(w, c, "approved", "inspect")
    BY <1>6 DEF Approve
  <2>2. c[1] \in Versions /\ c[2] \in Runs
    BY ConstantsAssumption DEF Ids
  <2>3. /\ Reviewing("inspect", c[1], c[2], "approved").step = "inspect"
        /\ Reviewing("inspect", c[1], c[2], "approved").verdict = "approved"
    BY <2>2, ReviewingType DEF Steps
  <2>4. Enter(w, Reviewing("inspect", c[1], c[2], "approved"))
    BY <2>1 DEF Review, Reviewing
  <2> QED
    BY <2>1, <2>3, <2>4, VerdictsEnter DEF Review
<1>7. ASSUME NEW w \in Callers, Reject(w) PROVE Verdicts'
  <2>1. PICK c \in Ids : Review(w, c, "rejected", "resolve")
    BY <1>7 DEF Reject
  <2>2. c[1] \in Versions /\ c[2] \in Runs /\ c = <<c[1], c[2]>>
    <3>1. PICK m \in Monitored, f \in Failing : c = <<m, f>>
      BY DEF Ids
    <3> QED
      BY <3>1, ConstantsAssumption
  <2>3. /\ Reviewing("resolve", c[1], c[2], "rejected").step = "resolve"
        /\ Reviewing("resolve", c[1], c[2], "rejected").verdict = "rejected"
        /\ Reviewing("resolve", c[1], c[2], "rejected").version = c[1]
        /\ Reviewing("resolve", c[1], c[2], "rejected").run = c[2]
    BY <2>2, ReviewingType DEF Steps
  <2>4. Enter(w, Reviewing("resolve", c[1], c[2], "rejected")) /\ Pending(<<c[1], c[2]>>)
    BY <2>1, <2>2 DEF Review, Reviewing
  <2> QED
    BY <2>1, <2>3, <2>4, VerdictsEnter DEF Review
<1>8. ASSUME NEW w \in Callers,
             \/ LookUp(w) \/ InstallArtifact(w) \/ RecordReceipt(w)
             \/ RecordHealth(w) \/ FindCandidate(w) \/ AuditCreated(w)
             \/ Inspect(w) \/ AuditResolved(w)
      PROVE  Verdicts'
  <2>1. PICK step \in {"install", "receipt", "find", "put", "disable", "idle"} :
          Goto(w, step) /\ (step = "disable" => At(w, "inspect"))
    BY <1>8 DEF LookUp, InstallArtifact, RecordReceipt, RecordHealth,
       FindCandidate, AuditCreated, Inspect, AuditResolved
  <2>2. ~At(w, "idle") /\ ~At(w, "resolve")
    BY <1>8 DEF LookUp, InstallArtifact, RecordReceipt, RecordHealth,
       FindCandidate, AuditCreated, Inspect, AuditResolved, At
  <2>3. UNCHANGED <<candidates, enacted, mishap>>
    BY <1>8 DEF LookUp, InstallArtifact, RecordReceipt, RecordHealth,
       FindCandidate, AuditCreated, Inspect, AuditResolved
  <2>4. \A c \in Ids : Approved(c)' <=> Approved(c)
    BY <2>3 DEF Approved
  <2> QED
    BY <2>1, <2>2, <2>3, <2>4, VerdictsMove DEF Steps
<1>9. ASSUME NEW w \in Callers, PutCandidate(w) PROVE Verdicts'
  <2>1. PICK step \in {"created", "idle"} : Goto(w, step)
    BY <1>9 DEF PutCandidate
  <2>2. ~At(w, "idle") /\ ~At(w, "resolve") /\ UNCHANGED <<enacted, mishap>>
    BY <1>9 DEF PutCandidate, At
  <2>3. ASSUME NEW c \in Ids PROVE Approved(c)' <=> Approved(c)
    <3>1. CASE candidates' = candidates
      BY <3>1 DEF Approved
    <3>2. CASE candidates' # candidates
      <4>1. /\ candidates[Id(w)] = NoCandidate
            /\ candidates' = [candidates EXCEPT ![Id(w)] =
                 [artifact |-> packages[Version(w)].artifact, status |-> "pending"]]
        BY <1>9, <3>2 DEF PutCandidate
      <4>2. candidates \in [Ids -> Candidate \cup {NoCandidate}]
        BY DEF Fits, TypeOK
      <4>3. CASE c = Id(w)
        BY <4>1, <4>2, <4>3 DEF Approved
      <4>4. CASE c # Id(w)
        BY <4>1, <4>2, <4>4 DEF Approved
      <4> QED
        BY <4>3, <4>4
    <3> QED
      BY <3>1, <3>2
  <2> QED
    BY <2>1, <2>2, <2>3, VerdictsMove DEF Steps
<1> QED
  BY <1>1, <1>2, <1>3, <1>4, <1>5, <1>6, <1>7, <1>8, <1>9, VerdictsDisable,
     VerdictsResolve DEF Next, Advance

LEMMA VerdictsInit == Init => Verdicts
<1> SUFFICES ASSUME Init PROVE Verdicts
  OBVIOUS
<1>1. \A w \in Callers : call[w].step = "idle"
  BY NoCallType DEF Init
<1> QED
  BY <1>1 DEF Init, Verdicts, Resolving, Approved, Orderly, OneCall,
     NoneRejected, EnactedApproved, Resolves, At

\* An approved candidate did disable its version, for any number of reviewers
\* and any crash, and without an overlap or a crash no other candidate did.
THEOREM VerdictsTell == Spec => []VerdictTellsEffect
<1>1. Fits /\ Verdicts => VerdictTellsEffect
  <2> SUFFICES ASSUME Fits, Verdicts, NEW c \in Ids, candidates[c] # NoCandidate
               PROVE  /\ candidates[c].status = "approved" => c \in enacted
                      /\ mishap = "none" /\ (\A w \in Callers : At(w, "idle")) =>
                           (candidates[c].status = "approved" <=> c \in enacted)
    BY DEF VerdictTellsEffect
  <2>1. candidates[c].status = "approved" => c \in enacted
    BY DEF Verdicts, Approved
  <2>2. ASSUME mishap = "none", \A w \in Callers : At(w, "idle"), c \in enacted
        PROVE  candidates[c].status = "approved"
    BY <2>2 DEF Verdicts, Orderly, EnactedApproved, Resolves, At, Approved
  <2> QED
    BY <2>1, <2>2
<1> QED
  BY <1>1, VerdictsInit, VerdictsStep, Invariant, PTL DEF Spec

-----------------------------------------------------------------------------
(* Routing *)

\* Any number of hits of any kind.
AnyHits == [keywords: Nat, tags: Nat, provides: Nat, description: Nat, examples: Nat,
            capable: BOOLEAN]

LEMMA LeastHit ==
  ASSUME NEW k \in Nat, NEW t \in Nat, NEW p \in Nat, NEW d \in Nat, NEW e \in Nat, NEW r \in Nat
  PROVE  LET sum == 4000 * k + 3000 * t + 3000 * p + 1500 * d + 750 * e + 6000 * r
         IN  sum \in Nat /\ (sum > 0 => sum >= 750)
  <1> DEFINE sum == 4000 * k + 3000 * t + 3000 * p + 1500 * d + 750 * e + 6000 * r
  <1>1. sum \in Nat
    OBVIOUS
  <1>2. ASSUME k = 0, t = 0, p = 0, d = 0, e = 0, r = 0 PROVE sum = 0
    BY <1>2
  <1>3. ASSUME k >= 1 \/ t >= 1 \/ p >= 1 \/ d >= 1 \/ e >= 1 \/ r >= 1 PROVE sum >= 750
    BY <1>3
  <1> HIDE DEF sum
  <1>4. \A n \in Nat : n = 0 \/ n >= 1
    OBVIOUS
  <1>5. sum > 0 => sum >= 750
    BY <1>1, <1>2, <1>3, <1>4
  <1>6. QED
    BY <1>1, <1>5 DEF sum

LEMMA ClampedBounds ==
  ASSUME NEW x \in Int, NEW bound \in Nat
  PROVE  /\ Clamped(x, bound) \in -bound..bound
         /\ x \in -bound..bound => Clamped(x, bound) = x
  BY DEF Clamped

\* The least hit weighs 750, twice the adjustment 700 at most.
LEMMA ScoreFollows ==
  ASSUME NEW hits \in AnyHits, NEW required \in Nat,
         NEW adjustment \in -MaxAdjustment..MaxAdjustment
  PROVE  /\ Relevance(hits, required) \in Nat
         /\ Score(hits, required, 0) = Relevance(hits, required)
         /\ Score(hits, required, adjustment) \in
              Relevance(hits, required) - 700 .. Relevance(hits, required) + 700
         /\ Score(hits, required, adjustment) > 0 <=> Relevance(hits, required) > 0
  <1> DEFINE relevance == Relevance(hits, required)
  <1>1. /\ hits.keywords \in Nat /\ hits.tags \in Nat /\ hits.provides \in Nat
        /\ hits.description \in Nat /\ hits.examples \in Nat
    BY DEF AnyHits
  <1>2. relevance \in Nat /\ (relevance > 0 => relevance >= 750)
    <2>1. relevance = 4000 * hits.keywords + 3000 * hits.tags + 3000 * hits.provides
                        + 1500 * hits.description + 750 * hits.examples + 6000 * required
      BY DEF Relevance
    <2>2. QED
      BY <1>1, <2>1, LeastHit
  <1>3. MaxAdjustment = 350
    BY DEF MaxAdjustment
  <1>4. Clamped(adjustment, 1000) = adjustment /\ Clamped(0, 1000) = 0
    BY <1>3, ClampedBounds
  <1>5. /\ Score(hits, required, adjustment) =
             IF relevance > 0 THEN relevance + 2 * adjustment ELSE relevance
        /\ Score(hits, required, 0) = IF relevance > 0 THEN relevance + 2 * 0 ELSE relevance
    BY <1>4 DEF Score
  <1> HIDE DEF relevance
  <1>6. QED
    BY <1>2, <1>3, <1>5 DEF relevance

\* Whatever is made of the pasts of any number of E.G.O.s, feedback ranks those
\* that relevance ranks, and keeps the order of two whose relevance differs by
\* more than twice its bound on either side.
THEOREM FeedbackReorders ==
  ASSUME NEW egos, \A id \in DOMAIN egos : egos[id].hits \in AnyHits, NEW required \in Nat,
         NEW adjusted \in [DOMAIN egos -> -MaxAdjustment..MaxAdjustment]
  PROVE  LET relevance(id) == Relevance(egos[id].hits, required)
             score(id) == Score(egos[id].hits, required, adjusted[id])
         IN  /\ Ranked(egos, required, adjusted)
                  = Ranked(egos, required, [id \in DOMAIN egos |-> 0])
             /\ \A i, j \in DOMAIN egos :
                  relevance(i) - relevance(j) > 4 * MaxAdjustment => score(i) > score(j)
  <1>1. ASSUME NEW id \in DOMAIN egos
        PROVE  /\ Relevance(egos[id].hits, required) \in Nat
               /\ Score(egos[id].hits, required, 0) = Relevance(egos[id].hits, required)
               /\ Score(egos[id].hits, required, adjusted[id]) \in
                    Relevance(egos[id].hits, required) - 700
                      .. Relevance(egos[id].hits, required) + 700
               /\ Score(egos[id].hits, required, adjusted[id]) > 0
                    <=> Relevance(egos[id].hits, required) > 0
    BY ScoreFollows
  <1>2. Ranked(egos, required, adjusted)
          = Ranked(egos, required, [id \in DOMAIN egos |-> 0])
    <2>1. \A id \in DOMAIN egos : [d \in DOMAIN egos |-> 0][id] = 0
      OBVIOUS
    <2>2. QED
      BY <1>1, <2>1 DEF Ranked
  <1>3. ASSUME NEW i \in DOMAIN egos, NEW j \in DOMAIN egos,
               Relevance(egos[i].hits, required) - Relevance(egos[j].hits, required)
                 > 4 * MaxAdjustment
        PROVE  Score(egos[i].hits, required, adjusted[i])
                 > Score(egos[j].hits, required, adjusted[j])
    <2>1. 4 * MaxAdjustment = 1400
      BY DEF MaxAdjustment
    <2>2. QED
      BY <1>1, <1>3, <2>1
  <1>4. QED
    BY <1>2, <1>3

-----------------------------------------------------------------------------
(* Sums, and what a past adjusts *)

\* What holds at 0 and of the next number holds up to n.
LEMMA Inductive ==
  ASSUME NEW n \in Nat, NEW T, 0 \in T, \A i \in 1 .. n : i - 1 \in T => i \in T
  PROVE  \A i \in 0 .. n : i \in T
  <1> DEFINE R == OpToRel(<, Nat)
             Out == {i \in 0 .. n : i \notin T}
  <1>1. IsWellFoundedOn(R, Nat)
    BY NatLessThanWellFounded
  <1>2. \A i, j \in Out : i < j => <<i, j>> \in R
    BY DEF OpToRel
  <1>3. Out \subseteq Nat
    OBVIOUS
  <1> HIDE DEF R
  <1>4. SUFFICES ASSUME Out # {} PROVE FALSE
    OBVIOUS
  <1>5. PICK m \in Out : \A i \in Out : ~(<<i, m>> \in R)
    <2> HIDE DEF Out
    <2>1. QED
      BY <1>1, <1>3, <1>4, WFMin
  <1>6. m \in 1 .. n /\ m - 1 \in 0 .. n /\ m - 1 < m
    OBVIOUS
  <1>7. m - 1 \notin Out
    BY <1>2, <1>5, <1>6
  <1>8. QED
    BY <1>6, <1>7

\* The sums of the first terms.
Sums(run, terms, m) ==
  run[0] = 0 /\ \A i \in 1 .. m : run[i] = run[i - 1] + terms[i]

HasSums(terms, m) == \E run \in [0 .. m -> Nat] : Sums(run, terms, m)

\* There are such sums, and the last is the total.
LEMMA TotalIs ==
  ASSUME NEW n \in Nat, NEW terms \in [1 .. n -> Nat]
  PROVE  Total(terms) \in Nat
  <1>0. Len(terms) = n
    OBVIOUS
  <1> DEFINE E == {m \in 0 .. n : HasSums(terms, m)}
  <1>1. 0 \in E
    <2>1. PICK run : run = [i \in 0 .. 0 |-> 0]
      OBVIOUS
    <2>2. run \in [0 .. 0 -> Nat] /\ Sums(run, terms, 0)
      BY <2>1 DEF Sums
    <2>3. QED
      BY <2>2 DEF HasSums
  <1>2. ASSUME NEW m \in 1 .. n, m - 1 \in E PROVE m \in E
    <2>1. PICK run \in [0 .. m - 1 -> Nat] : Sums(run, terms, m - 1)
      BY <1>2 DEF HasSums
    <2>2. PICK x \in Nat : x = run[m - 1] + terms[m]
      <3>1. run[m - 1] \in Nat /\ terms[m] \in Nat
        OBVIOUS
      <3>2. QED
        BY <3>1
    <2>3. PICK more : more = [i \in 0 .. m |-> IF i = m THEN x ELSE run[i]]
      OBVIOUS
    <2>4. more \in [0 .. m -> Nat]
      BY <2>3
    <2>5. Sums(more, terms, m)
      <3>1. more[0] = 0
        BY <2>1, <2>3 DEF Sums
      <3>2. ASSUME NEW i \in 1 .. m PROVE more[i] = more[i - 1] + terms[i]
        <4>1. i - 1 \in 0 .. m /\ i \in 0 .. m /\ i - 1 # m
          OBVIOUS
        <4>2. CASE i = m
          BY <2>2, <2>3, <4>1, <4>2
        <4>3. CASE i # m
          <5>1. i \in 1 .. m - 1
            BY <4>3
          <5>2. run[i] = run[i - 1] + terms[i]
            BY <2>1, <5>1 DEF Sums
          <5>3. QED
            BY <2>3, <4>1, <4>3, <5>2
        <4>4. QED
          BY <4>2, <4>3
      <3>3. QED
        BY <3>1, <3>2 DEF Sums
    <2>6. QED
      BY <2>4, <2>5 DEF HasSums
  <1>3. \A m \in 0 .. n : m \in E
    <2> HIDE DEF E
    <2>1. QED
      BY <1>1, <1>2, Inductive
  <1>4. PICK run \in [0 .. n -> Nat] : Sums(run, terms, n)
    <2>1. n \in E
      BY <1>3
    <2>2. QED
      BY <2>1 DEF HasSums
  <1>5. PICK g : /\ g = CHOOSE sum : sum = [i \in 0 .. n |-> IF i = 0 THEN 0 ELSE sum[i - 1] + terms[i]]
                 /\ Total(terms) = g[n]
    BY <1>0 DEF Total
  <1>6. run = [i \in 0 .. n |-> IF i = 0 THEN 0 ELSE run[i - 1] + terms[i]]
    <2>1. ASSUME NEW i \in 0 .. n
          PROVE  run[i] = IF i = 0 THEN 0 ELSE run[i - 1] + terms[i]
      <3>1. i = 0 \/ i \in 1 .. n
        OBVIOUS
      <3>2. QED
        BY <1>4, <3>1 DEF Sums
    <2>2. QED
      BY <2>1
  <1>7. g = [i \in 0 .. n |-> IF i = 0 THEN 0 ELSE g[i - 1] + terms[i]]
    BY <1>5, <1>6
  <1> DEFINE T == {i \in 0 .. n : g[i] = run[i]}
  <1>8. 0 \in T
    <2>1. 0 \in 0 .. n
      OBVIOUS
    <2>2. QED
      BY <2>1, <1>6, <1>7
  <1>9. ASSUME NEW i \in 1 .. n, i - 1 \in T PROVE i \in T
    <2>1. i \in 0 .. n /\ i # 0
      OBVIOUS
    <2>2. g[i] = g[i - 1] + terms[i] /\ run[i] = run[i - 1] + terms[i]
      BY <1>6, <1>7, <2>1
    <2>3. QED
      BY <1>9, <2>1, <2>2
  <1>10. \A i \in 0 .. n : i \in T
    <2> HIDE DEF T
    <2>1. QED
      BY <1>8, <1>9, Inductive
  <1>11. QED
    BY <1>5, <1>10

\* Any events, of any number and age.
AnyEvent == [kind : {"runtime_use", "replay_health"}, success : BOOLEAN, age : Nat, times : Nat]

\* Whatever its past, an E.G.O. is adjusted within the bound.
LEMMA AdjustmentBounds ==
  ASSUME NEW past \in Seq(AnyEvent)
  PROVE  Adjustment(past) \in -MaxAdjustment .. MaxAdjustment
  <1>1. PICK n \in Nat : n = Len(past) /\ DOMAIN past = 1 .. n /\ \A i \in 1 .. n : past[i] \in AnyEvent
    OBVIOUS
  <1>2. \A i \in 1 .. n : past[i].times \in Nat /\ Weight(past[i]) \in Nat
    BY <1>1 DEF AnyEvent, Weight
  <1>3. PICK times : times = [i \in 1 .. n |-> past[i].times]
    OBVIOUS
  <1>4. PICK weight : weight = [i \in 1 .. n |-> past[i].times * Weight(past[i])]
    OBVIOUS
  <1>5. PICK wins : wins = [i \in 1 .. n |-> IF past[i].success THEN weight[i] ELSE 0]
    OBVIOUS
  <1>6. times \in [1 .. n -> Nat] /\ weight \in [1 .. n -> Nat] /\ wins \in [1 .. n -> Nat]
    <2>1. \A x, y \in Nat : x * y \in Nat
      OBVIOUS
    <2>2. times \in [1 .. n -> Nat]
      BY <1>2, <1>3
    <2>3. weight \in [1 .. n -> Nat]
      BY <1>2, <1>4, <2>1
    <2>4. wins \in [1 .. n -> Nat]
      BY <1>5, <2>3
    <2>5. QED
      BY <2>2, <2>3, <2>4
  <1>7. PICK samples \in Nat, total \in Nat, won \in Nat :
          samples = Total(times) /\ total = Total(weight) /\ won = Total(wins)
    BY <1>6, TotalIs
  <1>8. PICK c \in Nat : c = IF samples > SaturationSamples THEN SaturationSamples ELSE samples
    BY DEF SaturationSamples
  <1>9. PICK up \in Int, down \in Nat \ {0} :
          /\ up = MaxAdjustment * (2 * won - total) * c
          /\ down = (total + PriorQuarters) * SaturationSamples
    <2>1. \A x \in Int, y \in Nat : 350 * x * y \in Int
      OBVIOUS
    <2>2. 2 * won - total \in Int
      OBVIOUS
    <2>3. (total + 8) * 12 \in Nat \ {0}
      OBVIOUS
    <2>4. QED
      BY <2>1, <2>2, <2>3 DEF MaxAdjustment, PriorQuarters, SaturationSamples
  <1>10. PICK x \in Int : x = TowardsZero(up, down)
    <2>1. \A a \in Int, b \in Nat \ {0} : a \div b \in Int
      OBVIOUS
    <2>2. -up \in Int /\ (-up) \div down \in Int /\ up \div down \in Int
      BY <2>1
    <2>3. TowardsZero(up, down) \in Int
      BY <2>2 DEF TowardsZero
    <2>4. QED
      BY <2>3
  <1>11. Adjustment(past) = IF samples < MinSamples THEN 0 ELSE Clamped(x, MaxAdjustment)
    <2>1. /\ times = [i \in DOMAIN past |-> past[i].times]
          /\ weight = [i \in DOMAIN past |-> past[i].times * Weight(past[i])]
          /\ wins = [i \in DOMAIN past |-> IF past[i].success THEN weight[i] ELSE 0]
      BY <1>1, <1>3, <1>4, <1>5
    <2>2. Adjustment(past) = IF samples < MinSamples THEN 0
                             ELSE Clamped(TowardsZero(up, down), MaxAdjustment)
      BY <1>7, <1>8, <1>9, <2>1 DEF Adjustment
    <2>3. QED
      BY <1>10, <2>2
  <1>12. Clamped(x, MaxAdjustment) \in -MaxAdjustment .. MaxAdjustment
    <2>1. MaxAdjustment \in Nat
      BY DEF MaxAdjustment
    <2>2. QED
      BY <2>1, ClampedBounds
  <1>13. QED
    BY <1>11, <1>12 DEF MaxAdjustment

-----------------------------------------------------------------------------
(* Sequences in order *)

\* A set in an order: irreflexive, transitive and total.
Orders(R, S) ==
  /\ \A i \in S : <<i, i>> \notin R
  /\ \A i, j, k \in S : <<i, j>> \in R /\ <<j, k>> \in R => <<i, k>> \in R
  /\ \A i, j \in S : i = j \/ <<i, j>> \in R \/ <<j, i>> \in R

\* A sequence of a set's elements in that order.
InLine(s, R, S) ==
  /\ s \in [1 .. Cardinality(S) -> S]
  /\ \A i, j \in 1 .. Cardinality(S) : i < j => <<s[i], s[j]>> \in R

\* Those who are ahead of an element.
AheadOf(R, S, i) == {j \in S : <<j, i>> \in R}

\* A finite set has such a sequence.
LEMMA LinesUp ==
  ASSUME NEW S, IsFiniteSet(S), NEW R, Orders(R, S)
  PROVE  \E s : InLine(s, R, S)
  <1>1. PICK n \in Nat : n = Cardinality(S)
    BY FS_CardinalityType
  <1>2. ASSUME NEW i \in S
        PROVE  /\ IsFiniteSet(AheadOf(R, S, i)) /\ Cardinality(AheadOf(R, S, i)) \in Nat
               /\ Cardinality(AheadOf(R, S, i)) < n
    <2>1. AheadOf(R, S, i) \in SUBSET S /\ AheadOf(R, S, i) # S
      BY DEF AheadOf, Orders
    <2>2. QED
      BY <1>1, <2>1, FS_Subset, FS_CardinalityType
  <1>3. ASSUME NEW i \in S, NEW j \in S, <<i, j>> \in R
        PROVE  Cardinality(AheadOf(R, S, i)) < Cardinality(AheadOf(R, S, j))
    <2>1. AheadOf(R, S, i) \in SUBSET AheadOf(R, S, j) /\ AheadOf(R, S, i) # AheadOf(R, S, j)
      BY <1>3 DEF AheadOf, Orders
    <2>2. QED
      BY <1>2, <2>1, FS_Subset
  <1>4. PICK rank : rank = [i \in S |-> Cardinality(AheadOf(R, S, i)) + 1]
    OBVIOUS
  <1>5. rank \in [S -> 1 .. n]
    BY <1>2, <1>4
  <1>6. ASSUME NEW i \in S, NEW j \in S, <<i, j>> \in R PROVE rank[i] < rank[j]
    BY <1>2, <1>3, <1>4, <1>6
  <1>7. \A i, j \in S : rank[i] = rank[j] => i = j
    <2>1. ASSUME NEW i \in S, NEW j \in S, rank[i] = rank[j], i # j PROVE FALSE
      <3>1. rank[i] \in Int /\ rank[j] \in Int
        BY <1>5
      <3>2. <<i, j>> \in R \/ <<j, i>> \in R
        BY <2>1 DEF Orders
      <3>3. QED
        BY <1>6, <2>1, <3>1, <3>2
    <2>2. QED
      BY <2>1
  <1>8. \A k \in 1 .. n : \E i \in S : rank[i] = k
    <2>1. rank \in Injection(S, 1 .. n)
      BY <1>5, <1>7 DEF Injection, IsInjective
    <2>2. IsFiniteSet(1 .. n) /\ Cardinality(1 .. n) = n
      BY FS_Interval
    <2>3. rank \in Surjection(S, 1 .. n)
      BY <1>1, <2>1, <2>2, FS_Injection
    <2>4. QED
      BY <2>3 DEF Surjection
  <1>9. PICK s : s = [k \in 1 .. n |-> CHOOSE i \in S : rank[i] = k]
    OBVIOUS
  <1>10. ASSUME NEW k \in 1 .. n PROVE s[k] \in S /\ rank[s[k]] = k
    BY <1>8, <1>9
  <1>11. s \in [1 .. n -> S]
    BY <1>9, <1>10
  <1>12. ASSUME NEW i \in 1 .. n, NEW j \in 1 .. n, i < j PROVE <<s[i], s[j]>> \in R
    <2>1. PICK a \in S, b \in S : a = s[i] /\ b = s[j] /\ rank[a] = i /\ rank[b] = j
      BY <1>10
    <2>2. a # b
      BY <1>12, <2>1
    <2>3. CASE <<b, a>> \in R
      BY <1>6, <1>12, <2>1, <2>3
    <2>4. QED
      BY <2>1, <2>2, <2>3 DEF Orders
  <1>13. InLine(s, R, S)
    BY <1>1, <1>11, <1>12 DEF InLine
  <1>14. QED
    BY <1>13

\* It has all of them.
LEMMA LineHasAll ==
  ASSUME NEW S, IsFiniteSet(S), NEW R, Orders(R, S), NEW s, InLine(s, R, S)
  PROVE  {s[k] : k \in 1 .. Cardinality(S)} = S
  <1>1. PICK n \in Nat : n = Cardinality(S)
    BY FS_CardinalityType
  <1>2. s \in [1 .. n -> S] /\ \A i, j \in 1 .. n : i < j => <<s[i], s[j]>> \in R
    BY <1>1 DEF InLine
  <1>3. \A i, j \in 1 .. n : s[i] = s[j] => i = j
    <2>1. ASSUME NEW i \in 1 .. n, NEW j \in 1 .. n, s[i] = s[j] PROVE ~(i < j)
      BY <1>2, <2>1 DEF Orders
    <2>2. QED
      BY <2>1
  <1>4. s \in Injection(1 .. n, S)
    BY <1>2, <1>3 DEF Injection, IsInjective
  <1>5. IsFiniteSet(1 .. n) /\ Cardinality(1 .. n) = n
    BY FS_Interval
  <1>6. s \in Surjection(1 .. n, S)
    BY <1>1, <1>4, <1>5, FS_Injection
  <1>7. QED
    BY <1>1, <1>2, <1>6 DEF Surjection

-----------------------------------------------------------------------------
(* What is routed *)

\* Whose rank is before whose.
Earlier(egos, required, adjusted) ==
  {p \in (DOMAIN egos) \X (DOMAIN egos) : Before(egos, required, adjusted, p[1], p[2])}

\* Any finite number of E.G.O.s of any hits and pasts.
AnyEgos(egos) ==
  /\ DOMAIN egos \subseteq Int /\ IsFiniteSet(DOMAIN egos)
  /\ \A id \in DOMAIN egos : egos[id].hits \in AnyHits /\ egos[id].past \in Seq(AnyEvent)

\* The lines of a set in an order.
Lines(R, W) == {line \in [1 .. Cardinality(W) -> W] : InLine(line, R, W)}

\* The line that is routed.
RoutesInLine(s, R, W) ==
  /\ IsFiniteSet(W) /\ Orders(R, W) /\ InLine(s, R, W)
  /\ Len(s) = Cardinality(W) /\ ToSet(s) = W /\ s = CHOOSE line \in Lines(R, W) : TRUE

Adjusted(egos) == [DOMAIN egos -> -MaxAdjustment .. MaxAdjustment]

\* Ranks are an order.
LEMMA RanksOrder ==
  ASSUME NEW egos, AnyEgos(egos), NEW required \in Nat, NEW adjusted \in Adjusted(egos)
  PROVE  Orders(Earlier(egos, required, adjusted), DOMAIN egos)
  <1>1. ASSUME NEW i \in DOMAIN egos
        PROVE  i \in Int /\ Score(egos[i].hits, required, adjusted[i]) \in Int
    <2>1. egos[i].hits \in AnyHits /\ adjusted[i] \in -MaxAdjustment .. MaxAdjustment /\ i \in Int
      BY DEF AnyEgos, Adjusted
    <2>2. Relevance(egos[i].hits, required) \in Nat
      BY <2>1, ScoreFollows
    <2>3. Score(egos[i].hits, required, adjusted[i]) \in
              Relevance(egos[i].hits, required) - 700 .. Relevance(egos[i].hits, required) + 700
      BY <2>1, ScoreFollows
    <2>4. QED
      BY <2>1, <2>2, <2>3
  <1>2. PICK score : score = [i \in DOMAIN egos |-> Score(egos[i].hits, required, adjusted[i])]
    OBVIOUS
  <1>3. \A i \in DOMAIN egos : i \in Int /\ score[i] \in Int
    BY <1>1, <1>2
  <1>4. \A i, j \in DOMAIN egos : <<i, j>> \in Earlier(egos, required, adjusted)
          <=> score[i] > score[j] \/ (score[i] = score[j] /\ i < j)
    BY <1>2 DEF Earlier, Before
  <1>5. QED
    BY <1>3, <1>4 DEF Orders

\* What is routed when all may be is what is ranked, in order.
LEMMA RoutedInLine ==
  ASSUME NEW egos, AnyEgos(egos), NEW required \in Nat, NEW adjusted \in Adjusted(egos),
         NEW W, W = Ranked(egos, required, adjusted),
         NEW R, R = Earlier(egos, required, adjusted),
         NEW s, s = Routed(egos, required, adjusted, Cardinality(DOMAIN egos))
  PROVE  RoutesInLine(s, R, W)
  <1>1. PICK n \in Nat : n = Cardinality(DOMAIN egos)
    BY FS_CardinalityType DEF AnyEgos
  <1>2. W \in SUBSET DOMAIN egos
    BY DEF Ranked
  <1>3. IsFiniteSet(W) /\ Cardinality(W) <= n
    BY <1>1, <1>2, FS_Subset DEF AnyEgos
  <1>4. PICK m \in Nat : m = Cardinality(W) /\ m <= n
    BY <1>3, FS_CardinalityType
  <1>5. Orders(R, W)
    BY <1>2, RanksOrder DEF Orders
  <1>6. PICK lines : lines = {line \in [1 .. m -> W] : InLine(line, R, W)}
    OBVIOUS
  <1>7. InOrder(egos, required, adjusted) = lines
    <2>1. ASSUME NEW line \in [1 .. m -> W]
          PROVE  InLine(line, R, W)
                   <=> \A i, j \in DOMAIN line : i < j => Before(egos, required, adjusted, line[i], line[j])
      <3>1. DOMAIN line = 1 .. m /\ \A i \in 1 .. m : line[i] \in DOMAIN egos
        BY <1>2
      <3>2. \A i, j \in 1 .. m : <<line[i], line[j]>> \in R
                                   <=> Before(egos, required, adjusted, line[i], line[j])
        BY <3>1 DEF Earlier
      <3>3. QED
        BY <1>4, <3>1, <3>2 DEF InLine
    <2>2. QED
      BY <1>4, <1>6, <2>1 DEF InOrder
  <1>8. PICK order : order = CHOOSE line \in lines : TRUE
    OBVIOUS
  <1>9. order \in lines
    <2>1. \E line : InLine(line, R, W)
      BY <1>3, <1>5, LinesUp
    <2>2. \E line : line \in lines
      BY <1>4, <1>6, <2>1 DEF InLine
    <2>3. QED
      BY <1>8, <2>2
  <1>10. order \in [1 .. m -> W] /\ InLine(order, R, W)
    BY <1>6, <1>9
  <1>11. order \in Seq(W) /\ Len(order) = m /\ DOMAIN order = 1 .. m
    <2>1. order \in Seq(W)
      BY <1>10, ST!SeqDef
    <2>2. QED
      BY <1>10, <2>1, ST!LenProperties
  <1>12. s = order
    <2>1. s = IF n <= 0 THEN <<>> ELSE SubSeq(order, 1, IF n < m THEN n ELSE m)
      BY <1>1, <1>7, <1>8, <1>11 DEF Routed
    <2>2. CASE n <= 0
      <3>1. m = 0
        BY <1>4, <2>2
      <3>2. order = <<>>
        BY <1>11, <3>1
      <3>3. QED
        BY <2>1, <2>2, <3>2
    <2>3. CASE ~(n <= 0)
      <3>1. (IF n < m THEN n ELSE m) = m
        BY <1>4
      <3>2. SubSeq(order, 1, m) = order
        BY <1>11, ST!SubSeqFull
      <3>3. QED
        BY <2>1, <2>3, <3>1, <3>2
    <2>4. QED
      BY <2>2, <2>3
  <1>13. ToSet(s) = W
    <2>1. ToSet(s) = {order[k] : k \in 1 .. m}
      BY <1>11, <1>12 DEF ToSet
    <2>2. {order[k] : k \in 1 .. Cardinality(W)} = W
      BY <1>3, <1>5, <1>10, LineHasAll
    <2>3. QED
      BY <1>4, <2>1, <2>2
  <1>14. QED
    BY <1>3, <1>4, <1>5, <1>6, <1>8, <1>10, <1>11, <1>12, <1>13 DEF RoutesInLine, Lines

Falls(rel, m, gap) == \A k \in 1 .. m - 1 : rel[k] - rel[k + 1] > gap
Apart(rel, m, gap) == \A k, l \in 1 .. m : k < l => rel[k] - rel[l] > gap

\* Terms that fall by more than a gap from each to the next fall by more than it
\* between any two.
LEMMA FallsApart ==
  ASSUME NEW m \in Nat, NEW rel \in [1 .. m -> Int], NEW gap \in Nat,
         Falls(rel, m, gap)
  PROVE  Apart(rel, m, gap)
  <1> DEFINE T == {d \in 0 .. m : \A k \in 1 .. m : d > 0 /\ k + d <= m => rel[k] - rel[k + d] > gap}
  <1>1. 0 \in T
    OBVIOUS
  <1>2. ASSUME NEW d \in 1 .. m, d - 1 \in T PROVE d \in T
    <2>1. ASSUME NEW k \in 1 .. m, k + d <= m PROVE rel[k] - rel[k + d] > gap
      <3>1. k + d \in 1 .. m /\ k + (d - 1) \in 1 .. m /\ (k + (d - 1)) + 1 = k + d
        BY <2>1
      <3>2. PICK x \in Int, y \in Int, z \in Int : x = rel[k] /\ y = rel[k + (d - 1)] /\ z = rel[k + d]
        BY <3>1
      <3>3. k + (d - 1) \in 1 .. m - 1
        BY <3>1, <2>1
      <3>4. y - z > gap
        <4>1. rel[k + (d - 1)] - rel[(k + (d - 1)) + 1] > gap
          BY <3>3 DEF Falls
        <4>2. QED
          BY <3>1, <3>2, <4>1
      <3>5. CASE d = 1
        <4>1. x = y
          BY <3>2, <3>5
        <4>2. QED
          BY <3>2, <3>4, <4>1
      <3>6. CASE d # 1
        <4>1. d - 1 > 0 /\ k + (d - 1) <= m
          BY <3>1, <3>6
        <4>2. x - y > gap
          BY <1>2, <3>2, <4>1
        <4>3. QED
          BY <3>2, <3>4, <4>2
      <3>7. QED
        BY <3>5, <3>6
    <2>2. QED
      BY <2>1
  <1>3. \A d \in 0 .. m : d \in T
    <2> HIDE DEF T
    <2>1. QED
      BY <1>1, <1>2, Inductive
  <1>4. ASSUME NEW k \in 1 .. m, NEW l \in 1 .. m, k < l PROVE rel[k] - rel[l] > gap
    <2>1. PICK d \in 1 .. m : d = l - k
      BY <1>4
    <2>2. k + d = l /\ d > 0 /\ k + d <= m
      BY <2>1
    <2>3. d \in T
      <3>1. d \in 0 .. m
        OBVIOUS
      <3> HIDE DEF T
      <3>2. QED
        BY <1>3, <3>1
    <2>4. rel[k] - rel[k + d] > gap
      BY <2>2, <2>3
    <2>5. QED
      BY <2>2, <2>4
  <1>5. QED
    BY <1>4 DEF Apart

Agree(R, Q, W) == \A i, j \in W : <<i, j>> \in R <=> <<i, j>> \in Q
Both(p, n, R, Q) == \A k, l \in 1 .. n : k < l => <<p[k], p[l]>> \in R /\ <<p[k], p[l]>> \in Q

\* Two orders of a set that agree have the same sequences.
LEMMA SameLines ==
  ASSUME NEW W, NEW n \in Nat, n = Cardinality(W), NEW R, NEW Q, Agree(R, Q, W)
  PROVE  Lines(R, W) = Lines(Q, W)
  <1>1. ASSUME NEW line \in [1 .. n -> W]
        PROVE  InLine(line, R, W) <=> InLine(line, Q, W)
    <2>1. \A i \in 1 .. n : line[i] \in W
      OBVIOUS
    <2>2. QED
      BY <2>1 DEF InLine, Agree
  <1>2. QED
    BY <1>1 DEF Lines

\* An order that puts the earlier of each two of a sequence first is the one the
\* sequence is in.
LEMMA OrderOfLine ==
  ASSUME NEW W, NEW n \in Nat, n = Cardinality(W), NEW R, Orders(R, W), NEW Q, Orders(Q, W),
         NEW p, {p[k] : k \in 1 .. n} = W, Both(p, n, R, Q)
  PROVE  Agree(R, Q, W)
  <1>1. ASSUME NEW i \in W, NEW j \in W PROVE <<i, j>> \in R <=> <<i, j>> \in Q
    <2>1. PICK k \in 1 .. n, l \in 1 .. n : i = p[k] /\ j = p[l]
      OBVIOUS
    <2>2. ASSUME <<i, j>> \in R, <<j, i>> \in R PROVE FALSE
      BY <2>2 DEF Orders
    <2>3. ASSUME <<i, j>> \in Q, <<j, i>> \in Q PROVE FALSE
      BY <2>3 DEF Orders
    <2>4. CASE k < l
      BY <2>1, <2>4 DEF Both
    <2>5. CASE l < k
      BY <2>1, <2>2, <2>3, <2>5 DEF Both
    <2>6. CASE k = l
      BY <2>1, <2>6 DEF Orders
    <2>7. QED
      BY <2>4, <2>5, <2>6
  <1>2. QED
    BY <1>1 DEF Agree

\* Whoever is far ahead by relevance is ahead by score.
Reorders(egos, required, given) ==
  \A i, j \in DOMAIN egos :
    Relevance(egos[i].hits, required) - Relevance(egos[j].hits, required) > 1400
      => Score(egos[i].hits, required, given[i]) > Score(egos[j].hits, required, given[j])

\* Feedback only reorders, and never what is far apart: of any number of E.G.O.s,
\* of whatever hits and pasts.
THEOREM EveryFeedbackReorders ==
  ASSUME NEW egos, AnyEgos(egos), NEW required \in Nat
  PROVE  OnlyReorders(egos, required)
  <1>1. PICK adjusted : adjusted = [id \in DOMAIN egos |-> Adjustment(egos[id].past)]
    OBVIOUS
  <1>2. PICK zero : zero = [id \in DOMAIN egos |-> 0]
    OBVIOUS
  <1>3. adjusted \in Adjusted(egos) /\ zero \in Adjusted(egos)
    <2>1. \A id \in DOMAIN egos : Adjustment(egos[id].past) \in -MaxAdjustment .. MaxAdjustment
      BY AdjustmentBounds DEF AnyEgos
    <2>2. 0 \in -MaxAdjustment .. MaxAdjustment
      BY DEF MaxAdjustment
    <2>3. adjusted \in [DOMAIN egos -> -MaxAdjustment .. MaxAdjustment]
      BY <1>1, <2>1
    <2>4. zero \in [DOMAIN egos -> -MaxAdjustment .. MaxAdjustment]
      BY <1>2, <2>2
    <2>5. QED
      BY <2>3, <2>4 DEF Adjusted
  <1>4. ASSUME NEW given \in Adjusted(egos)
        PROVE  Ranked(egos, required, given) = Ranked(egos, required, zero) /\ Reorders(egos, required, given)
    <2>1. \A id \in DOMAIN egos : egos[id].hits \in AnyHits
      BY DEF AnyEgos
    <2>2. given \in [DOMAIN egos -> -MaxAdjustment .. MaxAdjustment]
      BY DEF Adjusted
    <2>3. 4 * MaxAdjustment = 1400
      BY DEF MaxAdjustment
    <2>4. /\ Ranked(egos, required, given) = Ranked(egos, required, [id \in DOMAIN egos |-> 0])
          /\ \A i, j \in DOMAIN egos :
               Relevance(egos[i].hits, required) - Relevance(egos[j].hits, required) > 4 * MaxAdjustment
                 => Score(egos[i].hits, required, given[i]) > Score(egos[j].hits, required, given[j])
      BY <2>1, <2>2, FeedbackReorders
    <2>5. QED
      BY <1>2, <2>3, <2>4 DEF Reorders
  <1>5. Reorders(egos, required, adjusted) /\ Reorders(egos, required, zero)
    BY <1>3, <1>4
  <1>6. PICK W : W = Ranked(egos, required, adjusted) /\ W = Ranked(egos, required, zero)
    BY <1>3, <1>4
  <1>7. PICK R : R = Earlier(egos, required, adjusted)
    OBVIOUS
  <1>8. PICK Q : Q = Earlier(egos, required, zero)
    OBVIOUS
  <1>9. PICK a : a = Routed(egos, required, adjusted, Cardinality(DOMAIN egos))
    OBVIOUS
  <1>10. PICK p : p = Routed(egos, required, zero, Cardinality(DOMAIN egos))
    OBVIOUS
  <1>11. RoutesInLine(a, R, W)
    BY <1>3, <1>6, <1>7, <1>9, RoutedInLine
  <1>12. RoutesInLine(p, Q, W)
    BY <1>3, <1>6, <1>8, <1>10, RoutedInLine
  <1>0. W \in SUBSET DOMAIN egos /\ IsFiniteSet(W) /\ Orders(R, W) /\ Orders(Q, W) /\ InLine(p, Q, W)
    BY <1>6, <1>11, <1>12 DEF Ranked, RoutesInLine
  <1>13. PICK m \in Nat : m = Cardinality(W)
    BY <1>0, FS_CardinalityType
  <1>14. p \in [1 .. m -> W]
    BY <1>0, <1>13 DEF InLine
  <1>15. ASSUME \A k \in 1 .. m - 1 : Relevance(egos[p[k]].hits, required)
                                        - Relevance(egos[p[k + 1]].hits, required) > 1400
         PROVE  a = p
    <2>1. PICK rel : rel = [k \in 1 .. m |-> Relevance(egos[p[k]].hits, required)]
      OBVIOUS
    <2>2. ASSUME NEW k \in 1 .. m
          PROVE  p[k] \in DOMAIN egos /\ Relevance(egos[p[k]].hits, required) \in Int
      <3>1. p[k] \in DOMAIN egos
        BY <1>0, <1>14
      <3>2. egos[p[k]].hits \in AnyHits /\ 0 \in -MaxAdjustment .. MaxAdjustment
        BY <3>1 DEF AnyEgos, MaxAdjustment
      <3>3. QED
        BY <3>1, <3>2, ScoreFollows
    <2>3. rel \in [1 .. m -> Int]
      BY <2>1, <2>2
    <2>4. \A k \in 1 .. m - 1 : rel[k] - rel[k + 1] > 1400
      <3>1. \A k \in 1 .. m - 1 : k \in 1 .. m /\ k + 1 \in 1 .. m
        OBVIOUS
      <3>2. QED
        BY <1>15, <2>1, <3>1
    <2>5. Apart(rel, m, 1400)
      <3>1. Falls(rel, m, 1400) /\ 1400 \in Nat
        BY <2>4 DEF Falls
      <3>2. QED
        BY <2>3, <3>1, FallsApart
    <2>6. ASSUME NEW k \in 1 .. m, NEW l \in 1 .. m, k < l
          PROVE  <<p[k], p[l]>> \in R /\ <<p[k], p[l]>> \in Q
      <3>1. PICK i \in DOMAIN egos, j \in DOMAIN egos : i = p[k] /\ j = p[l]
        BY <2>2
      <3>2. Relevance(egos[i].hits, required) - Relevance(egos[j].hits, required) > 1400
        BY <2>1, <2>5, <2>6, <3>1 DEF Apart
      <3>3. Before(egos, required, adjusted, i, j) /\ Before(egos, required, zero, i, j)
        BY <1>5, <3>2 DEF Before, Reorders
      <3>4. <<i, j>> \in R /\ <<i, j>> \in Q
        BY <1>7, <1>8, <3>3 DEF Earlier
      <3>5. QED
        BY <3>1, <3>4
    <2>7. {p[k] : k \in 1 .. m} = W
      <3>1. {p[k] : k \in 1 .. Cardinality(W)} = W
        BY <1>0, LineHasAll
      <3>2. QED
        BY <1>13, <3>1
    <2>8. Both(p, m, R, Q)
      BY <2>6 DEF Both
    <2>9. Agree(R, Q, W)
      BY <1>0, <1>13, <2>7, <2>8, OrderOfLine
    <2>10. Lines(R, W) = Lines(Q, W)
      BY <1>13, <2>9, SameLines
    <2>11. QED
      BY <1>11, <1>12, <2>10 DEF RoutesInLine
  <1>16. /\ a = Adapted(egos, required, Cardinality(DOMAIN egos))
         /\ p = Plain(egos, required, Cardinality(DOMAIN egos))
    BY <1>1, <1>2, <1>9, <1>10 DEF Adapted, Plain
  <1>17. 4 * MaxAdjustment = 1400
    BY DEF MaxAdjustment
  <1>18. ToSet(a) = ToSet(p)
    BY <1>11, <1>12 DEF RoutesInLine
  <1>19. Len(p) = m
    BY <1>12, <1>13 DEF RoutesInLine
  <1>20. QED
    BY <1>15, <1>16, <1>17, <1>18, <1>19 DEF OnlyReorders

\* Any hits and pasts the model checker tries are such.
LEMMA PairsAreAny ==
  ASSUME NEW egos \in Pairs
  PROVE  AnyEgos(egos)
  <1>1. Hits \in SUBSET AnyHits
    BY DEF Hits, AnyHits
  <1>2. ASSUME NEW past \in Pasts PROVE past \in Seq(AnyEvent)
    <2>1. ASSUME NEW kind \in {"runtime_use", "replay_health"}, NEW success \in BOOLEAN,
                 NEW age \in {0, 2}, NEW times \in {0, 2, 14}
          PROVE  Event(kind, success, age, times) \in AnyEvent
      BY DEF Event, AnyEvent
    <2>2. \A x, y \in AnyEvent : <<x, y>> \in Seq(AnyEvent)
      OBVIOUS
    <2>3. ASSUME NEW kind \in {"runtime_use", "replay_health"}, NEW age \in {0, 2},
                 NEW f \in {0, 2, 14}, NEW s \in {0, 2, 14}
          PROVE  Past(kind, age, f, s) \in Seq(AnyEvent)
      <3>1. Event(kind, FALSE, 0, f) \in AnyEvent /\ Event(kind, TRUE, age, s) \in AnyEvent
        BY <2>1
      <3>2. QED
        BY <2>2, <3>1 DEF Past
    <2>4. \/ \E f \in {0, 2, 14}, s \in {0, 2, 14} : past = Past("runtime_use", 0, f, s)
          \/ \E f \in {0, 2, 14}, s \in {0, 2, 14} : past = Past("replay_health", 2, f, s)
      BY DEF Pasts
    <2>5. QED
      BY <2>3, <2>4
  <1>3. PICK h \in Hits, g \in Hits, p \in Pasts, q \in Pasts :
          egos = <<[hits |-> h, past |-> p], [hits |-> g, past |-> q]>>
    BY DEF Pairs
  <1>4. DOMAIN egos = 1 .. 2
    BY <1>3
  <1>5. IsFiniteSet(1 .. 2) /\ 1 .. 2 \in SUBSET Int
    <2>1. 1 \in Int /\ 2 \in Int
      OBVIOUS
    <2>2. IsFiniteSet(1 .. 2)
      BY <2>1, FS_Interval
    <2>3. QED
      BY <2>2
  <1>6. egos[1] = [hits |-> h, past |-> p] /\ egos[2] = [hits |-> g, past |-> q]
    BY <1>3
  <1>7. \A id \in 1 .. 2 : id = 1 \/ id = 2
    OBVIOUS
  <1>8. \A id \in DOMAIN egos : egos[id].hits \in AnyHits /\ egos[id].past \in Seq(AnyEvent)
    BY <1>1, <1>2, <1>4, <1>6, <1>7
  <1>9. QED
    BY <1>4, <1>5, <1>8 DEF AnyEgos

\* Served or not, what is routed is routed by relevance.
THEOREM RoutesByRelevance == Spec => []RoutingIsByRelevance
  <1>1. FeedbackOnlyReorders
    <2>1. ASSUME NEW egos \in Pairs, NEW required \in {0, 1} PROVE OnlyReorders(egos, required)
      <3>1. AnyEgos(egos)
        BY PairsAreAny
      <3>2. required \in Nat
        OBVIOUS
      <3>3. QED
        BY <3>1, <3>2, EveryFeedbackReorders
    <2>2. QED
      BY <2>1 DEF FeedbackOnlyReorders
  <1>2. RoutingIsByRelevance
    BY <1>1 DEF RoutingIsByRelevance
  <1>3. QED
    BY <1>2, PTL
=============================================================================
