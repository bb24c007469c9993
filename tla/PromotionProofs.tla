--------------------------- MODULE PromotionProofs ---------------------------
(***************************************************************************)
(* Proofs about Promotion, for any callers, lessons, evidence and bounds.   *)
(*                                                                         *)
(* What holds however calls overlap and wherever the process dies (Sound):  *)
(* a log starts with a promotion and every revocation in it leads back to   *)
(* the note that promotion found.  What holds while calls do not overlap    *)
(* and nothing crashes (Lone): the one call under way is all that can be    *)
(* between the book, the candidates and the log, and it carries with it     *)
(* what they agreed on when it began (Holds), so that it can be finished or *)
(* undone to where they agree again.                                        *)
(***************************************************************************)
EXTENDS Promotion, TLAPS
LOCAL INSTANCE WellFoundedInduction

-----------------------------------------------------------------------------
(* Positions in a log *)

LEMMA LeastNat ==
  ASSUME NEW T \in SUBSET Nat, T # {}
  PROVE  \E m \in T : \A n \in T : m <= n
  <1> DEFINE R == OpToRel(<, Nat)
  <1>1. IsWellFoundedOn(R, Nat)
    BY NatLessThanWellFounded
  <1>2. \A m, n \in T : n < m => <<n, m>> \in R
    BY DEF OpToRel
  <1> HIDE DEF R
  <1>3. PICK m \in T : \A n \in T : ~(<<n, m>> \in R)
    BY <1>1, WFMin
  <1>4. \A n \in T : ~(n < m)
    BY <1>2, <1>3
  <1>5. QED
    BY <1>4

LEMMA GreatestIndex ==
  ASSUME NEW n \in Nat, NEW T \in SUBSET (1..n), T # {}
  PROVE  \E m \in T : \A i \in T : m >= i
  <1> DEFINE D == {n - i : i \in T}
  <1>1. D \in SUBSET Nat /\ D # {}
    <2>1. \A i \in T : n - i \in Nat
      OBVIOUS
    <2>2. QED
      BY <2>1
  <1> HIDE DEF D
  <1>2. PICK d \in D : \A e \in D : d <= e
    BY <1>1, LeastNat
  <1>3. PICK m \in T : d = n - m
    BY <1>2 DEF D
  <1>4. ASSUME NEW i \in T PROVE m >= i
    <2>1. d <= n - i
      BY <1>2 DEF D
    <2>2. m \in 1..n /\ i \in 1..n
      OBVIOUS
    <2>3. QED
      BY <1>3, <2>1, <2>2
  <1>5. QED
    BY <1>4

Last(s) == s[Len(s)]

\* The lesson of log c was withdrawn.
Withdrawn(c) == audit[c] # <<>> /\ Last(audit[c]).operation = "revoke"

\* A log starts with a promotion, and revocations lead back to before it.
Audited ==
  \A c \in Lessons : audit[c] # <<>> =>
    /\ audit[c][1].operation # "revoke"
    /\ \A i \in DOMAIN audit[c] :
         audit[c][i].operation = "revoke" => audit[c][i].after = audit[c][1].before

\* What revoke reads: the note the latest promotion left, and the one the first
\* found.
LEMMA LogRead ==
  ASSUME TypeOK, Audited, NEW c \in Lessons, Applied(c) # {}
  PROVE  /\ audit[c] # <<>>
         /\ First(c) = audit[c][1]
         /\ First(c) \in Mutation /\ Latest(c) \in Mutation
         /\ ~Withdrawn(c) => Latest(c) = Last(audit[c])
  <1>1. audit[c] \in Seq(Mutation) /\ Len(audit[c]) \in Nat
    BY DEF TypeOK
  <1>2. /\ Applied(c) \subseteq 1..Len(audit[c])
        /\ DOMAIN audit[c] = 1..Len(audit[c])
        /\ \A i \in DOMAIN audit[c] :
             audit[c][i] \in Mutation
             /\ (i \in Applied(c) <=> audit[c][i].operation # "revoke")
    <2>1. DOMAIN audit[c] = 1..Len(audit[c])
      BY <1>1
    <2>2. \A i \in DOMAIN audit[c] : audit[c][i] \in Mutation
      BY <1>1
    <2>3. \A m \in Mutation :
            m.operation \in {"promote", "reinforce"} <=> m.operation # "revoke"
      BY DEF Mutation
    <2>4. QED
      BY <2>1, <2>2, <2>3 DEF Applied
  <1>3. audit[c] # <<>> /\ 1 \in DOMAIN audit[c] /\ Len(audit[c]) \in DOMAIN audit[c]
    BY <1>1, <1>2
  <1>4. 1 \in Applied(c)
    BY <1>2, <1>3 DEF Audited
  <1>5. (CHOOSE i \in Applied(c) : \A j \in Applied(c) : i <= j) = 1
    <2>1. \A j \in Applied(c) : 1 <= j
      BY <1>1, <1>2
    <2>2. \A i \in Applied(c) : (\A j \in Applied(c) : i <= j) => i = 1
      BY <1>1, <1>2, <1>4
    <2>3. QED
      BY <1>4, <2>1, <2>2
  <1> DEFINE m == CHOOSE i \in Applied(c) : \A j \in Applied(c) : i >= j
  <1>6. m \in Applied(c) /\ \A j \in Applied(c) : m >= j
    BY <1>1, <1>2, GreatestIndex
  <1>7. ~Withdrawn(c) => m = Len(audit[c])
    <2>1. ~Withdrawn(c) => Len(audit[c]) \in Applied(c)
      BY <1>2, <1>3 DEF Withdrawn, Last
    <2>2. QED
      BY <1>1, <1>2, <1>6, <2>1
  <1> HIDE DEF m
  <1>8. Latest(c) = audit[c][m]
    BY DEF Latest, m
  <1>9. First(c) = audit[c][1]
    BY <1>5 DEF First
  <1>10. QED
    BY <1>2, <1>3, <1>6, <1>7, <1>8, <1>9 DEF Last

-----------------------------------------------------------------------------
(* However calls overlap *)

\* What a caller holds, by where it is.
Fits(x) ==
  x.step # "idle" =>
    /\ x.lesson \in Lessons /\ x.candidate \in Candidate
    /\ x.step \in {"write", "rewrite"} => x.book \in Notes
    /\ x.step # "put" => x.previous \in Candidate
    /\ x.step = "put" => ~x.revoke
    /\ x.step = "log" => x.revoke
    /\ x.revoke /\ x.step # "log" =>
         audit[x.lesson] # <<>> /\ x.after = audit[x.lesson][1].before
    /\ x.candidate.status = "revoked" <=> x.revoke

Sound == TypeOK /\ (\A w \in Callers : Fits(call[w])) /\ Audited

\* Logs are only added to.
LogsGrow ==
  \A c \in Lessons : audit[c] # <<>> =>
    audit'[c] # <<>> /\ audit'[c][1] = audit[c][1]

LEMMA FitsKept ==
  ASSUME LogsGrow, NEW x, Fits(x)
  PROVE  Fits(x)'
  BY DEF LogsGrow, Fits

LEMMA NoCallFits == NoCall \in Call /\ Fits(NoCall)
  BY DEF NoCall, Call, Steps, Fits

\* A caller goes on with a call that fits: all calls fit.
LEMMA CallsKept ==
  ASSUME Sound, LogsGrow, NEW w \in Callers, NEW x \in Call, Fits(x)', Goto(w, x)
  PROVE  /\ call' \in [Callers -> Call]
         /\ (\A u \in Callers : Fits(call[u]))'
  <1>1. call \in [Callers -> Call]
    BY DEF Sound, TypeOK
  <1>2. call' = [call EXCEPT ![w] = IF x.step = "idle" THEN NoCall ELSE x]
    BY DEF Goto
  <1>3. Fits(NoCall)'
    BY FitsKept, NoCallFits
  <1>4. ASSUME NEW u \in Callers PROVE call'[u] \in Call /\ Fits(call[u])'
    <2>1. CASE u = w
      BY <1>1, <1>2, <1>3, <2>1, NoCallFits
    <2>2. CASE u # w
      <3>1. call'[u] = call[u]
        BY <1>1, <1>2, <2>2
      <3>2. PICK y \in Call : y = call[u]
        BY <1>1
      <3>3. Fits(y)'
        BY <3>2, FitsKept DEF Sound
      <3>4. QED
        BY <3>1, <3>2, <3>3 DEF Fits
    <2>3. QED
      BY <2>1, <2>2
  <1>5. QED
    BY <1>1, <1>2, <1>4

LEMMA CandidateTyped ==
  /\ \A normal \in BOOLEAN :
       Fresh(normal) \in Candidate /\ Fresh(normal).status = "candidate"
  /\ \A x \in Candidate, e \in Evidence, success, normal \in BOOLEAN :
       /\ Aggregated(x, e, success, normal) \in Candidate
       /\ Aggregated(x, e, success, normal).status = x.status
  /\ \A x \in Candidate, s \in Statuses :
       [x EXCEPT !.status = s] \in Candidate /\ [x EXCEPT !.status = s].status = s
  /\ \A x : Verdict(x) \in {"blocked", "needs_review", "candidate"}
  <1>1. \A normal \in BOOLEAN :
          Fresh(normal) \in Candidate /\ Fresh(normal).status = "candidate"
    BY DEF Fresh, Candidate, Statuses
  <1>2. ASSUME NEW x \in Candidate, NEW e \in Evidence,
               NEW success \in BOOLEAN, NEW normal \in BOOLEAN
        PROVE  /\ Aggregated(x, e, success, normal) \in Candidate
               /\ Aggregated(x, e, success, normal).status = x.status
    <2>1. PICK b \in BOOLEAN : b = (x.normal /\ normal)
      BY Zenon
    <2>2. PICK m \in Nat, n \in Nat :
            /\ m = IF success THEN x.successes + 1 ELSE x.successes
            /\ n = IF success THEN x.failures ELSE x.failures + 1
      BY DEF Candidate
    <2>3. Aggregated(x, e, success, normal) =
            [x EXCEPT !.evidence = @ \cup {e}, !.successes = m,
                      !.failures = n, !.normal = b]
      BY <2>1, <2>2, Zenon DEF Aggregated
    <2>4. b \in BOOLEAN /\ m \in Nat /\ n \in Nat
      BY <2>1, <2>2, Zenon
    <2>5. QED
      BY <2>3, <2>4 DEF Candidate
  <1>3. \A x \in Candidate, s \in Statuses :
          [x EXCEPT !.status = s] \in Candidate /\ [x EXCEPT !.status = s].status = s
    BY DEF Candidate
  <1>4. \A x : Verdict(x) \in {"blocked", "needs_review", "candidate"}
    BY DEF Verdict
  <1>5. QED
    BY <1>1, <1>2, <1>3, <1>4

LEMMA NoteTyped ==
  ASSUME NEW x \in Candidate, NEW present \in Note \cup {NoNote}
  PROVE  NoteFor(x, present) \in Note
  BY DEF NoteFor, Candidate, Note, Max

LEMMA Initial == Init => Sound
  <1> SUFFICES ASSUME Init PROVE Sound
    OBVIOUS
  <1>1. published \in Notes
    BY DEF Init, Notes, Note, Human
  <1>2. TypeOK
    BY <1>1, NoCallFits DEF Init, TypeOK
  <1>3. \A w \in Callers : Fits(call[w])
    BY NoCallFits DEF Init
  <1>4. Audited
    BY DEF Init, Audited
  <1>5. QED
    BY <1>2, <1>3, <1>4 DEF Sound

-----------------------------------------------------------------------------
\* A step that leaves the logs alone: what it has to answer for.
LEMMA Assembled ==
  ASSUME Sound, UNCHANGED <<audit, published>>,
         candidates' \in [Lessons -> Candidate \cup {NoCandidate}],
         book' \in Notes \cup {NoBook}, edited' \subseteq Lessons,
         mishap' \in {"none", "overlap", "crash"},
         NEW w \in Callers, NEW x \in Call, Fits(x), Goto(w, x)
  PROVE  Sound'
  <1>1. LogsGrow
    BY DEF LogsGrow
  <1>2. Fits(x)'
    BY <1>1, FitsKept
  <1>3. /\ call' \in [Callers -> Call]
        /\ (\A u \in Callers : Fits(call[u]))'
    BY <1>1, <1>2, CallsKept
  <1>4. Audited'
    BY DEF Audited, Sound
  <1>5. QED
    BY <1>3, <1>4 DEF Sound, TypeOK

\* An observation that is taken begins a call.
LEMMA ObserveBegins ==
  ASSUME Sound, NEW w \in Callers, Observe(w)
  PROVE  \E x \in Call :
           /\ Enter(w, x) /\ Fits(x)
           /\ x.step \in {"fetch", "put"} /\ ~x.revoke
           /\ x.step = "fetch" => x.previous.status # "revoked"
           /\ \/ candidates[x.lesson] = NoCandidate
              \/ candidates[x.lesson].status # "revoked"
  <1>1. PICK c \in Lessons, e \in Evidence, success \in BOOLEAN, normal \in BOOLEAN :
          LET known == IF candidates[c] = NoCandidate THEN Fresh(normal) ELSE candidates[c]
              x == Aggregated(known, e, success, normal)
          IN  /\ known.status # "revoked"
              /\ e \notin known.evidence
              /\ Len(audit[c]) < MaxAudit
              /\ IF Eligible(x)
                 THEN Enter(w, [NoCall EXCEPT !.step = "fetch", !.lesson = c,
                                  !.candidate = [x EXCEPT !.status = "promoted"],
                                  !.previous = x])
                 ELSE Enter(w, [NoCall EXCEPT !.step = "put", !.lesson = c,
                                  !.candidate = [x EXCEPT !.status = Verdict(x)]])
    BY Zenon DEF Observe
  <1>2. PICK known : known = IF candidates[c] = NoCandidate THEN Fresh(normal)
                                                            ELSE candidates[c]
    OBVIOUS
  <1>3. known \in Candidate
    BY <1>2, CandidateTyped DEF Sound, TypeOK
  <1>4. PICK x : x = Aggregated(known, e, success, normal)
    OBVIOUS
  <1>5. /\ known.status # "revoked"
        /\ Eligible(x) => Enter(w, [NoCall EXCEPT !.step = "fetch", !.lesson = c,
                                      !.candidate = [x EXCEPT !.status = "promoted"],
                                      !.previous = x])
        /\ ~Eligible(x) => Enter(w, [NoCall EXCEPT !.step = "put", !.lesson = c,
                                      !.candidate = [x EXCEPT !.status = Verdict(x)]])
    BY <1>1, <1>2, <1>4
  <1>6. x \in Candidate /\ x.status # "revoked"
    BY <1>3, <1>4, <1>5, CandidateTyped
  <1>7. candidates[c] = NoCandidate \/ candidates[c].status # "revoked"
    BY <1>2, <1>5
  <1>8. PICK p, z : /\ p = [x EXCEPT !.status = IF Eligible(x) THEN "promoted"
                                                              ELSE Verdict(x)]
                    /\ z = IF Eligible(x)
                           THEN [NoCall EXCEPT !.step = "fetch", !.lesson = c,
                                   !.candidate = p, !.previous = x]
                           ELSE [NoCall EXCEPT !.step = "put", !.lesson = c,
                                   !.candidate = p]
    OBVIOUS
  <1>9. p \in Candidate /\ p.status # "revoked"
    BY <1>6, <1>8, CandidateTyped DEF Statuses
  <1>10. Enter(w, z)
    BY <1>5, <1>8
  <1>11. /\ z \in Call /\ Fits(z) /\ z.lesson = c /\ ~z.revoke
         /\ z.step \in {"fetch", "put"} /\ (z.step = "fetch" => z.previous = x)
    BY <1>6, <1>8, <1>9 DEF NoCall, Call, Steps, Fits
  <1>12. QED
    BY <1>6, <1>7, <1>10, <1>11

\* What a caller goes on with in its next step, other than the append.
LEMMA GoesOn ==
  ASSUME Sound, NEW w \in Callers,
         \/ Put(w) \/ Fetch(w) \/ Write(w) \/ PutStatus(w) \/ AppendFails(w)
         \/ Refetch(w) \/ Rewrite(w) \/ RestoreCandidate(w) \/ ReadLog(w)
         \/ FetchNote(w)
  PROVE  /\ \E x \in Call : Fits(x) /\ Goto(w, x)
         /\ candidates' \in [Lessons -> Candidate \cup {NoCandidate}]
         /\ book' \in Notes \cup {NoBook}
         /\ UNCHANGED <<published, audit, edited, mishap>>
  <1> DEFINE y == call[w]
  <1>1. /\ y \in Call /\ Fits(y)
        /\ candidates \in [Lessons -> Candidate \cup {NoCandidate}]
        /\ book \in Notes \cup {NoBook}
    BY DEF Sound, TypeOK
  <1>2. CASE Put(w)
    <2>1. [y EXCEPT !.step = "idle"] \in Call /\ Fits([y EXCEPT !.step = "idle"])
      BY <1>1 DEF Call, Steps, Fits
    <2>2. candidates' \in [Lessons -> Candidate \cup {NoCandidate}]
      BY <1>1, <1>2 DEF Put, At, Lesson, Fits
    <2>3. QED
      BY <1>1, <1>2, <2>1, <2>2 DEF Put, GotoStep
  <1>3. CASE Fetch(w)
    <2>1. y.lesson \in Lessons /\ y.candidate \in Candidate /\ ~y.revoke
          /\ y.step = "fetch" /\ y.candidate.status # "revoked"
      BY <1>1, <1>3 DEF Fetch, At, Fits
    <2>2. CASE book = NoBook
      <3> DEFINE p == [y.candidate EXCEPT !.status = "blocked"]
                 x == [NoCall EXCEPT !.step = "put", !.lesson = y.lesson, !.candidate = p]
      <3>1. p \in Candidate /\ p.status # "revoked"
        BY <2>1, CandidateTyped DEF Statuses
      <3>2. x \in Call /\ Fits(x)
        BY <2>1, <3>1 DEF NoCall, Call, Steps, Fits
      <3>3. Goto(w, x)
        BY <1>3, <2>2 DEF Fetch, Lesson
      <3>4. QED
        BY <1>1, <1>3, <3>2, <3>3 DEF Fetch
    <2>3. CASE book # NoBook
      <3> DEFINE note == NoteFor(y.candidate, book[y.lesson])
                 x == [y EXCEPT !.step = "write", !.book = [book EXCEPT ![y.lesson] = note],
                                !.before = book[y.lesson], !.after = note]
      <3>1. book \in Notes /\ book[y.lesson] \in Note \cup {NoNote}
        BY <1>1, <2>1, <2>3 DEF Notes
      <3>2. note \in Note
        BY <2>1, <3>1, NoteTyped
      <3> HIDE DEF note
      <3>3. [book EXCEPT ![y.lesson] = note] \in Notes
        BY <3>1, <3>2 DEF Notes
      <3>4. x \in Call /\ Fits(x)
        BY <1>1, <2>1, <3>1, <3>2, <3>3 DEF Call, Steps, Fits
      <3>5. Goto(w, x)
        BY <1>3, <2>3 DEF Fetch, Lesson, note
      <3>6. QED
        BY <1>1, <1>3, <3>4, <3>5 DEF Fetch
    <2>4. QED
      BY <2>2, <2>3
  <1>4. CASE Write(w) \/ Rewrite(w)
    <2> DEFINE step == IF Write(w) THEN "status" ELSE "restore"
               x == [y EXCEPT !.step = step, !.book = NoBook]
    <2>1. y.step = IF Write(w) THEN "write" ELSE "rewrite"
      BY <1>4 DEF Write, Rewrite, At
    <2>2. book' \in Notes /\ Goto(w, x)
      BY <1>1, <1>4, <2>1 DEF Write, Rewrite, PutBook, Fits
    <2>3. x \in Call /\ Fits(x)
      BY <1>1, <2>1 DEF Call, Steps, Fits
    <2>4. QED
      BY <1>1, <1>4, <2>2, <2>3 DEF Write, Rewrite
  <1>5. CASE PutStatus(w)
    <2> DEFINE x == [y EXCEPT !.step = "append"]
    <2>1. x \in Call /\ Fits(x)
      BY <1>1, <1>5 DEF PutStatus, At, Call, Steps, Fits
    <2>2. candidates' \in [Lessons -> Candidate \cup {NoCandidate}]
      BY <1>1, <1>5 DEF PutStatus, At, Lesson, Fits
    <2>3. QED
      BY <1>1, <1>5, <2>1, <2>2 DEF PutStatus, GotoStep
  <1>6. CASE AppendFails(w)
    <2> DEFINE x == [y EXCEPT !.step = "refetch"]
    <2>1. x \in Call /\ Fits(x)
      BY <1>1, <1>6 DEF AppendFails, At, Call, Steps, Fits
    <2>2. QED
      BY <1>1, <1>6, <2>1 DEF AppendFails, GotoStep
  <1>7. CASE Refetch(w)
    <2> DEFINE back == [book EXCEPT ![y.lesson] = y.before]
               x == IF Restorable(y.lesson, y.after)
                    THEN [y EXCEPT !.step = "rewrite", !.book = back]
                    ELSE [y EXCEPT !.step = "restore"]
    <2>1. y.step = "refetch" /\ y.before \in Note \cup {NoNote}
      BY <1>1, <1>7 DEF Refetch, At, Call
    <2>2. Restorable(y.lesson, y.after) => back \in Notes
      BY <1>1, <2>1 DEF Restorable, Notes
    <2> HIDE DEF back
    <2>3. x \in Call /\ Fits(x)
      BY <1>1, <2>1, <2>2 DEF Call, Steps, Fits
    <2>4. Goto(w, x)
      BY <1>7 DEF Refetch, Lesson, back
    <2>5. QED
      BY <1>1, <1>7, <2>3, <2>4 DEF Refetch
  <1>8. CASE RestoreCandidate(w)
    <2> DEFINE x == [y EXCEPT !.step = "idle"]
    <2>1. x \in Call /\ Fits(x)
      BY <1>1 DEF Call, Steps, Fits
    <2>2. candidates' \in [Lessons -> Candidate \cup {NoCandidate}]
      BY <1>1, <1>8 DEF RestoreCandidate, At, Lesson, Fits
    <2>3. QED
      BY <1>1, <1>8, <2>1, <2>2 DEF RestoreCandidate, GotoStep
  <1>9. CASE ReadLog(w)
    <2>1. y.lesson \in Lessons /\ y.step = "log" /\ y.revoke
      BY <1>1, <1>9 DEF ReadLog, At, Fits
    <2>2. CASE Applied(y.lesson) = {}
      BY <1>1, <1>9, <2>2, NoCallFits DEF ReadLog, Lesson
    <2>3. CASE Applied(y.lesson) # {}
      <3> DEFINE x == [y EXCEPT !.step = "fetch", !.before = Latest(y.lesson).after,
                                !.after = First(y.lesson).before]
      <3>1. /\ audit[y.lesson] # <<>> /\ First(y.lesson) = audit[y.lesson][1]
            /\ Latest(y.lesson).after \in Note \cup {NoNote}
            /\ First(y.lesson).before \in Note \cup {NoNote}
        BY <2>1, <2>3, LogRead DEF Sound, Mutation
      <3>2. x \in Call /\ Fits(x)
        BY <1>1, <2>1, <3>1 DEF Call, Steps, Fits
      <3>3. Goto(w, x)
        BY <1>9, <2>3 DEF ReadLog, Lesson
      <3>4. QED
        BY <1>1, <1>9, <3>2, <3>3 DEF ReadLog
    <2>4. QED
      BY <2>2, <2>3
  <1>10. CASE FetchNote(w)
    <2>1. y.lesson \in Lessons /\ y.step = "fetch" /\ y.after \in Note \cup {NoNote}
      BY <1>1, <1>10 DEF FetchNote, At, Fits, Call
    <2>2. CASE ~Restorable(y.lesson, y.before)
      BY <1>1, <1>10, <2>2, NoCallFits DEF FetchNote, Lesson
    <2>3. CASE Restorable(y.lesson, y.before)
      <3> DEFINE new == [book EXCEPT ![y.lesson] = y.after]
                 x == [y EXCEPT !.step = "write", !.book = new]
      <3>1. new \in Notes
        BY <1>1, <2>1, <2>3 DEF Restorable, Notes
      <3> HIDE DEF new
      <3>2. x \in Call /\ Fits(x)
        BY <1>1, <2>1, <3>1 DEF Call, Steps, Fits
      <3>3. Goto(w, x)
        BY <1>10, <2>3 DEF FetchNote, Lesson, new
      <3>4. QED
        BY <1>1, <1>10, <3>2, <3>3 DEF FetchNote
    <2>4. QED
      BY <2>2, <2>3
  <1>11. QED
    BY <1>2, <1>3, <1>4, <1>5, <1>6, <1>7, <1>8, <1>9, <1>10

\* A revocation that is taken begins a call.
LEMMA RevokeBegins ==
  ASSUME Sound, NEW w \in Callers, Revoke(w)
  PROVE  \E x \in Call :
           /\ Enter(w, x) /\ Fits(x)
           /\ x.step = "log" /\ x.revoke /\ x.previous.status = "promoted"
           /\ candidates[x.lesson] = x.previous
  <1>1. PICK c \in Lessons :
          /\ candidates[c] # NoCandidate /\ candidates[c].status = "promoted"
          /\ Len(audit[c]) < MaxAudit
          /\ Enter(w, [NoCall EXCEPT !.step = "log", !.revoke = TRUE, !.lesson = c,
                         !.candidate = [candidates[c] EXCEPT !.status = "revoked"],
                         !.previous = candidates[c]])
    BY DEF Revoke
  <1>2. PICK p \in Candidate : p = [candidates[c] EXCEPT !.status = "revoked"]
    BY <1>1, CandidateTyped DEF Sound, TypeOK, Statuses
  <1>3. PICK y \in Candidate : y = candidates[c]
    BY <1>1 DEF Sound, TypeOK
  <1>4. p.status = "revoked"
    BY <1>2, <1>3 DEF Candidate
  <1>5. PICK z : z = [NoCall EXCEPT !.step = "log", !.revoke = TRUE, !.lesson = c,
                                    !.candidate = p, !.previous = y]
    OBVIOUS
  <1>6. Enter(w, z)
    BY <1>1, <1>2, <1>3, <1>5
  <1>7. /\ z \in Call /\ Fits(z) /\ z.step = "log" /\ z.revoke
        /\ z.previous = y /\ z.lesson = c
    BY <1>3, <1>4, <1>5 DEF NoCall, Call, Steps, Fits
  <1>8. QED
    BY <1>1, <1>3, <1>6, <1>7

\* The mutation a caller appends to the log of its lesson.
Entry(w) == [operation |-> Operation(w), before |-> call[w].before, after |-> call[w].after]

LEMMA Appending ==
  ASSUME Sound, NEW w \in Callers, AppendMutation(w)
  PROVE  /\ At(w, "append") /\ Lesson(w) \in Lessons /\ Entry(w) \in Mutation
         /\ Entry(w).operation = "revoke" <=> call[w].revoke
         /\ audit' = [audit EXCEPT ![Lesson(w)] = Append(audit[Lesson(w)], Entry(w))]
         /\ audit' \in [Lessons -> Seq(Mutation)]
         /\ LogsGrow
         /\ audit'[Lesson(w)] # <<>> /\ Last(audit'[Lesson(w)]) = Entry(w)
         /\ \A c \in Lessons \ {Lesson(w)} : audit'[c] = audit[c]
         /\ Audited'
  <1>1. call[w] \in Call /\ Fits(call[w]) /\ audit \in [Lessons -> Seq(Mutation)]
    BY DEF Sound, TypeOK
  <1>2. At(w, "append") /\ Lesson(w) \in Lessons
    BY <1>1 DEF AppendMutation, At, Lesson, Fits
  <1>3. /\ Entry(w) \in Mutation
        /\ Entry(w).operation = "revoke" <=> call[w].revoke
    BY <1>1 DEF Entry, Operation, Mutation, Call
  <1>4. PICK c \in Lessons, e \in Mutation : c = Lesson(w) /\ e = Entry(w)
    BY <1>2, <1>3
  <1>5. audit' = [audit EXCEPT ![c] = Append(audit[c], e)]
    BY <1>4 DEF AppendMutation, Entry
  <1>6. /\ Append(audit[c], e) \in Seq(Mutation)
        /\ DOMAIN Append(audit[c], e) = 1..(Len(audit[c]) + 1)
        /\ \A i \in DOMAIN audit[c] : Append(audit[c], e)[i] = audit[c][i]
        /\ Len(Append(audit[c], e)) = Len(audit[c]) + 1
        /\ Append(audit[c], e)[Len(audit[c]) + 1] = e
        /\ Append(audit[c], e) # <<>>
        /\ DOMAIN audit[c] = 1..Len(audit[c]) /\ Len(audit[c]) \in Nat
        /\ audit[c] # <<>> => 1 \in DOMAIN audit[c]
        /\ audit[c] = <<>> => Append(audit[c], e)[1] = e
    BY <1>1
  <1>7. /\ audit' \in [Lessons -> Seq(Mutation)]
        /\ audit'[c] = Append(audit[c], e)
        /\ \A d \in Lessons \ {c} : audit'[d] = audit[d]
    BY <1>1, <1>5, <1>6
  <1>8. LogsGrow
    BY <1>6, <1>7 DEF LogsGrow
  <1>9. Last(audit'[c]) = e
    BY <1>6, <1>7 DEF Last
  <1>10. Audited'
    <2> SUFFICES ASSUME NEW d \in Lessons, audit'[d] # <<>>
                 PROVE  /\ audit'[d][1].operation # "revoke"
                        /\ \A i \in DOMAIN audit'[d] :
                             audit'[d][i].operation = "revoke"
                               => audit'[d][i].after = audit'[d][1].before
      BY DEF Audited
    <2>1. CASE d # c
      BY <1>7, <2>1 DEF Sound, Audited
    <2>2. CASE d = c /\ audit[c] = <<>>
      <3>1. ~call[w].revoke
        BY <1>1, <1>2, <1>4, <2>2 DEF Fits, At, Lesson
      <3>2. e.operation # "revoke"
        BY <1>3, <1>4, <3>1
      <3>3. DOMAIN audit'[c] = {1} /\ audit'[c][1] = e
        BY <1>6, <1>7, <2>2
      <3>4. QED
        BY <2>2, <3>2, <3>3
    <2>3. CASE d = c /\ audit[c] # <<>>
      <3>1. audit'[c][1] = audit[c][1] /\ audit[c][1].operation # "revoke"
        BY <1>6, <1>7, <2>3 DEF Sound, Audited
      <3>2. e.operation = "revoke" => e.after = audit[c][1].before
        BY <1>1, <1>2, <1>3, <1>4 DEF Fits, At, Lesson, Entry
      <3>3. ASSUME NEW i \in DOMAIN audit'[c], audit'[c][i].operation = "revoke"
            PROVE  audit'[c][i].after = audit'[c][1].before
        <4>1. i \in DOMAIN audit[c] \/ i = Len(audit[c]) + 1
          BY <1>6, <1>7
        <4>2. CASE i \in DOMAIN audit[c]
          BY <1>6, <1>7, <2>3, <3>1, <3>3, <4>2 DEF Sound, Audited
        <4>3. CASE i = Len(audit[c]) + 1
          BY <1>6, <1>7, <3>1, <3>2, <3>3, <4>3
        <4>4. QED
          BY <4>1, <4>2, <4>3
      <3>4. QED
        BY <2>3, <3>1, <3>3
    <2>4. QED
      BY <2>1, <2>2, <2>3
  <1>11. QED
    BY <1>2, <1>3, <1>4, <1>5, <1>7, <1>6, <1>8, <1>9, <1>10

LEMMA SoundNext == Sound /\ [Next]_vars => Sound'
  <1> SUFFICES ASSUME Sound, [Next]_vars PROVE Sound'
    OBVIOUS
  <1> DEFINE Mishaps == {"none", "overlap", "crash"}
  <1>0. /\ mishap \in Mishaps /\ edited \subseteq Lessons
        /\ candidates \in [Lessons -> Candidate \cup {NoCandidate}]
        /\ book \in Notes \cup {NoBook} /\ published \in Notes
    BY DEF Sound, TypeOK
  <1>1. CASE UNCHANGED vars
    BY <1>1 DEF vars, Sound, TypeOK, Fits, Audited
  <1>2. ASSUME NEW w \in Callers, Observe(w) PROVE Sound'
    <2>1. PICK x \in Call : Enter(w, x) /\ Fits(x)
      BY <1>2, ObserveBegins
    <2>2. /\ Goto(w, x) /\ mishap' \in Mishaps
          /\ UNCHANGED <<candidates, published, book, audit, edited>>
      BY <1>0, <1>2, <2>1 DEF Enter, Overlap, Observe
    <2>3. QED
      BY <1>0, <2>1, <2>2, Assembled
  <1>3. ASSUME NEW w \in Callers, Revoke(w) PROVE Sound'
    <2>1. PICK x \in Call : Enter(w, x) /\ Fits(x)
      BY <1>3, RevokeBegins
    <2>2. /\ Goto(w, x) /\ mishap' \in Mishaps
          /\ UNCHANGED <<candidates, published, book, audit, edited>>
      BY <1>0, <1>3, <2>1 DEF Enter, Overlap, Revoke
    <2>3. QED
      BY <1>0, <2>1, <2>2, Assembled
  <1>4. ASSUME NEW w \in Callers, AppendMutation(w) PROVE Sound'
    <2>1. audit' \in [Lessons -> Seq(Mutation)] /\ LogsGrow /\ Audited'
      BY <1>4, Appending
    <2>2. call[w] \in Call
      BY DEF Sound, TypeOK
    <2>3. PICK x : x = [call[w] EXCEPT !.step = "idle"]
      OBVIOUS
    <2>4. x \in Call /\ x.step = "idle"
      BY <2>2, <2>3 DEF Call, Steps
    <2>5. Fits(x)' /\ Goto(w, x)
      BY <1>4, <2>3, <2>4 DEF AppendMutation, GotoStep, Fits
    <2>6. /\ call' \in [Callers -> Call]
          /\ (\A u \in Callers : Fits(call[u]))'
      BY <2>1, <2>4, <2>5, CallsKept
    <2>7. QED
      BY <1>0, <1>4, <2>1, <2>6 DEF AppendMutation, Sound, TypeOK
  <1>5. ASSUME NEW w \in Callers, Advance(w), ~AppendMutation(w) PROVE Sound'
    <2>1. /\ \E x \in Call : Fits(x) /\ Goto(w, x)
          /\ candidates' \in [Lessons -> Candidate \cup {NoCandidate}]
          /\ book' \in Notes \cup {NoBook}
          /\ UNCHANGED <<published, audit, edited, mishap>>
      BY <1>5, GoesOn DEF Advance
    <2>2. PICK x \in Call : Fits(x) /\ Goto(w, x)
      BY <2>1
    <2>3. QED
      BY <1>0, <2>1, <2>2, Assembled
  <1>6. CASE Edit
    <2>1. book' \in Notes \cup {NoBook}
      BY <1>0, <1>6 DEF Edit, Notes, Note, Revised
    <2>2. edited' \subseteq Lessons
      BY <1>0, <1>6 DEF Edit
    <2>3. mishap' \in Mishaps /\ UNCHANGED <<candidates, published, audit, call>>
      BY <1>0, <1>6 DEF Edit, Overlap
    <2>4. QED
      BY <2>1, <2>2, <2>3 DEF Sound, TypeOK, Fits, Audited
  <1>7. CASE Crash
    <2>1. book' \in Notes \cup {NoBook} /\ edited' \subseteq Lessons
      BY <1>0, <1>7 DEF Crash
    <2>2. call' \in [Callers -> Call] /\ (\A w \in Callers : Fits(call[w]))'
      BY <1>7, NoCallFits DEF Crash, Fits, NoCall
    <2>3. mishap' \in Mishaps /\ UNCHANGED <<candidates, published, audit>>
      BY <1>7 DEF Crash
    <2>4. QED
      BY <2>1, <2>2, <2>3 DEF Sound, TypeOK, Audited
  <1>8. QED
    BY <1>1, <1>2, <1>3, <1>4, <1>5, <1>6, <1>7 DEF Next

LEMMA Soundness == Spec => []Sound
  BY Initial, SoundNext, PTL DEF Spec

\* Every variable keeps its type, and a caller what it works on.
THEOREM TypeCorrect == Spec => []TypeOK
  <1>1. Sound => TypeOK
    BY DEF Sound
  <1>2. QED
    BY <1>1, Soundness, PTL

\* However calls overlap and wherever the process dies, a log starts with a
\* promotion, and each revocation in it leads back to the note that promotion
\* found, over all the reinforcements between.
THEOREM RevocationsLeadBack == Spec => []Audited
  <1>1. Sound => Audited
    BY DEF Sound
  <1>2. QED
    BY <1>1, Soundness, PTL

-----------------------------------------------------------------------------
(* While calls do not overlap and nothing crashes *)

IsRevoked(c) == candidates[c] # NoCandidate /\ candidates[c].status = "revoked"

\* The note of a lesson according to its log.
Told(c) == IF audit[c] = <<>> THEN published[c] ELSE Last(audit[c]).after

\* Between writing the note and telling, or undoing, it.
Changes(x) == x.step \in {"status", "append", "refetch", "rewrite"}

\* What the one call under way knows of its lesson.
Holds(x) ==
  x.step # "idle" =>
    /\ ~Withdrawn(x.lesson)
    /\ x.step # "put" => x.previous.status # "revoked"
    /\ IsRevoked(x.lesson) =>
         x.revoke /\ x.step \in {"append", "refetch", "rewrite", "restore"}
    /\ x.step = "append" => candidates[x.lesson] = x.candidate
    /\ x.step = "write" =>
         /\ book \in Notes /\ book[x.lesson] = x.before
         /\ x.book = [book EXCEPT ![x.lesson] = x.after]
    /\ Changes(x) => /\ book \in Notes /\ book[x.lesson] = x.after
                     /\ x.lesson \notin edited => x.before = Told(x.lesson)
    /\ x.step = "rewrite" => x.book = [book EXCEPT ![x.lesson] = x.before]

\* Candidates, book and log agree, but for the lesson x is about to change.
Agree(x) ==
  \A c \in Lessons :
    /\ IsRevoked(c) => Withdrawn(c) \/ (x.step # "idle" /\ x.lesson = c)
    /\ Withdrawn(c) => IsRevoked(c)
    /\ c \notin edited =>
         book \in Notes /\ (book[c] = Told(c) \/ (Changes(x) /\ x.lesson = c))

\* No call but x is under way.
Only(x) ==
  \/ x.step = "idle" /\ \A u \in Callers : At(u, "idle")
  \/ \E w \in Callers : call[w] = x /\ \A u \in Callers \ {w} : At(u, "idle")

Lone == mishap = "none" => \E x \in Call : Only(x) /\ Holds(x) /\ Agree(x)

LEMMA LoneInit == Init => Lone
  <1> SUFFICES ASSUME Init PROVE Lone
    OBVIOUS
  <1>1. NoCall \in Call /\ NoCall.step = "idle"
    BY NoCallFits DEF NoCall
  <1>2. Only(NoCall) /\ Holds(NoCall)
    BY <1>1 DEF Init, Only, At, Holds
  <1>3. book \in Notes
    BY DEF Init, Notes, Note, Human
  <1>4. Agree(NoCall)
    BY <1>3 DEF Init, Agree, IsRevoked, Withdrawn, Told
  <1>5. QED
    BY <1>1, <1>2, <1>4 DEF Lone

\* A caller at work is the only one, and its call the one under way.
LEMMA AtWork ==
  ASSUME Sound, Lone, mishap = "none", NEW w \in Callers, ~At(w, "idle")
  PROVE  \E y \in Call :
           /\ y = call[w] /\ y.step # "idle" /\ y.lesson = Lesson(w)
           /\ Fits(y) /\ Holds(y) /\ Agree(y)
           /\ \A u \in Callers \ {w} : At(u, "idle")
  <1>1. PICK x \in Call : Only(x) /\ Holds(x) /\ Agree(x)
    BY DEF Lone
  <1>2. PICK v \in Callers : call[v] = x /\ \A u \in Callers \ {v} : At(u, "idle")
    BY <1>1 DEF Only
  <1>3. v = w
    BY <1>2
  <1>4. QED
    BY <1>1, <1>2, <1>3 DEF At, Lesson, Sound

\* When nobody is at work candidates, book and log agree.
LEMMA AtRest ==
  ASSUME Lone, mishap = "none", \A u \in Callers : At(u, "idle")
  PROVE  Agree(NoCall)
  <1>1. PICK x \in Call : Only(x) /\ Holds(x) /\ Agree(x)
    BY DEF Lone
  <1>2. x.step = "idle"
    BY <1>1 DEF Only, At
  <1>3. QED
    BY <1>1, <1>2 DEF Agree, Changes, NoCall

\* The only caller at work goes on with x.
LEMMA WorksOn ==
  ASSUME Sound, NEW w \in Callers, \A u \in Callers \ {w} : At(u, "idle"),
         NEW x \in Call, Goto(w, x), Holds(x)', Agree(x)'
  PROVE  Lone'
  <1>1. call \in [Callers -> Call]
    BY DEF Sound, TypeOK
  <1>2. \A u \in Callers \ {w} : call'[u] = call[u]
    BY <1>1 DEF Goto
  <1>3. call'[w] = IF x.step = "idle" THEN NoCall ELSE x
    BY <1>1 DEF Goto
  <1>4. \A u \in Callers \ {w} : call'[u].step = "idle"
    BY <1>2 DEF At
  <1>5. CASE x.step = "idle"
    <2>1. \A u \in Callers : call'[u].step = "idle"
      BY <1>3, <1>4, <1>5 DEF NoCall
    <2>2. Only(x)'
      BY <1>5, <2>1 DEF Only, At
    <2>3. QED
      BY <2>2 DEF Lone
  <1>6. CASE x.step # "idle"
    <2>1. Only(x)'
      BY <1>3, <1>4, <1>6 DEF Only, At
    <2>2. QED
      BY <2>1 DEF Lone
  <1>7. QED
    BY <1>5, <1>6

LEMMA LogUntouched ==
  ASSUME UNCHANGED <<audit, published>>
  PROVE  \A c : (Withdrawn(c)' <=> Withdrawn(c)) /\ Told(c)' = Told(c)
  BY DEF Withdrawn, Told

\* A call that begins when nobody is at work.
LEMMA LoneEnter ==
  ASSUME Sound, Lone, NEW w \in Callers, mishap' = "none",
         NEW x \in Call, Enter(w, x), Fits(x),
         UNCHANGED <<candidates, published, book, audit, edited>>,
         x.step \in {"fetch", "put", "log"},
         x.step # "put" => x.previous.status # "revoked",
         candidates[x.lesson] = NoCandidate \/ candidates[x.lesson].status # "revoked"
  PROVE  Lone'
  <1>1. /\ mishap = "none" /\ Goto(w, x)
        /\ \A u \in Callers : At(u, "idle")
    BY DEF Enter, Overlap
  <1>2. Agree(NoCall)
    BY <1>1, AtRest
  <1>3. \A c : /\ (Withdrawn(c)' <=> Withdrawn(c)) /\ Told(c)' = Told(c)
               /\ (IsRevoked(c)' <=> IsRevoked(c))
    BY LogUntouched DEF IsRevoked
  <1>4. x.lesson \in Lessons /\ ~IsRevoked(x.lesson)
    BY DEF Fits, IsRevoked
  <1>5. Agree(x)'
    BY <1>2, <1>3 DEF Agree, Changes, NoCall
  <1>6. Holds(x)'
    BY <1>2, <1>3, <1>4 DEF Agree, Holds, Changes
  <1>7. QED
    BY <1>1, <1>5, <1>6, WorksOn

\* The book is about to be written, or left alone.
LEMMA LoneReads ==
  ASSUME Sound, Lone, mishap = "none", NEW w \in Callers,
         Fetch(w) \/ ReadLog(w) \/ FetchNote(w)
  PROVE  Lone'
  <1>1. PICK y \in Call :
          /\ y = call[w] /\ y.step # "idle" /\ y.lesson = Lesson(w)
          /\ Fits(y) /\ Holds(y) /\ Agree(y)
          /\ \A u \in Callers \ {w} : At(u, "idle")
    BY AtWork DEF Fetch, ReadLog, FetchNote, At
  <1>2. \A c : /\ (Withdrawn(c)' <=> Withdrawn(c)) /\ Told(c)' = Told(c)
               /\ (IsRevoked(c)' <=> IsRevoked(c))
    BY LogUntouched DEF IsRevoked, Fetch, ReadLog, FetchNote
  <1>3. UNCHANGED <<candidates, book, edited>>
    BY DEF Fetch, ReadLog, FetchNote
  <1>4. y.step \in {"fetch", "log"} /\ y.lesson \in Lessons
    BY <1>1 DEF Fetch, ReadLog, FetchNote, At, Fits
  <1>5. PICK x \in Call :
          /\ Goto(w, x)
          /\ \/ x.step = "idle"
             \/ /\ x.lesson = y.lesson /\ x.step \in {"fetch", "put"}
                /\ x.step # "put" => x.previous = y.previous
             \/ /\ x.lesson = y.lesson /\ x.step = "write" /\ x.previous = y.previous
                /\ book \in Notes /\ book[x.lesson] = x.before
                /\ x.book = [book EXCEPT ![x.lesson] = x.after]
    <2>1. CASE Fetch(w)
      <3>1. ~y.revoke /\ y.candidate \in Candidate
        BY <1>1, <2>1 DEF Fetch, Fits
      <3>2. CASE book = NoBook
        <4> DEFINE p == [y.candidate EXCEPT !.status = "blocked"]
                   x == [NoCall EXCEPT !.step = "put", !.lesson = y.lesson, !.candidate = p]
        <4>1. p \in Candidate
          BY <3>1, CandidateTyped DEF Statuses
        <4>2. x \in Call /\ x.step = "put" /\ x.lesson = y.lesson
          BY <1>4, <4>1 DEF NoCall, Call, Steps
        <4>3. Goto(w, x)
          BY <1>1, <2>1, <3>2 DEF Fetch, Lesson
        <4>4. QED
          BY <4>2, <4>3
      <3>3. CASE book # NoBook
        <4> DEFINE note == NoteFor(y.candidate, book[y.lesson])
                   new == [book EXCEPT ![y.lesson] = note]
                   x == [y EXCEPT !.step = "write", !.book = new,
                                  !.before = book[y.lesson], !.after = note]
        <4>1. book \in Notes /\ book[y.lesson] \in Note \cup {NoNote}
          BY <1>4, <3>3 DEF Sound, TypeOK, Notes
        <4>2. note \in Note
          BY <3>1, <4>1, NoteTyped
        <4> HIDE DEF note
        <4>3. new \in Notes
          BY <4>1, <4>2 DEF Notes
        <4> HIDE DEF new
        <4>4. /\ x \in Call /\ x.step = "write" /\ x.lesson = y.lesson
              /\ x.previous = y.previous /\ x.before = book[y.lesson]
              /\ x.after = note /\ x.book = new
          BY <4>1, <4>2, <4>3 DEF Call, Steps
        <4>5. Goto(w, x)
          BY <1>1, <2>1, <3>3 DEF Fetch, Lesson, note, new
        <4>6. QED
          BY <4>1, <4>4, <4>5 DEF new
      <3>4. QED
        BY <3>2, <3>3
    <2>2. CASE ReadLog(w)
      <3>1. CASE Applied(y.lesson) = {}
        BY <1>1, <2>2, <3>1, NoCallFits DEF ReadLog, NoCall
      <3>2. CASE Applied(y.lesson) # {}
        <4> DEFINE x == [y EXCEPT !.step = "fetch", !.before = Latest(y.lesson).after,
                                  !.after = First(y.lesson).before]
        <4>1. /\ Latest(y.lesson).after \in Note \cup {NoNote}
              /\ First(y.lesson).before \in Note \cup {NoNote}
          BY <1>4, <3>2, LogRead DEF Sound, Mutation
        <4>2. /\ x \in Call /\ x.step = "fetch" /\ x.lesson = y.lesson
              /\ x.previous = y.previous
          BY <4>1 DEF Call, Steps
        <4>3. Goto(w, x)
          BY <1>1, <2>2, <3>2 DEF ReadLog, Lesson
        <4>4. QED
          BY <4>2, <4>3
      <3>3. QED
        BY <3>1, <3>2
    <2>3. CASE FetchNote(w)
      <3>1. CASE ~Restorable(y.lesson, y.before)
        BY <1>1, <2>3, <3>1, NoCallFits DEF FetchNote, NoCall
      <3>2. CASE Restorable(y.lesson, y.before)
        <4> DEFINE new == [book EXCEPT ![y.lesson] = y.after]
                   x == [y EXCEPT !.step = "write", !.book = new]
        <4>1. book \in Notes /\ book[y.lesson] = y.before
          BY <3>2 DEF Restorable, Sound, TypeOK
        <4>2. new \in Notes
          BY <1>4, <4>1 DEF Notes, Call
        <4> HIDE DEF new
        <4>3. /\ x \in Call /\ x.step = "write" /\ x.lesson = y.lesson
              /\ x.previous = y.previous /\ x.before = y.before
              /\ x.after = y.after /\ x.book = new
          BY <4>2 DEF Call, Steps
        <4>4. Goto(w, x)
          BY <1>1, <2>3, <3>2 DEF FetchNote, Lesson, new
        <4>5. QED
          BY <4>1, <4>3, <4>4 DEF new
      <3>3. QED
        BY <3>1, <3>2
    <2>4. QED
      BY <2>1, <2>2, <2>3
  <1>6. Agree(x)'
    BY <1>1, <1>2, <1>3, <1>4, <1>5 DEF Agree, Holds, Changes
  <1>7. Holds(x)'
    BY <1>1, <1>2, <1>3, <1>4, <1>5 DEF Holds, Changes
  <1>8. QED
    BY <1>1, <1>5, <1>6, <1>7, WorksOn

\* The book is written: with the new note, or with the old one again.
LEMMA LoneWrites ==
  ASSUME Sound, Lone, mishap = "none", NEW w \in Callers, Write(w) \/ Rewrite(w)
  PROVE  Lone'
  <1>1. PICK y \in Call :
          /\ y = call[w] /\ y.step # "idle" /\ y.lesson = Lesson(w)
          /\ Fits(y) /\ Holds(y) /\ Agree(y)
          /\ \A u \in Callers \ {w} : At(u, "idle")
    BY AtWork DEF Write, Rewrite, At
  <1>2. \A c : /\ (Withdrawn(c)' <=> Withdrawn(c)) /\ Told(c)' = Told(c)
               /\ (IsRevoked(c)' <=> IsRevoked(c))
    BY LogUntouched DEF IsRevoked, Write, Rewrite
  <1>3. /\ UNCHANGED <<candidates, edited>>
        /\ book' = y.book /\ y.book \in Notes /\ y.lesson \in Lessons
        /\ y.step = IF Write(w) THEN "write" ELSE "rewrite"
        /\ ~Write(w) => Rewrite(w)
    BY <1>1 DEF Write, Rewrite, PutBook, At, Fits
  <1> DEFINE to == IF Write(w) THEN "status" ELSE "restore"
             note == IF Write(w) THEN y.after ELSE y.before
  <1>4. PICK x \in Call :
          /\ Goto(w, x) /\ x.step = to /\ x.lesson = y.lesson
          /\ x.revoke = y.revoke /\ x.previous = y.previous
          /\ x.before = y.before /\ x.after = y.after
    <2> DEFINE z == [y EXCEPT !.step = to, !.book = NoBook]
    <2>1. to \in {"status", "restore"}
      OBVIOUS
    <2>2. Goto(w, z)
      BY <1>1, <1>3 DEF Write, Rewrite, PutBook
    <2> HIDE DEF to
    <2>3. /\ z \in Call /\ z.step = to /\ z.lesson = y.lesson
          /\ z.revoke = y.revoke /\ z.previous = y.previous
          /\ z.before = y.before /\ z.after = y.after
      BY <2>1 DEF Call, Steps
    <2>4. QED
      BY <2>2, <2>3
  <1>5. book \in Notes /\ book' = [book EXCEPT ![y.lesson] = note]
    BY <1>1, <1>3 DEF Holds, Changes
  <1>6. /\ book' \in Notes /\ book'[y.lesson] = note
        /\ \A c \in Lessons \ {y.lesson} : book'[c] = book[c]
    BY <1>3, <1>5 DEF Notes
  <1>7. y.lesson \notin edited => y.before = Told(y.lesson)
    BY <1>1, <1>3 DEF Holds, Agree, Changes
  <1>8. Agree(x)'
    BY <1>1, <1>2, <1>3, <1>4, <1>6, <1>7 DEF Agree, Holds, Changes
  <1>9. Holds(x)'
    BY <1>1, <1>2, <1>3, <1>4, <1>6, <1>7 DEF Holds, Changes
  <1>10. QED
    BY <1>1, <1>4, <1>8, <1>9, WorksOn

\* The candidate is written: its new status, or the one before.
LEMMA LoneStatus ==
  ASSUME Sound, Lone, mishap = "none", NEW w \in Callers,
         Put(w) \/ PutStatus(w) \/ RestoreCandidate(w)
  PROVE  Lone'
  <1>1. PICK y \in Call :
          /\ y = call[w] /\ y.step # "idle" /\ y.lesson = Lesson(w)
          /\ Fits(y) /\ Holds(y) /\ Agree(y)
          /\ \A u \in Callers \ {w} : At(u, "idle")
    BY AtWork DEF Put, PutStatus, RestoreCandidate, At
  <1>2. \A c : (Withdrawn(c)' <=> Withdrawn(c)) /\ Told(c)' = Told(c)
    BY LogUntouched DEF Put, PutStatus, RestoreCandidate
  <1> DEFINE p == IF RestoreCandidate(w) THEN y.previous ELSE y.candidate
             to == IF PutStatus(w) THEN "append" ELSE "idle"
  <1>3. /\ UNCHANGED <<book, edited>>
        /\ y.lesson \in Lessons
        /\ candidates' = [candidates EXCEPT ![y.lesson] = p]
        /\ y.step = IF Put(w) THEN "put" ELSE IF PutStatus(w) THEN "status" ELSE "restore"
        /\ ~Put(w) /\ ~PutStatus(w) => RestoreCandidate(w)
        /\ Put(w) => ~PutStatus(w) /\ ~RestoreCandidate(w)
        /\ PutStatus(w) => ~RestoreCandidate(w)
    BY <1>1 DEF Put, PutStatus, RestoreCandidate, At, Fits
  <1>4. PICK x \in Call :
          /\ Goto(w, x) /\ x.step = to /\ x.lesson = y.lesson
          /\ x.revoke = y.revoke /\ x.previous = y.previous
          /\ x.candidate = y.candidate
          /\ x.before = y.before /\ x.after = y.after
    <2> DEFINE z == [y EXCEPT !.step = to]
    <2>1. to \in {"append", "idle"}
      OBVIOUS
    <2>2. Goto(w, z)
      BY <1>1, <1>3 DEF Put, PutStatus, RestoreCandidate, GotoStep
    <2> HIDE DEF to
    <2>3. /\ z \in Call /\ z.step = to /\ z.lesson = y.lesson
          /\ z.revoke = y.revoke /\ z.previous = y.previous
          /\ z.candidate = y.candidate
          /\ z.before = y.before /\ z.after = y.after
      BY <2>1 DEF Call, Steps
    <2>4. QED
      BY <2>2, <2>3
  <1>5. /\ candidates'[y.lesson] = p
        /\ \A c \in Lessons \ {y.lesson} : candidates'[c] = candidates[c]
    BY <1>3 DEF Sound, TypeOK
  <1>6. \A c \in Lessons \ {y.lesson} : IsRevoked(c)' <=> IsRevoked(c)
    BY <1>5 DEF IsRevoked
  <1>7. IsRevoked(y.lesson)' => PutStatus(w) /\ y.revoke
    BY <1>1, <1>3, <1>5 DEF IsRevoked, Fits, Holds
  <1>8. ~Withdrawn(y.lesson)
    BY <1>1 DEF Holds
  <1>9. Agree(x)'
    BY <1>1, <1>2, <1>3, <1>4, <1>6, <1>7, <1>8 DEF Agree, Changes
  <1>10. Holds(x)'
    BY <1>1, <1>2, <1>3, <1>4, <1>5, <1>7, <1>8 DEF Holds, Changes
  <1>11. QED
    BY <1>1, <1>4, <1>9, <1>10, WorksOn

\* The audit fails, and the way back begins: the note is the expected one.
LEMMA LoneFails ==
  ASSUME Sound, Lone, mishap = "none", NEW w \in Callers,
         AppendFails(w) \/ Refetch(w)
  PROVE  Lone'
  <1>1. PICK y \in Call :
          /\ y = call[w] /\ y.step # "idle" /\ y.lesson = Lesson(w)
          /\ Fits(y) /\ Holds(y) /\ Agree(y)
          /\ \A u \in Callers \ {w} : At(u, "idle")
    BY AtWork DEF AppendFails, Refetch, At
  <1>2. \A c : /\ (Withdrawn(c)' <=> Withdrawn(c)) /\ Told(c)' = Told(c)
               /\ (IsRevoked(c)' <=> IsRevoked(c))
    BY LogUntouched DEF IsRevoked, AppendFails, Refetch
  <1>3. /\ UNCHANGED <<candidates, book, edited>> /\ y.lesson \in Lessons
        /\ y.step = IF AppendFails(w) THEN "append" ELSE "refetch"
        /\ ~AppendFails(w) => Refetch(w)
    BY <1>1 DEF AppendFails, Refetch, At, Fits
  <1>4. book \in Notes /\ book[y.lesson] = y.after
    BY <1>1, <1>3 DEF Holds, Changes
  <1> DEFINE back == [book EXCEPT ![y.lesson] = y.before]
  <1>5. back \in Notes
    BY <1>3, <1>4 DEF Notes, Call
  <1> HIDE DEF back
  <1>6. PICK x \in Call :
          /\ Goto(w, x) /\ x.lesson = y.lesson
          /\ x.step = IF AppendFails(w) THEN "refetch" ELSE "rewrite"
          /\ x.step = "rewrite" => x.book = back
          /\ x.revoke = y.revoke /\ x.previous = y.previous
          /\ x.before = y.before /\ x.after = y.after
    <2>1. CASE AppendFails(w)
      <3> DEFINE z == [y EXCEPT !.step = "refetch"]
      <3>1. Goto(w, z)
        BY <1>1, <2>1 DEF AppendFails, GotoStep
      <3>2. /\ z \in Call /\ z.step = "refetch" /\ z.lesson = y.lesson
            /\ z.revoke = y.revoke /\ z.previous = y.previous
            /\ z.before = y.before /\ z.after = y.after
        BY DEF Call, Steps
      <3>3. QED
        BY <2>1, <3>1, <3>2
    <2>2. CASE ~AppendFails(w)
      <3> DEFINE z == [y EXCEPT !.step = "rewrite", !.book = back]
      <3>1. Restorable(y.lesson, y.after)
        BY <1>4, MarksAssumption DEF Restorable
      <3>2. Goto(w, z)
        BY <1>1, <1>3, <2>2, <3>1 DEF Refetch, back
      <3>3. /\ z \in Call /\ z.step = "rewrite" /\ z.lesson = y.lesson
            /\ z.revoke = y.revoke /\ z.previous = y.previous /\ z.book = back
            /\ z.before = y.before /\ z.after = y.after
        BY <1>5 DEF Call, Steps
      <3>4. QED
        BY <2>2, <3>2, <3>3
    <2>3. QED
      BY <2>1, <2>2
  <1>7. Agree(x)'
    BY <1>1, <1>2, <1>3, <1>6 DEF Agree, Changes
  <1>8. Holds(x)'
    BY <1>1, <1>2, <1>3, <1>6 DEF Holds, Changes, back
  <1>9. QED
    BY <1>1, <1>6, <1>7, <1>8, WorksOn

\* The mutation is told: candidates, book and log agree again.
LEMMA LoneAppends ==
  ASSUME Sound, Lone, mishap = "none", NEW w \in Callers, AppendMutation(w)
  PROVE  Lone'
  <1>1. PICK y \in Call :
          /\ y = call[w] /\ y.step # "idle" /\ y.lesson = Lesson(w)
          /\ Fits(y) /\ Holds(y) /\ Agree(y)
          /\ \A u \in Callers \ {w} : At(u, "idle")
    BY AtWork DEF AppendMutation, At
  <1>2. /\ y.step = "append" /\ y.lesson \in Lessons
        /\ UNCHANGED <<candidates, published, book>>
        /\ edited' = edited \ {y.lesson}
    BY <1>1 DEF AppendMutation, At, Fits
  <1>3. PICK x \in Call : Goto(w, x) /\ x.step = "idle"
    <2>1. /\ [y EXCEPT !.step = "idle"] \in Call
          /\ [y EXCEPT !.step = "idle"].step = "idle"
      BY DEF Call, Steps
    <2>2. QED
      BY <1>1, <2>1 DEF AppendMutation, GotoStep
  <1>4. /\ audit'[y.lesson] # <<>> /\ Last(audit'[y.lesson]) = Entry(w)
        /\ Entry(w).operation = "revoke" <=> y.revoke
        /\ \A c \in Lessons \ {y.lesson} : audit'[c] = audit[c]
    BY <1>1, Appending
  <1>5. Withdrawn(y.lesson)' <=> y.revoke
    BY <1>4 DEF Withdrawn
  <1>6. Told(y.lesson)' = y.after
    BY <1>1, <1>4 DEF Told, Entry
  <1>7. \A c \in Lessons \ {y.lesson} :
          (Withdrawn(c)' <=> Withdrawn(c)) /\ Told(c)' = Told(c)
    BY <1>2, <1>4 DEF Withdrawn, Told
  <1>8. \A c : IsRevoked(c)' <=> IsRevoked(c)
    BY <1>2 DEF IsRevoked
  <1>9. IsRevoked(y.lesson) <=> y.revoke
    BY <1>1, <1>2, MarksAssumption DEF Holds, Fits, IsRevoked
  <1>10. book \in Notes /\ book[y.lesson] = y.after
    BY <1>1, <1>2 DEF Holds, Changes
  <1>11. Agree(x)'
    BY <1>1, <1>2, <1>3, <1>5, <1>6, <1>7, <1>8, <1>9, <1>10 DEF Agree
  <1>12. Holds(x)'
    BY <1>3 DEF Holds
  <1>13. QED
    BY <1>1, <1>3, <1>11, <1>12, WorksOn

\* Somebody edits the book between two calls.
LEMMA LoneEdit ==
  ASSUME Sound, Lone, Edit, mishap' = "none"
  PROVE  Lone'
  <1>1. /\ mishap = "none" /\ UNCHANGED <<candidates, published, audit, call>>
        /\ \A u \in Callers : At(u, "idle")
    BY DEF Edit, Overlap
  <1>2. Agree(NoCall)
    BY <1>1, AtRest
  <1>3. \A c : /\ (Withdrawn(c)' <=> Withdrawn(c)) /\ Told(c)' = Told(c)
               /\ (IsRevoked(c)' <=> IsRevoked(c))
    BY <1>1, LogUntouched DEF IsRevoked
  <1>4. \A c \in Lessons : c \notin edited' =>
          /\ c \notin edited
          /\ book \in Notes => book' \in Notes /\ book'[c] = book[c]
    <2>1. CASE \E d \in Lessons \ edited :
                 /\ book' = [book EXCEPT ![d] = IF @ = NoNote THEN Revised ELSE NoNote]
                 /\ edited' = edited \cup {d}
      BY <2>1 DEF Notes, Note, Revised
    <2>2. CASE edited' = Lessons
      BY <2>2
    <2>3. QED
      BY <2>1, <2>2 DEF Edit
  <1>5. Agree(NoCall)'
    BY <1>2, <1>3, <1>4 DEF Agree, NoCall, Changes
  <1>6. NoCall \in Call /\ Holds(NoCall)' /\ Only(NoCall)'
    BY <1>1, NoCallFits DEF NoCall, Holds, Only, At
  <1>7. QED
    BY <1>5, <1>6 DEF Lone

LEMMA LoneNext == Sound /\ Lone /\ [Next]_vars => Lone'
  <1> SUFFICES ASSUME Sound, Lone, [Next]_vars, mishap' = "none" PROVE Lone'
    BY DEF Lone
  <1>1. CASE UNCHANGED vars
    <2>1. /\ mishap = "none"
          /\ UNCHANGED <<candidates, published, book, audit, edited, call>>
      BY <1>1 DEF vars
    <2>2. PICK x \in Call : Only(x) /\ Holds(x) /\ Agree(x)
      BY <2>1 DEF Lone
    <2>3. \A c : /\ (Withdrawn(c)' <=> Withdrawn(c)) /\ Told(c)' = Told(c)
                 /\ (IsRevoked(c)' <=> IsRevoked(c))
      BY <2>1, LogUntouched DEF IsRevoked
    <2>4. Only(x)'
      BY <2>1, <2>2 DEF Only, At
    <2>5. Holds(x)'
      BY <2>1, <2>2, <2>3 DEF Holds
    <2>6. Agree(x)'
      BY <2>1, <2>2, <2>3 DEF Agree
    <2>7. QED
      BY <2>4, <2>5, <2>6 DEF Lone
  <1>2. ASSUME NEW w \in Callers, Observe(w) PROVE Lone'
    <2>1. PICK x \in Call :
            /\ Enter(w, x) /\ Fits(x)
            /\ x.step \in {"fetch", "put"} /\ ~x.revoke
            /\ x.step = "fetch" => x.previous.status # "revoked"
            /\ \/ candidates[x.lesson] = NoCandidate
               \/ candidates[x.lesson].status # "revoked"
      BY <1>2, ObserveBegins
    <2>2. UNCHANGED <<candidates, published, book, audit, edited>>
      BY <1>2 DEF Observe
    <2>3. QED
      BY <2>1, <2>2, LoneEnter
  <1>3. ASSUME NEW w \in Callers, Revoke(w) PROVE Lone'
    <2>1. PICK x \in Call :
            /\ Enter(w, x) /\ Fits(x)
            /\ x.step = "log" /\ x.revoke /\ x.previous.status = "promoted"
            /\ candidates[x.lesson] = x.previous
      BY <1>3, RevokeBegins
    <2>2. UNCHANGED <<candidates, published, book, audit, edited>>
      BY <1>3 DEF Revoke
    <2>3. QED
      BY <2>1, <2>2, LoneEnter
  <1>4. ASSUME NEW w \in Callers, Advance(w) PROVE Lone'
    <2>1. mishap = "none"
      BY <1>4 DEF Advance, Put, Fetch, Write, PutStatus, AppendMutation, AppendFails,
                  Refetch, Rewrite, RestoreCandidate, ReadLog, FetchNote
    <2>2. QED
      BY <1>4, <2>1, LoneReads, LoneWrites, LoneStatus, LoneFails, LoneAppends DEF Advance
  <1>5. CASE Edit
    BY <1>5, LoneEdit
  <1>6. CASE Crash
    BY <1>6 DEF Crash
  <1>7. QED
    BY <1>1, <1>2, <1>3, <1>4, <1>5, <1>6 DEF Next

LEMMA Loneness == Spec => [](Sound /\ Lone)
  BY Initial, LoneInit, SoundNext, LoneNext, PTL DEF Spec

\* Without overlap nor crash the log and the book agree between calls, also after
\* an audit that failed was undone: the note of a lesson nobody else edited is the
\* one its last mutation left.
THEOREM AuditTellsTheNote == Spec => []AuditTellsNote
  <1>1. Sound /\ Lone => AuditTellsNote
    <2> SUFFICES ASSUME Lone, Quiet, NEW c \in Lessons \ edited
                 PROVE  book[c] = Told(c)
      BY DEF AuditTellsNote, Told, Last
    <2>1. Agree(NoCall)
      BY AtRest DEF Quiet
    <2>2. QED
      BY <2>1 DEF Agree, Changes, NoCall
  <1>2. QED
    BY <1>1, Loneness, PTL

\* Without overlap nor crash a revoked lesson is as if it had never been learned:
\* its note is the one the first promotion found.
THEOREM RevokedAreWithdrawn == Spec => []RevokedIsWithdrawn
  <1>1. Sound /\ Lone => RevokedIsWithdrawn
    <2> SUFFICES ASSUME Sound, Lone, Quiet, NEW c \in Lessons, IsRevoked(c)
                 PROVE  /\ Last(audit[c]).operation = "revoke"
                        /\ c \notin edited => book[c] = First(c).before
      BY DEF RevokedIsWithdrawn, IsRevoked, Last
    <2>1. Agree(NoCall)
      BY AtRest DEF Quiet
    <2>2. Withdrawn(c) /\ (c \notin edited => book[c] = Last(audit[c]).after)
      BY <2>1 DEF Agree, Changes, NoCall, Withdrawn, Told
    <2>3. /\ audit[c] \in Seq(Mutation) /\ audit[c] # <<>>
          /\ Len(audit[c]) \in DOMAIN audit[c] /\ 1 \in DOMAIN audit[c]
      BY <2>2 DEF Withdrawn, Sound, TypeOK
    <2>4. Last(audit[c]).after = audit[c][1].before
      BY <2>2, <2>3 DEF Withdrawn, Last, Sound, Audited
    <2>5. audit[c][1] \in Mutation /\ audit[c][1].operation # "revoke"
      BY <2>3 DEF Sound, Audited
    <2>6. 1 \in Applied(c)
      BY <2>3, <2>5 DEF Applied, Mutation
    <2>7. First(c) = audit[c][1]
      BY <2>6, LogRead DEF Sound
    <2>8. QED
      BY <2>2, <2>4, <2>7 DEF Withdrawn
  <1>2. QED
    BY <1>1, Loneness, PTL
=============================================================================
