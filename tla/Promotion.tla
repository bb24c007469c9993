----------------------------- MODULE Promotion -----------------------------
(***************************************************************************)
(* ExperiencePromotionEngine (experience/promotion.py): verified experience *)
(* becomes a usage note of a book of the Library, and is revoked.           *)
(*                                                                         *)
(* Three stores take part: the candidates and the audit log, both in SQLite,*)
(* and the Library, whose books are read and written whole.  Each of their  *)
(* calls is one step.  There is no transaction over them: callers and an    *)
(* editor of the book interleave, the audit may fail, and the process may   *)
(* die between any two calls.                                               *)
(*                                                                         *)
(* A lesson stands for a candidate key: a normalized text and conditions    *)
(* for one entry of the book.  Each evidence carries its verification ref.  *)
(***************************************************************************)
EXTENDS Naturals, Sequences, FiniteSets

CONSTANTS
  Callers,
  Lessons,
  Evidence,     \* evidence ids, of the observations of a lesson
  MinSuccesses, \* min_successes of the engine
  MaxAudit,     \* bound: audited mutations of a lesson
  NoCandidate,  \* no row for a lesson
  NoNote,       \* no note for a lesson
  NoBook        \* the book is gone

ASSUME ConstantsAssumption ==
  /\ MinSuccesses \in Nat \ {0} /\ MaxAudit \in Nat

Statuses == {"candidate", "blocked", "needs_review", "promoted", "revoked"}

\* ExperienceCandidate; which of the evidence was a failure is not remembered.
Candidate == [evidence: SUBSET Evidence, successes: Nat, failures: Nat,
              normal: BOOLEAN, status: Statuses]

\* LibraryUsageNote: successful_uses and verification.
Note == [uses: Nat, refs: SUBSET Evidence]

Notes == [Lessons -> Note \cup {NoNote}]

\* PromotionMutation.
Mutation == [operation: {"promote", "reinforce", "revoke"},
             before: Note \cup {NoNote}, after: Note \cup {NoNote}]

ASSUME MarksAssumption ==
  NoCandidate \notin Candidate /\ NoNote \notin Note /\ NoBook \notin Notes

\* Notes somebody writes, before anything is learned and afterwards.
Human == [uses |-> 1, refs |-> {}]
Revised == [uses |-> 2, refs |-> {}]

VARIABLES
  candidates, \* experience_candidates
  published,  \* the book a process that keeps the Library in memory comes back to
  book,       \* the notes of the book
  audit,      \* promotion_mutations of a lesson
  call,       \* what a caller is doing
  edited,     \* history: lessons whose note changed since their last mutation
  mishap      \* history: did calls overlap, or else did the process die?

vars == <<candidates, published, book, audit, call, edited, mishap>>

\* put: a candidate that is not promoted; fetch, write: the book; status: the
\* candidate after the book; log: its mutations; append: the mutation; refetch,
\* rewrite, restore: the way back when append fails.
Steps == {"idle", "put", "fetch", "write", "status", "append",
          "log", "refetch", "rewrite", "restore"}

\* The candidate as it is to be written, the one to come back to, the book as it
\* is to be written and the note before and after the mutation.
Call == [step: Steps, revoke: BOOLEAN, lesson: Lessons \cup {NoCandidate},
         candidate: Candidate \cup {NoCandidate},
         previous: Candidate \cup {NoCandidate},
         book: Notes \cup {NoBook},
         before: Note \cup {NoNote}, after: Note \cup {NoNote}]

NoCall == [step |-> "idle", revoke |-> FALSE, lesson |-> NoCandidate,
           candidate |-> NoCandidate, previous |-> NoCandidate, book |-> NoBook,
           before |-> NoNote, after |-> NoNote]

Init ==
  /\ candidates = [c \in Lessons |-> NoCandidate]
  /\ published \in [Lessons -> {Human, NoNote}] /\ book = published
  /\ audit = [c \in Lessons |-> <<>>]
  /\ call = [w \in Callers |-> NoCall]
  /\ edited = {} /\ mishap = "none"

-----------------------------------------------------------------------------
At(w, step) == call[w].step = step

Lesson(w) == call[w].lesson

\* The caller goes on with c; a call that is over leaves nothing behind.
Goto(w, c) == call' = [call EXCEPT ![w] = IF c.step = "idle" THEN NoCall ELSE c]

GotoStep(w, step) == Goto(w, [call[w] EXCEPT !.step = step])

\* Is a call other than w's under way?  Then what happens now overlaps it.
Overlap(others) ==
  mishap' = IF \E u \in others : ~At(u, "idle") THEN "overlap" ELSE mishap

Enter(w, c) ==
  /\ At(w, "idle")
  /\ Goto(w, c)
  /\ Overlap(Callers \ {w})

Max(m, n) == IF m >= n THEN m ELSE n

-----------------------------------------------------------------------------
(* observe *)

\* A new candidate, of the risk class of its first observation.
Fresh(normal) == [evidence |-> {}, successes |-> 0, failures |-> 0,
                  normal |-> normal, status |-> "candidate"]

\* The candidate with one more evidence, under the stricter risk class.
Aggregated(x, e, success, normal) ==
  [x EXCEPT !.evidence = @ \cup {e},
            !.successes = IF success THEN @ + 1 ELSE @,
            !.failures = IF success THEN @ ELSE @ + 1,
            !.normal = @ /\ normal]

\* What a candidate short of promotion becomes.
Verdict(x) ==
  CASE ~x.normal -> "blocked"
    [] x.normal /\ x.failures > 0 -> "needs_review"
    [] OTHER -> "candidate"

Eligible(x) == Verdict(x) = "candidate" /\ x.successes >= MinSuccesses

\* A verified observation of a lesson, from a replay if the engine requires one;
\* any other is rejected.  A revoked candidate learns nothing, nor does one that
\* has the evidence.
Observe(w) ==
  /\ \E c \in Lessons, e \in Evidence, success, normal \in BOOLEAN :
       LET known == IF candidates[c] = NoCandidate THEN Fresh(normal) ELSE candidates[c]
           x == Aggregated(known, e, success, normal)
       IN  /\ known.status # "revoked"
           /\ e \notin known.evidence
           /\ Len(audit[c]) < MaxAudit
           /\ IF Eligible(x)
              THEN Enter(w, [NoCall EXCEPT !.step = "fetch", !.lesson = c,
                               !.candidate = [x EXCEPT !.status = "promoted"],
                               !.previous = x])
              ELSE Enter(w, [NoCall EXCEPT !.step = "put", !.lesson = c,
                               !.candidate = [x EXCEPT !.status = Verdict(x)]])
  /\ UNCHANGED <<candidates, published, book, audit, edited>>

\* The last write of an observation that promotes nothing.
Put(w) ==
  /\ At(w, "put")
  /\ candidates' = [candidates EXCEPT ![Lesson(w)] = call[w].candidate]
  /\ GotoStep(w, "idle")
  /\ UNCHANGED <<published, book, audit, edited, mishap>>

\* The note the lesson gets: a new one, or the present one reinforced.
NoteFor(x, present) ==
  IF present = NoNote THEN [uses |-> x.successes, refs |-> x.evidence]
  ELSE [uses |-> Max(present.uses, x.successes), refs |-> present.refs \cup x.evidence]

\* _promote_usage_note reads the book; without the target the candidate is blocked.
Fetch(w) ==
  /\ At(w, "fetch") /\ ~call[w].revoke
  /\ LET c == Lesson(w)
         x == call[w].candidate
     IN  IF book = NoBook
         THEN Goto(w, [NoCall EXCEPT !.step = "put", !.lesson = c,
                         !.candidate = [x EXCEPT !.status = "blocked"]])
         ELSE LET note == NoteFor(x, book[c]) IN
              Goto(w, [call[w] EXCEPT !.step = "write", !.book = [book EXCEPT ![c] = note],
                                      !.before = book[c], !.after = note])
  /\ UNCHANGED <<candidates, published, book, audit, edited, mishap>>

\* put_book of the whole book.
PutBook(w, b, step) ==
  /\ book' = b
  /\ Goto(w, [call[w] EXCEPT !.step = step, !.book = NoBook])

Write(w) ==
  /\ At(w, "write")
  /\ PutBook(w, call[w].book, "status")
  /\ UNCHANGED <<candidates, published, audit, edited, mishap>>

\* The candidate is promoted, or revoked.
PutStatus(w) ==
  /\ At(w, "status")
  /\ candidates' = [candidates EXCEPT ![Lesson(w)] = call[w].candidate]
  /\ GotoStep(w, "append")
  /\ UNCHANGED <<published, book, audit, edited, mishap>>

Operation(w) ==
  IF call[w].revoke THEN "revoke"
  ELSE IF call[w].before = NoNote THEN "promote" ELSE "reinforce"

AppendMutation(w) ==
  /\ At(w, "append")
  /\ audit' = [audit EXCEPT ![Lesson(w)] = Append(@,
       [operation |-> Operation(w), before |-> call[w].before, after |-> call[w].after])]
  /\ edited' = edited \ {Lesson(w)}
  /\ GotoStep(w, "idle")
  /\ UNCHANGED <<candidates, published, book, mishap>>

\* The append raises: the note and the candidate are put back.
AppendFails(w) ==
  /\ At(w, "append")
  /\ GotoStep(w, "refetch")
  /\ UNCHANGED <<candidates, published, book, audit, edited, mishap>>

-----------------------------------------------------------------------------
(* _restore_usage_note *)

\* The note is replaced only if it is the expected one.
Restorable(c, expected) == book # NoBook /\ book[c] = expected

\* Mutant: only the candidate is put back.
RefetchNothing(w) ==
  /\ At(w, "refetch")
  /\ GotoStep(w, "restore")
  /\ UNCHANGED <<candidates, published, book, audit, edited, mishap>>

Refetch(w) ==
  /\ At(w, "refetch")
  /\ Goto(w, IF Restorable(Lesson(w), call[w].after)
             THEN [call[w] EXCEPT !.step = "rewrite",
                                  !.book = [book EXCEPT ![Lesson(w)] = call[w].before]]
             ELSE [call[w] EXCEPT !.step = "restore"])
  /\ UNCHANGED <<candidates, published, book, audit, edited, mishap>>

Rewrite(w) ==
  /\ At(w, "rewrite")
  /\ PutBook(w, call[w].book, "restore")
  /\ UNCHANGED <<candidates, published, audit, edited, mishap>>

RestoreCandidate(w) ==
  /\ At(w, "restore")
  /\ candidates' = [candidates EXCEPT ![Lesson(w)] = call[w].previous]
  /\ GotoStep(w, "idle")
  /\ UNCHANGED <<published, book, audit, edited, mishap>>

-----------------------------------------------------------------------------
(* revoke *)

\* Only a promoted candidate is revoked.
Revoke(w) ==
  /\ \E c \in Lessons :
       /\ candidates[c] # NoCandidate /\ candidates[c].status = "promoted"
       /\ Len(audit[c]) < MaxAudit
       /\ Enter(w, [NoCall EXCEPT !.step = "log", !.revoke = TRUE, !.lesson = c,
                      !.candidate = [candidates[c] EXCEPT !.status = "revoked"],
                      !.previous = candidates[c]])
  /\ UNCHANGED <<candidates, published, book, audit, edited>>

\* Where in its log a lesson was promoted or reinforced; the first and the latest
\* of these mutations.
Applied(c) ==
  {i \in DOMAIN audit[c] : audit[c][i].operation \in {"promote", "reinforce"}}

First(c) == audit[c][CHOOSE i \in Applied(c) : \A j \in Applied(c) : i <= j]

Latest(c) == audit[c][CHOOSE i \in Applied(c) : \A j \in Applied(c) : i >= j]

\* Mutant: only the last mutation is undone.
ReadLastOfLog(w) ==
  /\ At(w, "log")
  /\ Goto(w, IF Applied(Lesson(w)) = {} THEN NoCall
             ELSE [call[w] EXCEPT !.step = "fetch",
                                  !.before = Latest(Lesson(w)).after,
                                  !.after = Latest(Lesson(w)).before])
  /\ UNCHANGED <<candidates, published, book, audit, edited, mishap>>

\* From the first to the last mutation; without one the revocation is blocked.
ReadLog(w) ==
  /\ At(w, "log")
  /\ Goto(w, IF Applied(Lesson(w)) = {} THEN NoCall
             ELSE [call[w] EXCEPT !.step = "fetch",
                                  !.before = Latest(Lesson(w)).after,
                                  !.after = First(Lesson(w)).before])
  /\ UNCHANGED <<candidates, published, book, audit, edited, mishap>>

\* A note that has diverged from the last mutation is a conflict.
FetchNote(w) ==
  /\ At(w, "fetch") /\ call[w].revoke
  /\ Goto(w, IF Restorable(Lesson(w), call[w].before)
             THEN [call[w] EXCEPT !.step = "write",
                                  !.book = [book EXCEPT ![Lesson(w)] = call[w].after]]
             ELSE NoCall)
  /\ UNCHANGED <<candidates, published, book, audit, edited, mishap>>

-----------------------------------------------------------------------------
\* Somebody else changes a note of the book, or removes the book; bound: not after
\* a mishap, when nothing is said of the book any more.
Edit ==
  /\ book # NoBook /\ mishap = "none"
  /\ \/ \E c \in Lessons \ edited :
          /\ book' = [book EXCEPT ![c] = IF @ = NoNote THEN Revised ELSE NoNote]
          /\ edited' = edited \cup {c}
     \/ book' = NoBook /\ edited' = Lessons
  /\ Overlap(Callers)
  /\ UNCHANGED <<candidates, published, audit, call>>

\* The process dies; a Library kept in memory is the published one again.
Crash ==
  /\ mishap' = "crash"
  /\ book' \in {book, published}
  /\ edited' = Lessons
  /\ call' = [w \in Callers |-> NoCall]
  /\ UNCHANGED <<candidates, published, audit>>

Advance(w) ==
  \/ Put(w) \/ Fetch(w) \/ Write(w) \/ PutStatus(w) \/ AppendMutation(w)
  \/ AppendFails(w) \/ Refetch(w) \/ Rewrite(w) \/ RestoreCandidate(w)
  \/ ReadLog(w) \/ FetchNote(w)

Next ==
  \/ \E w \in Callers : Observe(w) \/ Revoke(w) \/ Advance(w)
  \/ Edit \/ Crash

Spec == Init /\ [][Next]_vars

-----------------------------------------------------------------------------
TypeOK ==
  /\ candidates \in [Lessons -> Candidate \cup {NoCandidate}]
  /\ published \in Notes
  /\ book \in Notes \cup {NoBook}
  /\ audit \in [Lessons -> Seq(Mutation)]
  /\ call \in [Callers -> Call]
  /\ edited \subseteq Lessons
  /\ mishap \in {"none", "overlap", "crash"}

Quiet == mishap = "none" /\ \A w \in Callers : At(w, "idle")

\* Without overlap nor crash the log and the book agree: the note of a lesson is
\* what its last mutation left, also after an audit that failed was undone.
AuditTellsNote ==
  Quiet => \A c \in Lessons \ edited :
    LET log == audit[c] IN
    book[c] = IF log = <<>> THEN published[c] ELSE log[Len(log)].after

\* Without overlap nor crash a revoked lesson is as if it had never been learned,
\* and stays so.
RevokedIsWithdrawn ==
  Quiet => \A c \in Lessons :
    candidates[c] # NoCandidate /\ candidates[c].status = "revoked" =>
      /\ audit[c][Len(audit[c])].operation = "revoke"
      /\ c \notin edited => book[c] = First(c).before
=============================================================================
