------------------------- MODULE ModelServerProofs -------------------------
(***************************************************************************)
(* Proofs about ModelServer and Responses, for any number of threads, any   *)
(* intervals, backoffs and waits the provider asks for, and for requests    *)
(* and replies of any length.                                               *)
(*                                                                         *)
(* The governor's methods each keep its times in order, whatever the        *)
(* request is that calls them: late failures and successes of requests that *)
(* started before a cooldown need no case of their own.  That a failure is  *)
(* told once is a matter of one thread: HasSent says what it has sent at    *)
(* each of its steps.                                                      *)
(*                                                                         *)
(* The translations are loops over lists that make a list.  FlatMap is such *)
(* a loop; FlattenSeq and FoldLeft are opened up once (Flattened, LoopRuns) *)
(* and from then on argued about by FlatMap of what is concatenated, mapped *)
(* twice or empty.  What all translations are about is a set P of words,    *)
(* which names and roles are made of.                                      *)
(***************************************************************************)
EXTENDS ModelReplies, WellFoundedInduction, TLAPS
LOCAL ST == INSTANCE SequenceTheorems

-----------------------------------------------------------------------------
(* The governor and the threads *)

\* What a thread has sent: nothing before it starts a stream, and an error after
\* that only for what breaks off.
HasSent(c) ==
  /\ c.lines > 0 => c.kind = "stream" /\ c.step \in {"more", "reply"}
  /\ c.step \in {"first", "start", "more"} => c.kind = "stream"
  /\ c.step = "reply" /\ c.status # 500 => c.lines = 0
  /\ c.step = "reply" => c.lines <= 1
  /\ c.step # "more" \/ c.lines <= 1

AllSent == \A w \in Threads : HasSent(call[w])

-----------------------------------------------------------------------------
\* A backoff is a number and within its bound.
LEMMA DelayType ==
  ASSUME NEW initial \in Nat, NEW max \in Nat, NEW n \in 0 .. MaxStrikes
  PROVE  /\ Strike(n) \in 1 .. MaxStrikes
         /\ Backoff(initial, max, Strike(n)) \in Nat
         /\ Backoff(initial, max, Strike(n)) <= max
<1>1. Strike(n) \in 1 .. MaxStrikes
  BY ConstantsAssumption DEF Strike, Earlier
<1>2. 2 ^ (Strike(n) - 1) \in Nat
  <2>1. Strike(n) - 1 \in 0 .. MaxStrikes
    BY <1>1, ConstantsAssumption
  <2> QED
    BY <2>1, PowersAssumption
<1>3. ASSUME NEW power \in Nat PROVE initial * power \in Nat
  OBVIOUS
<1>4. initial * 2 ^ (Strike(n) - 1) \in Nat
  BY <1>2, <1>3
<1> QED
  BY <1>1, <1>4 DEF Backoff, Earlier

\* The delays of both kinds of failures.
LEMMA DelaysBounded ==
  ASSUME TypeOK, NEW retry \in RetryAfters \cup {0}
  PROVE  /\ LimitDelay(retry) \in Nat /\ TransientDelay(retry) \in Nat
         /\ LimitDelay(retry) <= BackoffMax \/ LimitDelay(retry) = retry
         /\ TransientDelay(retry) <= TransientMax \/ TransientDelay(retry) = retry
<1>1. /\ governor.limits \in 0 .. MaxStrikes /\ governor.transients \in 0 .. MaxStrikes
      /\ retry \in Nat
  BY ConstantsAssumption DEF TypeOK, Governor
<1>2. /\ Backoff(BackoffInitial, BackoffMax, Strike(governor.limits)) \in Nat
      /\ Backoff(BackoffInitial, BackoffMax, Strike(governor.limits)) <= BackoffMax
      /\ Backoff(TransientInitial, TransientMax, Strike(governor.transients)) \in Nat
      /\ Backoff(TransientInitial, TransientMax, Strike(governor.transients)) <= TransientMax
  BY <1>1, DelayType, ConstantsAssumption
<1> QED
  BY <1>1, <1>2, ConstantsAssumption DEF LimitDelay, TransientDelay, Later

\* What a request that does not fail the governor does to it.
Serves == RecordSuccess /\ UNCHANGED gap

Strikes ==
  /\ \E retry \in RetryAfters \cup {0} : RecordRateLimit(retry) \/ RecordTransientFailure(retry)
  /\ UNCHANGED gap

\* Some thread takes a slot.
TakesSlot ==
  /\ ~Blocked
  /\ governor' = [governor EXCEPT !.next = @ + MinInterval]
  /\ gap' = governor.next + MinInterval
  /\ UNCHANGED promise

TimePasses ==
  /\ governor' = [governor EXCEPT !.next = Sooner(@), !.blocked = Sooner(@)]
  /\ gap' = Sooner(gap) /\ promise' = Sooner(promise)

Rests == UNCHANGED <<governor, gap, promise>>

\* Every step is one of these for the governor.
LEMMA GovernorSteps ==
  [Next]_vars => Serves \/ Strikes \/ TakesSlot \/ TimePasses \/ Rests
<1> SUFFICES ASSUME [Next]_vars
             PROVE  Serves \/ Strikes \/ TakesSlot \/ TimePasses \/ Rests
  OBVIOUS
<1>1. CASE UNCHANGED vars
  BY <1>1 DEF vars, Rests
<1>2. CASE Tick
  BY <1>2 DEF Tick, TimePasses
<1>3. ASSUME NEW w \in Threads, Accept(w) \/ Advance(w)
      PROVE  Serves \/ Strikes \/ TakesSlot \/ TimePasses \/ Rests
  <2>1. CASE Succeeds(w) \/ IsUnreadable(w)
    BY <2>1 DEF Succeeds, IsUnreadable, Serves
  <2>2. CASE IsRateLimited(w) \/ FailsTransiently(w) \/ LosesConnection(w)
    BY <2>2 DEF IsRateLimited, FailsTransiently, LosesConnection, Strikes
  <2>3. CASE Reserve(w)
    BY <2>3 DEF Reserve, TakesSlot, Rests
  <2>4. CASE Wake(w) \/ IsRefused(w) \/ BreaksOff(w) \/ Render(w) \/ ReadFirst(w)
    BY <2>4 DEF Wake, IsRefused, BreaksOff, Render, ReadFirst, Rests
  <2>5. CASE Accept(w) \/ StartStream(w) \/ EndStream(w) \/ Reply(w)
    BY <2>5 DEF Accept, StartStream, EndStream, Reply, Rests
  <2> QED
    BY <1>3, <2>1, <2>2, <2>3, <2>4, <2>5 DEF Advance
<1> QED
  BY <1>1, <1>2, <1>3 DEF Next

-----------------------------------------------------------------------------
\* Types.
LEMMA GovernorType ==
  TypeOK /\ [Next]_vars => governor' \in Governor /\ gap' \in Nat /\ promise' \in Nat
<1> SUFFICES ASSUME TypeOK, [Next]_vars
             PROVE  governor' \in Governor /\ gap' \in Nat /\ promise' \in Nat
  OBVIOUS
<1>0. /\ governor \in Governor /\ gap \in Nat /\ promise \in Nat
      /\ governor.next \in Nat /\ governor.blocked \in Nat
  BY DEF TypeOK, Governor
<1>a. 0 \in 0 .. MaxStrikes
  BY ConstantsAssumption
<1>1. CASE Serves
  <2> DEFINE Cleared(none, now, status) ==
               [governor EXCEPT !.limits = none, !.transients = none,
                                !.blocked = now, !.status = status]
  <2>1. ASSUME NEW none \in 0 .. MaxStrikes, NEW now \in Nat, NEW status \in {429, 503}
        PROVE  Cleared(none, now, status) \in Governor
    BY <1>0 DEF Governor
  <2>2. governor' = Cleared(0, 0, 503)
    BY <1>1 DEF Serves, RecordSuccess
  <2> HIDE DEF Cleared
  <2>3. governor' \in Governor
    BY <1>a, <2>1, <2>2
  <2> QED
    BY <1>0, <1>1, <2>3 DEF Serves, RecordSuccess
<1>2. CASE Strikes
  <2>1. PICK retry \in RetryAfters \cup {0} :
               RecordRateLimit(retry) \/ RecordTransientFailure(retry)
    BY <1>2 DEF Strikes
  <2>2. LimitDelay(retry) \in Nat /\ TransientDelay(retry) \in Nat
    BY <2>1, DelaysBounded
  <2>3. /\ Strike(governor.limits) \in 0 .. MaxStrikes
        /\ Strike(governor.transients) \in 0 .. MaxStrikes
    BY <1>0, ConstantsAssumption DEF Governor, Strike, Earlier
  <2>4. ASSUME NEW g \in Governor, NEW delay \in Nat, NEW status \in {429, 503}
        PROVE  OpenCooldown(g, delay, status) \in Governor
    <3>1. /\ Later(g.blocked, delay) \in Nat
          /\ Later(g.next, Later(g.blocked, delay) + MinInterval) \in Nat
      BY <2>4, ConstantsAssumption DEF Later, Governor
    <3>2. ASSUME NEW until \in Nat, NEW next \in Nat
          PROVE  [g EXCEPT !.blocked = until, !.status = status, !.next = next] \in Governor
      BY <2>4 DEF Governor
    <3> QED
      BY <3>1, <3>2 DEF OpenCooldown
  <2>5. /\ [governor EXCEPT !.limits = Strike(@), !.transients = 0] \in Governor
        /\ [governor EXCEPT !.transients = Strike(@), !.limits = 0] \in Governor
    <3>1. ASSUME NEW m \in 0 .. MaxStrikes, NEW n \in 0 .. MaxStrikes
          PROVE  /\ [governor EXCEPT !.limits = m, !.transients = n] \in Governor
                 /\ [governor EXCEPT !.transients = m, !.limits = n] \in Governor
      BY <1>0 DEF Governor
    <3> QED
      BY <1>a, <2>3, <3>1
  <2>6. governor' \in Governor
    BY <2>1, <2>2, <2>4, <2>5 DEF RecordRateLimit, RecordTransientFailure
  <2>7. promise' \in Nat
    BY <1>0, <2>1, <2>2 DEF RecordRateLimit, RecordTransientFailure, Later
  <2> QED
    BY <1>0, <1>2, <2>6, <2>7 DEF Strikes
<1>3. CASE TakesSlot
  BY <1>0, <1>3, ConstantsAssumption DEF TakesSlot, Governor
<1>4. CASE TimePasses
  <2>1. ASSUME NEW n \in Nat PROVE Sooner(n) \in Nat
    BY DEF Sooner
  <2>2. ASSUME NEW m \in Nat, NEW n \in Nat
        PROVE  [governor EXCEPT !.next = m, !.blocked = n] \in Governor
    BY <1>0 DEF Governor
  <2> QED
    BY <1>0, <1>4, <2>1, <2>2 DEF TimePasses
<1>5. CASE Rests
  BY <1>0, <1>5 DEF Rests
<1> QED
  BY <1>1, <1>2, <1>3, <1>4, <1>5, GovernorSteps

\* Calls that go on, with another step and what comes with it.
LEMMA StepType ==
  ASSUME NEW c \in Call, NEW step \in Steps
  PROVE  /\ [c EXCEPT !.step = step] \in Call
         /\ [c EXCEPT !.step = step].step = step
         /\ [c EXCEPT !.step = step].kind = c.kind
         /\ [c EXCEPT !.step = step].lines = c.lines
         /\ [c EXCEPT !.step = step].status = c.status
  BY DEF Call

Woken(c, step, wake) == [c EXCEPT !.step = step, !.wake = wake]

LEMMA WakeType ==
  ASSUME NEW c \in Call, NEW step \in Steps, NEW wake \in Nat
  PROVE  /\ Woken(c, step, wake) \in Call /\ Woken(c, step, wake).step = step
         /\ Woken(c, step, wake).lines = c.lines
  BY DEF Call, Woken

Failed(c, step, status) == [c EXCEPT !.step = step, !.status = status]

LEMMA StatusType ==
  ASSUME NEW c \in Call, NEW step \in Steps, NEW status \in Statuses
  PROVE  /\ Failed(c, step, status) \in Call /\ Failed(c, step, status).step = step
         /\ Failed(c, step, status).status = status
         /\ Failed(c, step, status).lines = c.lines
         /\ Failed(c, step, status).kind = c.kind
  BY DEF Call, Failed

Sent(c, step, lines) == [c EXCEPT !.step = step, !.lines = lines]

LEMMA LinesType ==
  ASSUME NEW c \in Call, NEW step \in Steps, NEW lines \in 0 .. 2
  PROVE  /\ Sent(c, step, lines) \in Call /\ Sent(c, step, lines).step = step
         /\ Sent(c, step, lines).kind = c.kind /\ Sent(c, step, lines).lines = lines
  BY DEF Call, Sent

LEMMA NoCallType ==
  ASSUME NEW kind \in Kinds
  PROVE  /\ NoCall \in Call /\ NoCall.step = "idle" /\ NoCall.lines = 0
         /\ [NoCall EXCEPT !.step = "reserve", !.kind = kind] \in Call
         /\ [NoCall EXCEPT !.step = "reserve", !.kind = kind].step = "reserve"
         /\ [NoCall EXCEPT !.step = "reserve", !.kind = kind].lines = 0
<1>1. NoCall \in Call
  BY DEF NoCall, Call, Steps, Kinds, Statuses
<1>2. NoCall.step = "idle" /\ NoCall.lines = 0
  BY DEF NoCall
<1>3. ASSUME NEW step \in Steps
      PROVE  /\ [NoCall EXCEPT !.step = step, !.kind = kind] \in Call
             /\ [NoCall EXCEPT !.step = step, !.kind = kind].step = step
             /\ [NoCall EXCEPT !.step = step, !.kind = kind].lines = NoCall.lines
  BY <1>1 DEF Call
<1>4. "reserve" \in Steps
  BY DEF Steps
<1> QED
  BY <1>1, <1>2, <1>3, <1>4

\* A request that is over.
LEMMA Idles == NoCall \in Call /\ HasSent(NoCall)
  BY NoCallType DEF HasSent, Kinds

\* What a thread has sent, and the types of its call, through every step.
LEMMA CallStep ==
  TypeOK /\ AllSent /\ [Next]_vars => call' \in [Threads -> Call] /\ AllSent'
<1> SUFFICES ASSUME TypeOK, AllSent, [Next]_vars
             PROVE  call' \in [Threads -> Call] /\ AllSent'
  OBVIOUS
<1>0. call \in [Threads -> Call]
  BY DEF TypeOK
<1>1. CASE UNCHANGED vars
  BY <1>0, <1>1 DEF vars, AllSent, HasSent
<1>2. CASE Tick
  <2>1. ASSUME NEW w \in Threads
        PROVE  /\ [call[w] EXCEPT !.wake = Sooner(@)] \in Call
               /\ HasSent([call[w] EXCEPT !.wake = Sooner(@)])
    <3>1. call[w] \in Call /\ HasSent(call[w]) /\ call[w].wake \in Nat
      BY <1>0 DEF AllSent, Call
    <3>2. Sooner(call[w].wake) \in Nat
      BY <3>1 DEF Sooner
    <3> QED
      BY <3>1, <3>2 DEF Call, HasSent
  <2> QED
    BY <1>2, <2>1 DEF Tick, AllSent
<1>3. ASSUME NEW w \in Threads, Accept(w) \/ Advance(w)
      PROVE  call' \in [Threads -> Call] /\ AllSent'
  <2>0. call[w] \in Call /\ HasSent(call[w]) /\ governor.next \in Nat /\ governor.status \in {429, 503}
    BY <1>0 DEF AllSent, TypeOK, Governor
  <2>1. ASSUME NEW c \in Call, HasSent(c), Goto(w, c)
        PROVE  call' \in [Threads -> Call] /\ AllSent'
    BY <1>0, <2>1, Idles DEF Goto, AllSent
  <2>2. ASSUME NEW status \in Statuses, Fail(w, status),
               status = 500 \/ call[w].lines = 0, call[w].lines <= 1
        PROVE  call' \in [Threads -> Call] /\ AllSent'
    <3>1. Failed(call[w], "reply", status) \in Call /\ HasSent(Failed(call[w], "reply", status))
      <4>1. "reply" \in Steps
        BY DEF Steps
      <4>2. call[w].lines > 0 => call[w].kind = "stream" /\ status = 500
        BY <2>0, <2>2 DEF Call, HasSent
      <4> QED
        BY <2>0, <2>2, <4>1, <4>2, StatusType DEF HasSent
    <3>2. Goto(w, Failed(call[w], "reply", status))
      BY <2>2 DEF Fail, Failed
    <3> QED
      BY <2>1, <3>1, <3>2
  <2>3. ASSUME NEW step \in Steps, GotoStep(w, step),
               HasSent([call[w] EXCEPT !.step = step])
        PROVE  call' \in [Threads -> Call] /\ AllSent'
    <3>1. [call[w] EXCEPT !.step = step] \in Call
      BY <2>0 DEF Call
    <3> QED
      BY <2>1, <2>3, <3>1 DEF GotoStep
  <2>4. call[w].lines \in 0 .. 2 /\ call[w].step \in Steps
    BY <2>0 DEF Call
  <2>5. CASE ~At(w, "more") /\ ~At(w, "reply")
    <3>0. call[w].lines = 0
      BY <2>0, <2>4, <2>5 DEF HasSent, At
    <3>1. CASE Accept(w)
      <4>1. ASSUME NEW kind \in Kinds
            PROVE  /\ [NoCall EXCEPT !.step = "reserve", !.kind = kind] \in Call
                   /\ HasSent([NoCall EXCEPT !.step = "reserve", !.kind = kind])
        <5>1. /\ [NoCall EXCEPT !.step = "reserve", !.kind = kind] \in Call
              /\ [NoCall EXCEPT !.step = "reserve", !.kind = kind].step = "reserve"
              /\ [NoCall EXCEPT !.step = "reserve", !.kind = kind].lines = 0
          BY NoCallType, Zenon
        <5> QED
          BY <5>1 DEF HasSent
      <4>2. ASSUME NEW status \in {400, 404, 500}, Fail(w, status)
            PROVE  call' \in [Threads -> Call] /\ AllSent'
        BY <2>2, <3>0, <4>2 DEF Statuses
      <4> QED
        BY <2>1, <3>1, <4>1, <4>2 DEF Accept
    <3>2. CASE Reserve(w)
      <4>1. "sleep" \in Steps
        BY DEF Steps
      <4>2. CASE Goto(w, Woken(call[w], "sleep", governor.next))
        <5>1. /\ Woken(call[w], "sleep", governor.next) \in Call
              /\ HasSent(Woken(call[w], "sleep", governor.next))
          BY <2>0, <3>0, <4>1, WakeType DEF HasSent
        <5> QED
          BY <2>1, <4>2, <5>1
      <4>3. CASE Fail(w, governor.status)
        BY <2>0, <2>2, <3>0, <4>3 DEF Statuses
      <4> QED
        BY <3>2, <4>2, <4>3 DEF Reserve, Woken
    <3>3. CASE Wake(w)
      <4>1. HasSent([call[w] EXCEPT !.step = "open"])
        BY <2>0, <3>0 DEF HasSent, Call
      <4> QED
        BY <2>0, <2>2, <2>3, <3>0, <3>3, <4>1 DEF Wake, Statuses, Steps
    <3>4. CASE Succeeds(w)
      <4>1. CASE call[w].kind = "stream"
        <5>1. HasSent([call[w] EXCEPT !.step = "first"])
          BY <2>0, <3>0, <4>1 DEF HasSent, Call
        <5> QED
          BY <2>3, <3>4, <4>1, <5>1 DEF Succeeds, Steps
      <4>2. CASE call[w].kind # "stream"
        <5>1. HasSent([call[w] EXCEPT !.step = "render"])
          BY <2>0, <3>0 DEF HasSent, Call
        <5> QED
          BY <2>3, <3>4, <4>2, <5>1 DEF Succeeds, Steps
      <4> QED
        BY <4>1, <4>2
    <3>5. CASE IsUnreadable(w) \/ IsRateLimited(w) \/ FailsTransiently(w)
               \/ IsRefused(w) \/ BreaksOff(w) \/ LosesConnection(w)
      BY <2>2, <3>0, <3>5
         DEF IsUnreadable, IsRateLimited, FailsTransiently, IsRefused, BreaksOff,
             LosesConnection, Statuses
    <3>6. CASE Render(w)
      <4>1. call' = [call EXCEPT ![w] = NoCall]
        BY <2>0, <3>6 DEF Render, SendStatus, Goto, GotoStep, Call
      <4> QED
        BY <1>0, <4>1, Idles DEF AllSent
    <3>7. CASE ReadFirst(w)
      <4>1. CASE GotoStep(w, "start")
        <5>1. HasSent([call[w] EXCEPT !.step = "start"])
          BY <2>0, <3>0, <3>7 DEF HasSent, Call, ReadFirst, At
        <5> QED
          BY <2>3, <4>1, <5>1 DEF Steps
      <4> QED
        BY <2>2, <3>0, <3>7, <4>1 DEF ReadFirst, Statuses
    <3>8. CASE StartStream(w)
      <4>1. CASE GotoStep(w, "idle")
        <5>1. HasSent([call[w] EXCEPT !.step = "idle"])
          BY <2>0, <3>0 DEF HasSent, Call
        <5> QED
          BY <2>3, <4>1, <5>1 DEF Steps
      <4>2. CASE Goto(w, Sent(call[w], "more", call[w].lines + 1))
        <5>1. "more" \in Steps /\ 1 \in 0 .. 2 /\ call[w].lines + 1 = 1
          BY <3>0 DEF Steps
        <5>2. call[w].kind = "stream"
          BY <2>0, <3>8 DEF StartStream, At, HasSent
        <5>3. /\ Sent(call[w], "more", call[w].lines + 1) \in Call
              /\ HasSent(Sent(call[w], "more", call[w].lines + 1))
          BY <2>0, <5>1, <5>2, LinesType DEF HasSent
        <5> QED
          BY <2>1, <4>2, <5>3
      <4> QED
        BY <3>8, <4>1, <4>2 DEF StartStream, SendStatus, Sent
    <3> QED
      BY <1>3, <2>5, <3>1, <3>2, <3>3, <3>4, <3>5, <3>6, <3>7, <3>8
         DEF Advance, EndStream, Reply
  <2>6. CASE At(w, "more") \/ At(w, "reply")
    <3>0. call[w].lines <= 1
      BY <2>0, <2>6 DEF HasSent, At
    <3>1. CASE GotoStep(w, "idle") \/ \E c \in Call : c.step = "idle" /\ Goto(w, c)
      <4>1. call' = [call EXCEPT ![w] = NoCall]
        BY <2>0, <3>1 DEF Goto, GotoStep, Call
      <4> QED
        BY <1>0, <4>1, Idles DEF AllSent
    <3>2. CASE EndStream(w)
      BY <2>2, <3>0, <3>1, <3>2 DEF EndStream, Statuses
    <3>3. CASE Reply(w)
      <4>1. "idle" \in Steps /\ call[w].lines + 1 \in 0 .. 2
        BY <2>4, <3>0 DEF Steps
      <4>2. /\ Sent(call[w], "idle", call[w].lines + 1) \in Call
            /\ Sent(call[w], "idle", call[w].lines + 1).step = "idle"
        BY <2>0, <4>1, LinesType
      <4>3. GotoStep(w, "idle") \/ Goto(w, Sent(call[w], "idle", call[w].lines + 1))
        BY <3>3 DEF Reply, SendStatus, Sent
      <4> QED
        BY <3>1, <4>2, <4>3
    <3> QED
      BY <1>3, <2>6, <3>2, <3>3
         DEF Advance, At, Accept, Reserve, Wake, Succeeds, IsUnreadable, IsRateLimited,
             FailsTransiently, IsRefused, BreaksOff, LosesConnection, Render, ReadFirst,
             StartStream
  <2> QED
    BY <2>5, <2>6
<1> QED
  BY <1>1, <1>2, <1>3 DEF Next

LEMMA InitType == Init => TypeOK /\ AllSent
<1> SUFFICES ASSUME Init PROVE TypeOK /\ AllSent
  OBVIOUS
<1>1. governor \in Governor
  <2>1. 0 \in 0 .. MaxStrikes
    BY ConstantsAssumption
  <2> QED
    BY <2>1 DEF Init, Governor
<1> QED
  BY <1>1, Idles DEF Init, TypeOK, AllSent

LEMMA TypeStep == TypeOK /\ AllSent /\ [Next]_vars => TypeOK' /\ AllSent'
  BY GovernorType, CallStep DEF TypeOK

-----------------------------------------------------------------------------
\* Every variable keeps its type, in every execution: the governor's times never
\* become negative, and what a thread carries is always a call it can be in.
THEOREM TypeCorrect == Spec => [](TypeOK /\ AllSent)
<1>1. Init => TypeOK /\ AllSent
  BY InitType
<1>2. TypeOK /\ AllSent /\ [Next]_vars => (TypeOK /\ AllSent)'
  BY TypeStep
<1> QED
  BY <1>1, <1>2, PTL DEF Spec

\* A failure before the first event of a stream, or of a request that is no
\* stream, is told by a reply of its own and nothing else, except for a fault of
\* the handler itself: its 500 may follow a stream that has begun (http.py,
\* upstream.py).
THEOREM ErrorsAreClean == Spec => []ErrorsComeClean
<1>1. AllSent => ErrorsComeClean
  BY DEF AllSent, HasSent, ErrorsComeClean, At
<1> QED
  BY <1>1, TypeCorrect, PTL

-----------------------------------------------------------------------------
\* What a failure of either kind does to the times, for some delay.
StrikesFor(delay) ==
  /\ governor'.next = Later(governor.next, Later(governor.blocked, delay) + MinInterval)
  /\ governor'.blocked = Later(governor.blocked, delay)
  /\ governor'.limits = 0 \/ governor'.transients = 0
  /\ promise' = Later(promise, delay) /\ gap' = gap
  /\ \E longest \in RetryAfters \cup {BackoffMax, TransientMax} : delay <= longest

LEMMA StrikeTimes ==
  ASSUME TypeOK, Strikes
  PROVE  \E delay \in Nat : StrikesFor(delay)
<1>1. PICK retry \in RetryAfters \cup {0} :
             RecordRateLimit(retry) \/ RecordTransientFailure(retry)
  BY DEF Strikes
<1>2. /\ LimitDelay(retry) \in Nat /\ TransientDelay(retry) \in Nat
      /\ LimitDelay(retry) <= BackoffMax \/ LimitDelay(retry) = retry
      /\ TransientDelay(retry) <= TransientMax \/ TransientDelay(retry) = retry
  BY <1>1, DelaysBounded
<1>3. governor \in Governor
  BY DEF TypeOK
<1>4. ASSUME NEW g \in Governor, NEW delay, NEW status
      PROVE  /\ OpenCooldown(g, delay, status).blocked = Later(g.blocked, delay)
             /\ OpenCooldown(g, delay, status).next =
                  Later(g.next, Later(g.blocked, delay) + MinInterval)
             /\ OpenCooldown(g, delay, status).limits = g.limits
             /\ OpenCooldown(g, delay, status).transients = g.transients
  BY <1>4 DEF OpenCooldown, Governor
<1> DEFINE Limited(m, n) == [governor EXCEPT !.limits = m, !.transients = n]
           Struck(m, n) == [governor EXCEPT !.transients = m, !.limits = n]
<1>5. ASSUME NEW m \in 0 .. MaxStrikes, NEW n \in 0 .. MaxStrikes
      PROVE  /\ Limited(m, n) \in Governor /\ Limited(m, n).transients = n
             /\ Limited(m, n).next = governor.next
             /\ Limited(m, n).blocked = governor.blocked
             /\ Struck(m, n) \in Governor /\ Struck(m, n).limits = n
             /\ Struck(m, n).next = governor.next
             /\ Struck(m, n).blocked = governor.blocked
  BY <1>3 DEF Governor
<1>a. /\ RecordRateLimit(retry) => governor' =
           OpenCooldown(Limited(Strike(governor.limits), 0), LimitDelay(retry), 429)
      /\ RecordTransientFailure(retry) => governor' =
           OpenCooldown(Struck(Strike(governor.transients), 0), TransientDelay(retry), 503)
  BY DEF RecordRateLimit, RecordTransientFailure
<1> HIDE DEF Limited, Struck
<1>6. /\ 0 \in 0 .. MaxStrikes /\ Strike(governor.limits) \in 0 .. MaxStrikes
      /\ Strike(governor.transients) \in 0 .. MaxStrikes
  BY <1>3, ConstantsAssumption DEF Strike, Earlier, Governor
<1>7. CASE RecordRateLimit(retry)
  <2>1. /\ governor'.blocked = Later(governor.blocked, LimitDelay(retry))
        /\ governor'.next = Later(governor.next,
             Later(governor.blocked, LimitDelay(retry)) + MinInterval)
        /\ governor'.transients = 0
    BY <1>4, <1>5, <1>6, <1>7, <1>a
  <2>2. \E longest \in RetryAfters \cup {BackoffMax, TransientMax} : LimitDelay(retry) <= longest
    BY <1>2, ConstantsAssumption
  <2> QED
    BY <1>2, <1>7, <2>1, <2>2 DEF StrikesFor, Strikes, RecordRateLimit
<1>8. CASE RecordTransientFailure(retry)
  <2>1. /\ governor'.blocked = Later(governor.blocked, TransientDelay(retry))
        /\ governor'.next = Later(governor.next,
             Later(governor.blocked, TransientDelay(retry)) + MinInterval)
        /\ governor'.limits = 0
    BY <1>4, <1>5, <1>6, <1>8, <1>a
  <2>2. \E longest \in RetryAfters \cup {BackoffMax, TransientMax} :
           TransientDelay(retry) <= longest
    BY <1>2, ConstantsAssumption
  <2> QED
    BY <1>2, <1>8, <2>1, <2>2 DEF StrikesFor, Strikes, RecordTransientFailure
<1> QED
  BY <1>1, <1>7, <1>8

-----------------------------------------------------------------------------
\* Slots keep their distance.
LEMMA SpacedStep == TypeOK /\ SlotsAreSpaced /\ [Next]_vars => SlotsAreSpaced'
<1> SUFFICES ASSUME TypeOK, SlotsAreSpaced, [Next]_vars PROVE SlotsAreSpaced'
  OBVIOUS
<1>0. /\ governor \in Governor /\ governor.next \in Nat /\ governor.blocked \in Nat
      /\ gap \in Nat /\ governor.next >= gap /\ MinInterval \in Nat
  BY ConstantsAssumption DEF TypeOK, Governor, SlotsAreSpaced
<1>1. CASE Serves
  BY <1>0, <1>1 DEF Serves, RecordSuccess, SlotsAreSpaced, Governor
<1>2. CASE Strikes
  <2>1. PICK delay \in Nat : StrikesFor(delay)
    BY <1>2, StrikeTimes
  <2>2. Later(governor.blocked, delay) \in Nat
    BY <1>0 DEF Later
  <2> QED
    BY <1>0, <2>1, <2>2 DEF StrikesFor, Later, SlotsAreSpaced
<1>3. CASE TakesSlot
  BY <1>0, <1>3 DEF TakesSlot, SlotsAreSpaced, Governor
<1>4. CASE TimePasses
  BY <1>0, <1>4 DEF TimePasses, SlotsAreSpaced, Governor, Sooner
<1>5. CASE Rests
  BY <1>0, <1>5 DEF Rests, SlotsAreSpaced
<1> QED
  BY <1>1, <1>2, <1>3, <1>4, <1>5, GovernorSteps

\* Two requests never start nearer to each other than the interval, for any number
\* of threads, whatever cooldowns open and close between them (rate_limit.py).
THEOREM Spacing == Spec => []SlotsAreSpaced
<1>1. Init => SlotsAreSpaced
  BY DEF Init, SlotsAreSpaced
<1> QED
  BY <1>1, SpacedStep, TypeCorrect, PTL DEF Spec

\* Until a success no deadline is forgotten.
LEMMA PromiseStep == TypeOK /\ PromiseIsKept /\ [Next]_vars => PromiseIsKept'
<1> SUFFICES ASSUME TypeOK, PromiseIsKept, [Next]_vars PROVE PromiseIsKept'
  OBVIOUS
<1>0. /\ governor \in Governor /\ governor.next \in Nat /\ governor.blocked \in Nat
      /\ promise \in Nat /\ MinInterval \in Nat
      /\ governor.blocked >= promise
      /\ promise > 0 => governor.next >= promise + MinInterval
  BY ConstantsAssumption DEF TypeOK, Governor, PromiseIsKept
<1>1. CASE Serves
  <2>1. governor'.blocked = 0 /\ promise' = 0
    BY <1>0, <1>1 DEF Serves, RecordSuccess, Governor
  <2> QED
    BY <2>1 DEF PromiseIsKept
<1>2. CASE Strikes
  <2>1. PICK delay \in Nat : StrikesFor(delay)
    BY <1>2, StrikeTimes
  <2>2. PICK until \in Nat : /\ until = Later(governor.blocked, delay)
                             /\ until >= delay /\ until >= governor.blocked
    BY <1>0 DEF Later
  <2>3. /\ governor'.blocked = until
        /\ governor'.next = Later(governor.next, until + MinInterval)
        /\ promise' = Later(promise, delay)
    BY <2>1, <2>2 DEF StrikesFor
  <2> QED
    BY <1>0, <2>2, <2>3 DEF Later, PromiseIsKept
<1>3. CASE TakesSlot
  BY <1>0, <1>3 DEF TakesSlot, Blocked, PromiseIsKept, Governor
<1>4. CASE TimePasses
  <2>1. /\ governor'.next = Sooner(governor.next)
        /\ governor'.blocked = Sooner(governor.blocked) /\ promise' = Sooner(promise)
    BY <1>0, <1>4 DEF TimePasses, Governor
  <2> QED
    BY <1>0, <2>1 DEF PromiseIsKept, Sooner
<1>5. CASE Rests
  BY <1>0, <1>5 DEF Rests, PromiseIsKept
<1> QED
  BY <1>1, <1>2, <1>3, <1>4, <1>5, GovernorSteps

\* Until a request succeeds the latest deadline any failure ever set stands, and
\* no slot lies before it, whatever failures come after it and in whatever order
\* (rate_limit.py, _open_cooldown).
THEOREM Promises == Spec => []PromiseIsKept
<1>1. Init => PromiseIsKept
  BY ConstantsAssumption DEF Init, PromiseIsKept
<1> QED
  BY <1>1, PromiseStep, TypeCorrect, PTL DEF Spec

LEMMA BoundedStep == TypeOK /\ CooldownIsBounded /\ [Next]_vars => CooldownIsBounded'
<1> SUFFICES ASSUME TypeOK, CooldownIsBounded, [Next]_vars PROVE CooldownIsBounded'
  OBVIOUS
<1>0. /\ governor \in Governor /\ governor.blocked \in Nat
      /\ RetryAfters \subseteq Nat /\ BackoffMax \in Nat /\ TransientMax \in Nat
  BY ConstantsAssumption DEF TypeOK, Governor
<1>a. PICK longest \in RetryAfters \cup {BackoffMax, TransientMax} : governor.blocked <= longest
  BY DEF CooldownIsBounded
<1>1. CASE Serves
  <2>1. governor'.blocked = 0 /\ governor'.limits = 0
    BY <1>0, <1>1 DEF Serves, RecordSuccess, Governor
  <2> QED
    BY <1>0, <2>1 DEF CooldownIsBounded
<1>2. CASE Strikes
  <2>1. PICK delay \in Nat : StrikesFor(delay)
    BY <1>2, StrikeTimes
  <2>2. PICK other \in RetryAfters \cup {BackoffMax, TransientMax} : delay <= other
    BY <2>1 DEF StrikesFor
  <2>3. governor'.blocked <= longest \/ governor'.blocked <= other
    BY <1>0, <1>a, <2>1, <2>2 DEF StrikesFor, Later
  <2> QED
    BY <2>1, <2>3 DEF StrikesFor, CooldownIsBounded
<1>3. CASE TakesSlot
  BY <1>0, <1>3 DEF TakesSlot, CooldownIsBounded, Governor
<1>4. CASE TimePasses
  <2>1. governor'.blocked = Sooner(governor.blocked)
    BY <1>0, <1>4 DEF TimePasses, Governor
  <2>2. governor'.limits = governor.limits /\ governor'.transients = governor.transients
    BY <1>0, <1>4 DEF TimePasses, Governor
  <2>3. governor'.blocked <= longest
    BY <1>0, <1>a, <2>1 DEF Sooner
  <2> QED
    BY <2>2, <2>3 DEF CooldownIsBounded
<1>5. CASE Rests
  BY <1>5 DEF Rests, CooldownIsBounded
<1> QED
  BY <1>1, <1>2, <1>3, <1>4, <1>5, GovernorSteps

\* Strikes that alternate between the two kinds of failures never add up: the wait
\* is at most one backoff's maximum or one Retry-After (rate_limit.py).
THEOREM Cooldowns == Spec => []CooldownIsBounded
<1>1. Init => CooldownIsBounded
  BY ConstantsAssumption DEF Init, CooldownIsBounded
<1> QED
  BY <1>1, BoundedStep, TypeCorrect, PTL DEF Spec

-----------------------------------------------------------------------------
(* Induction along a sequence *)

\* What holds at 0 and of the next number holds up to n.
LEMMA Inductive ==
  ASSUME NEW n \in Nat, NEW T, 0 \in T, \A i \in 1 .. n : i - 1 \in T => i \in T
  PROVE  \A i \in 0 .. n : i \in T
<1> DEFINE R == OpToRel(<, Nat)
           Out == {i \in 0 .. n : i \notin T}
<1>1. IsWellFoundedOn(R, Nat)
  BY NatLessThanWellFounded
<1>2. \A i, j \in Out : i < j => <<i, j>> \in R
  BY DEF OpToRel
<1>3. Out \subseteq Nat
  OBVIOUS
<1> HIDE DEF R
<1>4. SUFFICES ASSUME Out # {} PROVE FALSE
  OBVIOUS
<1>5. PICK m \in Out : \A i \in Out : ~(<<i, m>> \in R)
  <2> HIDE DEF Out
  <2> QED
    BY <1>1, <1>3, <1>4, WFMin
<1>6. m \in 1 .. n /\ m - 1 \in 0 .. n /\ m - 1 < m
  OBVIOUS
<1>7. m - 1 \notin Out
  BY <1>2, <1>5, <1>6
<1> QED
  BY <1>6, <1>7

\* Steps taken one after the other.
Runs(run, first, step, m) == run[0] = first /\ \A i \in 1 .. m : run[i] = step[i][run[i - 1]]

\* Steps taken so far go on by one more.
LEMMA RunGoesOn ==
  ASSUME NEW n \in Nat, NEW X, NEW first \in X, NEW step \in [1 .. n -> [X -> X]],
         NEW m \in 1 .. n, NEW run \in [0 .. m - 1 -> X], Runs(run, first, step, m - 1)
  PROVE  \E more \in [0 .. m -> X] : Runs(more, first, step, m)
<1> DEFINE more == [i \in 0 .. m |-> IF i = m THEN step[m][run[m - 1]] ELSE run[i]]
<1>1. more \in [0 .. m -> X]
  <2>1. step[m] \in [X -> X] /\ run[m - 1] \in X
    OBVIOUS
  <2> QED
    BY <2>1
<1>2. more[0] = first
  BY DEF Runs
<1>3. \A i \in 1 .. m : more[i] = step[i][more[i - 1]]
  BY DEF Runs
<1> QED
  <2> HIDE DEF more
  <2> QED
    BY <1>1, <1>2, <1>3 DEF Runs

\* Every step can be taken.
LEMMA Run ==
  ASSUME NEW n \in Nat, NEW X, NEW first \in X, NEW step \in [1 .. n -> [X -> X]]
  PROVE  \E run \in [0 .. n -> X] : Runs(run, first, step, n)
<1> DEFINE T == {m \in 0 .. n : \E run \in [0 .. m -> X] : Runs(run, first, step, m)}
<1>1. 0 \in T
  <2>1. PICK run : run = [i \in 0 .. 0 |-> first]
    OBVIOUS
  <2>2. run \in [0 .. 0 -> X] /\ Runs(run, first, step, 0)
    BY <2>1 DEF Runs
  <2> QED
    BY <2>2
<1>2. ASSUME NEW m \in 1 .. n, m - 1 \in T PROVE m \in T
  <2>1. PICK run \in [0 .. m - 1 -> X] : Runs(run, first, step, m - 1)
    BY <1>2
  <2>2. PICK more \in [0 .. m -> X] : Runs(more, first, step, m)
    BY <2>1, RunGoesOn
  <2> QED
    BY <2>2
<1>3. \A m \in 0 .. n : m \in T
  <2> HIDE DEF T
  <2> QED
    BY <1>1, <1>2, Inductive
<1> QED
  BY <1>3

-----------------------------------------------------------------------------
(* Sequences *)

\* A function on 1 .. n is a sequence.
LEMMA Arrow ==
  ASSUME NEW S, NEW n \in Nat, NEW f \in [1 .. n -> S]
  PROVE  f \in Seq(S) /\ Len(f) = n /\ DOMAIN f = 1 .. n
<1>1. f \in Seq(S)
  BY ST!SeqDef
<1> QED
  BY <1>1, ST!LenProperties

\* A sequence is a function on 1 .. Len(s).
LEMMA SeqIsArrow ==
  ASSUME NEW S, NEW s \in Seq(S)
  PROVE  Len(s) \in Nat /\ s \in [1 .. Len(s) -> S] /\ DOMAIN s = 1 .. Len(s)
  BY ST!LenProperties

\* The maximum of numbers up to n of which n is one.
LEMMA Max1 ==
  ASSUME NEW n \in Nat \ {0}, NEW T \in SUBSET (1 .. n), n \in T
  PROVE  Max(T) = n
<1>1. \A m \in T : n >= m
  OBVIOUS
<1>2. \A m \in T : (\A k \in T : m >= k) => m = n
  OBVIOUS
<1> QED
  BY <1>1, <1>2 DEF Max

\* FlattenSeq: what is there so far with the next sequence after it.
Flattens(run, ss) ==
  run[0] = <<>> /\ \A i \in 1 .. Len(ss) : run[i] = run[i - 1] \o ss[i]

\* There are such stages, and they are sequences.
LEMMA Flattening ==
  ASSUME NEW S, NEW ss \in Seq(Seq(S))
  PROVE  \E run \in [0 .. Len(ss) -> Seq(S)] : Flattens(run, ss)
<1>1. Len(ss) \in Nat /\ \A i \in 1 .. Len(ss) : ss[i] \in Seq(S)
  BY SeqIsArrow
<1>2. PICK step : step = [i \in 1 .. Len(ss) |-> [x \in Seq(S) |-> x \o ss[i]]]
  OBVIOUS
<1>3. step \in [1 .. Len(ss) -> [Seq(S) -> Seq(S)]]
  BY <1>1, <1>2, ST!ConcatProperties
<1>4. <<>> \in Seq(S)
  OBVIOUS
<1>5. PICK run \in [0 .. Len(ss) -> Seq(S)] : Runs(run, <<>>, step, Len(ss))
  BY <1>1, <1>3, <1>4, Run
<1>6. ASSUME NEW i \in 1 .. Len(ss) PROVE run[i] = run[i - 1] \o ss[i]
  <2>1. run[i - 1] \in Seq(S)
    <3>1. i - 1 \in 0 .. Len(ss)
      BY <1>1
    <3> QED
      BY <3>1
  <2> QED
    BY <1>2, <1>5, <2>1 DEF Runs
<1> QED
  BY <1>5, <1>6 DEF Flattens, Runs

\* The function FlattenSeq is defined by.
IsFlat(g, ss) ==
  g = [i \in 1 .. Len(ss) |-> IF i = 1 THEN ss[i] ELSE g[i - 1] \o ss[i]]

\* FlattenSeq ends where they end.
LEMMA Flattened ==
  ASSUME NEW S, NEW ss \in Seq(Seq(S)), NEW run \in [0 .. Len(ss) -> Seq(S)], Flattens(run, ss)
  PROVE  FlattenSeq(ss) = run[Len(ss)] /\ FlattenSeq(ss) \in Seq(S)
<1>1. Len(ss) \in Nat /\ \A i \in 1 .. Len(ss) : ss[i] \in Seq(S)
  BY SeqIsArrow
<1>2. CASE Len(ss) = 0
  <2>1. ss = <<>>
    BY <1>2
  <2> QED
    BY <1>2, <2>1 DEF FlattenSeq, Flattens
<1>3. CASE Len(ss) # 0
  <2>1. PICK f : f = [i \in 1 .. Len(ss) |-> run[i]]
    OBVIOUS
  <2>2. IsFlat(f, ss)
    <3>1. ASSUME NEW i \in 1 .. Len(ss)
          PROVE  f[i] = IF i = 1 THEN ss[i] ELSE f[i - 1] \o ss[i]
      <4>1. CASE i = 1
        <5>1. <<>> \o ss[1] = ss[1]
          BY <1>1, <4>1, ST!ConcatEmptySeq
        <5>2. run[i] = run[i - 1] \o ss[i] /\ run[0] = <<>>
          BY DEF Flattens
        <5>3. i - 1 = 0
          BY <4>1
        <5> QED
          BY <2>1, <4>1, <5>1, <5>2, <5>3
      <4>2. CASE i # 1
        <5>1. i - 1 \in 1 .. Len(ss)
          BY <4>2, <1>1
        <5> QED
          BY <2>1, <4>2, <5>1 DEF Flattens
      <4> QED
        BY <4>1, <4>2
    <3> QED
      BY <2>1, <3>1 DEF IsFlat
  <2>3. PICK flat : IsFlat(flat, ss) /\ FlattenSeq(ss) = flat[Len(ss)]
    <3>1. FlattenSeq(ss) = (CHOOSE g : IsFlat(g, ss))[Len(ss)]
      BY <1>3 DEF FlattenSeq, IsFlat
    <3> QED
      BY <2>2, <3>1
  <2>4. \A i \in 1 .. Len(ss) : flat[i] = IF i = 1 THEN ss[i] ELSE flat[i - 1] \o ss[i]
    BY <2>3 DEF IsFlat
  <2>5. \A i \in 1 .. Len(ss) : f[i] = IF i = 1 THEN ss[i] ELSE f[i - 1] \o ss[i]
    BY <2>2 DEF IsFlat
  <2> DEFINE T == {i \in 0 .. Len(ss) : i > 0 => flat[i] = f[i]}
  <2>6. 0 \in T /\ \A i \in 1 .. Len(ss) : i - 1 \in T => i \in T
    BY <1>1, <2>4, <2>5
  <2>7. \A i \in 0 .. Len(ss) : i \in T
    <3> HIDE DEF T
    <3> QED
      BY <1>1, <2>6, Inductive
  <2>8. flat[Len(ss)] = f[Len(ss)]
    <3>1. Len(ss) \in 0 .. Len(ss) /\ Len(ss) > 0
      BY <1>1, <1>3
    <3> QED
      BY <2>7, <3>1
  <2>9. Len(ss) \in 1 .. Len(ss) /\ Len(ss) \in 0 .. Len(ss)
    BY <1>1, <1>3
  <2> QED
    BY <2>1, <2>3, <2>8, <2>9
<1> QED
  BY <1>2, <1>3

\* What sequences of S are flattened to is one.
LEMMA FlattenType ==
  ASSUME NEW S, NEW ss \in Seq(Seq(S))
  PROVE  FlattenSeq(ss) \in Seq(S)
  BY Flattening, Flattened

\* The sequences F has for the elements of s, one after the other.
FlatMap(s, F) == FlattenSeq([i \in DOMAIN s |-> F[s[i]]])

\* F is a function to sequences.
Lists(F, S, U) == F \in [S -> Seq(U)]

\* What FlatMap has made of the first elements.
Maps(run, s, F, U) ==
  /\ run \in [0 .. Len(s) -> Seq(U)]
  /\ run[0] = <<>> /\ \A i \in 1 .. Len(s) : run[i] = run[i - 1] \o F[s[i]]

\* What FlatMap flattens.
Mapped(ss, s, F, U) ==
  /\ ss \in Seq(Seq(U)) /\ Len(ss) = Len(s) /\ FlatMap(s, F) = FlattenSeq(ss)
  /\ \A i \in 1 .. Len(s) : ss[i] = F[s[i]]

\* It is a sequence of sequences.
LEMMA MapArrow ==
  ASSUME NEW S, NEW U, NEW s \in Seq(S), NEW F, Lists(F, S, U)
  PROVE  \E ss : Mapped(ss, s, F, U)
<1>1. PICK ss : ss = [i \in DOMAIN s |-> F[s[i]]]
  OBVIOUS
<1>2. Len(s) \in Nat /\ s \in [1 .. Len(s) -> S] /\ DOMAIN s = 1 .. Len(s)
  BY SeqIsArrow
<1>3. ss \in [1 .. Len(s) -> Seq(U)] /\ \A i \in 1 .. Len(s) : ss[i] = F[s[i]]
  BY <1>1, <1>2 DEF Lists
<1>4. ss \in Seq(Seq(U)) /\ Len(ss) = Len(s)
  BY <1>2, <1>3, Arrow
<1> QED
  BY <1>1, <1>3, <1>4 DEF FlatMap, Mapped

\* FlatMap ends where its stages end.
LEMMA MapEnds ==
  ASSUME NEW S, NEW U, NEW s \in Seq(S), NEW F, Lists(F, S, U),
         NEW run, Maps(run, s, F, U)
  PROVE  FlatMap(s, F) = run[Len(s)]
<1>1. PICK ss : Mapped(ss, s, F, U)
  BY MapArrow
<1>2. Flattens(run, ss) /\ run \in [0 .. Len(ss) -> Seq(U)] /\ ss \in Seq(Seq(U))
  BY <1>1 DEF Flattens, Maps, Mapped
<1>3. FlattenSeq(ss) = run[Len(ss)]
  BY <1>2, Flattened
<1> QED
  BY <1>1, <1>3 DEF Mapped

\* It has stages.
LEMMA Mapping ==
  ASSUME NEW S, NEW U, NEW s \in Seq(S), NEW F, Lists(F, S, U)
  PROVE  \E run : Maps(run, s, F, U)
<1>1. PICK ss : Mapped(ss, s, F, U)
  BY MapArrow
<1>2. ss \in Seq(Seq(U))
  BY <1>1 DEF Mapped
<1>3. PICK run \in [0 .. Len(ss) -> Seq(U)] : Flattens(run, ss)
  BY <1>2, Flattening
<1>4. Maps(run, s, F, U)
  BY <1>1, <1>3 DEF Flattens, Maps, Mapped
<1> QED
  BY <1>4

\* It is a sequence.
LEMMA MapType ==
  ASSUME NEW S, NEW U, NEW s \in Seq(S), NEW F, Lists(F, S, U)
  PROVE  FlatMap(s, F) \in Seq(U)
<1>1. PICK ss : Mapped(ss, s, F, U)
  BY MapArrow
<1> QED
  BY <1>1, FlattenType DEF Mapped

\* Of nothing there is nothing.
LEMMA MapNothing ==
  ASSUME NEW F
  PROVE  FlatMap(<<>>, F) = <<>>
<1>1. [i \in DOMAIN <<>> |-> F[<<>>[i]]] = <<>>
  OBVIOUS
<1> QED
  BY <1>1 DEF FlatMap, FlattenSeq

\* Of one element there is what F has for it.
LEMMA MapOne ==
  ASSUME NEW S, NEW U, NEW x \in S, NEW F, Lists(F, S, U)
  PROVE  FlatMap(<<x>>, F) = F[x]
<1>0. <<x>> \in Seq(S) /\ Len(<<x>>) = 1 /\ <<x>>[1] = x
  OBVIOUS
<1>1. PICK s \in Seq(S) : s = <<x>> /\ Len(s) = 1 /\ s[1] = x
  BY <1>0
<1>2. F[x] \in Seq(U) /\ <<>> \in Seq(U)
  BY DEF Lists
<1>3. PICK run : run = [i \in 0 .. 1 |-> IF i = 0 THEN <<>> ELSE F[x]]
  OBVIOUS
<1>4. run \in [0 .. Len(s) -> Seq(U)]
  BY <1>1, <1>2, <1>3
<1>5. <<>> \o F[x] = F[x]
  BY <1>2, ST!ConcatEmptySeq
<1>6. run[0] = <<>> /\ run[1] = F[x]
  BY <1>3
<1>7. Maps(run, s, F, U)
  <2>1. ASSUME NEW i \in 1 .. Len(s) PROVE run[i] = run[i - 1] \o F[s[i]]
    <3>1. i = 1 /\ i - 1 = 0
      BY <1>1
    <3> QED
      BY <1>1, <1>5, <1>6, <3>1
  <2> QED
    BY <1>4, <1>6, <2>1 DEF Maps
<1>8. FlatMap(s, F) = run[Len(s)]
  BY <1>7, MapEnds
<1> QED
  BY <1>1, <1>6, <1>8

\* One sequence after the other.
Joined(st, s, t) == st = s \o t

\* Of one sequence after the other there is what there is of each.
LEMMA MapConcat ==
  ASSUME NEW S, NEW U, NEW s \in Seq(S), NEW t \in Seq(S), NEW F, Lists(F, S, U),
         NEW st, Joined(st, s, t)
  PROVE  Joined(FlatMap(st, F), FlatMap(s, F), FlatMap(t, F))
<1>a. PICK f : Maps(f, s, F, U)
  BY Mapping
<1>b. PICK g : Maps(g, t, F, U)
  BY Mapping
<1>c. FlatMap(s, F) = f[Len(s)] /\ FlatMap(t, F) = g[Len(t)]
  BY <1>a, <1>b, MapEnds
<1>1. f \in [0 .. Len(s) -> Seq(U)] /\ Maps(f, s, F, U)
  BY <1>a DEF Maps
<1>2. g \in [0 .. Len(t) -> Seq(U)] /\ Maps(g, t, F, U)
  BY <1>b DEF Maps
<1>0. st = s \o t
  BY DEF Joined
<1>3. /\ Len(s) \in Nat /\ Len(t) \in Nat /\ st \in Seq(S)
      /\ Len(st) = Len(s) + Len(t)
      /\ \A i \in 1 .. Len(s) : st[i] = s[i]
      /\ \A i \in 1 .. Len(t) : st[Len(s) + i] = t[i]
  <2>1. Len(s) \in Nat /\ Len(t) \in Nat
    BY SeqIsArrow
  <2> QED
    BY <1>0, <2>1, ST!ConcatProperties
<1>4. PICK h : h = [i \in 0 .. Len(st) |->
                     IF i <= Len(s) THEN f[i] ELSE f[Len(s)] \o g[i - Len(s)]]
  OBVIOUS
<1>5. ASSUME NEW i \in 0 .. Len(st)
      PROVE  \/ i <= Len(s) /\ i \in 0 .. Len(s)
             \/ i > Len(s) /\ i - Len(s) \in 1 .. Len(t)
  BY <1>3
<1>6. \A u, v \in Seq(U) : u \o v \in Seq(U)
  BY ST!ConcatProperties
<1>7. h \in [0 .. Len(st) -> Seq(U)]
  <2>1. ASSUME NEW i \in 0 .. Len(st) PROVE h[i] \in Seq(U)
    <3>1. Len(s) \in 0 .. Len(s)
      BY <1>3
    <3>2. CASE i <= Len(s) /\ i \in 0 .. Len(s)
      BY <1>1, <1>2, <1>4, <3>2
    <3>3. CASE i > Len(s) /\ i - Len(s) \in 1 .. Len(t)
      <4>1. i - Len(s) \in 0 .. Len(t) /\ ~(i <= Len(s))
        BY <1>3, <3>3
      <4>2. f[Len(s)] \in Seq(U) /\ g[i - Len(s)] \in Seq(U)
        BY <1>1, <1>2, <3>1, <4>1
      <4> QED
        BY <1>4, <1>6, <4>1, <4>2
    <3> QED
      BY <1>5, <3>2, <3>3
  <2> QED
    BY <1>4, <2>1
<1>8. ASSUME NEW i \in 1 .. Len(st) PROVE h[i] = h[i - 1] \o F[st[i]]
  <2>0. i \in 0 .. Len(st) /\ i - 1 \in 0 .. Len(st)
    BY <1>3
  <2>1. CASE i <= Len(s)
    <3>1. i \in 1 .. Len(s) /\ i - 1 <= Len(s)
      BY <1>3, <2>1
    <3>2. f[i] = f[i - 1] \o F[s[i]]
      BY <1>1, <3>1 DEF Maps
    <3>3. h[i] = f[i] /\ h[i - 1] = f[i - 1]
      BY <1>4, <2>0, <3>1
    <3> QED
      BY <1>3, <3>1, <3>2, <3>3
  <2>2. CASE i > Len(s)
    <3> DEFINE j == i - Len(s)
    <3>1. j \in 1 .. Len(t) /\ i = Len(s) + j /\ ~(i <= Len(s))
      BY <1>3, <2>2
    <3>2. g[j] = g[j - 1] \o F[t[j]]
      BY <1>2, <3>1 DEF Maps
    <3>3. h[i] = f[Len(s)] \o g[j]
      BY <1>4, <2>0, <3>1
    <3>4. st[i] = t[j]
      BY <1>3, <3>1
    <3>5. /\ f[Len(s)] \in Seq(U) /\ g[j - 1] \in Seq(U) /\ F[t[j]] \in Seq(U)
      <4>1. Len(s) \in 0 .. Len(s) /\ j - 1 \in 0 .. Len(t) /\ t[j] \in S
        BY <1>3, <3>1, SeqIsArrow
      <4> QED
        BY <1>1, <1>2, <4>1 DEF Lists
    <3>6. h[i - 1] = f[Len(s)] \o g[j - 1]
      <4>1. CASE j = 1
        <5>1. i - 1 = Len(s) /\ j - 1 = 0
          BY <1>3, <3>1, <4>1
        <5>2. h[i - 1] = f[Len(s)]
          BY <1>3, <1>4, <2>0, <5>1
        <5>3. g[j - 1] = <<>>
          BY <1>2, <5>1 DEF Maps
        <5> QED
          BY <3>5, <5>2, <5>3, ST!ConcatEmptySeq
      <4>2. CASE j # 1
        <5>0. j \in Int /\ j > 1
          BY <1>3, <3>1, <4>2
        <5>1. ~(i - 1 <= Len(s)) /\ (i - 1) - Len(s) = j - 1
          <6> HIDE DEF j
          <6> QED
            BY <1>3, <3>1, <5>0
        <5> QED
          BY <1>4, <2>0, <5>1
      <4> QED
        BY <4>1, <4>2
    <3>7. (f[Len(s)] \o g[j - 1]) \o F[t[j]] = f[Len(s)] \o (g[j - 1] \o F[t[j]])
      <4>1. \A u, v, w \in Seq(U) : (u \o v) \o w = u \o (v \o w)
        BY ST!ConcatAssociative
      <4> QED
        BY <3>5, <4>1
    <3> QED
      BY <3>2, <3>3, <3>4, <3>6, <3>7
  <2>3. i <= Len(s) \/ i > Len(s)
    BY <1>3
  <2> QED
    BY <2>1, <2>2, <2>3
<1>9. h[0] = <<>>
  <2>1. 0 \in 0 .. Len(st) /\ 0 <= Len(s)
    BY <1>3
  <2> QED
    BY <1>1, <1>4, <2>1 DEF Maps
<1>10. FlatMap(st, F) = h[Len(st)]
  <2>1. Maps(h, st, F, U)
    BY <1>7, <1>8, <1>9 DEF Maps
  <2>2. st \in Seq(S)
    BY <1>3
  <2> QED
    BY <2>1, <2>2, MapEnds
<1>11. h[Len(s) + Len(t)] = f[Len(s)] \o g[Len(t)]
  <2>0. Len(s) + Len(t) \in 0 .. Len(st)
    BY <1>3
  <2>1. CASE Len(t) = 0
    <3>1. g[Len(t)] = <<>>
      BY <1>2, <2>1 DEF Maps
    <3>2. f[Len(s)] \in Seq(U)
      <4>1. Len(s) \in 0 .. Len(s)
        BY <1>3
      <4> QED
        BY <1>1, <1>2, <4>1
    <3>3. Len(s) + Len(t) = Len(s)
      BY <1>3, <2>1
    <3>4. h[Len(s) + Len(t)] = f[Len(s)]
      BY <1>3, <1>4, <2>0, <3>3
    <3>5. f[Len(s)] \o <<>> = f[Len(s)]
      BY <3>2, ST!ConcatEmptySeq
    <3> QED
      BY <3>1, <3>4, <3>5
  <2>2. CASE Len(t) # 0
    <3>1. ~(Len(s) + Len(t) <= Len(s)) /\ (Len(s) + Len(t)) - Len(s) = Len(t)
      BY <1>3, <2>2
    <3> QED
      BY <1>4, <2>0, <3>1
  <2> QED
    BY <2>1, <2>2
<1> QED
  BY <1>c, <1>3, <1>10, <1>11 DEF Joined

\* F has for every element of s the one of t.
Singles(F, s, t) == Len(t) = Len(s) /\ \A i \in 1 .. Len(s) : F[s[i]] = <<t[i]>>

\* Then FlatMap is t.
LEMMA MapEach ==
  ASSUME NEW S, NEW U, NEW s \in Seq(S), NEW F, Lists(F, S, U),
         NEW t \in Seq(U), Singles(F, s, t)
  PROVE  FlatMap(s, F) = t
<1>0. Len(t) = Len(s) /\ \A i \in 1 .. Len(s) : F[s[i]] = <<t[i]>>
  BY DEF Singles
<1>1. Len(t) \in Nat /\ Len(t) = Len(s)
  BY <1>0, SeqIsArrow
<1>2. PICK run : run = [i \in 0 .. Len(s) |-> SubSeq(t, 1, i)]
  OBVIOUS
<1>3. ASSUME NEW i \in 0 .. Len(s) PROVE SubSeq(t, 1, i) \in Seq(U)
  <2>1. \A j \in 1 .. i : t[j] \in U
    BY <1>1, SeqIsArrow
  <2> QED
    BY <1>1, <2>1, ST!SubSeqProperties
<1>4. SubSeq(t, 1, 0) = <<>>
  BY ST!SubSeqEmpty
<1>5. ASSUME NEW i \in 1 .. Len(s) PROVE SubSeq(t, 1, i) = SubSeq(t, 1, i - 1) \o F[s[i]]
  <2>1. 1 \in 1 .. Len(t) /\ i \in 1 .. Len(t)
    BY <1>1
  <2> QED
    BY <1>0, <2>1, ST!SubSeqRecursiveSecond
<1>6. ASSUME NEW i \in 1 .. Len(s) PROVE run[i] = run[i - 1] \o F[s[i]]
  <2>1. i \in 0 .. Len(s) /\ i - 1 \in 0 .. Len(s)
    BY <1>1
  <2>2. run[i] = SubSeq(t, 1, i) /\ run[i - 1] = SubSeq(t, 1, i - 1)
    BY <1>2, <2>1
  <2> QED
    BY <1>5, <2>2
<1>7. run[0] = <<>> /\ run[Len(s)] = SubSeq(t, 1, Len(t))
  BY <1>1, <1>2, <1>4
<1>8. Maps(run, s, F, U)
  BY <1>2, <1>3, <1>6, <1>7 DEF Maps
<1>9. FlatMap(s, F) = run[Len(s)]
  BY <1>8, MapEnds
<1>10. SubSeq(t, 1, Len(t)) = t
  BY ST!SubSeqFull
<1> QED
  BY <1>7, <1>9, <1>10

\* Where F has nothing for any element there is nothing.
LEMMA MapNone ==
  ASSUME NEW S, NEW U, NEW s \in Seq(S), NEW F, Lists(F, S, U),
         \A i \in 1 .. Len(s) : F[s[i]] = <<>>
  PROVE  FlatMap(s, F) = <<>>
<1>1. Len(s) \in Nat /\ <<>> \in Seq(U)
  BY SeqIsArrow
<1>2. PICK run : run = [i \in 0 .. Len(s) |-> <<>>]
  OBVIOUS
<1>3. <<>> \o <<>> = <<>>
  BY <1>1, ST!ConcatEmptySeq
<1>4. Maps(run, s, F, U)
  BY <1>1, <1>2, <1>3 DEF Maps
<1>5. FlatMap(s, F) = run[Len(s)]
  BY <1>4, MapEnds
<1> QED
  BY <1>1, <1>2, <1>5

\* H maps as F and G do, one after the other.
Joins(H, F, G, S) == H = [x \in S |-> FlatMap(F[x], G)]

\* Mapped twice is mapped once by both.
LEMMA MapTwice ==
  ASSUME NEW S, NEW U, NEW V, NEW s \in Seq(S), NEW F, Lists(F, S, U), NEW G, Lists(G, U, V),
         NEW H, Joins(H, F, G, S)
  PROVE  FlatMap(FlatMap(s, F), G) = FlatMap(s, H) /\ Lists(H, S, V)
<1>1. Len(s) \in Nat /\ \A i \in 1 .. Len(s) : s[i] \in S
  BY SeqIsArrow
<1>2. ASSUME NEW u \in Seq(U) PROVE FlatMap(u, G) \in Seq(V)
  BY <1>2, MapType
<1>3. Lists(H, S, V)
  BY <1>2 DEF Lists, Joins
<1>4. PICK f : Maps(f, s, F, U)
  BY Mapping
<1>5. /\ f \in [0 .. Len(s) -> Seq(U)] /\ f[0] = <<>>
      /\ \A i \in 1 .. Len(s) : f[i] = f[i - 1] \o F[s[i]]
  BY <1>4 DEF Maps
<1>6. PICK h : h = [i \in 0 .. Len(s) |-> FlatMap(f[i], G)]
  OBVIOUS
<1>7. h \in [0 .. Len(s) -> Seq(V)]
  BY <1>2, <1>5, <1>6
<1>8. h[0] = <<>>
  BY <1>1, <1>5, <1>6, MapNothing
<1>9. ASSUME NEW i \in 1 .. Len(s) PROVE h[i] = h[i - 1] \o H[s[i]]
  <2>1. i \in 0 .. Len(s) /\ i - 1 \in 0 .. Len(s)
    BY <1>1
  <2>2. f[i - 1] \in Seq(U) /\ F[s[i]] \in Seq(U) /\ s[i] \in S
    BY <1>1, <1>5, <2>1 DEF Lists
  <2>3. PICK a \in Seq(U), b \in Seq(U) : a = f[i - 1] /\ b = F[s[i]]
    BY <2>2
  <2>4. PICK c : c = f[i]
    OBVIOUS
  <2>5. Joined(c, a, b)
    BY <1>5, <2>3, <2>4 DEF Joined
  <2>6. h[i] = FlatMap(c, G)
    BY <1>6, <2>1, <2>4
  <2>7. h[i - 1] = FlatMap(a, G) /\ H[s[i]] = FlatMap(b, G)
    BY <1>6, <2>1, <2>2, <2>3 DEF Joins
  <2>8. Joined(FlatMap(c, G), FlatMap(a, G), FlatMap(b, G))
    BY <2>5, MapConcat
  <2> QED
    BY <2>6, <2>7, <2>8 DEF Joined
<1>10. Maps(h, s, H, V)
  BY <1>7, <1>8, <1>9 DEF Maps
<1>11. FlatMap(s, H) = h[Len(s)]
  BY <1>3, <1>10, MapEnds
<1>12. FlatMap(s, F) = f[Len(s)]
  BY <1>4, MapEnds
<1>13. h[Len(s)] = FlatMap(f[Len(s)], G)
  BY <1>1, <1>6
<1> QED
  BY <1>3, <1>11, <1>12, <1>13

\* What is there after FlatMap was there before.
Among(x, s) == \E i \in 1 .. Len(s) : s[i] = x

\* What is in one sequence after the other is in one of them.
LEMMA AmongConcat ==
  ASSUME NEW S, NEW s \in Seq(S), NEW t \in Seq(S), NEW x
  PROVE  Among(x, s \o t) <=> Among(x, s) \/ Among(x, t)
<1>1. PICK st : st = s \o t
  OBVIOUS
<1>2. /\ Len(s) \in Nat /\ Len(t) \in Nat /\ Len(st) = Len(s) + Len(t)
      /\ \A i \in 1 .. Len(s) + Len(t) : st[i] = IF i <= Len(s) THEN s[i] ELSE t[i - Len(s)]
  <2>1. Len(s) \in Nat /\ Len(t) \in Nat
    BY SeqIsArrow
  <2> QED
    BY <1>1, <2>1, ST!ConcatProperties
<1>3. ASSUME Among(x, st) PROVE Among(x, s) \/ Among(x, t)
  <2>1. PICK i \in 1 .. Len(st) : st[i] = x
    BY <1>3 DEF Among
  <2>2. CASE i <= Len(s)
    <3>1. i \in 1 .. Len(s) /\ s[i] = x
      BY <1>2, <2>1, <2>2
    <3> QED
      BY <3>1 DEF Among
  <2>3. CASE ~(i <= Len(s))
    <3>1. i - Len(s) \in 1 .. Len(t) /\ t[i - Len(s)] = x
      BY <1>2, <2>1, <2>3
    <3> QED
      BY <3>1 DEF Among
  <2> QED
    BY <2>2, <2>3
<1>4. ASSUME Among(x, s) PROVE Among(x, st)
  <2>1. PICK i \in 1 .. Len(s) : s[i] = x
    BY <1>4 DEF Among
  <2>2. i \in 1 .. Len(st) /\ st[i] = x
    BY <1>2, <2>1
  <2> QED
    BY <2>2 DEF Among
<1>5. ASSUME Among(x, t) PROVE Among(x, st)
  <2>1. PICK i \in 1 .. Len(t) : t[i] = x
    BY <1>5 DEF Among
  <2>2. PICK j : j = Len(s) + i
    OBVIOUS
  <2>3. j \in 1 .. Len(st) /\ ~(j <= Len(s)) /\ j - Len(s) = i
    BY <1>2, <2>2
  <2>4. st[j] = x
    BY <1>2, <2>1, <2>3
  <2> QED
    BY <2>3, <2>4 DEF Among
<1> QED
  BY <1>1, <1>3, <1>4, <1>5

\* What there is after FlatMap is what F has for some element.
LEMMA MapAmong ==
  ASSUME NEW S, NEW U, NEW s \in Seq(S), NEW F, Lists(F, S, U), NEW x, Among(x, FlatMap(s, F))
  PROVE  \E i \in 1 .. Len(s) : Among(x, F[s[i]])
<1>1. Len(s) \in Nat /\ \A i \in 1 .. Len(s) : s[i] \in S
  BY SeqIsArrow
<1>2. PICK f : Maps(f, s, F, U)
  BY Mapping
<1>3. /\ f \in [0 .. Len(s) -> Seq(U)] /\ f[0] = <<>>
      /\ \A i \in 1 .. Len(s) : f[i] = f[i - 1] \o F[s[i]]
  BY <1>2 DEF Maps
<1>4. FlatMap(s, F) = f[Len(s)]
  BY <1>2, MapEnds
<1> SUFFICES ASSUME \A i \in 1 .. Len(s) : ~Among(x, F[s[i]]) PROVE FALSE
  OBVIOUS
<1> DEFINE T == {i \in 0 .. Len(s) : ~Among(x, f[i])}
<1>5. 0 \in T
  BY <1>1, <1>3 DEF Among
<1>6. ASSUME NEW i \in 1 .. Len(s), i - 1 \in T PROVE i \in T
  <2>1. i \in 0 .. Len(s) /\ i - 1 \in 0 .. Len(s) /\ ~Among(x, f[i - 1])
    BY <1>1, <1>6
  <2>2. PICK a \in Seq(U), b \in Seq(U) : a = f[i - 1] /\ b = F[s[i]]
    BY <1>1, <1>3, <2>1 DEF Lists
  <2>3. ~Among(x, a \o b)
    BY <2>1, <2>2, AmongConcat
  <2>4. f[i] = a \o b
    BY <1>3, <2>2
  <2> QED
    BY <2>1, <2>3, <2>4
<1>7. \A i \in 0 .. Len(s) : i \in T
  <2> HIDE DEF T
  <2> QED
    BY <1>1, <1>5, <1>6, Inductive
<1> QED
  BY <1>1, <1>4, <1>7

-----------------------------------------------------------------------------
(* What clients and models say: names are sequences of parts P *)

ChatRoles == {"system", "user", "assistant", "tool"}

Items(P) ==
  [type : {"message"}, role : P]
  \cup [type : {"call"}, id : Nat, namespace : Seq(P), name : Seq(P), custom : BOOLEAN]
  \cup [type : {"output"}, id : Nat, success : P]
  \cup {Reasoning}

Shown(P) == [id : Nat, wire : Seq(P)]
Messages(P) == [role : ChatRoles, calls : Seq(Shown(P)), id : Nat]
Said(P) == [messages : Seq(Messages(P)), pending : Seq(Shown(P))]

\* The kinds of items, with their fields.
LEMMA ItemTypes ==
  ASSUME NEW P, NEW item \in Items(P)
  PROVE  /\ item.type \in {"message", "call", "output", "reasoning"}
         /\ item.type = "message" => item.role \in P
         /\ item.type = "output" => item.id \in Nat
         /\ item.type = "reasoning" => item = Reasoning
         /\ item.type = "call" =>
              /\ item.id \in Nat /\ item.namespace \in Seq(P) /\ item.name \in Seq(P)
              /\ ChatCall(item) \in Shown(P)
<1>1. CASE item \in [type : {"message"}, role : P]
  BY <1>1
<1>2. CASE item \in [type : {"call"}, id : Nat, namespace : Seq(P), name : Seq(P), custom : BOOLEAN]
  <2>1. WireName(item.namespace, item.name) \in Seq(P)
    BY <1>2, ST!ConcatProperties DEF WireName
  <2> QED
    BY <1>2, <2>1 DEF ChatCall, Shown
<1>3. CASE item \in [type : {"output"}, id : Nat, success : P]
  BY <1>3
<1>4. CASE item = Reasoning
  BY <1>4 DEF Reasoning
<1> QED
  BY <1>1, <1>2, <1>3, <1>4 DEF Items

\* What the loop says are messages.
LEMMA SaysType ==
  ASSUME NEW P
  PROVE  /\ \A role \in ChatRoles : Says(role) \in Messages(P)
         /\ \A role \in P : ChatRole(role) \in ChatRoles
         /\ \A id \in Nat : Tells(id) \in Messages(P)
         /\ \A calls \in Seq(Shown(P)) : Calls(calls) \in Messages(P)
<1>1. <<>> \in Seq(Shown(P))
  OBVIOUS
<1> QED
  BY <1>1 DEF Says, Tells, Calls, ChatRole, ChatRoles, Messages

\* So are the calls that wait.
LEMMA FlushedType ==
  ASSUME NEW P, NEW said \in Said(P)
  PROVE  Flushed(said) \in Seq(Messages(P))
<1>1. said.messages \in Seq(Messages(P)) /\ said.pending \in Seq(Shown(P))
  BY DEF Said
<1>2. Calls(said.pending) \in Messages(P)
  BY <1>1, SaysType
<1> QED
  BY <1>1, <1>2, ST!AppendProperties DEF Flushed

\* What the loop makes of an item that is no call.
LEMMA AfterOthers ==
  ASSUME NEW P, NEW said \in Said(P), NEW item \in Items(P)
  PROVE  /\ item.type = "call" =>
              After(said, item) = [messages |-> said.messages,
                                   pending |-> Append(said.pending, ChatCall(item))]
         /\ item.type = "output" =>
              After(said, item) = [messages |-> Append(Flushed(said), Tells(item.id)),
                                   pending |-> <<>>]
         /\ item.type = "message" =>
              After(said, item) = [messages |-> Append(Flushed(said), Says(ChatRole(item.role))),
                                   pending |-> <<>>]
         /\ item.type = "reasoning" =>
              After(said, item) = [messages |-> Flushed(said), pending |-> <<>>]
<1>1. [said EXCEPT !.pending = Append(@, ChatCall(item))]
        = [messages |-> said.messages, pending |-> Append(said.pending, ChatCall(item))]
  BY DEF Said
<1> QED
  BY <1>1 DEF After

\* One item keeps the types of the loop.
LEMMA AfterType ==
  ASSUME NEW P, NEW said \in Said(P), NEW item \in Items(P)
  PROVE  After(said, item) \in Said(P)
<1>1. said.messages \in Seq(Messages(P)) /\ said.pending \in Seq(Shown(P))
  BY DEF Said
<1>2. <<>> \in Seq(Shown(P)) /\ Flushed(said) \in Seq(Messages(P))
  BY FlushedType
<1>3. CASE item.type = "call"
  <2>1. Append(said.pending, ChatCall(item)) \in Seq(Shown(P))
    BY <1>1, <1>3, ItemTypes, ST!AppendProperties
  <2> QED
    BY <1>1, <1>3, <2>1, AfterOthers DEF Said
<1>a. ASSUME NEW m \in Seq(Messages(P)) PROVE [messages |-> m, pending |-> <<>>] \in Said(P)
  <2>1. PICK none \in Seq(Shown(P)) : none = <<>>
    BY <1>2
  <2>2. [messages |-> m, pending |-> none] \in Said(P)
    BY DEF Said
  <2> QED
    BY <2>1, <2>2
<1>4. CASE item.type = "output"
  <2>1. PICK m \in Seq(Messages(P)) : m = Append(Flushed(said), Tells(item.id))
    BY <1>2, <1>4, ItemTypes, SaysType, ST!AppendProperties
  <2>2. After(said, item) = [messages |-> m, pending |-> <<>>]
    BY <1>4, <2>1, AfterOthers
  <2> QED
    BY <1>a, <2>2
<1>5. CASE item.type = "message"
  <2>1. PICK m \in Seq(Messages(P)) : m = Append(Flushed(said), Says(ChatRole(item.role)))
    BY <1>2, <1>5, ItemTypes, SaysType, ST!AppendProperties
  <2>2. After(said, item) = [messages |-> m, pending |-> <<>>]
    BY <1>5, <2>1, AfterOthers
  <2> QED
    BY <1>a, <2>2
<1>6. CASE item.type = "reasoning"
  <2>1. PICK m \in Seq(Messages(P)) : m = Flushed(said)
    BY <1>2
  <2>2. After(said, item) = [messages |-> m, pending |-> <<>>]
    BY <1>6, <2>1, AfterOthers
  <2> QED
    BY <1>a, <2>2
<1> QED
  BY <1>3, <1>4, <1>5, <1>6, ItemTypes

-----------------------------------------------------------------------------
(* The loop over the items *)

\* The function FoldLeft is defined by, for the first n items.
IsIter(g, base, s, n) ==
  g = [T \in SUBSET (1 .. n) |->
        IF T = {} THEN base ELSE After(g[T \ {Max(T)}], s[Max(T)])]

\* Numbers up to n have a last one.
LEMMA HasLast ==
  ASSUME NEW n \in Nat, NEW T \in SUBSET (1 .. n), T # {}
  PROVE  \E m \in T : \A j \in T : m >= j
<1> DEFINE Up == {i \in 0 .. n : \E j \in T : i <= j}
<1>1. SUFFICES ASSUME \A m \in T : \E j \in T : ~(m >= j) PROVE FALSE
  OBVIOUS
<1>2. 0 \in Up
  <2>1. PICK j \in T : j \in 1 .. n
    OBVIOUS
  <2> QED
    BY <2>1
<1>3. ASSUME NEW i \in 1 .. n, i - 1 \in Up PROVE i \in Up
  <2>1. PICK j \in T : i - 1 <= j
    BY <1>3
  <2>2. PICK k \in T : ~(j >= k)
    BY <1>1
  <2>3. j \in 1 .. n /\ k \in 1 .. n
    OBVIOUS
  <2>4. i <= k
    BY <2>1, <2>2, <2>3
  <2> QED
    BY <2>4
<1>4. \A i \in 0 .. n : i \in Up
  <2> HIDE DEF Up
  <2> QED
    BY <1>2, <1>3, Inductive
<1>5. PICK j \in T : n <= j
  BY <1>4
<1>6. PICK k \in T : ~(j >= k)
  BY <1>1
<1>7. j \in 1 .. n /\ k \in 1 .. n
  OBVIOUS
<1> QED
  BY <1>5, <1>6, <1>7

\* Such a function for n - 1 items extends to n.
LEMMA IterGoesOn ==
  ASSUME NEW P, NEW s \in Seq(Items(P)), NEW base \in Said(P), NEW n \in 1 .. Len(s),
         NEW g \in [SUBSET (1 .. n - 1) -> Said(P)], IsIter(g, base, s, n - 1)
  PROVE  \E h \in [SUBSET (1 .. n) -> Said(P)] : IsIter(h, base, s, n)
<1>0. n \in Nat \ {0} /\ s[n] \in Items(P)
  BY SeqIsArrow
<1>1. PICK h : h = [T \in SUBSET (1 .. n) |->
                     IF n \in T THEN After(g[T \ {n}], s[n]) ELSE g[T]]
  OBVIOUS
<1>2. \A T \in SUBSET (1 .. n) : T \ {n} \in SUBSET (1 .. n - 1) /\ (n \notin T => T \in SUBSET (1 .. n - 1))
  BY <1>0
<1>3. h \in [SUBSET (1 .. n) -> Said(P)]
  <2>1. ASSUME NEW T \in SUBSET (1 .. n), n \in T PROVE h[T] \in Said(P)
    <3>1. PICK said \in Said(P) : said = g[T \ {n}]
      BY <1>2
    <3> QED
      BY <1>0, <1>1, <2>1, <3>1, AfterType
  <2>2. ASSUME NEW T \in SUBSET (1 .. n), n \notin T PROVE h[T] \in Said(P)
    BY <1>1, <1>2, <2>2
  <2> QED
    BY <1>1, <2>1, <2>2
<1>4. ASSUME NEW T \in SUBSET (1 .. n), T # {}
      PROVE  h[T] = After(h[T \ {Max(T)}], s[Max(T)])
  <2>1. CASE n \in T
    <3>1. Max(T) = n
      BY <1>0, <2>1, Max1
    <3>2. h[T \ {n}] = g[T \ {n}]
      BY <1>1, <1>2
    <3>3. h[T] = After(g[T \ {n}], s[n])
      BY <1>1, <2>1
    <3> QED
      BY <3>1, <3>2, <3>3
  <2>2. CASE n \notin T
    <3>1. PICK m : m = Max(T)
      OBVIOUS
    <3>2. PICK R : R = T \ {m}
      OBVIOUS
    <3>3. T \in SUBSET (1 .. n - 1) /\ R \in SUBSET (1 .. n - 1) /\ n \notin R /\ R \in SUBSET (1 .. n)
      BY <1>2, <2>2, <3>2
    <3>4. g[T] = After(g[R], s[m])
      BY <1>4, <3>1, <3>2, <3>3 DEF IsIter
    <3>5. h[T] = g[T] /\ h[R] = g[R]
      BY <1>1, <2>2, <3>3
    <3> QED
      BY <3>1, <3>2, <3>4, <3>5
  <2> QED
    BY <2>1, <2>2
<1>5. h[{}] = base
  <2>1. {} \in SUBSET (1 .. n) /\ {} \in SUBSET (1 .. n - 1) /\ n \notin {}
    OBVIOUS
  <2>2. h[{}] = g[{}]
    BY <1>1, <2>1
  <2> QED
    BY <2>1, <2>2 DEF IsIter
<1>6. IsIter(h, base, s, n)
  BY <1>3, <1>4, <1>5 DEF IsIter
<1> QED
  BY <1>3, <1>6

\* There is one for all items.
LEMMA IterExists ==
  ASSUME NEW P, NEW s \in Seq(Items(P)), NEW base \in Said(P)
  PROVE  \E g \in [SUBSET (1 .. Len(s)) -> Said(P)] : IsIter(g, base, s, Len(s))
<1> DEFINE T == {n \in 0 .. Len(s) : \E g \in [SUBSET (1 .. n) -> Said(P)] : IsIter(g, base, s, n)}
<1>0. Len(s) \in Nat
  BY SeqIsArrow
<1>1. 0 \in T
  <2>1. PICK g : g = [R \in SUBSET (1 .. 0) |-> base]
    OBVIOUS
  <2>2. 1 .. 0 = {} /\ \A R \in SUBSET (1 .. 0) : R = {}
    OBVIOUS
  <2>3. g \in [SUBSET (1 .. 0) -> Said(P)]
    BY <2>1
  <2>4. g = [R \in SUBSET (1 .. 0) |->
              IF R = {} THEN base ELSE After(g[R \ {Max(R)}], s[Max(R)])]
    BY <2>1, <2>2
  <2>5. IsIter(g, base, s, 0)
    BY <2>4 DEF IsIter
  <2>6. \E f \in [SUBSET (1 .. 0) -> Said(P)] : IsIter(f, base, s, 0)
    BY <2>3, <2>5
  <2>7. PICK n \in 0 .. Len(s) : n = 0
    BY <1>0
  <2>8. n \in T
    BY <2>6, <2>7
  <2> QED
    BY <2>7, <2>8
<1>2. ASSUME NEW n \in 1 .. Len(s), n - 1 \in T PROVE n \in T
  <2>1. PICK g \in [SUBSET (1 .. n - 1) -> Said(P)] : IsIter(g, base, s, n - 1)
    BY <1>2
  <2>2. PICK h \in [SUBSET (1 .. n) -> Said(P)] : IsIter(h, base, s, n)
    BY <2>1, IterGoesOn
  <2> QED
    BY <1>0, <2>2
<1>3. \A n \in 0 .. Len(s) : n \in T
  <2> HIDE DEF T
  <2> QED
    BY <1>0, <1>1, <1>2, Inductive
<1>4. Len(s) \in T
  <2> HIDE DEF T
  <2> QED
    BY <1>0, <1>3
<1> QED
  BY <1>4

\* What the loop has said after each item.
SaysOn(run, base, s, P) ==
  /\ run \in [0 .. Len(s) -> Said(P)]
  /\ run[0] = base /\ \A i \in 1 .. Len(s) : run[i] = After(run[i - 1], s[i])

\* FoldLeft ends where the loop ends.
LEMMA LoopRuns ==
  ASSUME NEW P, NEW s \in Seq(Items(P)), NEW base \in Said(P)
  PROVE  \E run : SaysOn(run, base, s, P) /\ FoldLeft(After, base, s) = run[Len(s)]
<1>0. Len(s) \in Nat /\ DOMAIN s = 1 .. Len(s)
  BY SeqIsArrow
<1>1. PICK g0 \in [SUBSET (1 .. Len(s)) -> Said(P)] : IsIter(g0, base, s, Len(s))
  BY IterExists
<1>2. PICK g : IsIter(g, base, s, Len(s)) /\ FoldLeft(After, base, s) = g[1 .. Len(s)]
  <2>1. FoldLeft(After, base, s) = (CHOOSE g : IsIter(g, base, s, Len(s)))[1 .. Len(s)]
    BY <1>0 DEF FoldLeft, MapThenFoldSet, IsIter, Max
  <2> QED
    BY <1>1, <2>1
<1>3. \A T \in SUBSET (1 .. Len(s)) :
        g[T] = IF T = {} THEN base ELSE After(g[T \ {Max(T)}], s[Max(T)])
  BY <1>2 DEF IsIter
<1>4. PICK run : run = [i \in 0 .. Len(s) |-> g[1 .. i]]
  OBVIOUS
<1>5. run[0] = base
  <2>1. 1 .. 0 = {} /\ {} \in SUBSET (1 .. Len(s)) /\ 0 \in 0 .. Len(s)
    BY <1>0
  <2>2. g[{}] = base
    BY <1>3, <2>1
  <2> QED
    BY <1>4, <2>1, <2>2
<1>6. ASSUME NEW i \in 1 .. Len(s) PROVE run[i] = After(run[i - 1], s[i])
  <2>1. i \in Nat \ {0} /\ i \in 0 .. Len(s) /\ i - 1 \in 0 .. Len(s)
    BY <1>0
  <2>2. PICK T : T = 1 .. i
    OBVIOUS
  <2>3. T \in SUBSET (1 .. Len(s)) /\ T \in SUBSET (1 .. i) /\ i \in T /\ T # {}
    BY <1>0, <2>1, <2>2
  <2>4. Max(T) = i
    BY <2>1, <2>3, Max1
  <2>5. T \ {i} = 1 .. i - 1
    BY <2>1, <2>2
  <2>6. g[T] = After(g[T \ {i}], s[i])
    BY <1>3, <2>3, <2>4
  <2> QED
    BY <1>4, <2>1, <2>2, <2>5, <2>6
<1>7. ASSUME NEW i \in 1 .. Len(s) PROVE s[i] \in Items(P)
  BY SeqIsArrow
<1> DEFINE Typed == {i \in 0 .. Len(s) : run[i] \in Said(P)}
<1>8. 0 \in Typed
  BY <1>0, <1>5
<1>9. ASSUME NEW i \in 1 .. Len(s), i - 1 \in Typed PROVE i \in Typed
  <2>1. PICK said \in Said(P) : said = run[i - 1]
    BY <1>9
  <2>2. After(said, s[i]) \in Said(P)
    BY <1>7, AfterType
  <2> QED
    BY <1>0, <1>6, <2>1, <2>2
<1>10. \A i \in 0 .. Len(s) : i \in Typed
  <2> HIDE DEF Typed
  <2> QED
    BY <1>0, <1>8, <1>9, Inductive
<1>11. run \in [0 .. Len(s) -> Said(P)]
  BY <1>4, <1>10
<1>12. FoldLeft(After, base, s) = run[Len(s)]
  <2>1. Len(s) \in 0 .. Len(s)
    BY <1>0
  <2> QED
    BY <1>2, <1>4, <2>1
<1>13. SaysOn(run, base, s, P)
  BY <1>5, <1>6, <1>11 DEF SaysOn
<1> QED
  BY <1>12, <1>13

-----------------------------------------------------------------------------
(* The conversation is kept *)

PartsOf(P) == [said \in Messages(P) |-> Parts(said)]
ToldOf(P) == [item \in Items(P) |-> Told(item)]
CallOf(P) == [shown \in Shown(P) |-> <<Calls(<<shown>>)>>]

\* What the three map to are messages.
LEMMA PartsType ==
  ASSUME NEW P
  PROVE  /\ Lists(PartsOf(P), Messages(P), Messages(P))
         /\ Lists(ToldOf(P), Items(P), Messages(P))
         /\ Lists(CallOf(P), Shown(P), Messages(P))
<1>1. ASSUME NEW said \in Messages(P) PROVE Parts(said) \in Seq(Messages(P))
  <2>1. said.calls \in Seq(Shown(P))
    BY DEF Messages
  <2>2. PICK n \in Nat : n = Len(said.calls) /\ DOMAIN said.calls = 1 .. n
    BY <2>1, SeqIsArrow
  <2>3. ASSUME NEW i \in 1 .. n PROVE Calls(<<said.calls[i]>>) \in Messages(P)
    <3>1. said.calls[i] \in Shown(P)
      BY <2>1, <2>2
    <3>2. <<said.calls[i]>> \in Seq(Shown(P))
      BY <3>1
    <3> QED
      BY <3>2, SaysType
  <2>4. PICK f : f = [i \in DOMAIN said.calls |-> Calls(<<said.calls[i]>>)]
    OBVIOUS
  <2>5. f \in [1 .. n -> Messages(P)]
    BY <2>2, <2>3, <2>4
  <2>6. f \in Seq(Messages(P))
    BY <2>5, Arrow
  <2> QED
    BY <2>4, <2>6 DEF Parts
<1>2. ASSUME NEW item \in Items(P) PROVE Told(item) \in Seq(Messages(P))
  <2>1. CASE item.type = "call"
    <3>1. PICK shown \in Shown(P) : shown = ChatCall(item)
      BY <2>1, ItemTypes
    <3>2. <<shown>> \in Seq(Shown(P))
      OBVIOUS
    <3>3. Calls(<<shown>>) \in Messages(P)
      BY <3>2, SaysType
    <3> QED
      BY <2>1, <3>1, <3>3 DEF Told
  <2>2. CASE item.type = "message"
    <3>1. Says(ChatRole(item.role)) \in Messages(P)
      BY <2>2, ItemTypes, SaysType
    <3> QED
      BY <2>2, <3>1 DEF Told
  <2>3. CASE item.type = "output"
    <3>1. Tells(item.id) \in Messages(P)
      BY <2>3, ItemTypes, SaysType
    <3> QED
      BY <2>3, <3>1 DEF Told
  <2>4. CASE item.type = "reasoning"
    BY <2>4 DEF Told
  <2> QED
    BY <2>1, <2>2, <2>3, <2>4, ItemTypes
<1>3. ASSUME NEW shown \in Shown(P) PROVE <<Calls(<<shown>>)>> \in Seq(Messages(P))
  <2>1. <<shown>> \in Seq(Shown(P))
    OBVIOUS
  <2>2. Calls(<<shown>>) \in Messages(P)
    BY <2>1, SaysType
  <2> QED
    BY <2>2
<1> QED
  BY <1>1, <1>2, <1>3 DEF PartsOf, ToldOf, CallOf, Lists

\* What the loop has said and what it has still to say.
Words(said, P) == FlatMap(said.messages, PartsOf(P)) \o FlatMap(said.pending, CallOf(P))

\* One message after the others.
LEMMA MapAppend ==
  ASSUME NEW S, NEW U, NEW s \in Seq(S), NEW x \in S, NEW F, Lists(F, S, U),
         NEW st, st = Append(s, x)
  PROVE  Joined(FlatMap(st, F), FlatMap(s, F), F[x])
<1>0. <<x>> \in Seq(S)
  OBVIOUS
<1>1. PICK t \in Seq(S) : t = <<x>>
  BY <1>0
<1>2. Joined(st, s, t)
  BY <1>1, ST!AppendIsConcat DEF Joined
<1>3. Joined(FlatMap(st, F), FlatMap(s, F), FlatMap(t, F))
  BY <1>2, MapConcat
<1>4. FlatMap(t, F) = F[x]
  BY <1>1, MapOne
<1> QED
  BY <1>3, <1>4

\* No words are lost where pending calls are said.
LEMMA WordsFlushed ==
  ASSUME NEW P, NEW said \in Said(P)
  PROVE  FlatMap(Flushed(said), PartsOf(P)) = Words(said, P)
<1>1. said.messages \in Seq(Messages(P)) /\ said.pending \in Seq(Shown(P))
  BY DEF Said
<1>2. FlatMap(said.messages, PartsOf(P)) \in Seq(Messages(P))
  BY <1>1, PartsType, MapType
<1>3. CASE said.pending = <<>>
  <2>1. FlatMap(said.pending, CallOf(P)) = <<>>
    BY <1>3, MapNothing
  <2>2. PICK words \in Seq(Messages(P)) : words = FlatMap(said.messages, PartsOf(P))
    BY <1>2
  <2>3. words \o <<>> = words
    BY ST!ConcatEmptySeq
  <2> QED
    BY <1>3, <2>1, <2>2, <2>3 DEF Words, Flushed
<1>4. CASE said.pending # <<>>
  <2>1. PICK m \in Seq(Messages(P)), p \in Seq(Shown(P)) : m = said.messages /\ p = said.pending
    BY <1>1
  <2>2. Calls(p) \in Messages(P)
    BY SaysType
  <2>0. PICK x \in Messages(P) : x = Calls(p)
    BY <2>2
  <2>a. PICK mx : mx = Append(m, x)
    OBVIOUS
  <2>b. Joined(FlatMap(mx, PartsOf(P)), FlatMap(m, PartsOf(P)), PartsOf(P)[x])
    BY <2>a, PartsType, MapAppend
  <2>3. FlatMap(Append(m, Calls(p)), PartsOf(P)) = FlatMap(m, PartsOf(P)) \o PartsOf(P)[Calls(p)]
    BY <2>0, <2>a, <2>b DEF Joined
  <2>4. Len(p) \in Nat /\ DOMAIN p = 1 .. Len(p) /\ \A i \in 1 .. Len(p) : p[i] \in Shown(P)
    BY SeqIsArrow
  <2>5. PICK t : t = [i \in 1 .. Len(p) |-> Calls(<<p[i]>>)]
    OBVIOUS
  <2>6. ASSUME NEW i \in 1 .. Len(p) PROVE Calls(<<p[i]>>) \in Messages(P)
    <3>1. <<p[i]>> \in Seq(Shown(P))
      BY <2>4
    <3> QED
      BY <3>1, SaysType
  <2>7. t \in [1 .. Len(p) -> Messages(P)]
    BY <2>5, <2>6
  <2>8. t \in Seq(Messages(P)) /\ Len(t) = Len(p)
    BY <2>4, <2>7, Arrow
  <2>9. \A i \in 1 .. Len(p) : CallOf(P)[p[i]] = <<t[i]>>
    BY <2>4, <2>5 DEF CallOf
  <2>10. Singles(CallOf(P), p, t)
    BY <2>8, <2>9 DEF Singles
  <2>12. FlatMap(p, CallOf(P)) = t
    BY <2>8, <2>10, PartsType, MapEach
  <2>11. PartsOf(P)[Calls(p)] = t
    BY <1>4, <2>1, <2>2, <2>4, <2>5 DEF PartsOf, Parts, Calls
  <2> QED
    BY <1>4, <2>1, <2>3, <2>12, <2>11 DEF Words, Flushed
<1> QED
  BY <1>3, <1>4

\* Every item adds its own words at the end.
LEMMA WordsAfter ==
  ASSUME NEW P, NEW said \in Said(P), NEW item \in Items(P)
  PROVE  Words(After(said, item), P) = Words(said, P) \o Told(item)
<1>1. said.messages \in Seq(Messages(P)) /\ said.pending \in Seq(Shown(P))
  BY DEF Said
<1>2. /\ FlatMap(said.messages, PartsOf(P)) \in Seq(Messages(P))
      /\ FlatMap(said.pending, CallOf(P)) \in Seq(Messages(P))
  BY <1>1, PartsType, MapType
<1>3. PICK w \in Seq(Messages(P)) : w = Words(said, P)
  BY <1>2, ST!ConcatProperties DEF Words
<1>4. w \o <<>> = w
  BY ST!ConcatEmptySeq
<1>5. PICK f \in Seq(Messages(P)) : f = Flushed(said)
  BY FlushedType
<1>6. FlatMap(f, PartsOf(P)) = w
  BY <1>3, <1>5, WordsFlushed
<1>7. FlatMap(<<>>, CallOf(P)) = <<>>
  BY MapNothing
\* Something said after what was pending.
<1>8. ASSUME NEW x \in Messages(P), x.calls = <<>>,
             After(said, item) = [messages |-> Append(f, x), pending |-> <<>>]
      PROVE  Words(After(said, item), P) = w \o <<x>>
  <2>1. PartsOf(P)[x] = <<x>>
    BY <1>8 DEF PartsOf, Parts
  <2>a. PICK fx : fx = Append(f, x)
    OBVIOUS
  <2>2. Joined(FlatMap(fx, PartsOf(P)), FlatMap(f, PartsOf(P)), PartsOf(P)[x])
    BY <2>a, PartsType, MapAppend
  <2>b. <<x>> \in Seq(Messages(P))
    OBVIOUS
  <2>3. PICK wx \in Seq(Messages(P)) : wx = w \o <<x>>
    BY <2>b, ST!ConcatProperties
  <2>4. wx \o <<>> = wx
    BY ST!ConcatEmptySeq
  <2>5. FlatMap(fx, PartsOf(P)) = wx
    BY <1>6, <2>1, <2>2, <2>3 DEF Joined
  <2>6. Words(After(said, item), P) = FlatMap(fx, PartsOf(P)) \o FlatMap(<<>>, CallOf(P))
    BY <1>8, <2>a DEF Words
  <2> QED
    BY <1>7, <2>3, <2>4, <2>5, <2>6
<1>9. CASE item.type = "call"
  <2>1. PICK shown \in Shown(P) : shown = ChatCall(item)
    BY <1>9, ItemTypes
  <2>2. PICK p \in Seq(Shown(P)) : p = said.pending
    BY <1>1
  <2>a. PICK pc : pc = Append(p, shown)
    OBVIOUS
  <2>3. Joined(FlatMap(pc, CallOf(P)), FlatMap(p, CallOf(P)), CallOf(P)[shown])
    BY <2>a, PartsType, MapAppend
  <2>4. CallOf(P)[shown] = <<Calls(<<shown>>)>>
    BY DEF CallOf
  <2>5. PICK a \in Seq(Messages(P)), b \in Seq(Messages(P)), c \in Seq(Messages(P)) :
          /\ a = FlatMap(said.messages, PartsOf(P)) /\ b = FlatMap(p, CallOf(P))
          /\ c = CallOf(P)[shown]
    BY <1>2, <2>2, PartsType DEF Lists
  <2>6. (a \o b) \o c = a \o (b \o c)
    BY ST!ConcatAssociative
  <2>7. After(said, item) = [messages |-> said.messages, pending |-> pc]
    BY <1>9, <2>1, <2>2, <2>a, AfterOthers
  <2>b. FlatMap(pc, CallOf(P)) = b \o c
    BY <2>3, <2>5 DEF Joined
  <2>c. Words(After(said, item), P) = FlatMap(said.messages, PartsOf(P)) \o FlatMap(pc, CallOf(P))
    BY <2>7 DEF Words
  <2>8. Words(After(said, item), P) = a \o (b \o c)
    BY <2>5, <2>b, <2>c
  <2>9. w = a \o b
    BY <1>3, <2>2, <2>5 DEF Words
  <2>10. Told(item) = c
    BY <1>9, <2>1, <2>4, <2>5 DEF Told
  <2> QED
    BY <1>3, <2>6, <2>8, <2>9, <2>10
<1>10. CASE item.type = "output"
  <2>1. PICK x \in Messages(P) : x = Tells(item.id)
    BY <1>10, ItemTypes, SaysType
  <2>2. x.calls = <<>>
    BY <2>1 DEF Tells
  <2> QED
    BY <1>3, <1>5, <1>8, <1>10, <2>1, <2>2, AfterOthers DEF Told
<1>11. CASE item.type = "message"
  <2>1. PICK x \in Messages(P) : x = Says(ChatRole(item.role))
    BY <1>11, ItemTypes, SaysType
  <2>2. x.calls = <<>>
    BY <2>1 DEF Says
  <2> QED
    BY <1>3, <1>5, <1>8, <1>11, <2>1, <2>2, AfterOthers DEF Told
<1>12. CASE item.type = "reasoning"
  <2>1. After(said, item) = [messages |-> f, pending |-> <<>>]
    BY <1>5, <1>12, AfterOthers
  <2>2. Told(item) = <<>>
    BY <1>12 DEF Told
  <2>3. Words(After(said, item), P) = FlatMap(f, PartsOf(P)) \o FlatMap(<<>>, CallOf(P))
    BY <2>1 DEF Words
  <2>4. Words(After(said, item), P) = w
    BY <1>4, <1>6, <1>7, <2>3
  <2>5. Words(said, P) \o Told(item) = w
    BY <1>3, <1>4, <2>2
  <2> QED
    BY <2>4, <2>5
<1> QED
  BY <1>9, <1>10, <1>11, <1>12, ItemTypes

\* What the loop starts with.
First(instructed) == IF instructed THEN <<Says("system")>> ELSE <<>>
Start(instructed) == [messages |-> First(instructed), pending |-> <<>>]

\* The loop starts with the instructions alone.
LEMMA StartWords ==
  ASSUME NEW P, NEW instructed \in BOOLEAN
  PROVE  /\ Start(instructed) \in Said(P) /\ First(instructed) \in Seq(Messages(P))
         /\ Words(Start(instructed), P) = First(instructed)
<1>1. Says("system") \in Messages(P) /\ Says("system").calls = <<>>
  BY SaysType DEF ChatRoles, Says
<1>2. PICK x \in Messages(P) : x = Says("system") /\ x.calls = <<>>
  BY <1>1
<1>3. FlatMap(<<x>>, PartsOf(P)) = <<x>>
  <2>1. FlatMap(<<x>>, PartsOf(P)) = PartsOf(P)[x]
    BY PartsType, MapOne
  <2> QED
    BY <1>2, <2>1 DEF PartsOf, Parts
<1>4. <<x>> \in Seq(Messages(P)) /\ <<>> \in Seq(Messages(P)) /\ <<>> \in Seq(Shown(P))
  OBVIOUS
<1>5. PICK f \in Seq(Messages(P)), none \in Seq(Shown(P)) :
        f = First(instructed) /\ none = <<>>
  BY <1>2, <1>4 DEF First
<1>6. [messages |-> f, pending |-> none] \in Said(P)
  BY DEF Said
<1>7. FlatMap(f, PartsOf(P)) = f
  BY <1>2, <1>3, <1>5, MapNothing DEF First
<1>8. f \o <<>> = f
  BY ST!ConcatEmptySeq
<1>9. FlatMap(none, CallOf(P)) = <<>>
  BY <1>5, MapNothing
<1>10. Words(Start(instructed), P) = FlatMap(f, PartsOf(P)) \o FlatMap(none, CallOf(P))
  BY <1>5 DEF Words, Start
<1>11. Words(Start(instructed), P) = f
  BY <1>7, <1>8, <1>9, <1>10
<1> QED
  BY <1>5, <1>6, <1>11 DEF Start

\* The messages are what the loop has said, with the calls that wait.
LEMMA ChatLoop ==
  ASSUME NEW P, NEW input \in Seq(Items(P)), NEW instructed \in BOOLEAN
  PROVE  \E run : /\ SaysOn(run, Start(instructed), input, P)
                  /\ ChatMessages(instructed, input) = Flushed(run[Len(input)])
<1>1. PICK base \in Said(P) : base = Start(instructed)
  BY StartWords
<1>2. ChatMessages(instructed, input) = Flushed(FoldLeft(After, base, input))
  BY <1>1 DEF ChatMessages, Start, First
<1>3. PICK run : SaysOn(run, base, input, P) /\ FoldLeft(After, base, input) = run[Len(input)]
  BY LoopRuns
<1> QED
  BY <1>1, <1>2, <1>3

\* Every item is told, in its order.
LEMMA AllAreTold ==
  ASSUME NEW P, NEW input \in Seq(Items(P)), NEW instructed \in BOOLEAN
  PROVE  /\ ChatMessages(instructed, input) \in Seq(Messages(P))
         /\ Joined(FlatMap(ChatMessages(instructed, input), PartsOf(P)),
                   First(instructed), FlatMap(input, ToldOf(P)))
<1>0. Len(input) \in Nat /\ \A i \in 1 .. Len(input) : input[i] \in Items(P)
  BY SeqIsArrow
<1>1. PICK run : /\ SaysOn(run, Start(instructed), input, P)
                 /\ ChatMessages(instructed, input) = Flushed(run[Len(input)])
  BY ChatLoop
<1>2. /\ run \in [0 .. Len(input) -> Said(P)] /\ run[0] = Start(instructed)
      /\ \A i \in 1 .. Len(input) : run[i] = After(run[i - 1], input[i])
  BY <1>1 DEF SaysOn
<1>3. PICK told : Maps(told, input, ToldOf(P), Messages(P))
  BY PartsType, Mapping
<1>4. /\ told \in [0 .. Len(input) -> Seq(Messages(P))] /\ told[0] = <<>>
      /\ \A i \in 1 .. Len(input) : told[i] = told[i - 1] \o ToldOf(P)[input[i]]
  BY <1>3 DEF Maps
<1>5. FlatMap(input, ToldOf(P)) = told[Len(input)]
  BY <1>3, PartsType, MapEnds
<1>6. PICK first \in Seq(Messages(P)) : first = First(instructed)
  BY StartWords
<1> DEFINE T == {i \in 0 .. Len(input) : Joined(Words(run[i], P), first, told[i])}
<1>7. 0 \in T
  <2>1. Words(run[0], P) = first /\ first \o <<>> = first
    BY <1>2, <1>6, StartWords, ST!ConcatEmptySeq
  <2>2. Joined(Words(run[0], P), first, told[0])
    BY <1>4, <2>1 DEF Joined
  <2> QED
    BY <1>0, <2>2
<1>8. ASSUME NEW i \in 1 .. Len(input), i - 1 \in T PROVE i \in T
  <2>1. i \in 0 .. Len(input) /\ i - 1 \in 0 .. Len(input)
    BY <1>0
  <2>2. PICK said \in Said(P), item \in Items(P) : said = run[i - 1] /\ item = input[i]
    BY <1>0, <1>2, <2>1
  <2>3. Words(run[i], P) = Words(said, P) \o Told(item)
    BY <1>2, <2>2, WordsAfter
  <2>4. Joined(Words(said, P), first, told[i - 1])
    BY <1>8, <2>2
  <2>5. PICK a \in Seq(Messages(P)), b \in Seq(Messages(P)) : a = told[i - 1] /\ b = Told(item)
    BY <1>4, <2>1, <2>2, PartsType DEF Lists, ToldOf
  <2>6. (first \o a) \o b = first \o (a \o b)
    BY ST!ConcatAssociative
  <2>7. told[i] = a \o b
    BY <1>4, <2>2, <2>5 DEF ToldOf
  <2>8. Words(run[i], P) = (first \o a) \o b
    BY <2>3, <2>4, <2>5 DEF Joined
  <2>9. Joined(Words(run[i], P), first, told[i])
    BY <2>6, <2>7, <2>8 DEF Joined
  <2> QED
    BY <2>1, <2>9
<1>9. \A i \in 0 .. Len(input) : i \in T
  <2> HIDE DEF T
  <2> QED
    BY <1>0, <1>7, <1>8, Inductive
<1>10. Len(input) \in 0 .. Len(input) /\ Len(input) \in T
  <2> HIDE DEF T
  <2> QED
    BY <1>0, <1>9
<1>11. PICK said \in Said(P) : said = run[Len(input)]
  BY <1>2, <1>10
<1>12. FlatMap(Flushed(said), PartsOf(P)) = Words(said, P)
  BY WordsFlushed
<1> QED
  BY <1>1, <1>5, <1>6, <1>10, <1>11, <1>12, FlushedType

\* No two messages with calls stand next to each other.
Apart(messages) ==
  \A i \in 1 .. Len(messages) - 1 : messages[i].calls = <<>> \/ messages[i + 1].calls = <<>>

\* Nor would they with another one.
Quiet(messages) ==
  Apart(messages) /\ (messages # <<>> => messages[Len(messages)].calls = <<>>)

\* One more message.
LEMMA ApartAppend ==
  ASSUME NEW P, NEW m \in Seq(Messages(P)), NEW x \in Messages(P), NEW mx, mx = Append(m, x)
  PROVE  /\ Quiet(m) => Apart(mx)
         /\ Apart(m) /\ x.calls = <<>> => Quiet(mx)
<1>1. Len(m) \in Nat
  BY SeqIsArrow
<1>2. /\ Len(mx) = Len(m) + 1 /\ mx[Len(m) + 1] = x
      /\ \A i \in 1 .. Len(m) : mx[i] = m[i]
  BY <1>1, ST!AppendProperties
<1>3. ASSUME Quiet(m), NEW i \in 1 .. Len(mx) - 1
      PROVE  mx[i].calls = <<>> \/ mx[i + 1].calls = <<>>
  <2>1. i \in 1 .. Len(m)
    BY <1>1, <1>2
  <2>2. CASE i = Len(m)
    <3>1. m # <<>>
      BY <2>1
    <3>2. mx[i] = m[Len(m)]
      BY <1>2, <2>1, <2>2
    <3> QED
      BY <1>3, <3>1, <3>2 DEF Quiet
  <2>3. CASE i # Len(m)
    <3>1. i \in 1 .. Len(m) - 1 /\ i + 1 \in 1 .. Len(m)
      BY <1>1, <2>1, <2>3
    <3> QED
      BY <1>2, <1>3, <2>1, <3>1 DEF Quiet, Apart
  <2> QED
    BY <2>2, <2>3
<1>4. ASSUME Apart(m), x.calls = <<>>, NEW i \in 1 .. Len(mx) - 1
      PROVE  mx[i].calls = <<>> \/ mx[i + 1].calls = <<>>
  <2>1. i \in 1 .. Len(m)
    BY <1>1, <1>2
  <2>2. CASE i = Len(m)
    BY <1>2, <1>4, <2>2
  <2>3. CASE i # Len(m)
    <3>1. i \in 1 .. Len(m) - 1 /\ i + 1 \in 1 .. Len(m)
      BY <1>1, <2>1, <2>3
    <3> QED
      BY <1>2, <1>4, <2>1, <3>1 DEF Apart
  <2> QED
    BY <2>2, <2>3
<1>5. ASSUME Quiet(m) PROVE Apart(mx)
  BY <1>3, <1>5 DEF Apart
<1>6. ASSUME Apart(m), x.calls = <<>> PROVE Quiet(mx)
  BY <1>2, <1>4, <1>6 DEF Apart, Quiet
<1> QED
  BY <1>5, <1>6

\* Pending calls are said apart from others.
LEMMA FlushedApart ==
  ASSUME NEW P, NEW said \in Said(P), Quiet(said.messages)
  PROVE  Apart(Flushed(said))
<1>1. PICK m \in Seq(Messages(P)), p \in Seq(Shown(P)) : m = said.messages /\ p = said.pending
  BY DEF Said
<1>2. CASE p = <<>>
  BY <1>1, <1>2 DEF Quiet, Flushed
<1>3. CASE p # <<>>
  <2>1. PICK x \in Messages(P) : x = Calls(p)
    BY SaysType
  <2>2. PICK mx : mx = Append(m, x)
    OBVIOUS
  <2>3. Quiet(m) => Apart(mx)
    BY <2>2, ApartAppend
  <2> QED
    BY <1>1, <1>3, <2>1, <2>2, <2>3 DEF Flushed
<1> QED
  BY <1>2, <1>3

\* An item other than reasoning leaves no calls said last.
LEMMA AfterApart ==
  ASSUME NEW P, NEW said \in Said(P), Quiet(said.messages), NEW item \in Items(P), item # Reasoning
  PROVE  Quiet(After(said, item).messages)
<1>1. PICK f \in Seq(Messages(P)) : f = Flushed(said) /\ Apart(f)
  BY FlushedType, FlushedApart
<1>2. ASSUME NEW x \in Messages(P), x.calls = <<>>,
             After(said, item) = [messages |-> Append(f, x), pending |-> <<>>]
      PROVE  Quiet(After(said, item).messages)
  <2>1. PICK fx : fx = Append(f, x)
    OBVIOUS
  <2>2. Apart(f) /\ x.calls = <<>> => Quiet(fx)
    BY <2>1, ApartAppend
  <2> QED
    BY <1>1, <1>2, <2>1, <2>2
<1>3. CASE item.type = "call"
  BY <1>3, AfterOthers
<1>4. CASE item.type = "output"
  <2>1. PICK x \in Messages(P) : x = Tells(item.id)
    BY <1>4, ItemTypes, SaysType
  <2>2. x.calls = <<>>
    BY <2>1 DEF Tells
  <2> QED
    BY <1>1, <1>2, <1>4, <2>1, <2>2, AfterOthers
<1>5. CASE item.type = "message"
  <2>1. PICK x \in Messages(P) : x = Says(ChatRole(item.role))
    BY <1>5, ItemTypes, SaysType
  <2>2. x.calls = <<>>
    BY <2>1 DEF Says
  <2> QED
    BY <1>1, <1>2, <1>5, <2>1, <2>2, AfterOthers
<1> QED
  BY <1>3, <1>4, <1>5, ItemTypes

\* Calls that follow one another are in one message.
LEMMA CallsAreApart ==
  ASSUME NEW P, NEW input \in Seq(Items(P)), NEW instructed \in BOOLEAN,
         Reasoning \notin Range(input)
  PROVE  Apart(ChatMessages(instructed, input))
<1>0. /\ Len(input) \in Nat
      /\ \A i \in 1 .. Len(input) : input[i] \in Items(P) /\ input[i] # Reasoning
  BY SeqIsArrow DEF Range
<1>1. PICK run : /\ SaysOn(run, Start(instructed), input, P)
                 /\ ChatMessages(instructed, input) = Flushed(run[Len(input)])
  BY ChatLoop
<1>2. /\ run \in [0 .. Len(input) -> Said(P)] /\ run[0] = Start(instructed)
      /\ \A i \in 1 .. Len(input) : run[i] = After(run[i - 1], input[i])
  BY <1>1 DEF SaysOn
<1> DEFINE T == {i \in 0 .. Len(input) : Quiet(run[i].messages)}
<1>3. 0 \in T
  <2>1. Quiet(<<>>)
    BY DEF Quiet, Apart
  <2>2. Quiet(<<Says("system")>>)
    BY DEF Quiet, Apart, Says
  <2>3. run[0].messages = First(instructed)
    BY <1>2 DEF Start
  <2>4. Quiet(run[0].messages)
    BY <2>1, <2>2, <2>3 DEF First
  <2> QED
    BY <1>0, <2>4
<1>4. ASSUME NEW i \in 1 .. Len(input), i - 1 \in T PROVE i \in T
  <2>1. i \in 0 .. Len(input) /\ i - 1 \in 0 .. Len(input)
    BY <1>0
  <2>2. PICK said \in Said(P), item \in Items(P) :
          said = run[i - 1] /\ item = input[i] /\ item # Reasoning
    BY <1>0, <1>2, <2>1
  <2>3. Quiet(After(said, item).messages)
    BY <1>4, <2>2, AfterApart
  <2> QED
    BY <1>2, <2>1, <2>2, <2>3
<1>5. \A i \in 0 .. Len(input) : i \in T
  <2> HIDE DEF T
  <2> QED
    BY <1>0, <1>3, <1>4, Inductive
<1>6. Len(input) \in 0 .. Len(input) /\ Len(input) \in T
  <2> HIDE DEF T
  <2> QED
    BY <1>0, <1>5
<1> QED
  BY <1>1, <1>2, <1>6, FlushedApart

\* What the profile and memory add to the conversation.
Added == {"yisang", "profile", "feedback"}
Additions(P) == [role : Added, calls : Seq(Shown(P)), id : Nat]
Spoken(P) == Messages(P) \cup Additions(P)
OfClient(P) == [m \in Spoken(P) |-> IF m.role \notin Added THEN <<m>> ELSE <<>>]

\* The client's are told from the additions.
LEMMA ClientType ==
  ASSUME NEW P
  PROVE  /\ Lists(OfClient(P), Spoken(P), Messages(P))
         /\ \A m \in Messages(P) : OfClient(P)[m] = <<m>>
         /\ \A m \in Additions(P) : OfClient(P)[m] = <<>>
         /\ \A role \in Added : Says(role) \in Additions(P)
<1>1. \A m \in Messages(P) : m.role \notin Added
  BY DEF Messages, ChatRoles, Added
<1>2. \A m \in Additions(P) : m.role \in Added
  BY DEF Additions
<1>3. \A m \in Messages(P) : OfClient(P)[m] = <<m>> /\ <<m>> \in Seq(Messages(P))
  BY <1>1 DEF OfClient, Spoken
<1>4. \A m \in Additions(P) : OfClient(P)[m] = <<>> /\ <<>> \in Seq(Messages(P))
  BY <1>2 DEF OfClient, Spoken
<1>5. OfClient(P) \in [Spoken(P) -> Seq(Messages(P))]
  BY <1>3, <1>4 DEF OfClient, Spoken
<1>6. <<>> \in Seq(Shown(P))
  OBVIOUS
<1>7. \A role \in Added : Says(role) \in Additions(P)
  BY <1>6 DEF Says, Additions
<1> QED
  BY <1>3, <1>4, <1>5, <1>7 DEF Lists

\* All of the client's messages are the client's,
LEMMA ClientAll ==
  ASSUME NEW P, NEW m \in Seq(Messages(P))
  PROVE  m \in Seq(Spoken(P)) /\ FlatMap(m, OfClient(P)) = m
<1>1. Len(m) \in Nat /\ m \in [1 .. Len(m) -> Messages(P)]
  BY SeqIsArrow
<1>2. m \in [1 .. Len(m) -> Spoken(P)]
  BY <1>1 DEF Spoken
<1>3. m \in Seq(Spoken(P))
  BY <1>1, <1>2, Arrow
<1>4. \A i \in 1 .. Len(m) : OfClient(P)[m[i]] = <<m[i]>>
  BY <1>1, ClientType
<1>5. Singles(OfClient(P), m, m)
  BY <1>4 DEF Singles
<1> QED
  BY <1>3, <1>5, ClientType, MapEach

\* and of the additions none.
LEMMA ClientNone ==
  ASSUME NEW P, NEW m \in Seq(Additions(P))
  PROVE  m \in Seq(Spoken(P)) /\ FlatMap(m, OfClient(P)) = <<>>
<1>1. Len(m) \in Nat /\ m \in [1 .. Len(m) -> Additions(P)]
  BY SeqIsArrow
<1>2. m \in [1 .. Len(m) -> Spoken(P)]
  BY <1>1 DEF Spoken
<1>3. m \in Seq(Spoken(P))
  BY <1>1, <1>2, Arrow
<1>4. \A i \in 1 .. Len(m) : OfClient(P)[m[i]] = <<>>
  BY <1>1, ClientType
<1> QED
  BY <1>3, <1>4, ClientType, MapNone

\* Nothing but the conversation is left of it without what was added.
LEMMA ClientOnly ==
  ASSUME NEW P, NEW y \in Additions(P), NEW b \in Seq(Additions(P)),
         NEW a \in Seq(Messages(P)), NEW c \in Seq(Messages(P)),
         NEW ab, Joined(ab, a, b), NEW abc, Joined(abc, ab, c), NEW s, Joined(s, <<y>>, abc),
         NEW ac \in Seq(Messages(P)), Joined(ac, a, c)
  PROVE  s \in Seq(Spoken(P)) /\ FlatMap(s, OfClient(P)) = ac
<1>1. <<y>> \in Seq(Additions(P))
  OBVIOUS
<1>2. PICK ys \in Seq(Spoken(P)) : ys = <<y>> /\ FlatMap(ys, OfClient(P)) = <<>>
  BY <1>1, ClientNone
<1>3. /\ a \in Seq(Spoken(P)) /\ FlatMap(a, OfClient(P)) = a
      /\ c \in Seq(Spoken(P)) /\ FlatMap(c, OfClient(P)) = c
      /\ b \in Seq(Spoken(P)) /\ FlatMap(b, OfClient(P)) = <<>>
  BY ClientAll, ClientNone
<1>4. ab \in Seq(Spoken(P)) /\ Joined(FlatMap(ab, OfClient(P)), a, <<>>)
  <2>1. ab \in Seq(Spoken(P))
    BY <1>3, ST!ConcatProperties DEF Joined
  <2>2. Joined(FlatMap(ab, OfClient(P)), FlatMap(a, OfClient(P)), FlatMap(b, OfClient(P)))
    BY <1>3, ClientType, MapConcat
  <2> QED
    BY <1>3, <2>1, <2>2
<1>5. FlatMap(ab, OfClient(P)) = a
  BY <1>4, ST!ConcatEmptySeq DEF Joined
<1>6. abc \in Seq(Spoken(P)) /\ Joined(FlatMap(abc, OfClient(P)), a, c)
  <2>1. abc \in Seq(Spoken(P))
    BY <1>3, <1>4, ST!ConcatProperties DEF Joined
  <2>2. Joined(FlatMap(abc, OfClient(P)), FlatMap(ab, OfClient(P)), FlatMap(c, OfClient(P)))
    BY <1>3, <1>4, ClientType, MapConcat
  <2> QED
    BY <1>3, <1>5, <2>1, <2>2
<1>7. FlatMap(abc, OfClient(P)) = ac
  BY <1>6 DEF Joined
<1>8. Joined(s, ys, abc)
  BY <1>2
<1>9. s \in Seq(Spoken(P))
  BY <1>2, <1>6, <1>8, ST!ConcatProperties DEF Joined
<1>10. Joined(FlatMap(s, OfClient(P)), FlatMap(ys, OfClient(P)), FlatMap(abc, OfClient(P)))
  BY <1>2, <1>6, <1>8, ClientType, MapConcat
<1>11. Joined(FlatMap(s, OfClient(P)), <<>>, ac)
  BY <1>2, <1>7, <1>10
<1>12. FlatMap(s, OfClient(P)) = ac
  BY <1>11, ST!ConcatEmptySeq DEF Joined
<1> QED
  BY <1>9, <1>12

\* Whatever the profile adds, the client's messages are there in order.
LEMMA RequestOfClient ==
  ASSUME NEW P, NEW input \in Seq(Items(P)), NEW instructed \in BOOLEAN, NEW profile \in Profiles
  PROVE  /\ ChatRequest(instructed, input, profile).messages \in Seq(Spoken(P))
         /\ FlatMap(ChatRequest(instructed, input, profile).messages, OfClient(P))
              = ChatMessages(instructed, input)
<1>1. PICK m \in Seq(Messages(P)) : m = ChatMessages(instructed, input)
  BY AllAreTold
<1>2. Len(m) \in Nat /\ \A i \in 1 .. Len(m) : m[i] \in Messages(P)
  BY SeqIsArrow
<1>3. PICK y \in Additions(P) : y = Says("yisang")
  BY ClientType DEF Added
<1>4. PICK s : s = ChatRequest(instructed, input, profile).messages
  OBVIOUS
<1>5. CASE profile = "full"
  <2>1. PICK none \in Seq(Messages(P)), nobody \in Seq(Additions(P)) : none = <<>> /\ nobody = <<>>
    <3>1. <<>> \in Seq(Messages(P)) /\ <<>> \in Seq(Additions(P))
      OBVIOUS
    <3> QED
      BY <3>1
  <2>2. s = <<y>> \o m
    BY <1>1, <1>3, <1>4, <1>5 DEF ChatRequest, Conversation
  <2>3. Joined(none, none, nobody) /\ Joined(m, none, m) /\ Joined(s, <<y>>, m)
    BY <2>1, <2>2, ST!ConcatEmptySeq DEF Joined
  <2>4. s \in Seq(Spoken(P)) /\ FlatMap(s, OfClient(P)) = m
    BY <2>3, ClientOnly
  <2> QED
    BY <1>1, <1>4, <2>4
<1>6. CASE profile # "full"
  <2>1. PICK at \in {0, 1} :
          at = (IF m # <<>> /\ m[1].role = "system" THEN 1 ELSE 0) /\ at <= Len(m)
    BY <1>2
  <2>2. PICK b : b = <<Says("profile")>>
                     \o (IF Feedback(input) = "none" THEN <<>> ELSE <<Says("feedback")>>)
    OBVIOUS
  <2>3. b \in Seq(Additions(P))
    <3>1. Says("profile") \in Additions(P) /\ Says("feedback") \in Additions(P)
      BY ClientType DEF Added
    <3>2. /\ <<Says("profile")>> \in Seq(Additions(P)) /\ <<Says("feedback")>> \in Seq(Additions(P))
          /\ <<>> \in Seq(Additions(P))
      BY <3>1
    <3> QED
      BY <2>2, <3>2, ST!ConcatProperties
  <2>4. PICK a \in Seq(Messages(P)), c \in Seq(Messages(P)) :
          a = SubSeq(m, 1, at) /\ c = SubSeq(m, at + 1, Len(m))
    <3>1. \A i \in 1 .. at : m[i] \in Messages(P)
      BY <1>2, <2>1
    <3>2. \A i \in at + 1 .. Len(m) : m[i] \in Messages(P)
      BY <1>2, <2>1
    <3>3. SubSeq(m, 1, at) \in Seq(Messages(P))
      BY <3>1, ST!SubSeqProperties
    <3>4. at + 1 \in Int /\ Len(m) \in Int
      BY <1>2
    <3>5. SubSeq(m, at + 1, Len(m)) \in Seq(Messages(P))
      BY <3>2, <3>4, ST!SubSeqProperties
    <3> QED
      BY <3>3, <3>5
  <2>5. PICK ab, abc : ab = a \o b /\ abc = ab \o c
    OBVIOUS
  <2>6. Conversation(instructed, input, profile) = abc
    <3>1. Conversation(instructed, input, profile)
            = SubSeq(m, 1, at) \o b \o SubSeq(m, at + 1, Len(m))
      BY <1>1, <1>6, <2>1, <2>2 DEF Conversation
    <3> QED
      BY <2>4, <2>5, <3>1
  <2>7. s = <<y>> \o abc
    BY <1>3, <1>4, <2>6 DEF ChatRequest
  <2>8. a \o c = m
    <3>1. SubSeq(m, 1, at) \o SubSeq(m, at + 1, Len(m)) = SubSeq(m, 1, Len(m))
      <4>1. 1 \in 1 .. Len(m) + 1 /\ at \in 1 - 1 .. Len(m) /\ Len(m) \in at .. Len(m)
        BY <1>2, <2>1
      <4> QED
        BY <4>1, ST!ConcatAdjacentSubSeq
    <3>2. SubSeq(m, 1, Len(m)) = m
      BY ST!SubSeqFull
    <3> QED
      BY <2>4, <3>1, <3>2
  <2>9. Joined(ab, a, b) /\ Joined(abc, ab, c) /\ Joined(s, <<y>>, abc) /\ Joined(m, a, c)
    BY <2>5, <2>7, <2>8 DEF Joined
  <2>10. s \in Seq(Spoken(P)) /\ FlatMap(s, OfClient(P)) = m
    BY <2>3, <2>9, ClientOnly
  <2> QED
    BY <1>1, <1>4, <2>10
<1> QED
  BY <1>5, <1>6

\* Whatever the client tells, of any length and with any roles, names and
\* numbers, and whatever the profile adds: _responses_input_to_chat_messages and
\* prepare_chat_request tell the model all of it once and in order (Keeps).
THEOREM EveryConversationIsKept ==
  ASSUME NEW P, NEW input \in Seq(Items(P)), NEW instructed \in BOOLEAN, NEW profile \in Profiles
  PROVE  Keeps(input, instructed, profile)
<1>1. PICK s \in Seq(Spoken(P)) :
        /\ s = ChatRequest(instructed, input, profile).messages
        /\ FlatMap(s, OfClient(P)) = ChatMessages(instructed, input)
  BY RequestOfClient
<1>2. PICK told \in Seq(Messages(P)) :
        /\ told = ChatMessages(instructed, input)
        /\ Joined(FlatMap(told, PartsOf(P)), First(instructed), FlatMap(input, ToldOf(P)))
  BY AllAreTold
<1>3. Only(s, LAMBDA said : said.role \notin {"yisang", "profile", "feedback"}) = told
  <2>1. DOMAIN s = 1 .. Len(s) /\ \A i \in 1 .. Len(s) : s[i] \in Spoken(P)
    BY SeqIsArrow
  <2>2. [i \in DOMAIN s |-> OfClient(P)[s[i]]]
          = [i \in DOMAIN s |-> IF s[i].role \notin {"yisang", "profile", "feedback"}
                                THEN <<s[i]>> ELSE <<>>]
    BY <2>1 DEF OfClient, Added
  <2>3. FlatMap(s, OfClient(P))
          = FlattenSeq([i \in DOMAIN s |-> IF s[i].role \notin {"yisang", "profile", "feedback"}
                                           THEN <<s[i]>> ELSE <<>>])
    BY <2>2 DEF FlatMap
  <2> QED
    BY <1>1, <1>2, <2>3 DEF Only
<1>4. FlattenSeq([i \in DOMAIN told |-> Parts(told[i])]) = FlatMap(told, PartsOf(P))
  <2>1. DOMAIN told = 1 .. Len(told) /\ \A i \in 1 .. Len(told) : told[i] \in Messages(P)
    BY SeqIsArrow
  <2>2. [i \in DOMAIN told |-> Parts(told[i])] = [i \in DOMAIN told |-> PartsOf(P)[told[i]]]
    BY <2>1 DEF PartsOf
  <2> QED
    BY <2>2 DEF FlatMap
<1>5. FlattenSeq([i \in DOMAIN input |-> Told(input[i])]) = FlatMap(input, ToldOf(P))
  <2>1. DOMAIN input = 1 .. Len(input) /\ \A i \in 1 .. Len(input) : input[i] \in Items(P)
    BY SeqIsArrow
  <2>2. [i \in DOMAIN input |-> Told(input[i])] = [i \in DOMAIN input |-> ToldOf(P)[input[i]]]
    BY <2>1 DEF ToldOf
  <2> QED
    BY <2>2 DEF FlatMap
<1>6. FlatMap(told, PartsOf(P)) = First(instructed) \o FlatMap(input, ToldOf(P))
  BY <1>2 DEF Joined
<1>7. Reasoning \notin Range(input) => Apart(told)
  BY <1>2, CallsAreApart
<1> QED
  BY <1>1, <1>3, <1>4, <1>5, <1>6, <1>7 DEF Keeps, Apart, First

\* The words of the runs.
RunWords == {Read, Exec, Server, "user", "developer", "critic", "no", "yes"}

\* Bounded sequences are sequences.
LEMMA UpToSeq ==
  ASSUME NEW S, NEW n \in Nat, NEW T, S \subseteq T
  PROVE  UpTo(S, n) \subseteq Seq(T)
<1>1. ASSUME NEW k \in 0 .. n, NEW s \in [1 .. k -> S] PROVE s \in Seq(T)
  <2>1. s \in [1 .. k -> T] /\ k \in Nat
    OBVIOUS
  <2> QED
    BY <2>1, Arrow
<1> QED
  BY <1>1 DEF UpTo

\* The inputs of the runs are such conversations.
LEMMA InputsTyped == Inputs \subseteq Seq(Items(RunWords))
<1>1. /\ <<>> \in Seq(RunWords) /\ <<Exec>> \in Seq(RunWords) /\ <<Read>> \in Seq(RunWords)
      /\ <<Server>> \in Seq(RunWords)
  BY DEF RunWords
<1>3. Reasoning \in Items(RunWords)
  BY DEF Items
<1>4. \A id \in Nat, ns \in Seq(RunWords), name \in Seq(RunWords), custom \in BOOLEAN :
        CallItem(id, ns, name, custom) \in Items(RunWords)
  BY DEF CallItem, Items
<1>a. MessageItem("user") \in Items(RunWords) /\ MessageItem("developer") \in Items(RunWords)
      /\ MessageItem("critic") \in Items(RunWords)
  BY DEF MessageItem, Items, RunWords
<1>b. OutputItem(1, "no") \in Items(RunWords) /\ OutputItem(2, "yes") \in Items(RunWords)
  BY DEF OutputItem, Items, RunWords
<1>c. CallItem(1, NoNamespace, <<Exec>>, TRUE) \in Items(RunWords)
  BY <1>1, <1>4 DEF NoNamespace
<1>d. CallItem(2, <<Server>>, <<Read>>, FALSE) \in Items(RunWords)
  BY <1>1, <1>4
<1>6. {MessageItem("user"), MessageItem("developer"), MessageItem("critic"), Reasoning,
       CallItem(1, NoNamespace, <<Exec>>, TRUE), CallItem(2, <<Server>>, <<Read>>, FALSE),
       OutputItem(1, "no"), OutputItem(2, "yes")} \subseteq Items(RunWords)
  BY <1>3, <1>a, <1>b, <1>c, <1>d
<1> QED
  BY <1>6, UpToSeq DEF Inputs

\* So theirs are kept.
THEOREM ConversationKept == KeepsConversation
  BY InputsTyped, EveryConversationIsKept DEF KeepsConversation

-----------------------------------------------------------------------------
(* The two ways offer the same tools *)

\* What clients offer and what models are offered; names are sequences of parts P.
ToolSet(P) ==
  [type : {"function", "custom"}, name : Seq(P)]
  \cup [type : {"namespace"}, name : Seq(P), children : Seq(Seq(P))]
  \cup {Hosted}
Offered(P) == [kind : {"function", "custom"}, namespace : Seq(P), name : Seq(P)]

ToolsAre(P) == [tool \in ToolSet(P) |-> ToolsOf(tool)]
MayOffer(P) == [t \in Offered(P) |-> IF t.name \in Allowed THEN <<t>> ELSE <<>>]
MayName(P) == [name \in Seq(P) |-> IF name \in Allowed THEN <<name>> ELSE <<>>]
ChildOf(P, namespace) ==
  [name \in Seq(P) |-> <<[kind |-> "function", namespace |-> namespace, name |-> name]>>]

\* The kinds of tools, with their fields.
LEMMA ToolTypes ==
  ASSUME NEW P, NEW tool \in ToolSet(P)
  PROVE  \/ tool.type \in {"function", "custom"} /\ tool.name \in Seq(P)
         \/ /\ tool \in [type : {"namespace"}, name : Seq(P), children : Seq(Seq(P))]
            /\ tool.type = "namespace" /\ tool.name \in Seq(P) /\ tool.children \in Seq(Seq(P))
         \/ tool.type \notin {"function", "custom", "namespace"}
<1>1. CASE tool \in [type : {"function", "custom"}, name : Seq(P)]
  BY <1>1
<1>2. CASE tool \in [type : {"namespace"}, name : Seq(P), children : Seq(Seq(P))]
  BY <1>2
<1>3. CASE tool = Hosted
  BY <1>3 DEF Hosted
<1> QED
  BY <1>1, <1>2, <1>3 DEF ToolSet

\* What the three map to are sequences.
LEMMA OfferTypes ==
  ASSUME NEW P
  PROVE  /\ Lists(MayOffer(P), Offered(P), Offered(P))
         /\ Lists(MayName(P), Seq(P), Seq(P))
         /\ \A namespace \in Seq(P) : Lists(ChildOf(P, namespace), Seq(P), Offered(P))
<1>1. \A t \in Offered(P) : <<t>> \in Seq(Offered(P)) /\ <<>> \in Seq(Offered(P))
  OBVIOUS
<1>2. \A name \in Seq(P) : <<name>> \in Seq(Seq(P)) /\ <<>> \in Seq(Seq(P))
  OBVIOUS
<1>3. Lists(MayOffer(P), Offered(P), Offered(P))
  BY <1>1 DEF Lists, MayOffer
<1>4. Lists(MayName(P), Seq(P), Seq(P))
  BY <1>2 DEF Lists, MayName
<1>5. ASSUME NEW namespace \in Seq(P) PROVE Lists(ChildOf(P, namespace), Seq(P), Offered(P))
  <2>1. ASSUME NEW name \in Seq(P)
        PROVE <<[kind |-> "function", namespace |-> namespace, name |-> name]>> \in Seq(Offered(P))
    <3>1. [kind |-> "function", namespace |-> namespace, name |-> name] \in Offered(P)
      BY DEF Offered
    <3> QED
      BY <3>1
  <2> QED
    BY <2>1 DEF Lists, ChildOf
<1> QED
  BY <1>3, <1>4, <1>5

\* The functions of a namespace, one by one.
LEMMA ChildrenOf ==
  ASSUME NEW P, NEW namespace \in Seq(P), NEW children \in Seq(Seq(P))
  PROVE  /\ FlatMap(children, ChildOf(P, namespace))
              = [i \in DOMAIN children |->
                  [kind |-> "function", namespace |-> namespace, name |-> children[i]]]
         /\ FlatMap(children, ChildOf(P, namespace)) \in Seq(Offered(P))
<1>1. Len(children) \in Nat /\ DOMAIN children = 1 .. Len(children)
      /\ \A i \in 1 .. Len(children) : children[i] \in Seq(P)
  BY SeqIsArrow
<1>2. PICK t : t = [i \in 1 .. Len(children) |->
                     [kind |-> "function", namespace |-> namespace, name |-> children[i]]]
  OBVIOUS
<1>3. t \in [1 .. Len(children) -> Offered(P)]
  BY <1>1, <1>2 DEF Offered
<1>4. t \in Seq(Offered(P)) /\ Len(t) = Len(children)
  BY <1>1, <1>3, Arrow
<1>6. PICK child : child = ChildOf(P, namespace) /\ Lists(child, Seq(P), Offered(P))
  BY OfferTypes
<1>a. ASSUME NEW i \in 1 .. Len(children) PROVE child[children[i]] = <<t[i]>>
  <2>1. PICK name \in Seq(P) : name = children[i]
    BY <1>1
  <2>2. child[name] = <<[kind |-> "function", namespace |-> namespace, name |-> name]>>
    BY <1>6 DEF ChildOf
  <2>3. t[i] = [kind |-> "function", namespace |-> namespace, name |-> name]
    BY <1>2, <2>1
  <2> QED
    BY <2>1, <2>2, <2>3
<1>b. Singles(child, children, t)
  BY <1>4, <1>a DEF Singles
<1>7. FlatMap(children, child) = t
  BY <1>4, <1>6, <1>b, MapEach
<1> QED
  BY <1>1, <1>2, <1>4, <1>6, <1>7

\* So is what a tool stands for.
LEMMA ToolsType ==
  ASSUME NEW P
  PROVE  Lists(ToolsAre(P), ToolSet(P), Offered(P))
<1>1. ASSUME NEW tool \in ToolSet(P) PROVE ToolsOf(tool) \in Seq(Offered(P))
  <2>1. CASE tool.type \in {"function", "custom"} /\ tool.name \in Seq(P)
    <3>1. <<>> \in Seq(P)
      OBVIOUS
    <3>2. [kind |-> tool.type, namespace |-> NoNamespace, name |-> tool.name] \in Offered(P)
      BY <2>1, <3>1 DEF Offered, NoNamespace
    <3> QED
      BY <2>1, <3>2 DEF ToolsOf
  <2>2. CASE tool.type = "namespace" /\ tool.name \in Seq(P) /\ tool.children \in Seq(Seq(P))
    <3>1. ToolsOf(tool) = FlatMap(tool.children, ChildOf(P, tool.name))
      BY <2>2, ChildrenOf DEF ToolsOf
    <3> QED
      BY <2>2, <3>1, ChildrenOf
  <2>3. CASE tool.type \notin {"function", "custom", "namespace"}
    <3>1. ToolsOf(tool) = <<>>
      BY <2>3 DEF ToolsOf
    <3> QED
      BY <3>1
  <2> QED
    BY <2>1, <2>2, <2>3, ToolTypes
<1> QED
  BY <1>1 DEF Lists, ToolsAre

\* _filter_codex_small_tools, tool by tool.
Filtered(tool) ==
  CASE tool.type \in {"function", "custom"} ->
         IF tool.name \in Allowed THEN <<tool>> ELSE <<>>
    [] tool.type = "namespace" ->
         LET children == Only(tool.children, LAMBDA name : name \in Allowed)
         IN  IF children = <<>> THEN <<>> ELSE <<[tool EXCEPT !.children = children]>>
    [] OTHER -> <<>>
Filters(P) == [tool \in ToolSet(P) |-> Filtered(tool)]

\* The allowed names of a namespace.
LEMMA OnlyNames ==
  ASSUME NEW P, NEW children \in Seq(Seq(P))
  PROVE  Only(children, LAMBDA name : name \in Allowed) = FlatMap(children, MayName(P))
<1>1. DOMAIN children = 1 .. Len(children) /\ \A i \in 1 .. Len(children) : children[i] \in Seq(P)
  BY SeqIsArrow
<1>2. [i \in DOMAIN children |-> IF children[i] \in Allowed THEN <<children[i]>> ELSE <<>>]
        = [i \in DOMAIN children |-> MayName(P)[children[i]]]
  BY <1>1 DEF MayName
<1> QED
  BY <1>2 DEF Only, FlatMap

\* Of one tool both ways offer the same.
LEMMA OneToolTheSame ==
  ASSUME NEW P, NEW tool \in ToolSet(P)
  PROVE  /\ Filtered(tool) \in Seq(ToolSet(P))
         /\ FlatMap(ToolsOf(tool), MayOffer(P)) = FlatMap(Filtered(tool), ToolsAre(P))
<1>1. CASE tool.type \in {"function", "custom"} /\ tool.name \in Seq(P)
  <2>1. <<>> \in Seq(P)
    OBVIOUS
  <2>2. [kind |-> tool.type, namespace |-> NoNamespace, name |-> tool.name] \in Offered(P)
    BY <1>1, <2>1 DEF Offered, NoNamespace
  <2>3. PICK t \in Offered(P) : t = [kind |-> tool.type, namespace |-> NoNamespace, name |-> tool.name]
    BY <2>2
  <2>4. ToolsOf(tool) = <<t>>
    BY <1>1, <2>3 DEF ToolsOf
  <2>5. FlatMap(<<t>>, MayOffer(P)) = MayOffer(P)[t]
    BY OfferTypes, MapOne
  <2>6. FlatMap(<<tool>>, ToolsAre(P)) = ToolsAre(P)[tool]
    BY ToolsType, MapOne
  <2>7. FlatMap(<<>>, ToolsAre(P)) = <<>>
    BY MapNothing
  <2>8. ToolsAre(P)[tool] = <<t>>
    BY <2>4 DEF ToolsAre
  <2>9. MayOffer(P)[t] = IF tool.name \in Allowed THEN <<t>> ELSE <<>>
    BY <2>3 DEF MayOffer
  <2>10. Filtered(tool) = IF tool.name \in Allowed THEN <<tool>> ELSE <<>>
    BY <1>1 DEF Filtered
  <2> QED
    BY <2>4, <2>5, <2>6, <2>7, <2>8, <2>9, <2>10
<1>2. CASE /\ tool \in [type : {"namespace"}, name : Seq(P), children : Seq(Seq(P))]
           /\ tool.type = "namespace" /\ tool.name \in Seq(P) /\ tool.children \in Seq(Seq(P))
  <2>1. PICK ns \in Seq(P), children \in Seq(Seq(P)) : ns = tool.name /\ children = tool.children
    BY <1>2
  <2>2. PICK child : child = ChildOf(P, ns) /\ Lists(child, Seq(P), Offered(P))
    BY OfferTypes
  <2>3. ToolsOf(tool) = FlatMap(children, child)
    BY <1>2, <2>1, <2>2, ChildrenOf DEF ToolsOf
  <2>4. PICK few \in Seq(Seq(P)) : few = FlatMap(children, MayName(P))
    BY OfferTypes, MapType
  <2>5. Only(tool.children, LAMBDA name : name \in Allowed) = few
    BY <2>1, <2>4, OnlyNames
  <2>6. Filtered(tool) = IF few = <<>> THEN <<>> ELSE <<[tool EXCEPT !.children = few]>>
    BY <1>2, <2>5 DEF Filtered
  <2>7. [tool EXCEPT !.children = few] \in ToolSet(P)
    BY <1>2 DEF ToolSet
  <2>8. PICK less \in ToolSet(P) : less = [tool EXCEPT !.children = few]
    BY <2>7
  <2>9. less.type = "namespace" /\ less.name = ns /\ less.children = few
    BY <1>2, <2>1, <2>8
  <2>10. ToolsOf(less) = FlatMap(few, child)
    BY <2>2, <2>9, ChildrenOf DEF ToolsOf
  <2>11. FlatMap(Filtered(tool), ToolsAre(P)) = FlatMap(few, child)
    <3>1. CASE few = <<>>
      BY <2>6, <3>1, MapNothing
    <3>2. CASE few # <<>>
      <4>1. FlatMap(<<less>>, ToolsAre(P)) = ToolsAre(P)[less]
        BY ToolsType, MapOne
      <4>2. ToolsAre(P)[less] = ToolsOf(less)
        BY DEF ToolsAre
      <4> QED
        BY <2>6, <2>8, <2>10, <3>2, <4>1, <4>2
    <3> QED
      BY <3>1, <3>2
  <2>12. PICK left : Joins(left, child, MayOffer(P), Seq(P))
    BY DEF Joins
  <2>13. PICK right : Joins(right, MayName(P), child, Seq(P))
    BY DEF Joins
  <2>14. FlatMap(FlatMap(children, child), MayOffer(P)) = FlatMap(children, left)
    BY <2>2, <2>12, OfferTypes, MapTwice
  <2>15. FlatMap(FlatMap(children, MayName(P)), child) = FlatMap(children, right)
    BY <2>2, <2>13, OfferTypes, MapTwice
  <2>16. left = right
    <3>1. ASSUME NEW name \in Seq(P) PROVE left[name] = right[name]
      <4>1. [kind |-> "function", namespace |-> ns, name |-> name] \in Offered(P)
        BY DEF Offered
      <4>2. PICK t \in Offered(P) : t = [kind |-> "function", namespace |-> ns, name |-> name]
        BY <4>1
      <4>3. child[name] = <<t>>
        BY <2>2, <4>2 DEF ChildOf
      <4>4. left[name] = FlatMap(<<t>>, MayOffer(P))
        BY <2>12, <4>3 DEF Joins
      <4>5. FlatMap(<<t>>, MayOffer(P)) = MayOffer(P)[t]
        BY OfferTypes, MapOne
      <4>6. MayOffer(P)[t] = IF name \in Allowed THEN <<t>> ELSE <<>>
        BY <4>2 DEF MayOffer
      <4>7. right[name] = FlatMap(MayName(P)[name], child)
        BY <2>13 DEF Joins
      <4>8. MayName(P)[name] = IF name \in Allowed THEN <<name>> ELSE <<>>
        BY DEF MayName
      <4>9. FlatMap(<<name>>, child) = child[name]
        BY <2>2, MapOne
      <4>10. FlatMap(<<>>, child) = <<>>
        BY MapNothing
      <4> QED
        BY <4>3, <4>4, <4>5, <4>6, <4>7, <4>8, <4>9, <4>10
    <3> QED
      BY <2>12, <2>13, <3>1 DEF Joins
  <2>17. Filtered(tool) \in Seq(ToolSet(P))
    <3>1. <<less>> \in Seq(ToolSet(P)) /\ <<>> \in Seq(ToolSet(P))
      OBVIOUS
    <3> QED
      BY <2>6, <2>8, <3>1
  <2> QED
    BY <2>3, <2>4, <2>11, <2>14, <2>15, <2>16, <2>17
<1>3. CASE tool.type \notin {"function", "custom", "namespace"}
  <2>1. ToolsOf(tool) = <<>> /\ Filtered(tool) = <<>>
    BY <1>3 DEF ToolsOf, Filtered
  <2> QED
    BY <2>1, MapNothing
<1> QED
  BY <1>1, <1>2, <1>3, ToolTypes

\* What the model is offered, tool by tool.
LEMMA ChatToolsAre ==
  ASSUME NEW P, NEW tools \in Seq(ToolSet(P)),
         NEW flat, flat = FlatMap(tools, ToolsAre(P))
  PROVE  /\ flat \in Seq(Offered(P))
         /\ ChatTools(tools, "full") = flat
         /\ ChatTools(tools, "codex-small") = FlatMap(flat, MayOffer(P))
<1>1. flat \in Seq(Offered(P))
  BY ToolsType, MapType
<1>2. FlattenSeq([i \in DOMAIN tools |-> ToolsOf(tools[i])]) = flat
  <2>1. DOMAIN tools = 1 .. Len(tools) /\ \A i \in 1 .. Len(tools) : tools[i] \in ToolSet(P)
    BY SeqIsArrow
  <2>2. [i \in DOMAIN tools |-> ToolsOf(tools[i])] = [i \in DOMAIN tools |-> ToolsAre(P)[tools[i]]]
    BY <2>1 DEF ToolsAre
  <2> QED
    BY <2>2 DEF FlatMap
<1>3. DOMAIN flat = 1 .. Len(flat) /\ \A i \in 1 .. Len(flat) : flat[i] \in Offered(P)
  BY <1>1, SeqIsArrow
<1>4. ChatTools(tools, "codex-small") = FlatMap(flat, MayOffer(P))
  <2>1. [i \in DOMAIN flat |-> IF flat[i].name \in Allowed THEN <<flat[i]>> ELSE <<>>]
          = [i \in DOMAIN flat |-> MayOffer(P)[flat[i]]]
    BY <1>3 DEF MayOffer
  <2>2. ChatTools(tools, "codex-small") = Only(flat, LAMBDA t : t.name \in Allowed)
    BY <1>2 DEF ChatTools, Only
  <2> QED
    BY <2>1, <2>2 DEF Only, FlatMap
<1>5. ChatTools(tools, "full") = flat
  <2>1. PICK each : each = [t \in Offered(P) |-> <<t>>]
    OBVIOUS
  <2>2. Lists(each, Offered(P), Offered(P))
    BY <2>1 DEF Lists
  <2>3. Singles(each, flat, flat)
    BY <1>3, <2>1 DEF Singles
  <2>4. FlatMap(flat, each) = flat
    BY <1>1, <2>2, <2>3, MapEach
  <2>5. [i \in DOMAIN flat |-> each[flat[i]]] = [i \in DOMAIN flat |-> <<flat[i]>>]
    BY <1>3, <2>1
  <2>6. ChatTools(tools, "full") = Only(flat, LAMBDA t : TRUE)
    BY <1>2 DEF ChatTools, Only
  <2>7. Only(flat, LAMBDA t : TRUE) = FlattenSeq([i \in DOMAIN flat |-> <<flat[i]>>])
    BY DEF Only
  <2> QED
    BY <2>4, <2>5, <2>6, <2>7 DEF FlatMap
<1> QED
  BY <1>1, <1>4, <1>5

\* Whatever the client offers, _responses_tools_to_chat and
\* _filter_codex_small_tools leave the same tools (OfferTheSame): what the small
\* profile may use does not depend on the wire format.
THEOREM EveryOfferIsTheSame ==
  ASSUME NEW P, NEW tools \in Seq(ToolSet(P))
  PROVE  OfferTheSame(tools)
<1>1. /\ Lists(ToolsAre(P), ToolSet(P), Offered(P)) /\ Lists(MayOffer(P), Offered(P), Offered(P))
      /\ Lists(Filters(P), ToolSet(P), ToolSet(P))
  BY ToolsType, OfferTypes, OneToolTheSame DEF Lists, Filters
<1>2. PICK flat : flat = FlatMap(tools, ToolsAre(P))
  OBVIOUS
<1>3. ChatTools(tools, "codex-small") = FlatMap(flat, MayOffer(P))
  BY <1>2, ChatToolsAre
<1>4. PICK left : Joins(left, ToolsAre(P), MayOffer(P), ToolSet(P))
  BY DEF Joins
<1>5. FlatMap(flat, MayOffer(P)) = FlatMap(tools, left)
  BY <1>1, <1>2, <1>4, MapTwice
<1>6. PICK native \in Seq(ToolSet(P)) :
        /\ native = NativeRequest(FALSE, <<>>, tools, "codex-small", "unset", TRUE).tools
        /\ native = FlatMap(tools, Filters(P))
  <2>1. DOMAIN tools = 1 .. Len(tools) /\ \A i \in 1 .. Len(tools) : tools[i] \in ToolSet(P)
    BY SeqIsArrow
  <2>2. NativeTools(tools) = FlattenSeq([i \in DOMAIN tools |-> Filtered(tools[i])])
    BY DEF NativeTools, Filtered
  <2>3. [i \in DOMAIN tools |-> Filtered(tools[i])] = [i \in DOMAIN tools |-> Filters(P)[tools[i]]]
    BY <2>1 DEF Filters
  <2>4. NativeTools(tools) = FlatMap(tools, Filters(P))
    BY <2>2, <2>3 DEF FlatMap
  <2>5. FlatMap(tools, Filters(P)) \in Seq(ToolSet(P))
    BY <1>1, MapType
  <2> QED
    BY <2>4, <2>5 DEF NativeRequest
<1>7. PICK after : after = FlatMap(native, ToolsAre(P))
  OBVIOUS
<1>8. ChatTools(native, "full") = after
  BY <1>7, ChatToolsAre
<1>9. PICK right : Joins(right, Filters(P), ToolsAre(P), ToolSet(P))
  BY DEF Joins
<1>10. after = FlatMap(tools, right)
  BY <1>1, <1>6, <1>7, <1>9, MapTwice
<1>11. left = right
  <2>1. ASSUME NEW tool \in ToolSet(P) PROVE left[tool] = right[tool]
    <3>1. left[tool] = FlatMap(ToolsOf(tool), MayOffer(P))
      BY <1>4 DEF Joins, ToolsAre
    <3>2. right[tool] = FlatMap(Filtered(tool), ToolsAre(P))
      BY <1>9 DEF Joins, Filters
    <3> QED
      BY <3>1, <3>2, OneToolTheSame
  <2> QED
    BY <1>4, <1>9, <2>1 DEF Joins
<1> QED
  BY <1>3, <1>5, <1>6, <1>8, <1>10, <1>11 DEF OfferTheSame

-----------------------------------------------------------------------------
(* The two ways ask memory about the same words *)

\* What of the messages has a role of T.
WithRole(T, P) == [m \in Messages(P) |-> IF m.role \in T THEN <<m>> ELSE <<>>]

\* The roles memory is asked by.
AskedBy == {{"user"}, {"system", "profile", "feedback"}}

\* The message memory is shown of an item.
Asked(item) ==
  IF item.type = "message" /\ item.role \in {"system", "developer", "user", "assistant"}
  THEN <<Says(ChatRole(item.role))>> ELSE <<>>
AskedOf(P) == [item \in Items(P) |-> Asked(item)]

\* Messages of roles that both ways know.
Plain(item) ==
  item.type = "message" => item.role \in {"system", "developer", "user", "assistant", "tool"}

\* What the two map to are messages.
LEMMA AskedType ==
  ASSUME NEW P
  PROVE  /\ Lists(AskedOf(P), Items(P), Messages(P))
         /\ \A T : Lists(WithRole(T, P), Messages(P), Messages(P))
<1>1. ASSUME NEW item \in Items(P) PROVE Asked(item) \in Seq(Messages(P))
  <2>1. CASE item.type = "message"
    <3>1. PICK x \in Messages(P) : x = Says(ChatRole(item.role))
      BY <2>1, ItemTypes, SaysType
    <3>2. <<x>> \in Seq(Messages(P)) /\ <<>> \in Seq(Messages(P))
      OBVIOUS
    <3> QED
      BY <3>1, <3>2 DEF Asked
  <2>2. CASE item.type # "message"
    <3>1. Asked(item) = <<>>
      BY <2>2 DEF Asked
    <3> QED
      BY <3>1
  <2> QED
    BY <2>1, <2>2
<1>2. \A m \in Messages(P) : <<m>> \in Seq(Messages(P)) /\ <<>> \in Seq(Messages(P))
  OBVIOUS
<1>3. ASSUME NEW T PROVE Lists(WithRole(T, P), Messages(P), Messages(P))
  BY <1>2 DEF Lists, WithRole
<1> QED
  BY <1>1, <1>3 DEF Lists, AskedOf

\* Calls are of no role memory is asked by.
LEMMA FlushedRole ==
  ASSUME NEW P, NEW said \in Said(P), NEW T \in AskedBy
  PROVE  FlatMap(Flushed(said), WithRole(T, P)) = FlatMap(said.messages, WithRole(T, P))
<1>1. PICK m \in Seq(Messages(P)), p \in Seq(Shown(P)) : m = said.messages /\ p = said.pending
  BY DEF Said
<1>2. CASE p = <<>>
  BY <1>1, <1>2 DEF Flushed
<1>3. CASE p # <<>>
  <2>1. PICK x \in Messages(P) : x = Calls(p)
    BY SaysType
  <2>2. PICK mx : mx = Append(m, x)
    OBVIOUS
  <2>3. PICK role : role = WithRole(T, P) /\ Lists(role, Messages(P), Messages(P))
    BY AskedType
  <2>4. Joined(FlatMap(mx, role), FlatMap(m, role), role[x])
    BY <2>2, <2>3, MapAppend
  <2>5. role[x] = <<>>
    <3>1. x.role = "assistant" /\ "assistant" \notin T
      BY <2>1 DEF Calls, AskedBy
    <3> QED
      BY <2>3, <3>1 DEF WithRole
  <2>6. PICK kept \in Seq(Messages(P)) : kept = FlatMap(m, role)
    BY <2>3, MapType
  <2>7. kept \o <<>> = kept
    BY ST!ConcatEmptySeq
  <2>8. FlatMap(mx, role) = kept
    BY <2>4, <2>5, <2>6, <2>7 DEF Joined
  <2> QED
    BY <1>1, <1>3, <2>1, <2>2, <2>3, <2>6, <2>8 DEF Flushed
<1> QED
  BY <1>2, <1>3

\* An item adds to the messages of a role what memory is shown of it.
LEMMA AfterRole ==
  ASSUME NEW P, NEW said \in Said(P), NEW item \in Items(P), Plain(item), NEW T \in AskedBy
  PROVE  Joined(FlatMap(After(said, item).messages, WithRole(T, P)),
                FlatMap(said.messages, WithRole(T, P)), FlatMap(Asked(item), WithRole(T, P)))
<1>1. PICK role : role = WithRole(T, P) /\ Lists(role, Messages(P), Messages(P))
  BY AskedType
<1>2. PICK kept \in Seq(Messages(P)) : kept = FlatMap(said.messages, role)
  BY <1>1, MapType DEF Said
<1>3. PICK f \in Seq(Messages(P)) : f = Flushed(said) /\ FlatMap(f, role) = kept
  BY <1>1, <1>2, FlushedType, FlushedRole
<1>4. kept \o <<>> = kept
  BY ST!ConcatEmptySeq
<1>5. FlatMap(<<>>, role) = <<>>
  BY MapNothing
\* A message after the others.
<1>6. ASSUME NEW x \in Messages(P), role[x] = FlatMap(Asked(item), role),
             After(said, item) = [messages |-> Append(f, x), pending |-> <<>>]
      PROVE  Joined(FlatMap(After(said, item).messages, role), kept, FlatMap(Asked(item), role))
  <2>1. PICK fx : fx = Append(f, x)
    OBVIOUS
  <2>2. Joined(FlatMap(fx, role), FlatMap(f, role), role[x])
    BY <1>1, <2>1, MapAppend
  <2>3. After(said, item).messages = fx
    BY <1>6, <2>1
  <2> QED
    BY <1>3, <1>6, <2>2, <2>3
<1>7. CASE item.type = "call"
  <2>1. After(said, item).messages = said.messages /\ Asked(item) = <<>>
    BY <1>7, AfterOthers DEF Asked
  <2> QED
    BY <1>1, <1>2, <1>4, <1>5, <2>1 DEF Joined
<1>8. CASE item.type = "output"
  <2>1. PICK x \in Messages(P) : x = Tells(item.id)
    BY <1>8, ItemTypes, SaysType
  <2>2. role[x] = <<>>
    <3>1. x.role = "tool" /\ "tool" \notin T
      BY <2>1 DEF Tells, AskedBy
    <3> QED
      BY <1>1, <3>1 DEF WithRole
  <2>3. Asked(item) = <<>>
    BY <1>8 DEF Asked
  <2>4. After(said, item) = [messages |-> Append(f, x), pending |-> <<>>]
    BY <1>3, <1>8, <2>1, AfterOthers
  <2>5. role[x] = FlatMap(Asked(item), role)
    BY <1>5, <2>2, <2>3
  <2> QED
    BY <1>1, <1>2, <1>6, <2>4, <2>5
<1>9. CASE item.type = "message"
  <2>1. PICK x \in Messages(P) : x = Says(ChatRole(item.role))
    BY <1>9, ItemTypes, SaysType
  <2>2. After(said, item) = [messages |-> Append(f, x), pending |-> <<>>]
    BY <1>3, <1>9, <2>1, AfterOthers
  <2>3. CASE item.role = "tool"
    <3>1. x.role = "tool" /\ "tool" \notin T
      BY <2>1, <2>3 DEF Says, ChatRole, AskedBy
    <3>2. role[x] = <<>>
      BY <1>1, <3>1 DEF WithRole
    <3>3. Asked(item) = <<>>
      BY <2>3 DEF Asked
    <3>4. role[x] = FlatMap(Asked(item), role)
      BY <1>5, <3>2, <3>3
    <3> QED
      BY <1>1, <1>2, <1>6, <2>2, <3>4
  <2>4. CASE item.role # "tool"
    <3>1. Asked(item) = <<x>>
      BY <1>9, <2>1, <2>4 DEF Asked, Plain
    <3>2. FlatMap(<<x>>, role) = role[x]
      BY <1>1, MapOne
    <3>3. role[x] = FlatMap(Asked(item), role)
      BY <3>1, <3>2
    <3> QED
      BY <1>1, <1>2, <1>6, <2>2, <3>3
  <2> QED
    BY <2>3, <2>4
<1>10. CASE item.type = "reasoning"
  <2>1. After(said, item).messages = f /\ Asked(item) = <<>>
    BY <1>3, <1>10, AfterOthers DEF Asked
  <2> QED
    BY <1>1, <1>2, <1>3, <1>4, <1>5, <2>1 DEF Joined
<1> QED
  BY <1>7, <1>8, <1>9, <1>10, ItemTypes

\* Both ways show memory the same messages of such a role.
LEMMA SameRole ==
  ASSUME NEW P, NEW input \in Seq(Items(P)), NEW instructed \in BOOLEAN, NEW T \in AskedBy,
         \A i \in 1 .. Len(input) : Plain(input[i]),
         NEW shown, Joined(shown, First(instructed), FlatMap(input, AskedOf(P)))
  PROVE  /\ shown \in Seq(Messages(P))
         /\ FlatMap(ChatMessages(instructed, input), WithRole(T, P))
              = FlatMap(shown, WithRole(T, P))
<1>0. Len(input) \in Nat /\ \A i \in 1 .. Len(input) : input[i] \in Items(P)
  BY SeqIsArrow
<1>1. PICK run : /\ SaysOn(run, Start(instructed), input, P)
                 /\ ChatMessages(instructed, input) = Flushed(run[Len(input)])
  BY ChatLoop
<1>2. /\ run \in [0 .. Len(input) -> Said(P)] /\ run[0] = Start(instructed)
      /\ \A i \in 1 .. Len(input) : run[i] = After(run[i - 1], input[i])
  BY <1>1 DEF SaysOn
<1>3. PICK role : role = WithRole(T, P) /\ Lists(role, Messages(P), Messages(P))
  BY AskedType
<1>4. PICK asked : asked = AskedOf(P) /\ Lists(asked, Items(P), Messages(P))
  BY AskedType
<1>5. PICK first \in Seq(Messages(P)), found \in Seq(Messages(P)) :
        first = First(instructed) /\ found = FlatMap(input, asked)
  BY <1>4, StartWords, MapType
<1>6. shown \in Seq(Messages(P)) /\ Joined(shown, first, found)
  <2>1. Joined(shown, first, found)
    BY <1>4, <1>5
  <2> QED
    BY <2>1, ST!ConcatProperties DEF Joined
<1>7. PICK both : Joins(both, asked, role, Items(P))
  BY DEF Joins
<1>8. FlatMap(found, role) = FlatMap(input, both) /\ Lists(both, Items(P), Messages(P))
  BY <1>3, <1>4, <1>5, <1>7, MapTwice
<1>9. Joined(FlatMap(shown, role), FlatMap(first, role), FlatMap(found, role))
  BY <1>3, <1>6, MapConcat
<1>10. PICK told : Maps(told, input, both, Messages(P))
  BY <1>8, Mapping
<1>11. /\ told \in [0 .. Len(input) -> Seq(Messages(P))] /\ told[0] = <<>>
       /\ \A i \in 1 .. Len(input) : told[i] = told[i - 1] \o both[input[i]]
  BY <1>10 DEF Maps
<1>12. FlatMap(input, both) = told[Len(input)]
  BY <1>8, <1>10, MapEnds
<1>13. PICK base \in Seq(Messages(P)) : base = FlatMap(first, role)
  BY <1>3, MapType
<1> DEFINE On == {i \in 0 .. Len(input) : Joined(FlatMap(run[i].messages, role), base, told[i])}
<1>14. 0 \in On
  <2>1. run[0].messages = first
    BY <1>2, <1>5 DEF Start
  <2>2. base \o <<>> = base
    BY ST!ConcatEmptySeq
  <2>3. Joined(FlatMap(run[0].messages, role), base, told[0])
    BY <1>11, <1>13, <2>1, <2>2 DEF Joined
  <2> QED
    BY <1>0, <2>3
<1>15. ASSUME NEW i \in 1 .. Len(input), i - 1 \in On PROVE i \in On
  <2>1. i \in 0 .. Len(input) /\ i - 1 \in 0 .. Len(input)
    BY <1>0
  <2>2. PICK said \in Said(P), item \in Items(P) :
          said = run[i - 1] /\ item = input[i] /\ Plain(item)
    BY <1>0, <1>2, <2>1
  <2>3. Joined(FlatMap(run[i].messages, role), FlatMap(said.messages, role),
               FlatMap(Asked(item), role))
    BY <1>2, <1>3, <2>2, AfterRole
  <2>4. both[item] = FlatMap(Asked(item), role)
    BY <1>4, <1>7 DEF Joins, AskedOf
  <2>5. Joined(FlatMap(said.messages, role), base, told[i - 1])
    BY <1>15, <2>2
  <2>6. PICK a \in Seq(Messages(P)), b \in Seq(Messages(P)) : a = told[i - 1] /\ b = both[item]
    BY <1>8, <1>11, <2>1 DEF Lists
  <2>7. (base \o a) \o b = base \o (a \o b)
    BY ST!ConcatAssociative
  <2>8. told[i] = a \o b
    BY <1>11, <2>2, <2>6
  <2>9. FlatMap(run[i].messages, role) = (base \o a) \o b
    BY <2>3, <2>4, <2>5, <2>6 DEF Joined
  <2>10. Joined(FlatMap(run[i].messages, role), base, told[i])
    BY <2>7, <2>8, <2>9 DEF Joined
  <2> QED
    BY <2>1, <2>10
<1>16. \A i \in 0 .. Len(input) : i \in On
  <2> HIDE DEF On
  <2> QED
    BY <1>0, <1>14, <1>15, Inductive
<1>17. Len(input) \in 0 .. Len(input) /\ Len(input) \in On
  <2> HIDE DEF On
  <2> QED
    BY <1>0, <1>16
<1>18. PICK said \in Said(P) : said = run[Len(input)]
  BY <1>2, <1>17
<1>19. FlatMap(Flushed(said), role) = FlatMap(said.messages, role)
  BY <1>3, FlushedRole
<1> QED
  BY <1>1, <1>3, <1>6, <1>8, <1>9, <1>12, <1>13, <1>17, <1>18, <1>19 DEF Joined

\* No more messages than items, but for the instructions.
Fits(said, n) == Len(said.messages) + (IF said.pending = <<>> THEN 0 ELSE 1) <= n

\* Pending calls are one message.
LEMMA FlushedFits ==
  ASSUME NEW P, NEW said \in Said(P), NEW n \in Nat, Fits(said, n)
  PROVE  Len(Flushed(said)) \in Nat /\ Len(Flushed(said)) <= n
<1>1. PICK m \in Seq(Messages(P)), p \in Seq(Shown(P)) : m = said.messages /\ p = said.pending
  BY DEF Said
<1>2. Len(m) \in Nat
  BY SeqIsArrow
<1>3. CASE p = <<>>
  BY <1>1, <1>2, <1>3 DEF Flushed, Fits
<1>4. CASE p # <<>>
  <2>1. PICK x \in Messages(P) : x = Calls(p)
    BY SaysType
  <2>2. Len(Append(m, x)) = Len(m) + 1
    BY ST!AppendProperties
  <2>3. Flushed(said) = Append(m, x)
    BY <1>1, <1>4, <2>1 DEF Flushed
  <2>4. Len(m) + 1 <= n
    BY <1>1, <1>4 DEF Fits
  <2> QED
    BY <1>2, <2>2, <2>3, <2>4
<1> QED
  BY <1>3, <1>4

\* An item is one message at most.
LEMMA AfterFits ==
  ASSUME NEW P, NEW said \in Said(P), NEW item \in Items(P), NEW n \in Nat, Fits(said, n)
  PROVE  Fits(After(said, item), n + 1)
<1>1. PICK f \in Seq(Messages(P)) : f = Flushed(said) /\ Len(f) \in Nat /\ Len(f) <= n
  BY FlushedType, FlushedFits
<1>2. ASSUME NEW x \in Messages(P),
             After(said, item) = [messages |-> Append(f, x), pending |-> <<>>]
      PROVE  Fits(After(said, item), n + 1)
  <2>1. Len(Append(f, x)) = Len(f) + 1
    BY ST!AppendProperties
  <2>2. Len(After(said, item).messages) = Len(f) + 1 /\ After(said, item).pending = <<>>
    BY <1>2, <2>1
  <2> QED
    BY <1>1, <2>2 DEF Fits
<1>3. CASE item.type = "call"
  <2>1. After(said, item).messages = said.messages
    BY <1>3, AfterOthers
  <2>2. PICK k \in Nat, m \in 0 .. 1 :
          k = Len(said.messages) /\ m = (IF said.pending = <<>> THEN 0 ELSE 1)
    BY SeqIsArrow DEF Said
  <2>a. k + m <= n
    BY <2>2 DEF Fits
  <2>3. k <= n
    BY <2>a
  <2>4. PICK l \in 0 .. 1 : l = (IF After(said, item).pending = <<>> THEN 0 ELSE 1)
    OBVIOUS
  <2>5. k + l <= n + 1
    BY <2>3
  <2> QED
    BY <2>1, <2>2, <2>4, <2>5 DEF Fits
<1>4. CASE item.type = "output"
  <2>1. PICK x \in Messages(P) : x = Tells(item.id)
    BY <1>4, ItemTypes, SaysType
  <2> QED
    BY <1>1, <1>2, <1>4, <2>1, AfterOthers
<1>5. CASE item.type = "message"
  <2>1. PICK x \in Messages(P) : x = Says(ChatRole(item.role))
    BY <1>5, ItemTypes, SaysType
  <2> QED
    BY <1>1, <1>2, <1>5, <2>1, AfterOthers
<1>6. CASE item.type = "reasoning"
  <2>1. After(said, item).messages = f /\ After(said, item).pending = <<>>
    BY <1>1, <1>6, AfterOthers
  <2> QED
    BY <1>1, <2>1 DEF Fits
<1> QED
  BY <1>3, <1>4, <1>5, <1>6, ItemTypes

\* So the conversation has no more of them than items.
LEMMA MessagesFit ==
  ASSUME NEW P, NEW input \in Seq(Items(P)), NEW instructed \in BOOLEAN
  PROVE  Len(ChatMessages(instructed, input)) <= Len(input) + 1
<1>0. Len(input) \in Nat /\ \A i \in 1 .. Len(input) : input[i] \in Items(P)
  BY SeqIsArrow
<1>1. PICK run : /\ SaysOn(run, Start(instructed), input, P)
                 /\ ChatMessages(instructed, input) = Flushed(run[Len(input)])
  BY ChatLoop
<1>2. /\ run \in [0 .. Len(input) -> Said(P)] /\ run[0] = Start(instructed)
      /\ \A i \in 1 .. Len(input) : run[i] = After(run[i - 1], input[i])
  BY <1>1 DEF SaysOn
<1> DEFINE On == {i \in 0 .. Len(input) : Fits(run[i], i + 1)}
<1>3. 0 \in On
  <2>1. run[0].messages = First(instructed) /\ run[0].pending = <<>>
    BY <1>2 DEF Start
  <2>2. Len(First(instructed)) \in Nat /\ Len(First(instructed)) <= 1
    BY DEF First
  <2>3. PICK said \in Said(P) : said = run[0]
    BY <1>0, <1>2
  <2>4. PICK m \in Seq(Messages(P)) : m = said.messages
    BY DEF Said
  <2>5. Len(m) \in Nat /\ Len(m) <= 1 /\ said.pending = <<>>
    BY <2>1, <2>2, <2>3, <2>4
  <2>6. Len(m) + 0 <= 1
    BY <2>5
  <2>7. Fits(said, 1)
    BY <2>4, <2>5, <2>6 DEF Fits
  <2> QED
    BY <1>0, <2>3, <2>7
<1>4. ASSUME NEW i \in 1 .. Len(input), i - 1 \in On PROVE i \in On
  <2>1. i \in 0 .. Len(input) /\ i - 1 \in 0 .. Len(input) /\ i \in Nat /\ (i - 1) + 1 = i
    BY <1>0
  <2>2. PICK said \in Said(P), item \in Items(P) : said = run[i - 1] /\ item = input[i]
    BY <1>0, <1>2, <2>1
  <2>3. Fits(said, i)
    BY <1>4, <2>1, <2>2
  <2>4. Fits(After(said, item), i + 1)
    BY <2>1, <2>3, AfterFits
  <2> QED
    BY <1>2, <2>1, <2>2, <2>4
<1>5. \A i \in 0 .. Len(input) : i \in On
  <2> HIDE DEF On
  <2> QED
    BY <1>0, <1>3, <1>4, Inductive
<1>6. Len(input) \in 0 .. Len(input) /\ Len(input) \in On
  <2> HIDE DEF On
  <2> QED
    BY <1>0, <1>5
<1>7. PICK said \in Said(P), n \in Nat : said = run[Len(input)] /\ n = Len(input) + 1
  BY <1>0, <1>2, <1>6
<1>8. Fits(said, n)
  BY <1>6, <1>7
<1>9. Len(Flushed(said)) <= n
  BY <1>8, FlushedFits
<1> QED
  BY <1>1, <1>7, <1>9

\* What has at most one for every element is not longer.
LEMMA MapShort ==
  ASSUME NEW S, NEW U, NEW s \in Seq(S), NEW F, Lists(F, S, U), \A x \in S : Len(F[x]) <= 1
  PROVE  Len(FlatMap(s, F)) <= Len(s)
<1>1. Len(s) \in Nat /\ \A i \in 1 .. Len(s) : s[i] \in S
  BY SeqIsArrow
<1>2. PICK f : Maps(f, s, F, U)
  BY Mapping
<1>3. /\ f \in [0 .. Len(s) -> Seq(U)] /\ f[0] = <<>>
      /\ \A i \in 1 .. Len(s) : f[i] = f[i - 1] \o F[s[i]]
  BY <1>2 DEF Maps
<1>4. FlatMap(s, F) = f[Len(s)]
  BY <1>2, MapEnds
<1> DEFINE On == {i \in 0 .. Len(s) : Len(f[i]) <= i}
<1>5. 0 \in On
  BY <1>1, <1>3
<1>6. ASSUME NEW i \in 1 .. Len(s), i - 1 \in On PROVE i \in On
  <2>1. i \in 0 .. Len(s) /\ i - 1 \in 0 .. Len(s) /\ Len(f[i - 1]) <= i - 1
    BY <1>1, <1>6
  <2>2. PICK a \in Seq(U), b \in Seq(U) : a = f[i - 1] /\ b = F[s[i]]
    BY <1>1, <1>3, <2>1 DEF Lists
  <2>3. Len(a \o b) = Len(a) + Len(b)
    BY ST!ConcatProperties
  <2>4. Len(a) \in Nat /\ Len(b) \in Nat /\ Len(a) <= i - 1 /\ Len(b) <= 1
    BY <1>1, <2>1, <2>2, SeqIsArrow
  <2>5. f[i] = a \o b
    BY <1>3, <2>2
  <2>6. Len(f[i]) <= i
    BY <1>1, <2>3, <2>4, <2>5
  <2> QED
    BY <2>1, <2>6
<1>7. \A i \in 0 .. Len(s) : i \in On
  <2> HIDE DEF On
  <2> QED
    BY <1>1, <1>5, <1>6, Inductive
<1> QED
  BY <1>1, <1>4, <1>7

\* Of at most twelve messages the query sees all.
LEMMA QueryOf ==
  ASSUME NEW P, NEW m \in Seq(Messages(P)), Len(m) <= 12
  PROVE  Query(m) = LET users == FlatMap(m, WithRole({"user"}, P))
                        systems == FlatMap(m, WithRole({"system", "profile", "feedback"}, P))
                    IN  IF users # <<>> THEN LastOf(users, 4) ELSE LastOf(systems, 2)
<1>1. DOMAIN m = 1 .. Len(m) /\ Len(m) \in Nat /\ \A i \in 1 .. Len(m) : m[i] \in Messages(P)
  BY SeqIsArrow
<1>2. LastOf(m, 12) = m
  <2>1. ~(Len(m) > 12)
    BY <1>1
  <2>2. SubSeq(m, 1, Len(m)) = m
    BY ST!SubSeqFull
  <2> QED
    BY <2>1, <2>2 DEF LastOf
<1>3. Only(m, LAMBDA said : said.role = "user") = FlatMap(m, WithRole({"user"}, P))
  <2>1. [i \in DOMAIN m |-> IF m[i].role = "user" THEN <<m[i]>> ELSE <<>>]
          = [i \in DOMAIN m |-> WithRole({"user"}, P)[m[i]]]
    BY <1>1 DEF WithRole
  <2> QED
    BY <2>1 DEF Only, FlatMap
<1>4. Only(m, LAMBDA said : said.role \in {"system", "profile", "feedback"})
        = FlatMap(m, WithRole({"system", "profile", "feedback"}, P))
  <2>1. [i \in DOMAIN m |-> IF m[i].role \in {"system", "profile", "feedback"}
                            THEN <<m[i]>> ELSE <<>>]
          = [i \in DOMAIN m |-> WithRole({"system", "profile", "feedback"}, P)[m[i]]]
    BY <1>1 DEF WithRole
  <2> QED
    BY <2>1 DEF Only, FlatMap
<1> QED
  BY <1>2, <1>3, <1>4 DEF Query

\* Memory is shown all messages of a short conversation.
LEMMA Retrieval ==
  ASSUME NEW P, NEW input \in Seq(Items(P)), NEW instructed \in BOOLEAN, Len(input) <= 11
  PROVE  /\ Joined(RetrievalMessages(instructed, input), First(instructed),
                   FlatMap(input, AskedOf(P)))
         /\ Len(RetrievalMessages(instructed, input)) <= 12
<1>1. DOMAIN input = 1 .. Len(input) /\ Len(input) \in Nat
      /\ \A i \in 1 .. Len(input) : input[i] \in Items(P)
  BY SeqIsArrow
<1>2. LastOf(input, 16) = input
  <2>1. ~(Len(input) > 16)
    BY <1>1
  <2>2. SubSeq(input, 1, Len(input)) = input
    BY ST!SubSeqFull
  <2> QED
    BY <2>1, <2>2 DEF LastOf
<1>3. [i \in DOMAIN input |-> Asked(input[i])] = [i \in DOMAIN input |-> AskedOf(P)[input[i]]]
  BY <1>1 DEF AskedOf
<1>4. RetrievalMessages(instructed, input)
        = First(instructed) \o FlattenSeq([i \in DOMAIN input |-> Asked(input[i])])
  BY <1>2 DEF RetrievalMessages, Asked, First
<1>5. RetrievalMessages(instructed, input) = First(instructed) \o FlatMap(input, AskedOf(P))
  BY <1>3, <1>4 DEF FlatMap
<1>6. PICK asked : asked = AskedOf(P) /\ Lists(asked, Items(P), Messages(P))
  BY AskedType
<1>7. \A item \in Items(P) : Len(asked[item]) <= 1
  BY <1>6 DEF AskedOf, Asked
<1>8. Len(FlatMap(input, asked)) <= Len(input)
  BY <1>6, <1>7, MapShort
<1>9. PICK a \in Seq(Messages(P)), b \in Seq(Messages(P)) :
        a = First(instructed) /\ b = FlatMap(input, asked)
  BY <1>6, StartWords, MapType
<1>10. Len(a \o b) = Len(a) + Len(b) /\ Len(a) \in Nat /\ Len(a) <= 1 /\ Len(b) \in Nat
  BY <1>9, ST!ConcatProperties, SeqIsArrow DEF First
<1>a. Len(b) <= Len(input)
  BY <1>8, <1>9
<1>11. Len(a) + Len(b) <= 12
  BY <1>1, <1>10, <1>a
<1>12. RetrievalMessages(instructed, input) = a \o b
  BY <1>5, <1>6, <1>9
<1> QED
  BY <1>5, <1>10, <1>11, <1>12 DEF Joined

\* As long as the conversation fits what both ways look at (eleven items after
\* the instructions), and its roles are known to both, _retrieval_query asks
\* memory about the same words in both wire formats (AskTheSame).
THEOREM EveryQuestionIsTheSame ==
  ASSUME NEW P, NEW input \in Seq(Items(P)), NEW instructed \in BOOLEAN, Len(input) <= 11,
         \A i \in 1 .. Len(input) : Plain(input[i])
  PROVE  AskTheSame(input, instructed)
<1>0. Len(input) \in Nat
  BY SeqIsArrow
<1>1. PICK shown : /\ shown = RetrievalMessages(instructed, input) /\ Len(shown) <= 12
                   /\ Joined(shown, First(instructed), FlatMap(input, AskedOf(P)))
  BY Retrieval
<1>2. PICK messages \in Seq(Messages(P)) :
        messages = ChatMessages(instructed, input) /\ Len(messages) <= 12
  <2>1. Len(ChatMessages(instructed, input)) <= Len(input) + 1
    BY MessagesFit
  <2>2. ChatMessages(instructed, input) \in Seq(Messages(P))
    BY AllAreTold
  <2>3. Len(ChatMessages(instructed, input)) \in Nat
    BY <2>2, SeqIsArrow
  <2> QED
    BY <1>0, <2>1, <2>2, <2>3
<1>3. PICK T1 \in AskedBy, T2 \in AskedBy : T1 = {"user"} /\ T2 = {"system", "profile", "feedback"}
  BY DEF AskedBy
<1>4. /\ shown \in Seq(Messages(P))
      /\ FlatMap(messages, WithRole(T1, P)) = FlatMap(shown, WithRole(T1, P))
  BY <1>1, <1>2, SameRole
<1>5. FlatMap(messages, WithRole(T2, P)) = FlatMap(shown, WithRole(T2, P))
  BY <1>1, <1>2, SameRole
<1>6. Query(messages) = Query(shown)
  <2>1. Query(messages) = LET users == FlatMap(messages, WithRole({"user"}, P))
                              systems == FlatMap(messages, WithRole({"system", "profile", "feedback"}, P))
                          IN  IF users # <<>> THEN LastOf(users, 4) ELSE LastOf(systems, 2)
    BY <1>2, QueryOf
  <2>2. Query(shown) = LET users == FlatMap(shown, WithRole({"user"}, P))
                           systems == FlatMap(shown, WithRole({"system", "profile", "feedback"}, P))
                       IN  IF users # <<>> THEN LastOf(users, 4) ELSE LastOf(systems, 2)
    BY <1>1, <1>4, QueryOf
  <2> QED
    BY <1>3, <1>4, <1>5, <2>1, <2>2
<1>7. ChatRequest(instructed, input, "full").query = Query(messages)
  BY <1>2 DEF ChatRequest, Conversation
<1>8. shown # <<>> =>
        NativeRequest(instructed, input, <<>>, "full", "unset", TRUE).query = Query(shown)
  BY <1>1 DEF NativeRequest
<1> QED
  BY <1>1, <1>6, <1>7, <1>8 DEF AskTheSame

-----------------------------------------------------------------------------
(* What the client is told to call it can be asked about again *)

Wire(t) == WireName(t.namespace, t.name)

\* The tool a wire name stands for is one that is offered under it.
LEMMA MetadataOf ==
  ASSUME NEW P, NEW offered \in Seq(Offered(P)), NEW w \in DOMAIN Metadata(offered)
  PROVE  \E i \in 1 .. Len(offered) :
           /\ Metadata(offered)[w] = offered[i] /\ Wire(offered[i]) = w
           /\ offered[i] \in Offered(P)
<1>1. /\ DOMAIN offered = 1 .. Len(offered) /\ Len(offered) \in Nat
      /\ \A i \in 1 .. Len(offered) : offered[i] \in Offered(P)
  BY SeqIsArrow
<1>2. PICK T : T = {i \in 1 .. Len(offered) : Wire(offered[i]) = w}
  OBVIOUS
<1>3. w \in {Wire(offered[i]) : i \in DOMAIN offered}
  BY DEF Metadata, Wire
<1>4. T \in SUBSET (1 .. Len(offered)) /\ T # {}
  BY <1>1, <1>2, <1>3
<1>5. PICK m \in T : \A j \in T : m >= j
  BY <1>1, <1>4, HasLast
<1>6. PICK last : last = CHOOSE i \in DOMAIN offered :
                           Wire(offered[i]) = w
                           /\ \A j \in DOMAIN offered : Wire(offered[j]) = w => j <= i
  OBVIOUS
<1>7. Metadata(offered)[w] = offered[last]
  BY <1>3, <1>6 DEF Metadata, Wire
<1>8. m \in DOMAIN offered /\ Wire(offered[m]) = w
      /\ \A j \in DOMAIN offered : Wire(offered[j]) = w => j <= m
  <2>1. \A j \in DOMAIN offered : Wire(offered[j]) = w => j \in T /\ j \in 1 .. Len(offered)
    BY <1>1, <1>2
  <2>2. m \in 1 .. Len(offered) /\ Wire(offered[m]) = w
    BY <1>2
  <2> QED
    BY <1>1, <1>5, <2>1, <2>2
<1>9. last \in DOMAIN offered /\ Wire(offered[last]) = w
  BY <1>6, <1>8
<1> QED
  BY <1>1, <1>7, <1>9

\* The items of a reply.
Answered(P) ==
  [type : {"call"}, id : Nat, namespace : Seq(P), name : Seq(P), custom : BOOLEAN]
Replied(P) == {MessageItem("assistant")} \cup Answered(P)

\* A call is of something offered.
IsOffered(item, offered) == \E i \in 1 .. Len(offered) : item.name = offered[i].name

\* A call by a wire name is shown by that wire name again.
LEMMA CallItemOf ==
  ASSUME NEW P, NEW offered \in Seq(Offered(P)), NEW w \in Seq(P), NEW id \in Nat
  PROVE  /\ ToolCallItem(w, id, Metadata(offered)) \in Answered(P)
         /\ ToolCallItem(w, id, Metadata(offered)).type = "call"
         /\ ChatCall(ToolCallItem(w, id, Metadata(offered))).wire = w
         /\ w \in DOMAIN Metadata(offered) =>
              IsOffered(ToolCallItem(w, id, Metadata(offered)), offered)
<1>1. CASE w \in DOMAIN Metadata(offered)
  <2>1. PICK i \in 1 .. Len(offered) :
          /\ Metadata(offered)[w] = offered[i] /\ Wire(offered[i]) = w
          /\ offered[i] \in Offered(P)
    BY <1>1, MetadataOf
  <2>2. PICK t \in Offered(P) : t = offered[i]
    BY <2>1
  <2>3. ToolCallItem(w, id, Metadata(offered)) = CallItem(id, t.namespace, t.name, t.kind = "custom")
    BY <1>1, <2>1, <2>2 DEF ToolCallItem
  <2>4. t.namespace \in Seq(P) /\ t.name \in Seq(P) /\ WireName(t.namespace, t.name) = w
    BY <2>1, <2>2 DEF Offered, Wire
  <2>5. PICK custom \in BOOLEAN : custom = (t.kind = "custom")
    OBVIOUS
  <2>6. PICK item : item = CallItem(id, t.namespace, t.name, custom)
    OBVIOUS
  <2>7. item \in Answered(P) /\ item.type = "call" /\ item.name = t.name
        /\ ChatCall(item).wire = WireName(t.namespace, t.name)
    BY <2>4, <2>6 DEF CallItem, Answered, ChatCall
  <2> QED
    BY <2>2, <2>3, <2>4, <2>5, <2>6, <2>7 DEF IsOffered
<1>2. CASE w \notin DOMAIN Metadata(offered)
  <2>1. ToolCallItem(w, id, Metadata(offered)) = CallItem(id, <<>>, w, FALSE)
    BY <1>2 DEF ToolCallItem, NoNamespace
  <2>2. PICK none \in Seq(P) : none = <<>> /\ none \o w = w
    <3>1. <<>> \in Seq(P) /\ <<>> \o w = w
      BY ST!ConcatEmptySeq
    <3> QED
      BY <3>1
  <2>3. PICK item : item = CallItem(id, none, w, FALSE)
    OBVIOUS
  <2>4. item \in Answered(P) /\ item.type = "call" /\ ChatCall(item).wire = none \o w
    BY <2>3 DEF CallItem, Answered, ChatCall, WireName
  <2> QED
    BY <1>2, <2>1, <2>2, <2>3, <2>4
<1> QED
  BY <1>1, <1>2

-----------------------------------------------------------------------------
(* The events of a reply *)

Created == [type |-> "created"]
Completed == [type |-> "completed"]
DoneSet(R) == [type : {"done"}, item : R]
EventSet(R) == DoneSet(R) \cup {Created, Completed}
DoneOf(R) == [event \in EventSet(R) |-> IF event.type = "done" THEN <<event>> ELSE <<>>]

\* The events tell every item, in order, and nothing else.
LEMMA DoneEvents ==
  ASSUME NEW R, NEW items \in Seq(R)
  PROVE  ItemsOf(Events(items)) = items
<1>1. Len(items) \in Nat /\ DOMAIN items = 1 .. Len(items) /\ items \in [1 .. Len(items) -> R]
  BY SeqIsArrow
<1>2. PICK d : d = [i \in DOMAIN items |-> [type |-> "done", item |-> items[i]]]
  OBVIOUS
<1>3. d \in [1 .. Len(items) -> DoneSet(R)]
  BY <1>1, <1>2 DEF DoneSet
<1>4. d \in [1 .. Len(items) -> EventSet(R)]
  BY <1>3 DEF EventSet
<1>5. d \in Seq(EventSet(R)) /\ Len(d) = Len(items) /\ DOMAIN d = 1 .. Len(items)
  BY <1>1, <1>4, Arrow
<1>6. PICK F : F = DoneOf(R) /\ Lists(F, EventSet(R), EventSet(R))
  <2>1. ASSUME NEW event \in EventSet(R)
        PROVE  (IF event.type = "done" THEN <<event>> ELSE <<>>) \in Seq(EventSet(R))
    <3>1. <<event>> \in Seq(EventSet(R)) /\ <<>> \in Seq(EventSet(R))
      OBVIOUS
    <3> QED
      BY <3>1
  <2>2. DoneOf(R) \in [EventSet(R) -> Seq(EventSet(R))]
    BY <2>1 DEF DoneOf
  <2> QED
    BY <2>2 DEF Lists
<1>7. FlatMap(d, F) = d
  <2>1. \A i \in 1 .. Len(d) : F[d[i]] = <<d[i]>>
    BY <1>2, <1>3, <1>4, <1>5, <1>6 DEF DoneOf, DoneSet
  <2>2. Singles(F, d, d)
    BY <2>1 DEF Singles
  <2> QED
    BY <1>5, <1>6, <2>2, MapEach
<1>8. PICK c \in EventSet(R), e \in EventSet(R) : c = Created /\ e = Completed
  BY DEF EventSet
<1>9. F[c] = <<>> /\ F[e] = <<>>
  BY <1>6, <1>8 DEF DoneOf, Created, Completed
<1>10. PICK cs \in Seq(EventSet(R)), es \in Seq(EventSet(R)) : cs = <<c>> /\ es = <<e>>
  <2>1. <<c>> \in Seq(EventSet(R)) /\ <<e>> \in Seq(EventSet(R))
    OBVIOUS
  <2> QED
    BY <2>1
<1>11. FlatMap(cs, F) = <<>> /\ FlatMap(es, F) = <<>>
  BY <1>6, <1>9, <1>10, MapOne
<1>12. PICK cd \in Seq(EventSet(R)) : cd = cs \o d
  BY <1>5, ST!ConcatProperties
<1>13. PICK all \in Seq(EventSet(R)) : all = cd \o es
  BY ST!ConcatProperties
<1>14. Joined(cd, cs, d) /\ Joined(all, cd, es)
  BY <1>12, <1>13 DEF Joined
<1>15. Joined(FlatMap(cd, F), FlatMap(cs, F), FlatMap(d, F))
  BY <1>5, <1>6, <1>14, MapConcat
<1>16. <<>> \o d = d /\ d \o <<>> = d
  BY <1>5, ST!ConcatEmptySeq
<1>17. FlatMap(cd, F) = d
  BY <1>7, <1>11, <1>15, <1>16 DEF Joined
<1>18. Joined(FlatMap(all, F), FlatMap(cd, F), FlatMap(es, F))
  BY <1>6, <1>14, MapConcat
<1>19. FlatMap(all, F) = d
  BY <1>11, <1>16, <1>17, <1>18 DEF Joined
<1>20. Events(items) = all
  BY <1>2, <1>8, <1>10, <1>12, <1>13 DEF Events, Created, Completed
<1>21. Only(all, LAMBDA event : event.type = "done") = d
  <2>1. DOMAIN all = 1 .. Len(all) /\ \A i \in 1 .. Len(all) : all[i] \in EventSet(R)
    BY SeqIsArrow
  <2>2. [i \in DOMAIN all |-> IF all[i].type = "done" THEN <<all[i]>> ELSE <<>>]
          = [i \in DOMAIN all |-> F[all[i]]]
    BY <1>6, <2>1 DEF DoneOf
  <2> QED
    BY <1>19, <2>2 DEF Only, FlatMap
<1>22. [i \in DOMAIN d |-> d[i].item] = items
  BY <1>1, <1>2, <1>5
<1> QED
  BY <1>20, <1>21, <1>22 DEF ItemsOf

\* What models answer: calls by wire names, and texts of objects and of prose.
Answer(P) == [wire : Seq(P), id : Nat]
Printed(P) == [kind : {"object"}, name : Seq(P)] \cup {Prose}

Known(calls, metadata, profile) ==
  Only(calls, LAMBDA c : profile = "full" \/ c.wire \in DOMAIN metadata)
KnownOf(P, metadata, profile) ==
  [c \in Answer(P) |-> IF profile = "full" \/ c.wire \in DOMAIN metadata THEN <<c>> ELSE <<>>]
ShownOf(P) ==
  [item \in Replied(P) |-> IF item.type = "call" THEN <<ChatCall(item).wire>> ELSE <<>>]

\* What the small profile offers is allowed.
LEMMA OfferedAre ==
  ASSUME NEW P, NEW tools \in Seq(ToolSet(P)), NEW profile \in Profiles
  PROVE  /\ ChatTools(tools, profile) \in Seq(Offered(P))
         /\ profile = "codex-small" =>
              \A i \in 1 .. Len(ChatTools(tools, profile)) :
                ChatTools(tools, profile)[i].name \in Allowed
<1>1. PICK flat : flat = FlatMap(tools, ToolsAre(P))
  OBVIOUS
<1>2. /\ flat \in Seq(Offered(P)) /\ ChatTools(tools, "full") = flat
      /\ ChatTools(tools, "codex-small") = FlatMap(flat, MayOffer(P))
  BY <1>1, ChatToolsAre
<1>3. PICK F : F = MayOffer(P) /\ Lists(F, Offered(P), Offered(P))
  BY OfferTypes
<1>4. PICK few \in Seq(Offered(P)) : few = FlatMap(flat, F)
  BY <1>2, <1>3, MapType
<1>5. ASSUME NEW i \in 1 .. Len(few) PROVE few[i].name \in Allowed
  <2>1. PICK x : x = few[i]
    OBVIOUS
  <2>2. Among(x, FlatMap(flat, F))
    BY <1>4, <2>1 DEF Among
  <2>3. PICK j \in 1 .. Len(flat) : Among(x, F[flat[j]])
    BY <1>2, <1>3, <2>2, MapAmong
  <2>4. PICK t \in Offered(P) : t = flat[j]
    BY <1>2, SeqIsArrow
  <2>5. Among(x, IF t.name \in Allowed THEN <<t>> ELSE <<>>)
    BY <1>3, <2>3, <2>4 DEF MayOffer
  <2>6. CASE t.name \in Allowed
    <3>1. x = t
      BY <2>5, <2>6 DEF Among
    <3> QED
      BY <2>1, <2>6, <3>1
  <2>7. CASE t.name \notin Allowed
    BY <2>5, <2>7 DEF Among
  <2> QED
    BY <2>6, <2>7
<1>6. profile \in {"full", "codex-small"}
  BY DEF Profiles
<1> QED
  BY <1>2, <1>3, <1>4, <1>5, <1>6

\* The calls a reply is made of.
LEMMA KnownAre ==
  ASSUME NEW P, NEW calls \in Seq(Answer(P)), NEW metadata, NEW profile \in Profiles,
         NEW known, known = Known(calls, metadata, profile)
  PROVE  /\ known \in Seq(Answer(P))
         /\ profile = "full" => known = calls
         /\ profile = "codex-small" => \A i \in 1 .. Len(known) : known[i].wire \in DOMAIN metadata
<1>1. DOMAIN calls = 1 .. Len(calls) /\ \A i \in 1 .. Len(calls) : calls[i] \in Answer(P)
  BY SeqIsArrow
<1>2. PICK F : F = KnownOf(P, metadata, profile) /\ Lists(F, Answer(P), Answer(P))
  <2>1. ASSUME NEW c \in Answer(P)
        PROVE  (IF profile = "full" \/ c.wire \in DOMAIN metadata THEN <<c>> ELSE <<>>)
                 \in Seq(Answer(P))
    <3>1. <<c>> \in Seq(Answer(P)) /\ <<>> \in Seq(Answer(P))
      OBVIOUS
    <3> QED
      BY <3>1
  <2>2. KnownOf(P, metadata, profile) \in [Answer(P) -> Seq(Answer(P))]
    BY <2>1 DEF KnownOf
  <2> QED
    BY <2>2 DEF Lists
<1>3. known = FlatMap(calls, F)
  <2>1. [i \in DOMAIN calls |-> IF profile = "full" \/ calls[i].wire \in DOMAIN metadata
                                THEN <<calls[i]>> ELSE <<>>]
          = [i \in DOMAIN calls |-> F[calls[i]]]
    BY <1>1, <1>2 DEF KnownOf
  <2> QED
    BY <2>1 DEF Known, Only, FlatMap
<1>4. known \in Seq(Answer(P))
  BY <1>2, <1>3, MapType
<1>5. ASSUME profile = "full" PROVE known = calls
  <2>1. Singles(F, calls, calls)
    BY <1>1, <1>2, <1>5 DEF KnownOf, Singles
  <2> QED
    BY <1>2, <1>3, <2>1, MapEach
<1>6. ASSUME profile = "codex-small", NEW i \in 1 .. Len(known)
      PROVE  known[i].wire \in DOMAIN metadata
  <2>1. PICK x : x = known[i]
    OBVIOUS
  <2>2. Among(x, FlatMap(calls, F))
    BY <1>3, <2>1 DEF Among
  <2>3. PICK j \in 1 .. Len(calls) : Among(x, F[calls[j]])
    BY <1>2, <2>2, MapAmong
  <2>4. PICK c \in Answer(P) : c = calls[j]
    BY <1>1
  <2>5. Among(x, IF c.wire \in DOMAIN metadata THEN <<c>> ELSE <<>>)
    BY <1>2, <1>6, <2>3, <2>4 DEF KnownOf
  <2>6. CASE c.wire \in DOMAIN metadata
    <3>1. x = c
      BY <2>5, <2>6 DEF Among
    <3> QED
      BY <2>1, <2>6, <3>1
  <2>7. CASE c.wire \notin DOMAIN metadata
    BY <2>5, <2>7 DEF Among
  <2> QED
    BY <2>6, <2>7
<1> QED
  BY <1>4, <1>5, <1>6

Natives(native, known, metadata) ==
  native = [i \in DOMAIN known |-> ToolCallItem(known[i].wire, known[i].id, metadata)]
Firsts == {<<>>, <<MessageItem("assistant")>>}

\* What the items of a reply show of the calls they were made of.
Shows(items, known, native, first, P) ==
  /\ items \in Seq(Replied(P))
  /\ FlatMap(items, ShownOf(P)) = [i \in DOMAIN known |-> known[i].wire]
  /\ \A i \in 1 .. Len(items) : items[i].type = "call" =>
       \E j \in 1 .. Len(known) : items[i] = native[j]
  /\ first = <<>> => Len(items) = Len(known)
  /\ first # <<>> => MessageItem("assistant") \in Range(items)

\* A reply shows the wire names it was made of, after what it may say first.
LEMMA RepliesShow ==
  ASSUME NEW P, NEW offered \in Seq(Offered(P)), NEW metadata, metadata = Metadata(offered),
         NEW known \in Seq(Answer(P)),
         NEW native, Natives(native, known, metadata), NEW first \in Firsts,
         NEW items, Joined(items, first, native)
  PROVE  Shows(items, known, native, first, P)
<1>1. /\ DOMAIN known = 1 .. Len(known) /\ Len(known) \in Nat
      /\ \A i \in 1 .. Len(known) : known[i].wire \in Seq(P) /\ known[i].id \in Nat
  <2>1. /\ DOMAIN known = 1 .. Len(known) /\ Len(known) \in Nat
        /\ \A i \in 1 .. Len(known) : known[i] \in Answer(P)
    BY SeqIsArrow
  <2> QED
    BY <2>1 DEF Answer
<1>2. ASSUME NEW i \in 1 .. Len(known)
      PROVE  /\ native[i] \in Replied(P) /\ native[i].type = "call"
             /\ ChatCall(native[i]).wire = known[i].wire
  <2>1. PICK w \in Seq(P), id \in Nat : w = known[i].wire /\ id = known[i].id
    BY <1>1
  <2>2. native[i] = ToolCallItem(w, id, metadata)
    BY <1>1, <2>1 DEF Natives
  <2>3. /\ ToolCallItem(w, id, metadata) \in Answered(P)
        /\ ToolCallItem(w, id, metadata).type = "call"
        /\ ChatCall(ToolCallItem(w, id, metadata)).wire = w
    BY CallItemOf
  <2> QED
    BY <2>1, <2>2, <2>3 DEF Replied
<1>3. native \in [1 .. Len(known) -> Replied(P)]
  BY <1>1, <1>2 DEF Natives
<1>4. native \in Seq(Replied(P)) /\ Len(native) = Len(known)
  BY <1>1, <1>3, Arrow
<1>5. PICK m \in Replied(P) : m = MessageItem("assistant") /\ m.type = "message"
  <2>1. MessageItem("assistant") \in Replied(P) /\ MessageItem("assistant").type = "message"
    BY DEF Replied, MessageItem
  <2> QED
    BY <2>1
<1>6. <<m>> \in Seq(Replied(P)) /\ <<>> \in Seq(Replied(P))
  OBVIOUS
<1>7. first \in Seq(Replied(P)) /\ (first = <<>> \/ first = <<m>>)
  BY <1>5, <1>6 DEF Firsts
<1>8. items \in Seq(Replied(P))
  BY <1>4, <1>7, ST!ConcatProperties DEF Joined
<1>9. PICK F : F = ShownOf(P) /\ Lists(F, Replied(P), Seq(P))
  <2>1. ASSUME NEW item \in Replied(P), item.type = "call"
        PROVE  <<ChatCall(item).wire>> \in Seq(Seq(P))
    <3>1. item \in Answered(P)
      BY <2>1 DEF Replied, MessageItem
    <3>2. ChatCall(item).wire \in Seq(P)
      BY <3>1, ST!ConcatProperties DEF Answered, ChatCall, WireName
    <3> QED
      BY <3>2
  <2>2. <<>> \in Seq(Seq(P))
    OBVIOUS
  <2> QED
    <3>1. ASSUME NEW item \in Replied(P)
          PROVE  (IF item.type = "call" THEN <<ChatCall(item).wire>> ELSE <<>>) \in Seq(Seq(P))
      BY <2>1, <2>2
    <3>2. ShownOf(P) \in [Replied(P) -> Seq(Seq(P))]
      BY <3>1 DEF ShownOf
    <3> QED
      BY <3>2 DEF Lists
<1>10. PICK wires : wires = [i \in DOMAIN known |-> known[i].wire]
  OBVIOUS
<1>11. wires \in Seq(Seq(P)) /\ Len(wires) = Len(known)
  <2>1. wires \in [1 .. Len(known) -> Seq(P)]
    BY <1>1, <1>10
  <2> QED
    BY <1>1, <2>1, Arrow
<1>12. FlatMap(native, F) = wires
  <2>1. Singles(F, native, wires)
    BY <1>1, <1>2, <1>4, <1>9, <1>10, <1>11 DEF Singles, ShownOf
  <2> QED
    <3>1. PICK N : N = Seq(P)
      OBVIOUS
    <3>2. Lists(F, Replied(P), N) /\ wires \in Seq(N)
      BY <1>9, <1>11, <3>1
    <3> QED
      BY <1>4, <2>1, <3>2, MapEach
<1>13. FlatMap(first, F) = <<>>
  <2>1. CASE first = <<>>
    BY <2>1, MapNothing
  <2>2. CASE first # <<>>
    <3>1. FlatMap(<<m>>, F) = F[m]
      BY <1>9, MapOne
    <3>2. F[m] = <<>>
      BY <1>5, <1>9 DEF ShownOf
    <3> QED
      BY <1>7, <2>2, <3>1, <3>2
  <2> QED
    BY <2>1, <2>2
<1>14. FlatMap(items, F) = wires
  <2>1. Joined(FlatMap(items, F), FlatMap(first, F), FlatMap(native, F))
    BY <1>4, <1>7, <1>9, MapConcat
  <2>2. <<>> \o wires = wires
    BY <1>11, ST!ConcatEmptySeq
  <2> QED
    BY <1>12, <1>13, <2>1, <2>2 DEF Joined
<1>15. ASSUME NEW i \in 1 .. Len(items), items[i].type = "call"
       PROVE  \E j \in 1 .. Len(known) : items[i] = native[j]
  <2>1. PICK x : x = items[i]
    OBVIOUS
  <2>2. Among(x, first \o native)
    BY <2>1 DEF Among, Joined
  <2>3. Among(x, first) \/ Among(x, native)
    BY <1>4, <1>7, <2>2, AmongConcat
  <2>4. CASE Among(x, first)
    BY <1>5, <1>7, <1>15, <2>1, <2>4 DEF Among
  <2>5. CASE Among(x, native)
    BY <1>4, <2>1, <2>5 DEF Among
  <2> QED
    BY <2>3, <2>4, <2>5
<1>16. ASSUME first = <<>> PROVE Len(items) = Len(known)
  <2>1. <<>> \o native = native
    BY <1>4, ST!ConcatEmptySeq
  <2> QED
    BY <1>4, <1>16, <2>1 DEF Joined
<1>17. ASSUME first # <<>> PROVE MessageItem("assistant") \in Range(items)
  <2>1. Among(m, first)
    BY <1>7, <1>17 DEF Among
  <2>2. Among(m, first \o native)
    BY <1>4, <1>7, <2>1, AmongConcat
  <2>3. PICK i \in 1 .. Len(items) : items[i] = m
    BY <2>2 DEF Among, Joined
  <2>4. DOMAIN items = 1 .. Len(items)
    BY <1>8, SeqIsArrow
  <2> QED
    BY <1>5, <2>3, <2>4 DEF Range
<1> QED
  BY <1>8, <1>9, <1>10, <1>14, <1>15, <1>16, <1>17 DEF Shows

\* A printed name stands for offered tools alone.
LEMMA ResolvedIn ==
  ASSUME NEW name, NEW metadata
  PROVE  Resolved(name, metadata) \subseteq DOMAIN metadata
BY DEF Resolved

\* Wire names are names.
LEMMA MetadataNames ==
  ASSUME NEW P, NEW offered \in Seq(Offered(P))
  PROVE  DOMAIN Metadata(offered) \subseteq Seq(P)
<1>1. ASSUME NEW w \in DOMAIN Metadata(offered) PROVE w \in Seq(P)
  <2>1. PICK i \in 1 .. Len(offered) : Wire(offered[i]) = w /\ offered[i] \in Offered(P)
    BY MetadataOf
  <2>2. offered[i].namespace \in Seq(P) /\ offered[i].name \in Seq(P)
    BY <2>1 DEF Offered
  <2> QED
    BY <2>1, <2>2, ST!ConcatProperties DEF Wire, WireName
<1> QED
  BY <1>1

\* The calls a text was taken for are those of all its objects.
LEMMA RecoveredAre ==
  ASSUME NEW P, NEW offered \in Seq(Offered(P)), NEW metadata, metadata = Metadata(offered),
         NEW text \in Seq(Printed(P)), Recovered(text, metadata) # <<>>
  PROVE  /\ Prose \notin Range(text)
         /\ \E known \in Seq(Answer(P)) :
              /\ Len(known) = Len(text)
              /\ \A i \in 1 .. Len(known) : known[i].wire \in DOMAIN metadata
              /\ Recovered(text, metadata)
                   = [i \in DOMAIN known |-> ToolCallItem(known[i].wire, known[i].id, metadata)]
<1>1. DOMAIN text = 1 .. Len(text) /\ Len(text) \in Nat
  BY SeqIsArrow
<1>2. Decoded(text) = text /\ \A i \in DOMAIN text : text[i].kind = "object"
  <2>1. Decoded(text) # <<>>
    <3>1. SUFFICES ASSUME Decoded(text) = <<>> PROVE FALSE
      OBVIOUS
    <3>2. DOMAIN Decoded(text) = {}
      BY <3>1
    <3>3. Recovered(text, metadata) = <<>>
      BY <3>1, <3>2 DEF Recovered
    <3> QED
      BY <3>3
  <2> QED
    BY <2>1 DEF Decoded
<1>3. Prose \notin Range(text)
  BY <1>2 DEF Prose, Range
<1>4. Recovered(text, metadata) = IF \E i \in DOMAIN text : Resolved(text[i].name, metadata) = {}
        THEN <<>>
        ELSE [i \in DOMAIN text |->
               ToolCallItem(CHOOSE wire \in Resolved(text[i].name, metadata) : TRUE, i, metadata)]
  BY <1>2 DEF Recovered
<1>5. \A i \in DOMAIN text : Resolved(text[i].name, metadata) # {}
  BY <1>4
<1>6. Recovered(text, metadata)
        = [i \in DOMAIN text |->
            ToolCallItem(CHOOSE wire \in Resolved(text[i].name, metadata) : TRUE, i, metadata)]
  BY <1>4, <1>5
<1>7. PICK known : known = [i \in DOMAIN text |->
                             [wire |-> CHOOSE wire \in Resolved(text[i].name, metadata) : TRUE,
                              id |-> i]]
  OBVIOUS
<1>a. ASSUME NEW i \in DOMAIN text
      PROVE  \E w \in DOMAIN metadata :
               /\ w = CHOOSE wire \in Resolved(text[i].name, metadata) : TRUE
               /\ known[i] = [wire |-> w, id |-> i]
  <2>1. PICK w : w = CHOOSE wire \in Resolved(text[i].name, metadata) : TRUE
    OBVIOUS
  <2>2. w \in DOMAIN metadata
    BY <1>5, <2>1, ResolvedIn
  <2>3. known[i] = [wire |-> w, id |-> i]
    BY <1>7, <2>1
  <2> QED
    BY <2>1, <2>2, <2>3
<1>8. ASSUME NEW i \in DOMAIN text PROVE known[i].wire \in DOMAIN metadata
  <2>1. PICK w \in DOMAIN metadata : known[i] = [wire |-> w, id |-> i]
    BY <1>a
  <2> QED
    BY <2>1
<1>9. known \in [1 .. Len(text) -> Answer(P)]
  <2>1. ASSUME NEW i \in 1 .. Len(text) PROVE known[i] \in Answer(P)
    <3>1. PICK w \in DOMAIN metadata : known[i] = [wire |-> w, id |-> i]
      BY <1>1, <1>a
    <3>2. w \in Seq(P) /\ i \in Nat
      BY <1>1, MetadataNames
    <3> QED
      BY <3>1, <3>2 DEF Answer
  <2> QED
    BY <1>1, <1>7, <2>1
<1>10. known \in Seq(Answer(P)) /\ Len(known) = Len(text) /\ DOMAIN known = DOMAIN text
  BY <1>1, <1>9, Arrow
<1>11. Recovered(text, metadata)
         = [i \in DOMAIN known |-> ToolCallItem(known[i].wire, known[i].id, metadata)]
  <2>1. ASSUME NEW i \in DOMAIN text
        PROVE  ToolCallItem(CHOOSE wire \in Resolved(text[i].name, metadata) : TRUE, i, metadata)
                 = ToolCallItem(known[i].wire, known[i].id, metadata)
    <3>1. PICK w : /\ w = CHOOSE wire \in Resolved(text[i].name, metadata) : TRUE
                   /\ known[i] = [wire |-> w, id |-> i]
      BY <1>a
    <3>2. known[i].wire = w /\ known[i].id = i
      BY <3>1
    <3> QED
      BY <3>1, <3>2
  <2> QED
    BY <1>6, <1>10, <2>1
<1>12. \A i \in 1 .. Len(known) : known[i].wire \in DOMAIN metadata
  BY <1>1, <1>8, <1>10
<1> QED
  BY <1>3, <1>10, <1>11, <1>12

\* The wire names of the calls of a reply, one after the other.
LEMMA ShownAre ==
  ASSUME NEW P, NEW items \in Seq(Replied(P))
  PROVE  WiresOf(items) = FlatMap(items, ShownOf(P))
<1>1. DOMAIN items = 1 .. Len(items) /\ \A i \in 1 .. Len(items) : items[i] \in Replied(P)
  BY SeqIsArrow
<1>2. [i \in DOMAIN items |-> IF items[i].type = "call" THEN <<ChatCall(items[i]).wire>> ELSE <<>>]
        = [i \in DOMAIN items |-> ShownOf(P)[items[i]]]
  BY <1>1 DEF ShownOf
<1> QED
  BY <1>2 DEF FlatMap, WiresOf

\* What is asked of the items of a reply.
Asks(items, shown, text, calls, metadata, profile) ==
  /\ profile = "full" => shown = [i \in DOMAIN calls |-> calls[i].wire]
  /\ profile = "codex-small" =>
       /\ Range(shown) \subseteq DOMAIN metadata
       /\ \A i \in DOMAIN items : items[i].type = "call" => items[i].name \in Allowed
       /\ \/ text = <<>> \/ MessageItem("assistant") \in Range(items)
          \/ Prose \notin Range(text) /\ Len(items) = Len(text)

\* A reply is what is asked of it.
LEMMA RepliesOffer ==
  ASSUME NEW P, NEW offered \in Seq(Offered(P)), NEW metadata, metadata = Metadata(offered),
         NEW profile \in Profiles,
         profile = "codex-small" => \A i \in 1 .. Len(offered) : offered[i].name \in Allowed,
         NEW text \in Seq(Printed(P)), NEW calls \in Seq(Answer(P))
  PROVE  /\ ReplyItems(text, calls, metadata, profile) \in Seq(Replied(P))
         /\ Asks(ReplyItems(text, calls, metadata, profile),
                 FlatMap(ReplyItems(text, calls, metadata, profile), ShownOf(P)),
                 text, calls, metadata, profile)
<1>1. PICK items : items = ReplyItems(text, calls, metadata, profile)
  OBVIOUS
\* Either way there are known calls, said after what is said first.
<1>2. PICK known \in Seq(Answer(P)), first \in Firsts :
        /\ Joined(items, first, [i \in DOMAIN known |->
                                  ToolCallItem(known[i].wire, known[i].id, metadata)])
        /\ profile = "full" => known = calls
        /\ profile = "codex-small" => \A i \in 1 .. Len(known) : known[i].wire \in DOMAIN metadata
        /\ profile = "codex-small" =>
             \/ text = <<>> \/ first # <<>>
             \/ Prose \notin Range(text) /\ Len(known) = Len(text)
  <2>1. PICK few : few = Known(calls, metadata, profile)
    OBVIOUS
  <2>2. /\ few \in Seq(Answer(P)) /\ (profile = "full" => few = calls)
        /\ profile = "codex-small" => \A i \in 1 .. Len(few) : few[i].wire \in DOMAIN metadata
    BY <2>1, KnownAre
  <2>3. PICK native : native = [i \in DOMAIN few |-> ToolCallItem(few[i].wire, few[i].id, metadata)]
    OBVIOUS
  <2>4. PICK first \in Firsts :
          first = IF text = <<>> THEN <<>> ELSE <<MessageItem("assistant")>>
    BY DEF Firsts
  <2>5. PICK recovered : recovered = Recovered(text, metadata)
    OBVIOUS
  <2>6. items = IF profile = "codex-small" /\ native = <<>> /\ recovered # <<>>
                THEN recovered ELSE first \o native
    BY <1>1, <2>1, <2>3, <2>4, <2>5 DEF ReplyItems, Known
  <2>7. CASE profile = "codex-small" /\ native = <<>> /\ recovered # <<>>
    <3>1. Prose \notin Range(text)
      BY <2>5, <2>7, RecoveredAre
    <3>2. PICK known \in Seq(Answer(P)) :
            /\ Len(known) = Len(text)
            /\ \A i \in 1 .. Len(known) : known[i].wire \in DOMAIN metadata
            /\ recovered = [i \in DOMAIN known |->
                             ToolCallItem(known[i].wire, known[i].id, metadata)]
      BY <2>5, <2>7, RecoveredAre
    <3>3. recovered \in Seq({recovered[i] : i \in DOMAIN known})
      <4>1. DOMAIN known = 1 .. Len(known) /\ Len(known) \in Nat
        BY SeqIsArrow
      <4>2. recovered \in [1 .. Len(known) -> {recovered[i] : i \in DOMAIN known}]
        BY <3>2, <4>1
      <4> QED
        BY <4>1, <4>2, Arrow
    <3>4. <<>> \o recovered = recovered
      BY <3>3, ST!ConcatEmptySeq
    <3>5. Joined(items, <<>>, recovered)
      BY <2>6, <2>7, <3>4 DEF Joined
    <3>6. <<>> \in Firsts
      BY DEF Firsts
    <3> QED
      BY <2>7, <3>1, <3>2, <3>5, <3>6
  <2>8. CASE ~(profile = "codex-small" /\ native = <<>> /\ recovered # <<>>)
    <3>1. Joined(items, first, native)
      BY <2>6, <2>8 DEF Joined
    <3>2. text = <<>> \/ first # <<>>
      BY <2>4
    <3> QED
      BY <2>2, <2>3, <3>1, <3>2
  <2> QED
    BY <2>7, <2>8
<1>3. PICK native : Natives(native, known, metadata)
  BY DEF Natives
<1>4. Joined(items, first, native)
  BY <1>2, <1>3 DEF Natives
<1>a. Shows(items, known, native, first, P)
  BY <1>3, <1>4, RepliesShow
<1>5. /\ items \in Seq(Replied(P))
      /\ FlatMap(items, ShownOf(P)) = [i \in DOMAIN known |-> known[i].wire]
      /\ \A i \in 1 .. Len(items) : items[i].type = "call" =>
           \E j \in 1 .. Len(known) : items[i] = native[j]
      /\ first = <<>> => Len(items) = Len(known)
      /\ first # <<>> => MessageItem("assistant") \in Range(items)
  BY <1>a DEF Shows
<1>6. DOMAIN known = 1 .. Len(known) /\ DOMAIN items = 1 .. Len(items)
      /\ \A i \in 1 .. Len(known) : known[i] \in Answer(P)
  BY <1>5, SeqIsArrow
<1>7. PICK shown : shown = FlatMap(items, ShownOf(P)) /\ shown = [i \in DOMAIN known |-> known[i].wire]
  BY <1>5
<1>8. profile = "full" => shown = [i \in DOMAIN calls |-> calls[i].wire]
  BY <1>2, <1>7
<1>9. ASSUME profile = "codex-small"
      PROVE  /\ Range(shown) \subseteq DOMAIN metadata
             /\ \A i \in DOMAIN items : items[i].type = "call" => items[i].name \in Allowed
             /\ \/ text = <<>> \/ MessageItem("assistant") \in Range(items)
                \/ Prose \notin Range(text) /\ Len(items) = Len(text)
  <2>1. Range(shown) \subseteq DOMAIN metadata
    BY <1>2, <1>6, <1>7, <1>9 DEF Range
  <2>2. ASSUME NEW i \in DOMAIN items, items[i].type = "call" PROVE items[i].name \in Allowed
    <3>1. PICK j \in 1 .. Len(known) : items[i] = native[j]
      BY <1>5, <1>6, <2>2
    <3>2. PICK w \in Seq(P), id \in Nat : w = known[j].wire /\ id = known[j].id
      <4>1. known[j] \in Answer(P)
        BY <1>6
      <4> QED
        BY <4>1 DEF Answer
    <3>3. items[i] = ToolCallItem(w, id, metadata) /\ w \in DOMAIN metadata
      BY <1>2, <1>3, <1>6, <1>9, <3>1, <3>2 DEF Natives
    <3>4. w \in DOMAIN Metadata(offered)
      BY <3>3
    <3>5. IsOffered(ToolCallItem(w, id, Metadata(offered)), offered)
      BY <3>4, CallItemOf
    <3>6. PICK k \in 1 .. Len(offered) : ToolCallItem(w, id, metadata).name = offered[k].name
      BY <3>5 DEF IsOffered
    <3> QED
      BY <1>9, <3>3, <3>6
  <2>3. \/ text = <<>> \/ MessageItem("assistant") \in Range(items)
        \/ Prose \notin Range(text) /\ Len(items) = Len(text)
    BY <1>2, <1>5, <1>9
  <2> QED
    BY <2>1, <2>2, <2>3
<1>10. Asks(items, shown, text, calls, metadata, profile)
  BY <1>8, <1>9 DEF Asks
<1> QED
  BY <1>1, <1>5, <1>7, <1>10

\* Whatever tools are offered and whatever a model answers, in calls or in
\* print: _chat_response_items and the events tell the client calls that the next
\* request shows by the wire names they were made by, and the small profile makes
\* none of a tool that was not offered (Offers).
THEOREM EveryOfferIsCallable ==
  ASSUME NEW P, NEW tools \in Seq(ToolSet(P)), NEW profile \in Profiles,
         NEW text \in Seq(Printed(P)), NEW calls \in Seq(Answer(P))
  PROVE  Offers(tools, text, calls, profile)
<1>1. PICK offered \in Seq(Offered(P)) :
        /\ offered = ChatTools(tools, profile)
        /\ profile = "codex-small" => \A i \in 1 .. Len(offered) : offered[i].name \in Allowed
  BY OfferedAre
<1>2. PICK metadata : metadata = Metadata(offered)
  OBVIOUS
<1>3. PICK items \in Seq(Replied(P)) :
        /\ items = ReplyItems(text, calls, metadata, profile)
        /\ Asks(items, FlatMap(items, ShownOf(P)), text, calls, metadata, profile)
  BY <1>1, <1>2, RepliesOffer
<1>4. ItemsOf(Events(items)) = items /\ WiresOf(items) = FlatMap(items, ShownOf(P))
  BY DoneEvents, ShownAre
<1>5. Asks(items, WiresOf(items), text, calls, metadata, profile)
  BY <1>3, <1>4
<1> QED
  BY <1>1, <1>2, <1>3, <1>4, <1>5 DEF Offers, Asks

-----------------------------------------------------------------------------
(* What the threads ask and reply *)

\* The names of the runs are sequences of words.
LEMMA WordsTyped ==
  /\ Names \subseteq Seq(RunWords) /\ WireNames \subseteq Seq(RunWords)
  /\ {<<Read>>, <<Exec>>} \subseteq Seq(RunWords) /\ <<Server>> \in Seq(RunWords)
<1>1. <<Exec>> \in Seq(RunWords) /\ <<Read>> \in Seq(RunWords) /\ <<Server>> \in Seq(RunWords)
      /\ <<Server, Exec>> \in Seq(RunWords) /\ <<Server, Read>> \in Seq(RunWords)
  BY DEF RunWords
<1> QED
  BY <1>1 DEF Names, WireNames

\* Their tools are tools.
LEMMA ToolsTyped == Tools \subseteq ToolSet(RunWords)
<1>1. PICK N : N = Seq(RunWords)
  OBVIOUS
<1>2. ASSUME NEW name \in N PROVE Function(name) \in ToolSet(RunWords)
                                  /\ Custom(name) \in ToolSet(RunWords)
  BY <1>1, <1>2 DEF Function, Custom, ToolSet
<1>3. ASSUME NEW name \in N, NEW children \in Seq(N)
      PROVE  Namespace(name, children) \in ToolSet(RunWords)
  BY <1>1, <1>3 DEF Namespace, ToolSet
<1>4. Hosted \in ToolSet(RunWords)
  BY DEF ToolSet
<1>5. UpTo({<<Read>>, <<Exec>>}, 2) \subseteq Seq(N)
  BY <1>1, WordsTyped, UpToSeq
<1>6. Names \subseteq N /\ <<Exec>> \in N /\ <<Server>> \in N
  BY <1>1, WordsTyped
<1> QED
  BY <1>2, <1>3, <1>4, <1>5, <1>6 DEF Tools

\* Their answers are answers.
LEMMA TextsTyped == Texts \subseteq Seq(Printed(RunWords)) /\ Answers \subseteq Seq(Answer(RunWords))
<1>1. {Prose} \cup {Object(name) : name \in WireNames} \subseteq Printed(RunWords)
  BY WordsTyped DEF Printed, Object
<1>2. {[wire |-> wire, id |-> 1] : wire \in WireNames} \subseteq Answer(RunWords)
  BY WordsTyped DEF Answer
<1> QED
  BY <1>1, <1>2, UpToSeq DEF Texts, Answers

\* So they are offered back.
LEMMA CallsOffered == OffersCalls
<1>1. ASSUME NEW t1 \in Tools, NEW t2 \in Tools PROVE <<t1, t2>> \in Seq(ToolSet(RunWords))
  <2>1. t1 \in ToolSet(RunWords) /\ t2 \in ToolSet(RunWords)
    BY ToolsTyped
  <2> QED
    BY <2>1
<1> QED
  BY <1>1, TextsTyped, EveryOfferIsCallable DEF OffersCalls

\* Where no role is foreign to memory, every message is plain.
LEMMA InputsPlain ==
  ASSUME NEW input \in Inputs, MessageItem("critic") \notin Range(input)
  PROVE  /\ Len(input) \in Nat /\ Len(input) <= 4
         /\ \A i \in 1 .. Len(input) : Plain(input[i])
<1> DEFINE S == {MessageItem("user"), MessageItem("developer"), MessageItem("critic"), Reasoning,
                 CallItem(1, NoNamespace, <<Exec>>, TRUE),
                 CallItem(2, <<Server>>, <<Read>>, FALSE),
                 OutputItem(1, "no"), OutputItem(2, "yes")}
<1>1. PICK k \in 0 .. 4 : input \in [1 .. k -> S]
  BY DEF Inputs, UpTo
<1>2. Len(input) = k /\ DOMAIN input = 1 .. k
  <2> HIDE DEF S
  <2> QED
    BY <1>1, Arrow
<1>3. \A i \in 1 .. k : input[i] \in S /\ input[i] # MessageItem("critic")
  BY <1>1, <1>2 DEF Range
<1>4. ASSUME NEW item \in S, item # MessageItem("critic") PROVE Plain(item)
  BY <1>4 DEF Plain, MessageItem, Reasoning, CallItem, OutputItem
<1> HIDE DEF S
<1> QED
  BY <1>1, <1>2, <1>3, <1>4

\* And both ways are equal for them.
LEMMA WaysEqual == WaysAreEqual
<1>1. ASSUME NEW t1 \in Tools, NEW t2 \in Tools PROVE OfferTheSame(<<t1, t2>>)
  <2>1. t1 \in ToolSet(RunWords) /\ t2 \in ToolSet(RunWords)
    BY ToolsTyped
  <2>2. <<t1, t2>> \in Seq(ToolSet(RunWords))
    BY <2>1
  <2> QED
    BY <2>2, EveryOfferIsTheSame
<1>2. ASSUME NEW input \in Inputs, NEW instructed \in BOOLEAN PROVE AskTheSame(input, instructed)
  <2>1. CASE MessageItem("critic") \in Range(input)
    BY <2>1 DEF AskTheSame
  <2>2. CASE MessageItem("critic") \notin Range(input)
    <3>1. /\ Len(input) \in Nat /\ Len(input) <= 11
          /\ \A i \in 1 .. Len(input) : Plain(input[i])
      BY <2>2, InputsPlain
    <3>2. input \in Seq(Items(RunWords))
      BY InputsTyped
    <3> QED
      BY <3>1, <3>2, EveryQuestionIsTheSame
  <2> QED
    BY <2>1, <2>2
<1> QED
  BY <1>1, <1>2 DEF WaysAreEqual

\* A thread that asks the provider has kept the conversation
\* (ConversationIsKept: prepare_chat_request).
THEOREM ConversationsAreKept == Spec => []ConversationIsKept
<1>1. ConversationIsKept
  BY ConversationKept DEF ConversationIsKept
<1> QED
  BY <1>1, PTL

\* A thread that replies tells calls that can be asked about again
\* (CallsAreOffered: chat_response_to_responses).
THEOREM CallsAreCallable == Spec => []CallsAreOffered
<1>1. CallsAreOffered
  BY CallsOffered DEF CallsAreOffered
<1> QED
  BY <1>1, PTL

\* A thread asks the same in both wire formats (WaysAgree).
THEOREM WaysAlwaysAgree == Spec => []WaysAgree
<1>1. WaysAgree
  BY WaysEqual DEF WaysAgree
<1> QED
  BY <1>1, PTL
=============================================================================
