---------------------------- MODULE ModelServer ----------------------------
(***************************************************************************)
(* The model server: threads of the HTTP server (server/http.py) that send  *)
(* each request to a provider (server/upstream.py, responses_upstream.py)   *)
(* under one RateLimitGovernor (server/rate_limit.py).                      *)
(*                                                                         *)
(* Every method of the governor runs under its lock and is one step;        *)
(* before_request takes it twice and sleeps in between.  Times are measured *)
(* from now: a tick of the clock brings every deadline nearer, and a thread *)
(* may wake later than it asked to.                                         *)
(***************************************************************************)
EXTENDS Naturals, FiniteSets

CONSTANTS
  Threads,
  MinInterval,                 \* between two starts
  BackoffInitial, BackoffMax,  \* of the cooldown after a 429 ...
  TransientInitial, TransientMax, \* ... and after a failure of the provider
  RetryAfters,                 \* what the provider asks for, 0 for nothing
  MaxStrikes                   \* bound: where the cooldown grows no more

ASSUME ConstantsAssumption ==
  /\ MinInterval \in Nat
  /\ BackoffInitial \in Nat /\ BackoffMax \in Nat
  /\ TransientInitial \in Nat /\ TransientMax \in Nat
  /\ RetryAfters \subseteq Nat
  /\ MaxStrikes \in Nat \ {0}

\* Arithmetic the proofs need: powers of two are natural numbers.
ASSUME PowersAssumption == \A n \in 0 .. MaxStrikes : 2 ^ n \in Nat

Later(m, n) == IF m >= n THEN m ELSE n
Earlier(m, n) == IF m <= n THEN m ELSE n

\* Statuses of replies: 304 stands for what is no error, 404 for a client error.
Statuses == {200, 304, 400, 404, 429, 500, 502, 503}

Kinds == {"whole", "stream"} \* a reply that is complete first, one passed on as it comes

VARIABLES
  governor, \* _next_start_at, _blocked_until, _blocked_status, strikes
  call,     \* what a thread is doing
  gap,      \* history: until a start would keep its distance from the last slot
  promise   \* history: until the last deadline a failure set since a success

vars == <<governor, call, gap, promise>>

Governor == [next: Nat, blocked: Nat, status: {429, 503},
             limits: 0..MaxStrikes, transients: 0..MaxStrikes]

Steps == {"idle", "reserve", "sleep", "open", "render", "first", "start", "more", "reply"}

\* The kind of a request, the time its slot comes, the status to reply with and
\* the status lines it was sent.
Call == [step: Steps, kind: Kinds, wake: Nat, status: Statuses, lines: 0..2]

NoCall == [step |-> "idle", kind |-> "whole", wake |-> 0, status |-> 200, lines |-> 0]

Init ==
  /\ governor = [next |-> 0, blocked |-> 0, status |-> 503, limits |-> 0, transients |-> 0]
  /\ call = [w \in Threads |-> NoCall]
  /\ gap = 0 /\ promise = 0

-----------------------------------------------------------------------------
At(w, step) == call[w].step = step

\* The thread goes on with c; a request that is over leaves nothing behind.
Goto(w, c) == call' = [call EXCEPT ![w] = IF c.step = "idle" THEN NoCall ELSE c]

GotoStep(w, step) == Goto(w, [call[w] EXCEPT !.step = step])

Fail(w, status) == Goto(w, [call[w] EXCEPT !.step = "reply", !.status = status])

-----------------------------------------------------------------------------
(* RateLimitGovernor *)

\* _raise_if_blocked
Blocked == governor.blocked > 0

\* Mutant: slots follow the cooldown, also when it ends before the last slot.
OpenCooldownOnly(g, delay, status) ==
  LET until == Later(g.blocked, delay) IN
  [g EXCEPT !.blocked = until, !.status = status, !.next = until]

\* _open_cooldown, from the times of governor g.
OpenCooldown(g, delay, status) ==
  LET until == Later(g.blocked, delay) IN
  [g EXCEPT !.blocked = until, !.status = status, !.next = Later(@, until + MinInterval)]

\* initial * 2 ** (strikes - 1), up to max.
Backoff(initial, max, strikes) == Earlier(max, initial * 2 ^ (strikes - 1))

Strike(n) == Earlier(n + 1, MaxStrikes)

\* record_rate_limit
LimitDelay(retry) == Later(Backoff(BackoffInitial, BackoffMax, Strike(governor.limits)), retry)

RecordRateLimit(retry) ==
  /\ governor' = OpenCooldown([governor EXCEPT !.limits = Strike(@), !.transients = 0],
                              LimitDelay(retry), 429)
  /\ promise' = Later(promise, LimitDelay(retry))

\* record_transient_failure
TransientDelay(retry) ==
  Later(Backoff(TransientInitial, TransientMax, Strike(governor.transients)), retry)

RecordTransientFailure(retry) ==
  /\ governor' = OpenCooldown([governor EXCEPT !.transients = Strike(@), !.limits = 0],
                              TransientDelay(retry), 503)
  /\ promise' = Later(promise, TransientDelay(retry))

\* record_success, also of a request that started before the cooldown did.
RecordSuccess ==
  /\ governor' = [governor EXCEPT !.limits = 0, !.transients = 0,
                                  !.blocked = 0, !.status = 503]
  /\ promise' = 0

\* before_request, under the first lock: a slot is taken, or the cooldown reported.
Reserve(w) ==
  /\ At(w, "reserve")
  /\ IF Blocked
     THEN Fail(w, governor.status) /\ UNCHANGED <<governor, gap>>
     ELSE /\ Goto(w, [call[w] EXCEPT !.step = "sleep", !.wake = governor.next])
          /\ governor' = [governor EXCEPT !.next = @ + MinInterval]
          /\ gap' = governor.next + MinInterval
  /\ UNCHANGED promise

\* Mutant: a request that wakes into a cooldown waits for another slot.
WakeAgain(w) ==
  /\ At(w, "sleep") /\ call[w].wake = 0
  /\ IF Blocked
     THEN /\ Goto(w, [call[w] EXCEPT !.wake = governor.next])
          /\ governor' = [governor EXCEPT !.next = @ + MinInterval]
          /\ gap' = governor.next + MinInterval
     ELSE GotoStep(w, "open") /\ UNCHANGED <<governor, gap>>
  /\ UNCHANGED promise

\* before_request, under the second lock; the slot is not given back.
Wake(w) ==
  /\ At(w, "sleep") /\ call[w].wake = 0
  /\ IF Blocked THEN Fail(w, governor.status) ELSE GotoStep(w, "open")
  /\ UNCHANGED <<governor, gap, promise>>

-----------------------------------------------------------------------------
(* OpenAIChatUpstream and OpenAIResponsesUpstream *)

\* A success: of a whole reply, or of the headers of a stream.
Succeeds(w) ==
  /\ At(w, "open")
  /\ RecordSuccess
  /\ GotoStep(w, IF call[w].kind = "stream" THEN "first" ELSE "render")
  /\ UNCHANGED gap

\* A whole reply that cannot be decoded, or translated, is a success all the same.
IsUnreadable(w) ==
  /\ At(w, "open") /\ call[w].kind # "stream"
  /\ RecordSuccess
  /\ \E status \in {400, 500} : Fail(w, status)
  /\ UNCHANGED gap

\* _raise_http_error
IsRateLimited(w) ==
  /\ At(w, "open")
  /\ \E retry \in RetryAfters : RecordRateLimit(retry)
  /\ Fail(w, 429)
  /\ UNCHANGED gap

FailsTransiently(w) ==
  /\ At(w, "open")
  /\ \E retry \in RetryAfters : RecordTransientFailure(retry)
  /\ Fail(w, 503)
  /\ UNCHANGED gap

\* Statuses below 500 are no reason for a cooldown.
IsRefused(w) ==
  /\ At(w, "open")
  /\ \E status \in {304, 404} : Fail(w, status)
  /\ UNCHANGED <<governor, gap, promise>>

\* An answer that ends too early is no transport error: nobody is told.
BreaksOff(w) ==
  /\ At(w, "open")
  /\ Fail(w, 500)
  /\ UNCHANGED <<governor, gap, promise>>

\* _raise_transport_error
LosesConnection(w) ==
  /\ At(w, "open")
  /\ RecordTransientFailure(0)
  /\ Fail(w, 503)
  /\ UNCHANGED gap

-----------------------------------------------------------------------------
(* Handler *)

\* do_POST: another route and a body that is not valid are refused before
\* anything else; so is a tool_choice that is an object, with a TypeError.
Accept(w) ==
  /\ At(w, "idle")
  /\ \/ \E kind \in Kinds : Goto(w, [NoCall EXCEPT !.step = "reserve", !.kind = kind])
     \/ \E status \in {400, 404, 500} : Fail(w, status)
  /\ UNCHANGED <<governor, gap, promise>>

\* A status line goes out; the client may be gone.
SendStatus(w, step) ==
  \/ Goto(w, [call[w] EXCEPT !.step = step, !.lines = @ + 1])
  \/ GotoStep(w, "idle")

\* The reply is complete before anything of it is sent.
Render(w) ==
  /\ At(w, "render")
  /\ SendStatus(w, "idle")
  /\ UNCHANGED <<governor, gap, promise>>

\* _stream_chat waits for the first line of the stream, or its end, before it
\* sends the status; the stream may break off, which concerns no governor.
ReadFirst(w) ==
  /\ At(w, "first")
  /\ GotoStep(w, "start") \/ Fail(w, 500)
  /\ UNCHANGED <<governor, gap, promise>>

StartStream(w) ==
  /\ At(w, "start")
  /\ SendStatus(w, "more")
  /\ UNCHANGED <<governor, gap, promise>>

\* Lines are passed on until the stream ends, breaks off or the client is gone.
EndStream(w) ==
  /\ At(w, "more")
  /\ GotoStep(w, "idle") \/ Fail(w, 500)
  /\ UNCHANGED <<governor, gap, promise>>

\* _send_upstream_error: the provider's status is told as it is, unless it is no
\* error.
StatusFor(status) == IF status = 304 THEN 502 ELSE status

Reply(w) ==
  /\ At(w, "reply")
  /\ StatusFor(call[w].status) \in 400..599
  /\ SendStatus(w, "idle")
  /\ UNCHANGED <<governor, gap, promise>>

-----------------------------------------------------------------------------
Sooner(n) == IF n = 0 THEN 0 ELSE n - 1

Tick ==
  /\ governor' = [governor EXCEPT !.next = Sooner(@), !.blocked = Sooner(@)]
  /\ call' = [w \in Threads |-> [call[w] EXCEPT !.wake = Sooner(@)]]
  /\ gap' = Sooner(gap) /\ promise' = Sooner(promise)

\* The rest of a request.
Advance(w) ==
  \/ Reserve(w) \/ Wake(w)
  \/ Succeeds(w) \/ IsUnreadable(w) \/ IsRateLimited(w) \/ FailsTransiently(w)
  \/ IsRefused(w) \/ BreaksOff(w) \/ LosesConnection(w)
  \/ Render(w) \/ ReadFirst(w) \/ StartStream(w) \/ EndStream(w) \/ Reply(w)

Next == Tick \/ \E w \in Threads : Accept(w) \/ Advance(w)

\* Time passes, threads run, and the provider answers or times out.
Spec == Init /\ [][Next]_vars /\ WF_vars(Tick) /\ \A w \in Threads : WF_vars(Advance(w))

-----------------------------------------------------------------------------
TypeOK ==
  /\ governor \in Governor
  /\ call \in [Threads -> Call]
  /\ gap \in Nat /\ promise \in Nat

\* Slots keep their distance: the next one is never nearer to the last one than
\* the interval, whatever cooldowns open and close and whoever gives up a slot.
SlotsAreSpaced == governor.next >= gap

\* Until a request succeeds no deadline is forgotten: a milder failure that comes
\* late does not shorten the cooldown a harder one opened, nor does the slot of a
\* request that waited since before lie in front of it.
PromiseIsKept ==
  /\ governor.blocked >= promise
  /\ promise > 0 => governor.next >= promise + MinInterval

\* However failures of different kinds alternate and come late, a cooldown is
\* never longer than the longest backoff or than what the provider once asked for,
\* and strikes of one kind only are counted.
CooldownIsBounded ==
  /\ \E longest \in RetryAfters \cup {BackoffMax, TransientMax} : governor.blocked <= longest
  /\ governor.limits = 0 \/ governor.transients = 0

\* A failure before the first event of a stream is told by a clean reply of its
\* own: nothing was sent before, so only what breaks off later is told twice.  The
\* 500 of a fault of the handler itself is apart: it may follow a begun stream.
ErrorsComeClean ==
  \A w \in Threads :
    /\ call[w].lines > 0 => call[w].kind = "stream" /\ call[w].step \in {"more", "reply"}
    /\ At(w, "reply") /\ call[w].status # 500 => call[w].lines = 0

\* Every request ends, whatever befalls the others and the provider.
EveryRequestEnds == \A w \in Threads : ~At(w, "idle") ~> At(w, "idle")
=============================================================================
