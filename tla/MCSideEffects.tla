---------------------------- MODULE MCSideEffects ----------------------------
(* Instances of SideEffects, with the gate its runs ask, for TLC. *)
EXTENDS GatedRuns, TLC

CONSTANTS r1, r2, o1, k1, k2, write, post, read

\* One key, one request: the contention on a single receipt.
OneKey == {[key |-> k1, req |-> write, ctx |-> TRUE]}

\* Two requests that claim the same key.
Contested == OneKey \cup {[key |-> k1, req |-> post, ctx |-> TRUE]}

\* Everything a single run can propose: a clash, a second key, a tool without
\* side effects, a missing key, a missing goal or run.
Everything ==
  Contested \cup
  {[key |-> k2, req |-> post, ctx |-> TRUE],
   [key |-> NoKey, req |-> read, ctx |-> TRUE],
   [key |-> NoKey, req |-> write, ctx |-> TRUE],
   [key |-> k1, req |-> write, ctx |-> FALSE]}

\* r1 proposes twice beside r2, which proposes once.
Uneven == [r \in Runs |-> IF r = r1 THEN 2 ELSE 1]

\* r2 has not come yet.
R1Only == calls[r2] = 0

\* Bounds: decisions are journalled under r1 and only k1 is ever retried, while
\* r2 has not come.  Then both runs are after k1, for one request each or,
\* when r1 proposes again, for the same.
Retried(k) == Has(k) /\ receipts[k].attempts > 1

Bounds ==
  /\ \A o \in Operators : decision[o].run = r1
  /\ ~Retried(k2)
  /\ R1Only \/ /\ ~Has(k2) /\ ~Retried(k1)
               /\ \A r \in Runs : call[r] \in IF calls[r1] = 1 THEN Contested ELSE OneKey

\* No operator decides on a key that a run is working on while it is alone.
PatientAlone ==
  \A o \in Operators :
    At(o, "idle") /\ ~At(o, "idle")' => ~Alone' \/ ~Busy(decision[o].key)'
=============================================================================
