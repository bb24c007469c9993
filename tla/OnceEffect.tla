------------------------------ MODULE OnceEffect ------------------------------
(***************************************************************************)
(* What the recovery layer promises about the side effect of one            *)
(* idempotency key, seen from outside: the effect is applied at most once,  *)
(* only while a durable "started" entry announces it, and the entry says    *)
(* committed for good once the effect happened or somebody vouched for it.  *)
(*                                                                         *)
(* The promise is the receipt table of docs/V08_GOAL_RECOVERY_FOUNDATION;   *)
(* the definitions follow the checks of recovery/sqlite.py.  There is no    *)
(* process, journal or crash here: those are SideEffects' business.         *)
(***************************************************************************)
EXTENDS Naturals

CONSTANT Keys

VARIABLES
  ledger,   \* "none", "started", "committed" or "failed", by key
  applied   \* how often the effect of a key was applied

vars == <<ledger, applied>>

Init ==
  /\ ledger = [k \in Keys |-> "none"]
  /\ applied = [k \in Keys |-> 0]

Become(k, from, to) ==
  /\ ledger[k] = from
  /\ ledger' = [ledger EXCEPT ![k] = to]
  /\ UNCHANGED applied

\* reserve: the effect is announced before it may happen.
Announce(k) == Become(k, "none", "started")

\* The effect happens: announced, never before, and not yet settled.
Happen(k) ==
  /\ ledger[k] = "started"
  /\ applied[k] = 0
  /\ applied' = [applied EXCEPT ![k] = 1]
  /\ UNCHANGED ledger

\* commit_receipt, fail_receipt, retry_receipt.
Commit(k) == Become(k, "started", "committed")
Fail(k)   == Become(k, "started", "failed")
Reopen(k) == Become(k, "failed", "started")

Next == \E k \in Keys : Announce(k) \/ Happen(k) \/ Commit(k) \/ Fail(k) \/ Reopen(k)

Spec == Init /\ [][Next]_vars
=============================================================================
