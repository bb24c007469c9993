---------------------------- MODULE MCLongHorizon ----------------------------
(* Instances of LongHorizon for TLC. *)
EXTENDS LongHorizon, TLC

CONSTANTS c1, c2, r1, r2, s1, s2

\* No step waits for another: the two of a plan may run in any order.
Apart == [s \in StepIds |-> {}]

Budget == [s \in StepIds |-> IF s = s1 THEN 2 ELSE 1]

Order == [s \in StepIds |-> IF s = s1 THEN 2 ELSE 1]

Symmetry == Permutations({r1, r2}) \cup Permutations({c1, c2})

\* Bounds: the first revision has both steps.  Alone, a coordinator begins four
\* operations, crashes and has an operator beside it; another comes before any
\* of that happened, each begins two then, and no operator interferes.
Bounds ==
  /\ \A c \in Coordinators : ops[c] = 0 => Ids(seen[c]) = StepIds
  /\ Alone \/ \A c \in Coordinators : ops[c] <= 2

Separate ==
  /\ Alone /\ disturbed => Alone'
  /\ pc' = pc => Alone
=============================================================================
