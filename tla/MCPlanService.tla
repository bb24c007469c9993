---------------------------- MODULE MCPlanService ----------------------------
(* Instances of PlanService for TLC. *)
EXTENDS PlanService, TLC

CONSTANTS c1, c2, s1, s2, s3

\* s2 builds on s1; s3 stands alone or may replace either.
Chain == (s1 :> {}) @@ (s2 :> {s1}) @@ (s3 :> {})

Budget == (s1 :> 2) @@ (s2 :> 1) @@ (s3 :> 1)

Order == (s1 :> 2) @@ (s2 :> 1) @@ (s3 :> 3)

ClientSymmetry == Permutations({c1, c2})
=============================================================================
