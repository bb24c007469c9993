----------------------------- MODULE EgoServing -----------------------------
(* What the store serves (EgoLifecycle) is what a request is routed among.  *)
EXTENDS EgoLifecycle, EgoRouting

\* Whatever past an E.G.O. that is served has, routing it is a question of
\* relevance (FeedbackOnlyReorders).
RoutingIsByRelevance == Served # None => FeedbackOnlyReorders
=============================================================================
