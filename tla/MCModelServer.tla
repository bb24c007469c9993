--------------------------- MODULE MCModelServer ---------------------------
(* An instance of ModelReplies, with the repair of arguments, for TLC. *)
EXTENDS ModelReplies, ToolArguments, TLC

CONSTANTS w1, w2

\* A thread that replies repairs the arguments of a call where they need it and
\* nowhere else (RepairsIfNeeded).
RepairIsNeeded == \A w \in Threads : At(w, "render") => RepairsIfNeeded
=============================================================================
