---------------------------- MODULE ModelReplies ----------------------------
(***************************************************************************)
(* The threads of the model server (ModelServer) with what they compute     *)
(* (Responses): what a thread asks the provider with, and what one that     *)
(* replies tells the client.  The computations are pure, so what is said of *)
(* them holds wherever a thread is; it is said where it matters.            *)
(***************************************************************************)
EXTENDS ModelServer, Responses

\* A thread that asks the provider tells it the client's conversation, whole and
\* in order (KeepsConversation).
ConversationIsKept == \A w \in Threads : At(w, "open") => KeepsConversation

\* ... and in both wire formats asks the same (WaysAreEqual).
WaysAgree == \A w \in Threads : At(w, "open") => WaysAreEqual

\* A thread that replies tells the client calls it can make and ask about again
\* (OffersCalls).
CallsAreOffered == \A w \in Threads : At(w, "render") => OffersCalls
=============================================================================
