------------------------------ MODULE Responses ------------------------------
(***************************************************************************)
(* The two ways the model server asks a model for the client: by a chat     *)
(* request that stands for the client's Responses request                   *)
(* (server/responses.py, server/proxy.py, server/completion.py) and by the  *)
(* Responses request itself (server/native_responses.py).                   *)
(*                                                                         *)
(* All of this is pure: requests go in, replies come out.  A name is the    *)
(* sequence of what "__" separates in it, so that a tool read of a          *)
(* namespace s and a plain tool s__read are called by the same name; a text *)
(* is the sequence of the JSON objects, and of what is none, it consists of. *)
(***************************************************************************)
EXTENDS Naturals, SequencesExt

CONSTANTS
  Read, Exec, \* names of tools; the small profile allows Exec
  Server      \* a namespace

NoNamespace == <<>>

\* _CODEX_SMALL_ALLOWED_TOOLS
Allowed == {<<Exec>>}

Profiles == {"full", "codex-small"}

\* What the client offers: functions, custom tools, namespaces of functions, and
\* tools of other types.
Function(name) == [type |-> "function", name |-> name]
Custom(name) == [type |-> "custom", name |-> name]
Namespace(name, children) == [type |-> "namespace", name |-> name, children |-> children]
Hosted == [type |-> "web_search"]

\* What the client tells of the conversation: messages, calls, their outputs, and
\* items the chat format has no words for.
MessageItem(role) == [type |-> "message", role |-> role]
CallItem(id, namespace, name, custom) ==
  [type |-> "call", id |-> id, namespace |-> namespace, name |-> name, custom |-> custom]
OutputItem(id, success) == [type |-> "output", id |-> id, success |-> success]
Reasoning == [type |-> "reasoning"]

\* What the model answers: a text and calls by the names it was offered.
Object(name) == [kind |-> "object", name |-> name]
Prose == [kind |-> "prose", name |-> <<>>]

\* The elements of a sequence that are so (SelectSeq, in a form that a proof can expand).
Only(s, Is(_)) == FlattenSeq([i \in DOMAIN s |-> IF Is(s[i]) THEN <<s[i]>> ELSE <<>>])

-----------------------------------------------------------------------------
(* From Responses to chat *)

\* _wire_tool_name
WireName(namespace, name) == namespace \o name

\* add_function: the tools one tool of the client stands for.
ToolsOf(tool) ==
  CASE tool.type \in {"function", "custom"} ->
         <<[kind |-> tool.type, namespace |-> NoNamespace, name |-> tool.name]>>
    [] tool.type = "namespace" ->
         [i \in DOMAIN tool.children |->
           [kind |-> "function", namespace |-> tool.name, name |-> tool.children[i]]]
    [] OTHER -> <<>>

\* Mutant: the small profile looks at the name with the namespace.
ChatToolsByWireName(tools, profile) ==
  Only(FlattenSeq([i \in DOMAIN tools |-> ToolsOf(tools[i])]),
            LAMBDA t : profile = "full" \/ WireName(t.namespace, t.name) \in Allowed)

\* _responses_tools_to_chat
ChatTools(tools, profile) ==
  Only(FlattenSeq([i \in DOMAIN tools |-> ToolsOf(tools[i])]),
            LAMBDA t : profile = "full" \/ t.name \in Allowed)

\* The metadata of what is offered by wire name; of two the last one stays.
Metadata(offered) ==
  LET wire(i) == WireName(offered[i].namespace, offered[i].name) IN
  [w \in {wire(i) : i \in DOMAIN offered} |->
    LET last == CHOOSE i \in DOMAIN offered :
                  wire(i) = w /\ \A j \in DOMAIN offered : wire(j) = w => j <= i
    IN  offered[last]]

ChatRole(role) ==
  CASE role = "developer" -> "system"
    [] role \in {"system", "user", "assistant", "tool"} -> role
    [] OTHER -> "user"

Says(role) == [role |-> role, calls |-> <<>>, id |-> 0]
Calls(calls) == [role |-> "assistant", calls |-> calls, id |-> 0]
Tells(id) == [role |-> "tool", calls |-> <<>>, id |-> id]

\* A call as the model is shown it.
ChatCall(item) == [id |-> item.id, wire |-> WireName(item.namespace, item.name)]

Flushed(said) ==
  IF said.pending = <<>> THEN said.messages ELSE Append(said.messages, Calls(said.pending))

\* Mutant: what the chat format has no words for leaves pending calls pending.
AfterLate(said, item) ==
  CASE item.type = "call" -> [said EXCEPT !.pending = Append(@, ChatCall(item))]
    [] item.type = "output" ->
         [messages |-> Append(said.messages, Tells(item.id)), pending |-> said.pending]
    [] item.type = "message" ->
         [messages |-> Append(Flushed(said), Says(ChatRole(item.role))), pending |-> <<>>]
    [] OTHER -> said

\* One item of the loop: calls wait for the next item that is none.
After(said, item) ==
  CASE item.type = "call" -> [said EXCEPT !.pending = Append(@, ChatCall(item))]
    [] item.type = "output" ->
         [messages |-> Append(Flushed(said), Tells(item.id)), pending |-> <<>>]
    [] item.type = "message" ->
         [messages |-> Append(Flushed(said), Says(ChatRole(item.role))), pending |-> <<>>]
    [] OTHER -> [messages |-> Flushed(said), pending |-> <<>>]

\* _responses_input_to_chat_messages
ChatMessages(instructed, input) ==
  Flushed(FoldLeft(After, [messages |-> IF instructed THEN <<Says("system")>> ELSE <<>>,
                           pending |-> <<>>], input))

\* summarize_tool_feedback and completion_feedback_message: one failure outweighs
\* every success.
Feedback(input) ==
  LET outputs == {i \in DOMAIN input : input[i].type = "output"} IN
  CASE outputs = {} -> "none"
    [] \E i \in outputs : input[i].success = "no" -> "failure"
    [] \E i \in outputs : input[i].success = "yes" -> "success"
    [] OTHER -> "unknown"

\* prepare_responses_request: what the small profile says comes after the
\* client's instructions, if those come first, and before the conversation.
Conversation(instructed, input, profile) ==
  LET messages == ChatMessages(instructed, input)
      at == IF messages # <<>> /\ messages[1].role = "system" THEN 1 ELSE 0
      said == <<Says("profile")>>
              \o (IF Feedback(input) = "none" THEN <<>> ELSE <<Says("feedback")>>)
  IN  IF profile = "full" THEN messages
      ELSE SubSeq(messages, 1, at) \o said \o SubSeq(messages, at + 1, Len(messages))

\* The last n of a sequence.
LastOf(s, n) == SubSeq(s, IF Len(s) > n THEN Len(s) - n + 1 ELSE 1, Len(s))

\* _retrieval_query: the user's last words, or else the system's.
Query(messages) ==
  LET recent == LastOf(messages, 12)
      users == Only(recent, LAMBDA said : said.role = "user")
      systems == Only(recent, LAMBDA said : said.role \in {"system", "profile", "feedback"})
  IN  IF users # <<>> THEN LastOf(users, 4) ELSE LastOf(systems, 2)

\* prepare_chat_request, of an input that yields a message; one that yields none is
\* refused (ModelServer).
ChatRequest(instructed, input, profile) ==
  LET messages == Conversation(instructed, input, profile) IN
  [query |-> Query(messages), messages |-> <<Says("yisang")>> \o messages]

-----------------------------------------------------------------------------
(* From chat to Responses *)

\* Mutant: the item does not say which namespace the tool is of.
ToolCallItemBare(wire, id, metadata) ==
  LET tool == IF wire \in DOMAIN metadata THEN metadata[wire]
              ELSE [kind |-> "function", namespace |-> NoNamespace, name |-> wire]
  IN  CallItem(id, NoNamespace, tool.name, tool.kind = "custom")

\* _tool_call_item: an unknown tool is called by the name the model used.
ToolCallItem(wire, id, metadata) ==
  LET tool == IF wire \in DOMAIN metadata THEN metadata[wire]
              ELSE [kind |-> "function", namespace |-> NoNamespace, name |-> wire]
  IN  CallItem(id, tool.namespace, tool.name, tool.kind = "custom")

\* _resolve_tool_wire_name: the wire names a printed name may stand for.
Resolved(name, metadata) ==
  IF name \in DOMAIN metadata THEN {name}
  ELSE LET matches == {wire \in DOMAIN metadata : metadata[wire].name = name}
       IN  IF \E wire \in matches : matches = {wire} THEN matches ELSE {}

\* _decode_text_tool_call_sequence: nothing but JSON objects.
Decoded(text) == IF \A i \in DOMAIN text : text[i].kind = "object" THEN text ELSE <<>>

\* _recover_text_tool_calls: every printed call, or none.
Recovered(text, metadata) ==
  LET printed == Decoded(text)
      wires(i) == Resolved(printed[i].name, metadata)
  IN  IF \E i \in DOMAIN printed : wires(i) = {} THEN <<>>
      ELSE [i \in DOMAIN printed |->
             ToolCallItem(CHOOSE wire \in wires(i) : TRUE, i, metadata)]

\* _chat_response_items; the small profile wants known tools only.
ReplyItems(text, calls, metadata, profile) ==
  LET known == Only(calls, LAMBDA c : profile = "full" \/ c.wire \in DOMAIN metadata)
      native == [i \in DOMAIN known |-> ToolCallItem(known[i].wire, known[i].id, metadata)]
      recovered == Recovered(text, metadata)
  IN  IF profile = "codex-small" /\ native = <<>> /\ recovered # <<>> THEN recovered
      ELSE (IF text = <<>> THEN <<>> ELSE <<MessageItem("assistant")>>) \o native

\* chat_response_to_responses and responses_sse_events: the same items, as one
\* reply or as one event each.
Events(items) ==
  <<[type |-> "created"]>> \o [i \in DOMAIN items |-> [type |-> "done", item |-> items[i]]]
  \o <<[type |-> "completed"]>>

-----------------------------------------------------------------------------
(* Responses as they are *)

\* _filter_codex_small_tools
NativeTools(tools) ==
  LET kept(tool) ==
        CASE tool.type \in {"function", "custom"} ->
               IF tool.name \in Allowed THEN <<tool>> ELSE <<>>
          [] tool.type = "namespace" ->
               LET children == Only(tool.children, LAMBDA name : name \in Allowed)
               IN  IF children = <<>> THEN <<>> ELSE <<[tool EXCEPT !.children = children]>>
          [] OTHER -> <<>>
  IN  FlattenSeq([i \in DOMAIN tools |-> kept(tools[i])])

\* _responses_retrieval_messages: only messages are looked at.
RetrievalMessages(instructed, input) ==
  (IF instructed THEN <<Says("system")>> ELSE <<>>)
  \o FlattenSeq([i \in DOMAIN LastOf(input, 16) |->
       LET item == LastOf(input, 16)[i] IN
       IF item.type = "message" /\ item.role \in {"system", "developer", "user", "assistant"}
       THEN <<Says(ChatRole(item.role))>> ELSE <<>>])

\* prepare_native_responses_request: the items and, but for the small profile, the
\* tools stay as they are; reasoning rules out sampling.
NativeRequest(instructed, input, tools, profile, effort, sampling) ==
  LET found == RetrievalMessages(instructed, input)
      asked == IF found = <<>> THEN <<Says("user")>> ELSE found
  IN  [input |-> input, query |-> Query(asked),
       tools |-> IF profile = "full" THEN tools ELSE NativeTools(tools),
       sampling |-> sampling /\ effort \in {"unset", "none"}]

-----------------------------------------------------------------------------
(* Bounded inputs *)

UpTo(S, n) == UNION {[1..k -> S] : k \in 0..n}

Names == {<<Read>>, <<Exec>>, <<Server, Exec>>}

Tools == {Function(name) : name \in Names} \cup {Custom(<<Exec>>), Hosted}
         \cup {Namespace(<<Server>>, children) : children \in UpTo({<<Read>>, <<Exec>>}, 2)}

Inputs == UpTo({MessageItem("user"), MessageItem("developer"), MessageItem("critic"), Reasoning,
                CallItem(1, NoNamespace, <<Exec>>, TRUE), CallItem(2, <<Server>>, <<Read>>, FALSE),
                OutputItem(1, "no"), OutputItem(2, "yes")}, 4)

WireNames == Names \cup {<<Server, Read>>}

Texts == UpTo({Prose} \cup {Object(name) : name \in WireNames}, 2)

Answers == UpTo({[wire |-> wire, id |-> 1] : wire \in WireNames}, 2)

-----------------------------------------------------------------------------
\* What an item tells, and what a message does.
Told(item) ==
  CASE item.type = "message" -> <<Says(ChatRole(item.role))>>
    [] item.type = "output" -> <<Tells(item.id)>>
    [] item.type = "call" -> <<Calls(<<ChatCall(item)>>)>>
    [] OTHER -> <<>>

Parts(said) ==
  IF said.calls = <<>> THEN <<said>> ELSE [i \in DOMAIN said.calls |-> Calls(<<said.calls[i]>>)]

\* The model is told the whole conversation in its order: every message, call and
\* output once, nothing moved across a call, calls that follow one another in one
\* message, whatever profile adds to it before the client's words.
Keeps(input, instructed, profile) ==
  LET told == Only(ChatRequest(instructed, input, profile).messages,
                   LAMBDA said : said.role \notin {"yisang", "profile", "feedback"})
      first == IF instructed THEN <<Says("system")>> ELSE <<>>
  IN  /\ FlattenSeq([i \in DOMAIN told |-> Parts(told[i])])
           = first \o FlattenSeq([i \in DOMAIN input |-> Told(input[i])])
      /\ Reasoning \notin Range(input) =>
           \A i \in 1 .. Len(told) - 1 : told[i].calls = <<>> \/ told[i + 1].calls = <<>>

\* ... whatever bounded conversation the client tells.
KeepsConversation ==
  \A input \in Inputs, instructed \in BOOLEAN, profile \in Profiles :
    Keeps(input, instructed, profile)

\* The items a client takes from the events of a reply.
ItemsOf(events) ==
  LET done == Only(events, LAMBDA event : event.type = "done")
  IN  [i \in DOMAIN done |-> done[i].item]

\* The wire names by which the next request shows the calls of a reply.
WiresOf(items) ==
  FlattenSeq([i \in DOMAIN items |->
    IF items[i].type = "call" THEN <<ChatCall(items[i]).wire>> ELSE <<>>])

\* What the client is told to call it can be asked about again: the next request
\* shows every call by the wire name it was made by, and under the small profile
\* by a name that is offered, however the model told the call.  A text that is not
\* calls of offered tools alone stays a text.
Offers(tools, text, calls, profile) ==
  LET metadata == Metadata(ChatTools(tools, profile))
      items == ItemsOf(Events(ReplyItems(text, calls, metadata, profile)))
      shown == WiresOf(items)
  IN  /\ profile = "full" => shown = [i \in DOMAIN calls |-> calls[i].wire]
      /\ profile = "codex-small" =>
           /\ Range(shown) \subseteq DOMAIN metadata
           /\ \A i \in DOMAIN items : items[i].type = "call" => items[i].name \in Allowed
           /\ \/ text = <<>> \/ MessageItem("assistant") \in Range(items)
              \/ Prose \notin Range(text) /\ Len(items) = Len(text)

\* ... whatever it offers, the model answers and the profile is.
OffersCalls ==
  \A t1, t2 \in Tools, text \in Texts, calls \in Answers, profile \in Profiles :
    Offers(<<t1, t2>>, text, calls, profile)

\* Both ways to the model offer the same tools under the small profile ...
OfferTheSame(tools) ==
  ChatTools(tools, "codex-small")
    = ChatTools(NativeRequest(FALSE, <<>>, tools, "codex-small", "unset", TRUE).tools, "full")

\* ... and under the full one ask memory about the same words.
AskTheSame(input, instructed) ==
  \/ MessageItem("critic") \in Range(input)
  \/ RetrievalMessages(instructed, input) = <<>>
  \/ NativeRequest(instructed, input, <<>>, "full", "unset", TRUE).query
       = ChatRequest(instructed, input, "full").query

\* The two ways agree, for bounded tools and conversations.
WaysAreEqual ==
  /\ \A t1, t2 \in Tools : OfferTheSame(<<t1, t2>>)
  /\ \A input \in Inputs, instructed \in BOOLEAN : AskTheSame(input, instructed)
=============================================================================
