----------------------------- MODULE ActionGate -----------------------------
(***************************************************************************)
(* What may run: ActionGate.evaluate (execution/gate.py) over the selected *)
(* E.G.O.s, their permissions and the policy rules (policy.py), asked twice*)
(* for every tool, once when tools are shown to the model and once when the*)
(* model proposes an action (execution/runtime.py), and the failure a      *)
(* refusal or an exception is reported as (execution/failure.py).          *)
(*                                                                         *)
(* Pure functions over bounded inputs.  Of an E.G.O. its id, capabilities  *)
(* and permissions count; of a rule its effect, the principal, resource and*)
(* requester it names (the other fields of a rule are matched like the     *)
(* principal).  A pattern is a name or "*".                                *)
(***************************************************************************)
EXTENDS Integers, Sequences, FiniteSets

Matches(pattern, value) == pattern = "*" \/ pattern = value

\* The E.G.O.s the router selected, in order; the permissions they declare: a
\* file system level and a flag.
Grants == {[files |-> "read", flag |-> FALSE], [files |-> "workspace", flag |-> FALSE],
           [files |-> "absent", flag |-> TRUE]}

EgosNamed(id) == [id: {id}, provides: SUBSET {"edit"}, permissions: Grants]

Selections ==
  {<<>>} \cup {<<a>> : a \in EgosNamed("a")}
         \cup {<<a, b>> : a \in EgosNamed("a"), b \in EgosNamed("b")}

\* A tool that acts on the resource one of its arguments names.
ToolSet ==
  [requires: {{"edit"}},
   needs: {[files |-> "-", flag |-> FALSE], [files |-> "workspace", flag |-> FALSE],
           [files |-> "-", flag |-> TRUE]},
   sideEffecting: BOOLEAN]

\* Policy rules; one that names no requester applies to all.
Rules == [effect: {"permit", "forbid"}, principal: {"a", "*"},
          resource: {"file", "*"}, by: {"engine", "anyone"}]

Policies == {{}} \cup {{r} : r \in Rules} \cup {{r, s} : r \in Rules, s \in Rules}

\* What the model proposes: a resource (or no argument that names one) for the
\* tool, under the engine's name.
Actions == [resource: {"file", "other", "absent"}, by: {"engine"}]

\* What available_tools asks.
Preflight == [resource |-> "absent", by |-> "none"]

-----------------------------------------------------------------------------
(* Permissions: _permissions_allow *)

\* The level of a name; an unknown one grants nothing (-1) and needs all (10).
Level(name, unknown) ==
  CASE name = "none" -> 0 [] name = "read" -> 1 [] name = "workspace" -> 2
    [] name = "unrestricted" -> 3 [] OTHER -> unknown

PermissionsAllow(granted, needed) ==
  /\ needed.flag => granted.flag
  /\ needed.files # "-" => Level(granted.files, -1) >= Level(needed.files, 10)

-----------------------------------------------------------------------------
(* Policy: PolicyRule.matches and AuthorizationPolicyEngine.evaluate *)

\* _policy_request: the resource is the argument's value, else the tool itself.
ResourceOf(action) == IF action.resource = "absent" THEN "tool" ELSE action.resource

RuleMatches(rule, ego, action, exposure) ==
  /\ Matches(rule.principal, ego.id)
  /\ exposure \/ Matches(rule.resource, ResourceOf(action))
  /\ rule.by # "anyone" => rule.by = action.by

\* Mutant: a preflight counts the rules that forbid one resource.
VerdictCountsScoped(policy, ego, action, exposure) ==
  LET matched == {r \in policy : RuleMatches(r, ego, action, exposure)}
  IN IF \E r \in matched : r.effect = "forbid" THEN "explicit_forbid"
     ELSE IF matched # {} THEN "explicit_permit" ELSE "no_matching_permit"

\* A preflight passes over the rules that forbid one resource only.
Verdict(policy, ego, action, exposure) ==
  LET matched == {r \in policy : RuleMatches(r, ego, action, exposure)}
      forbids == {r \in matched : r.effect = "forbid" /\ (exposure => r.resource = "*")}
      permits == {r \in matched : r.effect = "permit"}
  IN IF forbids # {} THEN "explicit_forbid"
     ELSE IF permits # {} THEN "explicit_permit" ELSE "no_matching_permit"

-----------------------------------------------------------------------------
(* ActionGate.evaluate *)

Denied(reason) == [allowed |-> FALSE, reason |-> reason, ego |-> "none"]

\* The positions of the E.G.O.s that provide what the tool requires.
Capable(egos, tool) == {i \in DOMAIN egos : tool.requires \subseteq egos[i].provides}

\* Mutant: permissions are looked for in every selected E.G.O.
PermittedOfAny(egos, tool) ==
  {i \in Capable(egos, tool) :
     \E j \in DOMAIN egos : PermissionsAllow(egos[j].permissions, tool.needs)}

\* ... and may do what it needs.
Permitted(egos, tool) ==
  {i \in Capable(egos, tool) : PermissionsAllow(egos[i].permissions, tool.needs)}

\* Without a policy engine the first such E.G.O. answers; with one, the first
\* the policy permits.
Allowing(w, action, exposure) ==
  {i \in Permitted(w.egos, w.tool) :
     w.engine => Verdict(w.policy, w.egos[i], action, exposure) = "explicit_permit"}

First(positions) == CHOOSE i \in positions : \A j \in positions : i <= j

Evaluate(w, action, exposure) ==
  LET permitted == Permitted(w.egos, w.tool)
      allowing == Allowing(w, action, exposure)
  IN IF ~w.registered THEN Denied("unknown_tool")
     ELSE IF w.tool.sideEffecting /\ ~w.allowSideEffects THEN Denied("side_effects_disabled")
     ELSE IF Capable(w.egos, w.tool) = {} THEN Denied("missing_capability")
     ELSE IF permitted = {} THEN Denied("insufficient_permission")
     ELSE IF allowing # {}
          THEN [allowed |-> TRUE, reason |-> "allowed", ego |-> w.egos[First(allowing)].id]
     ELSE IF \E i \in permitted :
               Verdict(w.policy, w.egos[i], action, exposure) = "explicit_forbid"
          THEN Denied("policy_denied") ELSE Denied("policy_no_permit")

-----------------------------------------------------------------------------
(* execution/failure.py *)

Failure(category, retryable, blame) ==
  [category |-> category, retryable |-> retryable, blame |-> blame]

NoFailure == Failure("none", FALSE, "none")

FailureFromGate(reason) ==
  CASE reason = "unknown_tool" -> Failure("invalid_arguments", TRUE, "model")
    [] reason \in {"side_effects_disabled", "insufficient_permission",
                   "missing_capability", "policy_denied", "policy_no_permit"} ->
         Failure("permission", FALSE, "policy")
    [] reason \in {"missing_recovery_context", "recovery_uncertain_side_effect"} ->
         Failure("verification", FALSE, "recovery")
    [] reason \in {"missing_idempotency_key", "recovery_idempotency_conflict"} ->
         Failure("invalid_arguments", FALSE, "recovery")
    [] reason = "recovery_retry_required" -> Failure("verification", TRUE, "recovery")
    [] reason = "action_runtime_not_configured" -> Failure("environment", FALSE, "runtime")
    [] reason = "action_loop_limit" -> Failure("verification", FALSE, "runtime")
    [] OTHER -> Failure("execution", FALSE, "runtime")

\* What a handler, or validate_arguments before it, may raise.
Raised == {"TimeoutError", "PermissionError", "ConnectionError", "FileNotFoundError",
           "ValueError", "RuntimeError"}

FailureFromException(raised) ==
  CASE raised = "TimeoutError" -> Failure("timeout", TRUE, "environment")
    [] raised = "PermissionError" -> Failure("permission", FALSE, "environment")
    [] raised = "ConnectionError" -> Failure("transient", TRUE, "environment")
    [] raised \in {"FileNotFoundError", "NotADirectoryError", "IsADirectoryError"} ->
         Failure("environment", TRUE, "environment")
    [] raised \in {"ValueError", "TypeError", "KeyError"} ->
         Failure("invalid_arguments", TRUE, "model")
    [] OTHER -> Failure("execution", FALSE, "tool")

-----------------------------------------------------------------------------
(* ActionRuntime *)

\* available_tools shows the tool to the model.
Shown(w) == Evaluate(w, Preflight, TRUE).allowed

\* execute, where the handler ends as `outcome` says.
Executed(w, action, outcome) ==
  LET verdict == Evaluate(w, action, FALSE)
  IN IF ~verdict.allowed
     THEN [status |-> "DENIED", ego |-> verdict.ego,
           failure |-> FailureFromGate(verdict.reason)]
     ELSE IF outcome \in Raised
     THEN [status |-> "ERROR", ego |-> verdict.ego,
           failure |-> FailureFromException(outcome)]
     ELSE [status |-> "EXECUTED", ego |-> verdict.ego, failure |-> NoFailure]

-----------------------------------------------------------------------------
(* Properties *)

Worlds ==
  [registered: {TRUE}, allowSideEffects: {TRUE}, egos: Selections, tool: ToolSet,
   engine: {TRUE}, policy: Policies]
  \cup [registered: BOOLEAN, allowSideEffects: BOOLEAN, egos: Selections, tool: ToolSet,
        engine: {FALSE}, policy: {{}}]

\* What an action needs: one selected E.G.O. that has the capability, the
\* permission and a rule that permits it, and that no rule forbids it to.
\* Capabilities of one E.G.O. and permissions of another do not add up.
Answers(w, action, e) ==
  /\ w.tool.requires \subseteq e.provides
  /\ w.tool.needs.flag => e.permissions.flag
  /\ w.tool.needs.files = "workspace" => e.permissions.files \in {"workspace", "unrestricted"}
  /\ w.engine =>
       LET applies == {r \in w.policy : /\ r.principal \in {"*", e.id}
                                        /\ r.resource \in {"*", ResourceOf(action)}
                                        /\ r.by \in {"anyone", action.by}}
       IN applies # {} /\ \A r \in applies : r.effect = "permit"

\* An action reaches its handler exactly when one E.G.O. answers for it, and it
\* is booked on an E.G.O. that does.
HasOneAnswerable ==
  \A w \in Worlds, action \in Actions :
    LET given == Executed(w, action, "returns")
        able == {w.egos[i].id : i \in {j \in DOMAIN w.egos : Answers(w, action, w.egos[j])}}
    IN IF w.registered /\ (w.tool.sideEffecting => w.allowSideEffects) /\ able # {}
       THEN given.status = "EXECUTED" /\ given.ego \in able
       ELSE given.status = "DENIED"

\* "Resource-scoped forbids do not hide a tool when other resources are
\* allowed": a tool that is not shown to the model is one that no argument makes
\* executable, and (when it is registered) the refusal says not to retry.  Holds
\* for policies that do not name requesters, of which the preflight knows none.
HidesOnlyTheUseless ==
  \A w \in {v \in Worlds : \A r \in v.policy : r.by = "anyone"} :
    ~Shown(w) => \A action \in Actions :
      LET given == Executed(w, action, "returns")
      IN given.status = "DENIED" /\ (given.failure.retryable => ~w.registered)
=============================================================================
