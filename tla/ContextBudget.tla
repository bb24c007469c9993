---------------------------- MODULE ContextBudget ----------------------------
(***************************************************************************)
(* What of all it knows the runtime shows the engine: the delivery of       *)
(* library entries (library/delivery.py) and the context pack              *)
(* (context/compiler.py, context/budget.py), both cut to a budget of       *)
(* characters, one after the other.                                        *)
(*                                                                         *)
(* Pure functions over bounded inputs.  Characters are counted in units:   *)
(* one for an item of the pack and for each part of a library item, so a   *)
(* list is its items' numbers, oldest or best first.  80 characters of     *)
(* knowledge, below which it is not shortened, are one unit too.           *)
(***************************************************************************)
EXTENDS Naturals, SequencesExt

Lesser(a, b) == IF a < b THEN a ELSE b
Greater(a, b) == IF a > b THEN a ELSE b
Monus(a, b) == IF a > b THEN a - b ELSE 0

Sizes(s, Size(_)) ==
  LET sum[i \in 0..Len(s)] == IF i = 0 THEN 0 ELSE sum[i - 1] + Size(s[i])
  IN sum[Len(s)]

\* The index of the last element of s that is so, 0 if none is.
LastSuch(s, Test(_)) == CHOOSE i \in 0..Len(s) :
  /\ i > 0 => Test(s[i])
  /\ \A j \in (i + 1)..Len(s) : ~Test(s[j])

-----------------------------------------------------------------------------
(* Library items *)

\* Optional parts, in the order they are given up (two of the six).
Optional == <<"pitfalls", "use_when">>

\* What retrieval found: does it advise or warn (fit "avoid"), how much is there
\* to say.
Found == [fit: {"apply", "avoid"}, parts: {{}, {"pitfalls", "use_when"}}, knowledge: {1, 3}]

SeqUpTo(S, n) == UNION {[1..k -> S] : k \in 0..n}

\* The roles of build_library_delivery: the first item that does not warn is
\* the primary advice, or the first if all warn.
Roles(found) ==
  LET advising == {i \in DOMAIN found : found[i].fit # "avoid"}
      primary == IF advising = {} THEN 1
                 ELSE CHOOSE i \in advising : \A j \in advising : i <= j
  IN [i \in DOMAIN found |->
       [role |-> IF i = primary THEN "primary"
                 ELSE IF found[i].fit = "avoid" THEN "guardrail" ELSE "complement",
        id |-> i, parts |-> found[i].parts, knowledge |-> found[i].knowledge]]

Compact(item) == 1 + Cardinality(item.parts) + item.knowledge

\* delivery_chars, and the same with the spaces the compiler's JSON has.
DeliveryChars(items) == Sizes(items, Compact)
JsonChars(items) == Len(items) + DeliveryChars(items)

IsGuardrail(item) == item.role = "guardrail"
IsComplement(item) == item.role = "complement"
IsPrimary(item) == item.role = "primary"
IsAdvice(item) == ~IsGuardrail(item)

\* The last item gives up the first part any item still has.
GivesUp(items) == \E i \in DOMAIN items : items[i].parts # {}
GiveUp(items) ==
  LET has(p) == LastSuch(items, LAMBDA x : p \in x.parts)
      part == IF has(Optional[1]) > 0 THEN Optional[1] ELSE Optional[2]
  IN [items EXCEPT ![has(part)].parts = @ \ {part}]

\* The first item with the longest knowledge.
Longest(items) == CHOOSE i \in DOMAIN items :
  /\ \A j \in DOMAIN items : items[j].knowledge <= items[i].knowledge
  /\ \A j \in 1..(i - 1) : items[j].knowledge < items[i].knowledge

Without(items, i) == RemoveAt(items, i)

-----------------------------------------------------------------------------
(* library/delivery.py: _fit_budget *)

\* Mutant: whatever comes last is dropped.
DropLastItem(items) == IF Len(items) > 1 THEN Without(items, Len(items)) ELSE items

\* Under severe pressure, advice before a guardrail.
DropAdvice(items) ==
  LET i == LastSuch(items, IsAdvice)
  IN IF Len(items) > 1 /\ i > 0 THEN Without(items, i) ELSE items

Deliver1(items, limit) ==
  LET complement == LastSuch(items, IsComplement)
      longest == Longest(items)
      long == items[longest].knowledge
  IN IF GivesUp(items) THEN GiveUp(items)
     ELSE IF complement > 0 THEN Without(items, complement)
     ELSE IF long > 1
     THEN [items EXCEPT ![longest].knowledge =
             Greater(1, long - Greater(1, DeliveryChars(items) - limit))]
     ELSE DropAdvice(items)

\* The loop: a round that takes anything takes a character, so there are no more
\* rounds than characters.
Delivered(items, limit) ==
  LET chars == DeliveryChars(items)
      left[n \in 0..chars] ==
        IF n = 0 THEN items
        ELSE LET last == left[n - 1]
             IN IF DeliveryChars(last) <= limit THEN last ELSE Deliver1(last, limit)
  IN left[chars]

-----------------------------------------------------------------------------
(* context/compiler.py: _prune_library_once and _fit_library_payload *)

PruneOnce(items) ==
  LET complement == LastSuch(items, IsComplement)
      longest == Longest(items)
  IN IF items = <<>> THEN items
     ELSE IF GivesUp(items) THEN GiveUp(items)
     ELSE IF complement > 0 THEN Without(items, complement)
     ELSE IF items[longest].knowledge > 1
     THEN [items EXCEPT ![longest].knowledge = 1]
     ELSE DropAdvice(items)

\* Prunes until the items are at most limit, or nothing can be pruned.
Fitted(items, limit) ==
  LET chars == JsonChars(items)
      left[n \in 0..chars] ==
        IF n = 0 THEN items
        ELSE LET last == left[n - 1]
             IN IF JsonChars(last) <= limit THEN last ELSE PruneOnce(last)
  IN left[chars]

-----------------------------------------------------------------------------
(* ContextCompiler.compile_with_report *)

\* trim_text: a cut text ends in an ellipsis that counts.
TrimText(length, limit) ==
  IF length <= limit THEN length ELSE IF limit <= 1 THEN limit ELSE (limit - 1) + 1

Best(s, n) == SubSeq(s, 1, Lesser(n, Len(s)))
Newest(s, n) == SubSeq(s, 1 + Monus(Len(s), n), Len(s))

\* Identity, state and constraints are never cut.
Envelope == 2

PackChars(pack) ==
  Envelope + pack.user + Len(pack.memories) + Len(pack.session) + Len(pack.history)
           + Len(pack.egos) + Len(pack.tools)
           + (IF pack.library = <<>> THEN 0 ELSE JsonChars(pack.library))

\* What is selected by number, before any total is looked at.
Selected(given, budget) ==
  [user |-> TrimText(given.user, budget.user),
   memories |-> Best(given.memories, budget.items),
   egos |-> Best(given.egos, budget.items),
   tools |-> Best(given.tools, budget.items),
   history |-> Newest(given.history, budget.items),
   session |-> Newest(given.session, budget.items),
   library |-> Fitted(Best(given.library, budget.libraryItems), budget.library)]

\* Drops from a list what is over the total, down to the `floor` last or first.
Over(pack, budget) == Monus(PackChars(pack), budget.total)
FromEnd(s, n) == Best(s, Monus(Len(s), n))
FromFront(s, n, floor) == Newest(s, Greater(Lesser(floor, Len(s)), Monus(Len(s), n)))

\* Mutant: results of actions are dropped from the end.
ShedHistoryFromEnd(pack, budget) ==
  [pack EXCEPT !.history = Best(@, Greater(Lesser(1, Len(@)), Monus(Len(@), Over(pack, budget))))]
ShedMemories(pack, budget) == [pack EXCEPT !.memories = FromEnd(@, Over(pack, budget))]
ShedSession(pack, budget) == [pack EXCEPT !.session = FromFront(@, Over(pack, budget), 1)]
ShedHistory(pack, budget) == [pack EXCEPT !.history = FromFront(@, Over(pack, budget), 1)]
ShedEgos(pack, budget) == [pack EXCEPT !.egos = FromEnd(@, Over(pack, budget))]
ShedTools(pack, budget) == [pack EXCEPT !.tools = FromEnd(@, Over(pack, budget))]
ShedLibrary(pack, budget) ==
  [pack EXCEPT !.library = Fitted(@, Monus(budget.total, PackChars([pack EXCEPT !.library = <<>>])))]
ShedUser(pack, budget) ==
  [pack EXCEPT !.user = TrimText(@, Monus(@, Over(pack, budget)))]

Pruned(pack, budget) ==
  LET a == ShedMemories(pack, budget)
      b == ShedSession(a, budget)
      c == ShedHistory(b, budget)
      d == ShedEgos(c, budget)
      e == ShedTools(d, budget)
      f == ShedLibrary(e, budget)
  IN ShedUser(f, budget)

\* The pack, or the ValueError.
Compile(given, budget) ==
  LET pack == Pruned(Selected(given, budget), budget)
  IN [ok |-> PackChars(pack) <= budget.total, pack |-> pack]

-----------------------------------------------------------------------------
(* Properties *)

\* A few deliveries of each shape, for packs with everything in them.
Lone == {<<[fit |-> f, parts |-> {"pitfalls"}, knowledge |-> k]>> : f \in {"apply", "avoid"}, k \in {1, 3}}
Mixed == {<<[fit |-> f, parts |-> {"use_when"}, knowledge |-> 1],
            [fit |-> "avoid", parts |-> {}, knowledge |-> 3],
            [fit |-> g, parts |-> {}, knowledge |-> 1]>> : f, g \in {"apply", "avoid"}}
Shelves == {Roles(found) : found \in {<<>>} \cup Lone \cup Mixed}

Lists(N) == {[i \in 1..n |-> i] : n \in N}

Givens ==
  [user : {1, 3}, memories : Lists(0..2), session : Lists({0, 2, 3}), history : Lists({0, 2, 3}),
   egos : Lists(0..1), tools : Lists(0..1), library : Shelves]

Budgets == {[total |-> t, user |-> 2, items |-> 2, libraryItems |-> 3, library |-> l] :
              t \in 3..14, l \in {6, 12}}

\* What no pruning may touch: the newest result and message, and the guardrails
\* (without any, the advice that is left), bare.
Irreducible(given) ==
  LET guardrails == Cardinality({i \in DOMAIN given.library : IsGuardrail(given.library[i])})
      bare == IF guardrails > 0 THEN guardrails ELSE Lesser(1, Len(given.library))
  IN Envelope + Lesser(1, Len(given.session)) + Lesser(1, Len(given.history)) + 3 * bare

\* A pack never exceeds its budget, and is refused only when what must not be
\* touched exceeds it alone ("context budget is smaller than the irreducible
\* context envelope"); what survives is the newest action result and message,
\* and a shorter history means that no memory and no older message is left.
PackFits(given, budget) ==
  LET result == Compile(given, budget)
      pack == result.pack
      whole == Lesser(Len(given.history), budget.items)
  IN /\ result.ok => PackChars(pack) <= budget.total
     /\ result.ok <=> Irreducible(given) <= budget.total
     /\ given.history # <<>> => pack.history # <<>> /\ Last(pack.history) = Last(given.history)
     /\ given.session # <<>> => pack.session # <<>> /\ Last(pack.session) = Last(given.session)
     /\ Len(pack.history) < whole => pack.memories = <<>> /\ Len(pack.session) <= 1

\* ... for bounded packs and budgets.
PacksFit == \A given \in Givens, budget \in Budgets : PackFits(given, budget)

Ids(items, Test(_)) == {items[i].id : i \in {j \in DOMAIN items : Test(items[j])}}

\* "Safety boundaries survive ordinary request-aware pruning", "under severe
\* pressure, safety wins over a positive recommendation": whatever the two
\* budgets, delivery and compiler together drop no warning that has a guardrail's
\* role, and keep no second recommendation without the primary one.
Survives(found, limit, again) ==
  LET items == Roles(found)
      shown == Fitted(Delivered(items, limit), again)
  IN /\ Ids(shown, IsGuardrail) = Ids(items, IsGuardrail)
     /\ Ids(shown, IsComplement) # {} => Ids(shown, IsAdvice) \cap Ids(items, IsPrimary) # {}
     /\ items # <<>> => shown # <<>>

\* ... for bounded deliveries and budgets.
GuardrailsSurvive ==
  \A found \in SeqUpTo(Found, 3), limit \in {1, 4, 7, 10}, again \in {1, 5, 9, 14} :
    Survives(found, limit, again)
=============================================================================
