----------------------------- MODULE EgoRouting -----------------------------
(***************************************************************************)
(* Which E.G.O.s a request is given: HybridCapabilityRouter                *)
(* (ego/router_v2.py) ranks what the registry lists, and                   *)
(* AdaptiveCapabilityRouter (ego/adaptive_router.py) adjusts the ranks by  *)
(* what EgoAdaptiveScorer (ego/telemetry.py) makes of each version's past. *)
(*                                                                         *)
(* Pure functions over bounded inputs.  A score is in thousandths, rounded *)
(* towards zero; the decayed weight of an event in quarters.  Of a query   *)
(* only how often it hits the fields of an E.G.O. counts.                  *)
(***************************************************************************)
EXTENDS Integers, SequencesExt

\* How often the query hits an E.G.O., whether it provides what is required, and
\* whether anything is.
Hits == [keywords: 0..1, tags: 0..1, provides: {0}, description: 0..1, examples: 0..2,
         capable: BOOLEAN]

\* A past: events of a kind, failed and then done well, how many half-lives ago
\* and how often.
Event(kind, success, age, times) ==
  [kind |-> kind, success |-> success, age |-> age, times |-> times]
Past(kind, age, f, s) == <<Event(kind, FALSE, 0, f), Event(kind, TRUE, age, s)>>
Pasts ==
  {Past("runtime_use", 0, f, s) : f, s \in {0, 2, 14}}
    \cup {Past("replay_health", 2, f, s) : f, s \in {0, 2, 14}}

-----------------------------------------------------------------------------
(* EgoAdaptiveScorer, with its defaults *)

MinSamples == 3
SaturationSamples == 12
MaxAdjustment == 350
PriorQuarters == 8

Weight(event) ==
  (CASE event.age = 0 -> 4 [] event.age = 1 -> 2 [] OTHER -> 1)
    * (IF event.kind = "replay_health" THEN 2 ELSE 1)

Total(terms) ==
  LET sum[i \in 0..Len(terms)] == IF i = 0 THEN 0 ELSE sum[i - 1] + terms[i]
  IN sum[Len(terms)]

TowardsZero(a, b) == IF a >= 0 THEN a \div b ELSE -((-a) \div b)

Clamped(x, bound) == IF x > bound THEN bound ELSE IF x < -bound THEN -bound ELSE x

\* summary(...).routing_adjustment
Adjustment(past) ==
  LET samples == Total([i \in DOMAIN past |-> past[i].times])
      weight == [i \in DOMAIN past |-> past[i].times * Weight(past[i])]
      total == Total(weight)
      won == Total([i \in DOMAIN past |-> IF past[i].success THEN weight[i] ELSE 0])
      confidence == IF samples > SaturationSamples THEN SaturationSamples ELSE samples
  IN IF samples < MinSamples THEN 0
     ELSE Clamped(TowardsZero(MaxAdjustment * (2 * won - total) * confidence,
                              (total + PriorQuarters) * SaturationSamples), MaxAdjustment)

-----------------------------------------------------------------------------
(* HybridCapabilityRouter.rank and route *)

Relevance(hits, required) ==
  4000 * hits.keywords + 3000 * hits.tags + 3000 * hits.provides
    + 1500 * hits.description + 750 * hits.examples + 6000 * required

\* Mutant: the adjustment is added to what is not relevant as well.
ScoreAnyway(hits, required, adjustment) ==
  Relevance(hits, required) + 2 * Clamped(adjustment, 1000)

Score(hits, required, adjustment) ==
  LET relevance == Relevance(hits, required)
  IN IF relevance > 0 THEN relevance + 2 * Clamped(adjustment, 1000) ELSE relevance

\* The E.G.O.s that are ranked at all.
Ranked(egos, required, adjusted) ==
  {id \in DOMAIN egos : /\ required > 0 => egos[id].hits.capable
                        /\ Score(egos[id].hits, required, adjusted[id]) > 0}

\* By falling score, then by id.
Before(egos, required, adjusted, i, j) ==
  LET score(id) == Score(egos[id].hits, required, adjusted[id])
  IN score(i) > score(j) \/ (score(i) = score(j) /\ i < j)

InOrder(egos, required, adjusted) ==
  LET ranked == Ranked(egos, required, adjusted)
  IN {s \in [1..Cardinality(ranked) -> ranked] :
        \A i, j \in DOMAIN s : i < j => Before(egos, required, adjusted, s[i], s[j])}

Routed(egos, required, adjusted, limit) ==
  LET order == CHOOSE s \in InOrder(egos, required, adjusted) : TRUE
  IN IF limit <= 0 THEN <<>> ELSE SubSeq(order, 1, IF limit < Len(order) THEN limit ELSE Len(order))

\* AdaptiveCapabilityRouter.route, and the same without telemetry.
Adapted(egos, required, limit) ==
  Routed(egos, required, [id \in DOMAIN egos |-> Adjustment(egos[id].past)], limit)
Plain(egos, required, limit) == Routed(egos, required, [id \in DOMAIN egos |-> 0], limit)

-----------------------------------------------------------------------------
(* Properties *)

Pairs == {<<[hits |-> h, past |-> p], [hits |-> g, past |-> q]>> :
            h \in Hits, g \in {x \in Hits : x.keywords = 0 /\ x.tags = 0 /\ x.capable},
            p \in Pasts, q \in Pasts}

\* "Telemetry cannot make a semantically irrelevant E.G.O route by itself", nor
\* (with the default bound, which is a little less than the smallest hit) keep a
\* relevant one from being routed: it only reorders, and never two E.G.O.s whose
\* relevance differs by more than twice its bound on either side.
OnlyReorders(egos, required) ==
  LET all == Cardinality(DOMAIN egos)
      adapted == Adapted(egos, required, all)
      plain == Plain(egos, required, all)
      relevance(id) == Relevance(egos[id].hits, required)
      apart == \A k \in 1..(Len(plain) - 1) :
                 relevance(plain[k]) - relevance(plain[k + 1]) > 4 * MaxAdjustment
  IN ToSet(adapted) = ToSet(plain) /\ (apart => adapted = plain)

\* ... of two.
FeedbackOnlyReorders == \A egos \in Pairs, required \in {0, 1} : OnlyReorders(egos, required)
=============================================================================
