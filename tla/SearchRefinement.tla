--------------------------- MODULE SearchRefinement ---------------------------
(* The questions about a finished search (search_refinement.py,                 *)
(* search_refinement_presentation.py, search_v4_service.py).  A question offers *)
(* registered answers of one topic, each with a preview of what it does to the  *)
(* first three regions; the page applies the answer that is chosen and searches *)
(* again (App.tsx).  Previews rank the candidates of the search that was asked  *)
(* about, a new search ranks the whole catalogue.                               *)
EXTENDS SearchRanking

CONSTANTS Registry,   \* the topics: a factor and its answers
          Catalogues, \* the facts of the candidates, by the name of a catalogue
          Starts,     \* the catalogue and the intent of a first search
          MaxOptions,
          Rounds      \* bound: questions answered or skipped

\* what the search service accepts as the intent of a search
ASSUME StartsAssumption == \A start \in Starts :
    DOMAIN start[2] = IntentFields /\ LegalIntent(start[2])

VARIABLES cat,     \* the name of the catalogue
          wish,    \* the intent of the search on the page
          settled, \* topics that were answered or skipped
          offer    \* the question on the page, if any
refineVars == <<cat, wish, settled, offer>>

Facts == Catalogues[cat]
NoOffer == [topic |-> "none"]
PassValue == {f \in Graded : Policy.factors[f].group = "value"}
FactorOf(t) == Registry[t].factor
AnswersOf(t) == DOMAIN Registry[t].answers
Patch(t, a) == Registry[t].answers[a]
Dropped(fun, S) == [x \in DOMAIN fun \ S |-> fun[x]]
OrderMargin == <<2, 100>>
ScoreMargin == <<5, 100>>

\* an answer sets the preference or the objective of its factor and drops the other
Applied(i, t, a) ==
    IF Patch(t, a).kind = "objective"
    THEN [i EXCEPT !.prefers = Table(Dropped(@, {FactorOf(t)})),
                   !.objectives = [f \in {FactorOf(t)} |-> Patch(t, a).importance] \oplus @]
    ELSE [i EXCEPT !.objectives = Table(Dropped(@, {FactorOf(t)})),
                   !.prefers = [f \in {FactorOf(t)} |->
                                    [mode |-> Patch(t, a).mode, values |-> Patch(t, a).values,
                                     importance |-> Patch(t, a).importance]] \oplus @]

\* the page keeps one pass value objective
Replaces(t, a) == Patch(t, a).kind = "objective" /\ FactorOf(t) \in PassValue
\* Mutant: the objective of a factor stays beside the preference an answer sets.
AppliedBeside(i, t, a) ==
    IF Patch(t, a).kind = "objective" THEN Applied(i, t, a)
    ELSE [Applied(i, t, a) EXCEPT !.objectives = i.objectives]
AppliedByPage(i, t, a) ==
    IF Replaces(t, a)
    THEN Applied([i EXCEPT !.objectives = Table(Dropped(@, PassValue))], t, a)
    ELSE Applied(i, t, a)

\* only candidates of the first search are ranked for an answer: none may be readmitted
Widens(i, t, a) ==
    /\ FactorOf(t) \in Synthesized(i)
    /\ LET kept == i.prefers[FactorOf(t)].values  p == Patch(t, a)
       IN  \/ p.kind = "objective" \/ p.mode # "require"
           \/ kept # {} /\ (p.values = {} \/ ~(p.values \subseteq kept))

\* Mutant: the numbers of the first search's candidates stay the measure of a variant.
FrozenBounds(C, i, t, a) ==
    LET j == Applied(i, t, a)  first == AdmittedOf(C, i)
    IN  RankWith(C, j, {x \in first : Admitted(C[x], j)}, first)
Variant(C, i, t, a) == LET j == Applied(i, t, a)
                       IN  RankAmong(C, j, {x \in AdmittedOf(C, i) : Admitted(C[x], j)})

-------------------------------------------------------------------------------
(* Which questions are worth asking.                                            *)

Believed(f, e) == Tempered(f, e.utility, e.cap)
Varied(f, E) == Cardinality({Believed(f, e) : e \in E}) > 1
Trusted(E) == {e \in E : Less(Zero, e.cap)}

Actionable(f, r) ==
    LET of(x) == r.evaluated[x][f]
        E == {of(x) : x \in r.eligible}
        trusted == {x \in r.eligible : Less(Zero, of(x).cap)}
        n == Cardinality(r.eligible)
        neutral == Policy.factors[f].neutral
        moved == \E e \in Trusted(E) : Believed(f, e) # neutral
    IN  /\ r.eligible # {}
        /\ CASE Policy.factors[f].evidence = "categorical_match" -> Varied(f, Trusted(E))
             [] Policy.factors[f].evidence \in {"comparative", "objective_comparison"} ->
                    /\ Varied(f, E)
                    /\ AtMost(Policy.factors[f].coverage, Frac(Cardinality(trusted), n))
                    /\ AtMost(Policy.factors[f].strength,
                              Total([x \in r.eligible |-> of(x).cap], r.eligible) // Frac(n, 1))
             [] OTHER -> moved /\ Varied(f, E)

Top(r, n) == SubSeq(r.order, 1, IF Len(r.order) < n THEN Len(r.order) ELSE n)
Reordered(l, r) ==
    /\ Seqs!ToSet(Top(l, 3)) = Seqs!ToSet(Top(r, 3)) /\ Top(l, 3) # Top(r, 3)
    /\ \E m, n \in DOMAIN Top(l, 3) :
          LET x == l.order[m]  y == l.order[n]
              left == l.score[x] -- l.score[y]  right == r.score[x] -- r.score[y]
          IN  m < n /\ AtMost(left ** right, Zero) /\ AtMost(OrderMargin, Apart(left, right))
Rescored(l, r) ==
    \E x \in Seqs!ToSet(Top(l, 5) \o Top(r, 5)) \cap DOMAIN l.score \cap DOMAIN r.score :
        AtMost(ScoreMargin, Apart(l.score[x], r.score[x]))
Matters(l, r) == \/ l.eligible # r.eligible
                 \/ Top(l, 1) # Top(r, 1) \/ Seqs!ToSet(Top(l, 3)) # Seqs!ToSet(Top(r, 3))
                 \/ Reordered(l, r) \/ Rescored(l, r)

Clarifiable(f) == Policy.factors[f].clarifiable /\ "clarification" \in Policy.factors[f].roles

\* V: the rankings of the variants
Askable(i, t, options, V) ==
    /\ t \notin settled
    /\ Cardinality(options) \in 2..MaxOptions
    /\ Clarifiable(FactorOf(t))
    /\ \A a \in options : ~Widens(i, t, a) /\ LegalIntent(Applied(i, t, a))
    /\ \E a \in options : Applied(i, t, a) # i
    /\ LET acting == {a \in options : Patch(t, a).kind = "objective"
                                          \/ Patch(t, a).mode # "ignore"}
       IN  acting # {} => \E a \in acting : Actionable(FactorOf(t), V[a])
    /\ \E a, b \in options : Matters(V[a], V[b])

-------------------------------------------------------------------------------
(* What the page shows of an answer.                                            *)

Podium(C, r) == LET leaders == Leaders(C, r)
                IN  SubSeq(leaders, 1, IF Len(leaders) < 3 THEN Len(leaders) ELSE 3)
RegionsOn(C, r) == [k \in DOMAIN Podium(C, r) |-> C[Podium(C, r)[k]].region]
UnscoredOnTop(C, r) == ~(Seqs!ToSet(Podium(C, r)) \subseteq DOMAIN r.score)
RankOf(p, region) == {k \in DOMAIN p : p[k] = region}

Movement(C, from, to) ==
    LET before == RegionsOn(C, from)  after == RegionsOn(C, to)
        moved == SelectSeq(Distinct(after \o before),
                           LAMBDA g : RankOf(before, g) # RankOf(after, g))
        three == SubSeq(moved, 1, IF Len(moved) < 3 THEN Len(moved) ELSE 3)
    IN  [changes |-> [k \in DOMAIN three |-> <<three[k], RankOf(before, three[k]),
                                               RankOf(after, three[k])>>],
         delta |-> Cardinality(to.eligible) - Cardinality(from.eligible)]

\* no preview when the order of the visible regions is not one of scores
Previewed(C, from, to) ==
    IF UnscoredOnTop(C, from) \/ UnscoredOnTop(C, to) THEN {} ELSE {Movement(C, from, to)}

-------------------------------------------------------------------------------
RankedInit ==
    /\ \E start \in Starts : cat = start[1] /\ wish = start[2]
    /\ settled = {} /\ offer = NoOffer

\* The language model proposes a topic and some of its answers, or the service falls
\* back on its own; the question is validated the same way.
OfferQuestion(t) ==
    /\ offer = NoOffer /\ Cardinality(settled) < Rounds
    /\ Cardinality(AdmittedOf(Facts, wish)) >= 2
    /\ LET base == SearchOf(Facts, wish)
           V == Table([a \in AnswersOf(t) |-> Variant(Facts, wish, t, a)])
       IN  \E options \in {o \in SUBSET AnswersOf(t) : Askable(wish, t, o, V)} :
             offer' = [topic |-> t,
                       previews |-> Table([a \in options |-> Previewed(Facts, base, V[a])]),
                       changes |-> {a \in options : Applied(wish, t, a) # wish}]
    /\ UNCHANGED <<cat, wish, settled>>

\* an answer that changes nothing is kept without a search
ChooseOption(a) ==
    /\ offer # NoOffer /\ a \in DOMAIN offer.previews
    /\ wish' = IF a \in offer.changes THEN AppliedByPage(wish, offer.topic, a) ELSE wish
    /\ settled' = settled \cup {offer.topic} /\ offer' = NoOffer
    /\ UNCHANGED cat

SkipQuestion ==
    /\ offer # NoOffer
    /\ settled' = settled \cup {offer.topic} /\ offer' = NoOffer
    /\ UNCHANGED <<cat, wish>>

RankedNext == \/ \E t \in DOMAIN Registry : OfferQuestion(t)
              \/ offer # NoOffer /\ \E a \in DOMAIN offer.previews : ChooseOption(a)
              \/ SkipQuestion

RankedSpec == RankedInit /\ [][RankedNext]_refineVars

-------------------------------------------------------------------------------
\* What the page says an answer will do is what the search of the whole catalogue does
\* when the answer is applied: the regions that move, and how many candidates stay
\* (get_search_refinements, App.applyRefinement).
PreviewHolds(a, base) == \A p \in offer.previews[a] :
    p = Movement(Facts, base, SearchOf(Facts, AppliedByPage(wish, offer.topic, a)))
PreviewExact == offer # NoOffer => LET base == SearchOf(Facts, wish)
                                   IN  \A a \in offer.changes : PreviewHolds(a, base)

\* The same but for the answer that, on the page, replaces another pass value objective
\* (mergeObjectivePatches): its preview ranks both.
PreviewTrue ==
    offer # NoOffer =>
        LET base == SearchOf(Facts, wish)
            others == (DOMAIN wish.objectives \cap PassValue) \ {FactorOf(offer.topic)}
        IN  \A a \in offer.changes : \/ Replaces(offer.topic, a) /\ others # {}
                                     \/ PreviewHolds(a, base)

\* Each group has a share, and the shares are the whole score; no group has more than its
\* cap, and the others divide the rest by their budgets.  There are no shares when the caps
\* leave no room for the whole score (capped_normalize).
Divided(budget, share) ==
    /\ DOMAIN share = DOMAIN budget /\ Total(share, DOMAIN share) = One
    /\ \A g \in DOMAIN share : Less(Zero, share[g]) /\ AtMost(share[g], Most(g))
    /\ \A g, h \in DOMAIN share : share[h] # Most(h) =>
          /\ AtMost(share[g] ** budget[h], share[h] ** budget[g])
          /\ share[g] # Most(g) => share[g] ** budget[h] = share[h] ** budget[g]
DividedOrNone(budget, share) ==
    IF Less(Total(Mosts(budget), DOMAIN budget), One) THEN share = <<>> ELSE Divided(budget, share)
BudgetOf(E) == Budgets(wish, {f \in DOMAIN E : Activated(wish, f, E[f])})
SharesFair ==
    offer = NoOffer => LET r == SearchOf(Facts, wish) IN
        \A x \in r.eligible : \A budget \in {BudgetOf(r.evaluated[x])} :
            DividedOrNone(budget, Shares(budget))

\* A wish the page has put together stays one the service accepts: a factor is never both
\* an objective and a preference (SearchIntent.validate_patches, validate_search_intent).
RankingSafe == PreviewTrue /\ SharesFair /\ LegalIntent(wish)
===============================================================================
