---------------------------- MODULE SearchRanking ----------------------------
(* The ranking of a search: the candidates that pass the hard constraints of    *)
(* an intent, what each factor says of one of them beside the others, and the  *)
(* order of their scores (search_constraints.py, search_factors/static.py,      *)
(* search_ranking.py).  A catalogue maps a candidate to its facts; a fact or a  *)
(* limit that may be missing is a set of at most one.  A score is a fraction of *)
(* the hundred points, without the rounding of floating point numbers.          *)
EXTENDS Integers, Sequences, FiniteSets, Folds
Seqs == INSTANCE SequencesExt

CONSTANT Policy  \* groups, active factors and multipliers of the ranking policy

-------------------------------------------------------------------------------
(* Fractions in lowest terms, for the real numbers of a ranking.  A fraction is *)
(* a numerator and a positive denominator.                                      *)

Abs(n) == IF n < 0 THEN -n ELSE n
gcd[n \in Nat] == [m \in Nat |-> IF n = 0 THEN m ELSE gcd[m % n][n]]

Frac(n, d) == LET g == gcd[d][Abs(n)] IN <<n \div g, d \div g>>
Zero == <<0, 1>>
One == <<1, 1>>
Half == <<1, 2>>

a ++ b == Frac(a[1] * b[2] + b[1] * a[2], a[2] * b[2])
a -- b == Frac(a[1] * b[2] - b[1] * a[2], a[2] * b[2])
a ** b == Frac(a[1] * b[1], a[2] * b[2])
a // b == Frac(a[1] * b[2], a[2] * b[1])  \* of a positive b
AtMost(a, b) == a[1] * b[2] <= b[1] * a[2]
Less(a, b) == a[1] * b[2] < b[1] * a[2]
Apart(a, b) == IF Less(a, b) THEN b -- a ELSE a -- b
Lowest(S) == CHOOSE a \in S : \A b \in S : AtMost(a, b)
Highest(S) == CHOOSE a \in S : \A b \in S : AtMost(b, a)
Total(f, S) == MapThenFoldSet(LAMBDA a, b : a ++ b, Zero, LAMBDA x : f[x],
                              LAMBDA T : CHOOSE x \in T : TRUE, S)

-------------------------------------------------------------------------------
(* The trust of a fact, and what it allows.                                     *)

TrustOrder == [needs_source |-> 0, estimated |-> 1, verified_with_adjustment |-> 2, verified |-> 3]
TrustCaps == [needs_source |-> Zero, estimated |-> <<1, 4>>,
              verified_with_adjustment |-> One, verified |-> One]
Graded == DOMAIN Policy.factors
Table(f) == CHOOSE g \in {f} : g = f  \* the function f, each of its values worked out once
f \oplus g == [x \in DOMAIN f \cup DOMAIN g |-> IF x \in DOMAIN f THEN f[x] ELSE g[x]]

-------------------------------------------------------------------------------
(* The intent.                                                                  *)

IntentFields == {"places", "window", "lodging", "travel", "quality", "pass", "requirements",
                 "prefers", "objectives", "priorities"}
Mode(i, f) == IF f \in DOMAIN i.prefers THEN i.prefers[f].mode ELSE "unset"
Requested(i, f) == IF f \in DOMAIN i.prefers THEN i.prefers[f].values ELSE {}
Importance(i, f) == CASE f \in DOMAIN i.prefers -> i.prefers[f].importance
                      [] f \in DOMAIN i.objectives -> i.objectives[f]
                      [] OTHER -> "normal"

Demanded(f, values) == /\ f \in Graded /\ "constraint" \in Policy.factors[f].roles
                       /\ values \subseteq Policy.factors[f].values

LegalPreference(i, f) == LET p == i.prefers[f] IN
    /\ f \in Graded /\ p.mode \in Policy.factors[f].modes
    /\ p.values \subseteq Policy.factors[f].values
    /\ p.mode = "require" => Demanded(f, p.values)

LegalIntent(i) ==
    /\ DOMAIN i.prefers \cap DOMAIN i.objectives = {}
    /\ \A g \in DOMAIN i.priorities : /\ g \in DOMAIN Policy.groups
                                      /\ i.priorities[g] \in Policy.groups[g].labels
    /\ \A f \in DOMAIN i.prefers : LegalPreference(i, f)
    /\ \A f \in DOMAIN i.objectives : /\ f \in Graded
                                      /\ Policy.factors[f].activation = "objective_selected"
    /\ \A f \in DOMAIN i.requirements : Demanded(f, i.requirements[f].values)

\* the preferences that require a factor no explicit requirement names
Synthesized(i) == {f \in DOMAIN i.prefers \ DOMAIN i.requirements : Mode(i, f) = "require"}
AllRequirements(i) ==
    i.requirements \oplus [f \in Synthesized(i) |-> [values |-> i.prefers[f].values,
                                                 trust |-> "verified_with_adjustment"]]

-------------------------------------------------------------------------------
(* The constraints.  What is not known of a candidate never excludes it, but    *)
(* for a required feature and for the price of a pass.                          *)

InPlace(c, i) == \A s \in DOMAIN i.places : c.places[s] \cap i.places[s] # {}
InSeason(c, i) == i.window => c.operation # "unavailable"
Affordable(c, i) == \A limit \in i.lodging : \A e \in c.lodging :
    e.mode = limit.mode /\ e.currency = limit.currency =>
        100 * e.minimum <= limit.maximum * (100 + (IF limit.flex > 10 THEN limit.flex ELSE 10))
Reachable(c, i) == \A limit \in i.travel : \A e \in c.travel :
    e.mode = limit.mode => e.minutes <= limit.minutes
GoodEnough(c, i) == \A least \in i.quality : \A score \in c.quality : score >= least
PassInBudget(c, i) == \A limit \in i.pass : \E amount \in c.sold : amount <= limit

Meets(c, f, demand) == LET fact == c.features[f] IN
    /\ f \in DOMAIN c.features /\ fact.availability = "available"
    /\ TrustOrder[fact.trust] >= TrustOrder[demand.trust]
    /\ demand.values # {} => demand.values \cap fact.values # {}

Admitted(c, i) ==
    /\ InPlace(c, i) /\ InSeason(c, i) /\ Affordable(c, i) /\ Reachable(c, i)
    /\ GoodEnough(c, i) /\ PassInBudget(c, i)
    /\ \A f \in DOMAIN AllRequirements(i) : Meets(c, f, AllRequirements(i)[f])

AdmittedOf(cat, i) == {x \in DOMAIN cat : Admitted(cat[x], i)}

-------------------------------------------------------------------------------
(* The factors.  A number is compared with those of the candidates S that are   *)
(* trusted, and a price only when all of them are of one currency.              *)

Measured(c, f) ==
    CASE Policy.factors[f].kind = "price" ->
             {[value |-> p.amount, cap |-> p.trust ** p.shape] : p \in c.price}
      [] Policy.factors[f].kind = "terrain_value" ->
             {[value |-> t.value // p.amount, cap |-> Lowest({t.cap, p.trust}) ** p.shape] :
                  t \in c.terrain, p \in {q \in c.price : Less(Zero, q.amount)}}
      [] Policy.factors[f].kind = "terrain" -> c.terrain
      [] OTHER -> {[value |-> Frac(t.minutes, 60), cap |-> Half] : t \in c.travel}

Currencies(cat, S) ==
    UNION {{p.currency : p \in {q \in cat[x].price : Less(Zero, q.trust)}} : x \in S}
OneCurrency(cat, S) == Cardinality(Currencies(cat, S)) = 1

Bounding(cat, f, S) ==
    IF Policy.factors[f].kind \in {"price", "terrain_value"} /\ ~OneCurrency(cat, S) THEN {}
    ELSE {m.value : m \in {n \in UNION {Measured(cat[x], f) : x \in S} : Less(Zero, n.cap)}}

Normalized(v, values, lower) ==
    LET low == Lowest(values)  high == Highest(values)  u == (v -- low) // (high -- low)
    IN  IF AtMost(high, low) THEN Half ELSE IF lower THEN One -- u ELSE u

\* a value outside the bounds is one that is not trusted: it counts for nothing
Number(c, f, values) ==
    LET m == CHOOSE m \in Measured(c, f) : TRUE
    IN  IF Measured(c, f) = {} \/ values = {} \/ m.cap = Zero
        THEN [utility |-> Half, cap |-> Zero]
        ELSE [utility |-> Normalized(m.value, values, Policy.factors[f].lower), cap |-> m.cap]

Presence(fact) == CASE fact.availability = "available" -> One
                    [] fact.availability = "unavailable" -> Zero
                    [] OTHER -> Half
Category(fact, values) == CASE fact.values = {} \/ values = {} -> Half
                            [] fact.values \cap values # {} -> One
                            [] OTHER -> Zero

Evaluated(c, f, i, values) ==
    CASE Policy.factors[f].kind = "given" -> c.given[f]
      [] Policy.factors[f].kind = "presence" ->
             [utility |-> Presence(c.features[f]), cap |-> TrustCaps[c.features[f].trust]]
      [] Policy.factors[f].kind = "category" ->
             [utility |-> Category(c.features[f], Requested(i, f)),
              cap |-> TrustCaps[c.features[f].trust]]
      [] OTHER -> Number(c, f, values)

-------------------------------------------------------------------------------
(* The score.                                                                   *)

Tempered(f, utility, cap) == LET neutral == Policy.factors[f].neutral
                             IN  neutral ++ (cap ** (utility -- neutral))
Contribution(i, f, e) ==
    Tempered(f, IF Mode(i, f) = "avoid" THEN One -- e.utility ELSE e.utility, e.cap)

Ranks(f) == "ranking" \in Policy.factors[f].roles /\ Less(Zero, Policy.factors[f].weight)
Activated(i, f, e) ==
    /\ Ranks(f) /\ Mode(i, f) \notin {"ignore", "require"}
    /\ \/ Policy.factors[f].activation = "always"
       \/ Policy.factors[f].activation = "context_available" /\ Less(Zero, e.cap)
       \/ Policy.factors[f].activation = "when_requested" /\ Mode(i, f) \in {"prefer", "avoid"}
       \/ Policy.factors[f].activation = "objective_selected" /\ f \in DOMAIN i.objectives

Weight(i, f) == Policy.factors[f].weight ** Policy.importances[Importance(i, f)]
Priority(i, g) == IF g \in DOMAIN i.priorities THEN i.priorities[g] ELSE "normal"
GroupBudget(i, g) == Policy.groups[g].budget ** Policy.priorities[Priority(i, g)]

Most(g) == Policy.groups[g].most

Fraction(a) == a[1] \in Int /\ a[2] \in Nat \ {0} /\ a = Frac(a[1], a[2])
PositiveFraction(a) == Fraction(a) /\ Less(Zero, a)
\* what a policy file is checked for when it is loaded, and that it has the label a group
\* falls back to, which is looked up unchecked
ASSUME PolicyAssumption ==
    /\ IsFiniteSet(DOMAIN Policy.factors)
    /\ "normal" \in DOMAIN Policy.priorities
    /\ \A l \in DOMAIN Policy.priorities :
          Fraction(Policy.priorities[l]) /\ AtMost(Zero, Policy.priorities[l])
    /\ \A g \in DOMAIN Policy.groups :
          /\ PositiveFraction(Policy.groups[g].budget)
          /\ PositiveFraction(Most(g)) /\ AtMost(Most(g), One)
          /\ Policy.groups[g].labels \subseteq DOMAIN Policy.priorities
    /\ \A f \in Graded : Ranks(f) => Policy.factors[f].group \in DOMAIN Policy.groups

Mosts(budget) == Table([g \in DOMAIN budget |-> Most(g)])

\* Mutant: what the groups over their cap leave is not divided again.
SharesOnce(budget) ==
    LET all == Total(budget, DOMAIN budget)
    IN  Table([g \in DOMAIN budget |-> Lowest({Most(g), budget[g] // all})])

\* what the groups outside R leave, divided by the budgets of R
Proposed(budget, R) ==
    LET left == One -- Total(Mosts(budget), DOMAIN budget \ R)
        all == Total(budget, R)
    IN  Table([g \in R |-> (left ** budget[g]) // all])
Over(share) == {g \in DOMAIN share : Less(Most(g), share[g])}

\* The groups over their cap get it, the others divide what is left again.
Shares(budget) ==
    LET divided[R \in SUBSET DOMAIN budget] ==
            LET proposed == Proposed(budget, R)  over == Over(proposed)
            IN  IF over = {} THEN proposed
                ELSE [g \in over |-> Most(g)] \oplus divided[R \ over]
    IN  IF Less(Total(Mosts(budget), DOMAIN budget), One) THEN <<>>
        ELSE Table(divided[DOMAIN budget])

Budgets(i, A) == LET groups == {Policy.factors[f].group : f \in A}
                 IN  Table([g \in {h \in groups : Less(Zero, GroupBudget(i, h))} |->
                               GroupBudget(i, g)])

Mean(i, E, G) == Total([f \in G |-> Weight(i, f) ** Contribution(i, f, E[f])], G)
                // Total([f \in G |-> Weight(i, f)], G)
Weighed(i, E, A, share) ==
    Total([g \in DOMAIN share |-> share[g] ** Mean(i, E, {f \in A : Policy.factors[f].group = g})],
          DOMAIN share)
\* empty when no group is active or the caps leave a part of the score to none
Score(i, E) == LET A == {f \in DOMAIN E : Activated(i, f, E[f])}
               IN  {Weighed(i, E, A, share) : share \in {Shares(Budgets(i, A))} \ {<<>>}}

\* the candidates in the order of their scores
Ordered(score) ==
    Seqs!SetToSortSeq(DOMAIN score,
                 LAMBDA x, y : Less(score[y], score[x]) \/ (score[x] = score[y] /\ x < y))
Ranking(E, scores) ==
    LET score == Table([x \in {y \in DOMAIN E : scores[y] # {}} |-> CHOOSE s \in scores[x] : TRUE])
    IN  [eligible |-> DOMAIN E, order |-> Ordered(score), score |-> score, evaluated |-> E]
Weighted(i, E) == Ranking(E, Table([x \in DOMAIN E |-> Score(i, E[x])]))

Counted(f) == Policy.factors[f].kind \notin {"given", "presence", "category"}
\* the candidates S ranked for an intent, their numbers compared among B
RankWith(cat, i, S, B) ==
    LET bounds == Table([f \in Graded |-> IF Counted(f) THEN Bounding(cat, f, B) ELSE {}])
        E(x) == Table([f \in Graded |-> Evaluated(cat[x], f, i, bounds[f])])
    IN  Weighted(i, Table([x \in S |-> E(x)]))
RankAmong(cat, i, S) == RankWith(cat, i, S, S)
SearchOf(cat, i) == RankAmong(cat, i, AdmittedOf(cat, i))

\* the unscored candidates follow, and each region shows its first
Listed(r) == r.order \o Seqs!SetToSortSeq(r.eligible \ DOMAIN r.score, <)
Distinct(s) == Seqs!FoldLeft(LAMBDA t, x : IF Seqs!Contains(t, x) THEN t ELSE Append(t, x), <<>>, s)
Leaders(cat, r) ==
    Seqs!FoldLeft(LAMBDA t, x : IF \E k \in DOMAIN t : cat[t[k]].region = cat[x].region THEN t
                           ELSE Append(t, x), <<>>, Listed(r))
===============================================================================
