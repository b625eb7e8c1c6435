---------------------------- MODULE MCApplication ----------------------------
(* Small instances of the parts of the application, one of them chosen at    *)
(* the start: they share no state.                                           *)
(*   refinement  four requests of two clients, two slots                     *)
(*   snapshots   three searches and one request for a question               *)
(*   session     one page of the search, two factors and two topics          *)
(*   trip        a saved trip, one request beside one refresh job            *)
(*   view        the page of two trips, four requests in all                 *)
(*   forecasts   one refresher of two areas beside retention, two runs kept  *)
(*   samples     the same of one area, three runs kept                       *)
(*   archive     the archive writer and the rebuild of one area, two bands,  *)
(*               answers of a whole year or of none of it                    *)
(*   days        completion runs alone, answers of any days of a year        *)
(*   catalog     one synchronisation job and two pages, four catalogs        *)
(*   ranking     six searches of three catalogues, two questions each, and   *)
(*               a search of none                                            *)
EXTENDS RefinementService, RefinementSnapshots, SearchSession, TripCompanion, TripView,
        WeatherForecasts, WeatherArchive, CatalogSync, SearchRefinement

CONSTANTS Parts  \* the instances of this run

VARIABLE part

SnapshotSize == [p \in Fingerprints |->
    CASE p = "p1" -> <<1, 1>> [] p = "p2" -> <<1, 2>> [] OTHER -> <<3, 1>>]
MaterialTopics == [p \in Fingerprints |-> IF p = "p1" THEN {"x", "y"} ELSE {"y"}]
FallbackOrder == <<"x", "y">>

TopicTarget == [t \in Topics |-> IF t = "pass" THEN "price" ELSE "terrain"]

Row(x, refs) == [i \in {x} |-> refs]
Base == [regions |-> Row("r1", {}),
         destinations |-> Row("d1", {<<"regions", "r1">>}),
         bases |-> Row("b1", {<<"destinations", "d1">>}),
         areas |-> Row("a1", {}),
         access |-> Row("x1", {<<"bases", "b1">>, <<"areas", "a1">>}),
         domains |-> [i \in {} |-> {}],
         passes |-> Row("p1", {<<"areas", "a1">>, <<"destinations", "d1">>,
                               <<"default", "d1">>}),
         rentals |-> Row("k1", {<<"destinations", "d1">>, <<"bases", "b1">>})]
Moved == [Base EXCEPT !.regions = Row("r2", {}),
                      !.destinations = Row("d1", {<<"regions", "r2">>}),
                      !.passes = [i \in {} |-> {}]]
Renamed == [Base EXCEPT !.access = Row("x2", {<<"bases", "b1">>, <<"areas", "a1">>})]
Broken == [Base EXCEPT !.bases = [i \in {} |-> {}]]
SmallCatalogs == [c \in Catalogs |->
    CASE c = "base" -> Base [] c = "moved" -> Moved [] c = "renamed" -> Renamed
      [] OTHER -> Broken]

Wanting == {"prefer", "avoid", "ignore", "require"}
Factor(group, kind, activation, modes, values, weight, evidence) ==
    [group |-> group, kind |-> kind, lower |-> kind \in {"price", "travel"},
     roles |-> {"ranking", "clarification"}
                   \cup (IF "require" \in modes THEN {"constraint"} ELSE {}),
     activation |-> activation, modes |-> modes, values |-> values,
     weight |-> Frac(weight, 1), neutral |-> Half, evidence |-> evidence,
     coverage |-> IF kind = "terrain" THEN <<9, 10>> ELSE <<3, 4>>,
     strength |-> IF kind = "terrain" THEN <<7, 10>> ELSE Half, clarifiable |-> TRUE]
Likes == {"prefer", "ignore"}
Paces == {"quiet", "balanced", "lively"}
ShippedFactors == [
    snow |-> Factor("viability", "given", "always", Likes, {}, 1, "composed_prediction"),
    skill |-> Factor("skiing", "given", "always", {"ignore"}, {}, 2, "comparative"),
    terrain |-> Factor("skiing", "terrain", "always", Likes, {}, 3, "comparative"),
    park |-> Factor("skiing", "presence", "when_requested", Wanting, {}, 2, "positive_presence"),
    access |-> Factor("stay", "given", "always", Likes, {}, 1, "comparative"),
    pace |-> Factor("character", "category", "when_requested", Wanting, Paces, 1,
                    "categorical_match"),
    price |-> Factor("value", "price", "objective_selected", Likes, {}, 2,
                     "objective_comparison"),
    yield |-> Factor("value", "terrain_value", "objective_selected", Likes, {}, 2,
                     "objective_comparison"),
    travel |-> Factor("travel", "travel", "context_available", Likes, {}, 1, "comparative")]
Labels == {"ignore", "secondary", "normal", "important", "primary", "very_high"}
Group(budget, most) == [budget |-> Frac(budget, 1), most |-> most, labels |-> Labels]
ShippedPolicy == [
    factors |-> ShippedFactors,
    groups |-> [viability |-> Group(30, One), skiing |-> Group(30, One), stay |-> Group(15, One),
                value |-> Group(10, One), character |-> Group(10, One),
                travel |-> Group(5, <<3, 10>>)],
    importances |-> [low |-> Half, normal |-> One, high |-> <<2, 1>>],
    priorities |-> [ignore |-> Zero, secondary |-> Half, normal |-> One, important |-> <<2, 1>>,
                    primary |-> <<4, 1>>, very_high |-> <<8, 1>>]]

Pref(mode, values, importance) ==
    [kind |-> "preference", mode |-> mode, values |-> values, importance |-> importance]
Objective(importance) == [kind |-> "objective", importance |-> importance]
Scale == [high |-> Pref("prefer", {}, "high"), normal |-> Pref("prefer", {}, "normal"),
          low |-> Pref("prefer", {}, "low")]
Value == [high |-> Objective("high"), normal |-> Objective("normal"),
          no |-> Pref("ignore", {}, "normal")]
ShippedTopics == [
    terrain |-> [factor |-> "terrain", answers |-> Scale],
    travel |-> [factor |-> "travel", answers |-> Scale],
    park |-> [factor |-> "park", answers |->
                 [yes |-> Pref("prefer", {}, "high"), must |-> Pref("require", {}, "normal"),
                  no |-> Pref("ignore", {}, "normal")]],
    pace |-> [factor |-> "pace", answers |->
                 [quiet |-> Pref("prefer", {"quiet"}, "normal"),
                  lively |-> Pref("prefer", {"lively"}, "normal"),
                  no |-> Pref("ignore", {}, "normal")]],
    price |-> [factor |-> "price", answers |-> Value],
    yield |-> [factor |-> "yield", answers |-> Value]]

Fact(availability, trust, values) == [availability |-> availability, trust |-> trust,
                                      values |-> values]
Place(region, snow, access, km, park, pace, price, minutes) ==
    [region |-> region, places |-> [country |-> {region}], operation |-> "open",
     given |-> [snow |-> snow, access |-> [utility |-> access, cap |-> One],
                skill |-> [utility |-> Half, cap |-> One]],
     terrain |-> {[value |-> Frac(n, 1), cap |-> One] : n \in km},
     features |-> [park |-> park, pace |-> pace],
     price |-> price, sold |-> {}, quality |-> {6},
     travel |-> {[mode |-> "car", minutes |-> n] : n \in minutes},
     lodging |-> {[mode |-> "nightly", currency |-> "EUR", minimum |-> 100]}]
Snow(utility, cap) == [utility |-> utility, cap |-> cap]
Priced(amount, currency, trust, shape) ==
    {[amount |-> Frac(amount, 1), currency |-> currency, trust |-> trust, shape |-> shape]}
Euros(amount) == Priced(amount, "EUR", One, One)
Upwards(amount) == Priced(amount, "EUR", One, Half)
Francs(amount, trust) == Priced(amount, "CHF", trust, One)
Has == Fact("available", "verified", {})
Hasnt == Fact("unavailable", "verified", {})
Of(p) == Fact("available", "verified", {p})
NotKnown == Fact("unknown", "needs_source", {})
Valleys == <<
    Place("a", Snow(<<3, 4>>, One), Half, {4}, Has, Of("quiet"), Euros(4), {120}),
    Place("b", Snow(Half, One), One, {2}, Hasnt, Of("lively"), Euros(2), {240}),
    Place("b", Snow(Half, One), Half, {3}, Has, NotKnown, Euros(1), {240}),
    Place("c", Snow(One, Half), Zero, {1}, NotKnown, Of("lively"), Euros(1), {60})>>
Borders == <<
    Place("a", Snow(<<3, 4>>, One), Half, {4}, Has, Of("quiet"), Euros(4), {}),
    Place("b", Snow(<<1, 4>>, One), One, {2}, Fact("available", "estimated", {}), Of("lively"),
         Francs(2, One), {120}),
    Place("c", Snow(Half, One), Half, {}, Hasnt, Of("balanced"), Francs(2, <<1, 4>>), {240}),
    Place("d", Snow(<<3, 4>>, Half), Half, {3}, Has, Of("quiet"), Upwards(2), {60})>>
Trades == <<
    Place("a", Snow(Half, One), Half, {4}, Has, Of("quiet"), Euros(2), {}),
    Place("b", Snow(One, One), Half, {1}, Has, Of("lively"), Euros(1), {}),
    Place("c", Snow(Half, One), Half, {7}, Hasnt, NotKnown, Euros(2), {})>>

NoEntry == [f \in {} |-> ""]
Plain == [places |-> NoEntry, window |-> TRUE, lodging |-> {}, travel |-> {}, quality |-> {},
          pass |-> {}, requirements |-> NoEntry, prefers |-> NoEntry, objectives |-> NoEntry,
          priorities |-> NoEntry]
P(mode, values) == [mode |-> mode, values |-> values, importance |-> "normal"]
Far == [Plain EXCEPT !.priorities = [travel |-> "very_high"]]
Tricks == [Plain EXCEPT !.prefers = [park |-> P("require", {})],
                        !.objectives = [price |-> "normal"]]
Peace == [Plain EXCEPT !.prefers = [pace |-> P("require", {"quiet", "lively"})],
                       !.objectives = [yield |-> "high"],
                       !.travel = {[mode |-> "car", minutes |-> 200]}]
Away == [Plain EXCEPT !.prefers = [pace |-> P("avoid", {"lively"})],
                      !.requirements = [park |-> [values |-> {}, trust |-> "estimated"]],
                      !.priorities = [skiing |-> "ignore"]]
Blank == [Plain EXCEPT !.priorities = [viability |-> "ignore", skiing |-> "ignore",
                                       stay |-> "ignore"]]
SmallFacts == [valleys |-> Valleys, borders |-> Borders, trades |-> Trades, nowhere |-> <<>>]
SomeStarts == {<<"nowhere", Plain>>, <<"valleys", Far>>, <<"valleys", Away>>,
               <<"borders", Tricks>>, <<"borders", Blank>>, <<"trades", Far>>, <<"trades", Peace>>}

Others(mine) ==
    /\ IF mine = "refinement" THEN TRUE ELSE UNCHANGED refinementVars
    /\ IF mine = "snapshots" THEN TRUE ELSE UNCHANGED snapshotVars
    /\ IF mine = "session" THEN TRUE ELSE UNCHANGED sessionVars
    /\ IF mine = "trip" THEN TRUE ELSE UNCHANGED tripVars
    /\ IF mine = "view" THEN TRUE ELSE UNCHANGED viewVars
    /\ IF mine \in {"forecasts", "samples"} THEN TRUE ELSE UNCHANGED forecastVars
    /\ IF mine \in {"archive", "days"} THEN TRUE ELSE UNCHANGED archiveVars
    /\ IF mine = "catalog" THEN TRUE ELSE UNCHANGED catalogVars
    /\ IF mine = "ranking" THEN TRUE ELSE UNCHANGED refineVars
    /\ UNCHANGED part

\* a part that is not chosen starts in one of its states only
PartsInit ==
    /\ part \in Parts
    /\ RefinementInit /\ SnapshotInit /\ SessionInit /\ TripInit
    /\ ViewInit /\ ForecastInit /\ ArchiveInit /\ CatalogInit /\ RankedInit
    /\ part # "session" => editor.choices = Merged(NoChoices, CHOOSE f \in Factors : TRUE,
                                                   "normal")
    /\ part # "view" => stored = NoTrip
    /\ part # "catalog" => synced = "base"
    /\ part # "ranking" => cat = "nowhere"

\* requests for refinements are alike, so they may as well ask in order
PartsNext == \/ /\ part = "refinement" /\ RefinementNext /\ Others(part)
                /\ \A i, j \in Requests : i < j /\ request'[j] # "new" => request'[i] # "new"
             \/ part = "snapshots" /\ SnapshotNext /\ Others(part)
             \/ part = "session" /\ SessionNext /\ Others(part)
             \/ part = "trip" /\ TripNext /\ Others(part)
             \/ part = "view" /\ ViewNext /\ Others(part)
             \/ /\ part = "forecasts" /\ ForecastNext /\ Others(part)
                /\ Cardinality(DOMAIN runs') <= 2
             \/ /\ part = "samples" /\ ForecastNext /\ Others(part)
                /\ \A p \in Refreshers : refresh'[p].todo \cup refresh'[p].good \subseteq {"a1"}
             \/ /\ part = "archive" /\ ArchiveNext /\ Others(part)
                /\ \A a \in SkiAreas, b \in Bands :
                      \E years \in SUBSET Years : archive'[a][b] = years \X Days
             \/ /\ part = "days" /\ ArchiveNext /\ Others(part)
                /\ archiveJob'.kind # "backfill"
             \/ part = "catalog" /\ CatalogNext /\ Others(part)
             \/ part = "ranking" /\ RankedNext /\ Others(part)

PartsSpec ==
    PartsInit /\ [][PartsNext]_<<refinementVars, snapshotVars, sessionVars, tripVars,
                                 viewVars, forecastVars, archiveVars, catalogVars, refineVars,
                                 part>>
=============================================================================
