------------------------------ MODULE MCOutcomes ------------------------------
(* Small instances of what a pull request's run leaves behind: terminal      *)
(* publications, proposals, and the reports, checks and refs of a            *)
(* checkpoint.  They do not interact: a behaviour is one of them, chosen at  *)
(* the start; the two publications share one kind of store.                  *)
(*   outcomes   two curation runs, one pull request, two commits             *)
(*   successors three curation runs without heartbeats, one commit           *)
(*   race       two runs with a heartbeat beside a command                   *)
(*   proposals  discovery runs, one candidate, two commits                   *)
(*   cap        one discovery run, two candidates, one commit                *)
(*   graph      two destinations, and the reports of ReportDrafts            *)
(*   areas      four areas of one valley and its stay destination            *)
(*   commands   the validation of a delta or of a reviewed head              *)
(*   refs       two runs, two checkpoints of each of two generations         *)
EXTENDS TerminalOutcome, ProposalPublication, GraphDiscovery, SkiAreaScope,
        CurationValidation, CheckpointRefs, TLC

CONSTANTS c1, c2, c3, cw, d1, d2, dw, dx, h1, h2,
          Parts  \* the instances of this run

VARIABLE part

Workers == [x \in Run \cup WorkId |-> IF x \in {c1, c2, c3, cw} THEN "curation"
                                                            ELSE "discovery"]
HeadsOf == [t1 |-> "first", t2 |-> "second"]

\* runs of one worker, and commits; c3 is the third run of one part only
Symmetry == Permutations({c1, c2}) \cup Permutations({d1, d2})
               \cup Permutations({h1, h2})

-----------------------------------------------------------------------------
(* Reports for GraphDiscovery: a catalog of two destinations, each with one  *)
(* base and one access link to an area of its own, and a pass that covers    *)
(* the areas; and about it the full report with at most one departure.       *)

KindsOf == [d1 |-> "stay_destination", d2 |-> "stay_destination",
            b1 |-> "stay_base", b2 |-> "stay_base",
            x1 |-> "ski_area_access", x2 |-> "ski_area_access",
            a1 |-> "ski_area", a2 |-> "ski_area",
            t1 |-> "terrain_domain", p1 |-> "lift_pass_product"]

Village(d, b, x, a) == {<<"contains_base", d, b>>, <<"originates_at", x, b>>,
                        <<"reaches", x, a>>}
Plain == Village("d1", "b1", "x1", "a1") \cup Village("d2", "b2", "x2", "a2")
            \cup {<<"covers_area", "p1", "a1">>, <<"available_from", "p1", "d1">>}
OnMain == [has |-> DOMAIN KindsOf \ {"t1"}, edges |-> Plain]
WithDomain == [has |-> DOMAIN KindsOf,
               edges |-> Plain \cup {<<"contains_area", "t1", "a1">>,
                                     <<"contains_area", "t1", "a2">>}]
WithSale == [OnMain EXCEPT !.edges = @ \cup {<<"default_for", "p1", "d2">>}]
Proposed == {OnMain, WithDomain, WithSale}

\* a root's closure in the catalog g, each entity a candidate of its own; the
\* other destinations are context and impede nothing
Full(g, roots, written) ==
    LET mine(d) == Scope(g, {d})
        seen == UNION {mine(d) : d \in roots}
        changed == IF written THEN Changed(OnMain, g) ELSE {}
        links == {e \in g.edges : \E d \in roots : {e[2], e[3]} \subseteq mine(d)}
    IN  [focus |-> roots, status |-> "complete",
         rows |-> [k \in roots \X Kinds |->
                     [state |-> "complete", found |-> OfKind(mine(k[1]), k[2]),
                      sources |-> SourceKinds[k[2]]]],
         seen |-> [e \in seen |->
                     [kind |-> KindsOf[e], targets |-> {e},
                      disposition |-> IF e \in OnMain.has THEN "represented" ELSE "add_entity",
                      impact |-> "blocking", backlog |-> FALSE,
                      sources |-> SourceKinds[KindsOf[e]]]],
         links |-> {[type |-> e[1], from |-> e[2], to |-> e[3],
                     sources |-> SourceKinds[KindsOf[e[2]]]] : e \in links},
         reviewed |-> {"d1"} \cup changed \cup (seen \ OnMain.has),
         linked |-> (seen \cap OnMain.has) \ ({"d1"} \cup changed),
         changes |-> changed, created |-> changed \ OnMain.has]

Status(rep) == [rep EXCEPT !.status = IF FullySearched(rep) THEN "complete" ELSE "in_progress"]

Row(rep, k, state) == Status([rep EXCEPT !.rows[k].state = state])
Lost(rep, c) ==
    [rep EXCEPT !.rows = [k \in DOMAIN @ |-> [@[k] EXCEPT !.found = @ \ {c}]],
                !.seen = [e \in DOMAIN @ \ {c} |-> @[e]],
                !.links = {l \in @ : c \notin {l.from, l.to}}]
Missing(rep, k) ==
    LET kept == UNION {rep.rows[j].found : j \in DOMAIN rep.rows \ {k}} IN
    Status([rep EXCEPT !.rows = [j \in DOMAIN @ \ {k} |-> @[j]],
                       !.seen = [e \in kept |-> @[e]],
                       !.links = {l \in @ : {l.from, l.to} \subseteq kept}])
Regional(rep, c) == [rep EXCEPT !.seen[c].disposition = "deferred",
                                !.seen[c].impact = "regional",
                                !.seen[c].backlog = TRUE, !.seen[c].targets = {}]
Context(rep, c) == [rep EXCEPT !.seen[c].impact = "unstated"]
Apart(rep, c) == [rep EXCEPT !.seen[c].disposition = "not_separate",
                             !.links = {l \in @ : c \notin {l.from, l.to}}]
Unlinked(rep, l) == [rep EXCEPT !.links = @ \ {l}]

Departures(rep) ==
    {rep}
    \cup {Row(rep, k, s) : k \in {<<"d1", "ski_area">>, <<"d1", "lift_pass_product">>},
                           s \in {"in_progress", "evidence_unavailable"}}
    \cup {Missing(rep, <<"d1", "lift_pass_product">>)}
    \cup {Lost(rep, c) : c \in DOMAIN rep.seen \cap {"t1", "a2", "p1"}}
    \cup {Lost(Row(rep, <<"d1", "ski_area">>, "in_progress"), "a1")}
    \cup {Regional(rep, c) : c \in DOMAIN rep.seen \cap {"t1", "a2", "d2"}}
    \cup {Apart(rep, c) : c \in DOMAIN rep.seen \cap {"d2", "t1"}}
    \cup {Unlinked(rep, l) : l \in {l \in rep.links : l.from \in {"t1", "p1"}}}

ReportDrafts == UNION {Departures(Full(g, roots, w)) :
                          g \in Proposed, roots \in {{"d1"}, {"d1", "d2"}}, w \in BOOLEAN}

-----------------------------------------------------------------------------
(* Assessments for SkiAreaScope: four areas of one valley, two of which may  *)
(* be run together with the others as their parts, and the stay destination  *)
(* they are compared with.                                                   *)

Areas == {"north", "south", "upper", "lower"}
Other(c) == IF c = "north" THEN "south" ELSE "north"
AreasAndMarket == Areas \cup {"valley"}

UnresolvedArea == [kind |-> "ski_area", disposition |-> "unresolved", targets |-> {},
               evidence |-> "third_party", parent |-> NoArea, terrain |-> "unresolved",
               connectivity |-> "not_applicable", operations |-> "unknown",
               weather |-> "unknown", pass |-> "unknown", value |-> "unresolved",
               signals |-> {}, components |-> {}, covered |-> {}, consequences |-> {}]

Because(basis, target) == {[basis |-> basis, target |-> target]}
\* an area that stands alone, with every owner
Alone(c, why) ==
    [UnresolvedArea EXCEPT !.disposition = "represented", !.targets = {c},
                       !.evidence = "official", !.terrain = "complete",
                       !.operations = "independent", !.weather = "independent",
                       !.pass = "full_local", !.value = "material",
                       !.signals = {"terrain", "operations", "weather", "full_pass"},
                       !.consequences = why]
Beside(c, parent, connectivity, signals) ==
    [Alone(c, Because("parent", parent)) EXCEPT !.parent = parent,
                 !.connectivity = connectivity, !.signals = {"terrain"} \cup signals]
Joint(c, parts, why) ==
    [Alone(c, why) EXCEPT !.operations = "coordinated", !.components = parts,
                          !.pass = "shared_only", !.signals = CoordinationSignals,
                          !.covered = {[family |-> f, components |-> parts] : f \in Families}]
Component(parent, signals) ==
    [UnresolvedArea EXCEPT !.disposition = "not_separate", !.targets = {parent},
                       !.evidence = "official", !.parent = parent,
                       !.connectivity = "transfer_required", !.operations = "coordinated",
                       !.value = "redundant", !.signals = {"terrain"} \cup signals,
                       !.terrain = "complete"]
Sector(c, parent, connectivity, signals) ==
    [Beside(c, parent, connectivity, signals) EXCEPT !.disposition = "not_separate",
                       !.targets = {parent}]

Valley(disposition, gates, owned) ==
    [kind |-> "stay_destination", disposition |-> disposition, evidence |-> "official",
     targets |-> IF disposition = "unresolved" THEN {} ELSE {"valley"},
     gates |-> gates, owned |-> owned]

\* an area that is not decided, though what its guests would do is known
Undecided(why) ==
    [UnresolvedArea EXCEPT !.disposition = "deferred", !.evidence = "official",
                       !.consequences = why]

AssessmentsOf ==
    [c \in AreasAndMarket |->
       IF c = "valley"
       THEN {Valley("represented", {"pass"}, "pass"),
             Valley("represented", {"pass", "fail"}, "pass"),
             Valley("unresolved", {"pass"}, "fail")}
       ELSE IF c \in {"north", "south"}
       THEN {UnresolvedArea, Undecided(Because("stay_market", "valley")),
             Alone(c, Because("stay_market", "valley")),
             Alone(c, Because("sibling", Other(c))),
             Joint(c, {"upper", "lower"}, Because("stay_market", "valley")),
             Joint(c, {"upper", "lower"}, Because("sibling", Other(c))),
             Sector(c, Other(c), "connected", {"weather"})}
       ELSE {UnresolvedArea,
             Component("north", {}), Component("south", {}),
             Component("north", {"weather", "operations"}),
             Beside(c, "north", "connected", {"operations"}),
             Beside(c, "north", "connected", {"operations", "weather"}),
             Sector(c, "north", "disconnected", {"weather"}),
             Sector(c, "north", "connected", {"weather"}),
             Sector(c, "north", "connected", {"operations", "weather"})}]

-----------------------------------------------------------------------------
(* The instances.                                                            *)

Only(worker) == owner' \in {NoRun} \cup {r \in Run : WorkerOf[r] = worker}

OutcomesVars == <<prHead, shown, task, beat>>
ProposalsVars == <<tree, githubVars, number, command, faultVars>>
CheckpointVars == <<discoveryVars, scopeVars, validationVars, refVars>>
PublicationVars == <<termVars, ProposalsVars>>

PartsInit == /\ part \in Parts
             /\ TermInit
             /\ ProposalInit
             /\ \A w \in WorkId : prHead[w] = tree
             /\ DiscoveryInit /\ ScopeInit /\ ValidationInit /\ RefsInit
             \* one initial state of what the behaviour is not about
             /\ part # "graph" => graph = OnMain
             /\ holder = "k1"
             /\ part # "commands" => kind = "delta"

Outcomes(next) == /\ next
                  /\ Only("curation")
                  /\ \A w \in {dw, dx} : prHead'[w] = prHead[w]
                  /\ UNCHANGED <<ProposalsVars, CheckpointVars>>

Proposals(candidates, heads) ==
    /\ ProposalNext
    /\ Only("discovery")
    /\ tree' \in heads
    /\ \A r \in Run : /\ command'[r].id \in candidates \cup {NoHead}
                      /\ command'[r].head \in heads \cup {NoHead}
    /\ UNCHANGED <<OutcomesVars, CheckpointVars>>

Checkpoints(next, others) == next /\ UNCHANGED <<others, PublicationVars>>

PartsNext == /\ \/ /\ part = "outcomes"
                   /\ Outcomes(SequentialNext) /\ used' \subseteq {c1, c2}
                \/ /\ part = "successors"
                   /\ Outcomes(SequentialNext) /\ UNCHANGED <<prHead, beat>>
                   /\ begun'[cw] \subseteq {tree}
                \/ /\ part = "race"
                   /\ Outcomes(TermNext) /\ used' \subseteq {c1, c2}
                \/ part = "proposals" /\ Proposals({dw}, Head)
                \/ part = "cap" /\ Proposals({dw, dx}, {tree}) /\ Cardinality(used') <= 1
                \/ /\ part = "graph"
                   /\ Checkpoints(DiscoveryNext, <<scopeVars, validationVars, refVars>>)
                \/ /\ part = "areas"
                   /\ Checkpoints(ScopeNext, <<discoveryVars, validationVars, refVars>>)
                \/ /\ part = "commands"
                   /\ Checkpoints(ValidationNext, <<discoveryVars, scopeVars, refVars>>)
                \/ /\ part = "refs"
                   /\ Checkpoints(RefsNext, <<discoveryVars, scopeVars, validationVars>>)
             /\ UNCHANGED part

PartsSpec == PartsInit /\ [][PartsNext]_<<PublicationVars, CheckpointVars, part>>
=============================================================================
