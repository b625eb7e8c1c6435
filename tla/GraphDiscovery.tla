--------------------------- MODULE GraphDiscovery ---------------------------
(***************************************************************************)
(* What a curation report must say of the catalog's graph before a         *)
(* checkpoint accepts it (app/data/catalog_curation.py,                    *)
(* catalog_curation_reconciliation.py and ops/maintainer/validation.py),   *)
(* and the checkpoints of one generation that accept such reports.         *)
(*                                                                         *)
(* A discovery checkpoint changes the report only: it records, for each    *)
(* focus destination (root) and kind of entity, the candidates found so    *)
(* far, what was decided of each, and the relationships between them.  A   *)
(* delta checkpoint changes the catalog too and must match what the        *)
(* discovery established.  Evidence is abstracted to the kind of source it *)
(* comes from; field values, wording and trust states are left out.        *)
(***************************************************************************)
EXTENDS Naturals, FiniteSets

CONSTANTS KindOf,    \* the kind of each entity
          MainGraph, \* the catalog of main
          Graphs,    \* the catalogs a pull request may contain
          Drafts,    \* the reports that are tried
          NoReport

Entity == DOMAIN KindOf
Kinds == {"stay_destination", "stay_base", "ski_area", "ski_area_access",
          "terrain_domain", "lift_pass_product"}

\* which kinds of source may establish a candidate of a kind
SourceKinds ==
    [stay_destination |-> {"booking"}, stay_base |-> {"booking"},
     ski_area |-> {"operator"}, ski_area_access |-> {"transport", "operator"},
     terrain_domain |-> {"operator", "tariff"}, lift_pass_product |-> {"tariff"}]

\* the kinds a relationship joins
Ends == [contains_base |-> <<"stay_destination", "stay_base">>,
         originates_at |-> <<"ski_area_access", "stay_base">>,
         reaches |-> <<"ski_area_access", "ski_area">>,
         contains_area |-> <<"terrain_domain", "ski_area">>,
         available_from |-> <<"lift_pass_product", "stay_destination">>,
         default_for |-> <<"lift_pass_product", "stay_destination">>,
         covers_area |-> <<"lift_pass_product", "ski_area">>,
         covers_domain |-> <<"lift_pass_product", "terrain_domain">>]

Backlogged == {"deferred", "unresolved"}
Separate == {"represented", "add_entity"}
SourceBacked == Separate \cup {"not_separate"}

\* a catalog is read with its references typed, so an edge joins what its type says
ASSUME DiscoveryAssumption ==
    /\ NoReport \notin Drafts
    /\ \A g \in Graphs : \A e \in g.edges :
          e[1] \in DOMAIN Ends => /\ KindOf[e[2]] = Ends[e[1]][1]
                                  /\ KindOf[e[3]] = Ends[e[1]][2]

VARIABLES graph,     \* the catalog in the checkout
          stage,     \* the stage of the generation
          authority, \* the report of its last discovery checkpoint
          accepted,  \* the report of its last checkpoint
          settled    \* history: what its discovery checkpoints established

discoveryVars == <<graph, stage, authority, accepted, settled>>

-----------------------------------------------------------------------------
(* The closure of the catalog around a set of focus destinations.          *)

Out(g, t, X) == {e[3] : e \in {e \in g.edges : e[1] = t /\ e[2] \in X}}
Into(g, t, X) == {e[2] : e \in {e \in g.edges : e[1] = t /\ e[3] \in X}}

Sold(g, roots) == Into(g, "available_from", roots) \cup Into(g, "default_for", roots)
SoldFrom(g, passes) == Out(g, "available_from", passes) \cup Out(g, "default_for", passes)

BasesOf(g, roots) == Out(g, "contains_base", roots)
AccessOf(g, roots) == Into(g, "originates_at", BasesOf(g, roots))
ReachedFrom(g, roots) == Out(g, "reaches", AccessOf(g, roots))
JoinedTo(g, roots) == Into(g, "contains_area", ReachedFrom(g, roots))
PassesFor(g, roots) == Sold(g, roots) \cup Into(g, "covers_area", ReachedFrom(g, roots))
                                      \cup Into(g, "covers_domain", JoinedTo(g, roots))
DomainsOf(g, roots) == JoinedTo(g, roots) \cup Out(g, "covers_domain", PassesFor(g, roots))
AreasOf(g, roots) == ReachedFrom(g, roots) \cup Out(g, "covers_area", PassesFor(g, roots))
                                           \cup Out(g, "contains_area", DomainsOf(g, roots))

\* the destinations from whose bases some of the areas are reached
MarketsOf(g, areas) ==
    Into(g, "contains_base", Out(g, "originates_at", Into(g, "reaches", areas)))

Scope(g, roots) ==
    roots \cup MarketsOf(g, AreasOf(g, roots)) \cup SoldFrom(g, PassesFor(g, roots))
          \cup BasesOf(g, roots) \cup AccessOf(g, roots) \cup AreasOf(g, roots)
          \cup DomainsOf(g, roots) \cup PassesFor(g, roots)

OfKind(S, kind) == {e \in S : KindOf[e] = kind}

\* entities whose fields differ between two catalogs: an edge is a field of its
\* second component, except that a base names its destination
Owner(e) == IF e[1] = "contains_base" THEN e[3] ELSE e[2]
Fields(g, e) == {f \in g.edges : Owner(f) = e}
Changed(g, h) == {e \in g.has \cup h.has : \/ (e \in g.has) # (e \in h.has)
                                           \/ Fields(g, e) # Fields(h, e)}

\* the destinations an entity of the catalog belongs to
Destinations(g, e) ==
    CASE KindOf[e] = "stay_destination" -> {e} \cap g.has
      [] KindOf[e] = "ski_region" -> Into(g, "in_region", {e})
      [] KindOf[e] = "stay_base" -> Into(g, "contains_base", {e})
      [] KindOf[e] = "ski_area" -> MarketsOf(g, {e})
      [] KindOf[e] = "ski_area_access" ->
             Into(g, "contains_base", Out(g, "originates_at", {e}))
      [] KindOf[e] = "terrain_domain" ->
             MarketsOf(g, Out(g, "contains_area", {e}))
               \cup SoldFrom(g, Into(g, "covers_domain", {e}))
      [] KindOf[e] = "lift_pass_product" -> SoldFrom(g, {e})
      [] OTHER -> Out(g, "rents_at", {e})

-----------------------------------------------------------------------------
(* Reports.  rows: by root and kind, the state of the search, the candidates *)
(* found and the sources used; seen: what was decided of each candidate;   *)
(* reviewed: the entities reviewed in full, linked: those reviewed only as *)
(* dependencies.                                                           *)

Searched(rep, root) == {k \in DOMAIN rep.rows : k[1] = root}
Candidates(rep, root) == UNION {rep.rows[k].found : k \in Searched(rep, root)}
Unfinished(rep) == {k \in DOMAIN rep.rows : rep.rows[k].state = "in_progress"}
Unavailable(rep) == {k \in DOMAIN rep.rows : rep.rows[k].state = "evidence_unavailable"}
FullySearched(rep) == /\ DOMAIN rep.rows = rep.focus \X Kinds
                      /\ Unfinished(rep) = {}

RowBacked(rep, k) ==
    LET row == rep.rows[k]
        allowed == row.sources \cap SourceKinds[k[2]]
    IN  /\ allowed # {}
        /\ \A c \in row.found : /\ c \in DOMAIN rep.seen
                                /\ rep.seen[c].kind = k[2]
                                /\ rep.seen[c].sources \cap allowed # {}

LinkBacked(rep, l) ==
    LET rows == {k \in DOMAIN rep.rows : {l.from, l.to} \cap rep.rows[k].found # {}}
    IN  /\ {l.from, l.to} \subseteq DOMAIN rep.seen
        /\ <<rep.seen[l.from].kind, rep.seen[l.to].kind>> = Ends[l.type]
        /\ l.sources # {}
        /\ l.sources \subseteq UNION {rep.rows[k].sources : k \in rows}

DiscoveryContract(rep) ==
    /\ DOMAIN rep.rows \subseteq rep.focus \X Kinds
    /\ \A k \in DOMAIN rep.rows : RowBacked(rep, k)
    /\ (rep.status = "complete") <=> FullySearched(rep)
    /\ DOMAIN rep.seen \subseteq UNION {rep.rows[k].found : k \in DOMAIN rep.rows}
    /\ \A l \in rep.links : LinkBacked(rep, l)
    /\ \A l, m \in rep.links :
          <<l.type, l.from, l.to>> = <<m.type, m.from, m.to>> => l = m

\* an entity is added by a change that creates it, unless that is still to come
ScopeDecided(rep, pending) ==
    /\ DOMAIN rep.seen # {}
    /\ \A c \in DOMAIN rep.seen : LET s == rep.seen[c] IN
          /\ s.backlog <=> s.disposition \in Backlogged
          /\ s.disposition \in SourceBacked => s.targets # {}
          /\ s.targets \subseteq rep.reviewed \cup rep.linked
          /\ s.disposition = "add_entity" /\ ~pending => s.targets \subseteq rep.created
    /\ {e \in rep.reviewed : KindOf[e] \in Kinds}
          \subseteq UNION {rep.seen[c].targets : c \in DOMAIN rep.seen}

ReportValid(rep, pending) ==
    /\ rep.changes \subseteq rep.reviewed
    /\ rep.reviewed \cap rep.linked = {}
    /\ \A c \in DOMAIN rep.seen : LET s == rep.seen[c] IN
          s.impact = "regional" => s.disposition \in Backlogged /\ s.backlog
    /\ DiscoveryContract(rep)
    /\ ScopeDecided(rep, pending)

\* a reviewed domain that the closure of the focus already shows needs no more
RequiredRoots(rep, g) ==
    LET shown == OfKind(Scope(g, rep.focus), "terrain_domain")
    IN  UNION {Destinations(g, e) : e \in rep.reviewed \ shown}

ResultingGraph(rep, g, pending) == /\ ReportValid(rep, pending)
                                   /\ rep.focus \subseteq g.has
                                   /\ RequiredRoots(rep, g) \subseteq rep.focus

-----------------------------------------------------------------------------
(* A report against a catalog.                                             *)

Targets(rep, k) == UNION {rep.seen[c].targets : c \in rep.rows[k].found}

\* the entities that the finished rows of a root account for
Covered(rep, root) ==
    UNION {Targets(rep, k) : k \in Searched(rep, root) \ Unfinished(rep)}

OwnLinks(rep, root) ==
    LET mine == Candidates(rep, root) IN {l \in rep.links : {l.from, l.to} \subseteq mine}

\* a regional follow-up without a target of its own, linked to an entity that the
\* closure of one root shows: there is nothing to materialise yet
Deferred(s) == /\ s.impact = "regional"
               /\ s.disposition \in Backlogged /\ s.backlog
               /\ s.targets = {}

RegionalContext(rep, g, l) ==
    LET from == rep.seen[l.from]
        to == rep.seen[l.to]
        known == IF Deferred(from) THEN to.targets ELSE from.targets
    IN  /\ Deferred(from) # Deferred(to)
        /\ \E root \in rep.focus : /\ l \in OwnLinks(rep, root)
                                   /\ known \cap Scope(g, {root}) # {}

Materialised(rep, g, l) ==
    \/ RegionalContext(rep, g, l)
    \/ \E e \in rep.seen[l.from].targets, f \in rep.seen[l.to].targets :
          <<l.type, e, f>> \in g.edges

CoversScope(rep, g, root) ==
    \A k \in Searched(rep, root) \ Unfinished(rep) :
        OfKind(Scope(g, {root}), k[2]) \subseteq Targets(rep, k)

\* every separate graph-blocking candidate hangs together with the root: whatever set
\* of them is taken away from those that name it, a link of the root leads back
Blocking(rep, root) == {c \in Candidates(rep, root) : /\ rep.seen[c].impact = "blocking"
                                                     /\ rep.seen[c].disposition \in Separate}
Naming(rep, root) == {c \in Candidates(rep, root) : root \in rep.seen[c].targets}

Connected(rep, root) ==
    LET all == Naming(rep, root) \cup Blocking(rep, root)
        pairs == {{l.from, l.to} : l \in OwnLinks(rep, root)}
    IN  \A S \in SUBSET (all \ Naming(rep, root)) :
           S # {} => \E pair \in pairs : pair \cap S # {} /\ pair \cap (all \ S) # {}

NoRegionalChain(rep, root) ==
    \A l \in OwnLinks(rep, root) : {rep.seen[l.from].impact, rep.seen[l.to].impact} # {"regional"}

\* the catalog's own relationships between covered entities of the closure,
\* those of other destinations excepted
KnownEdges(rep, g, root) ==
    LET covered == Covered(rep, root)
        own == Scope(g, {root}) \cap covered
        links == OwnLinks(rep, root)
    IN  \A e \in {e \in g.edges : /\ e[1] \in DOMAIN Ends
                                /\ e[2] \in covered /\ e[3] \in covered
                                /\ Owner(e) \in own
                                /\ OfKind({e[2], e[3]}, "stay_destination") \subseteq {root}} :
           \E l \in links : /\ l.type = e[1]
                          /\ e[2] \in rep.seen[l.from].targets
                          /\ e[3] \in rep.seen[l.to].targets

Discovered(rep, g, pending) ==
    /\ ReportValid(rep, pending)
    /\ ~pending => rep.status = "complete" /\ Unavailable(rep) = {}
    /\ rep.focus \subseteq OfKind(g.has, "stay_destination")
    /\ \A l \in rep.links : /\ pending \/ Materialised(rep, g, l)
                            /\ \E root \in rep.focus : l \in OwnLinks(rep, root)
    /\ \A root \in rep.focus : /\ CoversScope(rep, g, root)
                               /\ Connected(rep, root)
                               /\ NoRegionalChain(rep, root)
                               /\ KnownEdges(rep, g, root)

\* the report names exactly what differs from main, and the ends of the access
\* links that do
Reconciled(rep, g) ==
    LET changed == Changed(MainGraph, g)
        links == OfKind(changed, "ski_area_access")
        ends(h) == Out(h, "originates_at", links) \cup Out(h, "reaches", links)
    IN  /\ rep.changes = changed
        /\ rep.created = changed \cap (g.has \ MainGraph.has)
        /\ ends(MainGraph) \cup ends(g) \subseteq rep.reviewed \cup rep.linked

\* Mutant: only the state of the rows is compared.
ProgressionOfStates(prev, rep) ==
    \A k \in DOMAIN prev.rows :
        /\ k \in DOMAIN rep.rows
        /\ prev.rows[k].state = "complete" => rep.rows[k].state = "complete"
        /\ rep.rows[k].state = "in_progress" => prev.rows[k].state = "in_progress"

Progression(prev, rep) ==
    \A k \in DOMAIN prev.rows :
        /\ k \in DOMAIN rep.rows
        /\ prev.rows[k].found \subseteq rep.rows[k].found
        /\ prev.rows[k].state = "complete" => rep.rows[k].state = "complete"
        /\ rep.rows[k].state = "in_progress" => prev.rows[k].state = "in_progress"

DiscoveryValid(rep, g) == /\ Reconciled(rep, g)
                          /\ ResultingGraph(rep, g, TRUE)
                          /\ Discovered(rep, g, TRUE)

\* every candidate's impact is stated in a final report
FinalValid(rep, g) == /\ Reconciled(rep, g)
                      /\ \A c \in DOMAIN rep.seen : rep.seen[c].impact # "unstated"
                      /\ ResultingGraph(rep, g, FALSE)
                      /\ Discovered(rep, g, FALSE)

UnavailableValid(rep, g) == /\ ResultingGraph(rep, g, TRUE)
                            /\ rep.status = "complete"
                            /\ Discovered(rep, g, TRUE)
                            /\ Unavailable(rep) # {}

DiscoveryReports == [g \in Graphs |-> {rep \in Drafts : DiscoveryValid(rep, g)}]
FinalReports == [g \in Graphs |-> {rep \in Drafts : FinalValid(rep, g)}]
UnavailableReports == [g \in Graphs |-> {rep \in Drafts : UnavailableValid(rep, g)}]

-----------------------------------------------------------------------------
(* The checkpoints of one generation.                                      *)

Established(rep) == {x \in (DOMAIN rep.rows) \X (DOMAIN rep.seen) :
                        x[2] \in rep.rows[x[1]].found}
Finished(rep) == {k \in DOMAIN rep.rows : rep.rows[k].state = "complete"}

DiscoveryInit == /\ graph \in Graphs
                 /\ stage = "prepared"
                 /\ authority = NoReport /\ accepted = NoReport
                 /\ settled = [found |-> {}, complete |-> {}]

MayDiscover(rep) ==
    \/ stage = "prepared"
    \/ stage = "discovery" /\ rep # accepted
    \/ stage = "delta" /\ authority.status = "complete" /\ rep # accepted

CheckpointDiscovery ==
    \E rep \in DiscoveryReports[graph] :
        /\ MayDiscover(rep)
        /\ authority # NoReport => Progression(authority, rep)
        /\ stage' = "discovery"
        /\ authority' = rep /\ accepted' = rep
        /\ settled' = [found |-> settled.found \cup Established(rep),
                       complete |-> settled.complete \cup Finished(rep)]
        /\ UNCHANGED graph

ReadyForDelta == /\ stage \in {"discovery", "delta", "reviewed", "validation-failed"}
                 /\ authority.status = "complete"
                 /\ Unavailable(authority) = {}

CheckpointDelta ==
    /\ ReadyForDelta
    /\ \E g \in Graphs : \E rep \in FinalReports[g] :
          /\ Progression(authority, rep)
          /\ graph' = g
          /\ accepted' = rep
    /\ stage' = "delta"
    /\ UNCHANGED <<authority, settled>>

\* at the head of the last checkpoint, which is validated as a delta once more
CheckpointReviewed == /\ ReadyForDelta
                      /\ stage \in {"discovery", "delta"}
                      /\ accepted \in FinalReports[graph]
                      /\ Progression(authority, accepted)
                      /\ stage' = "reviewed"
                      /\ UNCHANGED <<graph, authority, accepted, settled>>

\* the catalog's tests may fail whatever the report says
ValidateReport ==
    /\ stage = "reviewed"
    /\ stage' \in {"validation-failed"} \cup
                  {s \in {"fully-validated"} : accepted \in FinalReports[graph]}
    /\ UNCHANGED <<graph, authority, accepted, settled>>

\* publish manual-check for evidence that cannot be had
PublishUnavailable == /\ stage = "discovery"
                      /\ accepted \in UnavailableReports[graph]
                      /\ stage' = "unavailable"
                      /\ UNCHANGED <<graph, authority, accepted, settled>>

Regenerate == /\ stage # "prepared"
              /\ graph' \in Graphs
              /\ stage' = "prepared"
              /\ authority' = NoReport /\ accepted' = NoReport
              /\ settled' = [found |-> {}, complete |-> {}]

DiscoveryNext == \/ CheckpointDiscovery \/ CheckpointDelta \/ CheckpointReviewed
                 \/ ValidateReport \/ PublishUnavailable \/ Regenerate

-----------------------------------------------------------------------------
(* Properties.                                                             *)

IsFinal == stage \in {"delta", "reviewed", "fully-validated"}

\* Whatever a discovery checkpoint of the generation established, a candidate or
\* the end of a search, is in every report accepted after it, also in a delta's
\* (validate_catalog_graph_discovery_progression against the last discovery
\* checkpoint only).
EstablishedKept ==
    stage # "prepared" => /\ settled.found \subseteq Established(accepted)
                          /\ settled.complete \subseteq Finished(accepted)

\* The graph a final report shows for all its roots together holds nothing that
\* the search of some root does not account for (catalog_resulting_graph_scope
\* is rendered for the whole focus and checked for each root).
NothingShownUnsearched ==
    IsFinal =>
        Scope(graph, accepted.focus)
            \subseteq UNION {Covered(accepted, root) : root \in accepted.focus}

\* the catalog has an edge between entities that two sets of candidates stand for
Joined(rep, g, S, T) ==
    LET standing(X) == UNION {rep.seen[c].targets : c \in X} IN
    \E e \in g.edges : /\ {e[2], e[3]} \cap standing(S) # {}
                       /\ {e[2], e[3]} \cap standing(T) # {}

\* In a final report a separate graph-blocking candidate is joined to its root by
\* the catalog, not only by what the report says
\* (docs/superpowers/specs/2026-09-07-maintainer-full-graph-discovery-design.md,
\* "provisional additions or edges not materialized in the catalog").
NothingProspectiveIsFinal ==
    IsFinal =>
        \A root \in accepted.focus :
            LET mine == Candidates(accepted, root) IN
            \A S \in SUBSET (mine \ Naming(accepted, root)) :
                S \cap Blocking(accepted, root) # {} => Joined(accepted, graph, S, mine \ S)

\* A changed entity that belongs to some destination is in the graph the final
\* report shows (_required_resulting_graph_destination_ids and
\* catalog_resulting_graph_scope walk the catalog in opposite directions).
ChangesAreShown ==
    IsFinal =>
        \A e \in Changed(MainGraph, graph) :
            KindOf[e] \in Kinds /\ Destinations(graph, e) # {}
                => e \in Scope(graph, accepted.focus)

\* What the checkpoints of a generation have accepted in the end
\* (handle_checkpoint_curation).
DiscoverySafe == /\ EstablishedKept /\ NothingShownUnsearched
                 /\ NothingProspectiveIsFinal /\ ChangesAreShown

DiscoverySpec == DiscoveryInit /\ [][DiscoveryNext]_discoveryVars
=============================================================================
