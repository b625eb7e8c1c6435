---------------------------- MODULE SkiAreaScope ----------------------------
(***************************************************************************)
(* What a curation report may decide about ski areas and stay destinations *)
(* (app/data/catalog_curation.py): which are represented apart, which are  *)
(* parts of another, which areas are run together as one, and what each is *)
(* compared with.  The maintainer reconsiders one candidate at a time and  *)
(* submits the report; the checkpoint takes it when it is valid as a whole. *)
(*                                                                         *)
(* Reports are of the current schema; wording, references and coordinates  *)
(* are left out, and the evidence of an assessment is the kind of its best *)
(* source.                                                                 *)
(***************************************************************************)
EXTENDS Naturals, FiniteSets

CONSTANTS Candidate,   \* what the report assesses
          Places,      \* ski areas and stay destinations of the catalog
          Assessments, \* by candidate, the assessments that are tried
          NoArea       \* an area without a parent

Represented == {"represented", "add_entity"}
Backlog == {"deferred", "unresolved"}
Verified == {"official", "open_data", "reviewed_editorial"}
Families == {"inventory", "roster", "status", "pass", "assignment"}
CoordinationSignals == {"terrain", "coordinated_status", "common_pass"}

Dispositions ==
    Represented \cup Backlog \cup {"not_separate", "external_pass_context"}
Evidence == Verified \cup {"third_party"}
AreaAssessments ==
    [kind : {"ski_area"}, disposition : Dispositions, targets : SUBSET Places,
     evidence : Evidence, parent : Places \cup {NoArea},
     terrain : {"complete", "sector", "unresolved"},
     connectivity : {"connected", "transfer_required", "disconnected", "not_applicable",
                     "unknown"},
     operations : {"independent", "parent_owned", "coordinated", "mixed", "unknown"},
     weather : {"independent", "parent_owned", "mixed", "unknown"},
     pass : {"full_local", "limited", "shared_only", "none", "unknown"},
     value : {"material", "redundant", "unresolved"},
     signals : SUBSET (CoordinationSignals \cup {"operations", "weather", "full_pass"}),
     components : SUBSET Candidate,
     covered : SUBSET [family : Families, components : SUBSET Candidate],
     consequences : SUBSET [basis : {"parent", "sibling", "stay_market"}, target : Places]]
MarketAssessments ==
    [kind : {"stay_destination"}, disposition : Dispositions, targets : SUBSET Places,
     evidence : Evidence, gates : SUBSET {"pass", "fail", "unresolved"},
     owned : {"pass", "fail", "unresolved", "unassessed"}]

ASSUME ScopeAssumption ==
    /\ IsFiniteSet(Candidate) /\ IsFiniteSet(Places)
    /\ NoArea \notin Places
    /\ \A c \in Candidate :
          /\ Assessments[c] \subseteq AreaAssessments \cup MarketAssessments
          /\ \E a \in Assessments[c] : a.disposition = "unresolved"

VARIABLES sheet,    \* the assessment of each candidate
          submitted \* whether the checkpoint has taken the report as it is

scopeVars == <<sheet, submitted>>

-----------------------------------------------------------------------------
(* One assessment.                                                         *)

IsArea(a) == a.kind = "ski_area"
StandsAlone(a) == IsArea(a) /\ a.disposition \in Represented
IsPart(a) == IsArea(a) /\ a.disposition = "not_separate"
Coordinated(a) == IsArea(a) /\ a.operations = "coordinated"

\* consequences compare with the parent exactly when there is one to compare with
Comparable(a) ==
    \A q \in a.consequences :
        /\ q.basis = "parent" => a.parent # NoArea /\ q.target = a.parent
        /\ q.basis = "stay_market" => a.parent = NoArea
        /\ a.evidence \in Verified

WellFormed(a) == /\ (a.connectivity = "not_applicable") <=> (a.parent = NoArea)
                 /\ a.components # {} \/ a.covered # {} => Coordinated(a)
                 /\ \A f, g \in a.covered : f.family = g.family => f = g

Owners(a) == ({"operations", "weather"} \cap a.signals)
                \cup {s \in {"full_pass"} \cap a.signals : a.pass = "full_local"}

\* the owners an area claims, each with its signal
IndependentOwners(a) ==
    {s \in Owners(a) : CASE s = "operations" -> a.operations = "independent"
                         [] s = "weather" -> a.weather = "independent"
                         [] OTHER -> TRUE}

EnoughOwners(a, owners) ==
    /\ owners # {}
    /\ a.connectivity = "connected" =>
          Cardinality(owners) >= 2 /\ {"operations", "weather"} \cap owners # {}

\* Mutant: an area with no lifts in common is not asked.
OrdinaryGatesOfConnected(a) ==
    /\ a.terrain = "complete" /\ "terrain" \in a.signals
    /\ a.consequences # {}
    /\ a.connectivity \in {"connected", "transfer_required"}
    /\ EnoughOwners(a, Owners(a))

\* the gates of an area of its own, as they are asked of one that is to be a part
OrdinaryGates(a) ==
    /\ a.terrain = "complete" /\ "terrain" \in a.signals
    /\ a.consequences # {}
    /\ a.connectivity \in {"connected", "transfer_required", "disconnected"}
    /\ EnoughOwners(a, Owners(a))

CoordinationShown(a) ==
    /\ CoordinationSignals \subseteq a.signals
    /\ a.pass \in {"full_local", "shared_only"}
    /\ Cardinality(a.components) >= 2
    /\ {f.family : f \in a.covered} = Families
    /\ \A f \in a.covered : f.components = a.components
    /\ a.evidence = "official"

ValueStated(a) ==
    /\ a.value = "redundant" => a.consequences = {}
    /\ a.value = "material" => a.consequences # {}
    /\ a.disposition \in Backlog => a.value = "unresolved"

ApartValid(a) ==
    /\ a.terrain = "complete" /\ "terrain" \in a.signals
    /\ a.value = "material"
    /\ a.connectivity # "unknown"
    /\ IF Coordinated(a) THEN CoordinationShown(a)
                         ELSE EnoughOwners(a, IndependentOwners(a))

PartValid(a) == /\ a.parent # NoArea /\ a.parent \in a.targets
                /\ a.connectivity # "unknown"
                /\ a.value \in {"redundant", "material"}
                /\ ~OrdinaryGates(a)

AreaValid(a) == /\ WellFormed(a)
                /\ Comparable(a)
                /\ ValueStated(a)
                /\ a.disposition # "external_pass_context"
                /\ a.components # {} \/ a.covered # {} => StandsAlone(a)
                /\ StandsAlone(a) => ApartValid(a)
                /\ IsPart(a) => PartValid(a)

\* the boundary of a stay destination: every gate, and a signal that its market
\* is owned, from an official source
Passing(a) == a.gates = {"pass"} /\ a.owned = "pass"
BoundaryValid(a) == /\ a.owned # "unassessed"
                    /\ a.owned = "pass" => a.evidence \in Verified
                    /\ Passing(a) => a.evidence = "official"
                    /\ a.disposition \in Represented => Passing(a)

AssessmentValid(a) ==
    /\ a.disposition \in Represented \cup {"not_separate"} => /\ a.targets # {}
                                                             /\ a.evidence \in Verified
    /\ IF IsArea(a) THEN AreaValid(a) ELSE BoundaryValid(a)

-----------------------------------------------------------------------------
(* The assessments together.                                               *)

Parents(s) == {p \in Candidate : StandsAlone(s[p]) /\ Coordinated(s[p])}
Standing(s, kind, t) == {c \in Candidate : /\ s[c].kind = kind
                                          /\ s[c].disposition \in Represented
                                          /\ t \in s[c].targets}

\* Mutant: a listed component may name another parent.
ComponentFitsAnyParent(s, p, c) ==
    /\ c \in Candidate \ {p}
    /\ IsPart(s[c]) /\ Coordinated(s[c])
    /\ s[c].weather # "independent"

ComponentFits(s, p, c) ==
    /\ c \in Candidate \ {p}
    /\ IsPart(s[c]) /\ Coordinated(s[c])
    /\ s[c].targets = s[p].targets
    /\ s[c].parent \in s[p].targets
    /\ s[c].weather # "independent"

ComponentsValid(s) ==
    /\ \A p \in Parents(s) : /\ Cardinality(s[p].targets) = 1
                             /\ \A c \in s[p].components : ComponentFits(s, p, c)
    /\ \A p, q \in Parents(s) : s[p].targets = s[q].targets => p = q
    /\ \A c \in Candidate :
          IsPart(s[c]) /\ Coordinated(s[c]) =>
              \E p \in Parents(s) : s[c].parent \in s[p].targets /\ c \in s[p].components

\* what the comparisons of a candidate are about
Subject(a) == IF StandsAlone(a) /\ a.consequences # {} THEN a.targets ELSE {}

SubjectValid(s, c) ==
    StandsAlone(s[c]) /\ s[c].consequences # {} =>
        /\ Cardinality(s[c].targets) = 1
        /\ \A t \in s[c].targets : Standing(s, "ski_area", t) = {c}

ComparedWith(s, c, q) ==
    LET standing == Standing(s, IF q.basis = "stay_market" THEN "stay_destination"
                                ELSE "ski_area", q.target)
    IN  /\ Cardinality(standing) = 1
        /\ q.basis # "stay_market" => q.target \notin Subject(s[c])
        /\ q.basis = "sibling" => \A d \in standing : s[d].parent = s[c].parent

Comparisons(s) == UNION {{c} \X s[c].consequences : c \in {c \in Candidate : IsArea(s[c])}}
With(s, basis) == {k \in Comparisons(s) : k[2].basis = basis}
Roots(s, d) == UNION {Subject(s[k[1]]) : k \in {k \in With(s, "stay_market") : k[2].target = d}}
Siblings(s) == UNION {Subject(s[k[1]]) \cup {k[2].target} : k \in With(s, "sibling")}

\* Mutant: several areas may be the root of one stay market.
TargetsValidAnyRoot(s) ==
    /\ \A c \in Candidate : IsArea(s[c]) => SubjectValid(s, c)
    /\ \A k \in Comparisons(s) : ComparedWith(s, k[1], k[2])
    /\ \A k \in With(s, "stay_market") : Roots(s, k[2].target) \cap Siblings(s) = {}

TargetsValid(s) ==
    /\ \A c \in Candidate : IsArea(s[c]) => SubjectValid(s, c)
    /\ \A k \in Comparisons(s) : ComparedWith(s, k[1], k[2])
    /\ \A k \in With(s, "stay_market") : /\ Cardinality(Roots(s, k[2].target)) <= 1
                                        /\ Roots(s, k[2].target) \cap Siblings(s) = {}

SheetValid(s) == /\ \A c \in Candidate : AssessmentValid(s[c])
                 /\ ComponentsValid(s)
                 /\ TargetsValid(s)

-----------------------------------------------------------------------------
ScopeInit ==
    /\ sheet = [c \in Candidate |-> CHOOSE a \in Assessments[c] : a.disposition = "unresolved"]
    /\ submitted = FALSE

Reconsider(c) == /\ \E a \in Assessments[c] : sheet' = [sheet EXCEPT ![c] = a]
                 /\ submitted' = FALSE

Submit == /\ ~submitted
          /\ SheetValid(sheet)
          /\ submitted' = TRUE
          /\ UNCHANGED sheet

ScopeNext == (\E c \in Candidate : Reconsider(c)) \/ Submit

-----------------------------------------------------------------------------
(* Properties of a report that was taken.                                  *)

\* Areas that are run together form one level: a part of such an area belongs to
\* exactly one of them, which lists it, and has no parts of its own
\* (docs/data-trust-model.md, coordinated components; the check walks the lists
\* of the parents and then the parents the children name).
OneLevel ==
    submitted =>
        \A c \in Candidate :
            IsPart(sheet[c]) /\ Coordinated(sheet[c]) =>
                /\ Cardinality({p \in Parents(sheet) : \/ c \in sheet[p].components
                                                      \/ sheet[c].parent \in sheet[p].targets}) = 1
                /\ sheet[c].components = {}
                /\ \A p \in Parents(sheet) : sheet[p].components \cap Parents(sheet) = {}

\* The evidence decides: no area is a part of another when the same assessment
\* would have stood as an area of its own (the gates are written twice, in
\* _validate_ski_area_boundary_assessment and in
\* _ski_area_candidate_satisfies_ordinary_separate_gates).
PartsCannotStandAlone ==
    submitted =>
        \A c \in Candidate :
            IsPart(sheet[c]) /\ ~Coordinated(sheet[c]) =>
                ~ApartValid([sheet[c] EXCEPT !.disposition = "represented"])

\* One area that stands apart is the root of a stay market: only it is compared with
\* the market, it has no parent, and it has no sibling in any comparison; and whatever
\* is compared with a market, an area still deferred too, is compared with a stay
\* destination whose boundary passes (the root is looked for over all assessments,
\* after each has been judged alone).
MarketRoots(s, d) == {k \in With(s, "stay_market") : StandsAlone(s[k[1]]) /\ k[2].target = d}

OneRootPerMarket ==
    submitted =>
        /\ \A d \in Places : \A j, k \in MarketRoots(sheet, d) : j[1] = k[1]
        /\ \A d \in Places : \A k \in MarketRoots(sheet, d) :
              /\ sheet[k[1]].parent = NoArea
              /\ \A j \in With(sheet, "sibling") :
                    j[1] # k[1] /\ j[2].target \notin sheet[k[1]].targets
        /\ \A k \in With(sheet, "stay_market") :
              \E d \in Candidate : k[2].target \in sheet[d].targets /\ Passing(sheet[d])

\* What an accepted report says of ski areas does not contradict itself
\* (_validate_ski_area_boundary_assessment).
AreasSafe == OneLevel /\ PartsCannotStandAlone /\ OneRootPerMarket

ScopeSpec == ScopeInit /\ [][ScopeNext]_scopeVars
=============================================================================
