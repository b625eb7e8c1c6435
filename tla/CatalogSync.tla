---------------------------- MODULE CatalogSync ----------------------------
(***************************************************************************)
(* The catalog in the database: `sync_catalog_snapshot`, which every job   *)
(* and every deployment runs at its start with the catalog file of its own *)
(* checkout, beside `_read_active_catalog_snapshot`, which every request   *)
(* runs at READ COMMITTED.                                                 *)
(*                                                                         *)
(* An entity is an id with its references, a set of <<table, id>>; the     *)
(* link tables of terrain domains and lift passes are the references of    *)
(* their owners, a default pass is a reference of kind "default".  Names,  *)
(* prices and coordinates are left out.                                    *)
(***************************************************************************)
EXTENDS Naturals, Sequences

CONSTANTS
    Catalogs,    \* the names of the catalog files in use
    Catalog,     \* name -> table -> id -> references
    Jobs,        \* the processes that synchronise
    Pages,       \* the requests that read
    MaxSyncs,    \* bound on synchronisations
    MaxReads     \* bound on reads

Kinds == {"regions", "destinations", "bases", "areas", "access", "domains",
          "passes", "rentals"}

ASSUME CatalogAssumption ==
    /\ \A c \in Catalogs : DOMAIN Catalog[c] = Kinds
    /\ \A c \in Catalogs, t \in Kinds :
           /\ Catalog[c][t] = [i \in DOMAIN Catalog[c][t] |-> Catalog[c][t][i]]
           /\ \A i \in DOMAIN Catalog[c][t] : \A r \in Catalog[c][t][i] :
                  r[1] \in Kinds \/ (r[1] = "default" /\ t = "passes")
    /\ Jobs \cap Pages = {}

VARIABLES
    rows,     \* table -> id -> [refs, active]
    synced,   \* the catalog the last committed synchronisation wrote
    loading,  \* job -> the catalog it loaded
    at,       \* process -> position in its statements
    held,     \* process -> the tables it has locked
    seen,     \* request -> what its statements have returned
    syncs,    \* synchronisations started
    reads     \* reads started

catalogVars == <<rows, synced, loading, at, held, seen, syncs, reads>>

-----------------------------------------------------------------------------
(* The graph validation of a snapshot. *)

Refs(s, t) == UNION {s[t][i] : i \in DOMAIN s[t]}

RefersTo(s, t, target) == {r[2] : r \in {q \in Refs(s, t) : q[1] = target}}

\* Regions whose parents never leave them.
Rootless(s) ==
    \E R \in SUBSET DOMAIN s.regions :
        R # {} /\ \A r \in R : \E p \in R : <<"regions", p>> \in s.regions[r]

AccessGraphValid(s) ==
    /\ \A x, y \in DOMAIN s.access : s.access[x] = s.access[y] => x = y
    /\ RefersTo(s, "access", "bases") = DOMAIN s.bases
    /\ RefersTo(s, "access", "areas") = DOMAIN s.areas

PassesValid(s) ==
    \A p \in DOMAIN s.passes :
        /\ \E r \in s.passes[p] : r[1] \in {"areas", "domains"}
        /\ \A r \in s.passes[p] : r[1] = "default" =>
               /\ <<"destinations", r[2]>> \in s.passes[p]
               /\ \A q \in DOMAIN s.passes : r \in s.passes[q] => q = p

RentalsValid(s) ==
    \A r \in DOMAIN s.rentals, b \in DOMAIN s.bases :
        <<"bases", b>> \in s.rentals[r] => s.bases[b] \subseteq s.rentals[r]

Valid(s) ==
    /\ \A t \in Kinds : \A r \in Refs(s, t) :
           r[1] \in Kinds => r[2] \in DOMAIN s[r[1]]
    /\ ~Rootless(s)
    /\ AccessGraphValid(s)
    /\ PassesValid(s)
    /\ RentalsValid(s)

-----------------------------------------------------------------------------
(* What one synchronisation does to the tables. *)

\* Ids of another entity that hold the base and area of an access edge: the
\* unique constraint counts retired rows, and rows a later statement moves.
PairHolders(s) ==
    {y \in DOMAIN rows.access : \E x \in DOMAIN s.access \ {y} :
         rows.access[y].refs = s.access[x]}

\* Mutant: the retirement of a table the snapshot leaves empty is skipped.
RetiredUnlessEmpty(t, s) ==
    [i \in DOMAIN rows[t] \ DOMAIN s[t] |->
        IF DOMAIN s[t] = {} THEN rows[t][i]
                            ELSE [rows[t][i] EXCEPT !.active = FALSE]]

\* Absent entities stay, inactive; their rows are never deleted.
Retired(t, s) ==
    [i \in DOMAIN rows[t] \ DOMAIN s[t] |-> [rows[t][i] EXCEPT !.active = FALSE]]

Upserted(t, s) == [i \in DOMAIN s[t] |-> [refs |-> s[t][i], active |-> TRUE]]

Written(s) ==
    [t \in Kinds |->
        LET new == Upserted(t, s)
            old == Retired(t, s)
        IN [i \in DOMAIN new \cup DOMAIN old |->
               IF i \in DOMAIN new THEN new[i] ELSE old[i]]]

-----------------------------------------------------------------------------
(* Locks: _create_schema alters five of the tables at every start, whatever *)
(* their shape, and each ALTER TABLE excludes the readers of its table      *)
(* until the transaction ends.                                              *)

\* Mutant: the schema is altered only where a column is missing.
AlteredNever == << >>

Altered == <<"bases", "areas", "domains", "passes", "destinations">>

Statements ==
    << <<"regions", {}>>, <<"destinations", {}>>, <<"bases", {"destinations"}>>,
       <<"areas", {}>>, <<"access", {"bases", "destinations", "areas"}>>,
       <<"domains", {}>>, <<"passes", {}>>, <<"rentals", {"destinations", "bases"}>>,
       <<"links", {"domains", "areas", "passes", "destinations"}>> >>

\* The tables the next statement of p has to lock.
Wanted(p) ==
    CASE p \in Jobs /\ at[p] \in 1..Len(Altered) -> {Altered[at[p]]}
      [] p \in Pages /\ at[p] \in 1..Len(Statements) ->
             {Statements[at[p]][1]} \cup Statements[at[p]][2]
      [] OTHER -> {}

Excludes(p, q) == p # q /\ (p \in Jobs \/ q \in Jobs)

\* The processes p waits for.
Blockers(p) ==
    {q \in Jobs \cup Pages : Excludes(p, q) /\ held[q] \cap Wanted(p) # {}}

Leave(p) == /\ at' = [at EXCEPT ![p] = 0]
            /\ held' = [held EXCEPT ![p] = {}]

-----------------------------------------------------------------------------
CatalogInit ==
    /\ \E c \in {d \in Catalogs : Valid(Catalog[d])} :
           /\ synced = c
           /\ rows = [t \in Kinds |->
                         [i \in DOMAIN Catalog[c][t] |->
                             [refs |-> Catalog[c][t][i], active |-> TRUE]]]
    /\ loading = [j \in Jobs |-> CHOOSE c \in Catalogs : TRUE]
    /\ at = [p \in Jobs \cup Pages |-> 0]
    /\ held = [p \in Jobs \cup Pages |-> {}]
    /\ seen = [p \in Pages |-> << >>]
    /\ syncs = 0
    /\ reads = 0

\* A job loads the catalog of its checkout; an invalid one never reaches the
\* database.  The ALTER of raw_weather_history lets one job in at a time.
LoadCatalog(j, c) ==
    /\ at[j] = 0
    /\ syncs < MaxSyncs
    /\ Valid(Catalog[c])
    /\ \A k \in Jobs : at[k] = 0
    /\ loading' = [loading EXCEPT ![j] = c]
    /\ at' = [at EXCEPT ![j] = 1]
    /\ syncs' = syncs + 1
    /\ UNCHANGED <<rows, synced, held, seen, reads>>

AlterTable(j) ==
    /\ at[j] \in 1..Len(Altered)
    /\ Blockers(j) = {}
    /\ held' = [held EXCEPT ![j] = @ \cup Wanted(j)]
    /\ at' = [at EXCEPT ![j] = @ + 1]
    /\ UNCHANGED <<rows, synced, loading, seen, syncs, reads>>

\* The upserts, the relationships and the retirement commit together.
SyncCatalog(j) ==
    LET s == Catalog[loading[j]]
    IN /\ at[j] = Len(Altered) + 1
       /\ PairHolders(s) \subseteq DOMAIN s.access
       /\ rows' = Written(s)
       /\ synced' = loading[j]
       /\ Leave(j)
       /\ UNCHANGED <<loading, seen, syncs, reads>>

\* The unique constraint on access edges refuses the upsert; all is undone.
SyncRefused(j) ==
    /\ at[j] = Len(Altered) + 1
    /\ PairHolders(Catalog[loading[j]]) # {}
    /\ Leave(j)
    /\ UNCHANGED <<rows, synced, loading, seen, syncs, reads>>

BeginRead(p) ==
    /\ at[p] = 0
    /\ reads < MaxReads
    /\ at' = [at EXCEPT ![p] = 1]
    /\ reads' = reads + 1
    /\ seen' = [seen EXCEPT ![p] = << >>]
    /\ UNCHANGED <<rows, synced, loading, held, syncs>>

Active(t, i) == i \in DOMAIN rows[t] /\ rows[t][i].active

\* A row is returned when it and the rows its statement joins are active.
Joined(t, joins) ==
    {i \in DOMAIN rows[t] :
        /\ rows[t][i].active
        /\ \A r \in rows[t][i].refs : r[1] \in joins =>
               /\ Active(r[1], r[2])
               /\ r[1] = "bases" => \A d \in rows.bases[r[2]].refs : Active(d[1], d[2])}

\* The owners' own rows come without their links.
Returned(t, joins) ==
    [i \in Joined(t, joins) |->
        IF t \in {"domains", "passes"} THEN {} ELSE rows[t][i].refs]

LinkActive(r) == Active(IF r[1] = "default" THEN "destinations" ELSE r[1], r[2])

\* The last four statements return the links between active entities.
Linked(s) ==
    [t \in Kinds |->
        IF t \notin {"domains", "passes"} THEN s[t]
        ELSE [i \in DOMAIN s[t] |->
                 IF Active(t, i) THEN {r \in rows[t][i].refs : LinkActive(r)}
                                 ELSE {}]]

\* A statement sees what is committed when it starts.
Select(p) ==
    /\ at[p] \in 1..Len(Statements)
    /\ Blockers(p) = {}
    /\ held' = [held EXCEPT ![p] = @ \cup Wanted(p)]
    /\ at' = [at EXCEPT ![p] = @ + 1]
    /\ LET t == Statements[at[p]][1]
       IN seen' = [seen EXCEPT ![p] =
              IF t = "links" THEN Linked(@)
              ELSE [k \in DOMAIN @ \cup {t} |->
                       IF k = t THEN Returned(t, Statements[at[p]][2]) ELSE @[k]]]
    /\ UNCHANGED <<rows, synced, loading, syncs, reads>>

\* What was read is validated again; a graph that does not hold together is an
\* error of the request, a graph that does is served.
Serve(p) ==
    /\ at[p] = Len(Statements) + 1
    /\ Leave(p)
    /\ seen' = [seen EXCEPT ![p] = IF Valid(@) THEN @ ELSE << >>]
    /\ UNCHANGED <<rows, synced, loading, syncs, reads>>

\* The database ends one of two transactions that wait for each other.
DeadlockVictim(p) ==
    /\ \E q \in Blockers(p) : p \in Blockers(q)
    /\ Leave(p)
    /\ seen' = IF p \in Pages THEN [seen EXCEPT ![p] = << >>] ELSE seen
    /\ UNCHANGED <<rows, synced, loading, syncs, reads>>

CatalogNext ==
    \/ \E j \in Jobs : \/ \E c \in Catalogs : LoadCatalog(j, c)
                       \/ AlterTable(j)
                       \/ SyncCatalog(j)
                       \/ SyncRefused(j)
    \/ \E p \in Pages : BeginRead(p) \/ Select(p) \/ Serve(p)
    \/ \E p \in Jobs \cup Pages : DeadlockVictim(p)

CatalogSpec == CatalogInit /\ [][CatalogNext]_catalogVars

-----------------------------------------------------------------------------
(* Properties *)

\* The active rows are the catalog that was synchronised last, whole: nothing
\* of an earlier catalog stays active, however the catalogs followed each other
\* and whichever synchronisations were refused or ended by the database.
ActiveIsLatest ==
    \A t \in Kinds :
        [i \in {k \in DOMAIN rows[t] : rows[t][k].active} |-> rows[t][i].refs]
            = Catalog[synced][t]

\* What a request serves comes, but for the regions its first statement read,
\* from one catalog: no synchronisation commits between its statements.
ServedIsOneCatalog ==
    \A p \in Pages : at[p] = 0 /\ seen[p] # << >> =>
        \E c \in Catalogs : \A t \in Kinds \ {"regions"} :
            seen[p][t] = Catalog[c][t]

\* The two together.
CatalogSafe == ActiveIsLatest /\ ServedIsOneCatalog
=============================================================================
