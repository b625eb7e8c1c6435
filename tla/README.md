# Snowcast: TLA+ models of the catalog maintainer and the application

Snowcast plans ski trips: a Python backend (`app/`), a web front end (`frontend/`), a mobile app
(`mobile/`) and a local maintainer (`ops/maintainer/`). The maintainer is a command-line tool that
curates the ski catalog through GitHub pull requests. It is driven by an agent that may stop at any
moment; each of its commands is a short-lived process, all state that survives lies in private JSON
files, and its effects reach a git remote and GitHub, where other people act too. That is where
ordering, crashes and stale knowledge matter most, and this project models it first and in most
detail. Of the application it models the parts that are concurrent or outlive a request: admission and
workers, bounded stores, jobs beside readers, the page under answers in any order, and the ranking whose
outcome a question announces before its answer is applied.

Paths below are relative to the repository. `capabilities.py` and the like stand for
`ops/maintainer/capabilities.py`.

## 1. Inventory

| Component | State it keeps | Operations | What is hard |
|---|---|---|---|
| Run lease (`runtime.py`) | `run.lock/owner.json`, the flock file, `run.lock.stale-*`, `run.lock.releasing-*` | acquire (with takeover after an hour without heartbeat), heartbeat, release, ownership check | two takeovers, a crash between mkdir and owner record, a superseded writer that wakes up |
| Journal store (`state.py`) | per work item: work record, push journal, CI continuation and archive, terminal-publication intent | begin and save work; authorise, advance, adopt a push; start, advance, adopt, time a continuation; authorise, adopt, complete an intent; two guards of outside mutations | operations that write two or three files, successors that adopt what a dead run left |
| Curation generations (`curation_state.py`, `prepare`/`checkpoint`/`validate curation`, `git_ops.py`) | an event-sourced generation document, the worktree, private refs, an archive of the older format | prepare (new, resume, retry, replay, conflict), checkpoint, validate, archive, migrate | two files or two refs written one after the other, the author pushing, main advancing, overlapping commands |
| Curation publication (`publish *`, `publication.py`) | GitHub comment, label, branch | push, manual-check, recover, state, outcome | a push that outlives its command, a publication that stops half way, evidence reused from a comment |
| Terminal publication of a blocked repair | the intent and its copy of the continuation | outcome, recover, replay | heartbeats of the same run running beside it |
| CI remediation (`*_ci_repair`) and CI budgets | continuation phases, owner, stamps and seconds | prepare, checkpoint, publish, recover, invalidate; heartbeat credit | a repair push recovered by a successor; time credited from readings that are old when used |
| Discovery proposals (`publish proposal`) | journal of a create-only push, a draft pull request | validate, push, create, comment, label, recover | requests that are carried out after their command died; the owner accepting in between |
| Inspection (`inspection.py`) | none | which pull request a run may choose | the offer and the command decide apart, at different times |
| Validation (`validation.py`, `app/data/catalog_curation*.py`) | two checkouts, process groups, the reports of a generation | run the commands; check a report against the catalog and the reports before | a child that outlives its command; rules written twice, or checked from two sides |
| Refinement service (`app/api`, `search_refinement_snapshot.py`) | token buckets, slots, timed-out futures, a bounded store of evaluated searches | acquire, submit, time out, release; put, look up, expire, evict, answer before a deadline | a worker that outlives its request; a store that changes between the steps of a request |
| Trip companion (`trip_companion.py`, `repositories.py`, `refresh_conditions.py`) | the trip, conditions and their history, events | save, clear, check, read the summary; refresh | several transactions per request, beside the job |
| Weather and catalog jobs (`app/data`) | forecast runs and heads, the historical archive, climatology, the catalog's tables | refresh, publish, retain; backfill, reconcile, complete, rebuild; synchronise, read | jobs beside each other and beside readers; retention of what somebody reads |
| Web front end (`App.tsx`, `searchSession.ts`) | the search session, the current trip | search, ask, apply, skip, undo; load, save, clear | answers in any order, of requests that no longer matter |
| Search and ranking (`search_ranking.py`, `search_constraints.py`, `search_factors/`, `search_refinement.py`) | none; the snapshot keeps what a search evaluated | constrain, evaluate, score, order; validate a question and preview its answers | a preview and the search that follows are computed from different data, by different code, in two languages |
| Language model client, CLI, mobile app | none of their own | wording, parsing, presentation | not modelled, see section 6 |

How they interact: every maintainer command names a run ID and asks the lease for it; every write to
the store asserts the lease inside the transition mutex; handlers read the store, GitHub and git, and
write generation document, store and remote one after the other; a later run adopts the journal,
continuation or intent a dead run left. The application's parts share the database only: jobs write
what requests read. What a correct component promises is stated with its properties in section 4.

## 2. Modules

```
FencedLease  <--implements--  RunLease
                                 :  (the lease moves in JournalStore as FencedLease lets it)
                              JournalStore
                 /           /         |            \
  TerminalOutcome   CiRepair   ProposalPublication   CurationGeneration --implements--> GenerationLifecycle
                                                         |                                   ^
                                                 CurationPublication        GenerationLog ---'

on their own:  LegacyMigration  CiBudget  Inspection  CurationValidation  GraphDiscovery  SkiAreaScope
               CheckpointRefs  RefinementService  RefinementSnapshots  SearchSession  TripView
               TripCompanion  WeatherForecasts  WeatherArchive  CatalogSync

SearchRanking <-- SearchRefinement
```

A lower module (in the last line: one further right) EXTENDS the one above it and builds its actions from that module's operations.

The maintainer:

* **FencedLease** - what the rest of the maintainer expects of the lock: one owner at a time, no run
  comes back, only the owner writes.
* **RunLease** - `runtime.py` at the grain of its file-system calls. `lock` is the directory and its
  owner record, `mutex` the flock, `task` the processes. The clock is read *before* the mutex is
  taken, as in the code. A crash drops the mutex and leaves the directory as it is. `grantNo`,
  `grants`, `lastWrite` and `writer` are history variables. `Mutate*` is
  `guard_push_mutation` / a guarded store write.
* **JournalStore** - every operation of `StateStore` that changes one of the four record kinds.
  Guards are the code's: lease, worker, origin and recovery run, phase order, record well-formedness,
  the archive of used semantic heads. Each operation runs under the mutex, so it is one action; where
  it writes several files, the action also has the outcomes in which the process died between them.
  `StoreSpec` lets every run call everything with any arguments: its properties do not lean on the
  handlers.
* **TerminalOutcome** - `publish outcome` for a repair, `publish recover` of its intent, the replay
  (comment, labels, completion) and `lock heartbeat`, whose check and write are two steps.
* **CiRepair** - prepare, checkpoint, publish, recover and invalidate ci-repair and the publications of
  the waits. `task` is the command of each run and its next step, `push` the git push it waits for,
  `orphans` pushes whose command died, `shown` the comment and label, `late` whether a run without a
  journal was overtaken in a GitHub mutation.
* **ProposalPublication** - `validate proposal` and `publish proposal`: each request to a server is a
  step, a command dies at any of them and its request is carried out later or never.
* **CurationGeneration** - `prepare`, `checkpoint` and `validate curation`. `gen` is the projection of
  the generation's events, `synced` the sync of the work record, `made` the lineage of each commit,
  `picking` a conflicting cherry-pick left in the worktree, `remote`/`prHead`/`main` the git remote,
  what GitHub's API shows of it, and main.
* **GenerationLifecycle** - what a generation promises, whatever file it is kept in. CurationGeneration
  implements it (KeepsLifecycle), and so does **GenerationLog**, the event sequence that overlapping
  commands of one run load and append to (LogImplementsLifecycle).
* **CheckpointRefs** - the two private refs of a checkpoint, made around a replay commit, and the
  archive branch. A command whose lease was taken over goes on.
* **LegacyMigration** - `migrate curation-state`, write by write, repeated after it died.
* **CurationPublication** - the publish commands on top of CurationGeneration: `pub` the command under
  way, `push` the git push it waits for, `orphans` pushes whose command died, `comment` and `label` what
  GitHub shows.
* **CiBudget** - the seconds of the two waits and of the repair. `Readings` are clock values that may be
  up to `Lag` old; `since`, `beats` and `spent` are history variables.
* **Inspection** - the offers of `inspect curation` and, side by side, what each command that takes one
  up requires. A command is one step here, an outcome two (comment, label).
* **CurationValidation** - the process groups of the validation commands: timeouts, SIGTERM, SIGKILL,
  children, and changes of the two checkouts. Before each command both are read again (the plan), after
  the last command of a reviewed head as well; after the last of a delta its checkpoint reads the one of
  the pull request only.
* **GraphDiscovery** - the obligations of a report: the closure of a destination in the catalog, the
  candidates and relationships it must hold, what a final report needs, and progression from the last
  discovery checkpoint, along the checkpoints of one generation.
* **SkiAreaScope** - which ski areas stand apart, which are parts, which are run together, and which
  area a stay market compares with. The maintainer reconsiders one candidate at a time and submits.

The application:

* **RefinementService** - token buckets, slots, the worker pool and its timed-out workers. A request
  reads the clock (`readAt`) before it takes the lock of the guard, as in the code, and leaves that time
  in the bucket though it may be older than the one there. `due`, a history variable, is what a client is
  due by the clock.
* **RefinementSnapshots** - the expiring least-recently-used store, its cleanup and tombstones, and the
  request that asks one question against a deadline.
* **SearchSession** - the search screen: form, ranking, question, undo, and every request under way.
* **TripView** - the current trip on the page, with the identities that retire old loads.
* **TripCompanion** - the saved trip, conditions, history and events, one transaction per step, beside
  the refresh job.
* **WeatherForecasts** - runs, heads, refreshers and retention. **WeatherArchive** - archive jobs, the
  completion controller, climatology and its rebuild. A provider request stores whatever days of its year
  the answer lists, also some or none, and counts as a success; the controller reports by the areas it
  counted (`remaining`) before it rebuilt climatology. `short` and `beside` are history: a year that is
  not whole after its answer, and climatology the rebuild command replaced since the count.
* **CatalogSync** - the synchronisation statement by statement, with the locks that order it, beside
  readers whose statements each see what is committed.
* **SearchRanking** - from an intent and the facts of a catalogue to the order of its regions: hard
  constraints, factors, bounds of the numbers, the division of the score among groups under their caps.
  Fractions in lowest terms are its numbers.
* **SearchRefinement** - a first search, the questions it may be asked (`Askable` is the validation of a
  proposal), the previews of their answers (`Variant`: the stored candidates ranked again), and the
  intent the page puts together of the answer that is chosen (`AppliedByPage`), or of none.

The theorems are in eight modules of their own (section 5): **JournalStoreProofs**,
**TerminalOutcomeProofs**, **ProposalProofs**, **CurationProofs**, **CiRepairProofs**,
**MaintainerProofs**, **ApplicationProofs** and **RankingProofs**. **MC\*** are the instances for TLC.
MCOutcomes, MCMaintainer and MCApplication check several modules in one run: `part` is chosen in the
initial state from `Parts` and never changes, only that part's actions are enabled, and the variables of
the others stay at one value. The state space is the disjoint union of the parts, so a property of one
part is checked exactly as it would be alone; the comments of these modules list the parts with their
bounds. The parts of MCOutcomes are outcomes, successors, race, proposals, cap, graph, areas, commands
and refs; it also holds the reports and assessments that graph and areas try.

### Correspondence and abstractions

`PROJECT.json` ("map") names the source lines of every definition. What is abstracted:

* A commit is a model value; its content does not matter, its lineage does (`made`). A rebase or a
  replay always makes a new commit (a rebase that changes nothing is left out), and the author never
  pushes a commit of the maintainer.
* A command reads the store and does its first write in one step: only the lease owner's writes
  succeed, a run executes one command at a time, so nothing it read can have changed. TerminalOutcome
  drops this assumption for the heartbeat, and GenerationLog for two commands of one run. A command
  whose run lost the lease ends with the lease, since its next write would be refused; CheckpointRefs
  and CiRepair let it go on where its next effect is not a store write.
* The GitHub answer "checks are pending / successful / failed" is a free choice at each step that asks.
* All labels that hold a pull request for the owner are `hold` (published as a state) or `outcome`
  (published as an outcome); the managed body is left out.
* `push_with_lease` also requires that the worktree is at the head it pushes; CurationPublication does
  not track the worktree and lets the push go on, which only adds behaviours.
* A push whose command was killed may land at any later time, once; in ProposalPublication so may the
  creation of the pull request, its comment and its label. Elsewhere a comment or label whose process
  died does not land later.
* The private refs of a checkpoint are in CheckpointRefs and not in CurationGeneration, which takes a
  checkpoint's naming as one step of its transaction.
* Reports: evidence is the kind of its source, values and wording are left out, an entity is a name.
* Application: a fingerprint, a condition, a filter set, a trip or a catalog row is a model value; the
  rows of a forecast run are the areas it covers, those of the archive the days stored, of years that all have
  the same days (a leap day is a day like any other); a tick of the clock is the unit the code counts in
  (a token, a lifetime, a forecast cycle). Of the form of a search the session keeps the chips of the
  factors and one set of filters, not the chips that turn a hard filter into a preference
  (`App.tsx:1250-1279`). The refresh job of TripCompanion runs without `--force`
  (`refresh_conditions.py:78`), which would refresh what is still fresh. The three statements of a
  retention of forecasts are one step of WeatherForecasts: the foreign key of the heads restricts what
  they may delete (`database.py:390`).
* Ranking: scores are exact fractions where the code has floats, on the scale of 0 to 1; a fact or limit
  that may be missing is a set of at most one. `ShippedPolicy` and `ShippedTopics` of MCApplication are
  nine factors of the shipped policy, with its groups and weights, and six of its topics; what weather, skill and access say of a candidate is given, and does not change between a search and its
  refinement. The catalogue does not change between them either.
* File-level validation (owner, mode, size, fsync) is left out.

## 3. Hazards

`PROJECT.json` ("hazards") lists them at their lines, with the property that would catch each. The ones
without a property are disagreements with a document that a configuration of section 4 reproduces.

Some behaviours are worth knowing although no document rules them out:

* `publish push` that died between saving its journal and consuming the generation goes on from the
  journal and never consumes (`capabilities.py:1985-2000`); ReplacesItsOrigin and OnlyReviewedLands show
  that the branch is safe all the same.
* A third head on the branch while a journal is open, and a terminal intent whose pull request moved,
  refuse every recovery until the head moves back. RepairSettles excepts exactly this (BeyondRecovery).
* The archive branch of a generation is created once; a later checkpoint of the same generation cannot
  be archived (`capabilities.py:2176`).
* Two overlapping saves of a trip may reach the server in either order, and the page cannot tell which
  came last (`App.tsx:1353`); ViewIsStored leaves that case out.
* A request that reads the catalog while it is synchronised may serve regions older than the rest
  (`catalog_repository.py:149`), and two access links that exchange their ends are refused by the unique
  constraint until the first has been retired (`catalog_schema.py:188`).
* With two overlapping forecast refreshers a head may go back to an older cycle
  (`weather_forecast_repository.py:255`); the deployed schedule starts one at a time.
* The topics travel_effort, stay_base_access and trip_window_snow_fit are never asked under the shipped
  policy: each is about the only ranking factor of its group and its answers change nothing but that
  factor's importance, so that no two answers differ in what they do (`Matters`).
* A checkout that a validation command changes and restores is not noticed (`validation.py:696`), and
  neither is a base checkout that changes while the last command of a delta, the reconciliation, reads it
  (`validation.py:422`, `git_ops.py:1001`); ReadAsPrepared excepts exactly this.
* A refinement request that waits for the lock of the guard sets its client's bucket back to the time it
  read before (`refinement_admission.py:64-84`), so that the next request is credited the wait again:
  WithinRate bounds what a client gets by its rate and these waits.
* An answer of the weather provider that lists only some days of a year, or none, is stored and counted
  as a success (`backfill_historical_weather.py:226-258`); the area stays incomplete and is fetched again
  by the next completion. CompletionIsTrue shows that such a run reports `work_remaining`.

## 4. Runs and what they show

All bounds are CONSTANTS of the `.cfg` files. Deadlock checking is off where the system may stop (all
runs but `lease`).

| Run | Bounds | Properties |
|---|---|---|
| `lease` | 2 processes, 2 run IDs, stale after 1 tick, 2 ticks | **OwnerIsNewest**; **FencedWrites** (no guarded write of a superseded run after its successor's); **FreshLeaseKept**; **ImplementsFencedLease** (so no run that lost the lease owns it again); **CommandEnds** |
| `store` | all operations: 2 curation runs, 1 discovery run, 1 work item each, 1 commit; continuations: 3 curation runs, 1 work item, 2 commits | **OneWorkerRecovers**; **SemanticHeadOnce**; **TerminalOnce** |
| `outcomes` | 2 curation runs and 2 commits, or 3 curation runs and 1 commit; 2 discovery runs, 1 candidate and 2 commits, or 2 candidates under a cap of 1, one dying command; 3 catalogs of 10 entities and the reports with one departure; 4 ski areas (one may be deferred) and a stay market; 2 or 3 validation commands; 2 runs, 2 generations of 2 checkpoints | **TerminalSafe**; **ProposalSafe**; **AcceptedStays**; **DiscoverySafe**; **AreasSafe**; **ValidationSafe**; **CheckpointsStand** |
| `maintainer` | 3 runs, 2 author heads, 2 maintainer commits, main advances once; 2 overlapping commands, 2 documents of 7 events; 2 legacy files, 3 attempts; budgets of 2 units, readings 1 old; 2 pull requests of 2 heads, 3 outside changes | **CurationSafe**; **KeepsLifecycle**; **LogImplementsLifecycle**; **OffersLeadOn**; **MigrationSafe**; **BudgetIsHonest**; **BudgetOnlyGrows**; **InspectionSafe** |
| `pushes` | 2 runs, 2 author heads, 2 maintainer commits, main advances once; push, manual-check, recover | **OnlyReviewedLands**; **JournalTellsTruth**; **ReplacesItsOrigin** |
| `claims` | 2 runs, 1 author head, 1 maintainer commit; all publish commands | **RecordsAgree**; **ClaimsAreTrue** |
| `ci_repair` | 2 runs, 2 possible repairs, 1 author head, 2 deaths or lost leases | **RepairSafe**; **OneRepair**; **RepairSettles** |
| `application` | 4 requests of 2 clients on 2 slots; 3 searches, 1 question; a session of 2 factors, 3 searches, 5 asks; 1 trip, 1 request beside the job; 4 page requests; 2 areas and 2 runs, or 1 area and 3 runs, 5 cycles; 1 area of 2 bands, 2 years of 2 days; 4 catalogs, 1 job, 2 readers; 6 first searches of 3 catalogues of 3 or 4 candidates, 2 questions each, and a search of an empty catalogue | **RefinementSafe**; **SnapshotSafe**; **SessionSafe**; **TripSafe**; **ViewIsStored**; **ForecastSafe**; **CompletionIsTrue**; **CatalogSafe**; **RankingSafe** |

A name that ends in *Safe* (and RecordsAgree, CheckpointsStand, BudgetIsHonest) is the conjunction of
the named invariants just above it in its module, the module's type invariant included where it has
one: CurationSafe is CurationTypeOK, EvidenceKept (a work record says reviewed only of a head whose
checkpoint completed), LineageKept and AuthorityInLineage (authority never leaves the prepared lineage);
RepairSafe is RepairRecoverable (a saved push can always be finished) and RepairIsPublic; ProposalSafe is
ProposalOnce, ProposalsCapped and ProposalIsPublic; DiscoverySafe is EstablishedKept,
NothingShownUnsearched, NothingProspectiveIsFinal and ChangesAreShown; RankingSafe is PreviewTrue (what
the page says an answer does to the regions on top, and how many candidates stay, is what the search of
the whole catalogue then does, except where `preview_exact` below shows otherwise), SharesFair (the
groups each have a share, the shares add up to the score and keep their caps, and the rest is divided by
budget, whenever the caps leave room) and that the wish stays one the service accepts; RefinementSafe is that no
request queues behind an abandoned worker, that the slots are counted right, and WithinRate (a client
that is not evicted is admitted its burst, once per tick, and once for each tick that its requests waited
with an old reading);
and so on. RecordsAgree relates the journal, the work record and the continuation after any interrupted
publication. CompletionIsTrue compares what the completion controller reports with what the archive and the
climatology hold while it reports: what it counted before it rebuilt is still so, it reports work left
only when a failed chunk, a rate limit, the request budget or a short answer held it up, and every other
area has current climatology, made from the whole archive where this run made it.

Why the bounds are enough for the interesting cases: two runs are a run and its successor, a third lets
a successor be succeeded; two author heads let the branch move away and a delayed push meet the wrong
head; two maintainer commits let a generation be replaced by another; two run IDs and two processes let
one process be taken over while it sleeps; two deaths let a recovery die as well. Four requests on two
slots let two fresh ones meet two stuck workers; three snapshots meet two places; two author requests
and one job meet in every order of their transactions. Two days of a year let an answer be short without being empty; short answers are tried in a part of
their own (`days`) with completions only, while in the part `archive` every answer is a whole year or
nothing and backfills, reconciliations and completions follow one another. Three cycles per sampled unit, with two of them
to a day and two days to a week, let retention choose between runs at each of its ages.

Every property has a mutant (`PROJECT.json`, "mutants"): a plausible defect in one mapped definition
that the run then finds. The modules hold further definitions marked "Mutant:", at least one for most
conjuncts of the compound invariants; each of them, put in the place of the definition it is named
after, violates its invariant too.

### Disagreements with the documents

Four runs are expected to fail; each checks a statement of a document, or the title of a test, that the
code does not keep (quotes under "findings").

* `terminal_successors` - three runs, one command at a time and no heartbeat. The first authorizes the
  terminal intent and dies. The second adopts it, publishes, and `complete_terminal_publication` saves the
  blocked continuation with the second run as its recovery run; it dies before it saves the intent. The
  third adopts: `adopt_terminal_publication` (`state.py:846`) makes it the intent's recovery run and
  leaves the continuation, which `_require_terminal_publication_continuation` (`state.py:1548`) then
  accepts neither from it nor from anybody later. The unresolved intent refuses every other command.
  `docs/operating-model/local-maintainer-activation.md:945-951` says that a successor ends with the
  intent consumed. With two runs the statement holds, which is why it takes a third to see it.
  The same end is reached with `Parts = {"race"}` in that configuration: a heartbeat
  (`state.py:1378`) that looked for intents before `publish outcome` saved one writes the continuation
  after it.
* `recovered_handoff` - a validated head whose push was recovered by a successor cannot be handed to CI.
* `preview_exact` - the traveler wants much terrain for the price of the pass; the preview of the answer
  "a cheap pass" ranks with both objectives, the page applies it in place of the other, and the regions
  move otherwise than announced. `application` shows that all other previews are true.
* `stale_climatology` - a climatology rebuilt from an archive with a gap has the right number of rows and
  the right years, so that the completion takes it for current after the gap has been filled.

Further configurations, run with `tlc -config X.cfg M`, each end in a violation (`-continue` shows all
properties of a configuration with several; the `Gaps` ones take a few minutes then, and can be stopped
once each has been reported):

| Configuration and module | Property | What it shows |
|---|---|---|
| `MCPublicationGaps.cfg`, MCCurationPublication | InProgressContinues | after a partial discovery the documented next step, `prepare curation` under the same lease (`docs/operating-model/maintainer-runtime-command-contract.md:530`), is refused |
| `MCPublicationGaps.cfg`, MCCurationPublication | ValidatedLeadsToPush | `validate curation` that dies between its two writes leaves a generation that `publish push` refuses |
| `MCPublicationGaps.cfg`, MCCurationPublication | ReadyRepeats | a `ready` publication that stopped between comment and label cannot be repeated |
| `MCCiRepairTakeover.cfg`, MCCiRepair | TakeoverIsFenced | `README.md:235` calls the takeover fenced, but `_lease_mutation_guard` (`capabilities.py:2562`) only looks at the lease before a GitHub mutation: a run without a journal may overwrite the comment or label its successor published. RepairIsPublic excepts this case (`late`) |
| `MCInspectionReopens.cfg`, MCMaintainer | NewCommitReopens | `README.md:286-288` says a new commit makes a paused pull request eligible again; the label is judged first (`inspection.py:401`) |
| `MCApplicationGaps.cfg`, MCApplication | ChecksAreKept | saving a trip writes back the last check it read and undoes one recorded in between |
| `MCApplicationGaps.cfg`, MCApplication | OneValueObjective | `App.test.tsx:2728` says pass-value objectives stay exclusive through refinement apply and undo, `docs/search-ranking-model.md:293` that only one is active; a traveler who changes the new one by hand and then undoes the refinement (`App.tsx:200`) has both |

One difference is between a design note and the code and no defect is claimed: the full-graph design
(`docs/superpowers/specs/2026-09-07-maintainer-full-graph-discovery-design.md`, 213) subjects the
relationships of mapped entities to strict reconciliation; the code excepts those that touch another
destination than the root, and so does the module (`KnownEdges`).

### Fairness

* `CommandEnds` (FairSpec of RunLease): weak fairness of a process that holds the mutex (it runs on,
  fails or is killed) and strong fairness of entering the mutex (the kernel wakes the waiters of a
  contended flock in turn). Starting commands, the clock and crashes have none.
* `RepairSettles` (FairRepairSpec of CiRepair): weak fairness of the next step of a command that runs, of
  `publish recover` and of acquiring a free lease (the scheduled worker comes again and recovers before
  anything else), and of GitHub showing the branch. Deaths and lost leases are bounded by MaxStops: the
  claim is about what happens once the maintainer is not killed any more. Authors and the owner have no
  fairness.

No symmetry is used in these two runs. In the others, runs of one worker, commands and commits of one
kind are interchangeable.

## 5. What is proved

`tlapm` checks eight modules, for every value of the constants that meets the named assumption of each
module: null values are not members of the sets they stand beside, bounds and limits are naturals (the
stale time, the cap of open proposals and the limits of the snapshot store positive), the requests of the
refinement service are finitely many and its buckets are remembered at least as long as they take to
fill, a catalog is made of functions from ids to references into it. `PolicyAssumption` is what a policy
file is checked for when it is loaded (the field limits and validators of `search_policy.py`: positive
budgets, caps in (0, 1], priorities that are not negative, every label of a group known, every ranking
factor in a group) and that it has the label "normal", which `score_factor_evaluations` looks up and the
loader does not check; `StartsAssumption` that a first search was accepted by
`validate_search_intent`. No theorem restates a bound of a
configuration: the bounds in the guards (`MaxDeaths`, `MaxBeats`, ...) are constants like any other.

Every proof has the same frame: an inductive invariant, one lemma for each operation of the component
(or for each of its writes), and a theorem that puts them together. TLC checked the inductive invariants
on the instances of section 4 before they were proved. Why the invariants of the runs are not inductive
by themselves is what is worth knowing:

| Module | Theorems | Inductive invariant, and what it adds |
|---|---|---|
| JournalStoreProofs | StoreTypeCorrect, OneWorker, ContinuationOnce, BlockedOnce | `StoreInv`: the first two are inductive; the once-only ones need Remembered (every semantic head that had a continuation is the current one or archived, and the intent record still shows a terminal publication of the current one) |
| TerminalOutcomeProofs | OutcomesUseStore, OutcomesAreSafe | `OutcomeInv`: StoreInv, which holds because every step is one of the store (OutcomesUseStore), OnTheWay (what the command of the lease owner has done so far), IntentsKept (intents of the past) and BeatsBetween. OutcomesAreSafe is about SequentialSpec, in which a heartbeat falls between two commands, as the run `outcomes` checks it; OutcomesUseStore is about heartbeats at any time |
| ProposalProofs | ProposalsAreSafe, ProposalsUseStore, AcceptedIsFinal | `ProposalInv`: that a candidate has one pull request rests on what may still arrive when its first exists, so each request under way carries its own invariant, also after its command died (CandidateAt), the owner's command at each step knows the journal and pull request it goes on from (CommandAt), at most one label is under way, and the cap counts it already. AcceptedIsFinal needs NotBoth as well: no pull request is labelled and accepted |
| CurationProofs | CurationIsSafe, GenerationKeepsLifecycle | `GenerationInv`: GenerationKept (what each stage of the document says of its sync, checkpoint and evidence), CommitsKept (lineage never changes once made), WorkKept (what the work record may lag behind the document after a crash) and TaskKept (what a command has read between its two writes). The refinement of GenerationLifecycle follows from it action by action |
| CurationProofs | OnlyReviewedEverLands, JournalAlwaysTrue, RecordsAlwaysAgree, ClaimsStayTrue, PushReplacesItsOrigin | `PublicationInv`: GenerationInv, JournalKept, BranchKept (every head of the branch landed or was the author's), CiKept, Honest (what the publish command of a run knows at its step) and InFlight (a push under way, or one whose command died, still matches a reviewed packet). PushReplacesItsOrigin is an action property: neither journal nor sync moves while a push is under way |
| CiRepairProofs | RepairsAreSafe, OneRepairLands | `RepairInv`: NotAuthorized and Authorized say which journals stand beside a continuation before and after the repair is authorized, JournalKept that one of the two holds at any time, Reached what the owner's command knows before each of its next steps, PushKept that every push under way, also of a dead command, goes from the semantic head to the one repair. A recovery after a crash meets what the dead command's push may still do, so no weaker invariant survives the push that arrives late |
| MaintainerProofs | TypeCorrect, NewestOwner, Fencing, RunsNeverReturn, FreshnessRespected, LeaseRefinement | of RunLease, `IInv`: MutexInv (only the holder of the mutex is past waiting), StageInv (what the holder has read or written of the directory is still so), OwnerInv, GrantInv. A step that writes the owner record must know that the directory is empty and its own, which is StageInv, which holds because of MutexInv. LeaseRefinement maps owner to the owner record and used to the runs ever granted, step by step |
| MaintainerProofs | ValidationHolds, MigrationLosesNothing, BudgetsAreHonest, BudgetsOnlyGrow, RefsStand | `ValidationInv` (a live process is of the present place in the plan, and only the command in hand has had a changed checkout before it, which is then still changed), `MigrationInv` (how far a migration is, written as what each file holds), `BudgetInv` (BudgetIsHonest and NothingEarly: a phase that has not begun has charged nothing; the arithmetic holds for caps of any size), `RefsInv` (RefsRight and MadeForOwn: which replay commit a transaction may have made and verified) |
| MaintainerProofs | OffersHold, AreasAreConsistent, DiscoveryHolds | `InspectionInv` (no outcome comment is ever of a ready pull request, so a ready label holds the head reviewed last; beyond that the properties follow from how a pull request is judged); `ScopeInv` (a report taken is a valid one: that no two areas claim one place, that a market has one root and that a coordinated group has enough owners follows from its checks alone); `DiscoveryInv` (what is settled was established by the authority, what is established is in the accepted report, and the report of a final stage is valid against the catalog's graph. It rests on lemmas about the graph: the closure of several focus destinations is the union of theirs, and every link joins two entities that are there) |
| MaintainerProofs | LogKeepsLifecycle, OffersAlwaysLeadOn | `LogInv`: ProjectionKept (each stage of the projected state has what its next action needs, and what is under way was accepted) and ScanKept (a pass over the events remembers a closed document). What the events project to is a recursion; its lemmas (PassesExist, PassesAgree, AppendsOne) take the least position at which something would be wrong instead of an induction, and AppendsOne says that an append changes the state as one event does |
| ApplicationProofs | SnapshotsAreSafe | `SnapshotInv`: InOrder (the store is in the order of last use, holds each fingerprint once, and what it holds ends one lifetime after it was stored), Reports (what is stored has not been reported since and has no tombstone; what has an unrecorded tombstone was not reported), AskKept (what each stage of a request has found). The three limits hold together after a hit because what is touched has the size it had (WithoutOne, TouchedIs) |
| ApplicationProofs | RefinementIsSafe, SessionIsSafe, ViewShowsStored, TripsAreSafe, CatalogIsSafe, ForecastsAreSafe, CompletionsAreTrue | `RefinementInv` (a future in the pool is of a request that holds a slot, so the count of slots bounds the pool; a reading is never ahead of the clock, and a bucket, filled up from its time on, holds no more than its client is due, which admission by an old reading keeps because the wait is due as well), `SessionInv` (what each answer under way was asked for), `ViewInv` (whose identity retires which load, and that a write is alone), `TripInv` (a call has read a past of the history that only grows above it; the job is ahead of all that is shown), `CatalogInv` (an altered table is locked until the commit, so no page past its second statement sees another catalog), `ForecastInv` (what is complete or was sampled is never thinned before its age, and a refresh under way owns its run), `ArchiveInv` (a completion that nothing has held up has completed every area it is not to visit any more, and of the area in hand every chunk it is done with: Completes; nobody else writes the archive between the second look and the report, so that what was counted stays so: LooksTrue) |
| RankingProofs | SharesFairly, RankingIsSafe | `RankInv`: a question on the page was asked for the intent the page has (its previews are what `Variant` ranks for it), and each answer it offers leaves an intent the service accepts and readmits nobody (Asked). Then a preview is true because nothing but candidates the first search admitted can pass the answer's constraints (NoneReadmitted), so ranking the stored ones is the search of the whole catalogue (VariantIsSearch). SharesFair does not depend on the history: it is SharesFairly, for the budgets any legal intent leaves (BudgetsSound) |

SharesFairly is about the rounds of `capped_normalize` (`search_ranking.py:89`), for any number of groups:
in each round some group stays under its cap (SomeStay, because the caps leave room: EnoughLeft), so the
rounds end with a share for everybody, and capping a group can only raise the rate of the others
(RateGrows), so no group that was capped would now be under its cap. The last two guards of the function
(a negative remainder, a sum that is not 1) are therefore never what ends it, in exact arithmetic. The
proof starts from Euclid's algorithm, since the fractions of the model are equal when their lowest terms
are; sums over sets and the rounds are functions of the subsets of a finite set that descend to a smaller
one (Descends), and the argument takes a smallest subset for which the claim fails.

The lemmas say what the operators of the models do, once: in CatalogSync, that a statement returns every
row of its table when the active rows are a valid catalog (ReturnedIsTable) and the last one all links
(LinkedIsTable); in RefinementService, how pool and slots count; in RefinementSnapshots, what keeping a
part of a sequence leaves of its order and its sums (OnlyKeeps, SumOfOnly, from the shortest sequence for
which it would be wrong); in CiBudget, what a credited interval is
at most.

What proving has changed in the models: the references of a catalog are typed, and `PassesValid` rejects a
default pass of a destination that does not exist, as the code does (`catalog.py:640`); until the proof
that every link is read back needed it, the model let such a catalog through. OneRootPerMarket
was too strong: an area that is deferred may be compared with a market and is no root of it; the run
`outcomes` holds such an area since. A focus must be a stay destination that is there
(`catalog_curation.py:3470`), which the model had left out. What a destination reaches and which changes
must be named are now stated without recursion. GenerationLog assumes that another commit can be made,
since a repeated generation needs a head of its own. TerminalRecoverable turned
out not to be inductive with three runs, for the reason `terminal_successors` now shows. The assumption of CiRepair
names its pull request as a work item of the curation worker: its records are stored under that worker.

Only model-checked: `CommandEnds` and `RepairSettles`, liveness under fairness, which is out of the
prover's reach. Every other property of a run that passes is a theorem.

## 6. Not modelled

* **Field-level checks of a report and of a proposal** (trust states, prices, references, coordinates,
  the field scope in `validation.py` 872-985 and 1130-1356): pure functions of many fields, one verdict
  each; the modules take the verdict as a choice. The rules that relate several entities or several
  reports are modelled.
* **Of search and ranking**: how weather, skill and access are evaluated (their results are given),
  correlation caps (the shipped ones only inform), the generation of candidates and the coverage of their
  passes, the choice among sources of terrain and price, the apres factors, rounding, and wording.
* **Inventory-completion checkpoint, managed body, boundary adjudication list, the reviewed and
  remediation continuations of the older format**: variants of modelled operations whose own state no
  other command reads, or wording.
* **Language model client** (a bounded sequential retry around one call), **CLI** (parsing), **mobile
  app** and presentation, one-off imports and the data-quality audit (reports).

## 7. Plan

1. The field scope of a proposal, and the inventory-completion checkpoint.
