---------------------------- MODULE WeatherArchive ----------------------------
(***************************************************************************)
(* The historical weather archive and the climatology derived from it.     *)
(* One archive writer runs at a time (the workflows share a concurrency    *)
(* group): the completion controller, an operator's backfill, or the recent *)
(* reconciliation, which is a backfill that refetches.  The climatology     *)
(* rebuild command is in another group and runs beside them.  A provider    *)
(* request fetches one year of one elevation band, and whatever days of it  *)
(* the answer lists are stored in one transaction: the archive is the set   *)
(* of days stored per band.  A leap day is a day like any other.            *)
(***************************************************************************)
EXTENDS Integers, FiniteSets

CONSTANTS SkiAreas, Bands,
          Days,             \* the calendar days of a year
          LastYear,         \* the archive window is 1..LastYear
          RecentFrom,       \* first year of the recent baseline period
          RetryAttempts, MaxProviderRequests,
          MaxJobs           \* bound: archive jobs started

ASSUME ArchiveAssumption ==
    /\ SkiAreas # {} /\ Bands # {} /\ Days # {} /\ LastYear \in Nat \ {0}
    /\ RecentFrom \in 1..LastYear
    /\ RetryAttempts \in Nat /\ MaxProviderRequests \in Nat \ {0}

Years == 1..LastYear
Periods == {Years, RecentFrom..LastYear}
Window == Years \X Days

VARIABLES archive,      \* ski area -> band -> the days stored
          climate,      \* ski area -> its daily climatology, or NoClimate
          archiveJob,   \* the archive writer
          rebuild,      \* the climatology rebuild command
          jobs          \* archive jobs started

archiveVars == <<archive, climate, archiveJob, rebuild, jobs>>

NoClimate == [end |-> 0, evidence |-> [b \in Bands |-> {}]]
\* remaining, rebuilt: what the controller counts in its report; short, beside:
\* history, a year is not whole after its answer, and the climatology replaced by
\* the rebuild command since the controller looked
NoArchiveJob == [kind |-> "none", at |-> "idle", areas |-> {}, todo |-> {}, years |-> {},
                 force |-> FALSE, wipe |-> FALSE, tries |-> 0, used |-> 0,
                 limited |-> FALSE, abort |-> FALSE, hard |-> FALSE, paused |-> FALSE,
                 short |-> FALSE, stale |-> {}, remaining |-> {}, rebuilt |-> {},
                 beside |-> {}]
NoRebuild == [area |-> "none", seen |-> NoClimate]

ArchiveInit ==
    /\ archive = [a \in SkiAreas |-> [b \in Bands |-> {}]]
    /\ climate = [a \in SkiAreas |-> NoClimate]
    /\ archiveJob = NoArchiveJob /\ rebuild = NoRebuild /\ jobs = 0

\* _archive_complete_ski_area_ids: every day of the window in every band.
ArchiveComplete(a) == \A b \in Bands : archive[a][b] = Window

\* Starting backfill_historical_weather for the areas and years.
Backfill(kind, areas, years, force, wipe) ==
    [NoArchiveJob EXCEPT !.kind = kind, !.at = "fetch", !.areas = areas, !.years = years,
                  !.force = force, !.wipe = wipe]

StartBackfill(areas, years, force, wipe) ==
    /\ archiveJob.at = "idle" /\ jobs < MaxJobs /\ jobs' = jobs + 1
    /\ archiveJob' = Backfill("backfill", areas, years, force, wipe)
    /\ UNCHANGED <<archive, climate, rebuild>>

\* complete_historical_weather: survey the archive, backfill what is pending.
StartCompletion ==
    /\ archiveJob.at = "idle" /\ jobs < MaxJobs /\ jobs' = jobs + 1
    /\ archiveJob' = Backfill("completion", {a \in SkiAreas : ~ArchiveComplete(a)},
                       Years, FALSE, FALSE)
    /\ UNCHANGED <<archive, climate, rebuild>>

Area(areas) == CHOOSE a \in areas : TRUE
Current == Area(archiveJob.areas)
Chunk == CHOOSE c \in archiveJob.todo : TRUE

\* The next area begins; --rebuild deletes its archive rows of the window.
EnterArea ==
    /\ archiveJob.at = "fetch" /\ archiveJob.areas # {}
    /\ archiveJob' = [archiveJob EXCEPT !.at = "chunks", !.todo = archiveJob.years \X Bands]
    /\ archive' = IF archiveJob.wipe
                  THEN [archive EXCEPT ![Current] =
                           [b \in Bands |-> {d \in @[b] : d[1] \notin archiveJob.years}]]
                  ELSE archive
    /\ UNCHANGED <<climate, rebuild, jobs>>

LeaveArea ==
    /\ archiveJob.at = "chunks" /\ archiveJob.todo = {}
    /\ archiveJob' = [archiveJob EXCEPT !.at = "fetch", !.areas = @ \ {Current}]
    /\ UNCHANGED <<archive, climate, rebuild, jobs>>

\* has_complete_archive_coverage
Year(y) == {y} \X Days
Archived(a, c) == Year(c[1]) \subseteq archive[a][c[2]]
Skippable(c) == ~archiveJob.force /\ ~archiveJob.wipe /\ Archived(Current, c)

NextChunk == [archiveJob EXCEPT !.todo = @ \ {Chunk}, !.tries = 0, !.limited = FALSE]

SkipChunk ==
    /\ archiveJob.at = "chunks" /\ archiveJob.todo # {} /\ archiveJob.tries = 0 /\ Skippable(Chunk)
    /\ archiveJob' = NextChunk
    /\ UNCHANGED <<archive, climate, rebuild, jobs>>

\* Only the completion controller has a request budget.
Exhausted(j) == j.kind = "completion" /\ j.used >= MaxProviderRequests
Trying == /\ archiveJob.at = "chunks" /\ archiveJob.todo # {}
          /\ archiveJob.tries > 0 \/ ~Skippable(Chunk)

\* The days that the answer lists are stored before anything else happens; an
\* answer without some of them, or without any, is a success all the same.
FetchYear ==
    /\ Trying /\ ~Exhausted(archiveJob)
    /\ \E got \in SUBSET Year(Chunk[1]) :
          archive' = [archive EXCEPT ![Current][Chunk[2]] = @ \cup got]
    /\ archiveJob' = [NextChunk EXCEPT
                         !.used = IF archiveJob.kind = "completion" THEN @ + 1 ELSE 0,
                         !.short = @ \/ ~(Year(Chunk[1]) \subseteq archive'[Current][Chunk[2]])]
    /\ UNCHANGED <<climate, rebuild, jobs>>

\* Mutant: a chunk that failed for good is left out.
FailedQuietly(j) ==
    IF j.limited THEN [j EXCEPT !.at = "gate", !.abort = TRUE, !.areas = {}, !.todo = {},
                                !.tries = 0, !.limited = FALSE]
    ELSE [j EXCEPT !.todo = @ \ {Chunk}, !.tries = 0]

\* A chunk that failed for good is recorded; a rate limit ends the whole run.
Failed(j) ==
    IF j.limited THEN [j EXCEPT !.at = "gate", !.abort = TRUE, !.areas = {}, !.todo = {},
                                !.tries = 0, !.limited = FALSE]
    ELSE [j EXCEPT !.hard = TRUE, !.todo = @ \ {Chunk}, !.tries = 0]

\* A refused or failed request: retry after a delay, or give the chunk up.
FetchError(limited) ==
    /\ Trying /\ ~Exhausted(archiveJob)
    /\ LET j == [archiveJob EXCEPT !.tries = @ + 1, !.limited = @ \/ limited,
                            !.used = IF archiveJob.kind = "completion" THEN @ + 1 ELSE 0]
       IN  archiveJob' = IF j.tries <= RetryAttempts THEN j ELSE Failed(j)
    /\ UNCHANGED <<archive, climate, rebuild, jobs>>

\* The budget is spent: with an error pending the chunk fails, else the
\* backfill returns and the remaining chunks wait for the next run.
OutOfBudget ==
    /\ Trying /\ Exhausted(archiveJob)
    /\ LET j == [archiveJob EXCEPT !.paused = TRUE]
       IN  archiveJob' = IF j.tries > 0 THEN Failed(j)
                         ELSE [j EXCEPT !.at = "gate", !.areas = {}, !.todo = {}]
    /\ UNCHANGED <<archive, climate, rebuild, jobs>>

\* build_snow_climatology_rows: per band and period one row for each calendar
\* day any stored year of the period covers.
Rows(a, end) == [end |-> end,
                 evidence |-> [b \in Bands |-> {d \in archive[a][b] : d[1] <= end}]]

HasAllRows(c) == \A b \in Bands, p \in Periods, d \in Days :
                    \E y \in p : <<y, d>> \in c.evidence[b]

\* _climatology_group_is_current for every band and period: 366 rows, the
\* latest year of the evidence of any of them, and the baseline year.
IsCurrent(c) ==
    /\ HasAllRows(c) /\ c.end = LastYear
    /\ \A b \in Bands : \E d \in Days : <<LastYear, d>> \in c.evidence[b]

\* After the backfill: coverage is read again, the areas not complete are counted,
\* and of the others those with stale climatology are selected.
Gate ==
    /\ archiveJob.at = "gate" \/ (archiveJob.at = "fetch" /\ archiveJob.areas = {})
    /\ LET left == {a \in SkiAreas : ~ArchiveComplete(a)}
       IN  archiveJob' =
              IF archiveJob.kind = "completion"
              THEN [archiveJob EXCEPT !.at = "climate", !.remaining = left, !.rebuilt = {},
                               !.beside = {},
                               !.stale = {a \in SkiAreas \ left : ~IsCurrent(climate[a])}]
              ELSE NoArchiveJob
    /\ UNCHANGED <<archive, climate, rebuild, jobs>>

\* rebuild_snow_climatology of one stale area; a row count other than the
\* expected one raises and nothing is replaced.
Climate ==
    /\ archiveJob.at = "climate" /\ archiveJob.stale # {}
    /\ LET a == Area(archiveJob.stale)
           rows == Rows(a, LastYear)
       IN  IF HasAllRows(rows)
           THEN /\ climate' = [climate EXCEPT ![a] = rows]
                /\ archiveJob' = [archiveJob EXCEPT !.stale = @ \ {a}, !.rebuilt = @ \cup {a},
                                                    !.beside = @ \ {a}]
           ELSE archiveJob' = NoArchiveJob /\ UNCHANGED climate
    /\ UNCHANGED <<archive, rebuild, jobs>>

\* by the count of the coverage read before the rebuild
Outcome(j) == IF j.hard THEN "hard_failure" ELSE IF j.abort THEN "throttled"
              ELSE IF j.remaining # {} THEN "work_remaining" ELSE "complete"

Report ==
    /\ archiveJob.at = "climate" /\ archiveJob.stale = {}
    /\ archiveJob' = NoArchiveJob /\ UNCHANGED <<archive, climate, rebuild, jobs>>

\* A workflow is cancelled or times out between two steps.
KillJob ==
    /\ archiveJob.at # "idle" /\ archiveJob' = NoArchiveJob
    /\ UNCHANGED <<archive, climate, rebuild, jobs>>

\* The rebuild command: it reads one area's observations, then replaces its
\* climatology in a later transaction, whatever the row count.  Without a
\* baseline year it takes the latest archive year it read.
LatestYear(a) ==
    LET covered == {y \in Years : \E b \in Bands : archive[a][b] \cap Year(y) # {}}
    IN  IF covered = {} THEN 0 ELSE CHOOSE y \in covered : \A z \in covered : z <= y

ReadObservations(a, end) ==
    /\ rebuild.area = "none"
    /\ rebuild' = [area |-> a, seen |-> Rows(a, end)]
    /\ UNCHANGED <<archive, climate, archiveJob, jobs>>

ReplaceRows ==
    /\ rebuild.area # "none"
    /\ climate' = [climate EXCEPT ![rebuild.area] = rebuild.seen]
    /\ rebuild' = NoRebuild
    /\ archiveJob' = IF archiveJob.at = "climate"
                     THEN [archiveJob EXCEPT !.beside = @ \cup {rebuild.area}] ELSE archiveJob
    /\ UNCHANGED <<archive, jobs>>

ArchiveNext ==
    \/ \E areas \in SUBSET SkiAreas \ {{}}, years \in SUBSET Years \ {{}},
          force, wipe \in BOOLEAN : StartBackfill(areas, years, force, wipe)
    \/ StartCompletion \/ EnterArea \/ LeaveArea \/ SkipChunk \/ FetchYear
    \/ \E limited \in BOOLEAN : FetchError(limited)
    \/ OutOfBudget \/ Gate \/ Climate \/ Report \/ KillJob \/ ReplaceRows
    \/ \E a \in SkiAreas : \E end \in {LastYear, LatestYear(a)} : ReadObservations(a, end)

-----------------------------------------------------------------------------

Reporting == archiveJob.at = "climate" /\ archiveJob.stale = {}

\* what keeps a run from completing everything: a chunk that failed for good, a
\* rate limit, the budget of requests, or a year that is not whole after its answer
Held(j) == j.hard \/ j.abort \/ j.paused \/ j.short

\* The controller reports by what it read before it rebuilt climatology
\* (complete_historical_weather.py:171-213).  Until it has reported, the areas it
\* counted as remaining are those whose archive is incomplete, whatever jobs were
\* killed half way before it.  When it reports, work remains only if the run was held
\* up: no chunk is passed over in silence.  And every other area has current
\* climatology, as the report counts, resting on the whole archive where this run
\* rebuilt it, unless the rebuild command, which runs beside it, replaced it since.
CompletionIsTrue ==
    /\ archiveJob.at = "climate" =>
          archiveJob.remaining = {a \in SkiAreas : ~ArchiveComplete(a)}
    /\ Reporting =>
          /\ Outcome(archiveJob) # "complete" => Held(archiveJob)
          /\ \A a \in SkiAreas \ (archiveJob.remaining \cup archiveJob.beside) :
                /\ IsCurrent(climate[a])
                /\ a \in archiveJob.rebuilt => \A b \in Bands : climate[a].evidence[b] = Window

\* "Complete current climatology is skipped; missing or stale climatology is
\* rebuilt once per eligible ski area": what the controller skips as current rests
\* on the whole archive.  The code compares row counts and latest years only, so
\* rows a rebuild command computed from a partial archive pass as current for good.
StaleIsRebuilt ==
    \A a \in SkiAreas : ArchiveComplete(a) /\ IsCurrent(climate[a]) =>
        climate[a].evidence = archive[a]

ArchiveSpec == ArchiveInit /\ [][ArchiveNext]_archiveVars
=============================================================================
