--------------------------- MODULE WeatherForecasts ---------------------------
(***************************************************************************)
(* The versioned forecast store of one acquisition source: runs are built  *)
(* by refresh_weather_forecasts, published to per-ski-area heads in one     *)
(* transaction, read by search through the heads, and thinned by the        *)
(* retention job.  Time is counted in model cycles: cycle c is issued at    *)
(* time c, CyclesPerDay of them make a day and DaysPerWeek days a week.     *)
(* The rows of a run are abstracted to the set of ski areas they cover.     *)
(***************************************************************************)
EXTENDS Integers, FiniteSets

CONSTANTS Areas,                        \* the active ski areas
          Refreshers,                   \* concurrent refresh commands
          BatchSize,                    \* areas per provider request
          CyclesPerDay, DaysPerWeek,
          RecentAge, DailyAge, WeeklyAge, TerminalAge,  \* retention ages
          LastCycle, MaxRuns            \* bounds: cycles issued, runs created

ASSUME ForecastAssumption ==
    /\ IsFiniteSet(Areas) /\ Areas # {}
    /\ {BatchSize, CyclesPerDay, DaysPerWeek, MaxRuns} \subseteq Nat \ {0}
    /\ {RecentAge, DailyAge, WeeklyAge, TerminalAge, LastCycle} \subseteq Nat
    /\ RecentAge < DailyAge /\ DailyAge < WeeklyAge

VARIABLES cycleNow,     \* the cycle the provider's metadata endpoint shows
          runs,         \* run id -> [cycle, status, areas, done]
          heads,        \* ski area -> the run search reads, 0 for none
          refresh,      \* command -> its local state
          everDone      \* ghost: the cycles for which a run was ever completed

forecastVars == <<cycleNow, runs, heads, refresh, everDone>>

RunIds == DOMAIN runs
Stopped == [at |-> "stopped", run |-> 0, cycle |-> 0, todo |-> {}, good |-> {}]

ForecastInit ==
    /\ cycleNow = 0
    /\ runs = [i \in {} |-> 0] /\ heads = [a \in Areas |-> 0]
    /\ refresh = [p \in Refreshers |-> Stopped] /\ everDone = {}

\* The provider issues its next cycle.
Issue ==
    /\ cycleNow < LastCycle
    /\ cycleNow' = cycleNow + 1
    /\ UNCHANGED <<runs, heads, refresh, everDone>>

Complete(i) == runs[i].status = "complete"

\* find_complete_run_id: one complete run of the cycle with rows for every area.
Covered(cycle, areas) ==
    \E i \in RunIds : /\ Complete(i) /\ runs[i].cycle = cycle
                      /\ areas \subseteq runs[i].areas

NextId == 1 + Cardinality(RunIds)
FreshId == CHOOSE i \in 1..NextId : i \notin RunIds

\* refresh_forecast_source up to create_building_run, for the requested areas.
BeginRefresh(p, areas) ==
    /\ refresh[p].at = "stopped" /\ ~Covered(cycleNow, areas)
    /\ Cardinality(RunIds) < MaxRuns
    /\ runs' = [i \in RunIds \cup {FreshId} |->
                  IF i = FreshId THEN [cycle |-> cycleNow, status |-> "building",
                                       areas |-> {}, done |-> 0]
                  ELSE runs[i]]
    /\ refresh' = [refresh EXCEPT ![p] =
                     [at |-> "fetch", run |-> FreshId, cycle |-> cycleNow,
                      todo |-> areas, good |-> {}]]
    /\ UNCHANGED <<cycleNow, heads, everDone>>

\* insert_daily_rows refuses a run that is no longer being built.
StoreRows(p, stored) ==
    LET i == refresh[p].run
    IN  /\ runs[i].status = "building"
        /\ runs' = [runs EXCEPT ![i].areas = @ \cup stored]

\* The areas are requested in slices of one fixed order.
NextBatch(todo) ==
    IF Cardinality(todo) <= BatchSize THEN todo
    ELSE CHOOSE batch \in SUBSET todo : Cardinality(batch) = BatchSize

\* One fetch_hourly batch: the whole batch fails, or each area's payload is
\* normalised and stored, or skipped as unusable.
FetchBatch(p, stored) ==
    /\ refresh[p].at = "fetch" /\ refresh[p].todo # {}
    /\ StoreRows(p, stored)
    /\ refresh' = [refresh EXCEPT ![p].todo = @ \ NextBatch(@),
                                  ![p].good = @ \cup stored]
    /\ UNCHANGED <<cycleNow, heads, everDone>>

\* reject_or_fail_run
EndRun(i, status) ==
    /\ runs[i].status = "building"
    /\ runs' = [runs EXCEPT ![i].status = status, ![i].done = cycleNow]

\* The second metadata read: a changed cycle rejects the run, a provider error
\* or a run without a single usable area fails it.
SecondLook(p) ==
    LET r == refresh[p]
    IN  /\ r.at = "fetch" /\ r.todo = {}
        /\ \/ /\ cycleNow = r.cycle /\ r.good # {}
              /\ refresh' = [refresh EXCEPT ![p].at = "publish"] /\ UNCHANGED runs
           \/ /\ \/ cycleNow # r.cycle /\ EndRun(r.run, "rejected")
                 \/ EndRun(r.run, "failed")
              /\ refresh' = [refresh EXCEPT ![p] = Stopped]
        /\ UNCHANGED <<cycleNow, heads, everDone>>

\* complete_run_and_advance_heads: one transaction over the run and its heads.
Publishable(i, areas) == runs[i].status = "building" /\ areas \subseteq runs[i].areas
\* Mutant: every requested area's head advances, stored rows or not.
AdvanceAllHeads(i, areas) == [a \in Areas |-> i]
AdvanceHeads(i, areas) == [a \in Areas |-> IF a \in areas THEN i ELSE heads[a]]

PublishRun(p) ==
    LET r == refresh[p]
    IN  /\ r.at = "publish" /\ Publishable(r.run, r.good)
        /\ runs' = [runs EXCEPT ![r.run].status = "complete"]
        /\ heads' = AdvanceHeads(r.run, r.good)
        /\ everDone' = everDone \cup {r.cycle}
        /\ refresh' = [refresh EXCEPT ![p] = Stopped]
        /\ UNCHANGED cycleNow

\* The command dies: a run it was building stays "building".
LoseRefresh(p) ==
    /\ refresh[p].at # "stopped"
    /\ refresh' = [refresh EXCEPT ![p] = Stopped]
    /\ UNCHANGED <<cycleNow, runs, heads, everDone>>

-----------------------------------------------------------------------------
(* Retention. *)

Day(c) == c \div CyclesPerDay
Week(c) == Day(c) \div DaysPerWeek
Midnight(c) == c % CyclesPerDay = 0
Age(c) == cycleNow - c

\* Mutant: the key compares initialisation times only.
BeforeByTime(c, d) == c < d
\* _canonical_run_sort_key: the 00Z cycle first, then the earliest.
Before(c, d) == \/ Midnight(c) /\ ~Midnight(d)
                \/ Midnight(c) = Midnight(d) /\ c < d

\* The runs retention groups together with run i: same day in the daily band,
\* same week in the weekly band.
Band(c) == IF Age(c) <= RecentAge THEN "recent"
           ELSE IF Age(c) <= DailyAge THEN "daily"
           ELSE IF Age(c) <= WeeklyAge THEN "weekly" ELSE "past"
GroupOf(i) ==
    LET c == runs[i].cycle
    IN  {j \in RunIds : /\ Complete(j) /\ Band(runs[j].cycle) = Band(c)
                        /\ IF Band(c) = "daily" THEN Day(runs[j].cycle) = Day(c)
                           ELSE Week(runs[j].cycle) = Week(c)}

Protected == {heads[a] : a \in Areas}

\* One run of a group is canonical; runs of one cycle are equal under the key
\* and the database's row order decides between them.
Canonical(i, choice) ==
    \A j \in GroupOf(i) \ {i} : \/ Before(runs[i].cycle, runs[j].cycle)
                                \/ runs[j].cycle = runs[i].cycle /\ choice[j] <= choice[i]

\* Mutant: the runs the heads refer to are not protected.
KeptByAge(choice) ==
    {i \in RunIds : /\ Complete(i)
                    /\ \/ Band(runs[i].cycle) = "recent"
                       \/ Band(runs[i].cycle) \in {"daily", "weekly"}
                          /\ Canonical(i, choice)}
Kept(choice) ==
    Protected \cup
    {i \in RunIds : /\ Complete(i)
                    /\ \/ Band(runs[i].cycle) = "recent"
                       \/ Band(runs[i].cycle) \in {"daily", "weekly"}
                          /\ Canonical(i, choice)}

Expired(i) == /\ runs[i].status \in {"failed", "rejected"} /\ i \notin Protected
              /\ cycleNow - runs[i].done > TerminalAge

\* apply_retention: one transaction.  Building runs are never removed.
Retain ==
    LET byId == [i \in RunIds |-> i]
        byAge == [i \in RunIds |-> 0 - i]
    IN  \E choice \in {byId, byAge} :
            LET gone == {i \in RunIds : \/ Complete(i) /\ i \notin Kept(choice)
                                        \/ Expired(i)}
            IN  /\ gone # {}
                /\ runs' = [i \in RunIds \ gone |-> runs[i]]
                /\ UNCHANGED <<cycleNow, heads, refresh, everDone>>

ForecastNext ==
    \/ Issue \/ Retain
    \/ \E p \in Refreshers :
        \/ \E areas \in SUBSET Areas \ {{}} : BeginRefresh(p, areas)
        \/ \E stored \in SUBSET NextBatch(refresh[p].todo) : FetchBatch(p, stored)
        \/ SecondLook(p) \/ PublishRun(p) \/ LoseRefresh(p)

-----------------------------------------------------------------------------

\* Search reads whole runs: whatever refreshers, crashes and retention do, every
\* head names a stored complete run that holds rows for the head's own ski area
\* (list_latest_daily_rows would otherwise silently serve nothing).
HeadsServeComplete ==
    \A a \in Areas : heads[a] # 0 =>
        heads[a] \in RunIds /\ Complete(heads[a]) /\ a \in runs[heads[a]].areas

Sampled(c, cycles) ==
    LET best == IF \E d \in cycles : Midnight(d)
                THEN {d \in cycles : Midnight(d)} ELSE cycles
        first == CHOOSE d \in best : \A e \in best : d <= e
    IN  \E i \in RunIds : Complete(i) /\ runs[i].cycle = first

\* Thinning step by step, however often and whenever the job runs, keeps the
\* sample the policy names: for a day wholly inside two years the 00Z run, or
\* the earliest there was; likewise for a week wholly inside five years.
SamplesSurvive ==
    \A c \in everDone :
        /\ Age(Day(c) * CyclesPerDay) <= DailyAge =>
             Sampled(c, {d \in everDone : Day(d) = Day(c)})
        /\ Age(Week(c) * DaysPerWeek * CyclesPerDay) <= WeeklyAge =>
             Sampled(c, {d \in everDone : Week(d) = Week(c)})

\* What the forecast store promises search and the later calibration.
ForecastSafe == HeadsServeComplete /\ SamplesSurvive

ForecastSpec == ForecastInit /\ [][ForecastNext]_forecastVars
=============================================================================
