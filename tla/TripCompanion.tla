---------------------------- MODULE TripCompanion ----------------------------
(***************************************************************************)
(* The saved trip of one user and what the companion tells about it        *)
(* (app/api/routes.py, app/domain/trip_companion.py, app/data/             *)
(* repositories.py), with the job that refreshes the conditions of ski     *)
(* areas (app/data/refresh_conditions.py).                                 *)
(*                                                                         *)
(* Each repository call is a transaction of its own, so requests and the   *)
(* job interleave between any two of them.  A timestamp is the clock; the  *)
(* job stamps everything with the time it started at.                      *)
(***************************************************************************)
EXTENDS Naturals

CONSTANTS TripRequests, \* requests the server handles at a time
          TripAreas,        \* ski areas
          Values,       \* conditions that the comparison tells apart
          FreshFor,     \* FRESHNESS_WINDOW
          LastTime      \* bound on the clock

ASSUME TripAssumption == FreshFor \in Nat /\ LastTime \in Nat

NothingSaved == [area |-> "none"]
NoConditions == [at |-> 0, value |-> "none"]

VARIABLES tripTime,
          trip,       \* the row of user_current_trip
          conditions, \* the row of resort_conditions of each area
          history,    \* resort_condition_history of each area
          companionEvents, \* companion_events of the user, without duplicates
          call,       \* what each request is doing
          job,        \* the refresh job
          lost        \* areas whose refresh died or failed between its writes

tripVars == <<tripTime, trip, conditions, history, companionEvents, call, job, lost>>

NoCall == [step |-> "idle"]
NoJob == [step |-> "idle"]

TripInit == /\ tripTime = 1 /\ trip = NothingSaved
            /\ conditions = [a \in TripAreas |-> NoConditions]
            /\ history = [a \in TripAreas |-> {}]
            /\ companionEvents = {} /\ lost = {}
            /\ call = [q \in TripRequests |-> NoCall]
            /\ job = NoJob

----------------------------------------------------------------------------
(* What is compared. *)

\* _comparison_basis
Baseline(t) == IF t.checked # 0 THEN t.checked ELSE t.created

\* Mutant: a snapshot of the very time of the baseline is not used.
PriorStrict(h, t) == {s \in h : /\ s.at < Baseline(t)
                                /\ \A o \in h : o.at < Baseline(t) => o.at <= s.at}

\* _latest_snapshot_before
Prior(h, t) == {s \in h : /\ s.at <= Baseline(t)
                          /\ \A o \in h : o.at <= Baseline(t) => o.at <= s.at}

\* is_condition_fresh
Fresh(c) == c.at # 0 /\ tripTime - c.at <= FreshFor

\* build_current_trip_summary and _delta_from_conditions: a change, or staleness,
\* against the latest earlier snapshot
Changes(t, c, h) ==
    {s \in Prior(h, t) : /\ c.at > Baseline(t)
                         /\ s.value # c.value \/ ~ Fresh(c)}

----------------------------------------------------------------------------
(* Requests. *)

Proceed(q, c) == call' = [call EXCEPT ![q] = c]

\* upsert_current_trip reads the stored trip and builds the new one on it
SaveRead(q) ==
    /\ call[q] = NoCall
    /\ \E a \in TripAreas, dated \in BOOLEAN :
         Proceed(q, [step |-> "save",
                     new |-> [area |-> a, eligible |-> dated,
                              created |-> IF trip = NothingSaved THEN tripTime ELSE trip.created,
                              checked |-> IF trip = NothingSaved THEN 0 ELSE trip.checked]])
    /\ UNCHANGED <<tripTime, trip, conditions, history, companionEvents, job, lost>>

\* the row keeps its own created_at
SaveWrite(q) ==
    /\ call[q].step = "save"
    /\ trip' = IF trip = NothingSaved THEN call[q].new
               ELSE [call[q].new EXCEPT !.created = trip.created]
    /\ Proceed(q, NoCall)
    /\ UNCHANGED <<tripTime, conditions, history, companionEvents, job, lost>>

\* clear_current_trip
DeleteTrip(q) ==
    /\ call[q] = NoCall
    /\ trip' = NothingSaved
    /\ UNCHANGED <<tripTime, conditions, history, companionEvents, call, job, lost>>

\* mark_checked: nothing happens to a trip that is not there
MarkChecked(q) ==
    /\ call[q] = NoCall
    /\ trip # NothingSaved
    /\ trip' = [trip EXCEPT !.checked = tripTime]
    /\ UNCHANGED <<tripTime, conditions, history, companionEvents, call, job, lost>>

SummaryTrip(q) ==
    /\ call[q] = NoCall
    /\ trip # NothingSaved
    /\ Proceed(q, [step |-> "conditions", trip |-> trip])
    /\ UNCHANGED <<tripTime, trip, conditions, history, companionEvents, job, lost>>

SummaryConditions(q) ==
    /\ call[q].step = "conditions"
    /\ Proceed(q, [step |-> "history", trip |-> call[q].trip,
                   shown |-> conditions[call[q].trip.area]])
    /\ UNCHANGED <<tripTime, trip, conditions, history, companionEvents, job, lost>>

\* the history, the delta and, when it is a change of an eligible trip,
\* maybe_record_companion_event: one of equal signature is not repeated
SummaryHistory(q) ==
    LET t == call[q].trip
        c == call[q].shown
        found == Changes(t, c, history[t.area])
    IN  /\ call[q].step = "history"
        /\ Proceed(q, IF t.eligible /\ found # {}
                      THEN [step |-> "event",
                            new |-> [area |-> t.area, baseline |-> Baseline(t),
                                     at |-> c.at, is |-> c.value, stale |-> ~ Fresh(c),
                                     was |-> (CHOOSE s \in found : TRUE).value]]
                      ELSE NoCall)
        /\ UNCHANGED <<tripTime, trip, conditions, history, companionEvents, job, lost>>

RecordEvent(q) ==
    /\ call[q].step = "event"
    /\ companionEvents' = companionEvents \cup {call[q].new}
    /\ Proceed(q, NoCall)
    /\ UNCHANGED <<tripTime, trip, conditions, history, job, lost>>

----------------------------------------------------------------------------
(* refresh_conditions: each area in turn, with the time the job started at. *)

JobStarts ==
    /\ job = NoJob
    /\ job' = [step |-> "area", at |-> tripTime, left |-> TripAreas]
    /\ UNCHANGED <<tripTime, trip, conditions, history, companionEvents, call, lost>>

\* an area that is fresh is skipped, as freshness was when the job started; a
\* fetch that fails changes nothing
JobSkips(a) ==
    /\ job.step = "area" /\ a \in job.left
    /\ job' = [job EXCEPT !.left = @ \ {a}]
    /\ UNCHANGED <<tripTime, trip, conditions, history, companionEvents, call, lost>>

\* Mutant: the snapshot is forgotten when the conditions have not changed.
JobShowsUnlessSame(a) ==
    /\ job.step = "area" /\ a \in job.left
    /\ conditions[a].at = 0 \/ job.at - conditions[a].at > FreshFor
    /\ \E v \in Values :
         /\ conditions' = [conditions EXCEPT ![a] = [at |-> job.at, value |-> v]]
         /\ job' = IF v = conditions[a].value THEN [job EXCEPT !.left = @ \ {a}]
                   ELSE [step |-> "snapshot", at |-> job.at, left |-> job.left \ {a}, area |-> a]
    /\ UNCHANGED <<tripTime, trip, history, companionEvents, call, lost>>

\* upsert_conditions
JobShows(a) ==
    /\ job.step = "area" /\ a \in job.left
    /\ conditions[a].at = 0 \/ job.at - conditions[a].at > FreshFor
    /\ \E v \in Values :
         conditions' = [conditions EXCEPT ![a] = [at |-> job.at, value |-> v]]
    /\ job' = [step |-> "snapshot", at |-> job.at, left |-> job.left \ {a}, area |-> a]
    /\ UNCHANGED <<tripTime, trip, history, companionEvents, call, lost>>

\* the next attempt fetches again, and shows what it gets at the same time
JobRetries ==
    /\ job.step = "snapshot"
    /\ \E v \in Values :
         conditions' = [conditions EXCEPT ![job.area] = [at |-> job.at, value |-> v]]
    /\ UNCHANGED <<tripTime, trip, history, companionEvents, call, job, lost>>

\* append_snapshot
JobAppends ==
    /\ job.step = "snapshot"
    /\ history' = [history EXCEPT ![job.area] =
                     IF \E s \in @ : s.at = job.at THEN @
                     ELSE @ \cup {conditions[job.area]}]
    /\ job' = [step |-> "area", at |-> job.at, left |-> job.left]
    /\ UNCHANGED <<tripTime, trip, conditions, companionEvents, call, lost>>

\* every attempt has failed, or the process died
JobGivesUp ==
    /\ job.step = "snapshot"
    /\ lost' = lost \cup {[area |-> job.area, at |-> job.at]}
    /\ job' = [step |-> "area", at |-> job.at, left |-> job.left]
    /\ UNCHANGED <<tripTime, trip, conditions, history, companionEvents, call>>

JobEnds ==
    /\ job.step = "area"
    /\ job' = NoJob
    /\ UNCHANGED <<tripTime, trip, conditions, history, companionEvents, call, lost>>

TimePasses ==
    /\ tripTime < LastTime
    /\ tripTime' = tripTime + 1
    /\ UNCHANGED <<trip, conditions, history, companionEvents, call, job, lost>>

TripNext ==
    \/ \E q \in TripRequests :
          \/ SaveRead(q) \/ SaveWrite(q) \/ DeleteTrip(q) \/ MarkChecked(q)
          \/ SummaryTrip(q) \/ SummaryConditions(q) \/ SummaryHistory(q) \/ RecordEvent(q)
    \/ \E a \in TripAreas : JobSkips(a) \/ JobShows(a)
    \/ JobStarts \/ JobRetries \/ JobAppends \/ JobGivesUp \/ JobEnds
    \/ TimePasses

TripSpec == TripInit /\ [][TripNext]_tripVars

----------------------------------------------------------------------------
(* What an event compares with stays what was known at its baseline: the    *)
(* snapshots up to the baseline were all written when the event was made,   *)
(* though the trip, the conditions and the history are read one after the   *)
(* other while the job writes (trip_companion.py:302-358).                  *)
EventsStayTrue ==
    \A e \in companionEvents :
        LET before == {s \in history[e.area] : s.at <= e.baseline}
        IN  \E s \in before : /\ s.value = e.was
                              /\ \A o \in before : o.at <= s.at

(* What is shown of an area is in its history, so that a later comparison   *)
(* finds what the user saw, unless the job is between its two writes or     *)
(* failed there (refresh_conditions.py:123-143).                            *)
ShownIsKept ==
    \A a \in TripAreas :
        LET c == conditions[a]
        IN  \/ c.at = 0
            \/ c \in history[a]
            \/ job.step = "snapshot" /\ job.area = a /\ job.at = c.at
            \/ [area |-> a, at |-> c.at] \in lost

(* What the companion tells of the past stays so (trip_companion.py,        *)
(* refresh_conditions.py).                                                  *)
TripSafe == EventsStayTrue /\ ShownIsKept

(* docs/engineering-notes.md:275: "baseline advances only through an        *)
(* explicit `Mark checked` action".  A check of the trip is not undone      *)
(* while the trip is kept (routes.py:456-478).                              *)
ChecksAreKept ==
    [][trip # NothingSaved /\ trip' # NothingSaved => trip'.checked >= trip.checked]_tripVars
=============================================================================
