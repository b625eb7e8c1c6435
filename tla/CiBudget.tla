------------------------------ MODULE CiBudget ------------------------------
(***************************************************************************)
(* The time budgets of one CI continuation (ops/maintainer/state.py): the  *)
(* first wait, the active repair and the second wait, in whole seconds.    *)
(*                                                                         *)
(* A wait is charged by the wall clock since its start.  A repair is       *)
(* charged per heartbeat, for the time since the one before, each up to    *)
(* BeatCap.  Heartbeats and adoptions come from several processes; each    *)
(* reads the clock before it waits for the mutex, so its reading may be    *)
(* old when it is used.                                                    *)
(***************************************************************************)
EXTENDS Integers

CONSTANTS Runs,
          PerSecond, \* readings of the clock within one second
          WaitCap,   \* seconds of a wait: 1800
          RepairCap, \* seconds of active repair: 3600
          BeatCap,   \* seconds one heartbeat may charge: 300
          Lag,       \* bound on the age of a reading
          MaxClock   \* bound on the clock

ASSUME BudgetAssumption == /\ Runs # {}
                           /\ {WaitCap, RepairCap, Lag, MaxClock} \subseteq Nat
                           /\ {PerSecond, BeatCap} \subseteq Nat \ {0}

VARIABLES clock,  \* the wall clock
          gone,   \* runs that have owned the continuation; none returns
          budget, \* the continuation's phase, owner, stamps and seconds
          since,  \* history: when the repair became active
          beats,  \* history: heartbeats that recorded repair time
          spent   \* history: repair time, each gap counted up to BeatCap

budgetVars == <<clock, gone, budget, since, beats, spent>>

WaitingNow == {"initial-wait", "second-wait"}
RepairEnded == {"consumed", "blocked", "invalidated"}

BudgetInit ==
    /\ clock = 0
    /\ gone = {}
    /\ budget = [phase |-> "initial-wait", owner |-> CHOOSE r \in Runs : TRUE,
                 updated |-> 0, firstStart |-> 0, first |-> 0, seen |-> 0, active |-> 0,
                 secondStart |-> 0, second |-> 0]
    /\ since = 0
    /\ beats = 0
    /\ spent = 0

BudgetTypeOK ==
    /\ clock \in 0..MaxClock
    /\ gone \subseteq Runs
    /\ budget \in [phase : WaitingNow \cup {"repair-active", "repair-reviewed"} \cup RepairEnded,
                   owner : Runs, updated : Nat, firstStart : Nat, first : 0..WaitCap,
                   seen : Nat, active : 0..RepairCap, secondStart : Nat,
                   second : 0..WaitCap]
    /\ {since, beats, spent} \subseteq Nat

-----------------------------------------------------------------------------
Least(a, b) == IF a < b THEN a ELSE b
Greatest(a, b) == IF a < b THEN b ELSE a

Readings == {at \in (clock - Lag)..clock : at >= 0}

\* _current_time, and the stamp of an adoption: later than the last one
Later(at) == IF at <= budget.updated THEN budget.updated + 1 ELSE at

Seconds(d) == d \div PerSecond

Elapsed(saved, start, at) == Least(WaitCap, Greatest(saved, Seconds(at - start)))

\* the seconds of the wait that is under way, at a reading of the clock
Charged(b, at) ==
    CASE b.phase = "initial-wait" -> [b EXCEPT !.first = Elapsed(@, b.firstStart, at)]
      [] b.phase = "second-wait" -> [b EXCEPT !.second = Elapsed(@, b.secondStart, at)]
      [] OTHER -> b

\* record_ci_wait_observation: an observation that adds nothing is not written
ObserveWait(r, at) ==
    /\ budget.owner = r
    /\ budget.phase \in WaitingNow
    /\ at >= budget.updated
    /\ Charged(budget, at) # budget
    /\ budget' = [Charged(budget, at) EXCEPT !.updated = at]
    /\ UNCHANGED <<clock, gone, since, beats, spent>>

\* Mutant: a heartbeat charges the time since the repair began.
BeatFromStart(b, at) ==
    [b EXCEPT !.updated = at, !.seen = at,
              !.active = Least(RepairCap, @ + Least(Seconds(at - since), BeatCap))]

\* record_ci_heartbeat
Beat(b, at) ==
    [b EXCEPT !.updated = at, !.seen = at,
              !.active = Least(RepairCap, @ + Least(Seconds(at - b.seen), BeatCap))]

MayBeat(at) == budget.phase = "repair-active" /\ at > budget.seen /\ at >= budget.updated

Counted(at) == /\ beats' = beats + 1
               /\ spent' = spent + Least(at - budget.seen, BeatCap * PerSecond)

HeartbeatRepair(r, at) ==
    /\ budget.owner = r
    /\ MayBeat(at)
    /\ budget' = Beat(budget, at)
    /\ Counted(at)
    /\ UNCHANGED <<clock, gone, since>>

\* advance_ci_continuation, from a wait: the wait is charged once more
Advanced(b, phase, at) == [Charged(b, at) EXCEPT !.phase = phase, !.updated = at]

\* prepare ci-repair of a waiting continuation
BeginRepair(r, at) ==
    LET t == Later(at)
    IN  /\ budget.owner = r
        /\ budget.phase = "initial-wait"
        /\ budget' = [Advanced(budget, "repair-active", t) EXCEPT !.seen = t]
        /\ since' = t
        /\ UNCHANGED <<clock, gone, beats, spent>>

\* Mutant: adopting a repair starts its budget again.
AdoptBudgetAfresh(r, at) ==
    /\ r \notin gone \cup {budget.owner}
    /\ budget.phase \notin RepairEnded
    /\ budget' = [budget EXCEPT !.owner = r, !.updated = Later(at), !.active = 0]
    /\ gone' = gone \cup {budget.owner}
    /\ UNCHANGED <<clock, since, beats, spent>>

\* adopt_ci_continuation: the stamp of the last activity is left alone
AdoptBudget(r, at) ==
    /\ r \notin gone \cup {budget.owner}
    /\ budget.phase \notin RepairEnded
    /\ budget' = [budget EXCEPT !.owner = r, !.updated = Later(at)]
    /\ gone' = gone \cup {budget.owner}
    /\ UNCHANGED <<clock, since, beats, spent>>

\* checkpoint ci-repair: a heartbeat, and no review once the budget is used up
ReviewRepair(r, at) ==
    /\ budget.owner = r
    /\ MayBeat(at)
    /\ Beat(budget, at).active < RepairCap
    /\ budget' = [Beat(budget, at) EXCEPT !.phase = "repair-reviewed", !.updated = at + 1]
    /\ Counted(at)
    /\ UNCHANGED <<clock, gone, since>>

\* _complete_ci_repair_push
BeginSecondWait(r, at) ==
    LET t == Later(at)
    IN  /\ budget.owner = r
        /\ budget.phase = "repair-reviewed"
        /\ budget' = [Advanced(budget, "second-wait", t) EXCEPT !.secondStart = t]
        /\ UNCHANGED <<clock, gone, since, beats, spent>>

\* publish state ready, publish outcome and invalidate ci-continuation
EndContinuation(r, at) ==
    /\ budget.owner = r
    /\ \/ budget.phase \in WaitingNow /\ budget' = Advanced(budget, "consumed", Later(at))
       \/ budget.phase \notin RepairEnded /\ budget' = Advanced(budget, "blocked", Later(at))
    /\ UNCHANGED <<clock, gone, since, beats, spent>>

ClockTicks == /\ clock < MaxClock
              /\ clock' = clock + 1
              /\ UNCHANGED <<gone, budget, since, beats, spent>>

BudgetNext == \/ ClockTicks
              \/ \E r \in Runs, at \in Readings :
                    \/ ObserveWait(r, at) \/ HeartbeatRepair(r, at) \/ BeginRepair(r, at)
                    \/ AdoptBudget(r, at) \/ ReviewRepair(r, at) \/ BeginSecondWait(r, at)
                    \/ EndContinuation(r, at)

BudgetSpec == BudgetInit /\ [][BudgetNext]_budgetVars

-----------------------------------------------------------------------------
\* Seconds that have not passed are never charged, and of a repair that is
\* watched, one gap of at most BeatCap after the other, less than a second is
\* lost per heartbeat: the hour of active repair is an hour and at most as many
\* seconds as there were heartbeats.
BudgetIsHonest ==
    LET b == budget
    IN  /\ BudgetTypeOK
        /\ b.first * PerSecond <= b.updated - b.firstStart
        /\ b.second * PerSecond <= b.updated - b.secondStart
        /\ b.active * PerSecond <= spent
        /\ spent <= b.seen - since
        /\ b.active < RepairCap => spent <= b.active * PerSecond + beats * (PerSecond - 1)

\* No adoption, late reading or end of a continuation gives seconds back, and
\* the wait that is over is not charged again.
BudgetOnlyGrows ==
    [][/\ budget'.first >= budget.first
       /\ budget'.active >= budget.active
       /\ budget'.second >= budget.second
       /\ budget'.first # budget.first => budget.phase = "initial-wait"
       /\ budget'.active # budget.active => budget.phase = "repair-active"]_budgetVars
=============================================================================
