------------------------- MODULE TerminalOutcomeProofs -------------------------
(***************************************************************************)
(* Proofs about TerminalOutcome for any number of runs, pull requests and  *)
(* commits: the handlers are a use of the store, and what a sequential     *)
(* driver records as blocked has been shown.                               *)
(*                                                                         *)
(* TerminalSafe is not inductive.  That a continuation is marked blocked   *)
(* only after both parts were shown rests on how far the command of the    *)
(* lease owner is (OnTheWay), on the intents of the past (IntentsKept) and *)
(* on heartbeats that fall between two commands (BeatsBetween).            *)
(***************************************************************************)
EXTENDS TerminalOutcome, JournalStoreProofs

\* Only the newest owner has the mutex, and only runs that had the lease have
\* begun anything.
LeaseKept ==
    /\ owner \in used \cup {NoRun}
    /\ mutex \in {owner, NoRun}
    /\ \A r \in Run : /\ r \notin used => task[r] = Idle /\ beat[r] = "none"
                      /\ task[r].step \in Part => mutex = r

\* The command of the lease owner replays the one unresolved intent, which is
\* its own, and has shown the parts that lie behind it.
OnTheWay ==
    \A r \in Run :
        /\ owner = r
        /\ task[r].step \in {"replay", "comment", "label", "labels", "complete"}
        => LET w == task[r].id
           IN  /\ w \in WorkId
               /\ UnresolvedTerminal = {w}
               /\ intent[w].recovery = r
               /\ task[r].step \in {"label", "labels", "complete"}
                      => shown[w]["comment"] = intent[w].continuation.current
               /\ task[r].step = "complete"
                      => shown[w]["labels"] = intent[w].continuation.current

\* A heartbeat falls between two commands of its run.
BeatsBetween ==
    \A r \in Run : beat[r] # "none" => /\ task[r] = Idle
                                       /\ owner = r => UnresolvedTerminal = {}

\* An intent is about a repair, and has been noted as ended; once it is
\* completed its continuation is blocked, or replaced by that of a later head.
IntentsKept ==
    \A w \in WorkId :
        LET was == intent[w].continuation
        IN  /\ intent[w].phase = "none" => was.semantic = NoHead
            /\ intent[w].phase # "none" =>
                   /\ was.semantic \in ended[w]
                   /\ was.phase \in {"repair-active", "repair-reviewed"}
            /\ intent[w].phase = "completed" /\ ci[w].semantic = was.semantic
                   => ci[w].phase = "blocked"

OutcomeKept ==
    /\ LeaseKept
    /\ OnTheWay
    /\ BeatsBetween
    /\ IntentsKept
    /\ RepairIsFrozen
    /\ BlockedIsPublished

OutcomeInv == TermTypeOK /\ StoreInv /\ OutcomeKept

-----------------------------------------------------------------------------
(* The handlers use the store.                                             *)

\* Every step of a command, a heartbeat or the lease is one operation of the
\* store, or leaves the store alone.
LEMMA TermUsesStore == [TermNext]_termVars => [StoreNext]_storeVars
<1> SUFFICES ASSUME [TermNext]_termVars PROVE [StoreNext]_storeVars
  OBVIOUS
<1> USE DEF StoreNext
<1>1. CASE Lease
  BY <1>1 DEF Lease
<1>2. CASE \E r \in Run : Stop(r)
  BY <1>2 DEF Stop
<1>3. CASE \E w \in WorkId : AuthorPush(w)
  BY <1>3 DEF AuthorPush
<1>4. CASE \E r \in Run, w \in WorkId : Outcome(r, w)
  <2> PICK r \in Run, w \in WorkId : Outcome(r, w)
    BY <1>4
  <2>1. \/ UNCHANGED storeVars
        \/ AdoptCi(r, w)
        \/ AuthorizeTerminal(r, w) \/ AdoptTerminal(r, w)
        \/ EnterTerminalGuard(r, w) \/ CompleteTerminal(r, w)
        \/ LeaveGuard(r)
    BY DEF Outcome, OutcomeStart, OutcomeAdopt, OutcomeAuthorize, Recover,
           ReplayEnter, ReplayMutate, ReplayComplete
  <2> QED BY <2>1 DEF CiOp, TerminalOp
<1>5. CASE \E r \in Run, w \in WorkId : OtherCommand(r, w)
  <2> PICK r \in Run, w \in WorkId : OtherCommand(r, w)
    BY <1>5
  <2>1. CiOp(r, w)
    BY DEF OtherCommand, CiOp
  <2> QED BY <2>1
<1>6. CASE \E r \in Run, w \in WorkId : HeartbeatCheck(r, w) \/ HeartbeatRecord(r, w)
  BY <1>6 DEF HeartbeatCheck, HeartbeatRecord, CiOp
<1>7. CASE UNCHANGED termVars
  BY <1>7 DEF termVars
<1> QED BY <1>1, <1>2, <1>3, <1>4, <1>5, <1>6, <1>7 DEF TermNext

\* Whatever a use of the store does, the store keeps its invariant.
LEMMA StoreNextInv == StoreInv /\ [StoreNext]_storeVars => StoreInv'
  BY StoreNextType, StoreNextOneWorker, StoreNextRemembers DEF StoreInv

\* The commands that block a repair, with heartbeats at any time, are a use of
\* the store: what the store promises whoever calls it holds for them.
THEOREM OutcomesUseStore == TermSpec => StoreSpec
<1>1. TermInit => StoreInit
  BY DEF TermInit
<1> QED BY <1>1, TermUsesStore, PTL DEF TermSpec, StoreSpec

-----------------------------------------------------------------------------
(* Typing.                                                                 *)

\* Nothing has begun.
LEMMA OutcomeInitInv == TermInit => OutcomeInv
<1> SUFFICES ASSUME TermInit PROVE OutcomeInv
  OBVIOUS
<1> USE DEF TermInit
<1>1. StoreInv
  BY StoreInitInv
<1>2. Idle \in [step : Step, seen : CiContinuation, id : WorkId \cup {"none"}]
  BY StoreAssumption DEF Idle, Step, NoCi, CiContinuation, CiPhase, MaybeRun, MaybeHead
<1>3. TermTypeOK
  BY <1>1, <1>2 DEF StoreInv, TermTypeOK, Part, MaybeHead
<1>4. Idle.step = "idle"
  BY DEF Idle
<1>5. \A w \in WorkId : /\ intent[w].phase = "none" /\ ci[w].phase = "none"
                         /\ intent[w].continuation.semantic = NoHead
  BY DEF StoreInit, NoIntent, NoCi
<1>6. UnresolvedTerminal = {}
  BY <1>5 DEF UnresolvedTerminal
<1>7. LeaseKept /\ OnTheWay /\ BeatsBetween
  BY <1>4 DEF StoreInit, LeaseKept, OnTheWay, BeatsBetween, Part
<1>8. IntentsKept /\ RepairIsFrozen /\ BlockedIsPublished
  BY <1>5, <1>6 DEF IntentsKept, RepairIsFrozen, BlockedIsPublished
<1> QED BY <1>1, <1>3, <1>7, <1>8 DEF OutcomeInv, OutcomeKept

\* A step keeps GitHub's view, the commands and the heartbeats well typed.
LEMMA OutcomeType ==
  ASSUME TermTypeOK, StoreTypeOK', TermNext
  PROVE  TermTypeOK'
<1> USE DEF TermTypeOK
<1>0. Idle \in [step : Step, seen : CiContinuation, id : WorkId \cup {"none"}]
  BY StoreAssumption DEF Idle, Step, NoCi, CiContinuation, CiPhase, MaybeRun, MaybeHead
<1>1. CASE Lease
  BY <1>1 DEF Lease, outside
<1>2. CASE \E r \in Run : Stop(r)
  BY <1>0, <1>2 DEF Stop
<1>3. CASE \E w \in WorkId : AuthorPush(w)
  BY <1>3 DEF AuthorPush
<1>4. CASE \E r \in Run, w \in WorkId : Outcome(r, w)
  <2> PICK r \in Run, w \in WorkId : Outcome(r, w)
    BY <1>4
  <2> USE DEF outside, Goto, Step
  <2>1. CASE OutcomeStart(r, w)
    <3>1. ci[w] \in CiContinuation
      BY DEF StoreTypeOK
    <3> QED BY <2>1, <3>1 DEF OutcomeStart
  <2>2. CASE OutcomeAdopt(r, w)
    <3>1. ci'[w] \in CiContinuation
      BY DEF StoreTypeOK
    <3> QED BY <2>2, <3>1 DEF OutcomeAdopt
  <2>3. CASE OutcomeAuthorize(r, w)
    BY <2>3 DEF OutcomeAuthorize
  <2>4. CASE Recover(r, w)
    <3>1. NoCi \in CiContinuation
      BY StoreAssumption DEF NoCi, CiContinuation, CiPhase, MaybeRun, MaybeHead
    <3> QED BY <2>4, <3>1 DEF Recover
  <2>5. CASE ReplayEnter(r, w)
    BY <2>5 DEF ReplayEnter, Part
  <2>6. CASE ReplayMutate(r, w)
    <3>1. intent[w].continuation.current \in MaybeHead
      BY DEF StoreTypeOK, Intent, CiContinuation
    <3> QED BY <2>6, <3>1 DEF ReplayMutate
  <2>7. CASE ReplayComplete(r, w)
    BY <1>0, <2>7 DEF ReplayComplete
  <2> QED BY <2>1, <2>2, <2>3, <2>4, <2>5, <2>6, <2>7 DEF Outcome
<1>5. CASE \E r \in Run, w \in WorkId : \/ OtherCommand(r, w) \/ HeartbeatCheck(r, w)
                                       \/ HeartbeatRecord(r, w)
  BY <1>5 DEF OtherCommand, HeartbeatCheck, HeartbeatRecord, outside
<1> QED BY <1>1, <1>2, <1>3, <1>4, <1>5 DEF TermNext

-----------------------------------------------------------------------------
(* What the steps leave alone.                                             *)

\* What is said of the private records holds as long as nobody writes them.
LEMMA OutcomeRecordsStand ==
  ASSUME IntentsKept, RepairIsFrozen, BlockedIsPublished,
         UNCHANGED <<ci, intent, ended, shown>>
  PROVE  /\ IntentsKept' /\ RepairIsFrozen' /\ BlockedIsPublished'
         /\ UnresolvedTerminal' = UnresolvedTerminal
<1>1. UnresolvedTerminal' = UnresolvedTerminal
  BY DEF UnresolvedTerminal
<1> QED BY <1>1 DEF IntentsKept, RepairIsFrozen, BlockedIsPublished

\* A continuation that is neither blocked nor about to be may move, and one of
\* a head that was never ended may be started.
LEMMA OutcomeCiMoves ==
  ASSUME TermTypeOK, Remembered, IntentsKept, BlockedIsPublished,
         UnresolvedTerminal = {}, UNCHANGED <<intent, ended, shown>>,
         NEW w \in WorkId, NEW c \in CiContinuation, ci' = [ci EXCEPT ![w] = c],
         \/ /\ c.semantic = ci[w].semantic
            /\ ci[w].phase \notin {"none", "blocked"}
         \/ /\ c.semantic \notin ended[w] \cup {NoHead}
            /\ c.phase # "blocked"
  PROVE  IntentsKept' /\ RepairIsFrozen' /\ BlockedIsPublished' /\ UnresolvedTerminal' = {}
<1>1. UnresolvedTerminal' = {}
  BY DEF UnresolvedTerminal
<1>2. \A v \in WorkId : v # w => ci'[v] = ci[v]
  BY DEF TermTypeOK, StoreTypeOK
<1>3. ci'[w] = c
  BY DEF TermTypeOK, StoreTypeOK
<1>4. intent[w].phase \in {"none", "completed"}
  BY DEF UnresolvedTerminal, TermTypeOK, StoreTypeOK, Intent, IntentPhase
<1>5. intent[w].continuation.semantic # c.semantic
  <2>1. CASE c.semantic = ci[w].semantic /\ ci[w].phase \notin {"none", "blocked"}
    <3>1. ci[w].semantic # NoHead
      BY <2>1, StoreAssumption DEF Remembered, RememberedAt, TermTypeOK, StoreTypeOK
    <3> QED BY <1>4, <2>1, <3>1 DEF IntentsKept
  <2>2. CASE c.semantic \notin ended[w] \cup {NoHead}
    BY <1>4, <2>2 DEF IntentsKept
  <2> QED BY <2>1, <2>2
<1>6. IntentsKept'
  <2> SUFFICES ASSUME NEW v \in WorkId
               PROVE  (/\ intent[v].phase = "none" => intent[v].continuation.semantic = NoHead
                       /\ intent[v].phase # "none" =>
                            /\ intent[v].continuation.semantic \in ended[v]
                            /\ intent[v].continuation.phase \in {"repair-active", "repair-reviewed"}
                       /\ /\ intent[v].phase = "completed"
                          /\ ci[v].semantic = intent[v].continuation.semantic
                          => ci[v].phase = "blocked")'
    BY DEF IntentsKept
  <2> QED BY <1>2, <1>3, <1>5 DEF IntentsKept
<1>7. BlockedIsPublished'
  <2> SUFFICES ASSUME NEW v \in WorkId, ci'[v].phase = "blocked",
                      ci'[v].semantic = intent[v].continuation.semantic
               PROVE  \A part \in Part : shown[v][part] = intent[v].continuation.current
    BY DEF BlockedIsPublished
  <2> QED BY <1>2, <1>3, <1>5 DEF BlockedIsPublished
<1> QED BY <1>1, <1>6, <1>7 DEF RepairIsFrozen

\* The command of one run moves on and the lease does not: only how far that
\* command is has to be shown.
LEMMA OnTheWayGoes ==
  ASSUME TermTypeOK, OnTheWay, NEW r \in Run, NEW t,
         task' = [task EXCEPT ![r] = t],
         UNCHANGED <<owner, intent, shown>>,
         owner = r /\ t.step \in {"replay", "comment", "label", "labels", "complete"} =>
             /\ t.id \in WorkId
             /\ UnresolvedTerminal = {t.id}
             /\ intent[t.id].recovery = r
             /\ t.step \in {"label", "labels", "complete"}
                   => shown[t.id]["comment"] = intent[t.id].continuation.current
             /\ t.step = "complete"
                   => shown[t.id]["labels"] = intent[t.id].continuation.current
  PROVE  OnTheWay'
<1>1. UnresolvedTerminal' = UnresolvedTerminal
  BY DEF UnresolvedTerminal
<1>2. task'[r] = t /\ \A q \in Run : q # r => task'[q] = task[q]
  BY DEF TermTypeOK
<1> QED BY <1>1, <1>2 DEF OnTheWay

\* Nothing the way of a command is made of changes.
LEMMA OnTheWayStands ==
  ASSUME OnTheWay, owner' \in {owner, NoRun}, UNCHANGED <<task, intent, shown>>
  PROVE  OnTheWay'
<1>1. UnresolvedTerminal' = UnresolvedTerminal
  BY DEF UnresolvedTerminal
<1> QED BY <1>1, StoreAssumption DEF OnTheWay

-----------------------------------------------------------------------------
(* One lemma per step of the driver.                                       *)

\* The lease comes to a run that never had it, or is lost outside the mutex.
LEMMA LeaseStep == ASSUME OutcomeInv, Lease PROVE OutcomeKept'
<1> USE DEF OutcomeInv, OutcomeKept
<1>1. UNCHANGED <<prHead, shown, beat, task, ci, intent, ended>>
  BY DEF Lease, outside, AcquireLease, LoseLease, ciVars, intentVars
<1>2. /\ IntentsKept' /\ RepairIsFrozen' /\ BlockedIsPublished'
      /\ UnresolvedTerminal' = UnresolvedTerminal
  BY <1>1, OutcomeRecordsStand
<1>3. CASE \E r \in Run : AcquireLease(r)
  <2> PICK r \in Run : AcquireLease(r)
    BY <1>3
  <2>1. /\ mutex = NoRun /\ mutex' = mutex /\ r \notin used
        /\ owner' = r /\ used' = used \cup {r}
    BY DEF AcquireLease
  <2>2. task[r] = Idle /\ beat[r] = "none" /\ Idle.step = "idle"
    BY <2>1 DEF LeaseKept, Idle
  <2>3. LeaseKept'
    BY <1>1, <2>1 DEF LeaseKept
  <2>4. OnTheWay'
    BY <1>1, <2>1, <2>2 DEF OnTheWay
  <2>5. BeatsBetween'
    BY <1>1, <2>1, <2>2 DEF BeatsBetween
  <2> QED BY <1>2, <2>3, <2>4, <2>5
<1>4. CASE LoseLease
  <2>1. /\ mutex = NoRun /\ mutex' = mutex /\ owner' = NoRun /\ used' = used
    BY <1>4 DEF LoseLease
  <2>2. LeaseKept' /\ BeatsBetween'
    BY <1>1, <2>1, StoreAssumption DEF LeaseKept, BeatsBetween
  <2> QED BY <1>1, <1>2, <2>1, <2>2, OnTheWayStands
<1> QED BY <1>3, <1>4 DEF Lease

\* A dying command gives the mutex back and leaves everything else behind.
LEMMA StopStep == ASSUME OutcomeInv, NEW r \in Run, Stop(r) PROVE OutcomeKept'
<1> USE DEF OutcomeInv, OutcomeKept
<1>1. UNCHANGED <<owner, used, prHead, shown, ci, intent, ended>>
  BY DEF Stop, LeaveGuard, storeVars, leaseVars, ciVars, intentVars
<1>2. /\ IntentsKept' /\ RepairIsFrozen' /\ BlockedIsPublished'
      /\ UnresolvedTerminal' = UnresolvedTerminal
  BY <1>1, OutcomeRecordsStand
<1>3. CASE task' = [task EXCEPT ![r] = Idle] /\ UNCHANGED beat
  <2>1. Idle.step = "idle"
    BY DEF Idle
  <2>2. OnTheWay'
    BY <1>1, <1>3, <2>1, OnTheWayGoes
  <2>3. mutex' = IF mutex = r THEN NoRun ELSE mutex
    BY <1>3 DEF Stop, LeaveGuard, storeVars, TermTypeOK
  <2>4. LeaseKept' /\ BeatsBetween'
    BY <1>1, <1>2, <1>3, <2>1, <2>3 DEF LeaseKept, BeatsBetween, TermTypeOK, Part
  <2> QED BY <1>2, <2>2, <2>4
<1>4. CASE beat' = [beat EXCEPT ![r] = "none"] /\ UNCHANGED <<storeVars, task>>
  <2>1. LeaseKept' /\ BeatsBetween'
    BY <1>1, <1>2, <1>4 DEF LeaseKept, BeatsBetween, TermTypeOK, storeVars
  <2> QED BY <1>1, <1>2, <1>4, <2>1, OnTheWayStands
<1> QED BY <1>3, <1>4 DEF Stop

\* The author pushes.
LEMMA AuthorPushStep == ASSUME OutcomeInv, NEW w \in WorkId, AuthorPush(w) PROVE OutcomeKept'
<1> USE DEF OutcomeInv, OutcomeKept
<1>1. UNCHANGED <<storeVars, owner, used, mutex, ci, intent, ended, shown, task, beat>>
  BY DEF AuthorPush, storeVars, leaseVars, ciVars, intentVars
<1>2. /\ IntentsKept' /\ RepairIsFrozen' /\ BlockedIsPublished'
      /\ UnresolvedTerminal' = UnresolvedTerminal
  BY <1>1, OutcomeRecordsStand
<1>3. LeaseKept' /\ BeatsBetween'
  BY <1>1, <1>2 DEF LeaseKept, BeatsBetween
<1> QED BY <1>1, <1>2, <1>3, OnTheWayStands

\* publish outcome reads the continuation.
LEMMA OutcomeStartStep ==
  ASSUME OutcomeInv, NEW r \in Run, NEW w \in WorkId, OutcomeStart(r, w),
         \A q \in Run : beat'[q] # "none" => task'[q] = Idle
  PROVE  OutcomeKept'
<1> USE DEF OutcomeInv, OutcomeKept
<1>1. /\ UNCHANGED <<owner, used, mutex, ci, intent, ended, shown, beat>>
      /\ owner = r
  BY DEF OutcomeStart, outside, storeVars, leaseVars, ciVars, intentVars
<1>2. /\ IntentsKept' /\ RepairIsFrozen' /\ BlockedIsPublished'
      /\ UnresolvedTerminal' = UnresolvedTerminal
  BY <1>1, OutcomeRecordsStand
<1> DEFINE t == [step |-> IF ci[w].recovery = r THEN "start" ELSE "adopt",
                 seen |-> ci[w], id |-> w]
<1>3. task' = [task EXCEPT ![r] = t] /\ t.step \in {"start", "adopt"}
  BY DEF OutcomeStart
<1> HIDE DEF t
<1>4. OnTheWay'
  BY <1>1, <1>3, OnTheWayGoes
<1>5. r \in used
  BY <1>1, StoreAssumption DEF LeaseKept
<1>6. LeaseKept' /\ BeatsBetween'
  BY <1>1, <1>2, <1>3, <1>5 DEF LeaseKept, BeatsBetween, TermTypeOK, Part
<1> QED BY <1>2, <1>4, <1>6

\* It takes the continuation over.
LEMMA OutcomeAdoptStep ==
  ASSUME OutcomeInv, NEW r \in Run, NEW w \in WorkId, OutcomeAdopt(r, w),
         \A q \in Run : beat'[q] # "none" => task'[q] = Idle
  PROVE  OutcomeKept'
<1> USE DEF OutcomeInv, OutcomeKept
<1>1. /\ UNCHANGED <<owner, used, mutex, intent, ended, shown, beat>>
      /\ owner = r /\ UnresolvedTerminal = {} /\ ci[w].phase \in ActiveCi
      /\ ci' = [ci EXCEPT ![w].recovery = r]
  BY DEF OutcomeAdopt, AdoptCi, OwnsCuration, Owns, outside, leaseVars, intentVars
<1> DEFINE c == [ci[w] EXCEPT !.recovery = r]
<1>0. ci[w] \in CiContinuation
  BY DEF TermTypeOK, StoreTypeOK
<1>2. c \in CiContinuation /\ c.semantic = ci[w].semantic
  BY <1>0 DEF CiContinuation, MaybeRun
<1>3. ci' = [ci EXCEPT ![w] = c] /\ ci[w].phase \notin {"none", "blocked"}
  BY <1>1 DEF ActiveCi
<1> HIDE DEF c
<1>4. IntentsKept' /\ RepairIsFrozen' /\ BlockedIsPublished' /\ UnresolvedTerminal' = {}
  BY <1>1, <1>2, <1>3, OutcomeCiMoves DEF StoreInv
<1> DEFINE t == [task[r] EXCEPT !.step = "start", !.seen = ci'[w]]
<1>5. task' = [task EXCEPT ![r] = t] /\ t.step = "start"
  BY DEF TermTypeOK, OutcomeAdopt
<1> HIDE DEF t
<1>6. OnTheWay'
  BY <1>1, <1>5, OnTheWayGoes
<1>7. r \in used
  BY <1>1, StoreAssumption DEF LeaseKept
<1>8. LeaseKept' /\ BeatsBetween'
  BY <1>1, <1>4, <1>5, <1>7 DEF LeaseKept, BeatsBetween, TermTypeOK, Part
<1> QED BY <1>4, <1>6, <1>8

\* It saves the intent, with a copy of the continuation.
LEMMA OutcomeAuthorizeStep ==
  ASSUME OutcomeInv, NEW r \in Run, NEW w \in WorkId, OutcomeAuthorize(r, w),
         \A q \in Run : beat'[q] # "none" => task'[q] = Idle
  PROVE  OutcomeKept'
<1> USE DEF OutcomeInv, OutcomeKept
<1> DEFINE i == [phase |-> "authorized", origin |-> r, recovery |-> r, continuation |-> ci[w]]
<1>1. /\ UNCHANGED <<owner, used, mutex, ci, shown, beat>>
      /\ owner = r /\ UnresolvedTerminal = {}
      /\ ci[w].phase \in {"repair-active", "repair-reviewed"}
      /\ intent' = [intent EXCEPT ![w] = i]
      /\ ended' = [ended EXCEPT ![w] = @ \cup {ci[w].semantic}]
      /\ task' = [task EXCEPT ![r].step = "replay"]
      /\ task[r].id = w /\ task[r] # Idle
  BY DEF OutcomeAuthorize, AuthorizeTerminal, OwnsCuration, Owns, outside, leaseVars, ciVars,
         Goto, At, Idle
<1>2. /\ i.phase = "authorized" /\ i.recovery = r /\ i.continuation = ci[w]
  OBVIOUS
<1> HIDE DEF i
<1>3. /\ intent'[w] = i
      /\ \A v \in WorkId : v # w => intent'[v] = intent[v]
  BY <1>1 DEF TermTypeOK, StoreTypeOK
<1>4. /\ ended'[w] = ended[w] \cup {ci[w].semantic}
      /\ \A v \in WorkId : v # w => ended'[v] = ended[v]
  BY <1>1 DEF TermTypeOK, StoreTypeOK
<1>5. UnresolvedTerminal' = {w}
  BY <1>1, <1>2, <1>3 DEF UnresolvedTerminal
<1>6. IntentsKept'
  <2> SUFFICES ASSUME NEW v \in WorkId
               PROVE  (/\ intent[v].phase = "none" => intent[v].continuation.semantic = NoHead
                       /\ intent[v].phase # "none" =>
                            /\ intent[v].continuation.semantic \in ended[v]
                            /\ intent[v].continuation.phase \in {"repair-active", "repair-reviewed"}
                       /\ /\ intent[v].phase = "completed"
                          /\ ci[v].semantic = intent[v].continuation.semantic
                          => ci[v].phase = "blocked")'
    BY DEF IntentsKept
  <2>1. CASE v = w
    BY <1>1, <1>2, <1>3, <1>4, <2>1
  <2>2. CASE v # w
    BY <1>1, <1>3, <1>4, <2>2 DEF IntentsKept
  <2> QED BY <2>1, <2>2
<1>7. RepairIsFrozen'
  BY <1>1, <1>2, <1>3, <1>5 DEF RepairIsFrozen
<1>8. BlockedIsPublished'
  <2> SUFFICES ASSUME NEW v \in WorkId, ci[v].phase = "blocked",
                      ci[v].semantic = intent'[v].continuation.semantic
               PROVE  \A part \in Part : shown[v][part] = intent'[v].continuation.current
    BY <1>1 DEF BlockedIsPublished
  <2>1. v # w
    BY <1>1
  <2> QED BY <1>3, <2>1 DEF BlockedIsPublished
<1>9. /\ task'[r].step = "replay" /\ task'[r].id = w
      /\ \A q \in Run : q # r => task'[q] = task[q]
  BY <1>1 DEF TermTypeOK
<1>10. OnTheWay'
  BY <1>1, <1>2, <1>3, <1>5, <1>9 DEF OnTheWay
<1>11. r \in used
  BY <1>1, StoreAssumption DEF LeaseKept
<1>12. LeaseKept'
  BY <1>1, <1>9, <1>11 DEF LeaseKept, Part
<1>13. BeatsBetween'
  BY <1>1, <1>9 DEF BeatsBetween
<1> QED BY <1>6, <1>7, <1>8, <1>10, <1>12, <1>13

\* The same run repeats the command, or a successor takes the intent over.
LEMMA RecoverStep ==
  ASSUME OutcomeInv, NEW r \in Run, NEW w \in WorkId, Recover(r, w),
         \A q \in Run : beat'[q] # "none" => task'[q] = Idle
  PROVE  OutcomeKept'
<1> USE DEF OutcomeInv, OutcomeKept
<1> DEFINE t == [step |-> "replay", seen |-> NoCi, id |-> w]
<1>1. /\ UNCHANGED <<owner, used, mutex, ci, ended, shown, beat>>
      /\ owner = r /\ UnresolvedTerminal = {w}
      /\ task' = [task EXCEPT ![r] = t]
  BY DEF Recover, AdoptTerminal, OwnsCuration, Owns, outside, storeVars, leaseVars, ciVars,
         intentVars
<1>2. t.step = "replay" /\ t.id = w
  OBVIOUS
<1> HIDE DEF t
<1>3. /\ intent'[w].recovery = r
      /\ \A v \in WorkId : /\ intent'[v].phase = intent[v].phase
                           /\ intent'[v].continuation = intent[v].continuation
  <2>1. CASE intent[w].recovery = r /\ UNCHANGED storeVars
    BY <2>1 DEF storeVars, intentVars
  <2>2. CASE intent' = [intent EXCEPT ![w].recovery = r]
    BY <2>2 DEF TermTypeOK, StoreTypeOK, Intent
  <2> QED BY <2>1, <2>2 DEF Recover, AdoptTerminal
<1>4. UnresolvedTerminal' = UnresolvedTerminal
  BY <1>3 DEF UnresolvedTerminal
<1>5. IntentsKept' /\ RepairIsFrozen' /\ BlockedIsPublished'
  <2>1. UnresolvedTerminal \subseteq WorkId
    BY DEF UnresolvedTerminal
  <2>2. RepairIsFrozen'
    BY <1>1, <1>3, <1>4, <2>1 DEF RepairIsFrozen
  <2>3. BlockedIsPublished'
    BY <1>1, <1>3 DEF BlockedIsPublished
  <2>4. IntentsKept'
    BY <1>1, <1>3 DEF IntentsKept
  <2> QED BY <2>2, <2>3, <2>4
<1>6. task'[r] = t /\ \A q \in Run : q # r => task'[q] = task[q]
  BY <1>1 DEF TermTypeOK
<1>7. OnTheWay'
  BY <1>1, <1>2, <1>3, <1>4, <1>6 DEF OnTheWay
<1>8. r \in used
  BY <1>1, StoreAssumption DEF LeaseKept
<1>9. LeaseKept' /\ BeatsBetween'
  BY <1>1, <1>2, <1>4, <1>6, <1>8 DEF LeaseKept, BeatsBetween, Part
<1> QED BY <1>5, <1>7, <1>9

\* A part that is shown already is left alone; else the mutex is taken.
LEMMA ReplayEnterStep ==
  ASSUME OutcomeInv, NEW r \in Run, NEW w \in WorkId, ReplayEnter(r, w),
         \A q \in Run : beat'[q] # "none" => task'[q] = Idle
  PROVE  OutcomeKept'
<1> USE DEF OutcomeInv, OutcomeKept
<1>1. /\ UNCHANGED <<owner, used, ci, intent, ended, shown, beat>>
      /\ task[r].id = w /\ task[r].step \in {"replay", "label"}
      /\ prHead[w] = intent[w].continuation.current
  BY DEF ReplayEnter, EnterTerminalGuard, outside, storeVars, leaseVars, ciVars, intentVars
<1>2. /\ IntentsKept' /\ RepairIsFrozen' /\ BlockedIsPublished'
      /\ UnresolvedTerminal' = UnresolvedTerminal
  BY <1>1, OutcomeRecordsStand
<1>3. task[r] \in [step : Step, seen : CiContinuation, id : WorkId \cup {"none"}]
  BY DEF TermTypeOK
<1>4. r \in used
  BY <1>1 DEF LeaseKept, Idle
<1>5. ASSUME NEW step, task' = [task EXCEPT ![r].step = step],
             step \in {"comment", "labels"} => mutex' = r /\ owner = r,
             mutex' \in {mutex, r}, mutex' = r => owner = r \/ mutex = r,
             owner = r /\ step \in {"label", "labels", "complete"}
                 => shown[w]["comment"] = intent[w].continuation.current,
             owner = r /\ step = "complete"
                 => shown[w]["labels"] = intent[w].continuation.current,
             mutex = NoRun \/ mutex' = mutex
      PROVE  OutcomeKept'
  <2> DEFINE t == [task[r] EXCEPT !.step = step]
  <2>1. task' = [task EXCEPT ![r] = t] /\ t.step = step /\ t.id = w
    BY <1>1, <1>3, <1>5 DEF TermTypeOK
  <2> HIDE DEF t
  <2>2. owner = r => UnresolvedTerminal = {w} /\ intent[w].recovery = r
    BY <1>1 DEF OnTheWay
  <2>3. OnTheWay'
    BY <1>1, <1>5, <2>1, <2>2, OnTheWayGoes
  <2>4. task'[r] = t /\ \A q \in Run : q # r => task'[q] = task[q]
    BY <2>1 DEF TermTypeOK
  <2>5. LeaseKept'
    BY <1>1, <1>4, <1>5, <2>1, <2>4, StoreAssumption DEF LeaseKept, Part
  <2>6. BeatsBetween'
    BY <1>1, <1>2, <2>4 DEF BeatsBetween
  <2> QED BY <1>2, <2>3, <2>5, <2>6
<1> DEFINE shownPart == IF task[r].step = "replay" THEN "comment" ELSE "labels"
<1>6. owner = r /\ task[r].step = "label"
          => shown[w]["comment"] = intent[w].continuation.current
  BY <1>1 DEF OnTheWay
<1>7. CASE EnterTerminalGuard(r, w) /\ Goto(r, shownPart)
  <2>1. mutex = NoRun /\ mutex' = r /\ owner = r
    BY <1>7 DEF EnterTerminalGuard, OwnsCuration, Owns
  <2> QED BY <1>1, <1>5, <1>6, <1>7, <2>1 DEF Goto
<1>8. CASE /\ shown[w][shownPart] = prHead[w]
           /\ Goto(r, IF shownPart = "comment" THEN "label" ELSE "complete")
           /\ UNCHANGED storeVars
  <2>1. mutex' = mutex
    BY <1>8 DEF storeVars
  <2>2. mutex = r => owner = r
    BY StoreAssumption DEF LeaseKept
  <2> QED BY <1>1, <1>5, <1>6, <1>8, <2>1, <2>2 DEF Goto
<1> QED BY <1>7, <1>8 DEF ReplayEnter

\* The comment or the labels change, and the mutex is given back.
LEMMA ReplayMutateStep ==
  ASSUME OutcomeInv, NEW r \in Run, NEW w \in WorkId, ReplayMutate(r, w),
         \A q \in Run : beat'[q] # "none" => task'[q] = Idle
  PROVE  OutcomeKept'
<1> USE DEF OutcomeInv, OutcomeKept
<1> DEFINE done == task[r].step
           next == IF done = "comment" THEN "label" ELSE "complete"
           t == [task[r] EXCEPT !.step = next]
           current == intent[w].continuation.current
<1>1. /\ UNCHANGED <<owner, used, ci, intent, ended, beat>>
      /\ mutex = r /\ mutex' = NoRun
      /\ task[r].id = w /\ done \in Part
      /\ shown' = [shown EXCEPT ![w][done] = current]
      /\ task' = [task EXCEPT ![r].step = next]
  BY DEF ReplayMutate, LeaveGuard, Goto, leaseVars, ciVars, intentVars
<1>2. task[r] \in [step : Step, seen : CiContinuation, id : WorkId \cup {"none"}]
  BY DEF TermTypeOK
<1>3. task' = [task EXCEPT ![r] = t] /\ t.step = next /\ t.id = w
  BY <1>1, <1>2 DEF TermTypeOK
<1> HIDE DEF t
<1>4. task'[r] = t /\ \A q \in Run : q # r => task'[q] = task[q]
  BY <1>3 DEF TermTypeOK
<1>5. UnresolvedTerminal' = UnresolvedTerminal
  BY <1>1 DEF UnresolvedTerminal
<1>6. owner = r
  BY <1>1, StoreAssumption DEF LeaseKept
<1>7. /\ UnresolvedTerminal = {w} /\ intent[w].recovery = r
      /\ done = "labels" => shown[w]["comment"] = current
  BY <1>1, <1>6 DEF OnTheWay, Part
<1>8. /\ shown'[w][done] = current
      /\ \A part \in Part : part # done => shown'[w][part] = shown[w][part]
      /\ \A v \in WorkId : v # w => shown'[v] = shown[v]
  <2>1. shown \in [WorkId -> [Part -> MaybeHead]]
    BY DEF TermTypeOK
  <2> QED BY <1>1, <2>1
<1>9. OnTheWay'
  <2> SUFFICES ASSUME NEW q \in Run, owner = q,
                      task'[q].step \in {"replay", "comment", "label", "labels", "complete"}
               PROVE  LET v == task'[q].id
                      IN  /\ v \in WorkId
                          /\ UnresolvedTerminal = {v}
                          /\ intent[v].recovery = q
                          /\ task'[q].step \in {"label", "labels", "complete"}
                                 => shown'[v]["comment"] = intent[v].continuation.current
                          /\ task'[q].step = "complete"
                                 => shown'[v]["labels"] = intent[v].continuation.current
    BY <1>1, <1>5 DEF OnTheWay
  <2>1. q = r
    BY <1>6
  <2> QED BY <1>1, <1>3, <1>4, <1>7, <1>8, <2>1 DEF Part
<1>10. r \in used
  BY <1>6, StoreAssumption DEF LeaseKept
<1>11. LeaseKept'
  BY <1>1, <1>3, <1>4, <1>10, StoreAssumption DEF LeaseKept, Part
<1>12. BeatsBetween'
  BY <1>1, <1>4, <1>5 DEF BeatsBetween
<1>13. IntentsKept' /\ RepairIsFrozen'
  BY <1>1, <1>5 DEF IntentsKept, RepairIsFrozen
<1>14. BlockedIsPublished'
  <2> SUFFICES ASSUME NEW v \in WorkId, ci[v].phase = "blocked",
                      ci[v].semantic = intent[v].continuation.semantic,
                      NEW part \in Part
               PROVE  shown'[v][part] = intent[v].continuation.current
    BY <1>1 DEF BlockedIsPublished
  <2>1. shown[v][part] = intent[v].continuation.current
    BY DEF BlockedIsPublished
  <2> QED BY <1>8, <2>1
<1> QED BY <1>9, <1>11, <1>12, <1>13, <1>14

\* The intent is completed, or the process dies before its file.
LEMMA ReplayCompleteStep ==
  ASSUME OutcomeInv, NEW r \in Run, NEW w \in WorkId, ReplayComplete(r, w),
         \A q \in Run : beat'[q] # "none" => task'[q] = Idle
  PROVE  OutcomeKept'
<1> USE DEF OutcomeInv, OutcomeKept
<1> DEFINE was == intent[w].continuation
           b == [ci[w] EXCEPT !.phase = "blocked", !.recovery = r]
           d == [ci[w] EXCEPT !.recovery = r]
<1>1. /\ UNCHANGED <<owner, used, mutex, shown, ended, beat>>
      /\ owner = r /\ w \in UnresolvedTerminal
      /\ task[r].step = "complete" /\ task[r].id = w
      /\ task' = [task EXCEPT ![r] = Idle]
      /\ TerminalContinuation(w)
  BY DEF ReplayComplete, CompleteTerminal, OwnsCuration, Owns, outside, At, leaseVars
<1>2. ci[w] \in CiContinuation /\ intent[w] \in Intent
  BY DEF TermTypeOK, StoreTypeOK
<1>3. /\ UnresolvedTerminal = {w}
      /\ shown[w]["comment"] = was.current /\ shown[w]["labels"] = was.current
  BY <1>1 DEF OnTheWay
<1>4. /\ intent[w].phase = "authorized"
      /\ was.phase \in {"repair-active", "repair-reviewed"}
  BY <1>1 DEF UnresolvedTerminal, IntentsKept
<1>5. ci[w] = was \/ (ci[w].phase = "blocked" /\ ci[w].semantic = was.semantic)
  <2>1. was \in CiContinuation
    BY <1>2 DEF Intent
  <2> QED BY <1>1, <2>1 DEF TerminalContinuation, CiContinuation
<1>6. /\ \/ ci' = [ci EXCEPT ![w] = IF ci[w] = was THEN b ELSE ci[w]]
         \/ ci' = [ci EXCEPT ![w] = [(IF ci[w] = was THEN b ELSE ci[w]) EXCEPT !.recovery = r]]
      /\ \/ intent' = intent
         \/ intent' = [intent EXCEPT ![w].phase = "completed"]
  BY DEF ReplayComplete, CompleteTerminal
<1>7. [b EXCEPT !.recovery = r] = b
  BY <1>2 DEF CiContinuation
<1>8. b.phase = "blocked" /\ b.semantic = ci[w].semantic
  BY <1>2 DEF CiContinuation
<1>9. d.phase = ci[w].phase /\ d.semantic = ci[w].semantic
  BY <1>2 DEF CiContinuation
<1>10. /\ ci'[w] \in IF ci[w] = was THEN {b} ELSE {ci[w], d}
       /\ \A v \in WorkId : v # w => ci'[v] = ci[v]
  <2>1. ci \in [WorkId -> CiContinuation]
    BY DEF TermTypeOK, StoreTypeOK
  <2> HIDE DEF b
  <2> QED BY <1>6, <1>7, <2>1
<1>11. ci'[w].phase = "blocked" /\ ci'[w].semantic = was.semantic
  <2> HIDE DEF b, d
  <2> QED BY <1>5, <1>8, <1>9, <1>10
<1>12. /\ intent'[w].phase \in {"authorized", "completed"}
       /\ intent'[w].continuation = was
       /\ intent'[w].recovery = intent[w].recovery
       /\ \A v \in WorkId : v # w => intent'[v] = intent[v]
  BY <1>2, <1>4, <1>6 DEF Intent, TermTypeOK, StoreTypeOK
<1>13. UnresolvedTerminal' \subseteq {w}
  BY <1>3, <1>12 DEF UnresolvedTerminal
<1>14. IntentsKept'
  <2> SUFFICES ASSUME NEW v \in WorkId
               PROVE  (/\ intent[v].phase = "none" => intent[v].continuation.semantic = NoHead
                       /\ intent[v].phase # "none" =>
                            /\ intent[v].continuation.semantic \in ended[v]
                            /\ intent[v].continuation.phase \in {"repair-active", "repair-reviewed"}
                       /\ /\ intent[v].phase = "completed"
                          /\ ci[v].semantic = intent[v].continuation.semantic
                          => ci[v].phase = "blocked")'
    BY DEF IntentsKept
  <2>1. CASE v = w
    BY <1>1, <1>4, <1>11, <1>12, <2>1 DEF IntentsKept
  <2>2. CASE v # w
    BY <1>1, <1>10, <1>12, <2>2 DEF IntentsKept
  <2> QED BY <2>1, <2>2
<1>15. BlockedIsPublished'
  <2> SUFFICES ASSUME NEW v \in WorkId, ci'[v].phase = "blocked",
                      ci'[v].semantic = intent'[v].continuation.semantic,
                      NEW part \in Part
               PROVE  shown[v][part] = intent'[v].continuation.current
    BY <1>1 DEF BlockedIsPublished
  <2>1. CASE v = w
    BY <1>3, <1>12, <2>1 DEF Part
  <2>2. CASE v # w
    BY <1>10, <1>12, <2>2 DEF BlockedIsPublished
  <2> QED BY <2>1, <2>2
<1>16. RepairIsFrozen'
  <2> SUFFICES ASSUME w \in UnresolvedTerminal', intent' = intent
               PROVE  ci'[w] \in {was, [was EXCEPT !.phase = "blocked",
                                                   !.recovery = ci'[w].recovery]}
    <3>1. w \in UnresolvedTerminal' => intent' = intent
      BY <1>2, <1>6 DEF UnresolvedTerminal, Intent, TermTypeOK, StoreTypeOK
    <3> QED BY <1>13, <3>1 DEF RepairIsFrozen
  <2>1. CASE ci[w] = was
    <3>1. ci'[w] = b
      BY <1>10, <2>1
    <3>2. b.recovery = r
      BY <1>2 DEF CiContinuation
    <3> QED BY <2>1, <3>1, <3>2
  <2>2. CASE ci[w] # was
    <3>1. ci[w] = [was EXCEPT !.phase = "blocked", !.recovery = ci[w].recovery]
      BY <1>1, <2>2 DEF RepairIsFrozen
    <3>2. was \in CiContinuation
      BY <1>2 DEF Intent
    <3>3. d = [was EXCEPT !.phase = "blocked", !.recovery = r] /\ d.recovery = r
      <4> DEFINE e == [was EXCEPT !.phase = "blocked", !.recovery = ci[w].recovery]
      <4>1. [e EXCEPT !.recovery = r] = [was EXCEPT !.phase = "blocked", !.recovery = r]
        BY <3>2 DEF CiContinuation
      <4> QED BY <1>2, <3>1, <4>1 DEF CiContinuation
    <3> HIDE DEF d
    <3>4. ci'[w] \in {ci[w], d}
      BY <1>10, <2>2
    <3>5. CASE ci'[w] = ci[w]
      BY <3>1, <3>5
    <3>6. CASE ci'[w] = d
      BY <3>3, <3>6
    <3> QED BY <3>4, <3>5, <3>6
  <2> QED BY <2>1, <2>2
<1>17. task'[r] = Idle /\ Idle.step = "idle" /\ \A q \in Run : q # r => task'[q] = task[q]
  BY <1>1 DEF TermTypeOK, Idle
<1>18. OnTheWay' /\ LeaseKept'
  BY <1>1, <1>17 DEF OnTheWay, LeaseKept, Part
<1>19. BeatsBetween'
  <2>1. beat[r] = "none"
    BY <1>1, <1>17 DEF BeatsBetween
  <2> QED BY <1>1, <1>17, <2>1 DEF BeatsBetween
<1> QED BY <1>14, <1>15, <1>16, <1>18, <1>19

\* A heartbeat finds no unresolved intent.
LEMMA HeartbeatCheckStep ==
  ASSUME OutcomeInv, NEW r \in Run, NEW w \in WorkId, HeartbeatCheck(r, w),
         \A q \in Run : beat'[q] # "none" => task'[q] = Idle
  PROVE  OutcomeKept'
<1> USE DEF OutcomeInv, OutcomeKept
<1>1. /\ UNCHANGED <<owner, used, mutex, ci, intent, ended, shown, task>>
      /\ owner = r /\ UnresolvedTerminal = {}
      /\ beat' = [beat EXCEPT ![r] = w]
  BY DEF HeartbeatCheck, storeVars, leaseVars, ciVars, intentVars
<1>2. /\ IntentsKept' /\ RepairIsFrozen' /\ BlockedIsPublished'
      /\ UnresolvedTerminal' = UnresolvedTerminal
  BY <1>1, OutcomeRecordsStand
<1>3. r \in used
  BY <1>1, StoreAssumption DEF LeaseKept
<1>4. \A q \in Run : q # r => beat'[q] = beat[q]
  BY <1>1 DEF TermTypeOK
<1>5. LeaseKept' /\ BeatsBetween'
  BY <1>1, <1>2, <1>3, <1>4 DEF LeaseKept, BeatsBetween
<1> QED BY <1>1, <1>2, <1>5, OnTheWayStands

\* It records its time in a continuation that is still active.
LEMMA HeartbeatRecordStep ==
  ASSUME OutcomeInv, NEW r \in Run, NEW w \in WorkId, HeartbeatRecord(r, w)
  PROVE  OutcomeKept'
<1> USE DEF OutcomeInv, OutcomeKept
<1> DEFINE c == [ci[w] EXCEPT !.beats = @ + 1]
<1>1. /\ UNCHANGED <<owner, used, mutex, intent, ended, shown, task>>
      /\ owner = r /\ beat[r] = w
      /\ ci[w].phase \in {"initial-wait", "second-wait", "repair-active"}
      /\ ci[w].beats < MaxBeats
      /\ ci' = [ci EXCEPT ![w] = c]
      /\ beat' = [beat EXCEPT ![r] = "none"]
  BY DEF HeartbeatRecord, RecordCiTime, OwnsCuration, Owns, leaseVars, intentVars
<1>2. ci[w] \in CiContinuation
  BY DEF TermTypeOK, StoreTypeOK
<1>3. c \in CiContinuation /\ c.semantic = ci[w].semantic
  BY <1>1, <1>2, StoreAssumption DEF CiContinuation
<1> HIDE DEF c
<1>4. UnresolvedTerminal = {}
  BY <1>1, TermAssumption DEF BeatsBetween
<1>5. IntentsKept' /\ RepairIsFrozen' /\ BlockedIsPublished' /\ UnresolvedTerminal' = {}
  BY <1>1, <1>3, <1>4, OutcomeCiMoves DEF StoreInv
<1>6. \A q \in Run : beat'[q] # "none" => beat'[q] = beat[q]
  BY <1>1 DEF TermTypeOK
<1>7. LeaseKept'
  <2>1. \A q \in Run : q \notin used => beat'[q] = "none"
    BY <1>6 DEF LeaseKept
  <2> QED BY <1>1, <2>1 DEF LeaseKept
<1>8. BeatsBetween'
  BY <1>1, <1>5, <1>6 DEF BeatsBetween
<1> QED BY <1>1, <1>5, <1>7, <1>8, OnTheWayStands

\* The other commands start continuations of new heads, adopt them, or advance
\* one that is not blocked.
LEMMA OtherCommandCi ==
  ASSUME OutcomeInv, NEW r \in Run, NEW w \in WorkId, OtherCommand(r, w)
  PROVE  IntentsKept' /\ RepairIsFrozen' /\ BlockedIsPublished' /\ UnresolvedTerminal' = {}
<1> USE DEF OutcomeInv, OutcomeKept, StoreInv
<1>1. UnresolvedTerminal = {} /\ UNCHANGED shown
  BY DEF OtherCommand, outside
<1>2. ci[w] \in CiContinuation
  BY DEF TermTypeOK, StoreTypeOK
<1>3. CASE \E h \in Head : StartCi(r, w, h)
  <2> PICK h \in Head : StartCi(r, w, h)
    BY <1>3
  <2> DEFINE c == InitialCi(r, h)
  <2>1. UNCHANGED <<intent, ended>> /\ ci' \in {ci, [ci EXCEPT ![w] = c]}
    BY DEF StartCi, intentVars
  <2>2. c \in CiContinuation /\ c.semantic = h /\ c.phase = "initial-wait"
    BY StoreAssumption DEF InitialCi, CiContinuation, CiPhase, MaybeRun, MaybeHead
  <2>3. h \notin begun[w] /\ ended[w] \subseteq begun[w]
    BY StartCiRemembers DEF TermTypeOK, Remembered, RememberedAt
  <2>4. h # NoHead
    BY StoreAssumption
  <2> HIDE DEF c
  <2>5. CASE ci' = ci
    BY <1>1, <2>1, <2>5, OutcomeRecordsStand
  <2>6. CASE ci' = [ci EXCEPT ![w] = c]
    BY <1>1, <2>1, <2>2, <2>3, <2>4, <2>6, OutcomeCiMoves
  <2> QED BY <2>1, <2>5, <2>6
<1>4. CASE AdoptCi(r, w)
  <2> DEFINE c == [ci[w] EXCEPT !.recovery = r]
  <2>1. /\ UNCHANGED <<intent, ended>> /\ ci' = [ci EXCEPT ![w] = c]
        /\ ci[w].phase \notin {"none", "blocked"}
    BY <1>4 DEF AdoptCi, ActiveCi, intentVars
  <2>2. c \in CiContinuation /\ c.semantic = ci[w].semantic
    BY <1>2 DEF CiContinuation, MaybeRun
  <2> HIDE DEF c
  <2> QED BY <1>1, <2>1, <2>2, OutcomeCiMoves
<1>5. CASE \E phase \in CiPhase, h, k \in MaybeHead : AdvanceCi(r, w, phase, h, k)
  <2> PICK phase \in CiPhase, h \in MaybeHead, k \in MaybeHead :
             AdvanceCi(r, w, phase, h, k)
    BY <1>5
  <2> DEFINE c == [ci[w] EXCEPT !.phase = phase, !.current = h, !.repair = k]
  <2>1. /\ UNCHANGED <<intent, ended>> /\ ci' = [ci EXCEPT ![w] = c]
        /\ ci[w].phase \notin {"none", "blocked"}
    BY DEF AdvanceCi, NextCi, intentVars
  <2>2. c \in CiContinuation /\ c.semantic = ci[w].semantic
    BY <1>2 DEF CiContinuation
  <2> HIDE DEF c
  <2> QED BY <1>1, <2>1, <2>2, OutcomeCiMoves
<1> QED BY <1>3, <1>4, <1>5 DEF OtherCommand

\* They leave the commands that block a repair where they are.
LEMMA OtherCommandStep ==
  ASSUME OutcomeInv, NEW r \in Run, NEW w \in WorkId, OtherCommand(r, w)
  PROVE  OutcomeKept'
<1> USE DEF OutcomeInv, OutcomeKept
<1>1. UNCHANGED <<owner, used, mutex, intent, shown, task, beat>>
  BY DEF OtherCommand, StartCi, AdoptCi, AdvanceCi, outside, leaseVars, intentVars
<1>2. IntentsKept' /\ RepairIsFrozen' /\ BlockedIsPublished' /\ UnresolvedTerminal' = {}
  BY OtherCommandCi
<1>3. LeaseKept' /\ BeatsBetween'
  BY <1>1, <1>2 DEF LeaseKept, BeatsBetween
<1> QED BY <1>1, <1>2, <1>3, OnTheWayStands

-----------------------------------------------------------------------------
(* The theorem.                                                            *)

\* Every step of the sequential driver preserves the invariant.
LEMMA SequentialNextInv == OutcomeInv /\ [SequentialNext]_termVars => OutcomeInv'
<1> SUFFICES ASSUME OutcomeInv, [SequentialNext]_termVars PROVE OutcomeInv'
  OBVIOUS
<1>1. StoreInv'
  BY TermUsesStore, StoreNextInv DEF OutcomeInv, SequentialNext
<1>2. CASE UNCHANGED termVars
  <2>1. TermTypeOK'
    BY <1>1, <1>2 DEF OutcomeInv, TermTypeOK, StoreInv, termVars
  <2>2. OutcomeKept'
    BY <1>2 DEF OutcomeInv, OutcomeKept, LeaseKept, OnTheWay, BeatsBetween, IntentsKept,
                RepairIsFrozen, BlockedIsPublished, UnresolvedTerminal, termVars,
                storeVars, leaseVars, ciVars, intentVars
  <2> QED BY <1>1, <2>1, <2>2 DEF OutcomeInv
<1>3. CASE SequentialNext
  <2>1. TermTypeOK'
    BY <1>1, <1>3, OutcomeType DEF OutcomeInv, StoreInv, SequentialNext
  <2>2. /\ TermNext
        /\ \A q \in Run : beat'[q] # "none" => task'[q] = Idle
    BY <1>3 DEF SequentialNext
  <2>3. OutcomeKept'
    <3>1. CASE \E r \in Run, w \in WorkId : Outcome(r, w)
      BY <2>2, <3>1, OutcomeStartStep, OutcomeAdoptStep, OutcomeAuthorizeStep, RecoverStep,
         ReplayEnterStep, ReplayMutateStep, ReplayCompleteStep DEF Outcome
    <3>2. CASE \E r \in Run, w \in WorkId : \/ OtherCommand(r, w) \/ HeartbeatCheck(r, w)
                                           \/ HeartbeatRecord(r, w)
      BY <2>2, <3>2, OtherCommandStep, HeartbeatCheckStep, HeartbeatRecordStep
    <3>3. CASE \/ Lease
               \/ \E r \in Run : Stop(r)
               \/ \E w \in WorkId : AuthorPush(w)
      BY <3>3, LeaseStep, StopStep, AuthorPushStep
    <3> QED BY <2>2, <3>1, <3>2, <3>3 DEF TermNext
  <2> QED BY <1>1, <2>1, <2>3 DEF OutcomeInv
<1> QED BY <1>2, <1>3

\* With heartbeats between the commands of a run, a repair is recorded as
\* blocked only after both the comment and the labels showed it for its exact
\* head, and nothing else moves it in the meantime: for any number of runs
\* that die anywhere, adopt and repeat.
THEOREM OutcomesAreSafe == SequentialSpec => []TerminalSafe
<1>1. OutcomeInv => TerminalSafe
  BY DEF OutcomeInv, OutcomeKept, TerminalSafe
<1> QED BY <1>1, OutcomeInitInv, SequentialNextInv, PTL DEF SequentialSpec
=============================================================================
