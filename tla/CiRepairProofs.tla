---------------------------- MODULE CiRepairProofs ----------------------------
(***************************************************************************)
(* Proofs about CiRepair for any number of runs, repairs, author heads and *)
(* dying commands.                                                         *)
(*                                                                         *)
(* RepairSafe is not inductive.  That the journal of a repair push and the *)
(* continuation fit together rests on what the lease owner's command has   *)
(* read and has not yet used (Reached): nobody else writes the records, so *)
(* it still holds when it is used.  That no second repair lands rests on   *)
(* PushKept: from the moment a repair is authorised, every push on its way *)
(* is the one from the semantic head to that repair.                       *)
(***************************************************************************)
EXTENDS CiRepair, JournalStoreProofs

\* Only the newest owner has the mutex, and only runs that had the lease have
\* a command.
LeaseKept ==
    /\ owner \in used \cup {NoRun}
    /\ mutex \in {owner, NoRun}
    /\ \A r \in Run : r \notin used => task[r] = NoTask

\* The pull request is the only work item with something unresolved.
OnlyPr == \A w \in WorkId : /\ intent[w].phase = "none"
                            /\ w # Pr => journal[w].phase = "published"

\* One continuation for the semantic head, as the store accepts it.
ContinuationKept ==
    /\ ci[Pr].semantic = Semantic
    /\ ci[Pr].phase # "none"
    /\ WellFormedCi(ci[Pr])
    /\ ci[Pr].repair \in Repairs \cup {NoHead}

\* No repair push has been authorised yet: the journal is that of the semantic
\* head, and no commit but this waits for its checks.
NotAuthorized ==
    /\ journal[Pr].new = Semantic
    /\ journal[Pr].phase = "published"
    /\ ci[Pr].current = Semantic
    /\ ci[Pr].phase # "second-wait"

\* The journal is that of the repair of the continuation, which is as far as
\* the journal, or one step behind.
Authorized ==
    /\ journal[Pr].new \in Repairs
    /\ journal[Pr].new = ci[Pr].repair
    /\ journal[Pr].expected = Semantic
    /\ \/ journal[Pr].phase = "authorized" /\ ci[Pr].phase = "repair-reviewed"
       \/ journal[Pr].phase = "pushed" /\ ci[Pr].phase \in {"repair-reviewed", "second-wait"}
       \/ /\ journal[Pr].phase = "published"
          /\ ci[Pr].phase \in {"second-wait"} \cup TerminalCi
          /\ ci[Pr].current = journal[Pr].new
          /\ late \/ RepairShown

JournalKept == NotAuthorized \/ Authorized

\* Every push that can still arrive goes from the semantic head to the repair,
\* and nothing but the repair has landed.
PushKept ==
    /\ \A r \in Run : push[r] # "none" => Authorized /\ task[r].step = "sending"
    /\ orphans # {} \/ landed # {} => Authorized
    /\ orphans \subseteq {[old |-> Semantic, new |-> ci[Pr].repair]}
    /\ landed \subseteq {ci[Pr].repair}

Publishing == {"comment", "commenting", "label", "labelling", "settle"}

\* What the command t of the lease owner has established when it comes to its
\* next step.
Reached(t) ==
    /\ t.step = "write" =>
           /\ journal[Pr].phase = "published"
           /\ t.goal = "checkpoint" => t.head \in Repairs
    /\ t.step = "authorize" => /\ NotAuthorized /\ ci[Pr].phase = "repair-reviewed"
                               /\ t.head = ci[Pr].repair
    /\ t.step \in {"check", "send"} => journal[Pr].phase # "published"
    /\ t.step \in {"check", "send", "sending", "mark", "claim", "converge"}
           => t.head = journal[Pr].new
    /\ t.step \in {"sending", "mark"} => journal[Pr].phase = "authorized"
    /\ t.step \in {"claim", "converge"} => journal[Pr].phase = "pushed"
    /\ t.step = "observe" => journal[Pr].phase = "published"
    /\ t.step \in Publishing \cup {"observe"} =>
           /\ t.head = ci[Pr].current
           /\ IF t.goal \in {"repair", "recover"}
                THEN journal[Pr].phase = "pushed" /\ ci[Pr].phase = "second-wait"
                ELSE journal[Pr].phase = "published" /\ t.goal \in {"waiting-ci", "ready"}
    /\ t.step \in {"label", "labelling", "settle"} => late \/ shown.comment = t.head
    /\ t.step = "settle" => late \/ shown.label = t.head

\* A repair push has the goal it was begun with.
GoalKept ==
    \A r \in Run : task[r].step \in {"authorize", "check", "send", "sending", "mark",
                                     "claim", "converge"}
                       => task[r].goal \in {"repair", "recover"}

OwnerKept == \A r \in Run : owner = r => Reached(task[r])

RepairKept ==
    /\ LeaseKept
    /\ OnlyPr
    /\ ContinuationKept
    /\ JournalKept
    /\ PushKept
    /\ GoalKept
    /\ OwnerKept

RepairInv == RepairTypeOK /\ RepairKept

-----------------------------------------------------------------------------
(* The handlers use the store.                                             *)

\* A command, once begun, makes one operation of the store in a step, or none.
LEMMA ContinueUsesStore ==
  ASSUME RepairTypeOK, NEW r \in Run, Continue(r)
  PROVE  [StoreNext]_storeVars
<1>0. /\ ci[Pr].current \in MaybeHead /\ ci[Pr].repair \in MaybeHead
      /\ journal[Pr].new \in MaybeHead /\ task[r].head \in MaybeHead /\ Pr \in WorkId
  BY RepairAssumption DEF RepairTypeOK, StoreTypeOK, CiContinuation, PushJournal
<1>1. SUFFICES \/ UNCHANGED storeVars
               \/ LeaveGuard(r) \/ CiOp(r, Pr) \/ PushOp(r, Pr)
  BY <1>0 DEF StoreNext
<1>2. CASE AdoptFirst(r)
  BY <1>2 DEF AdoptFirst, CiOp
<1>3. CASE WriteActive(r)
  BY <1>0, <1>3, StoreAssumption DEF WriteActive, CiOp, CiPhase, MaybeHead
<1>4. CASE WriteReviewed(r)
  BY <1>0, <1>4 DEF WriteReviewed, CiOp, CiPhase
<1>5. CASE WriteInvalidated(r)
  BY <1>0, <1>5 DEF WriteInvalidated, CiOp, CiPhase
<1>6. CASE Authorize(r)
  BY <1>0, <1>6 DEF Authorize, PushOp
<1>7. CASE Check(r) \/ PushArrives(r) \/ Observe(r) \/ Refuse(r)
  BY <1>7 DEF Check, PushArrives, Observe, Refuse
<1>8. CASE Send(r)
  BY <1>8 DEF Send, PushOp
<1>9. CASE PushReturns(r)
  BY <1>9 DEF PushReturns
<1>10. CASE Mark(r)
  BY <1>10 DEF Mark, PushOp
<1>11. CASE Claim(r)
  BY <1>11 DEF Claim, CiOp
<1>12. CASE Converge(r)
  BY <1>0, <1>12 DEF Converge, CiOp, CiPhase
<1>13. CASE Present(r, "comment", "commenting") \/ Present(r, "label", "labelling")
  BY <1>13 DEF Present, PushOp
<1>14. CASE Presented(r)
  BY <1>14 DEF Presented
<1>15. CASE Settle(r)
  BY <1>0, <1>15 DEF Settle, CiOp, PushOp, CiPhase
<1> QED BY <1>2, <1>3, <1>4, <1>5, <1>6, <1>7, <1>8, <1>9, <1>10, <1>11, <1>12, <1>13,
           <1>14, <1>15 DEF Continue

\* Every step of the repair is one operation of the store, or leaves it alone.
LEMMA RepairUsesStore ==
  ASSUME RepairTypeOK, [RepairNext]_repairVars
  PROVE  [StoreNext]_storeVars
<1>1. CASE \E r \in Run : Begin(r)
  <2> PICK r \in Run : Begin(r)
    BY <1>1
  <2>1. branch \in MaybeHead /\ Pr \in WorkId
    BY RepairAssumption DEF RepairTypeOK, MaybeHead
  <2>2. UNCHANGED storeVars \/ CiOp(r, Pr) \/ PushOp(r, Pr)
    BY <2>1 DEF Begin, PrepareRepair, CheckpointRepair, InvalidateContinuation, RepairStart,
                RecoverRepair, StateStart, CiOp, PushOp
  <2> QED BY <2>1, <2>2 DEF StoreNext
<1>2. CASE \E r \in Run : Continue(r)
  BY <1>2, ContinueUsesStore
<1>3. CASE \E r \in Run : Stop(r) \/ Acquire(r)
  BY <1>3 DEF Stop, Acquire, StoreNext
<1>4. CASE Yield
  BY <1>4 DEF Yield, StoreNext
<1>5. CASE \/ CommitRepair \/ OrphanArrives
           \/ AuthorPushes \/ PullRequestFollows \/ PullRequestChanges
  BY <1>5 DEF CommitRepair, OrphanArrives, AuthorPushes, PullRequestFollows,
              PullRequestChanges
<1>6. CASE UNCHANGED repairVars
  BY <1>6 DEF repairVars
<1> QED BY <1>1, <1>2, <1>3, <1>4, <1>5, <1>6 DEF RepairNext

-----------------------------------------------------------------------------
(* The start, and the types.                                               *)

\* The semantic head waits, and nobody has a command.
LEMMA RepairInitInv == RepairInit => RepairInv
<1> SUFFICES ASSUME RepairInit PROVE RepairInv
  OBVIOUS
<1> USE RepairAssumption, StoreAssumption DEF RepairInit
<1> DEFINE j == [phase |-> "published", origin |-> FirstRun, recovery |-> FirstRun,
                 expected |-> Before, new |-> Semantic]
<1>1. /\ NoWork \in WorkState /\ j \in PushJournal /\ NoIntent \in Intent
      /\ InitialCi(FirstRun, Semantic) \in CiContinuation
  BY DEF NoWork, WorkState, WorkPhase, PushJournal, PushPhase, NoIntent, Intent, IntentPhase,
         InitialCi, NoCi, CiContinuation, CiPhase, MaybeRun, MaybeHead
<1>2. StoreTypeOK
  BY <1>1 DEF StoreTypeOK, MaybeRun, MaybeHead
<1>3. NoTask \in [step : Step, goal : Goal, head : MaybeHead] /\ NoTask.step = "idle"
  BY DEF NoTask, Step, Goal, MaybeHead
<1>4. RepairTypeOK
  <2>1. task \in [Run -> [step : Step, goal : Goal, head : MaybeHead]]
    BY <1>3
  <2>2. shown \in [comment : MaybeHead, label : MaybeHead] /\ stops \in 0..MaxStops
    BY DEF MaybeHead
  <2>3. push \in [Run -> {"none", "sent", "ok", "rejected"}]
    OBVIOUS
  <2> QED BY <1>2, <2>1, <2>2, <2>3 DEF RepairTypeOK
<1>5. ci[Pr] = InitialCi(FirstRun, Semantic) /\ journal[Pr] = j
  OBVIOUS
<1>6. ContinuationKept /\ JournalKept
  BY <1>5 DEF InitialCi, ContinuationKept, WellFormedCi, JournalKept, NotAuthorized
<1>7. OnlyPr
  BY DEF OnlyPr, NoIntent
<1>8. LeaseKept /\ PushKept /\ GoalKept
  BY <1>3 DEF LeaseKept, PushKept, GoalKept
<1>9. OwnerKept
  <2>1. Reached(NoTask)
    BY <1>3 DEF Reached, Publishing
  <2> QED BY <2>1 DEF OwnerKept
<1> QED BY <1>4, <1>6, <1>7, <1>8, <1>9 DEF RepairInv, RepairKept

\* A task with a legal step, goal and head is a legal task.
LEMMA StartType ==
  ASSUME RepairTypeOK, NEW r \in Run, NEW goal \in Goal, NEW step \in Step,
         NEW h \in MaybeHead, Start(r, goal, step, h)
  PROVE  task' \in [Run -> [step : Step, goal : Goal, head : MaybeHead]]
  BY DEF Start, RepairTypeOK

\* A command that goes on or ends keeps a legal task.
LEMMA GotoType ==
  ASSUME RepairTypeOK, NEW r \in Run, NEW step \in Step, Goto(r, step) \/ Done(r)
  PROVE  task' \in [Run -> [step : Step, goal : Goal, head : MaybeHead]]
<1>1. NoTask \in [step : Step, goal : Goal, head : MaybeHead]
  BY DEF NoTask, Step, Goal, MaybeHead
<1> QED BY <1>1 DEF Goto, Done, RepairTypeOK

\* The first step of a command keeps the types.
LEMMA BeginType ==
  ASSUME RepairInv, StoreTypeOK', NEW r \in Run, Begin(r)
  PROVE  RepairTypeOK'
<1> USE DEF RepairInv
<1>0. /\ ci[Pr].current \in MaybeHead /\ ci[Pr].repair \in MaybeHead
      /\ journal[Pr].new \in MaybeHead /\ NoHead \in MaybeHead /\ tree \in MaybeHead
      /\ ci[Pr].phase = "repair-reviewed" => ci[Pr].repair \in Head
  BY RepairAssumption DEF RepairTypeOK, StoreTypeOK, CiContinuation, PushJournal, MaybeHead,
     RepairKept, ContinuationKept, WellFormedCi
<1>1. /\ UNCHANGED <<branch, landed, prHead, pr, shown, late, push, orphans, stops>>
      /\ tree' \in Head
  BY <1>0 DEF Begin, PrepareRepair, CheckpointRepair, InvalidateContinuation, RepairStart,
              RecoverRepair, StateStart, Detach, RepairTypeOK, remoteVars, pullVars,
              pushingVars
<1>2. \E goal \in Goal, step \in Step, h \in MaybeHead : Start(r, goal, step, h)
  BY <1>0 DEF Begin, PrepareRepair, CheckpointRepair, InvalidateContinuation, RepairStart,
              RecoverRepair, StateStart, Goal, Step
<1> QED BY <1>1, <1>2, StartType DEF RepairTypeOK

\* What a command that has begun changes outside the store keeps its type.
LEMMA ContinueType ==
  ASSUME RepairInv, StoreTypeOK', NEW r \in Run, Continue(r)
  PROVE  RepairTypeOK'
<1> USE DEF RepairInv
<1>0. /\ ci[Pr].repair \in MaybeHead /\ journal[Pr].new \in MaybeHead
      /\ task[r].head \in MaybeHead
      /\ ci[Pr].phase \in {"repair-reviewed", "second-wait"} => ci[Pr].repair \in Head
  BY RepairAssumption DEF RepairTypeOK, StoreTypeOK, CiContinuation, PushJournal, MaybeHead,
     RepairKept, ContinuationKept, WellFormedCi
<1>1. UNCHANGED <<prHead, pr, stops>>
  BY DEF Continue, AdoptFirst, WriteActive, WriteReviewed, WriteInvalidated, Writes, Authorize,
         Check, Send, PushArrives, PushReturns, Mark, Claim, Converge, Observe, Present,
         Presented, Settle, Refuse, pullVars, pushingVars
<1>2. orphans' = orphans
  BY DEF Continue, AdoptFirst, WriteActive, WriteReviewed, WriteInvalidated, Writes, Authorize,
         Check, Send, PushArrives, PushReturns, Mark, Claim, Converge, Observe, Present,
         Presented, Settle, Refuse, pushingVars
<1>3. CASE PushArrives(r)
  <2>1. push[r] # "none"
    BY <1>3 DEF PushArrives
  <2>2. journal[Pr].new \in Head
    BY <2>1, RepairAssumption DEF RepairKept, PushKept, Authorized
  <2>3. branch' \in Head /\ landed' \subseteq Head
    BY <1>3, <2>2 DEF PushArrives, Land, Packet, RepairTypeOK, remoteVars
  <2>4. push' \in [Run -> {"none", "sent", "ok", "rejected"}]
    BY <1>3 DEF PushArrives, RepairTypeOK
  <2> QED BY <1>1, <1>2, <1>3, <2>3, <2>4 DEF PushArrives, RepairTypeOK, pullVars
<1>4. CASE ~PushArrives(r)
  <2>1. branch' = branch /\ landed' = landed
    BY <1>4 DEF Continue, AdoptFirst, WriteActive, WriteReviewed, WriteInvalidated, Writes,
                Authorize, Check, Send, PushReturns, Mark, Claim, Converge, Observe, Present,
                Presented, Settle, Refuse, remoteVars
  <2>2. tree' \in Head
    <3>1. Check(r) => ci[Pr].repair \in Head
      BY <1>0 DEF Check, Go, MayGoOn, Matches, HasIdentity
    <3> QED BY <1>0, <1>4, <3>1 DEF Continue, AdoptFirst, WriteActive, WriteReviewed,
               WriteInvalidated, Writes, Authorize, Check, Send, PushReturns, Mark, Claim,
               Converge, Observe, Present, Presented, Settle, Refuse, RepairTypeOK
  <2>3. push' \in [Run -> {"none", "sent", "ok", "rejected"}]
    BY <1>4 DEF Continue, AdoptFirst, WriteActive, WriteReviewed, WriteInvalidated, Writes,
                Authorize, Check, Send, PushReturns, Mark, Claim, Converge, Observe, Present,
                Presented, Settle, Refuse, pushingVars, RepairTypeOK
  <2>4. UNCHANGED task \/ Done(r) \/ \E step \in Step : Goto(r, step)
    <3> DEFINE Goes == UNCHANGED task \/ Done(r) \/ \E step \in Step : Goto(r, step)
    <3>1. CASE AdoptFirst(r) \/ WriteActive(r) \/ WriteReviewed(r) \/ WriteInvalidated(r)
      BY <3>1 DEF AdoptFirst, WriteActive, WriteReviewed, WriteInvalidated, Writes
    <3>2. CASE Send(r)
      BY <3>2 DEF Send, Step
    <3>3. CASE Authorize(r) \/ Check(r) \/ PushReturns(r) \/ Mark(r) \/ Claim(r) \/ Converge(r)
      BY <3>3 DEF Authorize, Check, PushReturns, Mark, Claim, Converge, Step
    <3>4. CASE \/ Observe(r) \/ Presented(r) \/ Settle(r) \/ Refuse(r)
               \/ Present(r, "comment", "commenting") \/ Present(r, "label", "labelling")
      BY <3>4 DEF Observe, Present, Presented, Settle, Refuse, Step
    <3> QED BY <1>4, <3>1, <3>2, <3>3, <3>4 DEF Continue
  <2>5. task' \in [Run -> [step : Step, goal : Goal, head : MaybeHead]]
    BY <2>4, GotoType DEF RepairTypeOK
  <2>6. shown' \in [comment : MaybeHead, label : MaybeHead] /\ late' \in BOOLEAN
    <3>1. CASE Presented(r)
      BY <1>0, <3>1 DEF Presented, RepairTypeOK
    <3>2. CASE ~Presented(r)
      BY <1>4, <3>2 DEF Continue, AdoptFirst, WriteActive, WriteReviewed, WriteInvalidated,
           Writes, Authorize, Check, Send, PushReturns, Mark, Claim, Converge, Observe, Present,
           Settle, Refuse, pullVars, RepairTypeOK
    <3> QED BY <3>1, <3>2
  <2> QED BY <1>1, <1>2, <2>1, <2>2, <2>3, <2>5, <2>6 DEF RepairTypeOK
<1> QED BY <1>3, <1>4

\* A step keeps the types.
LEMMA RepairType ==
  ASSUME RepairInv, [RepairNext]_repairVars
  PROVE  RepairTypeOK'
<1>0. StoreTypeOK'
  BY RepairUsesStore, StoreNextType DEF RepairInv, RepairTypeOK
<1> USE DEF RepairInv
<1>1. CASE \E r \in Run : Begin(r)
  BY <1>0, <1>1, BeginType
<1>2. CASE \E r \in Run : Continue(r)
  BY <1>0, <1>2, ContinueType
<1>3. CASE \E r \in Run : Stop(r)
  <2> PICK r \in Run : Stop(r)
    BY <1>3
  <2>1. task' \in [Run -> [step : Step, goal : Goal, head : MaybeHead]]
    BY GotoType DEF Stop, Step
  <2>2. push[r] = "sent" => Packet \in [old : Head, new : Head]
    BY RepairAssumption DEF RepairKept, PushKept, Authorized, Packet
  <2>3. stops' \in 0..MaxStops
    BY RepairAssumption DEF Stop, RepairTypeOK
  <2>4. push' \in [Run -> {"none", "sent", "ok", "rejected"}]
    BY DEF Stop, RepairTypeOK
  <2> QED BY <1>0, <2>1, <2>2, <2>3, <2>4 DEF Stop, RepairTypeOK, remoteVars, pullVars
<1>4. CASE \E r \in Run : Acquire(r)
  BY <1>0, <1>4 DEF Acquire, RepairTypeOK, remoteVars, pullVars, pushingVars
<1>5. CASE Yield
  <2>1. stops' \in 0..MaxStops
    BY <1>5, RepairAssumption DEF Yield, RepairTypeOK
  <2> QED BY <1>0, <1>5, <2>1 DEF Yield, RepairTypeOK, remoteVars, pullVars
<1>6. CASE CommitRepair
  BY <1>0, <1>6, RepairAssumption DEF CommitRepair, RepairTypeOK, remoteVars, pullVars,
     pushingVars
<1>7. CASE OrphanArrives
  BY <1>0, <1>7 DEF OrphanArrives, Land, RepairTypeOK, remoteVars, pullVars
<1>8. CASE AuthorPushes
  BY <1>0, <1>8, RepairAssumption DEF AuthorPushes, RepairTypeOK, pullVars, pushingVars
<1>9. CASE PullRequestFollows \/ PullRequestChanges
  BY <1>0, <1>9 DEF PullRequestFollows, PullRequestChanges, RepairTypeOK, remoteVars,
                    pushingVars
<1>10. CASE UNCHANGED repairVars
  BY <1>0, <1>10 DEF repairVars, RepairTypeOK, remoteVars, pullVars, pushingVars
<1> QED BY <1>1, <1>2, <1>3, <1>4, <1>5, <1>6, <1>7, <1>8, <1>9, <1>10 DEF RepairNext

-----------------------------------------------------------------------------
(* What the steps leave alone.                                             *)

\* The private records say the same as before, whoever may write them next.
SameRecords ==
    /\ intent' = intent
    /\ \A w \in WorkId : /\ journal'[w].phase = journal[w].phase
                         /\ journal'[w].expected = journal[w].expected
                         /\ journal'[w].new = journal[w].new
    /\ ci'[Pr].semantic = ci[Pr].semantic
    /\ ci'[Pr].phase = ci[Pr].phase
    /\ ci'[Pr].current = ci[Pr].current
    /\ ci'[Pr].repair = ci[Pr].repair

\* Adopting a record, and taking or leaving the mutex, change nothing else.
LEMMA AdoptionKeepsRecords ==
  ASSUME RepairTypeOK, NEW r \in Run,
         \/ UNCHANGED storeVars \/ LeaveGuard(r) \/ EnterPushGuard(r, Pr)
         \/ AdoptCi(r, Pr) \/ AdoptCiForPush(r, Pr) \/ \E h \in Head : AdoptPush(r, Pr, h)
  PROVE  SameRecords /\ UNCHANGED <<owner, used>> /\ mutex' \in {mutex, owner, NoRun}
<1>0. /\ ci \in [WorkId -> CiContinuation] /\ journal \in [WorkId -> PushJournal]
      /\ Pr \in WorkId
  BY RepairAssumption DEF RepairTypeOK, StoreTypeOK
<1>1. CASE UNCHANGED <<journal, ci>>
  BY <1>1 DEF SameRecords, Owns, OwnsCuration, LeaveGuard, EnterPushGuard, AdoptCi,
              AdoptCiForPush, AdoptPush, storeVars, leaseVars, ciVars, intentVars
<1>2. CASE AdoptCi(r, Pr) \/ AdoptCiForPush(r, Pr)
  BY <1>0, <1>2 DEF SameRecords, AdoptCi, AdoptCiForPush, CiContinuation, leaseVars, intentVars
<1>3. CASE \E h \in Head : AdoptPush(r, Pr, h)
  BY <1>0, <1>3 DEF SameRecords, AdoptPush, PushJournal, leaseVars, ciVars, intentVars
<1> QED BY <1>1, <1>2, <1>3 DEF LeaveGuard, EnterPushGuard, storeVars, ciVars

\* What is said of the records holds as long as nobody changes them, or the
\* comment and the label.
LEMMA RecordsStand ==
  ASSUME OnlyPr, ContinuationKept, JournalKept, SameRecords, UNCHANGED <<shown, late>>
  PROVE  /\ OnlyPr' /\ ContinuationKept' /\ JournalKept'
         /\ Authorized' <=> Authorized
         /\ NotAuthorized' <=> NotAuthorized
<1>0. Pr \in WorkId
  BY RepairAssumption
<1>1. Authorized' <=> Authorized
  BY <1>0 DEF SameRecords, Authorized, RepairShown
<1>2. NotAuthorized' <=> NotAuthorized
  BY <1>0 DEF SameRecords, NotAuthorized
<1>3. ContinuationKept'
  BY DEF SameRecords, ContinuationKept, WellFormedCi
<1>4. OnlyPr'
  BY DEF SameRecords, OnlyPr
<1> QED BY <1>1, <1>2, <1>3, <1>4 DEF JournalKept

\* The command of one run moves on, or ends, and the records do not change: how
\* far the command is has to be shown, and only for the owner of the lease.
LEMMA CommandMoves ==
  ASSUME RepairInv, NEW r \in Run, NEW t, task' = [task EXCEPT ![r] = t],
         SameRecords, UNCHANGED <<owner, used, orphans, landed, shown, late>>,
         mutex' \in {mutex, owner, NoRun},
         t # NoTask => r \in used,
         \A q \in Run : push'[q] # "none" => Authorized /\ task'[q].step = "sending",
         t.step \in {"authorize", "check", "send", "sending", "mark", "claim", "converge"}
             => t.goal \in {"repair", "recover"},
         owner = r => Reached(t)
  PROVE  RepairKept'
<1> USE DEF RepairInv, RepairKept
<1>1. /\ OnlyPr' /\ ContinuationKept' /\ JournalKept'
      /\ Authorized' <=> Authorized
      /\ NotAuthorized' <=> NotAuthorized
  BY RecordsStand
<1>2. task'[r] = t /\ \A q \in Run : q # r => task'[q] = task[q]
  BY DEF RepairTypeOK
<1>3. LeaseKept'
  BY <1>2 DEF LeaseKept
<1>4. PushKept'
  BY <1>1 DEF PushKept, SameRecords
<1>5. GoalKept'
  BY <1>2 DEF GoalKept
<1>6. OwnerKept'
  <2> SUFFICES ASSUME NEW q \in Run, owner = q PROVE Reached(task[q])'
    BY DEF OwnerKept
  <2>1. Reached(task'[q])
    BY <1>2 DEF OwnerKept
  <2>2. Pr \in WorkId
    BY RepairAssumption
  <2> QED BY <1>1, <2>1, <2>2 DEF Reached, SameRecords
<1> QED BY <1>1, <1>3, <1>4, <1>5, <1>6

\* A command that waits for no git push may take any step but one that sends.
LEMMA NothingSent ==
  ASSUME RepairInv, NEW r \in Run, NEW t, task' = [task EXCEPT ![r] = t],
         task[r].step # "sending", push' = push
  PROVE  \A q \in Run : push'[q] # "none" => Authorized /\ task'[q].step = "sending"
<1>1. \A q \in Run : q # r => task'[q] = task[q]
  BY DEF RepairInv, RepairTypeOK
<1> QED BY <1>1 DEF RepairInv, RepairKept, PushKept

-----------------------------------------------------------------------------
(* One lemma per kind of step.                                             *)

\* A command begins: what it reads has to establish where it starts.
LEMMA CommandBegins ==
  ASSUME RepairInv, NEW r \in Run, NEW goal, NEW step, NEW h, Start(r, goal, step, h),
         SameRecords, mutex' \in {mutex, owner, NoRun},
         UNCHANGED <<owner, used, orphans, landed, shown, late, push>>,
         step \in {"authorize", "check"} => goal \in {"repair", "recover"},
         step \in {"write", "authorize", "check", "observe"},
         Reached([step |-> step, goal |-> goal, head |-> h])
  PROVE  RepairKept'
<1> DEFINE t == [step |-> step, goal |-> goal, head |-> h]
<1>1. /\ task' = [task EXCEPT ![r] = t] /\ owner = r
      /\ task[r].step # "sending" /\ r \in used
  BY StoreAssumption DEF Start, NoTask, RepairInv, RepairKept, LeaseKept
<1>2. t.step = step /\ t.goal = goal
  OBVIOUS
<1> HIDE DEF t
<1>3. \A q \in Run : push'[q] # "none" => Authorized /\ task'[q].step = "sending"
  BY <1>1, NothingSent
<1> QED BY <1>1, <1>2, <1>3, CommandMoves DEF t

\* Whether the records are settled can be read off the journal of the pull
\* request and its continuation.
LEMMA Settled ==
  ASSUME RepairInv
  PROVE  /\ journal[Pr].phase # "published" <=> Unresolved = {Pr}
         /\ Unresolved \in {{}, {Pr}} /\ UnresolvedTerminal = {}
         /\ ci[Pr].repair = NoHead => NotAuthorized
         /\ ci[Pr].phase \in {"initial-wait", "repair-active"} => NotAuthorized
         /\ ci[Pr].phase = "second-wait" => /\ Authorized
                                            /\ ci[Pr].current = journal[Pr].new
<1>0. Pr \in WorkId /\ NoHead \notin Repairs
  BY RepairAssumption, StoreAssumption
<1>1. journal[Pr].phase \in {"authorized", "pushed", "published"}
  BY DEF RepairInv, RepairKept, JournalKept, NotAuthorized, Authorized
<1>2. /\ UnresolvedTerminal = {}
      /\ journal[Pr].phase = "published" => Unresolved = {}
      /\ journal[Pr].phase # "published" => Unresolved = {Pr}
  BY <1>0, <1>1 DEF RepairInv, RepairKept, OnlyPr, UnresolvedTerminal, Unresolved
<1>3. ci[Pr].phase \in {"initial-wait", "repair-active"} => ci[Pr].repair = NoHead
  BY DEF RepairInv, RepairKept, ContinuationKept, WellFormedCi
<1>4. ci[Pr].phase = "second-wait" => ci[Pr].current = ci[Pr].repair
  BY DEF RepairInv, RepairKept, ContinuationKept, WellFormedCi
<1>5. ci[Pr].repair = NoHead => NotAuthorized
  BY <1>0 DEF RepairInv, RepairKept, JournalKept, Authorized
<1>6. ci[Pr].phase = "second-wait" => Authorized /\ ci[Pr].repair = journal[Pr].new
  BY DEF RepairInv, RepairKept, JournalKept, NotAuthorized, Authorized
<1> QED BY <1>2, <1>3, <1>4, <1>5, <1>6

\* prepare, checkpoint and invalidate find no unresolved push.
LEMMA WriteBegins ==
  ASSUME RepairInv, NEW r \in Run,
         PrepareRepair(r) \/ CheckpointRepair(r) \/ InvalidateContinuation(r)
  PROVE  RepairKept'
<1>1. /\ Clear /\ UNCHANGED storeVars
      /\ UNCHANGED <<orphans, landed, shown, late, push>>
  BY DEF PrepareRepair, CheckpointRepair, InvalidateContinuation, remoteVars, pullVars,
         pushingVars
<1>2. \E goal, h : /\ Start(r, goal, "write", h)
                   /\ goal = "checkpoint" => h \in Repairs
  BY DEF PrepareRepair, CheckpointRepair, InvalidateContinuation, Checkpointable
<1> PICK goal, h : /\ Start(r, goal, "write", h)
                   /\ goal = "checkpoint" => h \in Repairs
  BY <1>2
<1>3. SameRecords /\ UNCHANGED <<owner, used>> /\ mutex' \in {mutex, owner, NoRun}
  BY <1>1, AdoptionKeepsRecords DEF RepairInv
<1>4. journal[Pr].phase = "published"
  BY <1>1, Settled DEF Clear
<1>5. Reached([step |-> "write", goal |-> goal, head |-> h])
  BY <1>2, <1>4 DEF Reached, Publishing
<1> QED BY <1>1, <1>3, <1>5, CommandBegins

\* publish ci-repair begins with a reviewed repair and a settled journal.
LEMMA RepairBegins ==
  ASSUME RepairInv, NEW r \in Run, RepairStart(r)
  PROVE  RepairKept'
<1>1. /\ Start(r, "repair", "authorize", ci[Pr].repair) /\ UNCHANGED storeVars
      /\ UNCHANGED <<orphans, landed, shown, late, push>>
      /\ ci[Pr].phase = "repair-reviewed" /\ journal[Pr].phase = "published"
  BY DEF RepairStart, remoteVars, pullVars, pushingVars
<1>2. SameRecords /\ UNCHANGED <<owner, used>> /\ mutex' \in {mutex, owner, NoRun}
  BY <1>1, AdoptionKeepsRecords DEF RepairInv
<1>3. NotAuthorized
  BY <1>1 DEF RepairInv, RepairKept, JournalKept, Authorized, TerminalCi
<1>4. Reached([step |-> "authorize", goal |-> "repair", head |-> ci[Pr].repair])
  BY <1>1, <1>3 DEF Reached, Publishing
<1> QED BY <1>1, <1>2, <1>4, CommandBegins

\* publish recover begins with the unresolved journal.
LEMMA RecoverBegins ==
  ASSUME RepairInv, NEW r \in Run, RecoverRepair(r)
  PROVE  RepairKept'
<1>1. /\ Start(r, "recover", "check", journal[Pr].new) /\ Unresolved = {Pr}
      /\ UNCHANGED <<orphans, landed, shown, late, push>>
      /\ UNCHANGED storeVars \/ AdoptPush(r, Pr, branch)
  BY DEF RecoverRepair, remoteVars, pullVars, pushingVars
<1>2. SameRecords /\ UNCHANGED <<owner, used>> /\ mutex' \in {mutex, owner, NoRun}
  BY <1>1, AdoptionKeepsRecords DEF RepairInv, RepairTypeOK
<1>3. journal[Pr].phase # "published"
  BY <1>1, Settled
<1>4. Reached([step |-> "check", goal |-> "recover", head |-> journal[Pr].new])
  BY <1>1, <1>3 DEF Reached, Publishing
<1> QED BY <1>1, <1>2, <1>4, CommandBegins

\* publish state begins with a head that waits, and that no unresolved push is
\* about: what Converged checks for this pull request is all there is.
LEMMA StateBegins ==
  ASSUME RepairInv, NEW r \in Run, NEW goal, StateStart(r, goal)
  PROVE  RepairKept'
<1>1. /\ Start(r, goal, "observe", ci[Pr].current) /\ goal \in {"waiting-ci", "ready"}
      /\ Converged /\ Waits
      /\ UNCHANGED <<orphans, landed, shown, late, push>>
      /\ UNCHANGED storeVars \/ AdoptCi(r, Pr)
  BY DEF StateStart, remoteVars, pullVars, pushingVars
<1>2. SameRecords /\ UNCHANGED <<owner, used>> /\ mutex' \in {mutex, owner, NoRun}
  BY <1>1, AdoptionKeepsRecords DEF RepairInv
<1>3. journal[Pr].phase = "published"
  <2>1. CASE ci[Pr].phase = "initial-wait"
    BY <2>1, Settled DEF NotAuthorized
  <2>2. CASE ci[Pr].phase = "second-wait"
    <3>1. HasIdentity
      BY <2>2, Settled DEF HasIdentity, Authorized, RepairInv, RepairKept, ContinuationKept
    <3> QED BY <1>1, <3>1 DEF Converged
  <2> QED BY <1>1, <2>1, <2>2 DEF Waits
<1>4. Reached([step |-> "observe", goal |-> goal, head |-> ci[Pr].current])
  BY <1>1, <1>3 DEF Reached, Publishing
<1> QED BY <1>1, <1>2, <1>4, CommandBegins

\* A command goes on to a step it has established.
LEMMA CommandGoes ==
  ASSUME RepairInv, NEW r \in Run, NEW step, Goto(r, step), task[r].step # "idle",
         SameRecords, UNCHANGED <<owner, used, orphans, landed, shown, late>>,
         mutex' \in {mutex, owner, NoRun},
         \A q \in Run : push'[q] # "none" => Authorized /\ task'[q].step = "sending",
         step \in {"authorize", "check", "send", "sending", "mark", "claim", "converge"}
             => task[r].goal \in {"repair", "recover"},
         owner = r => Reached([task[r] EXCEPT !.step = step])
  PROVE  RepairKept'
<1> DEFINE t == [task[r] EXCEPT !.step = step]
<1>1. task[r] \in [step : Step, goal : Goal, head : MaybeHead]
  BY DEF RepairInv, RepairTypeOK
<1>2. task' = [task EXCEPT ![r] = t] /\ t.step = step /\ t.goal = task[r].goal
  BY <1>1 DEF Goto
<1>3. r \in used
  BY DEF NoTask, RepairInv, RepairKept, LeaseKept
<1> HIDE DEF t
<1> QED BY <1>2, <1>3, CommandMoves DEF t

\* A command ends, with an error or not.
LEMMA CommandIsOver ==
  ASSUME RepairInv, NEW r \in Run, Done(r),
         SameRecords, UNCHANGED <<owner, used, orphans, landed, shown, late>>,
         mutex' \in {mutex, owner, NoRun},
         \A q \in Run : push'[q] # "none" => Authorized /\ task'[q].step = "sending"
  PROVE  RepairKept'
<1>1. Reached(NoTask) /\ NoTask.step = "idle"
  BY DEF Reached, NoTask, Publishing
<1>2. task' = [task EXCEPT ![r] = NoTask]
  BY DEF Done
<1> QED BY <1>1, <1>2, CommandMoves

\* The owner of the lease writes a record: what is said of the records has to
\* be shown, and where the command is.
LEMMA OwnerWrites ==
  ASSUME RepairInv, NEW r \in Run, owner = r, task[r].step # "sending",
         \A q \in Run : q # r => task'[q] = task[q],
         UNCHANGED <<owner, used, mutex, orphans, landed, push>>,
         OnlyPr', ContinuationKept', JournalKept',
         Authorized => Authorized' /\ ci'[Pr].repair = ci[Pr].repair,
         task'[r].step \in {"authorize", "check", "send", "sending", "mark", "claim",
                            "converge"}
             => task'[r].goal \in {"repair", "recover"},
         Reached(task[r])'
  PROVE  RepairKept'
<1> USE DEF RepairInv, RepairKept
<1>1. r \in used
  BY StoreAssumption DEF LeaseKept
<1>2. LeaseKept'
  BY <1>1 DEF LeaseKept
<1>3. PushKept'
  BY DEF PushKept
<1>4. GoalKept'
  BY DEF GoalKept
<1>5. OwnerKept'
  BY DEF OwnerKept
<1> QED BY <1>2, <1>3, <1>4, <1>5

\* The steps that write nothing: they read, adopt, or take the mutex.
LEMMA ReadingStep ==
  ASSUME RepairInv, NEW r \in Run,
         \/ AdoptFirst(r) \/ Check(r) \/ Claim(r) \/ Observe(r) \/ Refuse(r)
         \/ Present(r, "comment", "commenting") \/ Present(r, "label", "labelling")
  PROVE  RepairKept'
<1>0. /\ task[r] \in [step : Step, goal : Goal, head : MaybeHead]
      /\ task \in [Run -> [step : Step, goal : Goal, head : MaybeHead]]
      /\ task[r].step \in {"check", "claim"} => task[r].goal \in {"repair", "recover"}
      /\ owner = r => Reached(task[r])
  BY DEF RepairInv, RepairTypeOK, RepairKept, GoalKept, OwnerKept
<1>1. UNCHANGED <<orphans, landed, shown, late, push>>
  BY DEF AdoptFirst, Check, Claim, Observe, Refuse, Present, remoteVars, pullVars, pushingVars
<1>2. \/ UNCHANGED storeVars \/ EnterPushGuard(r, Pr)
      \/ AdoptCi(r, Pr) \/ AdoptCiForPush(r, Pr)
  BY DEF AdoptFirst, Check, Claim, Observe, Refuse, Present
<1>3. SameRecords /\ UNCHANGED <<owner, used>> /\ mutex' \in {mutex, owner, NoRun}
  BY <1>2, AdoptionKeepsRecords DEF RepairInv
<1>4. ASSUME NEW t, task' = [task EXCEPT ![r] = t], task[r].step # "sending"
      PROVE  \A q \in Run : push'[q] # "none" => Authorized /\ task'[q].step = "sending"
  BY <1>1, <1>4, NothingSent
<1>5. ASSUME NEW step, Goto(r, step), task[r].step \notin {"idle", "sending"},
             step \in {"authorize", "check", "send", "sending", "mark", "claim", "converge"}
                 => task[r].goal \in {"repair", "recover"},
             owner = r => Reached([task[r] EXCEPT !.step = step])
      PROVE  RepairKept'
  BY <1>1, <1>3, <1>4, <1>5, CommandGoes DEF Goto
<1>6. CASE AdoptFirst(r)
  <2>1. task' = [task EXCEPT ![r] = task[r]] /\ task[r].step = "write"
    BY <1>0, <1>6 DEF AdoptFirst
  <2>2. r \in used
    BY <2>1 DEF NoTask, RepairInv, RepairKept, LeaseKept
  <2> QED BY <1>0, <1>1, <1>3, <1>4, <2>1, <2>2, CommandMoves
<1>7. CASE Check(r)
  <2>1. Goto(r, "send") /\ task[r].step = "check"
    BY <1>7 DEF Check, Go
  <2>2. owner = r => Reached([task[r] EXCEPT !.step = "send"])
    BY <1>0, <2>1 DEF Reached, Publishing
  <2> QED BY <1>0, <1>5, <2>1, <2>2
<1>8. CASE Claim(r)
  <2>1. Goto(r, "converge") /\ task[r].step = "claim"
    BY <1>8 DEF Claim, Go
  <2>2. owner = r => Reached([task[r] EXCEPT !.step = "converge"])
    BY <1>0, <2>1 DEF Reached, Publishing
  <2> QED BY <1>0, <1>5, <2>1, <2>2
<1>9. CASE Observe(r)
  <2>1. Goto(r, "comment") /\ task[r].step = "observe"
    BY <1>9 DEF Observe, Go
  <2>2. owner = r => Reached([task[r] EXCEPT !.step = "comment"])
    BY <1>0, <2>1 DEF Reached, Publishing
  <2> QED BY <1>5, <2>1, <2>2
<1>10. CASE Present(r, "comment", "commenting")
  <2>1. Goto(r, "commenting") /\ task[r].step = "comment"
    BY <1>10 DEF Present, Go
  <2>2. owner = r => Reached([task[r] EXCEPT !.step = "commenting"])
    BY <1>0, <2>1 DEF Reached, Publishing
  <2> QED BY <1>5, <2>1, <2>2
<1>11. CASE Present(r, "label", "labelling")
  <2>1. Goto(r, "labelling") /\ task[r].step = "label"
    BY <1>11 DEF Present, Go
  <2>2. owner = r => Reached([task[r] EXCEPT !.step = "labelling"])
    BY <1>0, <2>1 DEF Reached, Publishing
  <2> QED BY <1>5, <2>1, <2>2
<1>12. CASE Refuse(r)
  <2>1. Done(r) /\ task[r].step # "sending"
    BY <1>12 DEF Refuse, Outside
  <2> QED BY <1>1, <1>3, <1>4, <2>1, CommandIsOver DEF Done
<1> QED BY <1>6, <1>7, <1>8, <1>9, <1>10, <1>11, <1>12

\* What a write of the continuation by the lease owner needs to keep: the
\* journal does not change.
LEMMA OwnerAdvances ==
  ASSUME RepairInv, RepairTypeOK', NEW r \in Run, NEW phase, NEW current, NEW repair,
         AdvanceCi(r, Pr, phase, current, repair),
         task[r].step # "sending",
         \A q \in Run : q # r => task'[q] = task[q],
         UNCHANGED <<orphans, landed, push, shown, late>>,
         repair \in Repairs \cup {NoHead}, phase # "none",
         NotAuthorized => current = Semantic /\ phase # "second-wait",
         Authorized => /\ repair = ci[Pr].repair
                       /\ journal[Pr].phase = "authorized" => phase = "repair-reviewed"
                       /\ journal[Pr].phase = "pushed"
                              => phase \in {"repair-reviewed", "second-wait"}
                       /\ journal[Pr].phase = "published"
                              => /\ phase \in {"second-wait"} \cup TerminalCi
                                 /\ current = ci[Pr].current,
         task'[r].step \in {"authorize", "check", "send", "sending", "mark", "claim",
                            "converge"}
             => task'[r].goal \in {"repair", "recover"},
         Reached(task[r])'
  PROVE  RepairKept'
<1> DEFINE c == [ci[Pr] EXCEPT !.phase = phase, !.current = current, !.repair = repair]
<1>1. /\ owner = r /\ WellFormedCi(c) /\ ci' = [ci EXCEPT ![Pr] = c]
      /\ UNCHANGED <<owner, used, mutex, journal, intent>>
  BY DEF AdvanceCi, OwnsCuration, Owns, leaseVars, intentVars
<1>2. ci[Pr] \in CiContinuation /\ ci' [Pr] = c
  BY <1>1, RepairAssumption DEF RepairInv, RepairTypeOK, StoreTypeOK
<1>3. /\ c.phase = phase /\ c.current = current /\ c.repair = repair
      /\ c.semantic = ci[Pr].semantic
  BY <1>2 DEF CiContinuation
<1> HIDE DEF c
<1>4. OnlyPr'
  BY <1>1 DEF RepairInv, RepairKept, OnlyPr
<1>5. ContinuationKept'
  BY <1>1, <1>2, <1>3 DEF RepairInv, RepairKept, ContinuationKept, WellFormedCi
<1>6. NotAuthorized => NotAuthorized'
  BY <1>1, <1>2, <1>3 DEF NotAuthorized
<1>7. Authorized => Authorized' /\ ci'[Pr].repair = ci[Pr].repair
  BY <1>1, <1>2, <1>3 DEF Authorized, RepairShown
<1>8. JournalKept'
  BY <1>6, <1>7 DEF RepairInv, RepairKept, JournalKept
<1> QED BY <1>1, <1>4, <1>5, <1>7, <1>8, OwnerWrites

\* A finished task leaves the others where they are, and has reached nothing.
LEMMA DoneReaches ==
  ASSUME RepairTypeOK, NEW r \in Run, Done(r)
  PROVE  /\ \A q \in Run : q # r => task'[q] = task[q]
         /\ task'[r].step = "idle"
         /\ Reached(task[r])'
<1>1. task'[r] = NoTask /\ \A q \in Run : q # r => task'[q] = task[q]
  BY DEF Done, RepairTypeOK
<1>2. NoTask.step = "idle"
  BY DEF NoTask
<1> QED BY <1>1, <1>2 DEF Reached, Publishing

\* prepare, checkpoint and invalidate write, and end.
LEMMA WritingStep ==
  ASSUME RepairInv, RepairTypeOK', NEW r \in Run,
         WriteActive(r) \/ WriteReviewed(r) \/ WriteInvalidated(r)
  PROVE  RepairKept'
<1>0. Done(r) /\ task[r].step = "write" /\ UNCHANGED <<orphans, landed, push, shown, late>>
  BY DEF WriteActive, WriteReviewed, WriteInvalidated, Writes, remoteVars, pullVars, pushingVars
<1>1. /\ \A q \in Run : q # r => task'[q] = task[q]
      /\ task'[r].step = "idle"
      /\ Reached(task[r])'
  BY <1>0, DoneReaches DEF RepairInv
<1>2. owner = r => /\ journal[Pr].phase = "published"
                   /\ task[r].goal = "checkpoint" => task[r].head \in Repairs
  BY <1>0 DEF RepairInv, RepairKept, OwnerKept, Reached
<1>3. ci[Pr].repair \in Repairs \cup {NoHead} /\ NoHead \notin Repairs
  BY RepairAssumption, StoreAssumption DEF RepairInv, RepairKept, ContinuationKept
<1>4. CASE WriteActive(r)
  <2>1. CASE AdvanceCi(r, Pr, "repair-active", ci[Pr].current, NoHead)
    <3>1. ci[Pr].phase = "initial-wait"
      BY <2>1 DEF AdvanceCi, NextCi, TerminalCi
    <3>2. NotAuthorized /\ ~Authorized
      BY <3>1, Settled DEF Authorized, NotAuthorized, TerminalCi
    <3>3. ci[Pr].current = Semantic
      BY <3>2 DEF NotAuthorized
    <3> QED BY <1>0, <1>1, <2>1, <3>2, <3>3, OwnerAdvances
  <2>2. CASE UNCHANGED storeVars
    <3>1. SameRecords /\ UNCHANGED <<owner, used>> /\ mutex' \in {mutex, owner, NoRun}
      BY <2>2, AdoptionKeepsRecords DEF RepairInv
    <3>2. \A q \in Run : push'[q] # "none" => Authorized /\ task'[q].step = "sending"
      BY <1>0, NothingSent DEF Done
    <3> QED BY <1>0, <3>1, <3>2, CommandIsOver
  <2> QED BY <1>4, <2>1, <2>2 DEF WriteActive
<1>5. CASE WriteReviewed(r)
  <2>1. /\ AdvanceCi(r, Pr, "repair-reviewed", ci[Pr].current, task[r].head)
        /\ task[r].goal = "checkpoint" /\ owner = r
    BY <1>5 DEF WriteReviewed, Writes, AdvanceCi, OwnsCuration, Owns
  <2>2. ci[Pr].phase = "repair-active"
    BY <2>1 DEF AdvanceCi, NextCi, TerminalCi
  <2>3. NotAuthorized /\ ~Authorized
    BY <2>2, Settled DEF Authorized, NotAuthorized, TerminalCi
  <2>4. ci[Pr].current = Semantic /\ task[r].head \in Repairs
    BY <1>2, <2>1, <2>3 DEF NotAuthorized
  <2> QED BY <1>0, <1>1, <2>1, <2>3, <2>4, OwnerAdvances
<1>6. CASE WriteInvalidated(r)
  <2>1. /\ AdvanceCi(r, Pr, "invalidated", ci[Pr].current, ci[Pr].repair)
        /\ owner = r
    BY <1>6 DEF WriteInvalidated, AdvanceCi, OwnsCuration, Owns
  <2>2. NotAuthorized => ci[Pr].current = Semantic
    BY DEF NotAuthorized
  <2> QED BY <1>0, <1>1, <1>2, <1>3, <2>1, <2>2, OwnerAdvances DEF TerminalCi
<1> QED BY <1>4, <1>5, <1>6

\* What the owner has established for a step is still established in the next
\* state when the task says so there.
LEMMA GotoReaches ==
  ASSUME RepairTypeOK, NEW r \in Run, NEW step, Goto(r, step)
  PROVE  /\ \A q \in Run : q # r => task'[q] = task[q]
         /\ task'[r].step = step
         /\ task'[r].goal = task[r].goal
         /\ task'[r].head = task[r].head
<1>1. task[r] \in [step : Step, goal : Goal, head : MaybeHead]
  BY DEF RepairTypeOK
<1> QED BY <1>1 DEF Goto, RepairTypeOK

\* The journal of the repair replaces that of the semantic head.
LEMMA AuthorizeStep ==
  ASSUME RepairInv, NEW r \in Run, Authorize(r)
  PROVE  RepairKept'
<1> DEFINE j == [phase |-> "authorized", origin |-> r, recovery |-> r,
                 expected |-> ci[Pr].current, new |-> ci[Pr].repair]
<1>1. /\ owner = r /\ task[r].step = "authorize" /\ Goto(r, "check")
      /\ journal' = [journal EXCEPT ![Pr] = j]
      /\ UNCHANGED <<owner, used, mutex, ci, intent, orphans, landed, push, shown, late>>
  BY DEF Authorize, AuthorizePush, Owns, leaseVars, ciVars, intentVars, remoteVars, pullVars,
         pushingVars
<1>2. NotAuthorized /\ ci[Pr].phase = "repair-reviewed"
  BY <1>1 DEF RepairInv, RepairKept, OwnerKept, Reached
<1>3. ci[Pr].repair \in Repairs
  BY <1>2 DEF RepairInv, RepairKept, ContinuationKept, WellFormedCi
<1>4. journal'[Pr] = j /\ \A w \in WorkId : w # Pr => journal'[w] = journal[w]
  BY <1>1, RepairAssumption DEF RepairInv, RepairTypeOK, StoreTypeOK
<1>5. /\ \A q \in Run : q # r => task'[q] = task[q]
      /\ task'[r].step = "check" /\ task'[r].goal = task[r].goal
      /\ task'[r].head = task[r].head
  BY <1>1, GotoReaches DEF RepairInv
<1>6. Authorized'
  BY <1>1, <1>2, <1>3, <1>4 DEF Authorized, NotAuthorized
<1>7. JournalKept'
  BY <1>6 DEF JournalKept
<1>8. OnlyPr' /\ ContinuationKept'
  BY <1>1, <1>4 DEF RepairInv, RepairKept, OnlyPr, ContinuationKept, WellFormedCi
<1>9. task[r].goal \in {"repair", "recover"}
  BY <1>1 DEF RepairInv, RepairKept, GoalKept
<1>10. task[r].head = ci[Pr].repair
  BY <1>1 DEF RepairInv, RepairKept, OwnerKept, Reached
<1>11. Reached(task[r])'
  BY <1>1, <1>4, <1>5, <1>10 DEF Reached, Publishing
<1> QED BY <1>1, <1>5, <1>6, <1>7, <1>8, <1>9, <1>11, OwnerWrites

\* The journal says that the push has landed.
LEMMA MarkStep ==
  ASSUME RepairInv, NEW r \in Run, Mark(r)
  PROVE  RepairKept'
<1>1. /\ owner = r /\ task[r].step = "mark" /\ Goto(r, "claim")
      /\ journal' = [journal EXCEPT ![Pr].phase = NextPush(Pr, @)]
      /\ UNCHANGED <<owner, used, mutex, ci, intent, orphans, landed, push, shown, late>>
  BY DEF Mark, Go, AdvancePush, leaseVars, ciVars, intentVars, remoteVars, pullVars, pushingVars
<1>2. journal[Pr].phase = "authorized" /\ task[r].head = journal[Pr].new
  BY <1>1 DEF RepairInv, RepairKept, OwnerKept, Reached
<1>3. NextPush(Pr, "authorized") = "pushed"
  BY DEF NextPush
<1>4. /\ journal'[Pr].phase = "pushed" /\ journal'[Pr].new = journal[Pr].new
      /\ journal'[Pr].expected = journal[Pr].expected
      /\ \A w \in WorkId : w # Pr => journal'[w] = journal[w]
  BY <1>1, <1>2, <1>3, RepairAssumption DEF RepairInv, RepairTypeOK, StoreTypeOK, PushJournal
<1>5. /\ \A q \in Run : q # r => task'[q] = task[q]
      /\ task'[r].step = "claim" /\ task'[r].goal = task[r].goal
      /\ task'[r].head = task[r].head
  BY <1>1, GotoReaches DEF RepairInv
<1>6. Authorized /\ ci[Pr].phase = "repair-reviewed"
  BY <1>2 DEF RepairInv, RepairKept, JournalKept, NotAuthorized, Authorized
<1>7. Authorized'
  BY <1>1, <1>4, <1>6 DEF Authorized
<1>8. OnlyPr' /\ ContinuationKept'
  BY <1>1, <1>4 DEF RepairInv, RepairKept, OnlyPr, ContinuationKept, WellFormedCi
<1>9. task[r].goal \in {"repair", "recover"}
  BY <1>1 DEF RepairInv, RepairKept, GoalKept
<1>10. Reached(task[r])'
  BY <1>1, <1>2, <1>4, <1>5 DEF Reached, Publishing
<1> QED BY <1>1, <1>5, <1>7, <1>8, <1>9, <1>10, OwnerWrites DEF JournalKept

\* The continuation waits for the checks of the repair that has landed.
LEMMA ConvergeStep ==
  ASSUME RepairInv, RepairTypeOK', NEW r \in Run, Converge(r)
  PROVE  RepairKept'
<1>1. /\ owner = r /\ task[r].step = "converge" /\ Goto(r, "comment")
      /\ UNCHANGED <<orphans, landed, push, shown, late>>
  BY DEF Converge, Go, remoteVars, pullVars, pushingVars
<1>2. /\ journal[Pr].phase = "pushed" /\ task[r].head = journal[Pr].new
      /\ task[r].goal \in {"repair", "recover"}
  BY <1>1 DEF RepairInv, RepairKept, OwnerKept, Reached, GoalKept
<1>3. Authorized /\ ~NotAuthorized
  BY <1>2 DEF RepairInv, RepairKept, JournalKept, NotAuthorized
<1>4. /\ \A q \in Run : q # r => task'[q] = task[q]
      /\ task'[r].step = "comment" /\ task'[r].goal = task[r].goal
      /\ task'[r].head = task[r].head
  BY <1>1, GotoReaches DEF RepairInv
<1>5. CASE ci[Pr].phase = "second-wait" /\ UNCHANGED storeVars
  <2>1. SameRecords /\ UNCHANGED <<owner, used>> /\ mutex' \in {mutex, owner, NoRun}
    BY <1>5, AdoptionKeepsRecords DEF RepairInv
  <2>2. \A q \in Run : push'[q] # "none" => Authorized /\ task'[q].step = "sending"
    BY <1>1, NothingSent DEF Goto
  <2>3. ci[Pr].current = journal[Pr].new
    BY <1>5, Settled
  <2>4. task[r] \in [step : Step, goal : Goal, head : MaybeHead]
    BY DEF RepairInv, RepairTypeOK
  <2>5. Reached([task[r] EXCEPT !.step = "comment"])
    BY <1>2, <1>5, <2>3, <2>4 DEF Reached, Publishing
  <2> QED BY <1>1, <1>2, <2>1, <2>2, <2>5, CommandGoes
<1>6. CASE AdvanceCi(r, Pr, "second-wait", journal[Pr].new, ci[Pr].repair)
  <2> DEFINE c == [ci[Pr] EXCEPT !.phase = "second-wait", !.current = journal[Pr].new,
                                 !.repair = ci[Pr].repair]
  <2>1. ci[Pr] \in CiContinuation /\ ci'[Pr] = c /\ journal' = journal
    BY <1>6, RepairAssumption DEF AdvanceCi, RepairInv, RepairTypeOK, StoreTypeOK
  <2>2. ci'[Pr].phase = "second-wait" /\ ci'[Pr].current = journal'[Pr].new
    BY <2>1 DEF CiContinuation
  <2>3. Reached(task[r])'
    BY <1>2, <1>4, <2>1, <2>2 DEF Reached, Publishing
  <2>4. ci[Pr].repair \in Repairs
    BY <1>3 DEF Authorized
  <2> QED BY <1>1, <1>2, <1>3, <1>4, <1>6, <2>3, <2>4, OwnerAdvances
<1> QED BY <1>5, <1>6 DEF Converge

\* The journal is published, or the continuation has been consumed.
LEMMA SettleStep ==
  ASSUME RepairInv, RepairTypeOK', NEW r \in Run, Settle(r)
  PROVE  RepairKept'
<1>1. /\ owner = r /\ task[r].step = "settle" /\ Done(r)
      /\ UNCHANGED <<orphans, landed, push, shown, late>>
  BY DEF Settle, Go, remoteVars, pullVars, pushingVars
<1>2. /\ late \/ (shown.comment = task[r].head /\ shown.label = task[r].head)
      /\ task[r].head = ci[Pr].current
      /\ IF task[r].goal \in {"repair", "recover"}
           THEN journal[Pr].phase = "pushed" /\ ci[Pr].phase = "second-wait"
           ELSE journal[Pr].phase = "published"
  BY <1>1 DEF RepairInv, RepairKept, OwnerKept, Reached, Publishing
<1>3. /\ \A q \in Run : q # r => task'[q] = task[q]
      /\ task'[r].step = "idle"
      /\ Reached(task[r])'
  BY <1>1, DoneReaches DEF RepairInv
<1>4. CASE task[r].goal \in {"repair", "recover"} /\ AdvancePush(r, Pr)
  <2>1. /\ journal' = [journal EXCEPT ![Pr].phase = NextPush(Pr, @)]
        /\ UNCHANGED <<owner, used, mutex, ci, intent>>
    BY <1>4 DEF AdvancePush, leaseVars, ciVars, intentVars
  <2>2. NextPush(Pr, "pushed") = "published"
    BY RepairAssumption DEF NextPush
  <2>3. /\ journal'[Pr].phase = "published" /\ journal'[Pr].new = journal[Pr].new
        /\ journal'[Pr].expected = journal[Pr].expected
        /\ \A w \in WorkId : w # Pr => journal'[w] = journal[w]
    BY <1>2, <1>4, <2>1, <2>2, RepairAssumption
       DEF RepairInv, RepairTypeOK, StoreTypeOK, PushJournal
  <2>4. Authorized /\ ci[Pr].current = journal[Pr].new
    BY <1>2, <1>4, Settled
  <2>5. late \/ RepairShown
    BY <1>2, <2>4 DEF RepairShown, RepairInv, RepairTypeOK
  <2>6. Authorized'
    BY <1>1, <1>2, <1>4, <2>1, <2>3, <2>4, <2>5 DEF Authorized, RepairShown
  <2>7. OnlyPr' /\ ContinuationKept'
    BY <2>1, <2>3 DEF RepairInv, RepairKept, OnlyPr, ContinuationKept, WellFormedCi
  <2> QED BY <1>1, <1>3, <2>1, <2>6, <2>7, OwnerWrites DEF JournalKept
<1>5. CASE /\ task[r].goal = "ready"
           /\ AdvanceCi(r, Pr, "consumed", ci[Pr].current, ci[Pr].repair)
  <2>1. ci[Pr].repair \in Repairs \cup {NoHead}
    BY DEF RepairInv, RepairKept, ContinuationKept
  <2>2. NotAuthorized => ci[Pr].current = Semantic
    BY DEF NotAuthorized
  <2> QED BY <1>1, <1>2, <1>3, <1>5, <2>1, <2>2, OwnerAdvances DEF TerminalCi
<1>6. CASE task[r].goal = "waiting-ci" /\ UNCHANGED storeVars
  <2>1. SameRecords /\ UNCHANGED <<owner, used>> /\ mutex' \in {mutex, owner, NoRun}
    BY <1>6, AdoptionKeepsRecords DEF RepairInv
  <2>2. \A q \in Run : push'[q] # "none" => Authorized /\ task'[q].step = "sending"
    BY <1>1, NothingSent DEF Done
  <2> QED BY <1>1, <2>1, <2>2, CommandIsOver
<1> QED BY <1>4, <1>5, <1>6 DEF Settle

\* A push that has landed is not sent again; any other is sent under the mutex.
LEMMA SendStep ==
  ASSUME RepairInv, NEW r \in Run, Send(r)
  PROVE  RepairKept'
<1>1. /\ owner = r /\ task[r].step = "send"
      /\ UNCHANGED <<orphans, landed, shown, late>>
      /\ UNCHANGED storeVars \/ EnterPushGuard(r, Pr)
  BY DEF Send, Go, remoteVars, pullVars
<1>2. SameRecords /\ UNCHANGED <<owner, used>> /\ mutex' \in {mutex, owner, NoRun}
  BY <1>1, AdoptionKeepsRecords DEF RepairInv
<1>3. /\ journal[Pr].phase # "published" /\ task[r].head = journal[Pr].new
      /\ task[r].goal \in {"repair", "recover"}
      /\ task[r] \in [step : Step, goal : Goal, head : MaybeHead]
  BY <1>1 DEF RepairInv, RepairTypeOK, RepairKept, OwnerKept, GoalKept, Reached
<1>4. Authorized /\ journal[Pr].phase \in {"authorized", "pushed"}
  BY <1>3 DEF RepairInv, RepairKept, JournalKept, NotAuthorized, Authorized
<1>5. CASE /\ journal[Pr].phase = "authorized"
           /\ push' = [push EXCEPT ![r] = "sent"] /\ Goto(r, "sending")
  <2>1. Reached([task[r] EXCEPT !.step = "sending"])
    BY <1>3, <1>5 DEF Reached, Publishing
  <2>2. task'[r].step = "sending" /\ \A q \in Run : q # r => task'[q] = task[q]
    BY <1>5, GotoReaches DEF RepairInv
  <2>3. \A q \in Run : q # r => push'[q] = push[q]
    BY <1>5 DEF RepairInv, RepairTypeOK
  <2>4. \A q \in Run : push'[q] # "none" => Authorized /\ task'[q].step = "sending"
    BY <1>4, <2>2, <2>3 DEF RepairInv, RepairKept, PushKept
  <2> QED BY <1>1, <1>2, <1>3, <1>5, <2>1, <2>4, CommandGoes
<1>6. CASE /\ push' = push
           /\ Goto(r, IF journal[Pr].phase = "authorized" THEN "mark" ELSE "claim")
  <2> DEFINE step == IF journal[Pr].phase = "authorized" THEN "mark" ELSE "claim"
  <2>1. Reached([task[r] EXCEPT !.step = step])
    BY <1>3, <1>4 DEF Reached, Publishing
  <2>2. \A q \in Run : push'[q] # "none" => Authorized /\ task'[q].step = "sending"
    BY <1>1, <1>6, NothingSent DEF Goto
  <2> HIDE DEF step
  <2> QED BY <1>1, <1>2, <1>3, <1>6, <2>1, <2>2, CommandGoes DEF step
<1> QED BY <1>5, <1>6 DEF Send

\* A push that a run waits for is the one its journal names.
LEMMA PacketIsRepair ==
  ASSUME RepairInv, NEW r \in Run, push[r] # "none"
  PROVE  Authorized /\ Packet = [old |-> Semantic, new |-> ci[Pr].repair]
  BY DEF RepairInv, RepairKept, PushKept, Authorized, Packet

\* Git answers: the push landed, or was refused.
LEMMA PushArrivesStep ==
  ASSUME RepairInv, NEW r \in Run, PushArrives(r)
  PROVE  RepairKept'
<1> USE DEF RepairInv, RepairKept
<1>1. /\ UNCHANGED storeVars /\ UNCHANGED <<task, orphans, shown, late>>
      /\ push[r] # "none" /\ landed' \in {landed, landed \cup {Packet.new}}
  BY DEF PushArrives, Land, remoteVars, pullVars
<1>2. Authorized /\ Packet.new = ci[Pr].repair
  BY <1>1, PacketIsRepair
<1>3. UNCHANGED <<owner, used, mutex, journal, ci, intent>>
  BY <1>1 DEF storeVars, ciVars, intentVars
<1>4. SameRecords
  BY <1>3 DEF SameRecords
<1>5. OnlyPr' /\ ContinuationKept' /\ JournalKept' /\ Authorized'
  BY <1>1, <1>2, <1>4, RecordsStand
<1>6. \A q \in Run : q # r => push'[q] = push[q]
  BY DEF PushArrives, RepairTypeOK
<1>7. PushKept'
  BY <1>1, <1>2, <1>3, <1>5, <1>6 DEF PushKept
<1>8. LeaseKept' /\ GoalKept'
  BY <1>1, <1>3 DEF LeaseKept, GoalKept
<1>9. OwnerKept'
  BY <1>1, <1>3 DEF OwnerKept, Reached, NotAuthorized
<1> QED BY <1>5, <1>7, <1>8, <1>9

\* The command hears of its push.
LEMMA PushReturnsStep ==
  ASSUME RepairInv, NEW r \in Run, PushReturns(r)
  PROVE  RepairKept'
<1>1. /\ LeaveGuard(r) /\ mutex = r /\ push[r] # "none"
      /\ UNCHANGED <<orphans, landed, shown, late>>
      /\ push' = [push EXCEPT ![r] = "none"]
  BY DEF PushReturns, LeaveGuard, remoteVars, pullVars
<1>2. SameRecords /\ UNCHANGED <<owner, used>> /\ mutex' \in {mutex, owner, NoRun}
  BY <1>1, AdoptionKeepsRecords DEF RepairInv
<1>3. owner = r /\ task[r].step = "sending"
  BY <1>1, StoreAssumption DEF RepairInv, RepairKept, LeaseKept, PushKept
<1>4. /\ journal[Pr].phase = "authorized" /\ task[r].head = journal[Pr].new
      /\ task[r].goal \in {"repair", "recover"}
      /\ task[r] \in [step : Step, goal : Goal, head : MaybeHead]
  BY <1>3 DEF RepairInv, RepairTypeOK, RepairKept, OwnerKept, GoalKept, Reached
<1>5. /\ push'[r] = "none"
      /\ \A q \in Run : q # r => task'[q] = task[q] /\ push'[q] = push[q]
  BY <1>1 DEF PushReturns, Goto, Done, RepairInv, RepairTypeOK
<1>6. \A q \in Run : push'[q] # "none" => Authorized /\ task'[q].step = "sending"
  BY <1>5 DEF RepairInv, RepairKept, PushKept
<1>7. CASE Goto(r, "mark")
  <2>1. Reached([task[r] EXCEPT !.step = "mark"])
    BY <1>4 DEF Reached, Publishing
  <2> QED BY <1>1, <1>2, <1>3, <1>4, <1>6, <1>7, <2>1, CommandGoes
<1>8. CASE Done(r)
  BY <1>1, <1>2, <1>6, <1>8, CommandIsOver
<1> QED BY <1>7, <1>8 DEF PushReturns

\* The comment or the label now shows the head of the command.  A command that
\* no longer owns the lease may put any head there, and the history notes it.
LEMMA PresentedStep ==
  ASSUME RepairInv, NEW r \in Run, Presented(r)
  PROVE  RepairKept'
<1> USE DEF RepairInv, RepairKept
<1> DEFINE next == IF task[r].step = "commenting" THEN "label" ELSE "settle"
<1>1. /\ task[r].step \in {"commenting", "labelling"} /\ Goto(r, next)
      /\ UNCHANGED <<orphans, landed, push>>
      /\ UNCHANGED storeVars \/ LeaveGuard(r)
      /\ late' = (late \/ owner # r)
      /\ shown' = IF task[r].step = "commenting" THEN [shown EXCEPT !.comment = task[r].head]
                                                ELSE [shown EXCEPT !.label = task[r].head]
  BY DEF Presented, remoteVars, pushingVars
<1>2. SameRecords /\ UNCHANGED <<owner, used>> /\ mutex' \in {mutex, owner, NoRun}
  BY <1>1, AdoptionKeepsRecords
<1>3. /\ \A q \in Run : q # r => task'[q] = task[q]
      /\ task'[r].step = next /\ task'[r].goal = task[r].goal
      /\ task'[r].head = task[r].head
  BY <1>1, GotoReaches
<1>4. shown \in [comment : MaybeHead, label : MaybeHead] /\ Pr \in WorkId
  BY RepairAssumption DEF RepairTypeOK
<1>5. IF task[r].step = "commenting"
        THEN shown'.comment = task[r].head /\ shown'.label = shown.label
        ELSE shown'.comment = shown.comment /\ shown'.label = task[r].head
  BY <1>1, <1>4
<1>6. owner = r => /\ task[r].head = ci[Pr].current
                   /\ task[r].step = "labelling" => late \/ shown.comment = task[r].head
  BY <1>1 DEF OwnerKept, Reached, Publishing
<1>7. Authorized /\ journal[Pr].phase = "published" => late' \/ RepairShown'
  <2> SUFFICES ASSUME Authorized, journal[Pr].phase = "published", owner = r, ~late
               PROVE  RepairShown'
    BY <1>1
  <2>1. /\ ci[Pr].current = journal[Pr].new
        /\ shown.comment = journal[Pr].new /\ shown.label = journal[Pr].new
    BY DEF Authorized, RepairShown
  <2>2. shown' = [comment |-> journal[Pr].new, label |-> journal[Pr].new]
    BY <1>1, <1>4, <1>6, <2>1
  <2> QED BY <1>2, <1>4, <2>2 DEF RepairShown, SameRecords
<1>8. /\ Authorized => Authorized'
      /\ NotAuthorized' <=> NotAuthorized
  BY <1>2, <1>4, <1>7 DEF SameRecords, Authorized, NotAuthorized
<1>9. OnlyPr' /\ ContinuationKept' /\ JournalKept'
  BY <1>2, <1>8 DEF SameRecords, OnlyPr, ContinuationKept, WellFormedCi, JournalKept
<1>10. LeaseKept'
  <2>1. r \in used
    BY <1>1 DEF LeaseKept, NoTask
  <2> QED BY <1>2, <1>3, <2>1 DEF LeaseKept
<1>11. PushKept'
  BY <1>1, <1>2, <1>3, <1>8 DEF PushKept, SameRecords
<1>12. GoalKept'
  BY <1>3 DEF GoalKept
<1>13. OwnerKept'
  <2> SUFFICES ASSUME NEW q \in Run, owner = q PROVE Reached(task[q])'
    BY <1>2 DEF OwnerKept
  <2>1. Reached(task[q])
    BY DEF OwnerKept
  <2>2. CASE q # r
    <3>1. late' /\ task'[q] = task[q]
      BY <1>1, <1>3, <2>2
    <3> QED BY <1>2, <1>4, <1>8, <2>1, <3>1 DEF Reached, SameRecords
  <2>3. CASE q = r
    BY <1>1, <1>2, <1>3, <1>4, <1>5, <1>6, <2>1, <2>3 DEF Reached, SameRecords, Publishing
  <2> QED BY <2>2, <2>3
<1> QED BY <1>9, <1>10, <1>11, <1>12, <1>13

\* A dying command leaves the push it sent on its way.
LEMMA StopStep ==
  ASSUME RepairInv, NEW r \in Run, Stop(r)
  PROVE  RepairKept'
<1> USE DEF RepairInv, RepairKept
<1>1. /\ UNCHANGED storeVars \/ LeaveGuard(r)
      /\ Done(r) /\ UNCHANGED <<landed, shown, late>>
      /\ push' = [push EXCEPT ![r] = "none"]
      /\ orphans' = IF push[r] = "sent" THEN orphans \cup {Packet} ELSE orphans
  BY DEF Stop, remoteVars, pullVars
<1>2. SameRecords /\ UNCHANGED <<owner, used>> /\ mutex' \in {mutex, owner, NoRun}
  BY <1>1, AdoptionKeepsRecords
<1>3. /\ OnlyPr' /\ ContinuationKept' /\ JournalKept'
      /\ Authorized' <=> Authorized
  BY <1>1, <1>2, RecordsStand
<1>4. /\ push'[r] = "none" /\ task'[r] = NoTask /\ NoTask.step = "idle"
      /\ \A q \in Run : q # r => task'[q] = task[q] /\ push'[q] = push[q]
  BY <1>1 DEF Done, NoTask, RepairTypeOK
<1>5. push[r] = "sent" => Authorized /\ Packet = [old |-> Semantic, new |-> ci[Pr].repair]
  BY PacketIsRepair
<1>6. PushKept'
  BY <1>1, <1>2, <1>3, <1>4, <1>5 DEF PushKept, SameRecords
<1>7. LeaseKept' /\ GoalKept'
  BY <1>2, <1>4 DEF LeaseKept, GoalKept
<1>8. OwnerKept'
  <2> SUFFICES ASSUME NEW q \in Run, owner = q PROVE Reached(task[q])'
    BY <1>2 DEF OwnerKept
  <2>1. CASE q = r
    BY <1>4, <2>1 DEF Reached, Publishing
  <2>2. CASE q # r
    <3>1. Reached(task[q]) /\ task'[q] = task[q] /\ Pr \in WorkId
      BY <1>4, <2>2, RepairAssumption DEF OwnerKept
    <3> QED BY <1>1, <1>2, <3>1 DEF Reached, SameRecords, NotAuthorized
  <2> QED BY <2>1, <2>2
<1> QED BY <1>3, <1>6, <1>7, <1>8

\* The lease comes to a run that has no command, or is lost outside the mutex.
LEMMA LeaseStep ==
  ASSUME RepairInv, Yield \/ \E r \in Run : Acquire(r)
  PROVE  RepairKept'
<1> USE DEF RepairInv, RepairKept
<1>1. UNCHANGED <<mutex, journal, ci, intent, landed, shown, late, task, push, orphans>>
  BY DEF Yield, Acquire, AcquireLease, LoseLease, ciVars, intentVars, remoteVars, pullVars,
         pushingVars
<1>2. OnlyPr' /\ ContinuationKept' /\ JournalKept' /\ PushKept' /\ GoalKept'
  BY <1>1 DEF OnlyPr, ContinuationKept, JournalKept, NotAuthorized, Authorized, RepairShown,
              PushKept, GoalKept
<1>3. \A q \in Run : Reached(task[q]) => Reached(task[q])'
  BY <1>1 DEF Reached, NotAuthorized
<1>4. CASE Yield
  <2>1. mutex = NoRun /\ owner' = NoRun /\ used' = used
    BY <1>4 DEF Yield, LoseLease
  <2> QED BY <1>1, <1>2, <2>1, StoreAssumption DEF LeaseKept, OwnerKept
<1>5. CASE \E r \in Run : Acquire(r)
  <2> PICK r \in Run : Acquire(r)
    BY <1>5
  <2>1. mutex = NoRun /\ r \notin used /\ owner' = r /\ used' = used \cup {r}
    BY DEF Acquire, AcquireLease
  <2>2. task[r] = NoTask /\ Reached(NoTask)
    BY <2>1 DEF LeaseKept, Reached, NoTask, Publishing
  <2> QED BY <1>1, <1>2, <1>3, <2>1, <2>2 DEF LeaseKept, OwnerKept
<1> QED BY <1>4, <1>5

\* What the agent, the authors, GitHub and late pushes do is not in the store.
LEMMA OutsideStep ==
  ASSUME RepairInv,
         \/ CommitRepair \/ OrphanArrives
         \/ AuthorPushes \/ PullRequestFollows \/ PullRequestChanges
         \/ UNCHANGED repairVars
  PROVE  RepairKept'
<1> USE DEF RepairInv, RepairKept
<1>1. /\ UNCHANGED <<storeVars, shown, late, task, push>>
      /\ orphans' \subseteq orphans
      /\ \/ landed' = landed
         \/ \E p \in orphans : landed' = landed \cup {p.new}
  BY DEF CommitRepair, OrphanArrives, Land, AuthorPushes, PullRequestFollows,
         PullRequestChanges, repairVars, remoteVars, pullVars, pushingVars
<1>2. UNCHANGED <<owner, used, mutex, journal, ci, intent>>
  BY <1>1 DEF storeVars, leaseVars, ciVars, intentVars
<1>3. /\ OnlyPr' /\ ContinuationKept' /\ JournalKept'
      /\ Authorized' <=> Authorized
      /\ NotAuthorized' <=> NotAuthorized
  BY <1>1, <1>2, RecordsStand DEF SameRecords
<1>4. LeaseKept' /\ GoalKept'
  BY <1>1, <1>2 DEF LeaseKept, GoalKept
<1>5. PushKept'
  BY <1>1, <1>2, <1>3 DEF PushKept
<1>6. OwnerKept'
  BY <1>1, <1>2, <1>3 DEF OwnerKept, Reached
<1> QED BY <1>3, <1>4, <1>5, <1>6

-----------------------------------------------------------------------------
(* The theorems.                                                           *)

\* Every step of the repair, and of the world around it, keeps the invariant.
LEMMA RepairNextInv == RepairInv /\ [RepairNext]_repairVars => RepairInv'
<1> SUFFICES ASSUME RepairInv, [RepairNext]_repairVars PROVE RepairInv'
  OBVIOUS
<1>1. RepairTypeOK'
  BY RepairType
<1>2. CASE \E r \in Run : Begin(r)
  BY <1>1, <1>2, WriteBegins, RepairBegins, RecoverBegins, StateBegins DEF Begin, RepairInv
<1>3. CASE \E r \in Run : Continue(r)
  BY <1>1, <1>3, ReadingStep, WritingStep, AuthorizeStep, SendStep, PushArrivesStep,
     PushReturnsStep, MarkStep, ConvergeStep, PresentedStep, SettleStep
     DEF Continue, RepairInv
<1>4. CASE Yield \/ \E r \in Run : Stop(r) \/ Acquire(r)
  BY <1>1, <1>4, StopStep, LeaseStep DEF RepairInv
<1>5. CASE \/ CommitRepair \/ OrphanArrives
           \/ AuthorPushes \/ PullRequestFollows \/ PullRequestChanges
           \/ UNCHANGED repairVars
  BY <1>1, <1>5, OutsideStep DEF RepairInv
<1> QED BY <1>2, <1>3, <1>4, <1>5 DEF RepairNext

\* What the invariant says of a saved push and of a published repair.
LEMMA RepairInvSafe == RepairInv => RepairSafe
<1> SUFFICES ASSUME RepairInv PROVE RepairSafe
  OBVIOUS
<1>1. RepairRecoverable
  <2> SUFFICES ASSUME Pr \in Unresolved PROVE Matches
    BY DEF RepairRecoverable
  <2>1. Authorized /\ journal[Pr].phase \in {"authorized", "pushed"}
    BY DEF Unresolved, RepairInv, RepairKept, JournalKept, NotAuthorized, Authorized
  <2>2. /\ ci[Pr].semantic = Semantic
        /\ ci[Pr].phase = "repair-reviewed" => ci[Pr].current = Semantic
        /\ ci[Pr].phase = "second-wait" => ci[Pr].current = ci[Pr].repair
    BY DEF RepairInv, RepairKept, ContinuationKept, WellFormedCi
  <2> QED BY <2>1, <2>2 DEF Matches, HasIdentity, Authorized
<1>2. RepairIsPublic
  BY RepairAssumption DEF RepairIsPublic, RepairPublished, RepairInv, RepairKept, JournalKept,
     NotAuthorized, Authorized
<1> QED BY <1>1, <1>2 DEF RepairSafe, RepairInv

\* A saved repair push can always be finished, and a published one is what the
\* continuation, the comment and the label say: for any number of runs that die
\* anywhere, adopt and repeat, and of commits by the agent and the authors.
THEOREM RepairsAreSafe == RepairSpec => []RepairSafe
BY RepairInitInv, RepairNextInv, RepairInvSafe, PTL DEF RepairSpec

\* The branch moves by a push of the maintainer only from the semantic head to
\* the repair of its continuation, and no other repair has landed before or
\* will: a push that arrives late, of a command that died long ago, included.
THEOREM OneRepairLands == RepairSpec => OneRepair
<1>1. ASSUME RepairInv, [RepairNext]_repairVars
      PROVE  [branch' # branch /\ branch' \notin Author =>
                 /\ branch = ci[Pr].semantic
                 /\ branch' = ci[Pr].repair
                 /\ landed \subseteq {branch'}]_repairVars
  <2> SUFFICES ASSUME branch' # branch, branch' \notin Author
               PROVE  /\ branch = ci[Pr].semantic
                      /\ branch' = ci[Pr].repair
                      /\ landed \subseteq {branch'}
    OBVIOUS
  <2>1. OrphanArrives \/ \E r \in Run : PushArrives(r)
    BY <1>1 DEF RepairNext, Begin, PrepareRepair, CheckpointRepair, InvalidateContinuation,
       RepairStart, RecoverRepair, StateStart, Continue, AdoptFirst, WriteActive,
       WriteReviewed, WriteInvalidated, Writes, Authorize, Check, Send, PushReturns, Mark,
       Claim, Converge, Observe, Present, Presented, Settle, Refuse, Stop, Acquire,
       CommitRepair, Yield, AuthorPushes, PullRequestFollows, PullRequestChanges, repairVars,
       remoteVars
  <2>2. PICK p : /\ p = [old |-> Semantic, new |-> ci[Pr].repair]
                 /\ branch = p.old /\ branch' = p.new
    <3>1. CASE OrphanArrives
      BY <1>1, <3>1 DEF OrphanArrives, Land, remoteVars, RepairInv, RepairKept, PushKept
    <3>2. CASE \E r \in Run : PushArrives(r)
      BY <1>1, <3>2, PacketIsRepair DEF PushArrives, Land, remoteVars
    <3> QED BY <2>1, <3>1, <3>2
  <2>3. landed \subseteq {ci[Pr].repair} /\ ci[Pr].semantic = Semantic
    BY <1>1 DEF RepairInv, RepairKept, PushKept, ContinuationKept
  <2> QED BY <2>2, <2>3
<1> QED BY <1>1, RepairInitInv, RepairNextInv, PTL DEF RepairSpec, OneRepair
=============================================================================
