--------------------------- MODULE TerminalOutcome ---------------------------
(***************************************************************************)
(* Blocking a pull request whose CI repair has failed, by the handlers of  *)
(* ops/maintainer/capabilities.py over JournalStore: `publish outcome'     *)
(* saves an intent with a copy of the CI continuation, updates the comment *)
(* and the labels on GitHub, each under the mutex, and completes the       *)
(* intent; `publish recover' replays an intent an earlier run left.        *)
(*                                                                         *)
(* `lock heartbeat' is another process of the same run.  It looks for an   *)
(* unresolved intent before it takes the mutex, and writes the             *)
(* continuation after.                                                     *)
(***************************************************************************)
EXTENDS JournalStore

ASSUME TermAssumption == "none" \notin WorkId

VARIABLES prHead, \* head commit of each pull request on GitHub
          shown,  \* head whose blocked outcome the comment, and the labels, show
          task,   \* the outcome or recover command of each run
          beat    \* the work item each run's heartbeat is about to write, or none

termVars == <<storeVars, prHead, shown, task, beat>>

Step == {"idle", "adopt", "start", "replay", "comment", "label", "labels", "complete"}
Idle == [step |-> "idle", seen |-> NoCi, id |-> "none"]

Part == {"comment", "labels"}

\* The types of the variables: the store, GitHub's view of each pull request,
\* the commands and heartbeats under way.
TermTypeOK == /\ StoreTypeOK
              /\ prHead \in [WorkId -> Head]
              /\ shown \in [WorkId -> [Part -> MaybeHead]]
              /\ task \in [Run -> [step : Step, seen : CiContinuation,
                                   id : WorkId \cup {"none"}]]
              /\ beat \in [Run -> WorkId \cup {"none"}]

TermInit == /\ StoreInit
            /\ prHead \in [WorkId -> Head]
            /\ shown = [w \in WorkId |-> [part \in Part |-> NoHead]]
            /\ task = [r \in Run |-> Idle]
            /\ beat = [r \in Run |-> "none"]

Goto(r, step) == task' = [task EXCEPT ![r].step = step]
At(r, w, step) == task[r].step = step /\ task[r].id = w

outside == <<prHead, shown, beat>>

-----------------------------------------------------------------------------
(* publish outcome                                                         *)

\* read the pull request and the continuation
OutcomeStart(r, w) ==
    /\ task[r] = Idle
    /\ owner = r
    /\ UnresolvedTerminal = {}
    /\ ci[w].phase \in {"repair-active", "repair-reviewed"}
    /\ prHead[w] = ci[w].current
    /\ task' = [task EXCEPT ![r] =
                   [step |-> IF ci[w].recovery = r THEN "start" ELSE "adopt",
                    seen |-> ci[w], id |-> w]]
    /\ UNCHANGED <<storeVars, outside>>

OutcomeAdopt(r, w) ==
    /\ At(r, w, "adopt")
    /\ AdoptCi(r, w)
    /\ task' = [task EXCEPT ![r].step = "start", ![r].seen = ci'[w]]
    /\ UNCHANGED outside

OutcomeAuthorize(r, w) ==
    /\ At(r, w, "start")
    /\ ci[w] = task[r].seen
    /\ AuthorizeTerminal(r, w)
    /\ Goto(r, "replay")
    /\ UNCHANGED outside

\* the same run repeats the command, or a successor runs `publish recover'
Recover(r, w) ==
    /\ task[r] = Idle
    /\ UnresolvedTerminal = {w}
    /\ \/ intent[w].recovery = r /\ owner = r /\ UNCHANGED storeVars
       \/ intent[w].recovery # r /\ AdoptTerminal(r, w)
    /\ task' = [task EXCEPT ![r] = [step |-> "replay", seen |-> NoCi, id |-> w]]
    /\ UNCHANGED outside

-----------------------------------------------------------------------------
(* _replay_terminal_publication                                            *)

\* the head is fetched again before each mutation; an equal comment and equal
\* labels are left alone
ReplayEnter(r, w) ==
    LET part == IF task[r].step = "replay" THEN "comment" ELSE "labels"
    IN  /\ task[r].id = w
        /\ task[r].step \in {"replay", "label"}
        /\ prHead[w] = intent[w].continuation.current
        /\ \/ /\ shown[w][part] # prHead[w]
              /\ EnterTerminalGuard(r, w)
              /\ Goto(r, part)
           \/ /\ shown[w][part] = prHead[w]
              /\ Goto(r, IF part = "comment" THEN "label" ELSE "complete")
              /\ UNCHANGED storeVars
        /\ UNCHANGED outside

\* Mutant: the labels are forgotten once the comment is there.
ReplayForgetsLabels(r, w) ==
    /\ task[r].id = w
    /\ task[r].step \in Part
    /\ shown' = [shown EXCEPT ![w][task[r].step] = intent[w].continuation.current]
    /\ LeaveGuard(r)
    /\ Goto(r, "complete")
    /\ UNCHANGED <<prHead, beat>>

ReplayMutate(r, w) ==
    /\ task[r].id = w
    /\ task[r].step \in Part
    /\ shown' = [shown EXCEPT ![w][task[r].step] = intent[w].continuation.current]
    /\ LeaveGuard(r)
    /\ Goto(r, IF task[r].step = "comment" THEN "label" ELSE "complete")
    /\ UNCHANGED <<prHead, beat>>

ReplayComplete(r, w) ==
    /\ At(r, w, "complete")
    /\ CompleteTerminal(r, w)
    /\ task' = [task EXCEPT ![r] = Idle]
    /\ UNCHANGED outside

-----------------------------------------------------------------------------
(* lock heartbeat                                                          *)

HeartbeatCheck(r, w) ==
    /\ beat[r] = "none"
    /\ owner = r
    /\ UnresolvedTerminal = {}
    /\ ci[w].phase \in ActiveCi
    /\ ci[w].recovery = r
    /\ beat' = [beat EXCEPT ![r] = w]
    /\ UNCHANGED <<storeVars, prHead, shown, task>>

HeartbeatRecord(r, w) ==
    /\ beat[r] = w
    /\ RecordCiTime(r, w)
    /\ beat' = [beat EXCEPT ![r] = "none"]
    /\ UNCHANGED <<prHead, shown, task>>

-----------------------------------------------------------------------------
\* a command or a heartbeat fails or its process dies
Stop(r) ==
    /\ \/ /\ task[r] # Idle
          /\ task' = [task EXCEPT ![r] = Idle]
          /\ IF mutex = r THEN LeaveGuard(r) ELSE UNCHANGED storeVars
          /\ UNCHANGED beat
       \/ /\ beat[r] # "none"
          /\ beat' = [beat EXCEPT ![r] = "none"]
          /\ UNCHANGED <<storeVars, task>>
    /\ UNCHANGED <<prHead, shown>>

\* Mutant: the commands on continuations do not look for an unresolved intent.
OtherCommandIgnoresIntent(r, w) ==
    /\ task[r] = Idle
    /\ \/ \E h \in Head : StartCi(r, w, h)
       \/ AdoptCi(r, w)
       \/ \E phase \in CiPhase, h, k \in MaybeHead :
             /\ AdvanceCi(r, w, phase, h, k)
             /\ phase = "blocked" => ci[w].phase \in {"initial-wait", "second-wait"}
    /\ UNCHANGED <<outside, task>>

\* the commands that carry a continuation through its other phases: all refuse
\* while an intent is unresolved, and none blocks a repair
OtherCommand(r, w) ==
    /\ task[r] = Idle
    /\ UnresolvedTerminal = {}
    /\ \/ \E h \in Head : StartCi(r, w, h)
       \/ AdoptCi(r, w)
       \/ \E phase \in CiPhase, h, k \in MaybeHead :
             /\ AdvanceCi(r, w, phase, h, k)
             /\ phase = "blocked" => ci[w].phase \in {"initial-wait", "second-wait"}
    /\ UNCHANGED <<outside, task>>

AuthorPush(w) ==
    /\ \E h \in Head \ {prHead[w]} : prHead' = [prHead EXCEPT ![w] = h]
    /\ UNCHANGED <<storeVars, shown, task, beat>>

Lease == /\ \/ \E r \in Run : AcquireLease(r)
            \/ LoseLease
         /\ UNCHANGED <<outside, task>>

Outcome(r, w) == \/ OutcomeStart(r, w) \/ OutcomeAdopt(r, w) \/ OutcomeAuthorize(r, w)
                 \/ Recover(r, w) \/ ReplayEnter(r, w) \/ ReplayMutate(r, w)
                 \/ ReplayComplete(r, w)

TermNext == \/ Lease
            \/ \E r \in Run : Stop(r)
            \/ \E w \in WorkId : AuthorPush(w)
            \/ \E r \in Run, w \in WorkId :
                  Outcome(r, w) \/ OtherCommand(r, w) \/ HeartbeatCheck(r, w)
                                \/ HeartbeatRecord(r, w)

TermSpec == TermInit /\ [][TermNext]_termVars

\* A driver that sends heartbeats between the commands of a run, never during.
SequentialNext == TermNext /\ \A r \in Run : beat'[r] # "none" => task'[r] = Idle
SequentialSpec == TermInit /\ [][SequentialNext]_termVars

-----------------------------------------------------------------------------
(* Properties                                                              *)

\* A repair is recorded as blocked only when both the comment and the labels
\* of its pull request have shown that outcome for its exact head, whoever
\* began the publication, however often it died, and wherever the head moved.
BlockedIsPublished ==
    \A w \in WorkId :
        (/\ ci[w].phase = "blocked"
         /\ ci[w].semantic = intent[w].continuation.semantic)
            => \A part \in Part : shown[w][part] = intent[w].continuation.current

\* An unresolved intent can be completed by its owner or a successor, who both
\* compare it with the continuation.  Sequential commands alone break this: a
\* second successor that adopts after a first one died between the two files
\* of a completion no longer matches the run it finds in the continuation.
TerminalRecoverable == \A w \in UnresolvedTerminal : TerminalContinuation(w)

\* While an intent is unresolved, its continuation is the very one that was
\* authorised, or the blocked form of it that some run wrote when it completed
\* the intent and died: nothing else moves a repair that is being blocked.
RepairIsFrozen ==
    \A w \in UnresolvedTerminal :
        LET was == intent[w].continuation
        IN  ci[w] \in {was, [was EXCEPT !.phase = "blocked", !.recovery = ci[w].recovery]}

\* A terminal publication says what happened, of the repair it was begun for
\* (_publish_terminal_outcome and its replay).
TerminalSafe == TermTypeOK /\ RepairIsFrozen /\ BlockedIsPublished
=============================================================================
