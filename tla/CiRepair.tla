------------------------------ MODULE CiRepair ------------------------------
(***************************************************************************)
(* The repair of a pull request whose checks have failed: prepare,         *)
(* checkpoint, publish, recover and invalidate ci-repair, and the `publish *)
(* state' of its waits (ops/maintainer/capabilities.py, git_ops.py), over  *)
(* the continuation and the push journal of JournalStore.                  *)
(*                                                                         *)
(* It starts where CurationPublication ends: the semantic head is on the   *)
(* branch, its journal is published and its continuation waits.  The       *)
(* branch and the pull request change at any time, a command may die       *)
(* between any two steps, and a git push it sent may still arrive later.   *)
(* What the checks of a head say is GitHub's answer.  The budgets of the   *)
(* waits and of the repair are in CiBudget.                                *)
(***************************************************************************)
EXTENDS JournalStore

CONSTANTS Pr,       \* the work item of the pull request
          Before,   \* the head the semantic head replaced
          Semantic, \* the validated head the continuation was started for
          Repairs,  \* commits on top of it that change tests only
          Author,   \* heads other people push
          FirstRun, \* the run that handed the semantic head to CI
          MaxStops  \* bound on dying commands and lost leases

ASSUME RepairAssumption == /\ Pr \in WorkId
                           /\ WorkerOf[Pr] = "curation"
                           /\ {Before, Semantic} \cup Repairs \cup Author \subseteq Head
                           /\ Semantic \notin Repairs \cup Author
                           /\ Repairs \cap Author = {}
                           /\ FirstRun \in Run
                           /\ MaxStops \in Nat

VARIABLES branch,  \* head of the branch on the remote
          prHead,  \* head GitHub shows for the pull request
          pr,      \* open and acceptable, or closed, conflicting, out of scope
          tree,    \* HEAD of the maintainer's worktree
          task,    \* the command of each run
          push,    \* the git push a run waits for
          orphans, \* pushes whose command died
          shown,   \* the heads the comment and the label were published for
          stops,   \* dead commands and lost leases so far
          landed,  \* history: commits the maintainer put on the branch
          late     \* history: a run that had lost the lease changed the comment or label

remoteVars == <<branch, landed>>
pullVars == <<prHead, pr, shown, late>>
pushingVars == <<push, orphans, stops>>
repairVars == <<storeVars, remoteVars, pullVars, tree, task, pushingVars>>

Goal == {"none", "prepare", "checkpoint", "invalidate", "repair", "recover",
         "waiting-ci", "ready"}
Step == {"idle", "write", "authorize", "check", "send", "sending", "mark", "claim",
         "converge", "observe", "comment", "commenting", "label", "labelling", "settle"}

NoTask == [step |-> "idle", goal |-> "none", head |-> NoHead]

\* The types of the variables: the store, the branch and the pull request, the
\* worktree, commands and pushes under way.
RepairTypeOK ==
    /\ StoreTypeOK
    /\ branch \in Head /\ prHead \in Head /\ tree \in Head
    /\ pr \in {"open", "refused"}
    /\ task \in [Run -> [step : Step, goal : Goal, head : MaybeHead]]
    /\ push \in [Run -> {"none", "sent", "ok", "rejected"}]
    /\ orphans \subseteq [old : Head, new : Head]
    /\ shown \in [comment : MaybeHead, label : MaybeHead]
    /\ stops \in 0..MaxStops
    /\ landed \subseteq Head
    /\ late \in BOOLEAN

RepairInit ==
    /\ owner = FirstRun
    /\ used = {FirstRun}
    /\ mutex = NoRun
    /\ work = [w \in WorkId |-> NoWork]
    /\ journal = [w \in WorkId |->
                     [phase |-> "published", origin |-> FirstRun, recovery |-> FirstRun,
                      expected |-> Before, new |-> Semantic]]
    /\ ci = [w \in WorkId |-> InitialCi(FirstRun, Semantic)]
    /\ archive = [w \in WorkId |-> {}]
    /\ intent = [w \in WorkId |-> NoIntent]
    /\ begun = [w \in WorkId |-> {Semantic}]
    /\ ended = [w \in WorkId |-> {}]
    /\ branch = Semantic
    /\ prHead = Semantic
    /\ pr = "open"
    /\ tree = Semantic
    /\ task = [r \in Run |-> NoTask]
    /\ push = [r \in Run |-> "none"]
    /\ orphans = {}
    /\ shown = [comment |-> Semantic, label |-> Semantic]
    /\ stops = 0
    /\ landed = {}
    /\ late = FALSE

-----------------------------------------------------------------------------
Start(r, goal, step, h) ==
    /\ task[r] = NoTask
    /\ owner = r
    /\ task' = [task EXCEPT ![r] = [step |-> step, goal |-> goal, head |-> h]]

Goto(r, step) == task' = [task EXCEPT ![r].step = step]
Done(r) == task' = [task EXCEPT ![r] = NoTask]

\* _require_clear_ci_repair_journal
Clear == Unresolved = {} /\ UnresolvedTerminal = {}

\* _live_ci_repair_pull_request
Live == pr = "open" /\ prHead = ci[Pr].current

\* _ci_repair_journal_has_identity
HasIdentity == /\ ci[Pr].repair = journal[Pr].new
               /\ \/ /\ ci[Pr].phase = "repair-reviewed"
                     /\ journal[Pr].expected = ci[Pr].current
                  \/ /\ ci[Pr].phase = "second-wait"
                     /\ journal[Pr].expected = ci[Pr].semantic
                     /\ journal[Pr].new = ci[Pr].current

\* _ci_repair_journal_matches
Matches == /\ HasIdentity
           /\ journal[Pr].phase = "authorized" => ci[Pr].phase = "repair-reviewed"
           /\ journal[Pr].phase \in {"authorized", "pushed"}

\* _require_no_nonconverged_ci_repair_publication
Converged == HasIdentity => ci[Pr].phase = "second-wait" /\ journal[Pr].phase = "published"

Waits == ci[Pr].phase \in {"initial-wait", "second-wait"}

-----------------------------------------------------------------------------
(* prepare, checkpoint and invalidate: the pull request is read, then the  *)
(* continuation adopted if it is another run's, then advanced.             *)

\* prepare_ci_repair: the branch is fetched, and must be what GitHub shows
Detach == branch = prHead /\ tree' = branch

\* a reviewed repair is restored from its checkpoint, any other starts from
\* the head on the branch
PrepareRepair(r) ==
    /\ Start(r, "prepare", "write", NoHead)
    /\ Clear
    /\ \/ ci[Pr].phase = "initial-wait"
       \/ ci[Pr].phase \in {"repair-active", "repair-reviewed"} /\ ci[Pr].origin # r
    /\ Live
    /\ IF ci[Pr].phase = "repair-reviewed"
         THEN tree' = ci[Pr].repair
         ELSE Detach
    /\ UNCHANGED <<storeVars, remoteVars, pullVars, pushingVars>>

\* _build_ci_repair_checkpoint: a descendant that changes tests only
Checkpointable(h) == h \in Repairs /\ ci[Pr].current = Semantic

CheckpointRepair(r) ==
    /\ Start(r, "checkpoint", "write", tree)
    /\ Clear
    /\ ci[Pr].recovery = r
    /\ ci[Pr].phase = "repair-active"
    /\ Live
    /\ Checkpointable(tree)
    /\ UNCHANGED <<storeVars, remoteVars, pullVars, tree, pushingVars>>

\* Mutant: a continuation may be given up while its repair push is unresolved.
InvalidateUnresolved(r) ==
    /\ Start(r, "invalidate", "write", NoHead)
    /\ UnresolvedTerminal = {}
    /\ ci[Pr].phase \in ActiveCi
    /\ pr # "open" \/ prHead # ci[Pr].current \/ ci[Pr].phase = "repair-active"
    /\ UNCHANGED <<storeVars, remoteVars, pullVars, tree, pushingVars>>

\* ci_continuation_invalidation_reason; the checks of a head whose repair is
\* active may have turned green
InvalidateContinuation(r) ==
    /\ Start(r, "invalidate", "write", NoHead)
    /\ Clear
    /\ ci[Pr].phase \in ActiveCi
    /\ pr # "open" \/ prHead # ci[Pr].current \/ ci[Pr].phase = "repair-active"
    /\ UNCHANGED <<storeVars, remoteVars, pullVars, tree, pushingVars>>

AdoptFirst(r) ==
    /\ task[r].step = "write"
    /\ AdoptCi(r, Pr)
    /\ UNCHANGED <<task, remoteVars, pullVars, tree, pushingVars>>

Writes(r, goal) == /\ task[r].step = "write"
                   /\ task[r].goal = goal
                   /\ ci[Pr].recovery = r
                   /\ Done(r)
                   /\ UNCHANGED <<remoteVars, pullVars, tree, pushingVars>>

WriteActive(r) ==
    /\ Writes(r, "prepare")
    /\ IF ci[Pr].phase = "initial-wait"
         THEN AdvanceCi(r, Pr, "repair-active", ci[Pr].current, NoHead)
         ELSE owner = r /\ UNCHANGED storeVars

WriteReviewed(r) ==
    /\ Writes(r, "checkpoint")
    /\ AdvanceCi(r, Pr, "repair-reviewed", ci[Pr].current, task[r].head)

WriteInvalidated(r) ==
    /\ Writes(r, "invalidate")
    /\ AdvanceCi(r, Pr, "invalidated", ci[Pr].current, ci[Pr].repair)

\* the agent commits its change of the tests
CommitRepair ==
    /\ tree = Semantic
    /\ tree' \in Repairs
    /\ UNCHANGED <<storeVars, remoteVars, pullVars, task, pushingVars>>

-----------------------------------------------------------------------------
(* publish ci-repair, and publish recover of its journal                   *)

\* _preflight_new_ci_repair_push
Preflight == Live /\ branch = ci[Pr].current

RepairStart(r) ==
    /\ Start(r, "repair", "authorize", ci[Pr].repair)
    /\ Clear
    /\ ci[Pr].recovery = r
    /\ ci[Pr].phase = "repair-reviewed"
    /\ journal[Pr].phase = "published"
    /\ journal[Pr].new = ci[Pr].current
    /\ Preflight
    /\ tree' = ci[Pr].repair
    /\ UNCHANGED <<storeVars, remoteVars, pullVars, pushingVars>>

Authorize(r) ==
    /\ task[r].step = "authorize"
    /\ AuthorizePush(r, Pr, ci[Pr].current, ci[Pr].repair)
    /\ Goto(r, "check")
    /\ UNCHANGED <<remoteVars, pullVars, tree, pushingVars>>

RecoverRepair(r) ==
    /\ Start(r, "recover", "check", journal[Pr].new)
    /\ UnresolvedTerminal = {}
    /\ Unresolved = {Pr}
    /\ branch \in {journal[Pr].expected, journal[Pr].new}
    /\ IF journal[Pr].recovery = r THEN UNCHANGED storeVars ELSE AdoptPush(r, Pr, branch)
    /\ UNCHANGED <<remoteVars, pullVars, tree, pushingVars>>

\* revalidate_ci_repair_checkpoint, for a repair that may or may not have landed
Revalidates == /\ pr = "open"
               /\ prHead \in {journal[Pr].expected, journal[Pr].new}
               /\ ci[Pr].phase = "second-wait" => prHead = ci[Pr].current

MayPush == \/ branch = journal[Pr].new
           \/ branch = journal[Pr].expected /\ tree = journal[Pr].new

\* _pull_request_after_exact_push, which asks a few times
HeadShown(h) == branch = h /\ prHead = h

\* _refetch_publication_target, before each mutation
MayPresent(h) == pr = "open" /\ prHead = h

\* what the next step of a command needs to find outside
MayGoOn(r) ==
    CASE task[r].step = "check" ->
             Matches /\ IF task[r].goal = "repair" THEN Preflight ELSE Revalidates
      [] task[r].step = "send" -> journal[Pr].phase = "authorized" => MayPush
      [] task[r].step = "converge" -> HeadShown(task[r].head)
      [] task[r].step = "observe" -> /\ MayPresent(task[r].head)
                                     /\ task[r].head = ci[Pr].current
      [] task[r].step \in {"comment", "label"} -> MayPresent(task[r].head)
      [] OTHER -> TRUE

Go(r, step) == owner = r /\ mutex = NoRun /\ task[r].step = step /\ MayGoOn(r)

Check(r) ==
    /\ Go(r, "check")
    /\ tree' = ci[Pr].repair
    /\ Goto(r, "send")
    /\ UNCHANGED <<storeVars, remoteVars, pullVars, pushingVars>>

\* the branch is read again: a push that has landed is not sent twice
Send(r) ==
    /\ Go(r, "send")
    /\ IF journal[Pr].phase = "authorized" /\ branch # journal[Pr].new
         THEN /\ EnterPushGuard(r, Pr)
              /\ push' = [push EXCEPT ![r] = "sent"]
              /\ Goto(r, "sending")
         ELSE /\ Goto(r, IF journal[Pr].phase = "authorized" THEN "mark" ELSE "claim")
              /\ UNCHANGED <<storeVars, push>>
    /\ UNCHANGED <<remoteVars, pullVars, tree, orphans, stops>>

\* Mutant: the lease of the push names whatever the branch shows.
ForcedPacket == [old |-> branch, new |-> journal[Pr].new]

\* push_exact_with_lease
Packet == [old |-> journal[Pr].expected, new |-> journal[Pr].new]

Land(p) == IF branch = p.old THEN branch' = p.new /\ landed' = landed \cup {p.new}
                             ELSE UNCHANGED remoteVars

PushArrives(r) ==
    /\ push[r] = "sent"
    /\ Land(Packet)
    /\ push' = [push EXCEPT ![r] = IF branch = Packet.old THEN "ok" ELSE "rejected"]
    /\ UNCHANGED <<storeVars, pullVars, tree, task, orphans, stops>>

OrphanArrives ==
    \E p \in orphans :
        /\ Land(p)
        /\ orphans' = orphans \ {p}
        /\ UNCHANGED <<storeVars, pullVars, tree, task, push, stops>>

PushReturns(r) ==
    /\ push[r] \in {"ok", "rejected"}
    /\ LeaveGuard(r)
    /\ push' = [push EXCEPT ![r] = "none"]
    /\ IF push[r] = "ok" THEN Goto(r, "mark") ELSE Done(r)
    /\ UNCHANGED <<remoteVars, pullVars, tree, orphans, stops>>

Mark(r) ==
    /\ Go(r, "mark")
    /\ AdvancePush(r, Pr)
    /\ Goto(r, "claim")
    /\ UNCHANGED <<remoteVars, pullVars, tree, pushingVars>>

\* Mutant: a successor completes a push with the continuation of its predecessor.
ClaimNothing(r) ==
    /\ Go(r, "claim")
    /\ Goto(r, "converge")
    /\ UNCHANGED <<storeVars, remoteVars, pullVars, tree, pushingVars>>

Claim(r) ==
    /\ Go(r, "claim")
    /\ IF ci[Pr].recovery = r THEN UNCHANGED storeVars ELSE AdoptCiForPush(r, Pr)
    /\ Goto(r, "converge")
    /\ UNCHANGED <<remoteVars, pullVars, tree, pushingVars>>

Converge(r) ==
    /\ Go(r, "converge")
    /\ IF ci[Pr].phase = "second-wait"
         THEN UNCHANGED storeVars
         ELSE AdvanceCi(r, Pr, "second-wait", journal[Pr].new, ci[Pr].repair)
    /\ Goto(r, "comment")
    /\ UNCHANGED <<remoteVars, pullVars, tree, pushingVars>>

-----------------------------------------------------------------------------
(* publish state of a waiting head, and the GitHub mutations of all        *)

StateStart(r, goal) ==
    /\ Start(r, goal, "observe", ci[Pr].current)
    /\ goal \in {"waiting-ci", "ready"}
    /\ UnresolvedTerminal = {}
    /\ Converged
    /\ Waits
    /\ IF ci[Pr].recovery = r THEN UNCHANGED storeVars ELSE AdoptCi(r, Pr)
    /\ UNCHANGED <<remoteVars, pullVars, tree, pushingVars>>

\* a repaired head is restored from its checkpoint
Observe(r) ==
    /\ Go(r, "observe")
    /\ tree' = IF ci[Pr].phase = "second-wait" THEN ci[Pr].repair ELSE tree
    /\ Goto(r, "comment")
    /\ UNCHANGED <<storeVars, remoteVars, pullVars, pushingVars>>

\* under the guard of the run's journal, or after a look at the lease
Present(r, step, next) ==
    /\ Go(r, step)
    /\ IF journal[Pr].recovery = r THEN EnterPushGuard(r, Pr) ELSE UNCHANGED storeVars
    /\ Goto(r, next)
    /\ UNCHANGED <<remoteVars, pullVars, tree, pushingVars>>

\* Mutant: the label is forgotten once the comment is there.
PresentedForgetsLabel(r) ==
    /\ task[r].step = "commenting"
    /\ shown' = [shown EXCEPT !.comment = task[r].head]
    /\ Goto(r, "settle")
    /\ IF mutex = r THEN LeaveGuard(r) ELSE UNCHANGED storeVars
    /\ late' = (late \/ owner # r)
    /\ UNCHANGED <<remoteVars, prHead, pr, tree, pushingVars>>

Presented(r) ==
    /\ \/ /\ task[r].step = "commenting"
          /\ shown' = [shown EXCEPT !.comment = task[r].head]
          /\ Goto(r, "label")
       \/ /\ task[r].step = "labelling"
          /\ shown' = [shown EXCEPT !.label = task[r].head]
          /\ Goto(r, "settle")
    /\ IF mutex = r THEN LeaveGuard(r) ELSE UNCHANGED storeVars
    /\ late' = (late \/ owner # r)
    /\ UNCHANGED <<remoteVars, prHead, pr, tree, pushingVars>>

Settle(r) ==
    /\ Go(r, "settle")
    /\ \/ task[r].goal \in {"repair", "recover"} /\ AdvancePush(r, Pr)
       \/ /\ task[r].goal = "ready"
          /\ AdvanceCi(r, Pr, "consumed", ci[Pr].current, ci[Pr].repair)
       \/ task[r].goal = "waiting-ci" /\ UNCHANGED storeVars
    /\ Done(r)
    /\ UNCHANGED <<remoteVars, pullVars, tree, pushingVars>>

-----------------------------------------------------------------------------
(* Failures and the world outside.                                         *)

Outside == {"sending", "commenting", "labelling"}

\* the command ends with an error
Refuse(r) ==
    /\ task[r] # NoTask
    /\ task[r].step \notin Outside
    /\ owner # r \/ ~MayGoOn(r)
    /\ Done(r)
    /\ UNCHANGED <<storeVars, remoteVars, pullVars, tree, pushingVars>>

\* the command dies, or fails for a reason that is not modelled
Stop(r) ==
    /\ task[r] # NoTask
    /\ stops < MaxStops
    /\ stops' = stops + 1
    /\ Done(r)
    /\ IF mutex = r THEN LeaveGuard(r) ELSE UNCHANGED storeVars
    /\ push' = [push EXCEPT ![r] = "none"]
    /\ orphans' = IF push[r] = "sent" THEN orphans \cup {Packet} ELSE orphans
    /\ UNCHANGED <<remoteVars, pullVars, tree>>

Yield == /\ stops < MaxStops
         /\ stops' = stops + 1
         /\ LoseLease
         /\ UNCHANGED <<remoteVars, pullVars, tree, task, push, orphans>>

Acquire(r) == /\ AcquireLease(r)
              /\ UNCHANGED <<remoteVars, pullVars, tree, task, pushingVars>>

AuthorPushes == /\ branch' \in Author \ {branch}
                /\ UNCHANGED <<storeVars, landed, pullVars, tree, task, pushingVars>>

PullRequestFollows == /\ prHead # branch
                      /\ prHead' = branch
                      /\ UNCHANGED <<storeVars, remoteVars, pr, shown, late, tree, task,
                                     pushingVars>>

PullRequestChanges == /\ pr' = IF pr = "open" THEN "refused" ELSE "open"
                      /\ UNCHANGED <<storeVars, remoteVars, prHead, shown, late, tree, task,
                                     pushingVars>>

\* the steps of a command once it has begun
Continue(r) ==
    \/ AdoptFirst(r) \/ WriteActive(r) \/ WriteReviewed(r) \/ WriteInvalidated(r)
    \/ Authorize(r) \/ Check(r) \/ Send(r) \/ PushArrives(r) \/ PushReturns(r)
    \/ Mark(r) \/ Claim(r) \/ Converge(r) \/ Observe(r)
    \/ Present(r, "comment", "commenting") \/ Present(r, "label", "labelling")
    \/ Presented(r) \/ Settle(r) \/ Refuse(r)

Begin(r) == \/ PrepareRepair(r) \/ CheckpointRepair(r) \/ InvalidateContinuation(r)
            \/ RepairStart(r) \/ RecoverRepair(r)
            \/ \E goal \in {"waiting-ci", "ready"} : StateStart(r, goal)

RepairNext ==
    \/ \E r \in Run : Begin(r) \/ Continue(r) \/ Stop(r) \/ Acquire(r)
    \/ CommitRepair \/ OrphanArrives \/ Yield
    \/ AuthorPushes \/ PullRequestFollows \/ PullRequestChanges

RepairSpec == RepairInit /\ [][RepairNext]_repairVars

\* Commands run on, GitHub catches up with the branch, and the worker, before
\* anything else, acquires the lease and recovers an unresolved push; what it
\* cannot help is how often it dies and what others do to the pull request.
FairRepairSpec ==
    /\ RepairSpec
    /\ \A r \in Run : WF_repairVars(Continue(r)) /\ WF_repairVars(RecoverRepair(r))
    /\ WF_repairVars(\E r \in Run : Acquire(r))
    /\ WF_repairVars(PullRequestFollows)

-----------------------------------------------------------------------------
(* Properties                                                              *)

\* A saved repair push is always one that `publish recover' can finish: the
\* continuation is in the phase, and names the two heads, that the journal
\* needs, whoever owns it and wherever its command died.
RepairRecoverable == Pr \in Unresolved => Matches

\* The branch leaves the hands of its authors in one way only: from the
\* semantic head to the checkpointed repair, and no second repair ever lands,
\* however late a push of a dead command arrives.
OneRepair == [][branch' # branch /\ branch' \notin Author =>
                   /\ branch = ci[Pr].semantic
                   /\ branch' = ci[Pr].repair
                   /\ landed \subseteq {branch'}]_repairVars

RepairPublished == journal[Pr].phase = "published" /\ journal[Pr].new \in Repairs
RepairShown == shown = [comment |-> journal[Pr].new, label |-> journal[Pr].new]

\* Once the journal of a repair is published, the continuation waits for the
\* checks of the repaired head or has ended after that wait, and the comment and
\* the label are those of that head, unless a run without a push journal, whose
\* GitHub mutations only look at the lease, was overtaken in the middle of one.
RepairIsPublic ==
    RepairPublished => /\ ci[Pr].current = journal[Pr].new
                       /\ ci[Pr].phase \in {"second-wait"} \cup TerminalCi
                       /\ late \/ RepairShown

\* README.md:235 calls the takeover of a stale lease fenced: what the successor
\* has published stays.
TakeoverIsFenced == RepairPublished => RepairShown

\* Nobody is left who could recover, or the branch or the pull request is not
\* what a recovery accepts.
BeyondRecovery == \/ owner = NoRun /\ used = Run
                  \/ branch \notin {journal[Pr].expected, journal[Pr].new}
                  \/ pr # "open"

\* An unresolved repair push does not block the maintainer for ever: while the
\* branch and the pull request stay acceptable, it ends up published.
RepairSettles == []<>(Unresolved = {} \/ BeyondRecovery)

\* What a repair push leaves in the store and on the pull request, at any time
\* (handle_publish_ci_repair, handle_publish_recover).
RepairSafe == RepairTypeOK /\ RepairRecoverable /\ RepairIsPublic
=============================================================================
