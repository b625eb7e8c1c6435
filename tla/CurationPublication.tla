------------------------- MODULE CurationPublication -------------------------
(***************************************************************************)
(* Publishing one curation pull request (publish push, manual-check,       *)
(* recover, state and outcome in ops/maintainer/capabilities.py), on top   *)
(* of CurationGeneration: the push journal is saved, the generation        *)
(* consumed, the branch replaced by a compare-and-swap push, and the head  *)
(* presented on GitHub by a comment and a label; a validated head whose    *)
(* checks are pending is handed to a CI continuation.                      *)
(*                                                                         *)
(* A command may die between any two of these writes.  A git push it       *)
(* started then may still reach the server, at any later time.  The checks *)
(* of a head are whatever GitHub answers.  Repairs of a failed check are   *)
(* not part of this module: its continuations only wait.                   *)
(***************************************************************************)
EXTENDS CurationGeneration

Goal == {"none", "push", "manual-check", "recover", "waiting-ci", "ready", "hold",
         "outcome"}

CONSTANT Goals \* the commands that are tried

ASSUME PublicationAssumption == Goals \subseteq Goal

VARIABLES pub,     \* the publish command each run is executing
          push,    \* the git push a run is waiting for
          orphans, \* pushes whose command died
          comment, \* the canonical comment of the pull request
          label,   \* its lifecycle label, and the head it was published for
          landed   \* history: heads the branch has had

githubVars == <<comment, label>>
pushVars == <<push, orphans, landed>>
publicationVars == <<curationVars, pub, pushVars, githubVars>>

PubStep == {"idle", "consume", "push", "pushing", "advance", "record", "state",
            "handoff", "observe", "comment", "commenting", "label", "labelling",
            "settle"}

NoPub == [step |-> "idle", goal |-> "none", head |-> NoHead, valid |-> NoHead,
          adopt |-> FALSE]
NoComment == [reviewed |-> NoHead, validated |-> NoHead, outcome |-> NoHead]

\* The types of the variables: publish commands under way, git pushes sent, what
\* GitHub shows.
PublicationTypeOK ==
    /\ CurationTypeOK
    /\ pub \in [Run -> [step : PubStep, goal : Goal, head : MaybeHead,
                        valid : MaybeHead, adopt : BOOLEAN]]
    /\ push \in [Run -> {"none", "sent", "ok", "rejected"}]
    /\ orphans \subseteq [old : Head, new : Head]
    /\ comment \in [reviewed : MaybeHead, validated : MaybeHead, outcome : MaybeHead]
    /\ label \in [state : {"none", "waiting-ci", "ready", "hold", "outcome"},
                  head : MaybeHead]
    /\ landed \subseteq Head

PublicationInit == /\ CurationInit
                   /\ pub = [r \in Run |-> NoPub]
                   /\ push = [r \in Run |-> "none"]
                   /\ orphans = {}
                   /\ comment = NoComment
                   /\ label = [state |-> "none", head |-> NoHead]
                   /\ landed = {remote}

-----------------------------------------------------------------------------
Free(r, goal) == goal \in Goals /\ At(r, "idle") /\ pub[r] = NoPub
PubAt(r, step) == owner = r /\ mutex = NoRun /\ pub[r].step = step
PubGoto(r, step) == pub' = [pub EXCEPT ![r].step = step]
PubDone(r) == pub' = [pub EXCEPT ![r] = NoPub]
PubStart(r, step, goal, h) ==
    pub' = [pub EXCEPT ![r] = [NoPub EXCEPT !.step = step, !.goal = goal, !.head = h]]

OwnJournal(r) == journal[Pr].phase # "none" /\ journal[Pr].recovery = r
Pushed(r) == OwnJournal(r) /\ journal[Pr].phase = "pushed"

\* matching_pushed_journal
Matching(r, h) == /\ OwnJournal(r)
                  /\ journal[Pr].phase \in {"pushed", "published"}
                  /\ journal[Pr].new = h

Waiting == ci[Pr].phase \in {"initial-wait", "second-wait"}

\* require_ci_generation_eligible
CiEligible(h) == /\ UnresolvedTerminal = {}
                 /\ ci[Pr].phase \in TerminalCi \cup {"none"}
                 /\ h \notin {ci[Pr].semantic, ci[Pr].current} \cup archive[Pr]

unpublished == <<gitVars, genVars, pushVars, githubVars>>

-----------------------------------------------------------------------------
(* publish push, publish manual-check and publish recover                  *)

PushStart(r) ==
    /\ Free(r, "push")
    /\ work[Pr].run = r
    /\ work[Pr].phase = "validated"
    /\ prHead = work[Pr].selected
    /\ CiEligible(work[Pr].validated)
    /\ \/ /\ AuthorizePush(r, Pr, work[Pr].selected, work[Pr].validated)
          /\ PubStart(r, "consume", "push", work[Pr].validated)
       \/ /\ Unresolved = {Pr}
          /\ journal[Pr].recovery = r
          /\ PubStart(r, "push", "push", work[Pr].validated)
          /\ UNCHANGED storeVars
    /\ UNCHANGED unpublished

\* the generation's authority for the head of the work record
Authority(stages) == /\ gen.stage \in stages
                     /\ gen.head = work[Pr].reviewed
                     /\ gen.prepared = synced
                     /\ selected = work[Pr].selected

ReviewedOnly == {"reviewed", "validation-failed"}

ManualStart(r) ==
    /\ Free(r, "manual-check")
    /\ \/ /\ ~ (OwnJournal(r) /\ journal[Pr].new = work[Pr].reviewed)
          /\ work[Pr].run = r
          /\ work[Pr].phase = "reviewed"
          /\ Authority(ReviewedOnly)
          /\ prHead = work[Pr].selected
          /\ AuthorizePush(r, Pr, work[Pr].selected, work[Pr].reviewed)
          /\ PubStart(r, "consume", "manual-check", work[Pr].reviewed)
       \/ /\ OwnJournal(r)
          /\ PubStart(r, "push", "manual-check", journal[Pr].new)
          /\ UNCHANGED storeVars
    /\ UNCHANGED unpublished

\* _consume_generation_for_journal; a closed checkpoint transaction is required
Consume(r) ==
    /\ PubAt(r, "consume")
    /\ Authority(IF pub[r].goal = "push" THEN {"fully-validated"} ELSE ReviewedOnly)
    /\ gen.open = NoOpen
    /\ Close("consumed")
    /\ PubGoto(r, "push")
    /\ UNCHANGED <<storeVars, gitVars, made, synced, picking, task, history, pushVars,
                   githubVars>>

RecoverStart(r) ==
    /\ Free(r, "recover")
    /\ UnresolvedTerminal = {}
    /\ Unresolved = {Pr}
    /\ remote \in {journal[Pr].expected, journal[Pr].new}
    /\ IF journal[Pr].recovery = r THEN UNCHANGED storeVars ELSE AdoptPush(r, Pr, remote)
    /\ PubStart(r, "push", "recover", journal[Pr].new)
    /\ UNCHANGED unpublished

\* _advance_curation_push reads the branch, and pushes unless it has landed
StartPush(r) ==
    /\ PubAt(r, "push")
    /\ journal[Pr].phase = "authorized"
    /\ remote = journal[Pr].expected
    /\ journal[Pr].new \in {work[Pr].reviewed, work[Pr].validated}
    /\ made[journal[Pr].new].prepared = synced
    /\ EnterPushGuard(r, Pr)
    /\ push' = [push EXCEPT ![r] = "sent"]
    /\ PubGoto(r, "pushing")
    /\ UNCHANGED <<gitVars, genVars, orphans, landed, githubVars>>

\* Mutant: an authorized push is taken for one that has landed.
SkipPushUnchecked(r) ==
    /\ PubAt(r, "push")
    /\ \/ journal[Pr].phase = "authorized" /\ PubGoto(r, "advance")
       \/ journal[Pr].phase \in {"pushed", "published"} /\ PubGoto(r, "record")
    /\ UNCHANGED <<storeVars, unpublished>>

SkipPush(r) ==
    /\ PubAt(r, "push")
    /\ \/ /\ journal[Pr].phase = "authorized" /\ remote = journal[Pr].new
          /\ PubGoto(r, "advance")
       \/ /\ journal[Pr].phase \in {"pushed", "published"}
          /\ PubGoto(r, "record")
    /\ UNCHANGED <<storeVars, unpublished>>

\* Mutants: the push is forced over whatever the branch shows, sends the head
\* of the sync, or sends the validated head for every command.
ForcedPacket == [old |-> remote, new |-> journal[Pr].new]
ValidatedPacket == [old |-> made[synced].selected, new |-> work[Pr].validated]
SyncPacket == [old |-> made[synced].selected, new |-> synced]

\* push_with_lease names the head the sync was made from
Packet == [old |-> made[synced].selected, new |-> journal[Pr].new]

PushArrives(r) ==
    /\ push[r] = "sent"
    /\ IF remote = Packet.old
         THEN /\ remote' = Packet.new
              /\ landed' = landed \cup {Packet.new}
              /\ push' = [push EXCEPT ![r] = "ok"]
         ELSE /\ push' = [push EXCEPT ![r] = "rejected"]
              /\ UNCHANGED <<remote, landed>>
    /\ UNCHANGED <<storeVars, main, prHead, genVars, pub, orphans, githubVars>>

\* Mutant: a rejected push is taken for one that landed.
PushReturnsAnyway(r) ==
    /\ push[r] \in {"ok", "rejected"}
    /\ LeaveGuard(r)
    /\ push' = [push EXCEPT ![r] = "none"]
    /\ PubGoto(r, "advance")
    /\ UNCHANGED <<gitVars, genVars, orphans, landed, githubVars>>

PushReturns(r) ==
    /\ push[r] \in {"ok", "rejected"}
    /\ LeaveGuard(r)
    /\ push' = [push EXCEPT ![r] = "none"]
    /\ IF push[r] = "ok" THEN PubGoto(r, "advance") ELSE PubDone(r)
    /\ UNCHANGED <<gitVars, genVars, orphans, landed, githubVars>>

OrphanArrives ==
    \E p \in orphans :
        /\ orphans' = orphans \ {p}
        /\ IF remote = p.old THEN remote' = p.new /\ landed' = landed \cup {p.new}
                             ELSE UNCHANGED <<remote, landed>>
        /\ UNCHANGED <<storeVars, main, prHead, genVars, pub, push, githubVars>>

MarkPushed(r) ==
    /\ PubAt(r, "advance")
    /\ AdvancePush(r, Pr)
    /\ PubGoto(r, "record")
    /\ UNCHANGED unpublished

\* what follows the push: the work record, or the manual-check publication
RecordPush(r) ==
    /\ PubAt(r, "record")
    /\ \/ /\ pub[r].goal \in {"push", "recover"}
          /\ work[Pr].run = r /\ work[Pr].phase = "validated"
          /\ SaveWork(r, Pr, work[Pr].reviewed, work[Pr].validated)
          /\ PubDone(r)
       \/ /\ pub[r].goal = "recover"
          /\ ~ (work[Pr].run = r /\ work[Pr].phase = "validated")
          /\ PubDone(r)
          /\ UNCHANGED storeVars
       \/ /\ pub[r].goal = "manual-check"
          /\ PubStart(r, "state", "hold", pub[r].head)
          /\ UNCHANGED storeVars
    /\ UNCHANGED unpublished

-----------------------------------------------------------------------------
(* publish state                                                           *)

\* a successor adopts the continuation, at once or after its own journal is
\* published
StateStart(r, goal, h) ==
    LET late == Pushed(r) /\ journal[Pr].new = ci[Pr].current
        adopt == Waiting /\ ci[Pr].recovery # r
    IN  /\ \/ Free(r, goal) /\ goal \in {"waiting-ci", "ready", "hold"}
           \/ PubAt(r, "state") /\ goal = pub[r].goal /\ h = pub[r].head
        /\ UnresolvedTerminal = {}
        /\ IF adopt /\ ~late THEN AdoptCi(r, Pr) ELSE UNCHANGED storeVars
        /\ pub' = [pub EXCEPT ![r] = [step |-> "handoff", goal |-> goal, head |-> h,
                                      valid |-> NoHead, adopt |-> adopt /\ late]]
        /\ UNCHANGED unpublished

\* the pull request shows the head to publish, and so does the branch
Shows(r, h) == prHead = h /\ (Matching(r, h) => remote = h)

\* _ensure_initial_ci_continuation is called
HandsOff(r, h) == /\ pub[r].goal = "waiting-ci"
                  /\ Matching(r, h) /\ journal[Pr].phase = "pushed"
                  /\ ci[Pr].phase \in {"none", "initial-wait"} \cup TerminalCi

\* Mutant: the work record is not asked whether the head was validated.
HandsOffUnvalidated(r, h) == work[Pr].run = journal[Pr].origin

CanHandOff(r, h) == /\ work[Pr].run = journal[Pr].origin
                    /\ work[Pr].phase = "pushed"
                    /\ work[Pr].validated = h

StateHandOff(r) ==
    LET h == pub[r].head
    IN  /\ PubAt(r, "handoff")
        /\ Shows(r, h)
        /\ IF HandsOff(r, h)
             THEN /\ CanHandOff(r, h)
                  /\ IF ci[Pr].phase = "initial-wait"
                       THEN /\ ci[Pr] = [InitialCi(ci[Pr].origin, h) EXCEPT
                                            !.recovery = ci[Pr].origin]
                            /\ UNCHANGED storeVars
                       ELSE StartCi(r, Pr, h)
                  /\ IF ci'[Pr].phase = "initial-wait" THEN PubGoto(r, "observe")
                                                       ELSE PubDone(r)
             ELSE PubGoto(r, "observe") /\ UNCHANGED storeVars
        /\ UNCHANGED unpublished

\* Mutant: a reviewed head is published as validated.
ReviewedEvidence(r, h) ==
    CASE Waiting -> h
      [] ~Waiting /\ work[Pr].reviewed = h -> h
      [] OTHER -> IF comment.validated = h THEN h ELSE NoHead

\* the validated head of the machine state to publish
Evidence(r, h) ==
    CASE Waiting -> h
      [] ~Waiting /\ work[Pr].validated = h /\ (work[Pr].run = r \/ Matching(r, h)) -> h
      [] OTHER -> IF comment.validated = h THEN h ELSE NoHead

EverPushed(r, h) == \/ Waiting
                    \/ Matching(r, h)
                    \/ work[Pr].phase \in {"pushed", "published"}
                    \/ ~ (work[Pr].validated = h /\ work[Pr].run = r)

\* trusted_hold_head: an outcome counts under its own label
HoldHead == IF comment.outcome # NoHead /\ label.state = "outcome" THEN comment.outcome
                                                                  ELSE comment.reviewed

HoldBlocks(h) == label.state \in {"hold", "outcome"} /\ HoldHead \in {NoHead, h}

\* the plan is made, and the wait observed unless the adoption is deferred;
\* whether the checks of the head allow the state is GitHub's answer
StatePlan(r) ==
    LET h == pub[r].head
        observe == pub[r].goal = "waiting-ci" /\ Waiting /\ ~pub[r].adopt
    IN  /\ PubAt(r, "observe")
        /\ Waiting => h = ci[Pr].current
        /\ pub[r].goal \in {"waiting-ci", "ready"} => Evidence(r, h) = h
        /\ pub[r].goal = "waiting-ci" => EverPushed(r, h)
        /\ pub[r].goal = "ready" => ~HoldBlocks(h)
        /\ \/ observe /\ RecordCiTime(r, Pr)
           \/ UNCHANGED storeVars /\ (observe => ci[Pr].beats = MaxBeats)
        /\ pub' = [pub EXCEPT ![r].step = "comment", ![r].valid = Evidence(r, h)]
        /\ UNCHANGED unpublished

-----------------------------------------------------------------------------
(* publish outcome: blocked or owner-decision, without new evidence        *)

OutcomeStart(r) ==
    LET late == Pushed(r) /\ journal[Pr].new = ci[Pr].current
        adopt == Waiting /\ ci[Pr].recovery # r
    IN  /\ Free(r, "outcome")
        /\ UnresolvedTerminal = {}
        /\ Waiting => prHead = ci[Pr].current
        /\ IF adopt /\ ~late THEN AdoptCi(r, Pr) ELSE UNCHANGED storeVars
        /\ pub' = [pub EXCEPT ![r] = [step |-> "comment", goal |-> "outcome",
                                      head |-> prHead, valid |-> comment.validated,
                                      adopt |-> adopt /\ late]]
        /\ UNCHANGED unpublished

-----------------------------------------------------------------------------
(* The GitHub mutations: the pull request is read again, then the mutation *)
(* runs under the push journal's guard, or, for a run without a journal,   *)
(* under a check of the lease alone.                                       *)

Guard(r) == IF OwnJournal(r) THEN EnterPushGuard(r, Pr) ELSE UNCHANGED storeVars
Unguard(r) == IF mutex = r THEN LeaveGuard(r) ELSE UNCHANGED storeVars

CommentStart(r) ==
    /\ PubAt(r, "comment")
    /\ prHead = pub[r].head
    /\ Guard(r)
    /\ PubGoto(r, "commenting")
    /\ UNCHANGED unpublished

Comment(r) ==
    /\ pub[r].step = "commenting"
    /\ comment' = IF pub[r].goal = "outcome"
                    THEN [comment EXCEPT !.outcome = pub[r].head]
                    ELSE [reviewed |-> pub[r].head, validated |-> pub[r].valid,
                          outcome |-> NoHead]
    /\ Unguard(r)
    /\ PubGoto(r, "label")
    /\ UNCHANGED <<gitVars, genVars, pushVars, label>>

LabelStart(r) ==
    /\ PubAt(r, "label")
    /\ prHead = pub[r].head
    /\ Guard(r)
    /\ PubGoto(r, "labelling")
    /\ UNCHANGED unpublished

Label(r) ==
    /\ pub[r].step = "labelling"
    /\ label' = [state |-> pub[r].goal, head |-> pub[r].head]
    /\ Unguard(r)
    /\ PubGoto(r, "settle")
    /\ UNCHANGED <<gitVars, genVars, pushVars, comment>>

\* the journal, the continuation and the work record follow, in this order
SettleJournal(r) ==
    /\ Pushed(r)
    /\ AdvancePush(r, Pr)
    /\ UNCHANGED pub

SettleAdoption(r) ==
    /\ ~Pushed(r) /\ pub[r].adopt
    /\ AdoptCi(r, Pr)
    /\ pub' = [pub EXCEPT ![r].adopt = FALSE]

Ends(r) == Waiting /\ pub[r].goal \in {"ready", "outcome"}

SettleCi(r) ==
    /\ ~Pushed(r) /\ ~pub[r].adopt
    /\ Ends(r)
    /\ AdvanceCi(r, Pr, IF pub[r].goal = "ready" THEN "consumed" ELSE "blocked",
                 ci[Pr].current, ci[Pr].repair)
    /\ UNCHANGED pub

SettleWork(r) ==
    /\ ~Pushed(r) /\ ~pub[r].adopt /\ ~Ends(r)
    /\ IF pub[r].goal # "outcome" /\ work[Pr].run = r /\ work[Pr].phase = "pushed"
         THEN SaveWork(r, Pr, work[Pr].reviewed, work[Pr].validated)
         ELSE UNCHANGED storeVars
    /\ PubDone(r)

Settle(r) == /\ PubAt(r, "settle")
             /\ SettleJournal(r) \/ SettleAdoption(r) \/ SettleCi(r) \/ SettleWork(r)
             /\ UNCHANGED unpublished

-----------------------------------------------------------------------------
\* a command fails or dies; its git push may still be under way
PubStop(r) ==
    /\ pub[r] # NoPub
    /\ PubDone(r)
    /\ Unguard(r)
    /\ push' = [push EXCEPT ![r] = "none"]
    /\ orphans' = IF push[r] = "sent" THEN orphans \cup {Packet} ELSE orphans
    /\ UNCHANGED <<gitVars, genVars, landed, githubVars>>

Publish(r) == \/ PushStart(r) \/ ManualStart(r) \/ Consume(r) \/ RecoverStart(r)
              \/ StartPush(r) \/ SkipPush(r) \/ PushReturns(r) \/ MarkPushed(r)
              \/ RecordPush(r) \/ StateHandOff(r) \/ StatePlan(r) \/ OutcomeStart(r)
              \/ CommentStart(r) \/ Comment(r) \/ LabelStart(r) \/ Label(r) \/ Settle(r)
              \/ PubStop(r)
              \/ \E goal \in Goal, h \in Head : StateStart(r, goal, h)

\* A mutation under the lease check alone, once checked, is still sent.
LosePublication ==
    /\ Lose
    /\ IF pub[owner].step \in {"commenting", "labelling"} THEN UNCHANGED pub
                                                         ELSE PubDone(owner)
    /\ UNCHANGED <<pushVars, githubVars>>

PublicationNext ==
    \/ \E r \in Run : Publish(r) \/ PushArrives(r)
    \/ OrphanArrives
    \/ /\ \/ \E r \in Run : pub[r] = NoPub /\ Curate(r)
          \/ PrSync \/ MainAdvance \/ Acquire
       /\ UNCHANGED <<pub, pushVars, githubVars>>
    \/ LosePublication
    \/ /\ AuthorPush
       /\ landed' = landed \cup {remote'}
       /\ UNCHANGED <<pub, push, orphans, githubVars>>

PublicationSpec == PublicationInit /\ [][PublicationNext]_publicationVars
-----------------------------------------------------------------------------
(* What must hold.                                                         *)

\* A push of the maintainer replaces exactly the head that its commit was
\* prepared from, even when its command died long ago and runs, author and
\* generations have moved on: nothing anybody pushed in between is lost.
ReplacesItsOrigin ==
    [][remote' # remote /\ remote' \in Curated
          => made[remote'].selected = remote]_publicationVars

\* Only commits with a reviewed checkpoint reach the branch.
OnlyReviewedLands == landed \cap Curated \subseteq reviewed

\* A journal that says pushed tells the truth: its head has been the branch's.
JournalTellsTruth == journal[Pr].phase \in {"pushed", "published"}
                         => journal[Pr].new \in landed

\* The CI budgets are spent only on validated heads that were pushed.
WaitsForValidated == ci[Pr].semantic # NoHead => ci[Pr].semantic \in passed \cap landed

\* What the pull request tells its owner is true: a head called validated,
\* ready or waiting for CI alone has passed validation.
ClaimsAreTrue == /\ comment.validated \in passed \cup {NoHead}
                 /\ label.state \in {"waiting-ci", "ready"} => label.head \in passed

\* A run gets past its push only with the journal it recovers.
PublishedWorkHasJournal ==
    work[Pr].phase \in {"pushed", "published"} /\ journal[Pr].origin = work[Pr].run
        => journal[Pr].new = work[Pr].validated /\ work[Pr].validated \in landed

\* The journal, the continuation and the work record agree on what was validated
\* and pushed, wherever a command died between two of them
\* (_ensure_initial_ci_continuation, _advance_curation_push).
RecordsAgree == PublicationTypeOK /\ WaitsForValidated /\ PublishedWorkHasJournal

-----------------------------------------------------------------------------
(* What the documents say and the code does not do.                        *)

\* `prepare curation' goes on under the same lease after a partial discovery.
InProgressContinues ==
    \A r \in Run :
        /\ CanPrepare(r) /\ pub[r] = NoPub
        /\ work[Pr].run = r /\ work[Pr].phase = "prepared" /\ synced = gen.prepared
        /\ gen.stage = "discovery" /\ gen.discovery = "partial" /\ gen.open = NoOpen
        /\ prHead = selected /\ remote = prHead
        => ENABLED Prepare(r)

\* A fully validated generation leads to its push.
ValidatedLeadsToPush ==
    \A r \in Run :
        /\ CanPrepare(r) /\ pub[r] = NoPub
        /\ work[Pr].run = r /\ synced = gen.prepared
        /\ gen.stage = "fully-validated"
        /\ prHead = selected /\ remote = prHead
        /\ CiEligible(gen.head)
        => ENABLED PushStart(r)

\* A validated head whose push was recovered by a later run can be handed to CI.
RecoveredHandsOff ==
    \A r \in Run :
        /\ PubAt(r, "handoff") /\ pub[r].goal = "waiting-ci"
        /\ Pushed(r) /\ journal[Pr].new = pub[r].head
        /\ work[Pr].run # r
        /\ work[Pr].validated = pub[r].head
        /\ CiEligible(pub[r].head)
        /\ Shows(r, pub[r].head)
        => ENABLED StateHandOff(r)

\* A publication that stopped between comment and label can be repeated.
ReadyRepeats ==
    /\ \A r \in Run : pub[r] = NoPub
    /\ label.state \in {"hold", "outcome"} /\ label.head # prHead
    /\ comment.validated = prHead /\ comment.outcome = NoHead
    => ~HoldBlocks(prHead)
=============================================================================
