-------------------------- MODULE CurationGeneration --------------------------
(***************************************************************************)
(* Preparing, checkpointing and validating one curation pull request       *)
(* (prepare, checkpoint and validate curation in                           *)
(* ops/maintainer/capabilities.py over curation_state.py), on top of       *)
(* JournalStore.                                                           *)
(*                                                                         *)
(* The generation document and the work record are two files.  A command   *)
(* writes them one after the other and may die between any two writes; the *)
(* next command of the same run, or `prepare curation' of a later run,     *)
(* goes on from what it finds.  The author may push, main may advance and  *)
(* the lease may be lost at any time.                                      *)
(*                                                                         *)
(* A run executes one of these commands at a time.  Only the lease owner's *)
(* writes succeed, so what a command read of the two files is still there  *)
(* when it writes, and reading and the first write are one step.  A command *)
(* whose run lost the lease fails at its next write: it ends with the lease. *)
(***************************************************************************)
EXTENDS JournalStore

CONSTANTS Pr,     \* the work item: curation-pr-N
          Author, \* heads the pull request's author pushes; the others are curated
          MaxBase,    \* bound on the advances of main
          Checkpoints \* the checkpoints that are tried

Curated == Head \ Author
Base == 0..MaxBase
NoBase == MaxBase + 1

Kind == {"none", "discovery", "delta", "reviewed"}
Discovery == {"none", "partial", "complete", "unavailable"}

ASSUME GenerationAssumption ==
    /\ Pr \in WorkId
    /\ WorkerOf[Pr] = "curation"
    /\ Author \subseteq Head
    /\ MaxBase \in Nat
    /\ Checkpoints \subseteq
           [kind : {"discovery"}, discovery : Discovery \ {"none"}]
               \cup [kind : {"delta", "reviewed"}, discovery : {"none"}]

VARIABLES gen,     \* the current generation: its latest state and open transaction
          made,    \* lineage of each commit the maintainer has made
          synced,  \* the sync of the work record, named by its prepared head
          picking, \* base of a conflicting cherry-pick left in the worktree
          main,    \* head of main
          remote,  \* head of the pull request's branch
          prHead,  \* head of the pull request as the GitHub API shows it
          task,    \* the command each run is executing
          reviewed, passed \* history: heads with a reviewed checkpoint, validated heads

gitVars == <<main, remote, prHead>>
genVars == <<gen, made, synced, picking, task, reviewed, passed>>
curationVars == <<storeVars, gitVars, genVars>>

Open == {"prepared", "discovery", "delta", "reviewed", "validation-failed",
         "fully-validated"}
Closed == {"superseded", "invalidated", "consumed"}
Step == {"idle", "begin", "sync", "start", "retry", "resume", "review", "supersede",
         "checkpoint", "validated"}

NoOpen == [kind |-> "none", head |-> NoHead, discovery |-> "none"]
Absent == [stage |-> "absent", discovery |-> "none", head |-> NoHead,
           prepared |-> NoHead, open |-> NoOpen]
Unmade == [selected |-> NoHead, base |-> NoBase, prepared |-> NoHead]
Idle == [step |-> "idle", head |-> NoHead]

\* The types of the variables: the generation document as projected from its
\* events, the git state, the commands under way.
CurationTypeOK ==
    /\ StoreTypeOK
    /\ gen \in [stage : Open \cup Closed \cup {"absent"}, discovery : Discovery,
                head : MaybeHead, prepared : MaybeHead,
                open : [kind : Kind, head : MaybeHead, discovery : Discovery]]
    /\ made \in [Curated -> [selected : MaybeHead, base : Base \cup {NoBase},
                             prepared : MaybeHead]]
    /\ synced \in MaybeHead
    /\ picking \in Base \cup {NoBase}
    /\ main \in Base
    /\ remote \in Head /\ prHead \in Head
    /\ task \in [Run -> [step : Step, head : MaybeHead]]
    /\ reviewed \subseteq Head /\ passed \subseteq Head

GenerationInit == /\ gen = Absent
                  /\ made = [h \in Curated |-> Unmade]
                  /\ synced = NoHead
                  /\ picking = NoBase
                  /\ main = 0
                  /\ remote \in Author
                  /\ prHead = remote
                  /\ task = [r \in Run |-> Idle]
                  /\ reviewed = {} /\ passed = {}

CurationInit == StoreInit /\ GenerationInit

-----------------------------------------------------------------------------
selected == made[gen.prepared].selected
base == made[gen.prepared].base

\* a commit that does not exist yet, and the commits that descend from the
\* prepared head of the current generation
Fresh(h) == h \in Curated /\ made[h] = Unmade
\* Mutant: any commit the maintainer has made can be checkpointed.
EveryCommit == {h \in Curated : made[h] # Unmade}

Lineage == {h \in Curated : made[h].prepared = gen.prepared}

\* projection.checkpoint_authority is set
Checkpointed == gen.stage \in Open \ {"prepared"}

Goto(r, step) == task' = [task EXCEPT ![r].step = step]
Done(r) == task' = [task EXCEPT ![r] = Idle]
At(r, step) == owner = r /\ mutex = NoRun /\ task[r].step = step

\* Mutant: the event that closes a generation is projected without its reason.
CloseWithoutReason(kind) == gen' = [gen EXCEPT !.stage = "generation-closed",
                                               !.open = NoOpen]

Close(kind) == gen' = [gen EXCEPT !.stage = kind, !.open = NoOpen]

\* handle_prepare_curation up to its first write
CanPrepare(r) == /\ At(r, "idle")
                 /\ UnresolvedTerminal = {}
                 /\ ActiveContinuations = {}
                 /\ Unresolved = {}

history == <<reviewed, passed>>

-----------------------------------------------------------------------------
(* prepare curation                                                        *)

\* the generation is stale, or was prepared and never checkpointed
PrepareClose(r) ==
    /\ CanPrepare(r)
    /\ gen.stage \in Open
    /\ \/ prHead # selected /\ Close("invalidated")
       \/ /\ prHead = selected
          /\ gen.stage = "prepared" /\ gen.open = NoOpen
          /\ Close("superseded")
    /\ task' = [task EXCEPT ![r] = [step |-> "begin", head |-> prHead]]
    /\ UNCHANGED <<storeVars, gitVars, made, synced, picking, history>>

\* _begin_selected_curation_work for a new generation
PrepareBegin(r) ==
    LET h == IF task[r].step = "begin" THEN task[r].head ELSE prHead
    IN  /\ \/ At(r, "begin")
           \/ CanPrepare(r) /\ gen.stage \in Closed \cup {"absent"}
        /\ BeginWork(r, Pr, h)
        /\ synced' = NoHead
        /\ task' = [task EXCEPT ![r] = [step |-> "sync", head |-> h]]
        /\ UNCHANGED <<gitVars, gen, made, picking, history>>

\* prepare_guarded_sync rebases the selected head onto main
PrepareSync(r) ==
    /\ At(r, "sync")
    /\ picking = NoBase
    /\ remote = task[r].head
    /\ SaveWork(r, Pr, NoHead, NoHead)
    /\ \E k \in Curated :
          /\ Fresh(k)
          /\ made' = [made EXCEPT ![k] = [selected |-> remote, base |-> main,
                                          prepared |-> k]]
          /\ synced' = k
    /\ Goto(r, "start")
    /\ UNCHANGED <<gitVars, gen, picking, history>>

StartGeneration(r) ==
    /\ At(r, "start")
    /\ gen' = [Absent EXCEPT !.stage = "prepared", !.head = synced, !.prepared = synced]
    /\ Done(r)
    /\ UNCHANGED <<storeVars, gitVars, made, synced, picking, history>>

\* the conditions under which a run may resume an open generation
CanResume(r) ==
    /\ CanPrepare(r)
    /\ gen.stage \in Open
    /\ prHead = selected
    /\ gen.open # NoOpen \/ Checkpointed
    /\ work[Pr].run # r

PrepareResume(r) ==
    /\ CanResume(r)
    /\ BeginWork(r, Pr, prHead)
    /\ synced' = NoHead
    /\ task' = [task EXCEPT ![r] =
                   [step |-> IF gen.open # NoOpen THEN "retry" ELSE "resume",
                    head |-> prHead]]
    /\ UNCHANGED <<gitVars, gen, made, picking, history>>

\* prepare_curation_checkpoint_retry restores the head of the open transaction
PrepareRetry(r) ==
    /\ At(r, "retry")
    /\ remote = task[r].head
    /\ SaveWork(r, Pr, NoHead, NoHead)
    /\ synced' = gen.prepared
    /\ picking' = NoBase
    /\ Done(r)
    /\ UNCHANGED <<gitVars, gen, made, history>>

PrepareRetryStale(r) ==
    /\ At(r, "retry")
    /\ remote # task[r].head
    /\ Close("invalidated")
    /\ picking' = NoBase
    /\ Done(r)
    /\ UNCHANGED <<storeVars, gitVars, made, synced, history>>

\* the commit or a private ref of the checkpoint is gone
PrepareMissing(r) ==
    /\ At(r, "retry") \/ At(r, "resume")
    /\ remote = task[r].head
    /\ Close("invalidated")
    /\ picking' = NoBase
    /\ Goto(r, "sync")
    /\ UNCHANGED <<storeVars, gitVars, made, synced, history>>

\* prepare_curation_recovery, main unchanged: restore the checkpoint
PrepareRestore(r) ==
    /\ At(r, "resume")
    /\ remote = task[r].head
    /\ main = base
    /\ SaveWork(r, Pr, NoHead, NoHead)
    /\ synced' = gen.prepared
    /\ picking' = NoBase
    /\ IF gen.stage \in {"reviewed", "fully-validated"} THEN Goto(r, "review")
                                                        ELSE Done(r)
    /\ UNCHANGED <<gitVars, gen, made, history>>

\* prepare curation --continue-conflict
CanContinueConflict(r) ==
    /\ CanPrepare(r)
    /\ Checkpointed /\ gen.open = NoOpen
    /\ prHead = selected
    /\ work[Pr].run = r /\ work[Pr].phase = "selected"
    /\ picking # NoBase

\* Mutant: the next generation is started, and the old one not superseded.
ReplayWithoutSupersede(r) ==
    /\ At(r, "resume") /\ remote = task[r].head /\ main # base
    /\ SaveWork(r, Pr, NoHead, NoHead)
    /\ \E k \in Curated :
          /\ Fresh(k)
          /\ made' = [made EXCEPT ![k] = [selected |-> selected, base |-> main,
                                          prepared |-> k]]
          /\ synced' = k
    /\ picking' = NoBase
    /\ Goto(r, "start")
    /\ UNCHANGED <<gitVars, gen, history>>

\* the replay of the checkpoint onto main completes, at once or, by
\* --continue-conflict, after its conflict was resolved
PrepareReplay(r) ==
    /\ \/ At(r, "resume") /\ remote = task[r].head /\ main # base
       \/ CanContinueConflict(r) /\ remote = prHead /\ picking = main
    /\ SaveWork(r, Pr, NoHead, NoHead)
    /\ \E k \in Curated :
          /\ Fresh(k)
          /\ made' = [made EXCEPT ![k] = [selected |-> selected, base |-> main,
                                          prepared |-> k]]
          /\ synced' = k
    /\ picking' = NoBase
    /\ Goto(r, "supersede")
    /\ UNCHANGED <<gitVars, gen, history>>

PrepareConflict(r) ==
    /\ At(r, "resume")
    /\ remote = task[r].head
    /\ main # base
    /\ picking' = main
    /\ Done(r)
    /\ UNCHANGED <<storeVars, gitVars, gen, made, synced, history>>

\* the resolution is refused: the replay is undone
PrepareAbort(r) ==
    /\ CanContinueConflict(r)
    /\ picking' = NoBase
    /\ UNCHANGED <<storeVars, gitVars, gen, made, synced, task, history>>

PrepareSupersede(r) ==
    /\ At(r, "supersede")
    /\ Close("superseded")
    /\ Goto(r, "start")
    /\ UNCHANGED <<storeVars, gitVars, made, synced, picking, history>>

\* the work record follows a reviewed checkpoint, in prepare and in checkpoint
RecordReview(r) ==
    /\ At(r, "review")
    /\ SaveWork(r, Pr, gen.head, NoHead)
    /\ Done(r)
    /\ UNCHANGED <<gitVars, gen, made, synced, picking, history>>

Prepare(r) == \/ PrepareClose(r) \/ PrepareBegin(r) \/ PrepareSync(r)
              \/ StartGeneration(r) \/ PrepareResume(r) \/ PrepareRetry(r)
              \/ PrepareRetryStale(r) \/ PrepareMissing(r) \/ PrepareRestore(r)
              \/ PrepareReplay(r) \/ PrepareConflict(r) \/ PrepareAbort(r)
              \/ PrepareSupersede(r) \/ RecordReview(r)

-----------------------------------------------------------------------------
(* checkpoint curation: a transaction of two events, then the work record  *)

\* Mutant: the sync of the work record is not compared with the generation.
CanCheckpointAnySync(r) ==
    /\ Unresolved = {}
    /\ gen.stage \in Open \ {"fully-validated"}
    /\ prHead = selected
    /\ work[Pr].run = r
    /\ work[Pr].phase \in {"prepared", "reviewed"}

CanCheckpoint(r) ==
    /\ Unresolved = {}
    /\ gen.stage \in Open \ {"fully-validated"}
    /\ prHead = selected
    /\ work[Pr].run = r
    /\ work[Pr].phase \in {"prepared", "reviewed"}
    /\ synced = gen.prepared

\* which checkpoint may follow which stage, at which head
Admits(kind, h) ==
    CASE kind = "discovery" ->
             \/ gen.stage = "prepared"
             \/ gen.stage = "discovery" /\ gen.discovery = "partial" /\ h # gen.head
             \/ /\ gen.stage \in {"discovery", "delta"}
                /\ gen.discovery \in {"complete", "unavailable"}
                /\ h # gen.head
      [] kind = "delta" ->
             /\ gen.discovery = "complete"
             /\ gen.stage \in {"delta", "validation-failed"} => h # gen.head
      [] kind = "reviewed" ->
             /\ gen.discovery = "complete"
             /\ gen.stage \in {"discovery", "delta"}
             /\ h = gen.head
      [] OTHER -> FALSE

\* Mutant: the work record is written with the start of a reviewed checkpoint.
CheckpointRecordsEarly(r) ==
    /\ At(r, "idle")
    /\ CanCheckpoint(r)
    /\ gen.open = NoOpen
    /\ \E c \in Checkpoints, h \in Curated :
          /\ h \in Lineage \/ Fresh(h)
          /\ Admits(c.kind, h)
          /\ gen' = [gen EXCEPT !.open = [kind |-> c.kind, head |-> h,
                                          discovery |-> c.discovery]]
          /\ made' = [made EXCEPT ![h] = IF Fresh(h) THEN [made[gen.prepared] EXCEPT
                                                             !.prepared = gen.prepared]
                                                     ELSE @]
          /\ Goto(r, IF c.kind = "reviewed" /\ work[Pr].phase = "prepared"
                       THEN "review" ELSE "checkpoint")
    /\ UNCHANGED <<storeVars, gitVars, synced, picking, history>>

CheckpointStart(r) ==
    /\ At(r, "idle")
    /\ CanCheckpoint(r)
    /\ gen.open = NoOpen
    /\ \E c \in Checkpoints, h \in Curated :
          /\ h \in Lineage \/ Fresh(h)
          /\ Admits(c.kind, h)
          /\ gen' = [gen EXCEPT !.open = [kind |-> c.kind, head |-> h,
                                          discovery |-> c.discovery]]
          /\ made' = [made EXCEPT ![h] = IF Fresh(h) THEN [made[gen.prepared] EXCEPT
                                                             !.prepared = gen.prepared]
                                                     ELSE @]
    /\ Goto(r, "checkpoint")
    /\ UNCHANGED <<storeVars, gitVars, synced, picking, history>>

\* by the command that started it, or by one that repeats it
CheckpointComplete(r) ==
    /\ At(r, "checkpoint") \/ (At(r, "idle") /\ CanCheckpoint(r))
    /\ gen.open # NoOpen
    /\ gen' = [gen EXCEPT !.stage = gen.open.kind, !.head = gen.open.head,
                          !.open = NoOpen,
                          !.discovery = IF gen.open.kind = "discovery"
                                          THEN gen.open.discovery ELSE @]
    /\ IF gen.open.kind = "reviewed"
         THEN /\ reviewed' = reviewed \cup {gen.open.head}
              /\ IF work[Pr].phase = "prepared" THEN Goto(r, "review") ELSE Done(r)
         ELSE Done(r) /\ UNCHANGED reviewed
    /\ UNCHANGED <<storeVars, gitVars, made, synced, picking, passed>>

-----------------------------------------------------------------------------
(* validate curation: the generation first, then the work record           *)

Validate(r) ==
    /\ At(r, "idle")
    /\ work[Pr].run = r
    /\ work[Pr].phase = "reviewed"
    /\ gen.stage = "reviewed" /\ gen.open = NoOpen
    /\ prHead = work[Pr].selected /\ prHead = selected
    /\ synced = gen.prepared
    /\ work[Pr].reviewed = gen.head
    /\ \/ /\ gen' = [gen EXCEPT !.stage = "fully-validated"]
          /\ passed' = passed \cup {gen.head}
          /\ Goto(r, "validated")
       \/ /\ gen' = [gen EXCEPT !.stage = "validation-failed"]
          /\ Done(r)
          /\ UNCHANGED passed
    /\ UNCHANGED <<storeVars, gitVars, made, synced, picking, reviewed>>

RecordValidation(r) ==
    /\ At(r, "validated")
    /\ SaveWork(r, Pr, work[Pr].reviewed, work[Pr].reviewed)
    /\ Done(r)
    /\ UNCHANGED <<gitVars, gen, made, synced, picking, history>>

-----------------------------------------------------------------------------
\* a command fails or its process dies
Stop(r) == /\ task[r] # Idle
           /\ Done(r)
           /\ UNCHANGED <<storeVars, gitVars, gen, made, synced, picking, history>>

AuthorPush == /\ remote' \in Author \ {remote}
              /\ UNCHANGED <<storeVars, main, prHead, genVars>>

\* the API shows a push some time after it landed
PrSync == /\ prHead # remote
          /\ prHead' = remote
          /\ UNCHANGED <<storeVars, main, remote, genVars>>

MainAdvance == /\ main < MaxBase
               /\ main' = main + 1
               /\ UNCHANGED <<storeVars, remote, prHead, genVars>>

Environment == AuthorPush \/ PrSync \/ MainAdvance

Acquire == /\ \E r \in Run : AcquireLease(r)
           /\ UNCHANGED <<gitVars, genVars>>

Lose == /\ LoseLease
        /\ Done(owner)
        /\ UNCHANGED <<gitVars, gen, made, synced, picking, history>>

Curate(r) == \/ Prepare(r) \/ CheckpointStart(r) \/ CheckpointComplete(r)
             \/ Validate(r) \/ RecordValidation(r) \/ Stop(r)

GenerationNext == \/ \E r \in Run : Curate(r)
                  \/ Environment
                  \/ Acquire \/ Lose

GenerationSpec == CurationInit /\ [][GenerationNext]_curationVars
-----------------------------------------------------------------------------
(* What must hold of the two files together.                               *)

Authoritative == Open \ {"prepared"}

\* The work record never claims more than its generation has: a reviewed head
\* has a completed reviewed checkpoint, a validated head has passed
\* validation, although each is written after, and apart from, its event.
EvidenceKept == LET w == work[Pr]
                IN  /\ w.reviewed \in reviewed \cup {NoHead}
                    /\ w.validated \in passed \cup {NoHead}

\* A head that the work record calls reviewed or validated was built on the
\* sync of that record, and the sync on the head the record selected, through
\* every restore, replay and takeover: the push replaces selected by it.
LineageKept == LET w == work[Pr]
               IN  w.reviewed # NoHead =>
                       /\ synced # NoHead
                       /\ made[w.reviewed].prepared = synced
                       /\ made[synced].selected = w.selected

\* The head a generation grants authority for descends from its prepared head.
AuthorityInLineage == gen.stage \in Authoritative =>
                          gen.head # NoHead /\ made[gen.head].prepared = gen.prepared

\* The generation document keeps its promises whatever command or crash lies
\* between its replay and its supersession, a checkpoint and its record: it is
\* replaced by the next one only after it was closed, and judged only as reviewed.
Promise == INSTANCE GenerationLifecycle
    WITH Heads <- Head,
         doc <- [stage |-> gen.stage, discovery |-> gen.discovery, head |-> gen.head,
                 open |-> gen.open]

\* So it keeps what GenerationLifecycle promises.
KeepsLifecycle == Promise!Lifecycle

\* What a generation, its work record and the worktree owe each other after any
\* command, crash and takeover (handle_prepare_curation to handle_validate_curation).
CurationSafe == CurationTypeOK /\ EvidenceKept /\ LineageKept /\ AuthorityInLineage
=============================================================================
