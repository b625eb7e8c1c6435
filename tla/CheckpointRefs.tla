--------------------------- MODULE CheckpointRefs ---------------------------
(***************************************************************************)
(* The private refs of a curation checkpoint, and its archive              *)
(* (ops/maintainer/git_ops.py, checkpoint_curation_generation, and         *)
(* capabilities.py).  A transaction records its start, names the head by   *)
(* one ref, makes a replay commit of the same tree on the prepared base,   *)
(* names it by another, and records its end; a command may die between any *)
(* two of these steps, and one whose lease was taken over goes on.  The    *)
(* refs' names follow from the transaction's content, so that a retry      *)
(* meets what was made before.  At the owner's request the head of the     *)
(* current checkpoint is kept on a branch of the remote, one for each      *)
(* generation.                                                             *)
(*                                                                         *)
(* CurationGeneration models when a checkpoint may be taken and at what.   *)
(***************************************************************************)
EXTENDS Naturals
LOCAL INSTANCE Sequences

CONSTANTS Checkpointers, \* the runs whose commands overlap
          Transactions,  \* the checkpoints that a generation may take
          HeadOf,        \* the head of each
          MaxReplays,    \* a bound on the replay commits
          MaxGeneration,
          Nothing

ASSUME RefsAssumption == /\ MaxReplays \in Nat
                         /\ MaxGeneration \in Nat \ {0}
                         /\ Nothing \notin Nat /\ Nothing \notin Transactions
                         /\ \A t \in Transactions : HeadOf[t] # Nothing

VARIABLES holder,     \* the run that has the lease
          generation, \* the number of the current generation
          open,       \* its open transaction
          finished,   \* its finished ones, oldest first
          events,     \* the length of its document
          refs,       \* by generation and transaction, what its two refs name
          replays,    \* what the replay commits were made of
          archives,   \* by generation, the head on its branch of the remote
          doing,      \* the command of each run
          endedAs     \* history: what the refs named when a transaction ended

refVars == <<holder, generation, open, finished, events, refs, replays, archives,
             doing, endedAs>>
document == <<generation, open, finished, events>>

Generations == 1..MaxGeneration
Unnamed == [checkpoint |-> Nothing, replay |-> Nothing]
Resting == [step |-> "rest", of |-> Nothing, read |-> 0, commit |-> Nothing]

RefsInit == /\ holder \in Checkpointers
            /\ generation = 1 /\ open = Nothing /\ finished = <<>> /\ events = 0
            /\ refs = [k \in Generations \X Transactions |-> Unnamed]
            /\ replays = <<>>
            /\ archives = [g \in Generations |-> Nothing]
            /\ doing = [r \in Checkpointers |-> Resting]
            /\ endedAs = [k \in {} |-> Unnamed]

Named(k, commit) == refs[k].replay = commit
IsFinished(t) == \E i \in DOMAIN finished : finished[i] = t
Current == IF finished = <<>> THEN Nothing ELSE finished[Len(finished)]

OnStep(r, step) == doing[r].step = step
GoOn(r, step) == doing' = [doing EXCEPT ![r].step = step]
Rest(r) == doing' = [doing EXCEPT ![r] = Resting]
Key(r) == doing[r].of

\* the refs hold: the head, and a commit of its tree on the prepared base
PairHolds(k) == /\ refs[k].checkpoint = HeadOf[k[2]]
                /\ refs[k].replay # Nothing
                /\ replays[refs[k].replay] = k

-----------------------------------------------------------------------------
(* checkpoint curation                                                     *)

BeginCheckpoint(r) ==
    /\ holder = r /\ OnStep(r, "rest")
    /\ \E t \in Transactions :
          /\ ~IsFinished(t)
          /\ open \in {Nothing, t}
          /\ doing' = [doing EXCEPT ![r] =
                [step |-> IF open = t THEN "checkpoint-ref" ELSE "start",
                 of |-> <<generation, t>>, read |-> events, commit |-> Nothing]]
    /\ UNCHANGED <<holder, document, refs, replays, archives, endedAs>>

\* append_event takes the event of the current lease and the document as read
MayAppend(r) == /\ holder = r
                /\ doing[r].of[1] = generation
                /\ doing[r].read = events

RecordStart(r) ==
    /\ OnStep(r, "start") /\ MayAppend(r)
    /\ open' = doing[r].of[2]
    /\ events' = events + 1
    /\ doing' = [doing EXCEPT ![r].step = "checkpoint-ref", ![r].read = events + 1]
    /\ UNCHANGED <<holder, generation, finished, refs, replays, archives, endedAs>>

NameHead(r) ==
    /\ OnStep(r, "checkpoint-ref")
    /\ refs' = [refs EXCEPT ![Key(r)].checkpoint = HeadOf[Key(r)[2]]]
    /\ GoOn(r, "look")
    /\ UNCHANGED <<holder, document, replays, archives, endedAs>>

Look(r) ==
    /\ OnStep(r, "look")
    /\ IF Named(Key(r), Nothing)
       THEN /\ Len(replays) < MaxReplays
            /\ replays' = Append(replays, Key(r))
            /\ doing' = [doing EXCEPT ![r].step = "replay-ref", ![r].commit = Len(replays) + 1]
       ELSE GoOn(r, "verify") /\ UNCHANGED replays
    /\ UNCHANGED <<holder, document, refs, archives, endedAs>>

\* Mutant: the ref is set, whatever it names.
NameReplayAnyway(r) ==
    /\ OnStep(r, "replay-ref")
    /\ refs' = [refs EXCEPT ![Key(r)].replay = doing[r].commit]
    /\ GoOn(r, "verify")
    /\ UNCHANGED <<holder, document, replays, archives, endedAs>>

\* create-only: a ref that names another commit is a collision
NameReplay(r) ==
    /\ OnStep(r, "replay-ref")
    /\ IF Named(Key(r), Nothing)
       THEN refs' = [refs EXCEPT ![Key(r)].replay = doing[r].commit] /\ GoOn(r, "verify")
       ELSE UNCHANGED refs /\ Rest(r)
    /\ UNCHANGED <<holder, document, replays, archives, endedAs>>

Verify(r) ==
    /\ OnStep(r, "verify")
    /\ IF PairHolds(Key(r)) THEN GoOn(r, "end") ELSE Rest(r)
    /\ UNCHANGED <<holder, document, refs, replays, archives, endedAs>>

RecordEnd(r) ==
    /\ OnStep(r, "end") /\ MayAppend(r)
    /\ finished' = Append(finished, doing[r].of[2])
    /\ open' = Nothing
    /\ events' = events + 1
    /\ endedAs' = [k \in DOMAIN endedAs \cup {Key(r)} |->
                      IF k = Key(r) THEN refs[k] ELSE endedAs[k]]
    /\ Rest(r)
    /\ UNCHANGED <<holder, generation, refs, replays, archives>>

-----------------------------------------------------------------------------
(* publish checkpoint-archive                                              *)

\* Mutant: the head of an open transaction is taken for the current checkpoint.
BeginArchiveOfLatest(r) ==
    /\ holder = r /\ OnStep(r, "rest")
    /\ LET t == IF open # Nothing THEN open ELSE Current IN
          /\ t # Nothing
          /\ doing' = [doing EXCEPT ![r] = [Resting EXCEPT !.step = "archive",
                                                          !.of = <<generation, t>>]]
    /\ UNCHANGED <<holder, document, refs, replays, archives, endedAs>>

BeginArchive(r) ==
    /\ holder = r /\ OnStep(r, "rest")
    /\ Current # Nothing
    /\ PairHolds(<<generation, Current>>)
    /\ doing' = [doing EXCEPT ![r] = [Resting EXCEPT !.step = "archive",
                                                    !.of = <<generation, Current>>]]
    /\ UNCHANGED <<holder, document, refs, replays, archives, endedAs>>

\* create-only on the remote as well; the same head is a success
Archive(r) ==
    /\ OnStep(r, "archive")
    /\ archives' = IF archives[Key(r)[1]] = Nothing
                   THEN [archives EXCEPT ![Key(r)[1]] = HeadOf[Key(r)[2]]] ELSE archives
    /\ Rest(r)
    /\ UNCHANGED <<holder, document, refs, replays, endedAs>>

-----------------------------------------------------------------------------
\* a command dies, or an event of its is refused
BreakOff(r) == /\ ~OnStep(r, "rest")
           /\ Rest(r)
           /\ UNCHANGED <<holder, document, refs, replays, archives, endedAs>>

TakeOver == /\ holder' \in Checkpointers \ {holder}
            /\ UNCHANGED <<document, refs, replays, archives, doing, endedAs>>

\* the generation is stale, or its refs do not hold when it is resumed
NextGeneration(r) ==
    /\ holder = r /\ OnStep(r, "rest")
    /\ generation < MaxGeneration
    /\ generation' = generation + 1
    /\ open' = Nothing /\ finished' = <<>> /\ events' = 0
    /\ UNCHANGED <<holder, refs, replays, archives, doing, endedAs>>

CheckpointStep(r) == \/ BeginCheckpoint(r) \/ RecordStart(r) \/ NameHead(r) \/ Look(r)
                     \/ NameReplay(r) \/ Verify(r) \/ RecordEnd(r)
                     \/ BeginArchive(r) \/ Archive(r) \/ BreakOff(r) \/ NextGeneration(r)

RefsNext == (\E r \in Checkpointers : CheckpointStep(r)) \/ TakeOver

-----------------------------------------------------------------------------
(* Properties.                                                             *)

\* A finished checkpoint can be restored and replayed for good: its refs hold, and
\* name what they named when it finished, whatever a command that lost the lease
\* still does
\* (_create_continuation_checkpoint before CheckpointCompletedEvent).
FinishedStands ==
    \A k \in DOMAIN endedAs : PairHolds(k) /\ refs[k] = endedAs[k]

\* The archive of a generation shows a head that was its current checkpoint,
\* never one whose checkpoint did not finish
\* (docs/operating-model/maintainer-runtime-command-contract.md, "accepts only the
\* exact current generation checkpoint").
ArchiveOfCheckpoint ==
    \A g \in Generations : archives[g] # Nothing =>
        \E k \in DOMAIN endedAs : k[1] = g /\ HeadOf[k[2]] = archives[g]

\* A command of the run that has the lease is not stuck behind what a dead one
\* left: an open transaction of the current generation is always one that the
\* next command can take up, its refs unset or right.
OpenIsResumable ==
    open # Nothing =>
        LET pair == refs[<<generation, open>>]
        IN  /\ pair.checkpoint \in {Nothing, HeadOf[open]}
            /\ pair.replay # Nothing => replays[pair.replay] = <<generation, open>>

\* The three together, at any time, whatever commands died or lost the lease
\* (checkpoint_curation_generation).
CheckpointsStand == FinishedStands /\ ArchiveOfCheckpoint /\ OpenIsResumable

RefsSpec == RefsInit /\ [][RefsNext]_refVars
=============================================================================
