--------------------------- MODULE MaintainerProofs ---------------------------
(***************************************************************************)
(* Proofs about the parts of the maintainer that act alone: the lease of   *)
(* its runs (RunLease), the commands of a validation (CurationValidation), *)
(* the move of the older format's files (LegacyMigration), the time        *)
(* budgets of a continuation (CiBudget), the private refs and the archive  *)
(* of a checkpoint (CheckpointRefs), what inspection offers (Inspection),  *)
(* what a report says of ski areas (SkiAreaScope) and of the catalog's     *)
(* graph (GraphDiscovery), and the events of a document (GenerationLog);   *)
(* for any number of processes, runs, commands, files, attempts,           *)
(* heartbeats, transactions, generations, events, pull requests and        *)
(* reports, for every catalog, and for every size of the caps.             *)
(***************************************************************************)
EXTENDS RunLease, CurationValidation, LegacyMigration, CiBudget, CheckpointRefs,
        Inspection, SkiAreaScope, GraphDiscovery, GenerationLog, FiniteSetTheorems,
        SequenceTheorems, NaturalsInduction, WellFoundedInduction, TLAPS
LOCAL INSTANCE Sequences

-----------------------------------------------------------------------------
(* The lease.  The invariant says what the transition mutex buys: only its *)
(* holder is past the "wait" stage, so what a command has read of the lock *)
(* directory is still true when it acts on it.                             *)

Busy == {"in", "made", "granted", "renamed", "checked"}

\* only the holder of the mutex is inside a command
MutexInv == \A p \in Proc : task[p].stage \in Busy <=> mutex = p

\* what the holder has read or written of the lock directory still holds
StageInv == \A p \in Proc :
               /\ task[p].at <= now
               /\ task[p].stage = "made" => lock.present /\ lock.owner = NoRun
               /\ task[p].stage = "granted" => OwnedBy(task[p].run)
               /\ task[p].stage = "checked" => OwnedBy(task[p].run)
               /\ task[p].stage = "renamed" =>
                     /\ lock = NoLock
                     /\ task[p].run \in Run

\* the owner is the newest grant and is not among the retired runs
OwnerInv == lock.owner # NoRun => /\ lock.present
                                  /\ grantNo[lock.owner] = grants
                                  /\ grants > 0
                                  /\ lock.owner \notin archived \cup leftover

\* history counters never run ahead of the grants made
GrantInv == /\ \A r \in Run : grantNo[r] <= grants
            /\ \A r \in archived \cup leftover : grantNo[r] > 0
            /\ lastWrite <= grants

IInv == TypeOK /\ MutexInv /\ StageInv /\ OwnerInv /\ GrantInv

-----------------------------------------------------------------------------
\* The inductive invariant holds before any command has run.
LEMMA InitInv == Init => IInv
BY LeaseAssumption, SMTT(30)
   DEF Init, IInv, TypeOK, MutexInv, StageInv, OwnerInv, GrantInv, Busy, OwnedBy,
       NoLock, Idle, Lock, Task, Op, Stage

\* No step of any command, no crash and no tick breaks the inductive invariant.
LEMMA NextInv == IInv /\ [Next]_vars => IInv'
<1> SUFFICES ASSUME IInv, [Next]_vars PROVE IInv'
    OBVIOUS
<1> USE LeaseAssumption
    DEF IInv, TypeOK, MutexInv, StageInv, OwnerInv, GrantInv, Busy, OwnedBy,
        NoLock, Idle, Lock, Task, Op, Stage, lockVars, writeVars
<1>1. ASSUME NEW p \in Proc, StartAcquire(p) PROVE IInv'
    BY <1>1, SMTT(30) DEF StartAcquire
<1>2. ASSUME NEW p \in Proc, StartOwned(p) PROVE IInv'
    BY <1>2, SMTT(30) DEF StartOwned
<1>3. ASSUME NEW p \in Proc, EnterMutex(p) PROVE IInv'
    BY <1>3, SMTT(30) DEF EnterMutex
<1>4. ASSUME NEW p \in Proc, AcquireMkdir(p) PROVE IInv'
  <2>1. TypeOK'
    <3>1. lock' = [present |-> TRUE, owner |-> NoRun, heartbeat |-> 0, mtime |-> now]
          BY <1>4 DEF AcquireMkdir
    <3>2. lock' \in Lock
          BY <3>1
    <3> QED BY <1>4, <3>2 DEF AcquireMkdir, In, AtStage
  <2>2. MutexInv'
      BY <1>4, SMTT(30) DEF AcquireMkdir, In, AtStage
  <2>3. StageInv'
      BY <1>4, SMTT(30) DEF AcquireMkdir, In, AtStage
  <2>4. OwnerInv'
      BY <1>4, SMTT(30) DEF AcquireMkdir, In, AtStage
  <2>5. GrantInv'
      BY <1>4, SMTT(30) DEF AcquireMkdir, In, AtStage
  <2> QED
      BY <2>1, <2>2, <2>3, <2>4, <2>5
<1>5. ASSUME NEW p \in Proc, AcquireBusy(p) PROVE IInv'
    BY <1>5, SMTT(30) DEF AcquireBusy, In, Finish
<1>6. ASSUME NEW p \in Proc, AcquireTakeover(p) PROVE IInv'
    BY <1>6, SMTT(30) DEF AcquireTakeover, In
<1>7. ASSUME NEW p \in Proc, AcquireWriteOwner(p) PROVE IInv'
    BY <1>7, SMTT(30) DEF AcquireWriteOwner
<1>8. ASSUME NEW p \in Proc, AcquireReturn(p) PROVE IInv'
    BY <1>8, SMTT(30) DEF AcquireReturn, Finish
<1>9. ASSUME NEW p \in Proc, AcquireError(p) PROVE IInv'
    BY <1>9, SMTT(30) DEF AcquireError, In, Finish
<1>10. ASSUME NEW p \in Proc, AcquireFail(p) PROVE IInv'
  <2>0. lock' = lock \/ (lock'.owner = NoRun /\ lock' \in Lock)
    <3>1. CASE lock' = NoLock
          BY <3>1
    <3>2. CASE lock' = [NoLock EXCEPT !.present = TRUE, !.mtime = now]
      <4>1. lock' = [present |-> TRUE, owner |-> NoRun, heartbeat |-> 0, mtime |-> now]
            BY <3>2
      <4> QED BY <4>1
    <3> QED BY <1>10, <3>1, <3>2 DEF AcquireFail
  <2>1. TypeOK'
      BY <1>10, <2>0, SMTT(30) DEF AcquireFail, Finish
  <2>2. MutexInv'
      BY <1>10, SMTT(30) DEF AcquireFail, Finish
  <2>3. StageInv'
      BY <1>10, SMTT(30) DEF AcquireFail, Finish
  <2>4. OwnerInv'
    <3>1. UNCHANGED <<grantNo, grants, archived, leftover>>
          BY <1>10 DEF AcquireFail
    <3> QED BY <2>0, <3>1
  <2>5. GrantInv'
      BY <1>10, SMTT(30) DEF AcquireFail, Finish
  <2> QED
      BY <2>1, <2>2, <2>3, <2>4, <2>5
<1>11. ASSUME NEW p \in Proc, HeartbeatWrite(p) PROVE IInv'
  <2>1. TypeOK'
    <3>1. lock' \in Lock
          BY <1>11 DEF HeartbeatWrite
    <3> QED BY <1>11, <3>1 DEF HeartbeatWrite, In, Finish
  <2>2. MutexInv'
      BY <1>11, SMTT(30) DEF HeartbeatWrite, In, Finish
  <2>3. StageInv'
      BY <1>11, SMTT(30) DEF HeartbeatWrite, In, Finish
  <2>4. OwnerInv'
      BY <1>11, SMTT(30) DEF HeartbeatWrite, In, Finish
  <2>5. GrantInv'
      BY <1>11, SMTT(30) DEF HeartbeatWrite, In, Finish
  <2> QED
      BY <2>1, <2>2, <2>3, <2>4, <2>5
<1>12. ASSUME NEW p \in Proc, HeartbeatReject(p) PROVE IInv'
    BY <1>12, SMTT(30) DEF HeartbeatReject, In, Finish
<1>13. ASSUME NEW p \in Proc, ReleaseRename(p) PROVE IInv'
    BY <1>13, SMTT(30) DEF ReleaseRename, In, AtStage
<1>14. ASSUME NEW p \in Proc, ReleaseDelete(p) PROVE IInv'
    BY <1>14, SMTT(30) DEF ReleaseDelete, Finish
<1>15. ASSUME NEW p \in Proc, ReleaseReject(p) PROVE IInv'
    BY <1>15, SMTT(30) DEF ReleaseReject, In, Finish
<1>16. ASSUME NEW p \in Proc, MutateCheck(p) PROVE IInv'
    BY <1>16, SMTT(30) DEF MutateCheck, In, AtStage
<1>17. ASSUME NEW p \in Proc, MutateWrite(p) PROVE IInv'
    BY <1>17, SMTT(30) DEF MutateWrite, Finish
<1>18. ASSUME NEW p \in Proc, MutateReject(p) PROVE IInv'
    BY <1>18, SMTT(30) DEF MutateReject, In, Finish
<1>19. ASSUME NEW p \in Proc, Crash(p) PROVE IInv'
    BY <1>19, SMTT(30) DEF Crash
<1>20. CASE Tick
    BY <1>20, SMTT(30) DEF Tick
<1>21. CASE UNCHANGED vars
    BY <1>21, SMTT(30) DEF vars
<1> QED
    BY <1>1, <1>2, <1>3, <1>4, <1>5, <1>6, <1>7, <1>8, <1>9, <1>10, <1>11, <1>12,
       <1>13, <1>14, <1>15, <1>16, <1>17, <1>18, <1>19, <1>20, <1>21
       DEF Next, StartCommand, Work, Acquire, Heartbeat, Release, Mutate

\* The inductive invariant holds whatever the commands do.
THEOREM Invariance == Spec => []IInv
<1>1. IInv /\ [Next]_vars => IInv'
      BY NextInv
<1> QED
    BY InitInv, <1>1, PTL DEF Spec

-----------------------------------------------------------------------------
(* What a step can do to the owner record.                                 *)

\* The owner changes only by being granted to an unused run, by a takeover of
\* a stale record, or in the hands of the run it names.
LEMMA OwnerStep ==
    ASSUME IInv, Next
    PROVE  \/ lock'.owner = lock.owner /\ lock'.present = lock.present
           \/ /\ lock.owner = NoRun
              /\ lock'.owner = NoRun
           \/ /\ lock.owner = NoRun
              /\ \E p \in Proc : AcquireWriteOwner(p)
           \/ /\ lock.owner # NoRun
              /\ lock'.owner = NoRun
              /\ UNCHANGED <<grantNo, writer>>
              /\ \/ now >= lock.heartbeat + StaleAfter
                 \/ \E p \in Proc : mutex = p /\ task[p].run = lock.owner
<1> USE LeaseAssumption DEF IInv, TypeOK, StageInv, OwnedBy, NoLock, Lock, Task
<1>1. ASSUME NEW p \in Proc, AcquireTakeover(p), lock.owner # NoRun
      PROVE  /\ lock'.owner = NoRun
             /\ UNCHANGED <<grantNo, writer>>
             /\ now >= lock.heartbeat + StaleAfter
      BY <1>1 DEF AcquireTakeover, Fresh, LastSeen, writeVars
<1>2. ASSUME NEW p \in Proc, AcquireFail(p)
      PROVE  \/ lock' = lock
             \/ /\ lock'.owner = NoRun
                /\ mutex = p
                /\ UNCHANGED <<grantNo, writer>>
                /\ lock.owner = NoRun \/ task[p].run = lock.owner
  <2>1. lock.owner = NoRun \/ task[p].run = lock.owner
        BY <1>2 DEF AcquireFail
  <2>2. mutex = p /\ UNCHANGED <<grantNo, writer>>
        BY <1>2 DEF AcquireFail, writeVars
  <2>3. [NoLock EXCEPT !.present = TRUE, !.mtime = now].owner = NoRun
        OBVIOUS
  <2>4. NoLock.owner = NoRun
        OBVIOUS
  <2>5. lock' = lock \/ lock'.owner = NoRun
        BY <1>2, <2>3, <2>4 DEF AcquireFail
  <2> QED BY <2>1, <2>2, <2>5
<1>3. ASSUME NEW p \in Proc, ReleaseRename(p)
      PROVE  /\ lock'.owner = NoRun
             /\ mutex = p
             /\ UNCHANGED <<grantNo, writer>>
             /\ task[p].run = lock.owner
      BY <1>3 DEF ReleaseRename, In, writeVars
<1>4. ASSUME NEW p \in Proc, AcquireMkdir(p)
      PROVE  lock.owner = NoRun /\ lock'.owner = NoRun
      BY <1>4 DEF AcquireMkdir, OwnerInv
<1>5. ASSUME NEW p \in Proc, HeartbeatWrite(p)
      PROVE  lock'.owner = lock.owner /\ lock'.present = lock.present
      BY <1>5 DEF HeartbeatWrite
<1>6. ASSUME NEW p \in Proc, AcquireWriteOwner(p)
      PROVE  lock.owner = NoRun
      BY <1>6 DEF AcquireWriteOwner
<1>7. CASE lock' = lock
      BY <1>7
<1>8. ASSUME NEW p \in Proc, AcquireTakeover(p), lock.owner = NoRun
      PROVE  lock'.owner = NoRun
      BY <1>8 DEF AcquireTakeover
<1> QED
    BY <1>1, <1>2, <1>3, <1>4, <1>5, <1>6, <1>7, <1>8
    DEF Next, StartCommand, Work, Acquire, Heartbeat, Release, Mutate, StartAcquire,
        StartOwned, EnterMutex, AcquireBusy, AcquireReturn, AcquireError,
        HeartbeatReject, ReleaseDelete, ReleaseReject, MutateCheck, MutateWrite,
        MutateReject, Crash, Tick, lockVars

-----------------------------------------------------------------------------
(* What holds of the lease.                                                *)

\* The state of the lease, of the commands and of the histories is well
\* formed whatever the commands do (RunLease in runtime.py).
THEOREM TypeCorrect == Spec => []TypeOK
<1>1. IInv => TypeOK
      BY DEF IInv
<1> QED
    BY Invariance, <1>1, PTL

\* owner.json always names the newest grant, which no takeover or release has
\* set aside (_acquire_locked, release).
THEOREM NewestOwner == Spec => []OwnerIsNewest
<1>1. IInv => OwnerIsNewest
      BY DEF IInv, OwnerInv, OwnerIsNewest
<1> QED
    BY Invariance, <1>1, PTL

\* A run never overwrites maintainer state that a later run has changed: the
\* ownership check and the write are under one mutex (guarded state changes).
THEOREM Fencing == Spec => FencedWrites
<1>1. IInv /\ [Next]_vars => lastWrite' >= lastWrite \/ UNCHANGED vars
  <2> SUFFICES ASSUME IInv, Next PROVE lastWrite' >= lastWrite
      BY DEF IInv, TypeOK, vars
  <2> USE DEF IInv, TypeOK
  <2>1. ASSUME NEW p \in Proc, MutateWrite(p) PROVE lastWrite' >= lastWrite
    <3>1. OwnedBy(task[p].run)
          BY <2>1 DEF MutateWrite, StageInv
    <3>2. grantNo[task[p].run] = grants
          BY <3>1 DEF OwnedBy, OwnerInv
    <3> QED BY <2>1, <3>2 DEF MutateWrite, GrantInv
  <2>2. CASE lastWrite' = lastWrite
        BY <2>2
  <2> QED
      BY <2>1, <2>2
      DEF Next, StartCommand, Work, Acquire, Heartbeat, Release, Mutate, StartAcquire,
          StartOwned, EnterMutex, AcquireMkdir, AcquireBusy, AcquireTakeover,
          AcquireWriteOwner, AcquireReturn, AcquireError, AcquireFail,
          HeartbeatWrite, HeartbeatReject, ReleaseRename, ReleaseDelete,
          ReleaseReject, MutateCheck, MutateReject, Crash, Tick, writeVars
<1> QED
    BY Invariance, <1>1, PTL DEF Spec, FencedWrites

\* A run that lost the lease never owns it again: every acquisition mints a
\* run ID that was never granted (_acquire_locked).
THEOREM RunsNeverReturn == Spec => NoReturn
<1> DEFINE Back == \A r \in Run : (~OwnedBy(r) /\ OwnedBy(r)') => grantNo[r] = 0
<1>1. IInv /\ [Next]_vars => Back \/ UNCHANGED vars
  <2> SUFFICES ASSUME IInv, Next, NEW r \in Run, ~OwnedBy(r), OwnedBy(r)'
               PROVE  grantNo[r] = 0
      OBVIOUS
  <2>1. lock'.owner = r /\ r # NoRun
        BY DEF OwnedBy
  <2>2. PICK p \in Proc : AcquireWriteOwner(p)
        BY <2>1, OwnerStep DEF OwnedBy
  <2> QED
      BY <2>1, <2>2 DEF AcquireWriteOwner
<1> QED
    BY Invariance, <1>1, PTL DEF Spec, NoReturn

\* The record of a fresh lease disappears only by its own run's hand: a
\* takeover happens only once the heartbeat is StaleAfter old (_acquire_locked).
THEOREM FreshnessRespected == Spec => FreshLeaseKept
<1> DEFINE Kept == \A r \in Run :
                      (OwnedBy(r) /\ ~OwnedBy(r)') =>
                          \/ now >= lock.heartbeat + StaleAfter
                          \/ \E p \in Proc : mutex = p /\ task[p].run = r
<1>1. IInv /\ [Next]_vars => Kept \/ UNCHANGED vars
  <2> SUFFICES ASSUME IInv, Next, NEW r \in Run, OwnedBy(r), ~OwnedBy(r)'
               PROVE  \/ now >= lock.heartbeat + StaleAfter
                      \/ \E p \in Proc : mutex = p /\ task[p].run = r
      OBVIOUS
  <2> QED
      BY OwnerStep DEF OwnedBy
<1> QED
    BY Invariance, <1>1, PTL DEF Spec, FreshLeaseKept

-----------------------------------------------------------------------------
(* The lock directory implements the abstract fenced lease: mkdir and the  *)
(* retries stutter, writing the owner record is Grant, every way a record  *)
(* disappears is Revoke, and a guarded change is Write.                    *)

\* Writing owner.json is a grant of the abstract lease: nobody owns it, and
\* the run ID is new.
LEMMA GrantStep ==
    ASSUME IInv, NEW p \in Proc, AcquireWriteOwner(p)
    PROVE  \E r \in Run : Fenced!Grant(r)
<1> USE DEF IInv, TypeOK, StageInv, GrantInv
<1>1. PICK r \in Run :
         /\ grantNo[r] = 0
         /\ lock' = [present |-> TRUE, owner |-> r, heartbeat |-> task[p].at,
                     mtime |-> now]
         /\ grantNo' = [grantNo EXCEPT ![r] = grants + 1]
      BY DEF AcquireWriteOwner
<1>2. lock.owner = NoRun /\ lock'.owner = r
      BY <1>1 DEF AcquireWriteOwner
<1>3. {q \in Run : grantNo'[q] > 0} = {q \in Run : grantNo[q] > 0} \cup {r}
      BY <1>1
<1>4. UNCHANGED writer
      BY DEF AcquireWriteOwner, writeVars
<1> QED
    BY <1>1, <1>2, <1>3, <1>4 DEF Fenced!Grant

\* Every other step is a revocation, a write by the owner, or a stutter.
LEMMA OtherStep ==
    ASSUME IInv, Next, ~(\E p \in Proc : AcquireWriteOwner(p))
    PROVE  Fenced!Revoke \/ Fenced!Write \/ UNCHANGED <<lock.owner, grantNo, writer>>
<1> USE DEF IInv, TypeOK
<1>1. UNCHANGED grantNo
      BY DEF Next, StartCommand, Work, Acquire, Heartbeat, Release, Mutate, StartAcquire,
             StartOwned, EnterMutex, AcquireMkdir, AcquireBusy, AcquireTakeover,
             AcquireReturn, AcquireError, AcquireFail, HeartbeatWrite,
             HeartbeatReject, ReleaseRename, ReleaseDelete, ReleaseReject,
             MutateCheck, MutateWrite, MutateReject, Crash, Tick, lockVars
<1>2. ASSUME NEW p \in Proc, MutateWrite(p)
      PROVE  Fenced!Write
  <2>1. lock.owner = task[p].run /\ lock.owner # NoRun
        BY <1>2 DEF MutateWrite, StageInv, OwnedBy
  <2>2. writer' = lock.owner /\ UNCHANGED lock
        BY <1>2, <2>1 DEF MutateWrite, lockVars
  <2> QED
      BY <1>1, <2>1, <2>2 DEF Fenced!Write
<1>3. CASE UNCHANGED writer
  <2>1. CASE lock'.owner = lock.owner
        BY <1>1, <1>3, <2>1
  <2>2. CASE lock.owner # NoRun /\ lock'.owner = NoRun
        BY <1>1, <1>3, <2>2 DEF Fenced!Revoke
  <2> QED
      BY OwnerStep, <2>1, <2>2
<1> QED
    BY <1>2, <1>3
    DEF Next, StartCommand, Work, Acquire, Heartbeat, Release, Mutate, StartAcquire,
        StartOwned, EnterMutex, AcquireMkdir, AcquireBusy, AcquireTakeover,
        AcquireReturn, AcquireError, AcquireFail, HeartbeatWrite, HeartbeatReject,
        ReleaseRename, ReleaseDelete, ReleaseReject, MutateCheck, MutateReject,
        Crash, Tick, writeVars

\* RunLease, with its flock, its files and its crashes, implements FencedLease:
\* one owner at a time, no owner twice, and only the owner writes.
THEOREM LeaseRefinement == Spec => ImplementsFencedLease
<1>1. Init => Fenced!Init
      BY DEF Init, NoLock, Fenced!Init
<1>2. IInv /\ [Next]_vars => [Fenced!Next]_Fenced!vars
  <2> SUFFICES ASSUME IInv, [Next]_vars PROVE [Fenced!Next]_Fenced!vars
      OBVIOUS
  <2>1. CASE \E p \in Proc : AcquireWriteOwner(p)
        BY <2>1, GrantStep DEF Fenced!Next
  <2>2. CASE Next /\ ~(\E p \in Proc : AcquireWriteOwner(p))
        BY <2>2, OtherStep DEF Fenced!Next, Fenced!vars
  <2>3. CASE UNCHANGED vars
        BY <2>3 DEF vars, Fenced!vars
  <2> QED
      BY <2>1, <2>2, <2>3
<1> QED
    BY Invariance, <1>1, <1>2, PTL DEF Spec, ImplementsFencedLease, Fenced!Spec

-----------------------------------------------------------------------------
(* The commands of a validation.                                           *)

Steps == {"plan", "start", "running", "term", "grace", "killed", "ended"}

ValidationTypeOK ==
    /\ kind \in {"delta", "full"}
    /\ position \in 0..Commands
    /\ phase \in Steps \cup Results
    /\ dirty \subseteq Checkouts
    /\ touched \subseteq Checkouts \X (1..Commands)

\* Only the command in hand has processes, and it has none before it is started
\* or after it has ended.  What a command had before it changed is changed for good,
\* so what is clean was so for every command; and a later command is started only
\* if both checkouts are: an earlier one had them as prepared.
ValidationInv ==
    /\ ValidationTypeOK
    /\ \A p \in living : p.of = position
    /\ phase \in {"plan", "start", "ended"} \cup (Results \ {"cleanup-failed"})
          => living = {}
    /\ \A t \in touched : t[1] \in dirty /\ t[2] = position
    /\ phase = "start" => position < Commands
    /\ living # {} => position > 0
    /\ phase = "start" => touched = {}
    /\ ReadAsPrepared

\* A step within one validation leaves the number of its commands as it is.
LEMMA CommandsStay ==
  /\ Commands \in Nat /\ 0 < Commands /\ Commands' \in Nat
  /\ kind' = kind => Commands' = Commands
BY DEF Commands

\* A step that starts or touches nothing new: what lives is of the command in hand,
\* and what was touched is what it was.
LEMMA ValidationGoesOn ==
  ASSUME ValidationInv, kind' = kind, position' = position, phase' \in Steps \cup Results,
         \A p \in living' : p.of = position, living' # {} => living # {},
         phase' \in {"plan", "start", "ended"} \cup (Results \ {"cleanup-failed"})
            => living' = {},
         UNCHANGED <<dirty, touched>>, phase' \in {"start", "passed"} => phase' = phase
  PROVE  ValidationInv'
<1> USE CommandsStay
<1> HIDE DEF Commands
<1>1. ValidationTypeOK'
  BY DEF ValidationInv, ValidationTypeOK
<1>2. ReadAsPrepared'
  BY DEF ValidationInv, ReadAsPrepared
<1> QED BY <1>1, <1>2 DEF ValidationInv, ValidationTypeOK

\* The plan lets through what is clean.
LEMMA PlanKeeps ==
  ASSUME ValidationInv, Plan
  PROVE  ValidationInv'
<1> USE CommandsStay
<1> HIDE DEF Commands
<1>1. /\ phase = "plan" /\ living = {} /\ living' = {} /\ kind' = kind /\ position' = position
      /\ dirty' = dirty /\ touched' = touched
  BY DEF Plan, ValidationInv
<1>2. CASE position = Commands /\ kind = "delta"
  <2>1. CASE ~CheckpointHolds
    <3>1. phase' = "mismatch"
      <4>1. ~AsPrepared
        BY <1>2, <2>1 DEF AsPrepared
      <4> QED BY <4>1 DEF Plan
    <3> QED BY <1>1, <3>1, ValidationGoesOn DEF Results, Steps
  <2>2. CASE CheckpointHolds
    <3>1. phase' = "passed"
      <4>1. AsPrepared
        BY <1>2, <2>2 DEF AsPrepared
      <4>2. ~(position < Commands) /\ position >= Commands
        BY <1>2
      <4> QED BY <4>1, <4>2 DEF Plan
    <3>2. ASSUME NEW t \in touched
          PROVE  t = <<"base", Commands>>
      <4>1. t[1] \in dirty /\ t[2] = position /\ t \in Checkouts \X (1..Commands)
        BY DEF ValidationInv, ValidationTypeOK
      <4>2. t[1] # "reviewed" /\ t[1] \in Checkouts /\ t = <<t[1], t[2]>>
        BY <2>2, <4>1 DEF CheckpointHolds, Clean
      <4> QED BY <1>2, <4>1, <4>2 DEF Checkouts
    <3>3. ReadAsPrepared'
      BY <1>1, <1>2, <3>2 DEF ReadAsPrepared
    <3> QED BY <1>1, <3>1, <3>3 DEF ValidationInv, ValidationTypeOK, Results
  <2> QED BY <2>1, <2>2
<1>3. CASE ~(position = Commands /\ kind = "delta")
  <2>1. CASE ~PlanHolds
    <3>1. phase' = "mismatch"
      <4>1. ~AsPrepared
        BY <1>3, <2>1 DEF AsPrepared
      <4> QED BY <4>1 DEF Plan
    <3> QED BY <1>1, <3>1, ValidationGoesOn DEF Results, Steps
  <2>2. CASE PlanHolds
    <3>1. phase' \in {"start", "passed"} /\ (phase' = "start" => position < Commands)
      <4>1. AsPrepared
        BY <1>3, <2>2 DEF AsPrepared
      <4>2. position \in Nat
        BY DEF ValidationInv, ValidationTypeOK
      <4>3. position < Commands \/ position >= Commands
        BY <4>2
      <4>4. CASE position < Commands
        BY <4>1, <4>2, <4>4 DEF Plan
      <4>5. CASE position >= Commands
        BY <4>1, <4>2, <4>5 DEF Plan
      <4> QED BY <4>3, <4>4, <4>5
    <3>2. touched = {}
      BY <2>2 DEF PlanHolds, Clean, ValidationInv, ValidationTypeOK
    <3>3. ReadAsPrepared' /\ phase' \in Steps \cup Results
      BY <1>1, <3>1, <3>2 DEF ReadAsPrepared, Steps, Results
    <3> QED BY <1>1, <3>1, <3>2, <3>3 DEF ValidationInv, ValidationTypeOK
  <2> QED BY <2>1, <2>2
<1> QED BY <1>2, <1>3

\* Every step of a validation preserves the invariant.
LEMMA ValidationStep ==
  ValidationInv /\ [ValidationNext]_validationVars => ValidationInv'
<1> SUFFICES ASSUME ValidationInv, [ValidationNext]_validationVars PROVE ValidationInv'
  OBVIOUS
<1> USE CommandsStay
<1> HIDE DEF Commands
<1>0. phase \in Steps \cup Results
  BY DEF ValidationInv, ValidationTypeOK
<1>1. CASE Plan
  BY <1>1, PlanKeeps
<1>2. CASE Start
  <2>1. PICK t \in Temper :
           living' = living \cup {[of |-> position + 1, leader |-> TRUE, temper |-> t]}
    BY <1>2 DEF Start
  <2>2. /\ living = {} /\ position' = position + 1 /\ touched = {} /\ position < Commands
        /\ position \in 0..Commands /\ kind' = kind /\ phase' = "running"
        /\ dirty' = dirty /\ touched' = dirty \X {position + 1}
    BY <1>2 DEF Start, ValidationInv, ValidationTypeOK
  <2>3. \A p \in living' : p.of = position'
    BY <2>1, <2>2
  <2>4. position' \in 1..Commands'
    BY <2>2
  <2>5. touched' \subseteq Checkouts \X (1..Commands')
        /\ \A t2 \in touched' : t2[1] \in dirty' /\ t2[2] = position'
    BY <2>2, <2>4 DEF ValidationInv, ValidationTypeOK
  <2>6. ReadAsPrepared'
    BY <2>2 DEF ReadAsPrepared
  <2>7. ValidationTypeOK'
    BY <2>2, <2>4, <2>5 DEF ValidationInv, ValidationTypeOK, Steps
  <2> QED BY <2>2, <2>3, <2>4, <2>5, <2>6, <2>7 DEF ValidationInv, Results
<1>3. CASE Fork
  <2>1. PICK p \in living, t \in Temper :
           living' = living \cup {[of |-> p.of, leader |-> FALSE, temper |-> t]}
    BY <1>3 DEF Fork
  <2>2. \A q \in living' : q.of = position
    BY <2>1 DEF ValidationInv
  <2> QED BY <1>0, <1>3, <2>1, <2>2, ValidationGoesOn DEF Fork, ValidationInv
<1>4. CASE Exit \/ ChildExits
  <2>1. living' \subseteq living
    BY <1>4 DEF Exit, ChildExits
  <2> QED BY <1>0, <1>4, <2>1, ValidationGoesOn DEF Exit, ChildExits, ValidationInv
<1>5. CASE Change
  <2>1. PICK c \in Checkouts : /\ dirty' = dirty \cup {c}
                               /\ touched' = touched \cup {c} \X {p.of : p \in living}
    BY <1>5 DEF Change
  <2>2. /\ living' = living /\ phase' = phase /\ kind' = kind /\ position' = position
        /\ phase \notin Results \/ living # {}
    BY <1>5 DEF Change
  <2>3. \A t \in touched' : t \in Checkouts \X (1..Commands) /\ t[1] \in dirty'
                             /\ t[2] = position
    <3>1. ASSUME NEW p \in living
          PROVE  p.of = position /\ position \in 1..Commands
      BY DEF ValidationInv, ValidationTypeOK
    <3>2. \A t \in {c} \X {p.of : p \in living} : t[1] = c /\ t[2] = position
                                                  /\ t \in Checkouts \X (1..Commands)
      BY <3>1
    <3> QED BY <2>1, <3>2 DEF ValidationInv, ValidationTypeOK
  <2>4. ValidationTypeOK'
    BY <2>1, <2>2, <2>3 DEF ValidationInv, ValidationTypeOK
  <2>5. living = {} => touched' = touched
    BY <2>1
  <2>6. phase # "passed"
    BY <2>2 DEF ValidationInv, Results
  <2>7. ReadAsPrepared'
    BY <2>2, <2>6 DEF ReadAsPrepared
  <2> QED BY <2>2, <2>3, <2>4, <2>5, <2>7 DEF ValidationInv
<1>6. CASE Waited \/ TimesOut \/ Ended
  <2>1. /\ phase' \in {"term", "timeout", "failed", "plan"} /\ living' = living
        /\ phase' # "term" => living = {}
    BY <1>6 DEF Waited, TimesOut, Ended, ValidationInv
  <2> QED BY <1>6, <2>1, ValidationGoesOn
          DEF Waited, TimesOut, Ended, ValidationInv, Steps, Results
<1>7. CASE Terminate \/ Grace \/ Killed
  <2>1. /\ living' \subseteq living /\ phase' \in {"grace", "ended", "killed", "cleanup-failed"}
        /\ phase' = "ended" => living' = {}
    BY <1>7 DEF Terminate, Grace, Killed, Survive
  <2> QED BY <1>7, <2>1, ValidationGoesOn
          DEF Terminate, Grace, Killed, ValidationInv, Steps, Results
<1>8. CASE Again
  BY <1>8 DEF Again, ValidationInv, ValidationTypeOK, ReadAsPrepared, Steps, Results
<1>9. CASE UNCHANGED validationVars
  BY <1>0, <1>9, ValidationGoesOn DEF validationVars, ValidationInv
<1> QED BY <1>1, <1>2, <1>3, <1>4, <1>5, <1>6, <1>7, <1>8, <1>9 DEF ValidationNext

\* Whatever the commands of any number of validations start, which signals they
\* ignore and who else writes to a checkout: none outlives its place in the
\* plan, and what passes was read as it was prepared, the base of a delta up to the
\* last command.
THEOREM ValidationHolds == ValidationSpec => []ValidationSafe
<1>1. ValidationInit => ValidationInv
  <2> SUFFICES ASSUME ValidationInit PROVE ValidationInv
    OBVIOUS
  <2>1. ValidationTypeOK /\ living = {} /\ phase = "plan" /\ touched = {}
    BY CommandsStay DEF ValidationInit, ValidationTypeOK, Steps
  <2> QED BY <2>1 DEF ValidationInv, ReadAsPrepared
<1>2. ValidationInv => ValidationSafe
  BY DEF ValidationInv, ValidationSafe, NothingOutlives
<1> QED BY <1>1, <1>2, ValidationStep, PTL DEF ValidationSpec

-----------------------------------------------------------------------------
(* The move of the older format's files.                                   *)

MigrationTypeOK ==
    /\ stored \subseteq LegacyFiles
    /\ legacyArchive \in [Archives -> SUBSET LegacyFiles]
    /\ manifest \in [Archives -> SUBSET LegacyFiles]
    /\ {pointer, helpers, marker, attempts} \subseteq 0..MaxAttempts
    /\ migrating \in {"idle", "manifest", "pointer", "refs", "files", "verify", "unlink"}
    /\ run \in {"idle", "inspected", "leased"}
    /\ generations \in BOOLEAN

\* Before a pointer is there nothing has moved.
Untouched == /\ pointer = 0 /\ helpers = 0 /\ stored = LegacyFiles
             /\ \A a \in Archives : legacyArchive[a] = {}

\* With one, its manifest names everything, and its archive holds what has left.
UnderWay == /\ pointer # 0 /\ helpers \in {0, pointer}
            /\ manifest[pointer] = LegacyFiles
            /\ legacyArchive[pointer] = LegacyFiles \ stored
            /\ \A a \in Archives \ {pointer} : legacyArchive[a] = {}

\* With the marker everything is in its archive, until a run writes a new file.
Migrated == /\ legacyArchive[marker] = LegacyFiles /\ helpers = marker
            /\ pointer \in {0, marker}
            /\ generations \/ stored = {}
            /\ \A a \in Archives \ {marker} : legacyArchive[a] = {}

MigrationInv ==
    /\ MigrationTypeOK
    /\ marker = 0 => /\ Untouched \/ UnderWay
                     /\ run = "idle" /\ ~ generations
    /\ marker # 0 => Migrated
    /\ migrating # "idle" => attempts # 0
    /\ migrating \in {"manifest", "pointer"} => marker = 0 /\ Untouched
    /\ migrating = "pointer" => manifest[attempts] = LegacyFiles
    /\ migrating \in {"refs", "files"} => marker = 0 /\ UnderWay
    /\ migrating = "files" => helpers = pointer
    /\ migrating \in {"verify", "unlink"} => marker # 0

\* Every step of the command, and of the runs beside it, preserves the invariant.
LEMMA MigrationStep ==
  MigrationInv /\ [MigrationNext]_migrationVars => MigrationInv'
<1> SUFFICES ASSUME MigrationInv, [MigrationNext]_migrationVars PROVE MigrationInv'
  OBVIOUS
<1> USE MigrationAssumption
    DEF MigrationInv, MigrationTypeOK, Untouched, UnderWay, Migrated, Archives
<1>1. CASE MigrateStart
  BY <1>1 DEF MigrateStart
<1>2. CASE WriteManifest
  BY <1>2 DEF WriteManifest
<1>3. CASE WritePointer
  BY <1>3 DEF WritePointer
<1>4. CASE MoveRefs
  BY <1>4 DEF MoveRefs
<1>5. ASSUME NEW f \in LegacyFiles, MoveFile(f) PROVE MigrationInv'
  BY <1>5 DEF MoveFile, Movable
<1>6. CASE WriteMarker
  BY <1>6 DEF WriteMarker
<1>7. CASE VerifyArchive
  BY <1>7 DEF VerifyArchive
<1>8. CASE UnlinkPointer
  BY <1>8 DEF UnlinkPointer
<1>9. CASE MigrateStops \/ UNCHANGED migrationVars
  BY <1>9 DEF MigrateStops, migrationVars
<1>10. CASE RunInspects \/ RunAcquires
  BY <1>10 DEF RunInspects, RunAcquires, Required
<1>11. ASSUME NEW f \in LegacyFiles, RunPrepares(f) PROVE MigrationInv'
  BY <1>11 DEF RunPrepares
<1> QED BY <1>1, <1>2, <1>3, <1>4, <1>5, <1>6, <1>7, <1>8, <1>9, <1>10, <1>11
        DEF MigrationNext

\* For any number of files and of attempts that die between any two writes, with
\* runs that come and go: nothing is lost or doubled, what has begun can go on,
\* and no run takes up work before all of it is archived under one id.
THEOREM MigrationLosesNothing == MigrationSpec => []MigrationSafe
<1>1. MigrationInit => MigrationInv
  <2> SUFFICES ASSUME MigrationInit PROVE MigrationInv
    OBVIOUS
  <2>1. /\ legacyArchive \in [Archives -> SUBSET LegacyFiles]
        /\ manifest \in [Archives -> SUBSET LegacyFiles]
    BY DEF MigrationInit
  <2>3. {pointer, helpers, marker, attempts} \subseteq 0..MaxAttempts
    BY MigrationAssumption DEF MigrationInit
  <2>4. MigrationTypeOK
    BY <2>1, <2>3 DEF MigrationInit, MigrationTypeOK
  <2>2. Untouched /\ marker = 0 /\ run = "idle" /\ ~ generations /\ migrating = "idle"
    BY DEF MigrationInit, Untouched
  <2> QED BY <2>2, <2>4 DEF MigrationInv
<1>2. MigrationInv => MigrationSafe
  <2> SUFFICES ASSUME MigrationInv PROVE MigrationSafe
    OBVIOUS
  <2>1. marker # 0 => marker \in Archives
    BY MigrationAssumption DEF MigrationInv, MigrationTypeOK, Archives
  <2>2. pointer # 0 => pointer \in Archives
    BY MigrationAssumption DEF MigrationInv, MigrationTypeOK, Archives
  <2>3. CASE marker = 0 /\ Untouched
    BY <2>3 DEF MigrationInv, Untouched, MigrationSafe
  <2>5. CASE marker = 0 /\ UnderWay
    BY <2>2, <2>5 DEF MigrationInv, MigrationTypeOK, UnderWay, MigrationSafe, Movable
  <2>4. CASE marker # 0
    BY <2>1, <2>4 DEF MigrationInv, Migrated, MigrationSafe
  <2> QED BY <2>3, <2>4, <2>5 DEF MigrationInv
<1> QED BY <1>1, <1>2, MigrationStep, PTL DEF MigrationSpec

-----------------------------------------------------------------------------
(* The time budgets of a continuation.                                     *)

\* Whole seconds of a span of readings: as many as have passed.
LEMMA WholeSeconds ==
  ASSUME NEW d \in Int
  PROVE  /\ Seconds(d) \in Int
         /\ Seconds(d) * PerSecond <= d
         /\ d <= Seconds(d) * PerSecond + (PerSecond - 1)
         /\ d >= 0 => Seconds(d) >= 0
<1>1. PerSecond \in Nat \ {0}
  BY BudgetAssumption
<1> QED BY <1>1 DEF Seconds

\* A cap in seconds is a cap on the readings they stand for.
LEMMA SecondsGrow ==
  ASSUME NEW a \in Int, NEW b \in Int
  PROVE  /\ a * PerSecond \in Int
         /\ (a + b) * PerSecond = a * PerSecond + b * PerSecond
         /\ a <= b => a * PerSecond <= b * PerSecond
         /\ a < b => a * PerSecond + PerSecond <= b * PerSecond
<1>1. PerSecond \in Nat \ {0}
  BY BudgetAssumption
<1> QED BY <1>1

Budgets == [phase : WaitingNow \cup {"repair-active", "repair-reviewed"} \cup RepairEnded,
            owner : Runs, updated : Nat, firstStart : Nat, first : 0..WaitCap,
            seen : Nat, active : 0..RepairCap, secondStart : Nat, second : 0..WaitCap]

\* Before the repair nothing of it is spent, and before the second wait nothing
\* of that.
NothingEarly ==
    /\ budget.phase = "initial-wait" => beats = 0 /\ spent = 0 /\ budget.active = 0
    /\ budget.phase \in {"initial-wait", "repair-active", "repair-reviewed"}
          => budget.second = 0

BudgetInv == BudgetIsHonest /\ NothingEarly

\* What a wait is charged, at a reading that is not older than the last one.
LEMMA ElapsedIs ==
  ASSUME NEW saved \in 0..WaitCap, NEW start \in Nat, NEW at \in Nat,
         saved * PerSecond <= at - start
  PROVE  /\ Elapsed(saved, start, at) \in 0..WaitCap
         /\ Elapsed(saved, start, at) >= saved
         /\ Elapsed(saved, start, at) * PerSecond <= at - start
<1>1. WaitCap \in Nat
  BY BudgetAssumption
<1> DEFINE s == Seconds(at - start)
<1>2. s \in Int /\ s * PerSecond <= at - start
  BY WholeSeconds
<1> DEFINE g == Greatest(saved, s)
           e == Least(WaitCap, g)
<1> HIDE DEF s
<1>3. g \in Nat /\ g >= saved /\ g * PerSecond <= at - start
  BY <1>1, <1>2 DEF Greatest
<1> HIDE DEF g
<1>4. e \in 0..WaitCap /\ e >= saved /\ e <= g
  BY <1>1, <1>3 DEF Least
<1> HIDE DEF e
<1>5. e * PerSecond <= at - start
  <2>1. e \in Int /\ g \in Int
    BY <1>1, <1>3, <1>4
  <2>2. e * PerSecond <= g * PerSecond /\ e * PerSecond \in Int /\ g * PerSecond \in Int
    BY <1>4, <2>1, SecondsGrow
  <2> QED BY <1>3, <2>2
<1> QED BY <1>4, <1>5 DEF Elapsed, e, g, s

\* The stamps of a continuation stay when a wait is charged.
SameButWaits(c, b) == /\ c.phase = b.phase /\ c.owner = b.owner /\ c.updated = b.updated
                      /\ c.firstStart = b.firstStart /\ c.secondStart = b.secondStart
                      /\ c.seen = b.seen /\ c.active = b.active

\* Only the wait that is under way is charged, and only seconds that have passed.
WaitsCharged(c, b, at) ==
    /\ c.first >= b.first /\ c.first * PerSecond <= at - b.firstStart
    /\ c.second >= b.second /\ c.second * PerSecond <= at - b.secondStart
    /\ c.first # b.first => b.phase = "initial-wait"
    /\ c.second # b.second => b.phase = "second-wait"

\* A charge, at a reading that is not older than the last one.
LEMMA ChargedIs ==
  ASSUME BudgetInv, NEW at \in Nat, at >= budget.updated
  PROVE  /\ Charged(budget, at) \in Budgets
         /\ SameButWaits(Charged(budget, at), budget)
         /\ WaitsCharged(Charged(budget, at), budget, at)
<1> DEFINE f == Elapsed(budget.first, budget.firstStart, at)
           s == Elapsed(budget.second, budget.secondStart, at)
           c == Charged(budget, at)
<1>1. budget \in Budgets
  BY DEF BudgetInv, BudgetIsHonest, BudgetTypeOK, Budgets
<1>2. /\ budget.first \in 0..WaitCap /\ budget.firstStart \in Nat /\ budget.updated \in Nat
      /\ budget.second \in 0..WaitCap /\ budget.secondStart \in Nat
      /\ budget.first * PerSecond \in Int /\ budget.second * PerSecond \in Int
  BY <1>1, BudgetAssumption, SecondsGrow DEF Budgets
<1>3. /\ budget.first * PerSecond <= at - budget.firstStart
      /\ budget.second * PerSecond <= at - budget.secondStart
  BY <1>2 DEF BudgetInv, BudgetIsHonest
<1>4. f \in 0..WaitCap /\ f >= budget.first /\ f * PerSecond <= at - budget.firstStart
  BY <1>2, <1>3, ElapsedIs
<1>5. s \in 0..WaitCap /\ s >= budget.second /\ s * PerSecond <= at - budget.secondStart
  BY <1>2, <1>3, ElapsedIs
<1>6. c = CASE budget.phase = "initial-wait" -> [budget EXCEPT !.first = f]
            [] budget.phase = "second-wait" -> [budget EXCEPT !.second = s]
            [] OTHER -> budget
  BY DEF Charged
<1> HIDE DEF f, s, c
<1>7. CASE budget.phase = "initial-wait"
  <2>1. c \in Budgets /\ SameButWaits(c, budget) /\ c.first = f /\ c.second = budget.second
    BY <1>1, <1>4, <1>6, <1>7 DEF Budgets, SameButWaits
  <2> QED BY <1>2, <1>3, <1>4, <1>7, <2>1 DEF WaitsCharged, c
<1>8. CASE budget.phase = "second-wait"
  <2>1. c \in Budgets /\ SameButWaits(c, budget) /\ c.first = budget.first /\ c.second = s
    BY <1>1, <1>5, <1>6, <1>8 DEF Budgets, SameButWaits
  <2> QED BY <1>2, <1>3, <1>5, <1>8, <2>1 DEF WaitsCharged, c
<1>9. CASE budget.phase \notin {"initial-wait", "second-wait"}
  <2>1. c = budget
    BY <1>6, <1>9
  <2> QED BY <1>1, <1>2, <1>3, <2>1 DEF WaitsCharged, SameButWaits, c
<1> QED BY <1>7, <1>8, <1>9

\* A step that charges a wait, and nothing to the repair.
LEMMA ChargeKept ==
  ASSUME BudgetInv, NEW at \in Nat, at >= budget.updated,
         NEW c \in Budgets, SameButWaits(c, budget), WaitsCharged(c, budget, at),
         budget' \in Budgets,
         budget'.first = c.first, budget'.second = c.second, budget'.updated = at,
         budget'.firstStart = budget.firstStart, budget'.active = budget.active,
         \/ budget'.seen = budget.seen /\ since' = since
         \/ budget'.seen = at /\ since' = at /\ spent = 0,
         \/ budget'.secondStart = budget.secondStart
         \/ budget'.secondStart = at /\ c.second = 0,
         UNCHANGED <<clock, beats, spent>>, gone' \subseteq Runs,
         NothingEarly'
  PROVE  BudgetInv'
<1> USE DEF BudgetInv, BudgetIsHonest
<1>1. BudgetTypeOK'
  <2>1. since' \in Nat
    BY DEF BudgetTypeOK
  <2> QED BY <2>1 DEF BudgetTypeOK, Budgets
<1>2. budget'.first * PerSecond <= budget'.updated - budget'.firstStart
  BY DEF WaitsCharged
<1>3. budget'.second * PerSecond <= budget'.updated - budget'.secondStart
  <2>1. CASE budget'.secondStart = budget.secondStart
    BY <2>1 DEF WaitsCharged
  <2>2. CASE budget'.secondStart = at /\ c.second = 0
    <3>1. PerSecond \in Nat /\ budget'.second = 0 /\ budget'.updated = budget'.secondStart
      BY <2>2, BudgetAssumption
    <3> QED BY <3>1
  <2> QED BY <2>1, <2>2
<1>4. /\ budget'.active * PerSecond <= spent'
      /\ budget'.active < RepairCap =>
            spent' <= budget'.active * PerSecond + beats' * (PerSecond - 1)
  OBVIOUS
<1>5. spent' <= budget'.seen - since'
  OBVIOUS
<1> QED BY <1>1, <1>2, <1>3, <1>4, <1>5

\* A step that neither charges nor moves a stamp.
LEMMA BudgetStays ==
  ASSUME BudgetInv, clock' \in 0..MaxClock, UNCHANGED <<gone, budget, since, beats, spent>>
  PROVE  BudgetInv'
BY DEF BudgetInv, BudgetIsHonest, BudgetTypeOK, NothingEarly

\* What a heartbeat charges: the time since the one before, up to the cap, and
\* less than a second of it is lost.
LEMMA BeatIs ==
  ASSUME BudgetInv, NEW at \in Nat, MayBeat(at), Counted(at)
  PROVE  LET a == Beat(budget, at).active
         IN  /\ a \in 0..RepairCap /\ a >= budget.active
             /\ beats' \in Nat /\ spent' \in Nat
             /\ a * PerSecond <= spent'
             /\ spent' <= at - since
             /\ a < RepairCap => spent' <= a * PerSecond + beats' * (PerSecond - 1)
<1> DEFINE gap == at - budget.seen
           s == Seconds(gap)
           m == Least(s, BeatCap)
           n == Least(gap, BeatCap * PerSecond)
           b == budget.active
           a == Least(RepairCap, b + m)
<1>0. /\ PerSecond \in Nat \ {0} /\ BeatCap \in Nat \ {0} /\ RepairCap \in Nat
      /\ b \in 0..RepairCap /\ budget.seen \in Nat /\ since \in Nat /\ beats \in Nat
      /\ spent \in Nat /\ b \in Nat /\ b \in Int
  BY BudgetAssumption DEF BudgetInv, BudgetIsHonest, BudgetTypeOK
<1>1. gap \in Nat /\ gap > 0 /\ budget.seen = at - gap
  BY <1>0 DEF MayBeat
<1>2. /\ b * PerSecond <= spent /\ spent <= budget.seen - since
      /\ b < RepairCap => spent <= b * PerSecond + beats * (PerSecond - 1)
  BY DEF BudgetInv, BudgetIsHonest
<1>3. beats' = beats + 1 /\ spent' = spent + n
  BY DEF Counted
<1>4. Beat(budget, at).active = a
  <2>1. budget \in Budgets
    BY DEF BudgetInv, BudgetIsHonest, BudgetTypeOK, Budgets
  <2> QED BY <2>1 DEF Beat, Budgets
<1> HIDE DEF gap
<1>5. s \in Nat /\ s * PerSecond <= gap /\ gap <= s * PerSecond + (PerSecond - 1)
  BY <1>1, WholeSeconds
<1> HIDE DEF s, b
<1>6. m \in Nat /\ m <= s /\ m <= BeatCap /\ m \in {s, BeatCap} /\ (m = s \/ BeatCap <= s)
  BY <1>0, <1>5 DEF Least
<1>7. /\ BeatCap * PerSecond \in Nat /\ m * PerSecond \in Int /\ s * PerSecond \in Int
      /\ m * PerSecond <= s * PerSecond /\ m * PerSecond <= BeatCap * PerSecond
      /\ s < BeatCap => s * PerSecond + PerSecond <= BeatCap * PerSecond
  BY <1>0, <1>5, <1>6, SecondsGrow
<1>8. n \in Nat /\ n <= gap /\ m * PerSecond <= n /\ n <= m * PerSecond + (PerSecond - 1)
  <2>1. n \in Nat /\ n <= gap /\ n <= BeatCap * PerSecond /\ n \in {gap, BeatCap * PerSecond}
    BY <1>1, <1>7 DEF Least
  <2>2. m * PerSecond <= n
    BY <1>5, <1>7, <2>1
  <2>3. ASSUME m = s PROVE n <= m * PerSecond + (PerSecond - 1)
    BY <1>0, <1>1, <1>5, <1>7, <2>1, <2>3
  <2>4. ASSUME m = BeatCap PROVE n <= m * PerSecond + (PerSecond - 1)
    BY <1>0, <1>7, <2>1, <2>4
  <2> QED BY <1>6, <2>1, <2>2, <2>3, <2>4
<1> HIDE DEF m, n
<1>9. /\ a \in 0..RepairCap /\ a >= b /\ a <= b + m /\ (a < RepairCap => a = b + m)
  BY <1>0, <1>6 DEF Least
<1> HIDE DEF a
<1>10. /\ a * PerSecond \in Int /\ b * PerSecond \in Int
       /\ (b + m) * PerSecond = b * PerSecond + m * PerSecond
       /\ a * PerSecond <= (b + m) * PerSecond
  BY <1>0, <1>6, <1>9, SecondsGrow
<1>11. a * PerSecond <= spent'
  BY <1>0, <1>2, <1>3, <1>7, <1>8, <1>10
<1>12. spent' <= at - since
  BY <1>0, <1>1, <1>2, <1>3, <1>8
<1>13. ASSUME a < RepairCap PROVE spent' <= a * PerSecond + beats' * (PerSecond - 1)
  <2>1. a = b + m /\ b < RepairCap
    BY <1>0, <1>6, <1>9, <1>13
  <2>2. /\ beats' * (PerSecond - 1) = beats * (PerSecond - 1) + (PerSecond - 1)
        /\ beats * (PerSecond - 1) \in Int
    BY <1>0, <1>3
  <2>3. spent <= b * PerSecond + beats * (PerSecond - 1)
    BY <1>2, <2>1
  <2> QED BY <1>0, <1>3, <1>7, <1>8, <1>10, <2>1, <2>2, <2>3
<1> QED BY <1>0, <1>3, <1>4, <1>8, <1>9, <1>11, <1>12, <1>13 DEF b

\* A step with a heartbeat.
LEMMA BeatKept ==
  ASSUME BudgetInv, NEW at \in Nat, MayBeat(at), Counted(at),
         NEW updated \in Nat, updated >= at, NEW to \in {"repair-active", "repair-reviewed"},
         budget' = [Beat(budget, at) EXCEPT !.phase = to, !.updated = updated],
         UNCHANGED <<clock, gone, since>>
  PROVE  BudgetInv'
<1> DEFINE a == Beat(budget, at).active
<1> USE DEF BudgetInv, BudgetIsHonest
<1>1. /\ a \in 0..RepairCap /\ beats' \in Nat /\ spent' \in Nat
      /\ a * PerSecond <= spent' /\ spent' <= at - since
      /\ a < RepairCap => spent' <= a * PerSecond + beats' * (PerSecond - 1)
  BY BeatIs
<1>2. budget \in Budgets /\ budget.phase = "repair-active" /\ at >= budget.updated
  BY DEF BudgetTypeOK, Budgets, MayBeat
<1>3. budget' = [budget EXCEPT !.phase = to, !.updated = updated, !.seen = at,
                               !.active = a]
  BY <1>2 DEF Beat, Budgets
<1> HIDE DEF a
<1>4. /\ budget' \in Budgets
      /\ budget'.phase = to /\ budget'.updated = updated /\ budget'.seen = at
      /\ budget'.active = a /\ budget'.owner = budget.owner
      /\ budget'.first = budget.first /\ budget'.firstStart = budget.firstStart
      /\ budget'.second = budget.second /\ budget'.secondStart = budget.secondStart
  BY <1>1, <1>2, <1>3 DEF Budgets
<1>5. BudgetTypeOK'
  BY <1>1, <1>4 DEF BudgetTypeOK, Budgets
<1>6. budget'.updated >= budget.updated /\ budget.updated \in Nat
  BY <1>2, <1>4 DEF Budgets
<1>7. budget.second = 0
  BY <1>2 DEF NothingEarly
<1>8. NothingEarly'
  BY <1>4, <1>7 DEF NothingEarly
<1>9. /\ budget'.first * PerSecond <= budget'.updated - budget'.firstStart
      /\ budget'.second * PerSecond <= budget'.updated - budget'.secondStart
  <2>1. /\ budget.first * PerSecond \in Int /\ budget.second * PerSecond \in Int
        /\ budget.firstStart \in Nat /\ budget.secondStart \in Nat
    <3>1. /\ budget.first \in Int /\ budget.second \in Int
          /\ budget.firstStart \in Nat /\ budget.secondStart \in Nat
      BY <1>2, BudgetAssumption DEF Budgets
    <3> QED BY <3>1, SecondsGrow
  <2> QED BY <1>4, <1>6, <2>1
<1>10. /\ budget'.active * PerSecond <= spent'
       /\ spent' <= budget'.seen - since'
       /\ budget'.active < RepairCap =>
             spent' <= budget'.active * PerSecond + beats' * (PerSecond - 1)
  BY <1>1, <1>4
<1> QED BY <1>5, <1>8, <1>9, <1>10

\* Stamps of a step are not older than the last one.
LEMMA StampIsLater ==
  ASSUME BudgetInv, NEW at \in Nat
  PROVE  Later(at) \in Nat /\ Later(at) >= budget.updated
<1>1. budget.updated \in Nat
  BY DEF BudgetInv, BudgetIsHonest, BudgetTypeOK
<1> QED BY <1>1 DEF Later

\* A wait that is charged when it is observed, or when its phase ends.
LEMMA WaitStep ==
  ASSUME BudgetInv, NEW r \in Runs, NEW at \in Nat,
         ObserveWait(r, at) \/ BeginRepair(r, at) \/ EndContinuation(r, at)
  PROVE  BudgetInv'
<1>0. budget \in Budgets /\ budget.updated \in Nat
  BY DEF BudgetInv, BudgetIsHonest, BudgetTypeOK, Budgets
<1>1. CASE ObserveWait(r, at)
  <2> DEFINE c == Charged(budget, at)
  <2>1. at >= budget.updated /\ budget.phase \in WaitingNow
    BY <1>1 DEF ObserveWait
  <2>2. c \in Budgets /\ SameButWaits(c, budget) /\ WaitsCharged(c, budget, at)
    BY <2>1, ChargedIs
  <2>3. /\ budget' = [c EXCEPT !.updated = at]
        /\ UNCHANGED <<clock, gone, since, beats, spent>>
    BY <1>1 DEF ObserveWait
  <2> HIDE DEF c
  <2>4. /\ budget' \in Budgets /\ budget'.first = c.first /\ budget'.second = c.second
        /\ budget'.updated = at /\ budget'.firstStart = budget.firstStart
        /\ budget'.active = budget.active /\ budget'.seen = budget.seen
        /\ budget'.secondStart = budget.secondStart /\ budget'.phase = budget.phase
    BY <2>2, <2>3 DEF Budgets, SameButWaits
  <2>5. NothingEarly'
    BY <2>1, <2>2, <2>3, <2>4 DEF BudgetInv, NothingEarly, WaitsCharged, WaitingNow
  <2>6. gone' \subseteq Runs
    BY <2>3 DEF BudgetInv, BudgetIsHonest, BudgetTypeOK
  <2> QED BY <2>1, <2>2, <2>3, <2>4, <2>5, <2>6, ChargeKept
<1>2. CASE BeginRepair(r, at)
  <2> DEFINE t == Later(at)
             c == Charged(budget, t)
  <2>1. t \in Nat /\ t >= budget.updated
    BY StampIsLater
  <2>2. c \in Budgets /\ SameButWaits(c, budget) /\ WaitsCharged(c, budget, t)
    BY <2>1, ChargedIs
  <2>3. /\ budget' = [c EXCEPT !.phase = "repair-active", !.updated = t, !.seen = t]
        /\ since' = t /\ budget.phase = "initial-wait"
        /\ UNCHANGED <<clock, gone, beats, spent>>
    BY <1>2, <2>2 DEF BeginRepair, Advanced, Budgets
  <2> HIDE DEF t, c
  <2>4. /\ budget' \in Budgets /\ budget'.first = c.first /\ budget'.second = c.second
        /\ budget'.updated = t /\ budget'.firstStart = budget.firstStart
        /\ budget'.active = budget.active /\ budget'.seen = t
        /\ budget'.secondStart = budget.secondStart /\ budget'.phase = "repair-active"
    BY <2>1, <2>2, <2>3 DEF Budgets, SameButWaits, WaitingNow, RepairEnded
  <2>5. spent = 0 /\ budget.second = 0
    BY <2>3 DEF BudgetInv, NothingEarly
  <2>6. NothingEarly'
    BY <2>2, <2>3, <2>4, <2>5 DEF NothingEarly, WaitsCharged
  <2>7. gone' \subseteq Runs
    BY <2>3 DEF BudgetInv, BudgetIsHonest, BudgetTypeOK
  <2> QED BY <2>1, <2>2, <2>3, <2>4, <2>5, <2>6, <2>7, ChargeKept
<1>3. CASE EndContinuation(r, at)
  <2> DEFINE t == Later(at)
             c == Charged(budget, t)
  <2>1. t \in Nat /\ t >= budget.updated
    BY StampIsLater
  <2>2. c \in Budgets /\ SameButWaits(c, budget) /\ WaitsCharged(c, budget, t)
    BY <2>1, ChargedIs
  <2>3. PICK to \in {"consumed", "blocked"} :
           /\ budget' = [c EXCEPT !.phase = to, !.updated = t]
           /\ UNCHANGED <<clock, gone, since, beats, spent>>
    BY <1>3 DEF EndContinuation, Advanced
  <2> HIDE DEF t, c
  <2>4. /\ budget' \in Budgets /\ budget'.first = c.first /\ budget'.second = c.second
        /\ budget'.updated = t /\ budget'.firstStart = budget.firstStart
        /\ budget'.active = budget.active /\ budget'.seen = budget.seen
        /\ budget'.secondStart = budget.secondStart /\ budget'.phase = to
    BY <2>1, <2>2, <2>3 DEF Budgets, SameButWaits, RepairEnded
  <2>5. NothingEarly'
    BY <2>4 DEF NothingEarly
  <2>6. gone' \subseteq Runs
    BY <2>3 DEF BudgetInv, BudgetIsHonest, BudgetTypeOK
  <2> QED BY <2>1, <2>2, <2>3, <2>4, <2>5, <2>6, ChargeKept
<1> QED BY <1>1, <1>2, <1>3

\* The second wait begins, and charges from there.
LEMMA SecondWaitStep ==
  ASSUME BudgetInv, NEW r \in Runs, NEW at \in Nat, BeginSecondWait(r, at)
  PROVE  BudgetInv'
<1> DEFINE t == Later(at)
           c == Charged(budget, t)
<1>1. t \in Nat /\ t >= budget.updated
  BY StampIsLater
<1>2. c \in Budgets /\ SameButWaits(c, budget) /\ WaitsCharged(c, budget, t)
  BY <1>1, ChargedIs
<1>3. /\ budget' = [c EXCEPT !.phase = "second-wait", !.updated = t, !.secondStart = t]
      /\ budget.phase = "repair-reviewed"
      /\ UNCHANGED <<clock, gone, since, beats, spent>>
  BY <1>2 DEF BeginSecondWait, Advanced, Budgets
<1> HIDE DEF t, c
<1>4. /\ budget' \in Budgets /\ budget'.first = c.first /\ budget'.second = c.second
      /\ budget'.updated = t /\ budget'.firstStart = budget.firstStart
      /\ budget'.active = budget.active /\ budget'.seen = budget.seen
      /\ budget'.secondStart = t /\ budget'.phase = "second-wait"
  BY <1>1, <1>2, <1>3 DEF Budgets, SameButWaits, WaitingNow
<1>5. c.second = 0
  BY <1>2, <1>3 DEF BudgetInv, NothingEarly, WaitsCharged
<1>6. NothingEarly'
  BY <1>4 DEF NothingEarly
<1>7. gone' \subseteq Runs
  BY <1>3 DEF BudgetInv, BudgetIsHonest, BudgetTypeOK
<1> QED BY <1>1, <1>2, <1>3, <1>4, <1>5, <1>6, <1>7, ChargeKept

\* A successor takes the continuation over, with its budgets as they are.
LEMMA AdoptionStep ==
  ASSUME BudgetInv, NEW r \in Runs, NEW at \in Nat, AdoptBudget(r, at)
  PROVE  BudgetInv'
<1> DEFINE t == Later(at)
<1>0. budget \in Budgets /\ gone \subseteq Runs
  BY DEF BudgetInv, BudgetIsHonest, BudgetTypeOK, Budgets
<1>1. t \in Nat /\ t >= budget.updated
  BY StampIsLater
<1>2. /\ budget' = [budget EXCEPT !.owner = r, !.updated = t]
      /\ gone' = gone \cup {budget.owner}
      /\ UNCHANGED <<clock, since, beats, spent>>
  BY DEF AdoptBudget
<1> HIDE DEF t
<1>3. /\ budget' \in Budgets /\ budget'.first = budget.first /\ budget'.second = budget.second
      /\ budget'.updated = t /\ budget'.firstStart = budget.firstStart
      /\ budget'.active = budget.active /\ budget'.seen = budget.seen
      /\ budget'.secondStart = budget.secondStart /\ budget'.phase = budget.phase
  BY <1>0, <1>1, <1>2 DEF Budgets
<1>4. gone' \subseteq Runs
  BY <1>0, <1>2 DEF Budgets
<1>5. WaitsCharged(budget, budget, t)
  <2>1. /\ budget.first \in Int /\ budget.second \in Int /\ budget.updated \in Nat
        /\ budget.firstStart \in Nat /\ budget.secondStart \in Nat
    BY <1>0, BudgetAssumption DEF Budgets
  <2>2. budget.first * PerSecond \in Int /\ budget.second * PerSecond \in Int
    BY <2>1, SecondsGrow
  <2> QED BY <1>1, <2>1, <2>2 DEF WaitsCharged, BudgetInv, BudgetIsHonest
<1>6. NothingEarly'
  BY <1>2, <1>3 DEF BudgetInv, NothingEarly
<1> QED BY <1>0, <1>1, <1>2, <1>3, <1>4, <1>5, <1>6, ChargeKept DEF SameButWaits

\* Every step preserves the invariant.
LEMMA BudgetStep == BudgetInv /\ [BudgetNext]_budgetVars => BudgetInv'
<1> SUFFICES ASSUME BudgetInv, [BudgetNext]_budgetVars PROVE BudgetInv'
  OBVIOUS
<1>0. clock \in 0..MaxClock /\ MaxClock \in Nat
  BY BudgetAssumption DEF BudgetInv, BudgetIsHonest, BudgetTypeOK
<1>1. CASE ClockTicks
  BY <1>0, <1>1, BudgetStays DEF ClockTicks
<1>2. CASE UNCHANGED budgetVars
  BY <1>0, <1>2, BudgetStays DEF budgetVars
<1>3. ASSUME NEW r \in Runs, NEW at \in Readings,
             \/ ObserveWait(r, at) \/ HeartbeatRepair(r, at) \/ BeginRepair(r, at)
             \/ AdoptBudget(r, at) \/ ReviewRepair(r, at) \/ BeginSecondWait(r, at)
             \/ EndContinuation(r, at)
      PROVE  BudgetInv'
  <2>1. at \in Nat
    BY <1>0, BudgetAssumption DEF Readings
  <2>2. CASE HeartbeatRepair(r, at)
    <3>1. budget \in Budgets /\ budget.phase = "repair-active"
      BY <2>2 DEF HeartbeatRepair, MayBeat, BudgetInv, BudgetIsHonest, BudgetTypeOK, Budgets
    <3>2. budget' = [Beat(budget, at) EXCEPT !.phase = "repair-active", !.updated = at]
      BY <2>2, <3>1 DEF HeartbeatRepair, Beat, Budgets
    <3>3. MayBeat(at) /\ Counted(at) /\ UNCHANGED <<clock, gone, since>> /\ at >= at
      BY <2>1, <2>2 DEF HeartbeatRepair
    <3> QED BY <2>1, <3>2, <3>3, BeatKept
  <2>3. CASE ReviewRepair(r, at)
    <3>1. at + 1 \in Nat /\ at + 1 >= at
      BY <2>1
    <3> QED BY <2>1, <2>3, <3>1, BeatKept DEF ReviewRepair
  <2> QED BY <1>3, <2>1, <2>2, <2>3, WaitStep, AdoptionStep, SecondWaitStep
<1> QED BY <1>1, <1>2, <1>3 DEF BudgetNext

\* The invariant holds throughout.
LEMMA BudgetInvariance == BudgetSpec => []BudgetInv
<1>1. BudgetInit => BudgetInv
  <2> SUFFICES ASSUME BudgetInit PROVE BudgetInv
    OBVIOUS
  <2>1. /\ PerSecond \in Nat \ {0} /\ WaitCap \in Nat /\ RepairCap \in Nat /\ MaxClock \in Nat
        /\ (CHOOSE r \in Runs : TRUE) \in Runs
    BY BudgetAssumption
  <2>2. BudgetTypeOK
    BY <2>1 DEF BudgetInit, BudgetTypeOK, WaitingNow
  <2>3. /\ budget.first = 0 /\ budget.second = 0 /\ budget.active = 0 /\ budget.updated = 0
        /\ budget.firstStart = 0 /\ budget.secondStart = 0 /\ budget.seen = 0
        /\ since = 0 /\ spent = 0 /\ beats = 0
    BY DEF BudgetInit
  <2> QED BY <2>1, <2>2, <2>3 DEF BudgetInv, BudgetIsHonest, NothingEarly
<1> QED BY <1>1, BudgetStep, PTL DEF BudgetSpec

\* For every size of the caps, every number of runs that take over, and readings
\* of the clock of every age: seconds that have not passed are never charged, and
\* a watched repair loses less than a second per heartbeat.
THEOREM BudgetsAreHonest == BudgetSpec => []BudgetIsHonest
BY BudgetInvariance, PTL DEF BudgetInv

\* A step gives no seconds back, and charges only what is under way.
THEOREM BudgetsOnlyGrow == BudgetSpec => BudgetOnlyGrows
<1> DEFINE Grows == /\ budget'.first >= budget.first
                    /\ budget'.active >= budget.active
                    /\ budget'.second >= budget.second
                    /\ budget'.first # budget.first => budget.phase = "initial-wait"
                    /\ budget'.active # budget.active => budget.phase = "repair-active"
<1>1. BudgetInv /\ [BudgetNext]_budgetVars => [Grows]_budgetVars
  <2> SUFFICES ASSUME BudgetInv, BudgetNext PROVE Grows
    OBVIOUS
  <2>0. /\ budget \in Budgets /\ clock \in 0..MaxClock
        /\ budget.first \in Int /\ budget.active \in Int /\ budget.second \in Int
    BY BudgetAssumption DEF BudgetInv, BudgetIsHonest, BudgetTypeOK, Budgets
  <2>1. CASE ClockTicks
    BY <2>0, <2>1 DEF ClockTicks
  <2>2. ASSUME NEW r \in Runs, NEW at \in Readings,
               \/ ObserveWait(r, at) \/ HeartbeatRepair(r, at) \/ BeginRepair(r, at)
               \/ AdoptBudget(r, at) \/ ReviewRepair(r, at) \/ BeginSecondWait(r, at)
               \/ EndContinuation(r, at)
        PROVE  Grows
    <3>1. at \in Nat /\ Later(at) \in Nat /\ Later(at) >= budget.updated
      BY <2>0, BudgetAssumption, StampIsLater DEF Readings
    <3>2. ASSUME NEW t \in Nat, t >= budget.updated, NEW c, c = Charged(budget, t),
                 budget'.first = c.first, budget'.second = c.second,
                 budget'.active = c.active
          PROVE  Grows
      <4>1. SameButWaits(c, budget) /\ WaitsCharged(c, budget, t)
        BY <3>2, ChargedIs
      <4> QED BY <2>0, <3>2, <4>1 DEF SameButWaits, WaitsCharged
    <3>3. CASE ObserveWait(r, at)
      <4>1. at >= budget.updated /\ budget' = [Charged(budget, at) EXCEPT !.updated = at]
        BY <3>3 DEF ObserveWait
      <4>2. Charged(budget, at) \in Budgets
        BY <3>1, <4>1, ChargedIs
      <4> QED BY <3>1, <3>2, <4>1, <4>2 DEF Budgets
    <3>4. CASE BeginRepair(r, at) \/ BeginSecondWait(r, at) \/ EndContinuation(r, at)
      <4>1. Charged(budget, Later(at)) \in Budgets
        BY <3>1, ChargedIs
      <4> HIDE DEF Grows
      <4>2. /\ budget'.first = Charged(budget, Later(at)).first
            /\ budget'.second = Charged(budget, Later(at)).second
            /\ budget'.active = Charged(budget, Later(at)).active
        BY <3>4, <4>1 DEF BeginRepair, BeginSecondWait, EndContinuation, Advanced, Budgets
      <4> QED BY <3>1, <3>2, <4>2
    <3>5. CASE AdoptBudget(r, at)
      BY <2>0, <3>5 DEF AdoptBudget, Budgets
    <3>6. CASE HeartbeatRepair(r, at) \/ ReviewRepair(r, at)
      <4> DEFINE a == Beat(budget, at).active
      <4>1. a \in 0..RepairCap /\ a >= budget.active /\ budget.phase = "repair-active"
        BY <3>1, <3>6, BeatIs DEF HeartbeatRepair, ReviewRepair, MayBeat
      <4>2. /\ budget'.first = budget.first /\ budget'.second = budget.second
            /\ budget'.active = a
        BY <2>0, <3>6 DEF HeartbeatRepair, ReviewRepair, Beat, Budgets
      <4> HIDE DEF a
      <4> QED BY <2>0, <4>1, <4>2
    <3> QED BY <2>2, <3>3, <3>4, <3>5, <3>6
  <2> QED BY <2>1, <2>2 DEF BudgetNext
<1> QED BY <1>1, BudgetInvariance, PTL DEF BudgetSpec, BudgetOnlyGrows

-----------------------------------------------------------------------------
(* The refs and the archive of a checkpoint.  CheckpointsStand is not        *)
(* inductive: that a finished pair is never named anew rests on what the     *)
(* commits under way were made of (MadeForOwn) and on refs being right from  *)
(* the first moment (RefsRight).                                             *)

Keys == Generations \X Transactions
MaybeCommit == Nat \cup {Nothing}

CheckpointSteps == {"rest", "start", "checkpoint-ref", "look", "replay-ref", "verify",
                    "end", "archive"}
RefPair == [checkpoint : {HeadOf[t] : t \in Transactions} \cup {Nothing},
            replay : MaybeCommit]

\* The types of the variables: a generation document, refs and commits by
\* generation and transaction, and the commands under way.
RefsTypeOK ==
    /\ generation \in Generations
    /\ open \in Transactions \cup {Nothing}
    /\ finished \in Seq(Transactions)
    /\ events \in Nat
    /\ refs \in [Keys -> RefPair]
    /\ replays \in Seq(Keys)
    /\ archives \in [Generations -> {HeadOf[t] : t \in Transactions} \cup {Nothing}]
    /\ doing \in [Checkpointers -> [step : CheckpointSteps, of : Keys \cup {Nothing},
                                    read : Nat, commit : MaybeCommit]]
    /\ DOMAIN endedAs \subseteq Keys

\* A ref is unset, or names what its transaction makes.
RefsRight ==
    \A k \in Keys : /\ refs[k].checkpoint \in {Nothing, HeadOf[k[2]]}
                    /\ refs[k].replay # Nothing => /\ refs[k].replay \in DOMAIN replays
                                                   /\ replays[refs[k].replay] = k

\* A command carries a commit of its own transaction, ends it with refs that
\* hold, and archives one that ended.
MadeForOwn ==
    \A r \in Checkpointers :
        /\ ~OnStep(r, "rest") => Key(r) \in Keys
        /\ OnStep(r, "replay-ref") => /\ doing[r].commit \in DOMAIN replays
                                      /\ replays[doing[r].commit] = Key(r)
        /\ OnStep(r, "end") => PairHolds(Key(r))
        /\ OnStep(r, "archive") => Key(r) \in DOMAIN endedAs

\* The finished checkpoints of the current generation ended.
FinishedEnded == \A i \in DOMAIN finished : <<generation, finished[i]>> \in DOMAIN endedAs

RefsInv == /\ RefsTypeOK
           /\ RefsRight
           /\ MadeForOwn
           /\ FinishedEnded
           /\ FinishedStands
           /\ ArchiveOfCheckpoint

Command == [step : CheckpointSteps, of : Keys \cup {Nothing}, read : Nat,
            commit : MaybeCommit]

-----------------------------------------------------------------------------
(* The start, and what steps leave alone.                                  *)

\* Nothing has begun.
LEMMA RefsInitInv == RefsInit => RefsInv
<1> SUFFICES ASSUME RefsInit PROVE RefsInv
  OBVIOUS
<1> USE DEF RefsInit
<1>1. Unnamed \in RefPair /\ Unnamed.checkpoint = Nothing /\ Unnamed.replay = Nothing
  BY DEF Unnamed, RefPair, MaybeCommit
<1>2. Resting \in Command /\ Resting.step = "rest"
  BY DEF Resting, Command, CheckpointSteps, MaybeCommit
<1>3. RefsTypeOK
  BY <1>1, <1>2, RefsAssumption DEF RefsTypeOK, Generations, Keys, Command
<1>4. RefsRight
  BY <1>1 DEF RefsRight, Keys
<1>5. MadeForOwn
  BY <1>2 DEF MadeForOwn, OnStep
<1>6. FinishedEnded /\ FinishedStands /\ ArchiveOfCheckpoint
  BY DEF FinishedEnded, FinishedStands, ArchiveOfCheckpoint
<1> QED BY <1>3, <1>4, <1>5, <1>6 DEF RefsInv

\* A command moves on: what it carries has to be its own.
LEMMA CommandMoves ==
  ASSUME RefsTypeOK, MadeForOwn, NEW r \in Checkpointers, NEW t \in Command,
         doing' = [doing EXCEPT ![r] = t],
         \A k \in Keys : PairHolds(k) => PairHolds(k)',
         DOMAIN endedAs \subseteq DOMAIN endedAs',
         \A i \in DOMAIN replays : i \in DOMAIN replays' /\ replays'[i] = replays[i],
         t.step # "rest" => t.of \in Keys,
         t.step = "replay-ref" => t.commit \in DOMAIN replays' /\ replays'[t.commit] = t.of,
         t.step = "end" => PairHolds(t.of)',
         t.step = "archive" => t.of \in DOMAIN endedAs'
  PROVE  MadeForOwn' /\ doing' \in [Checkpointers -> Command]
<1>1. doing'[r] = t /\ \A q \in Checkpointers : q # r => doing'[q] = doing[q]
  BY DEF RefsTypeOK
<1>2. doing' \in [Checkpointers -> Command]
  BY DEF RefsTypeOK, Command
<1>3. MadeForOwn'
  <2> SUFFICES ASSUME NEW q \in Checkpointers
               PROVE  (/\ ~OnStep(q, "rest") => Key(q) \in Keys
                       /\ OnStep(q, "replay-ref") => /\ doing[q].commit \in DOMAIN replays
                                                     /\ replays[doing[q].commit] = Key(q)
                       /\ OnStep(q, "end") => PairHolds(Key(q))
                       /\ OnStep(q, "archive") => Key(q) \in DOMAIN endedAs)'
    BY DEF MadeForOwn
  <2>1. CASE q = r
    BY <1>1, <2>1 DEF OnStep, Key, PairHolds
  <2>2. CASE q # r
    <3>1. doing'[q] = doing[q]
      BY <1>1, <2>2
    <3>2. CASE doing[q].step = "end"
      <4> PICK k \in Keys : k = doing[q].of /\ PairHolds(k)
        BY <3>2 DEF MadeForOwn, OnStep, Key
      <4>1. PairHolds(k)' /\ Key(q)' = k
        BY <3>1 DEF Key
      <4>2. PairHolds(Key(q))'
        BY <4>1 DEF PairHolds
      <4> QED BY <3>1, <3>2, <4>1, <4>2 DEF OnStep
    <3>3. CASE doing[q].step # "end"
      BY <3>1, <3>3 DEF MadeForOwn, OnStep, Key
    <3> QED BY <3>2, <3>3
  <2> QED BY <2>1, <2>2
<1> QED BY <1>2, <1>3

\* A step that only moves a command, in a document and among refs that stay.
LEMMA CommandAlone ==
  ASSUME RefsInv, NEW r \in Checkpointers, NEW t \in Command,
         doing' = [doing EXCEPT ![r] = t],
         UNCHANGED <<document, refs, replays, archives, endedAs>>,
         t.step # "rest" => t.of \in Keys,
         t.step = "replay-ref" => t.commit \in DOMAIN replays /\ replays[t.commit] = t.of,
         t.step = "end" => PairHolds(t.of),
         t.step = "archive" => t.of \in DOMAIN endedAs
  PROVE  RefsInv'
<1> USE DEF RefsInv, document
<1>1. \A k : PairHolds(k)' = PairHolds(k)
  BY DEF PairHolds
<1>2. MadeForOwn' /\ doing' \in [Checkpointers -> Command]
  BY <1>1, CommandMoves
<1>3. RefsTypeOK' /\ RefsRight' /\ FinishedEnded'
  BY <1>2 DEF RefsTypeOK, RefsRight, FinishedEnded, Command
<1>4. FinishedStands' /\ ArchiveOfCheckpoint'
  BY <1>1 DEF FinishedStands, ArchiveOfCheckpoint
<1> QED BY <1>2, <1>3, <1>4

-----------------------------------------------------------------------------
(* One lemma per step.                                                     *)

\* A checkpoint is begun, or taken up.
LEMMA BeginCheckpointStep ==
  ASSUME RefsInv, NEW r \in Checkpointers, BeginCheckpoint(r) PROVE RefsInv'
<1> PICK t \in Transactions :
       doing' = [doing EXCEPT ![r] =
          [step |-> IF open = t THEN "checkpoint-ref" ELSE "start",
           of |-> <<generation, t>>, read |-> events, commit |-> Nothing]]
  BY DEF BeginCheckpoint
<1> DEFINE c == [step |-> IF open = t THEN "checkpoint-ref" ELSE "start",
                 of |-> <<generation, t>>, read |-> events, commit |-> Nothing]
<1>1. c \in Command /\ c.step \in {"checkpoint-ref", "start"} /\ c.of \in Keys
  BY DEF Command, CheckpointSteps, Keys, MaybeCommit, RefsInv, RefsTypeOK
<1>2. doing' = [doing EXCEPT ![r] = c]
  OBVIOUS
<1> HIDE DEF c
<1> QED BY <1>1, <1>2, CommandAlone DEF BeginCheckpoint

\* It records its start.
LEMMA RecordStartStep ==
  ASSUME RefsInv, NEW r \in Checkpointers, RecordStart(r) PROVE RefsInv'
<1> USE DEF RefsInv
<1> DEFINE c == [doing[r] EXCEPT !.step = "checkpoint-ref", !.read = events + 1]
<1>0. doing[r] \in Command /\ events \in Nat
  BY DEF RefsTypeOK, Command
<1>1. doing[r].step = "start" /\ doing[r].of \in Keys
  BY DEF RecordStart, MadeForOwn, OnStep, Key
<1>2. c \in Command /\ c.step = "checkpoint-ref" /\ c.of = doing[r].of
  <2>1. events + 1 \in Nat
    BY <1>0
  <2> DEFINE n == events + 1
  <2> HIDE DEF n
  <2> QED BY <1>0, <2>1 DEF Command, CheckpointSteps, n
<1>3. doing' = [doing EXCEPT ![r] = c]
  BY DEF RecordStart, RefsTypeOK
<1> HIDE DEF c
<1>4. /\ UNCHANGED <<generation, finished, refs, replays, archives, endedAs>>
      /\ open' = doing[r].of[2] /\ events' = events + 1
  BY DEF RecordStart
<1>5. \A k : PairHolds(k)' = PairHolds(k)
  BY <1>4 DEF PairHolds
<1>6. MadeForOwn' /\ doing' \in [Checkpointers -> Command]
  BY <1>1, <1>2, <1>3, <1>4, <1>5, CommandMoves
<1>7. open' \in Transactions /\ events' \in Nat
  BY <1>0, <1>1, <1>4 DEF Keys
<1>8. RefsTypeOK' /\ RefsRight' /\ FinishedEnded'
  BY <1>4, <1>6, <1>7 DEF RefsTypeOK, RefsRight, FinishedEnded, Command
<1>9. FinishedStands' /\ ArchiveOfCheckpoint'
  BY <1>4, <1>5 DEF FinishedStands, ArchiveOfCheckpoint
<1> QED BY <1>6, <1>8, <1>9

\* Refs and commits only grow: what is complete stays as it is.
LEMMA RefsGrow ==
  ASSUME RefsInv, NEW r \in Checkpointers, NEW t \in Command,
         doing' = [doing EXCEPT ![r] = t],
         UNCHANGED <<document, archives, endedAs>>,
         refs' \in [Keys -> RefPair], replays' \in Seq(Keys), RefsRight',
         \A i \in DOMAIN replays : i \in DOMAIN replays' /\ replays'[i] = replays[i],
         \A k \in Keys : PairHolds(k) => refs'[k] = refs[k],
         t.step # "rest" => t.of \in Keys,
         t.step = "replay-ref" => t.commit \in DOMAIN replays' /\ replays'[t.commit] = t.of,
         t.step \notin {"end", "archive"}
  PROVE  RefsInv'
<1> USE DEF RefsInv, document
<1>1. \A k \in Keys : PairHolds(k) => PairHolds(k)'
  BY DEF PairHolds, RefsRight
<1>2. MadeForOwn' /\ doing' \in [Checkpointers -> Command]
  BY <1>1, CommandMoves
<1>3. RefsTypeOK' /\ FinishedEnded'
  BY <1>2 DEF RefsTypeOK, FinishedEnded, Command
<1>4. FinishedStands'
  <2> SUFFICES ASSUME NEW k \in DOMAIN endedAs PROVE PairHolds(k)' /\ refs'[k] = endedAs[k]
    BY DEF FinishedStands
  <2>1. k \in Keys /\ PairHolds(k) /\ refs[k] = endedAs[k]
    BY DEF FinishedStands, RefsTypeOK
  <2> QED BY <1>1, <2>1
<1>5. ArchiveOfCheckpoint'
  BY DEF ArchiveOfCheckpoint
<1> QED BY <1>2, <1>3, <1>4, <1>5

\* The head is named.
LEMMA NameHeadStep ==
  ASSUME RefsInv, NEW r \in Checkpointers, NameHead(r) PROVE RefsInv'
<1> USE DEF RefsInv
<1> DEFINE c == [doing[r] EXCEPT !.step = "look"]
<1>0. doing[r] \in Command
  BY DEF RefsTypeOK, Command
<1>1. PICK k \in Keys : k = doing[r].of
  BY DEF NameHead, MadeForOwn, OnStep, Key
<1>2. c \in Command /\ c.step = "look" /\ c.of = k
  BY <1>0, <1>1 DEF Command, CheckpointSteps
<1>3. doing' = [doing EXCEPT ![r] = c]
  BY DEF NameHead, GoOn, RefsTypeOK
<1> HIDE DEF c
<1>4. /\ refs' = [refs EXCEPT ![k].checkpoint = HeadOf[k[2]]]
      /\ UNCHANGED <<document, replays, archives, endedAs>>
  BY <1>1 DEF NameHead, Key
<1>5. /\ refs'[k].checkpoint = HeadOf[k[2]] /\ refs'[k].replay = refs[k].replay
      /\ \A j \in Keys : j # k => refs'[j] = refs[j]
      /\ refs' \in [Keys -> RefPair]
  <2>1. refs \in [Keys -> RefPair] /\ k[2] \in Transactions
    BY DEF RefsTypeOK, Keys
  <2> QED BY <1>4, <2>1 DEF RefPair
<1>6. RefsRight'
  BY <1>4, <1>5 DEF RefsRight
<1>7. PairHolds(k) => refs'[k] = refs[k]
  <2>1. refs[k] \in RefPair /\ refs'[k] \in RefPair
    BY <1>5 DEF RefsTypeOK
  <2> QED BY <1>5, <2>1 DEF PairHolds, RefPair
<1>8. replays' = replays /\ replays' \in Seq(Keys)
  BY <1>4 DEF RefsTypeOK
<1> QED BY <1>2, <1>3, <1>4, <1>5, <1>6, <1>7, <1>8, RefsGrow

\* A commit is made where none is named.
LEMMA LookStep ==
  ASSUME RefsInv, NEW r \in Checkpointers, Look(r) PROVE RefsInv'
<1> USE DEF RefsInv
<1>0. doing[r] \in Command /\ replays \in Seq(Keys) /\ refs \in [Keys -> RefPair]
  BY DEF RefsTypeOK, Command
<1>1. PICK k \in Keys : k = doing[r].of
  BY DEF Look, MadeForOwn, OnStep, Key
<1>2. UNCHANGED <<document, refs, archives, endedAs>>
  BY DEF Look
<1>3. CASE /\ replays' = Append(replays, k)
           /\ doing' = [doing EXCEPT ![r].step = "replay-ref", ![r].commit = Len(replays) + 1]
  <2> DEFINE n == Len(replays) + 1
  <2>1. n \in Nat
    BY <1>0
  <2>2. /\ replays' \in Seq(Keys) /\ n \in DOMAIN replays' /\ replays'[n] = k
        /\ \A i \in DOMAIN replays : i \in DOMAIN replays' /\ replays'[i] = replays[i]
    BY <1>0, <1>3
  <2>3. doing' = [doing EXCEPT ![r].step = "replay-ref", ![r].commit = n]
    BY <1>3
  <2> HIDE DEF n
  <2> DEFINE c == [doing[r] EXCEPT !.step = "replay-ref", !.commit = n]
  <2>4. c \in Command /\ c.step = "replay-ref" /\ c.of = k /\ c.commit = n
    BY <1>0, <1>1, <2>1 DEF Command, CheckpointSteps, MaybeCommit
  <2>5. doing' = [doing EXCEPT ![r] = c]
    BY <2>3 DEF RefsTypeOK
  <2> HIDE DEF c
  <2>6. RefsRight'
    BY <1>2, <2>2 DEF RefsRight
  <2>7. refs' = refs
    BY <1>2
  <2> QED BY <1>0, <1>2, <2>2, <2>4, <2>5, <2>6, <2>7, RefsGrow
<1>4. CASE GoOn(r, "verify") /\ UNCHANGED replays
  <2> DEFINE c == [doing[r] EXCEPT !.step = "verify"]
  <2>1. c \in Command /\ c.step = "verify" /\ c.of = k
    BY <1>0, <1>1 DEF Command, CheckpointSteps
  <2>2. doing' = [doing EXCEPT ![r] = c]
    BY <1>4 DEF GoOn, RefsTypeOK
  <2> HIDE DEF c
  <2> QED BY <1>2, <1>4, <2>1, <2>2, CommandAlone
<1> QED BY <1>1, <1>3, <1>4 DEF Look, Key

\* It is named, unless another one is by now.
LEMMA NameReplayStep ==
  ASSUME RefsInv, NEW r \in Checkpointers, NameReplay(r) PROVE RefsInv'
<1> USE DEF RefsInv
<1>0. doing[r] \in Command /\ refs \in [Keys -> RefPair]
  BY DEF RefsTypeOK, Command
<1>1. PICK k \in Keys : k = doing[r].of
  BY DEF NameReplay, MadeForOwn, OnStep, Key
<1>2. UNCHANGED <<document, replays, archives, endedAs>>
  BY DEF NameReplay
<1>3. CASE /\ Named(k, Nothing)
           /\ refs' = [refs EXCEPT ![k].replay = doing[r].commit]
           /\ GoOn(r, "verify")
  <2> DEFINE c == [doing[r] EXCEPT !.step = "verify"]
  <2>1. c \in Command /\ c.step = "verify" /\ c.of = k
    BY <1>0, <1>1 DEF Command, CheckpointSteps
  <2>2. doing' = [doing EXCEPT ![r] = c]
    BY <1>3 DEF GoOn, RefsTypeOK
  <2> HIDE DEF c
  <2>3. doing[r].commit \in DOMAIN replays /\ replays[doing[r].commit] = k
    BY <1>1 DEF NameReplay, MadeForOwn, OnStep, Key
  <2>4. doing[r].commit \in MaybeCommit
    BY <1>0 DEF Command
  <2>5. /\ refs'[k].checkpoint = refs[k].checkpoint /\ refs'[k].replay = doing[r].commit
        /\ \A j \in Keys : j # k => refs'[j] = refs[j]
        /\ refs' \in [Keys -> RefPair]
    BY <1>0, <1>3, <2>4 DEF RefPair
  <2>6. RefsRight'
    BY <1>2, <2>3, <2>5 DEF RefsRight
  <2>7. ~PairHolds(k)
    BY <1>3 DEF Named, PairHolds
  <2>8. replays' \in Seq(Keys) /\ replays' = replays
    BY <1>2 DEF RefsTypeOK
  <2> QED BY <1>2, <2>1, <2>2, <2>5, <2>6, <2>7, <2>8, RefsGrow
<1>4. CASE UNCHANGED refs /\ Rest(r)
  <2>1. Resting \in Command /\ Resting.step = "rest"
    BY DEF Resting, Command, CheckpointSteps, MaybeCommit
  <2> QED BY <1>2, <1>4, <2>1, CommandAlone DEF Rest
<1> QED BY <1>1, <1>3, <1>4 DEF NameReplay, Key

\* The pair is read again.
LEMMA VerifyStep ==
  ASSUME RefsInv, NEW r \in Checkpointers, Verify(r) PROVE RefsInv'
<1> USE DEF RefsInv
<1>0. doing[r] \in Command
  BY DEF RefsTypeOK, Command
<1>1. Key(r) \in Keys
  BY DEF Verify, MadeForOwn, OnStep
<1>2. UNCHANGED <<document, refs, replays, archives, endedAs>>
  BY DEF Verify
<1>3. CASE PairHolds(Key(r)) /\ GoOn(r, "end")
  <2> DEFINE c == [doing[r] EXCEPT !.step = "end"]
  <2>1. c \in Command /\ c.step = "end" /\ c.of = Key(r)
    BY <1>0 DEF Command, CheckpointSteps, Key
  <2>2. doing' = [doing EXCEPT ![r] = c]
    BY <1>3 DEF GoOn, RefsTypeOK
  <2> HIDE DEF c
  <2> QED BY <1>1, <1>2, <1>3, <2>1, <2>2, CommandAlone
<1>4. CASE Rest(r)
  <2>1. Resting \in Command /\ Resting.step = "rest"
    BY DEF Resting, Command, CheckpointSteps, MaybeCommit
  <2> QED BY <1>2, <1>4, <2>1, CommandAlone DEF Rest
<1> QED BY <1>3, <1>4 DEF Verify

\* The transaction ends with the pair it has just read.
LEMMA RecordEndStep ==
  ASSUME RefsInv, NEW r \in Checkpointers, RecordEnd(r) PROVE RefsInv'
<1> USE DEF RefsInv
<1>0. Resting \in Command /\ Resting.step = "rest"
  BY DEF Resting, Command, CheckpointSteps, MaybeCommit
<1>1. PICK k \in Keys : k = doing[r].of /\ PairHolds(k)
  BY DEF RecordEnd, MadeForOwn, OnStep, Key
<1>2. /\ UNCHANGED <<generation, refs, replays, archives>>
      /\ k[1] = generation
      /\ finished' = Append(finished, k[2]) /\ open' = Nothing /\ events' = events + 1
      /\ endedAs' = [j \in DOMAIN endedAs \cup {k} |-> IF j = k THEN refs[j] ELSE endedAs[j]]
      /\ doing' = [doing EXCEPT ![r] = Resting]
  BY <1>1 DEF RecordEnd, MayAppend, Key, Rest
<1>3. k[2] \in Transactions /\ k = <<generation, k[2]>>
  BY <1>2 DEF Keys
<1>4. \A j \in Keys : PairHolds(j)' = PairHolds(j)
  BY <1>2 DEF PairHolds
<1>5. MadeForOwn' /\ doing' \in [Checkpointers -> Command]
  BY <1>0, <1>2, <1>4, CommandMoves
<1>6. RefsTypeOK'
  <2>1. finished' \in Seq(Transactions) /\ events' \in Nat
    BY <1>2, <1>3 DEF RefsTypeOK
  <2> QED BY <1>2, <1>5, <2>1 DEF RefsTypeOK, Command
<1>7. RefsRight'
  BY <1>2 DEF RefsRight
<1>8. FinishedEnded'
  <2> SUFFICES ASSUME NEW i \in DOMAIN finished'
               PROVE  <<generation, finished'[i]>> \in DOMAIN endedAs'
    BY <1>2 DEF FinishedEnded
  <2>1. finished \in Seq(Transactions)
    BY DEF RefsTypeOK
  <2>2. CASE i \in DOMAIN finished
    BY <1>2, <2>1, <2>2 DEF FinishedEnded
  <2>3. CASE i \notin DOMAIN finished
    <3>1. finished'[i] = k[2]
      BY <1>2, <2>1, <2>3
    <3> QED BY <1>2, <1>3, <3>1
  <2> QED BY <2>2, <2>3
<1>9. FinishedStands'
  <2> SUFFICES ASSUME NEW j \in DOMAIN endedAs' PROVE PairHolds(j)' /\ refs'[j] = endedAs'[j]
    BY DEF FinishedStands
  <2>1. j \in Keys
    BY <1>2 DEF RefsTypeOK
  <2>2. CASE j = k
    BY <1>1, <1>2, <1>4, <2>2
  <2>3. CASE j # k
    BY <1>2, <1>4, <2>1, <2>3 DEF FinishedStands
  <2> QED BY <2>2, <2>3
<1>10. ArchiveOfCheckpoint'
  BY <1>2 DEF ArchiveOfCheckpoint
<1> QED BY <1>5, <1>6, <1>7, <1>8, <1>9, <1>10

\* The current checkpoint is to be archived: it ended.
LEMMA BeginArchiveStep ==
  ASSUME RefsInv, NEW r \in Checkpointers, BeginArchive(r) PROVE RefsInv'
<1> USE DEF RefsInv
<1> DEFINE k == <<generation, Current>>
           c == [Resting EXCEPT !.step = "archive", !.of = k]
<1>1. k \in DOMAIN endedAs
  <2>1. finished \in Seq(Transactions) /\ finished # <<>> /\ Current = finished[Len(finished)]
    BY DEF BeginArchive, Current, RefsTypeOK
  <2>2. Len(finished) \in DOMAIN finished
    BY <2>1
  <2> QED BY <2>1, <2>2 DEF FinishedEnded
<1>2. k \in Keys
  BY <1>1 DEF RefsTypeOK
<1>3. doing' = [doing EXCEPT ![r] = c]
  BY DEF BeginArchive
<1> HIDE DEF k
<1>4. c \in Command /\ c.step = "archive" /\ c.of = k
  BY <1>2 DEF Resting, Command, CheckpointSteps, MaybeCommit
<1> HIDE DEF c
<1> QED BY <1>1, <1>2, <1>3, <1>4, CommandAlone DEF BeginArchive

\* The remote keeps the first head of a generation.
LEMMA ArchiveStep ==
  ASSUME RefsInv, NEW r \in Checkpointers, Archive(r) PROVE RefsInv'
<1> USE DEF RefsInv
<1>0. Resting \in Command /\ Resting.step = "rest"
  BY DEF Resting, Command, CheckpointSteps, MaybeCommit
<1>1. PICK k \in Keys : k = doing[r].of /\ k \in DOMAIN endedAs
  BY DEF Archive, MadeForOwn, OnStep, Key
<1>2. /\ UNCHANGED <<document, refs, replays, endedAs>>
      /\ archives' = IF archives[k[1]] = Nothing
                     THEN [archives EXCEPT ![k[1]] = HeadOf[k[2]]] ELSE archives
      /\ doing' = [doing EXCEPT ![r] = Resting]
  BY <1>1 DEF Archive, Key, Rest
<1>3. \A j \in Keys : PairHolds(j)' = PairHolds(j)
  BY <1>2 DEF PairHolds
<1>4. MadeForOwn' /\ doing' \in [Checkpointers -> Command]
  BY <1>0, <1>2, <1>3, CommandMoves
<1>5. k[1] \in Generations /\ k[2] \in Transactions
  BY DEF Keys
<1>6. RefsTypeOK'
  BY <1>2, <1>4, <1>5 DEF RefsTypeOK, Command, document
<1>7. RefsRight' /\ FinishedEnded'
  BY <1>2 DEF RefsRight, FinishedEnded, document
<1>8. FinishedStands'
  BY <1>2 DEF FinishedStands, PairHolds
<1>9. ArchiveOfCheckpoint'
  <2> SUFFICES ASSUME NEW g \in Generations, archives'[g] # Nothing
               PROVE  \E j \in DOMAIN endedAs : j[1] = g /\ HeadOf[j[2]] = archives'[g]
    BY <1>2 DEF ArchiveOfCheckpoint
  <2>1. CASE archives'[g] = archives[g]
    BY <2>1 DEF ArchiveOfCheckpoint
  <2>2. CASE archives'[g] # archives[g]
    <3>1. g = k[1] /\ archives'[g] = HeadOf[k[2]]
      BY <1>2, <1>5, <2>2 DEF RefsTypeOK
    <3> QED BY <1>1, <3>1
  <2> QED BY <2>1, <2>2
<1> QED BY <1>4, <1>6, <1>7, <1>8, <1>9

\* A dead or refused command leaves everything behind as it is.
LEMMA BreakOffStep ==
  ASSUME RefsInv, NEW r \in Checkpointers, BreakOff(r) PROVE RefsInv'
<1>1. Resting \in Command /\ Resting.step = "rest"
  BY DEF Resting, Command, CheckpointSteps, MaybeCommit
<1> QED BY <1>1, CommandAlone DEF BreakOff, Rest

\* Another generation begins with nothing finished.
LEMMA NextGenerationStep ==
  ASSUME RefsInv, NEW r \in Checkpointers, NextGeneration(r) PROVE RefsInv'
<1> USE DEF RefsInv
<1>1. /\ UNCHANGED <<refs, replays, archives, doing, endedAs>>
      /\ generation < MaxGeneration /\ generation' = generation + 1
      /\ open' = Nothing /\ finished' = <<>> /\ events' = 0
  BY DEF NextGeneration
<1>2. generation' \in Generations
  BY <1>1, RefsAssumption DEF RefsTypeOK, Generations
<1>3. RefsTypeOK'
  BY <1>1, <1>2 DEF RefsTypeOK
<1>4. MadeForOwn' /\ RefsRight' /\ FinishedEnded'
  BY <1>1 DEF MadeForOwn, RefsRight, FinishedEnded, OnStep, Key, PairHolds
<1>5. FinishedStands' /\ ArchiveOfCheckpoint'
  BY <1>1 DEF FinishedStands, ArchiveOfCheckpoint, PairHolds
<1> QED BY <1>3, <1>4, <1>5

\* The lease changes hands.
LEMMA TakeOverStep == RefsInv /\ (TakeOver \/ UNCHANGED refVars) => RefsInv'
<1> SUFFICES ASSUME RefsInv, TakeOver \/ UNCHANGED refVars PROVE RefsInv'
  OBVIOUS
<1> USE DEF RefsInv
<1>1. UNCHANGED <<generation, open, finished, events, refs, replays, archives, doing, endedAs>>
  BY DEF TakeOver, refVars, document
<1>2. RefsTypeOK'
  BY <1>1 DEF RefsTypeOK
<1>3. MadeForOwn' /\ RefsRight' /\ FinishedEnded'
  BY <1>1 DEF MadeForOwn, RefsRight, FinishedEnded, OnStep, Key, PairHolds
<1>4. FinishedStands' /\ ArchiveOfCheckpoint'
  BY <1>1 DEF FinishedStands, ArchiveOfCheckpoint, PairHolds
<1> QED BY <1>2, <1>3, <1>4

-----------------------------------------------------------------------------
(* The theorem.                                                            *)

\* Every step preserves the invariant.
LEMMA RefsNextInv == RefsInv /\ [RefsNext]_refVars => RefsInv'
  BY BeginCheckpointStep, RecordStartStep, NameHeadStep, LookStep, NameReplayStep,
     VerifyStep, RecordEndStep, BeginArchiveStep, ArchiveStep, BreakOffStep,
     NextGenerationStep, TakeOverStep
  DEF RefsNext, CheckpointStep

\* For any number of overlapping commands that die or lose the lease between
\* any two steps: the pair of refs of a finished checkpoint holds for good, the
\* archive of a generation shows a head that was its checkpoint, and an open
\* transaction can be taken up.
THEOREM RefsStand == RefsSpec => []CheckpointsStand
<1>1. RefsInv => CheckpointsStand
  <2> SUFFICES ASSUME RefsInv PROVE OpenIsResumable
    BY DEF RefsInv, CheckpointsStand
  <2>1. CASE open = Nothing
    BY <2>1 DEF OpenIsResumable
  <2>2. CASE open # Nothing
    <3> DEFINE k == <<generation, open>>
    <3>1. k \in Keys /\ k[2] = open
      BY <2>2 DEF RefsInv, RefsTypeOK, Keys
    <3> QED BY <3>1 DEF RefsInv, RefsRight, OpenIsResumable
  <2> QED BY <2>1, <2>2
<1> QED BY <1>1, RefsInitInv, RefsNextInv, PTL DEF RefsSpec

-----------------------------------------------------------------------------
(* What inspection offers.  What the inventory and the commands rely on of *)
(* the past is little: no outcome record is ever of a ready pull request,  *)
(* so a ready label holds the head that was reviewed last.                 *)

PullFacts ==
    [open : BOOLEAN, head : Nat, trusted : BOOLEAN, routed : BOOLEAN, report : BOOLEAN,
     label : {"none", "waiting-ci", "ready", "blocked"},
     mergeable : {"MERGEABLE", "UNKNOWN", "CONFLICTING"},
     checks : {"pending", "success", "failure"}]
Comments == [outcome : [state : {"none", "blocked"}, head : Nat], reviewed : Nat]

InspectionInv == pull \in [Pulls -> PullFacts] /\ comment \in [Pulls -> Comments]

LEMMA PullMoves ==
  ASSUME InspectionInv, NEW p \in Pulls,
         AuthorPushes(p) \/ OwnerChanges(p) \/ GitHubReports(p)
  PROVE  pull' \in [Pulls -> PullFacts]
<1>1. pull[p] \in PullFacts /\ pull \in [Pulls -> PullFacts]
  BY DEF InspectionInv
<1>2. CASE AuthorPushes(p)
  <2>1. PICK t \in BOOLEAN, r \in BOOLEAN :
           pull' = [pull EXCEPT ![p].head = @ + 1, ![p].checks = "pending",
                                ![p].trusted = t, ![p].report = r]
    BY <1>2 DEF AuthorPushes
  <2>2. PICK h \in Nat : h = pull[p].head + 1
    BY <1>1 DEF PullFacts
  <2>3. pull' = [pull EXCEPT ![p].head = h, ![p].checks = "pending",
                             ![p].trusted = t, ![p].report = r]
    BY <2>1, <2>2, Zenon
  <2>4. [pull[p] EXCEPT !.head = h, !.checks = "pending", !.trusted = t, !.report = r]
           \in PullFacts
    BY <1>1, Zenon DEF PullFacts
  <2> QED BY <1>1, <2>3, <2>4
<1>3. CASE OwnerChanges(p)
  <2>1. [pull[p] EXCEPT !.label = "none"] \in PullFacts
    BY <1>1, Zenon DEF PullFacts
  <2>2. [pull[p] EXCEPT !.open = FALSE] \in PullFacts
    BY <1>1, Zenon DEF PullFacts
  <2>3. [pull[p] EXCEPT !.routed = ~ pull[p].routed] \in PullFacts
    BY <1>1, Zenon DEF PullFacts
  <2> QED BY <1>1, <1>3, <2>1, <2>2, <2>3 DEF OwnerChanges
<1>4. CASE GitHubReports(p)
  <2>1. ASSUME NEW m \in {"MERGEABLE", "UNKNOWN", "CONFLICTING"}
        PROVE  [pull[p] EXCEPT !.mergeable = m] \in PullFacts
    BY <1>1, Zenon DEF PullFacts
  <2>2. ASSUME NEW c \in {"pending", "success", "failure"}
        PROVE  [pull[p] EXCEPT !.checks = c] \in PullFacts
    BY <1>1, Zenon DEF PullFacts
  <2> QED BY <1>1, <1>4, <2>1, <2>2 DEF GitHubReports
<1> QED BY <1>2, <1>3, <1>4

LEMMA InspectionNextInv == InspectionInv /\ [InspectionNext]_inspectionVars => InspectionInv'
<1> SUFFICES ASSUME InspectionInv, [InspectionNext]_inspectionVars PROVE InspectionInv'
  OBVIOUS
<1>1. CASE UNCHANGED inspectionVars
  BY <1>1 DEF InspectionInv, inspectionVars
<1>2. ASSUME NEW p \in Pulls,
             PrepareOffered(p) \/ PublishPush(p) \/ PrepareRepair(p) \/ Invalidate(p)
      PROVE  InspectionInv'
  BY <1>2 DEF InspectionInv, PrepareOffered, PublishPush, PrepareRepair, Invalidate
<1>3. ASSUME NEW p \in Pulls, RecoverPush(p) PROVE InspectionInv'
  <2>1. pull[p] \in PullFacts /\ comment[p] \in Comments
    BY DEF InspectionInv
  <2>2. PICK h \in Nat : h = pull[p].head + 1
    BY <2>1 DEF PullFacts
  <2>3. [pull[p] EXCEPT !.head = h, !.checks = "pending", !.label = "waiting-ci"] \in PullFacts
    BY <2>1, Zenon DEF PullFacts
  <2>4. [comment[p] EXCEPT !.reviewed = h, !.outcome = NoOutcome] \in Comments
    BY <2>1 DEF Comments, NoOutcome
  <2> QED BY <1>3, <2>2, <2>3, <2>4 DEF InspectionInv, RecoverPush
<1>4. ASSUME NEW p \in Pulls, PublishReady(p) \/ BlockLabel(p) PROVE InspectionInv'
  <2>1. pull[p] \in PullFacts
    BY DEF InspectionInv
  <2>2. ASSUME NEW l \in {"ready", "blocked"} PROVE [pull[p] EXCEPT !.label = l] \in PullFacts
    BY <2>1, Zenon DEF PullFacts
  <2> QED BY <1>4, <2>2 DEF InspectionInv, PublishReady, BlockLabel
<1>5. ASSUME NEW p \in Pulls, BlockComment(p) PROVE InspectionInv'
  <2>1. pull[p] \in PullFacts /\ comment[p] \in Comments
    BY DEF InspectionInv
  <2>2. [comment[p] EXCEPT !.outcome = [state |-> "blocked", head |-> pull[p].head]] \in Comments
    BY <2>1 DEF Comments, PullFacts
  <2> QED BY <1>5, <2>2 DEF InspectionInv, BlockComment
<1>6. ASSUME NEW p \in Pulls, Outside(p) PROVE InspectionInv'
  BY <1>6, PullMoves DEF InspectionInv, Outside
<1> QED BY <1>1, <1>2, <1>3, <1>4, <1>5, <1>6 DEF InspectionNext

\* A generation is resumed only of a pull request that would be chosen without it.
LEMMA RetryableIsSafe ==
  ASSUME NEW p \in Pulls, p \in Retryable
  PROVE  Safe(p) /\ pull[p].label \notin Holds
BY DEF Retryable, Availability

LEMMA HeldIsHeld ==
  ASSUME InspectionInv, NEW p \in Pulls,
         \/ /\ pull[p].label = "blocked"
            /\ comment[p].outcome = [state |-> "blocked", head |-> pull[p].head]
         \/ pull[p].label = "ready" /\ comment[p].reviewed = pull[p].head
  PROVE  p \notin Retryable \cup Eligible
<1>1. pull[p].label \in Holds
  BY DEF Holds
<1>2. HoldHead(p) = pull[p].head
  BY DEF HoldHead, InspectionInv, Comments
<1>3. ~ Safe(p)
  BY <1>1, <1>2 DEF Safe
<1> QED BY <1>3, RetryableIsSafe DEF Eligible

\* What a run is offered first the command accepts, and what is held where it is is not
\* offered, for any pull requests, pushes and changes from outside (inspection.py,
\* capabilities.py).
THEOREM OffersHold == InspectionSpec => []InspectionSafe
<1>1. InspectionInit => InspectionInv
  BY DEF InspectionInit, InspectionInv, PullFacts, Comments, NoOutcome
<1>2. InspectionInv => OffersAreAccepted
  BY RetryableIsSafe DEF OffersAreAccepted, Chosen, MayPrepare, Retryable, Eligible
<1>3. InspectionInv => HeldIsNotOffered
  BY HeldIsHeld DEF HeldIsNotOffered
<1> QED BY <1>1, <1>2, <1>3, InspectionNextInv, PTL DEF InspectionSpec, InspectionSafe

-----------------------------------------------------------------------------
(* What a report says of ski areas.  A report that was taken is valid, so  *)
(* the properties follow from its checks for whatever was assessed.        *)

ScopeInv == /\ sheet \in [Candidate -> AreaAssessments \cup MarketAssessments]
            /\ submitted => SheetValid(sheet)

LEMMA KindOfArea ==
  ASSUME NEW a \in AreaAssessments \cup MarketAssessments, IsArea(a)
  PROVE  a \in AreaAssessments
BY DEF IsArea, AreaAssessments, MarketAssessments

LEMMA TargetsFinite ==
  ASSUME NEW a \in AreaAssessments \cup MarketAssessments
  PROVE  IsFiniteSet(a.targets)
<1>1. a.targets \subseteq Places
  BY DEF AreaAssessments, MarketAssessments
<1> QED BY <1>1, ScopeAssumption, FS_Subset

LEMMA OnlyOne ==
  ASSUME NEW S, IsFiniteSet(S), Cardinality(S) = 1, NEW x \in S, NEW y \in S
  PROVE  x = y
<1>1. PICK z : S = {z}
  BY FS_Singleton
<1> QED BY <1>1

LEMMA AtMostOne ==
  ASSUME NEW S, IsFiniteSet(S), Cardinality(S) <= 1, NEW x \in S, NEW y \in S
  PROVE  x = y
<1>1. Cardinality(S) \in Nat
  BY FS_CardinalityType
<1>2. Cardinality(S) # 0
  BY FS_EmptySet
<1>3. Cardinality(S) = 1
  BY <1>1, <1>2
<1> QED BY <1>3, OnlyOne

-----------------------------------------------------------------------------
(* Parts of areas that are run together. *)

LEMMA PartHasOneParent ==
  ASSUME ScopeInv, submitted, NEW c \in Candidate, IsPart(sheet[c]), Coordinated(sheet[c])
  PROVE  \E p \in Parents(sheet) :
            {q \in Parents(sheet) : \/ c \in sheet[q].components
                                    \/ sheet[c].parent \in sheet[q].targets} = {p}
<1> USE DEF ScopeInv, SheetValid, ComponentsValid
<1>1. PICK p \in Parents(sheet) : sheet[c].parent \in sheet[p].targets
                                  /\ c \in sheet[p].components
  OBVIOUS
<1>2. ASSUME NEW q \in Parents(sheet),
             c \in sheet[q].components \/ sheet[c].parent \in sheet[q].targets
      PROVE  q = p
  <2>1. p \in Candidate /\ q \in Candidate
    BY DEF Parents
  <2>2. sheet[c].targets = sheet[p].targets
    BY <1>1 DEF ComponentFits
  <2>3. CASE c \in sheet[q].components
    <3>1. sheet[c].targets = sheet[q].targets
      BY <2>3 DEF ComponentFits
    <3> QED BY <2>2, <3>1
  <2>4. CASE sheet[c].parent \in sheet[q].targets
    <3>1. /\ IsFiniteSet(sheet[p].targets) /\ Cardinality(sheet[p].targets) = 1
          /\ IsFiniteSet(sheet[q].targets) /\ Cardinality(sheet[q].targets) = 1
      <4>1. ASSUME NEW r \in {p, q}
            PROVE  IsFiniteSet(sheet[r].targets) /\ Cardinality(sheet[r].targets) = 1
        <5>1. sheet[r] \in AreaAssessments \cup MarketAssessments
          BY <2>1
        <5> HIDE DEF ScopeInv, SheetValid, ComponentsValid
        <5>2. IsFiniteSet(sheet[r].targets)
          BY <5>1, TargetsFinite
        <5> QED BY <5>2 DEF ScopeInv, SheetValid, ComponentsValid
      <4> QED BY <4>1
    <3>2. \A x \in sheet[p].targets : x = sheet[c].parent
      BY <1>1, <3>1, OnlyOne
    <3>3. \A x \in sheet[q].targets : x = sheet[c].parent
      BY <2>4, <3>1, OnlyOne
    <3>4. sheet[p].targets = {sheet[c].parent} /\ sheet[q].targets = {sheet[c].parent}
      <4> HIDE DEF ScopeInv, SheetValid, ComponentsValid
      <4> QED BY <1>1, <2>4, <3>2, <3>3, Zenon
    <3>5. \A r, o \in Parents(sheet) : sheet[r].targets = sheet[o].targets => r = o
      OBVIOUS
    <3> HIDE DEF ScopeInv, SheetValid, ComponentsValid
    <3> QED BY <3>4, <3>5
  <2> QED BY <1>2, <2>3, <2>4
<1> DEFINE X == {q \in Parents(sheet) : \/ c \in sheet[q].components
                                       \/ sheet[c].parent \in sheet[q].targets}
<1>3. \A q \in X : q = p
  BY <1>2
<1>4. p \in X
  BY <1>1
<1>5. X = {p}
  BY <1>3, <1>4, Zenon
<1> QED BY <1>5

LEMMA LevelsHold == ScopeInv => OneLevel
<1> SUFFICES ASSUME ScopeInv, submitted,
                    NEW c \in Candidate, IsPart(sheet[c]), Coordinated(sheet[c])
             PROVE  /\ Cardinality({p \in Parents(sheet) :
                              \/ c \in sheet[p].components
                              \/ sheet[c].parent \in sheet[p].targets}) = 1
                    /\ sheet[c].components = {}
                    /\ \A p \in Parents(sheet) : sheet[p].components \cap Parents(sheet) = {}
  BY DEF OneLevel
<1>1. Cardinality({p \in Parents(sheet) : \/ c \in sheet[p].components
                                         \/ sheet[c].parent \in sheet[p].targets}) = 1
  BY PartHasOneParent, FS_Singleton
<1>2. sheet[c].components = {}
  <2>1. AreaValid(sheet[c])
    BY DEF ScopeInv, SheetValid, AssessmentValid, IsPart
  <2>2. ~ StandsAlone(sheet[c])
    BY DEF IsPart, StandsAlone, Represented
  <2> QED BY <2>1, <2>2 DEF AreaValid
<1>3. ASSUME NEW p \in Parents(sheet), NEW d \in sheet[p].components
      PROVE  d \notin Parents(sheet)
  <2>1. IsPart(sheet[d])
    BY <1>3 DEF ScopeInv, SheetValid, ComponentsValid, ComponentFits
  <2> QED BY <2>1 DEF Parents, IsPart, StandsAlone, Represented
<1> QED BY <1>1, <1>2, <1>3

-----------------------------------------------------------------------------
(* The two accounts of the gates. *)

LEMMA OwnersCount ==
  ASSUME NEW a, EnoughOwners(a, IndependentOwners(a))
  PROVE  EnoughOwners(a, Owners(a))
<1>1. IndependentOwners(a) \subseteq Owners(a)
  BY DEF IndependentOwners
<1>2. IsFiniteSet({"operations", "weather", "full_pass"})
  <2>1. IsFiniteSet({"operations"})
    BY FS_Singleton
  <2>2. IsFiniteSet({"operations"} \cup {"weather"})
    BY <2>1, FS_AddElement
  <2>3. IsFiniteSet({"operations"} \cup {"weather"} \cup {"full_pass"})
    BY <2>2, FS_AddElement
  <2>4. {"operations"} \cup {"weather"} \cup {"full_pass"}
           = {"operations", "weather", "full_pass"}
    OBVIOUS
  <2> QED BY <2>3, <2>4
<1>3. Owners(a) \subseteq {"operations", "weather", "full_pass"}
  BY DEF Owners
<1>4. IsFiniteSet(Owners(a)) /\ IsFiniteSet(IndependentOwners(a))
  BY <1>1, <1>2, <1>3, FS_Subset
<1>5. /\ Cardinality(IndependentOwners(a)) <= Cardinality(Owners(a))
      /\ Cardinality(IndependentOwners(a)) \in Nat /\ Cardinality(Owners(a)) \in Nat
  BY <1>1, <1>4, FS_Subset, FS_CardinalityType
<1>6. a.connectivity = "connected" => Cardinality(Owners(a)) >= 2
  BY <1>5 DEF EnoughOwners
<1> QED BY <1>1, <1>6 DEF EnoughOwners

LEMMA PartsHold == ScopeInv => PartsCannotStandAlone
<1> SUFFICES ASSUME ScopeInv, submitted,
                    NEW c \in Candidate, IsPart(sheet[c]), ~ Coordinated(sheet[c]),
                    ApartValid([sheet[c] EXCEPT !.disposition = "represented"])
             PROVE  FALSE
  BY DEF PartsCannotStandAlone
<1> DEFINE a == sheet[c]
           b == [a EXCEPT !.disposition = "represented"]
<1>1. a \in AreaAssessments
  BY KindOfArea DEF ScopeInv, IsPart
<1>2. /\ b.terrain = a.terrain /\ b.signals = a.signals /\ b.value = a.value
      /\ b.connectivity = a.connectivity /\ b.kind = a.kind /\ b.pass = a.pass
      /\ b.operations = a.operations /\ b.weather = a.weather
  BY <1>1 DEF AreaAssessments
<1>3. AreaValid(a)
  BY DEF ScopeInv, SheetValid, AssessmentValid, IsPart
<1>4. ~ Coordinated(b) /\ IndependentOwners(b) = IndependentOwners(a)
  BY <1>2 DEF Coordinated, IsArea, IndependentOwners, Owners
<1>5. /\ a.terrain = "complete" /\ "terrain" \in a.signals /\ a.value = "material"
      /\ EnoughOwners(b, IndependentOwners(a))
  BY <1>2, <1>4 DEF ApartValid
<1>6. EnoughOwners(a, IndependentOwners(a))
  BY <1>2, <1>5 DEF EnoughOwners
<1>7. a.consequences # {}
  BY <1>3, <1>5 DEF AreaValid, ValueStated
<1>8. a.connectivity \in {"connected", "transfer_required", "disconnected"}
  BY <1>1, <1>3 DEF AreaValid, PartValid, WellFormed, AreaAssessments
<1>9. OrdinaryGates(a)
  BY <1>5, <1>6, <1>7, <1>8, OwnersCount DEF OrdinaryGates
<1> QED BY <1>3, <1>9 DEF AreaValid, PartValid

-----------------------------------------------------------------------------
(* What areas are compared with. *)

\* The subject of a comparison with a market is the one target of its area, which no
\* other area stands for.
LEMMA RootIsOne ==
  ASSUME ScopeInv, submitted, NEW d \in Places, NEW k \in MarketRoots(sheet, d)
  PROVE  /\ k \in With(sheet, "stay_market") /\ k[1] \in Candidate /\ k[2].target = d
         /\ Subject(sheet[k[1]]) = sheet[k[1]].targets
         /\ \E t : /\ sheet[k[1]].targets = {t}
                   /\ Standing(sheet, "ski_area", t) = {k[1]}
                   /\ t \in Roots(sheet, d)
<1>1. /\ k \in With(sheet, "stay_market") /\ k[2].target = d /\ StandsAlone(sheet[k[1]])
  BY DEF MarketRoots
<1>2. k[1] \in Candidate /\ k[2] \in sheet[k[1]].consequences /\ IsArea(sheet[k[1]])
  BY <1>1 DEF With, Comparisons
<1>3. Subject(sheet[k[1]]) = sheet[k[1]].targets
  BY <1>1, <1>2 DEF Subject
<1>4. /\ Cardinality(sheet[k[1]].targets) = 1
      /\ \A t \in sheet[k[1]].targets : Standing(sheet, "ski_area", t) = {k[1]}
  BY <1>1, <1>2 DEF ScopeInv, SheetValid, TargetsValid, SubjectValid
<1>5. PICK t : sheet[k[1]].targets = {t}
  BY <1>2, <1>4, TargetsFinite, FS_Singleton DEF ScopeInv
<1>6. t \in Roots(sheet, d)
  BY <1>1, <1>3, <1>5 DEF Roots
<1> QED BY <1>1, <1>2, <1>3, <1>4, <1>5, <1>6

LEMMA RootsFinite ==
  ASSUME ScopeInv, NEW d
  PROVE  IsFiniteSet(Roots(sheet, d))
<1>1. Roots(sheet, d) \subseteq Places
  <2>1. ASSUME NEW k \in With(sheet, "stay_market")
        PROVE  Subject(sheet[k[1]]) \subseteq Places
    <3>1. k[1] \in Candidate
      BY DEF With, Comparisons
    <3>2. sheet[k[1]].targets \subseteq Places
      BY <3>1 DEF ScopeInv, AreaAssessments, MarketAssessments
    <3> QED BY <3>2 DEF Subject
  <2> QED BY <2>1 DEF Roots
<1> QED BY <1>1, ScopeAssumption, FS_Subset

LEMMA RootsHold == ScopeInv => OneRootPerMarket
<1> SUFFICES ASSUME ScopeInv, submitted
             PROVE  /\ \A d \in Places : \A j, k \in MarketRoots(sheet, d) : j[1] = k[1]
                    /\ \A d \in Places : \A k \in MarketRoots(sheet, d) :
                          /\ sheet[k[1]].parent = NoArea
                          /\ \A j \in With(sheet, "sibling") :
                                j[1] # k[1] /\ j[2].target \notin sheet[k[1]].targets
                    /\ \A k \in With(sheet, "stay_market") :
                          \E d \in Candidate : k[2].target \in sheet[d].targets
                                               /\ Passing(sheet[d])
  BY DEF OneRootPerMarket
<1>1. ASSUME NEW d \in Places, NEW j \in MarketRoots(sheet, d), NEW k \in MarketRoots(sheet, d)
      PROVE  j[1] = k[1]
  <2>1. PICK t : /\ Standing(sheet, "ski_area", t) = {j[1]} /\ t \in Roots(sheet, d)
    BY RootIsOne
  <2>2. PICK u : /\ Standing(sheet, "ski_area", u) = {k[1]} /\ u \in Roots(sheet, d)
    BY RootIsOne
  <2>3. Cardinality(Roots(sheet, d)) <= 1
    BY RootIsOne DEF ScopeInv, SheetValid, TargetsValid
  <2>4. t = u
    BY <2>1, <2>2, <2>3, RootsFinite, AtMostOne
  <2> QED BY <2>1, <2>2, <2>4
<1>2. ASSUME NEW d \in Places, NEW k \in MarketRoots(sheet, d)
      PROVE  /\ sheet[k[1]].parent = NoArea
             /\ \A j \in With(sheet, "sibling") :
                   j[1] # k[1] /\ j[2].target \notin sheet[k[1]].targets
  <2>1. PICK t : sheet[k[1]].targets = {t} /\ t \in Roots(sheet, d)
    BY RootIsOne
  <2>2. k[1] \in Candidate /\ k \in With(sheet, "stay_market") /\ k[2].target = d
        /\ Subject(sheet[k[1]]) = {t}
    BY <2>1, RootIsOne
  <2>3. k[2] \in sheet[k[1]].consequences /\ k[2].basis = "stay_market" /\ IsArea(sheet[k[1]])
    BY <2>2 DEF With, Comparisons
  <2>4. AreaValid(sheet[k[1]])
    BY <2>2, <2>3 DEF ScopeInv, SheetValid, AssessmentValid
  <2>5. sheet[k[1]].parent = NoArea
    BY <2>3, <2>4 DEF AreaValid, Comparable
  <2>6. Roots(sheet, d) \cap Siblings(sheet) = {}
    BY <2>2 DEF ScopeInv, SheetValid, TargetsValid
  <2>7. ASSUME NEW j \in With(sheet, "sibling")
        PROVE  j[1] # k[1] /\ j[2].target # t
    <3>1. t \notin Subject(sheet[j[1]]) \cup {j[2].target}
      BY <2>1, <2>6 DEF Siblings
    <3> QED BY <2>2, <3>1
  <2> QED BY <2>1, <2>5, <2>7
<1>3. ASSUME NEW k \in With(sheet, "stay_market")
      PROVE  \E d \in Candidate : k[2].target \in sheet[d].targets /\ Passing(sheet[d])
  <2>1. k[1] \in Candidate /\ k \in Comparisons(sheet) /\ k[2].basis = "stay_market"
    BY DEF With, Comparisons
  <2>2. Cardinality(Standing(sheet, "stay_destination", k[2].target)) = 1
    BY <2>1 DEF ScopeInv, SheetValid, TargetsValid, ComparedWith
  <2>3. PICK d \in Standing(sheet, "stay_destination", k[2].target) : TRUE
    BY <2>2, FS_EmptySet
  <2>4. /\ d \in Candidate /\ sheet[d].kind = "stay_destination"
        /\ sheet[d].disposition \in Represented /\ k[2].target \in sheet[d].targets
    BY DEF Standing
  <2>5. AssessmentValid(sheet[d]) /\ ~ IsArea(sheet[d])
    BY <2>4 DEF ScopeInv, SheetValid, IsArea
  <2>6. Passing(sheet[d])
    BY <2>4, <2>5 DEF AssessmentValid, BoundaryValid
  <2> QED BY <2>4, <2>6
<1> QED BY <1>1, <1>2, <1>3

-----------------------------------------------------------------------------

\* What an accepted report says of ski areas does not contradict itself, whatever the
\* areas, the destinations and the assessments that were tried
\* (catalog_curation.py, _validate_entity_scope_assessments).
THEOREM AreasAreConsistent == ScopeSpec => []AreasSafe
<1>1. ScopeInit => ScopeInv
  BY ScopeAssumption DEF ScopeInit, ScopeInv
<1>2. ScopeInv /\ [ScopeNext]_scopeVars => ScopeInv'
  <2> SUFFICES ASSUME ScopeInv, [ScopeNext]_scopeVars PROVE ScopeInv'
    OBVIOUS
  <2>1. CASE UNCHANGED scopeVars
    BY <2>1 DEF ScopeInv, scopeVars
  <2>2. ASSUME NEW c \in Candidate, Reconsider(c) PROVE ScopeInv'
    BY <2>2, ScopeAssumption DEF Reconsider, ScopeInv
  <2>3. CASE Submit
    BY <2>3 DEF Submit, ScopeInv
  <2> QED BY <2>1, <2>2, <2>3 DEF ScopeNext
<1>3. ScopeInv => AreasSafe
  BY LevelsHold, PartsHold, RootsHold DEF AreasSafe
<1> QED BY <1>1, <1>2, <1>3, PTL DEF ScopeSpec

-----------------------------------------------------------------------------
(* What the checkpoints of a generation accept of the catalog's graph.     *)

DiscoveryInv ==
    /\ graph \in Graphs
    /\ stage = "prepared" =>
          authority = NoReport /\ settled = [found |-> {}, complete |-> {}]
    /\ stage # "prepared" =>
          /\ authority \in Drafts /\ accepted \in Drafts
          /\ settled.found \subseteq Established(authority)
          /\ settled.complete \subseteq Finished(authority)
          /\ Established(authority) \subseteq Established(accepted)
          /\ Finished(authority) \subseteq Finished(accepted)
    /\ IsFinal => FinalValid(accepted, graph)

\* What a report established is in every valid report that goes on from it.
LEMMA ProgressionKeeps ==
  ASSUME NEW prev, NEW rep, NEW pending, Progression(prev, rep), ReportValid(rep, pending)
  PROVE  Established(prev) \subseteq Established(rep) /\ Finished(prev) \subseteq Finished(rep)
<1>1. ASSUME NEW x \in Established(prev) PROVE x \in Established(rep)
  <2>1. /\ x[1] \in DOMAIN prev.rows /\ x[2] \in prev.rows[x[1]].found
        /\ x = <<x[1], x[2]>>
    BY DEF Established
  <2>2. x[1] \in DOMAIN rep.rows /\ x[2] \in rep.rows[x[1]].found
    BY <2>1 DEF Progression
  <2>3. x[2] \in DOMAIN rep.seen
    BY <2>2 DEF ReportValid, DiscoveryContract, RowBacked
  <2> QED BY <2>1, <2>2, <2>3 DEF Established
<1>2. Finished(prev) \subseteq Finished(rep)
  BY DEF Finished, Progression
<1> QED BY <1>1, <1>2

LEMMA DiscoveryNextInv == DiscoveryInv /\ [DiscoveryNext]_discoveryVars => DiscoveryInv'
<1> SUFFICES ASSUME DiscoveryInv, [DiscoveryNext]_discoveryVars PROVE DiscoveryInv'
  OBVIOUS
<1>1. CASE UNCHANGED discoveryVars
  BY <1>1 DEF DiscoveryInv, discoveryVars, IsFinal
<1>2. CASE CheckpointDiscovery
  <2>1. PICK rep \in DiscoveryReports[graph] :
           /\ authority # NoReport => Progression(authority, rep)
           /\ authority' = rep /\ accepted' = rep /\ stage' = "discovery" /\ graph' = graph
           /\ settled' = [found |-> settled.found \cup Established(rep),
                          complete |-> settled.complete \cup Finished(rep)]
    BY <1>2 DEF CheckpointDiscovery
  <2>2. rep \in Drafts /\ DiscoveryValid(rep, graph) /\ graph \in Graphs
    BY <2>1 DEF DiscoveryInv, DiscoveryReports
  <2>3. ReportValid(rep, TRUE)
    BY <2>2 DEF DiscoveryValid, ResultingGraph
  <2>4. settled.found \subseteq Established(rep) /\ settled.complete \subseteq Finished(rep)
    <3>1. CASE stage = "prepared"
      BY <3>1 DEF DiscoveryInv
    <3>2. CASE stage # "prepared"
      <4>1. authority # NoReport
        BY <3>2, DiscoveryAssumption DEF DiscoveryInv
      <4>2. /\ Established(authority) \subseteq Established(rep)
            /\ Finished(authority) \subseteq Finished(rep)
        BY <2>1, <2>3, <4>1, ProgressionKeeps
      <4> QED BY <3>2, <4>2 DEF DiscoveryInv
    <3> QED BY <3>1, <3>2
  <2>5. settled'.found = settled.found \cup Established(rep)
        /\ settled'.complete = settled.complete \cup Finished(rep)
    BY <2>1
  <2>6. settled'.found \subseteq Established(rep) /\ settled'.complete \subseteq Finished(rep)
    BY <2>4, <2>5
  <2>7. \A r : r = rep => /\ settled'.found \subseteq Established(r)
                          /\ settled'.complete \subseteq Finished(r)
    BY <2>6
  <2> QED BY <2>1, <2>2, <2>7 DEF DiscoveryInv, IsFinal
<1>3. CASE CheckpointDelta
  <2> PICK g \in Graphs : \E rep \in FinalReports[g] :
           Progression(authority, rep) /\ graph' = g /\ accepted' = rep
    BY <1>3 DEF CheckpointDelta
  <2>1. PICK rep \in FinalReports[g] :
           Progression(authority, rep) /\ graph' = g /\ accepted' = rep
    OBVIOUS
  <2>2. stage # "prepared" /\ stage' = "delta" /\ UNCHANGED <<authority, settled>>
    BY <1>3 DEF CheckpointDelta, ReadyForDelta
  <2>3. rep \in Drafts /\ FinalValid(rep, g)
    BY <2>1 DEF FinalReports
  <2>4. ReportValid(rep, FALSE)
    BY <2>3 DEF FinalValid, ResultingGraph
  <2>5. /\ Established(authority) \subseteq Established(rep)
        /\ Finished(authority) \subseteq Finished(rep)
    BY <2>1, <2>4, ProgressionKeeps
  <2>6. \A r, h : r = rep /\ h = g =>
           /\ Established(authority) \subseteq Established(r)
           /\ Finished(authority) \subseteq Finished(r)
           /\ FinalValid(r, h)
    BY <2>3, <2>5
  <2> QED BY <2>1, <2>2, <2>3, <2>6 DEF DiscoveryInv, IsFinal
<1>4. CASE CheckpointReviewed
  <2>1. FinalValid(accepted, graph)
    BY <1>4 DEF CheckpointReviewed, FinalReports, DiscoveryInv
  <2> QED BY <1>4, <2>1 DEF CheckpointReviewed, DiscoveryInv, IsFinal
<1>5. CASE ValidateReport
  BY <1>5 DEF ValidateReport, DiscoveryInv, IsFinal
<1>6. CASE PublishUnavailable
  BY <1>6 DEF PublishUnavailable, DiscoveryInv, IsFinal
<1>7. CASE Regenerate
  BY <1>7 DEF Regenerate, DiscoveryInv, IsFinal
<1> QED BY <1>1, <1>2, <1>3, <1>4, <1>5, <1>6, <1>7 DEF DiscoveryNext

-----------------------------------------------------------------------------
(* The closure of the catalog around several roots is that of one of them. *)

LEMMA ScopeOfOne ==
  ASSUME NEW g, NEW roots, NEW x \in Scope(g, roots)
  PROVE  \E r \in roots : x \in Scope(g, {r})
<1>1. \A y \in BasesOf(g, roots) : \E r \in roots : y \in BasesOf(g, {r})
  BY DEF BasesOf, Out
<1>2. \A y \in AccessOf(g, roots) : \E r \in roots : y \in AccessOf(g, {r})
  BY <1>1 DEF AccessOf, Into
<1>3. \A y \in ReachedFrom(g, roots) : \E r \in roots : y \in ReachedFrom(g, {r})
  BY <1>2 DEF ReachedFrom, Out
<1>4. \A y \in JoinedTo(g, roots) : \E r \in roots : y \in JoinedTo(g, {r})
  BY <1>3 DEF JoinedTo, Into
<1>5. \A y \in Sold(g, roots) : \E r \in roots : y \in Sold(g, {r})
  BY DEF Sold, Into
<1>6. \A y \in PassesFor(g, roots) : \E r \in roots : y \in PassesFor(g, {r})
  <2>1. \A y \in Into(g, "covers_area", ReachedFrom(g, roots)) :
           \E r \in roots : y \in Into(g, "covers_area", ReachedFrom(g, {r}))
    BY <1>3 DEF Into
  <2>2. \A y \in Into(g, "covers_domain", JoinedTo(g, roots)) :
           \E r \in roots : y \in Into(g, "covers_domain", JoinedTo(g, {r}))
    BY <1>4 DEF Into
  <2> QED BY <1>5, <2>1, <2>2 DEF PassesFor
<1>7. \A y \in DomainsOf(g, roots) : \E r \in roots : y \in DomainsOf(g, {r})
  BY <1>4, <1>6 DEF DomainsOf, Out
<1>8. \A y \in AreasOf(g, roots) : \E r \in roots : y \in AreasOf(g, {r})
  <2>1. \A y \in Out(g, "covers_area", PassesFor(g, roots)) :
           \E r \in roots : y \in Out(g, "covers_area", PassesFor(g, {r}))
    BY <1>6 DEF Out
  <2>2. \A y \in Out(g, "contains_area", DomainsOf(g, roots)) :
           \E r \in roots : y \in Out(g, "contains_area", DomainsOf(g, {r}))
    BY <1>7 DEF Out
  <2> QED BY <1>3, <2>1, <2>2 DEF AreasOf
<1>9. \A y \in MarketsOf(g, AreasOf(g, roots)) :
         \E r \in roots : y \in MarketsOf(g, AreasOf(g, {r}))
  <2>1. \A y \in Into(g, "reaches", AreasOf(g, roots)) :
           \E r \in roots : y \in Into(g, "reaches", AreasOf(g, {r}))
    BY <1>8 DEF Into
  <2>2. \A y \in Out(g, "originates_at", Into(g, "reaches", AreasOf(g, roots))) :
           \E r \in roots : y \in Out(g, "originates_at", Into(g, "reaches", AreasOf(g, {r})))
    BY <2>1 DEF Out
  <2> QED BY <2>2, ZenonT(40) DEF MarketsOf, Into
<1>10. \A y \in SoldFrom(g, PassesFor(g, roots)) :
          \E r \in roots : y \in SoldFrom(g, PassesFor(g, {r}))
  BY <1>6 DEF SoldFrom, Out
<1> QED BY <1>1, <1>2, <1>6, <1>7, <1>8, <1>9, <1>10 DEF Scope

\* Everything the closure of destinations holds is of a kind that is searched for.
LEMMA ScopeKinds ==
  ASSUME NEW g \in Graphs, NEW roots, \A r \in roots : KindOf[r] = "stay_destination",
         NEW x \in Scope(g, roots)
  PROVE  KindOf[x] \in Kinds
<1>1. ASSUME NEW t \in DOMAIN Ends, NEW X, NEW y \in Out(g, t, X) \cup Into(g, t, X)
      PROVE  KindOf[y] \in Kinds
  <2>1. Ends[t][1] \in Kinds /\ Ends[t][2] \in Kinds
    BY DEF Ends, Kinds
  <2>2. PICK e \in g.edges : e[1] = t /\ (y = e[2] \/ y = e[3])
    BY DEF Out, Into
  <2>3. KindOf[e[2]] = Ends[t][1] /\ KindOf[e[3]] = Ends[t][2]
    BY <2>2, DiscoveryAssumption
  <2> QED BY <2>1, <2>2, <2>3
<1>2. /\ {"contains_base", "originates_at", "reaches", "contains_area"} \subseteq DOMAIN Ends
      /\ {"available_from", "default_for", "covers_area", "covers_domain"}
            \subseteq DOMAIN Ends
  BY DEF Ends
<1>3. \/ x \in roots
      \/ \E t \in DOMAIN Ends : \E X : x \in Out(g, t, X) \cup Into(g, t, X)
  BY <1>2 DEF Scope, MarketsOf, SoldFrom, BasesOf, AccessOf, AreasOf, DomainsOf, PassesFor,
     Sold, ReachedFrom, JoinedTo
<1> QED BY <1>1, <1>3 DEF Kinds

LEMMA ShownIsSearched ==
  ASSUME NEW rep, NEW g \in Graphs, FinalValid(rep, g)
  PROVE  Scope(g, rep.focus) \subseteq UNION {Covered(rep, root) : root \in rep.focus}
<1> SUFFICES ASSUME NEW x \in Scope(g, rep.focus)
             PROVE  \E root \in rep.focus : x \in Covered(rep, root)
  OBVIOUS
<1>1. /\ Discovered(rep, g, FALSE) /\ ReportValid(rep, FALSE)
      /\ rep.status = "complete"
  BY DEF FinalValid, Discovered
<1>2. /\ DOMAIN rep.rows = rep.focus \X Kinds
      /\ Unfinished(rep) = {}
      /\ \A root \in rep.focus : CoversScope(rep, g, root)
      /\ \A root \in rep.focus : KindOf[root] = "stay_destination"
  BY <1>1 DEF ReportValid, DiscoveryContract, FullySearched, Discovered, OfKind
<1>3. PICK root \in rep.focus : x \in Scope(g, {root})
  BY ScopeOfOne
<1>4. KindOf[x] \in Kinds
  BY <1>2, <1>3, ScopeKinds
<1> DEFINE k == <<root, KindOf[x]>>
<1>5. k \in Searched(rep, root) \ Unfinished(rep) /\ k[2] = KindOf[x]
  BY <1>2, <1>4 DEF Searched
<1>6. x \in OfKind(Scope(g, {root}), k[2])
  BY <1>3, <1>5 DEF OfKind
<1>7. x \in Targets(rep, k)
  BY <1>2, <1>5, <1>6 DEF CoversScope
<1>8. x \in Covered(rep, root)
  BY <1>5, <1>7 DEF Covered
<1> QED BY <1>8

-----------------------------------------------------------------------------
(* What the report joins to a root the catalog joins. *)

LEMMA LinksAreMaterial ==
  ASSUME NEW rep, NEW g, FinalValid(rep, g), NEW root \in rep.focus,
         NEW l \in OwnLinks(rep, root),
         ~ Deferred(rep.seen[l.from]), ~ Deferred(rep.seen[l.to])
  PROVE  Joined(rep, g, {l.from}, {l.to})
<1>1. l \in rep.links /\ Discovered(rep, g, FALSE)
  BY DEF OwnLinks, FinalValid
<1>2. Materialised(rep, g, l)
  BY <1>1 DEF Discovered
<1>3. ~ RegionalContext(rep, g, l)
  <2>1. Deferred(rep.seen[l.from]) = Deferred(rep.seen[l.to])
    BY DEF Deferred
  <2> QED BY <2>1 DEF RegionalContext
<1>4. PICK e \in rep.seen[l.from].targets, f \in rep.seen[l.to].targets :
         <<l.type, e, f>> \in g.edges
  BY <1>2, <1>3 DEF Materialised
<1> QED BY <1>4 DEF Joined

LEMMA ReportedIsJoined ==
  ASSUME NEW rep, NEW g, FinalValid(rep, g), NEW root \in rep.focus,
         NEW S \in SUBSET (Candidates(rep, root) \ Naming(rep, root)),
         S \cap Blocking(rep, root) # {}
  PROVE  Joined(rep, g, S, Candidates(rep, root) \ S)
<1> DEFINE B == S \cap Blocking(rep, root)
           all == Naming(rep, root) \cup Blocking(rep, root)
           pairs == {{l.from, l.to} : l \in OwnLinks(rep, root)}
<1>1. Connected(rep, root)
  BY DEF FinalValid, Discovered
<1>2. B \in SUBSET (all \ Naming(rep, root)) /\ B # {}
  OBVIOUS
<1>3. \E pair \in pairs : pair \cap B # {} /\ pair \cap (all \ B) # {}
  BY <1>1, <1>2 DEF Connected
<1>4. PICK l \in OwnLinks(rep, root) :
         {l.from, l.to} \cap B # {} /\ {l.from, l.to} \cap (all \ B) # {}
  BY <1>3
<1>5. ASSUME NEW c \in all PROVE ~ Deferred(rep.seen[c])
  BY <1>5 DEF Naming, Blocking, Deferred
<1>6. all \ B \subseteq Candidates(rep, root) \ S /\ B \subseteq S
  BY DEF Naming, Blocking
<1>7. l.from \in all /\ l.to \in all
  BY <1>2, <1>4
<1>8. Joined(rep, g, {l.from}, {l.to})
  BY <1>5, <1>7, LinksAreMaterial
<1>9. CASE l.from \in B /\ l.to \in all \ B
  BY <1>6, <1>8, <1>9 DEF Joined
<1>10. CASE l.to \in B /\ l.from \in all \ B
  BY <1>6, <1>8, <1>10 DEF Joined
<1> QED BY <1>4, <1>9, <1>10

-----------------------------------------------------------------------------
(* A change is in the closure of the destinations it belongs to. *)

LEMMA BelongsIsShown ==
  ASSUME NEW g, NEW roots, NEW e, KindOf[e] \in Kinds, NEW d \in roots,
         d \in Destinations(g, e)
  PROVE  e \in Scope(g, roots)
<1>1. CASE KindOf[e] = "stay_destination"
  BY <1>1 DEF Destinations, Scope
<1>2. CASE KindOf[e] = "stay_base"
  <2>1. d \in Into(g, "contains_base", {e})
    BY <1>2 DEF Destinations
  <2>2. e \in BasesOf(g, roots)
    BY <2>1 DEF Into, Out, BasesOf
  <2> QED BY <2>2 DEF Scope
<1>3. CASE KindOf[e] = "ski_area_access"
  <2>1. d \in Into(g, "contains_base", Out(g, "originates_at", {e}))
    BY <1>3 DEF Destinations
  <2>2. PICK b \in Out(g, "originates_at", {e}) : b \in BasesOf(g, roots)
    BY <2>1 DEF Into, Out, BasesOf
  <2>3. e \in AccessOf(g, roots)
    BY <2>2 DEF Into, Out, AccessOf
  <2> QED BY <2>3 DEF Scope
<1>4. ASSUME NEW areas, d \in MarketsOf(g, areas)
      PROVE  \E a \in areas : a \in ReachedFrom(g, roots)
  <2>1. PICK b \in Out(g, "originates_at", Into(g, "reaches", areas)) : b \in BasesOf(g, roots)
    BY <1>4 DEF MarketsOf, Into, Out, BasesOf
  <2>2. PICK x \in Into(g, "reaches", areas) : x \in AccessOf(g, roots)
    BY <2>1 DEF Into, Out, AccessOf
  <2> QED BY <2>2 DEF Into, Out, ReachedFrom
<1>5. CASE KindOf[e] = "ski_area"
  <2>1. d \in MarketsOf(g, {e})
    BY <1>5 DEF Destinations
  <2>2. e \in ReachedFrom(g, roots)
    BY <1>4, <2>1
  <2> QED BY <2>2 DEF Scope, AreasOf
<1>6. ASSUME NEW passes, d \in SoldFrom(g, passes)
      PROVE  \E p \in passes : p \in PassesFor(g, roots)
  BY <1>6 DEF SoldFrom, Sold, PassesFor, Into, Out
<1>7. CASE KindOf[e] = "terrain_domain"
  <2>1. d \in MarketsOf(g, Out(g, "contains_area", {e}))
                \cup SoldFrom(g, Into(g, "covers_domain", {e}))
    BY <1>7 DEF Destinations
  <2>2. CASE d \in MarketsOf(g, Out(g, "contains_area", {e}))
    <3>1. PICK a \in Out(g, "contains_area", {e}) : a \in ReachedFrom(g, roots)
      BY <1>4, <2>2
    <3>2. e \in JoinedTo(g, roots)
      BY <3>1 DEF JoinedTo, Into, Out
    <3> QED BY <3>2 DEF Scope, DomainsOf
  <2>3. CASE d \in SoldFrom(g, Into(g, "covers_domain", {e}))
    <3>1. PICK p \in Into(g, "covers_domain", {e}) : p \in PassesFor(g, roots)
      BY <1>6, <2>3
    <3>2. e \in Out(g, "covers_domain", PassesFor(g, roots))
      BY <3>1 DEF Into, Out
    <3> QED BY <3>2 DEF Scope, DomainsOf
  <2> QED BY <2>1, <2>2, <2>3
<1>8. CASE KindOf[e] = "lift_pass_product"
  <2>1. d \in SoldFrom(g, {e})
    BY <1>8 DEF Destinations
  <2>2. e \in PassesFor(g, roots)
    BY <1>6, <2>1
  <2> QED BY <2>2 DEF Scope
<1> QED BY <1>1, <1>2, <1>3, <1>5, <1>7, <1>8 DEF Kinds

LEMMA ChangedIsShown ==
  ASSUME NEW rep, NEW g, FinalValid(rep, g), NEW e \in Changed(MainGraph, g),
         KindOf[e] \in Kinds, Destinations(g, e) # {}
  PROVE  e \in Scope(g, rep.focus)
<1>1. /\ rep.changes = Changed(MainGraph, g) /\ rep.changes \subseteq rep.reviewed
      /\ RequiredRoots(rep, g) \subseteq rep.focus
  BY DEF FinalValid, Reconciled, ResultingGraph, ReportValid
<1>2. CASE e \in OfKind(Scope(g, rep.focus), "terrain_domain")
  BY <1>2 DEF OfKind
<1>3. CASE e \notin OfKind(Scope(g, rep.focus), "terrain_domain")
  <2>1. PICK d : d \in Destinations(g, e)
    OBVIOUS
  <2>2. d \in RequiredRoots(rep, g)
    BY <1>1, <1>3, <2>1 DEF RequiredRoots
  <2> QED BY <1>1, <2>1, <2>2, BelongsIsShown
<1> QED BY <1>2, <1>3

-----------------------------------------------------------------------------

\* What the checkpoints of a generation have accepted keeps what was established, and a
\* final report and the catalog agree on the graph around its roots, for any catalogs
\* and any reports that are tried (catalog_curation.py, handle_checkpoint_curation).
THEOREM DiscoveryHolds == DiscoverySpec => []DiscoverySafe
<1>1. DiscoveryInit => DiscoveryInv
  BY DEF DiscoveryInit, DiscoveryInv, IsFinal
<1>2. DiscoveryInv => DiscoverySafe
  <2> SUFFICES ASSUME DiscoveryInv PROVE DiscoverySafe
    OBVIOUS
  <2>1. EstablishedKept
    BY DEF DiscoveryInv, EstablishedKept
  <2>2. graph \in Graphs /\ (IsFinal => FinalValid(accepted, graph))
    BY DEF DiscoveryInv
  <2>3. NothingShownUnsearched
    BY <2>2, ShownIsSearched DEF NothingShownUnsearched
  <2>4. NothingProspectiveIsFinal
    BY <2>2, ReportedIsJoined DEF NothingProspectiveIsFinal
  <2>5. ChangesAreShown
    BY <2>2, ChangedIsShown DEF ChangesAreShown
  <2> QED BY <2>1, <2>3, <2>4, <2>5 DEF DiscoverySafe
<1> QED BY <1>1, <1>2, DiscoveryNextInv, PTL DEF DiscoverySpec

-----------------------------------------------------------------------------
(* The events of a generation's document.  A pass over them is a recursion *)
(* along the sequence, so the first lemmas show what one event adds to it; *)
(* the least position at which something is wrong takes the place of an    *)
(* induction.                                                              *)

Below == {pair \in Nat \X Nat : pair[1] < pair[2]}

\* Every set of naturals that is not empty has a least member.
LEMMA LeastOf ==
  ASSUME NEW S, S \subseteq Nat, S # {}
  PROVE  \E m \in S : \A n \in S : m <= n
<1>1. IsWellFoundedOn(Below, Nat)
  BY NatLessThanWellFounded, Zenon DEF OpToRel, Below
<1>2. PICK m \in S : \A n \in S : <<n, m>> \notin Below
  BY <1>1, WFMin, Zenon
<1>3. ASSUME NEW n \in S PROVE m <= n
  <2>1. n \in Nat /\ m \in Nat OBVIOUS
  <2>2. ~(n < m) BY <1>2, <2>1 DEF Below
  <2> QED BY <2>1, <2>2
<1> QED BY <1>3

\* Two passes run over the events, one for what they come to and one for whether they
\* may follow each other.
Pass == {"shown", "scan"}
First(w, h) == IF w = "shown" THEN Blank(h) ELSE Unscanned
Further(w, s, e) == IF w = "shown" THEN Apply(s, e) ELSE Scan(s, e)

\* f holds what the pass w has after each of the first k events
Passes(w, f, log, k) ==
    f = [n \in 1..k |-> IF n = 1 THEN First(w, log[1].head)
                                 ELSE Further(w, f[n - 1], log[n])]

\* The pass has a result for every log: otherwise there is a least prefix without one.
LEMMA PassesExist ==
  ASSUME NEW w, NEW log, NEW k \in Nat
  PROVE  \E f : Passes(w, f, log, k)
<1> DEFINE S == {m \in Nat : ~ \E f : Passes(w, f, log, m)}
<1> SUFFICES ASSUME S # {} PROVE FALSE
  OBVIOUS
<1> HIDE DEF S
<1>1. PICK m \in S : \A n \in S : m <= n
  BY LeastOf DEF S
<1>2. CASE m = 0
  <2>1. Passes(w, [n \in 1..0 |-> 0], log, 0)
    BY DEF Passes
  <2> QED BY <1>2, <2>1 DEF S
<1>3. CASE m > 0
  <2>1. m \in Nat /\ m - 1 \in Nat /\ m - 1 \notin S
    BY <1>1, <1>3 DEF S
  <2>2. PICK f : Passes(w, f, log, m - 1)
    BY <2>1 DEF S
  <2> DEFINE g == [n \in 1..m |-> IF n = m THEN IF m = 1 THEN First(w, log[1].head)
                                                 ELSE Further(w, f[m - 1], log[m])
                                   ELSE f[n]]
  <2>3. ASSUME NEW n \in 1..m
        PROVE  g[n] = IF n = 1 THEN First(w, log[1].head) ELSE Further(w, g[n - 1], log[n])
    <3>1. CASE n = m /\ m = 1
      BY <2>1, <3>1
    <3>2. CASE n = m /\ m # 1
      <4>1. n - 1 \in 1..m /\ n - 1 # m
        BY <2>1, <3>2
      <4> QED BY <3>2, <4>1
    <3>3. CASE n # m
      <4>1. n \in 1..(m - 1) /\ g[n] = f[n]
        BY <2>1, <3>3
      <4>2. f[n] = IF n = 1 THEN First(w, log[1].head) ELSE Further(w, f[n - 1], log[n])
        BY <2>2, <4>1 DEF Passes
      <4>3. n # 1 => n - 1 \in 1..m /\ n - 1 # m
        BY <2>1, <3>3
      <4> QED BY <4>1, <4>2, <4>3
    <3> QED BY <3>1, <3>2, <3>3
  <2>4. Passes(w, g, log, m)
    BY <2>3 DEF Passes
  <2> QED BY <2>1, <2>4 DEF S
<1> QED BY <1>1, <1>2, <1>3 DEF S

\* Where two logs have the same events a pass has the same results.
LEMMA PassesAgree ==
  ASSUME NEW w, NEW log, NEW longer, NEW k \in Nat, NEW l \in Nat, k <= l,
         \A n \in 1..k : log[n] = longer[n],
         NEW f, Passes(w, f, log, k), NEW g, Passes(w, g, longer, l),
         NEW n \in 1..k
  PROVE  f[n] = g[n]
<1> DEFINE S == {i \in 1..k : f[i] # g[i]}
<1> SUFFICES ASSUME S # {} PROVE FALSE
  OBVIOUS
<1> HIDE DEF S
<1>0. S \subseteq Nat
  BY DEF S
<1>1. PICK m \in S : \A i \in S : m <= i
  BY <1>0, LeastOf
<1>2. m \in 1..k /\ m \in 1..l /\ f[m] # g[m]
  BY DEF S
<1>3. /\ f[m] = IF m = 1 THEN First(w, log[1].head) ELSE Further(w, f[m - 1], log[m])
      /\ g[m] = IF m = 1 THEN First(w, longer[1].head) ELSE Further(w, g[m - 1], longer[m])
  BY <1>2 DEF Passes
<1>4. CASE m = 1
  BY <1>2, <1>3, <1>4
<1>5. CASE m # 1
  <2>1. m - 1 \in 1..k /\ m - 1 \notin S
    BY <1>1, <1>2, <1>5 DEF S
  <2>2. f[m - 1] = g[m - 1]
    BY <2>1 DEF S
  <2> QED BY <1>2, <1>3, <1>5, <2>2
<1> QED BY <1>4, <1>5

\* One more event is one more step of the pass.
LEMMA PassAppends ==
  ASSUME NEW w, NEW S, NEW log \in Seq(S), log # <<>>, NEW e \in S,
         NEW f, Passes(w, f, log, Len(log)),
         NEW g, Passes(w, g, Append(log, e), Len(log) + 1)
  PROVE  g[Len(log) + 1] = Further(w, f[Len(log)], e)
<1> DEFINE longer == Append(log, e)
           k == Len(log)
<1>1. /\ k \in Nat /\ k > 0 /\ k + 1 \in Nat
      /\ \A n \in 1..k : log[n] = longer[n]
      /\ longer[k + 1] = e
  OBVIOUS
<1>2. Passes(w, f, log, k) /\ Passes(w, g, longer, k + 1)
  OBVIOUS
<1> HIDE DEF longer, k
<1>3. f[k] = g[k]
  BY <1>1, <1>2, PassesAgree
<1>4. g[k + 1] = Further(w, g[k], e)
  BY <1>1, <1>2 DEF Passes
<1> QED BY <1>3, <1>4 DEF k

Projects(f, log) ==
    f = [n \in 1..Len(log) |-> IF n = 1 THEN Blank(log[1].head) ELSE Apply(f[n - 1], log[n])]
Scans(f, log) ==
    f = [n \in 1..Len(log) |-> IF n = 1 THEN Unscanned ELSE Scan(f[n - 1], log[n])]

LEMMA Projected ==
  ASSUME NEW log, Len(log) \in Nat
  PROVE  \E f : Passes("shown", f, log, Len(log)) /\ Project(log) = f[Len(log)]
<1>1. \E f : Projects(f, log)
  <2>1. PICK f : Passes("shown", f, log, Len(log))
    BY PassesExist
  <2> QED BY <2>1 DEF Passes, Projects, First, Further
<1> DEFINE f == CHOOSE g : Projects(g, log)
<1>2. Projects(f, log)
  BY <1>1, Zenon
<1>3. Project(log) = f[Len(log)]
  BY DEF Project, Projects
<1> HIDE DEF f
<1>4. Passes("shown", f, log, Len(log))
  BY <1>2 DEF Passes, Projects, First, Further
<1> QED BY <1>3, <1>4

LEMMA WasScanned ==
  ASSUME NEW log, Len(log) \in Nat
  PROVE  \E f : Passes("scan", f, log, Len(log)) /\ Scanned(log) = f[Len(log)]
<1>1. \E f : Scans(f, log)
  <2>1. PICK f : Passes("scan", f, log, Len(log))
    BY PassesExist
  <2> QED BY <2>1 DEF Passes, Scans, First, Further
<1> DEFINE f == CHOOSE g : Scans(g, log)
<1>2. Scans(f, log)
  BY <1>1, Zenon
<1>3. Scanned(log) = f[Len(log)]
  BY DEF Scanned, Scans
<1> HIDE DEF f
<1>4. Passes("scan", f, log, Len(log))
  BY <1>2 DEF Passes, Scans, First, Further
<1> QED BY <1>3, <1>4

LEMMA AppendsOne ==
  ASSUME NEW S, NEW log \in Seq(S), log # <<>>, NEW e \in S
  PROVE  /\ Project(Append(log, e)) = Apply(Project(log), e)
         /\ Scanned(Append(log, e)) = Scan(Scanned(log), e)
<1>1. /\ Len(log) \in Nat /\ Len(Append(log, e)) = Len(log) + 1
      /\ Len(Append(log, e)) \in Nat
  OBVIOUS
<1>2. Project(Append(log, e)) = Apply(Project(log), e)
  <2>1. PICK f : Passes("shown", f, log, Len(log)) /\ Project(log) = f[Len(log)]
    BY <1>1, Projected
  <2>2. PICK g : /\ Passes("shown", g, Append(log, e), Len(log) + 1)
                 /\ Project(Append(log, e)) = g[Len(log) + 1]
    BY <1>1, Projected
  <2> QED BY <2>1, <2>2, PassAppends DEF Further
<1>3. Scanned(Append(log, e)) = Scan(Scanned(log), e)
  <2>1. PICK f : Passes("scan", f, log, Len(log)) /\ Scanned(log) = f[Len(log)]
    BY <1>1, WasScanned
  <2>2. PICK g : /\ Passes("scan", g, Append(log, e), Len(log) + 1)
                 /\ Scanned(Append(log, e)) = g[Len(log) + 1]
    BY <1>1, WasScanned
  <2> QED BY <2>1, <2>2, PassAppends DEF Further
<1> QED BY <1>2, <1>3

LEMMA BeginsBlank ==
  ASSUME NEW e
  PROVE  Project(<<e>>) = Blank(e.head) /\ Scanned(<<e>>) = Unscanned
<1>1. Len(<<e>>) = 1 /\ <<e>>[1] = e
  OBVIOUS
<1>2. PICK f : Passes("shown", f, <<e>>, 1) /\ Project(<<e>>) = f[1]
  BY <1>1, Projected
<1>3. PICK g : Passes("scan", g, <<e>>, 1) /\ Scanned(<<e>>) = g[1]
  BY <1>1, WasScanned
<1> QED BY <1>1, <1>2, <1>3 DEF Passes, First

\* What a document may come to.
CheckpointKinds == {"discovery", "delta", "reviewed"}
Opens == {NothingOpen}
           \cup [kind : {"discovery"}, head : Heads, discovery : Outcome]
           \cup [kind : {"delta", "reviewed"}, head : Heads, discovery : {"none"}]
OpenStages == {"prepared", "validation-failed", "fully-validated"} \cup CheckpointKinds
Projections ==
    [stage : OpenStages \cup LogEnded, discovery : Outcome \cup {"none"}, head : Heads,
     open : Opens, checkpoint : CheckpointKinds \cup {"none"}, reviewed : Heads \cup {NoLogHead},
     validated : Heads \cup {NoLogHead}, classified : BOOLEAN]
LogEvents ==
    [kind : {"prepared", "started", "completed", "failed", "passed", "closed"},
     stage : OpenStages \cup LogEnded \cup {"none"}, head : Heads \cup {NoLogHead},
     discovery : Outcome \cup {"none"}]

\* what is under way was accepted, and each stage still has what its next action needs
ProjectionKept(p) ==
    /\ p \in Projections
    /\ p.open # NothingOpen => /\ MayCheckpoint(p, p.open.kind, p.open.head)
    /\ {p.reviewed, p.validated} \subseteq {p.head, NoLogHead}
    /\ p.stage \in {"delta", "reviewed", "validation-failed", "fully-validated"} => Ready(p)
    /\ p.stage = "discovery" => p.discovery \in Outcome /\ p.checkpoint = "discovery"
    /\ p.stage = "reviewed" => p.reviewed = p.head
    /\ p.stage = "fully-validated" => p.validated = p.head

\* the other pass remembers that a document was closed
ScanKept(s, p) ==
    \E o, d, r, c, v :
        /\ s = [open |-> o, done |-> d, reviewed |-> r, closed |-> c, valid |-> v]
        /\ p.stage \in LogEnded => c = TRUE

LogInv ==
    /\ number \in Nat /\ logged \in Seq(LogEvents)
    /\ number > 0 => /\ logged # <<>>
                     /\ ProjectionKept(Project(logged))
                     /\ ScanKept(Scanned(logged), Project(logged))

\* One more event.
LEMMA ProjectionMoves ==
  ASSUME NEW p, ProjectionKept(p), p.stage \notin LogEnded
  PROVE  /\ \A h \in Heads, what \in CheckpointKinds :
               \A d \in IF what = "discovery" THEN Outcome ELSE {"none"} :
                  p.open = NothingOpen /\ MayCheckpoint(p, what, h) =>
                      ProjectionKept(Apply(p, Event("started", what, h, d)))
         /\ p.open # NothingOpen =>
               ProjectionKept(Apply(p, Event("completed", p.open.kind, p.open.head, "none")))
         /\ p.open = NothingOpen /\ MayValidate(p, p.head) =>
               \A what \in {"failed", "passed"} :
                   ProjectionKept(Apply(p, Event(what, "none", p.head, "none")))
         /\ \A what \in LogEnded :
               ProjectionKept(Apply(p, Event("closed", what, NoLogHead, "none")))
<1> USE DEF ProjectionKept
<1>1. ASSUME NEW h \in Heads, NEW what \in CheckpointKinds,
             NEW d \in IF what = "discovery" THEN Outcome ELSE {"none"},
             p.open = NothingOpen, MayCheckpoint(p, what, h)
      PROVE  ProjectionKept(Apply(p, Event("started", what, h, d)))
  <2> DEFINE o == [kind |-> what, head |-> h, discovery |-> d]
             q == [p EXCEPT !.open = o]
  <2>1. Apply(p, Event("started", what, h, d)) = q
    BY DEF Apply, Event
  <2>2. o \in Opens /\ o.kind = what /\ o.head = h
    BY DEF Opens, CheckpointKinds
  <2> HIDE DEF o
  <2>3. q \in Projections
    BY <2>2 DEF Projections
  <2>4. /\ q.open = o /\ q.stage = p.stage /\ q.head = p.head /\ q.discovery = p.discovery
        /\ q.reviewed = p.reviewed /\ q.validated = p.validated
        /\ q.checkpoint = p.checkpoint
    BY DEF Projections
  <2>5. MayCheckpoint(q, what, h)
    BY <1>1, <2>2, <2>4 DEF MayCheckpoint, Ready
  <2> HIDE DEF q
  <2> QED BY <2>1, <2>2, <2>3, <2>4, <2>5 DEF Ready
<1>2. ASSUME p.open # NothingOpen
      PROVE  ProjectionKept(Apply(p, Event("completed", p.open.kind, p.open.head, "none")))
  <2> DEFINE q == Completed(p)
  <2>1. Apply(p, Event("completed", p.open.kind, p.open.head, "none")) = q
    BY DEF Apply, Event
  <2>2. /\ p.open.kind \in CheckpointKinds /\ p.open.head \in Heads /\ p.open \in Opens
        /\ p.open.kind = "discovery" => p.open.discovery \in Outcome
    BY <1>2 DEF Projections, Opens, CheckpointKinds
  <2>3. NothingOpen \in Opens
    BY DEF Opens
  <2>4. q \in Projections
    <3>1. PICK k \in CheckpointKinds, h \in Heads : k = p.open.kind /\ h = p.open.head
      BY <2>2
    <3>2. PICK d \in Outcome \cup {"none"}, r \in Heads \cup {NoLogHead} :
            /\ d = IF p.open.kind = "discovery" THEN p.open.discovery ELSE p.discovery
            /\ r = IF p.open.kind = "reviewed" THEN p.open.head ELSE NoLogHead
      BY <2>2 DEF Projections
    <3>3. q = [p EXCEPT !.stage = k, !.head = h, !.open = NothingOpen, !.checkpoint = k,
                        !.validated = NoLogHead, !.classified = FALSE, !.discovery = d,
                        !.reviewed = r]
      BY <3>1, <3>2 DEF Completed
    <3> HIDE DEF q
    <3> QED BY <2>3, <3>3 DEF Projections, OpenStages
  <2>5. /\ q.open = NothingOpen /\ q.stage = p.open.kind /\ q.head = p.open.head
        /\ q.discovery = IF p.open.kind = "discovery" THEN p.open.discovery ELSE p.discovery
        /\ q.reviewed = IF p.open.kind = "reviewed" THEN p.open.head ELSE NoLogHead
        /\ q.validated = NoLogHead /\ q.checkpoint = p.open.kind
    BY DEF Projections, Completed
  <2>6. MayCheckpoint(p, p.open.kind, p.open.head)
    BY <1>2
  <2> HIDE DEF q
  <2> QED BY <2>1, <2>2, <2>4, <2>5, <2>6 DEF Ready, MayCheckpoint, CheckpointKinds
<1>3. ASSUME p.open = NothingOpen, MayValidate(p, p.head), NEW what \in {"failed", "passed"}
      PROVE  ProjectionKept(Apply(p, Event(what, "none", p.head, "none")))
  <2> DEFINE q == Apply(p, Event(what, "none", p.head, "none"))
  <2>1. q = IF what = "failed"
              THEN [p EXCEPT !.stage = "validation-failed", !.validated = NoLogHead,
                             !.classified = TRUE]
              ELSE [p EXCEPT !.stage = "fully-validated", !.validated = p.head,
                             !.classified = FALSE]
    BY DEF Apply, Event
  <2>2. q \in Projections
    BY <2>1, ZenonT(40) DEF Projections, OpenStages
  <2>3. /\ q.open = NothingOpen /\ q.head = p.head /\ q.discovery = p.discovery
        /\ q.reviewed = p.reviewed
        /\ q.stage = IF what = "failed" THEN "validation-failed" ELSE "fully-validated"
        /\ q.validated = IF what = "failed" THEN NoLogHead ELSE p.head
    BY <1>3, <2>1 DEF Projections
  <2>4. Ready(q)
    BY <1>3, <2>3 DEF MayValidate, Ready
  <2>5. ProjectionKept(q)
    <3> HIDE DEF q
    <3> QED BY <2>2, <2>3, <2>4
  <2> QED BY <2>5
<1>4. ASSUME NEW what \in LogEnded
      PROVE  ProjectionKept(Apply(p, Event("closed", what, NoLogHead, "none")))
  <2> DEFINE q == Apply(p, Event("closed", what, NoLogHead, "none"))
  <2>1. q = [p EXCEPT !.stage = what, !.open = NothingOpen,
                      !.checkpoint = "none", !.reviewed = NoLogHead,
                      !.validated = NoLogHead, !.classified = FALSE]
    BY DEF Apply, Event
  <2>2. NothingOpen \in Opens
    BY DEF Opens
  <2>3. q \in Projections
    BY <2>1, <2>2 DEF Projections
  <2>4. /\ q.open = NothingOpen /\ q.stage = what /\ q.reviewed = NoLogHead
        /\ q.validated = NoLogHead
    BY <2>1 DEF Projections
  <2>5. ProjectionKept(q)
    <3> HIDE DEF q
    <3> QED BY <2>3, <2>4 DEF LogEnded
  <2> QED BY <2>5
<1> QED BY <1>1, <1>2, <1>3, <1>4

\* A valid document has not been closed before its last event.
LEMMA ScanMoves ==
  ASSUME NEW p, NEW s, ScanKept(s, p), NEW e \in LogEvents, e.kind # "prepared",
         Scan(s, e).valid,
         NEW q, q.stage \in LogEnded <=> e.kind = "closed"
  PROVE  p.stage \notin LogEnded /\ ScanKept(Scan(s, e), q)
<1>1. PICK o, d, r, c, v :
        /\ s = [open |-> o, done |-> d, reviewed |-> r, closed |-> c, valid |-> v]
        /\ p.stage \in LogEnded => c = TRUE
  BY DEF ScanKept
<1>2. \E o2, d2, r2, v2 :
        Scan(s, e) = [open |-> o2, done |-> d2, reviewed |-> r2,
                      closed |-> IF e.kind = "closed" THEN TRUE ELSE c,
                      valid |-> v2]
  BY <1>1 DEF Scan, LogEvents
<1>3. ~ s.closed
  BY <1>1 DEF Scan, LogEvents
<1>4. p.stage \notin LogEnded
  BY <1>1, <1>3
<1>5. ScanKept(Scan(s, e), q)
  BY <1>2 DEF ScanKept
<1> QED BY <1>4, <1>5

\* What appending one event does, if the handler was right to append it.
View(p) == [stage |-> p.stage, discovery |-> p.discovery, head |-> p.head, open |-> p.open]

Views == [stage : OpenStages \cup LogEnded, discovery : Outcome \cup {"none"}, head : Heads,
          open : Opens]

LEMMA ViewIsRead ==
  ASSUME NEW p \in Projections
  PROVE  /\ View(p) \in Views
         /\ View(p).stage = p.stage /\ View(p).discovery = p.discovery
         /\ View(p).head = p.head /\ View(p).open = p.open
BY DEF View, Views, Projections

\* Two views that agree in every field are one.
LEMMA ViewsAgree ==
  ASSUME NEW d \in Views, NEW e \in Views,
         d.stage = e.stage, d.discovery = e.discovery, d.head = e.head, d.open = e.open
  PROVE  d = e
BY DEF Views

LEMMA ShownIsView ==
  ASSUME number > 0
  PROVE  Shown = View(Project(logged))
BY DEF Shown, View

LEMMA LoadedIsAll ==
  ASSUME LogInv, NEW c, read[c] = Latest
  PROVE  Loaded(c) = logged
BY SubSeqFull DEF LogInv, Loaded, Latest

LEMMA AppendKeeps ==
  ASSUME LogInv, number > 0, number' = number, NEW c, NEW e \in LogEvents,
         e.kind # "prepared", AppendEvent(c, e)
  PROVE  /\ Project(logged') = Apply(Project(logged), e)
         /\ Project(logged).stage \notin LogEnded
         /\ Loaded(c) = logged
         /\ ProjectionKept(Project(logged')) /\
               (Project(logged').stage \in LogEnded <=> e.kind = "closed") => LogInv'
<1>1. /\ logged' = Append(logged, e) /\ Valid(logged') /\ read[c] = Latest
      /\ logged \in Seq(LogEvents) /\ logged # <<>>
  BY DEF AppendEvent, LogInv
<1>2. logged' \in Seq(LogEvents) /\ logged' # <<>>
  BY <1>1
<1>3. /\ Project(logged') = Apply(Project(logged), e)
      /\ Scanned(logged') = Scan(Scanned(logged), e)
  BY <1>1, AppendsOne
<1>4. Scan(Scanned(logged), e).valid
  BY <1>1, <1>3 DEF Valid
<1>5. Project(logged).stage \notin LogEnded
  <2>1. PICK q : q.stage = IF e.kind = "closed" THEN "consumed" ELSE "prepared"
    <3>1. \A x : [stage |-> x].stage = x
      OBVIOUS
    <3> QED BY <3>1
  <2>2. q.stage \in LogEnded <=> e.kind = "closed"
    BY <2>1 DEF LogEnded
  <2> QED BY <1>4, <2>2, ScanMoves DEF LogInv
<1>6. ASSUME ProjectionKept(Project(logged')),
             Project(logged').stage \in LogEnded <=> e.kind = "closed"
      PROVE  LogInv'
  <2>1. ScanKept(Scanned(logged'), Project(logged'))
    BY <1>3, <1>4, <1>6, ScanMoves DEF LogInv
  <2> QED BY <1>2, <1>6, <2>1 DEF LogInv
<1> QED BY <1>1, <1>3, <1>5, <1>6, LoadedIsAll

LEMMA WritesKeep ==
  ASSUME LogInv, NEW c \in Writers, Write(c)
  PROVE  LogInv' /\ Promised!Step(Shown, Shown')
<1> DEFINE p == Project(logged)
           q == Project(logged')
<1>1. number > 0 /\ number' = number
  BY DEF Write, HeldClaim
<1>2. ProjectionKept(p) /\ p \in Projections
  BY <1>1 DEF LogInv, ProjectionKept
<1>3. Shown = View(p) /\ Shown' = View(q)
  BY <1>1, ShownIsView DEF Shown, View
<1>4. CASE StartCheckpoint(c)
  <2>1. PICK h \in Heads, what \in CheckpointKinds :
          \E d \in IF what = "discovery" THEN Outcome ELSE {"none"} :
             /\ Project(Loaded(c)).open = NothingOpen
             /\ MayCheckpoint(Project(Loaded(c)), what, h)
             /\ AppendEvent(c, Event("started", what, h, d))
    BY <1>4 DEF StartCheckpoint, CheckpointKinds
  <2>2. PICK d \in IF what = "discovery" THEN Outcome ELSE {"none"} :
             /\ Project(Loaded(c)).open = NothingOpen
             /\ MayCheckpoint(Project(Loaded(c)), what, h)
             /\ AppendEvent(c, Event("started", what, h, d))
    BY <2>1
  <2> DEFINE e == Event("started", what, h, d)
  <2>3. e \in LogEvents /\ e.kind = "started"
    BY DEF Event, LogEvents, CheckpointKinds, OpenStages
  <2>4. /\ q = Apply(p, e) /\ p.stage \notin LogEnded
        /\ p.open = NothingOpen /\ MayCheckpoint(p, what, h)
        /\ ProjectionKept(q) /\ (q.stage \in LogEnded <=> e.kind = "closed") => LogInv'
    BY <1>1, <2>2, <2>3, AppendKeeps
  <2>5. ProjectionKept(q)
    BY <1>2, <2>4, ProjectionMoves
  <2> DEFINE o == [kind |-> what, head |-> h, discovery |-> d]
  <2>6. q = [p EXCEPT !.open = o]
    BY <2>4 DEF Apply, Event
  <2>7. q.stage = p.stage /\ q.open = o /\ q.head = p.head /\ q.discovery = p.discovery
    BY <1>2, <2>6 DEF Projections
  <2>8. Promised!Start(View(p), View(q))
    BY <2>2, <2>4, <2>7 DEF Promised!Start, View, Promised!Live, Promised!NoTransaction,
       NothingOpen, MayCheckpoint, CheckpointKinds, Outcome, Promised!Outcomes
  <2>9. LogInv'
    BY <2>3, <2>4, <2>5, <2>7
  <2> QED BY <1>3, <2>8, <2>9 DEF Promised!Step
<1>5. CASE CompleteCheckpoint(c)
  <2> DEFINE r == Project(Loaded(c))
             e == Event("completed", r.open.kind, r.open.head, "none")
  <2>1. r.open # NothingOpen /\ AppendEvent(c, e)
    BY <1>5 DEF CompleteCheckpoint
  <2>2. Loaded(c) = logged
    BY <2>1, LoadedIsAll DEF AppendEvent
  <2>3. e \in LogEvents /\ e.kind = "completed"
    BY <1>2, <2>1, <2>2 DEF Event, LogEvents, Projections, Opens, OpenStages, CheckpointKinds
  <2>4. /\ q = Apply(p, e) /\ p.stage \notin LogEnded
        /\ ProjectionKept(q) /\ (q.stage \in LogEnded <=> e.kind = "closed") => LogInv'
    BY <1>1, <2>1, <2>3, AppendKeeps
  <2>5. ProjectionKept(q)
    BY <1>2, <2>1, <2>2, <2>4, ProjectionMoves
  <2>6. q = Completed(p)
    BY <2>4 DEF Apply, Event
  <2>7. /\ q.open = NothingOpen /\ q.stage = p.open.kind /\ q.head = p.open.head
        /\ q.discovery = IF p.open.kind = "discovery" THEN p.open.discovery ELSE p.discovery
    BY <1>2, <2>6 DEF Projections, Completed
  <2>8. Promised!Complete(View(p), View(q))
    <3> DEFINE d == IF p.open.kind = "discovery" THEN p.open.discovery ELSE p.discovery
               f == [View(p) EXCEPT !.stage = p.open.kind, !.head = p.open.head,
                                    !.discovery = d, !.open = NothingOpen]
    <3>1. /\ q \in Projections /\ View(p) \in Views /\ View(q) \in Views
          /\ View(q).stage = p.open.kind /\ View(q).discovery = d
          /\ View(q).head = p.open.head /\ View(q).open = NothingOpen
          /\ View(p).open = p.open /\ View(p).discovery = p.discovery
      BY <1>2, <2>5, <2>7, ViewIsRead DEF ProjectionKept
    <3>2. /\ f \in Views /\ f.stage = p.open.kind /\ f.discovery = d
          /\ f.head = p.open.head /\ f.open = NothingOpen
      <4>1. p.open.kind \in OpenStages /\ p.open.head \in Heads /\ NothingOpen \in Opens
        BY <1>2, <2>1, <2>2 DEF Projections, Opens, OpenStages, CheckpointKinds
      <4>2. d \in Outcome \cup {"none"}
        BY <1>2, <2>1, <2>2 DEF Projections, Opens
      <4> HIDE DEF d
      <4> QED BY <3>1, <4>1, <4>2 DEF Views
    <3>3. View(q) = f
      <4> HIDE DEF f, d
      <4> QED BY <3>1, <3>2, ViewsAgree
    <3> HIDE DEF p, q, r
    <3> QED BY <2>1, <2>2, <3>1, <3>3 DEF p, r, Promised!Complete, Promised!NoTransaction,
               NothingOpen
  <2>9. q.stage \notin LogEnded
    BY <1>2, <2>1, <2>2, <2>7 DEF Projections, Opens, LogEnded
  <2>10. LogInv'
    BY <2>3, <2>4, <2>5, <2>9
  <2> QED BY <1>3, <2>8, <2>10 DEF Promised!Step
<1>6. CASE RecordVerdict(c)
  <2>1. PICK what \in {"failed", "passed"} :
          /\ Project(Loaded(c)).open = NothingOpen
          /\ MayValidate(Project(Loaded(c)), Project(Loaded(c)).head)
          /\ AppendEvent(c, Event(what, "none", Project(Loaded(c)).head, "none"))
    BY <1>6 DEF RecordVerdict
  <2>2. Loaded(c) = logged
    BY <2>1, LoadedIsAll DEF AppendEvent
  <2> DEFINE e == Event(what, "none", p.head, "none")
  <2>3. e \in LogEvents /\ e.kind = what
    BY <1>2 DEF Event, LogEvents, Projections
  <2>4. /\ q = Apply(p, e) /\ p.stage \notin LogEnded
        /\ ProjectionKept(q) /\ (q.stage \in LogEnded <=> e.kind = "closed") => LogInv'
    BY <1>1, <2>1, <2>2, <2>3, AppendKeeps
  <2>5. ProjectionKept(q)
    BY <1>2, <2>1, <2>2, <2>4, ProjectionMoves
  <2>6. q = IF what = "failed"
              THEN [p EXCEPT !.stage = "validation-failed", !.validated = NoLogHead,
                             !.classified = TRUE]
              ELSE [p EXCEPT !.stage = "fully-validated", !.validated = p.head,
                             !.classified = FALSE]
    BY <2>4 DEF Apply, Event
  <2>7. /\ q.open = p.open /\ q.head = p.head /\ q.discovery = p.discovery
        /\ q.stage = IF what = "failed" THEN "validation-failed" ELSE "fully-validated"
    BY <1>2, <2>6 DEF Projections
  <2>8. Promised!Verdict(View(p), View(q))
    BY <2>1, <2>2, <2>7 DEF Promised!Verdict, View, Promised!NoTransaction, NothingOpen,
       MayValidate
  <2>9. LogInv'
    BY <2>3, <2>4, <2>5, <2>7 DEF LogEnded
  <2> QED BY <1>3, <2>8, <2>9 DEF Promised!Step
<1>7. CASE CloseGeneration(c)
  <2>1. PICK what \in LogEnded : AppendEvent(c, Event("closed", what, NoLogHead, "none"))
    BY <1>7 DEF CloseGeneration
  <2> DEFINE e == Event("closed", what, NoLogHead, "none")
  <2>2. e \in LogEvents /\ e.kind = "closed"
    BY DEF Event, LogEvents
  <2>3. /\ q = Apply(p, e) /\ p.stage \notin LogEnded
        /\ ProjectionKept(q) /\ (q.stage \in LogEnded <=> e.kind = "closed") => LogInv'
    BY <1>1, <2>1, <2>2, AppendKeeps
  <2>4. ProjectionKept(q)
    BY <1>2, <2>3, ProjectionMoves
  <2>5. q = [p EXCEPT !.stage = what, !.open = NothingOpen,
                      !.checkpoint = "none", !.reviewed = NoLogHead,
                      !.validated = NoLogHead, !.classified = FALSE]
    BY <2>3 DEF Apply, Event
  <2>6. q.open = NothingOpen /\ q.head = p.head /\ q.discovery = p.discovery /\ q.stage = what
    BY <1>2, <2>5 DEF Projections
  <2>7. Promised!Close(View(p), View(q))
    <3>1. p.stage \in Promised!Live /\ what \in Promised!Over
      BY <1>2, <2>3 DEF Promised!Live, Promised!Over, LogEnded, Projections, OpenStages, CheckpointKinds
    <3> DEFINE f == [View(p) EXCEPT !.stage = what, !.open = NothingOpen]
    <3>2. /\ q \in Projections /\ View(p) \in Views /\ View(q) \in Views
          /\ View(q).stage = what /\ View(q).discovery = View(p).discovery
          /\ View(q).head = View(p).head /\ View(q).open = NothingOpen
          /\ View(p).stage = p.stage
      BY <1>2, <2>4, <2>6, ViewIsRead DEF ProjectionKept
    <3>3. /\ f \in Views /\ f.stage = what /\ f.discovery = View(p).discovery
          /\ f.head = View(p).head /\ f.open = NothingOpen
      BY <3>2 DEF Views, Opens
    <3>4. View(q) = f
      <4> HIDE DEF f
      <4> QED BY <3>2, <3>3, ViewsAgree
    <3> HIDE DEF p, q
    <3> QED BY <3>1, <3>2, <3>4 DEF Promised!Close, Promised!NoTransaction, NothingOpen
  <2>8. LogInv'
    BY <2>2, <2>3, <2>4, <2>6
  <2> QED BY <1>3, <2>7, <2>8 DEF Promised!Step
<1> QED BY <1>4, <1>5, <1>6, <1>7 DEF Write

LEMMA DocumentBegins ==
  ASSUME LogInv, NEW c \in Writers, StartDocument(c)
  PROVE  LogInv' /\ Promised!Step(Shown, Shown')
<1>1. PICK h \in Heads : logged' = <<PreparedEvent(h)>>
  BY DEF StartDocument
<1> DEFINE e == PreparedEvent(h)
<1>2. e \in LogEvents /\ e.head = h
  BY DEF PreparedEvent, Event, LogEvents, OpenStages
<1>3. number' \in Nat /\ number' > 0
  BY DEF StartDocument, LogInv
<1>4. Project(logged') = Blank(h) /\ Scanned(logged') = Unscanned
  BY <1>1, <1>2, BeginsBlank
<1>5. ProjectionKept(Blank(h))
  BY DEF ProjectionKept, Blank, Projections, OpenStages, Opens, LogEnded
<1>6. ScanKept(Unscanned, Blank(h))
  BY DEF ScanKept, Unscanned, Blank, LogEnded
<1>7. logged' \in Seq(LogEvents) /\ logged' # <<>>
  BY <1>1, <1>2
<1>8. LogInv'
  BY <1>3, <1>4, <1>5, <1>6, <1>7 DEF LogInv
<1>9. Shown' = Promised!Prepared(h)
  <2> DEFINE f == Promised!Prepared(h)
  <2>1. /\ f \in Views /\ f.stage = "prepared" /\ f.discovery = "none"
        /\ f.head = h /\ f.open = NothingOpen
    BY DEF Promised!Prepared, Promised!Nothing, Promised!NoTransaction, NothingOpen, Views,
       OpenStages, Opens
  <2>2. Blank(h) \in Projections
    BY <1>5 DEF ProjectionKept
  <2>3. /\ View(Blank(h)).stage = "prepared" /\ View(Blank(h)).discovery = "none"
        /\ View(Blank(h)).head = h /\ View(Blank(h)).open = NothingOpen
    BY DEF View, Blank
  <2>4. Shown' = View(Blank(h))
    BY <1>3, <1>4 DEF Shown, View
  <2> HIDE DEF f
  <2>5. Shown' = f
    BY <2>1, <2>2, <2>3, <2>4, ViewIsRead, ViewsAgree
  <2> QED BY <2>5 DEF f
<1>10. Shown.stage \in Promised!Over \cup {"absent"}
  <2>1. CASE number > 0
    BY <2>1 DEF StartDocument, Shown, LogEnded, Promised!Over
  <2>2. CASE ~ (number > 0)
    BY <2>2 DEF LogInv, Shown
  <2> QED BY <2>1, <2>2
<1>11. Promised!Prepare(Shown, Shown')
  BY <1>9, <1>10 DEF Promised!Prepare
<1> QED BY <1>8, <1>11 DEF Promised!Step

LEMMA LogMoves ==
  ASSUME LogInv, [LogNext]_logVars
  PROVE  LogInv' /\ (Promised!Step(Shown, Shown') \/ UNCHANGED Shown)
<1>1. CASE \E c \in Writers : Load(c) \/ UNCHANGED logVars
  BY <1>1 DEF Load, logVars, LogInv, Shown
<1>2. CASE UNCHANGED logVars
  BY <1>2 DEF logVars, LogInv, Shown
<1> QED BY <1>1, <1>2, WritesKeep, DocumentBegins DEF LogNext

LEMMA LogAlways == LogSpec => []LogInv
<1>1. LogInit => LogInv
  BY DEF LogInit, LogInv
<1> QED BY <1>1, LogMoves, PTL DEF LogSpec

\* However the commands that append to one document overlap, what is projected from its
\* events moves as a generation promises (append_event, project_generation).
THEOREM LogKeepsLifecycle == LogSpec => LogImplementsLifecycle
<1>1. LogInit => Shown = Promised!Nothing
  BY DEF LogInit, Shown, Promised!Nothing, NothingOpen, Promised!NoTransaction
<1> QED BY <1>1, LogAlways, LogMoves, PTL DEF LogSpec, LogImplementsLifecycle,
           Promised!Lifecycle

\* Whatever a document came to, its handler accepts what it offers next.
LEMMA OfferIsAccepted ==
  ASSUME NEW p, ProjectionKept(p), p.stage \notin LogEnded
  PROVE  Accepts(p, IF Offer(p) = "prepare" THEN OfferPrepared(p) ELSE Offer(p))
<1>1. p \in Projections
  BY DEF ProjectionKept
<1>2. PICK h \in Heads : h # p.head
  BY <1>1, LogAssumption DEF Projections
<1>3. CASE p.open # NothingOpen
  <2>1. p.open.kind \in CheckpointKinds /\ p.open.head \in Heads
    BY <1>1, <1>3 DEF Projections, Opens, CheckpointKinds
  <2>2. Offer(p) = p.open.kind
    BY <1>3 DEF Offer
  <2> QED BY <1>3, <2>1, <2>2 DEF ProjectionKept, Accepts, CheckpointKinds
<1>4. CASE p.open = NothingOpen
  <2>1. CASE p.stage = "prepared"
    BY <1>1, <1>2, <1>4, <2>1 DEF Offer, Accepts, MayCheckpoint, Projections
  <2>2. CASE p.stage = "discovery"
    BY <1>1, <1>2, <1>4, <2>2 DEF Offer, OfferPrepared, Accepts, MayCheckpoint, MayGiveUp,
       Ready, Projections, ProjectionKept, Outcome
  <2>3. CASE p.stage = "delta"
    BY <1>1, <1>4, <2>3 DEF Offer, Accepts, MayCheckpoint, Ready, Projections,
       ProjectionKept
  <2>4. CASE p.stage = "validation-failed"
    BY <1>1, <1>2, <1>4, <2>4 DEF Offer, OfferPrepared, Accepts, MayCheckpoint,
       Ready, Projections, ProjectionKept
  <2>5. CASE p.stage = "reviewed"
    BY <1>1, <1>4, <2>5 DEF Offer, Accepts, MayValidate, Projections, ProjectionKept
  <2>6. CASE p.stage = "fully-validated"
    BY <1>1, <1>4, <2>6 DEF Offer, Accepts, MayPublish, Projections, ProjectionKept
  <2> QED BY <1>1, <2>1, <2>2, <2>3, <2>4, <2>5, <2>6 DEF Projections, OpenStages, CheckpointKinds
<1> QED BY <1>3, <1>4

\* What a document offers next its handler accepts, and what is offered for validation
\* or publication is the head of the latest checkpoint (project_generation,
\* handle_checkpoint_curation).
THEOREM OffersAlwaysLeadOn == LogSpec => []OffersLeadOn
<1>1. LogInv => OffersLeadOn
  <2> SUFFICES ASSUME LogInv, number > 0
               PROVE  OffersLeadOn
    BY DEF OffersLeadOn
  <2>1. ProjectionKept(Project(logged))
    BY DEF LogInv
  <2> QED BY <2>1, OfferIsAccepted DEF OffersLeadOn, ProjectionKept
<1> QED BY <1>1, LogAlways, PTL
===============================================================================
