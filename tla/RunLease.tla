------------------------------ MODULE RunLease ------------------------------
(***************************************************************************)
(* The lease of the local catalog maintainer (ops/maintainer/runtime.py).  *)
(*                                                                         *)
(* Every maintainer command is a short-lived process.  `lock acquire'      *)
(* mints a run ID and writes it into run.lock/owner.json; the commands of  *)
(* that run name it in every later call.  All transitions take an flock on *)
(* run.transition.lock (the mutex), which the kernel drops when a process  *)
(* dies, so a crash can leave the lock directory in any state between two  *)
(* file-system calls but never leaves the mutex held.                      *)
(*                                                                         *)
(* A process reads the clock before it waits for the mutex, and compares   *)
(* that reading with the owner record once it has it.                      *)
(***************************************************************************)
EXTENDS Naturals

CONSTANTS Proc,        \* command processes that can be alive at once
          Run,         \* run IDs uuid4 can mint
          NoProc,      \* mutex value: not held
          NoRun,       \* owner value: no readable owner record
          StaleAfter,  \* lease age at which a takeover is allowed
          MaxTime      \* bound on the clock

ASSUME LeaseAssumption == /\ NoProc \notin Proc
                          /\ NoRun \notin Run
                          /\ StaleAfter \in Nat \ {0}
                          /\ MaxTime \in Nat

VARIABLES now,       \* wall clock
          mutex,     \* holder of the flock on run.transition.lock
          lock,      \* the directory run.lock and its owner.json
          archived,  \* owners preserved in run.lock.stale-* directories
          leftover,  \* owners in run.lock.releasing-* directories
          known,     \* run IDs that `lock acquire' has returned to a caller
          task,      \* what each process is doing
          grantNo,   \* history: position of each run in the order of grants
          grants,    \* history: number of grants
          lastWrite, \* history: grantNo of the last guarded state change
          writer     \* history: run of the last guarded state change

vars == <<now, mutex, lock, archived, leftover, known, task, grantNo, grants,
          lastWrite, writer>>

lockVars == <<lock, archived, leftover, known, grantNo, grants>>
writeVars == <<lastWrite, writer>>

Op == {"none", "acquire", "heartbeat", "release", "mutate"}
Stage == {"idle", "wait", "in", "made", "granted", "renamed", "checked"}

NoLock == [present |-> FALSE, owner |-> NoRun, heartbeat |-> 0, mtime |-> 0]
Idle == [op |-> "none", run |-> NoRun, at |-> 0, stage |-> "idle"]

Lock == [present : BOOLEAN, owner : Run \cup {NoRun}, heartbeat : Nat, mtime : Nat]
Task == [op : Op, run : Run \cup {NoRun}, at : Nat, stage : Stage]

\* The types of the variables: the lock directory, the processes at work on it
\* and the history of the grants.
TypeOK == /\ now \in Nat
          /\ mutex \in Proc \cup {NoProc}
          /\ lock \in Lock
          /\ archived \subseteq Run
          /\ leftover \subseteq Run
          /\ known \subseteq Run
          /\ task \in [Proc -> Task]
          /\ grantNo \in [Run -> Nat]
          /\ grants \in Nat
          /\ lastWrite \in Nat
          /\ writer \in Run \cup {NoRun}

Init == /\ now = 0
        /\ mutex = NoProc
        /\ lock = NoLock
        /\ archived = {}
        /\ leftover = {}
        /\ known = {}
        /\ task = [p \in Proc |-> Idle]
        /\ grantNo = [r \in Run |-> 0]
        /\ grants = 0
        /\ lastWrite = 0
        /\ writer = NoRun

-----------------------------------------------------------------------------
(* Reading the lock directory.                                             *)

\* load_owner / assert_owner succeed for run r
OwnedBy(r) == lock.present /\ lock.owner = r /\ r # NoRun

\* the heartbeat, or the directory's mtime when owner.json is missing
LastSeen == IF lock.owner # NoRun THEN lock.heartbeat ELSE lock.mtime

\* observed_at - heartbeat_at < stale_after
Fresh(at) == at < LastSeen + StaleAfter

-----------------------------------------------------------------------------
(* Entering and leaving a command.                                         *)

StartAcquire(p) ==
    /\ task[p] = Idle
    /\ task' = [task EXCEPT ![p] = [op |-> "acquire", run |-> NoRun, at |-> now,
                                    stage |-> "wait"]]
    /\ UNCHANGED <<now, mutex, lockVars, writeVars>>

StartOwned(p) ==
    /\ task[p] = Idle
    /\ \E r \in known, op \in {"heartbeat", "release", "mutate"} :
          task' = [task EXCEPT ![p] = [op |-> op, run |-> r, at |-> now,
                                       stage |-> "wait"]]
    /\ UNCHANGED <<now, mutex, lockVars, writeVars>>

EnterMutex(p) ==
    /\ task[p].stage = "wait"
    /\ mutex = NoProc
    /\ mutex' = p
    /\ task' = [task EXCEPT ![p].stage = "in"]
    /\ UNCHANGED <<now, lockVars, writeVars>>

In(p, op) == /\ mutex = p
             /\ task[p].op = op
             /\ task[p].stage = "in"

Finish(p) == /\ mutex' = NoProc
             /\ task' = [task EXCEPT ![p] = Idle]

AtStage(p, s) == task' = [task EXCEPT ![p].stage = s]

-----------------------------------------------------------------------------
(* RunLease.acquire                                                        *)

AcquireMkdir(p) ==
    /\ In(p, "acquire")
    /\ ~lock.present
    /\ lock' = [NoLock EXCEPT !.present = TRUE, !.mtime = now]
    /\ AtStage(p, "made")
    /\ UNCHANGED <<now, mutex, archived, leftover, known, grantNo, grants, writeVars>>

\* Mutant: an acquisition that finds a fresh lease waits and tries again.
AcquireBusyRetries(p) ==
    /\ In(p, "acquire")
    /\ lock.present
    /\ Fresh(task[p].at)
    /\ mutex' = NoProc
    /\ AtStage(p, "wait")
    /\ UNCHANGED <<now, lockVars, writeVars>>

AcquireBusy(p) ==
    /\ In(p, "acquire")
    /\ lock.present
    /\ Fresh(task[p].at)
    /\ Finish(p)
    /\ UNCHANGED <<now, lockVars, writeVars>>

\* Mutants: a takeover that does not look at the heartbeat, and one that records
\* an unreadable owner too.
TakeoverIgnoresHeartbeat(p) ==
    /\ In(p, "acquire")
    /\ lock.present
    /\ lock' = NoLock
    /\ archived' = archived \cup ({lock.owner} \ {NoRun})
    /\ UNCHANGED <<now, mutex, task, leftover, known, grantNo, grants, writeVars>>

TakeoverArchivesUnreadable(p) ==
    /\ In(p, "acquire")
    /\ lock.present
    /\ ~Fresh(task[p].at)
    /\ lock' = NoLock
    /\ archived' = archived \cup {lock.owner}
    /\ UNCHANGED <<now, mutex, task, leftover, known, grantNo, grants, writeVars>>

AcquireTakeover(p) ==
    /\ In(p, "acquire")
    /\ lock.present
    /\ ~Fresh(task[p].at)
    /\ lock' = NoLock
    /\ archived' = archived \cup ({lock.owner} \ {NoRun})
    /\ UNCHANGED <<now, mutex, task, leftover, known, grantNo, grants, writeVars>>

\* Mutant: a run ID that can be minted again.
MintsUsedRun(p) ==
    /\ mutex = p
    /\ task[p].stage = "made"
    /\ \E r \in Run :
          /\ lock' = [present |-> TRUE, owner |-> r, heartbeat |-> task[p].at,
                      mtime |-> now]
          /\ task' = [task EXCEPT ![p].run = r, ![p].stage = "granted"]
          /\ grantNo' = [grantNo EXCEPT ![r] = grants + 1]
    /\ grants' = grants + 1
    /\ UNCHANGED <<now, mutex, archived, leftover, known, writeVars>>

AcquireWriteOwner(p) ==
    /\ mutex = p
    /\ task[p].stage = "made"
    /\ \E r \in Run :
          /\ grantNo[r] = 0
          /\ lock' = [present |-> TRUE, owner |-> r, heartbeat |-> task[p].at,
                      mtime |-> now]
          /\ task' = [task EXCEPT ![p].run = r, ![p].stage = "granted"]
          /\ grantNo' = [grantNo EXCEPT ![r] = grants + 1]
    /\ grants' = grants + 1
    /\ UNCHANGED <<now, mutex, archived, leftover, known, writeVars>>

AcquireReturn(p) ==
    /\ mutex = p
    /\ task[p].stage = "granted"
    /\ known' = known \cup {task[p].run}
    /\ Finish(p)
    /\ UNCHANGED <<now, lock, archived, leftover, grantNo, grants, writeVars>>

\* mkdir, or the rename that sets a stale lock aside, raised
AcquireError(p) ==
    /\ In(p, "acquire")
    /\ ~(lock.present /\ Fresh(task[p].at))
    /\ Finish(p)
    /\ UNCHANGED <<now, lockVars, writeVars>>

\* writing or syncing owner.json raised: the directory is removed again, or
\* the removal raises too, before or after it has deleted the owner record
AcquireFail(p) ==
    /\ mutex = p
    /\ task[p].stage \in {"made", "granted"}
    /\ lock' \in {NoLock, [NoLock EXCEPT !.present = TRUE, !.mtime = now], lock}
    /\ Finish(p)
    /\ UNCHANGED <<now, archived, leftover, known, grantNo, grants, writeVars>>

-----------------------------------------------------------------------------
(* RunLease.heartbeat                                                      *)

\* Mutant: a heartbeat that checked its ownership before it had the mutex.
HeartbeatWritesBack(p) ==
    /\ In(p, "heartbeat")
    /\ lock.present
    /\ task[p].at >= lock.heartbeat
    /\ lock' = [lock EXCEPT !.owner = task[p].run, !.heartbeat = task[p].at,
                            !.mtime = now]
    /\ Finish(p)
    /\ UNCHANGED <<now, archived, leftover, known, grantNo, grants, writeVars>>

HeartbeatWrite(p) ==
    /\ In(p, "heartbeat")
    /\ OwnedBy(task[p].run)
    /\ task[p].at >= lock.heartbeat
    /\ lock' = [lock EXCEPT !.heartbeat = task[p].at, !.mtime = now]
    /\ Finish(p)
    /\ UNCHANGED <<now, archived, leftover, known, grantNo, grants, writeVars>>

HeartbeatReject(p) ==
    /\ In(p, "heartbeat")
    /\ ~OwnedBy(task[p].run) \/ task[p].at < lock.heartbeat
    /\ Finish(p)
    /\ UNCHANGED <<now, lockVars, writeVars>>

-----------------------------------------------------------------------------
(* RunLease.release: rename the directory away, then delete it             *)

ReleaseRename(p) ==
    /\ In(p, "release")
    /\ OwnedBy(task[p].run)
    /\ lock' = NoLock
    /\ leftover' = leftover \cup {task[p].run}
    /\ AtStage(p, "renamed")
    /\ UNCHANGED <<now, mutex, archived, known, grantNo, grants, writeVars>>

ReleaseDelete(p) ==
    /\ mutex = p
    /\ task[p].stage = "renamed"
    /\ leftover' \in {leftover \ {task[p].run}, leftover}  \* unlink or rmdir raised
    /\ Finish(p)
    /\ UNCHANGED <<now, lock, archived, known, grantNo, grants, writeVars>>

ReleaseReject(p) ==
    /\ In(p, "release")
    /\ ~OwnedBy(task[p].run)
    /\ Finish(p)
    /\ UNCHANGED <<now, lockVars, writeVars>>

-----------------------------------------------------------------------------
(* A guarded change of maintainer state: StateStore.guard_push_mutation    *)
(* and the save_* operations check the owner and change the state while    *)
(* they hold the mutex.                                                    *)

\* Mutant: a change of state whose owner was checked before the mutex was held.
MutateUnchecked(p) ==
    /\ In(p, "mutate")
    /\ AtStage(p, "checked")
    /\ UNCHANGED <<now, mutex, lockVars, writeVars>>

MutateCheck(p) ==
    /\ In(p, "mutate")
    /\ OwnedBy(task[p].run)
    /\ AtStage(p, "checked")
    /\ UNCHANGED <<now, mutex, lockVars, writeVars>>

MutateWrite(p) ==
    /\ mutex = p
    /\ task[p].stage = "checked"
    /\ lastWrite' = grantNo[task[p].run]
    /\ writer' = task[p].run
    /\ Finish(p)
    /\ UNCHANGED <<now, lockVars>>

MutateReject(p) ==
    /\ In(p, "mutate")
    /\ ~OwnedBy(task[p].run)
    /\ Finish(p)
    /\ UNCHANGED <<now, lockVars, writeVars>>

-----------------------------------------------------------------------------
\* the process is killed; the kernel releases its flock
Crash(p) ==
    /\ task[p] # Idle
    /\ task' = [task EXCEPT ![p] = Idle]
    /\ mutex' = IF mutex = p THEN NoProc ELSE mutex
    /\ UNCHANGED <<now, lockVars, writeVars>>

Tick == /\ now < MaxTime
        /\ now' = now + 1
        /\ UNCHANGED <<mutex, lockVars, task, writeVars>>

StartCommand(p) == StartAcquire(p) \/ StartOwned(p)

Acquire(p) == \/ AcquireMkdir(p) \/ AcquireBusy(p) \/ AcquireTakeover(p)
              \/ AcquireWriteOwner(p) \/ AcquireReturn(p)
              \/ AcquireError(p) \/ AcquireFail(p)
Heartbeat(p) == HeartbeatWrite(p) \/ HeartbeatReject(p)
Release(p) == ReleaseRename(p) \/ ReleaseDelete(p) \/ ReleaseReject(p)
Mutate(p) == MutateCheck(p) \/ MutateWrite(p) \/ MutateReject(p)

\* the steps of a process that holds the mutex
Work(p) == Acquire(p) \/ Heartbeat(p) \/ Release(p) \/ Mutate(p)

Next == \/ \E p \in Proc : StartCommand(p) \/ EnterMutex(p) \/ Work(p) \/ Crash(p)
        \/ Tick

Spec == Init /\ [][Next]_vars

\* a process that holds the mutex runs on until it is done or killed, and the
\* kernel grants a contended flock to each waiter in turn
FairSpec == /\ Spec
            /\ \A p \in Proc : WF_vars(Work(p)) /\ SF_vars(EnterMutex(p))

-----------------------------------------------------------------------------
(* Properties                                                              *)

\* Guarded state is never changed by a run after a later run has changed it:
\* a worker that was taken over while it slept between its ownership check
\* and its write cannot undo its successor's work.
FencedWrites == [][lastWrite' >= lastWrite]_vars

\* A lease that is still fresh ends only through a release in its own name or
\* through the failure of the acquisition that is creating it; nobody else
\* removes or replaces the owner record.
FreshLeaseKept ==
    [][\A r \in Run :
          (OwnedBy(r) /\ ~OwnedBy(r)') =>
              \/ now >= lock.heartbeat + StaleAfter
              \/ \E p \in Proc : mutex = p /\ task[p].run = r]_vars

\* A run that no longer owns the lock never owns it again.
NoReturn == [][\A r \in Run : (~OwnedBy(r) /\ OwnedBy(r)') => grantNo[r] = 0]_vars

\* The owner record on disk is always the newest grant, and a lease that was
\* taken over or set aside for deletion is never the active one.
OwnerIsNewest == lock.owner # NoRun => /\ grantNo[lock.owner] = grants
                                       /\ lock.owner \notin archived \cup leftover

\* Every command ends, whatever other processes do or leave behind: it never
\* waits for a lease, and a process that died in the middle of an acquisition
\* or a release blocks nobody.
CommandEnds == \A p \in Proc : (task[p] # Idle) ~> (task[p] = Idle)

\* The lock directory implements the abstract fenced lease.
Fenced == INSTANCE FencedLease WITH owner <- lock.owner,
                                    used <- {r \in Run : grantNo[r] > 0}
ImplementsFencedLease == Fenced!Spec
=============================================================================
