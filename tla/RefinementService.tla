-------------------------- MODULE RefinementService --------------------------
(***************************************************************************)
(* POST /search/refinements (app/api/routes.py): admission of a request    *)
(* (refinement_admission.py), the bounded worker pool that evaluates it    *)
(* (refinement_workers.py) and the deadline a request waits to, after      *)
(* which its worker goes on alone.                                         *)
(*                                                                         *)
(* A tick of the clock is the time one token takes to come back.  A request*)
(* reads it before it takes the lock of the guard, so requests on several *)
(* threads may be admitted by readings out of order.  The rest of a call   *)
(* to the guard, and a call to the pool, is one step under its lock.       *)
(* A worker whose future is done has called back before its thread is free.*)
(***************************************************************************)
EXTENDS Integers, FiniteSets

CONSTANTS Requests,      \* requests that may be made, each once
          Clients,       \* keys of clients
          MaxConcurrent, \* requests admitted at a time, and threads of the pool
          Burst,         \* tokens of a fresh bucket
          Retention,     \* ticks after which an idle bucket is forgotten
          MaxClients,    \* buckets kept
          LastTick       \* bound on the clock

ASSUME RefinementAssumption ==
    /\ MaxConcurrent \in Nat \ {0} /\ MaxClients \in Nat \ {0} /\ LastTick \in Nat
    /\ Burst \in Nat \ {0}
    /\ Retention \in Nat /\ Retention >= Burst \* what is forgotten would be full
    /\ IsFiniteSet(Requests)

Unknown == -1 \* no bucket

VARIABLES clock,
          bucket,   \* tokens and time of each tracked client
          active,   \* the guard's count of admitted requests
          request,  \* step of each request, over with whichever response
          readAt,   \* what a request read on the clock before it took the lock
          future,   \* state of the future of each request
          timedOut, \* futures of the pool marked as timed out
          due       \* history: tokens a client is due by the clock

refinementVars == <<clock, bucket, active, request, readAt, future, timedOut, due>>

NoBucket == [tokens |-> 0, at |-> Unknown]

RefinementInit == /\ clock = 0 /\ active = 0 /\ timedOut = {}
                  /\ bucket = [c \in Clients |-> NoBucket]
                  /\ request = [r \in Requests |-> "new"]
                  /\ readAt = [r \in Requests |-> 0]
                  /\ future = [r \in Requests |-> "none"]
                  /\ due = [c \in Clients |-> Burst]

Smaller(a, b) == IF a < b THEN a ELSE b
Running == {r \in Requests : future[r] = "running"}
Queued == {r \in Requests : future[r] = "queued"}

----------------------------------------------------------------------------
(* RefinementAdmissionGuard.acquire. *)

ReadClock(r) ==
    /\ request[r] = "new"
    /\ request' = [request EXCEPT ![r] = "asked"]
    /\ readAt' = [readAt EXCEPT ![r] = clock]
    /\ UNCHANGED <<clock, bucket, active, future, timedOut, due>>

\* _cleanup
Cleaned(now) == [c \in Clients |-> IF now - bucket[c].at >= Retention THEN NoBucket
                                   ELSE bucket[c]]

Tracked(b) == {c \in Clients : b[c].at # Unknown}

\* _evict_if_full: one of the oldest goes
Evictions(b) == IF Cardinality(Tracked(b)) < MaxClients THEN {{}}
                ELSE {{c} : c \in {o \in Tracked(b) :
                                     \A q \in Tracked(b) : b[o].at <= b[q].at}}

\* nothing for a reading older than the bucket's
Refilled(b, now) == IF b.at = Unknown THEN Burst
                    ELSE Smaller(Burst, b.tokens + (IF now > b.at THEN now - b.at ELSE 0))

\* the time the bucket is left with is the one read, be it older than the last
Acquire(r, c) ==
    LET now == readAt[r]
        waited == clock - now
        cleaned == Cleaned(now)
        tokens == Refilled(cleaned[c], now)
        granted == tokens >= 1
    IN  /\ request[r] = "asked"
        /\ readAt' = [readAt EXCEPT ![r] = 0]
        /\ IF active >= MaxConcurrent
           THEN /\ request' = [request EXCEPT ![r] = "over"]
                /\ bucket' = cleaned
                /\ UNCHANGED <<active, due>>
           ELSE \E out \in IF cleaned[c].at = Unknown THEN Evictions(cleaned) ELSE {{}} :
                  /\ bucket' = [q \in Clients |->
                                  CASE q = c -> [tokens |-> IF granted THEN tokens - 1 ELSE tokens,
                                                 at |-> now]
                                    [] q # c /\ q \in out -> NoBucket
                                    [] OTHER -> cleaned[q]]
                  /\ request' = [request EXCEPT ![r] = IF granted THEN "admitted" ELSE "over"]
                  /\ active' = IF granted THEN active + 1 ELSE active
                  /\ due' = [q \in Clients |->
                                CASE q = c -> Smaller(Burst, due[q] + waited
                                                               - (IF granted THEN 1 ELSE 0))
                                  [] q # c /\ q \in out -> Burst
                                  [] OTHER -> due[q]]
        /\ UNCHANGED <<clock, future, timedOut>>

\* admission.release, once
Release(r) == /\ active' = IF active = 0 THEN 0 ELSE active - 1
              /\ request' = [request EXCEPT ![r] = "over"]

----------------------------------------------------------------------------
(* RefinementWorkerPool and the route. *)

\* submit: refused while a timed-out worker is still running; the executor may
\* refuse as well
Submit(r) ==
    /\ request[r] = "admitted"
    /\ timedOut' = timedOut \cap Running
    /\ IF timedOut' # {}
       THEN Release(r) /\ UNCHANGED future
       ELSE \/ /\ future' = [future EXCEPT ![r] = "queued"]
               /\ request' = [request EXCEPT ![r] = "waiting"]
               /\ UNCHANGED active
            \/ Release(r) /\ UNCHANGED future
    /\ UNCHANGED <<clock, bucket, readAt, due>>

\* future.result returns or raises, then finally: admission.release
Answer(r) ==
    /\ request[r] = "waiting"
    /\ future[r] = "done"
    /\ Release(r)
    /\ UNCHANGED <<clock, bucket, readAt, future, timedOut, due>>

Deadline(r) ==
    /\ request[r] = "waiting"
    /\ future[r] # "done"
    /\ request' = [request EXCEPT ![r] = "expired"]
    /\ UNCHANGED <<clock, bucket, active, readAt, future, timedOut, due>>

\* Mutant: the worker is forgotten when its request gives up.
MarkNothing(r) ==
    /\ request[r] = "expired"
    /\ request' = [request EXCEPT ![r] = "marked"]
    /\ UNCHANGED <<clock, bucket, active, readAt, future, timedOut, due>>

\* mark_timed_out: a future that has not started is cancelled
MarkTimedOut(r) ==
    /\ request[r] = "expired"
    /\ request' = [request EXCEPT ![r] = "marked"]
    /\ future' = [future EXCEPT ![r] = IF @ = "queued" THEN "done" ELSE @]
    /\ timedOut' = IF future'[r] # "done" THEN timedOut \cup {r} ELSE timedOut
    /\ UNCHANGED <<clock, bucket, active, readAt, due>>

GiveUp(r) ==
    /\ request[r] = "marked"
    /\ Release(r)
    /\ UNCHANGED <<clock, bucket, readAt, future, timedOut, due>>

\* a thread of the executor
StartWorker(r) ==
    /\ future[r] = "queued"
    /\ Cardinality(Running) < MaxConcurrent
    /\ future' = [future EXCEPT ![r] = "running"]
    /\ UNCHANGED <<clock, bucket, active, request, readAt, timedOut, due>>

\* the future is done, and _worker_finished has run
FinishWorker(r) ==
    /\ future[r] = "running"
    /\ future' = [future EXCEPT ![r] = "done"]
    /\ timedOut' = timedOut \ {r}
    /\ UNCHANGED <<clock, bucket, active, request, readAt, due>>

TickRefinement ==
    /\ clock < LastTick
    /\ clock' = clock + 1
    /\ due' = [c \in Clients |-> Smaller(Burst, due[c] + 1)]
    /\ UNCHANGED <<bucket, active, request, readAt, future, timedOut>>

RefinementNext ==
    \/ \E r \in Requests : \/ ReadClock(r) \/ \E c \in Clients : Acquire(r, c)
                           \/ Submit(r) \/ Answer(r) \/ Deadline(r) \/ MarkTimedOut(r)
                           \/ GiveUp(r) \/ StartWorker(r) \/ FinishWorker(r)
    \/ TickRefinement

RefinementSpec == RefinementInit /\ [][RefinementNext]_refinementVars

----------------------------------------------------------------------------
(* An admitted request never waits behind a worker whose request has given  *)
(* up: no more futures are in the pool than it has threads, in whatever     *)
(* order deadlines pass, workers finish and slots are released              *)
(* (refinement_workers.py:27-48, routes.py:204-219).                        *)
NeverQueuesBehindStuck == Cardinality(Running \cup Queued) <= MaxConcurrent

(* A client that is not evicted gets no more than its burst, one request    *)
(* for each tick, and one more for each tick its own requests waited for    *)
(* the lock with a reading of the clock that grows old: though idle buckets *)
(* are forgotten and made anew full, and an old reading sets a bucket's     *)
(* time back so that its seconds count twice (refinement_admission.py:      *)
(* 64-95).  And the guard's count is the number of requests that hold a     *)
(* slot, on every way out (routes.py:191-219).                              *)
WithinRate ==
    /\ \A c \in Clients : due[c] >= 0
    /\ active = Cardinality({r \in Requests :
                               request[r] \in {"admitted", "waiting", "expired", "marked"}})

\* The service keeps its limits (refinement_admission.py, refinement_workers.py).
RefinementSafe == NeverQueuesBehindStuck /\ WithinRate
=============================================================================
