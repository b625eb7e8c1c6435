-------------------------- MODULE ApplicationProofs --------------------------
(***************************************************************************)
(* Proofs about parts of the application, for any number of requests,      *)
(* clients, slots, questions, trips, areas and catalogs: the admission of  *)
(* refinement requests and their workers (RefinementService), the store of *)
(* snapshots their questions come from (RefinementSnapshots), the page's   *)
(* search session (SearchSession) and its view of the trip (TripView), the *)
(* saved trip and its refresh job (TripCompanion), the catalog in the      *)
(* database (CatalogSync), and the jobs that keep the weather: forecast    *)
(* runs and their samples (WeatherForecasts), the archive of past years    *)
(* (WeatherArchive).                                                       *)
(***************************************************************************)
EXTENDS RefinementService, RefinementSnapshots, SearchSession, TripView,
        TripCompanion, CatalogSync, WeatherForecasts, WeatherArchive,
        FiniteSetTheorems, SequenceTheorems, NaturalsInduction, WellFoundedInduction, TLAPS

-----------------------------------------------------------------------------
(* Requests for refinements and their workers.                             *)

Holding == {"admitted", "waiting", "expired", "marked"}
Steps == Holding \cup {"new", "asked", "over"}
Holders == {r \in Requests : request[r] \in Holding}
Pooled == Running \cup Queued

RefinementTypeOK ==
    /\ clock \in Nat
    /\ bucket \in [Clients -> [tokens : 0..Burst, at : {Unknown} \cup Nat]]
    /\ active \in Nat
    /\ request \in [Requests -> Steps]
    /\ readAt \in [Requests -> Nat]
    /\ future \in [Requests -> {"none", "queued", "running", "done"}]
    /\ timedOut \subseteq Requests
    /\ due \in [Clients -> 0..Burst]

\* Whoever still has a future in the pool holds a slot and waits for it, or has
\* been marked; no reading of the clock is ahead of it; and a bucket, had it been
\* filled up by now, holds no more than its client is due.
PoolIsHeld ==
    /\ timedOut \subseteq Running
    /\ \A r \in Requests : future[r] \in {"queued", "running"} =>
          request[r] \in {"waiting", "expired"} \/ r \in timedOut
    /\ \A r \in Requests : request[r] \in {"waiting", "expired"} => future[r] # "none"
BucketsAreDue ==
    \A c \in Clients : /\ bucket[c].at <= clock
                       /\ Refilled(bucket[c], clock) <= due[c]
ReadingsArePast == \A r \in Requests : readAt[r] <= clock

RefinementInv ==
    /\ RefinementTypeOK
    /\ active = Cardinality(Holders)
    /\ active <= MaxConcurrent
    /\ Cardinality(Pooled) <= MaxConcurrent
    /\ PoolIsHeld
    /\ BucketsAreDue
    /\ ReadingsArePast

\* A request that stops holding its slot takes one from the count, one that begins
\* to hold one adds one.
LEMMA HoldersAreFinite ==
  /\ IsFiniteSet(Holders) /\ Cardinality(Holders) \in Nat
  /\ IsFiniteSet(Holders') /\ Cardinality(Holders') \in Nat
<1>1. Holders \subseteq Requests /\ Holders' \subseteq Requests
  BY DEF Holders
<1> QED BY <1>1, RefinementAssumption, FS_Subset, FS_CardinalityType

\* Adding an element that was not there adds one to the cardinality.
LEMMA OneMore ==
  ASSUME NEW S, IsFiniteSet(S), NEW x, x \notin S
  PROVE  Cardinality(S \cup {x}) = Cardinality(S) + 1
BY FS_AddElement

\* Removing an element that was there takes one from it.
LEMMA OneLess ==
  ASSUME NEW S, IsFiniteSet(S), NEW x \in S
  PROVE  Cardinality(S \ {x}) = Cardinality(S) - 1 /\ Cardinality(S) # 0
<1>1. Cardinality(S \ {x}) = Cardinality(S) - 1
  BY FS_RemoveElement
<1>2. S # {}
  OBVIOUS
<1> QED BY <1>1, <1>2, FS_EmptySet

\* A holder that releases its slot leaves one holder less.
LEMMA ReleaseCounts ==
  ASSUME RefinementInv, NEW r \in Requests, request[r] \in Holding,
         Release(r)
  PROVE  /\ active' = Cardinality(Holders') /\ active' \in Nat /\ active' <= MaxConcurrent
         /\ request' \in [Requests -> Steps]
<1>1. request' = [request EXCEPT ![r] = "over"] /\ "over" \in Steps \ Holding
  BY DEF Release, Steps, Holding
<1>2. Holders' = Holders \ {r} /\ r \in Holders
  BY <1>1 DEF Holders, RefinementInv, RefinementTypeOK
<1>3. Cardinality(Holders \ {r}) = Cardinality(Holders) - 1 /\ Cardinality(Holders) # 0
  BY <1>2, HoldersAreFinite, OneLess
<1>4. active' = active - 1 /\ active # 0
  BY <1>3 DEF Release, RefinementInv
<1>5. active' = Cardinality(Holders')
  BY <1>2, <1>3, <1>4 DEF RefinementInv
<1>6. active' \in Nat /\ active' <= MaxConcurrent
  BY <1>4, RefinementAssumption DEF RefinementInv, RefinementTypeOK
<1> QED BY <1>1, <1>5, <1>6 DEF RefinementInv, RefinementTypeOK

\* Moving between two steps that hold the slot keeps the count.
LEMMA StillHeld ==
  ASSUME RefinementInv, NEW r \in Requests, request[r] \in Holding, NEW step \in Holding,
         request' = [request EXCEPT ![r] = step]
  PROVE  Holders' = Holders /\ request' \in [Requests -> Steps]
BY DEF Holders, RefinementInv, RefinementTypeOK, Steps

\* A future that leaves the pool leaves one worker less.
LEMMA PoolShrinks ==
  ASSUME RefinementInv, Pooled' \subseteq Pooled
  PROVE  Cardinality(Pooled') <= MaxConcurrent
<1>1. IsFiniteSet(Pooled)
  <2>1. Pooled \subseteq Requests
    BY DEF Pooled, Running, Queued
  <2> QED BY <2>1, RefinementAssumption, FS_Subset
<1>2. Cardinality(Pooled') <= Cardinality(Pooled)
  BY <1>1, FS_Subset
<1>3. IsFiniteSet(Pooled')
  BY <1>1, FS_Subset
<1> HIDE DEF Pooled
<1> QED BY <1>1, <1>2, <1>3, FS_CardinalityType, RefinementAssumption DEF RefinementInv

\* What a bucket is.
Buckets == [tokens : 0..Burst, at : {Unknown} \cup Nat]

\* Forgetting an idle bucket gives its client nothing, by however old a reading of
\* the clock it is idle: it had filled up.
LEMMA CleanedIsDue ==
  ASSUME RefinementInv, NEW c \in Clients, NEW now \in Nat, now <= clock
  PROVE  /\ Cleaned(now)[c] \in Buckets
         /\ Cleaned(now)[c].at <= clock
         /\ Refilled(Cleaned(now)[c], clock) <= due[c]
<1>1. bucket[c] \in Buckets /\ due[c] \in 0..Burst
      /\ bucket[c].at <= clock /\ Refilled(bucket[c], clock) <= due[c] /\ clock \in Nat
  BY DEF RefinementInv, RefinementTypeOK, BucketsAreDue, Buckets
<1>2. CASE now - bucket[c].at >= Retention
  <2>1. Cleaned(now)[c] = NoBucket
    BY <1>2 DEF Cleaned
  <2>2. due[c] = Burst
    BY <1>1, <1>2, RefinementAssumption DEF Refilled, Smaller, Unknown, Buckets
  <2> QED BY <1>1, <2>1, <2>2, RefinementAssumption DEF NoBucket, Refilled, Unknown, Buckets
<1>3. CASE ~ (now - bucket[c].at >= Retention)
  <2>1. Cleaned(now)[c] = bucket[c]
    BY <1>3 DEF Cleaned
  <2> QED BY <1>1, <2>1
<1> QED BY <1>2, <1>3

\* A bucket filled up by an old reading of the clock and left with its time holds, by
\* now, no more than before and the ticks the reading is old; and one less when a
\* token is taken from it.
LEMMA RefilledLate ==
  ASSUME NEW b \in Buckets, NEW later \in Nat, NEW now \in Nat, now <= later, b.at <= later,
         NEW left \in Buckets, NEW taken \in {0, 1}, taken <= Refilled(b, now),
         left = [tokens |-> Refilled(b, now) - taken, at |-> now]
  PROVE  Refilled(left, later) <= Smaller(Burst, Refilled(b, later) + (later - now) - taken)
<1>1. b.tokens \in 0..Burst /\ b.at \in {-1} \cup Nat /\ Burst \in Nat \ {0}
  BY RefinementAssumption DEF Buckets, Unknown
<1>2. Refilled(left, later) = Smaller(Burst, Refilled(b, now) - taken + (later - now))
  BY <1>1 DEF Refilled, Unknown, Smaller
<1>3. Refilled(b, now) \in 0..Burst /\ Refilled(b, later) \in 0..Burst
      /\ Refilled(b, now) <= Refilled(b, later)
  BY <1>1 DEF Refilled, Unknown, Smaller
<1> HIDE DEF Refilled
<1> QED BY <1>1, <1>2, <1>3 DEF Smaller

\* A request that takes a token takes one its client is due, or is owed for the time
\* the request waited; and one whose bucket is evicted is due a full one.
LEMMA BucketAfter ==
  ASSUME RefinementInv, NEW c \in Clients, NEW out, NEW now \in Nat, now <= clock,
         NEW left, NEW taken \in {0, 1}, taken <= Refilled(Cleaned(now)[c], now),
         left = [tokens |-> Refilled(Cleaned(now)[c], now) - taken, at |-> now],
         clock' = clock,
         bucket' = [q \in Clients |-> IF q = c THEN left
                                      ELSE IF q \in out THEN NoBucket ELSE Cleaned(now)[q]],
         due' = [q \in Clients |-> IF q = c THEN Smaller(Burst, due[q] + (clock - now) - taken)
                                   ELSE IF q \in out THEN Burst ELSE due[q]]
  PROVE  /\ bucket' \in [Clients -> Buckets]
         /\ due' \in [Clients -> 0..Burst]
         /\ BucketsAreDue'
<1>0. Burst \in Nat \ {0} /\ clock \in Nat
  BY RefinementAssumption DEF RefinementInv, RefinementTypeOK
<1>1. ASSUME NEW q \in Clients
      PROVE  /\ bucket'[q] \in Buckets /\ due'[q] \in 0..Burst
             /\ bucket'[q].at <= clock /\ Refilled(bucket'[q], clock) <= due'[q]
  <2>1. due[q] \in 0..Burst
    BY DEF RefinementInv, RefinementTypeOK
  <2>2. Cleaned(now)[q] \in Buckets /\ Cleaned(now)[q].at <= clock
        /\ Refilled(Cleaned(now)[q], clock) <= due[q]
    BY CleanedIsDue
  <2>3. CASE q = c
    <3> PICK b : b = Cleaned(now)[c]
      OBVIOUS
    <3>1. b \in Buckets /\ b.at <= clock /\ Refilled(b, clock) <= due[c]
      BY <2>2, <2>3
    <3>2. bucket'[q] = left /\ left = [tokens |-> Refilled(b, now) - taken, at |-> now]
          /\ due'[q] = Smaller(Burst, due[c] + (clock - now) - taken) /\ taken <= Refilled(b, now)
      BY <2>3
    <3>3. Refilled(b, now) \in 0..Burst /\ Refilled(b, clock) \in 0..Burst
          /\ Refilled(b, now) <= Refilled(b, clock)
      BY <1>0, <3>1 DEF Refilled, Smaller, Buckets, Unknown
    <3>4. left \in Buckets /\ left.at <= clock
      <4> HIDE DEF Refilled
      <4> QED BY <3>2, <3>3, <1>0 DEF Buckets
    <3>5. Refilled(left, clock) <= Smaller(Burst, Refilled(b, clock) + (clock - now) - taken)
      BY <1>0, <3>1, <3>2, <3>4, RefilledLate
    <3>6. due[c] + (clock - now) - taken \in Nat
      <4> HIDE DEF Refilled
      <4> QED BY <1>0, <2>1, <2>3, <3>1, <3>2, <3>3
    <3>7. Refilled(left, clock) \in 0..Burst
      BY <1>0, <3>4 DEF Refilled, Smaller, Buckets, Unknown
    <3> HIDE DEF Refilled
    <3>8. Refilled(left, clock) <= due'[q] /\ due'[q] \in 0..Burst
      BY <1>0, <2>1, <2>3, <3>1, <3>2, <3>3, <3>5, <3>6, <3>7 DEF Smaller
    <3> QED BY <3>2, <3>4, <3>8
  <2>4. CASE q # c /\ q \in out
    <3>1. bucket'[q] = NoBucket /\ due'[q] = Burst
      BY <2>4
    <3> QED BY <1>0, <3>1 DEF NoBucket, Unknown, Buckets, Refilled
  <2>5. CASE q # c /\ q \notin out
    <3>1. bucket'[q] = Cleaned(now)[q] /\ due'[q] = due[q]
      BY <2>5
    <3> QED BY <2>1, <2>2, <3>1
  <2> QED BY <2>3, <2>4, <2>5
<1>2. BucketsAreDue'
  BY <1>1 DEF BucketsAreDue
<1> QED BY <1>1, <1>2

\* A request reads the clock.
LEMMA ReadKeeps ==
  ASSUME RefinementInv, NEW r \in Requests, ReadClock(r)
  PROVE  RefinementInv'
<1>1. /\ request[r] = "new" /\ request' = [request EXCEPT ![r] = "asked"]
      /\ readAt' = [readAt EXCEPT ![r] = clock]
      /\ UNCHANGED <<clock, bucket, active, future, timedOut, due>>
  BY DEF ReadClock
<1>2. Holders' = Holders /\ request' \in [Requests -> Steps]
  BY <1>1 DEF Holders, Holding, Steps, RefinementInv, RefinementTypeOK
<1>3. PoolIsHeld' /\ Pooled' = Pooled
  BY <1>1 DEF PoolIsHeld, Pooled, Running, Queued, RefinementInv, RefinementTypeOK
<1>4. BucketsAreDue' /\ ReadingsArePast' /\ readAt' \in [Requests -> Nat]
  BY <1>1 DEF BucketsAreDue, ReadingsArePast, RefinementInv, RefinementTypeOK
<1> QED BY <1>1, <1>2, <1>3, <1>4 DEF RefinementInv, RefinementTypeOK

\* A request that is admitted or refused pays from its bucket and takes a free slot.
LEMMA AcquireKeeps ==
  ASSUME RefinementInv, NEW r \in Requests, NEW c \in Clients, Acquire(r, c)
  PROVE  RefinementInv'
<1>1. request[r] = "asked" /\ clock' = clock /\ future' = future /\ timedOut' = timedOut
      /\ readAt' = [readAt EXCEPT ![r] = 0]
  BY DEF Acquire
<1>2. PoolIsHeld' /\ Pooled' = Pooled /\ timedOut' \subseteq Requests
  <2>1. \A q \in Requests : request[q] \in {"waiting", "expired"}
                              \/ request'[q] \in {"waiting", "expired"}
                           => request'[q] = request[q]
    BY <1>1 DEF Acquire, RefinementInv, RefinementTypeOK
  <2> QED BY <1>1, <2>1
          DEF PoolIsHeld, Pooled, Running, Queued, RefinementInv, RefinementTypeOK
<1> PICK now : now = readAt[r]
  OBVIOUS
<1>3. now \in Nat /\ now <= clock /\ readAt' \in [Requests -> Nat] /\ ReadingsArePast'
  BY <1>1 DEF RefinementInv, RefinementTypeOK, ReadingsArePast
<1>4. CASE active >= MaxConcurrent
  <2>1. request' = [request EXCEPT ![r] = "over"] /\ bucket' = Cleaned(now)
        /\ active' = active /\ due' = due
    BY <1>4 DEF Acquire
  <2>2. Holders' = Holders /\ request' \in [Requests -> Steps]
    BY <1>1, <2>1 DEF Holders, Holding, Steps, RefinementInv, RefinementTypeOK
  <2>3. \A q \in Clients : /\ Cleaned(now)[q] \in Buckets /\ Cleaned(now)[q].at <= clock
                           /\ Refilled(Cleaned(now)[q], clock) <= due[q]
    BY <1>3, CleanedIsDue
  <2>4. bucket' \in [Clients -> Buckets]
    <3>1. bucket' = [q \in Clients |-> bucket'[q]]
      BY <2>1 DEF Cleaned
    <3> QED BY <2>1, <2>3, <3>1
  <2>5. BucketsAreDue'
    BY <1>1, <2>1, <2>3 DEF BucketsAreDue
  <2> QED BY <1>1, <1>2, <1>3, <2>1, <2>2, <2>4, <2>5
          DEF RefinementInv, RefinementTypeOK, Buckets
<1>5. CASE ~ (active >= MaxConcurrent)
  <2> PICK tokens : tokens = Refilled(Cleaned(now)[c], now)
    OBVIOUS
  <2> PICK taken : taken = IF tokens >= 1 THEN 1 ELSE 0
    OBVIOUS
  <2> PICK left : left = [tokens |-> tokens - taken, at |-> now]
    OBVIOUS
  <2>1. tokens \in 0..Burst
    <3>1. Cleaned(now)[c] \in Buckets
      BY <1>3, CleanedIsDue
    <3>2. Burst \in Nat
      BY RefinementAssumption
    <3> HIDE DEF Cleaned
    <3> QED BY <1>3, <3>1, <3>2 DEF Refilled, Smaller, Buckets, Unknown
  <2>2. PICK out :
          /\ bucket' = [q \in Clients |->
                          CASE q = c -> [tokens |-> IF tokens >= 1 THEN tokens - 1 ELSE tokens,
                                         at |-> now]
                            [] q # c /\ q \in out -> NoBucket
                            [] OTHER -> Cleaned(now)[q]]
          /\ request' = [request EXCEPT ![r] = IF tokens >= 1 THEN "admitted" ELSE "over"]
          /\ active' = IF tokens >= 1 THEN active + 1 ELSE active
          /\ due' = [q \in Clients |->
                       CASE q = c -> Smaller(Burst, due[q] + (clock - now)
                                                      - (IF tokens >= 1 THEN 1 ELSE 0))
                         [] q # c /\ q \in out -> Burst
                         [] OTHER -> due[q]]
    BY <1>5 DEF Acquire
  <2>3. bucket' = [q \in Clients |-> IF q = c THEN left
                                     ELSE IF q \in out THEN NoBucket ELSE Cleaned(now)[q]]
    <3>1. left = [tokens |-> IF tokens >= 1 THEN tokens - 1 ELSE tokens, at |-> now]
      BY <2>1
    <3> HIDE DEF Cleaned
    <3> QED BY <2>2, <3>1
  <2>4. due' = [q \in Clients |-> IF q = c THEN Smaller(Burst, due[q] + (clock - now) - taken)
                                  ELSE IF q \in out THEN Burst ELSE due[q]]
    BY <2>2
  <2>5. /\ bucket' \in [Clients -> Buckets] /\ due' \in [Clients -> 0..Burst] /\ BucketsAreDue'
    <3>1. taken \in {0, 1} /\ taken <= tokens
      BY <2>1
    <3> HIDE DEF Cleaned, Refilled
    <3> QED BY <1>1, <1>3, <2>3, <2>4, <3>1, BucketAfter
  <2>6. CASE ~ (tokens >= 1)
    <3>1. request' = [request EXCEPT ![r] = "over"] /\ active' = active
      BY <2>2, <2>6
    <3>2. Holders' = Holders /\ request' \in [Requests -> Steps]
      BY <1>1, <3>1 DEF Holders, Holding, Steps, RefinementInv, RefinementTypeOK
    <3> QED BY <1>1, <1>2, <1>3, <2>5, <3>1, <3>2 DEF RefinementInv, RefinementTypeOK, Buckets
  <2>7. CASE tokens >= 1
    <3>1. request' = [request EXCEPT ![r] = "admitted"] /\ active' = active + 1
      BY <2>2, <2>7
    <3>2. Holders' = Holders \cup {r} /\ r \notin Holders /\ request' \in [Requests -> Steps]
      BY <1>1, <3>1 DEF Holders, Holding, Steps, RefinementInv, RefinementTypeOK
    <3>3. Cardinality(Holders \cup {r}) = Cardinality(Holders) + 1
      BY <3>2, HoldersAreFinite, OneMore
    <3>4. active' = Cardinality(Holders') /\ active' \in Nat /\ active' <= MaxConcurrent
      BY <1>5, <3>1, <3>2, <3>3, RefinementAssumption DEF RefinementInv, RefinementTypeOK
    <3> QED BY <1>1, <1>2, <1>3, <2>5, <3>2, <3>4 DEF RefinementInv, RefinementTypeOK, Buckets
  <2> QED BY <2>6, <2>7
<1> QED BY <1>4, <1>5

\* A future joins the pool only when no marked worker is left in it: all that are in
\* it hold slots, and so does the newcomer.
LEMMA SubmitKeeps ==
  ASSUME RefinementInv, NEW r \in Requests, Submit(r)
  PROVE  RefinementInv'
<1>1. /\ request[r] = "admitted" /\ timedOut' = timedOut \cap Running
      /\ clock' = clock /\ bucket' = bucket /\ due' = due /\ readAt' = readAt
  BY DEF Submit
<1>2. /\ BucketsAreDue' /\ ReadingsArePast'
      /\ timedOut' = timedOut /\ timedOut \subseteq Requests
  BY <1>1 DEF RefinementInv, BucketsAreDue, ReadingsArePast, PoolIsHeld, RefinementTypeOK
<1>3. ASSUME Release(r), future' = future
      PROVE  RefinementInv'
  <2>1. /\ active' = Cardinality(Holders') /\ active' \in Nat /\ active' <= MaxConcurrent
        /\ request' \in [Requests -> Steps]
    BY <1>1, <1>3, ReleaseCounts DEF Holding, Steps
  <2>2. Pooled' = Pooled
    BY <1>3 DEF Pooled, Running, Queued
  <2>3. PoolIsHeld'
    BY <1>1, <1>2, <1>3 DEF PoolIsHeld, Running, Release, RefinementInv, RefinementTypeOK
  <2> QED BY <1>1, <1>2, <1>3, <2>1, <2>2, <2>3 DEF RefinementInv, RefinementTypeOK
<1>4. CASE /\ timedOut' = {}
           /\ future' = [future EXCEPT ![r] = "queued"]
           /\ request' = [request EXCEPT ![r] = "waiting"]
           /\ active' = active
  <2>1. Holders' = Holders /\ request' \in [Requests -> Steps] /\ r \in Holders'
    <3>1. Holders' = Holders /\ request' \in [Requests -> Steps]
      BY <1>1, <1>4, StillHeld DEF Holding
    <3> QED BY <1>1, <3>1 DEF Holders, Holding
  <2>2. Pooled' \subseteq Holders
    <3>1. \A q \in Requests : q # r => future'[q] = future[q]
      BY <1>4 DEF RefinementInv, RefinementTypeOK
    <3>2. Pooled' \subseteq Pooled \cup {r}
      BY <3>1 DEF Pooled, Running, Queued
    <3>3. Pooled \subseteq Holders
      BY <1>2, <1>4
         DEF Pooled, Running, Queued, Holders, Holding, RefinementInv, PoolIsHeld
    <3> QED BY <2>1, <3>2, <3>3
  <2>3. Cardinality(Pooled') <= Cardinality(Holders) /\ IsFiniteSet(Pooled')
    BY <2>2, HoldersAreFinite, FS_Subset
  <2>4. Cardinality(Pooled') <= MaxConcurrent
    <3>1. Cardinality(Pooled') \in Nat
      BY <2>3, FS_CardinalityType
    <3> QED BY <2>3, <3>1, RefinementAssumption, HoldersAreFinite DEF RefinementInv
  <2>5. PoolIsHeld'
    BY <1>2, <1>4 DEF PoolIsHeld, Running, RefinementInv, RefinementTypeOK
  <2>6. future' \in [Requests -> {"none", "queued", "running", "done"}]
    BY <1>4 DEF RefinementInv, RefinementTypeOK
  <2> QED BY <1>1, <1>2, <1>4, <2>1, <2>4, <2>5, <2>6 DEF RefinementInv, RefinementTypeOK
<1> QED BY <1>3, <1>4 DEF Submit

\* The steps of a request that waits, and of its worker.
LEMMA WaitKeeps ==
  ASSUME RefinementInv, NEW r \in Requests,
         Answer(r) \/ Deadline(r) \/ MarkTimedOut(r) \/ GiveUp(r)
  PROVE  RefinementInv'
<1>0. /\ BucketsAreDue' /\ ReadingsArePast'
      /\ clock' = clock /\ bucket' = bucket /\ due' = due /\ readAt' = readAt
  BY DEF Answer, Deadline, MarkTimedOut, GiveUp, RefinementInv, BucketsAreDue, ReadingsArePast
<1>1. ASSUME Release(r), request[r] \in Holding,
             future[r] = "done" \/ request[r] = "marked",
             future' = future, timedOut' = timedOut
      PROVE  RefinementInv'
  <2>1. /\ active' = Cardinality(Holders') /\ active' \in Nat /\ active' <= MaxConcurrent
        /\ request' \in [Requests -> Steps]
    BY <1>1, ReleaseCounts DEF Holding, Steps
  <2>2. Pooled' = Pooled /\ timedOut' \subseteq Requests
    BY <1>1 DEF Pooled, Running, Queued, RefinementInv, RefinementTypeOK
  <2>3. PoolIsHeld'
    BY <1>1 DEF PoolIsHeld, Running, Release, RefinementInv, RefinementTypeOK
  <2> QED BY <1>0, <1>1, <2>1, <2>2, <2>3 DEF RefinementInv, RefinementTypeOK
<1>2. CASE Answer(r)
  BY <1>1, <1>2 DEF Answer, Holding
<1>3. CASE GiveUp(r)
  BY <1>1, <1>3 DEF GiveUp, Holding
<1>4. CASE Deadline(r)
  <2>1. Holders' = Holders /\ request' \in [Requests -> Steps]
    BY <1>4, StillHeld DEF Deadline, Holding
  <2>2. Pooled' = Pooled /\ PoolIsHeld'
    BY <1>4 DEF Deadline, Pooled, Running, Queued, PoolIsHeld, RefinementInv, RefinementTypeOK
  <2> QED BY <1>0, <1>4, <2>1, <2>2 DEF Deadline, RefinementInv, RefinementTypeOK
<1>5. CASE MarkTimedOut(r)
  <2>1. Holders' = Holders /\ request' \in [Requests -> Steps]
    BY <1>5, StillHeld DEF MarkTimedOut, Holding
  <2>2. /\ future' \in [Requests -> {"none", "queued", "running", "done"}]
        /\ \A q \in Requests : q # r => future'[q] = future[q]
        /\ future'[r] = IF future[r] = "queued" THEN "done" ELSE future[r]
    BY <1>5 DEF MarkTimedOut, RefinementInv, RefinementTypeOK
  <2>3. Cardinality(Pooled') <= MaxConcurrent
    <3>1. Pooled' \subseteq Pooled
      BY <2>2 DEF Pooled, Running, Queued
    <3> QED BY <3>1, PoolShrinks
  <2>4. /\ timedOut' = IF future'[r] # "done" THEN timedOut \cup {r} ELSE timedOut
        /\ request' = [request EXCEPT ![r] = "marked"] /\ request[r] = "expired"
        /\ active' = active
    BY <1>5 DEF MarkTimedOut
  <2>5. timedOut' \subseteq Running' /\ timedOut' \subseteq Requests
    <3>1. ASSUME NEW q \in timedOut' PROVE q \in Requests /\ future'[q] = "running"
      <4>1. CASE q = r
        <5>1. future'[r] # "done"
          BY <2>2, <2>4, <3>1, <4>1 DEF RefinementInv, PoolIsHeld, Running
        <5>2. future[r] \in {"queued", "running", "done"}
          BY <2>4 DEF RefinementInv, RefinementTypeOK, PoolIsHeld
        <5> QED BY <2>2, <4>1, <5>1, <5>2
      <4>2. CASE q # r
        BY <2>2, <2>4, <3>1, <4>2 DEF RefinementInv, PoolIsHeld, Running
      <4> QED BY <4>1, <4>2
    <3> QED BY <3>1 DEF Running
  <2>6. PoolIsHeld'
    <3>1. ASSUME NEW q \in Requests, future'[q] \in {"queued", "running"}
          PROVE  request'[q] \in {"waiting", "expired"} \/ q \in timedOut'
      <4>1. CASE q = r
        BY <2>2, <2>4, <3>1, <4>1
      <4>2. CASE q # r
        BY <2>2, <2>4, <3>1, <4>2 DEF RefinementInv, RefinementTypeOK, PoolIsHeld
      <4> QED BY <4>1, <4>2
    <3>2. ASSUME NEW q \in Requests, request'[q] \in {"waiting", "expired"}
          PROVE  future'[q] # "none"
      BY <2>2, <2>4, <3>2 DEF RefinementInv, RefinementTypeOK, PoolIsHeld
    <3> QED BY <2>5, <3>1, <3>2 DEF PoolIsHeld
  <2> QED BY <1>0, <2>1, <2>2, <2>3, <2>4, <2>5, <2>6 DEF RefinementInv, RefinementTypeOK
<1> QED BY <1>2, <1>3, <1>4, <1>5

\* A worker that starts or ends moves one future on.
LEMMA WorkerKeeps ==
  ASSUME RefinementInv, NEW r \in Requests, StartWorker(r) \/ FinishWorker(r)
  PROVE  RefinementInv'
<1>1. PICK to \in {"running", "done"} :
         /\ future' = [future EXCEPT ![r] = to]
         /\ timedOut' = IF to = "done" THEN timedOut \ {r} ELSE timedOut
         /\ future[r] = IF to = "done" THEN "running" ELSE "queued"
         /\ UNCHANGED <<clock, bucket, active, request, readAt, due>>
  BY DEF StartWorker, FinishWorker
<1>2. /\ future' \in [Requests -> {"none", "queued", "running", "done"}]
      /\ \A q \in Requests : q # r => future'[q] = future[q]
      /\ future'[r] = to
  BY <1>1 DEF RefinementInv, RefinementTypeOK
<1>3. Pooled' \subseteq Pooled
  BY <1>1, <1>2 DEF Pooled, Running, Queued
<1>4. Cardinality(Pooled') <= MaxConcurrent
  BY <1>3, PoolShrinks
<1>5. timedOut' \subseteq Running' /\ timedOut' \subseteq Requests
  BY <1>1, <1>2 DEF RefinementInv, PoolIsHeld, Running
<1>6. PoolIsHeld'
  BY <1>1, <1>2, <1>5 DEF RefinementInv, PoolIsHeld, Running
<1>7. Holders' = Holders /\ BucketsAreDue' /\ ReadingsArePast'
  BY <1>1 DEF Holders, RefinementInv, BucketsAreDue, ReadingsArePast
<1> QED BY <1>1, <1>2, <1>4, <1>5, <1>6, <1>7 DEF RefinementInv, RefinementTypeOK

\* Time passes: what a client is due grows as its bucket would.
LEMMA RefinementTicks ==
  ASSUME RefinementInv, TickRefinement
  PROVE  RefinementInv'
<1>1. /\ clock' = clock + 1 /\ clock \in Nat /\ Burst \in Nat
      /\ due' = [c \in Clients |-> Smaller(Burst, due[c] + 1)]
      /\ UNCHANGED <<bucket, active, request, readAt, future, timedOut>>
  BY RefinementAssumption DEF TickRefinement, RefinementInv, RefinementTypeOK
<1>2. ASSUME NEW c \in Clients
      PROVE  /\ due'[c] \in 0..Burst /\ bucket'[c].at <= clock'
             /\ Refilled(bucket'[c], clock') <= due'[c]
  <2>1. bucket[c] \in [tokens : 0..Burst, at : {Unknown} \cup Nat] /\ due[c] \in 0..Burst
        /\ bucket[c].at <= clock /\ Refilled(bucket[c], clock) <= due[c]
    BY DEF RefinementInv, RefinementTypeOK, BucketsAreDue
  <2>2. due'[c] = Smaller(Burst, due[c] + 1) /\ bucket' = bucket
    BY <1>1
  <2> QED BY <1>1, <2>1, <2>2 DEF Refilled, Smaller, Unknown
<1>3. due' \in [Clients -> 0..Burst] /\ BucketsAreDue' /\ ReadingsArePast'
  BY <1>1, <1>2 DEF BucketsAreDue, ReadingsArePast, RefinementInv, RefinementTypeOK
<1>4. Holders' = Holders /\ Pooled' = Pooled /\ PoolIsHeld'
  BY <1>1 DEF Holders, Pooled, Running, Queued, PoolIsHeld, RefinementInv
<1> QED BY <1>1, <1>3, <1>4 DEF RefinementInv, RefinementTypeOK

\* At the start there is no holder and every bucket is full.
LEMMA RefinementStarts == RefinementInit => RefinementInv
<1> SUFFICES ASSUME RefinementInit PROVE RefinementInv
  OBVIOUS
<1>1. Holders = {} /\ Pooled = {} /\ PoolIsHeld
  BY DEF RefinementInit, Holders, Holding, Pooled, Running, Queued, PoolIsHeld
<1>2. Cardinality(Holders) = 0 /\ Cardinality(Pooled) = 0
  BY <1>1, FS_EmptySet
<1>3. RefinementTypeOK /\ BucketsAreDue /\ ReadingsArePast
  BY RefinementAssumption
     DEF RefinementInit, RefinementTypeOK, BucketsAreDue, ReadingsArePast, Refilled, NoBucket,
         Unknown, Steps
<1> QED BY <1>1, <1>2, <1>3, RefinementAssumption DEF RefinementInv, RefinementInit

\* An admitted request never queues behind a worker that was given up, the count is
\* the number of slots held, and no client gets more than its burst, its ticks and the
\* ticks its requests waited for the lock, in whatever order their readings of the
\* clock come to it (refinement_workers.py, refinement_admission.py, routes.py).
THEOREM RefinementIsSafe == RefinementSpec => []RefinementSafe
<1>1. RefinementInv /\ [RefinementNext]_refinementVars => RefinementInv'
  <2> SUFFICES ASSUME RefinementInv, [RefinementNext]_refinementVars PROVE RefinementInv'
    OBVIOUS
  <2>0. ASSUME NEW r \in Requests, ReadClock(r) PROVE RefinementInv'
    BY <2>0, ReadKeeps
  <2>1. ASSUME NEW r \in Requests, NEW c \in Clients, Acquire(r, c) PROVE RefinementInv'
    BY <2>1, AcquireKeeps
  <2>2. ASSUME NEW r \in Requests, Submit(r) PROVE RefinementInv'
    BY <2>2, SubmitKeeps
  <2>3. ASSUME NEW r \in Requests, Answer(r) \/ Deadline(r) \/ MarkTimedOut(r) \/ GiveUp(r)
        PROVE  RefinementInv'
    BY <2>3, WaitKeeps
  <2>4. ASSUME NEW r \in Requests, StartWorker(r) \/ FinishWorker(r) PROVE RefinementInv'
    BY <2>4, WorkerKeeps
  <2>5. CASE TickRefinement
    BY <2>5, RefinementTicks
  <2>6. CASE UNCHANGED refinementVars
    BY <2>6 DEF refinementVars, RefinementInv, RefinementTypeOK, Holders, Pooled, Running,
                Queued, PoolIsHeld, BucketsAreDue, ReadingsArePast
  <2> QED BY <2>0, <2>1, <2>2, <2>3, <2>4, <2>5, <2>6 DEF RefinementNext
<1>2. RefinementInv => RefinementSafe
  BY DEF RefinementInv, RefinementTypeOK, RefinementSafe, NeverQueuesBehindStuck, WithinRate,
         Pooled, Holders, Holding
<1> QED BY <1>1, <1>2, RefinementStarts, PTL DEF RefinementSpec

-----------------------------------------------------------------------------
(* The search session of the page.                                         *)

\* The answer of the last discovery is chosen among the topics that are open now.
AskedIsOpen ==
    /\ asking \in Nat
    /\ \A asker \in asked :
          /\ asker = [id |-> asker.id, about |-> asker.about,
                      resolved |-> asker.resolved, attempt |-> asker.attempt]
          /\ asker.id \in Nat /\ asker.id <= asking
          /\ asker.id = asking => asker.resolved = resolved

\* A search that applies an answer is one answer away from what it can go back to.
OneAnswerAway(search) ==
    search.kind = "apply" =>
        /\ search.back.filters = search.filters /\ search.back.brief = search.brief
        /\ \E t \in Topics, level \in Levels :
              /\ search.choices = Merged(search.back.choices, Target[t], level)
              /\ t \in search.resolved

SessionInv ==
    /\ AskedIsOpen
    /\ \E ranking : shown \in {{}, {ranking}}
    /\ \A question \in queue : question.topic \in Topics
    /\ \A search \in update : OneAnswerAway(search)
    /\ QuestionsAreOpen /\ UndoIsLast

\* The form changes none of what the invariant speaks of.
LEMMA FormKeeps ==
  ASSUME SessionInv,
         UNCHANGED <<shown, queue, resolved, undo, update, asked, asking>>
  PROVE  SessionInv'
<1>1. AskedIsOpen'
  BY DEF SessionInv, AskedIsOpen
<1>2. QuestionsAreOpen' /\ UndoIsLast'
  BY DEF SessionInv, QuestionsAreOpen, UndoIsLast, About
<1>3. \A search \in update' : OneAnswerAway(search)'
  BY DEF SessionInv, OneAnswerAway
<1> QED BY <1>1, <1>2, <1>3 DEF SessionInv

\* A search begins: discoveries under way are overtaken.
LEMMA FetchKeeps ==
  ASSUME SessionInv, NEW search, OneAnswerAway(search), FetchAnswer(search),
         UNCHANGED <<shown, queue, resolved, undo, asked>>
  PROVE  SessionInv'
<1>1. asking' = asking + 1 /\ update' = {search}
  BY DEF FetchAnswer
<1>2. AskedIsOpen'
  BY <1>1 DEF SessionInv, AskedIsOpen
<1>3. QuestionsAreOpen' /\ UndoIsLast'
  BY DEF SessionInv, QuestionsAreOpen, UndoIsLast, About
<1>4. OneAnswerAway(search)'
  BY DEF OneAnswerAway
<1> QED BY <1>1, <1>2, <1>3, <1>4 DEF SessionInv

\* An update of the search ends, or a submitted search is under way.
LEMMA EndKeeps ==
  ASSUME SessionInv, update' = {} \/ \E search : update' = {search} /\ search.kind = "submit",
         UNCHANGED <<shown, queue, resolved, undo, asked, asking>>
  PROVE  SessionInv'
<1>1. \A search \in update' : OneAnswerAway(search)'
  BY DEF OneAnswerAway
<1>2. AskedIsOpen' /\ QuestionsAreOpen' /\ UndoIsLast'
  BY DEF SessionInv, AskedIsOpen, QuestionsAreOpen, UndoIsLast, About
<1> QED BY <1>1, <1>2 DEF SessionInv

\* A search is submitted, or its brief has been parsed.
LEMMA SubmitSearchKeeps ==
  ASSUME SessionInv, SubmitSearch \/ BriefParsed
  PROVE  SessionInv'
<1>1. CASE SubmitSearch
  <2>1. CASE update' = {[kind |-> "submit", at |-> "parse", brief |-> editor.brief]}
             /\ UNCHANGED asking
    BY <1>1, <2>1, EndKeeps DEF SubmitSearch
  <2>2. CASE FetchAnswer(Submitted(editor.filters))
    <3>1. OneAnswerAway(Submitted(editor.filters))
      BY DEF OneAnswerAway, Submitted
    <3> HIDE DEF Submitted
    <3> QED BY <1>1, <2>2, <3>1, FetchKeeps DEF SubmitSearch
  <2> QED BY <1>1, <2>1, <2>2 DEF SubmitSearch
<1>2. CASE BriefParsed
  <2> PICK search \in update, x \in Filters :
        /\ IF x = Unusable
           THEN update' = {} /\ UNCHANGED <<asking, status, tick>>
           ELSE FetchAnswer([Submitted(x) EXCEPT
                    !.brief = search.brief,
                    !.resolved = UNION {StillResolved(ranking, search.brief, x,
                                            editor.choices) : ranking \in shown}])
        /\ UNCHANGED <<shown, queue, resolved, undo, asked>>
    BY <1>2 DEF BriefParsed
  <2>1. CASE x = Unusable
    BY <2>1, EndKeeps
  <2>2. CASE x # Unusable
    <3> DEFINE s == [Submitted(x) EXCEPT
                    !.brief = search.brief,
                    !.resolved = UNION {StillResolved(ranking, search.brief, x,
                                            editor.choices) : ranking \in shown}]
    <3>1. OneAnswerAway(s)
      BY DEF OneAnswerAway, Submitted
    <3>2. FetchAnswer(s)
      BY <2>2
    <3> HIDE DEF s
    <3> QED BY <3>1, <3>2, FetchKeeps
  <2> QED BY <2>1, <2>2
<1> QED BY <1>1, <1>2

\* An answer that is applied remembers what it replaces.
LEMMA ApplyKeeps == ASSUME SessionInv, Apply PROVE SessionInv'
<1> PICK ranking \in shown, question \in queue, level \in Levels :
        /\ LET f == Target[question.topic]
           IN  FetchAnswer([kind |-> "apply", at |-> "search",
                         choices |-> Merged(ranking.choices, f, level),
                         filters |-> ranking.filters, brief |-> ranking.brief,
                         resolved |-> resolved \cup {question.topic},
                         draft |-> Merged(editor.choices, f, level),
                         back |-> [choices |-> ranking.choices,
                                   filters |-> ranking.filters,
                                   brief |-> ranking.brief, resolved |-> resolved,
                                   before |-> editor.choices,
                                   after |-> Merged(editor.choices, f, level)]])
        /\ UNCHANGED <<editor, shown, queue, resolved, undo, asked>>
  BY DEF Apply
<1> DEFINE f == Target[question.topic]
           s == [kind |-> "apply", at |-> "search",
                         choices |-> Merged(ranking.choices, f, level),
                         filters |-> ranking.filters, brief |-> ranking.brief,
                         resolved |-> resolved \cup {question.topic},
                         draft |-> Merged(editor.choices, f, level),
                         back |-> [choices |-> ranking.choices,
                                   filters |-> ranking.filters,
                                   brief |-> ranking.brief, resolved |-> resolved,
                                   before |-> editor.choices,
                                   after |-> Merged(editor.choices, f, level)]]
<1>1. FetchAnswer(s)
  OBVIOUS
<1>2. /\ s.kind = "apply" /\ s.back.filters = s.filters /\ s.back.brief = s.brief
      /\ s.choices = Merged(s.back.choices, Target[question.topic], level)
      /\ question.topic \in s.resolved
  OBVIOUS
<1>3. question.topic \in Topics
  BY DEF SessionInv
<1> HIDE DEF s
<1>4. OneAnswerAway(s)
  BY <1>2, <1>3 DEF OneAnswerAway
<1> QED BY <1>1, <1>4, FetchKeeps

\* An undo gives back what was remembered.
LEMMA UndoKeeps == ASSUME SessionInv, Undo \/ RemoveChip PROVE SessionInv'
<1>1. CASE Undo
  <2> PICK back \in undo :
        /\ FetchAnswer([kind |-> "undo", at |-> "search", choices |-> back.choices,
                  filters |-> back.filters, brief |-> back.brief,
                  resolved |-> back.resolved, back |-> back])
        /\ UNCHANGED <<editor, shown, queue, resolved, undo, asked>>
    BY <1>1 DEF Undo
  <2> DEFINE s == [kind |-> "undo", at |-> "search", choices |-> back.choices,
                  filters |-> back.filters, brief |-> back.brief,
                  resolved |-> back.resolved, back |-> back]
  <2>1. FetchAnswer(s) /\ OneAnswerAway(s)
    BY DEF OneAnswerAway
  <2> HIDE DEF s
  <2> QED BY <2>1, FetchKeeps
<1>2. CASE RemoveChip
  <2>1. CASE shown = {}
    BY <1>2, <2>1, FormKeeps DEF RemoveChip
  <2>2. CASE shown # {}
    <3> PICK f \in Factors, ranking \in shown :
             FetchAnswer([kind |-> "chip", at |-> "search",
                       choices |-> Dropping(ranking.choices, f),
                       filters |-> ranking.filters, brief |-> ranking.brief,
                       resolved |-> StillResolved(ranking, ranking.brief,
                                       ranking.filters, Dropping(ranking.choices, f)),
                       draft |-> Dropping(editor.choices, f)])
      BY <1>2, <2>2 DEF RemoveChip
    <3> DEFINE s == [kind |-> "chip", at |-> "search",
                       choices |-> Dropping(ranking.choices, f),
                       filters |-> ranking.filters, brief |-> ranking.brief,
                       resolved |-> StillResolved(ranking, ranking.brief,
                                       ranking.filters, Dropping(ranking.choices, f)),
                       draft |-> Dropping(editor.choices, f)]
    <3>1. FetchAnswer(s) /\ OneAnswerAway(s)
      BY DEF OneAnswerAway
    <3>2. UNCHANGED <<shown, queue, resolved, undo, asked>>
      BY <1>2 DEF RemoveChip
    <3> HIDE DEF s
    <3> QED BY <3>1, <3>2, FetchKeeps
  <2> QED BY <2>1, <2>2
<1> QED BY <1>1, <1>2

\* A discovery begins: its answer is chosen among the topics then open.
LEMMA DiscoverOpens ==
  ASSUME SessionInv, NEW ranking, NEW topics, Discover(ranking, topics), resolved' = topics
  PROVE  AskedIsOpen' /\ queue' = {}
<1>1. asking' = asking + 1 /\ queue' = {}
  BY DEF Discover
<1>2. \A r \in asked' : 
           \/ r \in asked
           \/ r = [id |-> asking + 1, about |-> About(ranking), resolved |-> topics,
                   attempt |-> 1]
  BY DEF Discover
<1> QED BY <1>1, <1>2 DEF SessionInv, AskedIsOpen

\* The answer of the search under way is shown, and asks for a question.
LEMMA SearchAnsweredKeeps == ASSUME SessionInv, SearchAnswered PROVE SessionInv'
<1> PICK search \in update, data \in {"v1", "v2", "empty"} :
        /\ LET ranking == [choices |-> search.choices, filters |-> search.filters,
                           brief |-> search.brief, data |-> data]
           IN  shown' = {ranking} /\ Discover(ranking, search.resolved)
        /\ resolved' = search.resolved
        /\ undo' = Revertible(search)
        /\ update' = {}
  BY DEF SearchAnswered
<1> DEFINE ranking == [choices |-> search.choices, filters |-> search.filters,
                       brief |-> search.brief, data |-> data]
<1>1. AskedIsOpen' /\ queue' = {}
  <2>1. Discover(ranking, search.resolved)
    OBVIOUS
  <2> HIDE DEF ranking
  <2> QED BY <2>1, DiscoverOpens
<1>2. QuestionsAreOpen'
  BY <1>1 DEF QuestionsAreOpen
<1>3. UndoIsLast'
  <2>1. OneAnswerAway(search)
    BY DEF SessionInv
  <2>2. CASE search.kind = "apply"
    <3>1. undo' = {search.back} /\ shown' = {ranking}
      BY <2>2 DEF Revertible
    <3> PICK t \in Topics, level \in Levels :
              /\ search.choices = Merged(search.back.choices, Target[t], level)
              /\ t \in search.resolved
      BY <2>1, <2>2 DEF OneAnswerAway
    <3>2. ranking.filters = search.back.filters /\ ranking.brief = search.back.brief
          /\ ranking.choices = Merged(search.back.choices, Target[t], level)
      BY <2>1, <2>2 DEF OneAnswerAway
    <3> HIDE DEF ranking
    <3> QED BY <3>1, <3>2 DEF UndoIsLast
  <2>3. CASE search.kind # "apply"
    BY <2>3 DEF Revertible, UndoIsLast
  <2> QED BY <2>2, <2>3
<1> QED BY <1>1, <1>2, <1>3 DEF SessionInv

\* Only the answer of the last request for a question is heard.
LEMMA AnswerKeeps ==
  ASSUME SessionInv, DiscoveryAnswered \/ DiscoveryFailed
  PROVE  SessionInv'
<1>1. CASE DiscoveryAnswered
  <2> PICK r \in asked : \E answer \in Answers(r) :
        /\ asked' = asked \ {r}
        /\ IF Heard(r)
           THEN queue' = IF \E ranking \in shown : About(ranking) = r.about
                            THEN IF answer.kind = "question"
                                 THEN {[topic |-> answer.topic, about |-> r.about]}
                                 ELSE {}
                            ELSE queue
           ELSE UNCHANGED queue
        /\ UNCHANGED <<editor, shown, resolved, undo, update, asking, tick>>
    BY <1>1 DEF DiscoveryAnswered
  <2> PICK answer \in Answers(r) :
        /\ asked' = asked \ {r}
        /\ IF Heard(r)
           THEN queue' = IF \E ranking \in shown : About(ranking) = r.about
                            THEN IF answer.kind = "question"
                                 THEN {[topic |-> answer.topic, about |-> r.about]}
                                 ELSE {}
                            ELSE queue
           ELSE UNCHANGED queue
        /\ UNCHANGED <<editor, shown, resolved, undo, update, asking, tick>>
    OBVIOUS
  <2>1. AskedIsOpen' /\ UndoIsLast' /\ \A search \in update' : OneAnswerAway(search)'
    BY DEF SessionInv, AskedIsOpen, UndoIsLast, OneAnswerAway
  <2>2. CASE queue' \subseteq queue
    BY <2>1, <2>2 DEF SessionInv, QuestionsAreOpen, About
  <2>3. CASE /\ Heard(r) /\ answer.kind = "question"
             /\ \E ranking \in shown : About(ranking) = r.about
             /\ queue' = {[topic |-> answer.topic, about |-> r.about]}
    <3>1. answer.topic \in Topics \ r.resolved
      BY <2>3 DEF Answers
    <3>2. r.resolved = resolved
      BY <2>3 DEF Heard, SessionInv, AskedIsOpen
    <3>3. QuestionsAreOpen'
      BY <2>3, <3>1, <3>2 DEF QuestionsAreOpen, About
    <3>4. \A question \in queue' : question.topic \in Topics
      BY <2>3, <3>1
    <3> QED BY <2>1, <3>3, <3>4 DEF SessionInv
  <2> QED BY <2>2, <2>3
<1>2. CASE DiscoveryFailed
  <2> PICK r \in asked : /\ \/ asked' = (asked \ {r}) \cup {[r EXCEPT !.attempt = 2]}
                            \/ asked' = asked \ {r}
                         /\ UNCHANGED <<shown, queue, resolved, undo, update, asking>>
    BY <1>2 DEF DiscoveryFailed
  <2>1. AskedIsOpen'
    <3>1. r = [id |-> r.id, about |-> r.about, resolved |-> r.resolved, attempt |-> r.attempt]
      BY DEF SessionInv, AskedIsOpen
    <3>2. [r EXCEPT !.attempt = 2] = [id |-> r.id, about |-> r.about, resolved |-> r.resolved,
                                      attempt |-> 2]
      BY <3>1
    <3> QED BY <3>2 DEF SessionInv, AskedIsOpen
  <2>2. QuestionsAreOpen' /\ UndoIsLast'
    BY DEF SessionInv, QuestionsAreOpen, UndoIsLast, About
  <2>3. \A search \in update' : OneAnswerAway(search)'
    BY DEF SessionInv, OneAnswerAway
  <2> QED BY <2>1, <2>2, <2>3 DEF SessionInv
<1> QED BY <1>1, <1>2

\* A question that is skipped, asked again or kept changes no search.
LEMMA SkipKeeps == ASSUME SessionInv, Skip \/ Retry \/ Keep PROVE SessionInv'
<1>1. CASE Skip
  <2> PICK ranking \in shown, question \in queue :
        /\ resolved' = resolved \cup {question.topic}
        /\ Discover(ranking, resolved')
        /\ UNCHANGED <<shown, undo, update>>
    BY <1>1 DEF Skip
  <2>1. AskedIsOpen' /\ queue' = {}
    <3> PICK topics : topics = resolved \cup {question.topic}
      OBVIOUS
    <3>1. Discover(ranking, topics) /\ resolved' = topics
      OBVIOUS
    <3> QED BY <3>1, DiscoverOpens
  <2>2. UndoIsLast'
    BY DEF SessionInv, UndoIsLast
  <2> QED BY <2>1, <2>2 DEF SessionInv, QuestionsAreOpen, OneAnswerAway
<1>2. CASE Retry
  <2> PICK ranking \in shown : /\ Discover(ranking, resolved)
                               /\ UNCHANGED <<shown, resolved, undo, update>>
    BY <1>2 DEF Retry
  <2>1. AskedIsOpen' /\ queue' = {}
    <3> PICK topics : topics = resolved
      OBVIOUS
    <3>1. Discover(ranking, topics) /\ resolved' = topics
      OBVIOUS
    <3> QED BY <3>1, DiscoverOpens
  <2> QED BY <2>1 DEF SessionInv, UndoIsLast, QuestionsAreOpen, OneAnswerAway
<1>3. CASE Keep
  <2>1. AskedIsOpen'
    BY <1>3 DEF Keep, SessionInv, AskedIsOpen
  <2>2. QuestionsAreOpen' /\ UndoIsLast'
    BY <1>3 DEF Keep, SessionInv, QuestionsAreOpen, UndoIsLast
  <2>3. \A search \in update' : OneAnswerAway(search)'
    BY <1>3 DEF Keep, SessionInv, OneAnswerAway
  <2> QED BY <1>3, <2>1, <2>2, <2>3 DEF Keep, SessionInv
<1> QED BY <1>1, <1>2, <1>3

\* The question on screen is about the ranking on screen and open, and Undo goes back
\* one refinement, in whatever order answers and clicks come (App.tsx).
THEOREM SessionIsSafe == SessionSpec => []SessionSafe
<1>1. SessionInit => SessionInv
  BY DEF SessionInit, SessionInv, AskedIsOpen, QuestionsAreOpen, UndoIsLast
<1>2. SessionInv /\ [SessionNext]_sessionVars => SessionInv'
  <2> SUFFICES ASSUME SessionInv, [SessionNext]_sessionVars PROVE SessionInv'
    OBVIOUS
  <2>1. CASE EditForm \/ EditBrief \/ UNCHANGED sessionVars
    BY <2>1, FormKeeps DEF EditForm, EditBrief, sessionVars
  <2>2. CASE SubmitSearch \/ BriefParsed
    BY <2>2, SubmitSearchKeeps
  <2>3. CASE Apply
    BY <2>3, ApplyKeeps
  <2>4. CASE Undo \/ RemoveChip
    BY <2>4, UndoKeeps
  <2>5. CASE SearchAnswered
    BY <2>5, SearchAnsweredKeeps
  <2>6. CASE SearchFailed
    BY <2>6, EndKeeps DEF SearchFailed
  <2>7. CASE DiscoveryAnswered \/ DiscoveryFailed
    BY <2>7, AnswerKeeps
  <2>8. CASE Skip \/ Retry \/ Keep
    BY <2>8, SkipKeeps
  <2> QED BY <2>1, <2>2, <2>3, <2>4, <2>5, <2>6, <2>7, <2>8 DEF SessionNext
<1>3. SessionInv => SessionSafe
  BY DEF SessionInv, SessionSafe
<1> QED BY <1>1, <1>2, <1>3, PTL DEF SessionSpec

-----------------------------------------------------------------------------
(* The current trip on the page.                                           *)

PageRequests == [n : Nat, kind : {"load", "summary", "save", "clear"},
                 trip : Trips \cup {NoTrip}, id : Nat, at : {"sent", "served"}]

ViewTypeOK ==
    /\ stored \in Trips \cup {NoTrip} /\ viewed \in Trips \cup {NoTrip}
    /\ summary \subseteq Trips
    /\ pageOpen \in BOOLEAN
    /\ identity \in [trip : Nat, summary : Nat]
    /\ requests \subseteq PageRequests
    /\ doubtful \subseteq {"write", "load", "summary"}
    /\ count \in Nat

Counts(r) == \/ r.kind = "load" /\ r.id = identity.trip
             \/ r.kind = "summary" /\ r.id = identity.summary
ServedWrite == \E r \in Writes : r.at = "served"
LoadCounts == \E r \in requests : r.kind = "load" /\ r.id = identity.trip

IdsAreOld == \A r \in requests : /\ r.kind = "load" => r.id <= identity.trip
                                 /\ r.kind = "summary" => r.id <= identity.summary

\* While no write is doubtful there is one at most, and unless the server has done it
\* already, all that is answered and counts tells what is stored; the page shows it as
\* well unless a load is to come or was lost.
OneWrite == /\ \A p, q \in Writes : p = q
            /\ \A r \in Writes : r.at = "served" => r.trip = stored
AnswersAreStored ==
    /\ \A r \in requests : r.at = "served" /\ Counts(r) => r.trip = stored
    /\ \A t \in summary : t = stored
    /\ viewed = stored \/ LoadCounts \/ "load" \in doubtful

ViewInv ==
    /\ ViewTypeOK /\ IdsAreOld
    /\ "write" \notin doubtful => OneWrite /\ (AnswersAreStored \/ ServedWrite)

\* What Summarise leaves: the trip on the page, and at most one request more, for a
\* summary, whose answer is to come.
LEMMA Summarised ==
  ASSUME NEW shows \in Trips \cup {NoTrip}, NEW open \in BOOLEAN,
         NEW ids \in [trip : Nat, summary : Nat], NEW pending \in SUBSET PageRequests,
         count \in Nat, Summarise(shows, open, ids, pending)
  PROVE  /\ viewed' = shows /\ pageOpen' = open /\ count' \in Nat
         /\ identity' \in [trip : Nat, summary : Nat]
         /\ identity'.trip = ids.trip /\ identity'.summary >= ids.summary
         /\ pending \subseteq requests'
         /\ \A r \in requests' \ pending :
               /\ r \in PageRequests /\ r.kind = "summary" /\ r.at = "sent"
               /\ r.id = identity'.summary
<1> DEFINE starts == open /\ shows # NoTrip
           renewed == IF starts \/ (pageOpen /\ viewed # NoTrip)
                      THEN [ids EXCEPT !.summary = @ + 1] ELSE ids
<1>1. /\ pageOpen' = open /\ viewed' = shows /\ identity' = renewed
      /\ IF starts
         THEN /\ count' = count + 1
              /\ requests' = pending \cup
                     {[n |-> count + 1, kind |-> "summary", trip |-> NoTrip,
                       id |-> renewed.summary, at |-> "sent"]}
         ELSE requests' = pending /\ count' = count
  BY DEF Summarise
<1>2. /\ renewed \in [trip : Nat, summary : Nat]
      /\ renewed.trip = ids.trip /\ renewed.summary >= ids.summary
  OBVIOUS
<1> HIDE DEF renewed
<1>3. [n |-> count + 1, kind |-> "summary", trip |-> NoTrip, id |-> renewed.summary,
       at |-> "sent"] \in PageRequests
  BY <1>2 DEF PageRequests
<1> QED BY <1>1, <1>2, <1>3

\* The page shows a trip while requests other than writes may have ended.
LEMMA ShowKeeps ==
  ASSUME ViewInv, NEW shows \in Trips \cup {NoTrip}, NEW open \in BOOLEAN,
         NEW pending \in SUBSET requests, Writes \subseteq pending,
         Summarise(shows, open, identity, pending),
         stored' = stored, summary' \subseteq summary,
         doubtful' \subseteq doubtful, "write" \in doubtful => "write" \in doubtful',
         ~ ("write" \in doubtful) /\ AnswersAreStored =>
            \/ shows = stored \/ "load" \in doubtful'
            \/ \E r \in pending : r.kind = "load" /\ r.id = identity.trip
  PROVE  ViewInv'
<1>1. /\ viewed' = shows /\ pageOpen' = open /\ count' \in Nat
      /\ identity' \in [trip : Nat, summary : Nat]
      /\ identity'.trip = identity.trip /\ identity'.summary >= identity.summary
      /\ pending \subseteq requests'
      /\ \A r \in requests' \ pending :
            /\ r \in PageRequests /\ r.kind = "summary" /\ r.at = "sent"
            /\ r.id = identity'.summary
  <2>1. pending \in SUBSET PageRequests /\ count \in Nat
        /\ identity \in [trip : Nat, summary : Nat]
    BY DEF ViewInv, ViewTypeOK
  <2> QED BY <2>1, Summarised
<1>2. ViewTypeOK'
  BY <1>1 DEF ViewInv, ViewTypeOK
<1>3. IdsAreOld'
  BY <1>1 DEF ViewInv, ViewTypeOK, IdsAreOld, PageRequests
<1>4. Writes' = Writes
  BY <1>1 DEF Writes
<1>5. OneWrite => OneWrite'
  BY <1>4 DEF OneWrite
<1>6. ServedWrite => ServedWrite'
  BY <1>4 DEF ServedWrite
<1>7. \A r \in requests' : r.at = "served" /\ Counts(r)' => r \in requests /\ Counts(r)
  <2> SUFFICES ASSUME NEW r \in requests', r.at = "served", Counts(r)'
               PROVE  r \in requests /\ Counts(r)
    OBVIOUS
  <2>1. r \in pending /\ r \in requests
    BY <1>1
  <2>2. r.kind = "summary" => r.id <= identity.summary /\ r.id \in Nat
    BY <2>1 DEF ViewInv, IdsAreOld, ViewTypeOK, PageRequests
  <2>3. r.kind = "summary" /\ r.id = identity'.summary => r.id = identity.summary
    BY <1>1, <2>2 DEF ViewInv, ViewTypeOK
  <2> QED BY <1>1, <2>1, <2>3 DEF Counts
<1>8. "write" \notin doubtful' /\ AnswersAreStored => AnswersAreStored'
  <2> SUFFICES ASSUME "write" \notin doubtful', AnswersAreStored PROVE AnswersAreStored'
    OBVIOUS
  <2>1. \A r \in requests' : r.at = "served" /\ Counts(r)' => r.trip = stored'
    BY <1>7 DEF AnswersAreStored
  <2>2. \A t \in summary' : t = stored'
    BY DEF AnswersAreStored
  <2>3. viewed' = stored' \/ LoadCounts' \/ "load" \in doubtful'
    BY <1>1 DEF LoadCounts
  <2> QED BY <2>1, <2>2, <2>3 DEF AnswersAreStored
<1> QED BY <1>2, <1>3, <1>5, <1>6, <1>8 DEF ViewInv

\* The summary is loaded again, or the page is left or opened.
LEMMA PageKeeps ==
  ASSUME ViewInv, LoadSummary \/ Navigate
  PROVE  ViewInv'
<1>1. PICK open \in BOOLEAN : Summarise(viewed, open, identity, requests)
  BY DEF LoadSummary, Navigate, ViewInv, ViewTypeOK
<1>2. UNCHANGED <<stored, summary, doubtful>>
  BY DEF LoadSummary, Navigate
<1> PICK was : was = viewed
  OBVIOUS
<1> PICK pending : pending = requests
  OBVIOUS
<1>3. Summarise(was, open, identity, pending)
  BY <1>1
<1>4. was \in Trips \cup {NoTrip} /\ pending \in SUBSET requests /\ Writes \subseteq pending
  BY DEF ViewInv, ViewTypeOK, Writes
<1>5. AnswersAreStored => \/ was = stored \/ "load" \in doubtful'
                          \/ \E r \in pending : r.kind = "load" /\ r.id = identity.trip
  BY <1>2 DEF AnswersAreStored, LoadCounts
<1> QED BY <1>2, <1>3, <1>4, <1>5, ShowKeeps

\* The answer of a load is taken only when no later request outdated it.
LEMMA TripLoadedKeeps ==
  ASSUME ViewInv, TripLoaded
  PROVE  ViewInv'
<1> PICK r \in requests :
        /\ r.at = "served" /\ r.kind = "load"
        /\ IF r.id # identity.trip
           THEN /\ requests' = requests \ {r}
                /\ UNCHANGED <<viewed, summary, pageOpen, identity, doubtful, count>>
           ELSE /\ doubtful' = doubtful \ {"load"}
                /\ summary' = IF r.trip = NoTrip THEN {} ELSE summary
                /\ Summarise(r.trip, pageOpen, identity, requests \ {r})
        /\ UNCHANGED stored
  BY DEF TripLoaded
<1>1. CASE r.id # identity.trip
  <2>1. Writes' = Writes /\ (LoadCounts => LoadCounts')
    BY <1>1 DEF Writes, LoadCounts
  <2>2. ViewTypeOK' /\ IdsAreOld'
    BY <1>1 DEF ViewInv, ViewTypeOK, IdsAreOld
  <2> QED BY <1>1, <2>1, <2>2
          DEF ViewInv, OneWrite, ServedWrite, AnswersAreStored, Counts
<1>2. CASE r.id = identity.trip
  <2> PICK open \in BOOLEAN : open = pageOpen
    BY DEF ViewInv, ViewTypeOK
  <2> PICK pending : pending = requests \ {r}
    OBVIOUS
  <2>1. Summarise(r.trip, open, identity, pending)
    BY <1>2
  <2>2. r.trip \in Trips \cup {NoTrip} /\ pending \in SUBSET requests
        /\ Writes \subseteq pending
    BY DEF ViewInv, ViewTypeOK, PageRequests, Writes
  <2>3. AnswersAreStored => r.trip = stored
    BY <1>2 DEF AnswersAreStored, Counts
  <2> QED BY <1>2, <2>1, <2>2, <2>3, ShowKeeps
<1> QED BY <1>1, <1>2

\* A load or a write of the trip is sent.
LEMMA RequestsKeep ==
  ASSUME ViewInv, LoadTrip \/ Write
  PROVE  ViewInv'
<1>1. CASE LoadTrip
  <2> DEFINE new == [n |-> count + 1, kind |-> "load", trip |-> NoTrip,
                     id |-> identity.trip + 1, at |-> "sent"]
  <2>1. /\ identity' = [identity EXCEPT !.trip = @ + 1] /\ count' = count + 1
        /\ requests' = requests \cup {new}
        /\ UNCHANGED <<stored, viewed, summary, pageOpen, doubtful>>
    BY <1>1 DEF LoadTrip, Send, ViewInv, ViewTypeOK
  <2>2. /\ identity' \in [trip : Nat, summary : Nat]
        /\ identity'.trip = identity.trip + 1 /\ identity'.summary = identity.summary
    BY <2>1 DEF ViewInv, ViewTypeOK
  <2>3. new \in PageRequests /\ new.kind = "load" /\ new.id = identity'.trip
        /\ new.at = "sent"
    BY <2>2 DEF PageRequests, ViewInv, ViewTypeOK
  <2> HIDE DEF new
  <2>4. ViewTypeOK' /\ IdsAreOld'
    BY <2>1, <2>2, <2>3 DEF ViewInv, ViewTypeOK, IdsAreOld, PageRequests
  <2>5. Writes' = Writes /\ LoadCounts'
    BY <2>1, <2>3 DEF Writes, LoadCounts
  <2>6. AnswersAreStored => AnswersAreStored'
    <3>1. \A r \in requests' : r.at = "served" /\ Counts(r)' => r \in requests /\ Counts(r)
      BY <2>1, <2>2, <2>3 DEF Counts, ViewInv, IdsAreOld, ViewTypeOK, PageRequests
    <3> QED BY <2>1, <2>5, <3>1 DEF AnswersAreStored
  <2> QED BY <2>1, <2>4, <2>5, <2>6 DEF ViewInv, OneWrite, ServedWrite
<1>2. CASE Write
  <2>1. PICK kind \in {"save", "clear"}, t \in Trips \cup {NoTrip} : Send(kind, t, 0)
    BY <1>2 DEF Write
  <2> DEFINE new == [n |-> count + 1, kind |-> kind, trip |-> t, id |-> 0, at |-> "sent"]
  <2>2. /\ requests' = requests \cup {new} /\ count' = count + 1
        /\ doubtful' = IF Writes # {} THEN doubtful \cup {"write"} ELSE doubtful
        /\ UNCHANGED <<stored, viewed, summary, pageOpen, identity>>
    BY <1>2, <2>1 DEF Write, Send
  <2>3. new \in PageRequests /\ new.kind \in {"save", "clear"} /\ new.at = "sent"
    BY DEF PageRequests, ViewInv, ViewTypeOK
  <2> HIDE DEF new
  <2>4. ViewTypeOK' /\ IdsAreOld'
    BY <2>2, <2>3 DEF ViewInv, ViewTypeOK, IdsAreOld
  <2>5. Writes' = Writes \cup {new}
    BY <2>2, <2>3 DEF Writes
  <2>6. "write" \notin doubtful' => OneWrite'
    BY <2>2, <2>3, <2>5 DEF OneWrite
  <2>7. ServedWrite => ServedWrite'
    BY <2>5 DEF ServedWrite
  <2>8. AnswersAreStored => AnswersAreStored'
    BY <2>2, <2>3 DEF AnswersAreStored, Counts, LoadCounts
  <2> QED BY <2>2, <2>4, <2>6, <2>7, <2>8 DEF ViewInv
<1> QED BY <1>1, <1>2

\* The server has done a write: until its answer comes nothing on the page counts.
LEMMA ServeViewKeeps ==
  ASSUME ViewInv, ServeView
  PROVE  ViewInv'
<1> PICK r \in requests :
        /\ r.at = "sent"
        /\ requests' = (requests \ {r}) \cup
               {[r EXCEPT !.at = "served", !.trip = IF r \in Writes THEN @ ELSE stored]}
        /\ stored' = IF r \in Writes THEN r.trip ELSE stored
        /\ UNCHANGED <<viewed, summary, pageOpen, identity, doubtful, count>>
  BY DEF ServeView
<1> DEFINE s == [r EXCEPT !.at = "served", !.trip = IF r \in Writes THEN @ ELSE stored]
<1>1. r \in PageRequests /\ stored \in Trips \cup {NoTrip}
  BY DEF ViewInv, ViewTypeOK
<1>2. /\ s \in PageRequests /\ s.kind = r.kind /\ s.id = r.id /\ s.at = "served"
      /\ s.trip = IF r \in Writes THEN r.trip ELSE stored
  BY <1>1 DEF PageRequests
<1>3. requests' = (requests \ {r}) \cup {s}
  OBVIOUS
<1> HIDE DEF s
<1>4. ViewTypeOK' /\ IdsAreOld'
  <2>1. r.trip \in Trips \cup {NoTrip}
    BY <1>1 DEF PageRequests
  <2> QED BY <1>1, <1>2, <1>3, <2>1 DEF ViewInv, ViewTypeOK, IdsAreOld
<1>5. CASE r \in Writes
  <2>1. Writes' = (Writes \ {r}) \cup {s}
    BY <1>2, <1>3, <1>5 DEF Writes
  <2>2. OneWrite => OneWrite' /\ ServedWrite'
    BY <1>2, <1>5, <2>1 DEF OneWrite, ServedWrite
  <2> QED BY <1>4, <2>2 DEF ViewInv
<1>6. CASE r \notin Writes
  <2>1. Writes' = Writes
    BY <1>2, <1>3, <1>6 DEF Writes
  <2>2. LoadCounts => LoadCounts'
    BY <1>2, <1>3 DEF LoadCounts
  <2>3. AnswersAreStored => AnswersAreStored'
    BY <1>2, <1>3, <1>6, <2>2 DEF AnswersAreStored, Counts
  <2> QED BY <1>4, <1>6, <2>1, <2>3 DEF ViewInv, OneWrite, ServedWrite
<1> QED BY <1>5, <1>6

\* The answer of a summary is taken only when the trip has not changed since.
LEMMA SummaryLoadedKeeps ==
  ASSUME ViewInv, SummaryLoaded \/ Lost
  PROVE  ViewInv'
<1>1. CASE SummaryLoaded
  <2> PICK r \in requests :
        /\ r.at = "served" /\ r.kind = "summary"
        /\ requests' = requests \ {r}
        /\ summary' = IF r.id = identity.summary THEN {r.trip} \ {NoTrip} ELSE summary
        /\ doubtful' = IF r.id = identity.summary THEN doubtful \ {"summary"}
                       ELSE doubtful
        /\ UNCHANGED <<stored, viewed, pageOpen, identity, count>>
    BY <1>1 DEF SummaryLoaded
  <2>1. ViewTypeOK' /\ IdsAreOld'
    BY DEF ViewInv, ViewTypeOK, IdsAreOld, PageRequests
  <2>2. Writes' = Writes /\ (LoadCounts => LoadCounts')
    BY DEF Writes, LoadCounts
  <2>3. AnswersAreStored => AnswersAreStored'
    BY <2>2 DEF AnswersAreStored, Counts
  <2> QED BY <2>1, <2>2, <2>3 DEF ViewInv, OneWrite, ServedWrite
<1>2. CASE Lost
  <2> PICK r \in requests :
        /\ requests' = requests \ {r}
        /\ doubtful' = doubtful \cup
               IF r \in Writes THEN IF r.at = "served" THEN {"write"} ELSE {}
               ELSE IF r.kind = "load" /\ r.id = identity.trip THEN {"load"}
               ELSE IF r.kind = "summary" /\ r.id = identity.summary THEN {"summary"}
               ELSE {}
        /\ UNCHANGED <<stored, viewed, summary, pageOpen, identity, count>>
    BY <1>2 DEF Lost
  <2>1. ViewTypeOK' /\ IdsAreOld'
    BY DEF ViewInv, ViewTypeOK, IdsAreOld
  <2>2. Writes' = Writes \ {r} /\ ("write" \notin doubtful' => "write" \notin doubtful)
    BY DEF Writes
  <2>3. LoadCounts => LoadCounts' \/ "load" \in doubtful'
    BY DEF LoadCounts, Writes
  <2>4. AnswersAreStored => AnswersAreStored'
    BY <2>3 DEF AnswersAreStored, Counts
  <2>5. "write" \notin doubtful' /\ ServedWrite => ServedWrite'
    BY <2>2 DEF ServedWrite, Writes
  <2> QED BY <2>1, <2>2, <2>4, <2>5 DEF ViewInv, OneWrite
<1> QED BY <1>1, <1>2

\* The answer of a write retires every load and summary under way.
LEMMA WrittenKeeps ==
  ASSUME ViewInv, WrittenView
  PROVE  ViewInv'
<1> PICK r \in Writes :
        /\ r.at = "served"
        /\ summary' = {} /\ doubtful' = doubtful \ {"load", "summary"}
        /\ Summarise(r.trip, pageOpen, RetiredView, requests \ {r})
        /\ UNCHANGED stored
  BY DEF WrittenView
<1>1. r \in requests /\ r \in PageRequests /\ r.trip \in Trips \cup {NoTrip}
  BY DEF Writes, ViewInv, ViewTypeOK, PageRequests
<1> PICK open \in BOOLEAN : open = pageOpen
  BY DEF ViewInv, ViewTypeOK
<1> PICK pending : pending = requests \ {r}
  OBVIOUS
<1> PICK ids : ids = RetiredView
  OBVIOUS
<1>2. /\ ids \in [trip : Nat, summary : Nat] /\ pending \in SUBSET PageRequests
      /\ ids.trip = identity.trip + 1 /\ ids.summary = identity.summary + 1
  BY DEF RetiredView, ViewInv, ViewTypeOK
<1>3. Summarise(r.trip, open, ids, pending)
  OBVIOUS
<1>4. /\ viewed' = r.trip /\ pageOpen' = open /\ count' \in Nat
      /\ identity' \in [trip : Nat, summary : Nat]
      /\ identity'.trip = ids.trip /\ identity'.summary >= ids.summary
      /\ pending \subseteq requests'
      /\ \A q \in requests' \ pending :
            /\ q \in PageRequests /\ q.kind = "summary" /\ q.at = "sent"
            /\ q.id = identity'.summary
  <2>1. count \in Nat
    BY DEF ViewInv, ViewTypeOK
  <2> QED BY <1>1, <1>2, <1>3, <2>1, Summarised
<1>5. ViewTypeOK'
  BY <1>1, <1>2, <1>4 DEF ViewInv, ViewTypeOK
<1>6. IdsAreOld'
  BY <1>2, <1>4 DEF ViewInv, ViewTypeOK, IdsAreOld, PageRequests
<1>7. Writes' = Writes \ {r}
  BY <1>4 DEF Writes
<1>8. OneWrite => OneWrite'
  BY <1>7 DEF OneWrite
<1>9. OneWrite => AnswersAreStored'
  <2> SUFFICES ASSUME OneWrite PROVE AnswersAreStored'
    OBVIOUS
  <2>1. \A q \in requests' : q.at = "served" => ~ Counts(q)'
    BY <1>2, <1>4 DEF Counts, ViewInv, ViewTypeOK, IdsAreOld, PageRequests
  <2>2. viewed' = stored'
    BY <1>4 DEF OneWrite
  <2> QED BY <2>1, <2>2 DEF AnswersAreStored
<1> QED BY <1>5, <1>6, <1>8, <1>9 DEF ViewInv

\* Once nothing is under way and nothing was lost, the page shows the stored trip and
\* a summary of it (App.tsx:1372, 1392).
THEOREM ViewShowsStored == ViewSpec => []ViewIsStored
<1>1. ViewInit => ViewInv
  <2> SUFFICES ASSUME ViewInit PROVE ViewInv
    OBVIOUS
  <2> DEFINE first == [n |-> 1, kind |-> "load", trip |-> NoTrip, id |-> 1, at |-> "sent"]
  <2>0. /\ first \in PageRequests /\ first.kind = "load" /\ first.id = 1
        /\ requests = {first} /\ identity = [trip |-> 1, summary |-> 0]
    BY DEF ViewInit, PageRequests
  <2>1. ViewTypeOK /\ IdsAreOld
    <3> HIDE DEF first
    <3>1. identity \in [trip : Nat, summary : Nat] /\ identity.trip = 1
      BY <2>0
    <3>2. stored \in Trips \cup {NoTrip} /\ viewed = NoTrip /\ summary = {}
          /\ pageOpen = FALSE /\ doubtful = {} /\ count = 1
      BY DEF ViewInit
    <3>3. ViewTypeOK
      BY <2>0, <3>1, <3>2 DEF ViewTypeOK
    <3>4. IdsAreOld
      BY <2>0, <3>1 DEF IdsAreOld
    <3> QED BY <3>3, <3>4
  <2>2. OneWrite /\ AnswersAreStored
    BY DEF ViewInit, OneWrite, Writes, AnswersAreStored, LoadCounts
  <2> QED BY <2>1, <2>2 DEF ViewInv
<1>2. ViewInv /\ [ViewNext]_viewVars => ViewInv'
  <2> SUFFICES ASSUME ViewInv, [ViewNext]_viewVars PROVE ViewInv'
    OBVIOUS
  <2>1. CASE UNCHANGED viewVars
    BY <2>1 DEF viewVars, ViewInv, ViewTypeOK, IdsAreOld, OneWrite, Writes, ServedWrite,
                AnswersAreStored, Counts, LoadCounts
  <2> QED BY <2>1, PageKeeps, TripLoadedKeeps, RequestsKeep, ServeViewKeeps,
             SummaryLoadedKeeps, WrittenKeeps DEF ViewNext
<1>3. ViewInv => ViewIsStored
  BY DEF ViewInv, ViewTypeOK, ViewIsStored, ServedWrite, Writes, AnswersAreStored, LoadCounts
<1> QED BY <1>1, <1>2, <1>3, PTL DEF ViewSpec

-----------------------------------------------------------------------------
(* The saved trip and its companion.                                       *)

SavedTrips == [area : TripAreas, eligible : BOOLEAN, created : Nat, checked : Nat]
Shown == [at : Nat, value : Values \cup {"none"}]

\* An event compares with the last snapshot of its baseline, and tells of conditions
\* that are later than it.
EventHolds(e) ==
    \E s \in {o \in history[e.area] : o.at <= e.baseline} :
        /\ s.value = e.was
        /\ \A o \in history[e.area] : o.at <= e.baseline => o.at <= s.at
EventOK(e) ==
    /\ e.area \in TripAreas /\ e.baseline \in Nat /\ e.at \in Nat
    /\ e.baseline < e.at /\ e.at <= conditions[e.area].at
    /\ EventHolds(e)

CallOK(c) ==
    /\ c.step = "save" => c.new \in SavedTrips
    /\ c.step = "conditions" => c.trip \in SavedTrips
    /\ c.step = "history" => /\ c.trip \in SavedTrips /\ c.shown \in Shown
                             /\ c.shown.at <= conditions[c.trip.area].at
    /\ c.step = "event" => EventOK(c.new)
Calls == {call[q] : q \in TripRequests}

\* The job is ahead of all that is shown, and of an area between its two writes it has
\* shown, and not yet kept, something new.
JobOK ==
    /\ job.step \in {"idle", "area", "snapshot"}
    /\ job.step = "area" => job = [step |-> "area", at |-> job.at, left |-> job.left]
    /\ job.step # "idle" => /\ job.at \in Nat /\ 0 < job.at /\ job.at <= tripTime
                            /\ job.left \subseteq TripAreas
                            /\ \A a \in TripAreas : conditions[a].at <= job.at
    /\ job.step = "snapshot" => /\ job.area \in TripAreas
                                /\ conditions[job.area].at = job.at
                                /\ \A s \in history[job.area] : s.at < job.at

TripTypeOK ==
    /\ tripTime \in Nat \ {0}
    /\ trip \in SavedTrips \cup {NothingSaved}
    /\ conditions \in [TripAreas -> Shown]
    /\ history \in [TripAreas -> SUBSET Shown]
    /\ call = [q \in TripRequests |-> call[q]]

HistoryIsPast ==
    \A a \in TripAreas : /\ conditions[a].at <= tripTime
                         /\ \A s \in history[a] : 0 < s.at /\ s.at <= conditions[a].at

TripInv ==
    /\ TripTypeOK /\ HistoryIsPast /\ JobOK
    /\ \A c \in Calls : CallOK(c)
    /\ \A e \in companionEvents : EventOK(e)
    /\ ShownIsKept

\* An event stays true while conditions only get later and a new snapshot is not
\* earlier than what was shown.
LEMMA EventStays ==
  ASSUME TripTypeOK, TripTypeOK', NEW e, EventOK(e),
         \A a \in TripAreas : /\ conditions[a].at <= conditions'[a].at
                              /\ history[a] \subseteq history'[a]
                              /\ \A s \in history'[a] \ history[a] : s.at >= conditions[a].at
  PROVE  EventOK(e)'
<1> DEFINE a == e.area
<1>1. a \in TripAreas /\ e.baseline \in Nat /\ e.at \in Nat /\ e.baseline < e.at
      /\ e.at <= conditions[a].at /\ EventHolds(e)
  BY DEF EventOK
<1>2. conditions[a].at \in Nat /\ conditions'[a].at \in Nat
      /\ \A s \in history[a] \cup history'[a] : s.at \in Nat
  BY <1>1 DEF TripTypeOK, Shown
<1>3. \A s \in history'[a] \ history[a] : ~ (s.at <= e.baseline)
  BY <1>1, <1>2
<1>4. EventHolds(e)'
  <2> PICK s \in history[a] : /\ s.at <= e.baseline /\ s.value = e.was
                              /\ \A o \in history[a] : o.at <= e.baseline => o.at <= s.at
    BY <1>1 DEF EventHolds
  <2>1. s \in history'[a] /\ \A o \in history'[a] : o.at <= e.baseline => o \in history[a]
    BY <1>1, <1>3
  <2> QED BY <2>1 DEF EventHolds
<1>5. e.at <= conditions'[a].at
  BY <1>1, <1>2
<1> QED BY <1>1, <1>4, <1>5 DEF EventOK

\* A call in progress stays valid while time passes and conditions are added.
LEMMA CallStays ==
  ASSUME TripTypeOK, TripTypeOK', NEW c, CallOK(c),
         \A a \in TripAreas : /\ conditions[a].at <= conditions'[a].at
                              /\ history[a] \subseteq history'[a]
                              /\ \A s \in history'[a] \ history[a] : s.at >= conditions[a].at
  PROVE  CallOK(c)'
<1>1. c.step = "event" => EventOK(c.new)'
  BY EventStays DEF CallOK
<1>2. c.step = "history" => c.shown.at <= conditions'[c.trip.area].at
  <2> SUFFICES ASSUME c.step = "history" PROVE c.shown.at <= conditions'[c.trip.area].at
    OBVIOUS
  <2>1. c.trip.area \in TripAreas /\ c.shown.at \in Nat
        /\ c.shown.at <= conditions[c.trip.area].at
    BY DEF CallOK, SavedTrips, Shown
  <2>2. conditions[c.trip.area].at \in Nat /\ conditions'[c.trip.area].at \in Nat
    BY <2>1 DEF TripTypeOK, Shown
  <2> QED BY <2>1, <2>2
<1> QED BY <1>1, <1>2 DEF CallOK

\* A request changes the trip, its own call and the events, no more.
LEMMA RequestStep ==
  ASSUME TripInv, NEW q \in TripRequests, NEW c,
         UNCHANGED <<tripTime, conditions, history, job, lost>>,
         trip' \in SavedTrips \cup {NothingSaved},
         call' = [call EXCEPT ![q] = c], CallOK(c),
         \A e \in companionEvents' : EventOK(e)
  PROVE  TripInv'
<1>1. TripTypeOK'
  BY DEF TripInv, TripTypeOK
<1>2. \A a \in TripAreas : conditions[a].at \in Nat /\ conditions'[a] = conditions[a]
                           /\ history'[a] = history[a]
  BY DEF TripInv, TripTypeOK, Shown
<1>3. \A d \in Calls' : CallOK(d)
  BY DEF TripInv, TripTypeOK, Calls
<1>4. \A d \in Calls' : CallOK(d)'
  BY <1>1, <1>2, <1>3, CallStays DEF TripInv
<1>5. \A e \in companionEvents' : EventOK(e)'
  BY <1>1, <1>2, EventStays DEF TripInv
<1>6. HistoryIsPast' /\ JobOK' /\ ShownIsKept'
  BY DEF TripInv, HistoryIsPast, JobOK, ShownIsKept
<1> QED BY <1>1, <1>4, <1>5, <1>6 DEF TripInv

\* A request that has no call owes nothing.
LEMMA NoCallIsOK == CallOK(NoCall)
BY DEF CallOK, NoCall

\* The calls that save, clear or check the trip.
LEMMA SaveKeeps ==
  ASSUME TripInv, NEW q \in TripRequests,
         SaveRead(q) \/ SaveWrite(q) \/ DeleteTrip(q) \/ MarkChecked(q)
  PROVE  TripInv'
<1>0. /\ trip # NothingSaved => trip \in SavedTrips
      /\ tripTime \in Nat /\ trip \in SavedTrips \cup {NothingSaved}
  BY DEF TripInv, TripTypeOK
<1>1. CASE SaveRead(q)
  <2> PICK a \in TripAreas, dated \in BOOLEAN :
         call' = [call EXCEPT ![q] =
                    [step |-> "save",
                     new |-> [area |-> a, eligible |-> dated,
                              created |-> IF trip = NothingSaved THEN tripTime ELSE trip.created,
                              checked |-> IF trip = NothingSaved THEN 0 ELSE trip.checked]]]
    BY <1>1 DEF SaveRead, Proceed
  <2> DEFINE new == [area |-> a, eligible |-> dated,
                     created |-> IF trip = NothingSaved THEN tripTime ELSE trip.created,
                     checked |-> IF trip = NothingSaved THEN 0 ELSE trip.checked]
  <2>1. new \in SavedTrips
    BY <1>0 DEF SavedTrips
  <2>2. CallOK([step |-> "save", new |-> new])
    <3> HIDE DEF new
    <3> QED BY <2>1 DEF CallOK
  <2>3. /\ UNCHANGED <<tripTime, conditions, history, job, lost>>
        /\ trip' \in SavedTrips \cup {NothingSaved}
        /\ \A e \in companionEvents' : EventOK(e)
    BY <1>0, <1>1 DEF SaveRead, TripInv
  <2>4. call' = [call EXCEPT ![q] = [step |-> "save", new |-> new]]
    OBVIOUS
  <2> HIDE DEF new
  <2> PICK c : c = [step |-> "save", new |-> new]
    OBVIOUS
  <2> QED BY <2>2, <2>3, <2>4, RequestStep
<1>2. CASE SaveWrite(q)
  <2>1. call[q].new \in SavedTrips
    BY <1>2 DEF SaveWrite, TripInv, Calls, CallOK
  <2> PICK new : new = call[q].new
    OBVIOUS
  <2>2. trip' = IF trip = NothingSaved THEN new ELSE [new EXCEPT !.created = trip.created]
    BY <1>2 DEF SaveWrite
  <2>3. trip' \in SavedTrips
    BY <1>0, <2>1, <2>2 DEF SavedTrips
  <2> QED BY <1>2, <2>3, NoCallIsOK, RequestStep DEF SaveWrite, Proceed, TripInv
<1>3. CASE DeleteTrip(q) \/ MarkChecked(q)
  <2>1. trip' \in SavedTrips \cup {NothingSaved}
    BY <1>0, <1>3 DEF DeleteTrip, MarkChecked, SavedTrips
  <2>2. call' = [call EXCEPT ![q] = NoCall]
    BY <1>3 DEF DeleteTrip, MarkChecked, TripInv, TripTypeOK
  <2> QED BY <1>3, <2>1, <2>2, NoCallIsOK, RequestStep DEF DeleteTrip, MarkChecked, TripInv
<1> QED BY <1>1, <1>2, <1>3

\* What the summary compares with is the last snapshot of the baseline.
LEMMA SummaryKeeps ==
  ASSUME TripInv, NEW q \in TripRequests,
         SummaryTrip(q) \/ SummaryConditions(q) \/ SummaryHistory(q) \/ RecordEvent(q)
  PROVE  TripInv'
<1>0. /\ trip # NothingSaved => trip \in SavedTrips
      /\ trip \in SavedTrips \cup {NothingSaved} /\ CallOK(call[q])
      /\ \A a \in TripAreas : conditions[a] \in Shown /\ conditions[a].at \in Nat
                              /\ \A s \in history[a] : s \in Shown /\ s.at \in Nat
  BY DEF TripInv, TripTypeOK, Calls, Shown
<1>1. CASE SummaryTrip(q)
  <2> PICK c : c = [step |-> "conditions", trip |-> trip]
    OBVIOUS
  <2>1. CallOK(c)
    BY <1>0, <1>1 DEF SummaryTrip, CallOK
  <2> QED BY <1>0, <1>1, <2>1, RequestStep DEF SummaryTrip, Proceed, TripInv
<1>2. CASE SummaryConditions(q)
  <2> PICK c : c = [step |-> "history", trip |-> call[q].trip,
                    shown |-> conditions[call[q].trip.area]]
    OBVIOUS
  <2>1. call[q].trip \in SavedTrips /\ call[q].trip.area \in TripAreas
    BY <1>0, <1>2 DEF SummaryConditions, CallOK, SavedTrips
  <2>2. CallOK(c)
    BY <1>0, <2>1 DEF CallOK
  <2> QED BY <1>0, <1>2, <2>2, RequestStep DEF SummaryConditions, Proceed, TripInv
<1>3. CASE SummaryHistory(q)
  <2> PICK t : t = call[q].trip
    OBVIOUS
  <2> PICK c : c = call[q].shown
    OBVIOUS
  <2> PICK found : found = Changes(t, c, history[t.area])
    OBVIOUS
  <2> PICK s : s = CHOOSE x \in found : TRUE
    OBVIOUS
  <2>1. t \in SavedTrips /\ c \in Shown /\ c.at <= conditions[t.area].at
    BY <1>0, <1>3 DEF SummaryHistory, CallOK
  <2>2. t.area \in TripAreas /\ Baseline(t) \in Nat /\ c.at \in Nat
    BY <2>1 DEF SavedTrips, Baseline, Shown
  <2> PICK new : new = [area |-> t.area, baseline |-> Baseline(t), at |-> c.at,
                        is |-> c.value, stale |-> ~ Fresh(c), was |-> s.value]
    OBVIOUS
  <2>3. call' = [call EXCEPT ![q] = IF t.eligible /\ found # {}
                                    THEN [step |-> "event", new |-> new] ELSE NoCall]
    BY <1>3 DEF SummaryHistory, Proceed
  <2>4. ASSUME found # {} PROVE EventOK(new)
    <3>1. s \in found
      BY <2>4
    <3> PICK base : base = Baseline(t)
      OBVIOUS
    <3> PICK h : h = history[t.area]
      OBVIOUS
    <3>2. s \in Changes(t, c, h)
      BY <3>1
    <3>3. s \in Prior(h, t) /\ c.at > base
      BY <3>2 DEF Changes
    <3>4. s \in h /\ s.at <= base /\ \A o \in h : o.at <= base => o.at <= s.at
      BY <3>3 DEF Prior
    <3>5. new.area = t.area /\ new.baseline = base /\ new.at = c.at /\ new.was = s.value
      OBVIOUS
    <3>6. EventHolds(new)
      BY <3>4, <3>5 DEF EventHolds
    <3> QED BY <2>1, <2>2, <3>3, <3>5, <3>6 DEF EventOK
  <2> PICK d : d = IF t.eligible /\ found # {} THEN [step |-> "event", new |-> new] ELSE NoCall
    OBVIOUS
  <2>5. CallOK(d)
    BY <2>4, NoCallIsOK DEF CallOK
  <2> QED BY <1>0, <1>3, <2>3, <2>5, RequestStep DEF SummaryHistory, TripInv
<1>4. CASE RecordEvent(q)
  <2>1. EventOK(call[q].new)
    BY <1>0, <1>4 DEF RecordEvent, CallOK
  <2>2. \A e \in companionEvents' : EventOK(e)
    BY <1>4, <2>1 DEF RecordEvent, TripInv
  <2> QED BY <1>0, <1>4, <2>2, NoCallIsOK, RequestStep DEF RecordEvent, Proceed, TripInv
<1> QED BY <1>1, <1>2, <1>3, <1>4

\* A step of the job keeps the events and the calls, if what it shows is not earlier
\* and what it keeps is not older than what was shown.
LEMMA JobStep ==
  ASSUME TripInv, UNCHANGED <<trip, companionEvents, call>>,
         TripTypeOK', HistoryIsPast', JobOK', ShownIsKept',
         \A a \in TripAreas : /\ conditions[a].at <= conditions'[a].at
                              /\ history[a] \subseteq history'[a]
                              /\ \A s \in history'[a] \ history[a] : s.at >= conditions[a].at
  PROVE  TripInv'
<1>1. \A d \in Calls' : CallOK(d)'
  BY CallStays DEF TripInv, Calls
<1>2. \A e \in companionEvents' : EventOK(e)'
  BY EventStays DEF TripInv
<1> QED BY <1>1, <1>2 DEF TripInv

\* A step that touches neither conditions nor history.
LEMMA JobWaits ==
  ASSUME TripInv, UNCHANGED <<trip, conditions, history, companionEvents, call>>,
         tripTime' \in Nat, tripTime' >= tripTime, JobOK', ShownIsKept'
  PROVE  TripInv'
<1>1. TripTypeOK'
  BY DEF TripInv, TripTypeOK
<1>2. HistoryIsPast'
  BY DEF TripInv, TripTypeOK, HistoryIsPast, Shown
<1>3. \A a \in TripAreas : /\ conditions[a].at <= conditions'[a].at
                           /\ history[a] \subseteq history'[a]
                           /\ \A s \in history'[a] \ history[a] : s.at >= conditions[a].at
  BY DEF TripInv, TripTypeOK, Shown
<1> QED BY <1>1, <1>2, <1>3, JobStep

\* The refresh job starts, skips an area, ends or gives up, or time passes.
LEMMA JobMovesOn ==
  ASSUME TripInv, \/ JobStarts \/ JobEnds \/ JobGivesUp \/ TimePasses
                  \/ \E a \in TripAreas : JobSkips(a)
  PROVE  TripInv'
<1>0. tripTime \in Nat \ {0}
      /\ \A a \in TripAreas : conditions[a].at \in Nat /\ conditions[a].at <= tripTime
  BY DEF TripInv, TripTypeOK, Shown, HistoryIsPast
<1>1. CASE JobStarts
  <2>1. JobOK' /\ ShownIsKept'
    BY <1>0, <1>1 DEF JobStarts, TripInv, JobOK, ShownIsKept, NoJob
  <2> QED BY <1>0, <1>1, <2>1, JobWaits DEF JobStarts
<1>2. CASE JobEnds
  <2>1. JobOK' /\ ShownIsKept'
    BY <1>2 DEF JobEnds, TripInv, JobOK, ShownIsKept, NoJob
  <2> QED BY <1>0, <1>2, <2>1, JobWaits DEF JobEnds
<1>3. CASE JobGivesUp
  <2>1. JobOK' /\ ShownIsKept'
    BY <1>3 DEF JobGivesUp, TripInv, JobOK, ShownIsKept
  <2> QED BY <1>0, <1>3, <2>1, JobWaits DEF JobGivesUp
<1>4. CASE TimePasses
  <2>1. JobOK' /\ ShownIsKept'
    BY <1>0, <1>4 DEF TimePasses, TripInv, JobOK, ShownIsKept
  <2> QED BY <1>0, <1>4, <2>1, JobWaits DEF TimePasses
<1>5. ASSUME NEW a \in TripAreas, JobSkips(a) PROVE TripInv'
  <2>1. /\ job.step = "area" /\ job' = [job EXCEPT !.left = @ \ {a}]
        /\ job = [step |-> "area", at |-> job.at, left |-> job.left]
    BY <1>5 DEF JobSkips, TripInv, JobOK
  <2>2. job' = [step |-> "area", at |-> job.at, left |-> job.left \ {a}]
    BY <2>1
  <2>3. JobOK' /\ ShownIsKept'
    BY <1>5, <2>1, <2>2 DEF JobSkips, TripInv, JobOK, ShownIsKept
  <2> QED BY <1>0, <1>5, <2>3, JobWaits DEF JobSkips
<1> QED BY <1>1, <1>2, <1>3, <1>4, <1>5

\* What the job shows is later than all that is kept of the area.
LEMMA JobWritesKeeps ==
  ASSUME TripInv, JobRetries \/ JobAppends \/ \E a \in TripAreas : JobShows(a)
  PROVE  TripInv'
<1>0. /\ tripTime \in Nat \ {0} /\ FreshFor \in Nat
      /\ \A a \in TripAreas : /\ conditions[a].at \in Nat /\ conditions[a].at <= tripTime
                              /\ conditions[a] \in Shown /\ history[a] \subseteq Shown
                              /\ \A s \in history[a] : s.at \in Nat /\ 0 < s.at
                                                       /\ s.at <= conditions[a].at
  BY TripAssumption DEF TripInv, TripTypeOK, Shown, HistoryIsPast
<1>1. ASSUME NEW a \in TripAreas, JobShows(a) PROVE TripInv'
  <2> PICK v \in Values : conditions' = [conditions EXCEPT ![a] = [at |-> job.at, value |-> v]]
    BY <1>1 DEF JobShows
  <2>1. /\ job.at \in Nat /\ 0 < job.at /\ job.at <= tripTime /\ job.left \subseteq TripAreas
        /\ \A b \in TripAreas : conditions[b].at <= job.at
        /\ job.step = "area"
        /\ conditions[a].at = 0 \/ job.at - conditions[a].at > FreshFor
        /\ job' = [step |-> "snapshot", at |-> job.at, left |-> job.left \ {a}, area |-> a]
        /\ UNCHANGED <<tripTime, trip, history, companionEvents, call, lost>>
    BY <1>1 DEF JobShows, TripInv, JobOK
  <2>2. /\ conditions'[a] = [at |-> job.at, value |-> v]
        /\ \A b \in TripAreas : b # a => conditions'[b] = conditions[b]
        /\ conditions' \in [TripAreas -> Shown]
    BY <2>1 DEF TripInv, TripTypeOK, Shown
  <2>3. \A s \in history[a] : s.at < job.at
    BY <1>0, <2>1
  <2>4. TripTypeOK'
    BY <2>1, <2>2 DEF TripInv, TripTypeOK
  <2>5. HistoryIsPast'
    BY <1>0, <2>1, <2>2, <2>3 DEF HistoryIsPast
  <2>6. JobOK'
    BY <1>0, <2>1, <2>2, <2>3 DEF JobOK
  <2>7. ShownIsKept'
    BY <2>1, <2>2 DEF ShownIsKept, TripInv
  <2>8. \A b \in TripAreas : /\ conditions[b].at <= conditions'[b].at
                             /\ history[b] \subseteq history'[b]
                             /\ \A s \in history'[b] \ history[b] : s.at >= conditions[b].at
    BY <1>0, <2>1, <2>2
  <2> QED BY <2>1, <2>4, <2>5, <2>6, <2>7, <2>8, JobStep
<1>2. ASSUME JobRetries \/ JobAppends
      PROVE  /\ job.step = "snapshot" /\ job.area \in TripAreas /\ job.at \in Nat
             /\ 0 < job.at /\ job.at <= tripTime /\ job.left \subseteq TripAreas
             /\ \A b \in TripAreas : conditions[b].at <= job.at
             /\ conditions[job.area].at = job.at
             /\ \A s \in history[job.area] : s.at < job.at
  BY <1>2 DEF JobRetries, JobAppends, TripInv, JobOK
<1> PICK a : a = job.area
  OBVIOUS
<1>3. CASE JobRetries
  <2> PICK v \in Values : conditions' = [conditions EXCEPT ![a] = [at |-> job.at, value |-> v]]
    BY <1>3 DEF JobRetries
  <2>1. UNCHANGED <<tripTime, trip, history, companionEvents, call, job, lost>>
    BY <1>3 DEF JobRetries
  <2>2. /\ conditions'[a] = [at |-> job.at, value |-> v]
        /\ \A b \in TripAreas : b # a => conditions'[b] = conditions[b]
        /\ conditions' \in [TripAreas -> Shown]
    BY <1>2, <1>3 DEF TripInv, TripTypeOK, Shown
  <2>3. TripTypeOK' /\ HistoryIsPast' /\ JobOK'
    <3>1. TripTypeOK'
      BY <2>1, <2>2 DEF TripInv, TripTypeOK
    <3>2. HistoryIsPast'
      BY <1>0, <1>2, <1>3, <2>1, <2>2 DEF HistoryIsPast
    <3>3. JobOK'
      BY <1>0, <1>2, <1>3, <2>1, <2>2 DEF JobOK
    <3> QED BY <3>1, <3>2, <3>3
  <2>4. ShownIsKept'
    BY <1>2, <1>3, <2>1, <2>2 DEF ShownIsKept, TripInv
  <2>5. \A b \in TripAreas : /\ conditions[b].at <= conditions'[b].at
                             /\ history[b] \subseteq history'[b]
                             /\ \A s \in history'[b] \ history[b] : s.at >= conditions[b].at
    BY <1>0, <1>2, <1>3, <2>1, <2>2
  <2> QED BY <2>1, <2>3, <2>4, <2>5, JobStep
<1>4. CASE JobAppends
  <2>1. /\ UNCHANGED <<tripTime, trip, conditions, companionEvents, call, lost>>
        /\ job' = [step |-> "area", at |-> job.at, left |-> job.left]
        /\ history' = [history EXCEPT ![a] = IF \E s \in @ : s.at = job.at THEN @
                                             ELSE @ \cup {conditions[a]}]
    BY <1>4 DEF JobAppends
  <2>2. ~ \E s \in history[a] : s.at = job.at
    BY <1>0, <1>2, <1>4
  <2>3. /\ history'[a] = history[a] \cup {conditions[a]}
        /\ \A b \in TripAreas : b # a => history'[b] = history[b]
    BY <1>2, <1>4, <2>1, <2>2 DEF TripInv, TripTypeOK
  <2>4. TripTypeOK'
    BY <1>0, <1>2, <1>4, <2>1, <2>2 DEF TripInv, TripTypeOK
  <2>5. HistoryIsPast'
    BY <1>0, <1>2, <1>4, <2>1, <2>3 DEF HistoryIsPast
  <2>6. JobOK'
    BY <1>2, <1>4, <2>1 DEF JobOK
  <2>7. ShownIsKept'
    BY <1>2, <1>4, <2>1, <2>3 DEF ShownIsKept, TripInv
  <2>8. \A b \in TripAreas : /\ conditions[b].at <= conditions'[b].at
                             /\ history[b] \subseteq history'[b]
                             /\ \A s \in history'[b] \ history[b] : s.at >= conditions[b].at
    BY <1>0, <2>1, <2>3
  <2> QED BY <2>1, <2>4, <2>5, <2>6, <2>7, <2>8, JobStep
<1> QED BY <1>1, <1>3, <1>4

\* What an event compared with stays what was known at its baseline, and what is shown
\* of an area is kept (trip_companion.py:302-358, refresh_conditions.py:123-143).
THEOREM TripsAreSafe == TripSpec => []TripSafe
<1>1. TripInit => TripInv
  <2> SUFFICES ASSUME TripInit PROVE TripInv
    OBVIOUS
  <2>1. TripTypeOK /\ HistoryIsPast /\ JobOK /\ ShownIsKept
    BY DEF TripInit, TripTypeOK, HistoryIsPast, JobOK, ShownIsKept, NoConditions, Shown, NoJob
  <2>2. \A c \in Calls : CallOK(c)
    BY NoCallIsOK DEF TripInit, Calls
  <2> QED BY <2>1, <2>2 DEF TripInit, TripInv
<1>2. TripInv /\ [TripNext]_tripVars => TripInv'
  <2> SUFFICES ASSUME TripInv, [TripNext]_tripVars PROVE TripInv'
    OBVIOUS
  <2>1. CASE UNCHANGED tripVars
    <3>1. JobOK' /\ ShownIsKept'
      BY <2>1 DEF tripVars, TripInv, JobOK, ShownIsKept
    <3>2. tripTime' \in Nat /\ tripTime' >= tripTime
      BY <2>1 DEF tripVars, TripInv, TripTypeOK
    <3> QED BY <2>1, <3>1, <3>2, JobWaits DEF tripVars
  <2> QED BY <2>1, SaveKeeps, SummaryKeeps, JobMovesOn, JobWritesKeeps DEF TripNext
<1>3. TripInv => TripSafe
  <2> SUFFICES ASSUME TripInv PROVE EventsStayTrue
    BY DEF TripInv, TripSafe
  <2> QED BY DEF TripInv, EventOK, EventHolds, EventsStayTrue
<1> QED BY <1>1, <1>2, <1>3, PTL DEF TripSpec

-----------------------------------------------------------------------------
(* The catalog in the database.                                            *)

CatalogProcesses == Jobs \cup Pages

StatedTables(n) == {Statements[k][1] : k \in 1..n} \ {"links"}

\* The owners of links are read without them.
Bare(t) == IF t \in {"domains", "passes"}
           THEN [i \in DOMAIN Catalog[synced][t] |-> {}] ELSE Catalog[synced][t]

CatalogTypeOK ==
    /\ synced \in Catalogs /\ Valid(Catalog[synced])
    /\ DOMAIN rows = Kinds
    /\ \A t \in Kinds : \A i \in DOMAIN rows[t] :
           /\ rows[t][i] = [refs |-> rows[t][i].refs, active |-> rows[t][i].active]
           /\ rows[t][i].active \in BOOLEAN
    /\ at \in [CatalogProcesses -> 0..10]
    /\ \A j \in Jobs : /\ at[j] <= 6
                       /\ at[j] > 0 => /\ loading[j] \in Catalogs
                                       /\ Valid(Catalog[loading[j]])
    /\ DOMAIN loading = Jobs
    /\ DOMAIN held = CatalogProcesses
    /\ DOMAIN seen = Pages

\* A table altered and not yet committed is held by nobody else; and a page past its
\* second statement, like a job past its last ALTER, holds the destinations.
LocksExclude ==
    /\ \A p, q \in CatalogProcesses : Excludes(p, q) => held[p] \cap held[q] = {}
    /\ \A j \in Jobs : at[j] = 6 => "destinations" \in held[j]
    /\ \A p \in Pages : at[p] > 2 => "destinations" \in held[p]

\* So what a page has read since is what is there now.
ReadIsCurrent ==
    \A p \in Pages : at[p] > 0 =>
        /\ DOMAIN seen[p] = StatedTables(at[p] - 1)
        /\ \A t \in StatedTables(at[p] - 1) \ {"regions"} :
               seen[p][t] = IF at[p] = 10 THEN Catalog[synced][t] ELSE Bare(t)

CatalogInv == /\ CatalogTypeOK /\ LocksExclude /\ ReadIsCurrent
              /\ ActiveIsLatest /\ ServedIsOneCatalog

\* The nine statements, one by one.
LEMMA Stated ==
    /\ Len(Statements) = 9 /\ Len(Altered) = 5
    /\ Statements[1][1] = "regions" /\ Statements[2][1] = "destinations"
    /\ Statements[3][1] = "bases" /\ Statements[4][1] = "areas"
    /\ Statements[5][1] = "access" /\ Statements[6][1] = "domains"
    /\ Statements[7][1] = "passes" /\ Statements[8][1] = "rentals"
    /\ Statements[9][1] = "links"
    /\ \A k \in 1..8 : Statements[k][1] \in Kinds /\ Statements[k][2] \subseteq Kinds
    /\ Altered[5] = "destinations"
  BY DEF Statements, Altered, Kinds

\* Each statement adds its table to those that were read.
LEMMA StatedNext ==
    /\ StatedTables(0) = {}
    /\ \A n \in 1..8 : StatedTables(n) = StatedTables(n - 1) \cup {Statements[n][1]}
    /\ StatedTables(9) = StatedTables(8)
    /\ StatedTables(9) = Kinds
    /\ \A n \in 0..9 : StatedTables(n) \subseteq Kinds
  <1>1. StatedTables(0) = {}
    BY DEF StatedTables
  <1>2. \A n \in 1..9 : StatedTables(n) = (StatedTables(n - 1) \cup {Statements[n][1]}) \ {"links"}
    <2> TAKE n \in 1..9
    <2>1. 1..n = (1..(n - 1)) \cup {n}
      OBVIOUS
    <2> QED BY <2>1 DEF StatedTables
  <1>3. \A n \in 1..8 : Statements[n][1] # "links"
    BY Stated DEF Kinds
  <1>4. \A n \in 0..9 : "links" \notin StatedTables(n)
    BY DEF StatedTables
  <1>5. \A n \in 1..8 : StatedTables(n) = StatedTables(n - 1) \cup {Statements[n][1]}
    <2> TAKE n \in 1..8
    <2>1. n - 1 \in 0..9 /\ n \in 1..9
      OBVIOUS
    <2> QED BY <1>2, <1>3, <1>4, <2>1
  <1>6. StatedTables(9) = StatedTables(8)
    <2>1. StatedTables(9) = (StatedTables(9 - 1) \cup {Statements[9][1]}) \ {"links"}
      <3>1. 9 \in 1..9
        OBVIOUS
      <3> QED BY <1>2, <3>1
    <2>2. 9 - 1 = 8 /\ "links" \notin StatedTables(8)
      BY <1>4
    <2>3. Statements[9][1] = "links"
      BY Stated
    <2> QED BY <2>1, <2>2, <2>3
  <1>7. StatedTables(8) = Kinds
    <2>1. StatedTables(1) = {"regions"}
      BY <1>1, <1>5, Stated
    <2>2. StatedTables(2) = {"regions", "destinations"}
      BY <2>1, <1>5, Stated
    <2>3. StatedTables(3) = {"regions", "destinations", "bases"}
      BY <2>2, <1>5, Stated
    <2>4. StatedTables(4) = {"regions", "destinations", "bases", "areas"}
      BY <2>3, <1>5, Stated
    <2>5. StatedTables(5) = {"regions", "destinations", "bases", "areas", "access"}
      BY <2>4, <1>5, Stated
    <2>6. StatedTables(6) = {"regions", "destinations", "bases", "areas", "access",
                             "domains"}
      BY <2>5, <1>5, Stated
    <2>7. StatedTables(7) = {"regions", "destinations", "bases", "areas", "access",
                             "domains", "passes"}
      BY <2>6, <1>5, Stated
    <2> QED BY <2>7, <1>5, Stated DEF Kinds
  <1>8. \A n \in 0..9 : StatedTables(n) \subseteq Kinds
    BY Stated DEF StatedTables, Statements, Kinds
  <1> QED BY <1>1, <1>5, <1>6, <1>7, <1>8

\* What the catalog files are made of.
LEMMA SyncedShape ==
    ASSUME CatalogTypeOK, NEW t \in Kinds
    PROVE /\ Catalog[synced][t] = [i \in DOMAIN Catalog[synced][t] |-> Catalog[synced][t][i]]
          /\ \A i \in DOMAIN Catalog[synced][t] : \A r \in Catalog[synced][t][i] :
                 r[1] \in Kinds \/ (r[1] = "default" /\ t = "passes")
  <1>1. synced \in Catalogs
    BY DEF CatalogTypeOK
  <1> QED BY <1>1, CatalogAssumption

\* When the active rows are the catalog, activity is membership.
LEMMA ActiveRows ==
    ASSUME ActiveIsLatest, CatalogTypeOK, NEW t \in Kinds
    PROVE /\ \A i : Active(t, i) <=> i \in DOMAIN Catalog[synced][t]
          /\ \A i \in DOMAIN Catalog[synced][t] : /\ i \in DOMAIN rows[t]
                                                  /\ rows[t][i].active
                                                  /\ rows[t][i].refs = Catalog[synced][t][i]
          /\ \A i \in DOMAIN rows[t] :
                 rows[t][i].active => i \in DOMAIN Catalog[synced][t]
  <1> DEFINE f == [i \in {k \in DOMAIN rows[t] : rows[t][k].active} |-> rows[t][i].refs]
  <1>1. f = Catalog[synced][t]
    BY DEF ActiveIsLatest
  <1>2. DOMAIN f = {k \in DOMAIN rows[t] : rows[t][k].active}
    OBVIOUS
  <1>3. \A i \in DOMAIN f : f[i] = rows[t][i].refs
    OBVIOUS
  <1> HIDE DEF f
  <1> QED BY <1>1, <1>2, <1>3 DEF Active

\* References of a valid catalog lead to its entities.
LEMMA ReferencesLead ==
    ASSUME CatalogTypeOK, NEW t \in Kinds, NEW i \in DOMAIN Catalog[synced][t],
           NEW r \in Catalog[synced][t][i]
    PROVE /\ r[1] \in Kinds => r[2] \in DOMAIN Catalog[synced][r[1]]
          /\ r[1] \notin Kinds =>
                 r[1] = "default" /\ r[2] \in DOMAIN Catalog[synced]["destinations"]
  <1> DEFINE s == Catalog[synced]
  <1>1. \A u \in Kinds : \A q \in Refs(s, u) : q[1] \in Kinds => q[2] \in DOMAIN s[q[1]]
    BY DEF CatalogTypeOK, Valid
  <1>2. \A u \in Kinds : \A k \in DOMAIN s[u] : s[u][k] \subseteq Refs(s, u)
    BY DEF Refs
  <1>3. r[1] \in Kinds => r[2] \in DOMAIN s[r[1]]
    BY <1>1, <1>2
  <1>4. ASSUME r[1] \notin Kinds
        PROVE r[1] = "default" /\ r[2] \in DOMAIN s["destinations"]
    <2>1. r[1] = "default" /\ t = "passes"
      BY <1>4, SyncedShape
    <2>2. PassesValid(s)
      BY DEF CatalogTypeOK, Valid
    <2>3. <<"destinations", r[2]>> \in s["passes"][i]
      BY <2>1, <2>2 DEF PassesValid
    <2>4. "passes" \in Kinds /\ "destinations" \in Kinds
      BY DEF Kinds
    <2>5. \A q : q = <<"destinations", r[2]>> => q[1] = "destinations" /\ q[2] = r[2]
      OBVIOUS
    <2> QED BY <1>1, <1>2, <2>1, <2>3, <2>4, <2>5
  <1> QED BY <1>3, <1>4

\* A statement returns every row of its table, without the links.
LEMMA ReturnedIsTable ==
    ASSUME ActiveIsLatest, CatalogTypeOK, NEW t \in Kinds, NEW joins \in SUBSET Kinds
    PROVE Returned(t, joins) = Bare(t)
  <1> DEFINE s == Catalog[synced]
  <1>1. \A i : i \in Joined(t, joins) => i \in DOMAIN s[t]
    BY ActiveRows DEF Joined
  <1>2. ASSUME NEW i \in DOMAIN s[t] PROVE i \in Joined(t, joins)
    <2>1. i \in DOMAIN rows[t] /\ rows[t][i].active /\ rows[t][i].refs = s[t][i]
      BY ActiveRows
    <2>2. ASSUME NEW r \in s[t][i], r[1] \in joins
          PROVE /\ Active(r[1], r[2])
                /\ r[1] = "bases" => \A d \in rows.bases[r[2]].refs : Active(d[1], d[2])
      <3>1. r[1] \in Kinds /\ r[2] \in DOMAIN s[r[1]]
        BY <2>2, ReferencesLead
      <3>2. Active(r[1], r[2])
        BY <3>1, ActiveRows
      <3>3. ASSUME r[1] = "bases", NEW d \in rows.bases[r[2]].refs
            PROVE Active(d[1], d[2])
        <4>1. rows["bases"][r[2]].refs = s["bases"][r[2]] /\ "bases" \in Kinds
          BY <3>1, <3>3, ActiveRows DEF Kinds
        <4>2. d \in Catalog[synced]["bases"][r[2]] /\ "bases" # "passes"
          BY <4>1, <3>1, <3>3
        <4>3. d[1] \in Kinds
          BY <4>1, <4>2, <3>1, <3>3, SyncedShape
        <4> QED BY <4>1, <4>2, <4>3, <3>1, <3>3, ReferencesLead, ActiveRows
      <3> QED BY <3>2, <3>3
    <2> QED BY <2>1, <2>2 DEF Joined
  <1>3. Joined(t, joins) = DOMAIN s[t]
    BY <1>1, <1>2
  <1>4. s[t] = [i \in DOMAIN s[t] |-> s[t][i]]
    BY SyncedShape
  <1>5. \A i \in DOMAIN s[t] : rows[t][i].refs = s[t][i]
    BY ActiveRows
  <1> QED BY <1>3, <1>4, <1>5 DEF Returned, Bare

\* And the last statement returns all links.
LEMMA LinkedIsTable ==
    ASSUME ActiveIsLatest, CatalogTypeOK, NEW s, NEW t \in Kinds \ {"regions"},
           s[t] = Bare(t)
    PROVE Linked(s)[t] = Catalog[synced][t]
  <1> DEFINE c == Catalog[synced]
  <1>1. CASE t \notin {"domains", "passes"}
    BY <1>1 DEF Linked, Bare
  <1>2. CASE t \in {"domains", "passes"}
    <2>1. DOMAIN s[t] = DOMAIN c[t]
      BY <1>2 DEF Bare
    <2>2. ASSUME NEW i \in DOMAIN c[t]
          PROVE /\ Active(t, i)
                /\ {r \in rows[t][i].refs : LinkActive(r)} = c[t][i]
      <3>1. Active(t, i) /\ rows[t][i].refs = c[t][i]
        BY ActiveRows
      <3>2. \A r \in c[t][i] : LinkActive(r)
        <4> TAKE r \in c[t][i]
        <4>1. "destinations" \in Kinds /\ "default" \notin Kinds
          BY DEF Kinds
        <4> QED BY <4>1, ReferencesLead, ActiveRows DEF LinkActive
      <3> QED BY <3>1, <3>2
    <2>3. c[t] = [i \in DOMAIN c[t] |-> c[t][i]]
      BY SyncedShape
    <2> QED BY <1>2, <2>1, <2>2, <2>3 DEF Linked
  <1> QED BY <1>1, <1>2

\* A process that waits for nobody may take its locks; one that leaves has none.
LEMMA LocksTaken ==
    ASSUME CatalogTypeOK, LocksExclude, NEW p \in CatalogProcesses, Blockers(p) = {},
           held' = [held EXCEPT ![p] = @ \cup Wanted(p)]
    PROVE \A x, y \in CatalogProcesses : Excludes(x, y) => held'[x] \cap held'[y] = {}
  <1> SUFFICES ASSUME NEW x \in CatalogProcesses, NEW y \in CatalogProcesses,
                      Excludes(x, y)
               PROVE held'[x] \cap held'[y] = {}
    OBVIOUS
  <1>1. x # y /\ held[x] \cap held[y] = {}
    BY DEF LocksExclude, Excludes
  <1>2. \A q \in CatalogProcesses : Excludes(p, q) => held[q] \cap Wanted(p) = {}
    BY DEF Blockers, CatalogProcesses
  <1>3. CASE x = p
    <2>1. held'[x] = held[x] \cup Wanted(p) /\ held'[y] = held[y]
      BY <1>1, <1>3 DEF CatalogTypeOK
    <2> QED BY <1>1, <1>2, <1>3, <2>1
  <1>4. CASE y = p
    <2>1. held'[y] = held[y] \cup Wanted(p) /\ held'[x] = held[x] /\ Excludes(p, x)
      BY <1>1, <1>4 DEF CatalogTypeOK, Excludes
    <2> QED BY <1>1, <1>2, <1>4, <2>1
  <1>5. CASE x # p /\ y # p
    BY <1>1, <1>5 DEF CatalogTypeOK
  <1> QED BY <1>3, <1>4, <1>5

\* Leaving frees the locks of the process and of no other.
LEMMA LocksLeft ==
    ASSUME CatalogTypeOK, LocksExclude, NEW p \in CatalogProcesses, Leave(p)
    PROVE /\ LocksExclude'
          /\ at' \in [CatalogProcesses -> 0..10] /\ DOMAIN held' = CatalogProcesses
          /\ at'[p] = 0 /\ \A q \in CatalogProcesses : q # p => at'[q] = at[q]
  <1>1. /\ \A q \in CatalogProcesses : q # p => at'[q] = at[q] /\ held'[q] = held[q]
        /\ at'[p] = 0 /\ held'[p] = {}
        /\ at' \in [CatalogProcesses -> 0..10] /\ DOMAIN held' = CatalogProcesses
    BY DEF Leave, CatalogTypeOK
  <1>2. \A x, y \in CatalogProcesses : Excludes(x, y) => held'[x] \cap held'[y] = {}
    BY <1>1 DEF LocksExclude
  <1>3. /\ \A j \in Jobs : at'[j] = 6 => "destinations" \in held'[j]
        /\ \A q \in Pages : at'[q] > 2 => "destinations" \in held'[q]
    BY <1>1 DEF LocksExclude, CatalogProcesses
  <1> QED BY <1>1, <1>2, <1>3 DEF LocksExclude, Excludes

\* A job that loads a valid catalog.
LEMMA LoadCatalogKeeps ==
    ASSUME CatalogInv, NEW j \in Jobs, NEW c \in Catalogs, LoadCatalog(j, c)
    PROVE CatalogInv'
  <1>1. /\ at[j] = 0 /\ Valid(Catalog[c]) /\ UNCHANGED <<rows, synced, held, seen>>
        /\ loading' = [loading EXCEPT ![j] = c] /\ at' = [at EXCEPT ![j] = 1]
    BY DEF LoadCatalog
  <1>2. j \in CatalogProcesses /\ \A p \in Pages : p # j /\ p \in CatalogProcesses
    BY CatalogAssumption DEF CatalogProcesses
  <1>3. /\ at' \in [CatalogProcesses -> 0..10] /\ DOMAIN loading' = Jobs
        /\ at'[j] = 1 /\ loading'[j] = c
        /\ \A q \in CatalogProcesses : q # j => at'[q] = at[q]
        /\ \A k \in Jobs : k # j => loading'[k] = loading[k]
    BY <1>1, <1>2 DEF CatalogInv, CatalogTypeOK
  <1>4. CatalogTypeOK'
    BY <1>1, <1>2, <1>3 DEF CatalogInv, CatalogTypeOK, CatalogProcesses
  <1>5. LocksExclude'
    BY <1>1, <1>2, <1>3 DEF CatalogInv, LocksExclude, CatalogProcesses, Excludes
  <1>6. ReadIsCurrent' /\ ActiveIsLatest' /\ ServedIsOneCatalog'
    <2>1. \A p \in Pages : at'[p] = at[p] /\ seen'[p] = seen[p]
      BY <1>1, <1>2, <1>3
    <2>2. ActiveIsLatest'
      BY <1>1 DEF CatalogInv, ActiveIsLatest
    <2>3. ServedIsOneCatalog'
      BY <1>1, <2>1 DEF CatalogInv, ServedIsOneCatalog
    <2>4. ReadIsCurrent'
      BY <1>1, <2>1 DEF CatalogInv, ReadIsCurrent, Bare
    <2> QED BY <2>2, <2>3, <2>4
  <1> QED BY <1>4, <1>5, <1>6 DEF CatalogInv

\* A job that alters its next table.
LEMMA AlterTableKeeps ==
    ASSUME CatalogInv, NEW j \in Jobs, AlterTable(j)
    PROVE CatalogInv'
  <1>1. /\ at[j] \in 1..5 /\ Blockers(j) = {} /\ UNCHANGED <<rows, synced, loading, seen>>
        /\ held' = [held EXCEPT ![j] = @ \cup Wanted(j)] /\ at' = [at EXCEPT ![j] = @ + 1]
    BY Stated DEF AlterTable
  <1>2. j \in CatalogProcesses /\ \A p \in Pages : p # j /\ p \in CatalogProcesses
    BY CatalogAssumption DEF CatalogProcesses
  <1>3. /\ at' \in [CatalogProcesses -> 0..10] /\ DOMAIN held' = CatalogProcesses
        /\ at'[j] = at[j] + 1 /\ held'[j] = held[j] \cup Wanted(j)
        /\ \A q \in CatalogProcesses : q # j => at'[q] = at[q] /\ held'[q] = held[q]
    BY <1>1, <1>2 DEF CatalogInv, CatalogTypeOK
  <1>4. at[j] = 5 => "destinations" \in Wanted(j)
    BY <1>2, Stated DEF Wanted
  <1>5. CatalogTypeOK'
    BY <1>1, <1>2, <1>3 DEF CatalogInv, CatalogTypeOK, CatalogProcesses
  <1>6. LocksExclude'
    <2>1. \A x, y \in CatalogProcesses : Excludes(x, y) => held'[x] \cap held'[y] = {}
      BY <1>1, <1>2, LocksTaken DEF CatalogInv
    <2>2. ASSUME NEW k \in Jobs, at'[k] = 6 PROVE "destinations" \in held'[k]
      BY <1>1, <1>3, <1>4, <2>2 DEF CatalogInv, LocksExclude, CatalogProcesses
    <2>3. \A p \in Pages : at'[p] > 2 => "destinations" \in held'[p]
      BY <1>2, <1>3 DEF CatalogInv, LocksExclude
    <2> QED BY <2>1, <2>2, <2>3 DEF LocksExclude, Excludes
  <1>7. \A p \in Pages : at'[p] = at[p] /\ seen'[p] = seen[p]
    BY <1>1, <1>2, <1>3
  <1>8. ActiveIsLatest' /\ ServedIsOneCatalog'
    BY <1>1, <1>7 DEF CatalogInv, ActiveIsLatest, ServedIsOneCatalog
  <1>9. ReadIsCurrent'
    BY <1>1, <1>7 DEF CatalogInv, ReadIsCurrent, Bare
  <1> QED BY <1>5, <1>6, <1>8, <1>9 DEF CatalogInv

\* The upserts and the retirement make a catalog's rows the active ones.
LEMMA WrittenIsActive ==
    ASSUME CatalogTypeOK, NEW c \in Catalogs, NEW t \in Kinds
    PROVE /\ [i \in {k \in DOMAIN Written(Catalog[c])[t] : Written(Catalog[c])[t][k].active}
                  |-> Written(Catalog[c])[t][i].refs] = Catalog[c][t]
          /\ \A i \in DOMAIN Written(Catalog[c])[t] :
                 /\ Written(Catalog[c])[t][i] =
                        [refs |-> Written(Catalog[c])[t][i].refs,
                         active |-> Written(Catalog[c])[t][i].active]
                 /\ Written(Catalog[c])[t][i].active \in BOOLEAN
  <1>1. PICK s : s = Catalog[c][t]
    OBVIOUS
  <1>2. PICK r : r = rows[t]
    OBVIOUS
  <1>3. PICK w : w = Written(Catalog[c])[t]
    OBVIOUS
  <1>4. PICK new : new = Upserted(t, Catalog[c])
    OBVIOUS
  <1>5. PICK old : old = Retired(t, Catalog[c])
    OBVIOUS
  <1>6. /\ DOMAIN w = DOMAIN new \cup DOMAIN old
        /\ \A i \in DOMAIN new : w[i] = new[i]
        /\ \A i \in DOMAIN old \ DOMAIN new : w[i] = old[i]
    BY <1>3, <1>4, <1>5 DEF Written
  <1>7. new = [i \in DOMAIN s |-> [refs |-> s[i], active |-> TRUE]]
    BY <1>1, <1>4 DEF Upserted
  <1>8. old = [i \in DOMAIN r \ DOMAIN s |-> [r[i] EXCEPT !.active = FALSE]]
    BY <1>1, <1>2, <1>5 DEF Retired
  <1>9. \A i \in DOMAIN r : r[i] = [refs |-> r[i].refs, active |-> r[i].active]
    BY <1>2 DEF CatalogTypeOK
  <1>10. /\ DOMAIN new = DOMAIN s
         /\ \A i \in DOMAIN s : new[i] = [refs |-> s[i], active |-> TRUE]
    BY <1>7
  <1>11. /\ DOMAIN old = DOMAIN r \ DOMAIN s
         /\ \A i \in DOMAIN old : old[i] = [refs |-> r[i].refs, active |-> FALSE]
    <2>1. DOMAIN old = DOMAIN r \ DOMAIN s
      BY <1>8
    <2>2. ASSUME NEW i \in DOMAIN old PROVE old[i] = [refs |-> r[i].refs, active |-> FALSE]
      <3>1. r[i] = [refs |-> r[i].refs, active |-> r[i].active]
        BY <1>9, <2>1
      <3>2. old[i] = [r[i] EXCEPT !.active = FALSE]
        BY <1>8, <2>1
      <3> QED BY <3>1, <3>2
    <2> QED BY <2>1, <2>2
  <1>12. s = [i \in DOMAIN s |-> s[i]]
    BY <1>1, CatalogAssumption
  <1>13. {k \in DOMAIN w : w[k].active} = DOMAIN s
    <2>1. ASSUME NEW k \in DOMAIN s PROVE k \in DOMAIN w /\ w[k].active
      <3>1. w[k] = [refs |-> s[k], active |-> TRUE]
        BY <1>6, <1>10
      <3> QED BY <3>1, <1>6, <1>10
    <2>2. ASSUME NEW k \in DOMAIN w, k \notin DOMAIN s PROVE ~ w[k].active
      <3>1. w[k] = [refs |-> r[k].refs, active |-> FALSE]
        BY <1>6, <1>10, <1>11, <2>2
      <3> QED BY <3>1
    <2> QED BY <2>1, <2>2
  <1>14. \A i \in DOMAIN s : w[i].refs = s[i]
    BY <1>6, <1>10
  <1>15. [i \in {k \in DOMAIN w : w[k].active} |-> w[i].refs] = s
    BY <1>12, <1>13, <1>14
  <1>16. \A i \in DOMAIN w : /\ w[i] = [refs |-> w[i].refs, active |-> w[i].active]
                             /\ w[i].active \in BOOLEAN
    <2> TAKE i \in DOMAIN w
    <2>1. CASE i \in DOMAIN s
      <3>1. w[i] = [refs |-> s[i], active |-> TRUE]
        BY <1>6, <1>10, <2>1
      <3> QED BY <3>1
    <2>2. CASE i \notin DOMAIN s
      <3>1. w[i] = [refs |-> r[i].refs, active |-> FALSE]
        BY <1>6, <1>10, <1>11, <2>2
      <3> QED BY <3>1
    <2> QED BY <2>1, <2>2
  <1>17. \A x : x = w =>
             /\ [i \in {k \in DOMAIN x : x[k].active} |-> x[i].refs] = s
             /\ \A i \in DOMAIN x : /\ x[i] = [refs |-> x[i].refs, active |-> x[i].active]
                                    /\ x[i].active \in BOOLEAN
    BY <1>15, <1>16
  <1> QED BY <1>1, <1>3, <1>17

\* The commit: nobody can be past its second statement then.
LEMMA SyncCatalogKeeps ==
    ASSUME CatalogInv, NEW j \in Jobs, SyncCatalog(j)
    PROVE CatalogInv'
  <1>1. /\ at[j] = 6 /\ UNCHANGED <<loading, seen>> /\ Leave(j)
        /\ rows' = Written(Catalog[loading[j]]) /\ synced' = loading[j]
    BY Stated DEF SyncCatalog
  <1>2. j \in CatalogProcesses /\ \A p \in Pages : p # j /\ p \in CatalogProcesses
    BY CatalogAssumption DEF CatalogProcesses
  <1>3. PICK c \in Catalogs : c = loading[j] /\ Valid(Catalog[c])
    BY <1>1 DEF CatalogInv, CatalogTypeOK
  <1>4. /\ LocksExclude' /\ at' \in [CatalogProcesses -> 0..10]
        /\ DOMAIN held' = CatalogProcesses
        /\ at'[j] = 0 /\ \A q \in CatalogProcesses : q # j => at'[q] = at[q]
    BY <1>1, <1>2, LocksLeft DEF CatalogInv
  <1>5. PICK w : w = Written(Catalog[c])
    OBVIOUS
  <1>6. DOMAIN w = Kinds
    BY <1>5 DEF Written
  <1>7. \A t \in Kinds :
            /\ [i \in {k \in DOMAIN w[t] : w[t][k].active} |-> w[t][i].refs] = Catalog[c][t]
            /\ \A i \in DOMAIN w[t] :
                   /\ w[t][i] = [refs |-> w[t][i].refs, active |-> w[t][i].active]
                   /\ w[t][i].active \in BOOLEAN
    BY <1>5, WrittenIsActive DEF CatalogInv
  <1>8. rows' = w /\ synced' = c
    BY <1>1, <1>3, <1>5
  <1>9. CatalogTypeOK'
    <2>1. /\ synced' \in Catalogs /\ Valid(Catalog[synced']) /\ DOMAIN rows' = Kinds
      BY <1>3, <1>6, <1>8
    <2>2. \A t \in Kinds : \A i \in DOMAIN rows'[t] :
              /\ rows'[t][i] = [refs |-> rows'[t][i].refs, active |-> rows'[t][i].active]
              /\ rows'[t][i].active \in BOOLEAN
      BY <1>7, <1>8
    <2>3. \A k \in Jobs : /\ at'[k] <= 6
                          /\ at'[k] > 0 => /\ loading'[k] \in Catalogs
                                          /\ Valid(Catalog[loading'[k]])
      BY <1>1, <1>4 DEF CatalogInv, CatalogTypeOK, CatalogProcesses
    <2>4. DOMAIN loading' = Jobs /\ DOMAIN seen' = Pages
      BY <1>1 DEF CatalogInv, CatalogTypeOK
    <2> QED BY <1>4, <2>1, <2>2, <2>3, <2>4 DEF CatalogTypeOK
  <1>10. ActiveIsLatest'
    BY <1>7, <1>8 DEF ActiveIsLatest
  <1>11. ReadIsCurrent'
    <2> SUFFICES ASSUME NEW p \in Pages, at[p] > 0
                 PROVE /\ DOMAIN seen[p] = StatedTables(at[p] - 1)
                       /\ StatedTables(at[p] - 1) \ {"regions"} = {}
      BY <1>1, <1>2, <1>4 DEF ReadIsCurrent
    <2>1. DOMAIN seen[p] = StatedTables(at[p] - 1)
      BY DEF CatalogInv, ReadIsCurrent
    <2>2. Excludes(p, j) /\ "destinations" \in held[j]
      BY <1>1, <1>2 DEF Excludes, CatalogInv, LocksExclude
    <2>3. ~ at[p] > 2
      BY <1>2, <2>2 DEF CatalogInv, LocksExclude
    <2>4. at[p] \in {1, 2}
      BY <1>2, <2>3 DEF CatalogInv, CatalogTypeOK
    <2>5. StatedTables(at[p] - 1) \subseteq {"regions"}
      BY <2>4, StatedNext, Stated
    <2> QED BY <2>1, <2>5
  <1>12. ServedIsOneCatalog'
    BY <1>1, <1>2, <1>4 DEF CatalogInv, ServedIsOneCatalog
  <1> QED BY <1>4, <1>9, <1>10, <1>11, <1>12 DEF CatalogInv

\* A transaction that ends without a commit.
LEMMA EndsEmpty ==
    ASSUME CatalogInv, NEW p \in CatalogProcesses, Leave(p),
           UNCHANGED <<rows, synced, loading>>,
           DOMAIN seen' = Pages, \A q \in Pages : q # p => seen'[q] = seen[q],
           p \in Pages => (seen'[p] = << >> \/ (/\ seen'[p] = seen[p] /\ at[p] = 10))
    PROVE CatalogInv'
  <1>1. /\ LocksExclude' /\ at' \in [CatalogProcesses -> 0..10]
        /\ DOMAIN held' = CatalogProcesses
        /\ at'[p] = 0 /\ \A q \in CatalogProcesses : q # p => at'[q] = at[q]
    BY LocksLeft DEF CatalogInv
  <1>2. CatalogTypeOK'
    BY <1>1 DEF CatalogInv, CatalogTypeOK, CatalogProcesses
  <1>3. \A q \in Pages : q # p => at'[q] = at[q] /\ seen'[q] = seen[q]
    BY <1>1 DEF CatalogProcesses
  <1>4. ReadIsCurrent'
    <2>1. ASSUME NEW q \in Pages, at'[q] > 0
          PROVE /\ DOMAIN seen'[q] = StatedTables(at'[q] - 1)
                /\ \A t \in StatedTables(at'[q] - 1) \ {"regions"} :
                       seen'[q][t] = IF at'[q] = 10 THEN Catalog[synced][t] ELSE Bare(t)
      <3>1. at'[q] = at[q] /\ seen'[q] = seen[q]
        BY <1>1, <1>3, <2>1
      <3> QED BY <2>1, <3>1 DEF CatalogInv, ReadIsCurrent
    <2> QED BY <2>1 DEF ReadIsCurrent, Bare
  <1>5. ActiveIsLatest'
    BY DEF CatalogInv, ActiveIsLatest
  <1>6. ServedIsOneCatalog'
    <2> SUFFICES ASSUME NEW q \in Pages, at'[q] = 0, seen'[q] # << >>
                 PROVE \E c \in Catalogs : \A t \in Kinds \ {"regions"} :
                           seen'[q][t] = Catalog[c][t]
      BY DEF ServedIsOneCatalog
    <2>1. CASE q # p
      BY <1>3, <2>1 DEF CatalogInv, ServedIsOneCatalog
    <2>2. CASE q = p
      <3>1. at[p] = 10 /\ seen'[p] = seen[p]
        BY <2>2
      <3>2. StatedTables(9) = Kinds
        BY StatedNext
      <3>3. \A t \in Kinds \ {"regions"} : seen[p][t] = Catalog[synced][t]
        BY <2>2, <3>1, <3>2 DEF CatalogInv, ReadIsCurrent
      <3> QED BY <2>2, <3>1, <3>3 DEF CatalogInv, CatalogTypeOK
    <2> QED BY <2>1, <2>2
  <1> QED BY <1>1, <1>2, <1>4, <1>5, <1>6 DEF CatalogInv

\* The transactions that end without a commit.
LEMMA EndingsKeep ==
    ASSUME CatalogInv,
           \/ \E j \in Jobs : SyncRefused(j)
           \/ \E p \in Pages : Serve(p)
           \/ \E p \in CatalogProcesses : DeadlockVictim(p)
    PROVE CatalogInv'
  <1>1. ASSUME NEW j \in Jobs, SyncRefused(j) PROVE CatalogInv'
    <2>1. j \in CatalogProcesses /\ j \notin Pages
      BY CatalogAssumption DEF CatalogProcesses
    <2> QED BY <1>1, <2>1, EndsEmpty DEF SyncRefused, CatalogInv, CatalogTypeOK
  <1>2. ASSUME NEW p \in Pages, Serve(p) PROVE CatalogInv'
    <2>1. /\ p \in CatalogProcesses /\ at[p] = 10 /\ Leave(p)
          /\ seen' = [seen EXCEPT ![p] = IF Valid(@) THEN @ ELSE << >>]
          /\ UNCHANGED <<rows, synced, loading>>
      BY <1>2, Stated DEF Serve, CatalogProcesses
    <2>2. /\ DOMAIN seen' = Pages /\ \A q \in Pages : q # p => seen'[q] = seen[q]
          /\ seen'[p] = << >> \/ seen'[p] = seen[p]
      BY <2>1 DEF CatalogInv, CatalogTypeOK
    <2> QED BY <2>1, <2>2, EndsEmpty
  <1>3. ASSUME NEW p \in CatalogProcesses, DeadlockVictim(p) PROVE CatalogInv'
    <2>1. /\ Leave(p) /\ UNCHANGED <<rows, synced, loading>>
          /\ seen' = IF p \in Pages THEN [seen EXCEPT ![p] = << >>] ELSE seen
      BY <1>3 DEF DeadlockVictim
    <2>2. /\ DOMAIN seen' = Pages /\ \A q \in Pages : q # p => seen'[q] = seen[q]
          /\ p \in Pages => seen'[p] = << >>
      BY <2>1 DEF CatalogInv, CatalogTypeOK
    <2> QED BY <2>1, <2>2, EndsEmpty
  <1> QED BY <1>1, <1>2, <1>3

\* A page that begins to read.
LEMMA BeginReadKeeps ==
    ASSUME CatalogInv, NEW p \in Pages, BeginRead(p)
    PROVE CatalogInv'
  <1>1. /\ at[p] = 0 /\ UNCHANGED <<rows, synced, loading, held>>
        /\ seen' = [seen EXCEPT ![p] = << >>] /\ at' = [at EXCEPT ![p] = 1]
    BY DEF BeginRead
  <1>2. p \in CatalogProcesses /\ \A j \in Jobs : p # j /\ j \in CatalogProcesses
    BY CatalogAssumption DEF CatalogProcesses
  <1>3. /\ at' \in [CatalogProcesses -> 0..10] /\ DOMAIN seen' = Pages
        /\ at'[p] = 1 /\ seen'[p] = << >>
        /\ \A q \in CatalogProcesses : q # p => at'[q] = at[q]
        /\ \A q \in Pages : q # p => seen'[q] = seen[q]
    BY <1>1, <1>2 DEF CatalogInv, CatalogTypeOK
  <1>4. CatalogTypeOK'
    BY <1>1, <1>2, <1>3 DEF CatalogInv, CatalogTypeOK, CatalogProcesses
  <1>5. LocksExclude'
    BY <1>1, <1>2, <1>3 DEF CatalogInv, LocksExclude, CatalogProcesses, Excludes
  <1>6. ReadIsCurrent'
    <2>1. DOMAIN << >> = {}
      OBVIOUS
    <2>2. StatedTables(1 - 1) = {}
      BY StatedNext
    <2>3. ASSUME NEW q \in Pages, q # p PROVE at'[q] = at[q] /\ seen'[q] = seen[q]
      BY <1>3, <2>3 DEF CatalogProcesses
    <2>4. ASSUME NEW q \in Pages, at'[q] > 0
          PROVE /\ DOMAIN seen'[q] = StatedTables(at'[q] - 1)
                /\ \A t \in StatedTables(at'[q] - 1) \ {"regions"} :
                       seen'[q][t] = IF at'[q] = 10 THEN Catalog[synced][t] ELSE Bare(t)
      <3>1. CASE q # p
        BY <2>3, <2>4, <3>1 DEF CatalogInv, ReadIsCurrent
      <3>2. CASE q = p
        BY <1>3, <2>1, <2>2, <3>2
      <3> QED BY <3>1, <3>2
    <2> QED BY <1>1, <2>4 DEF ReadIsCurrent, Bare
  <1>7. ActiveIsLatest' /\ ServedIsOneCatalog'
    BY <1>1, <1>3 DEF CatalogInv, ActiveIsLatest, ServedIsOneCatalog, CatalogProcesses
  <1> QED BY <1>4, <1>5, <1>6, <1>7 DEF CatalogInv

\* The next statement of a page reads the catalog synchronised last.
LEMMA SelectKeeps ==
    ASSUME CatalogInv, NEW p \in Pages, Select(p)
    PROVE CatalogInv'
  <1>1. PICK n \in 1..9 : n = at[p]
    BY Stated DEF Select
  <1>2. /\ Blockers(p) = {} /\ UNCHANGED <<rows, synced, loading>>
        /\ held' = [held EXCEPT ![p] = @ \cup Wanted(p)] /\ at' = [at EXCEPT ![p] = @ + 1]
    BY DEF Select
  <1>3. p \in CatalogProcesses /\ \A j \in Jobs : p # j /\ j \in CatalogProcesses
    BY CatalogAssumption DEF CatalogProcesses
  <1>4. PICK s : s = seen[p]
    OBVIOUS
  <1>5. /\ DOMAIN seen' = Pages /\ \A q \in Pages : q # p => seen'[q] = seen[q]
        /\ seen'[p] = IF Statements[n][1] = "links" THEN Linked(s)
                      ELSE [k \in DOMAIN s \cup {Statements[n][1]} |->
                               IF k = Statements[n][1]
                               THEN Returned(Statements[n][1], Statements[n][2]) ELSE s[k]]
    BY <1>1, <1>4 DEF Select, CatalogInv, CatalogTypeOK
  <1>6. /\ at' \in [CatalogProcesses -> 0..10] /\ DOMAIN held' = CatalogProcesses
        /\ at'[p] = n + 1 /\ held'[p] = held[p] \cup Wanted(p)
        /\ \A q \in CatalogProcesses : q # p => at'[q] = at[q] /\ held'[q] = held[q]
    BY <1>1, <1>2, <1>3 DEF CatalogInv, CatalogTypeOK
  <1>7. /\ DOMAIN s = StatedTables(n - 1)
        /\ \A t \in StatedTables(n - 1) \ {"regions"} : s[t] = Bare(t)
    BY <1>1, <1>4 DEF CatalogInv, ReadIsCurrent
  <1>8. CatalogTypeOK'
    BY <1>2, <1>3, <1>5, <1>6 DEF CatalogInv, CatalogTypeOK, CatalogProcesses
  <1>9. LocksExclude'
    <2>1. \A x, y \in CatalogProcesses : Excludes(x, y) => held'[x] \cap held'[y] = {}
      BY <1>2, <1>3, LocksTaken DEF CatalogInv
    <2>2. n = 2 => "destinations" \in Wanted(p)
      BY <1>1, <1>3, Stated DEF Wanted
    <2>3. ASSUME NEW q \in Pages, at'[q] > 2 PROVE "destinations" \in held'[q]
      <3>1. CASE q # p
        BY <1>6, <2>3, <3>1 DEF CatalogInv, LocksExclude, CatalogProcesses
      <3>2. CASE q = p
        BY <1>1, <1>6, <2>2, <2>3, <3>2 DEF CatalogInv, LocksExclude
      <3> QED BY <3>1, <3>2
    <2>4. \A j \in Jobs : at'[j] = 6 => "destinations" \in held'[j]
      BY <1>3, <1>6 DEF CatalogInv, LocksExclude
    <2> QED BY <2>1, <2>3, <2>4 DEF LocksExclude, Excludes
  <1>10. /\ DOMAIN seen'[p] = StatedTables(n)
         /\ \A t \in StatedTables(n) \ {"regions"} :
                seen'[p][t] = IF n = 9 THEN Catalog[synced][t] ELSE Bare(t)
    <2>1. CASE n = 9
      <3>1. seen'[p] = Linked(s)
        BY <1>5, <2>1, Stated
      <3>2. DOMAIN Linked(s) = Kinds
        BY DEF Linked
      <3>3. StatedTables(8) = Kinds /\ StatedTables(9) = Kinds
        BY StatedNext
      <3>4. \A t \in Kinds \ {"regions"} : s[t] = Bare(t)
        BY <1>7, <2>1, <3>3
      <3>5. \A t \in Kinds \ {"regions"} : Linked(s)[t] = Catalog[synced][t]
        BY <3>4, LinkedIsTable DEF CatalogInv
      <3> QED BY <2>1, <3>1, <3>2, <3>3, <3>5
    <2>2. CASE n \in 1..8
      <3>1. PICK t : t = Statements[n][1]
        OBVIOUS
      <3>2. t \in Kinds /\ t # "links" /\ Statements[n][2] \in SUBSET Kinds
        BY <2>2, <3>1, Stated DEF Kinds
      <3>3. Returned(t, Statements[n][2]) = Bare(t)
        BY <3>2, ReturnedIsTable DEF CatalogInv
      <3>4. seen'[p] = [k \in DOMAIN s \cup {t} |-> IF k = t THEN Bare(t) ELSE s[k]]
        BY <1>5, <3>1, <3>2, <3>3
      <3>5. StatedTables(n) = StatedTables(n - 1) \cup {t}
        BY <2>2, <3>1, StatedNext
      <3>6. PICK new : new = [k \in DOMAIN s \cup {t} |-> IF k = t THEN Bare(t) ELSE s[k]]
        OBVIOUS
      <3>7. /\ DOMAIN new = StatedTables(n)
            /\ \A u \in StatedTables(n) \ {"regions"} : new[u] = Bare(u)
        BY <1>7, <3>5, <3>6
      <3> QED BY <2>2, <3>4, <3>6, <3>7
    <2> QED BY <2>1, <2>2
  <1>11. ReadIsCurrent'
    <2>1. \A t : Bare(t)' = Bare(t)
      BY <1>2 DEF Bare
    <2>2. (n + 1) - 1 = n /\ (n + 1 = 10 <=> n = 9)
      OBVIOUS
    <2>3. ASSUME NEW q \in Pages, q # p PROVE at'[q] = at[q] /\ seen'[q] = seen[q]
      BY <1>5, <1>6, <2>3 DEF CatalogProcesses
    <2>4. ASSUME NEW q \in Pages, at'[q] > 0
          PROVE /\ DOMAIN seen'[q] = StatedTables(at'[q] - 1)
                /\ \A t \in StatedTables(at'[q] - 1) \ {"regions"} :
                       seen'[q][t] = IF at'[q] = 10 THEN Catalog[synced][t] ELSE Bare(t)
      <3>1. CASE q # p
        BY <2>3, <2>4, <3>1 DEF CatalogInv, ReadIsCurrent
      <3>2. CASE q = p
        BY <1>6, <1>10, <2>2, <3>2
      <3> QED BY <3>1, <3>2
    <2> QED BY <1>2, <2>4 DEF ReadIsCurrent, Bare
  <1>12. ActiveIsLatest'
    BY <1>2 DEF CatalogInv, ActiveIsLatest
  <1>13. ServedIsOneCatalog'
    BY <1>5, <1>6 DEF CatalogInv, ServedIsOneCatalog, CatalogProcesses
  <1> QED BY <1>8, <1>9, <1>11, <1>12, <1>13 DEF CatalogInv

\* The active rows are one catalog, the one synchronised last, and a page is served one
\* catalog (catalog_sync.py:60-82, catalog_repository.py:151-639).
THEOREM CatalogIsSafe == CatalogSpec => []CatalogSafe
<1>1. CatalogInit => CatalogInv
  <2> SUFFICES ASSUME CatalogInit PROVE CatalogInv
    OBVIOUS
  <2>1. PICK c \in Catalogs :
            /\ Valid(Catalog[c]) /\ synced = c
            /\ rows = [t \in Kinds |-> [i \in DOMAIN Catalog[c][t] |->
                          [refs |-> Catalog[c][t][i], active |-> TRUE]]]
    BY DEF CatalogInit
  <2>2. /\ loading = [j \in Jobs |-> CHOOSE d \in Catalogs : TRUE]
        /\ at = [p \in CatalogProcesses |-> 0] /\ held = [p \in CatalogProcesses |-> {}]
        /\ seen = [p \in Pages |-> << >>]
    BY DEF CatalogInit, CatalogProcesses
  <2>3. CatalogTypeOK
    <3>1. \A t \in Kinds : \A i \in DOMAIN rows[t] :
              /\ rows[t][i] = [refs |-> rows[t][i].refs, active |-> rows[t][i].active]
              /\ rows[t][i].active \in BOOLEAN
      <4> TAKE t \in Kinds
      <4>1. DOMAIN rows[t] = DOMAIN Catalog[c][t]
        BY <2>1
      <4> TAKE i \in DOMAIN rows[t]
      <4>2. rows[t][i] = [refs |-> Catalog[c][t][i], active |-> TRUE]
        BY <2>1, <4>1
      <4> QED BY <4>2
    <3>2. DOMAIN rows = Kinds /\ synced \in Catalogs /\ Valid(Catalog[synced])
      BY <2>1
    <3> QED BY <2>2, <3>1, <3>2 DEF CatalogTypeOK, CatalogProcesses
  <2>4. LocksExclude /\ ReadIsCurrent /\ ServedIsOneCatalog
    BY <2>2 DEF LocksExclude, ReadIsCurrent, ServedIsOneCatalog, CatalogProcesses
  <2>5. ActiveIsLatest
    <3> SUFFICES ASSUME NEW t \in Kinds
                 PROVE [i \in {k \in DOMAIN rows[t] : rows[t][k].active} |-> rows[t][i].refs]
                           = Catalog[synced][t]
      BY DEF ActiveIsLatest
    <3>1. PICK s : s = Catalog[c][t]
      OBVIOUS
    <3>2. s = [i \in DOMAIN s |-> s[i]]
      BY <3>1, CatalogAssumption
    <3>3. /\ DOMAIN rows[t] = DOMAIN s
          /\ \A i \in DOMAIN s : rows[t][i] = [refs |-> s[i], active |-> TRUE]
      BY <2>1, <3>1
    <3>4. PICK r : r = rows[t]
      OBVIOUS
    <3>5. {k \in DOMAIN r : r[k].active} = DOMAIN s /\ \A i \in DOMAIN s : r[i].refs = s[i]
      <4>1. DOMAIN r = DOMAIN s
        BY <3>3, <3>4
      <4>2. \A i \in DOMAIN s : r[i] = [refs |-> s[i], active |-> TRUE]
        BY <3>3, <3>4
      <4>3. ASSUME NEW i \in DOMAIN s PROVE r[i].active /\ r[i].refs = s[i]
        <5>1. r[i] = [refs |-> s[i], active |-> TRUE]
          BY <4>2
        <5> QED BY <5>1
      <4>4. \A k \in DOMAIN s : r[k].active
        BY <4>3
      <4>5. {k \in DOMAIN s : r[k].active} = DOMAIN s
        BY <4>4
      <4> QED BY <4>1, <4>3, <4>5
    <3>6. [i \in {k \in DOMAIN r : r[k].active} |-> r[i].refs] = s
      BY <3>2, <3>5
    <3>7. \A x : x = r => [i \in {k \in DOMAIN x : x[k].active} |-> x[i].refs] = s
      BY <3>6
    <3> QED BY <2>1, <3>1, <3>4, <3>7
  <2> QED BY <2>3, <2>4, <2>5 DEF CatalogInv
<1>2. CatalogInv /\ [CatalogNext]_catalogVars => CatalogInv'
  <2> SUFFICES ASSUME CatalogInv, [CatalogNext]_catalogVars PROVE CatalogInv'
    OBVIOUS
  <2>1. CASE UNCHANGED catalogVars
    <3>1. CatalogTypeOK'
      BY <2>1 DEF catalogVars, CatalogInv, CatalogTypeOK
    <3>2. LocksExclude' /\ ActiveIsLatest' /\ ServedIsOneCatalog'
      BY <2>1 DEF catalogVars, CatalogInv, LocksExclude, Excludes, ActiveIsLatest,
         ServedIsOneCatalog
    <3>3. ReadIsCurrent'
      BY <2>1 DEF catalogVars, CatalogInv, ReadIsCurrent, Bare
    <3> QED BY <3>1, <3>2, <3>3 DEF CatalogInv
  <2> QED BY <2>1, LoadCatalogKeeps, AlterTableKeeps, SyncCatalogKeeps, EndingsKeep,
             BeginReadKeeps, SelectKeeps DEF CatalogNext, CatalogProcesses
<1>3. CatalogInv => CatalogSafe
  BY DEF CatalogInv, CatalogSafe
<1> QED BY <1>1, <1>2, <1>3, PTL DEF CatalogSpec

-----------------------------------------------------------------------------
(* The jobs that keep the weather.                                         *)

Below == {pair \in Nat \X Nat : pair[1] < pair[2]}

\* Every set of naturals that is not empty has a least member.
LEMMA LeastOf ==
  ASSUME NEW S, S \subseteq Nat, S # {}
  PROVE  \E m \in S : \A n \in S : m <= n
<1>1. IsWellFoundedOn(Below, Nat)
  BY NatLessThanWellFounded, Zenon DEF OpToRel, Below
<1>2. PICK m \in S : \A n \in S : <<n, m>> \notin Below
  BY <1>1, WFMin, Zenon
<1>3. ASSUME NEW n \in S PROVE m <= n
  <2>1. n \in Nat /\ m \in Nat OBVIOUS
  <2>2. ~(n < m) BY <1>2, <2>1 DEF Below
  <2> QED BY <2>1, <2>2
<1> QED BY <1>3

\* A set of numbers below a bound has a greatest one.
LEMMA GreatestOf ==
  ASSUME NEW K \in Nat, NEW S, S \subseteq 0..K, S # {}
  PROVE  \E m \in S : \A n \in S : n <= m
<1> DEFINE T == {K - n : n \in S}
<1>1. T \subseteq Nat /\ T # {}
  <2>1. ASSUME NEW n \in S PROVE K - n \in Nat
    <3>1. n \in 0..K OBVIOUS
    <3> QED BY <3>1
  <2>2. PICK n : n \in S OBVIOUS
  <2>3. K - n \in T BY <2>2
  <2> QED BY <2>1, <2>3
<1>2. PICK t \in T : \A u \in T : t <= u
  BY <1>1, LeastOf
<1>3. PICK m \in S : t = K - m
  BY <1>2
<1>4. ASSUME NEW n \in S PROVE n <= m
  <2>1. K - m <= K - n BY <1>2, <1>3
  <2>2. n \in 0..K /\ m \in 0..K OBVIOUS
  <2> QED BY <2>1, <2>2
<1> QED BY <1>4

-----------------------------------------------------------------------------
(* Forecast runs.                                                          *)

Statuses == {"building", "complete", "failed", "rejected"}

ForecastTypeOK ==
    /\ cycleNow \in Nat
    /\ RunIds \subseteq 1..MaxRuns
    /\ runs \in [RunIds -> [cycle : Nat, status : Statuses, areas : SUBSET Areas, done : Nat]]
    /\ heads \in [Areas -> Nat]
    /\ refresh \in [Refreshers -> [at : {"stopped", "fetch", "publish"}, run : Nat,
                                   cycle : Nat, todo : SUBSET Areas, good : SUBSET Areas]]
    /\ everDone \subseteq Nat

Working(p) == refresh[p].at # "stopped"

\* A command that runs builds a run of its own, of the cycle it began with.
RefreshKept ==
    \A p \in Refreshers : Working(p) =>
        /\ refresh[p].run \in RunIds
        /\ runs[refresh[p].run].status = "building"
        /\ runs[refresh[p].run].cycle = refresh[p].cycle
        /\ \A q \in Refreshers \ {p} : Working(q) => refresh[q].run # refresh[p].run

DoneKept == \A i \in RunIds : Complete(i) => runs[i].cycle \in everDone

ForecastInv == ForecastTypeOK /\ RefreshKept /\ DoneKept /\ ForecastSafe

\* The cycle whose run stands for a set of cycles: the first 00Z cycle if there
\* is one, the first of all otherwise.
FirstOf(cycles) ==
    LET best == IF \E d \in cycles : Midnight(d)
                THEN {d \in cycles : Midnight(d)} ELSE cycles
    IN  CHOOSE d \in best : \A e \in best : d <= e
OfDay(cycles, c) == {d \in cycles : Day(d) = Day(c)}
OfWeek(cycles, c) == {d \in cycles : Week(d) = Week(c)}
Kind(cycle) == \E i \in RunIds : Complete(i) /\ runs[i].cycle = cycle

LEMMA SampledIs ==
  \A c, cycles : Sampled(c, cycles) <=> Kind(FirstOf(cycles))
BY DEF Sampled, Kind, FirstOf

\* It comes before every other in the order the retention job sorts by.
LEMMA FirstIsFirst ==
  ASSUME NEW cycles, cycles \subseteq Nat, cycles # {}
  PROVE  /\ FirstOf(cycles) \in cycles
         /\ \A d \in cycles : d = FirstOf(cycles) \/ Before(FirstOf(cycles), d)
<1> DEFINE best == IF \E d \in cycles : Midnight(d)
                   THEN {d \in cycles : Midnight(d)} ELSE cycles
<1>1. best \subseteq cycles /\ best # {}
  <2>1. CASE \E d \in cycles : Midnight(d)
    BY <2>1
  <2>2. CASE ~\E d \in cycles : Midnight(d)
    BY <2>2
  <2> QED BY <2>1, <2>2
<1>2. \E d \in best : \A e \in best : d <= e
  <2> HIDE DEF best
  <2>1. best \subseteq Nat BY <1>1
  <2> QED BY <1>1, <2>1, LeastOf
<1>3. /\ FirstOf(cycles) \in best
      /\ \A e \in best : FirstOf(cycles) <= e
  BY <1>2 DEF FirstOf
<1> HIDE DEF best
<1>4. ASSUME NEW d \in cycles, d # FirstOf(cycles)
      PROVE  Before(FirstOf(cycles), d)
  <2>1. CASE d \in best
    <3>1. FirstOf(cycles) < d
      <4>1. FirstOf(cycles) \in cycles /\ FirstOf(cycles) <= d BY <2>1, <1>1, <1>3
      <4>2. FirstOf(cycles) \in Nat /\ d \in Nat BY <4>1
      <4> QED BY <4>1, <4>2, <1>4
    <3>2. Midnight(FirstOf(cycles)) = Midnight(d)
      BY <2>1, <1>3, <1>4 DEF best, Midnight
    <3> QED BY <3>1, <3>2 DEF Before
  <2>2. CASE d \notin best
    BY <2>2, <1>3, <1>4 DEF best, Before
  <2> QED BY <2>1, <2>2
<1> QED BY <1>1, <1>3, <1>4

\* and is the only one that does.
LEMMA FirstIsOne ==
  ASSUME NEW cycles, cycles \subseteq Nat, NEW f \in cycles,
         \A d \in cycles : d = f \/ Before(f, d)
  PROVE  f = FirstOf(cycles)
<1>1. /\ FirstOf(cycles) \in cycles
      /\ f = FirstOf(cycles) \/ Before(FirstOf(cycles), f)
  BY FirstIsFirst
<1>2. FirstOf(cycles) = f \/ Before(f, FirstOf(cycles))
  BY <1>1
<1>3. f \in Nat /\ FirstOf(cycles) \in Nat
  BY <1>1
<1> QED BY <1>1, <1>2, <1>3 DEF Before, Midnight

\* The first cycle of a larger set, when it is in the smaller one, is first there.
LEMMA FirstOfFewer ==
  ASSUME NEW more, more \subseteq Nat, NEW fewer, fewer \subseteq more,
         FirstOf(more) \in fewer
  PROVE  FirstOf(fewer) = FirstOf(more)
<1>1. \A d \in fewer : d = FirstOf(more) \/ Before(FirstOf(more), d)
  BY FirstIsFirst
<1> QED BY <1>1, FirstIsOne

\* A day and a week begin no later than their cycles, and cycles of one day are of
\* one week.
LEMMA DaysBegin ==
  ASSUME NEW c \in Nat
  PROVE  /\ Day(c) \in Nat /\ Day(c) * CyclesPerDay \in Nat /\ Day(c) * CyclesPerDay <= c
         /\ Week(c) \in Nat /\ Week(c) * DaysPerWeek * CyclesPerDay \in Nat
         /\ Week(c) * DaysPerWeek * CyclesPerDay <= c
<1>1. CyclesPerDay \in Nat \ {0} /\ DaysPerWeek \in Nat \ {0}
  BY ForecastAssumption
<1>2. \A a \in Nat, b \in Nat \ {0} : a \div b \in Nat /\ (a \div b) * b <= a
  OBVIOUS
<1>3. \A x, y, z \in Nat : x <= y => x * z <= y * z
  OBVIOUS
<1>4. Day(c) \in Nat /\ Day(c) * CyclesPerDay <= c
  BY <1>1, <1>2 DEF Day
<1>5. Week(c) \in Nat /\ Week(c) * DaysPerWeek <= Day(c)
  BY <1>1, <1>2, <1>4 DEF Week
<1>6. Week(c) * DaysPerWeek \in Nat
  BY <1>1, <1>5
<1>7. Week(c) * DaysPerWeek * CyclesPerDay <= Day(c) * CyclesPerDay
  BY <1>1, <1>3, <1>4, <1>5, <1>6
<1>8. /\ Day(c) * CyclesPerDay \in Nat
      /\ Week(c) * DaysPerWeek * CyclesPerDay \in Nat
  BY <1>1, <1>4, <1>6
<1>9. Week(c) * DaysPerWeek * CyclesPerDay <= c
  BY <1>4, <1>7, <1>8
<1> QED BY <1>4, <1>5, <1>8, <1>9

\* A new run takes a number that no stored run has.
LEMMA FreshIsNew ==
  ASSUME RunIds \subseteq 1..MaxRuns, Cardinality(RunIds) < MaxRuns
  PROVE  FreshId \in (1..MaxRuns) \ RunIds
<1>1. MaxRuns \in Nat
  BY ForecastAssumption
<1>2. IsFiniteSet(RunIds)
  <2>1. IsFiniteSet(1..MaxRuns) BY <1>1, FS_Interval
  <2> QED BY <2>1, FS_Subset
<1>3. Cardinality(RunIds) \in Nat
  BY <1>2, FS_CardinalityType
<1>4. NextId \in Nat /\ NextId <= MaxRuns /\ NextId > Cardinality(RunIds)
  BY <1>1, <1>3 DEF NextId
<1>5. ~(1..NextId \subseteq RunIds)
  <2>1. Cardinality(1..NextId) = NextId
    BY <1>4, <1>3, FS_Interval
  <2> QED BY <2>1, <1>2, <1>4, <1>3, FS_Subset
<1>6. FreshId \in 1..NextId /\ FreshId \notin RunIds
  BY <1>5 DEF FreshId
<1> QED BY <1>1, <1>4, <1>6

\* A batch is a part of what is still to be asked for.
LEMMA BatchIsOfTodo ==
  ASSUME NEW todo \in SUBSET Areas
  PROVE  NextBatch(todo) \subseteq todo
<1>1. BatchSize \in Nat
  BY ForecastAssumption
<1>2. CASE Cardinality(todo) <= BatchSize
  BY <1>2 DEF NextBatch
<1>3. CASE ~(Cardinality(todo) <= BatchSize)
  <2>1. IsFiniteSet(todo)
    BY ForecastAssumption, FS_Subset
  <2>2. PICK n \in Nat : ExistsBijection(1..n, todo)
    BY <2>1, FS_NatBijection
  <2>3. Cardinality(todo) = n
    BY <2>2, FS_CountingElements
  <2>4. BatchSize < n
    BY <1>1, <1>3, <2>3
  <2>5. PICK f \in Bijection(1..n, todo) : TRUE
    BY <2>2 DEF ExistsBijection
  <2> DEFINE batch == {f[i] : i \in 1..BatchSize}
  <2> DEFINE g == [i \in 1..BatchSize |-> f[i]]
  <2>6. batch \in SUBSET todo
    BY <2>4, <2>5, <1>1 DEF Bijection, Injection
  <2>7. g \in Bijection(1..BatchSize, batch)
    <3>1. 1..BatchSize \subseteq 1..n
      BY <2>4, <1>1
    <3>2. \A i, j \in 1..n : f[i] = f[j] => i = j
      BY <2>5 DEF Bijection, Injection, IsInjective
    <3>3. g \in [1..BatchSize -> batch] /\ \A i \in 1..BatchSize : g[i] = f[i]
      OBVIOUS
    <3>4. \A i, j \in 1..BatchSize : g[i] = g[j] => i = j
      BY <3>1, <3>2, <3>3
    <3>5. \A t \in batch : \E i \in 1..BatchSize : g[i] = t
      BY <3>3
    <3> HIDE DEF batch
    <3>6. DOMAIN g = 1..BatchSize
      BY <3>3
    <3> HIDE DEF g
    <3> QED BY <3>3, <3>4, <3>5, <3>6 DEF Bijection, Injection, Surjection, IsInjective
  <2>8. Cardinality(batch) = BatchSize
    BY <2>7, <1>1, FS_CountingElements DEF ExistsBijection
  <2> QED BY <1>3, <2>6, <2>8 DEF NextBatch
<1> QED BY <1>2, <1>3

LEMMA ForecastStarts == ForecastInit => ForecastInv
<1> SUFFICES ASSUME ForecastInit PROVE ForecastInv
  OBVIOUS
<1>1. RunIds = {} /\ everDone = {}
  BY DEF ForecastInit, RunIds
<1>2. ForecastTypeOK
  <2>1. runs \in [RunIds -> [cycle : Nat, status : Statuses, areas : SUBSET Areas, done : Nat]]
    BY <1>1 DEF ForecastInit, RunIds
  <2> QED BY <1>1, <2>1 DEF ForecastInit, ForecastTypeOK, Stopped
<1>3. RefreshKept /\ DoneKept
  BY <1>1 DEF ForecastInit, RefreshKept, DoneKept, Working, Stopped
<1>4. ForecastSafe
  BY <1>1 DEF ForecastInit, ForecastSafe, HeadsServeComplete, SamplesSurvive
<1> QED BY <1>2, <1>3, <1>4 DEF ForecastInv

\* What completed runs say is kept as long as they are and no head moves.
LEMMA CompleteRunsServe ==
  ASSUME ForecastInv, cycleNow' \in Nat, cycleNow' >= cycleNow,
         heads' = heads, everDone' = everDone,
         \A i \in RunIds : Complete(i) => i \in RunIds' /\ runs'[i] = runs[i]
  PROVE  ForecastSafe'
<1>1. HeadsServeComplete'
  BY DEF ForecastInv, ForecastTypeOK, ForecastSafe, HeadsServeComplete, Complete, RunIds
<1>2. ASSUME NEW c \in Nat PROVE Kind(c) => Kind(c)'
  BY DEF Kind, Complete, RunIds
<1>3. ASSUME NEW c \in everDone, NEW x \in Nat, NEW a \in Nat, Age(x)' <= a
      PROVE  Age(x) <= a
  <2>1. cycleNow \in Nat BY DEF ForecastInv, ForecastTypeOK
  <2>2. cycleNow' - x <= a BY <1>3 DEF Age
  <2>3. PICK now \in Nat, later \in Nat : now = cycleNow /\ later = cycleNow'
    BY <2>1
  <2>4. later >= now /\ later - x <= a
    BY <2>2, <2>3
  <2>5. now - x <= a
    BY <2>4
  <2> QED BY <2>3, <2>5 DEF Age
<1>4. ASSUME NEW c \in everDone
      PROVE /\ (Age(Day(c) * CyclesPerDay) <= DailyAge =>
                 Kind(FirstOf(OfDay(everDone, c))))'
            /\ (Age(Week(c) * DaysPerWeek * CyclesPerDay) <= WeeklyAge =>
                 Kind(FirstOf(OfWeek(everDone, c))))'
  <2>1. c \in Nat /\ everDone \subseteq Nat
    BY DEF ForecastInv, ForecastTypeOK
  <2>2. /\ FirstOf(OfDay(everDone, c)) \in Nat
        /\ FirstOf(OfWeek(everDone, c)) \in Nat
    BY <2>1, FirstIsFirst DEF OfDay, OfWeek
  <2>3. DailyAge \in Nat /\ WeeklyAge \in Nat
    BY ForecastAssumption
  <2>4. /\ Age(Day(c) * CyclesPerDay) <= DailyAge => Kind(FirstOf(OfDay(everDone, c)))
        /\ Age(Week(c) * DaysPerWeek * CyclesPerDay) <= WeeklyAge =>
              Kind(FirstOf(OfWeek(everDone, c)))
    BY SampledIs DEF ForecastInv, ForecastSafe, SamplesSurvive, OfDay, OfWeek
  <2>5. /\ Day(c) * CyclesPerDay \in Nat
        /\ Week(c) * DaysPerWeek * CyclesPerDay \in Nat
    BY <2>1, DaysBegin
  <2> QED BY <1>2, <1>3, <2>2, <2>3, <2>4, <2>5 DEF OfDay, OfWeek
<1>5. SamplesSurvive'
  <2>1. (\A c, cycles : Sampled(c, cycles) <=> Kind(FirstOf(cycles)))'
    BY SampledIs, PTL
  <2> QED BY <1>4, <2>1 DEF SamplesSurvive, OfDay, OfWeek
<1> QED BY <1>1, <1>5 DEF ForecastSafe

LEMMA IssueKeeps ==
  ASSUME ForecastInv, Issue \/ UNCHANGED forecastVars
  PROVE  ForecastInv'
<1>1. /\ cycleNow \in Nat /\ cycleNow' \in Nat /\ cycleNow' >= cycleNow
      /\ UNCHANGED <<runs, heads, refresh, everDone>>
  BY DEF Issue, forecastVars, ForecastInv, ForecastTypeOK
<1>2. ForecastTypeOK'
  BY <1>1 DEF ForecastInv, ForecastTypeOK, RunIds
<1>3. RefreshKept' /\ DoneKept'
  BY <1>1 DEF ForecastInv, RefreshKept, DoneKept, Working, RunIds, Complete
<1>4. ForecastSafe'
  BY <1>1, CompleteRunsServe DEF RunIds
<1> QED BY <1>2, <1>3, <1>4 DEF ForecastInv

LEMMA BeginKeeps ==
  ASSUME ForecastInv, NEW p \in Refreshers, NEW areas \in SUBSET Areas, BeginRefresh(p, areas)
  PROVE  ForecastInv'
<1> DEFINE new == [cycle |-> cycleNow, status |-> "building", areas |-> {}, done |-> 0]
<1>1. ForecastTypeOK /\ RefreshKept /\ DoneKept
  BY DEF ForecastInv
<1>2. FreshId \in (1..MaxRuns) \ RunIds /\ FreshId \in Nat
  <2>1. Cardinality(RunIds) < MaxRuns
    BY DEF BeginRefresh
  <2>2. FreshId \in (1..MaxRuns) \ RunIds
    BY <1>1, <2>1, FreshIsNew DEF ForecastTypeOK
  <2> QED BY <2>2
<1>3. /\ RunIds' = RunIds \cup {FreshId}
      /\ runs'[FreshId] = new
      /\ \A i \in RunIds : runs'[i] = runs[i]
      /\ runs' = [i \in RunIds \cup {FreshId} |-> IF i = FreshId THEN new ELSE runs[i]]
  BY <1>2 DEF BeginRefresh, RunIds
<1>4. /\ refresh' = [refresh EXCEPT ![p] = [at |-> "fetch", run |-> FreshId, cycle |-> cycleNow,
                                            todo |-> areas, good |-> {}]]
      /\ UNCHANGED <<cycleNow, heads, everDone>>
  BY DEF BeginRefresh
<1>5. ForecastTypeOK'
  <2>1. runs' \in [RunIds' -> [cycle : Nat, status : Statuses, areas : SUBSET Areas, done : Nat]]
    BY <1>1, <1>3 DEF ForecastTypeOK, Statuses
  <2> HIDE DEF new
  <2>2. refresh' \in [Refreshers -> [at : {"stopped", "fetch", "publish"}, run : Nat,
                                   cycle : Nat, todo : SUBSET Areas, good : SUBSET Areas]]
    BY <1>1, <1>2, <1>4 DEF ForecastTypeOK
  <2> QED BY <1>1, <1>2, <1>3, <1>4, <2>1, <2>2 DEF ForecastTypeOK
<1>6. \A q \in Refreshers : q # p => refresh'[q] = refresh[q]
  BY <1>1, <1>4 DEF ForecastTypeOK
<1>7. /\ refresh'[p].run = FreshId /\ refresh'[p].cycle = cycleNow
  BY <1>1, <1>4 DEF ForecastTypeOK
<1>8. RefreshKept'
  <2> SUFFICES ASSUME NEW q \in Refreshers, Working(q)'
               PROVE  /\ refresh'[q].run \in RunIds'
                      /\ runs'[refresh'[q].run].status = "building"
                      /\ runs'[refresh'[q].run].cycle = refresh'[q].cycle
                      /\ \A r \in Refreshers \ {q} :
                            Working(r)' => refresh'[r].run # refresh'[q].run
    BY DEF RefreshKept
  <2>1. CASE q = p
    BY <2>1, <1>1, <1>2, <1>3, <1>6, <1>7 DEF RefreshKept, Working
  <2>2. CASE q # p
    BY <2>2, <1>1, <1>2, <1>3, <1>6, <1>7 DEF RefreshKept, Working
  <2> QED BY <2>1, <2>2
<1>9. DoneKept'
  BY <1>1, <1>3, <1>4 DEF DoneKept, Complete
<1>10. ForecastSafe'
  <2>1. cycleNow' \in Nat /\ cycleNow' >= cycleNow
    BY <1>1, <1>4 DEF ForecastTypeOK
  <2> QED BY <1>3, <1>4, <2>1, CompleteRunsServe
<1> QED BY <1>5, <1>8, <1>9, <1>10 DEF ForecastInv

\* What a command does to the run it builds touches nothing else.
LEMMA OwnRunStep ==
  ASSUME ForecastInv, NEW p \in Refreshers, Working(p),
         NEW r \in [cycle : {refresh[p].cycle}, status : Statuses, areas : SUBSET Areas, done : Nat],
         runs' = [runs EXCEPT ![refresh[p].run] = r],
         NEW mine \in [at : {"stopped", "fetch", "publish"}, run : {refresh[p].run},
                       cycle : {refresh[p].cycle}, todo : SUBSET Areas, good : SUBSET Areas]
                         \cup {Stopped},
         refresh' = [refresh EXCEPT ![p] = mine],
         mine.at # "stopped" => r.status = "building",
         r.status = "complete" => refresh[p].cycle \in everDone',
         everDone \subseteq everDone', everDone' \subseteq Nat, heads' \in [Areas -> Nat],
         cycleNow' = cycleNow
  PROVE  /\ ForecastTypeOK' /\ RefreshKept' /\ DoneKept'
         /\ RunIds' = RunIds /\ refresh[p].run \in RunIds
         /\ ~Complete(refresh[p].run)
         /\ runs'[refresh[p].run] = r
         /\ \A i \in RunIds : i # refresh[p].run => runs'[i] = runs[i]
<1>1. ForecastTypeOK /\ RefreshKept /\ DoneKept
  BY DEF ForecastInv
<1>2. /\ refresh[p].run \in RunIds /\ runs[refresh[p].run].status = "building"
      /\ refresh[p].cycle \in Nat /\ refresh[p].run \in Nat
  BY <1>1 DEF RefreshKept, ForecastTypeOK
<1>3. /\ RunIds' = RunIds
      /\ runs'[refresh[p].run] = r
      /\ \A i \in RunIds : i # refresh[p].run => runs'[i] = runs[i]
  BY <1>1, <1>2 DEF ForecastTypeOK, RunIds
<1>4. /\ \A q \in Refreshers : q # p => refresh'[q] = refresh[q]
      /\ refresh'[p] = mine
  BY <1>1 DEF ForecastTypeOK
<1>5. ForecastTypeOK'
  <2>1. runs' \in [RunIds' -> [cycle : Nat, status : Statuses, areas : SUBSET Areas, done : Nat]]
    BY <1>1, <1>2, <1>3 DEF ForecastTypeOK
  <2>2. Stopped \in [at : {"stopped", "fetch", "publish"}, run : Nat,
                  cycle : Nat, todo : SUBSET Areas, good : SUBSET Areas]
    BY DEF Stopped
  <2>3. mine \in [at : {"stopped", "fetch", "publish"}, run : Nat,
                  cycle : Nat, todo : SUBSET Areas, good : SUBSET Areas]
    BY <1>2, <2>2
  <2>4. refresh' \in [Refreshers -> [at : {"stopped", "fetch", "publish"}, run : Nat,
                                   cycle : Nat, todo : SUBSET Areas, good : SUBSET Areas]]
    BY <1>1, <2>3 DEF ForecastTypeOK
  <2> QED BY <1>1, <1>3, <2>1, <2>4 DEF ForecastTypeOK
<1>6. RefreshKept'
  <2> SUFFICES ASSUME NEW q \in Refreshers, Working(q)'
               PROVE  /\ refresh'[q].run \in RunIds'
                      /\ runs'[refresh'[q].run].status = "building"
                      /\ runs'[refresh'[q].run].cycle = refresh'[q].cycle
                      /\ \A o \in Refreshers \ {q} :
                            Working(o)' => refresh'[o].run # refresh'[q].run
    BY DEF RefreshKept
  <2>1. \A o \in Refreshers : Working(o)' => Working(o) /\ refresh'[o].run = refresh[o].run
                                             /\ refresh'[o].cycle = refresh[o].cycle
    BY <1>4 DEF Working, Stopped
  <2>2. Working(p)' => /\ r.status = "building" /\ r.cycle = refresh[p].cycle
                       /\ mine.run = refresh[p].run /\ mine.cycle = refresh[p].cycle
    BY <1>4 DEF Working, Stopped
  <2>3. CASE q = p
    BY <2>1, <2>2, <2>3, <1>1, <1>2, <1>3 DEF RefreshKept
  <2>4. CASE q # p
    BY <2>1, <2>4, <1>1, <1>2, <1>3 DEF RefreshKept
  <2> QED BY <2>3, <2>4
<1>7. DoneKept'
  BY <1>1, <1>2, <1>3 DEF DoneKept, Complete
<1>8. ~Complete(refresh[p].run)
  BY <1>2 DEF Complete
<1> QED BY <1>2, <1>3, <1>5, <1>6, <1>7, <1>8

LEMMA FetchRunKeeps ==
  ASSUME ForecastInv, NEW p \in Refreshers, NEW got \in SUBSET NextBatch(refresh[p].todo),
         FetchBatch(p, got)
  PROVE  ForecastInv'
<1> DEFINE me == refresh[p]
<1> DEFINE r == [runs[me.run] EXCEPT !.areas = @ \cup got]
<1> DEFINE mine == [me EXCEPT !.todo = @ \ NextBatch(@), !.good = @ \cup got]
<1>1. ForecastTypeOK /\ RefreshKept
  BY DEF ForecastInv
<1>2. Working(p)
  BY DEF FetchBatch, Working
<1>3. /\ me \in [at : {"stopped", "fetch", "publish"}, run : Nat,
                 cycle : Nat, todo : SUBSET Areas, good : SUBSET Areas]
      /\ me.at = "fetch"
      /\ me.run \in RunIds
      /\ runs[me.run] \in [cycle : Nat, status : Statuses, areas : SUBSET Areas, done : Nat]
      /\ runs[me.run].status = "building" /\ runs[me.run].cycle = me.cycle
  BY <1>1, <1>2 DEF RefreshKept, ForecastTypeOK, FetchBatch
<1>4. got \subseteq Areas
  BY <1>3, BatchIsOfTodo
<1>5. /\ runs' = [runs EXCEPT ![me.run] = r]
      /\ refresh' = [refresh EXCEPT ![p] = mine]
      /\ UNCHANGED <<cycleNow, heads, everDone>>
  BY <1>1, <1>3 DEF FetchBatch, StoreRows, ForecastTypeOK
<1>6. /\ r \in [cycle : {me.cycle}, status : Statuses, areas : SUBSET Areas, done : Nat]
      /\ r.status = "building"
  BY <1>3, <1>4
<1>7. mine \in [at : {"stopped", "fetch", "publish"}, run : {me.run},
                cycle : {me.cycle}, todo : SUBSET Areas, good : SUBSET Areas]
  BY <1>3, <1>4
<1> HIDE DEF r, mine
<1>8. /\ ForecastTypeOK' /\ RefreshKept' /\ DoneKept'
      /\ RunIds' = RunIds
      /\ ~Complete(me.run)
      /\ \A i \in RunIds : i # me.run => runs'[i] = runs[i]
  <2>1. everDone' \subseteq Nat /\ heads' \in [Areas -> Nat] /\ everDone \subseteq everDone'
    BY <1>1, <1>5 DEF ForecastTypeOK
  <2>2. /\ mine.at # "stopped" => r.status = "building"
        /\ r.status = "complete" => refresh[p].cycle \in everDone'
    BY <1>6
  <2>3. cycleNow' = cycleNow
    BY <1>5
  <2>4. mine \in [at : {"stopped", "fetch", "publish"}, run : {refresh[p].run},
                  cycle : {refresh[p].cycle}, todo : SUBSET Areas, good : SUBSET Areas]
                    \cup {Stopped}
    BY <1>7
  <2>5. r \in [cycle : {refresh[p].cycle}, status : Statuses, areas : SUBSET Areas, done : Nat]
    BY <1>6
  <2>6. runs' = [runs EXCEPT ![refresh[p].run] = r] /\ refresh' = [refresh EXCEPT ![p] = mine]
    BY <1>5
  <2> QED BY <1>2, <2>1, <2>2, <2>3, <2>4, <2>5, <2>6, OwnRunStep, Zenon
<1>9. ForecastSafe'
  <2>1. cycleNow' \in Nat /\ cycleNow' >= cycleNow
    BY <1>1, <1>5 DEF ForecastTypeOK
  <2>2. \A i \in RunIds : Complete(i) => i \in RunIds' /\ runs'[i] = runs[i]
    BY <1>8
  <2> QED BY <1>5, <2>1, <2>2, CompleteRunsServe
<1> QED BY <1>8, <1>9 DEF ForecastInv

\* A command decides what becomes of its run, or dies, without publishing it.
LEMMA DecisionKeeps ==
  ASSUME ForecastInv, NEW p \in Refreshers, SecondLook(p) \/ LoseRefresh(p)
  PROVE  ForecastInv'
<1>1. ForecastTypeOK /\ RefreshKept
  BY DEF ForecastInv
<1>2. Working(p)
  BY DEF SecondLook, LoseRefresh, Working
<1>3. /\ refresh[p] \in [at : {"stopped", "fetch", "publish"}, run : Nat,
                         cycle : Nat, todo : SUBSET Areas, good : SUBSET Areas]
      /\ refresh[p].run \in RunIds
      /\ runs[refresh[p].run] \in [cycle : Nat, status : Statuses, areas : SUBSET Areas, done : Nat]
      /\ runs[refresh[p].run].status = "building"
      /\ runs[refresh[p].run].cycle = refresh[p].cycle
  BY <1>1, <1>2 DEF RefreshKept, ForecastTypeOK
<1>4. /\ UNCHANGED <<cycleNow, heads, everDone>>
      /\ cycleNow \in Nat /\ heads \in [Areas -> Nat] /\ everDone \subseteq Nat
  BY <1>1 DEF SecondLook, LoseRefresh, ForecastTypeOK
<1>5. PICK r \in [cycle : {refresh[p].cycle}, status : Statuses, areas : SUBSET Areas, done : Nat],
           mine \in [at : {"stopped", "fetch", "publish"}, run : {refresh[p].run},
                     cycle : {refresh[p].cycle}, todo : SUBSET Areas, good : SUBSET Areas]
                       \cup {Stopped} :
          /\ runs' = [runs EXCEPT ![refresh[p].run] = r]
          /\ refresh' = [refresh EXCEPT ![p] = mine]
          /\ r.status # "complete"
          /\ mine # Stopped => r.status = "building"
  <2> DEFINE same == runs[refresh[p].run]
  <2>1. /\ same \in [cycle : {refresh[p].cycle}, status : Statuses, areas : SUBSET Areas, done : Nat]
        /\ same.status = "building"
        /\ runs = [runs EXCEPT ![refresh[p].run] = same]
    BY <1>1, <1>3 DEF ForecastTypeOK
  <2>2. CASE runs' = runs /\ refresh' = [refresh EXCEPT ![p] = Stopped]
    BY <2>1, <2>2
  <2>3. CASE runs' = runs /\ refresh' = [refresh EXCEPT ![p].at = "publish"]
    <3> DEFINE mine == [refresh[p] EXCEPT !.at = "publish"]
    <3>1. mine \in [at : {"stopped", "fetch", "publish"}, run : {refresh[p].run},
                     cycle : {refresh[p].cycle}, todo : SUBSET Areas, good : SUBSET Areas]
      BY <1>3
    <3>2. refresh' = [refresh EXCEPT ![p] = mine]
      BY <2>3
    <3> HIDE DEF mine
    <3> QED BY <2>1, <2>3, <3>1, <3>2
  <2>4. CASE /\ EndRun(refresh[p].run, "rejected") \/ EndRun(refresh[p].run, "failed")
             /\ refresh' = [refresh EXCEPT ![p] = Stopped]
    <3>1. PICK outcome \in {"rejected", "failed"} : EndRun(refresh[p].run, outcome)
      BY <2>4
    <3> DEFINE r == [same EXCEPT !.status = outcome, !.done = cycleNow]
    <3>2. runs' = [runs EXCEPT ![refresh[p].run] = r]
      BY <1>1, <1>3, <3>1 DEF EndRun, ForecastTypeOK
    <3>3. /\ r \in [cycle : {refresh[p].cycle}, status : Statuses, areas : SUBSET Areas, done : Nat]
          /\ r.status # "complete"
      BY <1>3, <1>4 DEF Statuses
    <3> HIDE DEF r
    <3> QED BY <2>4, <3>2, <3>3
  <2> QED BY <2>2, <2>3, <2>4 DEF SecondLook, LoseRefresh
<1>6. /\ ForecastTypeOK' /\ RefreshKept' /\ DoneKept'
      /\ RunIds' = RunIds
      /\ ~Complete(refresh[p].run)
      /\ \A i \in RunIds : i # refresh[p].run => runs'[i] = runs[i]
  <2>1. everDone' \subseteq Nat /\ heads' \in [Areas -> Nat] /\ everDone \subseteq everDone'
        /\ cycleNow' = cycleNow
    BY <1>4
  <2>2. /\ mine.at # "stopped" => r.status = "building"
        /\ r.status = "complete" => refresh[p].cycle \in everDone'
    BY <1>5 DEF Stopped
  <2> QED BY <1>2, <1>5, <2>1, <2>2, OwnRunStep, Zenon
<1>7. ForecastSafe'
  <2>1. cycleNow' \in Nat /\ cycleNow' >= cycleNow
    BY <1>4
  <2>2. \A i \in RunIds : Complete(i) => i \in RunIds' /\ runs'[i] = runs[i]
    BY <1>6
  <2> QED BY <1>4, <2>1, <2>2, CompleteRunsServe
<1> QED BY <1>6, <1>7 DEF ForecastInv

\* A new cycle becomes the first of its day and its week, or changes nothing there.
LEMMA SamplesGrow ==
  ASSUME ForecastInv, NEW done \in Nat, everDone' = everDone \cup {done}, cycleNow' = cycleNow,
         Kind(done)', \A c \in Nat : Kind(c) => Kind(c)'
  PROVE  SamplesSurvive'
<1>1. everDone \subseteq Nat /\ everDone' \subseteq Nat
  BY DEF ForecastInv, ForecastTypeOK
<1>2. \A c \in everDone :
        /\ Age(Day(c) * CyclesPerDay) <= DailyAge => Kind(FirstOf(OfDay(everDone, c)))
        /\ Age(Week(c) * DaysPerWeek * CyclesPerDay) <= WeeklyAge =>
              Kind(FirstOf(OfWeek(everDone, c)))
  BY SampledIs DEF ForecastInv, ForecastSafe, SamplesSurvive, OfDay, OfWeek
<1>3. ASSUME NEW c \in everDone', Age(Day(c) * CyclesPerDay) <= DailyAge
      PROVE  (Kind(FirstOf(OfDay(everDone, c))))'
  <2>1. PICK f \in OfDay(everDone', c) : f = FirstOf(OfDay(everDone', c))
    BY <1>1, FirstIsFirst DEF OfDay
  <2>2. CASE f = done
    BY <2>1, <2>2 DEF Kind, OfDay
  <2>3. CASE f # done
    <3>1. f \in everDone /\ Day(f) = Day(c)
      BY <2>1, <2>3 DEF OfDay
    <3>2. f \in OfDay(everDone, f) /\ OfDay(everDone, f) \subseteq OfDay(everDone', c)
      BY <3>1 DEF OfDay
    <3>3. FirstOf(OfDay(everDone, f)) = f
      <4>1. OfDay(everDone', c) \subseteq Nat BY <1>1 DEF OfDay
      <4> QED BY <2>1, <3>2, <4>1, FirstOfFewer
    <3>4. Kind(f)
      BY <1>2, <1>3, <3>1, <3>3
    <3>5. f \in Nat BY <1>1, <3>1
    <3>6. Kind(f)' BY <3>4, <3>5
    <3> QED BY <2>1, <3>6 DEF Kind, OfDay
  <2> QED BY <2>2, <2>3
<1>4. ASSUME NEW c \in everDone', Age(Week(c) * DaysPerWeek * CyclesPerDay) <= WeeklyAge
      PROVE  (Kind(FirstOf(OfWeek(everDone, c))))'
  <2>1. PICK f \in OfWeek(everDone', c) : f = FirstOf(OfWeek(everDone', c))
    BY <1>1, FirstIsFirst DEF OfWeek
  <2>2. CASE f = done
    BY <2>1, <2>2 DEF Kind, OfWeek
  <2>3. CASE f # done
    <3>1. f \in everDone /\ Week(f) = Week(c)
      BY <2>1, <2>3 DEF OfWeek
    <3>2. f \in OfWeek(everDone, f) /\ OfWeek(everDone, f) \subseteq OfWeek(everDone', c)
      BY <3>1 DEF OfWeek
    <3>3. FirstOf(OfWeek(everDone, f)) = f
      <4>1. OfWeek(everDone', c) \subseteq Nat BY <1>1 DEF OfWeek
      <4> QED BY <2>1, <3>2, <4>1, FirstOfFewer
    <3>4. Kind(f)
      BY <1>2, <1>4, <3>1, <3>3
    <3>5. f \in Nat BY <1>1, <3>1
    <3>6. Kind(f)' BY <3>4, <3>5
    <3> QED BY <2>1, <3>6 DEF Kind, OfWeek
  <2> QED BY <2>2, <2>3
<1>5. (\A c, cycles : Sampled(c, cycles) <=> Kind(FirstOf(cycles)))'
  BY SampledIs, PTL
<1>6. \A x : Age(x)' = Age(x)
  BY DEF Age
<1> QED BY <1>3, <1>4, <1>5, <1>6 DEF SamplesSurvive, OfDay, OfWeek

LEMMA PublishKeeps ==
  ASSUME ForecastInv, NEW p \in Refreshers, PublishRun(p)
  PROVE  ForecastInv'
<1> DEFINE me == refresh[p]
<1> DEFINE r == [runs[me.run] EXCEPT !.status = "complete"]
<1>1. ForecastTypeOK /\ RefreshKept /\ HeadsServeComplete
  BY DEF ForecastInv, ForecastSafe
<1>2. Working(p)
  BY DEF PublishRun, Working
<1>3. /\ me \in [at : {"stopped", "fetch", "publish"}, run : Nat,
                 cycle : Nat, todo : SUBSET Areas, good : SUBSET Areas]
      /\ me.run \in RunIds
      /\ runs[me.run] \in [cycle : Nat, status : Statuses, areas : SUBSET Areas, done : Nat]
      /\ runs[me.run].status = "building" /\ runs[me.run].cycle = me.cycle
  BY <1>1, <1>2 DEF RefreshKept, ForecastTypeOK
<1>4. /\ runs' = [runs EXCEPT ![refresh[p].run] = r]
      /\ refresh' = [refresh EXCEPT ![p] = Stopped]
      /\ heads' = [a \in Areas |-> IF a \in me.good THEN me.run ELSE heads[a]]
      /\ everDone' = everDone \cup {me.cycle}
      /\ cycleNow' = cycleNow
      /\ me.good \subseteq runs[me.run].areas
  BY <1>1, <1>3 DEF PublishRun, AdvanceHeads, Publishable, ForecastTypeOK
<1>5. /\ r \in [cycle : {refresh[p].cycle}, status : Statuses, areas : SUBSET Areas, done : Nat]
      /\ r.status = "complete" /\ r.cycle = me.cycle /\ r.areas = runs[me.run].areas
  BY <1>3 DEF Statuses
<1> HIDE DEF r
<1>6. /\ ForecastTypeOK' /\ RefreshKept' /\ DoneKept'
      /\ RunIds' = RunIds
      /\ ~Complete(refresh[p].run)
      /\ runs'[refresh[p].run] = r
      /\ \A i \in RunIds : i # refresh[p].run => runs'[i] = runs[i]
  <2>1. everDone' \subseteq Nat /\ everDone \subseteq everDone' /\ cycleNow' = cycleNow
    BY <1>1, <1>3, <1>4 DEF ForecastTypeOK
  <2>2. heads' \in [Areas -> Nat]
    BY <1>1, <1>3, <1>4 DEF ForecastTypeOK
  <2>3. /\ Stopped.at # "stopped" => r.status = "building"
        /\ r.status = "complete" => refresh[p].cycle \in everDone'
    BY <1>4 DEF Stopped
  <2>4. Stopped \in [at : {"stopped", "fetch", "publish"}, run : {refresh[p].run},
                     cycle : {refresh[p].cycle}, todo : SUBSET Areas, good : SUBSET Areas]
                       \cup {Stopped}
    OBVIOUS
  <2> QED BY <1>2, <1>4, <1>5, <2>1, <2>2, <2>3, <2>4, OwnRunStep, Zenon
<1>7. HeadsServeComplete'
  BY <1>1, <1>3, <1>4, <1>5, <1>6 DEF HeadsServeComplete, Complete
<1>8. PICK done \in Nat : done = me.cycle
  BY <1>3
<1>11. Kind(done)'
  BY <1>3, <1>5, <1>6, <1>8 DEF Kind, Complete
<1>9. ASSUME NEW c \in Nat, Kind(c) PROVE Kind(c)'
  BY <1>6, <1>9 DEF Kind, Complete
<1>10. SamplesSurvive'
  BY <1>4, <1>8, <1>11, <1>9, SamplesGrow
<1> QED BY <1>6, <1>7, <1>10 DEF ForecastInv, ForecastSafe

\* Of the runs of a cycle the retention job has reason to keep, one has the best
\* choice of all.
LEMMA OneIsChosen ==
  ASSUME RunIds \subseteq 1..MaxRuns, NEW f, Kind(f),
         NEW choice \in {[i \in RunIds |-> i], [i \in RunIds |-> 0 - i]}
  PROVE  \E i \in RunIds : /\ Complete(i) /\ runs[i].cycle = f
                           /\ \A j \in RunIds : Complete(j) /\ runs[j].cycle = f =>
                                 choice[j] <= choice[i]
<1> DEFINE S == {i \in RunIds : Complete(i) /\ runs[i].cycle = f}
<1>1. MaxRuns \in Nat
  BY ForecastAssumption
<1>2. S \subseteq 0..MaxRuns /\ S \subseteq Nat /\ S # {} /\ S \subseteq RunIds
  <2>1. S \subseteq RunIds /\ S # {}
    BY DEF Kind
  <2>2. 1..MaxRuns \subseteq 0..MaxRuns /\ 1..MaxRuns \subseteq Nat
    BY <1>1
  <2> HIDE DEF S
  <2> QED BY <2>1, <2>2
<1> HIDE DEF S
<1>3. CASE choice = [i \in RunIds |-> i]
  <2>1. PICK i \in S : \A j \in S : j <= i
    BY <1>1, <1>2, GreatestOf
  <2> QED BY <1>2, <1>3, <2>1 DEF S
<1>4. CASE choice = [i \in RunIds |-> 0 - i]
  <2>1. PICK i \in S : \A j \in S : i <= j
    BY <1>2, LeastOf
  <2>2. \A j \in S : 0 - j <= 0 - i
    BY <1>2, <2>1
  <2> QED BY <1>2, <1>4, <2>1, <2>2 DEF S
<1> QED BY <1>3, <1>4

\* The run that stands for a day or a week is kept while its band keeps one of them:
\* whatever retention groups it with comes after it, or is of the same cycle.
LEMMA FirstIsKept ==
  ASSUME ForecastInv, NEW i \in RunIds, Complete(i),
         NEW choice \in {[k \in RunIds |-> k], [k \in RunIds |-> 0 - k]},
         Age(runs[i].cycle) <= WeeklyAge,
         \A j \in RunIds : Complete(j) /\ runs[j].cycle = runs[i].cycle => choice[j] <= choice[i],
         \A d \in everDone :
            \/ d = runs[i].cycle \/ Before(runs[i].cycle, d)
            \/ /\ Day(d) # Day(runs[i].cycle)
               /\ Week(d) # Week(runs[i].cycle) \/ Age(runs[i].cycle) <= DailyAge
  PROVE  i \in Kept(choice)
<1> DEFINE f == runs[i].cycle
<1>1. f \in Nat /\ cycleNow \in Nat /\ DoneKept
  BY DEF ForecastInv, ForecastTypeOK
<1>2. /\ RecentAge \in Nat /\ DailyAge \in Nat /\ WeeklyAge \in Nat
      /\ RecentAge < DailyAge /\ DailyAge < WeeklyAge
  BY ForecastAssumption
<1>3. Age(f) \in Int
  BY <1>1 DEF Age
<1>4. CASE Age(f) <= RecentAge
  BY <1>4 DEF Kept, Band
<1>5. CASE ~(Age(f) <= RecentAge)
  <2>1. Band(f) \in {"daily", "weekly"} /\ (Band(f) = "daily" <=> Age(f) <= DailyAge)
    BY <1>5 DEF Band
  <2>2. ASSUME NEW j \in GroupOf(i) \ {i}
        PROVE  Before(f, runs[j].cycle) \/ (runs[j].cycle = f /\ choice[j] <= choice[i])
    <3>1. /\ j \in RunIds /\ Complete(j) /\ Band(runs[j].cycle) = Band(f)
          /\ IF Band(f) = "daily" THEN Day(runs[j].cycle) = Day(f)
                                  ELSE Week(runs[j].cycle) = Week(f)
      BY DEF GroupOf
    <3>2. runs[j].cycle \in everDone
      BY <1>1, <3>1 DEF DoneKept
    <3>3. CASE runs[j].cycle = f
      BY <3>1, <3>3
    <3>4. CASE runs[j].cycle # f
      <4> DEFINE d == runs[j].cycle
      <4>1. \/ Before(f, d)
            \/ Day(d) # Day(f) /\ (Week(d) # Week(f) \/ Age(f) <= DailyAge)
        BY <3>2, <3>4
      <4>2. IF Age(f) <= DailyAge THEN Day(d) = Day(f) ELSE Week(d) = Week(f)
        BY <2>1, <3>1
      <4> HIDE DEF d
      <4>3. Before(f, d)
        BY <4>1, <4>2
      <4> QED BY <4>3 DEF d
    <3> QED BY <3>3, <3>4
  <2>3. Canonical(i, choice)
    BY <2>2 DEF Canonical
  <2> QED BY <2>1, <2>3 DEF Kept
<1> QED BY <1>4, <1>5

LEMMA RetainKeeps ==
  ASSUME ForecastInv, Retain
  PROVE  ForecastInv'
<1>1. /\ ForecastTypeOK /\ RefreshKept /\ DoneKept
      /\ HeadsServeComplete /\ SamplesSurvive
      /\ cycleNow \in Nat /\ everDone \subseteq Nat
      /\ DailyAge \in Nat /\ WeeklyAge \in Nat /\ DailyAge < WeeklyAge
  BY ForecastAssumption DEF ForecastInv, ForecastSafe, ForecastTypeOK
<1>2. PICK choice \in {[k \in RunIds |-> k], [k \in RunIds |-> 0 - k]} :
        LET gone == {i \in RunIds : (Complete(i) /\ i \notin Kept(choice)) \/ Expired(i)}
        IN  runs' = [i \in RunIds \ gone |-> runs[i]]
  BY DEF Retain
<1>3. UNCHANGED <<cycleNow, heads, refresh, everDone>>
  BY DEF Retain
<1>4. /\ RunIds' \subseteq RunIds
      /\ \A i \in RunIds' : runs'[i] = runs[i]
      /\ \A i \in RunIds : \/ i \in RunIds'
                           \/ Complete(i) /\ i \notin Kept(choice)
                           \/ Expired(i)
      /\ runs' = [i \in RunIds' |-> runs[i]]
  BY <1>2 DEF RunIds
<1>5. \A i \in RunIds : /\ runs[i].status = "building" => i \in RunIds'
                        /\ Complete(i) /\ i \in Kept(choice) => i \in RunIds'
                        /\ Complete(i) /\ i \in Protected => i \in RunIds'
  BY <1>4 DEF Complete, Expired, Kept
<1>6. ForecastTypeOK'
  <2>1. runs' \in [RunIds' -> [cycle : Nat, status : Statuses, areas : SUBSET Areas, done : Nat]]
    BY <1>1, <1>4 DEF ForecastTypeOK
  <2> QED BY <1>1, <1>3, <1>4, <2>1 DEF ForecastTypeOK
<1>7. RefreshKept'
  BY <1>1, <1>3, <1>4, <1>5 DEF RefreshKept, Working
<1>8. DoneKept'
  BY <1>1, <1>3, <1>4 DEF DoneKept, Complete
<1>9. HeadsServeComplete'
  <2> SUFFICES ASSUME NEW a \in Areas, heads[a] # 0
               PROVE  /\ heads[a] \in RunIds' /\ runs'[heads[a]].status = "complete"
                      /\ a \in runs'[heads[a]].areas
    BY <1>3 DEF HeadsServeComplete, Complete
  <2>1. heads[a] \in RunIds /\ Complete(heads[a]) /\ a \in runs[heads[a]].areas
    BY <1>1 DEF HeadsServeComplete
  <2>2. heads[a] \in Protected
    BY DEF Protected
  <2> QED BY <1>4, <1>5, <2>1, <2>2 DEF Complete
<1>10. ASSUME NEW f \in everDone, Kind(f), Age(f) <= WeeklyAge,
              \A d \in everDone :
                 \/ d = f \/ Before(f, d)
                 \/ Day(d) # Day(f) /\ (Week(d) # Week(f) \/ Age(f) <= DailyAge)
       PROVE  Kind(f)'
  <2>1. RunIds \subseteq 1..MaxRuns
    BY <1>1 DEF ForecastTypeOK
  <2>2. PICK i \in RunIds : /\ Complete(i) /\ runs[i].cycle = f
                            /\ \A j \in RunIds : Complete(j) /\ runs[j].cycle = f =>
                                  choice[j] <= choice[i]
    BY <1>10, <2>1, OneIsChosen
  <2>3. i \in Kept(choice)
    BY <1>10, <2>2, FirstIsKept
  <2> QED BY <1>4, <1>5, <2>2, <2>3 DEF Kind, Complete
<1>11. ASSUME NEW c \in everDone, Age(Day(c) * CyclesPerDay) <= DailyAge
       PROVE  (Kind(FirstOf(OfDay(everDone, c))))'
  <2>1. PICK f \in OfDay(everDone, c) :
          /\ f = FirstOf(OfDay(everDone, c))
          /\ \A d \in OfDay(everDone, c) : d = f \/ Before(f, d)
    BY <1>1, FirstIsFirst DEF OfDay
  <2>2. f \in everDone /\ f \in Nat /\ Day(f) = Day(c)
    BY <1>1, <2>1 DEF OfDay
  <2>3. Kind(f)
    BY <1>1, <1>11, <2>1, SampledIs DEF SamplesSurvive, OfDay
  <2>4. Age(f) <= DailyAge
    BY <1>1, <1>11, <2>2, DaysBegin DEF Age
  <2>5. Age(f) <= WeeklyAge
    BY <1>1, <2>2, <2>4 DEF Age
  <2>6. \A d \in everDone : d = f \/ Before(f, d) \/ Day(d) # Day(f)
    BY <2>1, <2>2 DEF OfDay
  <2>7. Kind(f)'
    BY <1>10, <2>2, <2>3, <2>4, <2>5, <2>6
  <2> QED BY <1>3, <2>1, <2>7 DEF Kind, OfDay
<1>12. ASSUME NEW c \in everDone, Age(Week(c) * DaysPerWeek * CyclesPerDay) <= WeeklyAge
       PROVE  (Kind(FirstOf(OfWeek(everDone, c))))'
  <2>1. PICK f \in OfWeek(everDone, c) :
          /\ f = FirstOf(OfWeek(everDone, c))
          /\ \A d \in OfWeek(everDone, c) : d = f \/ Before(f, d)
    BY <1>1, FirstIsFirst DEF OfWeek
  <2>2. f \in everDone /\ f \in Nat /\ Week(f) = Week(c)
    BY <1>1, <2>1 DEF OfWeek
  <2>3. Kind(f)
    BY <1>1, <1>12, <2>1, SampledIs DEF SamplesSurvive, OfWeek
  <2>4. Age(f) <= WeeklyAge
    BY <1>1, <1>12, <2>2, DaysBegin DEF Age
  <2>5. \A d \in everDone :
          \/ d = f \/ Before(f, d)
          \/ Day(d) # Day(f) /\ Week(d) # Week(f)
    <3>1. \A d : Day(d) = Day(f) => Week(d) = Week(f)
      BY DEF Week
    <3> QED BY <2>1, <2>2, <3>1 DEF OfWeek
  <2>6. Kind(f)'
    BY <1>10, <2>2, <2>3, <2>4, <2>5
  <2> QED BY <1>3, <2>1, <2>6 DEF Kind, OfWeek
<1>13. SamplesSurvive'
  <2>1. (\A c, cycles : Sampled(c, cycles) <=> Kind(FirstOf(cycles)))'
    BY SampledIs, PTL
  <2>2. \A x : Age(x)' = Age(x)
    BY <1>3 DEF Age
  <2> QED BY <1>3, <1>11, <1>12, <2>1, <2>2 DEF SamplesSurvive, OfDay, OfWeek
<1> QED BY <1>6, <1>7, <1>8, <1>9, <1>13 DEF ForecastInv, ForecastSafe

LEMMA ForecastNextInv == ForecastInv /\ [ForecastNext]_forecastVars => ForecastInv'
<1> SUFFICES ASSUME ForecastInv, [ForecastNext]_forecastVars PROVE ForecastInv'
  OBVIOUS
<1>1. ASSUME NEW p \in Refreshers, NEW areas \in SUBSET Areas \ {{}}, BeginRefresh(p, areas)
      PROVE  ForecastInv'
  BY <1>1, BeginKeeps
<1>2. ASSUME NEW p \in Refreshers, NEW got \in SUBSET NextBatch(refresh[p].todo),
             FetchBatch(p, got)
      PROVE  ForecastInv'
  BY <1>2, FetchRunKeeps
<1> QED BY <1>1, <1>2, IssueKeeps, DecisionKeeps, PublishKeeps, RetainKeeps DEF ForecastNext

\* Search always reads whole runs, and the thinning keeps the sample the policy names, for
\* any number of refresh commands, ski areas, cycles in a day and days in a week, and
\* any retention ages (weather_forecast_repository.py, retain_weather_forecasts.py).
THEOREM ForecastsAreSafe == ForecastSpec => []ForecastSafe
<1>1. ForecastInv => ForecastSafe
  BY DEF ForecastInv
<1> QED BY <1>1, ForecastStarts, ForecastNextInv, PTL DEF ForecastSpec

-----------------------------------------------------------------------------
(* The weather archive.                                                    *)

ArchiveJobs ==
    [kind : {"none", "backfill", "completion"},
     at : {"idle", "fetch", "chunks", "gate", "climate"},
     areas : SUBSET SkiAreas, todo : SUBSET (Years \X Bands), years : SUBSET Years,
     force : BOOLEAN, wipe : BOOLEAN, tries : Nat, used : Nat,
     limited : BOOLEAN, abort : BOOLEAN, hard : BOOLEAN, paused : BOOLEAN, short : BOOLEAN,
     stale : SUBSET SkiAreas, remaining : SUBSET SkiAreas, rebuilt : SUBSET SkiAreas,
     beside : SUBSET SkiAreas]

Archives == [SkiAreas -> [Bands -> SUBSET Window]]

\* A completion run that nothing has held up has completed every area it is not to
\* visit any more, and in the area in hand every chunk it is done with.
Completes(j, area) ==
    /\ ~j.wipe /\ j.years = Years
    /\ j.at # "gate"
    /\ \A a \in SkiAreas \ j.areas : ArchiveComplete(a)
    /\ j.at = "chunks" => \A c \in (Years \X Bands) \ j.todo : Archived(area, c)
Underway(j) == j.kind = "completion" /\ j.at \in {"fetch", "chunks", "gate"}

\* What the controller has read of the archive stays so until its report: it is the
\* only one that writes it.  What it counts as current and does not rebuild, or has
\* rebuilt, is so.
LooksTrue(j) ==
    /\ j.remaining = {a \in SkiAreas : ~ArchiveComplete(a)}
    /\ j.remaining # {} => Held(j)
    /\ \A a \in SkiAreas \ (j.remaining \cup j.stale \cup j.beside) : IsCurrent(climate[a])
    /\ \A a \in j.rebuilt \ (j.remaining \cup j.beside), b \in Bands :
          climate[a].evidence[b] = Window

ArchiveInv ==
    /\ archive \in Archives
    /\ climate = [a \in SkiAreas |-> climate[a]]
    /\ archiveJob \in ArchiveJobs
    /\ archiveJob.at = "chunks" => archiveJob.areas # {}
    /\ Underway(archiveJob) => Held(archiveJob) \/ Completes(archiveJob, Current)
    /\ archiveJob.at = "climate" => LooksTrue(archiveJob)
    /\ rebuild.area \in SkiAreas \cup {"none"}

\* A job that is at rest has nothing to keep of the archive.
LEMMA IdleJob == /\ NoArchiveJob \in ArchiveJobs /\ NoArchiveJob.at = "idle"
                 /\ ~Underway(NoArchiveJob)
BY DEF NoArchiveJob, ArchiveJobs, Underway

\* The area in hand is one of those to visit.
LEMMA CurrentIsOne ==
  ASSUME NEW areas, areas # {}
  PROVE  Area(areas) \in areas
BY DEF Area

\* A job that starts, or ends, has done nothing yet; what is complete before it is
\* what it is not to visit.
LEMMA ArchiveJobStarts ==
  ASSUME ArchiveInv,
         \/ \E areas \in SUBSET SkiAreas, years \in SUBSET Years, force, wipe \in BOOLEAN :
               StartBackfill(areas, years, force, wipe)
         \/ StartCompletion \/ KillJob \/ Report
  PROVE  ArchiveInv'
<1>1. archive' = archive /\ climate' = climate /\ rebuild' = rebuild
  BY DEF StartBackfill, StartCompletion, KillJob, Report
<1>2. ASSUME NEW kind \in {"backfill", "completion"}, NEW areas \in SUBSET SkiAreas,
             NEW years \in SUBSET Years, NEW force \in BOOLEAN, NEW wipe \in BOOLEAN,
             NEW j, j = Backfill(kind, areas, years, force, wipe)
      PROVE  /\ j \in ArchiveJobs /\ j.at = "fetch" /\ j.kind = kind /\ j.areas = areas
             /\ j.years = years /\ j.wipe = wipe
  BY <1>2 DEF Backfill, NoArchiveJob, ArchiveJobs
<1>3. ASSUME archiveJob' \in ArchiveJobs, archiveJob'.at \in {"idle", "fetch"},
             Underway(archiveJob') =>
                ~archiveJob'.wipe /\ archiveJob'.years = Years
                /\ \A a \in SkiAreas \ archiveJob'.areas : ArchiveComplete(a)
      PROVE  ArchiveInv'
  BY <1>1, <1>3 DEF ArchiveInv, Completes, Underway, ArchiveComplete, Archived
<1>4. CASE StartCompletion
  <2> PICK left : left = {a \in SkiAreas : ~ArchiveComplete(a)}
    OBVIOUS
  <2> PICK j : j = archiveJob'
    OBVIOUS
  <2>1. j = Backfill("completion", left, Years, FALSE, FALSE)
    BY <1>4 DEF StartCompletion
  <2>2. left \in SUBSET SkiAreas /\ Years \in SUBSET Years
    OBVIOUS
  <2>3. /\ j \in ArchiveJobs /\ j.at = "fetch" /\ j.areas = left
        /\ j.years = Years /\ j.wipe = FALSE
    <3>1. PICK no \in BOOLEAN : no = FALSE
      OBVIOUS
    <3>2. j = Backfill("completion", left, Years, no, no)
      BY <2>1, <3>1, Zenon
    <3> QED BY <1>2, <2>2, <3>1, <3>2
  <2> QED BY <1>3, <2>3
<1>5. CASE KillJob \/ Report
  BY <1>3, <1>5, IdleJob DEF KillJob, Report
<1>6. ASSUME NEW areas \in SUBSET SkiAreas, NEW years \in SUBSET Years,
             NEW force \in BOOLEAN, NEW wipe \in BOOLEAN,
             StartBackfill(areas, years, force, wipe)
      PROVE  ArchiveInv'
  <2>1. archiveJob' = Backfill("backfill", areas, years, force, wipe)
    BY <1>6 DEF StartBackfill
  <2> QED BY <1>2, <1>3, <2>1 DEF Underway
<1> QED BY <1>4, <1>5, <1>6

\* A step of a job that fetches keeps the invariant if it keeps the run's account.
LEMMA ArchiveJobGoesOn ==
  ASSUME ArchiveInv, archive' \in Archives, UNCHANGED <<climate, rebuild>>,
         archiveJob' \in ArchiveJobs, archiveJob'.at \in {"fetch", "chunks", "gate"},
         archiveJob'.at = "chunks" => archiveJob'.areas # {},
         archiveJob'.kind = archiveJob.kind,
         archiveJob.at \in {"fetch", "chunks"},
         archiveJob.kind = "completion" /\ (Held(archiveJob) \/ Completes(archiveJob, Current))
            => Held(archiveJob') \/ Completes(archiveJob, Current)'
  PROVE  ArchiveInv'
<1>1. Underway(archiveJob') =>
         archiveJob.kind = "completion" /\ (Held(archiveJob) \/ Completes(archiveJob, Current))
  BY DEF ArchiveInv, Underway
<1>2. Underway(archiveJob)' => Held(archiveJob)' \/ Completes(archiveJob, Current)'
  BY <1>1 DEF Underway, Held
<1> QED BY <1>2 DEF ArchiveInv

\* No run that counts on the archive wipes any of it when it enters an area.
LEMMA EnterAreaKeeps ==
  ASSUME ArchiveInv, EnterArea
  PROVE  ArchiveInv'
<1>1. /\ archiveJob \in ArchiveJobs /\ archiveJob.at = "fetch" /\ archiveJob.areas # {}
      /\ archiveJob' = [archiveJob EXCEPT !.at = "chunks", !.todo = archiveJob.years \X Bands]
      /\ UNCHANGED <<climate, rebuild>> /\ archive \in Archives
      /\ archive' = IF archiveJob.wipe
                    THEN [archive EXCEPT ![Current] =
                             [b \in Bands |-> {d \in @[b] : d[1] \notin archiveJob.years}]]
                    ELSE archive
  BY DEF EnterArea, ArchiveInv
<1>2. Current \in SkiAreas
  BY <1>1, CurrentIsOne DEF Current, ArchiveJobs
<1>3. archive' \in Archives
  <2>1. [b \in Bands |-> {d \in archive[Current][b] : d[1] \notin archiveJob.years}]
           \in [Bands -> SUBSET Window]
    BY <1>1, <1>2 DEF Archives
  <2> HIDE DEF Current
  <2> QED BY <1>1, <1>2, <2>1 DEF Archives
<1>4. /\ archiveJob' \in ArchiveJobs /\ archiveJob'.at = "chunks"
      /\ archiveJob'.todo = archiveJob.years \X Bands
      /\ archiveJob'.areas = archiveJob.areas /\ archiveJob'.years = archiveJob.years
      /\ archiveJob'.wipe = archiveJob.wipe /\ archiveJob'.kind = archiveJob.kind
      /\ Held(archiveJob) => Held(archiveJob')
  BY <1>1 DEF ArchiveJobs, Held
<1>5. Completes(archiveJob, Current) => Completes(archiveJob, Current)'
  <2> SUFFICES ASSUME Completes(archiveJob, Current) PROVE Completes(archiveJob, Current)'
    OBVIOUS
  <2>1. archive' = archive
    BY <1>1 DEF Completes
  <2> QED BY <1>4, <2>1 DEF Completes, ArchiveComplete
<1> QED BY <1>1, <1>3, <1>4, <1>5, ArchiveJobGoesOn

\* An area with no chunk left is complete, unless the run was held up.
LEMMA LeaveAreaKeeps ==
  ASSUME ArchiveInv, LeaveArea
  PROVE  ArchiveInv'
<1>1. /\ archiveJob \in ArchiveJobs /\ archiveJob.at = "chunks" /\ archiveJob.todo = {}
      /\ archiveJob' = [archiveJob EXCEPT !.at = "fetch", !.areas = @ \ {Current}]
      /\ UNCHANGED <<archive, climate, rebuild>> /\ archive \in Archives
      /\ archiveJob.areas # {}
  BY DEF LeaveArea, ArchiveInv
<1>2. Current \in SkiAreas
  BY <1>1, CurrentIsOne DEF Current, ArchiveJobs
<1> PICK area : area = Current
  OBVIOUS
<1>3. /\ archiveJob' \in ArchiveJobs /\ archiveJob'.at = "fetch"
      /\ archiveJob'.areas = archiveJob.areas \ {area} /\ archiveJob'.years = archiveJob.years
      /\ archiveJob'.wipe = archiveJob.wipe /\ archiveJob'.kind = archiveJob.kind
      /\ Held(archiveJob) => Held(archiveJob')
  <2> HIDE DEF Current
  <2> QED BY <1>1 DEF ArchiveJobs, Held
<1>4. Completes(archiveJob, area) => Completes(archiveJob, Current)'
  <2> SUFFICES ASSUME Completes(archiveJob, area) PROVE Completes(archiveJob, Current)'
    OBVIOUS
  <2>1. ASSUME NEW b \in Bands PROVE archive[area][b] = Window
    <3>1. archive[area][b] \subseteq Window
      BY <1>1, <1>2 DEF Archives
    <3>2. ASSUME NEW y \in Years, NEW d \in Days PROVE <<y, d>> \in archive[area][b]
      <4>1. Archived(area, <<y, b>>)
        BY <1>1 DEF Completes
      <4> QED BY <4>1 DEF Archived, Year
    <3> QED BY <3>1, <3>2 DEF Window
  <2>2. \A a \in SkiAreas \ archiveJob'.areas : ArchiveComplete(a)
    BY <1>3, <2>1 DEF Completes, ArchiveComplete
  <2> QED BY <1>1, <1>3, <2>2 DEF Completes, ArchiveComplete
<1> QED BY <1>1, <1>3, <1>4, ArchiveJobGoesOn

\* j is the job after its chunk is done with.
PastChunk(j) ==
    /\ j \in ArchiveJobs
    /\ j.todo = archiveJob.todo \ {Chunk}
    /\ j.at = archiveJob.at /\ j.areas = archiveJob.areas /\ j.years = archiveJob.years
    /\ j.wipe = archiveJob.wipe /\ j.kind = archiveJob.kind
    /\ j.hard = archiveJob.hard /\ j.abort = archiveJob.abort /\ j.paused = archiveJob.paused

\* The job that goes on to its next chunk keeps all else.
LEMMA NextIsPast ==
  ASSUME archiveJob \in ArchiveJobs
  PROVE  PastChunk(NextChunk) /\ NextChunk.short = archiveJob.short
<1> PICK rest : rest = archiveJob.todo \ {Chunk}
  OBVIOUS
<1>1. NextChunk = [archiveJob EXCEPT !.todo = rest, !.tries = 0, !.limited = FALSE]
  BY DEF NextChunk
<1>2. rest \in SUBSET (Years \X Bands) /\ 0 \in Nat /\ FALSE \in BOOLEAN
  BY DEF ArchiveJobs
<1>3. NextChunk \in ArchiveJobs
  BY <1>1, <1>2, Zenon DEF ArchiveJobs
<1>4. NextChunk.todo = rest /\ NextChunk.short = archiveJob.short
  BY <1>1, Zenon DEF ArchiveJobs
<1>5. /\ NextChunk.at = archiveJob.at /\ NextChunk.areas = archiveJob.areas
      /\ NextChunk.years = archiveJob.years /\ NextChunk.wipe = archiveJob.wipe
      /\ NextChunk.kind = archiveJob.kind
  BY <1>1, Zenon DEF ArchiveJobs
<1>6. /\ NextChunk.hard = archiveJob.hard /\ NextChunk.abort = archiveJob.abort
      /\ NextChunk.paused = archiveJob.paused
  BY <1>1, Zenon DEF ArchiveJobs
<1> QED BY <1>3, <1>4, <1>5, <1>6 DEF PastChunk

\* A chunk is done with: skipped, or stored with all its days unless the run says so.
LEMMA ChunkDone ==
  ASSUME ArchiveInv, archiveJob.at = "chunks", archiveJob.todo # {},
         PastChunk(archiveJob'), archiveJob.short => archiveJob'.short,
         archive' \in Archives, UNCHANGED <<climate, rebuild>>,
         \A a \in SkiAreas, b \in Bands : archive[a][b] \subseteq archive'[a][b],
         \A a \in SkiAreas : a # Current => archive'[a] = archive[a],
         ~archiveJob'.short => Year(Chunk[1]) \subseteq archive'[Current][Chunk[2]]
  PROVE  ArchiveInv'
<1>1. archiveJob \in ArchiveJobs /\ archiveJob.areas # {} /\ Chunk \in archiveJob.todo
  BY DEF ArchiveInv, Chunk
<1> PICK area, chunk : area = Current /\ chunk = Chunk
  OBVIOUS
<1>2. /\ archiveJob' \in ArchiveJobs /\ archiveJob'.at = "chunks"
      /\ archiveJob'.areas = archiveJob.areas /\ archiveJob'.years = archiveJob.years
      /\ archiveJob'.wipe = archiveJob.wipe /\ archiveJob'.kind = archiveJob.kind
      /\ archiveJob'.todo = archiveJob.todo \ {chunk}
  BY DEF PastChunk
<1>3. Held(archiveJob) => Held(archiveJob')
  BY DEF PastChunk, Held
<1>4. Current' = area
  BY <1>2 DEF Current
<1>5. ASSUME Completes(archiveJob, area), ~archiveJob'.short
      PROVE  Completes(archiveJob, Current)'
  <2>1. area \in archiveJob.areas
    BY <1>1, CurrentIsOne DEF Current
  <2>2. \A a \in SkiAreas \ archiveJob'.areas : ArchiveComplete(a)'
    BY <1>2, <1>5, <2>1 DEF Completes, ArchiveComplete
  <2>3. ASSUME NEW c \in (Years \X Bands) \ archiveJob'.todo
        PROVE  Year(c[1]) \subseteq archive'[area][c[2]]
    <3>1. CASE c = chunk
      BY <1>5, <3>1
    <3>2. CASE c # chunk
      <4>1. Archived(area, c)
        BY <1>1, <1>2, <1>5, <3>2 DEF Completes
      <4>2. area \in SkiAreas /\ c[2] \in Bands
        BY <1>1, <2>1 DEF ArchiveJobs
      <4> QED BY <4>1, <4>2 DEF Archived
    <3> QED BY <3>1, <3>2
  <2> QED BY <1>2, <1>4, <1>5, <2>2, <2>3 DEF Completes, Archived
<1>6. archiveJob'.short => Held(archiveJob')
  BY DEF Held
<1> QED BY <1>1, <1>2, <1>3, <1>5, <1>6, ArchiveJobGoesOn

\* A chunk is skipped only when its whole year is stored.
LEMMA SkipChunkKeeps ==
  ASSUME ArchiveInv, SkipChunk
  PROVE  ArchiveInv'
<1>1. /\ archiveJob \in ArchiveJobs /\ archiveJob.at = "chunks" /\ archiveJob.todo # {}
      /\ archiveJob' = NextChunk /\ UNCHANGED <<archive, climate, rebuild>>
      /\ Year(Chunk[1]) \subseteq archive[Current][Chunk[2]] /\ archive \in Archives
  BY DEF SkipChunk, Skippable, Archived, ArchiveInv
<1>2. PastChunk(archiveJob') /\ archiveJob'.short = archiveJob.short
  BY <1>1, NextIsPast
<1> QED BY <1>1, <1>2, ChunkDone

\* An answer adds days to one band of one area.
LEMMA FetchYearKeeps ==
  ASSUME ArchiveInv, FetchYear
  PROVE  ArchiveInv'
<1> PICK area, chunk : area = Current /\ chunk = Chunk
  OBVIOUS
<1> PICK whole \in BOOLEAN : whole = (Year(chunk[1]) \subseteq archive'[area][chunk[2]])
  OBVIOUS
<1>1. /\ archiveJob \in ArchiveJobs /\ archiveJob.at = "chunks" /\ archiveJob.todo # {}
      /\ UNCHANGED <<climate, rebuild>> /\ archive \in Archives /\ archiveJob.areas # {}
      /\ \E got \in SUBSET Year(chunk[1]) :
            archive' = [archive EXCEPT ![area][chunk[2]] = @ \cup got]
  BY DEF FetchYear, Trying, ArchiveInv
<1>2. area \in SkiAreas /\ chunk \in Years \X Bands
  <2>1. area \in archiveJob.areas /\ chunk \in archiveJob.todo
    BY <1>1, CurrentIsOne DEF Current, Chunk
  <2> QED BY <1>1, <2>1 DEF ArchiveJobs
<1>3. /\ archive' \in Archives
      /\ \A a \in SkiAreas, b \in Bands : archive[a][b] \subseteq archive'[a][b]
      /\ \A a \in SkiAreas : a # area => archive'[a] = archive[a]
  <2>1. PICK got \in SUBSET Year(chunk[1]) :
           archive' = [archive EXCEPT ![area] = [archive[area] EXCEPT
                                                   ![chunk[2]] = archive[area][chunk[2]] \cup got]]
    BY <1>1
  <2> PICK year, band : year = chunk[1] /\ band = chunk[2]
    OBVIOUS
  <2>2. year \in Years /\ band \in Bands
    BY <1>2
  <2>3. archive[area][band] \cup got \in SUBSET Window
    BY <1>1, <1>2, <2>2 DEF Archives, Year, Window
  <2> QED BY <1>1, <1>2, <2>1, <2>2, <2>3 DEF Archives
<1>4. PastChunk(archiveJob') /\ (archiveJob.short => archiveJob'.short)
      /\ (~archiveJob'.short => whole)
  <2> PICK used : used = IF archiveJob.kind = "completion" THEN NextChunk.used + 1 ELSE 0
    OBVIOUS
  <2> PICK short \in BOOLEAN : short = (NextChunk.short \/ ~whole)
    OBVIOUS
  <2>1. archiveJob' = [NextChunk EXCEPT !.used = used, !.short = short]
    <3>1. archiveJob' = [NextChunk EXCEPT
                           !.used = IF archiveJob.kind = "completion" THEN @ + 1 ELSE 0,
                           !.short = @ \/ ~whole]
      BY DEF FetchYear
    <3> HIDE DEF NextChunk
    <3> QED BY <3>1
  <2>2. NextChunk \in ArchiveJobs /\ PastChunk(NextChunk) /\ NextChunk.short = archiveJob.short
    BY <1>1, NextIsPast DEF PastChunk
  <2>3. used \in Nat
    BY <2>2 DEF ArchiveJobs
  <2> PICK next : next = NextChunk
    OBVIOUS
  <2>4. archiveJob' \in ArchiveJobs
    BY <2>1, <2>2, <2>3, Zenon DEF ArchiveJobs
  <2>5. archiveJob'.todo = next.todo /\ archiveJob'.at = next.at
        /\ archiveJob'.areas = next.areas /\ archiveJob'.years = next.years
    BY <2>1, <2>2, Zenon DEF ArchiveJobs
  <2>6. archiveJob'.wipe = next.wipe /\ archiveJob'.kind = next.kind
        /\ archiveJob'.hard = next.hard /\ archiveJob'.abort = next.abort
        /\ archiveJob'.paused = next.paused /\ archiveJob'.short = short
    BY <2>1, <2>2, Zenon DEF ArchiveJobs
  <2>7. PastChunk(archiveJob')
    BY <2>2, <2>4, <2>5, <2>6 DEF PastChunk
  <2> QED BY <2>2, <2>6, <2>7
<1> QED BY <1>1, <1>3, <1>4, ChunkDone

\* A chunk that failed for good holds the run up.
LEMMA FailedHolds ==
  ASSUME NEW j \in ArchiveJobs
  PROVE  /\ Failed(j) \in ArchiveJobs /\ Held(Failed(j)) /\ Failed(j).kind = j.kind
         /\ \/ Failed(j).at = "gate"
            \/ Failed(j).at = j.at /\ Failed(j).areas = j.areas
<1>0. 0 \in Nat /\ FALSE \in BOOLEAN /\ TRUE \in BOOLEAN /\ {} \in SUBSET SkiAreas
      /\ {} \in SUBSET (Years \X Bands)
  OBVIOUS
<1>1. CASE j.limited
  <2> PICK k : k = Failed(j)
    OBVIOUS
  <2>1. k = [j EXCEPT !.at = "gate", !.abort = TRUE, !.areas = {}, !.todo = {}, !.tries = 0,
                      !.limited = FALSE]
    BY <1>1 DEF Failed
  <2>2. k \in ArchiveJobs
    BY <1>0, <2>1, Zenon DEF ArchiveJobs
  <2>3. k.at = "gate" /\ k.abort /\ k.kind = j.kind
    BY <2>1, Zenon DEF ArchiveJobs
  <2> QED BY <2>2, <2>3 DEF Held
<1>2. CASE ~j.limited
  <2> PICK k : k = Failed(j)
    OBVIOUS
  <2> PICK rest : rest = j.todo \ {Chunk}
    OBVIOUS
  <2>1. k = [j EXCEPT !.hard = TRUE, !.todo = rest, !.tries = 0]
    BY <1>2 DEF Failed
  <2>2. rest \in SUBSET (Years \X Bands)
    BY DEF ArchiveJobs
  <2>3. k \in ArchiveJobs
    BY <1>0, <2>1, <2>2, Zenon DEF ArchiveJobs
  <2>4. k.at = j.at /\ k.areas = j.areas /\ k.hard /\ k.kind = j.kind
    BY <2>1, Zenon DEF ArchiveJobs
  <2> QED BY <2>3, <2>4 DEF Held
<1> QED BY <1>1, <1>2

\* A request that failed is tried again, or its chunk holds the run up.
LEMMA FetchErrorKeeps ==
  ASSUME ArchiveInv, NEW limited \in BOOLEAN, FetchError(limited)
  PROVE  ArchiveInv'
<1>1. /\ archiveJob \in ArchiveJobs /\ archiveJob.at = "chunks" /\ archiveJob.areas # {}
      /\ UNCHANGED <<archive, climate, rebuild>> /\ archive \in Archives
  BY DEF FetchError, Trying, ArchiveInv
<1> DEFINE j == [archiveJob EXCEPT !.tries = @ + 1, !.limited = @ \/ limited,
                        !.used = IF archiveJob.kind = "completion" THEN @ + 1 ELSE 0]
<1>2. /\ j \in ArchiveJobs /\ j.at = "chunks" /\ j.kind = archiveJob.kind
      /\ j.areas = archiveJob.areas /\ j.todo = archiveJob.todo /\ j.wipe = archiveJob.wipe
      /\ j.years = archiveJob.years /\ (Held(archiveJob) => Held(j))
  <2>1. PICK slow \in BOOLEAN : slow = (archiveJob.limited \/ limited)
    OBVIOUS
  <2>2. PICK spent \in Nat :
           spent = IF archiveJob.kind = "completion" THEN archiveJob.used + 1 ELSE 0
    BY <1>1 DEF ArchiveJobs
  <2>3. j = [archiveJob EXCEPT !.tries = @ + 1, !.limited = slow, !.used = spent]
    <3>1. CASE archiveJob.kind = "completion"
      <4>1. spent = archiveJob.used + 1
        BY <2>2, <3>1
      <4> QED BY <2>1, <3>1, <4>1, Zenon
    <3>2. CASE archiveJob.kind # "completion"
      <4>1. spent = 0
        BY <2>2, <3>2
      <4> QED BY <2>1, <3>2, <4>1, Zenon
    <3> QED BY <3>1, <3>2
  <2>4. PICK again \in Nat : again = archiveJob.tries + 1
    BY <1>1 DEF ArchiveJobs
  <2>5. j = [archiveJob EXCEPT !.tries = again, !.limited = slow, !.used = spent]
    BY <2>3, <2>4, Zenon
  <2> HIDE DEF j
  <2>6. j \in ArchiveJobs
    BY <1>1, <2>5, Zenon DEF ArchiveJobs
  <2>7. /\ j.at = archiveJob.at /\ j.kind = archiveJob.kind /\ j.areas = archiveJob.areas
        /\ j.todo = archiveJob.todo /\ j.wipe = archiveJob.wipe /\ j.years = archiveJob.years
    BY <1>1, <2>5, Zenon DEF ArchiveJobs
  <2>8. /\ j.hard = archiveJob.hard /\ j.abort = archiveJob.abort
        /\ j.paused = archiveJob.paused /\ j.short = archiveJob.short
    BY <1>1, <2>5, Zenon DEF ArchiveJobs
  <2> QED BY <1>1, <2>6, <2>7, <2>8 DEF Held
<1>3. archiveJob' = j \/ archiveJob' = Failed(j)
  BY DEF FetchError
<1> HIDE DEF j
<1>4. CASE archiveJob' = j
  <2>1. Completes(archiveJob, Current) => Completes(archiveJob, Current)'
    BY <1>1, <1>2, <1>4 DEF Completes, Current, ArchiveComplete, Archived
  <2> QED BY <1>1, <1>2, <1>4, <2>1, ArchiveJobGoesOn
<1>5. CASE archiveJob' = Failed(j)
  BY <1>1, <1>2, <1>5, FailedHolds, ArchiveJobGoesOn
<1> QED BY <1>3, <1>4, <1>5

\* A backfill that returns has no area left to visit.
LEMMA LaidDown ==
  ASSUME NEW j \in ArchiveJobs
  PROVE  [j EXCEPT !.at = "gate", !.areas = {}, !.todo = {}] \in ArchiveJobs
<1>1. {} \in SUBSET SkiAreas /\ {} \in SUBSET (Years \X Bands)
  OBVIOUS
<1> QED BY <1>1, Zenon DEF ArchiveJobs

\* A spent budget holds the run up.
LEMMA OutOfBudgetKeeps ==
  ASSUME ArchiveInv, OutOfBudget
  PROVE  ArchiveInv'
<1>1. /\ archiveJob \in ArchiveJobs /\ archiveJob.at = "chunks" /\ archiveJob.areas # {}
      /\ UNCHANGED <<archive, climate, rebuild>> /\ archive \in Archives
  BY DEF OutOfBudget, Trying, ArchiveInv
<1> PICK j : j = [archiveJob EXCEPT !.paused = TRUE]
  OBVIOUS
<1>2. j \in ArchiveJobs /\ j.at = "chunks" /\ j.kind = archiveJob.kind
      /\ j.areas = archiveJob.areas /\ j.paused
  BY <1>1, Zenon DEF ArchiveJobs
<1>3. \/ archiveJob' = Failed(j)
      \/ archiveJob' = [j EXCEPT !.at = "gate", !.areas = {}, !.todo = {}]
  BY DEF OutOfBudget
<1>4. CASE archiveJob' = Failed(j)
  BY <1>1, <1>2, <1>4, FailedHolds, ArchiveJobGoesOn
<1>5. CASE archiveJob' = [j EXCEPT !.at = "gate", !.areas = {}, !.todo = {}]
  <2>1. archiveJob' \in ArchiveJobs
    <3>1. j \in ArchiveJobs => archiveJob' \in ArchiveJobs
      BY <1>5, LaidDown, Zenon
    <3> QED BY <1>2, <3>1
  <2>2. archiveJob'.at = "gate" /\ archiveJob'.kind = j.kind /\ archiveJob'.paused
    BY <1>2, <1>5, Zenon DEF ArchiveJobs
  <2>3. Held(archiveJob')
    BY <2>2 DEF Held
  <2> QED BY <1>1, <1>2, <2>1, <2>2, <2>3, ArchiveJobGoesOn
<1> QED BY <1>3, <1>4, <1>5

\* At its second look the controller counts what is left of the archive: nothing, if
\* the run was not held up.
LEMMA GateKeeps ==
  ASSUME ArchiveInv, Gate
  PROVE  ArchiveInv'
<1> PICK left : left = {a \in SkiAreas : ~ArchiveComplete(a)}
  OBVIOUS
<1> PICK old : old = {a \in SkiAreas \ left : ~IsCurrent(climate[a])}
  OBVIOUS
<1>1. /\ archiveJob \in ArchiveJobs /\ archive \in Archives
      /\ UNCHANGED <<archive, climate, rebuild>>
      /\ archiveJob.at = "gate" \/ (archiveJob.at = "fetch" /\ archiveJob.areas = {})
      /\ archiveJob' = IF archiveJob.kind = "completion"
                       THEN [archiveJob EXCEPT !.at = "climate", !.remaining = left,
                                              !.rebuilt = {}, !.beside = {}, !.stale = old]
                       ELSE NoArchiveJob
  BY DEF Gate, ArchiveInv
<1>2. CASE archiveJob.kind # "completion"
  <2>1. archiveJob' = NoArchiveJob
    BY <1>1, <1>2
  <2> QED BY <1>1, <2>1, IdleJob DEF ArchiveInv, Archives
<1>3. CASE archiveJob.kind = "completion"
  <2>1. archiveJob' = [archiveJob EXCEPT !.at = "climate", !.remaining = left,
                                         !.rebuilt = {}, !.beside = {}, !.stale = old]
    BY <1>1, <1>3
  <2>2. left \in SUBSET SkiAreas /\ old \in SUBSET SkiAreas /\ {} \in SUBSET SkiAreas
    OBVIOUS
  <2>3. archiveJob' \in ArchiveJobs
    BY <1>1, <2>1, <2>2, Zenon DEF ArchiveJobs
  <2>4. /\ archiveJob'.at = "climate" /\ archiveJob'.remaining = left
        /\ archiveJob'.stale = old /\ archiveJob'.rebuilt = {}
        /\ archiveJob'.beside = {}
    BY <1>1, <2>1, Zenon DEF ArchiveJobs
  <2>5. /\ archiveJob'.hard = archiveJob.hard /\ archiveJob'.abort = archiveJob.abort
        /\ archiveJob'.paused = archiveJob.paused /\ archiveJob'.short = archiveJob.short
    BY <1>1, <2>1, Zenon DEF ArchiveJobs
  <2>6. left # {} => Held(archiveJob')
    <3>1. Held(archiveJob) \/ Completes(archiveJob, Current)
      BY <1>1, <1>3 DEF ArchiveInv, Underway
    <3>2. Held(archiveJob) => Held(archiveJob')
      BY <2>5 DEF Held
    <3>3. Completes(archiveJob, Current) => left = {}
      BY <1>1 DEF Completes
    <3> QED BY <3>1, <3>2, <3>3
  <2>7. \A a \in SkiAreas \ (left \cup old \cup archiveJob'.beside) : IsCurrent(climate'[a])
    BY <1>1
  <2>8. archiveJob'.remaining = {a \in SkiAreas : ~ArchiveComplete(a)'}
    BY <1>1, <2>4 DEF ArchiveComplete
  <2>9. LooksTrue(archiveJob)'
    <3>1. archiveJob'.remaining # {} => Held(archiveJob)'
      BY <2>4, <2>6 DEF Held
    <3>2. \A a \in SkiAreas \ (archiveJob'.remaining \cup archiveJob'.stale
                                                     \cup archiveJob'.beside) :
             IsCurrent(climate[a])'
      BY <1>1, <2>4, <2>7
    <3>3. archiveJob'.rebuilt = {}
      BY <2>4
    <3> QED BY <2>8, <3>1, <3>2, <3>3 DEF LooksTrue
  <2> QED BY <1>1, <2>3, <2>4, <2>9 DEF ArchiveInv, Underway
<1> QED BY <1>2, <1>3

\* Climatology made from a whole archive up to the last year is current.
LEMMA WholeIsCurrent ==
  ASSUME NEW a \in SkiAreas, archive \in Archives, ArchiveComplete(a)
  PROVE  /\ \A b \in Bands : Rows(a, LastYear).evidence[b] = Window
         /\ HasAllRows(Rows(a, LastYear)) => IsCurrent(Rows(a, LastYear))
<1>1. LastYear \in Nat \ {0}
  BY ArchiveAssumption
<1>2. ASSUME NEW b \in Bands PROVE Rows(a, LastYear).evidence[b] = Window
  <2>1. Rows(a, LastYear).evidence[b] = {d \in archive[a][b] : d[1] <= LastYear}
    BY DEF Rows
  <2>2. archive[a][b] = Window
    BY DEF ArchiveComplete
  <2>3. \A d \in Window : d[1] <= LastYear
    BY <1>1 DEF Window, Years
  <2> QED BY <2>1, <2>2, <2>3
<1>3. PICK d : d \in Days
  BY ArchiveAssumption
<1>4. <<LastYear, d>> \in Window
  BY <1>1, <1>3 DEF Window, Years
<1>5. Rows(a, LastYear).end = LastYear
  BY DEF Rows
<1> QED BY <1>2, <1>3, <1>4, <1>5 DEF IsCurrent

\* Climatology the controller rebuilds rests on the whole archive.
LEMMA ClimateKeeps ==
  ASSUME ArchiveInv, Climate
  PROVE  ArchiveInv'
<1> PICK area : area = Area(archiveJob.stale)
  OBVIOUS
<1> PICK computed : computed = Rows(area, LastYear)
  OBVIOUS
<1>1. /\ archiveJob \in ArchiveJobs /\ archive \in Archives
      /\ UNCHANGED <<archive, rebuild>>
      /\ archiveJob.at = "climate" /\ archiveJob.stale # {} /\ LooksTrue(archiveJob)
      /\ climate = [a \in SkiAreas |-> climate[a]]
      /\ rebuild.area \in SkiAreas \cup {"none"}
  BY DEF Climate, ArchiveInv
<1>2. \/ /\ HasAllRows(computed) /\ climate' = [climate EXCEPT ![area] = computed]
         /\ archiveJob' = [archiveJob EXCEPT !.stale = @ \ {area}, !.rebuilt = @ \cup {area},
                                             !.beside = @ \ {area}]
      \/ archiveJob' = NoArchiveJob /\ climate' = climate
  BY DEF Climate
<1>3. CASE archiveJob' = NoArchiveJob /\ climate' = climate
  BY <1>1, <1>3, IdleJob DEF ArchiveInv, Archives
<1>4. CASE /\ HasAllRows(computed) /\ climate' = [climate EXCEPT ![area] = computed]
           /\ archiveJob' = [archiveJob EXCEPT !.stale = @ \ {area}, !.rebuilt = @ \cup {area},
                                               !.beside = @ \ {area}]
  <2> PICK old, done, others : /\ old = archiveJob.stale \ {area}
                               /\ done = archiveJob.rebuilt \cup {area}
                               /\ others = archiveJob.beside \ {area}
    OBVIOUS
  <2>1. archiveJob' = [archiveJob EXCEPT !.stale = old, !.rebuilt = done, !.beside = others]
    BY <1>4
  <2>2. area \in archiveJob.stale /\ area \in SkiAreas
    BY <1>1, CurrentIsOne DEF ArchiveJobs
  <2>3. old \in SUBSET SkiAreas /\ done \in SUBSET SkiAreas /\ others \in SUBSET SkiAreas
    BY <1>1, <2>2 DEF ArchiveJobs
  <2>4. archiveJob' \in ArchiveJobs
    BY <1>1, <2>1, <2>3, Zenon DEF ArchiveJobs
  <2>5. /\ archiveJob'.at = "climate" /\ archiveJob'.remaining = archiveJob.remaining
        /\ archiveJob'.stale = old /\ archiveJob'.rebuilt = done /\ archiveJob'.beside = others
    BY <1>1, <2>1, Zenon DEF ArchiveJobs
  <2>6. /\ archiveJob'.hard = archiveJob.hard /\ archiveJob'.abort = archiveJob.abort
        /\ archiveJob'.paused = archiveJob.paused /\ archiveJob'.short = archiveJob.short
    BY <1>1, <2>1, Zenon DEF ArchiveJobs
  <2>7. /\ climate'[area] = computed /\ \A a \in SkiAreas : a # area => climate'[a] = climate[a]
        /\ climate' = [a \in SkiAreas |-> climate'[a]]
    <3> PICK old_climate : old_climate = [a \in SkiAreas |-> climate[a]]
      OBVIOUS
    <3>1. climate' = [old_climate EXCEPT ![area] = computed]
      BY <1>1, <1>4
    <3> QED BY <2>2, <3>1, <1>1
  <2> PICK counted_out : counted_out = archiveJob.remaining
    OBVIOUS
  <2>8. /\ counted_out = {a \in SkiAreas : ~ArchiveComplete(a)}
        /\ counted_out # {} => Held(archiveJob)
    BY <1>1 DEF LooksTrue
  <2>9. LooksTrue(archiveJob)'
    <3>1. archiveJob'.remaining = {a \in SkiAreas : ~ArchiveComplete(a)'}
      BY <1>1, <2>5, <2>8 DEF ArchiveComplete
    <3>2. archiveJob'.remaining # {} => Held(archiveJob)'
      BY <2>5, <2>6, <2>8 DEF Held
    <3>3. ArchiveComplete(area) =>
             IsCurrent(computed) /\ \A b \in Bands : computed.evidence[b] = Window
      BY <1>1, <1>4, <2>2, WholeIsCurrent
    <3>4. ASSUME NEW a \in SkiAreas \ (archiveJob'.remaining \cup archiveJob'.stale
                                                            \cup archiveJob'.beside)
          PROVE  IsCurrent(climate'[a])
      <4>1. CASE a = area
        BY <2>5, <2>7, <2>8, <3>3, <4>1
      <4>2. CASE a # area
        BY <1>1, <2>5, <2>7, <4>2 DEF LooksTrue
      <4> QED BY <4>1, <4>2
    <3>5. ASSUME NEW a \in archiveJob'.rebuilt \ (archiveJob'.remaining \cup archiveJob'.beside),
                 NEW b \in Bands
          PROVE  climate'[a].evidence[b] = Window
      <4>1. CASE a = area
        <5>1. ArchiveComplete(area)
          BY <2>2, <2>5, <2>8, <4>1
        <5> QED BY <2>7, <3>3, <4>1, <5>1
      <4>2. CASE a # area
        BY <1>1, <2>3, <2>5, <2>7, <4>2 DEF LooksTrue
      <4> QED BY <4>1, <4>2
    <3> QED BY <3>1, <3>2, <3>4, <3>5 DEF LooksTrue
  <2> QED BY <1>1, <2>4, <2>5, <2>7, <2>9 DEF ArchiveInv, Underway
<1> QED BY <1>2, <1>3, <1>4

\* Climatology that the rebuild command replaces is beside the controller's account.
LEMMA ReplaceRowsKeeps ==
  ASSUME ArchiveInv, ReplaceRows
  PROVE  ArchiveInv'
<1> PICK area : area = rebuild.area
  OBVIOUS
<1> PICK computed : computed = rebuild.seen
  OBVIOUS
<1>1. /\ archiveJob \in ArchiveJobs /\ archive \in Archives /\ archive' = archive
      /\ climate = [a \in SkiAreas |-> climate[a]] /\ climate' = [climate EXCEPT ![area] = computed]
      /\ rebuild' = NoRebuild /\ area \in SkiAreas
      /\ archiveJob' = IF archiveJob.at = "climate"
                       THEN [archiveJob EXCEPT !.beside = @ \cup {area}] ELSE archiveJob
  BY DEF ReplaceRows, ArchiveInv
<1>2. /\ \A a \in SkiAreas : a # area => climate'[a] = climate[a]
      /\ climate' = [a \in SkiAreas |-> climate'[a]]
  <2> PICK old : old = [a \in SkiAreas |-> climate[a]]
    OBVIOUS
  <2>1. climate' = [old EXCEPT ![area] = computed]
    BY <1>1
  <2> QED BY <1>1, <2>1
<1>3. rebuild'.area \in SkiAreas \cup {"none"}
  BY <1>1 DEF NoRebuild
<1>4. CASE archiveJob.at # "climate"
  <2>1. archiveJob' = archiveJob
    BY <1>1, <1>4
  <2>2. Underway(archiveJob)' => Held(archiveJob)' \/ Completes(archiveJob, Current)'
    BY <1>1, <2>1 DEF ArchiveInv, Underway, Held, Completes, Current, ArchiveComplete, Archived
  <2> QED BY <1>1, <1>2, <1>3, <1>4, <2>1, <2>2 DEF ArchiveInv
<1>5. CASE archiveJob.at = "climate"
  <2> PICK others : others = archiveJob.beside \cup {area}
    OBVIOUS
  <2>1. archiveJob' = [archiveJob EXCEPT !.beside = others]
    BY <1>1, <1>5
  <2>2. others \in SUBSET SkiAreas
    BY <1>1 DEF ArchiveJobs
  <2>3. archiveJob' \in ArchiveJobs
    BY <1>1, <2>1, <2>2, Zenon DEF ArchiveJobs
  <2>4. /\ archiveJob'.at = "climate" /\ archiveJob'.remaining = archiveJob.remaining
        /\ archiveJob'.stale = archiveJob.stale /\ archiveJob'.rebuilt = archiveJob.rebuilt
        /\ archiveJob'.beside = others
    BY <1>1, <1>5, <2>1, Zenon DEF ArchiveJobs
  <2>5. /\ archiveJob'.hard = archiveJob.hard /\ archiveJob'.abort = archiveJob.abort
        /\ archiveJob'.paused = archiveJob.paused /\ archiveJob'.short = archiveJob.short
    BY <1>1, <2>1, Zenon DEF ArchiveJobs
  <2>6. LooksTrue(archiveJob)
    BY <1>5 DEF ArchiveInv
  <2>7. LooksTrue(archiveJob)'
    <3>1. archiveJob'.remaining = {a \in SkiAreas : ~ArchiveComplete(a)'}
      BY <1>1, <2>4, <2>6 DEF LooksTrue, ArchiveComplete
    <3>2. archiveJob'.remaining # {} => Held(archiveJob)'
      BY <2>4, <2>5, <2>6 DEF LooksTrue, Held
    <3>3. ASSUME NEW a \in SkiAreas \ (archiveJob'.remaining \cup archiveJob'.stale
                                                            \cup archiveJob'.beside)
          PROVE  IsCurrent(climate'[a])
      <4>1. a # area /\ a \notin archiveJob.beside
        BY <2>4
      <4>2. IsCurrent(climate[a])
        BY <2>4, <2>6, <4>1 DEF LooksTrue
      <4> QED BY <1>2, <4>1, <4>2
    <3>4. ASSUME NEW a \in archiveJob'.rebuilt \ (archiveJob'.remaining \cup archiveJob'.beside),
                 NEW b \in Bands
          PROVE  climate'[a].evidence[b] = Window
      <4>1. a # area /\ a \notin archiveJob.beside /\ a \in SkiAreas
        BY <1>1, <2>4 DEF ArchiveJobs
      <4>2. climate[a].evidence[b] = Window
        BY <2>4, <2>6, <4>1 DEF LooksTrue
      <4> QED BY <1>2, <4>1, <4>2
    <3> QED BY <3>1, <3>2, <3>3, <3>4 DEF LooksTrue
  <2> QED BY <1>1, <1>2, <1>3, <2>3, <2>4, <2>7 DEF ArchiveInv, Underway
<1> QED BY <1>4, <1>5

\* The rebuild command reads one area; nothing that the controller has read changes.
LEMMA ReadingKeeps ==
  ASSUME ArchiveInv, UNCHANGED <<archive, climate, archiveJob>>,
         rebuild'.area \in SkiAreas \cup {"none"}
  PROVE  ArchiveInv'
<1>1. Underway(archiveJob)' => Held(archiveJob)' \/ Completes(archiveJob, Current)'
  BY DEF ArchiveInv, Underway, Held, Completes, Current, ArchiveComplete, Archived
<1>2. archiveJob'.at = "climate" => LooksTrue(archiveJob)'
  BY DEF ArchiveInv, Held, ArchiveComplete, LooksTrue
<1>3. archive' \in Archives /\ climate' = [b \in SkiAreas |-> climate'[b]]
      /\ archiveJob' \in ArchiveJobs /\ (archiveJob'.at = "chunks" => archiveJob'.areas # {})
  BY DEF ArchiveInv
<1> QED BY <1>1, <1>2, <1>3 DEF ArchiveInv

\* Every step of the archive's commands keeps the invariant.
LEMMA ArchiveNextInv == ArchiveInv /\ [ArchiveNext]_archiveVars => ArchiveInv'
<1> SUFFICES ASSUME ArchiveInv, [ArchiveNext]_archiveVars PROVE ArchiveInv'
  OBVIOUS
<1>1. CASE \E areas \in SUBSET SkiAreas \ {{}}, years \in SUBSET Years \ {{}},
              force, wipe \in BOOLEAN : StartBackfill(areas, years, force, wipe)
  BY <1>1, ArchiveJobStarts
<1>2. CASE StartCompletion \/ KillJob \/ Report
  BY <1>2, ArchiveJobStarts
<1>3. CASE EnterArea \/ LeaveArea \/ SkipChunk
  BY <1>3, EnterAreaKeeps, LeaveAreaKeeps, SkipChunkKeeps
<1>4. CASE FetchYear \/ OutOfBudget \/ \E limited \in BOOLEAN : FetchError(limited)
  BY <1>4, FetchYearKeeps, FetchErrorKeeps, OutOfBudgetKeeps
<1>5. CASE Gate \/ Climate \/ ReplaceRows
  BY <1>5, GateKeeps, ClimateKeeps, ReplaceRowsKeeps
<1>6. CASE \E a \in SkiAreas : \E end \in {LastYear, LatestYear(a)} : ReadObservations(a, end)
  <2>1. UNCHANGED <<archive, climate, archiveJob>> /\ rebuild'.area \in SkiAreas
    BY <1>6 DEF ReadObservations
  <2> QED BY <2>1, ReadingKeeps
<1>7. CASE UNCHANGED archiveVars
  <2>1. UNCHANGED <<archive, climate, archiveJob, rebuild>>
    BY <1>7 DEF archiveVars
  <2>2. rebuild'.area \in SkiAreas \cup {"none"}
    BY <2>1 DEF ArchiveInv
  <2> QED BY <2>1, <2>2, ReadingKeeps
<1>8. ArchiveNext =>
         \/ \E areas \in SUBSET SkiAreas \ {{}}, years \in SUBSET Years \ {{}},
               force, wipe \in BOOLEAN : StartBackfill(areas, years, force, wipe)
         \/ StartCompletion \/ KillJob \/ Report
         \/ EnterArea \/ LeaveArea \/ SkipChunk
         \/ FetchYear \/ OutOfBudget \/ \E limited \in BOOLEAN : FetchError(limited)
         \/ Gate \/ Climate \/ ReplaceRows
         \/ \E a \in SkiAreas : \E end \in {LastYear, LatestYear(a)} : ReadObservations(a, end)
  BY Zenon DEF ArchiveNext
<1> QED BY <1>1, <1>2, <1>3, <1>4, <1>5, <1>6, <1>7, <1>8

\* Completion is true: what the controller reports is what the archive holds, work
\* remains only if the run was held up, and every other area has current climatology,
\* resting on the whole archive where this run rebuilt it
\* (complete_historical_weather.py:158-227).
THEOREM CompletionsAreTrue == ArchiveSpec => []CompletionIsTrue
<1>1. ArchiveInit => ArchiveInv
  <2> SUFFICES ASSUME ArchiveInit PROVE ArchiveInv
    OBVIOUS
  <2>1. archive \in Archives
    BY DEF ArchiveInit, Archives
  <2>2. climate = [a \in SkiAreas |-> climate[a]]
    BY DEF ArchiveInit
  <2>3. archiveJob = NoArchiveJob /\ rebuild.area \in SkiAreas \cup {"none"}
    BY DEF ArchiveInit, NoRebuild
  <2> QED BY <2>1, <2>2, <2>3, IdleJob DEF ArchiveInv
<1>2. ArchiveInv => CompletionIsTrue
  <2> SUFFICES ASSUME ArchiveInv, archiveJob.at = "climate" PROVE CompletionIsTrue
    BY DEF CompletionIsTrue, Reporting
  <2>1. LooksTrue(archiveJob)
    BY DEF ArchiveInv
  <2>2. archiveJob.remaining = {a \in SkiAreas : ~ArchiveComplete(a)}
    BY <2>1 DEF LooksTrue
  <2>3. Outcome(archiveJob) # "complete" => Held(archiveJob)
    BY <2>1 DEF LooksTrue, Outcome, Held
  <2>4. ASSUME Reporting,
               NEW a \in SkiAreas \ (archiveJob.remaining \cup archiveJob.beside)
        PROVE  /\ IsCurrent(climate[a])
               /\ a \in archiveJob.rebuilt =>
                     \A b \in Bands : climate[a].evidence[b] = Window
    BY <2>1, <2>4 DEF LooksTrue, Reporting
  <2> QED BY <2>2, <2>3, <2>4 DEF CompletionIsTrue
<1> QED BY <1>1, <1>2, ArchiveNextInv, PTL DEF ArchiveSpec

-----------------------------------------------------------------------------
(* The snapshots that a search leaves for its questions.  What is kept of  *)
(* a sequence and what it adds up to are recursions along it; the first    *)
(* lemmas show what one more element does to them.                         *)

Keeping(K) == [sum |-> FALSE, of |-> K]
Adding(k) == [sum |-> TRUE, of |-> k]

OfNone(w) == IF w.sum THEN 0 ELSE << >>
With(w, x, e) == IF w.sum THEN x + Size[e.print][w.of]
                 ELSE IF e \in w.of THEN Append(x, e) ELSE x

\* f holds what is kept or added up of each prefix of s up to length n
Runs(w, f, s, n) ==
    f = [i \in 0..n |-> IF i = 0 THEN OfNone(w) ELSE With(w, f[i - 1], s[i])]

LEMMA RunsExist ==
  ASSUME NEW w, NEW s, NEW n \in Nat
  PROVE  \E f : Runs(w, f, s, n)
<1> DEFINE S == {m \in Nat : ~ \E f : Runs(w, f, s, m)}
<1> SUFFICES ASSUME S # {} PROVE FALSE
  OBVIOUS
<1> HIDE DEF S
<1>1. PICK m \in S : \A k \in S : m <= k
  BY LeastOf DEF S
<1>2. CASE m = 0
  <2>1. Runs(w, [i \in 0..0 |-> OfNone(w)], s, 0)
    BY DEF Runs
  <2> QED BY <1>2, <2>1 DEF S
<1>3. CASE m > 0
  <2>1. m \in Nat /\ m - 1 \in Nat /\ m - 1 \notin S
    BY <1>1, <1>3 DEF S
  <2>2. PICK f : Runs(w, f, s, m - 1)
    BY <2>1 DEF S
  <2> DEFINE g == [i \in 0..m |-> IF i = m THEN With(w, f[m - 1], s[m]) ELSE f[i]]
  <2>3. ASSUME NEW i \in 0..m
        PROVE  g[i] = IF i = 0 THEN OfNone(w) ELSE With(w, g[i - 1], s[i])
    <3>1. CASE i = m
      <4>1. i - 1 \in 0..m /\ i - 1 # m /\ i # 0
        BY <1>3, <2>1, <3>1
      <4> QED BY <3>1, <4>1
    <3>2. CASE i # m
      <4>1. i \in 0..(m - 1) /\ g[i] = f[i]
        BY <2>1, <3>2
      <4>2. f[i] = IF i = 0 THEN OfNone(w) ELSE With(w, f[i - 1], s[i])
        BY <2>2, <4>1 DEF Runs
      <4>3. i # 0 => i - 1 \in 0..m /\ i - 1 # m
        BY <2>1, <3>2
      <4> QED BY <4>1, <4>2, <4>3
    <3> QED BY <3>1, <3>2
  <2>4. Runs(w, g, s, m)
    BY <2>3 DEF Runs
  <2> QED BY <2>1, <2>4 DEF S
<1> QED BY <1>1, <1>2, <1>3 DEF S

LEMMA RunsAgree ==
  ASSUME NEW w, NEW s, NEW longer, NEW k \in Nat, NEW l \in Nat, k <= l,
         \A i \in 1..k : s[i] = longer[i],
         NEW f, Runs(w, f, s, k), NEW g, Runs(w, g, longer, l),
         NEW n \in 0..k
  PROVE  f[n] = g[n]
<1> DEFINE S == {i \in 0..k : f[i] # g[i]}
<1> SUFFICES ASSUME S # {} PROVE FALSE
  OBVIOUS
<1> HIDE DEF S
<1>0. S \subseteq Nat
  BY DEF S
<1>1. PICK m \in S : \A i \in S : m <= i
  BY <1>0, LeastOf
<1>2. m \in 0..k /\ m \in 0..l /\ f[m] # g[m]
  BY DEF S
<1>3. /\ f[m] = IF m = 0 THEN OfNone(w) ELSE With(w, f[m - 1], s[m])
      /\ g[m] = IF m = 0 THEN OfNone(w) ELSE With(w, g[m - 1], longer[m])
  BY <1>2 DEF Runs
<1>4. CASE m = 0
  BY <1>2, <1>3, <1>4
<1>5. CASE m # 0
  <2>1. m - 1 \in 0..k /\ m - 1 \notin S /\ m \in 1..k
    BY <1>1, <1>2, <1>5 DEF S
  <2>2. f[m - 1] = g[m - 1]
    BY <2>1 DEF S
  <2> QED BY <1>2, <1>3, <1>5, <2>1, <2>2
<1> QED BY <1>4, <1>5

KeepsSo(f, s, K) ==
    f = [i \in 0..Len(s) |->
            IF i = 0 THEN << >>
            ELSE IF s[i] \in K THEN Append(f[i - 1], s[i]) ELSE f[i - 1]]
AddsSo(f, s, k) ==
    f = [i \in 0..Len(s) |->
            IF i = 0 THEN 0 ELSE f[i - 1] + Size[s[i].print][k]]

LEMMA OnlyRuns ==
  ASSUME NEW s, Len(s) \in Nat, NEW K
  PROVE  \E f : Runs(Keeping(K), f, s, Len(s)) /\ Only(s, K) = f[Len(s)]
<1>1. \A f : Runs(Keeping(K), f, s, Len(s)) <=> KeepsSo(f, s, K)
  BY DEF Runs, KeepsSo, Keeping, OfNone, With
<1>2. \E f : KeepsSo(f, s, K)
  <2>1. PICK f : Runs(Keeping(K), f, s, Len(s))
    BY RunsExist
  <2> QED BY <1>1, <2>1
<1> DEFINE f == CHOOSE g : KeepsSo(g, s, K)
<1>3. KeepsSo(f, s, K)
  BY <1>2, Zenon
<1>4. Only(s, K) = f[Len(s)]
  BY DEF Only, KeepsSo
<1> HIDE DEF f
<1> QED BY <1>1, <1>3, <1>4

LEMMA SumRuns ==
  ASSUME NEW s, Len(s) \in Nat, NEW k
  PROVE  \E f : Runs(Adding(k), f, s, Len(s)) /\ SumOf(s, k) = f[Len(s)]
<1>1. \A f : Runs(Adding(k), f, s, Len(s)) <=> AddsSo(f, s, k)
  BY DEF Runs, AddsSo, Adding, OfNone, With
<1>2. \E f : AddsSo(f, s, k)
  <2>1. PICK f : Runs(Adding(k), f, s, Len(s))
    BY RunsExist
  <2> QED BY <1>1, <2>1
<1> DEFINE f == CHOOSE g : AddsSo(g, s, k)
<1>3. AddsSo(f, s, k)
  BY <1>2, Zenon
<1>4. SumOf(s, k) = f[Len(s)]
  BY DEF SumOf, AddsSo
<1> HIDE DEF f
<1> QED BY <1>1, <1>3, <1>4

\* Nothing is kept of nothing, and it adds up to nothing.
LEMMA OfNothing ==
  /\ \A K : Only(<< >>, K) = << >>
  /\ \A k : SumOf(<< >>, k) = 0
  /\ Elements(<< >>) = {}
<1>1. Len(<< >>) = 0
  OBVIOUS
<1>2. ASSUME NEW K PROVE Only(<< >>, K) = << >>
  <2>1. PICK h : Runs(Keeping(K), h, << >>, 0) /\ Only(<< >>, K) = h[0]
    BY <1>1, OnlyRuns
  <2> QED BY <2>1 DEF Runs, Keeping, OfNone
<1>3. ASSUME NEW k PROVE SumOf(<< >>, k) = 0
  <2>1. PICK h : Runs(Adding(k), h, << >>, 0) /\ SumOf(<< >>, k) = h[0]
    BY <1>1, SumRuns
  <2> QED BY <2>1 DEF Runs, Adding, OfNone
<1>4. Elements(<< >>) = {}
  BY DEF Elements
<1> QED BY <1>2, <1>3, <1>4

LEMMA OnlyOneMore ==
  ASSUME NEW T, NEW s \in Seq(T), NEW e \in T, NEW K
  PROVE  Only(Append(s, e), K) =
            IF e \in K THEN Append(Only(s, K), e) ELSE Only(s, K)
<1> DEFINE l == Append(s, e)
<1>0. /\ Len(s) \in Nat /\ Len(l) = Len(s) + 1 /\ l[Len(s) + 1] = e
      /\ \A i \in 1..Len(s) : s[i] = l[i]
  OBVIOUS
<1>1. PICK f : Runs(Keeping(K), f, s, Len(s)) /\ Only(s, K) = f[Len(s)]
  BY <1>0, OnlyRuns
<1> HIDE DEF l
<1>2. PICK g : Runs(Keeping(K), g, l, Len(s) + 1) /\ Only(l, K) = g[Len(s) + 1]
  BY <1>0, OnlyRuns
<1>3. f[Len(s)] = g[Len(s)]
  <2>1. PICK n \in Nat : n = Len(s)
    BY <1>0
  <2>2. n + 1 \in Nat /\ n <= n + 1 /\ n \in 0..n /\ \A i \in 1..n : s[i] = l[i]
    BY <1>0, <2>1
  <2>3. Runs(Keeping(K), f, s, n) /\ Runs(Keeping(K), g, l, n + 1)
    BY <1>1, <1>2, <2>1
  <2>4. f[n] = g[n]
    BY <2>2, <2>3, RunsAgree
  <2> QED BY <2>1, <2>4
<1>4. g[Len(s) + 1] = With(Keeping(K), g[Len(s)], e)
  BY <1>0, <1>2 DEF Runs
<1> QED BY <1>1, <1>2, <1>3, <1>4 DEF With, Keeping, l

LEMMA SumOneMore ==
  ASSUME NEW T, NEW s \in Seq(T), NEW e \in T, NEW k
  PROVE  SumOf(Append(s, e), k) = SumOf(s, k) + Size[e.print][k]
<1> DEFINE l == Append(s, e)
<1>0. /\ Len(s) \in Nat /\ Len(l) = Len(s) + 1 /\ l[Len(s) + 1] = e
      /\ \A i \in 1..Len(s) : s[i] = l[i]
  OBVIOUS
<1>1. PICK f : Runs(Adding(k), f, s, Len(s)) /\ SumOf(s, k) = f[Len(s)]
  BY <1>0, SumRuns
<1> HIDE DEF l
<1>2. PICK g : Runs(Adding(k), g, l, Len(s) + 1) /\ SumOf(l, k) = g[Len(s) + 1]
  BY <1>0, SumRuns
<1>3. f[Len(s)] = g[Len(s)]
  <2>1. PICK n \in Nat : n = Len(s)
    BY <1>0
  <2>2. n + 1 \in Nat /\ n <= n + 1 /\ n \in 0..n /\ \A i \in 1..n : s[i] = l[i]
    BY <1>0, <2>1
  <2>3. Runs(Adding(k), f, s, n) /\ Runs(Adding(k), g, l, n + 1)
    BY <1>1, <1>2, <2>1
  <2>4. f[n] = g[n]
    BY <2>2, <2>3, RunsAgree
  <2> QED BY <2>1, <2>4
<1>4. g[Len(s) + 1] = With(Adding(k), g[Len(s)], e)
  BY <1>0, <1>2 DEF Runs
<1> QED BY <1>1, <1>2, <1>3, <1>4 DEF With, Adding, l

\* Of the sequences in a set, one is shortest, and if it is not empty it is one
\* element more than a sequence that is not in the set: what takes the place of
\* an induction over sequences below.
LEMMA Shortest ==
  ASSUME NEW T, NEW Wrong, Wrong \subseteq Seq(T), Wrong # {}, << >> \notin Wrong
  PROVE  \E r \in Seq(T), e \in T : r \notin Wrong /\ Append(r, e) \in Wrong
<1> DEFINE S == {Len(s) : s \in Wrong}
<1>1. S \subseteq Nat /\ S # {}
  <2>1. \A s \in Wrong : Len(s) \in Nat
    BY LenProperties
  <2> QED BY <2>1
<1>2. PICK n \in S : \A m \in S : n <= m
  BY <1>1, LeastOf
<1>3. PICK s \in Wrong : Len(s) = n
  BY <1>2
<1>4. s \in Seq(T) /\ s # << >>
  BY <1>3
<1>5. PICK r \in Seq(T), e \in T : s = Append(r, e)
  BY <1>4, SequenceEmptyOrAppend
<1>6. Len(r) \in Nat /\ n = Len(r) + 1
  BY <1>3, <1>5, AppendProperties, LenProperties
<1>7. r \notin Wrong
  BY <1>2, <1>6
<1> QED BY <1>3, <1>5, <1>7

\* a stands before b in s
Comes(s, a, b) == \E m, n \in DOMAIN s : m < n /\ s[m] = a /\ s[n] = b

LEMMA AppendedIs ==
  ASSUME NEW T, NEW s \in Seq(T), NEW e \in T
  PROVE  /\ Elements(Append(s, e)) = Elements(s) \cup {e}
         /\ \A a, b : Comes(Append(s, e), a, b)
                        <=> Comes(s, a, b) \/ (a \in Elements(s) /\ b = e)
<1> DEFINE l == Append(s, e)
<1>1. /\ Len(s) \in Nat /\ DOMAIN s = 1..Len(s) /\ DOMAIN l = 1..(Len(s) + 1)
      /\ \A i \in 1..Len(s) : l[i] = s[i]
      /\ l[Len(s) + 1] = e
  OBVIOUS
<1> HIDE DEF l
<1>3. Elements(l) = Elements(s) \cup {e}
  BY <1>1 DEF Elements
<1>4. ASSUME NEW a, NEW b
      PROVE  Comes(l, a, b) <=> Comes(s, a, b) \/ (a \in Elements(s) /\ b = e)
  <2>1. ASSUME Comes(l, a, b)
        PROVE  Comes(s, a, b) \/ (a \in Elements(s) /\ b = e)
    <3>1. PICK m, n \in DOMAIN l : m < n /\ l[m] = a /\ l[n] = b
      BY <2>1 DEF Comes
    <3>2. CASE n = Len(s) + 1
      BY <1>1, <3>1, <3>2 DEF Elements
    <3>3. CASE n # Len(s) + 1
      <4>1. m \in 1..Len(s) /\ n \in 1..Len(s)
        BY <1>1, <3>1, <3>3
      <4> QED BY <1>1, <3>1, <4>1 DEF Comes
    <3> QED BY <3>2, <3>3
  <2>2. ASSUME Comes(s, a, b) PROVE Comes(l, a, b)
    <3>1. PICK m, n \in 1..Len(s) : m < n /\ s[m] = a /\ s[n] = b
      BY <1>1, <2>2 DEF Comes
    <3> QED BY <1>1, <3>1 DEF Comes
  <2>3. ASSUME a \in Elements(s), b = e PROVE Comes(l, a, b)
    <3>1. PICK m \in 1..Len(s) : s[m] = a
      BY <1>1, <2>3 DEF Elements
    <3> QED BY <1>1, <2>3, <3>1 DEF Comes
  <2> QED BY <2>1, <2>2, <2>3
<1> QED BY <1>3, <1>4 DEF l

KeepsOnly(s, T, K) ==
    /\ Only(s, K) \in Seq(T)
    /\ Elements(Only(s, K)) = Elements(s) \cap K
    /\ \A a, b : Comes(Only(s, K), a, b) <=> Comes(s, a, b) /\ a \in K /\ b \in K
    /\ Len(Only(s, K)) <= Len(s)

\* What is kept of a sequence is in the order it had, and no longer than it was.
LEMMA OnlyKeeps ==
  ASSUME NEW T, NEW K, NEW s \in Seq(T)
  PROVE  KeepsOnly(s, T, K)
<1> DEFINE Wrong == {r \in Seq(T) : ~KeepsOnly(r, T, K)}
<1> SUFFICES ASSUME Wrong # {} PROVE FALSE
  OBVIOUS
<1>1. ASSUME << >> \in Wrong PROVE FALSE
  <2>1. \A a, b : ~Comes(<< >>, a, b)
    BY DEF Comes
  <2>2. << >> \in Seq(T) /\ Len(<< >>) <= Len(<< >>)
    OBVIOUS
  <2>3. ~KeepsOnly(<< >>, T, K)
    BY <1>1
  <2> QED BY <2>1, <2>2, <2>3, OfNothing DEF KeepsOnly
<1>2. PICK r \in Seq(T), e \in T : r \notin Wrong /\ Append(r, e) \in Wrong
  <2> HIDE DEF Wrong
  <2>1. Wrong \subseteq Seq(T)
    BY DEF Wrong
  <2> QED BY <1>1, <2>1, Shortest
<1>3. KeepsOnly(r, T, K) /\ ~KeepsOnly(Append(r, e), T, K)
  BY <1>2
<1> HIDE DEF Wrong
<1>4. /\ Elements(Append(r, e)) = Elements(r) \cup {e}
      /\ \A a, b : Comes(Append(r, e), a, b)
                     <=> Comes(r, a, b) \/ (a \in Elements(r) /\ b = e)
  BY AppendedIs
<1>5. Only(r, K) \in Seq(T) /\ Len(Append(r, e)) = Len(r) + 1 /\ Len(r) \in Nat
      /\ Len(Only(r, K)) \in Nat
  BY <1>3, AppendProperties, LenProperties DEF KeepsOnly
<1>6. CASE e \in K
  <2>1. Only(Append(r, e), K) = Append(Only(r, K), e)
    BY <1>6, OnlyOneMore
  <2>2. /\ Elements(Append(Only(r, K), e)) = Elements(Only(r, K)) \cup {e}
        /\ \A a, b : Comes(Append(Only(r, K), e), a, b)
                       <=> Comes(Only(r, K), a, b) \/ (a \in Elements(Only(r, K)) /\ b = e)
        /\ Append(Only(r, K), e) \in Seq(T)
        /\ Len(Append(Only(r, K), e)) = Len(Only(r, K)) + 1
    BY <1>5, AppendedIs, AppendProperties
  <2>4. ASSUME NEW a, NEW b
        PROVE  Comes(Append(Only(r, K), e), a, b)
                 <=> Comes(Append(r, e), a, b) /\ a \in K /\ b \in K
    <3>1. Comes(Only(r, K), a, b) <=> Comes(r, a, b) /\ a \in K /\ b \in K
      BY <1>3 DEF KeepsOnly
    <3>2. a \in Elements(Only(r, K)) <=> a \in Elements(r) /\ a \in K
      BY <1>3 DEF KeepsOnly
    <3> QED BY <1>4, <1>6, <2>2, <3>1, <3>2
  <2>5. Elements(Append(Only(r, K), e)) = Elements(Append(r, e)) \cap K
    BY <1>3, <1>4, <1>6, <2>2 DEF KeepsOnly
  <2>6. Len(Append(Only(r, K), e)) <= Len(Append(r, e))
    BY <1>3, <1>5, <2>2 DEF KeepsOnly
  <2> QED BY <1>3, <2>1, <2>2, <2>4, <2>5, <2>6 DEF KeepsOnly
<1>7. CASE e \notin K
  <2>1. Only(Append(r, e), K) = Only(r, K)
    BY <1>7, OnlyOneMore
  <2>2. ASSUME NEW a, NEW b
        PROVE  Comes(Only(r, K), a, b)
                 <=> Comes(Append(r, e), a, b) /\ a \in K /\ b \in K
    BY <1>3, <1>4, <1>7 DEF KeepsOnly
  <2>3. Elements(Only(r, K)) = Elements(Append(r, e)) \cap K
    BY <1>3, <1>4, <1>7 DEF KeepsOnly
  <2>4. Len(Only(r, K)) <= Len(Append(r, e))
    BY <1>3, <1>5 DEF KeepsOnly
  <2> QED BY <1>3, <2>1, <2>2, <2>3, <2>4 DEF KeepsOnly
<1> QED BY <1>6, <1>7

LEMMA OnlyAgrees ==
  ASSUME NEW T, NEW s \in Seq(T), NEW K, NEW L,
         K \cap Elements(s) = L \cap Elements(s)
  PROVE  Only(s, K) = Only(s, L)
<1> DEFINE Same(r) == K \cap Elements(r) = L \cap Elements(r)
           Wrong == {r \in Seq(T) : Same(r) /\ Only(r, K) # Only(r, L)}
<1>1. s \notin Wrong => Only(s, K) = Only(s, L)
  OBVIOUS
<1>2. << >> \notin Wrong
  BY OfNothing
<1>3. ASSUME NEW r \in Seq(T), NEW e \in T, r \notin Wrong, Append(r, e) \in Wrong
      PROVE  FALSE
  <2>1. Elements(Append(r, e)) = Elements(r) \cup {e}
    BY AppendedIs
  <2>2. Same(r) /\ (e \in K <=> e \in L)
    BY <1>3, <2>1
  <2>3. Only(r, K) = Only(r, L)
    BY <1>3, <2>2
  <2>4. \A M : Only(Append(r, e), M) = IF e \in M THEN Append(Only(r, M), e) ELSE Only(r, M)
    BY OnlyOneMore
  <2>5. Only(Append(r, e), K) = Only(Append(r, e), L)
    BY <2>2, <2>3, <2>4
  <2> QED BY <1>3, <2>5
<1>4. Wrong \subseteq Seq(T)
  OBVIOUS
<1> HIDE DEF Wrong
<1> QED BY <1>1, <1>2, <1>3, <1>4, Shortest

\* What prints the elements of T have, so that they have a size.
Prints(T) == \A e \in T : e.print \in Fingerprints

LEMMA SizesAreNatural ==
  \A p \in Fingerprints, k \in {1, 2} : Size[p][k] \in Nat
<1>1. \A x \in Nat \X Nat, k \in {1, 2} : x[k] \in Nat
  OBVIOUS
<1>2. \A p \in Fingerprints : Size[p] \in Nat \X Nat
  BY SnapshotAssumption
<1> QED BY <1>1, <1>2

LEMMA SumIsNatural ==
  ASSUME NEW T, Prints(T), NEW s \in Seq(T), NEW k \in {1, 2}
  PROVE  SumOf(s, k) \in Nat
<1> DEFINE Wrong == {r \in Seq(T) : SumOf(r, k) \notin Nat}
<1>1. s \notin Wrong => SumOf(s, k) \in Nat
  OBVIOUS
<1>2. << >> \notin Wrong
  BY OfNothing
<1>3. ASSUME NEW r \in Seq(T), NEW e \in T, r \notin Wrong, Append(r, e) \in Wrong
      PROVE  FALSE
  <2>1. Size[e.print][k] \in Nat
    BY SizesAreNatural DEF Prints
  <2>2. SumOf(Append(r, e), k) = SumOf(r, k) + Size[e.print][k]
    BY SumOneMore
  <2>3. SumOf(r, k) \in Nat
    BY <1>3
  <2>4. SumOf(Append(r, e), k) \in Nat
    BY <2>1, <2>2, <2>3
  <2> QED BY <1>3, <2>4
<1>4. Wrong \subseteq Seq(T)
  OBVIOUS
<1> HIDE DEF Wrong
<1> QED BY <1>1, <1>2, <1>3, <1>4, Shortest

LEMMA SumOfOnly ==
  ASSUME NEW T, Prints(T), NEW s \in Seq(T), NEW K, NEW k \in {1, 2}
  PROVE  SumOf(Only(s, K), k) <= SumOf(s, k)
<1> DEFINE Wrong == {r \in Seq(T) : ~(SumOf(Only(r, K), k) <= SumOf(r, k))}
<1>1. s \notin Wrong => SumOf(Only(s, K), k) <= SumOf(s, k)
  OBVIOUS
<1>2. << >> \notin Wrong
  BY OfNothing
<1>3. ASSUME NEW r \in Seq(T), NEW e \in T, r \notin Wrong, Append(r, e) \in Wrong
      PROVE  FALSE
  <2>1. Size[e.print][k] \in Nat
    BY SizesAreNatural DEF Prints
  <2>2. Only(r, K) \in Seq(T)
    BY OnlyKeeps DEF KeepsOnly
  <2>3. SumOf(r, k) \in Nat /\ SumOf(Only(r, K), k) \in Nat
    BY <2>2, SumIsNatural
  <2>4. SumOf(Append(r, e), k) = SumOf(r, k) + Size[e.print][k]
    BY SumOneMore
  <2>5. SumOf(Append(Only(r, K), e), k) = SumOf(Only(r, K), k) + Size[e.print][k]
    BY <2>2, SumOneMore
  <2>6. SumOf(Only(r, K), k) <= SumOf(r, k)
    BY <1>3
  <2>7. \/ SumOf(Only(Append(r, e), K), k) = SumOf(Append(Only(r, K), e), k)
        \/ SumOf(Only(Append(r, e), K), k) = SumOf(Only(r, K), k)
    <3>1. CASE e \in K
      <4>1. Only(Append(r, e), K) = Append(Only(r, K), e)
        BY <3>1, OnlyOneMore
      <4> QED BY <4>1
    <3>2. CASE e \notin K
      <4>1. Only(Append(r, e), K) = Only(r, K)
        BY <3>2, OnlyOneMore
      <4> QED BY <4>1
    <3> QED BY <3>1, <3>2
  <2>8. SumOf(Only(Append(r, e), K), k) <= SumOf(Append(r, e), k)
    BY <2>1, <2>3, <2>4, <2>5, <2>6, <2>7
  <2> QED BY <1>3, <2>8
<1>4. Wrong \subseteq Seq(T)
  OBVIOUS
<1> HIDE DEF Wrong
<1> QED BY <1>1, <1>2, <1>3, <1>4, Shortest

\* No two elements of s have one print.
OneEach(s) == \A a, b : Comes(s, a, b) => a.print # b.print

LessByOne(s, K, p) ==
    /\ Stored(s, p) =>
         /\ Len(Only(s, K)) + 1 = Len(s)
         /\ \A k \in {1, 2} : SumOf(Only(s, K), k) + Size[p][k] = SumOf(s, k)
    /\ ~Stored(s, p) => Only(s, K) = s

\* Without its element of print p, a sequence is shorter and smaller by that one.
LEMMA WithoutOne ==
  ASSUME NEW T, Prints(T), NEW s \in Seq(T), OneEach(s), NEW p \in Fingerprints
  PROVE  LessByOne(s, {e \in T : e.print # p}, p)
<1> DEFINE K == {e \in T : e.print # p}
           Wrong == {r \in Seq(T) : OneEach(r) /\ ~LessByOne(r, K, p)}
<1> HIDE DEF K
<1>1. s \notin Wrong => LessByOne(s, K, p)
  OBVIOUS
<1>2. << >> \notin Wrong
  BY OfNothing DEF LessByOne, Stored
<1>3. ASSUME NEW r \in Seq(T), NEW e \in T, r \notin Wrong, Append(r, e) \in Wrong
      PROVE  FALSE
  <2>0. OneEach(Append(r, e)) /\ ~LessByOne(Append(r, e), K, p)
    BY <1>3
  <2>1. /\ Elements(Append(r, e)) = Elements(r) \cup {e}
        /\ \A a, b : Comes(Append(r, e), a, b)
                       <=> Comes(r, a, b) \/ (a \in Elements(r) /\ b = e)
    BY AppendedIs
  <2>2. OneEach(r)
    BY <2>0, <2>1 DEF OneEach
  <2>3. LessByOne(r, K, p)
    BY <1>3, <2>2
  <2>4. \A a \in Elements(r) : a.print # e.print
    BY <2>0, <2>1 DEF OneEach
  <2>5. /\ Only(r, K) \in Seq(T) /\ Len(Append(r, e)) = Len(r) + 1
        /\ Len(r) \in Nat /\ Len(Only(r, K)) \in Nat
        /\ Len(Append(Only(r, K), e)) = Len(Only(r, K)) + 1
    BY OnlyKeeps, AppendProperties, LenProperties DEF KeepsOnly
  <2>6. Stored(Append(r, e), p) <=> Stored(r, p) \/ e.print = p
    BY <2>1 DEF Stored
  <2>7. e \in K <=> e.print # p
    BY DEF K
  <2>8. \A k \in {1, 2} : /\ SumOf(r, k) \in Nat /\ SumOf(Only(r, K), k) \in Nat
                          /\ Size[e.print][k] \in Nat /\ Size[p][k] \in Nat
    BY <2>5, SumIsNatural, SizesAreNatural DEF Prints
  <2>9. \A k \in {1, 2} :
          /\ SumOf(Append(r, e), k) = SumOf(r, k) + Size[e.print][k]
          /\ SumOf(Append(Only(r, K), e), k) = SumOf(Only(r, K), k) + Size[e.print][k]
    BY <2>5, SumOneMore
  <2>10. CASE e.print = p
    <3>1. Only(Append(r, e), K) = Only(r, K)
      BY <2>7, <2>10, OnlyOneMore
    <3>2. Only(r, K) = r
      BY <2>3, <2>4, <2>10 DEF LessByOne, Stored
    <3>3. Stored(Append(r, e), p) /\ Only(Append(r, e), K) = r
      BY <2>6, <2>10, <3>1, <3>2
    <3>4. Len(r) + 1 = Len(Append(r, e))
      BY <2>5
    <3>5. \A k \in {1, 2} : SumOf(r, k) + Size[p][k] = SumOf(Append(r, e), k)
      BY <2>9, <2>10
    <3> QED BY <2>0, <3>3, <3>4, <3>5 DEF LessByOne
  <2>11. CASE e.print # p
    <3>1. Only(Append(r, e), K) = Append(Only(r, K), e)
      BY <2>7, <2>11, OnlyOneMore
    <3>2. Stored(Append(r, e), p) <=> Stored(r, p)
      BY <2>6, <2>11
    <3>3. CASE Stored(r, p)
      <4>1. /\ Len(Only(r, K)) + 1 = Len(r)
            /\ \A k \in {1, 2} : SumOf(Only(r, K), k) + Size[p][k] = SumOf(r, k)
        BY <2>3, <3>3 DEF LessByOne
      <4>2. Len(Append(Only(r, K), e)) + 1 = Len(Append(r, e))
        BY <2>5, <4>1
      <4>3. ASSUME NEW k \in {1, 2}
            PROVE  SumOf(Append(Only(r, K), e), k) + Size[p][k] = SumOf(Append(r, e), k)
        <5>1. SumOf(Only(r, K), k) + Size[p][k] = SumOf(r, k)
          BY <4>1
        <5>2. /\ SumOf(Append(r, e), k) = SumOf(r, k) + Size[e.print][k]
              /\ SumOf(Append(Only(r, K), e), k) = SumOf(Only(r, K), k) + Size[e.print][k]
          BY <2>9
        <5>3. /\ SumOf(r, k) \in Nat /\ SumOf(Only(r, K), k) \in Nat
              /\ Size[e.print][k] \in Nat /\ Size[p][k] \in Nat
          BY <2>8
        <5> QED BY <5>1, <5>2, <5>3
      <4> QED BY <2>0, <3>1, <3>2, <3>3, <4>2, <4>3 DEF LessByOne
    <3>4. CASE ~Stored(r, p)
      BY <2>0, <2>3, <3>1, <3>2, <3>4 DEF LessByOne
    <3> QED BY <3>3, <3>4
  <2> QED BY <2>10, <2>11
<1>4. Wrong \subseteq Seq(T)
  OBVIOUS
<1>5. s \notin Wrong
  <2> HIDE DEF Wrong
  <2> QED BY <1>2, <1>3, <1>4, Shortest
<1> QED BY <1>1, <1>5 DEF K

LEMMA ElementsAre ==
  ASSUME NEW T, NEW s \in Seq(T)
  PROVE  Elements(s) \subseteq T
BY ElementOfSeq, LenProperties DEF Elements

LEMMA WithoutKeeps ==
  ASSUME NEW T, NEW s \in Seq(T), NEW p
  PROVE  /\ Without(s, p) \in Seq(T) /\ Len(Without(s, p)) <= Len(s)
         /\ Elements(Without(s, p)) = {e \in Elements(s) : e.print # p}
         /\ \A a, b : Comes(Without(s, p), a, b) => Comes(s, a, b)
<1> DEFINE K == {e \in Elements(s) : e.print # p}
<1>1. KeepsOnly(s, T, K)
  BY OnlyKeeps
<1>2. Elements(s) \cap K = K
  OBVIOUS
<1> QED BY <1>1, <1>2 DEF KeepsOnly, Without

\* The end of a sequence, from any place.
LEMMA EndOf ==
  ASSUME NEW T, NEW s \in Seq(T), NEW n \in 0..Len(s), NEW l,
         l = SubSeq(s, n + 1, Len(s))
  PROVE  /\ l \in Seq(T) /\ Len(l) = Len(s) - n
         /\ Elements(l) \subseteq Elements(s)
         /\ \A a, b : Comes(l, a, b) => Comes(s, a, b)
<1>1. /\ Len(s) \in Nat /\ n \in Nat /\ DOMAIN s = 1..Len(s)
      /\ \A i \in (n + 1)..Len(s) : s[i] \in T
  BY ElementOfSeq, LenProperties
<1>2. /\ l \in Seq(T) /\ Len(l) = Len(s) - n
      /\ \A i \in 1..(Len(s) - n) : l[i] = s[n + i]
  <2>1. n + 1 \in Int /\ Len(s) \in Int
    BY <1>1
  <2>2. /\ l \in Seq(T) /\ Len(l) = IF n + 1 <= Len(s) THEN Len(s) - (n + 1) + 1 ELSE 0
        /\ \A i \in 1..(Len(s) - (n + 1) + 1) : l[i] = s[n + 1 + i - 1]
    BY <1>1, <2>1, SubSeqProperties
  <2>3. Len(s) - (n + 1) + 1 = Len(s) - n
    BY <1>1
  <2>4. Len(l) = Len(s) - n
    <3>1. n <= Len(s)
      BY <1>1
    <3>2. CASE n = Len(s)
      BY <1>1, <2>2, <3>2
    <3>3. CASE n # Len(s)
      <4>1. n + 1 <= Len(s)
        <5>1. PICK m \in Nat : m = Len(s)
          BY <1>1
        <5>2. n \in Nat /\ n <= m /\ n # m
          BY <1>1, <3>1, <3>3, <5>1
        <5>3. n + 1 <= m
          BY <5>2
        <5> QED BY <5>1, <5>3
      <4> QED BY <2>2, <2>3, <4>1
    <3> QED BY <3>2, <3>3
  <2>5. ASSUME NEW i \in 1..(Len(s) - n) PROVE l[i] = s[n + i]
    <3>1. n + 1 + i - 1 = n + i
      BY <1>1
    <3>2. i \in 1..(Len(s) - (n + 1) + 1)
      BY <2>3
    <3> QED BY <2>2, <3>1, <3>2
  <2> QED BY <2>2, <2>4, <2>5
<1>3. DOMAIN l = 1..(Len(s) - n)
  BY <1>2, LenProperties
<1>4. ASSUME NEW i \in DOMAIN l PROVE n + i \in DOMAIN s /\ l[i] = s[n + i]
  <2>1. i \in 1..(Len(s) - n)
    BY <1>3
  <2>2. n + i \in 1..Len(s)
    BY <1>1, <2>1
  <2> QED BY <1>1, <1>2, <2>1, <2>2
<1>5. Elements(l) \subseteq Elements(s)
  <2>1. ASSUME NEW x \in Elements(l) PROVE x \in Elements(s)
    <3>1. PICK i \in DOMAIN l : x = l[i]
      BY <2>1 DEF Elements
    <3> QED BY <1>4, <3>1 DEF Elements
  <2> QED BY <2>1
<1>6. ASSUME NEW a, NEW b, Comes(l, a, b) PROVE Comes(s, a, b)
  <2>1. PICK i, j \in DOMAIN l : i < j /\ l[i] = a /\ l[j] = b
    BY <1>6 DEF Comes
  <2>2. n + i < n + j
    BY <1>1, <1>3, <2>1
  <2> QED BY <1>4, <2>1, <2>2 DEF Comes
<1> QED BY <1>2, <1>5, <1>6

LEMMA TrimmedFits ==
  ASSUME NEW T, NEW s \in Seq(T)
  PROVE  /\ Trimmed(s) \in Seq(T) /\ Fits(Trimmed(s))
         /\ Elements(Trimmed(s)) \subseteq Elements(s)
         /\ \A a, b : Comes(Trimmed(s), a, b) => Comes(s, a, b)
<1> DEFINE Good(k) == Fits(SubSeq(s, k + 1, Len(s)))
           S == {k \in 0..Len(s) : Good(k)}
           Is(k) == Good(k) /\ \A m \in 0..(k - 1) : ~Good(m)
           n == CHOOSE k \in 0..Len(s) : Is(k)
<1>1. Len(s) \in Nat
  BY LenProperties
<1>2. SubSeq(s, Len(s) + 1, Len(s)) = << >>
  BY <1>1, SubSeqEmpty
<1>3. Fits(<< >>)
  <2>1. Len(<< >>) = 0
    OBVIOUS
  <2> QED BY <2>1, OfNothing, SnapshotAssumption DEF Fits
<1>4. Len(s) \in S
  <2>1. Good(Len(s))
    BY <1>2, <1>3, Zenon
  <2> HIDE DEF Good
  <2> QED BY <1>1, <2>1
<1> HIDE DEF Good
<1>5. PICK k \in S : \A m \in S : k <= m
  <2>1. S \subseteq Nat /\ S # {}
    BY <1>4
  <2> HIDE DEF S
  <2> QED BY <2>1, LeastOf
<1>6. \E l \in 0..Len(s) : Is(l)
  BY <1>1, <1>5
<1> HIDE DEF Is
<1>7. n \in 0..Len(s) /\ Is(n)
  BY <1>6, Zenon
<1>8. Trimmed(s) = SubSeq(s, n + 1, Len(s))
  BY Zenon DEF Trimmed, Is, Good
<1>9. Fits(Trimmed(s))
  BY <1>7, <1>8 DEF Is, Good
<1> HIDE DEF n
<1>10. /\ Trimmed(s) \in Seq(T)
       /\ Elements(Trimmed(s)) \subseteq Elements(s)
       /\ \A a, b : Comes(Trimmed(s), a, b) => Comes(s, a, b)
  BY <1>7, <1>8, EndOf
<1> QED BY <1>9, <1>10

-----------------------------------------------------------------------------
Entry == [print : Fingerprints, expires : Nat]
Stone == [print : Fingerprints, recorded : BOOLEAN]

\* The store is in the order of last use, and what it holds ends a lifetime
\* after it was stored.
InOrder(shelf, used, since) ==
    /\ shelf \in Seq(Entry) /\ OneEach(shelf)
    /\ \A e \in Elements(shelf) : /\ e.print \in Elements(used)
                                 /\ e.expires = since[e.print] + Lifetime
    /\ \A a, b : Comes(shelf, a, b) => Comes(used, a.print, b.print)

LEMMA PartInOrder ==
  ASSUME NEW shelf, NEW used, NEW since, InOrder(shelf, used, since),
         NEW part \in Seq(Entry), Elements(part) \subseteq Elements(shelf),
         \A a, b : Comes(part, a, b) => Comes(shelf, a, b)
  PROVE  InOrder(part, used, since)
BY DEF InOrder, OneEach

LEMMA MovedToEnd ==
  ASSUME NEW used \in Seq(Fingerprints), NEW p \in Fingerprints
  PROVE  /\ MoveToEnd(used, p) \in Seq(Fingerprints)
         /\ Elements(MoveToEnd(used, p)) = Elements(used) \cup {p}
         /\ \A a, b : Comes(MoveToEnd(used, p), a, b)
                        <=> \/ Comes(used, a, b) /\ a # p /\ b # p
                            \/ a \in Elements(used) \ {p} /\ b = p
<1> DEFINE K == Elements(used) \ {p}
           rest == Only(used, K)
<1>1. KeepsOnly(used, Fingerprints, K)
  BY OnlyKeeps
<1>2. /\ rest \in Seq(Fingerprints) /\ Elements(rest) = K
      /\ \A a, b : Comes(rest, a, b) <=> Comes(used, a, b) /\ a \in K /\ b \in K
  BY <1>1 DEF KeepsOnly
<1>3. \A a, b : Comes(used, a, b) => a \in Elements(used) /\ b \in Elements(used)
  BY DEF Comes, Elements
<1>4. MoveToEnd(used, p) = Append(rest, p)
  BY DEF MoveToEnd
<1> HIDE DEF rest
<1>5. /\ Append(rest, p) \in Seq(Fingerprints)
      /\ Elements(Append(rest, p)) = Elements(rest) \cup {p}
      /\ \A a, b : Comes(Append(rest, p), a, b)
                     <=> Comes(rest, a, b) \/ (a \in Elements(rest) /\ b = p)
  BY <1>2, AppendedIs, AppendProperties
<1> QED BY <1>2, <1>3, <1>4, <1>5

\* A print that the store does not hold is used and stored without disturbing it.
LEMMA AsideInOrder ==
  ASSUME NEW shelf, NEW used \in Seq(Fingerprints), NEW since,
         InOrder(shelf, used, since), NEW p \in Fingerprints, ~Stored(shelf, p),
         NEW later, \A q \in Fingerprints \ {p} : later[q] = since[q]
  PROVE  InOrder(shelf, MoveToEnd(used, p), later)
<1>1. \A a, b : Comes(shelf, a, b) => a \in Elements(shelf) /\ b \in Elements(shelf)
  BY DEF Comes, Elements
<1>2. \A e \in Elements(shelf) : e.print \in Fingerprints \ {p}
  <2>1. \A e \in Elements(shelf) : e \in Entry
    <3>1. shelf \in Seq(Entry)
      BY DEF InOrder
    <3>2. Elements(shelf) \subseteq Entry
      BY <3>1, ElementsAre
    <3> QED BY <3>2
  <2> QED BY <2>1 DEF Stored, Entry
<1>3. /\ Elements(MoveToEnd(used, p)) = Elements(used) \cup {p}
      /\ \A a, b : Comes(used, a, b) /\ a # p /\ b # p
                      => Comes(MoveToEnd(used, p), a, b)
  BY MovedToEnd
<1>4. \A e \in Elements(shelf) : /\ e.print \in Elements(MoveToEnd(used, p))
                                 /\ e.expires = later[e.print] + Lifetime
  BY <1>2, <1>3 DEF InOrder
<1>5. \A a, b : Comes(shelf, a, b) => Comes(MoveToEnd(used, p), a.print, b.print)
  BY <1>1, <1>2, <1>3 DEF InOrder
<1> QED BY <1>4, <1>5 DEF InOrder

\* Stored or used last, it is at the end.
LEMMA LastInOrder ==
  ASSUME NEW shelf, NEW used \in Seq(Fingerprints), NEW since,
         InOrder(shelf, used, since), NEW e \in Entry, ~Stored(shelf, e.print),
         NEW later, \A q \in Fingerprints \ {e.print} : later[q] = since[q],
         e.expires = later[e.print] + Lifetime
  PROVE  InOrder(Append(shelf, e), MoveToEnd(used, e.print), later)
<1>1. e.print \in Fingerprints
  BY DEF Entry
<1>2. InOrder(shelf, MoveToEnd(used, e.print), later)
  BY <1>1, AsideInOrder
<1>3. /\ shelf \in Seq(Entry) /\ Append(shelf, e) \in Seq(Entry)
      /\ Elements(Append(shelf, e)) = Elements(shelf) \cup {e}
      /\ \A a, b : Comes(Append(shelf, e), a, b)
                     <=> Comes(shelf, a, b) \/ (a \in Elements(shelf) /\ b = e)
  BY AppendedIs, AppendProperties DEF InOrder
<1>4. /\ Elements(MoveToEnd(used, e.print)) = Elements(used) \cup {e.print}
      /\ \A a, b : Comes(MoveToEnd(used, e.print), a, b)
                        <=> \/ Comes(used, a, b) /\ a # e.print /\ b # e.print
                            \/ a \in Elements(used) \ {e.print} /\ b = e.print
  BY <1>1, MovedToEnd
<1>5. \A a \in Elements(shelf) : a.print # e.print /\ a.print \in Elements(used)
  BY DEF Stored, InOrder
<1>6. OneEach(Append(shelf, e))
  BY <1>3, <1>5 DEF OneEach, InOrder
<1>7. \A a, b : Comes(Append(shelf, e), a, b)
                  => Comes(MoveToEnd(used, e.print), a.print, b.print)
  BY <1>2, <1>3, <1>4, <1>5 DEF InOrder
<1>8. \A x \in Elements(Append(shelf, e)) :
          /\ x.print \in Elements(MoveToEnd(used, e.print))
          /\ x.expires = later[x.print] + Lifetime
  BY <1>2, <1>3, <1>4 DEF InOrder
<1> QED BY <1>3, <1>6, <1>7, <1>8 DEF InOrder

Outcomes == {None, "hit", "miss", "expired", "intent_mismatch"}
Asks == [phase : {"idle", "started", "hit", "proposed", "replayed", "done"},
         print : Fingerprints \cup {None}, started : Nat, resolved : SUBSET TopicSet,
         outcome : Outcomes, topic : TopicSet \cup {None}, age : Int, took : Int]

SnapshotTypeOK ==
    /\ time \in Nat
    /\ entries \in Seq(Entry)
    /\ tombstones \in Seq(Stone)
    /\ asks \in [Askers -> Asks]
    /\ rankings \in Nat /\ questions \in Nat
    /\ storedAt \in [Fingerprints -> Nat]
    /\ counted \in [Fingerprints -> Nat]
    /\ recent \in Seq(Fingerprints)

\* What is stored has not been reported since, and has no tombstone; what has a
\* tombstone that is not recorded was not reported either.
Reports(shelf, graves, told) ==
    /\ \A e \in Elements(shelf) : told[e.print] = 0 /\ ~Stored(graves, e.print)
    /\ \A g \in Elements(graves) : ~g.recorded => told[g.print] = 0
    /\ \A p \in Fingerprints : told[p] <= 1

\* What each stage of a request has found: nothing is proposed before the lookup,
\* and what is proposed is open.
AskKept(a) ==
    /\ a.outcome = "hit" => a.age < Lifetime
    /\ a.phase \in {"idle", "started", "hit"} => a.topic = None
    /\ a.topic # None => a.topic \notin a.resolved
    /\ a.phase = "done" /\ a.topic # None => a.took < AskBudget

SnapshotInv ==
    /\ SnapshotTypeOK
    /\ InOrder(entries, recent, storedAt)
    /\ Fits(entries) /\ Len(tombstones) <= MaxEntries
    /\ Reports(entries, tombstones, counted)
    /\ \A q \in Askers : AskKept(asks[q])

LEMMA EntriesArePrints ==
  Prints(Entry) /\ Prints(Stone)
BY DEF Prints, Entry, Stone

LEMMA OnlyFits ==
  ASSUME NEW s \in Seq(Entry), Fits(s), NEW K
  PROVE  Fits(Only(s, K))
<1>1. Only(s, K) \in Seq(Entry) /\ Len(Only(s, K)) <= Len(s)
  BY OnlyKeeps DEF KeepsOnly
<1>2. \A k \in {1, 2} : SumOf(Only(s, K), k) <= SumOf(s, k)
  BY EntriesArePrints, SumOfOnly
<1>3. /\ Len(s) \in Nat /\ Len(Only(s, K)) \in Nat
      /\ SumOf(s, 1) \in Nat /\ SumOf(s, 2) \in Nat
      /\ SumOf(Only(s, K), 1) \in Nat /\ SumOf(Only(s, K), 2) \in Nat
  BY <1>1, LenProperties, EntriesArePrints, SumIsNatural
<1>4. SumOf(Only(s, K), 1) <= SumOf(s, 1) /\ SumOf(Only(s, K), 2) <= SumOf(s, 2)
  BY <1>2
<1> QED BY <1>1, <1>3, <1>4, SnapshotAssumption DEF Fits

\* Some of a store that fits and is in order is one too.
LEMMA OnlyInOrder ==
  ASSUME NEW shelf, NEW used, NEW since, InOrder(shelf, used, since), NEW K
  PROVE  InOrder(Only(shelf, K), used, since)
<1>1. shelf \in Seq(Entry)
  BY DEF InOrder
<1>2. KeepsOnly(shelf, Entry, K)
  BY <1>1, OnlyKeeps
<1>3. /\ Only(shelf, K) \in Seq(Entry)
      /\ Elements(Only(shelf, K)) \subseteq Elements(shelf)
      /\ \A a, b : Comes(Only(shelf, K), a, b) => Comes(shelf, a, b)
  BY <1>2 DEF KeepsOnly
<1> QED BY <1>3, PartInOrder

LEMMA LiveAndDead ==
  ASSUME SnapshotInv
  PROVE  /\ InOrder(Live, recent, storedAt) /\ Fits(Live)
         /\ Elements(Live) = {e \in Elements(entries) : time < e.expires}
         /\ Dead \in Seq(Entry)
         /\ Elements(Dead) = {e \in Elements(entries) : time >= e.expires}
<1>1. entries \in Seq(Entry)
  BY DEF SnapshotInv, SnapshotTypeOK
<1>2. InOrder(Live, recent, storedAt)
  BY OnlyInOrder DEF Live, SnapshotInv
<1>3. Fits(Live)
  BY <1>1, OnlyFits DEF Live, SnapshotInv
<1>4. Elements(Live) = {e \in Elements(entries) : time < e.expires}
  <2> DEFINE K == {e \in Elements(entries) : time < e.expires}
  <2>1. KeepsOnly(entries, Entry, K)
    BY <1>1, OnlyKeeps
  <2>2. Live = Only(entries, K)
    BY DEF Live
  <2>3. K \subseteq Elements(entries)
    OBVIOUS
  <2> QED BY <2>1, <2>2, <2>3 DEF KeepsOnly
<1>5. Dead \in Seq(Entry) /\ Elements(Dead) = {e \in Elements(entries) : time >= e.expires}
  <2> DEFINE K == {e \in Elements(entries) : time >= e.expires}
  <2>1. KeepsOnly(entries, Entry, K)
    BY <1>1, OnlyKeeps
  <2>2. Dead = Only(entries, K)
    BY DEF Dead
  <2>3. K \subseteq Elements(entries)
    OBVIOUS
  <2> QED BY <2>1, <2>2, <2>3 DEF KeepsOnly
<1> QED BY <1>2, <1>3, <1>4, <1>5

\* No print is in the store twice, so that the dead ones are not live.
LEMMA OneOfAPrint ==
  ASSUME NEW shelf, OneEach(shelf), NEW a \in Elements(shelf), NEW b \in Elements(shelf),
         shelf \in Seq(Entry), a.print = b.print
  PROVE  a = b
<1>1. PICK m, n \in DOMAIN shelf : shelf[m] = a /\ shelf[n] = b
  BY DEF Elements
<1>2. m \in Int /\ n \in Int
  BY LenProperties
<1>3. CASE m < n
  BY <1>1, <1>3 DEF OneEach, Comes
<1>4. CASE n < m
  BY <1>1, <1>4 DEF OneEach, Comes
<1>5. CASE m = n
  BY <1>1, <1>5
<1> QED BY <1>2, <1>3, <1>4, <1>5

LEMMA BuriedIs ==
  ASSUME SnapshotInv, NEW ok \in BOOLEAN
  PROVE  /\ Buried(ok) \in Seq(Stone) /\ Len(Buried(ok)) <= MaxEntries
         /\ \A g \in Elements(Buried(ok)) :
                \/ g \in Elements(tombstones)
                \/ \E d \in Elements(Dead) : g = [print |-> d.print, recorded |-> ok]
<1> DEFINE dug == [i \in DOMAIN Dead |-> [print |-> Dead[i].print, recorded |-> ok]]
           all == tombstones \o dug
           n == IF Len(all) > MaxEntries THEN Len(all) - MaxEntries ELSE 0
<1>0. tombstones \in Seq(Stone)
  BY DEF SnapshotInv, SnapshotTypeOK
<1>1. Dead \in Seq(Entry) /\ DOMAIN Dead = 1..Len(Dead) /\ Len(Dead) \in Nat
      /\ \A i \in DOMAIN Dead : Dead[i] \in Entry
  BY LiveAndDead, LenProperties, ElementOfSeq
<1>2. dug \in Seq(Stone) /\ Len(dug) = Len(Dead) /\ DOMAIN dug = DOMAIN Dead
  <2>1. \A i \in DOMAIN Dead : [print |-> Dead[i].print, recorded |-> ok] \in Stone
    BY <1>1 DEF Entry, Stone
  <2>2. dug \in [1..Len(Dead) -> Stone]
    BY <1>1, <2>1
  <2>3. DOMAIN dug = DOMAIN Dead
    OBVIOUS
  <2> HIDE DEF dug
  <2>4. PICK total \in Nat : total = Len(Dead)
    BY <1>1
  <2>5. dug \in [1..total -> Stone]
    BY <2>2, <2>4
  <2>6. dug \in Seq(Stone) /\ Len(dug) = total
    BY <2>5
  <2> QED BY <2>3, <2>4, <2>6
<1>3. \A i \in DOMAIN Dead : dug[i] = [print |-> Dead[i].print, recorded |-> ok]
  OBVIOUS
<1> HIDE DEF dug
<1>4. /\ all \in Seq(Stone) /\ Len(all) = Len(tombstones) + Len(dug) /\ Len(all) \in Nat
      /\ \A i \in 1..Len(all) :
            all[i] = IF i <= Len(tombstones) THEN tombstones[i] ELSE dug[i - Len(tombstones)]
  BY <1>0, <1>2, ConcatProperties, LenProperties
<1>5. ASSUME NEW g \in Elements(all)
      PROVE  \/ g \in Elements(tombstones)
             \/ \E d \in Elements(Dead) : g = [print |-> d.print, recorded |-> ok]
  <2>1. PICK i \in 1..Len(all) : g = all[i]
    BY <1>4, LenProperties DEF Elements
  <2>2. Len(tombstones) \in Nat /\ DOMAIN tombstones = 1..Len(tombstones)
    BY <1>0, LenProperties
  <2>3. CASE i <= Len(tombstones)
    BY <1>4, <2>1, <2>2, <2>3 DEF Elements
  <2>4. CASE ~(i <= Len(tombstones))
    <3>1. i - Len(tombstones) \in DOMAIN Dead
      BY <1>1, <1>2, <1>4, <2>1, <2>2, <2>4
    <3>2. g = [print |-> Dead[i - Len(tombstones)].print, recorded |-> ok]
      BY <1>3, <1>4, <2>1, <2>4, <3>1
    <3> QED BY <3>1, <3>2 DEF Elements
  <2> QED BY <2>3, <2>4
<1>6. n \in 0..Len(all) /\ Len(all) - n <= MaxEntries
  BY <1>4, SnapshotAssumption
<1>7. Buried(ok) = SubSeq(all, n + 1, Len(all))
  <2>1. Buried(ok) = SubSeq(all, IF Len(all) > MaxEntries THEN Len(all) - MaxEntries + 1 ELSE 1,
                            Len(all))
    BY DEF Buried, dug
  <2>2. (IF Len(all) > MaxEntries THEN Len(all) - MaxEntries + 1 ELSE 1) = n + 1
    BY <1>4, SnapshotAssumption
  <2> QED BY <2>1, <2>2
<1> HIDE DEF all, n
<1>8. /\ Buried(ok) \in Seq(Stone) /\ Len(Buried(ok)) = Len(all) - n
      /\ Elements(Buried(ok)) \subseteq Elements(all)
  BY <1>4, <1>6, <1>7, EndOf
<1> QED BY <1>5, <1>6, <1>8

LEMMA ReportedIs ==
  ASSUME SnapshotInv, NEW ok \in BOOLEAN
  PROVE  /\ Reported(ok) \in [Fingerprints -> Nat]
         /\ \A p \in Fingerprints :
                Reported(ok)[p] = IF ok /\ Stored(Dead, p) THEN counted[p] + 1 ELSE counted[p]
<1>1. counted \in [Fingerprints -> Nat]
  BY DEF SnapshotInv, SnapshotTypeOK
<1>2. \A p \in Fingerprints :
          Reported(ok)[p] = counted[p] + IF ok /\ Stored(Dead, p) THEN 1 ELSE 0
  BY DEF Reported
<1>3. \A p \in Fingerprints : counted[p] \in Nat
  BY <1>1
<1>4. ASSUME NEW p \in Fingerprints
      PROVE  Reported(ok)[p] = IF ok /\ Stored(Dead, p) THEN counted[p] + 1 ELSE counted[p]
  <2>1. CASE ok /\ Stored(Dead, p)
    BY <1>2, <2>1
  <2>2. CASE ~(ok /\ Stored(Dead, p))
    <3>1. Reported(ok)[p] = counted[p] + 0
      BY <1>2, <2>2
    <3> QED BY <1>3, <2>2, <3>1
  <2> QED BY <2>1, <2>2
<1>5. Reported(ok) \in [Fingerprints -> Nat]
  <2>1. ASSUME NEW p \in Fingerprints
        PROVE  counted[p] + (IF ok /\ Stored(Dead, p) THEN 1 ELSE 0) \in Nat
    <3>1. (IF ok /\ Stored(Dead, p) THEN 1 ELSE 0) \in Nat
      OBVIOUS
    <3> QED BY <1>3, <3>1
  <2> QED BY <2>1 DEF Reported
<1> QED BY <1>4, <1>5

\* After what has expired was removed and reported, it is so again.
LEMMA ExpiryReports ==
  ASSUME SnapshotInv, NEW ok \in BOOLEAN
  PROVE  Reports(Live, Buried(ok), Reported(ok))
<1>1. /\ entries \in Seq(Entry) /\ OneEach(entries) /\ time \in Nat
      /\ Elements(entries) \subseteq Entry
  BY ElementsAre DEF SnapshotInv, SnapshotTypeOK, InOrder
<1>2. /\ Elements(Live) = {e \in Elements(entries) : time < e.expires}
      /\ Elements(Dead) = {e \in Elements(entries) : time >= e.expires}
  BY LiveAndDead
<1>3. /\ \A e \in Elements(entries) : counted[e.print] = 0 /\ ~Stored(tombstones, e.print)
      /\ \A g \in Elements(tombstones) : ~g.recorded => counted[g.print] = 0
      /\ \A p \in Fingerprints : counted[p] <= 1
  BY DEF SnapshotInv, Reports
<1>4. \A g \in Elements(Buried(ok)) :
          \/ g \in Elements(tombstones)
          \/ \E d \in Elements(Dead) : g = [print |-> d.print, recorded |-> ok]
  BY BuriedIs
<1>5. \A p \in Fingerprints :
          Reported(ok)[p] = IF ok /\ Stored(Dead, p) THEN counted[p] + 1 ELSE counted[p]
  BY ReportedIs
<1>6. ASSUME NEW e \in Elements(Live)
      PROVE  Reported(ok)[e.print] = 0 /\ ~Stored(Buried(ok), e.print)
  <2>1. e \in Elements(entries) /\ time < e.expires /\ e \in Entry
    BY <1>1, <1>2
  <2>2. \A d \in Elements(Dead) : d.print # e.print
    <3>1. SUFFICES ASSUME NEW d \in Elements(Dead), d.print = e.print PROVE FALSE
      OBVIOUS
    <3>2. d \in Elements(entries) /\ time >= d.expires
      BY <1>2
    <3>3. d = e
      BY <1>1, <2>1, <3>1, <3>2, OneOfAPrint
    <3> QED BY <1>1, <2>1, <3>2, <3>3 DEF Entry
  <2>3. Reported(ok)[e.print] = 0
    BY <1>3, <1>5, <2>1, <2>2 DEF Stored, Entry
  <2>4. ASSUME NEW g \in Elements(Buried(ok)) PROVE g.print # e.print
    <3>1. CASE g \in Elements(tombstones)
      BY <1>3, <2>1, <3>1 DEF Stored
    <3>2. ASSUME NEW d \in Elements(Dead), g = [print |-> d.print, recorded |-> ok]
          PROVE  g.print # e.print
      BY <2>2, <3>2
    <3> QED BY <1>4, <3>1, <3>2
  <2> QED BY <2>3, <2>4 DEF Stored
<1>7. ASSUME NEW g \in Elements(Buried(ok)), ~g.recorded
      PROVE  Reported(ok)[g.print] = 0
  <2>0. g.print \in Fingerprints
    <3>1. Elements(Buried(ok)) \subseteq Stone
      BY BuriedIs, ElementsAre
    <3> QED BY <3>1 DEF Stone
  <2>1. CASE g \in Elements(tombstones)
    <3>1. ~Stored(Dead, g.print)
      BY <1>2, <1>3, <2>1 DEF Stored
    <3>2. counted[g.print] = 0
      BY <1>3, <1>7, <2>1
    <3> QED BY <1>5, <2>0, <3>1, <3>2
  <2>2. ASSUME NEW d \in Elements(Dead), g = [print |-> d.print, recorded |-> ok]
        PROVE  Reported(ok)[g.print] = 0
    <3>1. g.print = d.print /\ ~ok
      <4>1. g.recorded = ok /\ g.print = d.print
        BY <2>2
      <4> QED BY <1>7, <4>1
    <3>2. counted[d.print] = 0
      BY <1>2, <1>3
    <3> QED BY <1>5, <2>0, <3>1, <3>2
  <2> QED BY <1>4, <2>1, <2>2
<1>8. ASSUME NEW p \in Fingerprints PROVE Reported(ok)[p] <= 1
  <2>1. CASE Stored(Dead, p)
    <3>1. counted[p] = 0
      BY <1>2, <1>3, <2>1 DEF Stored
    <3> QED BY <1>5, <3>1
  <2>2. CASE ~Stored(Dead, p)
    BY <1>3, <1>5, <2>2
  <2> QED BY <2>1, <2>2
<1> QED BY <1>6, <1>7, <1>8 DEF Reports

LEMMA WithoutLive ==
  ASSUME SnapshotInv, NEW p \in Fingerprints
  PROVE  /\ InOrder(Without(Live, p), recent, storedAt) /\ Fits(Without(Live, p))
         /\ ~Stored(Without(Live, p), p)
         /\ Elements(Without(Live, p)) = {e \in Elements(Live) : e.print # p}
<1>1. InOrder(Live, recent, storedAt) /\ Fits(Live) /\ Live \in Seq(Entry)
  BY LiveAndDead DEF InOrder
<1>2. InOrder(Without(Live, p), recent, storedAt)
  BY <1>1, OnlyInOrder DEF Without
<1>3. Fits(Without(Live, p))
  BY <1>1, OnlyFits DEF Without
<1>4. Elements(Without(Live, p)) = {e \in Elements(Live) : e.print # p}
  BY <1>1, WithoutKeeps
<1>5. ~Stored(Without(Live, p), p)
  BY <1>4 DEF Stored
<1> QED BY <1>2, <1>3, <1>4, <1>5

\* What is touched has the size it had.
LEMMA TouchedIs ==
  ASSUME SnapshotInv, NEW p \in Fingerprints, Stored(Live, p)
  PROVE  /\ Fits(Touched(p)) /\ InOrder(Touched(p), MoveToEnd(recent, p), storedAt)
         /\ Elements(Touched(p)) \subseteq Elements(Live)
<1> DEFINE e == CHOOSE x \in Elements(Live) : x.print = p
           rest == Without(Live, p)
           K == {x \in Entry : x.print # p}
<1>1. e \in Elements(Live) /\ e.print = p
  BY DEF Stored
<1>2. Touched(p) = Append(rest, e)
  BY DEF Touched
<1> HIDE DEF e
<1>3. InOrder(Live, recent, storedAt) /\ Fits(Live) /\ Live \in Seq(Entry)
  BY LiveAndDead DEF InOrder
<1>4. e \in Entry /\ e.expires = storedAt[e.print] + Lifetime /\ OneEach(Live)
      /\ Elements(Live) \subseteq Entry
  BY <1>1, <1>3, ElementsAre DEF InOrder
<1>5. /\ InOrder(rest, recent, storedAt) /\ ~Stored(rest, e.print)
      /\ Elements(rest) = {x \in Elements(Live) : x.print # p} /\ rest \in Seq(Entry)
  BY <1>1, WithoutLive DEF InOrder
<1>6. rest = Only(Live, K)
  <2>1. {x \in Elements(Live) : x.print # p} \cap Elements(Live) = K \cap Elements(Live)
    BY <1>4
  <2> HIDE DEF K
  <2> QED BY <1>3, <2>1, OnlyAgrees DEF Without
<1>7. /\ Len(rest) + 1 = Len(Live)
      /\ \A k \in {1, 2} : SumOf(rest, k) + Size[p][k] = SumOf(Live, k)
  BY <1>3, <1>4, <1>6, WithoutOne, EntriesArePrints DEF LessByOne
<1> HIDE DEF rest
<1>8. /\ Append(rest, e) \in Seq(Entry) /\ Len(Append(rest, e)) = Len(Live)
      /\ Elements(Append(rest, e)) = Elements(rest) \cup {e}
  BY <1>4, <1>5, <1>7, AppendedIs, AppendProperties
<1>9. \A k \in {1, 2} : SumOf(Append(rest, e), k) = SumOf(rest, k) + Size[p][k]
  BY <1>1, <1>4, <1>5, SumOneMore
<1>10. Fits(Append(rest, e))
  BY <1>3, <1>7, <1>8, <1>9 DEF Fits
<1>11. InOrder(Append(rest, e), MoveToEnd(recent, p), storedAt)
  <2>1. recent \in Seq(Fingerprints)
    BY DEF SnapshotInv, SnapshotTypeOK
  <2> QED BY <1>1, <1>4, <1>5, <2>1, LastInOrder
<1> QED BY <1>1, <1>2, <1>5, <1>8, <1>10, <1>11

\* A request that changes no more than itself.
LEMMA AskMoves ==
  ASSUME SnapshotInv, NEW q \in Askers, NEW a \in Asks, AskKept(a),
         asks' = [asks EXCEPT ![q] = a],
         UNCHANGED <<time, storeVars, rankings>>, questions' \in Nat
  PROVE  SnapshotInv'
<1>1. /\ asks' \in [Askers -> Asks]
      /\ \A r \in Askers : asks'[r] = IF r = q THEN a ELSE asks[r]
  BY DEF SnapshotInv, SnapshotTypeOK
<1>2. \A r \in Askers : AskKept(asks'[r])
  BY <1>1 DEF SnapshotInv
<1> QED BY <1>1, <1>2 DEF SnapshotInv, SnapshotTypeOK, storeVars

LEMMA AsksAre ==
  ASSUME SnapshotInv, NEW q \in Askers
  PROVE  asks[q] \in Asks /\ AskKept(asks[q])
BY DEF SnapshotInv, SnapshotTypeOK

LEMMA StartKeeps ==
  ASSUME SnapshotInv, NEW q \in Askers, NEW settled \in SUBSET TopicSet,
         AskStart(q, settled)
  PROVE  SnapshotInv'
<1> DEFINE a == [Asleep EXCEPT !.phase = "started", !.started = time,
                              !.resolved = settled]
<1>1. Asleep \in Asks /\ Asleep.outcome = None /\ Asleep.topic = None
  BY DEF Asleep, Asks, Outcomes
<1>2. time \in Nat /\ questions + 1 \in Nat
  BY DEF SnapshotInv, SnapshotTypeOK
<1>3. a \in Asks /\ a.outcome = None /\ a.topic = None /\ a.phase = "started"
  BY <1>1, <1>2 DEF Asks
<1>4. AskKept(a)
  BY <1>3 DEF AskKept, None
<1>5. /\ asks' = [asks EXCEPT ![q] = a] /\ questions' \in Nat
      /\ UNCHANGED <<time, storeVars, rankings>>
  BY <1>2 DEF AskStart
<1> HIDE DEF a
<1> QED BY <1>3, <1>4, <1>5, AskMoves

LEMMA ProposeKeeps ==
  ASSUME SnapshotInv, NEW q \in Askers, NEW topic \in TopicSet \cup {None},
         Propose(q, topic)
  PROVE  SnapshotInv'
<1> DEFINE a == [asks[q] EXCEPT !.phase = "proposed", !.topic = topic]
<1>1. asks[q] \in Asks /\ AskKept(asks[q]) /\ asks \in [Askers -> Asks]
  BY AsksAre DEF SnapshotInv, SnapshotTypeOK
<1>2. a \in Asks /\ a.phase = "proposed" /\ a.topic = topic
      /\ a.outcome = asks[q].outcome /\ a.age = asks[q].age
      /\ a.resolved = asks[q].resolved
  BY <1>1 DEF Asks
<1>3. topic # None => topic \notin asks[q].resolved
  BY DEF Propose, Open
<1>4. AskKept(a)
  BY <1>1, <1>2, <1>3 DEF AskKept
<1>5. /\ asks' = [asks EXCEPT ![q] = a] /\ questions' = questions
      /\ UNCHANGED <<time, storeVars, rankings>>
  BY <1>1 DEF Propose
<1>6. questions' \in Nat
  BY <1>5 DEF SnapshotInv, SnapshotTypeOK
<1> HIDE DEF a
<1> QED BY <1>2, <1>4, <1>5, <1>6, AskMoves

LEMMA FirstOpenIs ==
  ASSUME NEW q
  PROVE  FirstOpen(q) = None \/ FirstOpen(q) \in Open(q) \cap TopicSet
<1> DEFINE ranks == {i \in DOMAIN TopicOrder : TopicOrder[i] \in Open(q)}
           IsFirst(i) == \A j \in ranks : i <= j
           first == CHOOSE i \in ranks : IsFirst(i)
<1>1. DOMAIN TopicOrder \subseteq Nat
  <2>1. DOMAIN TopicOrder = 1..Len(TopicOrder)
    BY SnapshotAssumption, LenProperties
  <2> QED BY <2>1
<1>2. ranks \subseteq Nat
  BY <1>1
<1>3. FirstOpen(q) = IF ranks = {} THEN None ELSE TopicOrder[first]
  BY Zenon DEF FirstOpen
<1>4. CASE ranks # {}
  <2>1. \E i \in ranks : IsFirst(i)
    <3> HIDE DEF ranks
    <3> QED BY <1>2, <1>4, LeastOf
  <2> HIDE DEF IsFirst
  <2>2. first \in ranks
    BY <2>1, Zenon
  <2> HIDE DEF first
  <2>3. TopicOrder[first] \in Open(q) \cap TopicSet
    BY <2>2 DEF TopicSet
  <2> QED BY <1>3, <1>4, <2>3
<1> HIDE DEF ranks, first
<1> QED BY <1>3, <1>4

LEMMA FallBackKeeps ==
  ASSUME SnapshotInv, NEW q \in Askers, FallBack(q)
  PROVE  SnapshotInv'
<1> DEFINE topic == IF asks[q].topic # None \/ Elapsed(q) >= AskBudget
                    THEN asks[q].topic ELSE FirstOpen(q)
           a == [asks[q] EXCEPT !.phase = "replayed", !.topic = topic]
<1>1. asks[q] \in Asks /\ AskKept(asks[q]) /\ asks \in [Askers -> Asks]
  BY AsksAre DEF SnapshotInv, SnapshotTypeOK
<1>2. /\ topic \in TopicSet \cup {None}
      /\ topic # None => topic \notin asks[q].resolved
  <2>1. FirstOpen(q) = None \/ FirstOpen(q) \in Open(q) \cap TopicSet
    BY FirstOpenIs
  <2>2. asks[q].topic \in TopicSet \cup {None}
    BY <1>1 DEF Asks
  <2>3. asks[q].topic # None => asks[q].topic \notin asks[q].resolved
    BY <1>1 DEF AskKept
  <2> QED BY <2>1, <2>2, <2>3 DEF Open
<1>3. /\ asks' = [asks EXCEPT ![q] = a] /\ questions' = questions
      /\ UNCHANGED <<time, storeVars, rankings>>
  BY <1>1 DEF FallBack
<1> HIDE DEF topic
<1>4. a \in Asks /\ a.phase = "replayed" /\ a.topic = topic
      /\ a.outcome = asks[q].outcome /\ a.age = asks[q].age
      /\ a.resolved = asks[q].resolved
  BY <1>1, <1>2 DEF Asks
<1>5. AskKept(a)
  BY <1>1, <1>2, <1>4 DEF AskKept
<1>6. questions' \in Nat
  BY <1>3 DEF SnapshotInv, SnapshotTypeOK
<1> HIDE DEF a
<1> QED BY <1>3, <1>4, <1>5, <1>6, AskMoves

LEMMA AskEndKeeps ==
  ASSUME SnapshotInv, NEW q \in Askers, AskEnd(q)
  PROVE  SnapshotInv'
<1> DEFINE a == [asks[q] EXCEPT !.phase = "done", !.topic = Respond(q),
                                !.took = Elapsed(q)]
<1>1. asks[q] \in Asks /\ AskKept(asks[q]) /\ asks \in [Askers -> Asks] /\ time \in Nat
  BY AsksAre DEF SnapshotInv, SnapshotTypeOK
<1>2. Elapsed(q) \in Int
  BY <1>1 DEF Elapsed, Asks
<1>3. /\ Respond(q) \in TopicSet \cup {None}
      /\ Respond(q) # None => /\ Elapsed(q) < AskBudget
                              /\ Respond(q) \notin asks[q].resolved
  <2>1. CASE Elapsed(q) >= AskBudget
    BY <2>1 DEF Respond
  <2>2. CASE ~(Elapsed(q) >= AskBudget)
    BY <1>1, <1>2, <2>2, SnapshotAssumption DEF Respond, AskKept, Asks
  <2> QED BY <2>1, <2>2
<1>4. /\ asks' = [asks EXCEPT ![q] = a] /\ questions' = questions
      /\ UNCHANGED <<time, storeVars, rankings>>
  BY <1>1 DEF AskEnd
<1>5. a \in Asks /\ a.phase = "done" /\ a.topic = Respond(q) /\ a.took = Elapsed(q)
      /\ a.outcome = asks[q].outcome /\ a.age = asks[q].age
      /\ a.resolved = asks[q].resolved
  BY <1>1, <1>2, <1>3 DEF Asks
<1>6. AskKept(a)
  BY <1>1, <1>3, <1>5 DEF AskKept
<1>7. questions' \in Nat
  BY <1>4 DEF SnapshotInv, SnapshotTypeOK
<1> HIDE DEF a
<1> QED BY <1>4, <1>5, <1>6, <1>7, AskMoves

LEMMA CleanupKeeps ==
  ASSUME SnapshotInv, NEW ok \in BOOLEAN, Cleanup(ok)
  PROVE  SnapshotInv'
<1>1. /\ InOrder(Live, recent, storedAt) /\ Fits(Live) /\ Live \in Seq(Entry)
      /\ Buried(ok) \in Seq(Stone) /\ Len(Buried(ok)) <= MaxEntries
      /\ Reported(ok) \in [Fingerprints -> Nat]
      /\ Reports(Live, Buried(ok), Reported(ok))
  BY LiveAndDead, BuriedIs, ReportedIs, ExpiryReports DEF InOrder
<1>2. /\ entries' = Live /\ tombstones' = Buried(ok) /\ counted' = Reported(ok)
      /\ UNCHANGED <<time, asks, rankings, questions, storedAt, recent>>
  BY DEF Cleanup
<1>3. SnapshotTypeOK'
  BY <1>1, <1>2 DEF SnapshotInv, SnapshotTypeOK
<1>4. /\ InOrder(entries', recent', storedAt') /\ Fits(entries')
      /\ Len(tombstones') <= MaxEntries /\ Reports(entries', tombstones', counted')
  BY <1>1, <1>2
<1>5. \A q \in Askers : AskKept(asks'[q])
  BY <1>2 DEF SnapshotInv
<1> QED BY <1>3, <1>4, <1>5 DEF SnapshotInv

\* A print that is stored, or whose expiry has been answered, loses its tombstone.
LEMMA WithoutReports ==
  ASSUME NEW shelf, NEW graves \in Seq(Stone), NEW told, Reports(shelf, graves, told),
         NEW p \in Fingerprints, NEW later, NEW now \in 0..1,
         later = [told EXCEPT ![p] = now], told \in [Fingerprints -> Nat],
         NEW left, left \in Seq(Entry),
         \A e \in Elements(left) : \/ e \in Elements(shelf) /\ e.print # p
                                   \/ e.print = p /\ now = 0
  PROVE  Reports(left, Without(graves, p), later)
<1>1. Elements(Without(graves, p)) = {g \in Elements(graves) : g.print # p}
  BY WithoutKeeps
<1>2. \A r \in Fingerprints : later[r] = IF r = p THEN now ELSE told[r]
  OBVIOUS
<1>3. Elements(left) \subseteq Entry /\ Elements(graves) \subseteq Stone
  BY ElementsAre
<1>4. ASSUME NEW e \in Elements(left)
      PROVE  later[e.print] = 0 /\ ~Stored(Without(graves, p), e.print)
  <2>1. CASE e \in Elements(shelf) /\ e.print # p
    BY <1>1, <1>2, <1>3, <2>1 DEF Reports, Stored, Entry
  <2>2. CASE e.print = p /\ now = 0
    BY <1>1, <1>2, <2>2 DEF Stored
  <2> QED BY <2>1, <2>2
<1>5. ASSUME NEW g \in Elements(Without(graves, p)), ~g.recorded
      PROVE  later[g.print] = 0
  <2>1. g \in Elements(graves) /\ g.print # p /\ g.print \in Fingerprints
    BY <1>1, <1>3 DEF Stone
  <2>2. told[g.print] = 0
    BY <1>5, <2>1 DEF Reports
  <2> QED BY <1>2, <2>1, <2>2
<1>6. ASSUME NEW r \in Fingerprints PROVE later[r] <= 1
  <2>1. told[r] <= 1 /\ now <= 1
    BY DEF Reports
  <2>2. later[r] = now \/ later[r] = told[r]
    BY <1>2
  <2> QED BY <2>1, <2>2
<1> QED BY <1>4, <1>5, <1>6 DEF Reports

LEMMA RankKeeps ==
  ASSUME SnapshotInv, NEW p \in Fingerprints, NEW ok \in BOOLEAN, Rank(p, ok)
  PROVE  SnapshotInv'
<1> DEFINE e == [print |-> p, expires |-> time + Lifetime]
           rest == Without(Live, p)
<1>1. /\ time \in Nat /\ recent \in Seq(Fingerprints) /\ rankings \in Nat
      /\ storedAt \in [Fingerprints -> Nat] /\ e \in Entry
      /\ e.print = p /\ e.expires = time + Lifetime
  BY SnapshotAssumption DEF SnapshotInv, SnapshotTypeOK, Entry
<1>2. /\ InOrder(rest, recent, storedAt) /\ Fits(rest) /\ ~Stored(rest, p)
      /\ Elements(rest) = {x \in Elements(Live) : x.print # p} /\ rest \in Seq(Entry)
  BY WithoutLive DEF InOrder
<1>3. /\ Buried(ok) \in Seq(Stone) /\ Len(Buried(ok)) <= MaxEntries
      /\ Reported(ok) \in [Fingerprints -> Nat]
      /\ Reports(Live, Buried(ok), Reported(ok))
  BY BuriedIs, ReportedIs, ExpiryReports
<1>4. /\ rankings' = rankings + 1
      /\ entries' = IF TooLarge(p) THEN rest ELSE Trimmed(Append(rest, e))
      /\ tombstones' = Without(Buried(ok), p)
      /\ storedAt' = [storedAt EXCEPT ![p] = time]
      /\ counted' = [Reported(ok) EXCEPT ![p] = 0]
      /\ recent' = MoveToEnd(recent, p)
      /\ UNCHANGED <<time, asks, questions>>
  BY DEF Rank
<1> HIDE DEF rest, e
<1>5. /\ storedAt' \in [Fingerprints -> Nat] /\ storedAt'[p] = time
      /\ \A q \in Fingerprints \ {p} : storedAt'[q] = storedAt[q]
  BY <1>1, <1>4
<1>6. /\ InOrder(entries', recent', storedAt') /\ Fits(entries')
      /\ Elements(entries') \subseteq Elements(rest) \cup {e} /\ entries' \in Seq(Entry)
  <2>1. CASE TooLarge(p)
    <3>1. entries' = rest
      BY <1>4, <2>1
    <3>2. InOrder(rest, MoveToEnd(recent, p), storedAt')
      BY <1>1, <1>2, <1>5, AsideInOrder
    <3> QED BY <1>2, <1>4, <3>1, <3>2
  <2>2. CASE ~TooLarge(p)
    <3>1. entries' = Trimmed(Append(rest, e))
      BY <1>4, <2>2
    <3>2. InOrder(Append(rest, e), MoveToEnd(recent, p), storedAt')
      BY <1>1, <1>2, <1>5, LastInOrder
    <3>3. Append(rest, e) \in Seq(Entry) /\ Elements(Append(rest, e)) = Elements(rest) \cup {e}
      BY <1>1, <1>2, AppendedIs, AppendProperties
    <3>4. /\ entries' \in Seq(Entry) /\ Fits(entries')
          /\ Elements(entries') \subseteq Elements(Append(rest, e))
          /\ \A a, b : Comes(entries', a, b) => Comes(Append(rest, e), a, b)
      BY <3>1, <3>3, TrimmedFits
    <3>5. InOrder(entries', MoveToEnd(recent, p), storedAt')
      BY <3>2, <3>4, PartInOrder
    <3> QED BY <1>4, <3>3, <3>4, <3>5
  <2> QED BY <2>1, <2>2
<1>7. tombstones' \in Seq(Stone) /\ Len(tombstones') <= MaxEntries
  <2>1. /\ Without(Buried(ok), p) \in Seq(Stone)
        /\ Len(Without(Buried(ok), p)) <= Len(Buried(ok))
    BY <1>3, WithoutKeeps
  <2>2. Len(Without(Buried(ok), p)) \in Nat /\ Len(Buried(ok)) \in Nat
    BY <1>3, <2>1, LenProperties
  <2> QED BY <1>3, <1>4, <2>1, <2>2, SnapshotAssumption
<1>8. Reports(entries', tombstones', counted')
  <2>1. \A x \in Elements(entries') : \/ x \in Elements(Live) /\ x.print # p
                                     \/ x.print = p
    BY <1>1, <1>2, <1>6
  <2>2. PICK now \in 0..1 : now = 0
    OBVIOUS
  <2>3. counted' = [Reported(ok) EXCEPT ![p] = now]
    BY <1>4, <2>2
  <2>4. Reports(entries', Without(Buried(ok), p), counted')
    BY <1>3, <1>6, <2>1, <2>2, <2>3, WithoutReports
  <2> QED BY <1>4, <2>4
<1>9. SnapshotTypeOK'
  <2>1. counted' \in [Fingerprints -> Nat] /\ recent' \in Seq(Fingerprints)
    BY <1>1, <1>3, <1>4, MovedToEnd
  <2> QED BY <1>1, <1>4, <1>5, <1>6, <1>7, <2>1 DEF SnapshotInv, SnapshotTypeOK
<1>10. \A q \in Askers : AskKept(asks'[q])
  BY <1>4 DEF SnapshotInv
<1> QED BY <1>6, <1>7, <1>8, <1>9, <1>10 DEF SnapshotInv

LEMMA FoundIs ==
  ASSUME NEW p, NEW i, NEW ok
  PROVE  /\ Found(p, i, ok) \in Outcomes
         /\ Found(p, i, ok) = "hit" => Stored(Live, p)
         /\ Found(p, i, ok) = "expired" => ~Stored(Live, p)
<1>1. CASE Stored(Live, p) /\ i = p
  <2>1. Found(p, i, ok) = "hit"
    BY <1>1 DEF Found
  <2> QED BY <1>1, <2>1 DEF Outcomes
<1>2. CASE Stored(Live, p) /\ i # p
  <2>1. Found(p, i, ok) = "intent_mismatch"
    BY <1>2 DEF Found
  <2> QED BY <2>1 DEF Outcomes
<1>3. CASE ~Stored(Live, p) /\ Stored(Buried(ok), p)
  <2>1. Found(p, i, ok) = "expired"
    BY <1>3 DEF Found
  <2> QED BY <1>3, <2>1 DEF Outcomes
<1>4. CASE ~Stored(Live, p) /\ ~Stored(Buried(ok), p)
  <2>1. Found(p, i, ok) = "miss"
    BY <1>4 DEF Found
  <2> QED BY <2>1 DEF Outcomes
<1> QED BY <1>1, <1>2, <1>3, <1>4

\* What is live was stored less than a lifetime ago.
LEMMA LiveIsYoung ==
  ASSUME SnapshotInv, NEW p \in Fingerprints, Stored(Live, p)
  PROVE  time - storedAt[p] < Lifetime /\ time - storedAt[p] \in Int
<1>1. PICK e \in Elements(Live) : e.print = p
  BY DEF Stored
<1>2. time < e.expires /\ e.expires = storedAt[p] + Lifetime
  BY <1>1, LiveAndDead DEF InOrder
<1>3. time \in Nat /\ storedAt[p] \in Nat /\ Lifetime \in Nat
  BY SnapshotAssumption DEF SnapshotInv, SnapshotTypeOK
<1> QED BY <1>2, <1>3

\* What a lookup does to the store.
LEMMA LookedUp ==
  ASSUME SnapshotInv, NEW q \in Askers, NEW p \in Fingerprints,
         NEW i \in Fingerprints, NEW ok \in BOOLEAN, LookUp(q, p, i, ok)
  PROVE  /\ InOrder(entries', recent', storedAt) /\ Fits(entries')
         /\ tombstones' \in Seq(Stone) /\ Len(tombstones') <= MaxEntries
         /\ counted' \in [Fingerprints -> Nat] /\ recent' \in Seq(Fingerprints)
         /\ Reports(entries', tombstones', counted')
<1> DEFINE outcome == Found(p, i, ok)
<1>1. /\ entries' = IF outcome = "hit" THEN Touched(p) ELSE Live
      /\ tombstones' = IF outcome = "expired" THEN Exhumed(p, ok) ELSE Buried(ok)
      /\ counted' = IF outcome = "expired" /\ Unrecorded(p, ok)
                    THEN [Reported(ok) EXCEPT ![p] = @ + 1] ELSE Reported(ok)
      /\ recent' = IF outcome = "hit" THEN MoveToEnd(recent, p) ELSE recent
  BY DEF LookUp
<1>2. /\ outcome = "hit" => Stored(Live, p)
      /\ outcome = "expired" => ~Stored(Live, p)
  BY FoundIs
<1> HIDE DEF outcome
<1>3. /\ InOrder(Live, recent, storedAt) /\ Fits(Live) /\ Live \in Seq(Entry)
      /\ Buried(ok) \in Seq(Stone) /\ Len(Buried(ok)) <= MaxEntries
      /\ Reported(ok) \in [Fingerprints -> Nat]
      /\ Reports(Live, Buried(ok), Reported(ok))
      /\ recent \in Seq(Fingerprints)
  BY LiveAndDead, BuriedIs, ReportedIs, ExpiryReports DEF InOrder, SnapshotInv, SnapshotTypeOK
<1>4. CASE outcome = "hit"
  <2>1. /\ entries' = Touched(p) /\ tombstones' = Buried(ok)
        /\ counted' = Reported(ok) /\ recent' = MoveToEnd(recent, p)
    BY <1>1, <1>4
  <2>2. /\ Fits(Touched(p)) /\ InOrder(Touched(p), MoveToEnd(recent, p), storedAt)
        /\ Elements(Touched(p)) \subseteq Elements(Live)
    BY <1>2, <1>4, TouchedIs
  <2>3. MoveToEnd(recent, p) \in Seq(Fingerprints)
    BY <1>3, MovedToEnd
  <2>4. Reports(Touched(p), Buried(ok), Reported(ok))
    BY <1>3, <2>2 DEF Reports
  <2> QED BY <1>3, <2>1, <2>2, <2>3, <2>4
<1>5. CASE outcome = "expired"
  <2>1. /\ entries' = Live /\ tombstones' = Without(Buried(ok), p) /\ recent' = recent
        /\ counted' = IF Unrecorded(p, ok) THEN [Reported(ok) EXCEPT ![p] = @ + 1]
                      ELSE Reported(ok)
    BY <1>1, <1>5 DEF Exhumed
  <2>2. /\ Without(Buried(ok), p) \in Seq(Stone)
        /\ Len(Without(Buried(ok), p)) <= MaxEntries
    <3>1. /\ Without(Buried(ok), p) \in Seq(Stone)
          /\ Len(Without(Buried(ok), p)) <= Len(Buried(ok))
      BY <1>3, WithoutKeeps
    <3>2. Len(Without(Buried(ok), p)) \in Nat /\ Len(Buried(ok)) \in Nat
      BY <1>3, <3>1, LenProperties
    <3> QED BY <1>3, <3>1, <3>2, SnapshotAssumption
  <2>3. \A e \in Elements(Live) : e \in Elements(Live) /\ e.print # p
    BY <1>2, <1>5 DEF Stored
  <2>4. PICK now \in 0..1 : /\ counted' = [Reported(ok) EXCEPT ![p] = now]
    <3>1. Reported(ok)[p] \in 0..1
      <4>1. Reported(ok)[p] \in Nat /\ Reported(ok)[p] <= 1
        BY <1>3 DEF Reports
      <4> QED BY <4>1
    <3>2. CASE Unrecorded(p, ok)
      <4>1. PICK j \in DOMAIN Buried(ok) :
                Buried(ok)[j].print = p /\ ~Buried(ok)[j].recorded
        BY <3>2 DEF Unrecorded
      <4>2. Buried(ok)[j] \in Elements(Buried(ok))
        BY DEF Elements
      <4>3. Reported(ok)[p] = 0
        BY <1>3, <4>1, <4>2 DEF Reports
      <4>4. counted' = [Reported(ok) EXCEPT ![p] = 1]
        BY <2>1, <3>2, <4>3
      <4> QED BY <4>4
    <3>3. CASE ~Unrecorded(p, ok)
      <4>1. counted' = [Reported(ok) EXCEPT ![p] = Reported(ok)[p]]
        BY <1>3, <2>1, <3>3
      <4> QED BY <3>1, <4>1
    <3> QED BY <3>2, <3>3
  <2>5. Reports(Live, Without(Buried(ok), p), counted')
    BY <1>3, <2>3, <2>4, WithoutReports
  <2>6. counted' \in [Fingerprints -> Nat]
    BY <1>3, <2>4
  <2> QED BY <1>3, <2>1, <2>2, <2>5, <2>6
<1>6. CASE outcome \notin {"hit", "expired"}
  <2>1. /\ entries' = Live /\ tombstones' = Buried(ok)
        /\ counted' = Reported(ok) /\ recent' = recent
    BY <1>1, <1>6
  <2> QED BY <1>3, <2>1
<1> QED BY <1>4, <1>5, <1>6

LEMMA LookUpKeeps ==
  ASSUME SnapshotInv, NEW q \in Askers, NEW p \in Fingerprints,
         NEW i \in Fingerprints, NEW ok \in BOOLEAN, LookUp(q, p, i, ok)
  PROVE  SnapshotInv'
<1> DEFINE outcome == Found(p, i, ok)
           age == IF outcome = "hit" THEN time - storedAt[p] ELSE 0
           phase == IF outcome = "hit" /\ Size[p][1] > 0 THEN "hit" ELSE "done"
           a == [asks[q] EXCEPT !.print = p, !.outcome = outcome, !.age = age,
                                !.phase = phase]
<1>1. asks[q] \in Asks /\ AskKept(asks[q]) /\ asks \in [Askers -> Asks]
  BY AsksAre DEF SnapshotInv, SnapshotTypeOK
<1>2. /\ asks[q].phase = "started" /\ asks' = [asks EXCEPT ![q] = a]
      /\ UNCHANGED <<time, rankings, questions, storedAt>>
  BY <1>1 DEF LookUp
<1>3. age \in Int /\ (outcome = "hit" => age < Lifetime)
  BY FoundIs, LiveIsYoung
<1>4. outcome \in Outcomes /\ phase \in {"hit", "done"}
  BY FoundIs
<1> HIDE DEF outcome, age, phase
<1>5. /\ a \in Asks /\ a.phase = phase /\ a.outcome = outcome /\ a.age = age
      /\ a.topic = asks[q].topic /\ a.resolved = asks[q].resolved
  BY <1>1, <1>3, <1>4 DEF Asks
<1>6. asks[q].topic = None
  BY <1>1, <1>2 DEF AskKept
<1>7. AskKept(a)
  BY <1>3, <1>4, <1>5, <1>6 DEF AskKept
<1> HIDE DEF a
<1>8. /\ asks' \in [Askers -> Asks]
      /\ \A r \in Askers : AskKept(asks'[r])
  BY <1>1, <1>2, <1>5, <1>7 DEF SnapshotInv
<1>9. /\ InOrder(entries', recent', storedAt') /\ Fits(entries')
      /\ tombstones' \in Seq(Stone) /\ Len(tombstones') <= MaxEntries
      /\ counted' \in [Fingerprints -> Nat] /\ recent' \in Seq(Fingerprints)
      /\ Reports(entries', tombstones', counted')
  BY <1>2, LookedUp
<1>10. SnapshotTypeOK'
  <2>1. entries' \in Seq(Entry)
    BY <1>9 DEF InOrder
  <2> QED BY <1>2, <1>8, <1>9, <2>1 DEF SnapshotInv, SnapshotTypeOK
<1> QED BY <1>8, <1>9, <1>10 DEF SnapshotInv

LEMMA SnapshotsBegin == SnapshotInit => SnapshotInv
<1> SUFFICES ASSUME SnapshotInit PROVE SnapshotInv
  OBVIOUS
<1>1. /\ time = 0 /\ entries = << >> /\ tombstones = << >>
      /\ asks = [q \in Askers |-> Asleep] /\ rankings = 0 /\ questions = 0
      /\ storedAt = [p \in Fingerprints |-> 0]
      /\ counted = [p \in Fingerprints |-> 0] /\ recent = << >>
  BY DEF SnapshotInit
<1>2. \A a, b : ~Comes(<< >>, a, b)
  BY DEF Comes
<1>3. /\ << >> \in Seq(Entry) /\ << >> \in Seq(Stone) /\ << >> \in Seq(Fingerprints)
      /\ Len(<< >>) = 0
  OBVIOUS
<1>4. InOrder(entries, recent, storedAt)
  BY <1>1, <1>2, <1>3, OfNothing DEF InOrder, OneEach
<1>5. Fits(entries) /\ Len(tombstones) <= MaxEntries
  BY <1>1, <1>3, OfNothing, SnapshotAssumption DEF Fits
<1>6. Reports(entries, tombstones, counted)
  BY <1>1, OfNothing DEF Reports
<1>7. Asleep \in Asks /\ AskKept(Asleep)
  BY DEF Asleep, Asks, Outcomes, AskKept, None
<1>8. SnapshotTypeOK
  BY <1>1, <1>3, <1>7 DEF SnapshotTypeOK
<1>9. \A q \in Askers : AskKept(asks[q])
  BY <1>1, <1>7
<1> QED BY <1>4, <1>5, <1>6, <1>8, <1>9 DEF SnapshotInv

LEMMA SnapshotsGoOn ==
  SnapshotInv /\ [SnapshotNext]_snapshotVars => SnapshotInv'
<1> SUFFICES ASSUME SnapshotInv, [SnapshotNext]_snapshotVars PROVE SnapshotInv'
  OBVIOUS
<1>1. ASSUME NEW ok \in BOOLEAN, NEW p \in Fingerprints, Rank(p, ok)
      PROVE  SnapshotInv'
  BY <1>1, RankKeeps
<1>2. ASSUME NEW ok \in BOOLEAN, Cleanup(ok) PROVE SnapshotInv'
  BY <1>2, CleanupKeeps
<1>3. ASSUME NEW q \in Askers, NEW settled \in SUBSET TopicSet, AskStart(q, settled)
      PROVE  SnapshotInv'
  BY <1>3, StartKeeps
<1>4. ASSUME NEW q \in Askers, NEW p \in Fingerprints, NEW i \in Fingerprints,
             NEW ok \in BOOLEAN, LookUp(q, p, i, ok)
      PROVE  SnapshotInv'
  BY <1>4, LookUpKeeps
<1>5. ASSUME NEW q \in Askers, NEW topic \in TopicSet \cup {None}, Propose(q, topic)
      PROVE  SnapshotInv'
  BY <1>5, ProposeKeeps
<1>6. ASSUME NEW q \in Askers, FallBack(q) PROVE SnapshotInv'
  BY <1>6, FallBackKeeps
<1>7. ASSUME NEW q \in Askers, AskEnd(q) PROVE SnapshotInv'
  BY <1>7, AskEndKeeps
<1>8. ASSUME UNCHANGED <<storeVars, asks, rankings, questions>>, time' \in Nat
      PROVE  SnapshotInv'
  BY <1>8 DEF SnapshotInv, SnapshotTypeOK, storeVars
<1>9. CASE Advance
  <2>1. time' \in Nat /\ UNCHANGED <<storeVars, asks, rankings, questions>>
    BY <1>9 DEF Advance, SnapshotInv, SnapshotTypeOK
  <2> QED BY <1>8, <2>1
<1>10. CASE UNCHANGED snapshotVars
  <2>1. time' \in Nat /\ UNCHANGED <<storeVars, asks, rankings, questions>>
    BY <1>10 DEF snapshotVars, storeVars, SnapshotInv, SnapshotTypeOK
  <2> QED BY <1>8, <2>1
<1> QED BY <1>1, <1>2, <1>3, <1>4, <1>5, <1>6, <1>7, <1>9, <1>10 DEF SnapshotNext

LEMMA SnapshotInvImplies == SnapshotInv => SnapshotSafe
<1> SUFFICES ASSUME SnapshotInv PROVE SnapshotSafe
  OBVIOUS
<1>1. entries \in Seq(Entry) /\ \A a, b : Comes(entries, a, b) => Comes(recent, a.print, b.print)
  BY DEF SnapshotInv, InOrder
<1>2. ASSUME NEW i \in DOMAIN entries, NEW j \in DOMAIN entries, i < j
      PROVE  \E m, n \in DOMAIN recent : /\ m < n
                                         /\ recent[m] = entries[i].print
                                         /\ recent[n] = entries[j].print
  <2>1. Comes(entries, entries[i], entries[j])
    BY <1>2 DEF Comes
  <2>2. Comes(recent, entries[i].print, entries[j].print)
    BY <1>1, <2>1
  <2> QED BY <2>2 DEF Comes
<1>3. StoreIsBounded
  BY <1>2 DEF StoreIsBounded, SnapshotInv
<1>4. ExpiryReportedOnce
  BY DEF ExpiryReportedOnce, SnapshotInv, Reports
<1>5. QuestionsAreCurrent
  BY DEF QuestionsAreCurrent, SnapshotInv, AskKept
<1> QED BY <1>3, <1>4, <1>5 DEF SnapshotSafe

\* The store keeps its limits together and evicts what was used longest ago, no
\* expiry is reported twice, and whoever is asked a question is asked in time, on
\* a snapshot within its lifetime and about something still open: for any number
\* of searches and requests beside the cleanup thread.
THEOREM SnapshotsAreSafe == SnapshotSpec => []SnapshotSafe
<1>1. SnapshotSpec => []SnapshotInv
  BY SnapshotsBegin, SnapshotsGoOn, PTL DEF SnapshotSpec
<1> QED BY <1>1, SnapshotInvImplies, PTL
=============================================================================
