------------------------ MODULE RefinementSnapshots ------------------------
(***************************************************************************)
(* The hand-over from a ranking to its optional questions: the bounded     *)
(* store that keeps what a search evaluated, least recently used first and *)
(* for a limited time, and `get_search_refinements`, which asks one        *)
(* question out of it against a deadline while searches, other requests    *)
(* and the cleanup thread use the same store under its lock.               *)
(*                                                                         *)
(* A fingerprint stands for the search that has it.  Which topics would    *)
(* matter to its results is given; the wording of a question is left out.  *)
(***************************************************************************)
EXTENDS Naturals, Sequences

CONSTANTS
    Fingerprints,   \* the searches
    Size,           \* fingerprint -> <<candidate states, weather rows>>
    Material,       \* fingerprint -> the topics whose answer changes its ranking
    TopicOrder,     \* the topics in fallback order
    MaxEntries, MaxReplayStates, MaxWeatherRows,   \* the limits of the store
    Lifetime,       \* how long a snapshot is served
    AskBudget,      \* the deadline of one request
    Askers,         \* requests in flight
    EndOfTime, MaxRankings, MaxQuestions   \* bounds on clock, searches, requests

TopicSet == {TopicOrder[i] : i \in DOMAIN TopicOrder}

ASSUME SnapshotAssumption ==
    /\ {Lifetime, AskBudget, MaxEntries, MaxReplayStates, MaxWeatherRows} \subseteq Nat \ {0}
    /\ Size \in [Fingerprints -> Nat \X Nat]
    /\ TopicOrder \in Seq(TopicSet)

VARIABLES
    time,
    entries,     \* snapshots, the least recently used first: [print, expires]
    tombstones,  \* expired fingerprints, the oldest first: [print, recorded]
    asks,        \* asker -> its request
    rankings, questions,
    storedAt,    \* fingerprint -> when it was stored last
    counted,     \* fingerprint -> expiries reported since it was stored last
    recent       \* fingerprints by last use, the most recent last

snapshotVars == <<time, entries, tombstones, asks, rankings, questions,
                  storedAt, counted, recent>>
storeVars == <<entries, tombstones, storedAt, counted, recent>>

None == "none"
Asleep == [phase |-> "idle", print |-> None, started |-> 0, resolved |-> {},
           outcome |-> None, topic |-> None, age |-> 0, took |-> 0]

Elements(s) == {s[i] : i \in DOMAIN s}

\* The elements of s that are in K, in the order they have in s.
Only(s, K) ==
    LET kept[i \in 0..Len(s)] ==
            IF i = 0 THEN << >>
            ELSE IF s[i] \in K THEN Append(kept[i - 1], s[i]) ELSE kept[i - 1]
    IN kept[Len(s)]

Without(s, p) == Only(s, {e \in Elements(s) : e.print # p})
Stored(s, p) == \E e \in Elements(s) : e.print = p
MoveToEnd(s, p) == Append(Only(s, Elements(s) \ {p}), p)

SumOf(s, k) ==
    LET sum[i \in 0..Len(s)] ==
            IF i = 0 THEN 0 ELSE sum[i - 1] + Size[s[i].print][k]
    IN sum[Len(s)]

Fits(s) == /\ Len(s) <= MaxEntries
           /\ SumOf(s, 1) <= MaxReplayStates
           /\ SumOf(s, 2) <= MaxWeatherRows

-----------------------------------------------------------------------------
(* The store: each operation first removes what has expired. *)

Live == Only(entries, {e \in Elements(entries) : time < e.expires})
Dead == Only(entries, {e \in Elements(entries) : time >= e.expires})

\* The newest tombstones, one per expired snapshot, saying whether the
\* observer accepted the report.
Buried(ok) ==
    LET all == tombstones \o [i \in DOMAIN Dead |->
                                 [print |-> Dead[i].print, recorded |-> ok]]
        from == IF Len(all) > MaxEntries THEN Len(all) - MaxEntries + 1 ELSE 1
    IN SubSeq(all, from, Len(all))

Reported(ok) ==
    [p \in Fingerprints |-> counted[p] + IF ok /\ Stored(Dead, p) THEN 1 ELSE 0]

\* Mutant: one eviction is taken to be enough.
TrimmedOnce(s) == IF Fits(s) THEN s ELSE Tail(s)

\* The least recently used snapshots go until the rest fits.
Trimmed(s) ==
    LET n == CHOOSE k \in 0..Len(s) :
                 /\ Fits(SubSeq(s, k + 1, Len(s)))
                 /\ \A m \in 0..(k - 1) : ~Fits(SubSeq(s, m + 1, Len(s)))
    IN SubSeq(s, n + 1, Len(s))

TooLarge(p) == Size[p][1] > MaxReplayStates \/ Size[p][2] > MaxWeatherRows

\* Every search stores what it evaluated, in place of an earlier snapshot of
\* the same fingerprint; one that alone exceeds a limit is not kept.
Rank(p, ok) ==
    /\ rankings < MaxRankings
    /\ rankings' = rankings + 1
    /\ entries' = IF TooLarge(p) THEN Without(Live, p)
                  ELSE Trimmed(Append(Without(Live, p),
                                      [print |-> p, expires |-> time + Lifetime]))
    /\ tombstones' = Without(Buried(ok), p)
    /\ storedAt' = [storedAt EXCEPT ![p] = time]
    /\ counted' = [Reported(ok) EXCEPT ![p] = 0]
    /\ recent' = MoveToEnd(recent, p)
    /\ UNCHANGED <<time, asks, questions>>

\* The cleanup thread.
Cleanup(ok) ==
    /\ Dead # << >>
    /\ entries' = Live
    /\ tombstones' = Buried(ok)
    /\ counted' = Reported(ok)
    /\ UNCHANGED <<time, asks, rankings, questions, storedAt, recent>>

\* Mutant: use extends the time a snapshot is served.
TouchedForLonger(p) ==
    Append(Without(Live, p), [print |-> p, expires |-> time + Lifetime])

\* A hit is moved to the end and keeps its expiry.
Touched(p) == Append(Without(Live, p), CHOOSE e \in Elements(Live) : e.print = p)

Found(p, i, ok) ==
    CASE Stored(Live, p) /\ i = p -> "hit"
      [] Stored(Live, p) /\ i # p -> "intent_mismatch"
      [] ~Stored(Live, p) /\ Stored(Buried(ok), p) -> "expired"
      [] OTHER -> "miss"

\* Mutant: the tombstone outlives the lookup that reports it.
ExhumedNever(p, ok) == Buried(ok)

\* A lookup that says "expired" takes the tombstone with it.
Exhumed(p, ok) == Without(Buried(ok), p)

\* An expiry the observer did not take is reported by the lookup.
Unrecorded(p, ok) ==
    \E i \in DOMAIN Buried(ok) :
        Buried(ok)[i].print = p /\ ~Buried(ok)[i].recorded

-----------------------------------------------------------------------------
(* One request for a question. *)

AskStart(q, resolved) ==
    /\ asks[q].phase \in {"idle", "done"}
    /\ questions < MaxQuestions
    /\ questions' = questions + 1
    /\ asks' = [asks EXCEPT ![q] = [Asleep EXCEPT !.phase = "started",
                                    !.started = time, !.resolved = resolved]]
    /\ UNCHANGED <<time, storeVars, rankings>>

\* The snapshot of exactly this fingerprint and intent, or no question.
LookUp(q, p, i, ok) ==
    LET outcome == Found(p, i, ok)
    IN /\ asks[q].phase = "started"
       /\ entries' = IF outcome = "hit" THEN Touched(p) ELSE Live
       /\ tombstones' = IF outcome = "expired" THEN Exhumed(p, ok) ELSE Buried(ok)
       /\ counted' = IF outcome = "expired" /\ Unrecorded(p, ok)
                     THEN [Reported(ok) EXCEPT ![p] = @ + 1] ELSE Reported(ok)
       /\ recent' = IF outcome = "hit" THEN MoveToEnd(recent, p) ELSE recent
       /\ asks' = [asks EXCEPT ![q] = [@ EXCEPT
              !.print = p,
              !.outcome = outcome,
              !.age = IF outcome = "hit" THEN time - storedAt[p] ELSE 0,
              !.phase = IF outcome = "hit" /\ Size[p][1] > 0 THEN "hit"
                        ELSE "done"]]
       /\ UNCHANGED <<time, rankings, questions, storedAt>>

Elapsed(q) == time - asks[q].started
Open(q) == Material[asks[q].print] \ asks[q].resolved

\* The provider has what is left of the deadline.  Its choices pass the same
\* validation as the fallback; it may fail, or propose nothing that passes.
Propose(q, topic) ==
    /\ asks[q].phase = "hit"
    /\ topic \in Open(q) \cup {None}
    /\ Elapsed(q) < AskBudget \/ topic = None
    /\ asks' = [asks EXCEPT ![q].phase = "proposed", ![q].topic = topic]
    /\ UNCHANGED <<time, storeVars, rankings, questions>>

FirstOpen(q) ==
    LET ranks == {i \in DOMAIN TopicOrder : TopicOrder[i] \in Open(q)}
    IN IF ranks = {} THEN None
       ELSE TopicOrder[CHOOSE i \in ranks : \A j \in ranks : i <= j]

\* Without a proposal, the first material topic nobody resolved, if time is left.
FallBack(q) ==
    /\ asks[q].phase = "proposed"
    /\ asks' = [asks EXCEPT ![q].phase = "replayed",
           ![q].topic = IF @ # None \/ Elapsed(q) >= AskBudget THEN @
                        ELSE FirstOpen(q)]
    /\ UNCHANGED <<time, storeVars, rankings, questions>>

\* Mutant: the deadline is not looked at again.
RespondLate(q) == asks[q].topic

\* A question that is ready after the deadline is dropped.
Respond(q) == IF Elapsed(q) >= AskBudget THEN None ELSE asks[q].topic

AskEnd(q) ==
    /\ asks[q].phase = "replayed"
    /\ asks' = [asks EXCEPT ![q].phase = "done", ![q].topic = Respond(q),
                            ![q].took = Elapsed(q)]
    /\ UNCHANGED <<time, storeVars, rankings, questions>>

Advance == /\ time < EndOfTime
           /\ time' = time + 1
           /\ UNCHANGED <<storeVars, asks, rankings, questions>>

SnapshotInit ==
    /\ time = 0
    /\ entries = << >>
    /\ tombstones = << >>
    /\ asks = [q \in Askers |-> Asleep]
    /\ rankings = 0
    /\ questions = 0
    /\ storedAt = [p \in Fingerprints |-> 0]
    /\ counted = [p \in Fingerprints |-> 0]
    /\ recent = << >>

SnapshotNext ==
    \/ \E ok \in BOOLEAN : \/ \E p \in Fingerprints : Rank(p, ok)
                           \/ Cleanup(ok)
    \/ \E q \in Askers : \/ \E resolved \in SUBSET TopicSet : AskStart(q, resolved)
                         \/ \E p, i \in Fingerprints, ok \in BOOLEAN :
                                LookUp(q, p, i, ok)
                         \/ \E topic \in TopicSet \cup {None} : Propose(q, topic)
                         \/ FallBack(q)
                         \/ AskEnd(q)
    \/ Advance

SnapshotSpec == SnapshotInit /\ [][SnapshotNext]_snapshotVars

-----------------------------------------------------------------------------
(* Properties *)

\* The three limits hold together after every operation, and what is evicted
\* is what was used longest ago: the store is in the order of last use.
StoreIsBounded ==
    /\ Fits(entries)
    /\ Len(tombstones) <= MaxEntries
    /\ \A i, j \in DOMAIN entries : i < j =>
           \E m, n \in DOMAIN recent : /\ m < n
                                       /\ recent[m] = entries[i].print
                                       /\ recent[n] = entries[j].print

\* No expiry is reported twice, by cleanup and lookup or by two lookups,
\* however the store, the observer and the requests interleave.
ExpiryReportedOnce == \A p \in Fingerprints : counted[p] <= 1

\* A request that is answered from a snapshot found it within its lifetime,
\* however often others used it, and a question comes before the deadline and
\* on a topic the traveller has not settled.
QuestionsAreCurrent ==
    \A q \in Askers :
        /\ asks[q].outcome = "hit" => asks[q].age < Lifetime
        /\ asks[q].phase = "done" /\ asks[q].topic # None =>
               /\ asks[q].took < AskBudget
               /\ asks[q].topic \notin asks[q].resolved

\* The three together.
SnapshotSafe == StoreIsBounded /\ ExpiryReportedOnce /\ QuestionsAreCurrent
=============================================================================
