-------------------------- MODULE JournalStoreProofs --------------------------
(***************************************************************************)
(* Proofs about JournalStore for any number of runs, work items and        *)
(* commits.  Typing and OneWorkerRecovers are inductive as they stand; the *)
(* two once-only properties need to know where the heads of the past are   *)
(* kept, which is what Remembered says.                                    *)
(***************************************************************************)
EXTENDS JournalStore, TLAPS

\* Every semantic head that had a continuation is the current one or in the
\* archive, and if the current one has had a terminal publication then the
\* intent record still shows it.
RememberedAt(w) ==
    /\ begun[w] \subseteq archive[w] \cup {ci[w].semantic}
    /\ ci[w].phase = "none" => begun[w] = {} /\ ci[w].semantic = NoHead
    /\ ci[w].phase # "none" => ci[w].semantic \in begun[w]
    /\ ended[w] \subseteq begun[w]
    /\ ci[w].semantic \in ended[w] =>
           /\ intent[w].phase # "none"
           /\ intent[w].continuation.semantic = ci[w].semantic
    /\ intent[w].phase = "authorized" => ci[w].phase # "none"

Remembered == \A w \in WorkId : RememberedAt(w)

StoreInv == StoreTypeOK /\ OneWorkerRecovers /\ Remembered

-----------------------------------------------------------------------------
(* Typing.                                                                 *)

\* The empty store is well typed, has no unresolved push and no history.
LEMMA StoreInitInv == StoreInit => StoreInv
  BY StoreAssumption
  DEF StoreInit, StoreInv, StoreTypeOK, OneWorkerRecovers, Remembered, RememberedAt,
      Unresolved, MaybeRun, MaybeHead, NoWork, NoJournal, NoCi, NoIntent, WorkState,
      PushJournal, CiContinuation, Intent, WorkPhase, PushPhase, CiPhase, IntentPhase

\* The successor of a work phase is a work phase.
LEMMA NextWorkType == \A p \in WorkPhase : NextWork(p) \in WorkPhase
  BY DEF NextWork, WorkPhase

\* The successor of a push phase is a push phase.
LEMMA NextPushType == \A w \in WorkId, p \in PushPhase : NextPush(w, p) \in PushPhase
  BY DEF NextPush, PushPhase

\* An operation on work records writes well-typed records.
LEMMA WorkOpType ==
  ASSUME StoreTypeOK, NEW r \in Run, NEW w \in WorkId, WorkOp(r, w)
  PROVE  StoreTypeOK'
<1>1. CASE \E h \in Head : BeginWork(r, w, h)
  <2> PICK h \in Head : BeginWork(r, w, h)
    BY <1>1
  <2> DEFINE s == [NoWork EXCEPT !.phase = "selected", !.run = r, !.selected = h]
  <2>1. s \in WorkState
    BY DEF WorkState, NoWork, WorkPhase, MaybeRun, MaybeHead
  <2>2. work' = [work EXCEPT ![w] = s]
    BY DEF BeginWork
  <2> HIDE DEF s
  <2> QED BY <2>1, <2>2 DEF BeginWork, StoreTypeOK, leaseVars, ciVars, intentVars
<1>2. CASE \E h, k \in MaybeHead : SaveWork(r, w, h, k)
  <2> PICK h \in MaybeHead, k \in MaybeHead : SaveWork(r, w, h, k)
    BY <1>2
  <2> DEFINE s == [work[w] EXCEPT !.phase = NextWork(@), !.reviewed = h, !.validated = k]
  <2>1. s \in WorkState
    BY NextWorkType DEF WorkState, StoreTypeOK
  <2>2. work' = [work EXCEPT ![w] = s]
    BY DEF SaveWork
  <2> HIDE DEF s
  <2> QED BY <2>1, <2>2 DEF SaveWork, StoreTypeOK, leaseVars, ciVars, intentVars
<1> QED BY <1>1, <1>2 DEF WorkOp

\* An operation on push journals writes well-typed journals.
LEMMA PushOpType ==
  ASSUME StoreTypeOK, NEW r \in Run, NEW w \in WorkId, PushOp(r, w)
  PROVE  StoreTypeOK'
<1> USE DEF StoreTypeOK, leaseVars, ciVars, intentVars, PushJournal, MaybeRun
<1>1. CASE \E h, k \in MaybeHead : AuthorizePush(r, w, h, k)
  BY <1>1 DEF AuthorizePush, PushPhase
<1>2. CASE AdvancePush(r, w)
  BY <1>2, NextPushType DEF AdvancePush
<1>3. CASE \E h \in MaybeHead : AdoptPush(r, w, h)
  BY <1>3 DEF AdoptPush
<1>4. CASE EnterPushGuard(r, w)
  BY <1>4 DEF EnterPushGuard
<1> QED BY <1>1, <1>2, <1>3, <1>4 DEF PushOp

\* A step that writes well-typed continuations and archives, and adds only
\* commits to the history, keeps the store well typed.
LEMMA CiWriteType ==
  ASSUME StoreTypeOK, NEW w \in WorkId, NEW c \in CiContinuation,
         ci' = [ci EXCEPT ![w] = c],
         UNCHANGED <<leaseVars, mutex, work, journal, archive, begun, intentVars>>
  PROVE  StoreTypeOK'
  BY DEF StoreTypeOK, leaseVars, intentVars

\* An operation on CI continuations writes well-typed continuations.
LEMMA CiOpType ==
  ASSUME StoreTypeOK, NEW r \in Run, NEW w \in WorkId, CiOp(r, w)
  PROVE  StoreTypeOK'
<1>0. ci[w] \in CiContinuation
  BY DEF StoreTypeOK
<1>1. CASE \E h \in Head : StartCi(r, w, h)
  <2> PICK h \in Head : StartCi(r, w, h)
    BY <1>1
  <2> DEFINE c == InitialCi(r, h)
  <2>1. c \in CiContinuation
    BY StoreAssumption DEF InitialCi, CiContinuation, CiPhase, MaybeRun, MaybeHead
  <2>2. ci' \in {ci, [ci EXCEPT ![w] = c]}
    BY DEF StartCi
  <2> HIDE DEF c
  <2>3. ci' \in [WorkId -> CiContinuation]
    BY <2>1, <2>2 DEF StoreTypeOK
  <2>4. archive' \in [WorkId -> SUBSET Head]
    <3>1. {ci[w].semantic} \ {NoHead} \subseteq Head
      BY <1>0 DEF CiContinuation, MaybeHead
    <3> QED BY <3>1 DEF StartCi, StoreTypeOK
  <2>5. begun' \in [WorkId -> SUBSET Head]
    <3>1. \/ begun' = begun
          \/ begun' = [begun EXCEPT ![w] = @ \cup {h}]
      BY DEF StartCi
    <3> QED BY <3>1 DEF StoreTypeOK
  <2> QED BY <2>3, <2>4, <2>5 DEF StartCi, StoreTypeOK, leaseVars, intentVars
<1>2. CASE \E phase \in CiPhase, h, k \in MaybeHead : AdvanceCi(r, w, phase, h, k)
  <2> PICK phase \in CiPhase, h \in MaybeHead, k \in MaybeHead :
             AdvanceCi(r, w, phase, h, k)
    BY <1>2
  <2> DEFINE c == [ci[w] EXCEPT !.phase = phase, !.current = h, !.repair = k]
  <2>1. c \in CiContinuation
    BY <1>0 DEF CiContinuation
  <2>2. ci' = [ci EXCEPT ![w] = c]
    BY DEF AdvanceCi
  <2> HIDE DEF c
  <2> QED BY <2>1, <2>2, CiWriteType DEF AdvanceCi
<1>3. CASE RecordCiTime(r, w)
  <2> DEFINE c == [ci[w] EXCEPT !.beats = @ + 1]
  <2>1. c \in CiContinuation
    BY <1>0, <1>3, StoreAssumption DEF RecordCiTime, CiContinuation
  <2>2. ci' = [ci EXCEPT ![w] = c]
    BY <1>3 DEF RecordCiTime
  <2> HIDE DEF c
  <2> QED BY <1>3, <2>1, <2>2, CiWriteType DEF RecordCiTime
<1>4. CASE AdoptCi(r, w) \/ AdoptCiForPush(r, w)
  <2> DEFINE c == [ci[w] EXCEPT !.recovery = r]
  <2>1. c \in CiContinuation
    BY <1>0 DEF CiContinuation, MaybeRun
  <2>2. ci' = [ci EXCEPT ![w] = c]
    BY <1>4 DEF AdoptCi, AdoptCiForPush
  <2> HIDE DEF c
  <2> QED BY <1>4, <2>1, <2>2, CiWriteType DEF AdoptCi, AdoptCiForPush
<1> QED BY <1>1, <1>2, <1>3, <1>4 DEF CiOp

\* An operation on terminal publications writes well-typed records.
LEMMA TerminalOpType ==
  ASSUME StoreTypeOK, NEW r \in Run, NEW w \in WorkId, TerminalOp(r, w)
  PROVE  StoreTypeOK'
<1>0. ci[w] \in CiContinuation /\ intent[w] \in Intent
  BY DEF StoreTypeOK
<1>1. CASE AuthorizeTerminal(r, w)
  <2>1. [phase |-> "authorized", origin |-> r, recovery |-> r, continuation |-> ci[w]]
            \in Intent
    BY <1>0 DEF Intent, IntentPhase, MaybeRun
  <2>2. ci[w].semantic \in MaybeHead
    BY <1>0 DEF CiContinuation
  <2> QED BY <1>1, <2>1, <2>2 DEF AuthorizeTerminal, StoreTypeOK, leaseVars, ciVars
<1>2. CASE AdoptTerminal(r, w)
  <2>1. [intent[w] EXCEPT !.recovery = r] \in Intent
    BY <1>0 DEF Intent, MaybeRun
  <2> QED BY <1>2, <2>1 DEF AdoptTerminal, StoreTypeOK, leaseVars, ciVars
<1>3. CASE EnterTerminalGuard(r, w)
  BY <1>3 DEF EnterTerminalGuard, StoreTypeOK, leaseVars, ciVars, intentVars, MaybeRun
<1>4. CASE CompleteTerminal(r, w)
  <2> DEFINE c == [ci[w] EXCEPT !.phase = "blocked", !.recovery = r]
             d == [ci[w] EXCEPT !.recovery = r]
             i == [intent[w] EXCEPT !.phase = "completed"]
  <2>1. c \in CiContinuation /\ d \in CiContinuation /\ i \in Intent
    BY <1>0 DEF CiContinuation, CiPhase, Intent, IntentPhase, MaybeRun
  <2>2. [c EXCEPT !.recovery = r] = c
    BY <1>0 DEF CiContinuation
  <2>3. /\ ci' \in {ci, [ci EXCEPT ![w] = c], [ci EXCEPT ![w] = d]}
        /\ intent' \in {intent, [intent EXCEPT ![w] = i]}
    <3>1. [ci EXCEPT ![w] = ci[w]] = ci
      BY DEF StoreTypeOK
    <3> DEFINE blocked == IF ci[w] = intent[w].continuation THEN c ELSE ci[w]
    <3>2. /\ \/ ci' = [ci EXCEPT ![w] = blocked]
             \/ ci' = [ci EXCEPT ![w] = [blocked EXCEPT !.recovery = r]]
          /\ \/ intent' = intent
             \/ intent' = [intent EXCEPT ![w] = i]
      BY <1>4 DEF CompleteTerminal
    <3>3. blocked \in {c, ci[w]}
      OBVIOUS
    <3> HIDE DEF c, i, blocked
    <3> QED BY <2>2, <3>1, <3>2, <3>3
  <2> HIDE DEF c, d, i
  <2>4. /\ ci' \in [WorkId -> CiContinuation]
        /\ intent' \in [WorkId -> Intent]
    BY <2>1, <2>3 DEF StoreTypeOK
  <2> QED BY <1>4, <2>4 DEF CompleteTerminal, StoreTypeOK, leaseVars
<1> QED BY <1>1, <1>2, <1>3, <1>4 DEF TerminalOp

\* Every step of the store keeps its variables well typed.
LEMMA StoreNextType == StoreTypeOK /\ [StoreNext]_storeVars => StoreTypeOK'
<1> SUFFICES ASSUME StoreTypeOK, [StoreNext]_storeVars PROVE StoreTypeOK'
  OBVIOUS
<1>1. CASE \E r \in Run : AcquireLease(r)
  BY <1>1 DEF AcquireLease, StoreTypeOK, ciVars, intentVars, MaybeRun
<1>2. CASE \E r \in Run : LeaveGuard(r)
  BY <1>2 DEF LeaveGuard, StoreTypeOK, leaseVars, ciVars, intentVars, MaybeRun
<1>3. CASE LoseLease
  BY <1>3 DEF LoseLease, StoreTypeOK, ciVars, intentVars, MaybeRun
<1>4. CASE \E r \in Run, w \in WorkId :
              WorkOp(r, w) \/ PushOp(r, w) \/ CiOp(r, w) \/ TerminalOp(r, w)
  BY <1>4, WorkOpType, PushOpType, CiOpType, TerminalOpType
<1>5. CASE UNCHANGED storeVars
  BY <1>5 DEF storeVars, StoreTypeOK, ciVars, intentVars
<1> QED BY <1>1, <1>2, <1>3, <1>4, <1>5 DEF StoreNext

\* The store's variables are always well typed.
THEOREM StoreTypeCorrect == StoreSpec => []StoreTypeOK
<1>1. StoreInit => StoreTypeOK
  BY StoreInitInv DEF StoreInv
<1> QED BY <1>1, StoreNextType, PTL DEF StoreSpec

-----------------------------------------------------------------------------
(* One worker recovers.                                                    *)

\* A step that resolves pushes and leaves the owner alone, or drops it, keeps
\* the unresolved pushes with the owner's worker.
LEMMA FewerUnresolved ==
  ASSUME OneWorkerRecovers, Unresolved' \subseteq Unresolved, owner' \in {owner, NoRun}
  PROVE  OneWorkerRecovers'
  BY DEF OneWorkerRecovers

\* Only AuthorizePush leaves an unresolved push more.
LEMMA PushOpResolves ==
  ASSUME StoreTypeOK, NEW r \in Run, NEW w \in WorkId, PushOp(r, w),
         ~\E h, k \in MaybeHead : AuthorizePush(r, w, h, k)
  PROVE  Unresolved' \subseteq Unresolved /\ owner' = owner
<1> USE DEF Unresolved, leaseVars, StoreTypeOK, PushJournal
<1>1. CASE AdvancePush(r, w)
  BY <1>1 DEF AdvancePush
<1>2. CASE \E h \in MaybeHead : AdoptPush(r, w, h)
  BY <1>2 DEF AdoptPush
<1>3. CASE EnterPushGuard(r, w)
  BY <1>3 DEF EnterPushGuard
<1> QED BY <1>1, <1>2, <1>3 DEF PushOp

\* No step leaves an unresolved push of another worker than the owner's.
LEMMA StoreNextOneWorker ==
  StoreTypeOK /\ OneWorkerRecovers /\ [StoreNext]_storeVars => OneWorkerRecovers'
<1> SUFFICES ASSUME StoreTypeOK, OneWorkerRecovers, [StoreNext]_storeVars
             PROVE  OneWorkerRecovers'
  OBVIOUS
<1>1. CASE \E r \in Run : AcquireLease(r)
  <2> PICK r \in Run : AcquireLease(r)
    BY <1>1
  <2>1. journal' = journal /\ owner' = r
    BY DEF AcquireLease
  <2>2. Unresolved' = Unresolved
    BY <2>1 DEF Unresolved
  <2>3. \A w \in Unresolved : WorkerOf[w] = WorkerOf[r]
    BY DEF AcquireLease
  <2> QED BY <2>1, <2>2, <2>3 DEF OneWorkerRecovers
<1>2. CASE \E r \in Run, w \in WorkId, h, k \in MaybeHead : AuthorizePush(r, w, h, k)
  <2> PICK r \in Run, w \in WorkId, h \in MaybeHead, k \in MaybeHead :
             AuthorizePush(r, w, h, k)
    BY <1>2
  <2>1. owner = r /\ WorkerOf[r] = WorkerOf[w] /\ owner' = owner
    BY DEF AuthorizePush, Owns, leaseVars
  <2>2. Unresolved' \subseteq Unresolved \cup {w}
    BY DEF AuthorizePush, Unresolved, StoreTypeOK
  <2>3. \A v \in Unresolved' : WorkerOf[v] = WorkerOf[owner]
    BY <2>1, <2>2, StoreAssumption DEF OneWorkerRecovers
  <2> QED BY <2>1, <2>3 DEF OneWorkerRecovers
<1>3. CASE \E r \in Run, w \in WorkId :
              PushOp(r, w) /\ ~\E h, k \in MaybeHead : AuthorizePush(r, w, h, k)
  BY <1>3, PushOpResolves, FewerUnresolved
<1>4. CASE \/ \E r \in Run : LeaveGuard(r)
           \/ LoseLease
           \/ UNCHANGED storeVars
  <2>1. journal' = journal /\ owner' \in {owner, NoRun}
    BY <1>4 DEF LeaveGuard, LoseLease, storeVars, leaseVars
  <2> QED BY <2>1, FewerUnresolved DEF Unresolved
<1>5. CASE \E r \in Run, w \in WorkId : WorkOp(r, w) \/ CiOp(r, w) \/ TerminalOp(r, w)
  <2> PICK r \in Run, w \in WorkId : WorkOp(r, w) \/ CiOp(r, w) \/ TerminalOp(r, w)
    BY <1>5
  <2>1. journal' = journal /\ owner' = owner
    <3>1. CASE WorkOp(r, w)
      BY <3>1 DEF WorkOp, leaseVars, BeginWork, SaveWork
    <3>2. CASE CiOp(r, w)
      BY <3>2 DEF CiOp, leaseVars, StartCi, AdvanceCi, RecordCiTime, AdoptCi,
                  AdoptCiForPush
    <3>3. CASE TerminalOp(r, w)
      BY <3>3 DEF TerminalOp, leaseVars, AuthorizeTerminal, AdoptTerminal,
                  EnterTerminalGuard, CompleteTerminal
    <3> QED BY <3>1, <3>2, <3>3
  <2> QED BY <2>1, FewerUnresolved DEF Unresolved
<1> QED BY <1>1, <1>2, <1>3, <1>4, <1>5 DEF StoreNext

\* Unresolved pushes always belong to one worker, and to the lease owner's
\* worker while somebody owns the lease.
THEOREM OneWorker == StoreSpec => []OneWorkerRecovers
<1>1. StoreInit => StoreTypeOK /\ OneWorkerRecovers
  BY StoreInitInv DEF StoreInv
<1>2. StoreTypeOK /\ OneWorkerRecovers /\ [StoreNext]_storeVars
          => (StoreTypeOK /\ OneWorkerRecovers)'
  BY StoreNextType, StoreNextOneWorker
<1> QED BY <1>1, <1>2, PTL DEF StoreSpec

-----------------------------------------------------------------------------
(* Continuations and terminal publications happen once.                    *)

\* A step that leaves continuations, archives, intents and their histories
\* alone keeps Remembered and starts nothing.
LEMMA RememberedStutter ==
  ASSUME Remembered, UNCHANGED <<ciVars, intentVars>>
  PROVE  Remembered'
  BY DEF Remembered, RememberedAt, ciVars, intentVars

\* A change of one continuation that keeps its semantic head and does not
\* make it absent keeps Remembered.
LEMMA RememberedAdvance ==
  ASSUME StoreTypeOK, Remembered, NEW w \in WorkId, NEW c \in CiContinuation,
         ci' \in {ci, [ci EXCEPT ![w] = c]}, c.semantic = ci[w].semantic,
         ci[w].phase # "none", c.phase # "none",
         UNCHANGED <<archive, begun, intentVars>>
  PROVE  Remembered'
  BY DEF Remembered, RememberedAt, StoreTypeOK, intentVars

\* Starting a continuation keeps Remembered, and its head is a new one.
LEMMA StartCiRemembers ==
  ASSUME StoreTypeOK, Remembered, NEW r \in Run, NEW w \in WorkId, NEW h \in Head,
         StartCi(r, w, h)
  PROVE  Remembered' /\ h \notin begun[w]
<1>1. h \notin begun[w]
  BY DEF StartCi, Remembered, RememberedAt, TerminalCi
<1>2. h # ci[w].semantic
  BY StoreAssumption DEF StartCi, Remembered, RememberedAt, TerminalCi
<1>3. /\ archive' = [archive EXCEPT ![w] = @ \cup ({ci[w].semantic} \ {NoHead})]
      /\ UNCHANGED intentVars
  BY DEF StartCi
<1>4. CASE UNCHANGED <<ci, begun>>
  BY <1>1, <1>3, <1>4 DEF Remembered, RememberedAt, StoreTypeOK, intentVars
<1>5. CASE /\ ci' = [ci EXCEPT ![w] = InitialCi(r, h)]
           /\ begun' = [begun EXCEPT ![w] = @ \cup {h}]
  <2>1. InitialCi(r, h).semantic = h /\ InitialCi(r, h).phase = "initial-wait"
    BY DEF InitialCi
  <2> SUFFICES ASSUME NEW v \in WorkId PROVE RememberedAt(v)'
    BY <1>1 DEF Remembered, RememberedAt
  <2>2. CASE v # w
    <3>1. /\ ci'[v] = ci[v] /\ begun'[v] = begun[v] /\ archive'[v] = archive[v]
          /\ ended' = ended /\ intent' = intent
      BY <1>3, <1>5, <2>2 DEF StoreTypeOK, intentVars
    <3> QED BY <3>1 DEF Remembered, RememberedAt
  <2>3. CASE v = w
    <3>1. /\ ci'[w].semantic = h /\ ci'[w].phase = "initial-wait"
          /\ begun'[w] = begun[w] \cup {h}
          /\ archive'[w] = archive[w] \cup ({ci[w].semantic} \ {NoHead})
          /\ ended' = ended /\ intent' = intent
      BY <1>3, <1>5, <2>1 DEF StoreTypeOK, intentVars
    <3>2. NoHead \notin begun[w]
      BY StoreAssumption DEF StoreTypeOK
    <3> QED BY <1>1, <2>3, <3>1, <3>2 DEF Remembered, RememberedAt
  <2> QED BY <2>2, <2>3
<1> QED BY <1>1, <1>4, <1>5 DEF StartCi

\* The other operations on continuations keep the semantic head and origin.
LEMMA CiOpRemembers ==
  ASSUME StoreTypeOK, Remembered, NEW r \in Run, NEW w \in WorkId, CiOp(r, w),
         ~\E h \in Head : StartCi(r, w, h)
  PROVE  /\ Remembered'
         /\ \A v \in WorkId : ci'[v].origin = ci[v].origin
         /\ intent' = intent
<1>0. ci[w] \in CiContinuation
  BY DEF StoreTypeOK
<1>1. CASE \E phase \in CiPhase, h, k \in MaybeHead : AdvanceCi(r, w, phase, h, k)
  <2> PICK phase \in CiPhase, h \in MaybeHead, k \in MaybeHead :
             AdvanceCi(r, w, phase, h, k)
    BY <1>1
  <2> DEFINE c == [ci[w] EXCEPT !.phase = phase, !.current = h, !.repair = k]
  <2>1. ci' = [ci EXCEPT ![w] = c] /\ UNCHANGED <<archive, begun, intentVars>>
    BY DEF AdvanceCi
  <2>2. /\ c \in CiContinuation /\ c.semantic = ci[w].semantic
        /\ c.origin = ci[w].origin /\ c.phase = phase
    BY <1>0 DEF CiContinuation
  <2>3. ci[w].phase # "none" /\ phase # "none"
    BY DEF AdvanceCi, NextCi, TerminalCi
  <2> HIDE DEF c
  <2>4. Remembered'
    BY <2>1, <2>2, <2>3, RememberedAdvance
  <2> QED BY <2>1, <2>2, <2>4 DEF StoreTypeOK, intentVars
<1>2. CASE RecordCiTime(r, w)
  <2> DEFINE c == [ci[w] EXCEPT !.beats = @ + 1]
  <2>1. ci' = [ci EXCEPT ![w] = c] /\ UNCHANGED <<archive, begun, intentVars>>
    BY <1>2 DEF RecordCiTime
  <2>2. /\ c \in CiContinuation /\ c.semantic = ci[w].semantic
        /\ c.origin = ci[w].origin /\ c.phase = ci[w].phase
    BY <1>0, <1>2, StoreAssumption DEF CiContinuation, RecordCiTime
  <2>3. ci[w].phase # "none"
    BY <1>2 DEF RecordCiTime
  <2> HIDE DEF c
  <2>4. Remembered'
    BY <2>1, <2>2, <2>3, RememberedAdvance
  <2> QED BY <2>1, <2>2, <2>4 DEF StoreTypeOK, intentVars
<1>3. CASE AdoptCi(r, w) \/ AdoptCiForPush(r, w)
  <2> DEFINE c == [ci[w] EXCEPT !.recovery = r]
  <2>1. ci' = [ci EXCEPT ![w] = c] /\ UNCHANGED <<archive, begun, intentVars>>
    BY <1>3 DEF AdoptCi, AdoptCiForPush
  <2>2. /\ c \in CiContinuation /\ c.semantic = ci[w].semantic
        /\ c.origin = ci[w].origin /\ c.phase = ci[w].phase
    BY <1>0 DEF CiContinuation, MaybeRun
  <2>3. ci[w].phase # "none"
    BY <1>3 DEF AdoptCi, AdoptCiForPush, ActiveCi
  <2> HIDE DEF c
  <2>4. Remembered'
    BY <2>1, <2>2, <2>3, RememberedAdvance
  <2> QED BY <2>1, <2>2, <2>4 DEF StoreTypeOK, intentVars
<1> QED BY <1>1, <1>2, <1>3 DEF CiOp

\* A terminal publication is authorised for a head that has had none.
LEMMA AuthorizeRemembers ==
  ASSUME StoreTypeOK, Remembered, NEW r \in Run, NEW w \in WorkId,
         AuthorizeTerminal(r, w)
  PROVE  /\ Remembered'
         /\ ci[w].semantic \notin ended[w]
         /\ \E i \in Intent : /\ intent' = [intent EXCEPT ![w] = i]
                              /\ i.continuation.semantic = ci[w].semantic
<1> DEFINE i == [phase |-> "authorized", origin |-> r, recovery |-> r,
                 continuation |-> ci[w]]
<1>1. /\ ci[w].phase \in {"repair-active", "repair-reviewed"}
      /\ UnresolvedTerminal = {}
      /\ intent[w].phase = "completed" => intent[w].continuation.semantic # ci[w].semantic
      /\ intent' = [intent EXCEPT ![w] = i]
      /\ ended' = [ended EXCEPT ![w] = @ \cup {ci[w].semantic}]
      /\ UNCHANGED ciVars
  BY DEF AuthorizeTerminal
<1>2. i \in Intent /\ i.phase = "authorized" /\ i.continuation = ci[w]
  BY DEF Intent, IntentPhase, MaybeRun, StoreTypeOK
<1>3. intent[w].phase \in {"none", "completed"}
  BY <1>1 DEF UnresolvedTerminal, StoreTypeOK, Intent, IntentPhase
<1> HIDE DEF i
<1>4. ci[w].semantic \notin ended[w]
  BY <1>1, <1>3 DEF Remembered, RememberedAt
<1>5. Remembered'
  BY <1>1, <1>2 DEF Remembered, RememberedAt, StoreTypeOK, ciVars
<1> QED BY <1>1, <1>2, <1>4, <1>5

\* The other operations on terminal publications authorise nothing and keep
\* the semantic heads.
LEMMA TerminalOpRemembers ==
  ASSUME StoreTypeOK, Remembered, NEW r \in Run, NEW w \in WorkId, TerminalOp(r, w),
         ~AuthorizeTerminal(r, w)
  PROVE  /\ Remembered'
         /\ \A v \in WorkId : ci'[v].origin = ci[v].origin
         /\ \A v \in WorkId : intent'[v].phase = "authorized"
                                 => intent[v].phase = "authorized"
<1>0. ci[w] \in CiContinuation /\ intent[w] \in Intent
  BY DEF StoreTypeOK
<1>1. CASE AdoptTerminal(r, w)
  <2> DEFINE i == [intent[w] EXCEPT !.recovery = r]
  <2>1. intent' = [intent EXCEPT ![w] = i] /\ UNCHANGED <<ciVars, ended>>
    BY <1>1 DEF AdoptTerminal
  <2>2. i.phase = intent[w].phase /\ i.continuation = intent[w].continuation
    BY <1>0 DEF Intent
  <2> HIDE DEF i
  <2> QED BY <2>1, <2>2 DEF Remembered, RememberedAt, StoreTypeOK, ciVars
<1>2. CASE EnterTerminalGuard(r, w)
  BY <1>2, RememberedStutter DEF EnterTerminalGuard, ciVars, intentVars
<1>3. CASE CompleteTerminal(r, w)
  <2> DEFINE c == [ci[w] EXCEPT !.phase = "blocked", !.recovery = r]
             d == [ci[w] EXCEPT !.recovery = r]
             i == [intent[w] EXCEPT !.phase = "completed"]
  <2>1. /\ c \in CiContinuation /\ c.semantic = ci[w].semantic
        /\ c.origin = ci[w].origin /\ c.phase = "blocked"
        /\ d \in CiContinuation /\ d.semantic = ci[w].semantic
        /\ d.origin = ci[w].origin /\ d.phase = ci[w].phase
    BY <1>0 DEF CiContinuation, CiPhase, MaybeRun
  <2>2. i \in Intent /\ i.phase = "completed" /\ i.continuation = intent[w].continuation
    BY <1>0 DEF Intent, IntentPhase
  <2>3. /\ ci' \in {ci, [ci EXCEPT ![w] = c], [ci EXCEPT ![w] = d]}
        /\ intent' \in {intent, [intent EXCEPT ![w] = i]}
    <3>1. [ci EXCEPT ![w] = ci[w]] = ci
      BY DEF StoreTypeOK
    <3>2. [c EXCEPT !.recovery = r] = c
      BY <1>0 DEF CiContinuation
    <3> DEFINE blocked == IF ci[w] = intent[w].continuation THEN c ELSE ci[w]
    <3>3. /\ \/ ci' = [ci EXCEPT ![w] = blocked]
             \/ ci' = [ci EXCEPT ![w] = [blocked EXCEPT !.recovery = r]]
          /\ \/ intent' = intent
             \/ intent' = [intent EXCEPT ![w] = i]
      BY <1>3 DEF CompleteTerminal
    <3>4. blocked \in {c, ci[w]}
      OBVIOUS
    <3> HIDE DEF c, i, blocked
    <3> QED BY <3>1, <3>2, <3>3, <3>4
  <2>4. UNCHANGED <<archive, begun, ended>> /\ w \in UnresolvedTerminal
    BY <1>3 DEF CompleteTerminal
  <2> HIDE DEF c, d, i
  <2>5. \A v \in WorkId : /\ ci'[v].semantic = ci[v].semantic
                          /\ ci'[v].origin = ci[v].origin
                          /\ \/ ci'[v].phase = ci[v].phase
                             \/ ci'[v].phase = "blocked" /\ v = w
                          /\ intent'[v].continuation = intent[v].continuation
                          /\ intent'[v].phase \in {intent[v].phase, "completed"}
    BY <2>1, <2>2, <2>3 DEF StoreTypeOK
  <2>6. ci[w].phase # "none"
    BY <2>4 DEF Remembered, RememberedAt, UnresolvedTerminal
  <2> QED BY <2>4, <2>5, <2>6 DEF Remembered, RememberedAt
<1> QED BY <1>1, <1>2, <1>3 DEF TerminalOp

\* Every step keeps Remembered and starts and ends nothing twice.
LEMMA StoreNextRemembers ==
  ASSUME StoreTypeOK, Remembered, [StoreNext]_storeVars
  PROVE  /\ Remembered'
         /\ \A w \in WorkId : ci'[w].origin # ci[w].origin
                                 => ci'[w].semantic \notin begun[w]
         /\ \A w \in WorkId :
                intent[w].phase # "authorized" /\ intent'[w].phase = "authorized"
                    => intent'[w].continuation.semantic \notin ended[w]
<1>1. CASE UNCHANGED <<ciVars, intentVars>>
  <2>1. ci' = ci /\ intent' = intent
    BY <1>1 DEF ciVars, intentVars
  <2> QED BY <1>1, <2>1, RememberedStutter
<1>2. CASE \E r \in Run, w \in WorkId, h \in Head : StartCi(r, w, h)
  <2> PICK r \in Run, w \in WorkId, h \in Head : StartCi(r, w, h)
    BY <1>2
  <2>1. Remembered' /\ h \notin begun[w]
    BY StartCiRemembers
  <2>2. intent' = intent /\ ci' \in {ci, [ci EXCEPT ![w] = InitialCi(r, h)]}
    BY DEF StartCi, intentVars
  <2>3. InitialCi(r, h).semantic = h
    BY DEF InitialCi
  <2>4. \A v \in WorkId : ci'[v] = ci[v] \/ (v = w /\ ci'[v].semantic = h)
    BY <2>2, <2>3 DEF StoreTypeOK
  <2> QED BY <2>1, <2>2, <2>4
<1>3. CASE \E r \in Run, w \in WorkId :
              CiOp(r, w) /\ ~\E h \in Head : StartCi(r, w, h)
  <2>1. /\ Remembered'
        /\ \A v \in WorkId : ci'[v].origin = ci[v].origin
        /\ intent' = intent
    BY <1>3, CiOpRemembers
  <2> QED BY <2>1
<1>4. CASE \E r \in Run, w \in WorkId : AuthorizeTerminal(r, w)
  <2> PICK r \in Run, w \in WorkId : AuthorizeTerminal(r, w)
    BY <1>4
  <2>1. /\ Remembered'
        /\ ci[w].semantic \notin ended[w]
        /\ \E i \in Intent : /\ intent' = [intent EXCEPT ![w] = i]
                             /\ i.continuation.semantic = ci[w].semantic
    BY AuthorizeRemembers
  <2>2. ci' = ci
    BY DEF AuthorizeTerminal, ciVars
  <2> QED BY <2>1, <2>2 DEF StoreTypeOK
<1>5. CASE \E r \in Run, w \in WorkId : TerminalOp(r, w) /\ ~AuthorizeTerminal(r, w)
  <2>1. /\ Remembered'
        /\ \A v \in WorkId : ci'[v].origin = ci[v].origin
        /\ \A v \in WorkId : intent'[v].phase = "authorized"
                                => intent[v].phase = "authorized"
    BY <1>5, TerminalOpRemembers
  <2> QED BY <2>1
<1>6. CASE \/ \E r \in Run : AcquireLease(r) \/ LeaveGuard(r)
           \/ LoseLease
           \/ UNCHANGED storeVars
  <2>1. UNCHANGED <<ciVars, intentVars>>
    BY <1>6 DEF AcquireLease, LeaveGuard, LoseLease, storeVars
  <2> QED BY <1>1, <2>1
<1>7. CASE \E r \in Run, w \in WorkId : WorkOp(r, w) \/ PushOp(r, w)
  <2>1. UNCHANGED <<ciVars, intentVars>>
    <3>1. CASE \E r \in Run, w \in WorkId : WorkOp(r, w)
      BY <3>1, ZenonT(40) DEF WorkOp, BeginWork, SaveWork
    <3>2. CASE \E r \in Run, w \in WorkId : PushOp(r, w)
      BY <3>2 DEF PushOp, AuthorizePush, AdvancePush, AdoptPush, EnterPushGuard
    <3> QED BY <1>7, <3>1, <3>2
  <2> QED BY <1>1, <2>1
<1> QED BY <1>2, <1>3, <1>4, <1>5, <1>6, <1>7 DEF StoreNext

\* A semantic head gets one CI continuation only.
THEOREM ContinuationOnce == StoreSpec => SemanticHeadOnce
<1>1. StoreInit => StoreTypeOK /\ Remembered
  BY StoreInitInv DEF StoreInv
<1>2. StoreTypeOK /\ Remembered /\ [StoreNext]_storeVars => (StoreTypeOK /\ Remembered)'
  BY StoreNextType, StoreNextRemembers
<1>3. StoreTypeOK /\ Remembered /\ [StoreNext]_storeVars =>
        [\A w \in WorkId : ci'[w].origin # ci[w].origin
                              => ci'[w].semantic \notin begun[w]]_storeVars
  BY StoreNextRemembers
<1> QED BY <1>1, <1>2, <1>3, PTL DEF StoreSpec, SemanticHeadOnce

\* A semantic head is published as blocked once only.
THEOREM BlockedOnce == StoreSpec => TerminalOnce
<1>1. StoreInit => StoreTypeOK /\ Remembered
  BY StoreInitInv DEF StoreInv
<1>2. StoreTypeOK /\ Remembered /\ [StoreNext]_storeVars => (StoreTypeOK /\ Remembered)'
  BY StoreNextType, StoreNextRemembers
<1>3. StoreTypeOK /\ Remembered /\ [StoreNext]_storeVars =>
        [\A w \in WorkId :
             intent[w].phase # "authorized" /\ intent'[w].phase = "authorized"
                 => intent'[w].continuation.semantic \notin ended[w]]_storeVars
  BY StoreNextRemembers
<1> QED BY <1>1, <1>2, <1>3, PTL DEF StoreSpec, TerminalOnce
=============================================================================
