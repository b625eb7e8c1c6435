---------------------------- MODULE JournalStore ----------------------------
(***************************************************************************)
(* The private state of the local maintainer (ops/maintainer/state.py):    *)
(* per work item one work record, one push journal, one CI continuation    *)
(* with its archive, and one terminal-publication intent.  Only the run    *)
(* that owns the lease changes them.                                       *)
(*                                                                         *)
(* Every operation runs under the transition mutex and asserts the lease   *)
(* there, so each is one action.  The lease moves as in FencedLease, which *)
(* RunLease implements.  The mutex is a variable because the two guards of *)
(* external mutations keep it while git or gh runs.                        *)
(*                                                                         *)
(* StoreSpec lets every run call every operation with any arguments in any *)
(* order: its properties do not rely on the discipline of the command      *)
(* handlers, which the modules that extend this one model.                 *)
(***************************************************************************)
EXTENDS Naturals

CONSTANTS Run, NoRun,
          WorkId,       \* curation-pr-N and discovery candidates
          WorkerOf,     \* the worker a run or a work item belongs to
          Head, NoHead, \* commits, and "no such commit"
          MaxBeats      \* bound on the time observations of a continuation

Worker == {"curation", "discovery"}

ASSUME StoreAssumption == /\ NoRun \notin Run
                          /\ NoHead \notin Head
                          /\ WorkerOf \in [Run \cup WorkId -> Worker]
                          /\ MaxBeats \in Nat

VARIABLES owner,   \* the run that owns the lease
          used,    \* runs that own or have owned it
          mutex,   \* the run holding the mutex during an outside mutation
          work,    \* work/<id>.json
          journal, \* push/<id>.json
          ci,      \* ci-continuations/<id>.json
          archive, \* ci-continuation-archive/<id>-<semantic head>.json
          intent,  \* terminal-publications/<id>.json
          begun,   \* history: semantic heads a continuation was started for
          ended    \* history: semantic heads a terminal publication was authorised for

leaseVars == <<owner, used>>
ciVars == <<ci, archive, begun>>
intentVars == <<intent, ended>>
storeVars == <<owner, used, mutex, work, journal, ciVars, intentVars>>

WorkPhase == {"none", "selected", "prepared", "reviewed", "validated", "pushed",
              "published"}
PushPhase == {"none", "authorized", "pushed", "pr-created", "published"}
CiPhase == {"none", "initial-wait", "repair-active", "repair-reviewed",
            "second-wait", "consumed", "blocked", "invalidated"}
TerminalCi == {"consumed", "blocked", "invalidated"}
ActiveCi == {"initial-wait", "repair-active", "repair-reviewed", "second-wait"}
IntentPhase == {"none", "authorized", "completed"}

MaybeHead == Head \cup {NoHead}
MaybeRun == Run \cup {NoRun}

NoWork == [phase |-> "none", run |-> NoRun, selected |-> NoHead,
           reviewed |-> NoHead, validated |-> NoHead]
NoJournal == [phase |-> "none", origin |-> NoRun, recovery |-> NoRun,
              expected |-> NoHead, new |-> NoHead]
NoCi == [phase |-> "none", origin |-> NoRun, recovery |-> NoRun, semantic |-> NoHead,
         current |-> NoHead, repair |-> NoHead, beats |-> 0]
NoIntent == [phase |-> "none", origin |-> NoRun, recovery |-> NoRun,
             continuation |-> NoCi]

WorkState == [phase : WorkPhase, run : MaybeRun, selected : MaybeHead,
              reviewed : MaybeHead, validated : MaybeHead]
PushJournal == [phase : PushPhase, origin : MaybeRun, recovery : MaybeRun,
                expected : MaybeHead, new : MaybeHead]
CiContinuation == [phase : CiPhase, origin : MaybeRun, recovery : MaybeRun,
                   semantic : MaybeHead, current : MaybeHead, repair : MaybeHead,
                   beats : 0..MaxBeats]
Intent == [phase : IntentPhase, origin : MaybeRun, recovery : MaybeRun,
           continuation : CiContinuation]

\* The types of the variables: every private record the store keeps has one of
\* the shapes its pydantic model declares.
StoreTypeOK == /\ owner \in MaybeRun
               /\ used \subseteq Run
               /\ mutex \in MaybeRun
               /\ work \in [WorkId -> WorkState]
               /\ journal \in [WorkId -> PushJournal]
               /\ ci \in [WorkId -> CiContinuation]
               /\ archive \in [WorkId -> SUBSET Head]
               /\ intent \in [WorkId -> Intent]
               /\ begun \in [WorkId -> SUBSET Head]
               /\ ended \in [WorkId -> SUBSET MaybeHead]

StoreInit == /\ owner = NoRun
             /\ used = {}
             /\ mutex = NoRun
             /\ work = [w \in WorkId |-> NoWork]
             /\ journal = [w \in WorkId |-> NoJournal]
             /\ ci = [w \in WorkId |-> NoCi]
             /\ archive = [w \in WorkId |-> {}]
             /\ intent = [w \in WorkId |-> NoIntent]
             /\ begun = [w \in WorkId |-> {}]
             /\ ended = [w \in WorkId |-> {}]

-----------------------------------------------------------------------------
(* Reading the records.                                                    *)

Unresolved == {w \in WorkId : journal[w].phase \notin {"none", "published"}}
UnresolvedTerminal == {w \in WorkId : intent[w].phase = "authorized"}
ActiveContinuations == {w \in WorkId : ci[w].phase \in ActiveCi}

\* the caller holds the lease of this worker and nobody is inside the mutex
Owns(r, w) == /\ owner = r
              /\ mutex = NoRun
              /\ WorkerOf[r] = WorkerOf[w]

OwnsCuration(r, w) == Owns(r, w) /\ WorkerOf[w] = "curation"

NextWork(phase) ==
    CASE phase = "selected" -> "prepared"
      [] phase = "prepared" -> "reviewed"
      [] phase = "reviewed" -> "validated"
      [] phase = "validated" -> "pushed"
      [] phase = "pushed" -> "published"
      [] OTHER -> "none"

NextPush(w, phase) ==
    CASE phase = "authorized" -> "pushed"
      [] phase = "pushed" -> IF WorkerOf[w] = "discovery" THEN "pr-created"
                                                          ELSE "published"
      [] phase = "pr-created" -> "published"
      [] OTHER -> "none"

NextCi(phase) ==
    CASE phase = "initial-wait" -> {"repair-active"} \cup TerminalCi
      [] phase = "repair-active" -> {"repair-reviewed", "blocked", "invalidated"}
      [] phase = "repair-reviewed" -> {"second-wait", "blocked", "invalidated"}
      [] phase = "second-wait" -> TerminalCi
      [] OTHER -> {}

\* WorkState.validate_work_state
WellFormedWork(s) ==
    /\ s.reviewed # NoHead
         <=> s.phase \in {"reviewed", "validated", "pushed", "published"}
    /\ s.validated # NoHead <=> s.phase \in {"validated", "pushed", "published"}

\* CiContinuation.validate_ci_continuation
WellFormedCi(c) ==
    CASE c.phase \in {"initial-wait", "repair-active"} ->
             c.repair = NoHead /\ c.current = c.semantic
      [] c.phase = "repair-reviewed" -> c.repair # NoHead /\ c.current = c.semantic
      [] c.phase = "second-wait" -> c.repair # NoHead /\ c.current = c.repair
      [] OTHER -> c.repair = NoHead => c.current = c.semantic

\* _require_push_journal
JournalMatches(s, w) ==
    /\ journal[w].recovery = s.run
    /\ journal[w].new = s.validated
    /\ journal[w].phase \in IF s.phase = "published"
                              THEN {"published"}
                              ELSE {"pushed", "pr-created", "published"}

\* _require_terminal_publication_continuation
TerminalContinuation(w) ==
    LET was == intent[w].continuation
    IN  \/ ci[w] = was
        \/ /\ ci[w].phase = "blocked"
           /\ ci[w].recovery \in {intent[w].recovery, was.recovery}
           /\ ci[w] = [was EXCEPT !.phase = "blocked", !.recovery = ci[w].recovery]

-----------------------------------------------------------------------------
(* The lease.                                                              *)

\* Mutant: `lock acquire' without the precondition on the worker.
AcquireForAnyWorker(r) ==
    /\ mutex = NoRun
    /\ owner = NoRun
    /\ r \notin used
    /\ owner' = r
    /\ used' = used \cup {r}
    /\ UNCHANGED <<mutex, work, journal, ciVars, intentVars>>

\* require_recoverable_worker runs inside RunLease.acquire's mutex
AcquireLease(r) ==
    /\ mutex = NoRun
    /\ \A w, v \in UnresolvedTerminal : w = v
    /\ UnresolvedTerminal # {} => WorkerOf[r] = "curation"
    /\ \A w, v \in Unresolved : w = v
    /\ \A w \in Unresolved : WorkerOf[w] = WorkerOf[r]
    /\ owner = NoRun
    /\ r \notin used
    /\ owner' = r
    /\ used' = used \cup {r}
    /\ UNCHANGED <<mutex, work, journal, ciVars, intentVars>>

\* released, or taken over once it went stale
LoseLease ==
    /\ mutex = NoRun
    /\ owner # NoRun
    /\ owner' = NoRun
    /\ UNCHANGED <<used, mutex, work, journal, ciVars, intentVars>>

-----------------------------------------------------------------------------
(* Work records.                                                           *)

BeginWork(r, w, h) ==
    /\ Owns(r, w)
    /\ Unresolved = {}
    /\ UnresolvedTerminal = {}
    /\ ActiveContinuations = {}
    /\ work[w].run # r
    /\ work[w].phase = "pushed" => /\ journal[w].phase = "published"
                                   /\ journal[w].new = work[w].validated
    /\ work' = [work EXCEPT ![w] = [NoWork EXCEPT !.phase = "selected", !.run = r,
                                                  !.selected = h]]
    /\ UNCHANGED <<leaseVars, mutex, journal, ciVars, intentVars>>

SaveWork(r, w, reviewed, validated) ==
    LET s == [work[w] EXCEPT !.phase = NextWork(@), !.reviewed = reviewed,
                             !.validated = validated]
    IN  /\ Owns(r, w)
        /\ work[w].run = r
        /\ work[w].phase \notin {"none", "published"}
        /\ WellFormedWork(s)
        /\ work[w].reviewed \in {NoHead, reviewed}
        /\ work[w].validated \in {NoHead, validated}
        /\ s.phase \in {"pushed", "published"} => JournalMatches(s, w)
        /\ work' = [work EXCEPT ![w] = s]
        /\ UNCHANGED <<leaseVars, mutex, journal, ciVars, intentVars>>

-----------------------------------------------------------------------------
(* Push journals.  PushJournal.validate_push_journal: curation replaces an *)
(* exact remote head, discovery creates its branch.                        *)

AuthorizePush(r, w, expected, new) ==
    /\ Owns(r, w)
    /\ expected = NoHead <=> WorkerOf[w] = "discovery"
    /\ new # NoHead
    /\ journal[w].phase \in {"none", "published"}
    /\ journal' = [journal EXCEPT ![w] = [phase |-> "authorized", origin |-> r,
                                          recovery |-> r, expected |-> expected,
                                          new |-> new]]
    /\ UNCHANGED <<leaseVars, mutex, work, ciVars, intentVars>>

AdvancePush(r, w) ==
    /\ Owns(r, w)
    /\ journal[w].recovery = r
    /\ journal[w].phase \in {"authorized", "pushed", "pr-created"}
    /\ journal' = [journal EXCEPT ![w].phase = NextPush(w, @)]
    /\ UNCHANGED <<leaseVars, mutex, work, ciVars, intentVars>>

AdoptPush(r, w, observed) ==
    /\ Owns(r, w)
    /\ Unresolved = {w}
    /\ journal[w].recovery # r
    /\ observed \in {journal[w].expected, journal[w].new}
    /\ journal' = [journal EXCEPT ![w].recovery = r]
    /\ UNCHANGED <<leaseVars, mutex, work, ciVars, intentVars>>

\* guard_push_mutation holds the mutex around one external command
EnterPushGuard(r, w) ==
    /\ Owns(r, w)
    /\ journal[w].phase # "none"
    /\ journal[w].recovery = r
    /\ mutex' = r
    /\ UNCHANGED <<leaseVars, work, journal, ciVars, intentVars>>

\* the command returned, or its process died
LeaveGuard(r) ==
    /\ mutex = r
    /\ r # NoRun
    /\ mutex' = NoRun
    /\ UNCHANGED <<leaseVars, work, journal, ciVars, intentVars>>

-----------------------------------------------------------------------------
(* CI continuations.                                                       *)

InitialCi(r, h) == [phase |-> "initial-wait", origin |-> r, recovery |-> r,
                    semantic |-> h, current |-> h, repair |-> NoHead, beats |-> 0]

\* Mutant: a start that does not look into the archive.
StartCiAgain(r, w, h) ==
    /\ OwnsCuration(r, w)
    /\ UnresolvedTerminal = {}
    /\ h # NoHead
    /\ \/ ci[w].phase = "none"
       \/ /\ ci[w].phase \in TerminalCi
          /\ ci[w].origin # r
          /\ h \notin {ci[w].semantic, ci[w].current}
    /\ archive' = [archive EXCEPT ![w] = @ \cup ({ci[w].semantic} \ {NoHead})]
    /\ ci' = [ci EXCEPT ![w] = InitialCi(r, h)]
    /\ begun' = [begun EXCEPT ![w] = @ \cup {h}]
    /\ UNCHANGED <<leaseVars, mutex, work, journal, intentVars>>

StartCi(r, w, h) ==
    /\ OwnsCuration(r, w)
    /\ UnresolvedTerminal = {}
    /\ h # NoHead
    /\ \/ ci[w].phase = "none"
       \/ /\ ci[w].phase \in TerminalCi
          /\ ci[w].origin # r
          /\ h \notin {ci[w].semantic, ci[w].current}
          /\ h \notin archive[w]
    /\ archive' = [archive EXCEPT ![w] = @ \cup ({ci[w].semantic} \ {NoHead})]
    /\ \/ /\ ci' = [ci EXCEPT ![w] = InitialCi(r, h)]
          /\ begun' = [begun EXCEPT ![w] = @ \cup {h}]
       \/ UNCHANGED <<ci, begun>>  \* died between the two writes
    /\ UNCHANGED <<leaseVars, mutex, work, journal, intentVars>>

AdvanceCi(r, w, phase, current, repair) ==
    LET c == [ci[w] EXCEPT !.phase = phase, !.current = current, !.repair = repair]
    IN  /\ OwnsCuration(r, w)
        /\ ci[w].recovery = r
        /\ phase \in NextCi(ci[w].phase)
        /\ WellFormedCi(c)
        /\ ci[w].phase \in {"repair-reviewed", "second-wait"} => repair = ci[w].repair
        /\ ci[w].phase = "second-wait" => current = ci[w].current
        /\ ci' = [ci EXCEPT ![w] = c]
        /\ UNCHANGED <<leaseVars, mutex, work, journal, archive, begun, intentVars>>

\* record_ci_wait_observation, and record_ci_heartbeat of an active repair
RecordCiTime(r, w) ==
    /\ OwnsCuration(r, w)
    /\ ci[w].recovery = r
    /\ ci[w].phase \in {"initial-wait", "second-wait", "repair-active"}
    /\ ci[w].beats < MaxBeats
    /\ ci' = [ci EXCEPT ![w].beats = @ + 1]
    /\ UNCHANGED <<leaseVars, mutex, work, journal, archive, begun, intentVars>>

AdoptCi(r, w) ==
    /\ OwnsCuration(r, w)
    /\ Unresolved = {}
    /\ UnresolvedTerminal = {}
    /\ ci[w].phase \in ActiveCi
    /\ ci[w].recovery # r
    /\ ci' = [ci EXCEPT ![w].recovery = r]
    /\ UNCHANGED <<leaseVars, mutex, work, journal, archive, begun, intentVars>>

\* adopt_ci_continuation_for_push_recovery
AdoptCiForPush(r, w) ==
    /\ OwnsCuration(r, w)
    /\ journal[w].recovery = r
    /\ journal[w].phase \in {"authorized", "pushed"}
    /\ ci[w].repair = journal[w].new
    /\ \/ /\ ci[w].phase = "repair-reviewed"
          /\ ci[w].current = journal[w].expected
       \/ /\ ci[w].phase = "second-wait"
          /\ journal[w].phase = "pushed"
          /\ ci[w].semantic = journal[w].expected
          /\ ci[w].current = journal[w].new
    /\ ci' = [ci EXCEPT ![w].recovery = r]
    /\ UNCHANGED <<leaseVars, mutex, work, journal, archive, begun, intentVars>>

-----------------------------------------------------------------------------
(* Terminal publications: the intent is saved before GitHub is touched.    *)

AuthorizeTerminal(r, w) ==
    /\ OwnsCuration(r, w)
    /\ Unresolved = {}
    /\ UnresolvedTerminal = {}
    /\ ci[w].phase \in {"repair-active", "repair-reviewed"}
    /\ intent[w].phase = "completed" =>
           intent[w].continuation.semantic # ci[w].semantic
    /\ intent' = [intent EXCEPT ![w] = [phase |-> "authorized", origin |-> r,
                                        recovery |-> r, continuation |-> ci[w]]]
    /\ ended' = [ended EXCEPT ![w] = @ \cup {ci[w].semantic}]
    /\ UNCHANGED <<leaseVars, mutex, work, journal, ciVars>>

AdoptTerminal(r, w) ==
    /\ OwnsCuration(r, w)
    /\ Unresolved = {}
    /\ UnresolvedTerminal = {w}
    /\ TerminalContinuation(w)
    /\ intent' = [intent EXCEPT ![w].recovery = r]
    /\ UNCHANGED <<leaseVars, mutex, work, journal, ciVars, ended>>

EnterTerminalGuard(r, w) ==
    /\ OwnsCuration(r, w)
    /\ w \in UnresolvedTerminal
    /\ intent[w].recovery = r
    /\ TerminalContinuation(w)
    /\ mutex' = r
    /\ UNCHANGED <<leaseVars, work, journal, ciVars, intentVars>>

\* two or three files are written, in this order; the process may die between
CompleteTerminal(r, w) ==
    LET blocked == IF ci[w] = intent[w].continuation
                     THEN [ci[w] EXCEPT !.phase = "blocked", !.recovery = r]
                     ELSE ci[w]
    IN  /\ OwnsCuration(r, w)
        /\ w \in UnresolvedTerminal
        /\ intent[w].recovery = r
        /\ TerminalContinuation(w)
        /\ \/ /\ ci' = [ci EXCEPT ![w] = blocked]
              /\ intent' = intent
           \/ /\ ci' = [ci EXCEPT ![w] = blocked]
              /\ intent' = [intent EXCEPT ![w].phase = "completed"]
           \/ /\ ci' = [ci EXCEPT ![w] = [blocked EXCEPT !.recovery = r]]
              /\ intent' = [intent EXCEPT ![w].phase = "completed"]
        /\ UNCHANGED <<leaseVars, mutex, work, journal, archive, begun, ended>>

-----------------------------------------------------------------------------
WorkOp(r, w) == \/ \E h \in Head : BeginWork(r, w, h)
                \/ \E h, k \in MaybeHead : SaveWork(r, w, h, k)

PushOp(r, w) == \/ \E h, k \in MaybeHead : AuthorizePush(r, w, h, k)
                \/ AdvancePush(r, w)
                \/ \E h \in MaybeHead : AdoptPush(r, w, h)
                \/ EnterPushGuard(r, w)

CiOp(r, w) == \/ \E h \in Head : StartCi(r, w, h)
              \/ \E phase \in CiPhase, h, k \in MaybeHead : AdvanceCi(r, w, phase, h, k)
              \/ RecordCiTime(r, w)
              \/ AdoptCi(r, w)
              \/ AdoptCiForPush(r, w)

TerminalOp(r, w) == \/ AuthorizeTerminal(r, w)
                    \/ AdoptTerminal(r, w)
                    \/ EnterTerminalGuard(r, w)
                    \/ CompleteTerminal(r, w)

StoreNext == \/ \E r \in Run : AcquireLease(r) \/ LeaveGuard(r)
             \/ LoseLease
             \/ \E r \in Run, w \in WorkId :
                   WorkOp(r, w) \/ PushOp(r, w) \/ CiOp(r, w) \/ TerminalOp(r, w)

StoreSpec == StoreInit /\ [][StoreNext]_storeVars

\* Without the work records, which no operation on continuations or terminal
\* publications reads or writes: a smaller state space for their properties.
CiNext == \/ \E r \in Run : AcquireLease(r) \/ LeaveGuard(r)
          \/ LoseLease
          \/ \E r \in Run, w \in WorkId : PushOp(r, w) \/ CiOp(r, w) \/ TerminalOp(r, w)

CiSpec == StoreInit /\ [][CiNext]_storeVars

-----------------------------------------------------------------------------
(* What the store promises whoever calls it.                               *)

\* The two workers never have unresolved pushes at the same time, and a run
\* holds the lease only while every unresolved push belongs to its worker: the
\* precondition of `lock acquire' is evaluated where no push can slip in.
OneWorkerRecovers ==
    /\ \A w, v \in Unresolved : WorkerOf[w] = WorkerOf[v]
    /\ owner # NoRun => \A w \in Unresolved : WorkerOf[w] = WorkerOf[owner]

\* A commit gets the CI budgets of one continuation only: no later run, and no
\* crash between archiving and starting, restarts the waits for a semantic
\* head that has had its continuation.
SemanticHeadOnce ==
    [][\A w \in WorkId : ci'[w].origin # ci[w].origin
                            => ci'[w].semantic \notin begun[w]]_storeVars

\* A semantic head is published as blocked by one terminal publication at
\* most, even though the intent record of an earlier head is overwritten.
TerminalOnce ==
    [][\A w \in WorkId : intent[w].phase # "authorized" /\ intent'[w].phase = "authorized"
                            => intent'[w].continuation.semantic \notin ended[w]]_storeVars
=============================================================================
