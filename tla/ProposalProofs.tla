---------------------------- MODULE ProposalProofs ----------------------------
(***************************************************************************)
(* Proofs about the publication of proposals (ProposalPublication), for    *)
(* any number of discovery runs, candidates, commits, deaths and requests  *)
(* that arrive late, and for every cap.                                    *)
(*                                                                         *)
(* ProposalSafe is not inductive.  That a candidate gets one pull request  *)
(* rests on what may be under way when its first one exists, and that the  *)
(* cap holds on what was counted before a label that has not arrived yet:  *)
(* each request under way carries its invariant with it, also after its    *)
(* command died (CandidateAt), and the owner's command at each step knows  *)
(* the journal and the pull request it goes on from (StepHolds).           *)
(***************************************************************************)
EXTENDS FiniteSetTheorems, ProposalPublication, JournalStoreProofs

-----------------------------------------------------------------------------
(* The inductive invariant.                                                *)

Pull == [head : Head, open : BOOLEAN, comment : BOOLEAN, label : BOOLEAN,
         accepted : BOOLEAN]
Task == [step : ProposalStep, goal : {"none", "validate", "publish", "recover"},
         id : WorkId \cup {NoHead}, head : MaybeHead, labelled : BOOLEAN,
         sent : {"no", "sent", "done", "refused"}]

\* The types, and that no candidate has a second pull request.
PullsTypeOK == /\ pulls \in [WorkId -> {<<>>} \cup [{1} -> Pull]]
               /\ number \in [WorkId -> {0, 1}]

HasPull(c) == 1 \in DOMAIN pulls[c]

\* A request that was sent and has not been carried out yet; its command may be
\* dead.
UnderWay(request, c) ==
    \/ \E q \in orphans : q.request = request /\ q.id = c
    \/ \E r \in Run : /\ command[r].step = request /\ command[r].sent = "sent"
                      /\ command[r].id = c

\* Of a label under way: the pull request never had one, and there is room for it.
LabelIsDue(c) == /\ journal[c].phase = "pr-created"
                 /\ pulls[c][1].comment /\ ~ pulls[c][1].label /\ ~ pulls[c][1].accepted
                 /\ Cardinality(Counted(c, TRUE)) < Cap

\* What a candidate's journal says is so, on GitHub and in its work record.
CandidateAt(c) ==
    /\ HasPull(c) => /\ pulls[c][1].head = remote[c]
                     /\ pulls[c][1].label \/ pulls[c][1].accepted => pulls[c][1].comment
    /\ journal[c].phase # "none" => WorkerOf[c] = "discovery" /\ journal[c].new \in Head
    /\ remote[c] # NoHead => journal[c].phase # "none" /\ remote[c] = journal[c].new
    /\ journal[c].phase \in {"pushed", "pr-created", "published"} => remote[c] # NoHead
    /\ number[c] = 1 <=> journal[c].phase \in {"pr-created", "published"}
    /\ number[c] = 1 => HasPull(c)
    /\ journal[c].phase = "published" =>
          pulls[c][1].comment /\ (pulls[c][1].label \/ pulls[c][1].accepted)
    /\ work[c].phase \in {"pushed", "published"} => journal[c].phase = "published"
    /\ UnderWay("create", c) /\ HasPull(c) => pulls[c][1].open
    /\ UnderWay("label", c) => LabelIsDue(c)

\* What the command of the lease's owner knows at its step.
StepHolds(t) ==
    LET c == t.id  p == pulls[c][1]  j == journal[c]
    IN  /\ t.step = "record" => work[c].phase \in {"selected", "prepared", "reviewed"}
        /\ t.step \in {"push", "pushed"} => j.phase = "authorized" /\ j.new = t.head
        /\ t.step \in {"create", "created"} => j.phase = "pushed" /\ j.new = t.head
        /\ t.step \in {"present", "comment", "label", "settle"} => j.phase = "pr-created"
        /\ t.step \in {"finish", "finished"} => j.phase = "published"
        /\ t.step = "pushed" \/ (t.step = "push" /\ t.sent = "done") => remote[c] = t.head
        /\ t.step = "created" \/ (t.step = "create" /\ t.sent = "done") => HasPull(c)
        /\ t.step \in {"label", "settle"} \/ (t.step = "comment" /\ t.sent = "done")
              => p.comment
        /\ t.step = "settle" \/ (t.step = "label" /\ t.sent = "done")
              => p.label \/ p.accepted
        /\ t.step = "comment" \/ (t.step = "label" /\ t.sent = "no")
              => (~ t.labelled => ~ p.label /\ ~ p.accepted /\ ~ UnderWay("label", c))

\* A command that waits for a request holds the mutex.
CommandAt(r) ==
    /\ command[r].step # "idle" => command[r].id \in WorkId /\ command[r].head \in Head
    /\ command[r].sent # "no" <=> mutex = r
    /\ command[r].sent # "no" => command[r].step \in Request
    /\ owner = r => \A t \in Task : t = command[r] => StepHolds(t)

OneUnresolved == \A c, d \in Unresolved : c = d

\* A request of a dead command belongs to the journal that was open then.
OrphansKnown ==
    \A q \in orphans : /\ journal[q.id].phase # "none"
                       /\ q.request = "push" => q.head = journal[q.id].new
                       /\ q.request \in {"comment", "label"} => number[q.id] = 1

\* A label is under way once: what an orphan holds, no command sends again.
OneLabel ==
    \A q \in orphans : q.request = "label" =>
       /\ \A p \in orphans : p.request = "label" /\ p.id = q.id => p = q
       /\ \A r \in Run : ~ (/\ command[r].step = "label" /\ command[r].sent = "sent"
                            /\ command[r].id = q.id)

Capped == IsFiniteSet(OpenProposals) /\ Cardinality(OpenProposals) <= Cap

ProposalInv ==
    /\ ProposalTypeOK /\ PullsTypeOK
    /\ mutex \in {NoRun, owner}
    /\ \A c \in WorkId : CandidateAt(c)
    /\ \A r \in Run : CommandAt(r)
    /\ OneUnresolved /\ OrphansKnown /\ OneLabel /\ Capped

-----------------------------------------------------------------------------
(* Pull requests and what is under way.                                    *)

\* A candidate has one pull request, or none.
LEMMA PullsAre ==
  ASSUME PullsTypeOK, NEW c \in WorkId
  PROVE  /\ HasPull(c) => /\ pulls[c] \in [{1} -> Pull] /\ pulls[c][1] \in Pull
                          /\ DOMAIN pulls[c] = {1} /\ Pulls(c) = 1
         /\ ~ HasPull(c) => pulls[c] = <<>> /\ DOMAIN pulls[c] = {} /\ Pulls(c) = 0
<1>1. pulls[c] \in {<<>>} \cup [{1} -> Pull]
  BY DEF PullsTypeOK
<1>2. CASE pulls[c] = <<>>
  <2>1. DOMAIN pulls[c] = {}
    BY <1>2
  <2> QED BY <1>2, <2>1, FS_EmptySet DEF HasPull, Pulls
<1>3. CASE pulls[c] \in [{1} -> Pull]
  <2>1. DOMAIN pulls[c] = {1} /\ pulls[c][1] \in Pull
    BY <1>3
  <2> QED BY <1>3, <2>1, FS_Singleton DEF HasPull, Pulls
<1> QED BY <1>1, <1>2, <1>3

\* The open proposals are the candidates whose pull request is open and labelled.
LEMMA OpenIs ==
  ASSUME PullsTypeOK, NEW p
  PROVE  p \in OpenProposals <=>
            \E c \in WorkId : /\ p = <<c, 1>> /\ HasPull(c)
                              /\ pulls[c][1].open /\ pulls[c][1].label
<1>1. ASSUME p \in OpenProposals
      PROVE  \E c \in WorkId : /\ p = <<c, 1>> /\ HasPull(c)
                               /\ pulls[c][1].open /\ pulls[c][1].label
  <2>1. /\ p[1] \in WorkId /\ p = <<p[1], p[2]>> /\ p[2] \in DOMAIN pulls[p[1]]
        /\ pulls[p[1]][p[2]].open /\ pulls[p[1]][p[2]].label
    BY <1>1 DEF OpenProposals
  <2>2. p[2] = 1
    BY <2>1, PullsAre
  <2> QED BY <2>1, <2>2 DEF HasPull
<1>2. ASSUME NEW c \in WorkId, p = <<c, 1>>, HasPull(c), pulls[c][1].open,
             pulls[c][1].label
      PROVE  p \in OpenProposals
  BY <1>2 DEF OpenProposals, HasPull
<1> QED BY <1>1, <1>2

\* What the run checks follows from the invariant.
LEMMA InvIsSafe == ProposalInv => ProposalSafe
<1> SUFFICES ASSUME ProposalInv PROVE ProposalSafe
  OBVIOUS
<1>1. ProposalOnce
  <2> SUFFICES ASSUME NEW c \in WorkId
               PROVE  Pulls(c) <= 1 /\ (Pulls(c) = 1 => pulls[c][1].head = remote[c])
    BY DEF ProposalOnce
  <2> QED BY PullsAre DEF ProposalInv, CandidateAt
<1>2. ProposalsCapped
  <2>1. \A p \in OpenProposals : Known(p)
    BY OpenIs DEF ProposalInv, CandidateAt, Known
  <2> QED BY <2>1 DEF ProposalsCapped, ProposalInv, Capped
<1>3. ProposalIsPublic
  <2> SUFFICES ASSUME NEW c \in WorkId
               PROVE  /\ journal[c].phase \in {"pr-created", "published"} =>
                            number[c] # 0 /\ pulls[c][number[c]].head = journal[c].new
                      /\ journal[c].phase = "published" =>
                            LET shown == pulls[c][number[c]]
                            IN  shown.comment /\ (shown.label \/ shown.accepted)
                      /\ work[c].phase \in {"pushed", "published"}
                            => journal[c].phase = "published"
    BY DEF ProposalIsPublic
  <2> QED BY DEF ProposalInv, CandidateAt
<1> QED BY <1>1, <1>2, <1>3 DEF ProposalSafe, ProposalInv

\* Nothing is under way, no pull request exists.
LEMMA ProposalInitInv == ProposalInit => ProposalInv
<1> SUFFICES ASSUME ProposalInit PROVE ProposalInv
  OBVIOUS
<1> USE DEF ProposalInit
<1>1. StoreTypeOK /\ mutex = NoRun /\ owner = NoRun
  BY StoreInitInv DEF StoreInv, StoreInit
<1>2. NoTask \in Task /\ NoTask.step = "idle" /\ NoTask.sent = "no"
  BY DEF NoTask, NewTask, Task, ProposalStep, MaybeHead
<1>3. \A c \in WorkId : DOMAIN pulls[c] = {}
  OBVIOUS
<1>4. ProposalTypeOK /\ PullsTypeOK
  <2>1. PullsTypeOK
    BY DEF PullsTypeOK
  <2>2. \A c \in WorkId : number[c] = 0 /\ 0 \in 0..Pulls(c)
    BY <1>3, FS_EmptySet DEF Pulls
  <2>3. deaths \in 0..MaxDeaths
    BY ProposalAssumption
  <2> QED BY <1>1, <1>2, <1>3, <2>1, <2>2, <2>3 DEF ProposalTypeOK, Task, MaybeHead
<1>5. \A request : \A c \in WorkId : ~ UnderWay(request, c)
  BY <1>2 DEF UnderWay
<1>6. \A c \in WorkId : journal[c].phase = "none" /\ work[c].phase = "none"
  BY DEF StoreInit, NoJournal, NoWork
<1>7. \A c \in WorkId : CandidateAt(c)
  BY <1>3, <1>5, <1>6 DEF CandidateAt, HasPull
<1>8. \A r \in Run : CommandAt(r)
  BY <1>1, <1>2, StoreAssumption DEF CommandAt
<1>9. OneUnresolved
  BY <1>6 DEF OneUnresolved, Unresolved
<1>10. OpenProposals = {}
  BY <1>3 DEF OpenProposals
<1>11. Capped
  BY <1>10, FS_EmptySet, ProposalAssumption DEF Capped
<1> QED BY <1>1, <1>4, <1>7, <1>8, <1>9, <1>11 DEF ProposalInv, OrphansKnown, OneLabel

-----------------------------------------------------------------------------
(* What steps leave alone.                                                 *)

\* Facts about a candidate stay as they are when its records do, and no request
\* for it comes under way.
LEMMA CandidateStays ==
  ASSUME NEW c \in WorkId, CandidateAt(c), UNCHANGED pulls,
         remote'[c] = remote[c], number'[c] = number[c], work'[c].phase = work[c].phase,
         journal'[c].phase = journal[c].phase, journal'[c].new = journal[c].new,
         UnderWay("create", c)' => UnderWay("create", c),
         UnderWay("label", c)' => UnderWay("label", c)
  PROVE  CandidateAt(c)'
BY DEF CandidateAt, HasPull, LabelIsDue, Counted, OpenProposals

\* A request for one candidate comes under way, which the candidate can bear.
LEMMA CandidateBears ==
  ASSUME NEW c \in WorkId, CandidateAt(c), UNCHANGED pulls,
         remote'[c] = remote[c], number'[c] = number[c], work'[c].phase = work[c].phase,
         journal'[c].phase = journal[c].phase, journal'[c].new = journal[c].new,
         UnderWay("create", c)' => UnderWay("create", c) \/ ~ HasPull(c),
         UnderWay("label", c)' => UnderWay("label", c) \/ LabelIsDue(c)
  PROVE  CandidateAt(c)'
BY DEF CandidateAt, HasPull, LabelIsDue, Counted, OpenProposals

\* What a command knows stays true while its records do, and no label comes under
\* way that it does not know of.
LEMMA StepStays ==
  ASSUME NEW t, StepHolds(t), UNCHANGED pulls,
         t.step # "idle" =>
            /\ remote'[t.id] = remote[t.id] /\ work'[t.id].phase = work[t.id].phase
            /\ journal'[t.id].phase = journal[t.id].phase
            /\ journal'[t.id].new = journal[t.id].new,
         t.step = "comment" \/ (t.step = "label" /\ t.sent = "no") =>
            (UnderWay("label", t.id)' => UnderWay("label", t.id))
  PROVE  StepHolds(t)'
<1>1. CASE t.step = "idle"
  BY <1>1 DEF StepHolds
<1>2. CASE t.step # "idle"
  BY <1>2 DEF StepHolds, HasPull
<1> QED BY <1>1, <1>2

\* The command of a run, once it is known.
LEMMA CommandIs ==
  ASSUME NEW q \in Run, NEW u \in Task, command'[q] = u,
         u.step # "idle" => u.id \in WorkId /\ u.head \in Head,
         u.sent # "no" <=> mutex' = q,
         u.sent # "no" => u.step \in Request,
         owner' = q => StepHolds(u)'
  PROVE  CommandAt(q)'
<1>1. ASSUME NEW t \in Task, t = command'[q], owner' = q PROVE StepHolds(t)'
  <2>1. t = u /\ StepHolds(u)'
    BY <1>1
  <2> QED BY <2>1 DEF StepHolds, HasPull
<1> QED BY <1>1 DEF CommandAt

\* The open proposals stay while the pull requests do.
LEMMA CapStays == ASSUME Capped, UNCHANGED pulls PROVE Capped'
BY DEF Capped, OpenProposals

\* At most one journal is open, and what dead commands sent belongs to it.
LEMMA JournalsStay ==
  ASSUME OneUnresolved, OrphansKnown, orphans' \subseteq orphans, ProposalTypeOK,
         \A c \in WorkId : journal'[c].phase = journal[c].phase
                              /\ journal'[c].new = journal[c].new,
         UNCHANGED number
  PROVE  OneUnresolved' /\ OrphansKnown'
<1>1. OneUnresolved'
  BY DEF OneUnresolved, Unresolved
<1>2. OrphansKnown'
  BY DEF OrphansKnown, ProposalTypeOK
<1> QED BY <1>1, <1>2

\* A step of one command that changes no record: what it sends its candidate
\* can bear, and what it knows at its next step is so.
LEMMA CommandStep ==
  ASSUME ProposalInv, StoreTypeOK', NEW r \in Run, NEW t \in Task,
         command' = [command EXCEPT ![r] = t],
         UNCHANGED <<githubVars, number, tree, faultVars, owner, work>>,
         \A c \in WorkId : journal'[c].phase = journal[c].phase
                              /\ journal'[c].new = journal[c].new,
         \A q \in Run \ {r} : mutex' = q <=> mutex = q,
         mutex' \in {NoRun, owner},
         t.step # "idle" => t.id \in WorkId /\ t.head \in Head,
         t.sent # "no" <=> mutex' = r,
         t.sent # "no" => t.step \in Request,
         owner = r => StepHolds(t),
         owner = r \/ t.step = "idle",
         t.sent = "sent" /\ t.step = "create" => ~ HasPull(t.id),
         t.sent = "sent" /\ t.step = "label" =>
            LabelIsDue(t.id) /\ ~ UnderWay("label", t.id)
  PROVE  ProposalInv'
<1> USE DEF ProposalInv
<1>0. command \in [Run -> Task] /\ command'[r] = t
      /\ \A q \in Run \ {r} : command'[q] = command[q]
  BY DEF ProposalTypeOK, Task
<1>1. ProposalTypeOK' /\ PullsTypeOK'
  <2>1. command' \in [Run -> Task]
    BY <1>0
  <2> QED BY <2>1 DEF ProposalTypeOK, PullsTypeOK, Task, githubVars, faultVars, Pulls
<1>2. ASSUME NEW c \in WorkId, NEW request
      PROVE  UnderWay(request, c)' => \/ UnderWay(request, c)
                                      \/ t.step = request /\ t.sent = "sent" /\ t.id = c
  BY <1>0 DEF UnderWay, faultVars
<1>3. ASSUME NEW c \in WorkId PROVE CandidateAt(c)'
  <2>1. UnderWay("create", c)' => UnderWay("create", c) \/ ~ HasPull(c)
    BY <1>2
  <2>2. UnderWay("label", c)' => UnderWay("label", c) \/ LabelIsDue(c)
    BY <1>2
  <2> QED BY <2>1, <2>2, CandidateBears DEF githubVars
<1>4. ASSUME NEW q \in Run PROVE CommandAt(q)'
  <2>1. CASE q = r
    <3>1. ASSUME owner' = r PROVE StepHolds(t)'
      <4>1. t.step = "comment" \/ (t.step = "label" /\ t.sent = "no") =>
               (UnderWay("label", t.id)' => UnderWay("label", t.id))
        BY <1>2
      <4> QED BY <3>1, <4>1, StepStays DEF githubVars
    <3> QED BY <1>0, <2>1, <3>1, CommandIs
  <2>2. CASE q # r
    <3> PICK u \in Task : u = command[q]
      BY <1>0
    <3>1. /\ command'[q] = u
          /\ u.step # "idle" => u.id \in WorkId /\ u.head \in Head
          /\ u.sent # "no" <=> mutex' = q
          /\ u.sent # "no" => u.step \in Request
          /\ owner = q => StepHolds(u)
      BY <1>0, <2>2 DEF CommandAt
    <3>2. ASSUME owner' = q PROVE StepHolds(u)'
      <4>1. StepHolds(u) /\ t.step = "idle"
        BY <2>2, <3>1, <3>2
      <4>2. u.step # "idle" => (UnderWay("label", u.id)' => UnderWay("label", u.id))
        BY <1>2, <3>1, <4>1 DEF Request
      <4> QED BY <3>1, <4>1, <4>2, StepStays DEF githubVars
    <3> QED BY <3>1, <3>2, CommandIs
  <2> QED BY <2>1, <2>2
<1>5. OneUnresolved' /\ OrphansKnown'
  BY JournalsStay DEF faultVars
<1>6. Capped'
  BY CapStays DEF githubVars
<1>7. OneLabel'
  <2> SUFFICES ASSUME NEW q \in orphans, q.request = "label"
               PROVE  /\ \A p \in orphans : p.request = "label" /\ p.id = q.id => p = q
                      /\ \A s \in Run : ~ (/\ command'[s].step = "label"
                                            /\ command'[s].sent = "sent"
                                            /\ command'[s].id = q.id)
    BY DEF OneLabel, faultVars
  <2>1. UnderWay("label", q.id)
    BY DEF UnderWay
  <2> QED BY <1>0, <2>1 DEF OneLabel
<1> QED BY <1>1, <1>3, <1>4, <1>5, <1>6, <1>7

-----------------------------------------------------------------------------
(* The publication uses the store only through its operations.             *)

\* What a command that is not idle works on.
LEMMA CommandKnows ==
  ASSUME ProposalInv, NEW r \in Run
  PROVE  /\ command[r] \in Task
         /\ command[r].step # "idle" => command[r].id \in WorkId /\ command[r].head \in Head
         /\ owner = r => StepHolds(command[r])
         /\ command[r].sent # "no" <=> mutex = r
BY DEF ProposalInv, ProposalTypeOK, CommandAt, Task

\* A work record that is saved is an operation of the store.
LEMMA SaveIsWork ==
  ASSUME NEW r \in Run, NEW c \in WorkId, NEW h \in MaybeHead, NEW k \in MaybeHead,
         SaveWork(r, c, h, k)
  PROVE  StoreNext
BY DEF StoreNext, WorkOp

\* So is every change of a journal that discovery makes.
LEMMA PushIsStore ==
  ASSUME NEW r \in Run, NEW c \in WorkId,
         \/ AdvancePush(r, c) \/ EnterPushGuard(r, c)
         \/ \E h \in MaybeHead : AdoptPush(r, c, h)
         \/ \E h, k \in MaybeHead : AuthorizePush(r, c, h, k)
  PROVE  StoreNext
BY DEF StoreNext, PushOp

\* The steps of a publication, one by one.
LEMMA PublishUsesStore ==
  ASSUME ProposalInv, NEW r \in Run, Publish(r)
  PROVE  [StoreNext]_storeVars
<1>0. /\ \A s : AtStep(r, s) /\ s # "idle" => command[r].id \in WorkId
      /\ StoreTypeOK
  BY CommandKnows DEF AtStep, ProposalInv, ProposalTypeOK
<1>1. CASE PushBranch(r)
  BY <1>0, <1>1, PushIsStore DEF PushBranch, Send
<1>2. CASE BranchPushed(r)
  BY <1>0, <1>2, PushIsStore DEF BranchPushed
<1>3. CASE CreatePull(r) \/ PullCreated(r)
  BY <1>0, <1>3, PushIsStore DEF CreatePull, PullCreated, RecordPull, Send
<1>4. CASE Present(r) \/ Comment(r) \/ Label(r)
  BY <1>0, <1>4, PushIsStore DEF Present, Comment, Label, Send
<1>5. CASE Settle(r)
  BY <1>0, <1>5, PushIsStore DEF Settle
<1>6. CASE Finish(r)
  <2>1. command[r].id \in WorkId
    BY <1>0, <1>6 DEF Finish
  <2>2. work[command[r].id] \in WorkState
    BY <1>0, <2>1 DEF StoreTypeOK
  <2>3. work[command[r].id].reviewed \in MaybeHead
        /\ work[command[r].id].validated \in MaybeHead
    BY <2>2 DEF WorkState
  <2> QED BY <1>6, <2>1, <2>3, SaveIsWork DEF Finish
<1> QED BY <1>1, <1>2, <1>3, <1>4, <1>5, <1>6 DEF Publish

\* Every step is one operation of the store, or none.
LEMMA ProposalUsesStore ==
  ASSUME ProposalInv, [ProposalNext]_proposalVars
  PROVE  [StoreNext]_storeVars
<1>1. CASE LeaseMoves \/ Checkout \/ OrphanArrives \/ OrphanIsLost
  BY <1>1 DEF LeaseMoves, Checkout, OrphanArrives, OrphanIsLost, StoreNext
<1>2. ASSUME NEW c, NEW i, OwnerDecidesOn(c, i) PROVE [StoreNext]_storeVars
  BY <1>2 DEF OwnerDecidesOn
<1>3. ASSUME NEW r \in Run, NEW c \in WorkId, RecoverStart(r, c)
      PROVE  [StoreNext]_storeVars
  <2>1. remote[c] \in MaybeHead
    BY DEF ProposalInv, ProposalTypeOK
  <2> QED BY <1>3, <2>1, PushIsStore DEF RecoverStart
<1>4. ASSUME NEW r \in Run, NEW c \in WorkId, NEW h \in Head,
             ValidateStart(r, c, h) \/ PublishStart(r, c, h)
      PROVE  [StoreNext]_storeVars
  <2>1. NoHead \in MaybeHead /\ h \in MaybeHead
    BY DEF MaybeHead
  <2>2. CASE ValidateStart(r, c, h)
    BY <2>2 DEF ValidateStart, StoreNext, WorkOp
  <2>3. CASE PublishStart(r, c, h)
    BY <2>1, <2>3, PushIsStore DEF PublishStart
  <2> QED BY <1>4, <2>2, <2>3
<1>5. ASSUME NEW r \in Run, RecordWork(r) PROVE [StoreNext]_storeVars
  <2>1. command[r].id \in WorkId /\ command[r].head \in MaybeHead /\ NoHead \in MaybeHead
    BY <1>5, CommandKnows DEF RecordWork, AtStep, MaybeHead
  <2> QED BY <1>5, <2>1, SaveIsWork DEF RecordWork
<1>6. ASSUME NEW r \in Run, RequestArrives(r) \/ RequestReturns(r) \/ Refuse(r) \/ Die(r)
      PROVE  [StoreNext]_storeVars
  BY <1>6 DEF RequestArrives, RequestReturns, Refuse, Die, StoreNext
<1>7. CASE UNCHANGED proposalVars
  BY <1>7 DEF proposalVars
<1> QED BY <1>1, <1>2, <1>3, <1>4, <1>5, <1>6, <1>7, PublishUsesStore DEF ProposalNext

\* The store stays well typed in every step.
LEMMA StoreStaysTyped ==
  ASSUME ProposalInv, [ProposalNext]_proposalVars
  PROVE  StoreTypeOK'
BY ProposalUsesStore, StoreNextType DEF ProposalInv, ProposalTypeOK

-----------------------------------------------------------------------------
(* Steps of a command that change no record.                               *)

\* A run without a command.
LEMMA NoTaskIs == NoTask \in Task /\ NoTask.step = "idle" /\ NoTask.sent = "no"
BY DEF NoTask, NewTask, Task, ProposalStep, MaybeHead

\* A command ends without having changed anything.
LEMMA RefuseKeeps ==
  ASSUME ProposalInv, NEW r \in Run, Refuse(r)
  PROVE  ProposalInv'
<1>1. mutex # r /\ mutex \in {NoRun, owner} /\ UNCHANGED storeVars
  BY CommandKnows DEF Refuse, ProposalInv
<1>2. StoreTypeOK' /\ StepHolds(NoTask)
  BY <1>1, NoTaskIs DEF ProposalInv, ProposalTypeOK, StoreTypeOK, storeVars, leaseVars, ciVars,
                        intentVars, StepHolds
<1> QED BY <1>1, <1>2, NoTaskIs, CommandStep DEF Refuse, Done, storeVars, leaseVars, ciVars,
                        intentVars

\* Present has found the pull request, its summary and its label.
LEMMA PresentKeeps ==
  ASSUME ProposalInv, NEW r \in Run, Present(r)
  PROVE  ProposalInv'
<1> DEFINE c == command[r].id
<1>0. /\ command[r] \in Task /\ command[r].step = "present" /\ command[r].sent = "no"
      /\ c \in WorkId /\ command[r].head \in Head /\ StepHolds(command[r]) /\ owner = r
      /\ mutex = NoRun /\ UNCHANGED storeVars
  BY CommandKnows DEF Present, AtStep
<1>1. CandidateAt(c) /\ journal[c].phase = "pr-created"
  BY <1>0 DEF ProposalInv, StepHolds
<1>2. number[c] = 1 /\ HasPull(c)
  BY <1>1 DEF CandidateAt
<1>3. pulls[c][1] \in Pull
  BY <1>0, <1>2, PullsAre DEF ProposalInv
<1> PICK u \in Task, l \in BOOLEAN : u = command[r] /\ l = pulls[c][number[c]].label
  BY <1>0, <1>2, <1>3 DEF Pull
<1> PICK t : t = [u EXCEPT !.step = "comment", !.labelled = l]
  OBVIOUS
<1>4. t \in Task /\ t.step = "comment" /\ t.sent = u.sent /\ t.id = u.id
      /\ t.head = u.head /\ t.labelled = l
  <2>1. t = [step |-> "comment", goal |-> u.goal, id |-> u.id, head |-> u.head,
             labelled |-> l, sent |-> u.sent]
    BY DEF Task
  <2>2. t \in Task
    BY <2>1 DEF Task, ProposalStep, Request
  <2> QED BY <2>1, <2>2
<1>5. ~ l => ~ pulls[c][1].label /\ ~ pulls[c][1].accepted /\ ~ UnderWay("label", c)
  BY <1>0, <1>1, <1>2, <1>4 DEF Present, CandidateAt, LabelIsDue
<1>6. command' = [command EXCEPT ![r] = t] /\ UNCHANGED <<githubVars, number, tree, faultVars>>
  BY <1>0, <1>2 DEF Present, ProposalInv, ProposalTypeOK, Task
<1>7. StepHolds(t)
  BY <1>0, <1>1, <1>4, <1>5 DEF StepHolds
<1>8. StoreTypeOK' /\ UNCHANGED <<owner, mutex, work, journal>>
  BY <1>0 DEF ProposalInv, ProposalTypeOK, StoreTypeOK, storeVars, leaseVars, ciVars, intentVars
<1> QED BY <1>0, <1>4, <1>6, <1>7, <1>8, CommandStep, StoreAssumption DEF ProposalInv

\* A command goes on to its next step.
LEMMA GoKeeps ==
  ASSUME ProposalInv, NEW r \in Run, owner = r, mutex = NoRun, NEW u \in Task, u = command[r],
         u.step # "idle", u.sent = "no", NEW s \in ProposalStep \ {"idle"}, GoStep(r, s),
         UNCHANGED <<storeVars, tree, githubVars, number, faultVars>>,
         StepHolds([u EXCEPT !.step = s])
  PROVE  ProposalInv'
<1> DEFINE t == [u EXCEPT !.step = s]
<1>1. t \in Task /\ t.step = s /\ t.sent = u.sent /\ t.id = u.id /\ t.head = u.head
  BY DEF Task
<1>2. command' = [command EXCEPT ![r] = t]
  BY DEF GoStep, ProposalInv, ProposalTypeOK, Task
<1>3. StoreTypeOK' /\ UNCHANGED <<owner, mutex, work, journal>>
  BY DEF ProposalInv, ProposalTypeOK, StoreTypeOK, storeVars, leaseVars, ciVars, intentVars
<1>4. u.id \in WorkId /\ u.head \in Head
  BY CommandKnows
<1>5. StepHolds(t)
  OBVIOUS
<1> HIDE DEF t
<1> QED BY <1>1, <1>2, <1>3, <1>4, <1>5, CommandStep, StoreAssumption DEF ProposalInv

\* A command sends the request of its step.
LEMMA SendKeeps ==
  ASSUME ProposalInv, NEW r \in Run, NEW u \in Task, u = command[r], u.step \in Request,
         u.sent = "no", Send(r), UNCHANGED <<tree, githubVars, number, faultVars>>,
         u.step = "create" => ~ HasPull(u.id),
         u.step = "label" => LabelIsDue(u.id) /\ ~ UnderWay("label", u.id)
  PROVE  ProposalInv'
<1> DEFINE t == [u EXCEPT !.sent = "sent"]
<1>1. t \in Task /\ t.step = u.step /\ t.sent = "sent" /\ t.id = u.id /\ t.head = u.head
      /\ t.labelled = u.labelled
  BY DEF Task
<1>2. command' = [command EXCEPT ![r] = t]
  BY DEF Send, ProposalInv, ProposalTypeOK, Task
<1>3. u.id \in WorkId /\ u.head \in Head /\ u.step # "idle"
  BY CommandKnows DEF Request
<1>4. StoreTypeOK' /\ owner = r /\ mutex = NoRun /\ mutex' = r /\ UNCHANGED <<owner, work, journal>>
  <2>1. EnterPushGuard(r, u.id)
    BY DEF Send
  <2>2. [StoreNext]_storeVars
    BY <1>3, <2>1, PushIsStore
  <2> QED BY <2>1, <2>2, StoreNextType
          DEF EnterPushGuard, Owns, leaseVars, ProposalInv, ProposalTypeOK
<1>5. StepHolds(u)
  BY <1>4, CommandKnows
<1> HIDE DEF t
<1>6. StepHolds(t)
  BY <1>1, <1>5 DEF StepHolds, Request
<1> QED BY <1>1, <1>2, <1>3, <1>4, <1>6, CommandStep, StoreAssumption DEF ProposalInv

\* A request has been answered.
LEMMA ReturnKeeps ==
  ASSUME ProposalInv, NEW r \in Run, RequestReturns(r)
  PROVE  ProposalInv'
<1> PICK u \in Task : u = command[r]
  BY CommandKnows
<1>1. /\ u.sent \in {"done", "refused"} /\ mutex = r /\ mutex' = NoRun /\ u.step \in Request
      /\ r # NoRun /\ owner = r /\ StepHolds(u) /\ UNCHANGED <<owner, work, journal>>
      /\ u.id \in WorkId /\ u.head \in Head
  BY CommandKnows, StoreAssumption
     DEF RequestReturns, LeaveGuard, leaseVars, ProposalInv, CommandAt, Request
<1>2. StoreTypeOK' /\ UNCHANGED <<githubVars, number, tree, faultVars>>
  <2>1. StoreNext
    BY DEF RequestReturns, StoreNext
  <2> QED BY <2>1, StoreNextType DEF RequestReturns, ProposalInv, ProposalTypeOK
<1>3. CASE u.sent = "done"
  <2> DEFINE t == [u EXCEPT !.sent = "no", !.step = Following(u.step)]
  <2>1. Following(u.step) \in ProposalStep \ {"idle"}
    BY <1>1 DEF Following, Request, ProposalStep
  <2>2. /\ t \in Task /\ t.step = Following(u.step) /\ t.sent = "no" /\ t.id = u.id
        /\ t.head = u.head /\ t.labelled = u.labelled
    BY <2>1 DEF Task
  <2>3. command' = [command EXCEPT ![r] = t]
    BY <1>3 DEF RequestReturns, ProposalInv, ProposalTypeOK, Task
  <2> HIDE DEF t
  <2>4. StepHolds(t)
    BY <1>1, <1>3, <2>2 DEF StepHolds, Following, Request
  <2> QED BY <1>1, <1>2, <2>1, <2>2, <2>3, <2>4, CommandStep, StoreAssumption DEF ProposalInv
<1>4. CASE u.sent # "done"
  <2>1. Done(r)
    BY <1>4 DEF RequestReturns
  <2>2. StepHolds(NoTask)
    BY NoTaskIs DEF StepHolds
  <2> QED BY <1>1, <1>2, <2>1, <2>2, NoTaskIs, CommandStep, StoreAssumption
         DEF Done, ProposalInv
<1> QED BY <1>3, <1>4

\* What the command at a step of its own knows, and that its journal is written.
LEMMA AtStepKnows ==
  ASSUME ProposalInv, NEW r \in Run, NEW s, s # "idle", AtStep(r, s)
  PROVE  /\ command[r] \in Task /\ command[r].step = s /\ command[r].sent = "no"
         /\ owner = r /\ mutex = NoRun /\ command[r].id \in WorkId /\ command[r].head \in Head
         /\ StepHolds(command[r]) /\ CandidateAt(command[r].id)
         /\ HasPull(command[r].id) => pulls[command[r].id][1] \in Pull
<1>1. /\ command[r] \in Task /\ command[r].step = s /\ command[r].sent = "no"
      /\ owner = r /\ mutex = NoRun /\ command[r].id \in WorkId /\ command[r].head \in Head
      /\ StepHolds(command[r])
  BY CommandKnows DEF AtStep
<1> QED BY <1>1, PullsAre DEF ProposalInv

\* The branch of the candidate is pushed, or found.
LEMMA PushBranchKeeps ==
  ASSUME ProposalInv, NEW r \in Run, PushBranch(r)
  PROVE  ProposalInv'
<1> PICK u \in Task : u = command[r]
  BY CommandKnows
<1>1. /\ u.step = "push" /\ u.sent = "no" /\ owner = r /\ mutex = NoRun /\ u.id \in WorkId
      /\ StepHolds(u) /\ UNCHANGED <<tree, githubVars, number, faultVars>>
  BY AtStepKnows DEF PushBranch
<1>2. CASE Send(r)
  BY <1>1, <1>2, SendKeeps DEF Request
<1>3. CASE remote[u.id] = u.head /\ GoStep(r, "pushed") /\ UNCHANGED storeVars
  <2>1. StepHolds([u EXCEPT !.step = "pushed"])
    BY <1>1, <1>3 DEF StepHolds, Task
  <2> QED BY <1>1, <1>3, <2>1, GoKeeps DEF ProposalStep
<1> QED BY <1>2, <1>3 DEF PushBranch

\* The summary is published, or found.
LEMMA CommentKeeps ==
  ASSUME ProposalInv, NEW r \in Run, Comment(r)
  PROVE  ProposalInv'
<1> PICK u \in Task : u = command[r]
  BY CommandKnows
<1>1. /\ u.step = "comment" /\ u.sent = "no" /\ owner = r /\ mutex = NoRun /\ u.id \in WorkId
      /\ StepHolds(u) /\ UNCHANGED <<tree, githubVars, number, faultVars>>
      /\ CandidateAt(u.id)
  BY AtStepKnows DEF Comment
<1>2. CASE Send(r)
  BY <1>1, <1>2, SendKeeps DEF Request
<1>3. CASE pulls[u.id][number[u.id]].comment /\ GoStep(r, "label") /\ UNCHANGED storeVars
  <2>1. pulls[u.id][1].comment
    BY <1>1, <1>3 DEF StepHolds, CandidateAt
  <2>2. StepHolds([u EXCEPT !.step = "label"])
    BY <1>1, <2>1 DEF StepHolds, Task
  <2> QED BY <1>1, <1>3, <2>2, GoKeeps DEF ProposalStep, Request
<1> QED BY <1>2, <1>3 DEF Comment

\* The label that is sent was never there, and there is room for it.
LEMMA LabelKeeps ==
  ASSUME ProposalInv, NEW r \in Run, Label(r)
  PROVE  ProposalInv'
<1> PICK u \in Task : u = command[r]
  BY CommandKnows
<1>1. /\ u.step = "label" /\ u.sent = "no" /\ owner = r /\ mutex = NoRun /\ u.id \in WorkId
      /\ StepHolds(u) /\ UNCHANGED <<tree, githubVars, number, faultVars>>
      /\ CandidateAt(u.id)
  BY AtStepKnows DEF Label
<1>2. number[u.id] = 1
  BY <1>1 DEF StepHolds, CandidateAt
<1>3. CASE pulls[u.id][1].label /\ GoStep(r, "settle") /\ UNCHANGED storeVars
  <2>1. StepHolds([u EXCEPT !.step = "settle"])
    BY <1>1, <1>3 DEF StepHolds, Task
  <2> QED BY <1>1, <1>3, <2>1, GoKeeps DEF ProposalStep
<1>4. CASE ~ pulls[u.id][1].label /\ ~ u.labelled /\ Facts(u.id, TRUE) /\ Send(r)
  <2>1. Cardinality(Counted(u.id, TRUE)) < Cap
    BY <1>4 DEF Facts
  <2>2. LabelIsDue(u.id) /\ ~ UnderWay("label", u.id)
    BY <1>1, <1>4, <2>1 DEF StepHolds, LabelIsDue
  <2> QED BY <1>1, <1>4, <2>2, SendKeeps DEF Request
<1> QED BY <1>2, <1>3, <1>4 DEF Label

\* The creation is sent only where no pull request is.
LEMMA CreateKeeps ==
  ASSUME ProposalInv, NEW r \in Run, AtStep(r, "create"), Send(r),
         Matches(command[r].id, command[r].head) = {},
         remote[command[r].id] = command[r].head,
         UNCHANGED <<tree, githubVars, number, faultVars>>
  PROVE  ProposalInv'
<1> PICK u \in Task : u = command[r]
  BY CommandKnows
<1>1. /\ u.step = "create" /\ u.sent = "no" /\ CandidateAt(u.id)
  BY AtStepKnows
<1>2. ~ HasPull(u.id)
  BY <1>1 DEF CandidateAt, Matches, HasPull
<1> QED BY <1>1, <1>2, SendKeeps DEF Request

\* What a command begins with.
LEMMA NewTaskIs ==
  ASSUME NEW goal \in {"validate", "publish", "recover"}, NEW c \in WorkId, NEW h \in Head,
         NEW s \in ProposalStep
  PROVE  NewTask(goal, c, h, s) \in Task
BY DEF NewTask, Task, MaybeHead

\* A command begins at a step that its journal and its work record allow.
LEMMA BeginKeeps ==
  ASSUME ProposalInv, StoreTypeOK', NEW r \in Run, owner = r, mutex = NoRun,
         NEW goal \in {"validate", "publish", "recover"}, NEW c \in WorkId, NEW h \in Head,
         NEW s \in ProposalStep \ {"idle"}, Begin(r, goal, c, h, s),
         UNCHANGED <<owner, mutex, work, tree, githubVars, number, faultVars>>,
         \A d \in WorkId : journal'[d].phase = journal[d].phase
                              /\ journal'[d].new = journal[d].new,
         StepHolds(NewTask(goal, c, h, s))
  PROVE  ProposalInv'
<1> DEFINE t == NewTask(goal, c, h, s)
<1>1. /\ t.step = s /\ t.sent = "no" /\ t.id = c /\ t.head = h
  BY DEF NewTask
<1>2. StepHolds(t)
  OBVIOUS
<1>3. t \in Task /\ command' = [command EXCEPT ![r] = t]
  BY NewTaskIs DEF Begin
<1> HIDE DEF t
<1> QED BY <1>1, <1>2, <1>3, CommandStep, StoreAssumption DEF ProposalInv

\* Recovery takes over the open journal at the step it has come to.
LEMMA RecoverKeeps ==
  ASSUME ProposalInv, StoreTypeOK', NEW r \in Run, NEW c \in WorkId, RecoverStart(r, c)
  PROVE  ProposalInv'
<1>1. /\ owner = r /\ mutex = NoRun /\ UNCHANGED <<owner, mutex, work>>
      /\ command[r] = NoTask /\ UNCHANGED <<tree, githubVars, number, faultVars>>
      /\ journal[c].phase \notin {"none", "published"}
  BY DEF RecoverStart, MayStart, AdoptPush, storeVars, leaseVars, Unresolved
<1>2. \A d \in WorkId : journal'[d].phase = journal[d].phase
                           /\ journal'[d].new = journal[d].new
  <2>1. journal \in [WorkId -> PushJournal]
    BY DEF ProposalInv, ProposalTypeOK, StoreTypeOK
  <2> QED BY <2>1 DEF RecoverStart, AdoptPush, storeVars, PushJournal
<1>3. CandidateAt(c) /\ journal[c].new \in Head
  BY <1>1 DEF ProposalInv, CandidateAt
<1>4. CASE journal[c].phase = "authorized" /\ Begin(r, "recover", c, journal[c].new, "push")
  <2>1. StepHolds(NewTask("recover", c, journal[c].new, "push"))
    BY <1>4 DEF StepHolds, NewTask
  <2> QED BY <1>1, <1>2, <1>3, <1>4, <2>1, BeginKeeps DEF ProposalStep, Request
<1>5. CASE journal[c].phase = "pushed" /\ Begin(r, "recover", c, journal[c].new, "create")
  <2>1. StepHolds(NewTask("recover", c, journal[c].new, "create"))
    BY <1>5 DEF StepHolds, NewTask
  <2> QED BY <1>1, <1>2, <1>3, <1>5, <2>1, BeginKeeps DEF ProposalStep, Request
<1>6. CASE UNCHANGED command
  <2>1. command' = [command EXCEPT ![r] = NoTask] /\ StepHolds(NoTask)
    BY <1>1, <1>6, NoTaskIs DEF ProposalInv, ProposalTypeOK, StepHolds
  <2> QED BY <1>1, <1>2, <2>1, NoTaskIs, CommandStep, StoreAssumption DEF ProposalInv
<1> QED BY <1>4, <1>5, <1>6 DEF RecoverStart

\* A publication goes on from its own journal.
LEMMA ResumeKeeps ==
  ASSUME ProposalInv, StoreTypeOK', NEW r \in Run, NEW c \in WorkId, NEW h \in Head,
         PublishStart(r, c, h), UNCHANGED storeVars
  PROVE  ProposalInv'
<1> DEFINE next == CASE journal[c].phase = "authorized" -> "push"
                     [] journal[c].phase = "pushed" -> "create"
                     [] OTHER -> "present"
<1>1. /\ owner = r /\ mutex = NoRun /\ UNCHANGED <<owner, mutex, work, journal>>
      /\ UNCHANGED <<tree, githubVars, number, faultVars>>
  BY DEF PublishStart, MayStart, storeVars, leaseVars
<1>2. journal \in [WorkId -> PushJournal] /\ journal[c].phase \in PushPhase
  BY DEF ProposalInv, ProposalTypeOK, StoreTypeOK, PushJournal
<1>3. CASE OwnJournal(r, c, h) /\ Unresolved = {c} /\ Begin(r, "publish", c, h, next)
  <2>1. journal[c].phase \in {"authorized", "pushed", "pr-created"} /\ journal[c].new = h
    BY <1>2, <1>3 DEF OwnJournal, Unresolved, PushPhase
  <2>2. next \in ProposalStep \ {"idle"} /\ StepHolds(NewTask("publish", c, h, next))
    BY <2>1 DEF StepHolds, NewTask, ProposalStep, Request
  <2> HIDE DEF next
  <2> QED BY <1>1, <1>3, <2>2, BeginKeeps
<1>4. CASE journal[c].phase = "published" /\ Begin(r, "publish", c, h, "finish")
  <2>1. StepHolds(NewTask("publish", c, h, "finish"))
    BY <1>4 DEF StepHolds, NewTask
  <2> QED BY <1>1, <1>4, <2>1, BeginKeeps DEF ProposalStep
<1>5. ~ AuthorizePush(r, c, NoHead, h)
  <2>1. ASSUME AuthorizePush(r, c, NoHead, h) PROVE journal'[c].phase = "authorized"
                                                   /\ journal[c].phase # "authorized"
    BY <1>2, <2>1 DEF AuthorizePush
  <2> QED BY <1>1, <2>1
<1> QED BY <1>3, <1>4, <1>5 DEF PublishStart

-----------------------------------------------------------------------------
(* Steps that write the journal or the work record of one candidate.       *)

\* The command has come to a step whose facts hold, or has ended.
LEMMA CommandGoes ==
  ASSUME ProposalInv, NEW r \in Run, owner = r, mutex' = NoRun, UNCHANGED owner,
         NEW t \in Task, command' = [command EXCEPT ![r] = t], t.sent = "no",
         t.id \in WorkId, t.head \in Head, StepHolds(t)'
  PROVE  /\ CommandAt(r)' /\ command' \in [Run -> Task] /\ command'[r].sent = "no"
         /\ \A q \in Run \ {r} : command'[q] = command[q]
<1>1. /\ command'[r] = t /\ command' \in [Run -> Task]
      /\ \A q \in Run \ {r} : command'[q] = command[q]
  BY DEF ProposalInv, ProposalTypeOK, Task
<1> QED BY <1>1, CommandIs, StoreAssumption

\* The command of the owner ends, and lets go of the mutex.
LEMMA CommandEnds ==
  ASSUME ProposalInv, NEW r \in Run, mutex' = NoRun, Done(r)
  PROVE  /\ CommandAt(r)' /\ command' \in [Run -> Task] /\ command'[r].sent = "no"
         /\ \A q \in Run \ {r} : command'[q] = command[q]
<1> PICK t \in Task : t = NoTask /\ t.step = "idle" /\ t.sent = "no"
  BY NoTaskIs
<1>1. /\ command'[r] = t /\ command' \in [Run -> Task]
      /\ \A q \in Run \ {r} : command'[q] = command[q]
  BY DEF ProposalInv, ProposalTypeOK, Task, Done
<1>2. StepHolds(t)'
  BY DEF StepHolds
<1> QED BY <1>1, <1>2, CommandIs, StoreAssumption

\* Whatever the step writes about c, nothing comes under way: it is enough that
\* c and the command are all right after it.
LEMMA RecordStep ==
  ASSUME ProposalInv, StoreTypeOK', NEW r \in Run, owner = r, mutex = NoRun,
         command' \in [Run -> Task], command'[r].sent = "no",
         \A q \in Run \ {r} : command'[q] = command[q],
         UNCHANGED <<owner, mutex, tree, githubVars, faultVars>>,
         NEW c \in WorkId, number' \in [WorkId -> {0, 1}],
         number'[c] = 1 => HasPull(c), number[c] = 1 => number'[c] = 1,
         \A d \in WorkId \ {c} : /\ journal'[d] = journal[d] /\ work'[d] = work[d]
                                 /\ number'[d] = number[d],
         journal[c].phase # "none" =>
            journal'[c].phase # "none" /\ journal'[c].new = journal[c].new,
         Unresolved \subseteq {c} \/ journal' = journal,
         (UnderWay("create", c)' => UnderWay("create", c))
            /\ (UnderWay("label", c)' => UnderWay("label", c)) => CandidateAt(c)',
         CommandAt(r)'
  PROVE  ProposalInv'
<1> USE DEF ProposalInv
<1>0. command \in [Run -> Task]
  BY DEF ProposalTypeOK, Task, PullsTypeOK
<1>1. ProposalTypeOK' /\ PullsTypeOK'
  <2>1. number' \in [WorkId -> {0, 1}]
    BY <1>0 DEF PullsTypeOK
  <2>2. PullsTypeOK'
    BY <2>1 DEF PullsTypeOK, githubVars
  <2>3. \A d \in WorkId : number'[d] \in 0..Pulls(d)
    <3> TAKE d \in WorkId
    <3>1. CASE d = c
      <4>1. number'[c] = 0 \/ (number'[c] = 1 /\ Pulls(c) = 1)
        BY PullsAre
      <4>2. Pulls(c) \in Nat
        BY PullsAre
      <4> QED BY <1>0, <3>1, <4>1, <4>2
    <3>2. CASE d # c
      BY <1>0, <3>2 DEF ProposalTypeOK
    <3> QED BY <3>1, <3>2
  <2> QED BY <2>1, <2>2, <2>3 DEF ProposalTypeOK, Task, githubVars, faultVars, Pulls
<1>2. ASSUME NEW d \in WorkId, NEW request PROVE UnderWay(request, d)' => UnderWay(request, d)
  BY <1>0 DEF UnderWay, faultVars
<1>3. ASSUME NEW d \in WorkId PROVE CandidateAt(d)'
  <2>1. CASE d = c
    BY <1>2, <2>1
  <2>2. CASE d # c
    <3>1. journal'[d] = journal[d] /\ work'[d] = work[d] /\ number'[d] = number[d]
      BY <1>0, <2>2
    <3> QED BY <1>2, <3>1, CandidateStays DEF githubVars
  <2> QED BY <2>1, <2>2
<1>4. ASSUME NEW q \in Run PROVE CommandAt(q)'
  <2>1. CASE q = r
    BY <2>1
  <2>2. CASE q # r
    <3> PICK u \in Task : u = command[q]
      BY <1>0
    <3>1. /\ command'[q] = u
          /\ u.step # "idle" => u.id \in WorkId /\ u.head \in Head
          /\ u.sent # "no" <=> mutex' = q
          /\ u.sent # "no" => u.step \in Request
      BY <1>0, <2>2 DEF CommandAt
    <3> QED BY <2>2, <3>1, CommandIs
  <2> QED BY <2>1, <2>2
<1>5. OneUnresolved'
  <2>1. CASE Unresolved \subseteq {c}
    BY <2>1 DEF OneUnresolved, Unresolved
  <2>2. CASE journal' = journal
    BY <2>2 DEF OneUnresolved, Unresolved
  <2> QED BY <2>1, <2>2
<1>6. OrphansKnown'
  BY <1>0 DEF OrphansKnown, ProposalTypeOK, faultVars
<1>7. Capped'
  BY CapStays DEF githubVars
<1>8. OneLabel'
  <2> SUFFICES ASSUME NEW q \in orphans, q.request = "label"
               PROVE  /\ \A p \in orphans : p.request = "label" /\ p.id = q.id => p = q
                      /\ \A s \in Run : ~ (/\ command'[s].step = "label"
                                            /\ command'[s].sent = "sent"
                                            /\ command'[s].id = q.id)
    BY DEF OneLabel, faultVars
  <2> QED BY DEF OneLabel
<1> QED BY <1>1, <1>3, <1>4, <1>5, <1>6, <1>7, <1>8

\* What must be so of the journal and the work record that are written.
LEMMA CandidateMoves ==
  ASSUME NEW c \in WorkId, CandidateAt(c), UNCHANGED <<pulls, remote>>,
         UnderWay("create", c)' => UnderWay("create", c),
         UnderWay("label", c)' => UnderWay("label", c),
         journal'[c].phase # "none",
         WorkerOf[c] = "discovery" /\ journal'[c].new \in Head,
         remote[c] # NoHead => remote[c] = journal'[c].new,
         journal'[c].phase \in {"pushed", "pr-created", "published"} => remote[c] # NoHead,
         number'[c] = 1 <=> journal'[c].phase \in {"pr-created", "published"},
         number'[c] = 1 => HasPull(c),
         journal'[c].phase = "published" =>
            pulls[c][1].comment /\ (pulls[c][1].label \/ pulls[c][1].accepted),
         work'[c].phase \in {"pushed", "published"} => journal'[c].phase = "published",
         UnderWay("label", c) => journal'[c].phase = "pr-created"
  PROVE  CandidateAt(c)'
BY DEF CandidateAt, HasPull, LabelIsDue, Counted, OpenProposals

\* A journal is advanced.
LEMMA AdvanceIs ==
  ASSUME ProposalInv, NEW r \in Run, NEW c \in WorkId, AdvancePush(r, c)
  PROVE  /\ UNCHANGED <<owner, mutex, work>> /\ Unresolved \subseteq {c}
         /\ \A d \in WorkId \ {c} : journal'[d] = journal[d]
         /\ journal'[c].phase = NextPush(c, journal[c].phase)
         /\ journal'[c].new = journal[c].new
         /\ WorkerOf[c] = "discovery" /\ journal[c].new \in Head
         /\ journal[c].phase # "none"
<1>1. journal \in [WorkId -> PushJournal]
  BY DEF ProposalInv, ProposalTypeOK, StoreTypeOK
<1>2. CandidateAt(c) /\ journal[c].phase \in {"authorized", "pushed", "pr-created"}
  BY DEF ProposalInv, AdvancePush
<1>3. Unresolved \subseteq {c}
  BY <1>2 DEF ProposalInv, OneUnresolved, Unresolved
<1>4. /\ \A d \in WorkId \ {c} : journal'[d] = journal[d]
      /\ journal'[c].phase = NextPush(c, journal[c].phase)
      /\ journal'[c].new = journal[c].new
  BY <1>1 DEF AdvancePush, PushJournal
<1> QED BY <1>2, <1>3, <1>4 DEF AdvancePush, leaseVars, CandidateAt

\* The journal records the branch.
LEMMA BranchPushedKeeps ==
  ASSUME ProposalInv, StoreTypeOK', NEW r \in Run, BranchPushed(r)
  PROVE  ProposalInv'
<1> PICK u \in Task : u = command[r]
  BY CommandKnows
<1> PICK c \in WorkId : c = u.id
  BY AtStepKnows DEF BranchPushed
<1>1. /\ u.step = "pushed" /\ u.sent = "no" /\ owner = r /\ mutex = NoRun /\ StepHolds(u)
      /\ u.head \in Head /\ CandidateAt(c) /\ AdvancePush(r, c)
      /\ UNCHANGED <<tree, githubVars, number, faultVars>>
  BY AtStepKnows DEF BranchPushed
<1>2. journal[c].phase = "authorized" /\ remote[c] = u.head /\ journal[c].new = u.head
  BY <1>1 DEF StepHolds
<1>3. journal'[c].phase = "pushed" /\ journal'[c].new = u.head
  BY <1>1, <1>2, AdvanceIs DEF NextPush
<1>4. number' \in [WorkId -> {0, 1}] /\ number[c] # 1 /\ UNCHANGED number
  BY <1>1, <1>2 DEF ProposalInv, PullsTypeOK, CandidateAt
<1>9. /\ UNCHANGED <<owner, mutex, work>> /\ Unresolved \subseteq {c} /\ WorkerOf[c] = "discovery"
      /\ \A d \in WorkId \ {c} : /\ journal'[d] = journal[d] /\ work'[d] = work[d]
                                 /\ number'[d] = number[d]
  BY <1>1, <1>4, AdvanceIs
<1> DEFINE t == [u EXCEPT !.step = "create"]
<1>5. t \in Task /\ t.step = "create" /\ t.sent = "no" /\ t.id = c /\ t.head = u.head
  BY <1>1 DEF Task, ProposalStep, Request
<1>6. command' = [command EXCEPT ![r] = t]
  BY DEF BranchPushed, GoStep, ProposalInv, ProposalTypeOK, Task
<1> HIDE DEF t
<1>7. ASSUME UnderWay("create", c)' => UnderWay("create", c),
             UnderWay("label", c)' => UnderWay("label", c)
      PROVE  CandidateAt(c)'
  <2>1. UNCHANGED <<pulls, remote>> /\ ~ UnderWay("label", c)
        /\ work[c].phase \notin {"pushed", "published"}
    BY <1>1, <1>2 DEF CandidateAt, LabelIsDue, githubVars
  <2> QED BY <1>1, <1>2, <1>3, <1>4, <1>7, <1>9, <2>1, CandidateMoves, StoreAssumption
<1>8. StepHolds(t)'
  BY <1>3, <1>5 DEF StepHolds
<1>10. /\ CommandAt(r)' /\ command' \in [Run -> Task] /\ command'[r].sent = "no"
       /\ \A q \in Run \ {r} : command'[q] = command[q]
  BY <1>1, <1>5, <1>6, <1>8, <1>9, CommandGoes
<1> QED BY <1>1, <1>2, <1>3, <1>4, <1>5, <1>6, <1>7, <1>9, <1>10, RecordStep, StoreAssumption

\* The number of the pull request is recorded.
LEMMA RecordPullKeeps ==
  ASSUME ProposalInv, StoreTypeOK', NEW r \in Run, AtStep(r, "create") \/ AtStep(r, "created"),
         HasPull(command[r].id), RecordPull(r, 1)
  PROVE  ProposalInv'
<1> PICK u \in Task : u = command[r]
  BY CommandKnows
<1> PICK c \in WorkId : c = u.id
  BY AtStepKnows
<1>1. /\ u.step \in {"create", "created"} /\ u.sent = "no" /\ owner = r /\ mutex = NoRun
      /\ StepHolds(u) /\ u.head \in Head /\ CandidateAt(c) /\ AdvancePush(r, c) /\ HasPull(c)
      /\ UNCHANGED <<tree, githubVars, faultVars>> /\ number' = [number EXCEPT ![c] = 1]
  BY AtStepKnows DEF RecordPull
<1>2. journal[c].phase = "pushed" /\ journal[c].new = u.head
  BY <1>1 DEF StepHolds
<1>3. journal'[c].phase = "pr-created" /\ journal'[c].new = u.head
  BY <1>1, <1>2, AdvanceIs DEF NextPush
<1>4. number' \in [WorkId -> {0, 1}] /\ number'[c] = 1
  BY <1>1 DEF ProposalInv, PullsTypeOK
<1>5. /\ UNCHANGED <<owner, mutex, work>> /\ Unresolved \subseteq {c} /\ WorkerOf[c] = "discovery"
      /\ \A d \in WorkId \ {c} : /\ journal'[d] = journal[d] /\ work'[d] = work[d]
                                 /\ number'[d] = number[d]
  BY <1>1, AdvanceIs DEF ProposalInv, PullsTypeOK
<1>6. ASSUME UnderWay("create", c)' => UnderWay("create", c),
             UnderWay("label", c)' => UnderWay("label", c)
      PROVE  CandidateAt(c)'
  <2>1. UNCHANGED <<pulls, remote>> /\ ~ UnderWay("label", c)
        /\ work[c].phase \notin {"pushed", "published"}
        /\ remote[c] = u.head
    BY <1>1, <1>2 DEF CandidateAt, LabelIsDue, githubVars
  <2> QED BY <1>1, <1>2, <1>3, <1>4, <1>5, <1>6, <2>1, CandidateMoves, StoreAssumption
<1>7. CASE GoStep(r, "present")
  <2> DEFINE t == [u EXCEPT !.step = "present"]
  <2>1. t \in Task /\ t.step = "present" /\ t.sent = "no" /\ t.id = c /\ t.head = u.head
    BY <1>1 DEF Task, ProposalStep
  <2>2. command' = [command EXCEPT ![r] = t]
    BY <1>7 DEF GoStep, ProposalInv, ProposalTypeOK, Task
  <2> HIDE DEF t
  <2>3. StepHolds(t)'
    BY <1>3, <2>1 DEF StepHolds
  <2>4. /\ CommandAt(r)' /\ command' \in [Run -> Task] /\ command'[r].sent = "no"
        /\ \A q \in Run \ {r} : command'[q] = command[q]
    BY <1>1, <1>5, <2>1, <2>2, <2>3, CommandGoes
  <2> QED BY <1>1, <1>2, <1>3, <1>4, <1>5, <1>6, <2>4, RecordStep, StoreAssumption
<1>8. CASE Done(r)
  <2>1. /\ CommandAt(r)' /\ command' \in [Run -> Task] /\ command'[r].sent = "no"
        /\ \A q \in Run \ {r} : command'[q] = command[q]
    BY <1>1, <1>5, <1>8, CommandEnds
  <2> QED BY <1>1, <1>2, <1>3, <1>4, <1>5, <1>6, <2>1, RecordStep, StoreAssumption
<1> QED BY <1>7, <1>8 DEF RecordPull

\* The pull request that is recorded is the only one.
LEMMA CreatedKeeps ==
  ASSUME ProposalInv, StoreTypeOK', NEW r \in Run, CreatePull(r) \/ PullCreated(r)
  PROVE  ProposalInv'
<1> PICK u \in Task : u = command[r]
  BY CommandKnows
<1>1. CASE PullCreated(r)
  <2>1. u.id \in WorkId /\ StepHolds(u) /\ u.step = "created" /\ AtStep(r, "created")
    BY <1>1, AtStepKnows DEF PullCreated
  <2>2. HasPull(u.id)
    BY <2>1 DEF StepHolds
  <2>3. Pulls(u.id) = 1
    BY <2>1, <2>2, PullsAre DEF ProposalInv
  <2> QED BY <1>1, <2>1, <2>2, <2>3, RecordPullKeeps DEF PullCreated
<1>2. ASSUME NEW i \in Matches(u.id, u.head), AtStep(r, "create"), RecordPull(r, i)
      PROVE  ProposalInv'
  <2>1. u.id \in WorkId /\ i \in DOMAIN pulls[u.id]
    BY <1>2, AtStepKnows DEF Matches
  <2>2. HasPull(u.id) /\ i = 1
    BY <2>1, PullsAre DEF ProposalInv
  <2> QED BY <1>2, <2>2, RecordPullKeeps
<1>3. CASE AtStep(r, "create") /\ Send(r) /\ Matches(u.id, u.head) = {} /\ u.goal = "publish"
           /\ CreatePull(r) /\ UNCHANGED <<tree, githubVars, number, faultVars>>
  BY <1>3, CreateKeeps DEF CreatePull
<1> QED BY <1>1, <1>2, <1>3 DEF CreatePull

\* The journal is settled once comment and label have been published.
LEMMA SettleKeeps ==
  ASSUME ProposalInv, StoreTypeOK', NEW r \in Run, Settle(r)
  PROVE  ProposalInv'
<1> PICK u \in Task : u = command[r]
  BY CommandKnows
<1> PICK c \in WorkId : c = u.id
  BY AtStepKnows DEF Settle
<1>1. /\ u.step = "settle" /\ u.sent = "no" /\ owner = r /\ mutex = NoRun
      /\ StepHolds(u) /\ u.head \in Head /\ CandidateAt(c) /\ AdvancePush(r, c)
      /\ UNCHANGED <<tree, githubVars, number, faultVars>>
  BY AtStepKnows DEF Settle
<1>2. /\ journal[c].phase = "pr-created" /\ pulls[c][1].comment
      /\ pulls[c][1].label \/ pulls[c][1].accepted
  BY <1>1 DEF StepHolds
<1>3. journal'[c].phase = "published" /\ journal'[c].new = journal[c].new
  BY <1>1, <1>2, AdvanceIs DEF NextPush
<1>4. number' \in [WorkId -> {0, 1}] /\ number[c] = 1 /\ number'[c] = 1 /\ HasPull(c)
  BY <1>1, <1>2 DEF ProposalInv, PullsTypeOK, CandidateAt
<1>5. /\ UNCHANGED <<owner, mutex, work>> /\ Unresolved \subseteq {c} /\ WorkerOf[c] = "discovery"
      /\ journal[c].new \in Head
      /\ \A d \in WorkId \ {c} : /\ journal'[d] = journal[d] /\ work'[d] = work[d]
                                 /\ number'[d] = number[d]
  BY <1>1, AdvanceIs
<1>6. ASSUME UnderWay("create", c)' => UnderWay("create", c),
             UnderWay("label", c)' => UnderWay("label", c)
      PROVE  CandidateAt(c)'
  <2>1. UNCHANGED <<pulls, remote>> /\ ~ UnderWay("label", c)
        /\ remote[c] # NoHead /\ remote[c] = journal[c].new
    BY <1>1, <1>2 DEF CandidateAt, LabelIsDue, githubVars
  <2> QED BY <1>2, <1>3, <1>4, <1>5, <1>6, <1>1, <2>1, CandidateMoves
<1> DEFINE t == [u EXCEPT !.step = "finish"]
<1>7. t \in Task /\ t.step = "finish" /\ t.sent = "no" /\ t.id = c /\ t.head = u.head
  BY <1>1 DEF Task, ProposalStep
<1>8. command' = [command EXCEPT ![r] = t]
  BY DEF Settle, GoStep, ProposalInv, ProposalTypeOK, Task
<1> HIDE DEF t
<1>9. StepHolds(t)'
  BY <1>3, <1>7 DEF StepHolds
<1>10. /\ CommandAt(r)' /\ command' \in [Run -> Task] /\ command'[r].sent = "no"
       /\ \A q \in Run \ {r} : command'[q] = command[q]
  BY <1>1, <1>5, <1>7, <1>8, <1>9, CommandGoes
<1> QED BY <1>1, <1>2, <1>3, <1>4, <1>5, <1>6, <1>7, <1>8, <1>10, RecordStep, StoreAssumption

\* A step that writes one work record, and ends or goes on.
LEMMA WorkStep ==
  ASSUME ProposalInv, StoreTypeOK', NEW r \in Run, owner = r, mutex = NoRun,
         UNCHANGED <<owner, mutex, journal, tree, githubVars, number, faultVars>>,
         NEW c \in WorkId, \A d \in WorkId \ {c} : work'[d] = work[d],
         work'[c].phase \in {"pushed", "published"} => journal[c].phase = "published",
         command' \in [Run -> Task], command'[r].sent = "no",
         \A q \in Run \ {r} : command'[q] = command[q],
         CommandAt(r)'
  PROVE  ProposalInv'
<1>1. /\ number' \in [WorkId -> {0, 1}] /\ CandidateAt(c)
      /\ \A d \in WorkId \ {c} : /\ journal'[d] = journal[d] /\ work'[d] = work[d]
                                 /\ number'[d] = number[d]
  BY DEF ProposalInv, PullsTypeOK
<1>2. ASSUME UnderWay("create", c)' => UnderWay("create", c),
             UnderWay("label", c)' => UnderWay("label", c)
      PROVE  CandidateAt(c)'
  BY <1>1, <1>2 DEF CandidateAt, HasPull, LabelIsDue, Counted, OpenProposals, githubVars
<1>3. number'[c] = 1 => HasPull(c)
  BY <1>1 DEF CandidateAt
<1> QED BY <1>1, <1>2, <1>3, RecordStep

\* A work record is advanced.
LEMMA SaveIs ==
  ASSUME ProposalInv, NEW r \in Run, NEW c \in WorkId, NEW h, NEW k, SaveWork(r, c, h, k)
  PROVE  /\ UNCHANGED <<owner, mutex, journal>>
         /\ \A d \in WorkId \ {c} : work'[d] = work[d]
         /\ work'[c].phase = NextWork(work[c].phase)
BY DEF ProposalInv, ProposalTypeOK, StoreTypeOK, SaveWork, WorkState, leaseVars

\* The work record follows the journal.
LEMMA FinishKeeps ==
  ASSUME ProposalInv, StoreTypeOK', NEW r \in Run, Finish(r)
  PROVE  ProposalInv'
<1> PICK u \in Task : u = command[r]
  BY CommandKnows
<1> PICK c \in WorkId : c = u.id
  BY AtStepKnows DEF Finish
<1>1. /\ u.step \in {"finish", "finished"} /\ u.sent = "no" /\ owner = r /\ mutex = NoRun
      /\ StepHolds(u) /\ u.head \in Head /\ UNCHANGED <<tree, githubVars, number, faultVars>>
  BY AtStepKnows DEF Finish
<1>2. journal[c].phase = "published"
  BY <1>1 DEF StepHolds
<1>3. CASE /\ SaveWork(r, c, work[c].reviewed, work[c].validated) /\ Done(r)
  <2>1. UNCHANGED <<owner, mutex, journal>> /\ \A d \in WorkId \ {c} : work'[d] = work[d]
    BY <1>3, SaveIs
  <2>2. /\ CommandAt(r)' /\ command' \in [Run -> Task] /\ command'[r].sent = "no"
        /\ \A q \in Run \ {r} : command'[q] = command[q]
    BY <1>1, <1>3, <2>1, CommandEnds
  <2> QED BY <1>1, <1>2, <2>1, <2>2, WorkStep
<1>4. CASE /\ SaveWork(r, c, work[c].reviewed, work[c].validated) /\ GoStep(r, "finished")
  <2>1. UNCHANGED <<owner, mutex, journal>> /\ \A d \in WorkId \ {c} : work'[d] = work[d]
    BY <1>4, SaveIs
  <2> DEFINE t == [u EXCEPT !.step = "finished"]
  <2>2. t \in Task /\ t.step = "finished" /\ t.sent = "no" /\ t.id = c /\ t.head = u.head
    BY <1>1 DEF Task, ProposalStep
  <2>3. command' = [command EXCEPT ![r] = t]
    BY <1>4 DEF GoStep, ProposalInv, ProposalTypeOK, Task
  <2> HIDE DEF t
  <2>4. StepHolds(t)'
    BY <1>2, <2>1, <2>2 DEF StepHolds
  <2>5. /\ CommandAt(r)' /\ command' \in [Run -> Task] /\ command'[r].sent = "no"
        /\ \A q \in Run \ {r} : command'[q] = command[q]
    BY <1>1, <2>1, <2>2, <2>3, <2>4, CommandGoes
  <2> QED BY <1>1, <1>2, <2>1, <2>5, WorkStep
<1>5. CASE Done(r) /\ UNCHANGED storeVars
  <2>1. Refuse(r)
    BY <1>1, <1>5 DEF Refuse
  <2> QED BY <2>1, RefuseKeeps
<1> QED BY <1>3, <1>4, <1>5 DEF Finish

\* The work record advances up to its validation.
LEMMA RecordKeeps ==
  ASSUME ProposalInv, StoreTypeOK', NEW r \in Run, RecordWork(r)
  PROVE  ProposalInv'
<1> PICK u \in Task : u = command[r]
  BY CommandKnows
<1> PICK c \in WorkId : c = u.id
  BY AtStepKnows DEF RecordWork
<1>1. /\ u.step = "record" /\ u.sent = "no" /\ owner = r /\ mutex = NoRun
      /\ StepHolds(u) /\ u.head \in Head /\ UNCHANGED <<tree, githubVars, number, faultVars>>
  BY AtStepKnows DEF RecordWork
<1>2. work[c].phase \in {"selected", "prepared", "reviewed"}
  BY <1>1 DEF StepHolds
<1>3. /\ UNCHANGED <<owner, mutex, journal>> /\ \A d \in WorkId \ {c} : work'[d] = work[d]
      /\ work'[c].phase = NextWork(work[c].phase)
  BY SaveIs DEF RecordWork
<1>4. work'[c].phase \in {"prepared", "reviewed", "validated"}
  BY <1>2, <1>3 DEF NextWork
<1>5. CASE Done(r)
  <2>1. /\ CommandAt(r)' /\ command' \in [Run -> Task] /\ command'[r].sent = "no"
        /\ \A q \in Run \ {r} : command'[q] = command[q]
    BY <1>1, <1>3, <1>5, CommandEnds
  <2> QED BY <1>1, <1>3, <1>4, <2>1, WorkStep
<1>6. CASE UNCHANGED command /\ work'[c].phase # "validated"
  <2>1. command' = [command EXCEPT ![r] = u]
    BY <1>6 DEF ProposalInv, ProposalTypeOK
  <2>2. StepHolds(u)'
    BY <1>1, <1>4, <1>6 DEF StepHolds
  <2>3. /\ CommandAt(r)' /\ command' \in [Run -> Task] /\ command'[r].sent = "no"
        /\ \A q \in Run \ {r} : command'[q] = command[q]
    BY <1>1, <1>3, <2>1, <2>2, CommandGoes
  <2> QED BY <1>1, <1>3, <1>4, <2>3, WorkStep
<1> QED BY <1>5, <1>6 DEF RecordWork

\* A validation begins on a candidate nobody works on.
LEMMA ValidateKeeps ==
  ASSUME ProposalInv, StoreTypeOK', NEW r \in Run, NEW c \in WorkId, NEW h \in Head,
         ValidateStart(r, c, h)
  PROVE  ProposalInv'
<1>1. /\ owner = r /\ mutex = NoRun /\ UNCHANGED <<tree, githubVars, number, faultVars>>
      /\ BeginWork(r, c, h) /\ Begin(r, "validate", c, h, "record")
  BY DEF ValidateStart, MayStart
<1>2. /\ UNCHANGED <<owner, mutex, journal>> /\ \A d \in WorkId \ {c} : work'[d] = work[d]
      /\ work'[c].phase = "selected"
  BY <1>1 DEF BeginWork, leaseVars, NoWork, ProposalInv, ProposalTypeOK, StoreTypeOK
<1> DEFINE t == NewTask("validate", c, h, "record")
<1>3. /\ t \in Task /\ t.step = "record" /\ t.sent = "no" /\ t.id = c /\ t.head = h
      /\ command' = [command EXCEPT ![r] = t]
  BY <1>1, NewTaskIs DEF NewTask, Begin, ProposalStep
<1> HIDE DEF t
<1>4. StepHolds(t)'
  BY <1>2, <1>3 DEF StepHolds
<1>5. /\ CommandAt(r)' /\ command' \in [Run -> Task] /\ command'[r].sent = "no"
      /\ \A q \in Run \ {r} : command'[q] = command[q]
  BY <1>1, <1>2, <1>3, <1>4, CommandGoes
<1> QED BY <1>1, <1>2, <1>5, WorkStep

\* A publication writes its journal where there is none and no branch is.
LEMMA AuthorizeKeeps ==
  ASSUME ProposalInv, StoreTypeOK', NEW r \in Run, NEW c \in WorkId, NEW h \in Head,
         PublishStart(r, c, h), AuthorizePush(r, c, NoHead, h), Begin(r, "publish", c, h, "push"),
         journal[c].phase = "none", Unresolved = {}, remote[c] = NoHead
  PROVE  ProposalInv'
<1>1. /\ owner = r /\ mutex = NoRun /\ UNCHANGED <<tree, githubVars, number, faultVars>>
      /\ UNCHANGED <<owner, mutex, work>> /\ WorkerOf[c] = "discovery" /\ CandidateAt(c)
  BY DEF PublishStart, MayStart, AuthorizePush, leaseVars, ProposalInv
<1>2. /\ journal'[c].phase = "authorized" /\ journal'[c].new = h
      /\ \A d \in WorkId \ {c} : journal'[d] = journal[d]
  BY DEF AuthorizePush, ProposalInv, ProposalTypeOK, StoreTypeOK
<1>3. /\ number' \in [WorkId -> {0, 1}] /\ number'[c] = number[c] /\ number[c] # 1
      /\ work[c].phase \notin {"pushed", "published"} /\ ~ UnderWay("label", c)
  BY <1>1 DEF ProposalInv, PullsTypeOK, CandidateAt, LabelIsDue
<1>4. /\ Unresolved \subseteq {c}
      /\ \A d \in WorkId \ {c} : /\ journal'[d] = journal[d] /\ work'[d] = work[d]
                                 /\ number'[d] = number[d]
  BY <1>1, <1>2
<1> DEFINE t == NewTask("publish", c, h, "push")
<1>5. /\ t \in Task /\ t.step = "push" /\ t.sent = "no" /\ t.id = c /\ t.head = h
      /\ command' = [command EXCEPT ![r] = t]
  BY <1>1, NewTaskIs DEF NewTask, Begin, ProposalStep, Request
<1> HIDE DEF t
<1>6. StepHolds(t)'
  BY <1>2, <1>5 DEF StepHolds
<1>7. /\ CommandAt(r)' /\ command' \in [Run -> Task] /\ command'[r].sent = "no"
      /\ \A q \in Run \ {r} : command'[q] = command[q]
  BY <1>1, <1>5, <1>6, CommandGoes
<1>8. ASSUME UnderWay("create", c)' => UnderWay("create", c),
             UnderWay("label", c)' => UnderWay("label", c)
      PROVE  CandidateAt(c)'
  <2>1. UNCHANGED <<pulls, remote>>
    BY <1>1 DEF githubVars
  <2> QED BY <1>1, <1>2, <1>3, <1>8, <2>1, CandidateMoves
<1> QED BY <1>1, <1>2, <1>3, <1>4, <1>7, <1>8, RecordStep

-----------------------------------------------------------------------------
(* Requests that arrive: from the command that sent them, or long after it *)
(* died.                                                                   *)

\* The pull requests of a candidate, after a step as before it.
LEMMA PullsAreNext ==
  ASSUME PullsTypeOK', NEW c \in WorkId
  PROVE  /\ HasPull(c)' => /\ pulls'[c] \in [{1} -> Pull] /\ pulls'[c][1] \in Pull
                           /\ DOMAIN pulls'[c] = {1}
         /\ ~ HasPull(c)' => DOMAIN pulls'[c] = {}
<1>1. pulls'[c] \in {<<>>} \cup [{1} -> Pull]
  BY DEF PullsTypeOK
<1>2. CASE pulls'[c] = <<>>
  <2>1. DOMAIN pulls'[c] = {}
    BY <1>2
  <2> QED BY <1>2, <2>1 DEF HasPull
<1>3. CASE pulls'[c] \in [{1} -> Pull]
  <2>1. DOMAIN pulls'[c] = {1} /\ pulls'[c][1] \in Pull
    BY <1>3
  <2> QED BY <1>3, <2>1 DEF HasPull
<1> QED BY <1>1, <1>2, <1>3

\* The open proposals stay while no pull request gets or loses its label.
LEMMA OpenStays ==
  ASSUME PullsTypeOK, PullsTypeOK',
         \A d \in WorkId : \/ pulls'[d] = pulls[d]
                           \/ ~ HasPull(d) /\ HasPull(d)' /\ ~ pulls'[d][1].label
                           \/ /\ HasPull(d) /\ HasPull(d)'
                              /\ pulls'[d][1].open = pulls[d][1].open
                              /\ pulls'[d][1].label = pulls[d][1].label
  PROVE  OpenProposals' = OpenProposals
<1>1. \A d \in WorkId, i \in {1, 2} :
         /\ i \in DOMAIN pulls[d] <=> i = 1 /\ HasPull(d)
         /\ i \in DOMAIN pulls'[d] <=> i = 1 /\ HasPull(d)'
  BY PullsAre, PullsAreNext
<1>2. ASSUME NEW d \in WorkId, NEW i \in {1, 2}
      PROVE  (i \in DOMAIN pulls'[d] /\ pulls'[d][i].open /\ pulls'[d][i].label)
               <=> (i \in DOMAIN pulls[d] /\ pulls[d][i].open /\ pulls[d][i].label)
  BY <1>1
<1> QED BY <1>2 DEF OpenProposals

\* What a request finds when it is carried out.
Due(request, c, h) ==
    /\ UnderWay(request, c)
    /\ journal[c].phase # "none"
    /\ request = "push" => h = journal[c].new
    /\ request \in {"comment", "label"} => number[c] = 1

\* A branch or a pull request that is new, a pull request that has got its
\* comment or its label.
Arrived(request, c, h) ==
    CASE request = "push" -> /\ remote[c] = NoHead /\ remote' = [remote EXCEPT ![c] = h]
                             /\ UNCHANGED pulls
      [] request = "create" -> /\ ~ HasPull(c) /\ HasPull(c)' /\ UNCHANGED remote
                               /\ remote[c] # NoHead
                               /\ pulls'[c][1] = NewPull(remote[c])
      [] request = "comment" -> /\ HasPull(c) /\ HasPull(c)' /\ UNCHANGED remote
                                /\ pulls'[c][1] = [pulls[c][1] EXCEPT !.comment = TRUE]
      [] request = "label" -> /\ HasPull(c) /\ HasPull(c)' /\ UNCHANGED remote
                              /\ pulls'[c][1] = [pulls[c][1] EXCEPT !.label = TRUE]

\* What a request that is carried out does to branch and pull request.
LEMMA CarryArrives ==
  ASSUME ProposalInv, NEW request \in Request, NEW c \in WorkId, NEW h \in Head,
         Due(request, c, h), Accepts(request, c), Carry(request, c, h)
  PROVE  /\ Arrived(request, c, h)
         /\ pulls' \in [WorkId -> {<<>>} \cup [{1} -> Pull]]
         /\ \A d \in WorkId \ {c} : pulls'[d] = pulls[d]
<1>0. /\ pulls \in [WorkId -> {<<>>} \cup [{1} -> Pull]] /\ CandidateAt(c)
      /\ remote \in [WorkId -> MaybeHead]
  BY DEF ProposalInv, PullsTypeOK, ProposalTypeOK
<1>1. CASE request = "push"
  BY <1>0, <1>1 DEF Carry, Accepts, Arrived, Due
<1>2. CASE request = "create"
  <2>1. remote[c] # NoHead /\ remote[c] \in Head
    BY <1>0, <1>2 DEF Accepts, MaybeHead
  <2>2. ~ HasPull(c)
    BY <1>0, <1>2 DEF CandidateAt, Due, Accepts, HasPull
  <2>3. Pulls(c) = 0
    BY <2>2, PullsAre DEF ProposalInv
  <2>4. NewPull(remote[c]) \in Pull
    BY <2>1 DEF NewPull, Pull
  <2>5. pulls' = [pulls EXCEPT ![c] = [i \in {1} |-> NewPull(remote[c])]]
    <3> DEFINE f == [i \in 1..(Pulls(c) + 1) |->
                       IF i <= Pulls(c) THEN pulls[c][i] ELSE NewPull(remote[c])]
               g == [i \in {1} |-> NewPull(remote[c])]
    <3>1. pulls' = [pulls EXCEPT ![c] = f]
      BY <1>2 DEF Carry, Opened
    <3>2. DOMAIN f = {1} /\ f[1] = NewPull(remote[c])
      BY <2>3
    <3>3. f = g
      BY <3>2
    <3> QED BY <3>1, <3>3
  <2>6. [i \in {1} |-> NewPull(remote[c])] \in [{1} -> Pull]
    BY <2>4
  <2> QED BY <1>0, <1>2, <2>1, <2>2, <2>5, <2>6 DEF Arrived, HasPull, Carry
<1>3. CASE request \in {"comment", "label"}
  <2>1. number[c] = 1 /\ HasPull(c)
    BY <1>0, <1>3 DEF Due, CandidateAt
  <2>2. pulls[c] \in [{1} -> Pull] /\ pulls[c][1] \in Pull
    BY <2>1, PullsAre DEF ProposalInv
  <2>3. PICK x \in Pull :
           /\ pulls' = [pulls EXCEPT ![c] = [pulls[c] EXCEPT ![1] = x]]
           /\ request = "comment" => x = [pulls[c][1] EXCEPT !.comment = TRUE]
           /\ request = "label" => x = [pulls[c][1] EXCEPT !.label = TRUE]
    <3>1. CASE request = "comment"
      <4> DEFINE x == [pulls[c][1] EXCEPT !.comment = TRUE]
      <4>1. x \in Pull
        BY <2>2 DEF Pull
      <4>2. pulls' = [pulls EXCEPT ![c] = [pulls[c] EXCEPT ![1] = x]]
        BY <1>0, <2>1, <2>2, <3>1 DEF Carry
      <4> QED BY <3>1, <4>1, <4>2
    <3>2. CASE request = "label"
      <4> DEFINE x == [pulls[c][1] EXCEPT !.label = TRUE]
      <4>1. x \in Pull
        BY <2>2 DEF Pull
      <4>2. pulls' = [pulls EXCEPT ![c] = [pulls[c] EXCEPT ![1] = x]]
        BY <1>0, <2>1, <2>2, <3>2 DEF Carry
      <4> QED BY <3>2, <4>1, <4>2
    <3> QED BY <1>3, <3>1, <3>2
  <2>4. [pulls[c] EXCEPT ![1] = x] \in [{1} -> Pull]
    BY <2>2, <2>3
  <2>5. pulls'[c] = [pulls[c] EXCEPT ![1] = x] /\ pulls'[c][1] = x /\ HasPull(c)'
    BY <1>0, <2>2, <2>3, <2>4 DEF HasPull
  <2> QED BY <1>0, <1>3, <2>1, <2>3, <2>4, <2>5, ZenonT(40) DEF Arrived, Carry
<1> QED BY <1>1, <1>2, <1>3 DEF Request

\* Another candidate is not touched, unless the room for its label is taken: and
\* then its journal would be open as well.
LEMMA ArrivesElsewhere ==
  ASSUME NEW d \in WorkId, CandidateAt(d), pulls'[d] = pulls[d], remote'[d] = remote[d],
         UNCHANGED <<storeVars, number>>,
         UnderWay("create", d)' => UnderWay("create", d),
         UnderWay("label", d)' => UnderWay("label", d) /\ OpenProposals' = OpenProposals
  PROVE  CandidateAt(d)'
<1>1. /\ HasPull(d)' <=> HasPull(d)
      /\ journal'[d] = journal[d] /\ work'[d] = work[d] /\ number'[d] = number[d]
  BY DEF HasPull, storeVars
<1>2. UnderWay("label", d)' => LabelIsDue(d)'
  BY <1>1 DEF CandidateAt, LabelIsDue, Counted
<1> QED BY <1>1, <1>2 DEF CandidateAt

\* The candidate itself can bear what arrives.
LEMMA ArrivesAt ==
  ASSUME ProposalInv, NEW request \in Request, NEW c \in WorkId, NEW h \in Head,
         Due(request, c, h), Arrived(request, c, h), UNCHANGED <<storeVars, number>>,
         UnderWay("create", c)' => UnderWay("create", c),
         UnderWay("label", c)' => UnderWay("label", c) /\ request # "label",
         request # "label" => OpenProposals' = OpenProposals
  PROVE  CandidateAt(c)'
<1>1. CandidateAt(c) /\ StoreTypeOK
      /\ (HasPull(c) => pulls[c][1] \in Pull)
      /\ remote[c] \in MaybeHead
  BY PullsAre DEF ProposalInv, ProposalTypeOK
<1>2. journal'[c] = journal[c] /\ work'[c] = work[c] /\ number'[c] = number[c]
  BY DEF storeVars
<1>3. CASE request = "push"
  <2>1. remote[c] = NoHead /\ remote'[c] = h /\ journal[c].new = h /\ UNCHANGED pulls
    BY <1>3 DEF Arrived, Due, ProposalInv, ProposalTypeOK
  <2>2. ~ HasPull(c)
    BY <1>1, <2>1, StoreAssumption DEF CandidateAt, Pull
  <2>3. ~ HasPull(c)'
    BY <2>1, <2>2 DEF HasPull
  <2>4. ~ UnderWay("label", c)'
    BY <1>1, <1>3, <2>1 DEF CandidateAt, LabelIsDue
  <2> QED BY <1>1, <1>2, <1>3, <2>1, <2>2, <2>3, <2>4 DEF CandidateAt, Due
<1>4. CASE request = "create"
  <2>1. /\ ~ HasPull(c) /\ HasPull(c)' /\ UNCHANGED remote /\ remote[c] # NoHead
        /\ pulls'[c][1].head = remote[c] /\ pulls'[c][1].open
        /\ ~ pulls'[c][1].label /\ ~ pulls'[c][1].accepted
    BY <1>4 DEF Arrived, NewPull
  <2>2. ~ UnderWay("label", c)'
    BY <1>1, <1>4, <2>1 DEF CandidateAt, LabelIsDue
  <2> QED BY <1>1, <1>2, <2>1, <2>2 DEF CandidateAt
<1>5. CASE request = "comment"
  <2>1. /\ HasPull(c) /\ HasPull(c)' /\ UNCHANGED remote
        /\ pulls'[c][1].head = pulls[c][1].head /\ pulls'[c][1].open = pulls[c][1].open
        /\ pulls'[c][1].label = pulls[c][1].label /\ pulls'[c][1].comment
        /\ pulls'[c][1].accepted = pulls[c][1].accepted
    BY <1>1, <1>5 DEF Arrived, Pull
  <2>2. UnderWay("label", c)' => LabelIsDue(c)'
    BY <1>1, <1>2, <1>5, <2>1 DEF CandidateAt, LabelIsDue, Counted
  <2> QED BY <1>1, <1>2, <2>1, <2>2 DEF CandidateAt
<1>6. CASE request = "label"
  <2>1. /\ HasPull(c) /\ HasPull(c)' /\ UNCHANGED remote
        /\ pulls'[c][1].head = pulls[c][1].head /\ pulls'[c][1].open = pulls[c][1].open
        /\ pulls'[c][1].label /\ pulls'[c][1].comment = pulls[c][1].comment
        /\ pulls'[c][1].accepted = pulls[c][1].accepted
    BY <1>1, <1>6 DEF Arrived, Pull
  <2>2. LabelIsDue(c)
    BY <1>1, <1>6 DEF Due, CandidateAt
  <2> QED BY <1>1, <1>2, <1>6, <2>1, <2>2 DEF CandidateAt, LabelIsDue
<1> QED BY <1>3, <1>4, <1>5, <1>6 DEF Request

\* What a command knows is still so: branches, pull requests, comments and labels
\* only come.
LEMMA StepArrives ==
  ASSUME ProposalInv, NEW request \in Request, NEW c \in WorkId, NEW h \in Head,
         Due(request, c, h), Arrived(request, c, h), UNCHANGED <<storeVars, number>>,
         \A d \in WorkId \ {c} : pulls'[d] = pulls[d],
         NEW t \in Task, StepHolds(t), t.id \in WorkId, t.head \in Head,
         UnderWay("label", t.id)' => UnderWay("label", t.id)
  PROVE  StepHolds(t)'
<1>0. /\ CandidateAt(c) /\ (HasPull(c) => pulls[c][1] \in Pull)
      /\ remote \in [WorkId -> MaybeHead] /\ journal' = journal /\ work' = work
  BY PullsAre DEF ProposalInv, ProposalTypeOK, storeVars
<1>1. CASE t.id # c
  <2>1. pulls'[t.id] = pulls[t.id] /\ remote'[t.id] = remote[t.id]
    BY <1>0, <1>1 DEF Arrived, Request
  <2> QED BY <1>0, <2>1 DEF StepHolds, HasPull
<1>2. CASE t.id = c /\ request = "push"
  <2>1. remote[c] = NoHead /\ remote'[c] = h /\ UNCHANGED pulls
    BY <1>0, <1>2 DEF Arrived
  <2>2. h = journal[c].new
    BY <1>2 DEF Due
  <2> QED BY <1>0, <1>2, <2>1, <2>2, StoreAssumption DEF StepHolds, HasPull
<1>3. CASE t.id = c /\ request = "create"
  <2>1. ~ HasPull(c) /\ HasPull(c)' /\ UNCHANGED remote
    BY <1>3 DEF Arrived
  <2>2. journal[c].phase \notin {"pr-created", "published"}
    BY <1>0, <2>1 DEF CandidateAt
  <2> QED BY <1>0, <1>3, <2>1, <2>2 DEF StepHolds
<1>4. CASE t.id = c /\ request = "comment"
  <2>1. /\ HasPull(c) /\ HasPull(c)' /\ UNCHANGED remote
        /\ pulls'[c][1].label = pulls[c][1].label /\ pulls'[c][1].comment
        /\ pulls'[c][1].accepted = pulls[c][1].accepted
    BY <1>0, <1>4 DEF Arrived, Pull
  <2> QED BY <1>0, <1>4, <2>1 DEF StepHolds
<1>5. CASE t.id = c /\ request = "label"
  <2>1. /\ HasPull(c) /\ HasPull(c)' /\ UNCHANGED remote
        /\ pulls'[c][1].label /\ pulls'[c][1].comment = pulls[c][1].comment
        /\ pulls'[c][1].accepted = pulls[c][1].accepted
    BY <1>0, <1>5 DEF Arrived, Pull
  <2>2. UnderWay("label", c)
    BY <1>5 DEF Due
  <2> QED BY <1>0, <1>5, <2>1, <2>2 DEF StepHolds
<1> QED BY <1>1, <1>2, <1>3, <1>4, <1>5 DEF Request

\* The command whose request has been carried out sees its effect.
LEMMA StepDone ==
  ASSUME NEW t \in Task, StepHolds(t)', t.sent = "sent", t.step \in Request,
         Arrived(t.step, t.id, t.head), t.step = "push" => remote'[t.id] = t.head,
         t.step \in {"comment", "label"} => pulls[t.id][1] \in Pull
  PROVE  StepHolds([t EXCEPT !.sent = "done"])'
<1> DEFINE v == [t EXCEPT !.sent = "done"]
<1>1. /\ v.step = t.step /\ v.id = t.id /\ v.head = t.head /\ v.sent = "done"
      /\ v.labelled = t.labelled /\ v.goal = t.goal
  BY DEF Task
<1>2. /\ t.step = "create" => HasPull(t.id)'
      /\ t.step = "comment" => pulls'[t.id][1].comment
      /\ t.step = "label" => pulls'[t.id][1].label
  BY DEF Arrived, Pull
<1> SUFFICES StepHolds(v)'
  OBVIOUS
<1> HIDE DEF v
<1> QED BY <1>1, <1>2 DEF StepHolds, Request

\* The cap was counted before the label was sent, and no other proposal can have
\* got one since.
LEMMA CapArrives ==
  ASSUME ProposalInv, PullsTypeOK', NEW request \in Request, NEW c \in WorkId, NEW h \in Head,
         Due(request, c, h), Arrived(request, c, h),
         \A d \in WorkId \ {c} : pulls'[d] = pulls[d]
  PROVE  /\ Capped'
         /\ request # "label" => OpenProposals' = OpenProposals
<1> USE DEF ProposalInv
<1>1. CASE request # "label"
  <2>1. ASSUME NEW d \in WorkId
        PROVE  \/ pulls'[d] = pulls[d]
               \/ ~ HasPull(d) /\ HasPull(d)' /\ ~ pulls'[d][1].label
               \/ /\ HasPull(d) /\ HasPull(d)'
                  /\ pulls'[d][1].open = pulls[d][1].open
                  /\ pulls'[d][1].label = pulls[d][1].label
    <3>1. CASE d # c
      BY <3>1
    <3>2. CASE d = c /\ request = "push"
      BY <3>2 DEF Arrived
    <3>3. CASE d = c /\ request = "create"
      BY <3>3 DEF Arrived, NewPull
    <3>4. CASE d = c /\ request = "comment"
      BY <3>4, PullsAre DEF Arrived, Pull
    <3> QED BY <1>1, <3>1, <3>2, <3>3, <3>4 DEF Request
  <2>2. OpenProposals' = OpenProposals
    BY <2>1, OpenStays
  <2> QED BY <2>2 DEF Capped
<1>2. CASE request = "label"
  <2>1. LabelIsDue(c)
    BY <1>2 DEF Due, CandidateAt
  <2>2. Counted(c, TRUE) = OpenProposals
    <3>1. ASSUME NEW p \in OpenProposals PROVE p[1] # c
      BY <2>1, OpenIs DEF LabelIsDue
    <3> QED BY <3>1 DEF Counted
  <2>3. OpenProposals' \subseteq OpenProposals \cup {<<c, 1>>}
    <3>1. ASSUME NEW d \in WorkId, NEW i \in {1, 2}, i \in DOMAIN pulls'[d], <<d, i>> # <<c, 1>>
          PROVE  pulls'[d] = pulls[d]
      <4>1. i = 1
        BY <3>1, PullsAreNext
      <4> QED BY <3>1, <4>1
    <3> QED BY <3>1 DEF OpenProposals
  <2>4. IsFiniteSet(OpenProposals) /\ Cardinality(OpenProposals) \in Nat
        /\ Cardinality(OpenProposals) < Cap
    BY <2>1, <2>2, FS_CardinalityType DEF Capped, LabelIsDue
  <2>5. IsFiniteSet(OpenProposals \cup {<<c, 1>>})
        /\ Cardinality(OpenProposals \cup {<<c, 1>>}) <= Cap
    BY <2>4, FS_AddElement, ProposalAssumption
  <2>6. IsFiniteSet(OpenProposals') /\ Cardinality(OpenProposals')
           <= Cardinality(OpenProposals \cup {<<c, 1>>})
    BY <2>3, <2>5, FS_Subset
  <2>7. Cardinality(OpenProposals') \in Nat
        /\ Cardinality(OpenProposals \cup {<<c, 1>>}) \in Nat
    BY <2>5, <2>6, FS_CardinalityType
  <2> QED BY <1>2, <2>5, <2>6, <2>7, ProposalAssumption DEF Capped
<1> QED BY <1>1, <1>2

\* All but the commands, after a request has been carried out.
LEMMA ArrivalKeeps ==
  ASSUME ProposalInv, NEW request \in Request, NEW c \in WorkId, NEW h \in Head,
         Due(request, c, h), Accepts(request, c), Carry(request, c, h),
         UNCHANGED <<storeVars, tree, number, deaths>>, orphans' \subseteq orphans,
         command' \in [Run -> Task],
         \A d \in WorkId : /\ UnderWay("create", d)' => UnderWay("create", d)
                           /\ UnderWay("label", d)' => UnderWay("label", d),
         request = "label" => ~ UnderWay("label", c)',
         \A r \in Run : CommandAt(r)', OneLabel'
  PROVE  ProposalInv'
<1>1. /\ Arrived(request, c, h)
      /\ pulls' \in [WorkId -> {<<>>} \cup [{1} -> Pull]]
      /\ \A d \in WorkId \ {c} : pulls'[d] = pulls[d]
  BY CarryArrives
<1>2. PullsTypeOK'
  BY <1>1 DEF ProposalInv, PullsTypeOK
<1>3. StoreTypeOK' /\ mutex' \in {NoRun, owner'}
  BY DEF ProposalInv, ProposalTypeOK, StoreTypeOK, storeVars, leaseVars, ciVars, intentVars
<1>4. remote' \in [WorkId -> MaybeHead] /\ \A d \in WorkId \ {c} : remote'[d] = remote[d]
  BY <1>1 DEF Arrived, ProposalInv, ProposalTypeOK, MaybeHead, Request
<1>5. ASSUME NEW d \in WorkId
      PROVE  /\ \A i \in DOMAIN pulls'[d] : pulls'[d][i] \in Pull
             /\ number'[d] \in 0..Cardinality(DOMAIN pulls'[d])
  <2>1. CASE HasPull(d)'
    <3>1. DOMAIN pulls'[d] = {1} /\ pulls'[d][1] \in Pull
      BY <1>2, <2>1, PullsAreNext
    <3>2. Cardinality(DOMAIN pulls'[d]) = 1
      BY <3>1, FS_Singleton
    <3> QED BY <3>1, <3>2 DEF ProposalInv, PullsTypeOK
  <2>2. CASE ~ HasPull(d)'
    <3>1. DOMAIN pulls'[d] = {}
      BY <1>2, <2>2, PullsAreNext
    <3>2. Cardinality(DOMAIN pulls'[d]) = 0
      BY <3>1, FS_EmptySet
    <3>3. ~ HasPull(d)
      BY <1>1, <2>2 DEF Arrived, Request, HasPull
    <3>4. number[d] = 0
      BY <3>3 DEF ProposalInv, CandidateAt, PullsTypeOK
    <3> QED BY <3>1, <3>2, <3>4
  <2> QED BY <2>1, <2>2
<1>6. ProposalTypeOK'
  <2>1. catalog' \subseteq WorkId
    BY DEF Carry, ProposalInv, ProposalTypeOK
  <2> QED BY <1>3, <1>4, <1>5, <2>1 DEF ProposalInv, ProposalTypeOK, Task, Pull, Pulls
<1>7. Capped' /\ (request # "label" => OpenProposals' = OpenProposals)
  BY <1>1, <1>2, CapArrives
<1>8. ASSUME NEW d \in WorkId PROVE CandidateAt(d)'
  <2>1. CASE d = c
    BY <1>1, <1>7, <2>1, ArrivesAt
  <2>2. CASE d # c
    <3>1. request = "label" => ~ UnderWay("label", d)
      <4> SUFFICES ASSUME UnderWay("label", c), UnderWay("label", d) PROVE FALSE
        BY DEF Due
      <4>1. LabelIsDue(c) /\ LabelIsDue(d)
        BY DEF ProposalInv, CandidateAt
      <4>2. c \in Unresolved /\ d \in Unresolved
        BY <4>1 DEF LabelIsDue, Unresolved
      <4> QED BY <2>2, <4>2 DEF ProposalInv, OneUnresolved
    <3>2. UnderWay("label", d)' => UnderWay("label", d) /\ OpenProposals' = OpenProposals
      BY <1>7, <3>1
    <3>3. CandidateAt(d) /\ pulls'[d] = pulls[d] /\ remote'[d] = remote[d]
      BY <1>1, <1>4, <2>2 DEF ProposalInv
    <3> QED BY <3>2, <3>3, ArrivesElsewhere
  <2> QED BY <2>1, <2>2
<1>9. OneUnresolved' /\ OrphansKnown'
  BY JournalsStay DEF ProposalInv, storeVars
<1> QED BY <1>2, <1>3, <1>6, <1>7, <1>8, <1>9 DEF ProposalInv

\* Nothing arrives: a request was refused by the server, or is lost.
LEMMA FewerOrphans ==
  ASSUME ProposalInv, orphans' \subseteq orphans,
         UNCHANGED <<storeVars, tree, githubVars, number, command, deaths>>
  PROVE  ProposalInv'
<1>0. /\ StoreTypeOK' /\ mutex' \in {NoRun, owner'} /\ UNCHANGED <<owner, mutex, work, journal>>
      /\ UNCHANGED <<pulls, remote, catalog>>
  BY DEF ProposalInv, ProposalTypeOK, StoreTypeOK, storeVars, leaseVars, ciVars, intentVars,
         githubVars
<1>1. ProposalTypeOK' /\ PullsTypeOK'
  BY <1>0 DEF ProposalInv, ProposalTypeOK, PullsTypeOK, Pulls
<1>2. ASSUME NEW c \in WorkId, NEW request PROVE UnderWay(request, c)' => UnderWay(request, c)
  BY DEF UnderWay
<1>3. ASSUME NEW c \in WorkId PROVE CandidateAt(c)'
  BY <1>0, <1>2, CandidateStays DEF ProposalInv
<1>4. ASSUME NEW r \in Run PROVE CommandAt(r)'
  <2> PICK u \in Task : u = command[r]
    BY CommandKnows
  <2>1. /\ command'[r] = u
        /\ u.step # "idle" => u.id \in WorkId /\ u.head \in Head
        /\ u.sent # "no" <=> mutex' = r
        /\ u.sent # "no" => u.step \in Request
        /\ owner = r => StepHolds(u)
    BY <1>0 DEF ProposalInv, CommandAt
  <2>2. ASSUME owner' = r PROVE StepHolds(u)'
    <3>1. u.step # "idle" => (UnderWay("label", u.id)' => UnderWay("label", u.id))
      BY <1>2, <2>1
    <3> QED BY <1>0, <2>1, <2>2, <3>1, StepStays
  <2> QED BY <2>1, <2>2, CommandIs
<1>5. OneUnresolved' /\ OrphansKnown'
  BY <1>0, JournalsStay DEF ProposalInv
<1>6. Capped' /\ OneLabel'
  BY <1>0, CapStays DEF ProposalInv, OneLabel
<1> QED BY <1>0, <1>1, <1>3, <1>4, <1>5, <1>6 DEF ProposalInv

\* The request of a dead command.
LEMMA OrphanKeeps ==
  ASSUME ProposalInv, OrphanArrives \/ OrphanIsLost
  PROVE  ProposalInv'
<1>1. PICK q \in orphans :
         /\ orphans' = orphans \ {q}
         /\ UNCHANGED <<storeVars, tree, number, command, deaths>>
         /\ \/ Accepts(q.request, q.id) /\ Carry(q.request, q.id, q.head)
            \/ UNCHANGED githubVars
  BY DEF OrphanArrives, OrphanIsLost
<1>2. CASE UNCHANGED githubVars
  BY <1>1, <1>2, FewerOrphans
<1>3. CASE Accepts(q.request, q.id) /\ Carry(q.request, q.id, q.head)
  <2> PICK request \in Request, c \in WorkId, h \in Head :
           q.request = request /\ q.id = c /\ q.head = h
    BY DEF ProposalInv, ProposalTypeOK
  <2>1. Due(request, c, h)
    BY DEF Due, UnderWay, ProposalInv, OrphansKnown
  <2>2. command' \in [Run -> Task]
    BY <1>1 DEF ProposalInv, ProposalTypeOK, Task
  <2>3. ASSUME NEW d \in WorkId, NEW x PROVE UnderWay(x, d)' => UnderWay(x, d)
    BY <1>1 DEF UnderWay
  <2>4. request = "label" => ~ UnderWay("label", c)'
    BY <1>1 DEF UnderWay, ProposalInv, OneLabel
  <2>5. Arrived(request, c, h) /\ \A d \in WorkId \ {c} : pulls'[d] = pulls[d]
    BY <1>3, <2>1, CarryArrives
  <2>6. ASSUME NEW r \in Run PROVE CommandAt(r)'
    <3> PICK u \in Task : u = command[r]
      BY CommandKnows
    <3>1. /\ command'[r] = u
          /\ u.step # "idle" => u.id \in WorkId /\ u.head \in Head
          /\ u.sent # "no" <=> mutex' = r
          /\ u.sent # "no" => u.step \in Request
          /\ owner' = r => StepHolds(u)
      BY <1>1 DEF ProposalInv, CommandAt, storeVars, leaseVars
    <3>2. ASSUME owner' = r PROVE StepHolds(u)'
      <4>1. CASE u.step = "idle"
        BY <4>1 DEF StepHolds
      <4>2. CASE u.step # "idle"
        <5>1. UnderWay("label", u.id)' => UnderWay("label", u.id)
          BY <2>3, <3>1, <4>2
        <5> QED BY <1>1, <2>1, <2>5, <3>1, <3>2, <4>2, <5>1, StepArrives
      <4> QED BY <4>1, <4>2
    <3> QED BY <3>1, <3>2, CommandIs
  <2>7. OneLabel'
    BY <1>1 DEF ProposalInv, OneLabel
  <2> QED BY <1>1, <1>3, <2>1, <2>2, <2>3, <2>4, <2>6, <2>7, ArrivalKeeps
<1> QED BY <1>1, <1>2, <1>3

\* The request of a command that still waits for it.
LEMMA RequestKeeps ==
  ASSUME ProposalInv, StoreTypeOK', NEW r \in Run, RequestArrives(r)
  PROVE  ProposalInv'
<1> PICK u \in Task : u = command[r]
  BY CommandKnows
<1>1. /\ u.sent = "sent" /\ mutex = r /\ owner = r /\ u.step \in Request /\ u.step # "idle"
      /\ UNCHANGED <<storeVars, tree, number, faultVars>>
      /\ UNCHANGED <<owner, mutex, work, journal, orphans, deaths>> /\ StepHolds(u)
      /\ u.id \in WorkId /\ u.head \in Head
  BY CommandKnows, StoreAssumption
     DEF RequestArrives, ProposalInv, CommandAt, storeVars, leaseVars, faultVars, Request
<1> PICK c \in WorkId, h \in Head : c = u.id /\ h = u.head
  BY <1>1
<1>2. CASE ~ Accepts(u.step, c) /\ UNCHANGED githubVars
           /\ command' = [command EXCEPT ![r].sent = "refused"]
  <2> DEFINE t == [u EXCEPT !.sent = "refused"]
  <2>1. /\ t \in Task /\ t.step = u.step /\ t.sent = "refused" /\ t.id = u.id /\ t.head = u.head
        /\ t.labelled = u.labelled
    BY DEF Task
  <2>2. command' = [command EXCEPT ![r] = t]
    BY <1>2 DEF ProposalInv, ProposalTypeOK, Task
  <2> HIDE DEF t
  <2>3. StepHolds(t)
    BY <1>1, <2>1 DEF StepHolds, Request
  <2> QED BY <1>1, <1>2, <2>1, <2>2, <2>3, CommandStep, StoreAssumption DEF ProposalInv
<1>3. CASE Accepts(u.step, c) /\ Carry(u.step, c, h)
           /\ command' = [command EXCEPT ![r].sent = "done"]
  <2> PICK request \in Request : request = u.step
    BY <1>1
  <2>1. CandidateAt(c) /\ UnderWay(request, c)
    BY <1>1 DEF ProposalInv, UnderWay
  <2>2. Due(request, c, h)
    BY <1>1, <2>1 DEF Due, StepHolds, CandidateAt, Request
  <2>3. Arrived(request, c, h) /\ \A d \in WorkId \ {c} : pulls'[d] = pulls[d]
    BY <1>3, <2>2, CarryArrives
  <2> DEFINE v == [u EXCEPT !.sent = "done"]
  <2>4. /\ v \in Task /\ v.step = u.step /\ v.sent = "done" /\ v.id = u.id /\ v.head = u.head
    BY DEF Task
  <2>5. command' = [command EXCEPT ![r] = v]
    BY <1>3 DEF ProposalInv, ProposalTypeOK, Task
  <2>6. /\ command' \in [Run -> Task] /\ command'[r] = v
        /\ \A q \in Run \ {r} : command'[q] = command[q]
    BY <2>4, <2>5 DEF ProposalInv, ProposalTypeOK, Task
  <2>7. ASSUME NEW d \in WorkId, NEW x PROVE UnderWay(x, d)' => UnderWay(x, d)
    BY <1>1, <2>4, <2>6, ZenonT(40) DEF UnderWay
  <2>8. request = "label" => ~ UnderWay("label", c)'
    <3> SUFFICES ASSUME request = "label", UnderWay("label", c)' PROVE FALSE
      OBVIOUS
    <3>1. \A q \in Run \ {r} : command[q].sent = "no"
      BY <1>1, CommandKnows
    <3>2. PICK q \in orphans : q.request = "label" /\ q.id = c
      BY <1>1, <2>4, <2>6, <3>1 DEF UnderWay
    <3> QED BY <1>1, <3>2 DEF ProposalInv, OneLabel
  <2>9. StepHolds(v)'
    <3>1. StepHolds(u)'
      BY <1>1, <2>2, <2>3, <2>7, StepArrives
    <3>2. u.step = "push" => remote'[c] = h
      BY <2>3 DEF Arrived, ProposalInv, ProposalTypeOK
    <3>3. u.step \in {"comment", "label"} => pulls[c][1] \in Pull
      BY <2>1, <2>2, PullsAre DEF Due, CandidateAt, ProposalInv
    <3> QED BY <1>1, <2>3, <3>1, <3>2, <3>3, StepDone
  <2> HIDE DEF v
  <2>10. ASSUME NEW q \in Run PROVE CommandAt(q)'
    <3>1. CASE q = r
      BY <1>1, <2>4, <2>6, <2>9, <3>1, CommandIs
    <3>2. CASE q # r
      <4> PICK t \in Task : t = command[q]
        BY CommandKnows
      <4>1. /\ command'[q] = t
            /\ t.step # "idle" => t.id \in WorkId /\ t.head \in Head
            /\ t.sent # "no" <=> mutex' = q
            /\ t.sent # "no" => t.step \in Request
        BY <1>1, <2>6, <3>2 DEF ProposalInv, CommandAt
      <4> QED BY <1>1, <3>2, <4>1, CommandIs
    <3> QED BY <3>1, <3>2
  <2>11. OneLabel'
    BY <1>1, <2>4, <2>6 DEF ProposalInv, OneLabel
  <2> QED BY <1>1, <1>3, <2>2, <2>6, <2>7, <2>8, <2>10, <2>11, ArrivalKeeps
<1> QED BY <1>1, <1>2, <1>3 DEF RequestArrives

-----------------------------------------------------------------------------
(* A run has its lease once: a run that gets it has no command yet.        *)

RunsUsed == \A r \in Run : command[r].step # "idle" \/ owner = r => r \in used

\* A step without a new owner or a new command.
LEMMA NothingBegins ==
  ASSUME ProposalInv, RunsUsed, UNCHANGED <<owner, used, command>>
  PROVE  RunsUsed'
BY DEF RunsUsed

\* The owner of the lease, or a run that has a command, goes on.
LEMMA OwnerGoesOn ==
  ASSUME ProposalInv, RunsUsed, NEW r \in Run, UNCHANGED <<owner, used>>,
         command[r].step # "idle" \/ owner = r,
         NEW t, command' = [command EXCEPT ![r] = t]
  PROVE  RunsUsed'
<1>1. \A q \in Run : command'[q] = IF q = r THEN t ELSE command[q]
  BY DEF ProposalInv, ProposalTypeOK
<1> QED BY <1>1 DEF RunsUsed

\* A run has a command only while, or after, it has the lease.
LEMMA UsedNext ==
  ASSUME ProposalInv, RunsUsed, [ProposalNext]_proposalVars
  PROVE  RunsUsed'
<1> USE DEF storeVars, leaseVars
<1>1. CASE LeaseMoves
  <2>1. UNCHANGED command /\ used \subseteq used' /\ owner' \in {NoRun} \cup (used' \ used)
    BY <1>1 DEF LeaseMoves, LoseLease, AcquireLease
  <2> QED BY <2>1, StoreAssumption DEF RunsUsed
<1>2. CASE \/ Checkout \/ OrphanArrives \/ OrphanIsLost \/ UNCHANGED proposalVars
           \/ \E c \in WorkId : \E i \in DOMAIN pulls[c] : OwnerDecidesOn(c, i)
  BY <1>2, NothingBegins
     DEF Checkout, OrphanArrives, OrphanIsLost, proposalVars, OwnerDecidesOn
<1>3. ASSUME NEW r \in Run, NEW c \in WorkId, RecoverStart(r, c) PROVE RunsUsed'
  <2>1. owner = r /\ UNCHANGED <<owner, used>>
    BY <1>3 DEF RecoverStart, MayStart, AdoptPush
  <2> QED BY <1>3, <2>1, NothingBegins, OwnerGoesOn DEF RecoverStart, Begin
<1>4. ASSUME NEW r \in Run, NEW c \in WorkId, NEW h \in Head,
             ValidateStart(r, c, h) \/ PublishStart(r, c, h)
      PROVE  RunsUsed'
  <2>1. owner = r /\ UNCHANGED <<owner, used>>
    BY <1>4 DEF ValidateStart, PublishStart, MayStart, BeginWork, AuthorizePush
  <2> QED BY <1>4, <2>1, OwnerGoesOn DEF ValidateStart, PublishStart, Begin
<1>5. ASSUME NEW r \in Run, Publish(r) PROVE RunsUsed'
  <2> USE DEF AtStep, Send, EnterPushGuard, AdvancePush, RecordPull, GoStep, Done
  <2>1. CASE PushBranch(r)
    BY <2>1, NothingBegins, OwnerGoesOn DEF PushBranch
  <2>2. CASE BranchPushed(r) \/ Settle(r)
    BY <2>2, NothingBegins, OwnerGoesOn DEF BranchPushed, Settle
  <2>3. CASE CreatePull(r) \/ PullCreated(r)
    BY <2>3, NothingBegins, OwnerGoesOn DEF CreatePull, PullCreated
  <2>4. CASE Present(r)
    <3>1. owner = r /\ UNCHANGED <<owner, used>>
      BY <2>4 DEF Present
    <3>2. \A q \in Run \ {r} : command'[q] = command[q]
      BY <2>4 DEF Present, ProposalInv, ProposalTypeOK
    <3> QED BY <3>1, <3>2 DEF RunsUsed
  <2>5. CASE Comment(r) \/ Label(r)
    BY <2>5, NothingBegins, OwnerGoesOn DEF Comment, Label
  <2>6. CASE Finish(r)
    BY <2>6, NothingBegins, OwnerGoesOn DEF Finish, SaveWork
  <2> QED BY <1>5, <2>1, <2>2, <2>3, <2>4, <2>5, <2>6 DEF Publish
<1>6. ASSUME NEW r \in Run, RecordWork(r) PROVE RunsUsed'
  BY <1>6, NothingBegins, OwnerGoesOn DEF RecordWork, SaveWork, AtStep, Done
<1>7. ASSUME NEW r \in Run, RequestArrives(r) PROVE RunsUsed'
  <2>1. command[r].step # "idle"
    BY <1>7 DEF RequestArrives, ProposalInv, CommandAt, Request
  <2> QED BY <1>7, <2>1, OwnerGoesOn DEF RequestArrives
<1>8. ASSUME NEW r \in Run, RequestReturns(r) PROVE RunsUsed'
  <2>1. command[r].step # "idle"
    BY <1>8 DEF RequestReturns, ProposalInv, CommandAt, Request
  <2> QED BY <1>8, <2>1, OwnerGoesOn DEF RequestReturns, LeaveGuard, Done
<1>9. ASSUME NEW r \in Run, Refuse(r) \/ Die(r) PROVE RunsUsed'
  <2>1. UNCHANGED <<owner, used>> /\ command' = [command EXCEPT ![r] = NoTask]
    BY <1>9 DEF Refuse, Die, Done, LeaveGuard
  <2>2. \A q \in Run : command'[q] = IF q = r THEN NoTask ELSE command[q]
    BY <2>1 DEF ProposalInv, ProposalTypeOK
  <2> QED BY <2>1, <2>2, NoTaskIs DEF RunsUsed
<1> QED BY <1>1, <1>2, <1>3, <1>4, <1>5, <1>6, <1>7, <1>8, <1>9 DEF ProposalNext

-----------------------------------------------------------------------------
(* Around the commands.                                                    *)

\* The lease is lost, or acquired by a run that never had it.
LEMMA LeaseKeeps ==
  ASSUME ProposalInv, StoreTypeOK', RunsUsed, LeaseMoves
  PROVE  ProposalInv'
<1>1. /\ UNCHANGED <<pulls, remote, catalog, number, command, orphans, deaths, tree>>
      /\ UNCHANGED <<mutex, work, journal>> /\ mutex = NoRun
      /\ owner' \in {NoRun} \cup (Run \ used)
  BY DEF LeaseMoves, LoseLease, AcquireLease, githubVars, faultVars
<1>2. ProposalTypeOK' /\ PullsTypeOK'
  BY <1>1 DEF ProposalInv, ProposalTypeOK, PullsTypeOK, Pulls
<1>3. ASSUME NEW c \in WorkId, NEW request PROVE UnderWay(request, c)' => UnderWay(request, c)
  BY <1>1 DEF UnderWay
<1>4. ASSUME NEW c \in WorkId PROVE CandidateAt(c)'
  BY <1>1, <1>3, CandidateStays DEF ProposalInv
<1>5. ASSUME NEW r \in Run PROVE CommandAt(r)'
  <2> PICK u \in Task : u = command[r]
    BY CommandKnows
  <2>1. /\ command'[r] = u
        /\ u.step # "idle" => u.id \in WorkId /\ u.head \in Head
        /\ u.sent # "no" <=> mutex' = r
        /\ u.sent # "no" => u.step \in Request
    BY <1>1 DEF ProposalInv, CommandAt
  <2>2. ASSUME owner' = r PROVE StepHolds(u)'
    <3>1. u.step = "idle"
      BY <1>1, <2>2, StoreAssumption DEF RunsUsed
    <3> QED BY <3>1 DEF StepHolds
  <2> QED BY <2>1, <2>2, CommandIs
<1>6. OneUnresolved' /\ OrphansKnown'
  BY <1>1, JournalsStay DEF ProposalInv
<1>7. Capped' /\ OneLabel'
  BY <1>1, CapStays DEF ProposalInv, OneLabel
<1> QED BY <1>1, <1>2, <1>4, <1>5, <1>6, <1>7 DEF ProposalInv

\* The agent commits, and nothing happens.
LEMMA CheckoutKeeps ==
  ASSUME ProposalInv, Checkout \/ UNCHANGED proposalVars
  PROVE  ProposalInv'
<1>1. /\ UNCHANGED <<storeVars, githubVars, number, command, faultVars>>
      /\ tree' \in Head
  BY DEF Checkout, proposalVars, ProposalInv, ProposalTypeOK
<1>2. /\ UNCHANGED <<pulls, remote, catalog, number, command, orphans, deaths>>
      /\ UNCHANGED <<owner, mutex, work, journal>> /\ StoreTypeOK'
  BY <1>1 DEF ProposalInv, ProposalTypeOK, StoreTypeOK, storeVars, leaseVars, ciVars,
              intentVars, githubVars, faultVars
<1>3. ProposalTypeOK' /\ PullsTypeOK'
  BY <1>1, <1>2 DEF ProposalInv, ProposalTypeOK, PullsTypeOK, Pulls
<1>4. ASSUME NEW c \in WorkId, NEW request
      PROVE  UnderWay(request, c)' => UnderWay(request, c)
  BY <1>2 DEF UnderWay
<1>5. ASSUME NEW c \in WorkId PROVE CandidateAt(c)'
  BY <1>2, <1>4, CandidateStays DEF ProposalInv
<1>6. ASSUME NEW r \in Run PROVE CommandAt(r)'
  <2> PICK u \in Task : u = command[r]
    BY CommandKnows
  <2>1. /\ command'[r] = u
        /\ u.step # "idle" => u.id \in WorkId /\ u.head \in Head
        /\ u.sent # "no" <=> mutex' = r
        /\ u.sent # "no" => u.step \in Request
        /\ owner = r => StepHolds(u)
    BY <1>2 DEF ProposalInv, CommandAt
  <2>2. ASSUME owner' = r PROVE StepHolds(u)'
    <3>1. u.step # "idle" => (UnderWay("label", u.id)' => UnderWay("label", u.id))
      BY <1>4, <2>1
    <3> QED BY <1>2, <2>1, <2>2, <3>1, StepStays
  <2> QED BY <2>1, <2>2, CommandIs
<1>7. OneUnresolved' /\ OrphansKnown'
  BY <1>2, JournalsStay DEF ProposalInv
<1>8. Capped' /\ OneLabel'
  BY <1>2, CapStays DEF ProposalInv, OneLabel
<1> QED BY <1>2, <1>3, <1>5, <1>6, <1>7, <1>8 DEF ProposalInv

\* A dead command leaves the request it waited for to the network.
LEMMA DieKeeps ==
  ASSUME ProposalInv, StoreTypeOK', NEW r \in Run, Die(r)
  PROVE  ProposalInv'
<1> PICK u \in Task : u = command[r]
  BY CommandKnows
<1>1. /\ UNCHANGED <<pulls, remote, catalog, number, tree>>
      /\ UNCHANGED <<owner, work, journal>>
      /\ mutex' = IF mutex = r THEN NoRun ELSE mutex
  BY DEF Die, LeaveGuard, githubVars, storeVars, leaseVars
<1>2. /\ command'[r] = NoTask /\ command' \in [Run -> Task]
      /\ \A q \in Run \ {r} : command'[q] = command[q]
  BY NoTaskIs DEF Die, Done, ProposalInv, ProposalTypeOK, Task
<1>3. deaths' \in 0..MaxDeaths
  <2>1. deaths \in 0..MaxDeaths /\ deaths < MaxDeaths /\ deaths' = deaths + 1
    BY DEF Die, ProposalInv, ProposalTypeOK
  <2> QED BY <2>1, ProposalAssumption
<1> DEFINE left == [request |-> u.step, id |-> u.id, head |-> u.head]
<1>4. orphans' = orphans \/ (u.sent = "sent" /\ orphans' = orphans \cup {left})
  BY DEF Die
<1>5. u.sent = "sent" =>
         /\ mutex = r /\ owner = r /\ u.step \in Request /\ u.id \in WorkId /\ u.head \in Head
         /\ StepHolds(u) /\ CandidateAt(u.id)
  BY CommandKnows, StoreAssumption DEF ProposalInv, CommandAt, Request
<1>6. left.request = u.step /\ left.id = u.id /\ left.head = u.head
  OBVIOUS
<1>7. u.sent = "sent" => left \in [request : Request, id : WorkId, head : Head]
  BY <1>5
<1> HIDE DEF left
<1>8. ProposalTypeOK' /\ PullsTypeOK'
  <2>1. orphans' \subseteq [request : Request, id : WorkId, head : Head]
    BY <1>4, <1>7 DEF ProposalInv, ProposalTypeOK
  <2> QED BY <1>1, <1>2, <1>3, <2>1 DEF ProposalInv, ProposalTypeOK, PullsTypeOK, Pulls, Task
<1>9. ASSUME NEW c \in WorkId, NEW x PROVE UnderWay(x, c)' => UnderWay(x, c)
  BY <1>2, <1>4, <1>6, NoTaskIs DEF UnderWay
<1>10. ASSUME NEW c \in WorkId PROVE CandidateAt(c)'
  BY <1>1, <1>9, CandidateStays DEF ProposalInv
<1>11. ASSUME NEW q \in Run PROVE CommandAt(q)'
  <2>1. CASE q = r
    <3> PICK t \in Task : t = NoTask /\ t.step = "idle" /\ t.sent = "no"
      BY NoTaskIs
    <3>1. StepHolds(t)'
      BY DEF StepHolds
    <3>2. mutex' # q
      BY <1>1, <2>1, StoreAssumption
    <3> QED BY <1>2, <2>1, <3>1, <3>2, CommandIs
  <2>2. CASE q # r
    <3> PICK t \in Task : t = command[q]
      BY CommandKnows
    <3>1. /\ command'[q] = t
          /\ t.step # "idle" => t.id \in WorkId /\ t.head \in Head
          /\ t.sent # "no" <=> mutex' = q
          /\ t.sent # "no" => t.step \in Request
          /\ owner = q => StepHolds(t)
      BY <1>1, <1>2, <2>2, StoreAssumption DEF ProposalInv, CommandAt
    <3>2. ASSUME owner' = q PROVE StepHolds(t)'
      <4>1. t.step # "idle" => (UnderWay("label", t.id)' => UnderWay("label", t.id))
        BY <1>9, <3>1
      <4> QED BY <1>1, <3>1, <3>2, <4>1, StepStays
    <3> QED BY <3>1, <3>2, CommandIs
  <2> QED BY <2>1, <2>2
<1>12. OneUnresolved'
  BY <1>1 DEF ProposalInv, OneUnresolved, Unresolved
<1>13. OrphansKnown'
  <2>1. u.sent = "sent" =>
           /\ journal[u.id].phase # "none"
           /\ u.step = "push" => u.head = journal[u.id].new
           /\ u.step \in {"comment", "label"} => number[u.id] = 1
    BY <1>5 DEF StepHolds, CandidateAt, Request
  <2> QED BY <1>1, <1>4, <1>6, <2>1 DEF ProposalInv, OrphansKnown
<1>14. OneLabel'
  <2>1. \A q \in Run \ {r} : u.sent = "sent" => command[q].sent = "no"
    BY <1>5, CommandKnows
  <2>2. u.sent = "sent" /\ u.step = "label" =>
           \A p \in orphans : ~ (p.request = "label" /\ p.id = u.id)
    BY DEF ProposalInv, OneLabel
  <2> QED BY <1>2, <1>4, <1>6, <2>1, <2>2, NoTaskIs DEF ProposalInv, OneLabel
<1>15. Capped' /\ mutex' \in {NoRun, owner'}
  BY <1>1, CapStays DEF ProposalInv
<1> QED BY <1>8, <1>10, <1>11, <1>12, <1>13, <1>14, <1>15 DEF ProposalInv

\* What the owner decides about a pull request: it loses its label and is accepted,
\* or it is closed.
Decided(c) ==
    /\ HasPull(c) /\ HasPull(c)' /\ pulls'[c][1].head = pulls[c][1].head
    /\ pulls'[c][1].comment = pulls[c][1].comment
    /\ \/ /\ pulls[c][1].label /\ ~ pulls'[c][1].label /\ pulls'[c][1].accepted
          /\ pulls'[c][1].open = pulls[c][1].open
       \/ /\ pulls'[c][1].label = pulls[c][1].label
          /\ pulls'[c][1].accepted = pulls[c][1].accepted
          /\ ~ pulls'[c][1].open

\* A decision of the owner is about the one pull request of the candidate.
LEMMA OwnerMoves ==
  ASSUME ProposalInv, NEW c \in WorkId, NEW i \in DOMAIN pulls[c], OwnerDecidesOn(c, i)
  PROVE  /\ Decided(c) /\ PullsTypeOK' /\ \A d \in WorkId \ {c} : pulls'[d] = pulls[d]
         /\ \A d \in WorkId : DOMAIN pulls'[d] = DOMAIN pulls[d]
         /\ i = 1
<1> PICK ps : ps = pulls /\ ps \in [WorkId -> {<<>>} \cup [{1} -> Pull]]
  BY DEF ProposalInv, PullsTypeOK
<1>1. HasPull(c) /\ i = 1 /\ ps[c] \in [{1} -> Pull] /\ ps[c][1] \in Pull /\ DOMAIN ps[c] = {1}
  BY PullsAre DEF ProposalInv, HasPull
<1> DEFINE p == ps[c][1]
           taken == [p EXCEPT !.label = FALSE, !.accepted = TRUE]
           closed == [p EXCEPT !.open = FALSE]
<1>2. /\ taken \in Pull /\ taken.head = p.head /\ taken.comment = p.comment
      /\ ~ taken.label /\ taken.accepted /\ taken.open = p.open
  BY <1>1 DEF Pull
<1>3. /\ closed \in Pull /\ closed.head = p.head /\ closed.comment = p.comment
      /\ closed.label = p.label /\ closed.accepted = p.accepted /\ ~ closed.open
  BY <1>1 DEF Pull
<1>4. \/ p.label /\ pulls' = [ps EXCEPT ![c][1] = taken]
      \/ pulls' = [ps EXCEPT ![c][1] = closed]
  <2>1. CASE p.label /\ pulls' = [ps EXCEPT ![c][1].label = FALSE, ![c][1].accepted = TRUE]
    BY <1>1, <2>1
  <2>2. CASE pulls' = [ps EXCEPT ![c][1].open = FALSE]
    BY <1>1, <2>2
  <2> HIDE DEF taken, closed
  <2>3. \/ p.label /\ pulls' = [ps EXCEPT ![c][1].label = FALSE, ![c][1].accepted = TRUE]
        \/ pulls' = [ps EXCEPT ![c][1].open = FALSE]
    BY <1>1 DEF OwnerDecidesOn
  <2> QED BY <2>1, <2>2, <2>3
<1> HIDE DEF taken, closed
<1>5. PICK n \in Pull : pulls' = [ps EXCEPT ![c][1] = n] /\ ((n = taken /\ p.label) \/ n = closed)
  BY <1>2, <1>3, <1>4
<1>6. /\ pulls'[c] = [ps[c] EXCEPT ![1] = n] /\ \A d \in WorkId \ {c} : pulls'[d] = ps[d]
      /\ pulls'[c] \in [{1} -> Pull] /\ pulls'[c][1] = n /\ DOMAIN pulls'[c] = {1}
  BY <1>1, <1>5
<1>7. pulls' \in [WorkId -> {<<>>} \cup [{1} -> Pull]]
  BY <1>5, <1>6
<1>8. number' \in [WorkId -> {0, 1}]
  BY DEF OwnerDecidesOn, ProposalInv, PullsTypeOK
<1>9. HasPull(c)'
  BY <1>6 DEF HasPull
<1> QED BY <1>1, <1>2, <1>3, <1>5, <1>6, <1>7, <1>8, <1>9 DEF Decided, PullsTypeOK

\* A subset is below a bound its set is below.
LEMMA FewerCount ==
  ASSUME NEW S, IsFiniteSet(S), NEW T \in SUBSET S
  PROVE  /\ Cardinality(S) < Cap => Cardinality(T) < Cap
         /\ Cardinality(S) <= Cap => Cardinality(T) <= Cap
<1>1. IsFiniteSet(T) /\ Cardinality(T) <= Cardinality(S)
  BY FS_Subset
<1>2. Cardinality(T) \in Nat /\ Cardinality(S) \in Nat
  BY <1>1, FS_CardinalityType
<1> QED BY <1>1, <1>2, ProposalAssumption

\* No proposal is added by the owner.
LEMMA OwnerCap ==
  ASSUME ProposalInv, NEW c \in WorkId, Decided(c), PullsTypeOK',
         \A d \in WorkId \ {c} : pulls'[d] = pulls[d],
         \A d \in WorkId : DOMAIN pulls'[d] = DOMAIN pulls[d]
  PROVE  /\ Capped'
         /\ \A d \in WorkId : Cardinality(Counted(d, TRUE)) < Cap =>
                                 Cardinality(Counted(d, TRUE)') < Cap
<1>1. ASSUME NEW d \in WorkId, NEW i \in {1, 2}, i \in DOMAIN pulls'[d],
             pulls'[d][i].open, pulls'[d][i].label
      PROVE  i \in DOMAIN pulls[d] /\ pulls[d][i].open /\ pulls[d][i].label
  <2>1. CASE d # c
    BY <1>1, <2>1
  <2>2. CASE d = c
    <3>1. i = 1
      BY <1>1, PullsAreNext
    <3> QED BY <1>1, <2>2, <3>1 DEF Decided, HasPull, PullsTypeOK
  <2> QED BY <2>1, <2>2
<1>2. OpenProposals' \subseteq OpenProposals
  BY <1>1 DEF OpenProposals
<1>3. IsFiniteSet(OpenProposals) /\ Cardinality(OpenProposals) <= Cap
  BY DEF ProposalInv, Capped
<1>4. Capped'
  <2>1. IsFiniteSet(OpenProposals')
    BY <1>2, <1>3, FS_Subset
  <2> QED BY <1>2, <1>3, <2>1, FewerCount DEF Capped
<1>5. ASSUME NEW d \in WorkId, Cardinality(Counted(d, TRUE)) < Cap
      PROVE  Cardinality(Counted(d, TRUE)') < Cap
  <2>1. Counted(d, TRUE) \subseteq OpenProposals
    BY DEF Counted
  <2>2. IsFiniteSet(Counted(d, TRUE))
    BY <1>3, <2>1, FS_Subset
  <2>3. Counted(d, TRUE)' \subseteq Counted(d, TRUE)
    BY <1>2 DEF Counted
  <2> QED BY <1>5, <2>2, <2>3, FewerCount
<1> QED BY <1>4, <1>5

\* Nothing is judged while it is created, and a label under way is one the pull
\* request never had, which the owner cannot take away.
LEMMA OwnerKeeps ==
  ASSUME ProposalInv, NEW c \in WorkId, NEW i \in DOMAIN pulls[c], OwnerDecidesOn(c, i)
  PROVE  ProposalInv'
<1>1. /\ UNCHANGED <<owner, mutex, work, journal>> /\ StoreTypeOK' /\ UNCHANGED <<orphans, deaths>>
      /\ UNCHANGED <<tree, remote, number, command>>
  BY DEF OwnerDecidesOn, ProposalInv, ProposalTypeOK, StoreTypeOK, storeVars, leaseVars, ciVars,
         intentVars, faultVars
<1>2. /\ Decided(c) /\ PullsTypeOK' /\ \A d \in WorkId \ {c} : pulls'[d] = pulls[d]
      /\ \A d \in WorkId : DOMAIN pulls'[d] = DOMAIN pulls[d]
  BY OwnerMoves
<1>3. Capped' /\ \A d \in WorkId : Cardinality(Counted(d, TRUE)) < Cap =>
                                      Cardinality(Counted(d, TRUE)') < Cap
  BY <1>2, OwnerCap
<1>4. ProposalTypeOK'
  <2>1. catalog' \subseteq WorkId
    BY DEF OwnerDecidesOn, ProposalInv, ProposalTypeOK
  <2>2. ASSUME NEW d \in WorkId
        PROVE  /\ \A k \in DOMAIN pulls'[d] : pulls'[d][k] \in Pull
               /\ number'[d] \in 0..Cardinality(DOMAIN pulls'[d])
    <3>1. number[d] \in 0..Cardinality(DOMAIN pulls[d])
      BY DEF ProposalInv, ProposalTypeOK, Pulls
    <3> QED BY <1>1, <1>2, <3>1, PullsAreNext
  <2> QED BY <1>1, <2>1, <2>2 DEF ProposalInv, ProposalTypeOK, Pull, Pulls
<1>5. ASSUME NEW d \in WorkId, NEW x PROVE UnderWay(x, d)' <=> UnderWay(x, d)
  BY <1>1 DEF UnderWay
<1>6. ASSUME NEW d \in WorkId PROVE ~ UnderWay("create", d)
  BY DEF UnderWay, OwnerDecidesOn, MayJudge
<1>7. ASSUME NEW d \in WorkId, HasPull(d)
      PROVE  /\ HasPull(d)' /\ pulls'[d][1].head = pulls[d][1].head
             /\ pulls'[d][1].comment = pulls[d][1].comment
             /\ pulls'[d][1].label => pulls[d][1].label
             /\ pulls[d][1].label \/ pulls[d][1].accepted <=>
                   pulls'[d][1].label \/ pulls'[d][1].accepted
             /\ ~ pulls[d][1].label /\ ~ pulls[d][1].accepted =>
                   ~ pulls'[d][1].label /\ ~ pulls'[d][1].accepted
  BY <1>2, <1>7 DEF Decided, HasPull
<1>8. ASSUME NEW d \in WorkId PROVE CandidateAt(d)'
  <2>1. HasPull(d)' <=> HasPull(d)
    BY <1>2 DEF HasPull
  <2>2. CandidateAt(d)
    BY DEF ProposalInv
  <2>3. LabelIsDue(d) /\ HasPull(d) => LabelIsDue(d)'
    BY <1>1, <1>3, <1>7 DEF LabelIsDue
  <2>4. UnderWay("label", d)' => LabelIsDue(d)'
    BY <1>5, <2>2, <2>3 DEF CandidateAt, LabelIsDue
  <2> QED BY <1>1, <1>5, <1>6, <1>7, <2>1, <2>2, <2>4 DEF CandidateAt
<1>9. ASSUME NEW r \in Run PROVE CommandAt(r)'
  <2> PICK u \in Task : u = command[r]
    BY CommandKnows
  <2>1. /\ command'[r] = u
        /\ u.step # "idle" => u.id \in WorkId /\ u.head \in Head
        /\ u.sent # "no" <=> mutex' = r
        /\ u.sent # "no" => u.step \in Request
        /\ owner' = r => StepHolds(u)
    BY <1>1 DEF ProposalInv, CommandAt
  <2>2. ASSUME owner' = r PROVE StepHolds(u)'
    <3>1. CASE u.step = "idle"
      BY <3>1 DEF StepHolds
    <3>2. CASE u.step # "idle"
      <4> PICK d \in WorkId : d = u.id
        BY <2>1, <3>2
      <4>1. StepHolds(u) /\ CandidateAt(d)
        BY <2>1, <2>2 DEF ProposalInv
      <4>2. HasPull(d)' <=> HasPull(d)
        BY <1>2 DEF HasPull
      <4>3. u.step \in {"present", "comment", "label", "settle"} => HasPull(d)
        BY <4>1 DEF StepHolds, CandidateAt
      <4> QED BY <1>1, <1>5, <1>7, <3>2, <4>1, <4>2, <4>3 DEF StepHolds
    <3> QED BY <3>1, <3>2
  <2> QED BY <2>1, <2>2, CommandIs
<1>10. OneUnresolved' /\ OrphansKnown' /\ OneLabel'
  BY <1>1, JournalsStay DEF ProposalInv, OneLabel
<1>11. mutex' \in {NoRun, owner'}
  BY <1>1 DEF ProposalInv
<1> QED BY <1>2, <1>3, <1>4, <1>8, <1>9, <1>10, <1>11 DEF ProposalInv

-----------------------------------------------------------------------------
(* The theorems.                                                           *)

\* Every step keeps the invariant.
LEMMA ProposalNextInv ==
  ASSUME ProposalInv, RunsUsed, [ProposalNext]_proposalVars
  PROVE  ProposalInv' /\ RunsUsed'
<1>1. StoreTypeOK' /\ RunsUsed'
  BY StoreStaysTyped, UsedNext
<1>2. CASE LeaseMoves \/ Checkout \/ OrphanArrives \/ OrphanIsLost \/ UNCHANGED proposalVars
  BY <1>1, <1>2, LeaseKeeps, CheckoutKeeps, OrphanKeeps
<1>3. ASSUME NEW c \in WorkId, NEW i \in DOMAIN pulls[c], OwnerDecidesOn(c, i)
      PROVE  ProposalInv'
  BY <1>3, OwnerKeeps
<1>4. ASSUME NEW r \in Run, NEW c \in WorkId, RecoverStart(r, c) PROVE ProposalInv'
  BY <1>1, <1>4, RecoverKeeps
<1>5. ASSUME NEW r \in Run, NEW c \in WorkId, NEW h \in Head, ValidateStart(r, c, h)
      PROVE  ProposalInv'
  BY <1>1, <1>5, ValidateKeeps
<1>6. ASSUME NEW r \in Run, NEW c \in WorkId, NEW h \in Head, PublishStart(r, c, h)
      PROVE  ProposalInv'
  <2>1. CASE UNCHANGED storeVars
    BY <1>1, <1>6, <2>1, ResumeKeeps
  <2>2. CASE /\ journal[c].phase = "none" /\ Unresolved = {} /\ remote[c] = NoHead
             /\ AuthorizePush(r, c, NoHead, h) /\ Begin(r, "publish", c, h, "push")
    BY <1>1, <1>6, <2>2, AuthorizeKeeps
  <2> QED BY <1>6, <2>1, <2>2 DEF PublishStart
<1>7. ASSUME NEW r \in Run, Publish(r) PROVE ProposalInv'
  <2>1. CASE PushBranch(r) \/ BranchPushed(r)
    BY <1>1, <2>1, PushBranchKeeps, BranchPushedKeeps
  <2>2. CASE CreatePull(r) \/ PullCreated(r)
    BY <1>1, <2>2, CreatedKeeps
  <2>3. CASE Present(r) \/ Comment(r) \/ Label(r)
    BY <2>3, PresentKeeps, CommentKeeps, LabelKeeps
  <2>4. CASE Settle(r) \/ Finish(r)
    BY <1>1, <2>4, SettleKeeps, FinishKeeps
  <2> QED BY <1>7, <2>1, <2>2, <2>3, <2>4 DEF Publish
<1>8. ASSUME NEW r \in Run, RecordWork(r) \/ RequestArrives(r) PROVE ProposalInv'
  BY <1>1, <1>8, RecordKeeps, RequestKeeps
<1>9. ASSUME NEW r \in Run, RequestReturns(r) \/ Refuse(r) \/ Die(r) PROVE ProposalInv'
  BY <1>1, <1>9, ReturnKeeps, RefuseKeeps, DieKeeps
<1> QED BY <1>1, <1>2, <1>3, <1>4, <1>5, <1>6, <1>7, <1>8, <1>9 DEF ProposalNext

\* No run has a command before it has had the lease.
LEMMA ProposalInitUsed == ProposalInit => RunsUsed
BY NoTaskIs, StoreAssumption DEF ProposalInit, StoreInit, RunsUsed

\* The invariant holds in every state.
LEMMA ProposalAlwaysInv == ProposalSpec => [](ProposalInv /\ RunsUsed)
<1>1. ProposalInit => ProposalInv /\ RunsUsed
  BY ProposalInitInv, ProposalInitUsed
<1>2. ProposalInv /\ RunsUsed /\ [ProposalNext]_proposalVars => ProposalInv' /\ RunsUsed'
  BY ProposalNextInv
<1> QED BY <1>1, <1>2, PTL DEF ProposalSpec

\* However often publishing dies, whoever goes on and whatever arrives late: one
\* branch and one pull request for a candidate, no more open proposals than the
\* cap, and a journal that says published only of what is (handle_publish_proposal
\* and handle_publish_recover).
THEOREM ProposalsAreSafe == ProposalSpec => []ProposalSafe
<1>1. ProposalInv => ProposalSafe
  BY InvIsSafe
<1> QED BY <1>1, ProposalAlwaysInv, PTL

\* Discovery writes the shared store through its operations only (MaintainerStore):
\* what the store promises of leases, work records and journals holds here too.
THEOREM ProposalsUseStore == ProposalSpec => StoreSpec
<1>1. ProposalInit => StoreInit
  BY DEF ProposalInit
<1>2. ProposalInv /\ [ProposalNext]_proposalVars => [StoreNext]_storeVars
  BY ProposalUsesStore
<1> QED BY <1>1, <1>2, ProposalAlwaysInv, PTL DEF ProposalSpec, StoreSpec

-----------------------------------------------------------------------------
(* The label the owner has removed.                                        *)

\* A pull request that the owner has accepted carries no label.
NotBoth == \A c \in WorkId : HasPull(c) => ~ (pulls[c][1].label /\ pulls[c][1].accepted)

\* What a step may do to a pull request.
PullMoves(c) ==
    \/ pulls'[c] = pulls[c]
    \/ Decided(c)
    \/ ~ HasPull(c) /\ HasPull(c)' /\ ~ pulls'[c][1].label
    \/ /\ HasPull(c) /\ HasPull(c)' /\ pulls'[c][1].accepted = pulls[c][1].accepted
       /\ pulls'[c][1].label = pulls[c][1].label \/ ~ pulls[c][1].accepted

\* A request that is carried out.
LEMMA ArrivalMoves ==
  ASSUME ProposalInv, NEW request \in Request, NEW c \in WorkId, NEW h \in Head,
         Due(request, c, h), Accepts(request, c), Carry(request, c, h), NEW d \in WorkId
  PROVE  PullMoves(d)
<1>1. Arrived(request, c, h) /\ \A x \in WorkId \ {c} : pulls'[x] = pulls[x]
  BY CarryArrives
<1>2. CandidateAt(c) /\ (HasPull(c) => pulls[c][1] \in Pull)
  BY PullsAre DEF ProposalInv
<1>3. CASE d # c
  BY <1>1, <1>3 DEF PullMoves
<1>4. CASE d = c /\ request = "push"
  BY <1>1, <1>4 DEF PullMoves, Arrived
<1>5. CASE d = c /\ request = "create"
  BY <1>1, <1>5 DEF PullMoves, Arrived, NewPull
<1>6. CASE d = c /\ request = "comment"
  BY <1>1, <1>2, <1>6 DEF PullMoves, Arrived, Pull
<1>7. CASE d = c /\ request = "label"
  <2>1. ~ pulls[c][1].accepted
    BY <1>2, <1>7 DEF Due, CandidateAt, LabelIsDue
  <2> QED BY <1>1, <1>2, <1>7, <2>1 DEF PullMoves, Arrived, Pull
<1> QED BY <1>3, <1>4, <1>5, <1>6, <1>7 DEF Request

\* The request of a live command, and of a dead one.
LEMMA RequestMoves ==
  ASSUME ProposalInv, NEW d \in WorkId,
         OrphanArrives \/ \E r \in Run : RequestArrives(r)
  PROVE  PullMoves(d)
<1>1. CASE OrphanArrives
  <2> PICK q \in orphans : \/ Accepts(q.request, q.id) /\ Carry(q.request, q.id, q.head)
                           \/ UNCHANGED githubVars
    BY <1>1 DEF OrphanArrives
  <2> PICK request \in Request, c \in WorkId, h \in Head :
           q.request = request /\ q.id = c /\ q.head = h
    BY DEF ProposalInv, ProposalTypeOK
  <2>1. Due(request, c, h)
    BY DEF Due, UnderWay, ProposalInv, OrphansKnown
  <2> QED BY <2>1, ArrivalMoves DEF PullMoves, githubVars
<1>2. ASSUME NEW r \in Run, RequestArrives(r) PROVE PullMoves(d)
  <2> PICK u \in Task : u = command[r]
    BY CommandKnows
  <2>1. /\ u.sent = "sent" /\ owner = r /\ u.step \in Request /\ u.step # "idle"
        /\ StepHolds(u) /\ u.id \in WorkId /\ u.head \in Head
        /\ \/ Accepts(u.step, u.id) /\ Carry(u.step, u.id, u.head)
           \/ UNCHANGED githubVars
    BY <1>2, CommandKnows, StoreAssumption
       DEF RequestArrives, ProposalInv, CommandAt, Request
  <2> PICK c \in WorkId, h \in Head, request \in Request :
           c = u.id /\ h = u.head /\ request = u.step
    BY <2>1
  <2>2. CandidateAt(c) /\ UnderWay(request, c)
    BY <2>1 DEF ProposalInv, UnderWay
  <2>3. Due(request, c, h)
    BY <2>1, <2>2 DEF Due, StepHolds, CandidateAt, Request
  <2> QED BY <2>1, <2>3, ArrivalMoves DEF PullMoves, githubVars
<1> QED BY <1>1, <1>2

\* Nobody but the owner and a request that arrives touches a pull request.
LEMMA StepMoves ==
  ASSUME ProposalInv, [ProposalNext]_proposalVars, NEW d \in WorkId
  PROVE  PullMoves(d)
<1>1. CASE OrphanArrives \/ \E r \in Run : RequestArrives(r)
  BY <1>1, RequestMoves
<1>2. CASE \E c \in WorkId : \E i \in DOMAIN pulls[c] : OwnerDecidesOn(c, i)
  BY <1>2, OwnerMoves DEF PullMoves
<1>3. CASE LeaseMoves \/ Checkout \/ OrphanIsLost \/ UNCHANGED proposalVars
  BY <1>3 DEF LeaseMoves, Checkout, OrphanIsLost, proposalVars, githubVars, PullMoves
<1>4. ASSUME NEW r \in Run, NEW c \in WorkId, NEW h \in Head,
             RecoverStart(r, c) \/ ValidateStart(r, c, h) \/ PublishStart(r, c, h)
      PROVE  PullMoves(d)
  BY <1>4 DEF RecoverStart, ValidateStart, PublishStart, githubVars, PullMoves
<1>5. ASSUME NEW r \in Run, Publish(r) PROVE PullMoves(d)
  BY <1>5 DEF Publish, PushBranch, BranchPushed, CreatePull, PullCreated, RecordPull, Present,
              Comment, Label, Settle, Finish, githubVars, PullMoves
<1>6. ASSUME NEW r \in Run, RecordWork(r) \/ RequestReturns(r) \/ Refuse(r) \/ Die(r)
      PROVE  PullMoves(d)
  BY <1>6 DEF RecordWork, RequestReturns, Refuse, Die, githubVars, PullMoves
<1>7. ASSUME NEW r \in Run, NEW c \in WorkId, RecoverStart(r, c) PROVE PullMoves(d)
  BY <1>7 DEF RecoverStart, githubVars, PullMoves
<1> QED BY <1>1, <1>2, <1>3, <1>4, <1>5, <1>6, <1>7 DEF ProposalNext

\* What the owner has accepted is not put before the owner again: neither a retry,
\* nor a successor, nor a label request that arrives late (label_plan).
THEOREM AcceptedIsFinal == ProposalSpec => AcceptedStays
<1>1. ProposalInit => NotBoth
  BY DEF ProposalInit, NotBoth, HasPull
<1>2. ProposalInv /\ NotBoth /\ [ProposalNext]_proposalVars => NotBoth'
  <2> SUFFICES ASSUME ProposalInv, NotBoth, [ProposalNext]_proposalVars, NEW c \in WorkId,
                      HasPull(c)'
               PROVE  ~ (pulls'[c][1].label /\ pulls'[c][1].accepted)
    BY DEF NotBoth
  <2>1. PullMoves(c)
    BY StepMoves
  <2> QED BY <2>1 DEF PullMoves, Decided, NotBoth, HasPull
<1>3. ProposalInv /\ NotBoth /\ [ProposalNext]_proposalVars =>
         [\A c \in WorkId : \A i \in DOMAIN pulls[c] :
             pulls[c][i].accepted => ~ pulls'[c][i].label]_proposalVars
  <2> SUFFICES ASSUME ProposalInv, NotBoth, [ProposalNext]_proposalVars, NEW c \in WorkId,
                      NEW i \in DOMAIN pulls[c], pulls[c][i].accepted
               PROVE  ~ pulls'[c][i].label
    OBVIOUS
  <2>1. PullMoves(c) /\ i = 1 /\ HasPull(c)
    BY StepMoves, PullsAre DEF ProposalInv, HasPull
  <2> QED BY <2>1 DEF PullMoves, Decided, NotBoth
<1> QED BY <1>1, <1>2, <1>3, ProposalAlwaysInv, PTL DEF ProposalSpec, AcceptedStays
=============================================================================
