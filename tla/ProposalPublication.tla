------------------------- MODULE ProposalPublication -------------------------
(***************************************************************************)
(* Discovery: validating one candidate and publishing it as a draft pull   *)
(* request (validate proposal, publish proposal and publish recover in     *)
(* ops/maintainer/capabilities.py, publish_discovery_proposal in           *)
(* publication.py, inspect_discovery in inspection.py), over the work      *)
(* records and push journals of JournalStore.                              *)
(*                                                                         *)
(* The journal is saved, the branch created, the pull request opened, and  *)
(* comment and label published; each is one request to a server.  A        *)
(* command may die at any step, and the request it sent may be carried out *)
(* later, or never.  Meanwhile the owner removes the label (accepts),      *)
(* closes or merges.  The managed body and the wording are left out, and   *)
(* nobody else pushes to the new branch.                                   *)
(***************************************************************************)
EXTENDS FiniteSets, JournalStore

CONSTANTS Cap,      \* open proposals at a time: 3
          MaxDeaths \* bound on the commands that die

ASSUME ProposalAssumption == Cap \in Nat \ {0} /\ MaxDeaths \in Nat

VARIABLES tree,    \* HEAD of the discovery worktree
          remote,  \* the branch of each candidate
          pulls,   \* its pull requests, in the order of their numbers
          number,  \* pr_number of its journal
          catalog, \* candidates main has
          command,    \* the command of each run
          orphans, \* requests whose command died
          deaths   \* dead commands so far

githubVars == <<remote, pulls, catalog>>
faultVars == <<orphans, deaths>>
proposalVars == <<storeVars, tree, githubVars, number, command, faultVars>>

Request == {"push", "create", "comment", "label"}
ProposalStep == Request \cup {"idle", "record", "pushed", "created", "present", "settle",
                      "finish", "finished"}

\* accepted: the owner has removed the label
NewPull(h) == [head |-> h, open |-> TRUE, comment |-> FALSE, label |-> FALSE,
               accepted |-> FALSE]

Pulls(c) == Cardinality(DOMAIN pulls[c])

NewTask(goal, c, h, step) == [step |-> step, goal |-> goal, id |-> c, head |-> h,
                              sent |-> "no", labelled |-> FALSE]
NoTask == NewTask("none", NoHead, NoHead, "idle")

\* The types of the variables: branches and pull requests, commands and requests
\* under way.
ProposalTypeOK ==
    /\ StoreTypeOK
    /\ tree \in Head
    /\ remote \in [WorkId -> MaybeHead]
    /\ \A c \in WorkId :
          \A i \in DOMAIN pulls[c] :
             pulls[c][i] \in [head : Head, open : BOOLEAN, comment : BOOLEAN,
                              label : BOOLEAN, accepted : BOOLEAN]
    /\ \A c \in WorkId : number[c] \in 0..Pulls(c)
    /\ catalog \subseteq WorkId
    /\ command \in [Run -> [step : ProposalStep, goal : {"none", "validate", "publish", "recover"},
                         id : WorkId \cup {NoHead}, head : MaybeHead,
                         labelled : BOOLEAN,
                         sent : {"no", "sent", "done", "refused"}]]
    /\ orphans \subseteq [request : Request, id : WorkId, head : Head]
    /\ deaths \in 0..MaxDeaths

ProposalInit == /\ StoreInit
                /\ tree \in Head
                /\ remote = [c \in WorkId |-> NoHead]
                /\ pulls = [c \in WorkId |-> <<>>]
                /\ number = [c \in WorkId |-> 0]
                /\ catalog = {}
                /\ command = [r \in Run |-> NoTask]
                /\ orphans = {}
                /\ deaths = 0

-----------------------------------------------------------------------------
(* What the commands read on GitHub.                                       *)

\* inspect_discovery
OpenProposals == {p \in WorkId \X {1, 2} : /\ p[2] \in DOMAIN pulls[p[1]]
                                           /\ pulls[p[1]][p[2]].open
                                           /\ pulls[p[1]][p[2]].label}

Known(p) == pulls[p[1]][p[2]].comment

\* _inventory_without_bound_proposal
Counted(c, own) == {p \in OpenProposals : own => p[1] # c}

\* Mutant: one proposal more than the cap allows.
FactsOneMore(c, own) ==
    LET counted == Counted(c, own)
    IN  /\ c \notin catalog
        /\ Cardinality(counted) <= Cap
        /\ \A p \in counted : Known(p) /\ p[1] # c

\* _require_current_proposal_facts and _require_candidate_available, and with
\* own = TRUE on the inventory without the proposal itself
Facts(c, own) ==
    LET counted == Counted(c, own)
    IN  /\ c \notin catalog
        /\ Cardinality(counted) < Cap
        /\ \A p \in counted : Known(p) /\ p[1] # c

\* Mutant: only open pull requests are looked for.
MatchesOpen(c, h) == {i \in DOMAIN pulls[c] : pulls[c][i].head = h /\ pulls[c][i].open}

\* find_pull_requests_by_head
Matches(c, h) == {i \in DOMAIN pulls[c] : pulls[c][i].head = h}

ExactDraft(c, i) == pulls[c][i].open

-----------------------------------------------------------------------------
(* Commands and their requests.                                            *)

MayStart(r) == owner = r /\ mutex = NoRun /\ command[r] = NoTask
AtStep(r, step) == owner = r /\ mutex = NoRun /\ command[r].step = step /\ command[r].sent = "no"
GoStep(r, step) == command' = [command EXCEPT ![r].step = step]
Done(r) == command' = [command EXCEPT ![r] = NoTask]
Begin(r, goal, c, h, step) == command' = [command EXCEPT ![r] = NewTask(goal, c, h, step)]

\* guard_push_mutation around the request of the step
Send(r) == /\ EnterPushGuard(r, command[r].id)
           /\ command' = [command EXCEPT ![r].sent = "sent"]

\* the server creates a branch or opens a pull request once
Accepts(request, c) ==
    CASE request = "push" -> remote[c] = NoHead
      [] request = "create" -> /\ remote[c] # NoHead
                               /\ \A i \in DOMAIN pulls[c] : ~ pulls[c][i].open
      [] OTHER -> TRUE

Opened(c) == [pulls EXCEPT ![c] = [i \in 1..(Pulls(c) + 1) |->
                                    IF i <= Pulls(c) THEN @[i] ELSE NewPull(remote[c])]]

Carry(request, c, h) ==
    /\ remote' = IF request = "push" THEN [remote EXCEPT ![c] = h] ELSE remote
    /\ pulls' =
         CASE request = "create" -> Opened(c)
           [] request = "comment" -> [pulls EXCEPT ![c][number[c]].comment = TRUE]
           [] request = "label" -> [pulls EXCEPT ![c][number[c]].label = TRUE]
           [] OTHER -> pulls
    /\ UNCHANGED catalog

RequestArrives(r) ==
    LET t == command[r]
    IN  /\ t.sent = "sent"
        /\ \/ /\ Accepts(t.step, t.id)
              /\ Carry(t.step, t.id, t.head)
              /\ command' = [command EXCEPT ![r].sent = "done"]
           \/ /\ ~ Accepts(t.step, t.id)
              /\ command' = [command EXCEPT ![r].sent = "refused"]
              /\ UNCHANGED githubVars
        /\ UNCHANGED <<storeVars, tree, number, faultVars>>

OrphanArrives ==
    \E q \in orphans :
        /\ orphans' = orphans \ {q}
        /\ IF Accepts(q.request, q.id) THEN Carry(q.request, q.id, q.head)
                                       ELSE UNCHANGED githubVars
        /\ UNCHANGED <<storeVars, tree, number, command, deaths>>

OrphanIsLost ==
    \E q \in orphans :
        /\ orphans' = orphans \ {q}
        /\ UNCHANGED <<storeVars, tree, githubVars, number, command, deaths>>

Following(request) == CASE request = "push" -> "pushed"
                        [] request = "create" -> "created"
                        [] request = "comment" -> "label"
                        [] request = "label" -> "settle"

RequestReturns(r) ==
    /\ command[r].sent \in {"done", "refused"}
    /\ LeaveGuard(r)
    /\ IF command[r].sent = "done"
         THEN command' = [command EXCEPT ![r].sent = "no", ![r].step = Following(@)]
         ELSE Done(r)
    /\ UNCHANGED <<tree, githubVars, number, faultVars>>

\* a guard fails, or the candidate is not valid
Refuse(r) == /\ command[r].step # "idle"
             /\ command[r].sent = "no"
             /\ Done(r)
             /\ UNCHANGED <<storeVars, tree, githubVars, number, faultVars>>

Die(r) ==
    /\ deaths < MaxDeaths
    /\ command[r] # NoTask
    /\ IF mutex = r THEN LeaveGuard(r) ELSE UNCHANGED storeVars
    /\ orphans' = IF command[r].sent = "sent"
                    THEN orphans \cup {[request |-> command[r].step, id |-> command[r].id,
                                        head |-> command[r].head]}
                    ELSE orphans
    /\ deaths' = deaths + 1
    /\ Done(r)
    /\ UNCHANGED <<tree, githubVars, number>>

-----------------------------------------------------------------------------
(* validate proposal                                                       *)

ValidateStart(r, c, h) ==
    /\ MayStart(r)
    /\ Facts(c, FALSE)
    /\ BeginWork(r, c, h)
    /\ Begin(r, "validate", c, h, "record")
    /\ UNCHANGED <<tree, githubVars, number, faultVars>>

\* prepared, reviewed, validated
RecordWork(r) ==
    LET c == command[r].id  h == command[r].head
    IN  /\ AtStep(r, "record")
        /\ SaveWork(r, c, IF work[c].phase = "selected" THEN NoHead ELSE h,
                          IF work[c].phase = "reviewed" THEN h ELSE NoHead)
        /\ IF work'[c].phase = "validated" THEN Done(r) ELSE UNCHANGED command
        /\ UNCHANGED <<tree, githubVars, number, faultVars>>

-----------------------------------------------------------------------------
(* publish recover, and publish proposal                                   *)

OwnJournal(r, c, h) == journal[c].recovery = r /\ journal[c].new = h

RecoverStart(r, c) ==
    /\ MayStart(r)
    /\ Unresolved = {c}
    /\ remote[c] \in {NoHead, journal[c].new}
    /\ IF journal[c].recovery = r THEN UNCHANGED storeVars ELSE AdoptPush(r, c, remote[c])
    /\ \/ journal[c].phase = "authorized" /\ Begin(r, "recover", c, journal[c].new, "push")
       \/ journal[c].phase = "pushed" /\ Begin(r, "recover", c, journal[c].new, "create")
       \/ journal[c].phase = "pr-created" /\ UNCHANGED command
    /\ UNCHANGED <<tree, githubVars, number, faultVars>>

\* The evidence is the work record or the journal of the run: a successor has to
\* recover first, so adoption inside publish_discovery_proposal never happens.
PublishStart(r, c, h) ==
    /\ MayStart(r)
    /\ \/ work[c].phase = "validated" /\ work[c].validated = h /\ work[c].run = r
       \/ OwnJournal(r, c, h)
    /\ \/ /\ journal[c].phase = "none"
          /\ Unresolved = {}
          /\ Facts(c, FALSE)
          /\ tree = h
          /\ remote[c] = NoHead
          /\ AuthorizePush(r, c, NoHead, h)
          /\ Begin(r, "publish", c, h, "push")
       \/ /\ OwnJournal(r, c, h)
          /\ Unresolved = {c}
          /\ tree = h
          /\ Begin(r, "publish", c, h, CASE journal[c].phase = "authorized" -> "push"
                                         [] journal[c].phase = "pushed" -> "create"
                                         [] OTHER -> "present")
          /\ UNCHANGED storeVars
       \/ /\ journal[c].phase = "published"
          /\ journal[c].new = h
          /\ Begin(r, "publish", c, h, "finish")
          /\ UNCHANGED storeVars
    /\ UNCHANGED <<tree, githubVars, number, faultVars>>

\* push_create_only; only publish proposal asks for the facts again
PushBranch(r) ==
    LET t == command[r]
    IN  /\ AtStep(r, "push")
        /\ t.goal = "publish" => Facts(t.id, FALSE) /\ tree = t.head
        /\ \/ remote[t.id] = NoHead /\ tree = t.head /\ Send(r)
           \/ remote[t.id] = t.head /\ GoStep(r, "pushed") /\ UNCHANGED storeVars
        /\ UNCHANGED <<tree, githubVars, number, faultVars>>

BranchPushed(r) ==
    /\ AtStep(r, "pushed")
    /\ AdvancePush(r, command[r].id)
    /\ GoStep(r, "create")
    /\ UNCHANGED <<tree, githubVars, number, faultVars>>

RecordPull(r, i) ==
    LET t == command[r]
    IN  /\ AdvancePush(r, t.id)
        /\ number' = [number EXCEPT ![t.id] = i]
        /\ IF t.goal = "publish" THEN GoStep(r, "present") ELSE Done(r)
        /\ UNCHANGED <<tree, githubVars, faultVars>>

\* recover leaves the creation to publish proposal
CreatePull(r) ==
    LET t == command[r]
    IN  /\ AtStep(r, "create")
        /\ t.goal = "publish" => remote[t.id] = t.head
        /\ \/ /\ Matches(t.id, t.head) = {}
              /\ t.goal = "publish"
              /\ Facts(t.id, FALSE)
              /\ tree = t.head
              /\ Send(r)
              /\ UNCHANGED <<tree, githubVars, number, faultVars>>
           \/ \E i \in Matches(t.id, t.head) :
                 /\ Matches(t.id, t.head) = {i}
                 /\ t.goal = "publish" => ExactDraft(t.id, i)
                 /\ RecordPull(r, i)

PullCreated(r) ==
    LET i == Pulls(command[r].id)
    IN  /\ AtStep(r, "created")
        /\ ExactDraft(command[r].id, i)
        /\ RecordPull(r, i)

\* Mutant: a missing label is set again.
PresentRelabels(r) ==
    LET t == command[r]
    IN  /\ AtStep(r, "present")
        /\ remote[t.id] = t.head
        /\ Matches(t.id, t.head) = {number[t.id]}
        /\ ExactDraft(t.id, number[t.id])
        /\ Facts(t.id, TRUE)
        /\ command' = [command EXCEPT ![r].step = "comment",
                                ![r].labelled = pulls[t.id][number[t.id]].label]
        /\ UNCHANGED <<storeVars, tree, githubVars, number, faultVars>>

\* a summary without a label: the label was removed by the owner, or never set
Present(r) ==
    LET t == command[r]  shown == pulls[t.id][number[t.id]]
    IN  /\ AtStep(r, "present")
        /\ remote[t.id] = t.head
        /\ Matches(t.id, t.head) = {number[t.id]}
        /\ ExactDraft(t.id, number[t.id])
        /\ shown.comment => shown.label
        /\ Facts(t.id, TRUE)
        /\ command' = [command EXCEPT ![r].step = "comment", ![r].labelled = shown.label]
        /\ UNCHANGED <<storeVars, tree, githubVars, number, faultVars>>

Comment(r) ==
    LET t == command[r]  shown == pulls[t.id][number[t.id]]
    IN  /\ AtStep(r, "comment")
        /\ shown.open
        /\ IF shown.comment THEN GoStep(r, "label") /\ UNCHANGED storeVars ELSE Send(r)
        /\ UNCHANGED <<tree, githubVars, number, faultVars>>

\* Mutant: the journal is settled without the label.
LabelLater(r) == /\ AtStep(r, "label")
                 /\ GoStep(r, "settle")
                 /\ UNCHANGED <<storeVars, tree, githubVars, number, faultVars>>

\* label_plan adds nothing that is there
Label(r) ==
    LET t == command[r]  shown == pulls[t.id][number[t.id]]
    IN  /\ AtStep(r, "label")
        /\ shown.open
        /\ \/ shown.label /\ GoStep(r, "settle") /\ UNCHANGED storeVars
           \/ ~ shown.label /\ ~ t.labelled /\ Facts(t.id, TRUE) /\ Send(r)
        /\ UNCHANGED <<tree, githubVars, number, faultVars>>

Settle(r) == /\ AtStep(r, "settle")
             /\ AdvancePush(r, command[r].id)
             /\ GoStep(r, "finish")
             /\ UNCHANGED <<tree, githubVars, number, faultVars>>

\* the work record of the run that validated
Finish(r) ==
    LET c == command[r].id
    IN  /\ \/ /\ AtStep(r, "finish")
              /\ work[c].run = r /\ work[c].phase = "validated"
              /\ SaveWork(r, c, work[c].reviewed, work[c].validated)
              /\ GoStep(r, "finished")
           \/ /\ AtStep(r, "finish")
              /\ ~ (work[c].run = r /\ work[c].phase = "validated")
              /\ Done(r)
              /\ UNCHANGED storeVars
           \/ /\ AtStep(r, "finished")
              /\ SaveWork(r, c, work[c].reviewed, work[c].validated)
              /\ Done(r)
        /\ UNCHANGED <<tree, githubVars, number, faultVars>>

-----------------------------------------------------------------------------
(* Around the commands.                                                    *)

\* the agent commits a candidate between the commands
Checkout == /\ \A r \in Run : command[r] = NoTask
            /\ \E h \in Head \ {tree} : tree' = h
            /\ UNCHANGED <<storeVars, githubVars, number, command, faultVars>>

\* a pull request is not judged in the seconds in which it is created
MayJudge == orphans = {} /\ \A r \in Run : command[r].sent = "no" \/ command[r].step # "create"

OwnerDecidesOn(c, i) ==
    /\ MayJudge
    /\ pulls[c][i].open
    /\ \/ /\ pulls[c][i].label
          /\ pulls' = [pulls EXCEPT ![c][i].label = FALSE, ![c][i].accepted = TRUE]
          /\ UNCHANGED catalog
       \/ /\ pulls' = [pulls EXCEPT ![c][i].open = FALSE]
          /\ catalog' \in {catalog, catalog \cup {c}}
    /\ UNCHANGED <<storeVars, tree, remote, number, command, faultVars>>

LeaseMoves == /\ LoseLease \/ \E r \in Run : AcquireLease(r)
              /\ UNCHANGED <<tree, githubVars, number, command, faultVars>>

Publish(r) == \/ PushBranch(r) \/ BranchPushed(r) \/ CreatePull(r) \/ PullCreated(r)
              \/ Present(r) \/ Comment(r) \/ Label(r) \/ Settle(r) \/ Finish(r)

ProposalNext ==
    \/ LeaseMoves \/ Checkout \/ OrphanArrives \/ OrphanIsLost
    \/ \E c \in WorkId : \E i \in DOMAIN pulls[c] : OwnerDecidesOn(c, i)
    \/ \E r \in Run, c \in WorkId : RecoverStart(r, c)
    \/ \E r \in Run, c \in WorkId, h \in Head : ValidateStart(r, c, h) \/ PublishStart(r, c, h)
    \/ \E r \in Run : Publish(r) \/ RecordWork(r) \/ RequestArrives(r)
                      \/ RequestReturns(r) \/ Refuse(r) \/ Die(r)

ProposalSpec == ProposalInit /\ [][ProposalNext]_proposalVars

-----------------------------------------------------------------------------
(* Properties                                                              *)

\* However often a publication dies, whoever recovers it and whatever the owner
\* does in between, a candidate gets one branch and one pull request.
ProposalOnce == \A c \in WorkId : /\ Pulls(c) <= 1
                                  /\ Pulls(c) = 1 => pulls[c][1].head = remote[c]

\* No more proposals than the cap wait for the owner, and each of them carries
\* the identity of its candidate, without which no later proposal is possible.
ProposalsCapped == /\ Cardinality(OpenProposals) <= Cap
                   /\ \A p \in OpenProposals : Known(p)

\* A label the owner has removed is not set again.
AcceptedStays ==
    [][\A c \in WorkId : \A i \in DOMAIN pulls[c] :
          pulls[c][i].accepted => ~ pulls'[c][i].label]_proposalVars

\* A journal ends as published only after its pull request, for exactly its head,
\* has been given comment and label; the work record follows the journal.
ProposalIsPublic ==
    \A c \in WorkId :
        /\ journal[c].phase \in {"pr-created", "published"} =>
              number[c] # 0 /\ pulls[c][number[c]].head = journal[c].new
        /\ journal[c].phase = "published" =>
              LET shown == pulls[c][number[c]]
              IN  shown.comment /\ (shown.label \/ shown.accepted)
        /\ work[c].phase \in {"pushed", "published"} => journal[c].phase = "published"

\* The three together, whatever commands of discovery die and are repeated
\* (handle_publish_proposal).
ProposalSafe == ProposalTypeOK /\ ProposalOnce /\ ProposalsCapped /\ ProposalIsPublic
=============================================================================
