----------------------------- MODULE Inspection -----------------------------
(***************************************************************************)
(* What `inspect curation' offers a scheduled run (ops/maintainer/         *)
(* inspection.py) and what the commands that take up an offer accept       *)
(* (ops/maintainer/capabilities.py).  The two are written apart: the       *)
(* inventory decides which pull request a run may choose, and each command *)
(* decides again from the live facts.                                      *)
(*                                                                         *)
(* A command is one step here; its own interleavings are the subject of    *)
(* CurationGeneration, CurationPublication, CiRepair and TerminalOutcome.  *)
(* An outcome is two steps, a comment and then a label.  Heads of a pull   *)
(* request are numbered in the order they are pushed.                      *)
(***************************************************************************)
EXTENDS Naturals

CONSTANTS Pulls,     \* pull requests of the repository
          LastHead,  \* bound on the heads of a pull request
          MaxChanges \* bound on what authors, the owner and GitHub do

ASSUME InspectionAssumption == LastHead \in Nat \ {0} /\ MaxChanges \in Nat

\* Mutant: what is ready is not held
HoldsWithoutReady == {"blocked"}

Holds == {"blocked", "ready"} \* two of _SELECTION_HOLD_LABELS
NoOutcome == [state |-> "none", head |-> 0]

VARIABLES pull,      \* live facts of each pull request
          comment,   \* its canonical comment: outcome record and reviewed head
          ciState,        \* its CI continuation: phase and head
          workState,      \* its latest generation: state and selected head
          unresolved,\* recovery due: nothing, a push journal or a terminal intent
          changes    \* what authors, the owner and GitHub have done so far

inspectionVars == <<pull, comment, ciState, workState, unresolved, changes>>

InspectionInit ==
    /\ pull = [p \in Pulls |-> [open |-> TRUE, head |-> 1, trusted |-> TRUE,
                                routed |-> TRUE, report |-> TRUE, label |-> "none",
                                mergeable |-> "MERGEABLE", checks |-> "success"]]
    /\ comment = [p \in Pulls |-> [outcome |-> NoOutcome, reviewed |-> 0]]
    /\ ciState = [p \in Pulls |-> [phase |-> "none", head |-> 0]]
    /\ workState = [p \in Pulls |-> NoOutcome]
    /\ unresolved = [kind |-> "none"]
    /\ changes = 0

----------------------------------------------------------------------------
(* The inventory. *)

WaitingForCi(p) == ciState[p].phase \in {"waiting", "repair-active"}
AnyWaiting == \E p \in Pulls : WaitingForCi(p)

\* trusted_hold_head
HoldHead(p) == IF /\ pull[p].label # "none"
                  /\ comment[p].outcome.state = pull[p].label
               THEN comment[p].outcome.head
               ELSE comment[p].reviewed

\* _is_safe_curation_candidate
Safe(p) == /\ pull[p].open /\ pull[p].trusted /\ pull[p].routed
           /\ pull[p].label \in Holds => HoldHead(p) \notin {0, pull[p].head}

\* Mutant: a generation is available whatever became of its pull request
AvailabilityByHead(p) ==
    CASE workState[p].state # "open"              -> "complete"
      [] pull[p].head # workState[p].head         -> "head-drift"
      [] pull[p].label \in Holds             -> "hold-label"
      [] OTHER                               -> "available"

\* _generation_availability of the latest generation
Availability(p) ==
    CASE workState[p].state # "open"              -> "complete"
      [] ~ pull[p].open                      -> "closed-or-merged"
      [] pull[p].head # workState[p].head         -> "head-drift"
      [] pull[p].label \in Holds             -> "hold-label"
      [] ~ Safe(p)                           -> "invalid-state"
      [] OTHER                               -> "available"

\* ci_continuation_availability
Resumable(p) ==
    /\ WaitingForCi(p)
    /\ pull[p].open /\ pull[p].head = ciState[p].head
    /\ pull[p].routed /\ pull[p].trusted /\ pull[p].mergeable = "MERGEABLE"
    /\ ciState[p].phase = "repair-active" => pull[p].checks = "failure"

\* inspect_curation: recovery alone, or continuations, generations and eligible
\* pull requests.  Continuations hide the generations.
Resumed == {p \in Pulls : unresolved.kind = "none" /\ Resumable(p)}
Retryable == {p \in Pulls : /\ unresolved.kind = "none" /\ ~ AnyWaiting
                            /\ workState[p].state # "none" /\ Availability(p) = "available"}
Reserved == {p \in Pulls : /\ ~ AnyWaiting
                           /\ workState[p].state # "none"
                           /\ Availability(p) \notin {"complete", "head-drift"}}
Eligible == {p \in Pulls : /\ unresolved.kind = "none"
                           /\ Safe(p) /\ ~ WaitingForCi(p) /\ p \notin Reserved}

\* the order in which a run must take up what is offered: a continuation before
\* a generation, a generation before an ordinary pull request
Chosen == IF AnyWaiting THEN {} ELSE IF Retryable # {} THEN Retryable ELSE Eligible

----------------------------------------------------------------------------
(* The commands. *)

\* handle_prepare_curation and _require_exact_curation_candidate, which looks at
\* neither the continuations nor the generations
MayPrepare(p) == /\ unresolved.kind = "none"
                 /\ ~ AnyWaiting
                 /\ Safe(p)
                 /\ pull[p].report

\* a generation is resumed, or a new one is made for the live head
PrepareOffered(p) ==
    /\ MayPrepare(p)
    /\ p \in Retryable \cup Eligible
    /\ workState' = [workState EXCEPT ![p] = [state |-> "open", head |-> pull[p].head]]
    /\ UNCHANGED <<pull, comment, ciState, unresolved>>

\* publish push: the generation is consumed with its journal; publish recover
\* and publish state are what settle it
PublishPush(p) ==
    /\ unresolved.kind = "none"
    /\ workState[p].state = "open" /\ workState[p].head = pull[p].head
    /\ pull[p].open /\ pull[p].head < LastHead
    /\ workState' = [workState EXCEPT ![p].state = "consumed"]
    /\ unresolved' = [kind |-> "push", pr |-> p]
    /\ UNCHANGED <<pull, comment, ciState>>

RecoverPush(p) ==
    /\ unresolved = [kind |-> "push", pr |-> p]
    /\ pull[p].head < LastHead
    /\ unresolved' = [kind |-> "none"]
    /\ pull' = [pull EXCEPT ![p].head = @ + 1, ![p].checks = "pending",
                            ![p].label = "waiting-ci"]
    /\ comment' = [comment EXCEPT ![p].reviewed = pull[p].head + 1, ![p].outcome = NoOutcome]
    /\ ciState' = [ciState EXCEPT ![p] = [phase |-> "waiting", head |-> pull[p].head + 1]]
    /\ UNCHANGED workState

\* publish state ready
PublishReady(p) ==
    /\ unresolved.kind = "none"
    /\ Resumable(p) /\ ciState[p].phase = "waiting" /\ pull[p].checks = "success"
    /\ ciState' = [ciState EXCEPT ![p].phase = "consumed"]
    /\ pull' = [pull EXCEPT ![p].label = "ready"]
    /\ UNCHANGED <<comment, workState, unresolved>>

PrepareRepair(p) ==
    /\ unresolved.kind = "none"
    /\ Resumable(p) /\ ciState[p].phase = "waiting" /\ pull[p].checks = "failure"
    /\ ciState' = [ciState EXCEPT ![p].phase = "repair-active"]
    /\ UNCHANGED <<pull, comment, workState, unresolved>>

\* ci_continuation_invalidation_reason
MayInvalidate(p) ==
    /\ WaitingForCi(p)
    /\ \/ ~ pull[p].open
       \/ pull[p].head # ciState[p].head
       \/ ~ pull[p].trusted
       \/ pull[p].mergeable = "CONFLICTING"
       \/ ciState[p].phase = "repair-active" /\ pull[p].checks = "success"

Invalidate(p) ==
    /\ unresolved.kind = "none"
    /\ MayInvalidate(p)
    /\ ciState' = [ciState EXCEPT ![p].phase = "invalidated"]
    /\ UNCHANGED <<pull, comment, workState, unresolved>>

\* publish outcome blocked: of prepared work at the exact head, or of a
\* continuation, which then leaves an intent behind until it is public
BlockComment(p) ==
    /\ pull[p].open /\ pull[p].routed
    /\ unresolved.kind = "none"
    /\ \/ workState[p].state = "open" /\ workState[p].head = pull[p].head /\ ~ AnyWaiting
          /\ UNCHANGED <<ciState, unresolved>>
       \/ ciState[p].phase = "repair-active" /\ ciState[p].head = pull[p].head
          /\ unresolved' = [kind |-> "terminal", pr |-> p]
          /\ UNCHANGED ciState
    /\ comment' = [comment EXCEPT ![p].outcome = [state |-> "blocked",
                                                   head |-> pull[p].head]]
    /\ UNCHANGED <<pull, workState>>

\* the label, unless the command died after its comment
BlockLabel(p) ==
    /\ comment[p].outcome = [state |-> "blocked", head |-> pull[p].head]
    /\ pull[p].label # "blocked" /\ pull[p].open
    /\ \/ unresolved = [kind |-> "terminal", pr |-> p]
       \/ unresolved.kind = "none" /\ workState[p] = [state |-> "open", head |-> pull[p].head]
    /\ pull' = [pull EXCEPT ![p].label = "blocked"]
    /\ ciState' = IF unresolved.kind = "terminal"
             THEN [ciState EXCEPT ![p].phase = "blocked"] ELSE ciState
    /\ unresolved' = [kind |-> "none"]
    /\ UNCHANGED <<comment, workState>>

----------------------------------------------------------------------------
(* Authors, the owner and GitHub. *)

AuthorPushes(p) ==
    /\ pull[p].open /\ pull[p].head < LastHead
    /\ \E t, r \in BOOLEAN :
           pull' = [pull EXCEPT ![p].head = @ + 1, ![p].checks = "pending",
                                ![p].trusted = t, ![p].report = r]

OwnerChanges(p) ==
    /\ \/ pull' = [pull EXCEPT ![p].label = "none"]
       \/ pull' = [pull EXCEPT ![p].routed = ~ @]
       \/ pull' = [pull EXCEPT ![p].open = FALSE]

GitHubReports(p) ==
    /\ \/ \E m \in {"MERGEABLE", "UNKNOWN", "CONFLICTING"} :
              pull' = [pull EXCEPT ![p].mergeable = m]
       \/ \E c \in {"pending", "success", "failure"} : pull' = [pull EXCEPT ![p].checks = c]

Outside(p) ==
    /\ changes < MaxChanges
    /\ changes' = changes + 1
    /\ AuthorPushes(p) \/ OwnerChanges(p) \/ GitHubReports(p)
    /\ UNCHANGED <<comment, ciState, workState, unresolved>>

InspectionNext ==
    \E p \in Pulls :
        \/ /\ \/ PrepareOffered(p) \/ PublishPush(p) \/ RecoverPush(p) \/ PublishReady(p)
              \/ PrepareRepair(p) \/ Invalidate(p) \/ BlockComment(p) \/ BlockLabel(p)
           /\ UNCHANGED changes
        \/ Outside(p)

----------------------------------------------------------------------------
(* What a run that takes up the first thing it is offered is told is true:  *)
(* the command accepts it as long as the facts have not moved.  Only a      *)
(* pull request without exactly one canonical report is offered in vain     *)
(* (inspection.py:312, capabilities.py:384-397).                            *)
OffersAreAccepted == \A p \in Chosen : pull[p].report => MayPrepare(p)

(* Nothing is offered that is held where it is: not a pull request whose    *)
(* work ended as ready with the head its comment names, nor one blocked at  *)
(* its head, whatever interrupted outcomes, later pushes and the owner have *)
(* left of labels and comments (inspection.py:306-323 and 743-765,          *)
(* publication.py:450-463).                                                 *)
HeldIsNotOffered ==
    \A p \in Pulls :
        \/ /\ pull[p].label = "blocked"
           /\ comment[p].outcome = [state |-> "blocked", head |-> pull[p].head]
        \/ pull[p].label = "ready" /\ comment[p].reviewed = pull[p].head
        => p \notin Retryable \cup Eligible

\* The two together.
InspectionSafe == OffersAreAccepted /\ HeldIsNotOffered

(* README.md:286-288: "A new commit or deliberate label removal makes the   *)
(* paused PR eligible again."  A pull request of the maintainer's own whose *)
(* hold is for an earlier head is offered in some form when nothing else    *)
(* has to be recovered first (inspection.py:401).                           *)
NewCommitReopens ==
    \A p \in Pulls :
        Safe(p) /\ unresolved.kind = "none" /\ ~ AnyWaiting => p \in Retryable \cup Eligible

InspectionSpec == InspectionInit /\ [][InspectionNext]_inspectionVars
=============================================================================
