------------------------- MODULE CurationValidation -------------------------
(***************************************************************************)
(* The commands that validate a curation pull request                      *)
(* (ops/maintainer/validation.py): the catalog check and the report's      *)
(* reconciliation for a delta, and the catalog's tests too for a reviewed  *)
(* head.  Each command is a process group of its own in the checkout of    *)
(* the pull request, beside a checkout of the base; it may start a child,  *)
(* outstay its timeout, ignore SIGTERM, and write to the checkout for as   *)
(* long as any process of it lives.                                        *)
(*                                                                         *)
(* A change of a checkout is never undone: one that is undone between two  *)
(* plans is not seen, which the code does not claim.  A child that leaves  *)
(* its group is outside of the model as of the code's signals.             *)
(***************************************************************************)
EXTENDS Naturals, FiniteSets

VARIABLES kind,     \* what is validated: a delta, or a reviewed head
          position, \* the command in hand, 0 before the first
          phase,    \* how far it is
          living,   \* the processes of any command that live: of which command,
                    \*   whether the leader, and what SIGTERM and SIGKILL do
          exited,   \* how the leader of the command in hand ended
          dirty,    \* the checkouts that are no longer as they were prepared
          touched   \* history: which command lived beside which dirty checkout

validationVars == <<kind, position, phase, living, exited, dirty, touched>>

Checkouts == {"reviewed", "base"}

Commands == IF kind = "delta" THEN 2 ELSE 3
Results == {"passed", "mismatch", "timeout", "failed", "cleanup-failed"}
Temper == {"obeys", "ignores-term", "stuck"}

Leader == {p \in living : p.leader}
Survive(signal) == {p \in living : \/ p.temper = "stuck"
                                   \/ signal = "term" /\ p.temper = "ignores-term"}

ValidationInit == /\ kind \in {"delta", "full"}
                  /\ position = 0 /\ phase = "plan"
                  /\ living = {} /\ exited = "no"
                  /\ dirty = {} /\ touched = {}

\* a checkout is clean and at its head
Clean(c) == c \notin dirty

\* the plan of the reviewed head still holds: before each command, and after the
\* last of a reviewed head
PlanHolds == \A c \in Checkouts : Clean(c)

\* after the last command of a delta there is no plan: its checkpoint reads the
\* checkout of the pull request again, and nothing reads the base
CheckpointHolds == Clean("reviewed")

AsPrepared == IF position = Commands /\ kind = "delta" THEN CheckpointHolds ELSE PlanHolds

Plan == /\ phase = "plan"
        /\ phase' = CASE ~AsPrepared -> "mismatch"
                      [] AsPrepared /\ position < Commands -> "start"
                      [] AsPrepared /\ position >= Commands -> "passed"
        /\ UNCHANGED <<kind, position, living, exited, dirty, touched>>

Start == /\ phase = "start"
         /\ \E temper \in Temper :
               living' = living \cup {[of |-> position + 1, leader |-> TRUE, temper |-> temper]}
         /\ position' = position + 1
         /\ phase' = "running" /\ exited' = "no"
         /\ touched' = touched \cup dirty \X {position + 1}
         /\ UNCHANGED <<kind, dirty>>

\* a child of the command in hand, at any time that one of its processes lives
Fork == /\ \E p \in living, temper \in Temper :
              /\ \A q \in living : q.of = p.of => q.leader
              /\ living' = living \cup {[of |-> p.of, leader |-> FALSE, temper |-> temper]}
        /\ UNCHANGED <<kind, position, phase, exited, dirty, touched>>

Exit == /\ phase = "running"
        /\ \E p \in Leader : living' = living \ {p}
        /\ exited' \in {"zero", "other"}
        /\ UNCHANGED <<kind, position, phase, dirty, touched>>

ChildExits == /\ \E p \in living \ Leader : living' = living \ {p}
              /\ UNCHANGED <<kind, position, phase, exited, dirty, touched>>

\* a process writes to a checkout, or somebody else does
Change == /\ phase \notin Results \/ living # {}
          /\ \E c \in Checkouts : /\ dirty' = dirty \cup {c}
                                  /\ touched' = touched \cup {c} \X {p.of : p \in living}
          /\ UNCHANGED <<kind, position, phase, living, exited>>

\* Mutant: a command that ended by itself needs no signal.
WaitedIsEnough == /\ phase = "running" /\ exited # "no"
                  /\ phase' = "ended"
                  /\ UNCHANGED <<kind, position, living, exited, dirty, touched>>

Waited == /\ phase = "running" /\ exited # "no"
          /\ phase' = "term"
          /\ UNCHANGED <<kind, position, living, exited, dirty, touched>>

TimesOut == /\ phase = "running" /\ Leader # {}
            /\ exited' = "timeout"
            /\ phase' = "term"
            /\ UNCHANGED <<kind, position, living, dirty, touched>>

Terminate == /\ phase = "term"
             /\ living' = Survive("term")
             /\ phase' = "grace"
             /\ UNCHANGED <<kind, position, exited, dirty, touched>>

\* the grace period ends: the group is gone, or is killed
Grace == /\ phase = "grace"
         /\ IF living = {} THEN phase' = "ended" /\ UNCHANGED living
                           ELSE phase' = "killed" /\ living' = Survive("kill")
         /\ UNCHANGED <<kind, position, exited, dirty, touched>>

\* a leader that outlives the kill gets another; then nothing may be left
Killed == /\ phase = "killed"
          /\ living' = IF Leader # {} THEN Survive("kill") ELSE living
          /\ phase' = IF living' = {} THEN "ended" ELSE "cleanup-failed"
          /\ UNCHANGED <<kind, position, exited, dirty, touched>>

Ended == /\ phase = "ended"
         /\ phase' = CASE exited = "timeout" -> "timeout"
                       [] exited = "other" -> "failed"
                       [] OTHER -> "plan"
         /\ UNCHANGED <<kind, position, living, exited, dirty, touched>>

\* the next validation, of checkouts prepared anew; what is left of a group that
\* could not be ended has a SIGKILL pending and never runs again
Again == /\ phase \in Results
         /\ kind' \in {"delta", "full"}
         /\ position' = 0 /\ phase' = "plan" /\ exited' = "no"
         /\ dirty' = {} /\ touched' = {}
         /\ living' = {}

ValidationNext == \/ Plan \/ Start \/ Fork \/ Exit \/ ChildExits \/ Change \/ Waited
                  \/ TimesOut \/ Terminate \/ Grace \/ Killed \/ Ended \/ Again

-----------------------------------------------------------------------------
(* Properties.                                                             *)

\* No process of a command outlives it, whatever it started and whichever signals
\* it ignores: none lives beside a later command or after a result, unless the
\* result is that the group could not be ended (_terminate_process_group).
NothingOutlives == /\ \A p, q \in living : p.of = q.of
                   /\ phase \in {"plan", "start"} \cup (Results \ {"cleanup-failed"})
                         => living = {}

\* A validation passes only if no command, nor a child it left, had another
\* checkout before it than the prepared one at any time of its life
\* (validation.py:343, git_ops.py:1001).  The base of a delta is held to that up to
\* the start of its last command only: what it is while the reconciliation reads it
\* is not looked at again.
ReadAsPrepared ==
    phase = "passed" => touched \subseteq IF kind = "delta" THEN {<<"base", Commands>>} ELSE {}

\* Both together, of every validation (validate_curation_delta and
\* validate_curation).
ValidationSafe == NothingOutlives /\ ReadAsPrepared

ValidationSpec == ValidationInit /\ [][ValidationNext]_validationVars
=============================================================================
