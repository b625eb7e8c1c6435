---------------------------- MODULE GenerationLog ----------------------------
(***************************************************************************)
(* The generation documents of one pull request as they are kept: a        *)
(* sequence of events each (ops/maintainer/curation_state.py), of which    *)
(* every command projects the state it acts on.                            *)
(*                                                                         *)
(* A command loads the current document, decides, and appends one event    *)
(* under the mutex.  Two commands of the run that owns the lease may       *)
(* overlap; the number of the event tells whether the document is still    *)
(* the one that was loaded.  Reports, times and private refs are left out: *)
(* a transaction is named by its stage and head.                           *)
(***************************************************************************)
EXTENDS Integers
LOCAL INSTANCE Sequences

CONSTANTS Heads, NoLogHead,
          Writers,   \* commands that may overlap
          MaxDocs,   \* bound on the generations
          MaxEvents  \* bound on the events of one

ASSUME LogAssumption == /\ {MaxDocs, MaxEvents} \subseteq Nat
                        /\ NoLogHead \notin Heads
                        /\ \A h \in Heads : Heads # {h} \* another commit can be made

VARIABLES number, \* of the current document; the ones before are never written again
          logged, \* its events
          read    \* what each command has loaded: document and number of events

logVars == <<number, logged, read>>

LogEnded == {"superseded", "invalidated", "consumed"}
Outcome == {"partial", "complete", "unavailable"}
Unread == [doc |-> 0, length |-> 0]

Event(kind, stage, h, d) == [kind |-> kind, stage |-> stage, head |-> h, discovery |-> d]
PreparedEvent(h) == Event("prepared", "prepared", h, "none")

-----------------------------------------------------------------------------
(* project_generation                                                      *)

NothingOpen == [kind |-> "none", head |-> NoLogHead, discovery |-> "none"]

Blank(h) == [stage |-> "prepared", discovery |-> "none", head |-> h, open |-> NothingOpen,
             checkpoint |-> "none", reviewed |-> NoLogHead, validated |-> NoLogHead,
             classified |-> FALSE]

\* Mutant: a later checkpoint leaves the reviewed authority in place.
CompletedKeepsReview(p) ==
    [p EXCEPT !.stage = p.open.kind, !.head = p.open.head, !.open = NothingOpen,
              !.checkpoint = p.open.kind,
              !.discovery = IF p.open.kind = "discovery" THEN p.open.discovery ELSE @,
              !.reviewed = IF p.open.kind = "reviewed" THEN p.open.head ELSE @]

\* a completed checkpoint withdraws the authority of the one before
Completed(p) ==
    [p EXCEPT !.stage = p.open.kind, !.head = p.open.head, !.open = NothingOpen,
              !.checkpoint = p.open.kind, !.validated = NoLogHead, !.classified = FALSE,
              !.discovery = IF p.open.kind = "discovery" THEN p.open.discovery ELSE @,
              !.reviewed = IF p.open.kind = "reviewed" THEN p.open.head ELSE NoLogHead]

Apply(p, e) ==
    CASE e.kind = "started" ->
             [p EXCEPT !.open = [kind |-> e.stage, head |-> e.head,
                                 discovery |-> e.discovery]]
      [] e.kind = "completed" -> Completed(p)
      [] e.kind = "failed" -> [p EXCEPT !.stage = "validation-failed",
                                        !.validated = NoLogHead, !.classified = TRUE]
      [] e.kind = "passed" -> [p EXCEPT !.stage = "fully-validated",
                                        !.validated = e.head, !.classified = FALSE]
      [] e.kind = "closed" -> [p EXCEPT !.stage = e.stage, !.open = NothingOpen,
                                        !.checkpoint = "none", !.reviewed = NoLogHead,
                                        !.validated = NoLogHead, !.classified = FALSE]

Project(log) ==
    LET after[n \in 1..Len(log)] == IF n = 1 THEN Blank(log[1].head)
                                              ELSE Apply(after[n - 1], log[n])
    IN  after[Len(log)]

-----------------------------------------------------------------------------
(* validate_generation: what a document may be                             *)

Unscanned == [open |-> NothingOpen, done |-> FALSE, reviewed |-> NoLogHead, closed |-> FALSE,
              valid |-> TRUE]

Scan(s, e) ==
    CASE e.kind = "started" ->
             [s EXCEPT !.open = NothingOpen, !.open.kind = e.stage, !.open.head = e.head,
                       !.done = FALSE, !.valid = @ /\ ~ s.closed /\ s.open = NothingOpen]
      [] e.kind = "completed" ->
             [s EXCEPT !.open = NothingOpen, !.done = TRUE,
                       !.reviewed = IF s.open.kind = "reviewed" THEN s.open.head ELSE NoLogHead,
                       !.valid = @ /\ ~ s.closed /\ s.open.kind = e.stage
                                   /\ s.open.head = e.head]
      [] e.kind \in {"failed", "passed"} ->
             [s EXCEPT !.valid = @ /\ ~ s.closed /\ s.open = NothingOpen /\ s.done
                                   /\ s.reviewed = e.head]
      [] e.kind = "closed" ->
             [s EXCEPT !.open = NothingOpen, !.closed = TRUE,
                       !.valid = @ /\ ~ s.closed
                                   /\ (s.open # NothingOpen => e.stage = "invalidated")]

Scanned(log) ==
    LET after[n \in 1..Len(log)] == IF n = 1 THEN Unscanned
                                              ELSE Scan(after[n - 1], log[n])
    IN  after[Len(log)]

Valid(log) == log[1].kind = "prepared" /\ Scanned(log).valid

-----------------------------------------------------------------------------
(* next_action, and what the handlers accept                               *)

Ready(p) == p.discovery = "complete"

Offer(p) ==
    CASE p.open # NothingOpen -> p.open.kind
      [] p.open = NothingOpen /\ p.stage = "discovery" ->
             CASE p.discovery = "partial" -> "prepare"
               [] p.discovery = "unavailable" -> "evidence-unavailable"
               [] OTHER -> "reviewed"
      [] p.open = NothingOpen /\ p.stage = "delta" -> "reviewed"
      [] p.open = NothingOpen /\ p.stage = "validation-failed" -> "prepare"
      [] p.open = NothingOpen /\ p.stage = "prepared" -> "discovery"
      [] p.open = NothingOpen /\ p.stage = "reviewed" -> "validate"
      [] p.open = NothingOpen /\ p.stage = "fully-validated" -> "publish-push"
      [] OTHER -> "none"

\* handle_prepare_curation: what it offers once it has restored the checkpoint
OfferPrepared(p) == CASE p.stage = "discovery" /\ p.discovery = "partial" -> "discovery"
                      [] p.stage = "validation-failed" -> "delta"
                      [] OTHER -> Offer(p)

\* handle_checkpoint_curation up to the first append
MayCheckpoint(p, kind, h) ==
    /\ p.stage \in {"prepared", "discovery", "delta", "reviewed", "validation-failed"}
    /\ p.open # NothingOpen => p.open.kind = kind /\ p.open.head = h
    /\ kind \in {"delta", "reviewed"} => Ready(p)
    /\ p.stage = "validation-failed" => kind = "delta" /\ h # p.head
    /\ kind = "discovery" => \/ p.stage = "prepared"
                             \/ p.stage = "discovery" /\ h # p.head
                             \/ p.stage = "delta" /\ p.discovery # "partial" /\ h # p.head
    /\ kind = "delta" => ~ (p.stage = "delta" /\ h = p.head)
    /\ kind = "reviewed" => h = p.head /\ p.stage # "reviewed"

MayValidate(p, h) == /\ p.reviewed = h
                     /\ p.stage = "reviewed"

\* publish outcome evidence-unavailable
MayGiveUp(p) == p.stage = "discovery" /\ p.checkpoint = "discovery"
                /\ p.discovery = "unavailable"

\* handle_publish_push and consume: the validated head, no open transaction
MayPublish(p) == p.validated = p.head /\ p.open = NothingOpen

Accepts(p, recipe) ==
    CASE recipe \in {"discovery", "delta", "reviewed"} ->
             \E h \in Heads : MayCheckpoint(p, recipe, h)
      [] recipe = "validate" -> MayValidate(p, p.head)
      [] recipe = "evidence-unavailable" -> MayGiveUp(p)
      [] recipe = "publish-push" -> MayPublish(p)
      [] OTHER -> FALSE

-----------------------------------------------------------------------------
(* The commands                                                            *)

Latest == [doc |-> number, length |-> Len(logged)]

Load(c) == /\ number > 0
           /\ read' = [read EXCEPT ![c] = Latest]
           /\ UNCHANGED <<number, logged>>

\* What the command has loaded; of a document that is no longer current nothing
\* can come of it.
Loaded(c) == SubSeq(logged, 1, read[c].length)
HeldClaim(c) == read[c].doc = number /\ number > 0

\* Mutant: the event is appended to whatever the document is by now.
AppendAnyway(c, e) == /\ Len(logged) < MaxEvents
                      /\ Valid(Append(logged, e))
                      /\ logged' = Append(logged, e)

\* append_event: the same generation, the next number, a valid document
AppendEvent(c, e) == /\ read[c] = Latest
                     /\ Len(logged) < MaxEvents
                     /\ Valid(Append(logged, e))
                     /\ logged' = Append(logged, e)

LetGo(c) == read' = [read EXCEPT ![c] = Unread]

StartCheckpoint(c) ==
    LET p == Project(Loaded(c))
    IN  /\ p.open = NothingOpen
        /\ \E h \in Heads, kind \in {"discovery", "delta", "reviewed"} :
              \E d \in IF kind = "discovery" THEN Outcome ELSE {"none"} :
                 /\ MayCheckpoint(p, kind, h)
                 /\ AppendEvent(c, Event("started", kind, h, d))
        /\ read' = [read EXCEPT ![c].length = @ + 1]

CompleteCheckpoint(c) ==
    LET p == Project(Loaded(c))
    IN  /\ p.open # NothingOpen
        /\ MayCheckpoint(p, p.open.kind, p.open.head)
        /\ AppendEvent(c, Event("completed", p.open.kind, p.open.head, "none"))
        /\ LetGo(c)

RecordVerdict(c) ==
    LET p == Project(Loaded(c))
    IN  /\ p.open = NothingOpen
        /\ MayValidate(p, p.head)
        /\ \E kind \in {"failed", "passed"} :
              AppendEvent(c, Event(kind, "none", p.head, "none"))
        /\ LetGo(c)

\* prepare curation closes what it cannot resume; a publication closes what it used
CloseGeneration(c) ==
    LET p == Project(Loaded(c))
    IN  /\ \E kind \in LogEnded :
              /\ p.open # NothingOpen => kind = "invalidated"
              /\ AppendEvent(c, Event("closed", kind, NoLogHead, "none"))
        /\ LetGo(c)

\* start_generation: the next number, after the current one is closed
StartDocument(c) ==
    /\ number < MaxDocs
    /\ number > 0 => read[c] = Latest /\ Project(logged).stage \in LogEnded
    /\ number' = number + 1
    /\ \E h \in Heads : logged' = <<PreparedEvent(h)>>
    /\ LetGo(c)

LogInit == number = 0 /\ logged = <<>> /\ read = [c \in Writers |-> Unread]

Write(c) == /\ HeldClaim(c)
            /\ UNCHANGED number
            /\ \/ StartCheckpoint(c) \/ CompleteCheckpoint(c) \/ RecordVerdict(c)
               \/ CloseGeneration(c)

LogNext == \E c \in Writers : Load(c) \/ StartDocument(c) \/ Write(c)

LogSpec == LogInit /\ [][LogNext]_logVars

-----------------------------------------------------------------------------
(* Properties                                                              *)

\* The state that is projected from the events, whatever commands overlapped,
\* moves exactly as a generation promises.
Shown == LET p == Project(logged)
         IN  IF number = 0
               THEN [stage |-> "absent", discovery |-> "none", head |-> NoLogHead,
                     open |-> NothingOpen]
               ELSE [stage |-> p.stage, discovery |-> p.discovery, head |-> p.head,
                     open |-> p.open]

Promised == INSTANCE GenerationLifecycle WITH doc <- Shown, NoHead <- NoLogHead

\* append_event, however its callers interleave, keeps what GenerationLifecycle
\* promises.
LogImplementsLifecycle == Promised!Lifecycle

\* The next action that a document offers, in whatever state overlapping commands
\* left it, is one that its handler accepts; `prepare' is followed by one that is
\* accepted; and what is offered for validation or publication is the head of the
\* latest completed checkpoint.
OffersLeadOn ==
    number > 0 =>
        LET p == Project(logged)
            offer == IF Offer(p) = "prepare" THEN OfferPrepared(p) ELSE Offer(p)
        IN  /\ p.stage \notin LogEnded => Accepts(p, offer)
            /\ {p.reviewed, p.validated} \subseteq {p.head, NoLogHead}
=============================================================================
