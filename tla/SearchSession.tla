---- MODULE SearchSession ----
(* The search screen of the web front end (frontend/src/App.tsx and             *)
(* frontend/src/search/searchSession.ts): one browser session that submits      *)
(* searches, shows a ranking, asks the server for refinement questions about    *)
(* that ranking, and applies, skips and undoes the answers.  Every await is a   *)
(* point where other answers and clicks come in between.                        *)
(*                                                                              *)
(* The editor's preferences, group priorities and objectives are one function   *)
(* from factors to levels: the three lists go through the same calls.  `Family` *)
(* holds the two pass-value objectives, of which a list keeps at most one.  A   *)
(* set of hard filters is one value, `Unusable` the one that fails validation.  *)
EXTENDS Naturals, FiniteSets

CONSTANTS Factors, Family, Topics, Target, Briefs, NoBrief, Filters, Unusable,
          MaxAsks,      \* bound: discovery requests the session starts
          MaxSearches,  \* bound: searches it starts
          MaxEdits      \* bound: edits of the form

ASSUME SessionAssumption ==
    /\ Family \subseteq Factors /\ NoBrief \in Briefs /\ Unusable \in Filters
    /\ Target \in [Topics -> Factors]  \* target_factor_id of a topic
    /\ MaxAsks \in Nat /\ MaxSearches \in Nat /\ MaxEdits \in Nat

VARIABLES
    editor,    \* the draft of the form: [choices, filters, brief, parsed]
    shown,     \* the ranking on screen: {} or {[choices, filters, brief, data]}
    queue,     \* the question on screen: {} or {[topic, about]}
    resolved,  \* topics the traveler has answered or skipped
    undo,      \* {} or {what applyRefinement kept to go back to}
    update,    \* `loading`: {} or {the search in progress}
    asked,     \* discovery requests whose answer is still to come
    asking,    \* refinementRequestIdRef
    status,    \* refinementStatus
    tick       \* the bounds' counters: [searches, edits]

sessionVars ==
    <<editor, shown, queue, resolved, undo, update, asked, asking, status, tick>>

Levels == {"none", "normal", "high"}
NoChoices == [f \in Factors |-> "none"]

(* upsertBy and mergeObjectivePatches: a patch of a pass-value objective        *)
(* replaces its whole family, any other patch only its own factor.              *)
Merged(choices, f, level) ==
    [g \in Factors |->
        IF g = f THEN level
        ELSE IF {f, g} \subseteq Family /\ level # "none" THEN "none" ELSE choices[g]]

(* removeChipFromEditor: removing a pass-value objective removes the family.    *)
Dropping(choices, f) ==
    [g \in Factors |->
        IF g = f \/ {f, g} \subseteq Family THEN "none" ELSE choices[g]]

(* restoreRefinementDraftItems: what the refinement changed goes back to what   *)
(* it was, unless the traveler has changed it since.                            *)
Restored(current, before, after) ==
    [f \in Factors |->
        IF before[f] # after[f] /\ current[f] = after[f] THEN before[f] ELSE current[f]]

(* resolvedTopicsAfterManualIntentChange: a new brief or other hard filters     *)
(* start over; otherwise the topics about changed factors reopen.               *)
StillResolved(ranking, brief, filters, choices) ==
    IF ranking.brief # brief \/ ranking.filters # filters
    THEN {}
    ELSE {t \in resolved : choices[Target[t]] = ranking.choices[Target[t]]}

(* The ranking's fingerprint and policy version, which a question carries.      *)
About(ranking) == [choices |-> ranking.choices, filters |-> ranking.filters,
                   data |-> ranking.data]

SessionInit ==
    /\ \E f \in Factors : editor = [choices |-> Merged(NoChoices, f, "normal"),
                                    filters |-> CHOOSE x \in Filters \ {Unusable} : TRUE,
                                    brief |-> NoBrief, parsed |-> NoBrief]
    /\ shown = {} /\ queue = {} /\ resolved = {} /\ undo = {} /\ update = {}
    /\ asked = {} /\ asking = 0 /\ status = "idle"
    /\ tick = [searches |-> 0, edits |-> 0]

Loading == update # {}

----------------------------------------------------------------------------
(* The form.  The drawer is disabled while a search runs; the brief is not.     *)

EditForm ==
    /\ ~Loading /\ tick.edits < MaxEdits
    /\ tick' = [tick EXCEPT !.edits = @ + 1]
    /\ \/ \E f \in Factors :
             editor' = [editor EXCEPT !.choices = Merged(@, f, "normal")]
       \/ \E f \in Factors :
             editor' = [editor EXCEPT !.choices = Dropping(@, f)]
       \/ \E x \in Filters : editor' = [editor EXCEPT !.filters = x]
    /\ UNCHANGED <<shown, queue, resolved, undo, update, asked, asking, status>>

EditBrief ==
    /\ tick.edits < MaxEdits
    /\ tick' = [tick EXCEPT !.edits = @ + 1]
    /\ \E b \in Briefs : editor' = [editor EXCEPT !.brief = b]
    /\ UNCHANGED <<shown, queue, resolved, undo, update, asked, asking, status>>

----------------------------------------------------------------------------
(* loadRefinements: a new discovery overtakes every earlier one.  Nothing is    *)
(* asked about a ranking without candidates (`data` = "empty").                 *)

Discover(ranking, topics) ==
    /\ asking' = asking + 1
    /\ queue' = {}
    /\ IF ranking.data = "empty"
       THEN status' = "idle" /\ UNCHANGED asked
       ELSE /\ status' = "loading"
            /\ asked' = asked \cup {[id |-> asking + 1, about |-> About(ranking),
                                     resolved |-> topics, attempt |-> 1]}

(* The answer the server gives: a question on a topic not yet resolved, none,   *)
(* or that it no longer knows the ranking (its snapshot is gone).               *)
Answers(request) ==
    {[kind |-> "question", topic |-> t] : t \in Topics \ request.resolved}
        \cup {[kind |-> k] : k \in {"not_needed", "temporarily_unavailable",
                                    "unverified", "stale"}}

(* Mutant: an overtaken request's answer is believed. *)
HeardAnyway(request) == request \in asked

(* An answer is dropped unless it is the last request's, and reaches the queue  *)
(* only of the ranking it is about.                                             *)
Heard(request) == request.id = asking

DiscoveryAnswered ==
    \E request \in asked : \E answer \in Answers(request) :
        /\ asked' = asked \ {request}
        /\ IF Heard(request)
           THEN /\ status' = IF answer.kind = "question" THEN "questions_available"
                             ELSE IF answer.kind = "unverified"
                             THEN "temporarily_unavailable" ELSE answer.kind
                /\ queue' = IF \E ranking \in shown : About(ranking) = request.about
                            THEN IF answer.kind = "question"
                                 THEN {[topic |-> answer.topic, about |-> request.about]}
                                 ELSE {}
                            ELSE queue
           ELSE UNCHANGED <<status, queue>>
        /\ UNCHANGED <<editor, shown, resolved, undo, update, asking, tick>>

(* A rate limit with a short Retry-After is waited out once; an abort or an     *)
(* error after that leaves the queue alone and offers a retry.                  *)
DiscoveryFailed ==
    \E request \in asked :
        /\ \/ /\ Heard(request) /\ request.attempt = 1
              /\ asked' = (asked \ {request}) \cup {[request EXCEPT !.attempt = 2]}
              /\ status' = "retrying"
           \/ /\ asked' = asked \ {request}
              /\ status' = IF Heard(request) THEN "temporarily_unavailable" ELSE status
        /\ UNCHANGED <<editor, shown, queue, resolved, undo, update, asking, tick>>

----------------------------------------------------------------------------
(* fetchSearch: validation first; then every discovery is cancelled, and the    *)
(* request is under way until it is answered or fails.                          *)

FetchAnswer(search) ==
    /\ tick.searches < MaxSearches
    /\ tick' = [tick EXCEPT !.searches = @ + 1]
    /\ asking' = asking + 1 /\ status' = "idle"
    /\ update' = {search}

(* handleSubmit.  A brief not yet parsed is parsed first. *)
Submitted(filters) ==
    [kind |-> "submit", choices |-> editor.choices, filters |-> filters,
     brief |-> editor.brief, at |-> "search",
     resolved |-> UNION {StillResolved(ranking, editor.brief, filters, editor.choices)
                             : ranking \in shown}]

SubmitSearch ==
    /\ ~Loading
    /\ IF editor.brief # NoBrief /\ editor.brief # editor.parsed
       THEN /\ update' = {[kind |-> "submit", at |-> "parse", brief |-> editor.brief]}
            /\ UNCHANGED <<asking, status, tick>>
       ELSE editor.filters # Unusable /\ FetchAnswer(Submitted(editor.filters))
    /\ UNCHANGED <<editor, shown, queue, resolved, undo, asked>>

(* The parser answers with filters merged into the draft of the click.          *)
BriefParsed ==
    \E search \in update, x \in Filters :
        /\ search.at = "parse"
        /\ editor' = [editor EXCEPT !.filters = x, !.parsed = search.brief]
        /\ IF x = Unusable
           THEN update' = {} /\ UNCHANGED <<asking, status, tick>>
           ELSE FetchAnswer([Submitted(x) EXCEPT
                    !.brief = search.brief,
                    !.resolved = UNION {StillResolved(ranking, search.brief, x,
                                            editor.choices) : ranking \in shown}])
        /\ UNCHANGED <<shown, queue, resolved, undo, asked>>

(* applyRefinement, for an option that changes the intent.  The search runs on  *)
(* the ranking's own intent; the editor's draft takes the same patch.           *)
Apply ==
    \E ranking \in shown, question \in queue, level \in Levels :
        /\ ~Loading
        /\ LET f == Target[question.topic]
           IN  /\ Merged(ranking.choices, f, level) # ranking.choices
               /\ FetchAnswer([kind |-> "apply", at |-> "search",
                         choices |-> Merged(ranking.choices, f, level),
                         filters |-> ranking.filters, brief |-> ranking.brief,
                         resolved |-> resolved \cup {question.topic},
                         draft |-> Merged(editor.choices, f, level),
                         back |-> [choices |-> ranking.choices,
                                   filters |-> ranking.filters,
                                   brief |-> ranking.brief, resolved |-> resolved,
                                   before |-> editor.choices,
                                   after |-> Merged(editor.choices, f, level)]])
        /\ UNCHANGED <<editor, shown, queue, resolved, undo, asked>>

(* undoRefinement *)
Undo ==
    \E back \in undo :
        /\ ~Loading
        /\ FetchAnswer([kind |-> "undo", at |-> "search", choices |-> back.choices,
                  filters |-> back.filters, brief |-> back.brief,
                  resolved |-> back.resolved, back |-> back])
        /\ UNCHANGED <<editor, shown, queue, resolved, undo, asked>>

(* removeChip: before any ranking it only edits the draft. *)
RemoveChip ==
    /\ ~Loading
    /\ \E f \in Factors :
        IF shown = {}
        THEN /\ tick.edits < MaxEdits /\ tick' = [tick EXCEPT !.edits = @ + 1]
             /\ editor' = [editor EXCEPT !.choices = Dropping(@, f)]
             /\ UNCHANGED <<asking, status, update>>
        ELSE \E ranking \in shown :
             /\ ranking.choices[f] # "none"
             /\ FetchAnswer([kind |-> "chip", at |-> "search",
                       choices |-> Dropping(ranking.choices, f),
                       filters |-> ranking.filters, brief |-> ranking.brief,
                       resolved |-> StillResolved(ranking, ranking.brief,
                                       ranking.filters, Dropping(ranking.choices, f)),
                       draft |-> Dropping(editor.choices, f)])
             /\ UNCHANGED editor
    /\ UNCHANGED <<shown, queue, resolved, undo, asked>>

(* What each handler does with the editor and the undo once its search is       *)
(* answered; fetchSearch itself has already dropped the undo.                   *)
Drafted(search) ==
    IF search.kind = "submit" THEN search.choices
    ELSE IF search.kind = "undo"
    THEN Restored(editor.choices, search.back.before, search.back.after)
    ELSE search.draft

(* Mutant: an ordinary search leaves the undo of an earlier ranking in place. *)
StillRevertible(search) == IF search.kind = "apply" THEN {search.back} ELSE undo

Revertible(search) == IF search.kind = "apply" THEN {search.back} ELSE {}

SearchAnswered ==
    \E search \in update, data \in {"v1", "v2", "empty"} :
        /\ search.at = "search" /\ asking < MaxAsks
        /\ LET ranking == [choices |-> search.choices, filters |-> search.filters,
                           brief |-> search.brief, data |-> data]
           IN  shown' = {ranking} /\ Discover(ranking, search.resolved)
        /\ editor' = [editor EXCEPT
                        !.choices = Drafted(search),
                        !.filters = IF search.kind = "submit" THEN search.filters ELSE @]
        /\ resolved' = search.resolved
        /\ undo' = Revertible(search)
        /\ update' = {}
        /\ UNCHANGED tick

SearchFailed ==
    /\ Loading
    /\ update' = {}
    /\ UNCHANGED <<editor, shown, queue, resolved, undo, asked, asking, status, tick>>

----------------------------------------------------------------------------
(* skipRefinement, and applyRefinement for an option that changes nothing: the  *)
(* question is resolved and the next one asked for the same ranking.            *)
Skip ==
    \E ranking \in shown, question \in queue :
        /\ ~Loading /\ asking < MaxAsks
        /\ resolved' = resolved \cup {question.topic}
        /\ Discover(ranking, resolved')
        /\ UNCHANGED <<editor, shown, undo, update, tick>>

(* retryRefinementDiscovery, offered once discovery has failed. *)
Retry ==
    \E ranking \in shown :
        /\ ~Loading /\ queue = {} /\ status = "temporarily_unavailable"
        /\ asking < MaxAsks
        /\ Discover(ranking, resolved)
        /\ UNCHANGED <<editor, shown, resolved, undo, update, tick>>

(* keepCurrentResults *)
Keep ==
    /\ ~Loading /\ shown # {} /\ asking < MaxAsks
    /\ queue # {} \/ status = "temporarily_unavailable"
    /\ asking' = asking + 1 /\ queue' = {} /\ status' = "skipped"
    /\ UNCHANGED <<editor, shown, resolved, undo, update, asked, tick>>

SessionNext ==
    \/ EditForm \/ EditBrief \/ SubmitSearch \/ BriefParsed \/ Apply \/ Undo \/ RemoveChip
    \/ SearchAnswered \/ SearchFailed \/ DiscoveryAnswered \/ DiscoveryFailed
    \/ Skip \/ Retry \/ Keep

SessionSpec == SessionInit /\ [][SessionNext]_sessionVars

----------------------------------------------------------------------------
(* The question on screen is about the ranking on screen and about a topic the  *)
(* traveler has not settled, whatever answers come late (App.tsx:739, 777).     *)
QuestionsAreOpen ==
    \A question \in queue :
        /\ \E ranking \in shown : question.about = About(ranking)
        /\ question.topic \notin resolved

(* What Undo would go back to is one refinement away from the ranking on        *)
(* screen: a search in between has dropped it (App.tsx:865).                    *)
UndoIsLast ==
    \A back \in undo, ranking \in shown :
        /\ back.filters = ranking.filters /\ back.brief = ranking.brief
        /\ \E t \in Topics, level \in Levels :
            /\ ranking.choices = Merged(back.choices, Target[t], level)
            /\ t \in resolved

(* Both together, under every order of answers and clicks (App.tsx).            *)
SessionSafe == QuestionsAreOpen /\ UndoIsLast

(* App.test.tsx:2728 "keeps pass-value objectives exclusive through refinement  *)
(* apply and undo".  The undo restores each factor of the draft on its own.     *)
OneValueObjective == Cardinality({f \in Family : editor.choices[f] # "none"}) <= 1
====
