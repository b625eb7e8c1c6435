---- MODULE TripView ----
(* The current trip as the web front end shows it (frontend/src/App.tsx): the   *)
(* trip is loaded when the page opens and on request, saved and cleared by the  *)
(* traveler, and its summary loaded when the trip's page is open.  Requests     *)
(* reach the server and their answers come back in any order; an answer of a    *)
(* load counts only while its identity is the current one.                      *)
EXTENDS Naturals, FiniteSets

CONSTANTS Trips, NoTrip, MaxRequests  \* bound: requests the page sends

ASSUME ViewAssumption == NoTrip \notin Trips /\ MaxRequests \in Nat

VARIABLES
    stored,     \* the trip the server holds
    viewed,     \* currentTrip
    summary,    \* currentTripSummary: {} or {the trip it describes}
    pageOpen,   \* route.name = "currentTrip"
    identity,   \* [trip, summary]: the two load identity refs
    requests,   \* requests under way: [n, kind, trip, id, at]
    doubtful,   \* what has been lost: a load, a summary, or which write came last
    count       \* the bound's counter

viewVars == <<stored, viewed, summary, pageOpen, identity, requests, doubtful, count>>

Writes == {r \in requests : r.kind \in {"save", "clear"}}

ViewInit ==
    /\ stored \in Trips \cup {NoTrip}
    /\ viewed = NoTrip /\ summary = {} /\ pageOpen = FALSE
    /\ identity = [trip |-> 1, summary |-> 0]
    /\ requests = {[n |-> 1, kind |-> "load", trip |-> NoTrip, id |-> 1, at |-> "sent"]}
    /\ doubtful = {} /\ count = 1

Send(kind, trip, id) ==
    /\ count < MaxRequests
    /\ count' = count + 1
    /\ requests' = requests \cup
           {[n |-> count + 1, kind |-> kind, trip |-> trip, id |-> id, at |-> "sent"]}

(* The effect of currentTripLoadRequest: the traveler asks to load again.       *)
LoadTrip ==
    /\ identity' = [identity EXCEPT !.trip = @ + 1]
    /\ Send("load", NoTrip, identity'.trip)
    /\ UNCHANGED <<stored, viewed, summary, pageOpen, doubtful>>

(* The effect of the route, the trip and currentTripSummaryLoadRequest: what    *)
(* was being loaded is retired; without a trip the summary is cleared, with one *)
(* it is loaded if the trip's page is open.                                     *)
Summarise(trip, open, ids, pending) ==
    LET starts == open /\ trip # NoTrip
        renewed == IF starts \/ (pageOpen /\ viewed # NoTrip)
                   THEN [ids EXCEPT !.summary = @ + 1] ELSE ids
    IN  /\ pageOpen' = open /\ viewed' = trip /\ identity' = renewed
        /\ IF starts
           THEN /\ count < MaxRequests /\ count' = count + 1
                /\ requests' = pending \cup
                       {[n |-> count + 1, kind |-> "summary", trip |-> NoTrip,
                         id |-> renewed.summary, at |-> "sent"]}
           ELSE requests' = pending /\ UNCHANGED count

LoadSummary ==
    /\ pageOpen /\ viewed # NoTrip
    /\ Summarise(viewed, TRUE, identity, requests)
    /\ UNCHANGED <<stored, summary, doubtful>>

Navigate ==
    /\ Summarise(viewed, ~pageOpen, identity, requests)
    /\ UNCHANGED <<stored, summary, doubtful>>

(* saveConfiguration and handleClearCurrentTrip: nothing stops a second write   *)
(* before the first is answered.                                                *)
Write ==
    /\ \/ ~pageOpen /\ \E trip \in Trips : Send("save", trip, 0)
       \/ pageOpen /\ viewed # NoTrip /\ Send("clear", NoTrip, 0)
    /\ doubtful' = IF Writes # {} THEN doubtful \cup {"write"} ELSE doubtful
    /\ UNCHANGED <<stored, viewed, summary, pageOpen, identity>>

(* The server takes up a request: a write stores, a load reads what is stored.  *)
ServeView ==
    \E r \in requests :
        /\ r.at = "sent"
        /\ requests' = (requests \ {r}) \cup
               {[r EXCEPT !.at = "served", !.trip = IF r \in Writes THEN @ ELSE stored]}
        /\ stored' = IF r \in Writes THEN r.trip ELSE stored
        /\ UNCHANGED <<viewed, summary, pageOpen, identity, doubtful, count>>

(* Mutant: a write's answer leaves the loads under way valid. *)
RetiresNothing == identity

(* A write's answer retires every load under way. *)
RetiredView == [trip |-> identity.trip + 1, summary |-> identity.summary + 1]

TripLoaded ==
    \E r \in requests :
        /\ r.at = "served" /\ r.kind = "load"
        /\ IF r.id # identity.trip
           THEN /\ requests' = requests \ {r}
                /\ UNCHANGED <<viewed, summary, pageOpen, identity, doubtful, count>>
           ELSE /\ doubtful' = doubtful \ {"load"}
                /\ summary' = IF r.trip = NoTrip THEN {} ELSE summary
                /\ Summarise(r.trip, pageOpen, identity, requests \ {r})
        /\ UNCHANGED stored

SummaryLoaded ==
    \E r \in requests :
        /\ r.at = "served" /\ r.kind = "summary"
        /\ requests' = requests \ {r}
        /\ summary' = IF r.id = identity.summary THEN {r.trip} \ {NoTrip} ELSE summary
        /\ doubtful' = IF r.id = identity.summary THEN doubtful \ {"summary"}
                       ELSE doubtful
        /\ UNCHANGED <<stored, viewed, pageOpen, identity, count>>

WrittenView ==
    \E r \in Writes :
        /\ r.at = "served"
        /\ summary' = {} /\ doubtful' = doubtful \ {"load", "summary"}
        /\ Summarise(r.trip, pageOpen, RetiredView, requests \ {r})
        /\ UNCHANGED stored

(* The request or its answer is lost: an error is shown, nothing else changes.  *)
Lost ==
    \E r \in requests :
        /\ requests' = requests \ {r}
        /\ doubtful' = doubtful \cup
               IF r \in Writes THEN IF r.at = "served" THEN {"write"} ELSE {}
               ELSE IF r.kind = "load" /\ r.id = identity.trip THEN {"load"}
               ELSE IF r.kind = "summary" /\ r.id = identity.summary THEN {"summary"}
               ELSE {}
        /\ UNCHANGED <<stored, viewed, summary, pageOpen, identity, count>>

ViewNext ==
    \/ LoadTrip \/ LoadSummary \/ Navigate \/ Write \/ ServeView
    \/ TripLoaded \/ SummaryLoaded \/ WrittenView \/ Lost

ViewSpec == ViewInit /\ [][ViewNext]_viewVars

(* Once nothing is under way and nothing was lost, the trip on screen is the    *)
(* stored one, and a summary describes it: a load begun before a save or a      *)
(* clear never puts the old trip back (App.tsx:1372, 1392).                     *)
ViewIsStored ==
    requests = {} =>
        /\ doubtful \subseteq {"summary"} => viewed = stored
        /\ doubtful = {} => \A trip \in summary : trip = viewed
====
