----------------------------- MODULE RoutePlan -----------------------------
(***************************************************************************)
(* Route planning in app.js: start and destination with their suggestions, *)
(* via points, draggable markers, the computation of a route or a tour,    *)
(* and the assistant, which computes routes as well.  Only one computation *)
(* is wanted at a time (routeRequest), and only one question               *)
(* (aiRequestController); nearly every control cancels or replaces them,   *)
(* while positions and answers still arrive.                               *)
(*                                                                         *)
(* Server and positioning are external.  A field is empty, holds a text,   *)
(* or a point picked exactly; a route is known by the computation or       *)
(* question that it came from, and both are numbered.  A marker is its     *)
(* number; moving, naming and the geometry of routes are left out.         *)
(***************************************************************************)
EXTENDS Integers, Sequences, SequencesExt, FiniteSetsExt

CONSTANTS
    MaxComputations, \* bound: computations and questions
    MaxStops,        \* bound: markers that are ever set
    MaxVias,         \* bound: via points
    MaxKeys          \* bound: inputs into a field with suggestions

ASSUME RoutePlanAssumption ==
    {MaxComputations, MaxStops, MaxVias, MaxKeys} \subseteq Nat

Fields == {"from", "to"}
Values == {"empty", "text", "point"}

VARIABLES
    field,      \* what start and destination hold
    vias,       \* the number of via points that have a location
    stops,      \* the markers, by number
    stopSeq,
    stored,     \* those kept in localStorage
    placed,     \* bound: markers set so far
    made,       \* computations and questions so far
    go,         \* routeRequest, is the button disabled, is a computation due?
    calls,      \* calls of compute() that have not returned
    route,      \* where the route on the map comes from; 0 is none
    editing,    \* is the form shown, and not the result?
    choices,    \* the fields for which the server has offered a choice
    locating,   \* is the position awaited that was asked for by its button?
    ai,         \* aiRequestController, and is its button disabled?
    asks,       \* questions under way, and the computation each waits for
    abandoned,  \* history: computations and questions that were cancelled
    box         \* suggestions: the input so far, timer, requests, list

planVars   == <<field, vias, stops, stopSeq, stored, placed, made, go, calls, route, editing,
                choices, locating, ai, asks, abandoned, box>>
markerVars == <<stops, stopSeq, stored, placed>>
askVars    == <<ai, asks>>

Closed == [typed |-> 0, timer |-> FALSE, requests |-> {}, wanted |-> 0, list |-> 0]

PlanTypeOK ==
    /\ field \in [Fields -> Values]
    /\ vias \in 0..MaxVias
    /\ {stops, stored} \subseteq Seq(1..(MaxStops + 1)) /\ stopSeq \in 1..(MaxStops + 1)
    /\ placed \in 0..MaxStops /\ made \in 0..MaxComputations
    /\ go \in [req : 0..made, busy : BOOLEAN, due : BOOLEAN]
    /\ calls \subseteq [id : 1..made, at : {"gps", "route", "trip"}, trip : BOOLEAN]
    /\ \A a, b \in calls : a.id = b.id => a = b
    /\ go.req # 0 => \E c \in calls : c.id = go.req
    /\ route \in 0..made /\ editing \in BOOLEAN
    /\ ~editing => route # 0
    /\ choices \subseteq Fields /\ locating \in BOOLEAN
    /\ ai \in [id : 0..made, busy : BOOLEAN]
    /\ asks \subseteq [id : 1..made, waits : 0..made]
    /\ abandoned \subseteq 1..made
    /\ box \in [typed : 0..MaxKeys, timer : BOOLEAN, requests : SUBSET (1..MaxKeys),
                wanted : 0..MaxKeys, list : 0..MaxKeys]

PlanInit ==
    /\ field = [f \in Fields |-> "empty"] /\ vias = 0
    /\ stops = <<>> /\ stopSeq = 1 /\ stored = <<>> /\ placed = 0
    /\ made = 0 /\ calls = {} /\ route = 0 /\ editing = TRUE
    /\ go = [req |-> 0, busy |-> FALSE, due |-> FALSE]
    /\ choices = {} /\ locating = FALSE
    /\ ai = [id |-> 0, busy |-> FALSE] /\ asks = {} /\ abandoned = {}
    /\ box = Closed

-----------------------------------------------------------------------------
(* Computations.                                                           *)

Gone(ids) == abandoned' = abandoned \cup (ids \ {0})

(* cancelRouteComputation. *)
Cancelled(g) ==
    IF g.req = 0 THEN [g EXCEPT !.due = FALSE]
    ELSE [req |-> 0, busy |-> FALSE, due |-> FALSE]
cancelRouteComputation == go' = Cancelled(go) /\ Gone({go.req})

(* compute() up to its first await, with the fields f and v via points, but
   for the form, which it shows when there is no destination. *)
NoTarget(f, v) == v = 0 /\ stops = <<>> /\ f["to"] = "empty"
Starts(f, v) ==
    LET trip == v > 0 \/ stops # <<>>
        id   == made + 1
        at   == IF f["from"] = "empty" THEN "gps" ELSE IF trip THEN "trip" ELSE "route"
    IN  /\ made < MaxComputations /\ made' = id
        /\ field' = f /\ vias' = v
        /\ Gone({go.req})
        /\ IF NoTarget(f, v)
           THEN /\ go' = [req |-> 0, busy |-> FALSE, due |-> FALSE]
                /\ UNCHANGED calls
           ELSE /\ go' = [req |-> id, busy |-> TRUE, due |-> FALSE]
                /\ calls' = calls \cup {[id |-> id, at |-> at, trip |-> trip]}
compute(f, v) == Starts(f, v) /\ editing' = (editing \/ NoTarget(f, v))

(* Its end, in the finally block; what is wanted by now is left alone. *)
Done(c) == IF go.req = c.id THEN [go EXCEPT !.req = 0, !.busy = FALSE] ELSE go
DoneAny(c) == IF go.req = c.id THEN [go EXCEPT !.req = 0, !.busy = FALSE] ELSE [go EXCEPT !.busy = FALSE]

(* It fails: the form is shown, and maybe a choice for a field. *)
Fails(c) ==
    /\ calls' = calls \ {c} /\ go' = Done(c)
    /\ IF go.req = c.id
       THEN editing' = TRUE /\ \E f \in SUBSET Fields : choices' = choices \cup f
       ELSE UNCHANGED <<editing, choices>>
    /\ UNCHANGED <<field, route>>

(* The position arrives: a start entered meanwhile is kept. *)
PositionArrives(c) ==
    /\ c \in calls /\ c.at = "gps"
    /\ \/ Fails(c)
       \/ /\ go.req = c.id
          /\ field' = [field EXCEPT !["from"] = IF @ = "empty" THEN "point" ELSE @]
          /\ calls' = (calls \ {c}) \cup {[c EXCEPT !.at = IF c.trip THEN "trip" ELSE "route"]}
          /\ UNCHANGED <<go, route, editing, choices>>
    /\ UNCHANGED <<vias, markerVars, made, locating, askVars, abandoned, box>>

(* Mutants of RouteAnswer: the request is not compared with the wanted one
   before the route is drawn, or at the end. *)
RouteAnswerUnchecked(c) ==
    /\ c \in calls /\ c.at # "gps"
    /\ \/ Fails(c)
       \/ /\ calls' = calls \ {c} /\ go' = Done(c)
          /\ route' = c.id /\ editing' = FALSE
          /\ UNCHANGED <<field, choices>>
    /\ UNCHANGED <<vias, markerVars, made, locating, askVars, abandoned, box>>
RouteAnswerReleasing(c) ==
    /\ c \in calls /\ c.at # "gps"
    /\ calls' = calls \ {c} /\ go' = DoneAny(c)
    /\ UNCHANGED <<field, route, editing, choices>>
    /\ UNCHANGED <<vias, markerVars, made, locating, askVars, abandoned, box>>

(* The rest of compute(). A route puts the points it was computed for into
   the fields. *)
RouteAnswer(c) ==
    /\ c \in calls /\ c.at # "gps"
    /\ \/ Fails(c)
       \/ /\ go.req = c.id
          /\ calls' = calls \ {c} /\ go' = Done(c)
          /\ route' = c.id /\ editing' = FALSE
          /\ IF c.at = "route"
             THEN field' = [f \in Fields |-> "point"] /\ choices' = {}
             ELSE UNCHANGED <<field, choices>>
    /\ UNCHANGED <<vias, markerVars, made, locating, askVars, abandoned, box>>

-----------------------------------------------------------------------------
(* The suggestions of a field are hidden; none under way is wanted.        *)
Hidden(b) == [b EXCEPT !.wanted = 0, !.list = 0, !.timer = FALSE]

(* Controls of the route.                                                  *)

Others == UNCHANGED <<markerVars, route, choices, locating, askVars, box>>

(* The buttons, keys and options that compute with what is entered. *)
Go == compute(field, vias) /\ Others

(* debouncedCompute. *)
DueCompute == go.due /\ compute(field, vias) /\ Others

(* A destination from a marker or a result of the search. *)
setStopAsDestination(v) ==
    /\ v = "text" => stops # <<>>
    /\ compute([field EXCEPT !["to"] = v], vias) /\ Others

(* "Route from here" and "Route to here": computed if both are there. *)
RouteHere(f) ==
    LET now == [field EXCEPT ![f] = "point"]
    IN  /\ IF \E g \in Fields \ {f} : field[g] # "empty"
           THEN Starts(now, vias)
           ELSE field' = now /\ cancelRouteComputation /\ UNCHANGED <<vias, made, calls>>
        /\ editing' = TRUE
        /\ box' = Hidden(box)
        /\ UNCHANGED <<markerVars, route, choices, locating, askVars>>

(* A place is taken as the destination, from its card or by the assistant:
   only the latter cancels. *)
TakeDestination(cancels) ==
    /\ field' = [field EXCEPT !["to"] = "point"]
    /\ IF cancels THEN cancelRouteComputation ELSE UNCHANGED <<go, abandoned>>
    /\ editing' = TRUE
    /\ UNCHANGED <<vias, made, calls>> /\ Others

(* A choice offered for a field. *)
PickChoice(f) ==
    /\ f \in choices /\ choices' = choices \ {f}
    /\ field' = [field EXCEPT ![f] = "point"]
    /\ UNCHANGED <<vias, markerVars, made, go, calls, route, editing, locating, askVars, abandoned, box>>

(* The location button. *)
useLocation ==
    /\ ~locating /\ locating' = TRUE
    /\ UNCHANGED <<field, vias, markerVars, made, go, calls, route, editing, choices, askVars, abandoned, box>>
LocationArrives ==
    /\ locating /\ locating' = FALSE
    /\ \/ field' = [field EXCEPT !["from"] = "point"]
       \/ UNCHANGED field
    /\ UNCHANGED <<vias, markerVars, made, go, calls, route, editing, choices, askVars, abandoned, box>>

(* Typing into a field, or emptying it. *)
TypeField(f, v) ==
    /\ v = "text" \/ (v = "empty" /\ field[f] # "empty")
    /\ field' = [field EXCEPT ![f] = v] /\ choices' = choices \ {f}
    /\ cancelRouteComputation
    /\ UNCHANGED <<vias, markerVars, made, calls, route, editing, locating, askVars, box>>

(* A via point: typed, which cancels, or added with its location. *)
addWaypoint(typed) ==
    /\ vias < MaxVias /\ vias' = vias + 1
    /\ IF typed THEN go' = [Cancelled(go) EXCEPT !.due = TRUE] /\ Gone({go.req})
       ELSE go' = [go EXCEPT !.due = TRUE] /\ UNCHANGED abandoned
    /\ UNCHANGED <<field, made, calls, editing>> /\ Others
removeWaypoint == vias > 0 /\ compute(field, vias - 1) /\ Others

Erase ==
    /\ route' = 0 /\ editing' = TRUE
    /\ cancelRouteComputation
    /\ UNCHANGED <<made, calls, locating, askVars>>
clearRoute == Erase /\ UNCHANGED <<field, vias, markerVars, choices, box>>
editRoute ==
    /\ route # 0
    /\ editing' \in BOOLEAN \ {editing} /\ cancelRouteComputation
    /\ UNCHANGED <<field, vias, made, calls>> /\ Others

(* The button that empties all: the markers stay stored. *)
clear ==
    /\ Erase
    /\ field' = [f \in Fields |-> "empty"] /\ vias' = 0 /\ choices' = {}
    /\ stops' = <<>> /\ stopSeq' = 1
    /\ box' = Hidden(box)
    /\ UNCHANGED <<stored, placed>>

-----------------------------------------------------------------------------
(* Markers. None of this cancels or computes.                              *)

RouteVars == <<field, vias, made, go, calls, route, editing, choices, locating, askVars, abandoned, box>>

(* The storage may be full. *)
saveCustomMarkers == stored' \in {stops', stored}

AddMarker ==
    /\ placed < MaxStops /\ placed' = placed + 1
    /\ stops' = Append(stops, stopSeq) /\ saveCustomMarkers
    /\ stopSeq' = stopSeq + 1
    /\ UNCHANGED RouteVars
deleteStopMarker(i) ==
    /\ stops' = RemoveAt(stops, i) /\ saveCustomMarkers
    /\ UNCHANGED <<stopSeq, placed, RouteVars>>
deleteAllStopMarkers ==
    /\ stops # <<>>
    /\ stops' = <<>> /\ saveCustomMarkers /\ stopSeq' = 1
    /\ UNCHANGED <<placed, RouteVars>>

(* Mutant of restoreCustomMarkers: the numbers begin again. *)
restoreCustomMarkersPlain ==
    /\ stops' = stored
    /\ stopSeq' = 1
    /\ UNCHANGED <<stored, placed>>
(* What a new page restores. *)
restoreCustomMarkers ==
    /\ stops' = stored
    /\ stopSeq' = Max(ToSet(stored) \cup {0}) + 1
    /\ UNCHANGED <<stored, placed>>

Reload ==
    /\ restoreCustomMarkers
    /\ field' = [f \in Fields |-> "empty"] /\ vias' = 0
    /\ calls' = {} /\ route' = 0 /\ editing' = TRUE /\ choices' = {} /\ locating' = FALSE
    /\ go' = [req |-> 0, busy |-> FALSE, due |-> FALSE]
    /\ ai' = [id |-> 0, busy |-> FALSE] /\ asks' = {} /\ box' = Closed
    /\ UNCHANGED <<made, abandoned>>

-----------------------------------------------------------------------------
(* The assistant.                                                          *)

(* sendAIQuery up to the request: for the questions that need a model. *)
sendAIQuery ==
    /\ ai.id = 0 /\ made < MaxComputations
    /\ made' = made + 1
    /\ ai' = [id |-> made + 1, busy |-> TRUE]
    /\ asks' = asks \cup {[id |-> made + 1, waits |-> 0]}
    /\ UNCHANGED <<field, vias, markerVars, go, calls, route, editing, choices, locating, abandoned, box>>

(* Its shortcuts compute here: onward to another destination, over the
   present one or from it, or once more with the fields as they are. *)
AskCompute ==
    LET id == made + 1
    IN  /\ ai.id = 0
        /\ \/ \E from \in {field["from"], "text"}, v \in {vias, vias + 1} :
                 /\ v <= MaxVias /\ (v > vias => field["to"] # "empty")
                 /\ compute([from |-> from, to |-> "text"], v)
           \/ compute(field, vias)
        /\ ai' = [id |-> id, busy |-> TRUE]
        /\ asks' = asks \cup {[id |-> id, waits |-> id]}
        /\ UNCHANGED <<markerVars, route, choices, locating, box>>

(* A destination among those that an answer has offered. *)
appendAITargetChoices ==
    /\ made > 0
    /\ compute([from |-> IF field["from"] = "empty" THEN "text" ELSE field["from"], to |-> "point"], vias)
    /\ Others

AskDone(q) == IF ai.id = q.id THEN [id |-> 0, busy |-> FALSE] ELSE ai

(* The computation that it waits for has returned. *)
AskComputed(q) ==
    /\ q \in asks /\ q.waits # 0 /\ \A c \in calls : c.id # q.waits
    /\ asks' = asks \ {q} /\ ai' = AskDone(q)
    /\ UNCHANGED <<field, vias, markerVars, made, go, calls, route, editing, choices, locating, abandoned, box>>

(* The rest of sendAIQuery: the answer may bring a route, the fields, and
   via points, which are computed with later. *)
AskAnswer(q) ==
    /\ q \in asks /\ q.waits = 0
    /\ asks' = asks \ {q} /\ ai' = AskDone(q)
    /\ \/ /\ ai.id = q.id
          /\ \/ route' = q.id /\ editing' = FALSE
             \/ UNCHANGED <<route, editing>>
          /\ field' \in [Fields -> Values]
          /\ \A f \in Fields : field'[f] = "empty" => field[f] = "empty"
          /\ \/ UNCHANGED <<vias, go>>
             \/ vias < MaxVias /\ vias' = vias + 1 /\ go' = [go EXCEPT !.due = TRUE]
       \/ UNCHANGED <<route, editing, field, vias, go>>
    /\ UNCHANGED <<markerVars, made, calls, choices, locating, abandoned, box>>

cancelAIQuery ==
    /\ ai' = [id |-> 0, busy |-> FALSE]
    /\ go' = Cancelled(go) /\ Gone({go.req, ai.id})
    /\ UNCHANGED <<field, vias, markerVars, made, calls, route, editing, choices, locating, asks, box>>

-----------------------------------------------------------------------------
(* makeSuggest, for a field that is typed into; what it does to the         *)
(* computation is in TypeField.                                             *)

NoBox == UNCHANGED <<field, vias, markerVars, made, go, calls, route, editing, choices, locating, askVars, abandoned>>

(* cancelPending: whatever is asked for is not wanted any more. *)
onInput(long) ==
    /\ box.typed < MaxKeys
    /\ box' = [box EXCEPT !.typed = @ + 1, !.wanted = 0, !.list = 0, !.timer = long]
    /\ NoBox
hide ==
    /\ box' = Hidden(box)
    /\ NoBox
SuggestTimer ==
    /\ box.timer
    /\ box' = [box EXCEPT !.timer = FALSE, !.wanted = box.typed, !.requests = @ \cup {box.typed}]
    /\ NoBox

(* Mutant of SuggestAnswer: its number is not looked at. *)
SuggestAnswerAny(k) ==
    /\ k \in box.requests
    /\ box' = [box EXCEPT !.requests = @ \ {k}, !.list = k]
    /\ NoBox
SuggestAnswer(k) ==
    /\ k \in box.requests
    /\ \/ box' = [box EXCEPT !.requests = @ \ {k}, !.list = IF box.wanted = k THEN k ELSE @]
       \/ box' = [box EXCEPT !.requests = @ \ {k}]
    /\ NoBox

(* A suggestion is taken; the box closes, and the computation is cancelled. *)
TakeSuggestion(f) ==
    /\ box.list # 0
    /\ box' = Hidden(box)
    /\ field' = [field EXCEPT ![f] = "point"] /\ choices' = choices \ {f}
    /\ cancelRouteComputation
    /\ UNCHANGED <<vias, markerVars, made, calls, route, editing, locating, askVars>>

-----------------------------------------------------------------------------
RouteStep ==
    \/ Go \/ DueCompute \/ \E v \in {"text", "point"} : setStopAsDestination(v)
    \/ \E f \in Fields : RouteHere(f) \/ PickChoice(f) \/ \E v \in Values : TypeField(f, v)
    \/ \E yes \in BOOLEAN : TakeDestination(yes) \/ addWaypoint(yes)
    \/ useLocation \/ LocationArrives
    \/ removeWaypoint \/ clearRoute \/ editRoute \/ clear
    \/ \E c \in calls : PositionArrives(c) \/ RouteAnswer(c)
    \/ Reload
AskStep ==
    \/ sendAIQuery \/ AskCompute \/ cancelAIQuery \/ appendAITargetChoices
    \/ \E q \in asks : AskComputed(q) \/ AskAnswer(q)
StopStep == AddMarker \/ deleteAllStopMarkers \/ \E i \in DOMAIN stops : deleteStopMarker(i)
SuggestStep ==
    \/ \E long \in BOOLEAN : onInput(long)
    \/ hide \/ SuggestTimer
    \/ \E k \in box.requests : SuggestAnswer(k)
    \/ \E f \in Fields : TakeSuggestion(f)

PlanNext == RouteStep \/ AskStep \/ StopStep \/ SuggestStep
PlanSpec == PlanInit /\ [][PlanNext]_planVars

-----------------------------------------------------------------------------
(* Properties.                                                             *)

(* A computation or question that was cancelled, by the user or by a newer
   one, never draws its route: neither its answer nor the position it waited
   for comes through. *)
AbandonedIsNotDrawn ==
    [][route' \notin {0, route} => route' \notin abandoned]_planVars

(* The buttons are disabled exactly while something is under way that will
   enable them again, however computations and questions overlap. *)
BusyWhilePending == go.busy = (go.req # 0) /\ ai.busy = (ai.id # 0)

(* No two markers have one number, by which tours and the list know them. *)
StopNumbersDiffer == \A i, j \in DOMAIN stops : stops[i] = stops[j] => i = j

(* The suggestions shown are those for the newest input. *)
NewestSuggestions == box.list \in {0, box.typed}
=============================================================================
