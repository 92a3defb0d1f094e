---------------------------- MODULE MapOverlays ----------------------------
(***************************************************************************)
(* What app.js and offline-buildings.js draw over the base map and fetch   *)
(* anew for each part of the map that is looked at: labels, waterways and  *)
(* buildings of the offline map, hydrants and fire stations.  All five     *)
(* have a switch, a timer that gathers movements, and an AbortController   *)
(* that tells which answer is still wanted; they differ in what a zoom     *)
(* that is too far out does, and in whether they are markers or a source   *)
(* of the style, which a new style discards.                               *)
(*                                                                         *)
(* An aborted request may have its answer already, so that abort() keeps   *)
(* nothing from arriving here.  What an answer shows is the view it was    *)
(* asked for; features, popups and texts are left out.                     *)
(***************************************************************************)
EXTENDS Integers, FiniteSets, FiniteSetsExt

CONSTANTS
    Zooms,        \* zoom levels that the user can choose
    MaxMoves,     \* bound: movements of the map
    MaxRequests,  \* bound: requests of an overlay under way
    MaxEdits      \* bound: changes of fire stations

ASSUME OverlaysAssumption ==
    Zooms \subseteq Nat /\ Zooms # {} /\ MaxMoves \in Nat /\ MaxRequests \in Nat /\ MaxEdits \in Nat

MinZoom == [labels |-> 7, waterways |-> 7, stations |-> 11, hydrants |-> 14, buildings |-> 14]
Overlays == DOMAIN MinZoom
InStyle  == {"waterways", "buildings"}

VARIABLES
    view,     \* zoom of the map, and the number of the movement
    ov,       \* each overlay: switch, timer, request (0 is none), view drawn
    answers,  \* requests under way
    present,  \* the overlays whose source is in the style
    adding,   \* fireStationAddMode
    edits,    \* changes of fire stations under way
    edited    \* bound: how many there have been

overlayVars == <<view, ov, answers, present, adding, edits, edited>>
stations    == <<adding, edits, edited>>
others      == <<view, answers, present, stations>>

Off == [on |-> FALSE, timer |-> FALSE, request |-> 0, drawn |-> 0]

OverlaysTypeOK ==
    /\ view \in [zoom : Zooms, at : 1..(MaxMoves + 1)]
    /\ ov \in [Overlays -> [on : BOOLEAN, timer : BOOLEAN, request : 0..(MaxRequests + 1),
                            drawn : 0..(MaxMoves + 1)]]
    /\ \A o \in Overlays : ov[o].timer => ov[o].on
    /\ answers \subseteq [o : Overlays, id : 1..(MaxRequests + 1), at : 1..(MaxMoves + 1)]
    /\ present \subseteq InStyle /\ adding \in BOOLEAN
    /\ edits \in 0..MaxEdits /\ edited \in 0..MaxEdits

OverlaysInit ==
    /\ view \in [zoom : Zooms, at : {1}]
    /\ ov = [o \in Overlays |-> Off]
    /\ answers = {} /\ present = {}
    /\ adding = FALSE /\ edits = 0 /\ edited = 0

-----------------------------------------------------------------------------
(* Functions of one overlay's state.                                       *)

(* queueOfflineLabels, queueOfflineWaterways, queueHydrants and
   queueFireStations. *)
Queued(s) == IF s.on THEN [s EXCEPT !.timer = TRUE] ELSE s

(* queue of the buildings: it cancels at once. *)
QueuedBuildings(s, zoom) ==
    IF ~s.on THEN s
    ELSE IF zoom < MinZoom["buildings"]
         THEN [s EXCEPT !.timer = FALSE, !.request = 0, !.drawn = 0]
         ELSE [s EXCEPT !.timer = TRUE, !.request = 0]

(* setOfflineLabelsVisible and its siblings. *)
Visible(s, on) ==
    IF s.on = on THEN Queued(s)
    ELSE IF on THEN Queued([s EXCEPT !.on = TRUE, !.request = 0]) ELSE Off

(* activate of the buildings; it also has them listen to the map, or not. *)
Activated(s, on) == IF on THEN QueuedBuildings([s EXCEPT !.on = TRUE], view.zoom) ELSE Off

(* A new AbortController takes the place of the old one. *)
FreshId(o) ==
    CHOOSE n \in 1..(MaxRequests + 1) :
        n # ov[o].request /\ \A a \in answers : a.o = o => a.id # n
Request(o) ==
    /\ Cardinality({a \in answers : a.o = o}) < MaxRequests
    /\ answers' = answers \cup {[o |-> o, id |-> FreshId(o), at |-> view.at]}
    /\ ov' = [ov EXCEPT ![o].timer = FALSE, ![o].request = FreshId(o)]

Far(o) == view.zoom < MinZoom[o]
Idle(o) == ov' = [ov EXCEPT ![o].timer = FALSE] /\ UNCHANGED answers

-----------------------------------------------------------------------------
(* The timers.  Those of the overlays that are off are cleared.            *)

(* Labels forget the request before they look at the zoom. *)
refreshOfflineLabels ==
    /\ ov["labels"].timer
    /\ IF Far("labels")
       THEN ov' = [ov EXCEPT !["labels"] = [Off EXCEPT !.on = TRUE]] /\ UNCHANGED answers
       ELSE Request("labels")
    /\ UNCHANGED <<view, present, stations>>

(* Mutant of refreshOfflineWaterways: too far out, it only clears. *)
refreshOfflineWaterwaysKeeping ==
    /\ ov["waterways"].timer
    /\ IF "waterways" \notin present THEN Idle("waterways")
       ELSE IF Far("waterways")
       THEN ov' = [ov EXCEPT !["waterways"].timer = FALSE, !["waterways"].drawn = 0]
            /\ UNCHANGED answers
       ELSE Request("waterways")
    /\ UNCHANGED <<view, present, stations>>

(* Waterways: nothing happens while the source is missing. *)
refreshOfflineWaterways ==
    /\ ov["waterways"].timer
    /\ IF "waterways" \notin present THEN Idle("waterways")
       ELSE IF Far("waterways")
       THEN ov' = [ov EXCEPT !["waterways"] = [Off EXCEPT !.on = TRUE]] /\ UNCHANGED answers
       ELSE Request("waterways")
    /\ UNCHANGED <<view, present, stations>>

(* Hydrants and fire stations: too far out, they are cleared, and a request
   under way remains the wanted one. *)
refreshHydrants ==
    /\ ov["hydrants"].timer
    /\ IF Far("hydrants")
       THEN ov' = [ov EXCEPT !["hydrants"].timer = FALSE, !["hydrants"].drawn = 0]
            /\ UNCHANGED answers
       ELSE Request("hydrants")
    /\ UNCHANGED <<view, present, stations>>
refreshFireStations ==
    /\ ov["stations"].timer
    /\ IF Far("stations")
       THEN ov' = [ov EXCEPT !["stations"].timer = FALSE, !["stations"].drawn = 0]
            /\ UNCHANGED answers
       ELSE Request("stations")
    /\ UNCHANGED <<view, present, stations>>

(* refresh of the buildings. *)
refreshBuildings ==
    /\ ov["buildings"].timer
    /\ IF Far("buildings") THEN Idle("buildings") ELSE Request("buildings")
    /\ UNCHANGED <<view, present, stations>>

(* Mutant of OverlayAnswer: whatever comes while the overlay is on is drawn. *)
OverlayAnswerAny(a) ==
    /\ a \in answers
    /\ answers' = answers \ {a}
    /\ \/ /\ ov[a.o].on
          /\ a.o \in InStyle => a.o \in present
          /\ ov' = [ov EXCEPT ![a.o].drawn = a.at]
       \/ UNCHANGED ov
    /\ UNCHANGED <<view, present, stations>>

(* The rest of the refreshes: an answer that is not wanted any more changes
   nothing, as one that failed. *)
OverlayAnswer(a) ==
    /\ a \in answers
    /\ answers' = answers \ {a}
    /\ \/ /\ ov[a.o].on /\ ov[a.o].request = a.id
          /\ a.o \in InStyle => a.o \in present
          /\ ov' = [ov EXCEPT ![a.o].drawn = a.at]
       \/ UNCHANGED ov
    /\ UNCHANGED <<view, present, stations>>

-----------------------------------------------------------------------------
(* The user.                                                               *)

(* The end of a movement or zoom is heard by what is on. *)
Move(zoom) ==
    /\ view.at <= MaxMoves
    /\ view' = [zoom |-> zoom, at |-> view.at + 1]
    /\ ov' = [o \in Overlays |->
                IF o = "buildings" THEN QueuedBuildings(ov[o], zoom) ELSE Queued(ov[o])]
    /\ UNCHANGED <<answers, present, stations>>

setHydrantsVisible(on) ==
    /\ ov' = [ov EXCEPT !["hydrants"] = Visible(@, on)]
    /\ UNCHANGED others
setFireStationsVisible(on) ==
    /\ ov' = [ov EXCEPT !["stations"] = Visible(@, on)]
    /\ UNCHANGED others

(* wireFireStationPopup: a vehicle is added, a station renamed or deleted. *)
EditStation ==
    /\ ov["stations"].drawn # 0
    /\ edited < MaxEdits /\ edits' = edits + 1 /\ edited' = edited + 1
    /\ UNCHANGED <<view, ov, answers, present, adding>>

(* A station is placed with the next click on the map, which ends the mode
   also if the user gives no name. *)
ToggleAddMode ==
    /\ adding' = ~adding
    /\ UNCHANGED <<view, ov, answers, present, edits, edited>>
PlaceStation ==
    /\ adding /\ adding' = FALSE
    /\ \/ edited < MaxEdits /\ edits' = edits + 1 /\ edited' = edited + 1
       \/ UNCHANGED <<edits, edited>>
    /\ UNCHANGED <<view, ov, answers, present>>

(* The import of a list; what it does not find can be placed afterwards. *)
ImportStations ==
    /\ ov["stations"].on
    /\ edited < MaxEdits /\ edits' = edits + 1 /\ edited' = edited + 1
    /\ UNCHANGED <<view, ov, answers, present, adding>>
renderFireStationImportResult ==
    /\ edited > 0
    /\ edited < MaxEdits /\ edits' = edits + 1 /\ edited' = edited + 1
    /\ UNCHANGED <<view, ov, answers, present, adding>>

(* The answer to a change: the stations are fetched again unless it failed. *)
EditAnswer ==
    /\ edits > 0 /\ edits' = edits - 1
    /\ \/ ov' = [ov EXCEPT !["stations"] = Queued(@)]
       \/ UNCHANGED ov
    /\ UNCHANGED <<view, answers, present, adding, edited>>

MarkerStep ==
    \/ \E on \in BOOLEAN : setHydrantsVisible(on)
    \/ refreshHydrants
StationStep ==
    \/ \E on \in BOOLEAN : setFireStationsVisible(on)
    \/ refreshFireStations
    \/ EditStation \/ ToggleAddMode \/ PlaceStation
    \/ ImportStations \/ renderFireStationImportResult \/ EditAnswer
ViewStep ==
    \/ \E zoom \in Zooms : Move(zoom)
    \/ \E a \in answers : OverlayAnswer(a)

-----------------------------------------------------------------------------
(* Properties.                                                             *)

(* An overlay shows nothing that is not wanted: switched off, no answer,
   however late, draws on it, as nothing would take that away again; and
   ("Without this, a late fetch could repopulate the source after the user
   zoomed out") once its timer has seen that the map is too far out, an
   overlay of the offline map stays empty. *)
OnlyWantedIsDrawn ==
    /\ \A o \in Overlays : ~ov[o].on => ov[o].drawn = 0
    /\ \A o \in {"labels", "waterways", "buildings"} :
         Far(o) /\ ov[o].on /\ ~ov[o].timer => ov[o].drawn = 0

(* What a step draws is the newest view that has been asked for: an answer
   overtaken by a later request is never drawn. *)
NewestViewIsDrawn ==
    [][\A o \in Overlays :
          ov'[o].drawn \notin {0, ov[o].drawn}
          => /\ ov'[o].drawn > ov[o].drawn
             /\ \A a \in answers : a.o = o => a.at <= ov'[o].drawn]_overlayVars
=============================================================================
