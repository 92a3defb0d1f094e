------------------------------- MODULE MCPage -------------------------------
(* The parts of the page that are model-checked together. *)
EXTENDS BaseMap, TilePanel, RoutePlan, TLC

VARIABLE part   \* the part of the page that moves

Sources == [kind : Kinds]

(* Switches alone, one overlay at a time with at most two of them, the panel,
   with the first-start dialog for one click, or a part of the route planning:
   computations and questions, computations and one marker, markers, or
   suggestions. *)
RouteParts == {"routes", "assistant", "markers", "suggest"}
PanelParts == {"panel", "welcome"}
Parts == {"switches"} \cup PanelParts \cup Overlays \cup RouteParts
Init ==
    /\ part \in Parts
    /\ BaseMapInit /\ PlanInit
    /\ part \in PanelParts \cup RouteParts => view.zoom = 6
    /\ PanelInit
    /\ part \notin PanelParts => server = "idle" /\ ~wants
    /\ welcome.completed = (part # "welcome")
Overlay ==
    \/ part = "labels" /\ refreshOfflineLabels
    \/ part = "waterways" /\ refreshOfflineWaterways
    \/ part = "buildings" /\ refreshBuildings
    \/ part = "hydrants" /\ MarkerStep
    \/ part = "stations" /\ StationStep
    \/ part \in Overlays /\ ViewStep
Plan ==
    \/ part = "routes" /\ (RouteStep \/ StopStep) /\ placed' <= 1
    \/ part = "assistant" /\ (RouteStep \/ AskStep) /\ vias' = 0
    \/ part = "markers" /\ (StopStep \/ clear \/ Reload)
    \/ part = "suggest" /\ (SuggestStep \/ clear \/ \E f \in Fields : RouteHere(f))
Next ==
    /\ \/ /\ \/ part = "switches" /\ SwitchStep
             \/ part \in {"labels", "waterways", "buildings"} /\ SwitchStep /\ generation' <= 2
             \/ Overlay /\ UNCHANGED baseVars
          /\ UNCHANGED <<panelVars, planVars>>
       \/ /\ \/ part = "panel" /\ PanelStep
             \/ part = "welcome" /\ PanelStep /\ clicks' <= 1
          /\ UNCHANGED <<mapVars, planVars>>
       \/ Plan /\ UNCHANGED <<mapVars, panelVars>>
    /\ UNCHANGED part
Spec == Init /\ [][Next]_<<mapVars, panelVars, planVars, part>>

Symmetry == Permutations(Online)
PageTypeOK == BaseMapTypeOK /\ PanelTypeOK /\ PlanTypeOK
=============================================================================
