------------------------------ MODULE BaseMap ------------------------------
(***************************************************************************)
(* The base map of the page: applyTileLayer of app.js and what it waits    *)
(* for.  A switch to another source goes through several awaits; a counter *)
(* tells each whether a newer one has begun.  A vector source replaces the *)
(* style of the map and discards all that was added to it; a raster source *)
(* is added beside the one that is shown, which goes once the new one has  *)
(* loaded.  With the source the overlays of the offline map go on and off. *)
(*                                                                         *)
(* The map library is the one that the page uses by default, microMap.  It *)
(* fetches the style of a source; until that has come the map stays as it  *)
(* is, and a source may still be added; only another style revokes it.  An *)
(* error of any tile counts for whoever waits.                             *)
(***************************************************************************)
EXTENDS MapOverlays

CONSTANTS
    TileSources,   \* the settings that may be applied
    NoSource,
    MaxSwitches    \* bound: switches of the source

(* A source is that of the offline map, another one with a style, a raster,
   or one for which there is no URL at all. *)
Kinds == {"tinytiles", "vector", "raster", "none"}
ASSUME BaseMapAssumption ==
    /\ \A s \in TileSources : s.kind \in Kinds
    /\ NoSource \notin TileSources /\ MaxSwitches \in Nat

VARIABLES
    generation,    \* tileLayerGeneration
    switches,      \* calls of applyTileLayer under way
    style,         \* the vector source whose style the map has, if any
    coming,        \* the one whose style has been asked for since, if any
    rasters,       \* the raster sources added to the map
    current,       \* currentTileLayer: the generation of a raster, or 0
    baseLayerKind,
    mode,          \* the source that the page names (updateMapModeUI)
    styled         \* is the user's style of the offline map active?

baseVars  == <<generation, switches, style, coming, rasters, current, baseLayerKind, mode, styled>>
mapVars   == <<overlayVars, baseVars>>
styleVars == <<style, coming, present, ov>>

isTinyTilesSettings(s) == s # NoSource /\ s.kind = "tinytiles"
Waits == {"style", "blank", "source", "painted", "shown"}

BaseMapTypeOK ==
    /\ OverlaysTypeOK
    /\ generation \in 0..MaxSwitches
    /\ switches \subseteq [gen : 1..generation, source : TileSources, at : Waits]
    /\ \A a, b \in switches : a.gen = b.gen => a = b
    /\ {style, coming, mode} \subseteq TileSources \cup {NoSource}
    /\ rasters \subseteq 1..generation
    /\ current \in 0..generation
    /\ baseLayerKind \in {"none", "raster", "vector"}
    /\ baseLayerKind = "none" => current = 0
    /\ styled \in BOOLEAN

BaseMapInit ==
    /\ OverlaysInit
    /\ generation = 0 /\ switches = {}
    /\ style = NoSource /\ coming = NoSource
    /\ rasters = {} /\ current = 0 /\ baseLayerKind = "none"
    /\ mode = NoSource /\ styled = FALSE

-----------------------------------------------------------------------------
(* Steps that applyTileLayer is made of. "sw" may have just begun.         *)

Ends(sw) == switches' = switches \ {sw}
Awaits(sw, at) == switches' = (switches \ {sw}) \cup {[sw EXCEPT !.at = at]}
Stale(sw) == sw.gen < generation

(* The map gets a style: all other sources are gone, and with them what the
   overlays showed.  The buildings, which listen to it, come back empty. *)
StyleComes(s) ==
    LET bare == [o \in Overlays |-> IF o \in InStyle THEN [ov[o] EXCEPT !.drawn = 0] ELSE ov[o]]
    IN  /\ style' = s /\ coming' = NoSource
        /\ rasters' = {}
        /\ IF ov["buildings"].on
           THEN /\ present' = {"buildings"}
                /\ ov' = [bare EXCEPT !["buildings"] = QueuedBuildings([@ EXCEPT !.request = 0], view.zoom)]
           ELSE present' = {} /\ ov' = bare

(* activateRasterSource up to its await. *)
AddRaster(sw) == Awaits(sw, "source") /\ rasters' = rasters \cup {sw.gen}

(* The raster part of applyTileLayer, with ensureRasterCapableStyle up to its
   await: without a URL there is nothing to show, and coming from a vector
   source the style is emptied first, for which nothing is fetched. *)
ToRaster(sw) ==
    \/ /\ sw.source.kind = "none"
       /\ Ends(sw)
       /\ UNCHANGED <<styleVars, rasters, current>>
    \/ /\ sw.source.kind = "raster" /\ baseLayerKind = "raster"
       /\ AddRaster(sw)
       /\ UNCHANGED <<styleVars, current>>
    \/ /\ sw.source.kind = "raster" /\ baseLayerKind = "none"
       /\ Awaits(sw, "blank")
       /\ UNCHANGED <<styleVars, rasters, current>>
    \/ /\ sw.source.kind = "raster" /\ baseLayerKind = "vector"
       /\ Awaits(sw, "blank")
       /\ StyleComes(NoSource) /\ current' = 0

(* What follows the paint: the page names the source, and the overlays of the
   offline map go on or off with it. *)
Named(sw) ==
    LET on == isTinyTilesSettings(sw.source)
    IN  /\ mode' = sw.source
        /\ ov' = [ov EXCEPT !["labels"] = Visible(@, on),
                            !["buildings"] = Activated(@, on),
                            !["waterways"] = Visible(@, on)]
        /\ present' = IF on THEN InStyle ELSE present

-----------------------------------------------------------------------------
(* applyTileLayer.                                                         *)

(* Its beginning: for the settings of the page, a preview or a choice. *)
applyTileLayer(s) ==
    LET sw == [gen |-> generation + 1, source |-> s, at |-> "style"]
    IN  /\ generation < MaxSwitches
        /\ generation' = generation + 1
        /\ styled' = (styled /\ isTinyTilesSettings(s))
        /\ IF s.kind \in {"tinytiles", "vector"}
           THEN Awaits(sw, "style") /\ coming' = s /\ UNCHANGED <<style, present, ov, rasters, current>>
           ELSE ToRaster(sw)
        /\ UNCHANGED <<view, answers, stations, baseLayerKind, mode>>

(* waitForStyleReady is over: the style has been loaded, five seconds have
   passed, or there was an error of any kind. *)
waitForStyleReady(sw) ==
    /\ sw.at = "style"
    /\ \/ /\ ~Stale(sw)
          /\ current' = 0 /\ baseLayerKind' = "vector"
          /\ Awaits(sw, "painted")
       \/ Ends(sw) /\ UNCHANGED <<current, baseLayerKind>>
    /\ UNCHANGED <<overlayVars, generation, style, coming, rasters, mode, styled>>

(* Mutant of ensureRasterCapableStyle: the counter is not looked at again. *)
ensureRasterCapableStyleStale(sw) ==
    /\ sw.at = "blank"
    /\ AddRaster(sw) \/ (Ends(sw) /\ UNCHANGED rasters)
    /\ UNCHANGED <<overlayVars, generation, style, coming, current, baseLayerKind, mode, styled>>

ensureRasterCapableStyle(sw) ==
    /\ sw.at = "blank"
    /\ \/ ~Stale(sw) /\ AddRaster(sw)
       \/ Ends(sw) /\ UNCHANGED rasters
    /\ UNCHANGED <<overlayVars, generation, style, coming, current, baseLayerKind, mode, styled>>

(* Mutant of activateRasterSource: the counter is not looked at again. *)
activateRasterSourceStale(sw) ==
    /\ sw.at = "source"
    /\ \/ /\ Ends(sw)
          /\ rasters' = rasters \ {sw.gen}
          /\ UNCHANGED <<current, baseLayerKind>>
       \/ /\ Awaits(sw, "shown")
          /\ rasters' = rasters \ {current}
          /\ current' = sw.gen /\ baseLayerKind' = "raster"
    /\ UNCHANGED <<overlayVars, generation, style, coming, mode, styled>>

(* The source has loaded, or it goes again. *)
activateRasterSource(sw) ==
    /\ sw.at = "source"
    /\ \/ /\ Ends(sw)
          /\ rasters' = rasters \ {sw.gen}
          /\ UNCHANGED <<current, baseLayerKind>>
       \/ /\ ~Stale(sw)
          /\ Awaits(sw, "shown")
          /\ rasters' = rasters \ {current}
          /\ current' = sw.gen /\ baseLayerKind' = "raster"
    /\ UNCHANGED <<overlayVars, generation, style, coming, mode, styled>>

(* After the next paint the page follows, whatever has begun meanwhile. *)
RasterShown(sw) ==
    /\ sw.at = "shown"
    /\ Named(sw) /\ Ends(sw)
    /\ UNCHANGED <<view, answers, stations>>
    /\ UNCHANGED <<generation, style, coming, rasters, current, baseLayerKind, styled>>
VectorShown(sw) ==
    /\ sw.at = "painted"
    /\ Named(sw) /\ Ends(sw)
    /\ styled' = isTinyTilesSettings(sw.source)
    /\ UNCHANGED <<view, answers, stations>>
    /\ UNCHANGED <<generation, style, coming, rasters, current, baseLayerKind>>

(* The style that has been asked for last has been fetched. *)
StyleLoads ==
    /\ coming # NoSource
    /\ StyleComes(coming)
    /\ UNCHANGED <<view, answers, stations>>
    /\ UNCHANGED <<generation, switches, current, baseLayerKind, mode, styled>>

SwitchStep ==
    \/ StyleLoads
    \/ \E s \in TileSources : applyTileLayer(s)
    \/ \E sw \in switches :
          \/ waitForStyleReady(sw) \/ ensureRasterCapableStyle(sw)
          \/ activateRasterSource(sw) \/ RasterShown(sw) \/ VectorShown(sw)

MapNext ==
    \/ SwitchStep
    \/ /\ \/ refreshOfflineLabels \/ refreshOfflineWaterways \/ refreshBuildings
          \/ MarkerStep \/ StationStep \/ ViewStep
       /\ UNCHANGED baseVars
MapSpec == BaseMapInit /\ [][MapNext]_mapVars

-----------------------------------------------------------------------------
(* Properties.                                                             *)

(* What is on the map belongs to it, however switches interleave: every raster
   source is the one shown or one that a switch still waits for; and from the
   time the newest switch takes over the map until it has the page name its
   source, the map shows that source and no other.  That is all but for a style
   that is late: a switch goes on without it after five seconds, and that of an
   overtaken switch is not revoked by a raster but comes over it.  Nothing is
   said of an overtaken switch that had taken over before: the counter is not
   looked at after the paint, so it may still have the page name its source and
   put the overlays of the offline map on or off, over the newer one too. *)
Shows(sw) ==
    IF sw.at = "shown"
    THEN /\ current = sw.gen /\ baseLayerKind = "raster"
         /\ sw.gen \in rasters \/ (style # NoSource /\ rasters = {})
    ELSE /\ current = 0 /\ baseLayerKind = "vector"
         /\ coming = sw.source \/ (coming = NoSource /\ style = sw.source /\ rasters = {})
LayersFitTheMap ==
    /\ \/ rasters \subseteq {current} \cup {sw.gen : sw \in {w \in switches : w.at = "source"}}
       \/ coming # NoSource /\ baseLayerKind = "vector"
    /\ \A sw \in switches : sw.at \in {"painted", "shown"} /\ ~Stale(sw) => Shows(sw)

(* A switch that has been overtaken does not take over the base map. *)
NewestSwitchWins ==
    [][/\ current' \notin {0, current} => current' = generation
       /\ baseLayerKind' # baseLayerKind =>
             \E sw \in switches : sw.gen = generation /\ sw \notin switches']_mapVars

=============================================================================
