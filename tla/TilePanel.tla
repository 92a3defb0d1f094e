----------------------------- MODULE TilePanel -----------------------------
(***************************************************************************)
(* The panel of app.js that chooses the source of the base map, saves it,  *)
(* and has the server build the offline map: cards, form, welcome dialog,  *)
(* the poll of the build's status, and the overlay that covers the map     *)
(* while something is loaded.  A click goes through requests whose answers *)
(* come late, while the user clicks on.                                    *)
(*                                                                         *)
(* Of the server (module TinyTilesBuild) the state that it reports is      *)
(* kept; other clients have it build, too, and it may restart.  Of         *)
(* applyTileLayer (module BaseMap) its result is: only the newest call     *)
(* takes over the map, but one that has done so succeeds even if it is     *)
(* overtaken while it waits for the paint.  Texts and progress are left    *)
(* out; a source stands for the six fields of the form.                    *)
(***************************************************************************)
EXTENDS Integers, FiniteSets

CONSTANTS
    Online,       \* the presets of online sources
    NoChoice,     \* no preset, no source, no status
    MaxClicks     \* bound: what the user does to load, build or save

ASSUME PanelAssumption ==
    /\ Online \cap {"tinytiles", "custom", NoChoice} = {}
    /\ NoChoice \notin {"tinytiles", "custom", "idle", "building", "postal", "ready", "failed"}
    /\ MaxClicks \in Nat

TileChoices == Online \cup {"tinytiles", "custom"}

(* A status: "postal" stands for a build with postal codes. *)
Building == {"building", "postal"}
BuildStates == {"idle", "ready", "failed"} \cup Building

VARIABLES
    server,    \* the state that it reports of its build
    panel,     \* what the page knows of the build, and what it waits for
    fetching,  \* the request of the status under way (tinyTilesPollInFlight)
    posts,     \* requests to build under way
    loads,     \* calls of applyTileLayer under way, and their number
    newest,
    shown,     \* the source that the last successful one has shown
    choice,    \* activeTilePresetID, and the fields of the form
    presets,   \* have the presets arrived?
    saving,    \* what the save button waits for, and what it has read
    saved,     \* the source in the settings
    welcome,   \* the first-start dialog, and whether it may appear
    wants,     \* does this user ever ask for the offline map?
    clicks     \* bound: clicks so far

panelVars == <<server, panel, fetching, posts, loads, newest, shown, choice, presets,
               saving, saved, welcome, wants, clicks>>
buildVars  == <<server, panel, fetching, posts>>
sourceVars == <<shown, choice, presets, saving, saved>>

NoFetch == [why |-> "none", saw |-> "idle"]
Reasons == {"startup", "poll", "select", "conflict", "activate"}

PanelTypeOK ==
    /\ server \in BuildStates
    /\ panel \in [status : BuildStates, ui : BuildStates, timer : BOOLEAN,
                  auto : BOOLEAN, requested : BOOLEAN, overlay : BOOLEAN]
    /\ fetching \in [why : Reasons, saw : BuildStates] \cup {NoFetch}
    /\ posts \subseteq [id : 1..MaxClicks, auto : BOOLEAN, answer : {"none", "ok", "conflict"}]
    /\ \A a, b \in posts : a.id = b.id => a = b
    /\ loads \subseteq [gen : 1..newest, source : TileChoices, why : {"startup", "preset", "custom", "tinytiles", "saved"},
                        applied : BOOLEAN, before : [preset : TileChoices \cup {NoChoice}, form : TileChoices]]
    /\ \A a, b \in loads : a.gen = b.gen => a = b
    /\ newest \in Nat
    /\ shown \in TileChoices \cup {NoChoice}
    /\ choice \in [preset : TileChoices \cup {NoChoice}, form : TileChoices]
    /\ choice.preset \in Online \cup {"tinytiles", NoChoice}
    /\ presets \in BOOLEAN
    /\ saving \in [at : {"none", "reading", "writing"}, form : TileChoices \cup {NoChoice}]
    /\ (saving.at = "writing") = (saving.form # NoChoice)
    /\ saved \in TileChoices
    /\ welcome \in [dialog : {"hidden", "main", "choices"}, completed : BOOLEAN, deferred : BOOLEAN]
    /\ wants \in BOOLEAN /\ clicks \in 0..MaxClicks

(* A call of applyTileLayer, and the selection it has found. *)
Call(gen, s, why) == [gen |-> gen, source |-> s, why |-> why, applied |-> FALSE, before |-> choice]

(* The page as it starts: the settings came with it, applyTileLayer has been
   called, and the status of the build has been asked for. *)
PanelInit ==
    /\ server \in {"idle", "building", "ready"}
    /\ panel = [status |-> "idle", ui |-> "idle", timer |-> FALSE, auto |-> FALSE,
                requested |-> FALSE, overlay |-> FALSE]
    /\ fetching = [why |-> "startup", saw |-> server]
    /\ posts = {}
    /\ saved \in Online
    /\ choice = [preset |-> NoChoice, form |-> saved]
    /\ newest = 1 /\ loads = {Call(1, saved, "startup")}
    /\ shown = NoChoice
    /\ presets = FALSE
    /\ saving = [at |-> "none", form |-> NoChoice]
    /\ welcome \in [dialog : {"hidden"}, completed : BOOLEAN, deferred : {FALSE}]
    /\ wants \in BOOLEAN /\ clicks = 0

Click == clicks < MaxClicks /\ clicks' = clicks + 1

-----------------------------------------------------------------------------
(* Loading.                                                                *)

Covered(p) == [p EXCEPT !.overlay = TRUE]
Requested(p) == [p EXCEPT !.requested = TRUE, !.overlay = TRUE]
GivenUp(p) == [p EXCEPT !.requested = FALSE, !.overlay = FALSE]

(* Mutant of Load: the counter is not advanced. *)
LoadUncounted(s, why) == newest' = newest /\ loads' = loads \cup {Call(newest, s, why)}
Load(s, why) == newest' = newest + 1 /\ loads' = loads \cup {Call(newest + 1, s, why)}

(* activateTinyTilesMap up to its await, k times. *)
activateTinyTilesMap(k) ==
    /\ newest' = newest + k
    /\ loads' = loads \cup {Call(newest + i, "tinytiles", "tinytiles") : i \in 1..k}

(* The newest load takes over the map, and waits for the paint. *)
LoadApplies(l) ==
    /\ l \in loads /\ l.gen = newest /\ ~l.applied
    /\ loads' = (loads \ {l}) \cup {[l EXCEPT !.applied = TRUE]}
    /\ shown' = l.source
    /\ UNCHANGED <<buildVars, newest, choice, presets, saving, saved, welcome, wants, clicks>>

(* The end of a load.  It succeeds if it has taken over the map, even if a
   newer one has begun since; what follows the paint may throw with the offline
   map.  One of a preset that fails puts the selection back that it had found. *)
LoadEnds(l) ==
    /\ l \in loads /\ loads' = loads \ {l}
    /\ panel' = CASE l.why = "tinytiles" -> GivenUp(panel)
                  [] l.why \in {"preset", "custom"} -> [panel EXCEPT !.overlay = FALSE]
                  [] OTHER -> panel
    /\ \/ /\ l.applied
          /\ choice' = IF l.why = "tinytiles" THEN [preset |-> "tinytiles", form |-> "tinytiles"] ELSE choice
       \/ /\ l.applied => l.source \in {"tinytiles", "custom"}
          /\ choice' = IF l.why = "preset" THEN l.before ELSE choice
    /\ UNCHANGED <<server, fetching, posts, newest, shown, presets, saving, saved, welcome, wants, clicks>>

-----------------------------------------------------------------------------
(* The status of the build.                                                *)

(* Mutant of Handled: the poll is scheduled when a build begins. *)
HandledOnce(p, s) ==
    LET q == [p EXCEPT !.status = s, !.ui = s, !.timer = FALSE]
    IN  CASE s \in Building -> [q EXCEPT !.timer = p.timer \/ p.status \notin Building, !.overlay = @ \/ p.requested]
          [] s = "failed" -> [q EXCEPT !.auto = FALSE, !.requested = FALSE, !.overlay = @ /\ ~p.requested]
          [] s = "ready" /\ p.auto -> Requested([q EXCEPT !.auto = FALSE])
          [] OTHER -> q

(* handleTinyTilesStatus; ActivatesNow tells whether it activates the map. *)
Handled(p, s) ==
    LET q == [p EXCEPT !.status = s, !.ui = s, !.timer = FALSE]
    IN  CASE s \in Building -> [q EXCEPT !.timer = TRUE, !.overlay = @ \/ p.requested]
          [] s = "failed" -> [q EXCEPT !.auto = FALSE, !.requested = FALSE, !.overlay = @ /\ ~p.requested]
          [] s = "ready" /\ p.auto -> Requested([q EXCEPT !.auto = FALSE])
          [] OTHER -> q
ActivatesNow(p, s) == IF s = "ready" /\ p.auto THEN 1 ELSE 0

(* The request is sent: every click sends one at most. *)
Post(auto) ==
    \E id \in 1..MaxClicks :
        /\ \A n \in 1..id : n = id <=> \A r \in posts : r.id # n
        /\ posts' = posts \cup {[id |-> id, auto |-> auto, answer |-> "none"]}

(* Mutant of startTinyTilesBuild: every build ends with its map on show. *)
startTinyTilesBuildAlways(p, auto) ==
    \/ panel' = Handled([p EXCEPT !.requested = auto], "building") /\ Post(TRUE)
    \/ panel' = p /\ UNCHANGED posts

(* startTinyTilesBuild up to its await; invalid zoom levels end it.  A build
   is either for the map, with the overlay, or for postal codes. *)
startTinyTilesBuild(p, auto) ==
    \/ panel' = Handled([p EXCEPT !.requested = auto], "building") /\ Post(auto)
    \/ panel' = p /\ UNCHANGED posts

(* What goes on after fetchTinyTilesStatus with the status s, if any, where
   `already` activations have begun: the rest of the poll's timer, of
   selectTinyTilesSource, of a conflict and of the activation button. *)
Continue(why, p, s, already) ==
    \/ /\ why = "startup" \/ (why = "poll" /\ s \notin Building) \/ (why = "conflict" /\ s # NoChoice)
          \/ (why = "activate" /\ s # "ready")
       /\ panel' = p /\ activateTinyTilesMap(already) /\ UNCHANGED posts
    \/ /\ why = "poll" /\ s \in Building
       /\ panel' = [p EXCEPT !.timer = TRUE] /\ UNCHANGED <<posts, loads, newest>>
    \/ /\ why = "conflict" /\ s = NoChoice
       /\ panel' = Handled(GivenUp([p EXCEPT !.auto = FALSE]), "failed")
       /\ UNCHANGED <<posts, loads, newest>>
    \/ /\ why \in {"select", "activate"} /\ s = "ready"
       /\ panel' = Requested(p) /\ activateTinyTilesMap(already + 1) /\ UNCHANGED posts
    \/ /\ why = "select" /\ s = NoChoice
       /\ panel' = GivenUp(p) /\ UNCHANGED <<posts, loads, newest>>
    \/ /\ why = "select" /\ s \in Building
       /\ panel' = [p EXCEPT !.auto = TRUE] /\ UNCHANGED <<posts, loads, newest>>
    \/ /\ why = "select" /\ s \in {"idle", "failed"}
       /\ startTinyTilesBuild(p, TRUE) /\ UNCHANGED <<loads, newest>>

(* fetchTinyTilesStatus: if one is under way, the latest status has to do. *)
fetchTinyTilesStatus(why, p) ==
    IF fetching = NoFetch
    THEN /\ fetching' = [why |-> why, saw |-> server]
         /\ panel' = p /\ UNCHANGED <<posts, loads, newest>>
    ELSE Continue(why, p, p.status, 0) /\ UNCHANGED fetching

(* Its answer tells the state that the server had at some time since. *)
StatusArrives ==
    /\ fetching # NoFetch /\ fetching' = NoFetch
    /\ LET s == fetching.saw
       IN  Continue(fetching.why, Handled(panel, s), s, ActivatesNow(panel, s))
    /\ UNCHANGED <<server, sourceVars, welcome, wants, clicks>>
Seen == \/ UNCHANGED fetching
        \/ fetching # NoFetch /\ fetching' = [fetching EXCEPT !.saw = server']

(* Without an answer the poll ends; only a silent one leaves the panel. *)
FetchFails ==
    /\ fetching # NoFetch /\ fetching' = NoFetch
    /\ Continue(fetching.why,
                [panel EXCEPT !.timer = FALSE, !.ui = IF fetching.why = "poll" THEN @ ELSE "idle"],
                NoChoice, 0)
    /\ UNCHANGED <<server, sourceVars, welcome, wants, clicks>>

scheduleTinyTilesPolling ==
    /\ panel.timer
    /\ fetchTinyTilesStatus("poll", [panel EXCEPT !.timer = FALSE])
    /\ UNCHANGED <<server, sourceVars, welcome, wants, clicks>>

(* The request to build arrives; one at a time is accepted. *)
PostArrives(r) ==
    /\ r \in posts /\ r.answer = "none"
    /\ \/ /\ server \in Building
          /\ posts' = (posts \ {r}) \cup {[r EXCEPT !.answer = "conflict"]}
          /\ UNCHANGED <<server, fetching>>
       \/ /\ server \notin Building
          /\ posts' = (posts \ {r}) \cup {[r EXCEPT !.answer = "ok"]}
          /\ server' = IF r.auto THEN "building" ELSE "postal"
          /\ Seen
    /\ UNCHANGED <<panel, loads, newest, sourceVars, welcome, wants, clicks>>

(* The rest of startTinyTilesBuild. *)
PostAnswer(r) ==
    /\ r \in posts /\ posts' = posts \ {r}
    /\ \/ /\ r.answer = "ok"
          /\ panel' = Handled([panel EXCEPT !.auto = r.auto], IF r.auto THEN "building" ELSE "postal")
          /\ UNCHANGED fetching
       \/ /\ r.answer = "conflict"
          /\ panel' = [panel EXCEPT !.auto = r.auto]
          /\ fetching' = IF fetching = NoFetch THEN [why |-> "conflict", saw |-> server] ELSE fetching
       \/ /\ panel' = Handled(GivenUp([panel EXCEPT !.auto = FALSE]), "failed")   \* refused, or lost
          /\ UNCHANGED fetching
    /\ UNCHANGED <<server, loads, newest, sourceVars, welcome, wants, clicks>>

(* A build ends, the startup installs the artifact that there is, the server
   restarts, or another client starts a build. *)
ServerMoves ==
    /\ \/ server' \in {"ready", "idle"}
       \/ server \in Building /\ server' = "failed"
       \/ server \notin Building /\ clicks < MaxClicks /\ server' \in Building
    /\ Seen
    /\ UNCHANGED <<panel, posts, loads, newest, sourceVars, welcome, wants, clicks>>

-----------------------------------------------------------------------------
(* The user.                                                               *)

WelcomeEnds(fromWelcome) ==
    IF fromWelcome THEN welcome.dialog # "hidden" /\ welcome' = [welcome EXCEPT !.dialog = "hidden", !.completed = TRUE]
    ELSE UNCHANGED welcome

(* A card of an online source. *)
selectTilePreset(s, fromWelcome) ==
    /\ presets /\ Click /\ WelcomeEnds(fromWelcome)
    /\ choice' = [preset |-> s, form |-> s]
    /\ panel' = Covered(panel)
    /\ Load(s, "preset")
    /\ UNCHANGED <<server, fetching, posts, shown, presets, saving, saved, wants>>

(* The card of the offline map: without presets the form stays. *)
selectTinyTilesSource(fromWelcome) ==
    /\ wants /\ Click /\ WelcomeEnds(fromWelcome)
    /\ choice' = [preset |-> "tinytiles", form |-> IF presets THEN "tinytiles" ELSE choice.form]
    /\ fetchTinyTilesStatus("select", Requested(panel))
    /\ UNCHANGED <<server, shown, presets, saving, saved, wants>>

ActivateButton ==
    /\ wants /\ panel.ui = "ready" /\ Click
    /\ fetchTinyTilesStatus("activate", panel)
    /\ UNCHANGED <<server, sourceVars, welcome, wants>>

(* The build button of the panel, and that of the territories, which only a
   build with postal codes disables. *)
BuildButton(auto) ==
    /\ IF auto THEN wants /\ panel.ui \notin Building ELSE panel.status # "postal"
    /\ Click
    /\ startTinyTilesBuild(panel, auto)
    /\ UNCHANGED <<server, fetching, loads, newest, sourceVars, welcome, wants>>

EditForm ==
    /\ Click
    /\ choice' = [preset |-> NoChoice, form |-> "custom"]
    /\ UNCHANGED <<buildVars, loads, newest, shown, presets, saving, saved, welcome, wants>>

PreviewButton ==
    /\ Click
    /\ choice' = [choice EXCEPT !.preset = NoChoice]
    /\ panel' = Covered(panel)
    /\ Load(choice.form, "custom")
    /\ UNCHANGED <<server, fetching, posts, shown, presets, saving, saved, welcome, wants>>

(* The save button reads the settings, then the form, and writes. *)
Save ==
    /\ saving.at = "none" /\ Click
    /\ saving' = [at |-> "reading", form |-> NoChoice]
    /\ UNCHANGED <<buildVars, loads, newest, shown, choice, presets, saved, welcome, wants>>
SaveReads ==
    /\ saving.at = "reading"
    /\ saving' \in {[at |-> "writing", form |-> choice.form], [at |-> "none", form |-> NoChoice]}
    /\ UNCHANGED <<buildVars, loads, newest, shown, choice, presets, saved, welcome, wants, clicks>>
SaveAnswer ==
    /\ saving.at = "writing"
    /\ saving' = [at |-> "none", form |-> NoChoice]
    /\ \/ saved' = saving.form /\ Load(saving.form, "saved")
       \/ UNCHANGED <<saved, loads, newest>>
    /\ UNCHANGED <<buildVars, shown, choice, presets, welcome, wants, clicks>>

(* loadTilePresets: the selection follows the settings, whatever the user has
   done meanwhile; then the dialog may appear. *)
loadTilePresets ==
    /\ ~presets
    /\ \/ /\ presets' = TRUE
          /\ choice' = [choice EXCEPT !.preset = IF saved = "custom" THEN @ ELSE saved]
       \/ UNCHANGED <<presets, choice>>
    /\ welcome' = IF welcome.completed \/ welcome.deferred THEN welcome ELSE [welcome EXCEPT !.dialog = "main"]
    /\ UNCHANGED <<buildVars, loads, newest, shown, saving, saved, wants, clicks>>

(* The buttons of the dialog, online sources and back or later, and the one
   for other sources, which the page shows elsewhere, too. *)
WelcomeButton ==
    /\ \/ /\ welcome.dialog # "hidden"
          /\ \/ welcome' = [welcome EXCEPT !.dialog = IF @ = "main" THEN "choices" ELSE "main"]
             \/ welcome' = [welcome EXCEPT !.dialog = "hidden", !.deferred = TRUE]
       \/ welcome' = [welcome EXCEPT !.dialog = "hidden", !.completed = TRUE]
    /\ UNCHANGED <<buildVars, loads, newest, sourceVars, wants, clicks>>

PanelStep ==
    \/ \E l \in loads : LoadApplies(l) \/ LoadEnds(l)
    \/ StatusArrives \/ FetchFails \/ scheduleTinyTilesPolling
    \/ \E r \in posts : PostArrives(r) \/ PostAnswer(r)
    \/ ServerMoves
    \/ \E fromWelcome \in BOOLEAN :
          \/ \E s \in Online : selectTilePreset(s, fromWelcome)
          \/ selectTinyTilesSource(fromWelcome)
    \/ ActivateButton \/ \E auto \in BOOLEAN : BuildButton(auto)
    \/ EditForm \/ PreviewButton \/ Save \/ SaveReads \/ SaveAnswer
    \/ loadTilePresets \/ WelcomeButton
PanelSpec == PanelInit /\ [][PanelStep]_panelVars

-----------------------------------------------------------------------------
(* Properties.                                                             *)

(* "A fresh page can show the existing artifact state, but does not replace
   the user's current source until they explicitly start or activate
   tinyTiles": whoever builds and however answers overlap, the offline map is
   not loaded for a user who only has postal areas built. *)
NotReplacedUnasked ==
    ~wants => shown # "tinytiles" /\ \A l \in loads : l.source # "tinytiles"

(* While the page takes the server to be building, a timer or an answer is
   on its way; only a request that fails ends that. *)
Following == panel.timer \/ fetching # NoFetch \/ posts # {}
BuildIsFollowed ==
    [][Following /\ ~Following' /\ panel'.status \in Building => FetchFails]_panelVars

(* A preview stays active until saved ("Vorschau aktiv, mit Speichern
   dauerhaft uebernehmen"): once nothing is under way, the form, which is what
   is saved, holds the preset that is shown. *)
PreviewIsWhatIsSaved ==
    /\ loads = {} /\ saving.at = "none"
    /\ shown \in Online \ {saved} /\ choice.preset \in Online
    => choice.form = shown
=============================================================================
