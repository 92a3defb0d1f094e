# osmmini: specifications, model checking and proofs

osmmini is an offline map and routing system: a Go server with a browser
interface, a native library for Apple platforms with a Swift client, and a WASM
build. This directory models the parts of it in which several actors, failures
and restarts meet, in TLA+. Small instances are checked with TLC; theorems for
every value of the constants are proved with TLAPS.

Every module begins with a comment that says which code it stands for.
`PROJECT.json` maps each definition to source lines, lists the runs, the
theorems, the known hazards of the code, and for each property a mutated
definition (an operator whose comment begins "Mutant of") that breaks it.

## 1. The parts of the system

| Part | State | Operations | Meets |
|---|---|---|---|
| **Operations log and outbox** (`cmd/operations.go`, `handleOperations` in `cmd/main.go`, `cmd/web/app.js`) | log file, records, two indexes; per browser an offline queue and a browser-local log; per page a deployment mode, a token and a flush in progress | submit, queue, flush, Create, List, Load | HTTP between page and server; tabs share `localStorage` |
| **Native bridge** (`bindings/c/main.go`, `mobile.Engine`) | registries of jobs and engines; per job state, cancellation, channel; per engine a reader/writer lock | start, wait, take, cancel, release, close | called from any thread of a C client |
| **Swift client** (`OfflineEngine.swift`) | per call a worker thread, a task, a continuation | import, open, search, route, tile, close | the native bridge |
| **TinyTiles on the server** (`cmd/tinytiles_*.go`, `cmd/territories_postal.go`) | artifact and sidecar on disk, the served dataset and waterways, the build state | build, postal build, activate at startup, backfill waterways | HTTP handlers, startup goroutine, build and backfill goroutines |
| **Region import, offline search** (`mobile/`) | pending directory, phases, checksums | import, resume, open | runs as a job of the native bridge |
| **Settings, tile cache, route cache** (`cmd/main.go`, `cmd/tile_proxy.go`, `cmd/route_cache.go`) | settings file and memory, cached tiles, flights, cached routes | PUT settings, tile request, route request | handlers share the caches |
| **POI and PBF indexes** (`cmd/poi_cache.go`, `cmd/pbf_index.go`) | cache files, index in memory | load, rebuild, publish | startup goroutine and handlers |
| **Base map and overlays of the page** (`cmd/web/app.js`, `offline-buildings.js`) | style, raster sources, generation of the switch; per overlay a switch, a timer, a wanted request | switch the source, move the map, switch overlays, edit fire stations | answers out of order; the renderer `microMap`; the server |
| **Map panel of the page** (`cmd/web/app.js`) | preset, form, what is shown and what is saved; what the page knows of the build | preview, save, have built, activate, welcome dialog | applyTileLayer; the server's build and settings |
| **Route planning and assistant** (`cmd/web/app.js`) | start, destination, via points, markers, the wanted computation and question, suggestions | compute, cancel, edit, ask, add markers, reload | server and positioning; `localStorage` |
| **OSM editor** (`cmd/web/osm-editor.js`) | drafts, undo and redo, the open form, tools on the map, requests | edit, draw, split, merge, delete, undo, import, check, export | OpenStreetMap, which others edit; the server's confidential objects |
| **Downloads and storage in Swift** | tasks, partial files, regions on disk | download, cancel, import, delete | file system, Swift client |
| **WASM client and worker** (`cmd/wasm`) | pending requests by number | call, answer, terminate | messages |
| **Algorithms** (`core/`, `cmd/tsp.go`, ...) | none between calls | route, tour, dispatch, work plan, territories | pure |
| Geodata import, overlays, exports, presentation | little | parsing, formatting | files, HTTP |

### What is hard, and what makes each part correct

*Operations log and outbox.* A record is identified by an event identifier the
page draws. Connections break after the server has saved; the server dies
between the rename of its log and the update of its indexes; the page is
reloaded with a request on its way; two tabs flush one queue. Correct means: a
record that the form called saved is in a log, an entry that it called queued is
in the queue or in a log, no entry is in the log twice, the log only grows, a
listing before a restart looks like one after it, and an entry that the server
refuses does not hold up the ones behind it.

*Native bridge and Swift client.* Jobs end while they are cancelled, waited for,
taken and released; an engine may be closed by several callers while queries are
about to read it. Correct means: no query reads a closed engine, no engine is
open that nobody can close, an engine that has been handed over is closed by its
owner only, no waiter sleeps through the end of its job, every call returns and
every job is released.

*TinyTiles.* A build replaces the artifact, then its sidecar, then what is
served; the process may die between any two of these; a backfill and a postal
build run beside it; the startup activates what is on disk while requests are
already answered. Correct means: a map is served with its own waterways, builds
are refused while one is at work, a build that reports "ready" is being served,
and no failure leaves the state at "building". The startup keeps neither of the
middle two (section 3 and section 5); the properties say that nothing else breaks
them.

*Tile cache.* Requests for one tile share one download, which ends when nobody
waits for it; a settings change must not file a tile under the wrong source.

*Base map and overlays.* A switch of the source passes several awaits while the
next one begins, and a new style discards what the overlays have added; each
overlay has a request whose answer may come after the map has moved or the
overlay has been switched off. Correct means: what is drawn is wanted and is the
newest, an overtaken switch does not take over the base map and leaves no source
of its own behind, and what the newest has taken over for is what the map shows.
The code checks for a newer switch up to the moment at which it takes over, and no
longer after the paint that follows: what the page names and the overlays of the
offline map may then follow an overtaken switch (section 5).

*Map panel.* Selections, saves and builds overlap with polls and with what other
clients do. Correct means: a build is followed to its end, nobody who did not ask
for it gets the offline map, and what is saved is what is shown.

*Route planning.* Nearly every control cancels the computation under way, whose
position and answer still arrive. Correct means: a route that was cancelled or
replaced is never drawn, buttons are blocked exactly while something is under
way, markers keep different numbers over reloads, and suggestions belong to the
newest input.

*OSM editor.* One form serves drafts, objects of OpenStreetMap and confidential
objects; splits and merges change several drafts and relations at once. Correct
means: references always resolve, undo and redo walk along one line, a draft is
replaced or taken out only by what the user does with its object, the export can
be applied from top to bottom (but for relations in relations), and a confidential
object stays out of it. Answers to a deletion or a merge act on the object that is
open when they come, which is not always the one they were asked for (section 5).

*Region import* must resume after a cancellation or a death without mixing the
phases of two requests, and never show a half-written region. *Settings*: what
is in force and what is on disk should agree after a failed save. *WASM*: an
answer reaches the call it belongs to.

## 2. The modules

| Module | Stands for | Role |
|---|---|---|
| `OperationsStore` | `OperationsStore` of `cmd/operations.go` | the store alone, one action per step of `Create` that a crash can separate |
| `OperationsStoreProofs` | | its theorems |
| `Operations` | form, queue, flush, network, handler, store | extends `OperationsStore`; the store's actions happen inside requests |
| `OperationsProofs` | | theorems about the way from the form to the log |
| `OperationsPromise` | | what the whole promises to the people who fill the log |
| `NativeJobs` | `bindings/c/main.go`, the lock of `mobile.Engine` | the bridge, under an arbitrary client |
| `OfflineEngine` | `OfflineEngine.swift` | extends `NativeJobs`; the only client is now the Swift one |
| `NativeBridgeProofs` | | theorems about the bridge under any client, and under the Swift client |
| `TinyTilesBuild` | `cmd/tinytiles_integration.go` | builds, startup and backfill over artifact, sidecar and state |
| `TinyTilesBuildProofs` | | its theorems |
| `TileCache` | `TileCache` of `cmd/main.go`, `cmd/tile_proxy.go` | memory, disk, shared downloads, changes of the source |
| `TileCacheProofs` | | its theorems |
| `RegionImport` | `Import` and `Open` of `mobile/engine.go`, with `search_artifacts.go`, `poi_index.go`, `poi_lock.go` | an offline region on disk: phases, resumption, rename, POI index |
| `RegionImportProofs` | | its theorems |
| `RegionPromise` | | what a region is to those who open it |
| `MapOverlays` | overlays in `cmd/web/app.js`, `offline-buildings.js` | five overlays with timers, requests and answers; fire stations |
| `BaseMap` | `applyTileLayer` and what it awaits | extends `MapOverlays`: a new style discards sources, a new source switches overlays |
| `TilePanel` | sources, builds and welcome dialog in `cmd/web/app.js` | preview, save, build, poll, activate |
| `RoutePlan` | route form, markers, suggestions, assistant in `cmd/web/app.js` | computations and questions that are cancelled or replaced |
| `PageProofs` | | theorems about map, panel and route planning |
| `OsmDrafts` | functions without state in `osm-editor.js` | drafts as values: validity, references, export, split and merge |
| `OsmEditor` | `OSMEditor.create` in `osm-editor.js` | extends `OsmDrafts`: workspace, history, form, tools, requests |
| `EditorProofs` | | theorems about workspace, history, export and what becomes of drafts |
| `MCStores` | | small instances of `OperationsStore`, `TileCache` and `RegionImport` |
| `MCOperations` | | small instances of `Operations`, in all deployment modes |
| `MCOffline` | | small instances of `TinyTilesBuild`, `NativeJobs` and `OfflineEngine` |
| `MCOsmEditor` | | the small worlds in which the editor works |
| `MCPage` | | extends `BaseMap`, `TilePanel` and `RoutePlan`: the page, one part at a time |

### OperationsStore

`records`, `newest` and `clientEvents` are the fields of the Go struct; offsets
count from 1 instead of 0. `disk` is the log file, `up` whether the process runs,
and `call` the one `Create` that holds `s.mu`, with how far it has come: "saving"
(appended, not saved), "renamed" (saved, not indexed), "done" (about to return).
Each phase is an action: `CreateKnown`, `CreateAppend`, `SaveFails`,
`SaveRenames`, `PublishRecord`, `CreateReturns`. `StoreCrash` may happen in each
of them; `StoreLoad` is the constructor and `Load`. `List` changes nothing and is
covered by `ListingInOrder`. What a record says is one value of `Docs`;
`validateOperation` and the generated record identifier, which nothing looks
up, are left out here. `Clock` values are drawn freely, so time may go back.

### Operations

One action is one run of a JavaScript handler between two awaits, or one section
of the HTTP handler. `FormSubmit`/`FormReply` are the submit handler before and
after its await, `FlushStart`/`FlushReply` the flush before its first and after
each await. `req` has the two requests a tab can have on their way; a request
goes from "sent" over "held" (its `Create` has the store) to an outcome. A
request whose tab has been reloaded, or whose connection broke, may still be on
its way: it moves to `orphans`, from where it may be handled at any later moment.
`view[t]` is the page's copy of the deployment mode, which starts as
"single-user" and stays so when `loadDeployment` fails. `told` records what the
form has said of each document; it is a history variable.

Abstractions: `Docs` stands for the content of an entry, `BadDocs` for those that
`validateOperation` refuses although the form does not; a single-user server is
one without an administrator token, so that only a multi-user server looks at
credentials; a record's other fields do not change. Each document is submitted at
most once. `queue` in the first state may come from an earlier version of
the page and hold entries without identifiers (`Legacy`).

### NativeJobs and OfflineEngine

A section under a job's or the registry's lock is one action. The generated
handles are never reused, so a job stands for its handle and an opening for the
engine it opens. `changed` numbers the channels of a job: `wait[j]` is the
channel a blocked `OSMminiWait` holds, `NoMissedWakeup` says that it is never the
current channel of a job that has ended. `engine[o]` follows the engine from
"none" over "open" to "closed"; `listed` is `registry.engines`. The readers'
lock is `Readers(o)` (queries that read) and `Closing(o)` (a close that waits,
behind which Go's `RWMutex` queues new readers). An engine that a failing job
closes has never been seen by anybody, so this close is part of `Finish`.
`Client` lets any program do anything the C interface permits, using an engine's
handle once it has taken it, and also after it has closed it.

`OfflineEngine` replaces `Client` by the Swift code. `worker[j]` is the position
in the closure of `Native.perform`, `outcome[j]` the state of the continuation
and of `open()` after it, `cancelled[j]` the task and its `Cancellation`.
`deinit` behaves like one more `close()` and is one of the `Closers`. The end of
a poll after 100 ms and its end by a signal are the same step, which reads the
job again. An unreadable answer is modelled where the job has ended; before that
the envelope holds only fields that the bridge itself writes.

### TinyTilesBuild

Artifacts, sidecars and what is served are named by the build that wrote the
artifact: `sidecar = artifact` says that the fingerprint matches. `pc` is the
position of each goroutine in its function, `mu` the holder of
`tinyTilesWaterwayBuildMu`. A sidecar is complete or absent: the variant of an
older sidecar without buildings is the same as an absent one.
Builds may be requested as early as the code answers them, that is while the startup
installs what is on disk. `ReadyServesTheBuild` follows a full build from its
installation to its success and names the one step that may get in between: the
startup's installation of the artifact that it had opened before.
`OnlyStartupLetsInASecond` says the same of the state "building".

### TileCache

One action is a section under `tc.mu` or one step of a flight's goroutine. A
flight is named by the request that started it; `flights` is the map by key, so
that an abandoned flight may still run beside its successor. `req[r]` goes from
"looking" over "missed" and "waiting" to "answered"; `left` has the requests
whose context is cancelled. The image of a tile is named by its source, which is
what the namespace in `tileCacheKey` keeps apart. Entries of `mem` expire, and
files of `disk` get too old, at any moment; which entries are the oldest is left
open. The counters of `Stats` are left out, `CacheDir` does not change, and
`Close` is not modelled because the program never calls it.

### RegionImport

`phase[a]` is the position of a call of `Import` or `Open` in its functions; an
import that finds a region goes on as an opening. A file is the set of the contents
of the PBF it was made from, `Missing` (empty) or `Half`; a pass over the PBF adds
what the file at its path contains at that moment, so that a PBF which is replaced
between two passes, or between an import and the one that resumes it, gives files
of several contents. `parts` are the files of `destination.pending`, `source` its
signature, `ready` its `.ready` files; `dest` is what the rename has published,
with the manifest's checksums as the sets that the files must be equal to. Every
write that a failure can cut short is two steps. `flock` is the lock on
`.poi-v1.lock` and `workspace` the directory `.poi-work-v1`; those who cannot lock
(`Lockers` are the others) build their index elsewhere. The first region may be
one of an earlier version, without an index or with a spoilt one.

Imports are those of one process, because `importLocks` is; that contents come
back which the PBF had before is left out (see section 5). `fileHash` reads
the PBF at one moment.

`RegionPromise` has a region that appears once, made from one source with one choice
of options, and an index that may be spoilt and is then only replaced by a whole one.
`Published` and `Spoilt` are the refinement mapping: what a manifest declares, if all
files agree with it, and the index unless it fits the search file.

### MapOverlays and BaseMap

`ov[o]` has the switch, the timer, the wanted request and the view drawn of each
overlay; a view is the number of the map's movement. `answers` are the requests
under way, those included whose `AbortController` has been told to abort: an
answer that is already there comes all the same. The five overlays differ as the
code does: labels, waterways and buildings clear themselves when the map is too
far out, hydrants and stations do not abort; waterways and buildings are sources
of the style (`present`), which a new style discards, and the buildings listen to the
map and come back with it. `MarkerStep` is about hydrants, `StationStep` about fire
stations with the requests that change them.

`switches` are the calls of `applyTileLayer`, each with the await it is in: "style"
(`waitForStyleReady`), "blank" (`ensureRasterCapableStyle`), "source"
(`activateRasterSource`), "painted" and "shown" (the paint after a vector and a raster
source), its generation and its source. What waits for the style or a source may be told
it is ready, or that it failed, since an error of any tile ends every wait, and the wait
for a style ends after five seconds whatever has come. `rasters` are the raster sources
on the map, `current` the one shown, `mode` the source that the page names.

The renderer is microMap (`cmd/web/static/micromap/micromap.mjs`), which the page uses
by default. Its `setStyle` fetches the style, and only a later `setStyle` revokes that;
sources can be added meanwhile. `coming` is the vector source whose style has been asked
for, `style` the one the map has; `StyleComes` is what happens when it has been fetched:
all sources that were added are gone, and `style.load` brings the buildings back. An
empty style needs no fetch and comes at once. MapLibre, which can be chosen instead, is
downloaded when the program is built and not part of the repository; it is not modelled.

`LayersFitTheMap` has two halves. Every raster on the map is the current one or one that
a switch still waits for. And from the time the newest switch takes over until it has
the page name its source, the map shows its raster, or the style that has come or is
still to come is its own. Both name the exception: a style that is late (section 5).

### TilePanel

A source stands for the six fields of the form. `loads` are the calls of
`applyTileLayer`, with what each will do afterwards. Only the newest takes over the map
(`LoadApplies`, which is `NewestSwitchWins` of `BaseMap`); one that has taken it over
succeeds even if a newer one begins while it waits for the paint, so that an overtaken
activation still sets the preset (`LoadEnds`). `server` is the build state that
`handleTinyTilesBuild` reports: a build ends or fails, another client has one started,
the startup installs what is on disk, the server restarts and is idle. "postal" is the
state of a build with postal codes, the only one that disables the button of the
territories. `panel` is what the page knows of it and what it waits for, `fetching` the
one request of the status, `posts` the requests to build, which the server accepts one
at a time. `welcome` is the first-start dialog, which appears once the presets have
arrived. `wants` says whether this user ever asks for the offline map, so that
`NotReplacedUnasked` can speak of one who does not.

### RoutePlan

Computations and questions are numbered; `go` is `routeRequest` with the button
and the timer of `debouncedCompute`, `calls` are the calls of `compute` that have
not returned, each before the position, the route or the tour. `ai` is
`aiRequestController`, `asks` the questions under way and the computation that a
shortcut of the assistant waits for. `abandoned` is a history variable: what was
cancelled or replaced. A route on the map is known by where it comes from. A field
is empty, has a text, or a point. Moving and naming markers, drawing and
instructions are left out.

### OsmDrafts and OsmEditor

`OsmDrafts` has the functions of `osm-editor.js` that keep no state: what an
element and a draft may be (`element`, `validateDraft`), the checks of references
(`checkReferences`), the order of the export (`osc`), insertion and removal of
vertices, and what a split or a merge does to ways and relations. An `Error` that
the source throws is a predicate that is false. Tags are tokens, positions names.
`osc` sorts by the type of the objects only, so `ExportInOrder` is about references to
objects of another type; what this means for relations in relations is in section 5.

`OsmEditor` has one action per handler. `current` is the open object with the
nodes that wait to be saved with it (`pendingNodes`), `working`, `members` and
`dirty` the form; `drawing`, `points` and `drawTags` the pen; `jobs` the requests
under way. `live` is what OpenStreetMap has, which others change while the user
works; `vault` what the server keeps as confidential. A handler that refuses with
a message is not enabled. While a request is under way the fields of the form are
disabled; the preset chips outside them are not, so tags may change then, too
(`EditTags`). `work` bounds what the user begins.

`DraftsAreKept` is about every draft that is alive, but for a new node without tags. If
it is no longer in the list as it was, then it was the open object's and `save` or a
split replaced it, it was the one taken out of the list, it was one of the two ways of a
merge, or the user took a step of undo or redo or reloaded the page. A draft that only
stands in a way of such a step, a vertex of the saved way or a relation of the ways, is
still there with its base and its tags. The answers to `deleteObject` and `mergeWith`
act on the object that is open when they arrive, and the property says of them just
that.

## 3. The runs

Parts of the system that do not meet share a run: a constant of each behaviour
(`store`, `party`, `client`, `part`, the world of the editor) says which part moves, so
that the parts do not multiply with each other.

| Run | Bounds | What it shows |
|---|---|---|
| `stores` | log: 2 events and the empty one, 2 documents, 3 clock values, 3 records; tiles: 3 requests, 1 tile, 2 sources, memory for 1 or 2 tiles, one change of the settings; region: two imports, an import and an opening, or three openings of which one cannot lock, 2 contents of the PBF, 2 options, 2 calls, 1 death | the invariants of the log and of the tile cache, and that `RegionImport` implements `RegionPromise`. Three records are needed for an insertion in the middle of `newest`, equal and decreasing times occur; three requests for an abandoned flight, its successor and one more that joins or, wrongly, starts a third. Two calls of an import are one that is interrupted and one that resumes; with three openings one dies while it builds the index, one waits for the lock and one has none. |
| `outbox` | 2 tabs against a single-user server or with a browser-local log for 2, one tab against a multi-user server with two tokens; 2 documents, 3 identifiers, queue of 2, one fault of each kind, an old queue without identifiers | nothing saved or queued is lost; the log implements the safety of `OperationsPromise`. Two tabs with one queue are the smallest instance of a lost update, and of an entry that both append to the browser's log; a fault of each kind lets a broken connection, a crash and a reload fall together. |
| `outbox_live` | 1 tab, two acceptable and one unacceptable document, one fault of each kind but reloads | what is acceptable is transferred and leaves the queue; the limit of the queue; the liveness of `OperationsPromise`. |
| `outbox_local` | browser-local server | **violation**, see below |
| `offline` | server: three builds, one death of the process; client: import and opening, or opening and query, two closers, one progress report | map, waterways and state of the server; the bridge under any client, and under the Swift client with liveness. Three builds allow one before a restart, whose artifact the startup then installs, one beside the startup, and one beside the backfill that follows. |
| `offline_close` | opening, two queries, two closers | **violation**, see below |
| `tinytiles_startup` | three builds, requests during startup | **violation**, see below |
| `osm_editor` | five worlds: an empty one, one with a confidential line, a way with its nodes that others have changed, two ways that meet at both ends, a way in a relation; 3 drafts, 2 steps of undo, 2 requests | references, history, export, and late answers. The worlds are the smallest in which objects are drawn, moved, split, merged, deleted while in use, and changed by others meanwhile. |
| `drafts_reload` | one way, a limit of 2 drafts | **violation**, see below |
| `confidential_local` | one confidential point | **violation**, see below |
| `page` | 3 switches alone, or 2 beside labels, waterways or buildings, 2 movements, 2 requests per overlay; 2 online sources and the offline map, 2 clicks in the panel, or 1 with the first-start dialog; 3 computations and questions, 3 markers, 1 via point, 3 inputs | overlapping requests of the page, styles that come late included. Of three switches, computations or inputs one can end late while the next two overlap. |
| `page_preview` | as `page` | **violation**, see below |

Deadlock is not checked: in all of these models the system may stop. Every
document has been submitted, every build requested, every job released, every
tile answered, or the bound on what the user does is used up.

`stores`, `outbox` and `page` use symmetry (of events, documents, requests, tabs
and online sources), only where no liveness is checked. Bounds that cap the
behaviours: `MaxRecords`, `MaxFaults` (faults of each kind), the number of
identifiers (`CanDraw`), `MaxProgress`, `MaxCrashes`, `MaxUpdates`, `MaxMoves`,
`MaxRequests`, `MaxEdits`, `MaxSwitches`, `MaxClicks`, `MaxComputations`,
`MaxStops`, `MaxVias`, `MaxKeys`, `MaxCalls`, `MaxDeaths`, `MaxLive`, `MaxLocal`, `MaxJobs` and the `work`
of a world, and that each document, job, build and tile request is started once.
In `MCPage` a part "routes" sets at most one marker, and a part "assistant" no via
point.

Some properties of a run join several of its modules, each explained where it is
defined: `StatusFollowsTheBuild`, `EnginesAreOwned`, `OwnersKeepTheirEngine`,
`CallsEnd`, `PromiseKept` and the type invariants.

### Where the code and its documents differ

* **A queued entry may never be transferred** (`outbox_local`,
  `QueuedIsTransferred`). The form says "Der Eintrag wird beim nächsten Kontakt
  übertragen." (`cmd/web/app.js:5193`). A page that could not load the deployment
  takes the server for a single-user one and queues; once it knows that the
  deployment is browser-local, `flushPendingOperations` returns at once
  (`app.js:5358`). The entry stays in the queue.
* **A second `close()` does not wait** (`offline_close`, `CloseWaitsForWork`).
  `apple/README.md:262`: "`close()` is idempotent and waits for active native
  work." The first close takes the engine off the registry before it waits for
  the readers; the second finds nothing there and returns
  (`bindings/c/main.go:300-308`). No query reads a closed engine
  (`NoUseAfterClose`): only the second caller's assumption is wrong.
* **Two builds at a time** (`tinytiles_startup`, `OneBuildAtATime`).
  `cmd/api/openapi.yaml:231-232` promises a 409 while a build is running. The
  startup installs the existing artifact in a goroutine while requests are
  answered and then overwrites the state with "ready", also when a build has
  started meanwhile; a second request is accepted. The full builds still exclude
  each other by the mutex.

* **Drafts that cannot be loaded again** (`drafts_reload`, `DraftsSurviveReload`).
  `README.md:101`: "OSM-Edit keeps drafts in the browser". A split or a merge adds
  drafts without looking at the limit of 100 that `save` enforces
  (`osm-editor.js:1203`, `1243`). `localStorage` takes them, `restore` refuses them
  at the next start (`osm-editor.js:145`), and the next change overwrites them.
* **A confidential object that is drawn again** (`confidential_local`,
  `ConfidentialStaysLocal`). `osm-editor.js:1381`: "Confidential objects: local-only
  points/lines/areas that never touch `drafts`, `osc()` or the .osc export".
  `drawSelectedArea` (`osm-editor.js:1119`) is the one tool that does not look at
  `confidentialID`; it carries the tags over to an area that is drawn as an
  ordinary object and becomes a draft when saved.
* **Saving stores another source than the one shown** (`page_preview`,
  `PreviewIsWhatIsSaved`). `app.js:3683`: "Vorschau aktiv, mit „Speichern“ dauerhaft
  übernehmen." Of two overlapping selections, for which a double click is
  enough, the overtaken one puts the source from before it back into the form
  (`app.js:3817-3820`), while the newer one is shown.

### Fairness

`Operations`: the page's continuations run, the interval of 30 s fires, the server
is restarted by its supervisor, saves and answers go on, and the connection comes
back. A handler waiting for the store's mutex gets it although others take it in
between (strong fairness of `Handle`: Go's mutexes hand over to a waiter after 1
ms). Nobody has to submit, reload or load the deployment; faults are bounded in
number, so that they end. `OfflineEngine`: threads run and native work ends;
nobody has to call, cancel or close. `MCOffline` adds, for `TinyTilesBuild`: goroutines run, and the
mutex reaches each waiting build (strong fairness of `BuildLocks`).

## 4. The proofs

### The operations log

`OperationsStoreProofs` proves for every set of events, documents, actors and
clock values, and for a log of any length:

| Theorem | Property |
|---|---|
| `StoreTypeCorrect` | `StoreTypeOK` |
| `OnceOnly` | `OneRecordPerEvent` |
| `RestartLosesNothing` | `RestartInvisible` |
| `AnsweredStays` | `AnsweredIsDurable` |
| `AppendsOnly` | `LogAppendOnly` |
| `ListingsAgree` | `ListingInOrder` |

Assumed is only `StoreAssumption`: the empty identifier is not an identifier, and
clock values are natural numbers.

None of the properties is inductive. That a restart would load the index in
memory has to be known in the middle of a `Create`, where it is false: after the
rename the file is one record ahead of the index. `StoreInv` therefore speaks of
`Indexed`, the part of the log file that the index covers: all of it, except in
phase "renamed", where it is all but the last record. In phase "saving" the
records are the file and one more. An event that is being created is not in
`Indexed`, because the mutex has been held since it was looked up. The lemmas
`AppendEventIds`, `AppendUnique`, `IndexedOccurs` and `AppendIndex` show that the
one entry `Create` adds to its map gives the map that `Load` would build; the
proof of each action is a lemma of its own, and `StepInv` collects them.

`ListingsAgree` compares an insertion with a sort. `SortedOnce` shows that a log
has one order at most, by looking at the first place at which two orders differ;
`InsertSorted` that an insertion into the order of a log gives one of the longer log;
`SortExists` that each log has an order, because a shortest one without would get it
by an insertion. Both take a least natural number with a property (`LeastNatural`)
where one would otherwise use induction. `OrderInv` says that listings are in the
order of `Indexed` at every step of a `Create`.

### From the form to the log

`OperationsProofs` proves for any number of tabs, entries, identifiers and faults,
for any limit of the queue and any queue left by an earlier version:

| Theorem | Property |
|---|---|
| `OperationsTypeCorrect` | `OperationsTypeOK` |
| `SavedStays` | `SavedIsKept` |
| `QueuedStays` | `QueuedIsKept` |
| `QueueStaysBounded` | `QueueIsBounded` |
| `LogIsTheStore` | `StoreSpec` of `OperationsStore` |
| `PromiseIsImplemented` | `PromiseSafety`: `PromiseSpec` of `OperationsPromise` |

Assumed are `OperationsAssumption` (identifiers are finitely many, since
a flush has to find as many new ones as it needs) and `LegacyAssumption`: the queue
that an earlier version has left holds each entry once and is within the limit.

None of the properties is inductive. An entry is in many places at a time: the queue,
the flushes of several tabs that share the queue, requests, requests nobody waits for
any more, the `Create` under way, the log. A flush takes out of the queue what has the
identifier of the entry that has arrived; that this is the same entry, and that a
retry of it is not a second record, is `SeenInv`: wherever an entry is seen it has the
same identifier, no other entry has it, and only in the queue it may have none yet.
`AnswerInv` ties an answer that is on its way to what the log holds, `HeldInv` the
request that waits for the store to the store's call, `FormInv` what the form has said
to what it waits for, so that a late answer does not overwrite what was said of another
entry. `StoreInv` is a conjunct: every action of `Operations` takes a step of the store
or none, which is also `LogIsTheStore`, and with it all theorems of
`OperationsStoreProofs` hold of the log behind the network.

For `PromiseIsImplemented` each action is either a step of `OperationsPromise` or
leaves its state alone: the rename of a save logs one entry that the log did not have,
a tab that keeps the log itself puts one entry into it, an answer makes the form say
one thing of one entry, everything else is a stutter. The promise is stated for both
kinds of log. That of a server has an entry once and none that `validateOperation`
refuses. That of a browser has neither: `submitOperation` looks for nothing before it
appends (`app.js:5286`), and two tabs that flush the same queue when they learn that the
deployment is browser-local append an entry twice. What holds there, and is
proved, is that only an entry the form had put off is ever repeated. Two invariants go
beyond `OperationsInv`. `ModeInv`: the log file of a browser-local server stays
empty and its store idle, the browser's log empty under any other, where no tab ever
takes the server for a browser-local one. `DelayInv`: whatever waits in the queue or in
a flush has been put off, and the browser has logged nothing that was not submitted.

### The native bridge and the Swift client

`NativeBridgeProofs` proves for any number of imports, openings, queries, closers and
progress reports:

| Theorem | Specification | Property |
|---|---|---|
| `BridgeTypeCorrect` | `JobsSpec` | `JobsTypeOK` |
| `ReadersHoldTheirEngine` | `JobsSpec` | `NoUseAfterClose` |
| `WaitersAreWoken` | `JobsSpec` | `NoMissedWakeup` |
| `OpenEnginesAreReachable` | `JobsSpec` | `NoEngineLeaks` |
| `OwnersAlone` | `JobsSpec` | `OnlyOwnerCloses` as an action property |
| `SwiftTypeCorrect` | `OfflineSpec` | `OfflineTypeOK` |
| `SwiftReadersHoldTheirEngine` | `OfflineSpec` | `NoUseAfterClose` |
| `NoEngineIsLost` | `OfflineSpec` | `EnginesAreOwned` |
| `OpenedEnginesStayOpen` | `OfflineSpec` | `OpenedStaysOpen` as an action property |
| `CallsAreNeverRefused` | `OfflineSpec` | `CallsAreLegal` |
| `OfflineMapTypeCorrect` | `OfflineMapSpec` | `OfflineMapTypeOK` |
| `EnginesStayWithOwners` | `OfflineMapSpec` | `OwnersKeepTheirEngine` |

Assumed is only `NativeAssumption`: imports, openings and queries are different
jobs, the close in the name of a job is nobody else's, the nil pointer is not an
engine, and the bound on progress reports is a natural number.

`NoUseAfterClose` is not inductive: the lock keeps a close behind the readers, but
only if an engine is never closed on another path. `BridgeInv` says why it is
not. A pointer that a query has captured (`QueryInv`) and an engine that a close is
about to unmap (`CloseInv`) belong to jobs that have ended, so that the failing
`Finish` closes an engine nobody knows; what is on the registry is open
(`EngineInv`), so that whoever takes it off is the one who closes it.
`PhaseInv` relates a job to its goroutine, and `ChannelInv` says that a waiter never
holds a newer channel than the job's, and the job's own only while it runs.
`ReachInv` is `NoEngineLeaks`; it needs that a job's own close begins with its
release or after the engine was taken.

`BridgeStep` covers what any C program and what the Swift client can do, with one
lemma per action, so that `BridgeStepKeepsInv` serves both specifications. `SwiftInv`
adds the position of worker and task: only the worker takes an engine or releases
the job, an engine is closed by others only after `open()` has returned it, and
therefore the release of an `open()` that failed is the only close of its engine,
for which `Throw` has waited.

That an engine stays with its owner needs, for a C program, that nothing is closed in
the name of a job whose engine has been taken (`OwnCloseInv`), and for the Swift client
`OpenedInv`: an engine is on the registry from the end of its job until `open()` returns
it, since only a release, a cancelled `open()` or a caller to whom it has been returned
closes it (`UnlistedByOwner`).

`CallsAreLegal` is stated in `NativeBridgeProofs`. The model has no step for a native
call that the bridge refuses, and this theorem says that it leaves nothing out: the
worker starts, waits for, takes and releases a job that is there, with an engine that
nobody has taken, and a cancelled `open()` closes one that nobody has begun to close. The
error branches of `OfflineEngine.swift` for an unknown job (line 66) and for the handle 0
(line 117) are not reached on the way of the bridge that is modelled. Its invariant `HeldInv` says that a result is
handed over only of a complete job, which stays complete, and that a close in the
name of an opening job is that of a release that found its engine untaken, or
`open()`'s own.

`OfflineMapSpec`, the specification of the run, lets either client, or the server, take
the steps of a behaviour; `OfflineMapInv` puts their invariants together.

### The tile cache

`TileCacheProofs` proves, for any number of requests, tiles, sources and changes of
the settings, and for a memory of any size:

| Theorem | Property |
|---|---|
| `TileTypeCorrect` | `TileTypeOK` |
| `AnswersAreOfTheirSource` | `ServedFromItsSource` |
| `DownloadsAreShared` | `SharedWhileWanted` |

Assumed is only `TileAssumption`. `TileInv` carries the source in a key through all the places a
tile passes: what memory and disk hold under a key (`CacheInv`), what a flight has
loaded (`FlightInv`), what a request has been given (`RequestInv`); the settings
that are in force now occur nowhere in it, which is why a change of them disturbs
nothing. `ListInv` says that the map lists a flight exactly while it goes on:
landing takes it off, and so does the departure of its last waiter, after which a
successor may take the key. `CountInv` compares `waiters` with the cardinality of
the set of requests that wait, so that the code's test for zero is "nobody waits";
that this set stays finite, however many requests there may be, is part of it.

### Builds of the offline map

`TinyTilesBuildProofs` proves for any number of builds and crashes:

| Theorem | Property |
|---|---|
| `TilesTypeCorrect` | `TilesTypeOK` |
| `ServedPairsMatch` | `ServedPairMatches` |
| `BuildsExcludeEachOther` | `OnlyStartupLetsInASecond` as an action property |
| `ReadyBuildsAreServed` | `ReadyServesTheBuild` |

Assumed is only `TinyTilesAssumption`: the goroutines are different from each other, and
what stands for no artifact is none of them.

`ServedPairMatches` is not inductive: an
installation opens the artifact and looks at the sidecar in one step and publishes
them in another, in between a build may replace both. `BuildInv` keeps builds and
backfill apart by the mutex (`MutexInv`), gives a build an artifact that nobody
knows before it is generated (`FreshInv`), says of each opened pair that it
belongs together unless the artifact has been replaced since (`PairInv`), and what
a build has written at each of its stages (`StageInv`).

`ReadyBuildsAreServed` needs no more: a build holds the mutex until it has reported, so
that only what works without it, the startup, can change what is served.
For `BuildsExcludeEachOther`, `StatusSteps` lists what a step can do to the state and to
the set of builds at work: one is accepted while the state is not "building", one ends
and sets the state, or the state stays and no build is added. With that the two
invariants "the state is building while a build is at work" and "one build at a time"
survive every step but the startup's announcement, which is what `tinytiles_startup`
shows it to break.

### The region import

`RegionImportProofs` proves for any number of imports, openings, options and
contents of the PBF, and for any number of deaths:

| Theorem | Property |
|---|---|
| `RegionTypeCorrect` | `RegionTypeOK` |
| `RegionIsMadeOnce` | `RegionAppearsWhole`: `PromiseSpec` of `RegionPromise` |

Assumed is only `RegionAssumption`: imports and openings are different callers,
contents are numbered in the order in which the PBF has had them, and what stands for
a missing or torn file is no content and no signature.

What makes a region whole is the comparison of the PBF at the end of an import with its
hash at the beginning, and it has to cover files that an earlier import has left.
`SourceInv` says that what is pending is not older than its signature, and `ReadInv`
that what a phase has read so far lies between the first hash and the PBF as it is now;
if both are equal, all files are of these contents (`ValidInv`). `PhaseInv` says which
files are complete when an import is in a phase, also when it has skipped phases that
a dead one had finished. `LockInv` keeps imports of a destination apart, `FlockInv` and
`IndexInv` those that make the POI index, so that an index which is moved into a
region is one of its own search file (`DestInv`).

`StoresAreTheirParts` shows that a behaviour of `MCStores` is one of the log, of the tile
cache and of the region, each of which rests while another moves; what is proved of the
three specifications holds of it, the types among it (`StoresTypeCorrect`:
`StoresTypeOK`).

### The page

`PageProofs` has three specifications, one for each part of the page: `MapSpec` (base
map and overlays), `PanelSpec` and `PlanSpec`. They share no variable, and a step of
`MCPage` is a step of one of them that leaves the others alone (`PageIsItsParts`). Proved for any number
of sources, zooms, movements, requests, switches, clicks, stops and computations:

| Theorem | Specification | Property |
|---|---|---|
| `MapTypeCorrect` | `MapSpec` | `BaseMapTypeOK` |
| `UnwantedIsNotDrawn` | `MapSpec` | `OnlyWantedIsDrawn` |
| `DrawingsAreNewest` | `MapSpec` | `NewestViewIsDrawn` |
| `NothingIsLeftBehind` | `MapSpec` | `LayersFitTheMap` |
| `OvertakenSwitchesStop` | `MapSpec` | `NewestSwitchWins` |
| `PanelTypeCorrect` | `PanelSpec` | `PanelTypeOK` |
| `SourceIsKept` | `PanelSpec` | `NotReplacedUnasked` |
| `BuildsAreFollowed` | `PanelSpec` | `BuildIsFollowed` |
| `PlanTypeCorrect` | `PlanSpec` | `PlanTypeOK` |
| `ButtonsWaitForTheirCall` | `PlanSpec` | `BusyWhilePending` |
| `NothingAbandonedIsDrawn` | `PlanSpec` | `AbandonedIsNotDrawn` |
| `MarkersDiffer` | `PlanSpec` | `StopNumbersDiffer` |
| `SuggestionsAreNewest` | `PlanSpec` | `NewestSuggestions` |
| `PageTypeCorrect` | `Spec` of `MCPage` | `PageTypeOK` |

Assumed are only `OverlaysAssumption`, `BaseMapAssumption`, `PanelAssumption` and
`RoutePlanAssumption`: the bounds are natural numbers, each source is of one of the four
kinds, and the names of sources, states and choices do not coincide.

`MapInv`: that an answer is newer than what is drawn follows neither from its number
nor from the overlay alone. `AnswersInv` says that the answer an overlay waits for is
the newest of all under way for it and not older than what is drawn, and that no other
has its number; for that a number must be free whenever a request is made, which
`FreshIdIsFresh` shows by counting the answers under way. Two kinds of steps,
`Request` and `Draws`, need an argument; all others are `Calm`: an overlay stays, is
cleared, or forgets its request. `FarInv` says of an overlay that is too far out, once
its timer has run, that it also waits for nothing, and `StyleInv` that what the style
does not have is not drawn. `RasterInv` gives every raster on the map but the current one
a switch that awaits it, unless the style of a vector source is late: it wipes them all
when it comes. `ShownInv` follows the newest switch from the moment at which it empties
the style or asks for one: `Fits` says at each of its awaits what is current, what is
coming, and whether its raster is on the map or a late style has taken it. No style
that was asked for before it can then be coming while it waits for its own, since
`setStyle` has revoked that.

`PanelInv`: for a user who has not asked for the offline map, `UnaskedInv` excludes it
from everything that could bring it about later: the source shown, saved, in the form
and in the preset, what a load would put back when it fails, polls and posts that
would activate it, and the flag that a ready build is to be loaded.

`PlanInv`: `CallsInv` ties the disabled buttons to what they wait for, and says that
the wanted computation is one under way that has not been abandoned; a question that
computes nothing itself has an identifier of its own. Markers are below the counter
of numbers on the map and at most as many as were placed in the storage, so that a
reload, which counts on from the largest it restores, gives no number twice
(`MaxIsGreatest`, `RemoveAtMoves`).

### The editor

`EditorProofs` proves for any OpenStreetMap, any number of drafts, requests and
steps of undo, and for files of any drafts that `restore` accepts:

| Theorem | Property |
|---|---|
| `EditorTypeCorrect` | `EditorTypeOK` |
| `WorkspacesStaySound` | `WorkspacesAreSound` |
| `HistoryStaysALine` | `HistoryIsALine` |
| `ExportStaysInOrder` | `ExportInOrder` |
| `NoDraftIsLost` | `DraftsAreKept` |

Assumed are only `DraftsAssumption` and `EditorAssumption`: what OpenStreetMap has is
what `element` accepts, there is at least one step of undo, an imported file is a
sequence of acceptable drafts, a confidential object has a number, tags and at least
one point, and the bounds are natural numbers.

`WorkspacesAreSound` is almost inductive: what undo, redo and a reload bring back was
sound when it was kept, and the handlers that end in `checkReferences` or `osc` cannot
save anything else. One does not look: `Undelete` takes a deletion out of the list
unchecked, and `UndeleteIsSound` shows that it may, because in a sound workspace nothing
refers to what is deleted. `EditorInv` adds that all of this is
about sequences: workspaces, the two halves of the history, the points of a drawing and
the nodes that wait in the form (`HistoryInv`, `FormInv`); that every draft is one that
`validateDraft` accepts, and what is open an element, perhaps one that cannot be saved
yet, whose base OpenStreetMap has sent (`Openable`); that every point of a drawing can
become a node (`PenInv`); and that a request carries what its answer will open or keep
(`Carries`), since the workspace may have changed by then. The last is why a deletion
that is answered late is still one of an object that OpenStreetMap knows.

Every step is reduced to a few moves before the invariant is looked at
(`EveryStepMoves`): the history stays, `persist` takes a sound workspace, or it is
`Undo`, `Redo` or `Reload`; the points stay, grow, lose their last or are dropped; the
form holds what it held, nothing or a new object. What the handlers do to lists of
drafts (put, filter, remove, patch, append) is a lemma each; `KeepAt` and `PutAll` are
written without `SelectSeq` and a fold over an operator, which the prover does not know.
For `HistoryStaysALine` the three parts of the line are compared element by element: a
step of undo or redo moves one workspace across the middle (`LineIsWalked`,
`LineIsTaken`), and a change leaves an end of what was before the middle (`LineIsCut`),
never all of it lost (`UndoIsCut`).

For `ExportStaysInOrder` each draft has a place in the file, from new nodes to deleted
nodes. The file is a row of parts (`PartIsSorted`, `PartsAreSorted`), so places never
decrease along it (`FileIsSorted`); a reference from one type to another goes from a way
to a node or from a relation to either (`ReferencesGoDown`), and places decide the rest
(`FileIsInOrder`).

`NoDraftIsLost` compares the drafts themselves before and after each handler: what is no
longer there must be followed by a draft of the same object with its base and its tags,
or be what was asked for. `Put`, `RemoveAt`, `Pruned` and the patches of a split or
merge touch one object each or leave of each draft one that stands for it (`PutKeeps`,
`RemoveAtKeeps`, `PrunedKeeps`, `PatchesKeep`). The difficulty is `save`, which also puts the nodes that
wait in the form over the drafts of the same nodes. It loses nothing only because such a
node has the base and the tags of that draft, which `KeptInv` says: a node is moved from
the draft of the workspace, a new one takes a placeholder that no draft has
(`TempIdIsNegative`), and while nodes wait the form counts as changed, so that neither
the list of drafts nor an import alters what they were taken from (`WaitingNodesFit`).

### Only model-checked

Liveness, which is out of the prover's reach: `PromiseKept`, `CallsEnd` and
`StatusFollowsTheBuild`. Every safety property of a passing run has a theorem.

## 5. Not modelled

Parts without a module are listed with their reasons in `PROJECT.json`: the
offline search, the POI and PBF indexes of the server, the Swift downloads and
map view, the WASM worker, the algorithms, the geodata services and what only
presents. Within the modelled parts: what a damaged log file does at startup (it
is reported and the next save replaces it), the order in which the file system
writes data and names, the history list of the page, barcode scanning and
exports, progress and estimates of a build, shutdown of the server, the settings
file and the route cache, the contents of styles, sources, routes and tags.

Two tabs with the OSM editor share one key of `localStorage` and overwrite each
other's drafts; the editor is modelled with one tab.

Observations on the region import, for which there is no run: the signature of
pending work is truncated and written again by every call (`engine.go:164`); a
process that dies there, or a write that fails, leaves a signature that matches no
request, so that completed phases, which `engine.go:76` and `apple/README.md` say
are resumed, are refused from then on. A PBF that is replaced and put back while
an import reads it passes the comparison of hashes at the end, with files of both
contents under the checksum of one. Two processes that import to one destination
share its workspace: `importLocks` is one of the process.

Observations on switches, builds and late answers, which the properties name as their
exceptions:

* The startup installs what it had opened after a build has installed the newer artifact
  and before that build reports "ready" (`main.go:1475-1489`,
  `tinytiles_integration.go:437-504`): it does not take the mutex of the
  builds. What is served is then the old map, until the next restart or build.
* `applyTileLayer` looks at its counter before the paint and not after it
  (`app.js:1050-1051`, `1081-1087`, `1140-1146`). A switch that is overtaken while it
  waits for the paint still has the page name its source, puts the overlays of the offline
  map on or off, perhaps over the newer source, and returns success, so that
  `activateTinyTilesMap` sets the preset of the offline map (`app.js:4309`).
* A style is revoked only by another style. That of an overtaken switch to a vector
  source arrives over a newer raster and wipes it off, while `currentTileLayer` and
  `baseLayerKind` keep to the raster; nor does a switch that has failed take back the
  style it has asked for. The comment on `applyTileLayer` (`app.js:1053-1057`) says that
  the new layer is "prepared and confirmed ready before the old one is torn down, so a
  failed switch leaves the visible map intact". And `waitForStyleReady` goes on after
  five seconds without the style, so that the page may name a source before it is there.
* `deleteObject` takes the drafts of the open object out when OpenStreetMap has answered
  (`osm-editor.js:1539`), and `mergeWith` puts its result over the open object
  (`osm-editor.js:1228-1242`). If the user has opened another object meanwhile, it is the
  draft of that one that goes. Undo brings it back.

Observations from the models that no document contradicts: a browser-local
flush by two tabs appends an entry to the browser's log twice (which
`OperationsPromise` therefore allows); after a failed
build that had already replaced the artifact, a backfill serves the new
artifact's waterways beside the old map (so `ServedPairMatches` speaks of the
map on disk); a backfill that meets a postal-only build drops its finished
sidecar until the next start; one failed poll ends the page's polling and leaves
its loading overlay (`BuildIsFollowed` names the exception); "Zurücksetzen" removes
the markers from the map and not from `localStorage`, so that a reload brings them
back; the answer to a computation puts its start and destination over what the
user has changed meanwhile without an input event; a switch from a vector map to
a raster one that fails leaves the map without a base, because the style has
already been emptied; hydrants and fire stations that are too far out keep a
request under way, whose answer is then drawn; `osc` sorts by the type of an object
only (`osm-editor.js:140`), so that of two deleted relations, one of which was a member
of the other, the member may come first: take the member out of the relation and save,
delete the member, delete the relation. The file then deletes the member while
OpenStreetMap still has it in the relation. An import may likewise bring a new relation
that refers to a new one behind it in the file.

## 6. What could come next

1. The POI and PBF indexes of the server, and the downloads that feed the region
   import.
2. The settings file and the route cache beside `TileCache`, and that every tile
   request is answered.
3. What a merge keeps of the two ways, which `DraftsAreKept` leaves open.
4. Algorithms (heap, tours, dispatch) against reference definitions.
5. WASM messages, and the generations of the Swift map view.
