--------------------------- MODULE TinyTilesBuild ---------------------------
(***************************************************************************)
(* The local offline map on the server, cmd/tinytiles_integration.go and   *)
(* the start of cmd/main.go: builds requested over HTTP, the activation of *)
(* an existing artifact at startup and the backfill of its waterways.      *)
(*                                                                         *)
(* Every build replaces the artifact on disk.  The waterway sidecar beside *)
(* it carries the fingerprint of the artifact it belongs to.  An artifact, *)
(* and what is made from it, is named by the build that wrote it.          *)
(***************************************************************************)
EXTENDS Naturals

CONSTANTS
    Builds,     \* the builds that may be requested
    Startup,    \* the goroutine that activates what is on disk
    Backfill,   \* the goroutine that supplies missing waterways
    Nothing,    \* no artifact, no sidecar, nobody
    MaxCrashes  \* bound: how often the process dies

ASSUME TinyTilesAssumption ==
    /\ Startup # Backfill /\ {Startup, Backfill, Nothing} \cap Builds = {}
    /\ Nothing \notin {Startup, Backfill}
    /\ MaxCrashes \in Nat

VARIABLES
    up,         \* the process runs
    status,     \* s.tinyTilesBuild.State
    pc,         \* pc[t]: where a goroutine is
    postal,     \* postal[b]: the build is to publish postal territories
    mu,         \* who holds tinyTilesWaterwayBuildMu
    artifact,   \* basemap.ttiles
    sidecar,    \* the waterway sidecar, by the artifact it is stamped with
    postcodes,  \* basemap.postcodes.geojson exists
    dataset,    \* s.tinyTilesDataset
    waterways,  \* s.tinyTilesWaterways
    opened,     \* opened[t]: the pair a goroutine has opened to install
    crashes     \* process deaths left

disk   == <<artifact, sidecar, postcodes>>
served == <<dataset, waterways>>
vars   == <<up, status, pc, postal, mu, disk, served, opened, crashes>>

Threads  == Builds \cup {Startup, Backfill}
Versions == Builds \cup {Nothing}
Pair     == [dataset : Versions, waterways : Versions]
Running  == {b \in Builds : pc[b] \notin {"idle", "done"}}

(* The values of the variables, and where each goroutine can be. *)
TilesTypeOK ==
    /\ up \in BOOLEAN
    /\ status \in {"idle", "building", "ready", "failed"}
    /\ pc \in [Threads -> {"idle", "queued", "scan", "generate", "check",
                           "publish", "open", "load", "swap", "look", "announce",
                           "territory", "ready", "failed", "done"}]
    /\ pc[Startup] \in {"idle", "open", "load", "swap", "look", "announce", "done"}
    /\ pc[Backfill] \in {"idle", "queued", "scan", "check", "publish", "swap", "done"}
    /\ postal \in [Builds -> BOOLEAN]
    /\ mu \in Builds \cup {Backfill, Nothing}
    /\ artifact \in Versions /\ sidecar \in Versions /\ postcodes \in BOOLEAN
    /\ dataset \in Versions /\ waterways \in Versions
    /\ opened \in [Threads -> Pair]
    /\ crashes \in 0..MaxCrashes

NoPair == [dataset |-> Nothing, waterways |-> Nothing]

Init ==
    /\ up = TRUE
    /\ status = "idle"
    /\ pc = [t \in Threads |-> "idle"]
    /\ postal = [b \in Builds |-> FALSE]
    /\ mu = Nothing
    /\ artifact = Nothing /\ sidecar = Nothing /\ postcodes = FALSE
    /\ dataset = Nothing /\ waterways = Nothing
    /\ opened = [t \in Threads |-> NoPair]
    /\ crashes = MaxCrashes

At(t, l)   == up /\ pc[t] = l
Goto(t, l) == pc' = [pc EXCEPT ![t] = l]

(* Where a goroutine goes when a step reports an error. *)
Fails(t) == Goto(t, IF t = Startup THEN "done" ELSE "failed")

-----------------------------------------------------------------------------
(* handleTinyTilesBuild accepts a build unless one is running.  Postal
   territories are made from the boundaries of an earlier postal build. *)
Post(b, withPostal) ==
    /\ At(b, "idle")
    /\ status # "building"
    /\ status' = "building"
    /\ postal' = [postal EXCEPT ![b] = withPostal]
    /\ Goto(b, IF withPostal /\ postcodes THEN "territory" ELSE "queued")
    /\ UNCHANGED <<up, mu, disk, served, opened, crashes>>

(* buildTinyTiles, from the mutex to the sidecar it puts beside the artifact. *)
BuildLocks(b) ==
    /\ At(b, "queued")
    /\ mu = Nothing
    /\ mu' = b
    /\ Goto(b, "scan")
    /\ UNCHANGED <<up, status, postal, disk, served, opened, crashes>>

BuildScans(b) ==
    /\ At(b, "scan")
    /\ Goto(b, "generate") \/ Fails(b)
    /\ UNCHANGED <<up, status, postal, mu, disk, served, opened, crashes>>

BuildGenerates(b) ==
    /\ At(b, "generate")
    /\ \/ /\ artifact' = b
          /\ postcodes' = (postcodes \/ postal[b])
          /\ Goto(b, "publish")
       \/ Fails(b) /\ UNCHANGED <<artifact, postcodes>>
    /\ UNCHANGED <<up, status, postal, mu, sidecar, served, opened, crashes>>

(* Mutant of BuildPublishes: an error of the rename is ignored. *)
BuildPublishesMaybe(b) ==
    /\ At(b, "publish")
    /\ sidecar' \in {artifact, sidecar}
    /\ Goto(b, "open")
    /\ UNCHANGED <<up, status, postal, mu, artifact, postcodes, served, opened, crashes>>

BuildPublishes(b) ==
    /\ At(b, "publish")
    /\ \/ sidecar' = artifact /\ Goto(b, "open")
       \/ Fails(b) /\ UNCHANGED sidecar
    /\ UNCHANGED <<up, status, postal, mu, artifact, postcodes, served, opened, crashes>>

(* installTinyTiles: open the artifact, load the sidecar that matches what is
   then on disk, and serve the pair. *)
InstallOpens(t) ==
    /\ t # Backfill
    /\ At(t, "open")
    /\ \/ opened' = [opened EXCEPT ![t].dataset = artifact] /\ Goto(t, "load")
       \/ Fails(t) /\ UNCHANGED opened
    /\ UNCHANGED <<up, status, postal, mu, disk, served, crashes>>

(* Mutant of Matching: the fingerprint is not compared. *)
MatchingAny == sidecar

Matching == IF sidecar = artifact THEN sidecar ELSE Nothing

InstallLoads(t) ==
    /\ At(t, "load")
    /\ opened' = [opened EXCEPT ![t].waterways = Matching]
    /\ Goto(t, "swap")
    /\ UNCHANGED <<up, status, postal, mu, disk, served, crashes>>

InstallSwaps(t) ==
    /\ t # Backfill
    /\ At(t, "swap")
    /\ \/ /\ dataset' = opened[t].dataset
          /\ waterways' = opened[t].waterways
          /\ Goto(t, IF t = Startup THEN "look"
                     ELSE IF postal[t] THEN "territory" ELSE "ready")
       \/ dataset # Nothing /\ Fails(t) /\ UNCHANGED served
    /\ UNCHANGED <<up, status, postal, mu, disk, opened, crashes>>

(* publishPostalTerritories, at the end of a build or as a build of its own. *)
BuildTerritory(b) ==
    /\ At(b, "territory")
    /\ Goto(b, "ready") \/ Fails(b)
    /\ UNCHANGED <<up, status, postal, mu, disk, served, opened, crashes>>

(* Mutant of BuildFinishes: a failure leaves the state alone. *)
BuildFinishesReady(b) ==
    /\ At(b, "ready") \/ At(b, "failed")
    /\ status' = IF pc[b] = "ready" THEN "ready" ELSE status
    /\ mu' = IF mu = b THEN Nothing ELSE mu
    /\ Goto(b, "done")
    /\ UNCHANGED <<up, postal, disk, served, opened, crashes>>

(* finishTinyTilesBuild, and the deferred unlock. *)
BuildFinishes(b) ==
    /\ At(b, "ready") \/ At(b, "failed")
    /\ status' = pc[b]
    /\ mu' = IF mu = b THEN Nothing ELSE mu
    /\ Goto(b, "done")
    /\ UNCHANGED <<up, postal, disk, served, opened, crashes>>

-----------------------------------------------------------------------------
(* loadTinyTilesIfPresent, while requests are already answered. *)
StartupBegins ==
    /\ At(Startup, "idle")
    /\ Goto(Startup, IF artifact = Nothing THEN "done" ELSE "open")
    /\ UNCHANGED <<up, status, postal, mu, disk, served, opened, crashes>>

StartupLooks ==
    /\ At(Startup, "look")
    /\ opened' = [opened EXCEPT ![Startup].waterways = waterways]
    /\ Goto(Startup, "announce")
    /\ UNCHANGED <<up, status, postal, mu, disk, served, crashes>>

StartupAnnounces ==
    /\ At(Startup, "announce")
    /\ status' = "ready"
    /\ pc' = [pc EXCEPT ![Startup] = "done",
                        ![Backfill] = IF opened[Startup].waterways = Nothing
                                      THEN "queued" ELSE @]
    /\ UNCHANGED <<up, postal, mu, disk, served, opened, crashes>>

-----------------------------------------------------------------------------
(* backfillTinyTilesWaterways.  It gives up when the sidecar is there after
   all, the PBF is missing or newer than the artifact, or a step fails. *)
BackfillLocks ==
    /\ At(Backfill, "queued")
    /\ mu = Nothing
    /\ \/ mu' = Backfill /\ Matching = Nothing /\ Goto(Backfill, "scan")
       \/ mu' = Nothing /\ Goto(Backfill, "done")
    /\ UNCHANGED <<up, status, postal, disk, served, opened, crashes>>

BackfillGivesUp ==
    /\ pc[Backfill] \in {"scan", "publish", "swap"}
    /\ up
    /\ mu' = Nothing
    /\ Goto(Backfill, "done")
    /\ UNCHANGED <<up, status, postal, disk, served, opened, crashes>>

BackfillScans ==
    /\ At(Backfill, "scan")
    /\ Goto(Backfill, "check")
    /\ UNCHANGED <<up, status, postal, mu, disk, served, opened, crashes>>

(* A build that has been accepted meanwhile is left to publish its own. *)
BackfillChecks ==
    /\ At(Backfill, "check")
    /\ IF status = "building"
       THEN mu' = Nothing /\ Goto(Backfill, "done")
       ELSE UNCHANGED mu /\ Goto(Backfill, "publish")
    /\ UNCHANGED <<up, status, postal, disk, served, opened, crashes>>

BackfillPublishes ==
    /\ At(Backfill, "publish")
    /\ sidecar' = artifact
    /\ opened' = [opened EXCEPT ![Backfill].waterways = artifact]
    /\ Goto(Backfill, "swap")
    /\ UNCHANGED <<up, status, postal, mu, artifact, postcodes, served, crashes>>

BackfillSwaps ==
    /\ At(Backfill, "swap")
    /\ waterways' = IF status # "building" /\ dataset # Nothing
                    THEN opened[Backfill].waterways ELSE waterways
    /\ mu' = Nothing
    /\ Goto(Backfill, "done")
    /\ UNCHANGED <<up, status, postal, disk, dataset, opened, crashes>>

-----------------------------------------------------------------------------
(* The process dies and is started again.  Staged files are not looked at. *)
Crash ==
    /\ up /\ crashes > 0
    /\ up' = FALSE
    /\ crashes' = crashes - 1
    /\ status' = "idle"
    /\ pc' = [t \in Threads |-> IF t \in Running THEN "done"
                                ELSE IF t \in Builds THEN pc[t] ELSE "idle"]
    /\ mu' = Nothing
    /\ dataset' = Nothing /\ waterways' = Nothing
    /\ opened' = [t \in Threads |-> NoPair]
    /\ UNCHANGED <<postal, disk>>

Restart ==
    /\ ~up
    /\ up' = TRUE
    /\ UNCHANGED <<status, pc, postal, mu, disk, served, opened, crashes>>

-----------------------------------------------------------------------------
Install(t) == InstallOpens(t) \/ InstallLoads(t) \/ InstallSwaps(t)

Build(b) ==
    \/ BuildLocks(b) \/ BuildScans(b) \/ BuildGenerates(b) \/ BuildPublishes(b)
    \/ Install(b) \/ BuildTerritory(b) \/ BuildFinishes(b)

Starts == StartupBegins \/ Install(Startup) \/ StartupLooks \/ StartupAnnounces

Backfills ==
    \/ BackfillLocks \/ BackfillGivesUp \/ BackfillScans \/ BackfillChecks
    \/ BackfillPublishes \/ BackfillSwaps

Next ==
    \/ \E b \in Builds : Build(b) \/ \E withPostal \in BOOLEAN : Post(b, withPostal)
    \/ Starts \/ Backfills \/ Crash \/ Restart

Spec == Init /\ [][Next]_vars

-----------------------------------------------------------------------------
(* While the map served is the one on disk, its waterways are its own: not
   through builds and backfills, nor through a crash between an artifact and
   its sidecar.  A build that fails after it has replaced the artifact leaves
   an older map served, which a backfill then pairs with the new waterways. *)
ServedPairMatches ==
    dataset = artifact /\ waterways # Nothing => waterways = dataset

(* The state is "building" as long as a build is at work, so that the next
   one is refused and the pages go on asking. *)
BusyWhileBuilding == Running # {} => status = "building"

(* The API description: a build that is asked for while another one runs is
   refused. *)
OneBuildAtATime == \A b, c \in Running : b = c

(* Builds exclude each other until the startup, which installs an artifact
   while requests are already answered, announces it over a running build.
   No end of a build, failure, backfill or crash lets a second one in. *)
OnlyStartupLetsInASecond ==
    [][BusyWhileBuilding /\ OneBuildAtATime =>
          \/ (BusyWhileBuilding /\ OneBuildAtATime)'
          \/ pc[Startup] = "announce" /\ pc'[Startup] = "done"]_vars

(* What a full build has made is on disk and is what is served. *)
Serves(b) == artifact = b /\ sidecar = b /\ dataset = b /\ waterways = b

(* A full build serves what it has built, with its own waterways, from its
   installation until it reports success: no backfill and no other build gets
   in between.  One thing does: the startup may install what it had opened
   before, which the build then reports as its own. *)
ReadyServesTheBuild ==
    [][\A b \in Builds : mu = b =>
          /\ pc[b] = "swap" /\ pc'[b] \in {"territory", "ready"} => Serves(b)'
          /\ pc[b] \in {"territory", "ready"} /\ Serves(b) /\ up' =>
                Serves(b)' \/ (pc[Startup] = "swap" /\ pc'[Startup] = "look")]_vars

(* A build ends, whatever fails: nobody keeps the state at "building", which
   refuses every later build. *)
BuildsEnd == status = "building" ~> status # "building"
=============================================================================
