------------------------ MODULE TinyTilesBuildProofs ------------------------
(***************************************************************************)
(* The offline map on the server for any number of builds and crashes.     *)
(* BuildInv is the inductive invariant: the mutex keeps builds and the     *)
(* backfill apart, the startup's installation is only kept from mixing two *)
(* artifacts by what it has opened.                                        *)
(***************************************************************************)
EXTENDS TinyTilesBuild, TLAPS

(* A build has the mutex until it has installed its artifact, the backfill
   until it has published its sidecar. *)
MutexInv ==
    /\ \A b \in Builds :
          pc[b] \in {"scan", "generate", "publish", "open", "load", "swap"} => mu = b
    /\ pc[Backfill] \in {"scan", "check", "publish", "swap"} => mu = Backfill
    /\ mu \in Builds => mu \in Running

(* Nobody knows an artifact before it has been generated. *)
FreshInv ==
    \A b \in Builds : pc[b] \in {"idle", "queued", "scan", "generate"} =>
        /\ b \notin {artifact, sidecar, dataset, waterways}
        /\ \A t \in Threads : b # opened[t].dataset /\ b # opened[t].waterways

(* What has been opened for installation belongs together, unless the
   artifact has been replaced since. *)
PairInv ==
    /\ \A t \in Threads \ {Backfill} :
          pc[t] = "swap" /\ opened[t].dataset = artifact =>
              opened[t].waterways \in {artifact, Nothing}
    /\ pc[Backfill] = "swap" => opened[Backfill].waterways = artifact
    /\ ServedPairMatches

(* How far a build has come with the artifact and the sidecar of its own. *)
StageInv ==
    \A b \in Builds :
        /\ pc[b] \in {"publish", "open", "load", "swap"} => artifact = b
        /\ pc[b] \in {"open", "load", "swap"} => sidecar = b
        /\ pc[b] \in {"load", "swap"} => opened[b].dataset = b
        /\ pc[b] = "swap" => opened[b].waterways = b

BuildInv ==
    TilesTypeOK /\ MutexInv /\ FreshInv /\ PairInv /\ StageInv

-----------------------------------------------------------------------------
(* One lemma per step.                                                     *)

(* A build is accepted; nobody knows its artifact yet. *)
LEMMA PostKeepsInv ==
    ASSUME BuildInv, NEW b \in Builds, NEW p \in BOOLEAN, Post(b, p)
    PROVE  BuildInv'
<1> USE TinyTilesAssumption DEF BuildInv, disk, served
<1>1. TilesTypeOK'
  BY DEF Post, Goto, TilesTypeOK, Threads
<1>2. MutexInv'
  BY DEF Post, Goto, MutexInv, Running
<1>3. FreshInv'
  BY DEF Post, At, Goto, FreshInv
<1>4. PairInv'
  BY DEF Post, Goto, PairInv, ServedPairMatches
<1>5. StageInv'
  BY DEF Post, Goto, StageInv
<1> QED BY <1>1, <1>2, <1>3, <1>4, <1>5

(* A build gets the mutex. *)
LEMMA BuildLocksKeepsInv ==
    ASSUME BuildInv, NEW b \in Builds, BuildLocks(b)
    PROVE  BuildInv'
<1> USE TinyTilesAssumption DEF BuildInv, disk, served
<1>1. TilesTypeOK'
  BY DEF BuildLocks, Goto, TilesTypeOK, Threads
<1>2. MutexInv'
  BY DEF BuildLocks, Goto, MutexInv, Running, TilesTypeOK, Threads
<1>3. FreshInv'
  BY DEF BuildLocks, At, Goto, FreshInv
<1>4. PairInv'
  BY DEF BuildLocks, Goto, PairInv, ServedPairMatches
<1>5. StageInv'
  BY DEF BuildLocks, Goto, StageInv
<1> QED BY <1>1, <1>2, <1>3, <1>4, <1>5

(* A build scans, or fails. *)
LEMMA BuildScansKeepsInv ==
    ASSUME BuildInv, NEW b \in Builds, BuildScans(b)
    PROVE  BuildInv'
<1> USE TinyTilesAssumption DEF BuildInv, disk, served
<1>1. TilesTypeOK'
  BY DEF BuildScans, Goto, Fails, TilesTypeOK, Threads
<1>2. MutexInv'
  BY DEF BuildScans, At, Goto, Fails, MutexInv, Running, TilesTypeOK, Threads
<1>3. FreshInv'
  BY DEF BuildScans, At, Goto, Fails, FreshInv, TilesTypeOK, Threads
<1>4. PairInv'
  BY DEF BuildScans, Goto, Fails, PairInv, ServedPairMatches, TilesTypeOK,
         Threads
<1>5. StageInv'
  BY DEF BuildScans, Goto, Fails, StageInv, TilesTypeOK, Threads
<1> QED BY <1>1, <1>2, <1>3, <1>4, <1>5

(* A build replaces the artifact, by one that nobody has opened. *)
LEMMA BuildGeneratesKeepsInv ==
    ASSUME BuildInv, NEW b \in Builds, BuildGenerates(b)
    PROVE  BuildInv'
<1> USE TinyTilesAssumption DEF BuildInv, disk, served
<1>1. TilesTypeOK'
  BY DEF BuildGenerates, Goto, Fails, TilesTypeOK, Threads, Versions
<1>2. MutexInv'
  BY DEF BuildGenerates, At, Goto, Fails, MutexInv, Running, TilesTypeOK,
         Threads
<1>3. FreshInv'
  BY DEF BuildGenerates, Goto, Fails, FreshInv, TilesTypeOK, Threads
<1>4. PairInv'
  BY DEF BuildGenerates, At, Goto, Fails, PairInv, ServedPairMatches, FreshInv,
         MutexInv, TilesTypeOK, Threads
<1>5. StageInv'
  BY DEF BuildGenerates, At, Goto, Fails, StageInv, MutexInv, TilesTypeOK,
         Threads
<1> QED BY <1>1, <1>2, <1>3, <1>4, <1>5

(* A build puts its sidecar beside its artifact. *)
LEMMA BuildPublishesKeepsInv ==
    ASSUME BuildInv, NEW b \in Builds, BuildPublishes(b)
    PROVE  BuildInv'
<1> USE TinyTilesAssumption DEF BuildInv, disk, served
<1>1. TilesTypeOK'
  BY DEF BuildPublishes, Goto, Fails, TilesTypeOK, Threads
<1>2. MutexInv'
  BY DEF BuildPublishes, At, Goto, Fails, MutexInv, Running, TilesTypeOK,
         Threads
<1>3. FreshInv'
  BY DEF BuildPublishes, Goto, Fails, FreshInv, TilesTypeOK, Threads
<1>4. PairInv'
  BY DEF BuildPublishes, Goto, Fails, PairInv, ServedPairMatches, TilesTypeOK,
         Threads
<1>5. StageInv'
  BY DEF BuildPublishes, At, Goto, Fails, StageInv, TilesTypeOK, Threads
<1> QED BY <1>1, <1>2, <1>3, <1>4, <1>5

(* An installation opens the artifact. *)
LEMMA InstallOpensKeepsInv ==
    ASSUME BuildInv, NEW t \in Builds \cup {Startup}, InstallOpens(t)
    PROVE  BuildInv'
<1> USE TinyTilesAssumption DEF BuildInv, disk, served
<1>1. TilesTypeOK'
  BY DEF InstallOpens, Goto, Fails, TilesTypeOK, Threads, Pair
<1>2. MutexInv'
  BY DEF InstallOpens, At, Goto, Fails, MutexInv, Running, TilesTypeOK, Threads
<1>3. FreshInv'
  BY DEF InstallOpens, Goto, Fails, FreshInv, TilesTypeOK, Threads, Pair
<1>4. PairInv'
  BY DEF InstallOpens, Goto, Fails, PairInv, ServedPairMatches, TilesTypeOK,
         Threads
<1>5. StageInv'
  BY DEF InstallOpens, At, Goto, Fails, StageInv, TilesTypeOK, Threads, Pair
<1> QED BY <1>1, <1>2, <1>3, <1>4, <1>5

(* An installation loads what matches the artifact then on disk. *)
LEMMA InstallLoadsKeepsInv ==
    ASSUME BuildInv, NEW t \in Builds \cup {Startup}, InstallLoads(t)
    PROVE  BuildInv'
<1> USE TinyTilesAssumption DEF BuildInv, disk, served
<1>1. TilesTypeOK'
  BY DEF InstallLoads, Matching, Goto, TilesTypeOK, Threads, Versions, Pair
<1>2. MutexInv'
  BY DEF InstallLoads, At, Goto, MutexInv, Running
<1>3. FreshInv'
  BY DEF InstallLoads, Matching, Goto, FreshInv
<1>4. PairInv'
  BY DEF InstallLoads, Matching, Goto, PairInv, ServedPairMatches, TilesTypeOK
<1>5. StageInv'
  BY DEF InstallLoads, Matching, At, Goto, StageInv, TilesTypeOK
<1> QED BY <1>1, <1>2, <1>3, <1>4, <1>5

(* What has been opened is served. *)
LEMMA InstallSwapsKeepsInv ==
    ASSUME BuildInv, NEW t \in Builds \cup {Startup}, InstallSwaps(t)
    PROVE  BuildInv'
<1> USE TinyTilesAssumption DEF BuildInv, disk, served
<1>1. TilesTypeOK'
  BY DEF InstallSwaps, Goto, Fails, TilesTypeOK, Threads, Pair
<1>2. MutexInv'
  BY DEF InstallSwaps, Goto, Fails, MutexInv, Running, TilesTypeOK, Threads
<1>3. FreshInv'
  BY DEF InstallSwaps, Goto, Fails, FreshInv, TilesTypeOK, Threads
<1>4. PairInv'
  BY DEF InstallSwaps, At, Goto, Fails, PairInv, ServedPairMatches, TilesTypeOK,
         Threads
<1>5. StageInv'
  BY DEF InstallSwaps, Goto, Fails, StageInv, TilesTypeOK, Threads
<1> QED BY <1>1, <1>2, <1>3, <1>4, <1>5

(* The postal territories are published. *)
LEMMA BuildTerritoryKeepsInv ==
    ASSUME BuildInv, NEW b \in Builds, BuildTerritory(b)
    PROVE  BuildInv'
<1> USE TinyTilesAssumption DEF BuildInv, disk, served
<1>1. TilesTypeOK'
  BY DEF BuildTerritory, Goto, Fails, TilesTypeOK, Threads
<1>2. MutexInv'
  BY DEF BuildTerritory, Goto, Fails, MutexInv, Running, TilesTypeOK, Threads
<1>3. FreshInv'
  BY DEF BuildTerritory, Goto, Fails, FreshInv, TilesTypeOK, Threads
<1>4. PairInv'
  BY DEF BuildTerritory, Goto, Fails, PairInv, ServedPairMatches, TilesTypeOK,
         Threads
<1>5. StageInv'
  BY DEF BuildTerritory, Goto, Fails, StageInv, TilesTypeOK, Threads
<1> QED BY <1>1, <1>2, <1>3, <1>4, <1>5

(* A build reports its end and gives the mutex back. *)
LEMMA BuildFinishesKeepsInv ==
    ASSUME BuildInv, NEW b \in Builds, BuildFinishes(b)
    PROVE  BuildInv'
<1> USE TinyTilesAssumption DEF BuildInv, disk, served
<1>1. TilesTypeOK'
  BY DEF BuildFinishes, At, Goto, TilesTypeOK, Threads
<1>2. MutexInv'
  BY DEF BuildFinishes, Goto, MutexInv, Running, TilesTypeOK, Threads
<1>3. FreshInv'
  BY DEF BuildFinishes, Goto, FreshInv
<1>4. PairInv'
  BY DEF BuildFinishes, Goto, PairInv, ServedPairMatches
<1>5. StageInv'
  BY DEF BuildFinishes, Goto, StageInv
<1> QED BY <1>1, <1>2, <1>3, <1>4, <1>5

(* The startup finds an artifact, or none. *)
LEMMA StartupBeginsKeepsInv ==
    ASSUME BuildInv, StartupBegins
    PROVE  BuildInv'
<1> USE TinyTilesAssumption DEF BuildInv, disk, served
<1>1. TilesTypeOK'
  BY DEF StartupBegins, Goto, TilesTypeOK, Threads
<1>2. MutexInv'
  BY DEF StartupBegins, Goto, MutexInv, Running
<1>3. FreshInv'
  BY DEF StartupBegins, Goto, FreshInv
<1>4. PairInv'
  BY DEF StartupBegins, Goto, PairInv, ServedPairMatches
<1>5. StageInv'
  BY DEF StartupBegins, Goto, StageInv
<1> QED BY <1>1, <1>2, <1>3, <1>4, <1>5

(* The startup looks for waterways. *)
LEMMA StartupLooksKeepsInv ==
    ASSUME BuildInv, StartupLooks
    PROVE  BuildInv'
<1> USE TinyTilesAssumption DEF BuildInv, disk, served
<1>1. TilesTypeOK'
  BY DEF StartupLooks, Goto, TilesTypeOK, Threads, Pair
<1>2. MutexInv'
  BY DEF StartupLooks, Goto, MutexInv, Running
<1>3. FreshInv'
  BY DEF StartupLooks, Goto, FreshInv
<1>4. PairInv'
  BY DEF StartupLooks, Goto, PairInv, ServedPairMatches, TilesTypeOK
<1>5. StageInv'
  BY DEF StartupLooks, Goto, StageInv
<1> QED BY <1>1, <1>2, <1>3, <1>4, <1>5

(* The startup reports ready and may start the backfill. *)
LEMMA StartupAnnouncesKeepsInv ==
    ASSUME BuildInv, StartupAnnounces
    PROVE  BuildInv'
<1> USE TinyTilesAssumption DEF BuildInv, disk, served
<1>1. TilesTypeOK'
  BY DEF StartupAnnounces, TilesTypeOK, Threads
<1>2. MutexInv'
  BY DEF StartupAnnounces, MutexInv, Running, TilesTypeOK, Threads
<1>3. FreshInv'
  BY DEF StartupAnnounces, FreshInv, TilesTypeOK, Threads
<1>4. PairInv'
  BY DEF StartupAnnounces, PairInv, ServedPairMatches, TilesTypeOK, Threads
<1>5. StageInv'
  BY DEF StartupAnnounces, StageInv, TilesTypeOK, Threads
<1> QED BY <1>1, <1>2, <1>3, <1>4, <1>5

(* The backfill gets the mutex, or has nothing to do. *)
LEMMA BackfillLocksKeepsInv ==
    ASSUME BuildInv, BackfillLocks
    PROVE  BuildInv'
<1> USE TinyTilesAssumption DEF BuildInv, disk, served
<1>1. TilesTypeOK'
  BY DEF BackfillLocks, Goto, TilesTypeOK, Threads
<1>2. MutexInv'
  BY DEF BackfillLocks, Goto, MutexInv, TilesTypeOK, Threads
<1>3. FreshInv'
  BY DEF BackfillLocks, Goto, FreshInv, TilesTypeOK, Threads
<1>4. PairInv'
  BY DEF BackfillLocks, Goto, PairInv, ServedPairMatches, TilesTypeOK
<1>5. StageInv'
  BY DEF BackfillLocks, Goto, StageInv, TilesTypeOK, Threads
<1> QED BY <1>1, <1>2, <1>3, <1>4, <1>5

(* The backfill gives up. *)
LEMMA BackfillGivesUpKeepsInv ==
    ASSUME BuildInv, BackfillGivesUp
    PROVE  BuildInv'
<1> USE TinyTilesAssumption DEF BuildInv, disk, served
<1>1. TilesTypeOK'
  BY DEF BackfillGivesUp, Goto, TilesTypeOK, Threads
<1>2. MutexInv'
  BY DEF BackfillGivesUp, Goto, MutexInv, TilesTypeOK, Threads
<1>3. FreshInv'
  BY DEF BackfillGivesUp, Goto, FreshInv
<1>4. PairInv'
  BY DEF BackfillGivesUp, Goto, PairInv, ServedPairMatches
<1>5. StageInv'
  BY DEF BackfillGivesUp, Goto, StageInv
<1> QED BY <1>1, <1>2, <1>3, <1>4, <1>5

(* The backfill has scanned. *)
LEMMA BackfillScansKeepsInv ==
    ASSUME BuildInv, BackfillScans
    PROVE  BuildInv'
<1> USE TinyTilesAssumption DEF BuildInv, disk, served
<1>1. TilesTypeOK'
  BY DEF BackfillScans, Goto, TilesTypeOK, Threads
<1>2. MutexInv'
  BY DEF BackfillScans, At, Goto, MutexInv
<1>3. FreshInv'
  BY DEF BackfillScans, Goto, FreshInv
<1>4. PairInv'
  BY DEF BackfillScans, Goto, PairInv, ServedPairMatches
<1>5. StageInv'
  BY DEF BackfillScans, Goto, StageInv
<1> QED BY <1>1, <1>2, <1>3, <1>4, <1>5

(* The backfill makes way for a build. *)
LEMMA BackfillChecksKeepsInv ==
    ASSUME BuildInv, BackfillChecks
    PROVE  BuildInv'
<1> USE TinyTilesAssumption DEF BuildInv, disk, served
<1>1. TilesTypeOK'
  BY DEF BackfillChecks, Goto, TilesTypeOK, Threads
<1>2. MutexInv'
  BY DEF BackfillChecks, At, Goto, MutexInv, TilesTypeOK, Threads
<1>3. FreshInv'
  BY DEF BackfillChecks, Goto, FreshInv, TilesTypeOK, Threads
<1>4. PairInv'
  BY DEF BackfillChecks, Goto, PairInv, ServedPairMatches, TilesTypeOK
<1>5. StageInv'
  BY DEF BackfillChecks, Goto, StageInv, TilesTypeOK, Threads
<1> QED BY <1>1, <1>2, <1>3, <1>4, <1>5

(* The backfill puts waterways beside the artifact on disk. *)
LEMMA BackfillPublishesKeepsInv ==
    ASSUME BuildInv, BackfillPublishes
    PROVE  BuildInv'
<1> USE TinyTilesAssumption DEF BuildInv, disk, served
<1>1. TilesTypeOK'
  BY DEF BackfillPublishes, Goto, TilesTypeOK, Threads, Pair
<1>2. MutexInv'
  BY DEF BackfillPublishes, At, Goto, MutexInv
<1>3. FreshInv'
  BY DEF BackfillPublishes, Goto, FreshInv
<1>4. PairInv'
  BY DEF BackfillPublishes, Goto, PairInv, ServedPairMatches, TilesTypeOK
<1>5. StageInv'
  BY DEF BackfillPublishes, Goto, StageInv
<1> QED BY <1>1, <1>2, <1>3, <1>4, <1>5

(* The backfill's waterways are served. *)
LEMMA BackfillSwapsKeepsInv ==
    ASSUME BuildInv, BackfillSwaps
    PROVE  BuildInv'
<1> USE TinyTilesAssumption DEF BuildInv, disk, served
<1>1. TilesTypeOK'
  BY DEF BackfillSwaps, Goto, TilesTypeOK, Threads, Pair
<1>2. MutexInv'
  BY DEF BackfillSwaps, At, Goto, MutexInv, TilesTypeOK, Threads
<1>3. FreshInv'
  BY DEF BackfillSwaps, Goto, FreshInv, Threads
<1>4. PairInv'
  BY DEF BackfillSwaps, At, Goto, PairInv, ServedPairMatches
<1>5. StageInv'
  BY DEF BackfillSwaps, Goto, StageInv
<1> QED BY <1>1, <1>2, <1>3, <1>4, <1>5

(* A crash leaves what is on disk. *)
LEMMA CrashKeepsInv ==
    ASSUME BuildInv, Crash
    PROVE  BuildInv'
<1> USE TinyTilesAssumption DEF BuildInv, disk, served
<1>1. TilesTypeOK'
  <2>1. /\ pc' \in [Threads -> {"idle", "queued", "scan", "generate", "check",
                           "publish", "open", "load", "swap", "look", "announce",
                           "territory", "ready", "failed", "done"}]
        /\ pc'[Startup] = "idle" /\ pc'[Backfill] = "idle"
    BY DEF Crash, TilesTypeOK, Threads, Running
  <2>2. opened' \in [Threads -> Pair]
    BY DEF Crash, NoPair, Pair, Versions
  <2>3. crashes' \in 0..MaxCrashes
    BY DEF Crash, TilesTypeOK
  <2> QED BY <2>1, <2>2, <2>3 DEF Crash, TilesTypeOK, Versions
<1>2. MutexInv'
  BY DEF Crash, MutexInv, Threads
<1>3. FreshInv'
  BY DEF Crash, NoPair, FreshInv, Threads
<1>4. PairInv'
  BY DEF Crash, NoPair, PairInv, ServedPairMatches, Threads
<1>5. StageInv'
  BY DEF Crash, StageInv, MutexInv, Threads
<1> QED BY <1>1, <1>2, <1>3, <1>4, <1>5

(* The process is started again. *)
LEMMA RestartKeepsInv ==
    ASSUME BuildInv, Restart
    PROVE  BuildInv'
<1> USE TinyTilesAssumption DEF BuildInv, disk, served
<1>1. TilesTypeOK'
  BY DEF Restart, TilesTypeOK
<1>2. MutexInv'
  BY DEF Restart, MutexInv, Running
<1>3. FreshInv'
  BY DEF Restart, FreshInv
<1>4. PairInv'
  BY DEF Restart, PairInv, ServedPairMatches
<1>5. StageInv'
  BY DEF Restart, StageInv
<1> QED BY <1>1, <1>2, <1>3, <1>4, <1>5

-----------------------------------------------------------------------------
(* Nothing has been built, nobody is at work: the invariant holds. *)
LEMMA InitInv == Init => BuildInv
<1> SUFFICES ASSUME Init
             PROVE  BuildInv
  OBVIOUS
<1> USE TinyTilesAssumption DEF Init, disk, served
<1>1. TilesTypeOK
  <2>1. /\ pc \in [Threads -> {"idle", "queued", "scan", "generate", "check",
                           "publish", "open", "load", "swap", "look", "announce",
                           "territory", "ready", "failed", "done"}]
        /\ pc[Startup] = "idle" /\ pc[Backfill] = "idle"
    BY DEF Threads
  <2>2. opened \in [Threads -> Pair]
    BY DEF Versions, Pair, NoPair
  <2>3. postal \in [Builds -> BOOLEAN]
    OBVIOUS
  <2>4. up \in BOOLEAN /\ postcodes \in BOOLEAN
    OBVIOUS
  <2>5. crashes \in 0..MaxCrashes
    OBVIOUS
  <2> QED BY <2>1, <2>2, <2>3, <2>4, <2>5 DEF TilesTypeOK, Versions
<1>2. MutexInv
  BY DEF MutexInv, Threads
<1>3. FreshInv
  BY DEF FreshInv, Threads, NoPair
<1>4. PairInv
  BY DEF PairInv, ServedPairMatches, Threads
<1>5. StageInv
  BY DEF StageInv, Threads
<1> QED BY <1>1, <1>2, <1>3, <1>4, <1>5 DEF BuildInv

(* A step that changes no variable keeps the invariant. *)
LEMMA StutterKeepsInv == BuildInv /\ UNCHANGED vars => BuildInv'
  BY DEF vars, disk, served, BuildInv, TilesTypeOK, MutexInv, Running, FreshInv,
         PairInv, ServedPairMatches, StageInv

(* Every step keeps the invariant. *)
LEMMA StepInv == BuildInv /\ [Next]_vars => BuildInv'
<1> SUFFICES ASSUME BuildInv, [Next]_vars
             PROVE  BuildInv'
  OBVIOUS
<1>1. CASE \E b \in Builds, withPostal \in BOOLEAN : Post(b, withPostal)
  BY <1>1, PostKeepsInv
<1>2. ASSUME NEW t \in Builds \cup {Startup}, Install(t)
      PROVE  BuildInv'
  BY <1>2, InstallOpensKeepsInv, InstallLoadsKeepsInv, InstallSwapsKeepsInv
     DEF Install
<1>3. ASSUME NEW b \in Builds, Build(b)
      PROVE  BuildInv'
  BY <1>2, <1>3, BuildLocksKeepsInv, BuildScansKeepsInv, BuildGeneratesKeepsInv,
     BuildPublishesKeepsInv, BuildTerritoryKeepsInv, BuildFinishesKeepsInv
     DEF Build
<1>4. CASE Starts
  BY <1>2, <1>4, StartupBeginsKeepsInv, StartupLooksKeepsInv,
     StartupAnnouncesKeepsInv DEF Starts
<1>5. CASE Backfills
  BY <1>5, BackfillLocksKeepsInv, BackfillGivesUpKeepsInv, BackfillScansKeepsInv,
     BackfillChecksKeepsInv, BackfillPublishesKeepsInv, BackfillSwapsKeepsInv
     DEF Backfills
<1>6. CASE Crash \/ Restart
  BY <1>6, CrashKeepsInv, RestartKeepsInv
<1>7. CASE UNCHANGED vars
  BY <1>7, StutterKeepsInv
<1> QED BY <1>1, <1>3, <1>4, <1>5, <1>6, <1>7 DEF Next

-----------------------------------------------------------------------------
(* The inductive invariant holds in every reachable state. *)
THEOREM BuildInvariant == Spec => []BuildInv
<1>1. Init => BuildInv
  BY InitInv
<1>2. BuildInv /\ [Next]_vars => BuildInv'
  BY StepInv
<1> QED BY <1>1, <1>2, PTL DEF Spec

(* The variables keep their types: a build, the startup and the backfill are
   each where their code can be. *)
THEOREM TilesTypeCorrect == Spec => []TilesTypeOK
<1>1. BuildInv => TilesTypeOK
  BY DEF BuildInv
<1> QED BY <1>1, BuildInvariant, PTL

(* The map that is served, when it is the one on disk, has waterways of its
   own or none: for any number of builds and crashes, also when builds are
   requested during the startup. *)
THEOREM ServedPairsMatch == Spec => []ServedPairMatches
<1>1. BuildInv => ServedPairMatches
  BY DEF BuildInv, PairInv
<1> QED BY <1>1, BuildInvariant, PTL

(* What a step can do to the state "building" and to the set of builds at
   work: one is accepted while the state is another, one ends, all end in a
   crash, or the startup announces what it has installed. *)
LEMMA StatusSteps ==
    ASSUME BuildInv, [Next]_vars
    PROVE  \/ /\ status # "building" /\ status' = "building"
              /\ \E b \in Builds : Running' = Running \cup {b}
           \/ \E b \in Running : Running' = Running \ {b}
           \/ Running' = {}
           \/ pc[Startup] = "announce" /\ pc'[Startup] = "done"
           \/ Running' \subseteq Running /\ status' = status
<1> USE TinyTilesAssumption DEF BuildInv, Running, TilesTypeOK, Threads, Goto, At
<1>1. CASE \E b \in Builds, withPostal \in BOOLEAN : Post(b, withPostal)
  BY <1>1 DEF Post
<1>2. ASSUME NEW t \in Builds \cup {Startup}, Install(t)
      PROVE  Running' \subseteq Running /\ status' = status
  BY <1>2 DEF Install, InstallOpens, InstallLoads, InstallSwaps, Fails
<1>3. ASSUME NEW b \in Builds, Build(b), ~BuildFinishes(b)
      PROVE  Running' \subseteq Running /\ status' = status
  BY <1>2, <1>3 DEF Build, BuildLocks, BuildScans, BuildGenerates, BuildPublishes,
     BuildTerritory, Fails
<1>4. ASSUME NEW b \in Builds, BuildFinishes(b)
      PROVE  b \in Running /\ Running' = Running \ {b}
  BY <1>4 DEF BuildFinishes
<1>5. CASE Starts
  BY <1>2, <1>5 DEF Starts, StartupBegins, StartupLooks, StartupAnnounces
<1>6. CASE Backfills
  BY <1>6 DEF Backfills, BackfillLocks, BackfillGivesUp, BackfillScans,
     BackfillChecks, BackfillPublishes, BackfillSwaps
<1>7. CASE Crash
  BY <1>7 DEF Crash
<1>8. CASE Restart \/ UNCHANGED vars
  BY <1>8 DEF Restart, vars
<1> QED BY <1>1, <1>3, <1>4, <1>5, <1>6, <1>7, <1>8 DEF Next

(* One build at a time, which the state shows: nothing but the startup's
   announcement ends that, for any number of builds and crashes. *)
THEOREM BuildsExcludeEachOther == Spec => OnlyStartupLetsInASecond
<1>1. BuildInv /\ [Next]_vars =>
        [BusyWhileBuilding /\ OneBuildAtATime =>
           \/ (BusyWhileBuilding /\ OneBuildAtATime)'
           \/ pc[Startup] = "announce" /\ pc'[Startup] = "done"]_vars
  <2> SUFFICES ASSUME BuildInv, [Next]_vars, BusyWhileBuilding, OneBuildAtATime
               PROVE  \/ (BusyWhileBuilding /\ OneBuildAtATime)'
                      \/ pc[Startup] = "announce" /\ pc'[Startup] = "done"
    OBVIOUS
  <2>1. (\A b, c \in Running' : b = c) => OneBuildAtATime'
    BY DEF OneBuildAtATime
  <2>2. (Running' # {} => status' = "building") => BusyWhileBuilding'
    BY DEF BusyWhileBuilding
  <2>3. /\ Running # {} => status = "building"
        /\ \A b, c \in Running : b = c
    BY DEF BusyWhileBuilding, OneBuildAtATime
  <2> HIDE DEF Running
  <2>4. CASE /\ status # "building" /\ status' = "building"
             /\ \E b \in Builds : Running' = Running \cup {b}
    BY <2>1, <2>2, <2>3, <2>4
  <2>5. CASE Running' = {} \/ \E b \in Running : Running' = Running \ {b}
    BY <2>1, <2>2, <2>3, <2>5
  <2>6. CASE Running' \subseteq Running /\ status' = status
    BY <2>1, <2>2, <2>3, <2>6
  <2> QED BY StatusSteps, <2>4, <2>5, <2>6
<1> QED BY <1>1, BuildInvariant, PTL DEF Spec, OnlyStartupLetsInASecond

(* A full build that has been installed serves what it has made until it
   reports so, unless the startup's installation of what it had opened comes
   in between: for any number of builds and crashes. *)
THEOREM ReadyBuildsAreServed == Spec => ReadyServesTheBuild
<1> DEFINE Keeps(b) ==
      mu = b =>
          /\ pc[b] = "swap" /\ pc'[b] \in {"territory", "ready"} => Serves(b)'
          /\ pc[b] \in {"territory", "ready"} /\ Serves(b) /\ up' =>
                Serves(b)' \/ (pc[Startup] = "swap" /\ pc'[Startup] = "look")
<1>1. ASSUME BuildInv, Next, NEW b \in Builds, mu = b
      PROVE  Keeps(b)
  <2> USE TinyTilesAssumption DEF BuildInv, TilesTypeOK, Threads, Goto, At, disk,
          served, Serves
  <2>1. CASE \E c \in Builds, withPostal \in BOOLEAN : Post(c, withPostal)
    BY <1>1, <2>1 DEF Post
  <2>2. ASSUME NEW t \in Builds \cup {Startup}, InstallSwaps(t)
        PROVE  Keeps(b)
    <3>1. CASE t = Startup
      BY <1>1, <2>2, <3>1 DEF InstallSwaps, Fails
    <3>2. CASE t \in Builds
      <4>1. t = b
        BY <1>1, <2>2, <3>2 DEF InstallSwaps, MutexInv
      <4> QED BY <1>1, <2>2, <4>1 DEF InstallSwaps, Fails, StageInv
    <3> QED BY <3>1, <3>2
  <2>3. ASSUME NEW t \in Builds \cup {Startup}, Install(t)
        PROVE  Keeps(b)
    BY <1>1, <2>2, <2>3 DEF Install, InstallOpens, InstallLoads, Fails
  <2>4. ASSUME NEW c \in Builds, BuildGenerates(c) \/ BuildPublishes(c)
        PROVE  Keeps(b)
    <3>1. c = b
      BY <1>1, <2>4 DEF BuildGenerates, BuildPublishes, MutexInv
    <3> QED BY <1>1, <2>4, <3>1 DEF BuildGenerates, BuildPublishes, Fails
  <2>5. ASSUME NEW c \in Builds, Build(c)
        PROVE  Keeps(b)
    BY <1>1, <2>3, <2>4, <2>5 DEF Build, BuildLocks, BuildScans, BuildTerritory,
       BuildFinishes, Fails
  <2>6. CASE Starts
    BY <1>1, <2>3, <2>6 DEF Starts, StartupBegins, StartupLooks, StartupAnnounces
  <2>7. CASE Backfills
    BY <1>1, <2>7 DEF Backfills, BackfillLocks, BackfillGivesUp, BackfillScans,
       BackfillChecks, BackfillPublishes, BackfillSwaps, MutexInv
  <2>8. CASE Crash \/ Restart
    BY <1>1, <2>8 DEF Crash, Restart, Running
  <2> QED BY <1>1, <2>1, <2>5, <2>6, <2>7, <2>8 DEF Next
<1>2. BuildInv /\ [Next]_vars => [\A b \in Builds : Keeps(b)]_vars
  BY <1>1
<1> QED BY <1>2, BuildInvariant, PTL DEF Spec, ReadyServesTheBuild
=============================================================================
