------------------------------ MODULE MCOffline ------------------------------
(* Small instances of the two ways to an offline map: the server that builds
   it, and the native bridge that opens one, under any program that links the
   C interface and under the Swift client.  A behaviour is about one of them. *)
EXTENDS TinyTilesBuild, OfflineEngine

VARIABLES
    client,   \* "server", or who uses the bridge: "any" program, or "swift"
    calls     \* the jobs it makes use of

offlineMapVars == <<vars, offlineVars, client, calls>>

(* An import and an engine, or an engine and its queries. *)
OfflineMapInit ==
    /\ Init /\ OfflineInit
    /\ \/ client = "server" /\ calls = {}
       \/ /\ client \in {"any", "swift"}
          /\ calls \in {Imports \cup Openers, Openers \cup Queries}

(* The builds are numbered in the order in which they are requested. *)
InOrder == \A b, c \in Builds : b < c /\ pc[c] # "idle" => pc[b] # "idle"

OfflineMapNext ==
    /\ \/ client = "server" /\ Next /\ UNCHANGED offlineVars
       \/ client = "any" /\ JobsNext /\ UNCHANGED <<swiftVars, vars>>
       \/ client = "swift" /\ OfflineNext /\ UNCHANGED vars
    /\ InOrder'
    /\ \A j \in Jobs \ calls : UNCHANGED <<job[j], outcome[j], cancelled[j]>>
    /\ UNCHANGED <<client, calls>>

OfflineMapSpec == OfflineMapInit /\ [][OfflineMapNext]_offlineMapVars

(* Goroutines of the server run on, and the mutex is handed to whoever waits
   for it. *)
Server(A) == client = "server" /\ A

BuildFairness ==
    /\ \A b \in Builds : SF_vars(Server(BuildLocks(b))) /\ WF_vars(Server(Build(b)))
    /\ WF_vars(Server(Starts \/ Restart)) /\ WF_vars(Server(Backfills))

FairOfflineMapSpec == OfflineMapSpec /\ OfflineFairness /\ BuildFairness

-----------------------------------------------------------------------------
(* The values of the variables of builds, bridge and client. *)
OfflineMapTypeOK == TilesTypeOK /\ OfflineTypeOK

(* The state says "building" as long as a build is at work, so that the next
   one is refused and the pages go on asking, unless the startup announces its
   artifact meanwhile; and it does so no longer. *)
StatusFollowsTheBuild == OnlyStartupLetsInASecond /\ BuildsEnd

(* An engine that has been handed over goes only when its owner closes it,
   in C as in Swift. *)
OwnersKeepTheirEngine ==
    [][(client = "any" => OnlyOwnerCloses) /\ OpenedStaysOpen]_offlineMapVars

(* Every call returns, a close gets past the queries it waits for, and the
   Swift client releases every job it has started. *)
CallsEnd == CallsReturn /\ ClosesReturn /\ (client = "swift" => JobsAreDrained)
=============================================================================
