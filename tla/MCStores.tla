------------------------------ MODULE MCStores ------------------------------
(* Small instances of what is kept in files: the operations log and the tiles
   of the server, and an offline region.  They have nothing to do with each
   other, so a behaviour is about one. *)
EXTENDS OperationsStore, TileCache, RegionImport, TLC

CONSTANTS
    MaxRecords,  \* bound: the length of the log
    Parties      \* the calls that may meet at a region

VARIABLES
    store,  \* "log", "tiles" or "region"
    party   \* the calls that are there

(* The log: every interleaving of Creates, failed saves, crashes and
   restarts. *)
LogNext ==
    \/ \E in \in Input : \/ CreateKnown(in)
                         \/ Len(records) < MaxRecords /\ CreateAppend(in)
    \/ SaveFails
    \/ SaveRenames
    \/ PublishRecord
    \/ CreateReturns
    \/ StoreCrash
    \/ StoreLoad

(* Where a behaviour is not about tiles, or not about the region, these are
   in one of their initial states. *)
TilesRest == cfg = CHOOSE c \in [source : Sources, max : Capacities] : TRUE

RegionRests ==
    /\ dest = Absent /\ pbf = CHOOSE c \in Contents : TRUE
    /\ options = [i \in Importers |-> CHOOSE r \in Options : TRUE]

StoresInit ==
    /\ StoreInit /\ Init /\ RegionInit
    /\ store \in {"log", "tiles", "region"}
    /\ store # "tiles" => TilesRest
    /\ IF store = "region" THEN party \in Parties ELSE party = {} /\ RegionRests

StoresNext ==
    /\ \/ store = "log" /\ LogNext /\ UNCHANGED <<vars, regionVars>>
       \/ store = "tiles" /\ Next /\ UNCHANGED <<storeVars, regionVars>>
       \/ store = "region" /\ RegionNext /\ UNCHANGED <<storeVars, vars>>
    /\ \A a \in Callers \ party : UNCHANGED phase[a]
    /\ UNCHANGED <<store, party>>

StoresSpec ==
    StoresInit /\ [][StoresNext]_<<storeVars, vars, regionVars, store, party>>

Symmetry == Permutations(Ids) \cup Permutations(Docs) \cup Permutations(Requests)

(* The values of the variables of log, tiles and region. *)
StoresTypeOK == StoreTypeOK /\ TileTypeOK /\ RegionTypeOK
=============================================================================
