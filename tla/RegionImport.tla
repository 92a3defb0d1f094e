---------------------------- MODULE RegionImport ----------------------------
(***************************************************************************)
(* An offline region on disk, mobile/engine.go: Import makes it in phases  *)
(* in destination.pending, where a later call resumes them, and publishes  *)
(* it by a rename; Open checks it and supplies its POI index, if need be.  *)
(*                                                                         *)
(* A file is the set of the contents of the PBF it has been made from:     *)
(* more than one when the PBF was replaced meanwhile, none when the file   *)
(* is missing.  Any step may report an error, a cancelled context          *)
(* included; processes may die at any time.                                *)
(***************************************************************************)
EXTENDS Naturals

CONSTANTS
    Importers,  \* calls of Import for one destination, in one process
    Openings,   \* calls of Open, each in a process of its own
    Lockers,    \* those of them all that can write and lock in the region
    Options,    \* the options that the signature tells apart
    Contents,   \* what the PBF can contain, older before newer
    Absent,     \* no signature, no manifest, no region, nobody
    Torn,       \* what is incomplete
    MaxCalls,   \* bound: how often Import is called
    MaxDeaths   \* bound: how often a process dies

Callers     == Importers \cup Openings
Signatures == [pbf : Contents, request : Options]

Summed == {"graph", "landmarks", "search", "places"}
Files  == Summed \cup {"poi", "tiles"}
File    == SUBSET (Contents \cup {Torn})

Manifests == [pbf : Contents, request : Options, sums : [Summed -> File]]
Regions   == [files : [Files -> File], manifest : Manifests]

ASSUME RegionAssumption ==
    /\ Importers \cap Openings = {} /\ Absent \notin Callers
    /\ Lockers \subseteq Callers
    /\ Contents \subseteq Nat
    /\ Torn \notin Contents /\ Absent # Torn
    /\ Absent \notin Signatures \cup Regions /\ Torn \notin Signatures
    /\ MaxCalls \in Nat /\ MaxDeaths \in Nat

VARIABLES
    pbf,       \* what the PBF contains now
    lock,      \* who has the destination in importLocks
    phase,     \* phase[a]: where a call is
    options,   \* options[i]: the options of an import
    hash,      \* hash[i]: sourceHash
    reads,     \* reads[i]: the contents read in the current phase
    source,    \* destination.pending/source, the signature
    ready,     \* the phases that have a .ready file there
    parts,     \* parts[n]: the other files there
    manifest,  \* manifest.json there
    dest,      \* the destination
    flock,     \* who has the POI lock of the destination
    workspace, \* its POI workspace, by the index staged there
    shared,    \* shared[a]: the index is built in that workspace
    todo,      \* calls of Import left
    deaths     \* deaths of processes left

request    == <<options, hash, reads>>
stage      == <<source, ready, parts, manifest>>
pois       == <<flock, workspace, shared>>
limits     == <<todo, deaths>>
regionVars == <<pbf, lock, phase, request, stage, dest, pois, limits>>

Missing == {}
Half    == {Torn}
Empty   == [n \in Files |-> Missing]

Importing == {"checking", "sign", "signing", "graph", "reading", "writing",
              "built", "landmarks", "bounding", "search", "indexing",
              "sealing", "indexed", "restoring", "map", "mapping",
              "validating", "declaring", "declared", "publishing"}
Opening   == {"verify", "locking", "cleaning", "looking", "making",
              "building", "moving", "rereading"}
Positions == Importing \cup Opening \cup {"idle", "open", "closed"}

(* The values of the variables. *)
RegionTypeOK ==
    /\ pbf \in Contents
    /\ lock \in Importers \cup {Absent}
    /\ phase \in [Callers -> Positions]
    /\ \A o \in Openings : phase[o] \notin Importing
    /\ options \in [Importers -> Options]
    /\ hash \in [Importers -> Contents]
    /\ reads \in [Importers -> SUBSET Contents]
    /\ source \in Signatures \cup {Absent, Torn}
    /\ ready \subseteq {"graph", "search"}
    /\ parts \in [Files -> File]
    /\ manifest \in Manifests \cup {Absent, Torn}
    /\ dest \in Regions \cup {Absent}
    /\ flock \in Lockers \cup {Absent}
    /\ workspace \in File
    /\ shared \in [Callers -> BOOLEAN]
    /\ todo \in 0..MaxCalls /\ deaths \in 0..MaxDeaths

(* A region of an earlier version has no POI index, or a spoilt one. *)
Earlier(c, r, index) ==
    [files    |-> [n \in Files |-> IF n = "poi" THEN index ELSE {c}],
     manifest |-> [pbf |-> c, request |-> r, sums |-> [n \in Summed |-> {c}]]]

RegionInit ==
    /\ pbf \in Contents
    /\ lock = Absent
    /\ phase = [a \in Callers |-> "idle"]
    /\ options \in {[i \in Importers |-> r] : r \in Options}
    /\ hash = [i \in Importers |-> pbf]
    /\ reads = [i \in Importers |-> {}]
    /\ source = Absent /\ ready = {} /\ parts = Empty /\ manifest = Absent
    /\ dest \in {Absent} \cup
           {Earlier(pbf, r, index) : r \in Options, index \in {Missing, Half}}
    /\ flock = Absent /\ workspace = Missing
    /\ shared = [a \in Callers |-> FALSE]
    /\ todo = MaxCalls /\ deaths = MaxDeaths

Enter(a, l)      == phase' = [phase EXCEPT ![a] = l]
Step(a, from, l) == phase[a] = from /\ Enter(a, l)
Returns(i)       == Enter(i, "idle") /\ lock' = Absent
ReadFirst(i)     == reads' = [reads EXCEPT ![i] = {pbf}]
ReadOn(i)        == reads' = [reads EXCEPT ![i] = @ \cup {pbf}]
Write(n, v)      == parts' = [parts EXCEPT ![n] = v]

-----------------------------------------------------------------------------
(* The file at the path of the PBF is replaced by a newer one. *)
Replace ==
    /\ pbf' \in {c \in Contents : c > pbf}
    /\ UNCHANGED <<lock, phase, request, stage, dest, pois, limits>>

(* Import, up to the hash of the PBF.  A call for a destination that is being
   imported is refused at once. *)
Import(i, r) ==
    /\ todo > 0
    /\ lock = Absent /\ lock' = i
    /\ options' = [options EXCEPT ![i] = r]
    /\ Step(i, "idle", "checking")
    /\ todo' = todo - 1
    /\ UNCHANGED <<pbf, hash, reads, stage, dest, pois, deaths>>

(* A region that exists is opened and compared, and never replaced. *)
Check(i) ==
    /\ Step(i, "checking", IF dest = Absent THEN "sign" ELSE "verify")
    /\ hash' = [hash EXCEPT ![i] = pbf]
    /\ UNCHANGED <<pbf, lock, options, reads, stage, dest, pois, limits>>

Signature(i) == [pbf |-> hash[i], request |-> options[i]]

(* Pending work of another source or other options is refused; otherwise the
   signature is written again. *)
Sign(i) ==
    /\ phase[i] = "sign"
    /\ \/ source \in {Absent, Signature(i)} /\ source' = Torn
          /\ Enter(i, "signing") /\ UNCHANGED lock
       \/ source \notin {Absent, Signature(i)} /\ Returns(i) /\ UNCHANGED source
    /\ UNCHANGED <<pbf, request, ready, parts, manifest, dest, pois, limits>>

Signed(i) ==
    /\ Step(i, "signing", "graph")
    /\ source' = Signature(i)
    /\ UNCHANGED <<pbf, lock, request, ready, parts, manifest>>
    /\ UNCHANGED <<dest, pois, limits>>

(* What the steps of the phases leave alone. *)
Elsewhere == <<pbf, lock, options, hash, source, manifest, dest, pois, limits>>

(* prepareGraphAndSearch: the graph, from two passes over the PBF. *)
Graph(i) ==
    /\ \/ Step(i, "graph", "landmarks") /\ "graph" \in ready
          /\ UNCHANGED <<reads, ready, parts>>
       \/ Step(i, "graph", "reading") /\ "graph" \notin ready
          /\ ReadFirst(i) /\ UNCHANGED <<ready, parts>>
       \/ Step(i, "reading", "writing") /\ ReadOn(i)
          /\ Write("graph", Half) /\ UNCHANGED ready
       \/ Step(i, "writing", "built")
          /\ Write("graph", reads[i]) /\ UNCHANGED <<reads, ready>>
       \/ Step(i, "built", "landmarks")
          /\ ready' = ready \cup {"graph"} /\ UNCHANGED <<reads, parts>>
    /\ UNCHANGED Elsewhere

(* Its landmarks, unless there are some that belong to it. *)
Landmarks(i) ==
    /\ \/ Step(i, "landmarks", "search")
          /\ parts["landmarks"] = parts["graph"] /\ UNCHANGED parts
       \/ Step(i, "landmarks", "bounding")
          /\ parts["landmarks"] # parts["graph"] /\ Write("landmarks", Half)
       \/ Step(i, "bounding", "search") /\ Write("landmarks", parts["graph"])
    /\ UNCHANGED <<reads, ready>> /\ UNCHANGED Elsewhere

(* buildSearchArtifacts, with the streets of the graph and two passes over
   the PBF: search, places, and at last the POI index with its footer. *)
Search(i) ==
    /\ \/ Step(i, "search", "indexing") /\ "search" \notin ready
          /\ ReadFirst(i) /\ Write("search", Half) /\ UNCHANGED ready
       \/ /\ Step(i, "indexing", "sealing") /\ ReadOn(i)
          /\ LET made == parts["graph"] \cup reads[i] \cup {pbf}
             IN  parts' = [parts EXCEPT !["search"] = made, !["places"] = made,
                                        !["poi"] = Half]
          /\ UNCHANGED ready
       \/ Step(i, "sealing", "indexed")
          /\ Write("poi", parts["search"]) /\ UNCHANGED <<reads, ready>>
       \/ Step(i, "indexed", "map")
          /\ ready' = ready \cup {"search"} /\ UNCHANGED <<reads, parts>>
    /\ UNCHANGED Elsewhere

(* restoreSearchArtifacts: what is derived from a search that is ready. *)
Restore(i) ==
    /\ \/ /\ phase[i] = "search" /\ "search" \in ready
          /\ LET fits == parts["poi"] = parts["search"]
             IN  /\ Enter(i, IF fits THEN "map" ELSE "restoring")
                 /\ parts' = [parts EXCEPT !["places"] = parts["search"],
                                           !["poi"] = IF fits THEN @ ELSE Half]
       \/ Step(i, "restoring", "map") /\ Write("poi", parts["search"])
    /\ UNCHANGED <<reads, ready>> /\ UNCHANGED Elsewhere

(* cleanMapImportScratch and tinytiles.BuildPBF.  The scratch of a build that
   died may have held the tiles of an earlier one. *)
Map(i) ==
    /\ \/ Step(i, "map", "mapping") /\ ReadFirst(i)
          /\ \E t \in {parts["tiles"], Missing} : Write("tiles", t)
       \/ Step(i, "mapping", "validating") /\ ReadOn(i)
          /\ Write("tiles", reads[i] \cup {pbf})
    /\ UNCHANGED ready /\ UNCHANGED Elsewhere

-----------------------------------------------------------------------------
(* Mutant of Validate: the PBF is not looked at again. *)
ValidateOnce(i) ==
    /\ Step(i, "validating", "declaring") /\ UNCHANGED lock
    /\ UNCHANGED <<pbf, request, stage, dest, pois, limits>>

(* The PBF must be what it was at the beginning. *)
Validate(i) ==
    /\ \/ pbf = hash[i] /\ Step(i, "validating", "declaring") /\ UNCHANGED lock
       \/ pbf # hash[i] /\ phase[i] = "validating" /\ Returns(i)
    /\ UNCHANGED <<pbf, request, stage, dest, pois, limits>>

(* The manifest, with the checksums of the files. *)
Declare(i) ==
    /\ \/ Step(i, "declaring", "declared") /\ manifest' = Torn
       \/ /\ Step(i, "declared", "publishing")
          /\ manifest' = [pbf |-> hash[i], request |-> options[i],
                          sums |-> [n \in Summed |-> parts[n]]]
    /\ UNCHANGED <<pbf, lock, request, source, ready, parts>>
    /\ UNCHANGED <<dest, pois, limits>>

(* The rename of the stage.  It fails if there is a region by now. *)
Publish(i) ==
    /\ phase[i] = "publishing" /\ dest = Absent
    /\ dest' = [files |-> parts, manifest |-> manifest]
    /\ source' = Absent /\ ready' = {} /\ parts' = Empty /\ manifest' = Absent
    /\ Returns(i)
    /\ UNCHANGED <<pbf, request, pois, limits>>

(* The files that a phase removes when it fails. *)
Removed(l) ==
    {n \in Files : \/ l = "writing" /\ n = "graph"
                   \/ l = "bounding" /\ n = "landmarks"
                   \/ l \in {"indexing", "sealing"} /\ n \in {"places", "poi"}}

(* An import fails, or finds its context cancelled. *)
ImportFails(i) ==
    /\ phase[i] \in Importing
    /\ parts' = [n \in Files |->
                    IF n \in Removed(phase[i]) THEN Missing ELSE parts[n]]
    /\ Returns(i)
    /\ UNCHANGED <<pbf, request, source, ready, manifest, dest, pois, limits>>

-----------------------------------------------------------------------------
(* Open fails or gives up. *)
GoAway(a) ==
    IF a \in Importers THEN Returns(a) ELSE Enter(a, "closed") /\ UNCHANGED lock

Unlock(a) == flock' = IF flock = a THEN Absent ELSE flock

(* What steps of Open leave alone that do not publish an index. *)
Outside == <<pbf, request, stage, dest, limits>>

Open(o) ==
    /\ dest # Absent /\ Step(o, "idle", "verify")
    /\ UNCHANGED <<lock, pois>> /\ UNCHANGED Outside

(* The checksums; tiles are only there or not. *)
Whole(d) ==
    /\ \A n \in Summed : d.files[n] = d.manifest.sums[n]
    /\ d.files["tiles"] \notin {Missing, Half}

Verify(a) ==
    /\ phase[a] = "verify"
    /\ IF Whole(dest) THEN Enter(a, "locking") /\ UNCHANGED lock ELSE GoAway(a)
    /\ UNCHANGED pois /\ UNCHANGED Outside

(* openPOIIndex gets the lock of the region, if the region can be locked. *)
Acquire(a) ==
    /\ Step(a, "locking", IF a \in Lockers THEN "cleaning" ELSE "looking")
    /\ a \in Lockers => flock = Absent
    /\ flock' = IF a \in Lockers THEN a ELSE flock
    /\ shared' = [shared EXCEPT ![a] = FALSE]
    /\ UNCHANGED <<lock, workspace>> /\ UNCHANGED Outside

(* The workspace of an opening that has died is removed, or cannot be. *)
Clean(a) ==
    /\ Step(a, "cleaning", "looking")
    /\ \/ workspace' = Missing /\ shared' = [shared EXCEPT ![a] = TRUE]
       \/ UNCHANGED <<workspace, shared>>
    /\ UNCHANGED <<lock, flock>> /\ UNCHANGED Outside

Fits(d) == d.files["poi"] = d.files["search"]

Look(a) ==
    /\ Step(a, "looking", IF Fits(dest) THEN "open" ELSE "making")
    /\ IF Fits(dest) THEN Unlock(a) ELSE UNCHANGED flock
    /\ UNCHANGED <<lock, workspace, shared>> /\ UNCHANGED Outside

(* A workspace of its own is made where the shared one cannot be. *)
Make(a) ==
    /\ Step(a, "making", "building")
    /\ \/ /\ shared[a] /\ UNCHANGED shared
          /\ workspace = Missing /\ workspace' = Half
       \/ /\ ~shared[a] \/ workspace # Missing
          /\ shared' = [shared EXCEPT ![a] = FALSE] /\ UNCHANGED workspace
    /\ UNCHANGED <<lock, flock>> /\ UNCHANGED Outside

Rebuild(a) ==
    /\ \/ shared[a] /\ Step(a, "building", "moving")
          /\ workspace' = dest.files["search"] /\ UNCHANGED flock
       \/ ~shared[a] /\ Step(a, "building", "open")
          /\ Unlock(a) /\ UNCHANGED workspace
    /\ UNCHANGED <<lock, shared>> /\ UNCHANGED Outside

(* The index is put in its place, or used where it is. *)
Move(a) ==
    /\ workspace' = Missing
    /\ \/ /\ Step(a, "moving", "rereading")
          /\ dest' = [dest EXCEPT !.files["poi"] = workspace] /\ UNCHANGED flock
       \/ Step(a, "moving", "open") /\ Unlock(a) /\ UNCHANGED dest
    /\ UNCHANGED <<pbf, lock, request, stage, shared, limits>>

Reread(a) ==
    /\ phase[a] = "rereading"
    /\ IF Fits(dest) THEN Enter(a, "open") /\ UNCHANGED lock ELSE GoAway(a)
    /\ Unlock(a)
    /\ UNCHANGED <<workspace, shared>> /\ UNCHANGED Outside

GiveUp(a) ==
    /\ phase[a] \in Opening
    /\ GoAway(a) /\ Unlock(a)
    /\ workspace' = IF shared[a] /\ phase[a] \in {"building", "moving"}
                    THEN Missing ELSE workspace
    /\ UNCHANGED shared /\ UNCHANGED Outside

(* An engine is closed; an import has only compared its manifest. *)
Shut(a) ==
    /\ phase[a] = "open" /\ GoAway(a)
    /\ UNCHANGED pois /\ UNCHANGED Outside

-----------------------------------------------------------------------------
(* A process dies: the one that imports, or one that opens.  What is on disk
   stays, the locks go. *)
Dies(dying, l) ==
    /\ deaths > 0 /\ deaths' = deaths - 1
    /\ phase' = [a \in Callers |-> IF a \in dying THEN l ELSE phase[a]]
    /\ lock' = IF lock \in dying THEN Absent ELSE lock
    /\ flock' = IF flock \in dying THEN Absent ELSE flock
    /\ UNCHANGED <<pbf, request, stage, dest, workspace, shared, todo>>

Death ==
    \/ lock # Absent /\ Dies(Importers, "idle")
    \/ \E o \in Openings : phase[o] \in Opening /\ Dies({o}, "closed")

ImportStep(i) ==
    \/ Check(i) \/ Sign(i) \/ Signed(i) \/ Graph(i) \/ Landmarks(i) \/ Search(i)
    \/ Restore(i) \/ Map(i) \/ Validate(i) \/ Declare(i) \/ Publish(i)

OpenStep(a) ==
    \/ Verify(a) \/ Acquire(a) \/ Clean(a) \/ Look(a) \/ Make(a) \/ Rebuild(a)
    \/ Move(a) \/ Reread(a)

RegionNext ==
    \/ \E i \in Importers :
          ImportStep(i) \/ ImportFails(i) \/ \E r \in Options : Import(i, r)
    \/ \E o \in Openings : Open(o)
    \/ \E a \in Callers : OpenStep(a) \/ GiveUp(a) \/ Shut(a)
    \/ Replace \/ Death

RegionSpec == RegionInit /\ [][RegionNext]_regionVars

-----------------------------------------------------------------------------
(* The source and options that a region is made of, as its manifest says. *)
DeclaredSource(d) ==
    \A n \in Files \ {"poi"} : d.files[n] = {d.manifest.pbf}

(* What a region is to those who open it, and its POI index if that is not
   whole. *)
Published ==
    IF dest = Absent THEN Absent
    ELSE IF Whole(dest) /\ DeclaredSource(dest)
         THEN [pbf |-> dest.manifest.pbf, request |-> dest.manifest.request]
         ELSE Torn

Spoilt == IF dest = Absent \/ Fits(dest) THEN {} ELSE {dest.files["poi"]}

Promise == INSTANCE RegionPromise
    WITH region <- Published, spoilt <- Spoilt, Made <- Signatures

(* A region appears at once, whole, from one source with one choice of
   options, and is never changed, whatever is resumed, cancelled or replaced
   meanwhile; only its POI index may be replaced, by a whole one of its own
   search, also when several open the region or have died while opening it. *)
RegionAppearsWhole == Promise!PromiseSpec
=============================================================================
