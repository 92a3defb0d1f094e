--------------------------- MODULE RegionImportProofs ---------------------------
(***************************************************************************)
(* An offline region appears at once and whole: for any number of imports, *)
(* openings, deaths and contents of the PBF.  RegionInv is the inductive   *)
(* invariant; with it every step of RegionImport is one of RegionPromise,  *)
(* or changes nothing of what that speaks of.                              *)
(***************************************************************************)
EXTENDS MCStores, OperationsStoreProofs, TileCacheProofs, TLAPS

(* A file that can be used: made from something, and all of it. *)
Complete(v) == v \in SUBSET Contents /\ v # {}

(* Everything in the workspace was in the PBF between two moments. *)
Since(c) == \A n \in Files : \A d \in parts[n] \ {Torn} : c <= d /\ d <= pbf

Signing  == {"checking", "sign", "signing"}
Tiled    == {"validating", "declaring", "declared", "publishing"}
Found    == {"indexed", "map", "mapping"} \cup Tiled
Searched == {"sealing", "restoring"} \cup Found
Bounded  == {"search", "indexing"} \cup Searched
Routed   == {"built", "landmarks", "bounding"} \cup Bounded

(* The openings that have taken the POI lock, if they can. *)
Holding == {"cleaning", "looking", "making", "building", "moving", "rereading"}

(* The destination is locked by an import that has not returned. *)
LockInv == \A i \in Importers : phase[i] # "idle" <=> lock = i

(* The POI lock is that of an opening at work. *)
FlockInv ==
    /\ flock # Absent => phase[flock] \in Holding
    /\ \A a \in Callers : phase[a] \in Holding =>
          IF a \in Lockers THEN flock = a ELSE ~shared[a]

(* An index that waits to be moved belongs to the region. *)
IndexInv ==
    /\ \A a \in Callers : phase[a] \in Opening => dest # Absent
    /\ \A a \in Callers : phase[a] = "cleaning" => a \in Lockers
    /\ \A a \in Callers :
          phase[a] = "moving" => shared[a] /\ workspace = dest.files["search"]

(* A region is whole and of one source. *)
DestInv == dest # Absent => Whole(dest) /\ DeclaredSource(dest)

(* What is pending is not older than its signature. *)
SourceInv ==
    /\ source = Absent => parts = Empty
    /\ source \in Signatures => Since(source.pbf)
    /\ \A i \in Importers :
          /\ hash[i] <= pbf
          /\ phase[i] = "signing" => Since(hash[i])
          /\ phase[i] \in Importing \ Signing => source = Signature(i)

(* Nor is what has been read in a phase. *)
ReadInv ==
    \A i \in Importers : phase[i] \in {"reading", "writing", "indexing", "mapping"} =>
        /\ reads[i] # {}
        /\ \A d \in reads[i] : hash[i] <= d /\ d <= pbf

(* How far an import has come with the files, and what is ready. *)
PhaseInv ==
    /\ "graph" \in ready => Complete(parts["graph"])
    /\ "search" \in ready => Complete(parts["search"])
    /\ \A i \in Importers :
          /\ phase[i] \in {"reading", "writing"} => "graph" \notin ready
          /\ phase[i] \in {"indexing", "sealing"} => "search" \notin ready
          /\ phase[i] \in Routed => Complete(parts["graph"])
          /\ phase[i] \in Bounded => Complete(parts["landmarks"])
          /\ phase[i] \in Searched =>
                Complete(parts["search"]) /\ parts["places"] = parts["search"]
          /\ phase[i] \in Found => parts["poi"] = parts["search"]
          /\ phase[i] \in Tiled => Complete(parts["tiles"])

(* Once the PBF has been compared, all files are of its first contents. *)
ValidInv ==
    \A i \in Importers :
        /\ phase[i] \in {"declaring", "declared", "publishing"} =>
              \A n \in Files : parts[n] = {hash[i]}
        /\ phase[i] = "publishing" =>
              manifest = [pbf |-> hash[i], request |-> options[i],
                          sums |-> [n \in Summed |-> parts[n]]]

RegionInv ==
    /\ RegionTypeOK /\ LockInv /\ FlockInv /\ IndexInv /\ DestInv
    /\ SourceInv /\ ReadInv /\ PhaseInv /\ ValidInv

-----------------------------------------------------------------------------
(* What a step leaves alone.                                               *)

(* Who opens a region leaves imports and their files alone. *)
LEMMA OpeningsKeepImports ==
    ASSUME RegionInv, UNCHANGED <<pbf, options, hash, reads>>,
           UNCHANGED <<source, ready, parts, manifest>>,
           \A i \in Importers : phase'[i] \in Importing => phase'[i] = phase[i]
    PROVE  SourceInv' /\ ReadInv' /\ PhaseInv' /\ ValidInv'
<1>1. SourceInv'
  BY DEF RegionInv, SourceInv, Since, Importing, Signing, Signature
<1>2. ReadInv'
  BY DEF RegionInv, ReadInv, Importing
<1>3. PhaseInv'
  BY DEF RegionInv, PhaseInv, Importing, Tiled, Found, Searched, Bounded,
         Routed
<1>4. ValidInv'
  BY DEF RegionInv, ValidInv, Importing
<1> QED BY <1>1, <1>2, <1>3, <1>4


(* The files of an import in its phases are of what the PBF has contained
   since it was hashed. *)
LEMMA WorkKeepsSourceInv ==
    ASSUME RegionInv, NEW i \in Importers, phase[i] \in Importing \ Signing,
           UNCHANGED <<pbf, options, hash, source>>,
           \A j \in Importers : j # i => phase'[j] = phase[j],
           phase'[i] # "signing", parts' \in [Files -> File],
           \A n \in Files : \A d \in parts'[n] :
               \/ d = Torn \/ (hash[i] <= d /\ d <= pbf)
               \/ \E m \in Files : d \in parts[m]
    PROVE  SourceInv'
<1> USE RegionAssumption DEF RegionInv
<1>1. source = Signature(i) /\ source \in Signatures /\ source.pbf = hash[i]
  BY DEF SourceInv, Signature, Signatures, RegionTypeOK
<1>2. Since(hash[i])
  BY <1>1 DEF SourceInv
<1>3. \A n \in Files : \A d \in parts'[n] \ {Torn} : hash[i] <= d /\ d <= pbf
  BY <1>2 DEF Since
<1>4. \A j \in Importers : j # i => phase[j] \notin Importing
  BY DEF LockInv, Importing
<1>5. source' = source /\ pbf' = pbf /\ hash'[i] = hash[i]
  OBVIOUS
<1>6. ASSUME NEW j \in Importers
      PROVE  hash'[j] <= pbf' /\ phase'[j] # "signing"
  BY <1>4 DEF SourceInv, Importing
<1>7. ASSUME NEW j \in Importers, phase'[j] \in Importing \ Signing
      PROVE  source' = Signature(j)'
  BY <1>1, <1>4, <1>7 DEF Signature
<1>8. source' # Absent /\ source'.pbf = hash[i]
  BY <1>1, <1>5
<1> QED BY <1>3, <1>5, <1>6, <1>7, <1>8 DEF SourceInv, Since

-----------------------------------------------------------------------------
(* Imports.                                                                *)

(* An import begins. *)
LEMMA ImportKeepsInv ==
    ASSUME RegionInv, NEW i \in Importers, NEW r \in Options, Import(i, r)
    PROVE  RegionInv'
<1> USE RegionAssumption DEF RegionInv
<1>1. RegionTypeOK'
  BY DEF Import, Step, Enter, RegionTypeOK, Positions, Importing, Callers,
         stage, pois
<1>2. LockInv'
  BY DEF Import, Step, Enter, LockInv, RegionTypeOK, Callers
<1>3. FlockInv'
  BY DEF Import, Step, Enter, FlockInv, Holding, RegionTypeOK, Callers, pois
<1>4. IndexInv'
  BY DEF Import, Step, Enter, IndexInv, RegionTypeOK, Opening, Callers, pois
<1>5. DestInv'
  BY DEF Import, Step, Enter, DestInv, RegionTypeOK, Callers
<1>6. SourceInv'
  BY DEF Import, Step, Enter, SourceInv, Since, LockInv, Signing, Signature,
         RegionTypeOK, Callers, stage
<1>7. ReadInv'
  BY DEF Import, Step, Enter, ReadInv, LockInv, RegionTypeOK, Callers
<1>8. PhaseInv'
  BY DEF Import, Step, Enter, PhaseInv, Tiled, Found, Searched, Bounded,
         Routed, LockInv, RegionTypeOK, Callers, stage
<1>9. ValidInv'
  BY DEF Import, Step, Enter, ValidInv, LockInv, RegionTypeOK, Callers
<1> QED BY <1>1, <1>2, <1>3, <1>4, <1>5, <1>6, <1>7, <1>8, <1>9

(* An import hashes its source. *)
LEMMA CheckKeepsInv ==
    ASSUME RegionInv, NEW i \in Importers, Check(i)
    PROVE  RegionInv'
<1> USE RegionAssumption DEF RegionInv
<1>1. RegionTypeOK'
  BY DEF Check, Step, Enter, RegionTypeOK, Positions, Importing, Opening,
         Callers, stage, pois, limits
<1>2. LockInv'
  BY DEF Check, Step, Enter, LockInv, RegionTypeOK, Callers
<1>3. FlockInv'
  BY DEF Check, Step, Enter, FlockInv, Holding, RegionTypeOK, Callers, pois
<1>4. IndexInv'
  BY DEF Check, Step, Enter, IndexInv, RegionTypeOK, Opening, Callers, pois
<1>5. DestInv'
  BY DEF Check, Step, Enter, DestInv, RegionTypeOK, Callers
<1>6. SourceInv'
  BY DEF Check, Step, Enter, SourceInv, Since, LockInv, Signing, RegionTypeOK,
         Importing, Callers, stage
<1>7. ReadInv'
  BY DEF Check, Step, Enter, ReadInv, LockInv, RegionTypeOK, Callers
<1>8. PhaseInv'
  BY DEF Check, Step, Enter, PhaseInv, Tiled, Found, Searched, Bounded,
         Routed, LockInv, RegionTypeOK, Callers, stage
<1>9. ValidInv'
  BY DEF Check, Step, Enter, ValidInv, LockInv, RegionTypeOK, Callers
<1> QED BY <1>1, <1>2, <1>3, <1>4, <1>5, <1>6, <1>7, <1>8, <1>9

(* It takes pending work for its own, or returns. *)
LEMMA SignKeepsInv ==
    ASSUME RegionInv, NEW i \in Importers, Sign(i)
    PROVE  RegionInv'
<1> USE RegionAssumption DEF RegionInv
<1>1. RegionTypeOK'
  BY DEF Sign, Returns, Enter, RegionTypeOK, Positions, Importing, Callers,
         request, pois, limits
<1>2. LockInv'
  BY DEF Sign, Returns, Enter, LockInv, RegionTypeOK, Callers
<1>3. FlockInv'
  BY DEF Sign, Returns, Enter, FlockInv, Holding, RegionTypeOK, Callers, pois
<1>4. IndexInv'
  BY DEF Sign, Returns, Enter, IndexInv, RegionTypeOK, Opening, Callers, pois
<1>5. DestInv'
  BY DEF Sign, Enter, DestInv, RegionTypeOK, Callers
<1>6. SourceInv'
  BY DEF Sign, Signature, Returns, Enter, SourceInv, Since, LockInv, Signing,
         Signatures, RegionTypeOK, Importing, Callers, request, Missing, Empty
<1>7. ReadInv'
  BY DEF Sign, Returns, Enter, ReadInv, LockInv, RegionTypeOK, Callers
<1>8. PhaseInv'
  BY DEF Sign, Returns, Enter, PhaseInv, Tiled, Found, Searched, Bounded,
         Routed, LockInv, RegionTypeOK, Callers
<1>9. ValidInv'
  BY DEF Sign, Returns, Enter, ValidInv, LockInv, RegionTypeOK, Callers
<1> QED BY <1>1, <1>2, <1>3, <1>4, <1>5, <1>6, <1>7, <1>8, <1>9

(* The signature is whole again. *)
LEMMA SignedKeepsInv ==
    ASSUME RegionInv, NEW i \in Importers, Signed(i)
    PROVE  RegionInv'
<1> USE RegionAssumption DEF RegionInv
<1>1. RegionTypeOK'
  BY DEF Signed, Signature, Step, Enter, RegionTypeOK, Positions, Importing,
         Callers, request, pois, limits, Signatures
<1>2. LockInv'
  BY DEF Signed, Step, Enter, LockInv, RegionTypeOK, Callers
<1>3. FlockInv'
  BY DEF Signed, Step, Enter, FlockInv, Holding, RegionTypeOK, Callers, pois
<1>4. IndexInv'
  BY DEF Signed, Step, Enter, IndexInv, RegionTypeOK, Opening, Callers, pois
<1>5. DestInv'
  BY DEF Signed, Step, Enter, DestInv, RegionTypeOK, Callers
<1>6. SourceInv'
  BY DEF Signed, Signature, Step, Enter, SourceInv, Since, LockInv, Signatures,
         RegionTypeOK, Importing, Callers, request
<1>7. ReadInv'
  BY DEF Signed, Step, Enter, ReadInv, LockInv, RegionTypeOK, Callers
<1>8. PhaseInv'
  BY DEF Signed, Step, Enter, PhaseInv, Tiled, Found, Searched, Bounded,
         Routed, LockInv, RegionTypeOK, Callers
<1>9. ValidInv'
  BY DEF Signed, Step, Enter, ValidInv, LockInv, RegionTypeOK, Callers
<1> QED BY <1>1, <1>2, <1>3, <1>4, <1>5, <1>6, <1>7, <1>8, <1>9

(* The graph is made, or is there. *)
LEMMA GraphKeepsInv ==
    ASSUME RegionInv, NEW i \in Importers, Graph(i)
    PROVE  RegionInv'
<1> USE RegionAssumption DEF RegionInv
<1>1. RegionTypeOK'
  <2>1. /\ reads' \in [Importers -> SUBSET Contents]
        /\ reads[i] \cup {pbf} \in File
    BY DEF Graph, ReadFirst, ReadOn, Elsewhere, request, RegionTypeOK, File
  <2>2. parts' \in [Files -> File]
    BY DEF Graph, Write, RegionTypeOK, File, Half, Files, Summed
  <2>3. /\ phase' \in [Callers -> Positions]
        /\ ready' \subseteq {"graph", "search"}
    BY DEF Graph, Step, Enter, RegionTypeOK, Positions, Importing, Callers
  <2> QED BY <2>1, <2>2, <2>3 DEF Graph, Elsewhere, pois, limits, Step, Enter,
             RegionTypeOK, Importing, Callers
<1>2. LockInv'
  BY DEF Graph, Elsewhere, Step, Enter, LockInv, RegionTypeOK, Callers
<1>3. FlockInv'
  BY DEF Graph, Elsewhere, Step, Enter, FlockInv, Holding, RegionTypeOK,
         Callers, pois
<1>4. IndexInv'
  BY DEF Graph, Elsewhere, Step, Enter, IndexInv, RegionTypeOK, Opening,
         Callers, pois
<1>5. DestInv'
  BY DEF Graph, Elsewhere, Step, Enter, DestInv, RegionTypeOK, Callers
<1>6. SourceInv'
  <2>1. phase[i] \in Importing \ Signing /\ phase'[i] # "signing"
    BY DEF Graph, Step, Enter, Importing, Signing, RegionTypeOK, Callers
  <2>2. \A j \in Importers : j # i => phase'[j] = phase[j]
    BY DEF Graph, Step, Enter, RegionTypeOK, Callers
  <2>3. parts' \in [Files -> File]
    BY <1>1 DEF RegionTypeOK
  <2>4. \A n \in Files : \A d \in parts'[n] :
           \/ d = Torn \/ (hash[i] <= d /\ d <= pbf)
           \/ \E m \in Files : d \in parts[m]
    <3>1. \A n \in Files \ {"graph"} : parts'[n] = parts[n]
      BY DEF Graph, Write, RegionTypeOK
    <3>2. parts'["graph"] \in {parts["graph"], {Torn}, reads[i]}
      BY DEF Graph, Write, Half, RegionTypeOK, Files, Summed
    <3>3. \/ phase[i] = "writing" \/ parts'["graph"] # reads[i]
          \/ parts'["graph"] \in {parts["graph"], {Torn}}
      BY DEF Graph, Write, Step, Half, RegionTypeOK, Files, Summed
    <3>4. "graph" \in Files
      BY DEF Files, Summed
    <3>5. \A d \in parts'["graph"] :
             d = Torn \/ (hash[i] <= d /\ d <= pbf) \/ d \in parts["graph"]
      BY <3>2, <3>3 DEF ReadInv
    <3> QED BY <3>1, <3>4, <3>5
  <2> QED BY <2>1, <2>2, <2>3, <2>4, WorkKeepsSourceInv
         DEF Graph, Elsewhere, request
<1>7. ReadInv'
  <2>1. \A j \in Importers : j # i => phase'[j] = "idle"
    BY DEF Graph, Step, Enter, LockInv, RegionTypeOK, Callers, Importing
  <2>2. hash' = hash /\ pbf' = pbf /\ hash[i] <= pbf
    BY DEF Graph, Elsewhere, SourceInv
  <2>3. phase'[i] \in {"reading", "writing"} =>
          \/ reads'[i] = {pbf}
          \/ (reads'[i] = reads[i] \cup {pbf} /\ phase[i] = "reading")
    BY DEF Graph, ReadFirst, ReadOn, Step, Enter, RegionTypeOK, Callers
  <2>4. phase'[i] \notin {"indexing", "mapping"}
    BY DEF Graph, Step, Enter, RegionTypeOK, Callers
  <2>5. ASSUME phase'[i] \in {"reading", "writing"}
        PROVE  reads'[i] # {} /\ \A d \in reads'[i] : hash[i] <= d /\ d <= pbf
    <3>1. CASE reads'[i] = {pbf}
      BY <2>2, <3>1 DEF RegionTypeOK
    <3>2. CASE reads'[i] = reads[i] \cup {pbf} /\ phase[i] = "reading"
      <4>1. \A d \in reads[i] : hash[i] <= d /\ d <= pbf
        BY <3>2 DEF ReadInv
      <4>2. pbf <= pbf
        BY DEF RegionTypeOK
      <4> QED BY <2>2, <3>2, <4>1, <4>2
    <3> QED BY <2>3, <2>5, <3>1, <3>2
  <2> QED BY <2>1, <2>2, <2>4, <2>5 DEF ReadInv
<1>8. PhaseInv'
  BY DEF Graph, Write, Step, Enter, PhaseInv, Complete, Tiled, Found,
         Searched, Bounded, Routed, ReadInv, LockInv, RegionTypeOK, Callers,
         Files, Summed
<1>9. ValidInv'
  BY DEF Graph, Step, Enter, ValidInv, LockInv, RegionTypeOK, Callers
<1> QED BY <1>1, <1>2, <1>3, <1>4, <1>5, <1>6, <1>7, <1>8, <1>9

(* So are its landmarks. *)
LEMMA LandmarksKeepsInv ==
    ASSUME RegionInv, NEW i \in Importers, Landmarks(i)
    PROVE  RegionInv'
<1> USE RegionAssumption DEF RegionInv
<1>1. RegionTypeOK'
  BY DEF Landmarks, Write, Elsewhere, Step, Enter, RegionTypeOK, Positions,
         Importing, Callers, pois, limits, Files, Summed, File, Half
<1>2. LockInv'
  BY DEF Landmarks, Elsewhere, Step, Enter, LockInv, RegionTypeOK, Callers
<1>3. FlockInv'
  BY DEF Landmarks, Elsewhere, Step, Enter, FlockInv, Holding, RegionTypeOK,
         Callers, pois
<1>4. IndexInv'
  BY DEF Landmarks, Elsewhere, Step, Enter, IndexInv, RegionTypeOK, Opening,
         Callers, pois
<1>5. DestInv'
  BY DEF Landmarks, Elsewhere, Step, Enter, DestInv, RegionTypeOK, Callers
<1>6. SourceInv'
  <2>1. phase[i] \in Importing \ Signing /\ phase'[i] # "signing"
    BY DEF Landmarks, Step, Enter, Importing, Signing, RegionTypeOK, Callers
  <2>2. \A j \in Importers : j # i => phase'[j] = phase[j]
    BY DEF Landmarks, Step, Enter, RegionTypeOK, Callers
  <2>3. parts' \in [Files -> File]
    BY <1>1 DEF RegionTypeOK
  <2>4. \A n \in Files : \A d \in parts'[n] :
           \/ d = Torn \/ (hash[i] <= d /\ d <= pbf)
           \/ \E m \in Files : d \in parts[m]
    <3>1. \A n \in Files \ {"landmarks"} : parts'[n] = parts[n]
      BY DEF Landmarks, Write, RegionTypeOK
    <3>2. \A d \in parts'["landmarks"] :
             d \in {Torn} \cup parts["landmarks"] \cup parts["graph"]
      BY DEF Landmarks, Write, Half, RegionTypeOK, Files, Summed
    <3>3. {"landmarks", "graph"} \subseteq Files
      BY DEF Files, Summed
    <3> QED BY <3>1, <3>2, <3>3
  <2> QED BY <2>1, <2>2, <2>3, <2>4, WorkKeepsSourceInv
         DEF Landmarks, Elsewhere, request
<1>7. ReadInv'
  BY DEF Landmarks, Step, Enter, ReadInv, LockInv, RegionTypeOK, Callers
<1>8. PhaseInv'
  BY DEF Landmarks, Write, Step, Enter, PhaseInv, Tiled, Found, Searched,
         Bounded, Routed, LockInv, RegionTypeOK, Callers, Files, Summed
<1>9. ValidInv'
  BY DEF Landmarks, Step, Enter, ValidInv, LockInv, RegionTypeOK, Callers
<1> QED BY <1>1, <1>2, <1>3, <1>4, <1>5, <1>6, <1>7, <1>8, <1>9

(* The search files are made. *)
LEMMA SearchKeepsInv ==
    ASSUME RegionInv, NEW i \in Importers, Search(i)
    PROVE  RegionInv'
<1> USE RegionAssumption DEF RegionInv
<1>1. RegionTypeOK'
  <2>1. reads' \in [Importers -> SUBSET Contents]
    BY DEF Search, ReadFirst, ReadOn, Elsewhere, request, RegionTypeOK
  <2>3. parts["graph"] \in File /\ parts["search"] \in File /\ Half \in File
    BY DEF RegionTypeOK, File, Half, Files, Summed
  <2>4. parts["graph"] \cup reads[i] \cup {pbf} \in File
    BY <2>3 DEF RegionTypeOK, File
  <2>5. parts' \in [Files -> File]
    BY <2>3, <2>4 DEF Search, Write, RegionTypeOK
  <2>6. /\ phase' \in [Callers -> Positions]
        /\ ready' \subseteq {"graph", "search"}
    BY DEF Search, Step, Enter, RegionTypeOK, Positions, Importing, Callers
  <2> QED BY <2>1, <2>5, <2>6 DEF Search, Elsewhere, pois, limits, Step, Enter,
             RegionTypeOK, Importing, Callers
<1>2. LockInv'
  BY DEF Search, Elsewhere, Step, Enter, LockInv, RegionTypeOK, Callers
<1>3. FlockInv'
  BY DEF Search, Elsewhere, Step, Enter, FlockInv, Holding, RegionTypeOK,
         Callers, pois
<1>4. IndexInv'
  BY DEF Search, Elsewhere, Step, Enter, IndexInv, RegionTypeOK, Opening,
         Callers, pois
<1>5. DestInv'
  BY DEF Search, Elsewhere, Step, Enter, DestInv, RegionTypeOK, Callers
<1>6. SourceInv'
  <2>1. phase[i] \in Importing \ Signing /\ phase'[i] # "signing"
    BY DEF Search, Step, Enter, Importing, Signing, RegionTypeOK, Callers
  <2>2. \A j \in Importers : j # i => phase'[j] = phase[j]
    BY DEF Search, Step, Enter, RegionTypeOK, Callers
  <2>3. parts' \in [Files -> File]
    BY <1>1 DEF RegionTypeOK
  <2>4. \A n \in Files : \A d \in parts'[n] :
           \/ d = Torn \/ (hash[i] <= d /\ d <= pbf)
           \/ \E m \in Files : d \in parts[m]
    <3>1. \A n \in Files : \A d \in parts'[n] :
             \/ d = Torn \/ d \in parts[n] \/ d \in parts["search"]
             \/ d \in parts["graph"]
             \/ (phase[i] = "indexing" /\ d \in reads[i] \cup {pbf})
      BY DEF Search, Write, Step, Half, RegionTypeOK, Files, Summed
    <3>2. "search" \in Files /\ "graph" \in Files /\ hash[i] <= pbf
      BY DEF Files, Summed, SourceInv
    <3>3. pbf \in Nat /\ hash[i] \in Nat
      BY DEF RegionTypeOK
    <3>4. phase[i] = "indexing" =>
             \A d \in reads[i] \cup {pbf} : hash[i] <= d /\ d <= pbf
      BY <3>2, <3>3 DEF ReadInv
    <3> QED BY <3>1, <3>2, <3>4
  <2> QED BY <2>1, <2>2, <2>3, <2>4, WorkKeepsSourceInv
         DEF Search, Elsewhere, request
<1>7. ReadInv'
  BY DEF Search, ReadFirst, Elsewhere, Step, Enter, ReadInv, SourceInv, LockInv,
         RegionTypeOK, Callers
<1>8. PhaseInv'
  <2>1. \A j \in Importers : j # i => phase'[j] = "idle"
    BY DEF Search, Step, Enter, LockInv, RegionTypeOK, Callers, Importing
  <2>2. phase[i] \in {"search", "indexing", "sealing", "indexed"}
    BY DEF Search, Step
  <2>3. phase[i] \in Bounded
    BY <2>2 DEF Bounded, Searched, Found
  <2>4. Complete(parts["graph"])' /\ Complete(parts["landmarks"])'
    BY <2>3 DEF Search, Write, PhaseInv, Routed, Complete, RegionTypeOK, Files,
            Summed
  <2>5. phase'[i] \in {"indexing", "sealing"} => "search" \notin ready'
    BY DEF Search, Step, Enter, PhaseInv, RegionTypeOK, Callers
  <2>6. phase'[i] \in {"indexing", "sealing", "indexed", "map"}
    BY DEF Search, Step, Enter, RegionTypeOK, Callers
  <2>7. phase'[i] # "indexing" =>
           Complete(parts["search"])' /\ (parts["places"] = parts["search"])'
    <3>1. CASE phase[i] = "indexing"
      <4>1. LET made == parts["graph"] \cup reads[i] \cup {pbf}
            IN  parts'["search"] = made /\ parts'["places"] = made
        BY <3>1 DEF Search, Step, RegionTypeOK, Files, Summed
      <4>2. Complete(parts["graph"]) /\ reads[i] \subseteq Contents
        BY <2>3 DEF PhaseInv, Routed, RegionTypeOK
      <4> QED BY <4>1, <4>2 DEF Complete, RegionTypeOK
    <3>2. CASE phase[i] \in {"sealing", "indexed"}
      BY <3>2 DEF Search, Step, Write, PhaseInv, Searched, Found, Complete,
              RegionTypeOK, Files, Summed
    <3>3. CASE phase[i] = "search"
      BY <3>3 DEF Search, Step, Enter, RegionTypeOK, Callers
    <3> QED BY <2>2, <3>1, <3>2, <3>3
  <2>8. phase'[i] \in Found => (parts["poi"] = parts["search"])'
    BY <2>2, <2>6 DEF Search, Step, Enter, Write, PhaseInv, Found, Tiled,
            RegionTypeOK, Callers, Files, Summed
  <2>9. phase'[i] \notin Tiled
    BY <2>6 DEF Tiled
  <2>10. "search" \in ready' => phase'[i] # "indexing"
    BY <2>5
  <2> QED BY <2>1, <2>4, <2>5, <2>6, <2>7, <2>8, <2>9, <2>10
          DEF PhaseInv, Routed, Bounded, Searched, Found, Tiled
<1>9. ValidInv'
  BY DEF Search, Step, Enter, ValidInv, LockInv, RegionTypeOK, Callers
<1> QED BY <1>1, <1>2, <1>3, <1>4, <1>5, <1>6, <1>7, <1>8, <1>9

(* Or they are there, and what belongs to them is made again. *)
LEMMA RestoreKeepsInv ==
    ASSUME RegionInv, NEW i \in Importers, Restore(i)
    PROVE  RegionInv'
<1> USE RegionAssumption DEF RegionInv
<1>1. RegionTypeOK'
  BY DEF Restore, Write, Elsewhere, Step, Enter, RegionTypeOK, Positions,
         Importing, Callers, pois, limits, Files, Summed, File, Half
<1>2. LockInv'
  BY DEF Restore, Elsewhere, Step, Enter, LockInv, RegionTypeOK, Callers
<1>3. FlockInv'
  BY DEF Restore, Elsewhere, Step, Enter, FlockInv, Holding, RegionTypeOK,
         Callers, pois
<1>4. IndexInv'
  BY DEF Restore, Elsewhere, Step, Enter, IndexInv, RegionTypeOK, Opening,
         Callers, pois
<1>5. DestInv'
  BY DEF Restore, Elsewhere, Step, Enter, DestInv, RegionTypeOK, Callers
<1>6. SourceInv'
  <2>1. phase[i] \in Importing \ Signing /\ phase'[i] # "signing"
    BY DEF Restore, Step, Enter, Importing, Signing, RegionTypeOK, Callers
  <2>2. \A j \in Importers : j # i => phase'[j] = phase[j]
    BY DEF Restore, Step, Enter, RegionTypeOK, Callers
  <2>3. parts' \in [Files -> File]
    BY <1>1 DEF RegionTypeOK
  <2>4. \A n \in Files : \A d \in parts'[n] :
           \/ d = Torn \/ (hash[i] <= d /\ d <= pbf)
           \/ \E m \in Files : d \in parts[m]
    <3>1. \A n \in Files \ {"places", "poi"} : parts'[n] = parts[n]
      BY DEF Restore, Write, RegionTypeOK
    <3>2. \A n \in {"places", "poi"} : \A d \in parts'[n] :
             d \in {Torn} \cup parts[n] \cup parts["search"]
      BY DEF Restore, Write, Half, RegionTypeOK, Files, Summed
    <3>3. {"places", "poi", "search"} \subseteq Files
      BY DEF Files, Summed
    <3> QED BY <3>1, <3>2, <3>3
  <2> QED BY <2>1, <2>2, <2>3, <2>4, WorkKeepsSourceInv
         DEF Restore, Elsewhere, request
<1>7. ReadInv'
  BY DEF Restore, Step, Enter, ReadInv, LockInv, RegionTypeOK, Callers
<1>8. PhaseInv'
  BY DEF Restore, Write, Step, Enter, PhaseInv, Tiled, Found, Searched,
         Bounded, Routed, LockInv, RegionTypeOK, Callers, Files, Summed
<1>9. ValidInv'
  BY DEF Restore, Step, Enter, ValidInv, LockInv, RegionTypeOK, Callers
<1> QED BY <1>1, <1>2, <1>3, <1>4, <1>5, <1>6, <1>7, <1>8, <1>9

(* The map is made. *)
LEMMA MapKeepsInv ==
    ASSUME RegionInv, NEW i \in Importers, Map(i)
    PROVE  RegionInv'
<1> USE RegionAssumption DEF RegionInv
<1>1. RegionTypeOK'
  BY DEF Map, ReadFirst, ReadOn, Write, Elsewhere, Step, Enter, RegionTypeOK,
         Positions, Importing, Callers, pois, limits, File, Missing
<1>2. LockInv'
  BY DEF Map, Elsewhere, Step, Enter, LockInv, RegionTypeOK, Callers
<1>3. FlockInv'
  BY DEF Map, Elsewhere, Step, Enter, FlockInv, Holding, RegionTypeOK, Callers,
         pois
<1>4. IndexInv'
  BY DEF Map, Elsewhere, Step, Enter, IndexInv, RegionTypeOK, Opening, Callers,
         pois
<1>5. DestInv'
  BY DEF Map, Elsewhere, Step, Enter, DestInv, RegionTypeOK, Callers
<1>6. SourceInv'
  <2>1. phase[i] \in Importing \ Signing /\ phase'[i] # "signing"
    BY DEF Map, Step, Enter, Importing, Signing, RegionTypeOK, Callers
  <2>2. \A j \in Importers : j # i => phase'[j] = phase[j]
    BY DEF Map, Step, Enter, RegionTypeOK, Callers
  <2>3. parts' \in [Files -> File]
    BY <1>1 DEF RegionTypeOK
  <2>4. \A n \in Files : \A d \in parts'[n] :
           \/ d = Torn \/ (hash[i] <= d /\ d <= pbf)
           \/ \E m \in Files : d \in parts[m]
    <3>1. \A n \in Files \ {"tiles"} : parts'[n] = parts[n]
      BY DEF Map, Write, RegionTypeOK
    <3>2. \/ parts'["tiles"] \subseteq parts["tiles"]
          \/ phase[i] = "mapping" /\ parts'["tiles"] = reads[i] \cup {pbf}
      BY DEF Map, Write, Step, Missing, RegionTypeOK, Files, Summed
    <3>3. hash[i] <= pbf /\ pbf <= pbf
      BY DEF SourceInv, RegionTypeOK
    <3>4. \A d \in parts'["tiles"] :
             (hash[i] <= d /\ d <= pbf) \/ d \in parts["tiles"]
      BY <3>2, <3>3 DEF ReadInv
    <3>5. "tiles" \in Files
      BY DEF Files, Summed
    <3> QED BY <3>1, <3>4, <3>5
  <2> QED BY <2>1, <2>2, <2>3, <2>4, WorkKeepsSourceInv
         DEF Map, Elsewhere, request
<1>7. ReadInv'
  BY DEF Map, ReadFirst, Elsewhere, Step, Enter, ReadInv, SourceInv, LockInv,
         RegionTypeOK, Callers
<1>8. PhaseInv'
  BY DEF Map, Write, Step, Enter, PhaseInv, Complete, Tiled, Found, Searched,
         Bounded, Routed, ReadInv, LockInv, RegionTypeOK, Callers, Files, Summed
<1>9. ValidInv'
  BY DEF Map, Step, Enter, ValidInv, LockInv, RegionTypeOK, Callers
<1> QED BY <1>1, <1>2, <1>3, <1>4, <1>5, <1>6, <1>7, <1>8, <1>9

(* With the PBF as it was at first, all files are of its contents. *)
LEMMA ValidateKeepsInv ==
    ASSUME RegionInv, NEW i \in Importers, Validate(i)
    PROVE  RegionInv'
<1> USE RegionAssumption DEF RegionInv
<1>1. RegionTypeOK'
  BY DEF Validate, Returns, Step, Enter, RegionTypeOK, Positions, Importing,
         Callers, request, stage, pois, limits
<1>2. LockInv'
  BY DEF Validate, Returns, Step, Enter, LockInv, RegionTypeOK, Callers
<1>3. FlockInv'
  BY DEF Validate, Returns, Step, Enter, FlockInv, Holding, RegionTypeOK,
         Callers, pois
<1>4. IndexInv'
  BY DEF Validate, Returns, Step, Enter, IndexInv, RegionTypeOK, Opening,
         Callers, pois
<1>5. DestInv'
  BY DEF Validate, Step, Enter, DestInv, RegionTypeOK, Callers
<1>6. SourceInv'
  BY DEF Validate, Returns, Step, Enter, SourceInv, Since, LockInv, Signing,
         Signature, RegionTypeOK, Importing, Callers, request, stage
<1>7. ReadInv'
  BY DEF Validate, Returns, Step, Enter, ReadInv, LockInv, RegionTypeOK, Callers
<1>8. PhaseInv'
  BY DEF Validate, Returns, Step, Enter, PhaseInv, Tiled, Found, Searched,
         Bounded, Routed, LockInv, RegionTypeOK, Callers, stage
<1>9. ValidInv'
  <2>1. phase[i] = "validating" /\ hash' = hash /\ parts' = parts
    BY DEF Validate, Step, request, stage
  <2>2. \A j \in Importers : j # i => phase'[j] = "idle"
    BY DEF Validate, Step, Enter, Returns, LockInv, RegionTypeOK, Callers,
           Importing
  <2>3. CASE pbf = hash[i]
    <3>1. source = Signature(i) /\ source \in Signatures
      BY <2>1 DEF SourceInv, Signing, Importing, Signature, Signatures,
                  RegionTypeOK
    <3>2. Since(hash[i])
      BY <3>1 DEF SourceInv, Signature
    <3>3. \A n \in Files : Complete(parts[n])
      BY <2>1 DEF PhaseInv, Complete, Tiled, Found, Searched, Bounded, Routed,
                  Files, Summed
    <3>4. ASSUME NEW n \in Files PROVE parts[n] = {hash[i]}
      <4>1. parts[n] \subseteq Contents /\ parts[n] # {}
        BY <3>3 DEF Complete
      <4>2. \A d \in parts[n] : hash[i] <= d /\ d <= hash[i]
        BY <2>3, <3>2, <4>1 DEF Since
      <4>3. hash[i] \in Nat /\ \A d \in parts[n] : d \in Nat
        BY <4>1 DEF RegionTypeOK
      <4>4. \A d \in parts[n] : d = hash[i]
        BY <4>2, <4>3
      <4> QED BY <4>1, <4>4
    <3>5. phase'[i] = "declaring"
      BY <2>3 DEF Validate, Step, Enter, RegionTypeOK, Callers
    <3> QED BY <2>1, <2>2, <3>4, <3>5 DEF ValidInv
  <2>4. CASE pbf # hash[i]
    <3>1. phase'[i] = "idle"
      BY <2>4 DEF Validate, Returns, Enter, RegionTypeOK, Callers
    <3> QED BY <2>2, <3>1 DEF ValidInv
  <2> QED BY <2>3, <2>4
<1> QED BY <1>1, <1>2, <1>3, <1>4, <1>5, <1>6, <1>7, <1>8, <1>9

(* The manifest says so. *)
LEMMA DeclareKeepsInv ==
    ASSUME RegionInv, NEW i \in Importers, Declare(i)
    PROVE  RegionInv'
<1> USE RegionAssumption DEF RegionInv
<1>1. RegionTypeOK'
  BY DEF Declare, Step, Enter, RegionTypeOK, Positions, Importing, Callers,
         request, pois, limits, Files, Manifests
<1>2. LockInv'
  BY DEF Declare, Step, Enter, LockInv, RegionTypeOK, Callers
<1>3. FlockInv'
  BY DEF Declare, Step, Enter, FlockInv, Holding, RegionTypeOK, Callers, pois
<1>4. IndexInv'
  BY DEF Declare, Step, Enter, IndexInv, RegionTypeOK, Opening, Callers, pois
<1>5. DestInv'
  BY DEF Declare, Step, Enter, DestInv, RegionTypeOK, Callers
<1>6. SourceInv'
  BY DEF Declare, Step, Enter, SourceInv, Since, LockInv, Signing, Signature,
         RegionTypeOK, Importing, Callers, request
<1>7. ReadInv'
  BY DEF Declare, Step, Enter, ReadInv, LockInv, RegionTypeOK, Callers
<1>8. PhaseInv'
  BY DEF Declare, Step, Enter, PhaseInv, Tiled, Found, Searched, Bounded,
         Routed, LockInv, RegionTypeOK, Callers
<1>9. ValidInv'
  BY DEF Declare, Step, Enter, ValidInv, LockInv, RegionTypeOK, Callers, request
<1> QED BY <1>1, <1>2, <1>3, <1>4, <1>5, <1>6, <1>7, <1>8, <1>9

(* The region appears. *)
LEMMA PublishKeepsInv ==
    ASSUME RegionInv, NEW i \in Importers, Publish(i)
    PROVE  RegionInv'
<1> USE RegionAssumption DEF RegionInv
<1>1. RegionTypeOK'
  <2>1. manifest \in Manifests
    <3>1. manifest = [pbf |-> hash[i], request |-> options[i],
                      sums |-> [n \in Summed |-> parts[n]]]
      BY DEF Publish, ValidInv
    <3>2. [n \in Summed |-> parts[n]] \in [Summed -> File]
      BY DEF RegionTypeOK, Files
    <3> QED BY <3>1, <3>2 DEF Manifests, RegionTypeOK
  <2>2. dest' \in Regions
    BY <2>1 DEF Publish, Regions, RegionTypeOK
  <2>3. parts' \in [Files -> File]
    BY DEF Publish, Empty, Missing, File
  <2>4. phase' \in [Callers -> Positions]
        /\ \A o \in Openings : phase'[o] \notin Importing
    BY DEF Publish, Returns, Enter, RegionTypeOK, Positions, Importing, Callers
  <2> QED BY <2>2, <2>3, <2>4 DEF Publish, Returns, request, pois, limits,
             RegionTypeOK
<1>2. LockInv'
  BY DEF Publish, Returns, Enter, LockInv, RegionTypeOK, Callers
<1>3. FlockInv'
  BY DEF Publish, Returns, Enter, FlockInv, Holding, RegionTypeOK, Callers, pois
<1>4. IndexInv'
  BY DEF Publish, Returns, Enter, IndexInv, RegionTypeOK, Opening, Callers
<1>5. DestInv'
  <2>1. /\ \A n \in Files : parts[n] = {hash[i]}
        /\ manifest = [pbf |-> hash[i], request |-> options[i],
                        sums |-> [n \in Summed |-> parts[n]]]
    BY DEF Publish, ValidInv
  <2>2. dest'.files = parts /\ dest'.manifest.pbf = hash[i]
        /\ \A n \in Summed : dest'.manifest.sums[n] = parts[n]
    BY <2>1 DEF Publish
  <2>3. hash[i] # Torn
    BY DEF RegionTypeOK
  <2>4. dest'.files["tiles"] \notin {{}, {Torn}}
    BY <2>1, <2>2, <2>3 DEF Files, Summed
  <2>5. Whole(dest)'
    BY <2>2, <2>4 DEF Whole, Missing, Half
  <2>6. DeclaredSource(dest)'
    BY <2>1, <2>2 DEF DeclaredSource
  <2> QED BY <2>5, <2>6 DEF DestInv
<1>6. SourceInv'
  BY DEF Publish, Returns, Enter, SourceInv, LockInv, RegionTypeOK, Importing,
         Callers, request
<1>7. ReadInv'
  BY DEF Publish, Returns, Enter, ReadInv, LockInv, RegionTypeOK, Callers
<1>8. PhaseInv'
  BY DEF Publish, Returns, Enter, PhaseInv, Tiled, Found, Searched, Bounded,
         Routed, LockInv, RegionTypeOK, Callers
<1>9. ValidInv'
  BY DEF Publish, Returns, Enter, ValidInv, LockInv, RegionTypeOK, Callers
<1> QED BY <1>1, <1>2, <1>3, <1>4, <1>5, <1>6, <1>7, <1>8, <1>9

(* An import that fails removes files of its phase only. *)
LEMMA ImportFailsKeepsInv ==
    ASSUME RegionInv, NEW i \in Importers, ImportFails(i)
    PROVE  RegionInv'
<1> USE RegionAssumption DEF RegionInv
<1>1. RegionTypeOK'
  BY DEF ImportFails, Returns, Enter, RegionTypeOK, Positions, Callers, request,
         pois, limits, File, Missing
<1>2. LockInv'
  BY DEF ImportFails, Returns, Enter, LockInv, RegionTypeOK, Importing, Callers
<1>3. FlockInv'
  BY DEF ImportFails, Returns, Enter, FlockInv, Holding, RegionTypeOK,
         Importing, Callers, pois
<1>4. IndexInv'
  BY DEF ImportFails, Returns, Enter, IndexInv, RegionTypeOK, Opening, Callers,
         pois
<1>5. DestInv'
  BY DEF ImportFails, Enter, DestInv, RegionTypeOK, Callers
<1>6. SourceInv'
  <2>1. \A n \in Files : parts'[n] \subseteq parts[n]
    BY DEF ImportFails, Missing
  <2>2. parts = Empty => parts' = Empty
    BY DEF ImportFails, Empty, Missing
  <2>3. \A c : Since(c) => Since(c)'
    BY <2>1 DEF Since, ImportFails
  <2>4. \A j \in Importers : phase'[j] = "idle"
    BY DEF ImportFails, Returns, Enter, LockInv, RegionTypeOK, Callers,
           Importing
  <2> QED BY <2>2, <2>3, <2>4 DEF SourceInv, Importing, ImportFails, request
<1>7. ReadInv'
  BY DEF ImportFails, Returns, Enter, ReadInv, LockInv, RegionTypeOK, Callers,
         request
<1>8. PhaseInv'
  BY DEF ImportFails, Removed, Returns, Enter, PhaseInv, Tiled, Found,
         Searched, Bounded, Routed, LockInv, RegionTypeOK, Callers, Files,
         Summed
<1>9. ValidInv'
  BY DEF ImportFails, Removed, Returns, Enter, ValidInv, LockInv, RegionTypeOK,
         Callers, request
<1> QED BY <1>1, <1>2, <1>3, <1>4, <1>5, <1>6, <1>7, <1>8, <1>9

-----------------------------------------------------------------------------
(* Openings.                                                               *)

(* An opening begins. *)
LEMMA OpenKeepsInv ==
    ASSUME RegionInv, NEW o \in Openings, Open(o)
    PROVE  RegionInv'
<1> USE RegionAssumption DEF RegionInv
<1>1. RegionTypeOK'
  BY DEF Open, Outside, Step, Enter, RegionTypeOK, Positions, Importing,
         Opening, Callers, request, stage, pois, limits
<1>2. LockInv'
  BY DEF Open, Step, Enter, LockInv, RegionTypeOK, Callers
<1>3. FlockInv'
  BY DEF Open, Step, Enter, FlockInv, Holding, RegionTypeOK, Callers, pois
<1>4. IndexInv'
  BY DEF Open, Outside, Step, Enter, IndexInv, RegionTypeOK, Callers, pois
<1>5. DestInv'
  BY DEF Open, Outside, Step, Enter, DestInv, RegionTypeOK, Callers
<1>6. SourceInv' /\ ReadInv' /\ PhaseInv' /\ ValidInv'
  BY OpeningsKeepImports DEF Open, Outside, Step, Enter, RegionTypeOK, Callers,
         request, stage
<1> QED BY <1>1, <1>2, <1>3, <1>4, <1>5, <1>6

(* The checksums are compared. *)
LEMMA VerifyKeepsInv ==
    ASSUME RegionInv, NEW a \in Callers, Verify(a)
    PROVE  RegionInv'
<1> USE RegionAssumption DEF RegionInv
<1>1. RegionTypeOK'
  BY DEF Verify, GoAway, Returns, Outside, Enter, RegionTypeOK, Positions,
         Importing, Opening, Callers, request, stage, pois, limits
<1>2. LockInv'
  BY DEF Verify, GoAway, Returns, Enter, LockInv, RegionTypeOK, Callers
<1>3. FlockInv'
  BY DEF Verify, GoAway, Returns, Enter, FlockInv, Holding, RegionTypeOK,
         Callers, pois
<1>4. IndexInv'
  BY DEF Verify, GoAway, Returns, Outside, Enter, IndexInv, RegionTypeOK,
         Opening, Callers, pois
<1>5. DestInv'
  BY DEF Verify, Outside, Enter, DestInv, RegionTypeOK, Callers
<1>6. SourceInv' /\ ReadInv' /\ PhaseInv' /\ ValidInv'
  BY OpeningsKeepImports DEF Verify, GoAway, Returns, Outside, Enter,
         RegionTypeOK, Importing, Callers, request, stage
<1> QED BY <1>1, <1>2, <1>3, <1>4, <1>5, <1>6

(* The POI lock is taken. *)
LEMMA AcquireKeepsInv ==
    ASSUME RegionInv, NEW a \in Callers, Acquire(a)
    PROVE  RegionInv'
<1> USE RegionAssumption DEF RegionInv
<1>1. RegionTypeOK'
  BY DEF Acquire, Outside, Step, Enter, RegionTypeOK, Positions, Importing,
         Opening, Callers, request, stage, limits
<1>2. LockInv'
  BY DEF Acquire, Step, Enter, LockInv, RegionTypeOK, Callers
<1>3. FlockInv'
  BY DEF Acquire, Step, Enter, FlockInv, Holding, RegionTypeOK, Callers
<1>4. IndexInv'
  BY DEF Acquire, Outside, Step, Enter, IndexInv, RegionTypeOK, Opening, Callers
<1>5. DestInv'
  BY DEF Acquire, Outside, Step, Enter, DestInv, RegionTypeOK, Callers
<1>6. SourceInv' /\ ReadInv' /\ PhaseInv' /\ ValidInv'
  BY OpeningsKeepImports DEF Acquire, Outside, Step, Enter, RegionTypeOK,
         Importing, Callers, request, stage
<1> QED BY <1>1, <1>2, <1>3, <1>4, <1>5, <1>6

(* The workspace is cleaned by who has the lock. *)
LEMMA CleanKeepsInv ==
    ASSUME RegionInv, NEW a \in Callers, Clean(a)
    PROVE  RegionInv'
<1> USE RegionAssumption DEF RegionInv
<1>1. RegionTypeOK'
  BY DEF Clean, Outside, Step, Enter, RegionTypeOK, Positions, Importing,
         Opening, Callers, request, stage, limits, File, Missing
<1>2. LockInv'
  BY DEF Clean, Step, Enter, LockInv, RegionTypeOK, Callers
<1>3. FlockInv'
  <2>1. phase[a] = "cleaning" /\ phase' = [phase EXCEPT ![a] = "looking"]
    BY DEF Clean, Step, Enter
  <2>2. a \in Lockers /\ flock = a /\ flock' = a
    BY <2>1 DEF Clean, IndexInv, FlockInv, Holding
  <2>3. phase'[a] = "looking" /\ \A b \in Callers : b # a => phase'[b] = phase[b]
    BY <2>1 DEF RegionTypeOK
  <2>4. \A b \in Callers : b # a => shared'[b] = shared[b]
    BY DEF Clean, RegionTypeOK
  <2> QED BY <2>1, <2>2, <2>3, <2>4 DEF FlockInv, Holding
<1>4. IndexInv'
  <2>1. phase[a] = "cleaning" /\ phase' = [phase EXCEPT ![a] = "looking"]
    BY DEF Clean, Step, Enter
  <2>2. a \in Lockers /\ flock = a /\ dest # Absent /\ dest' = dest
    BY <2>1 DEF Clean, Outside, IndexInv, FlockInv, Holding, Opening
  <2>3. \A b \in Callers : b # a => phase'[b] = phase[b]
    BY <2>1
  <2>4. \A b \in Callers : phase'[b] # "moving"
    BY <2>1, <2>2, <2>3 DEF IndexInv, FlockInv, Holding, RegionTypeOK
  <2> QED BY <2>1, <2>2, <2>3, <2>4 DEF IndexInv, RegionTypeOK
<1>5. DestInv'
  BY DEF Clean, Outside, Step, Enter, DestInv, RegionTypeOK, Callers
<1>6. SourceInv' /\ ReadInv' /\ PhaseInv' /\ ValidInv'
  BY OpeningsKeepImports DEF Clean, Outside, Step, Enter, RegionTypeOK,
         Importing, Callers, request, stage
<1> QED BY <1>1, <1>2, <1>3, <1>4, <1>5, <1>6

(* An index that fits is used. *)
LEMMA LookKeepsInv ==
    ASSUME RegionInv, NEW a \in Callers, Look(a)
    PROVE  RegionInv'
<1> USE RegionAssumption DEF RegionInv
<1>1. RegionTypeOK'
  BY DEF Look, Unlock, Outside, Step, Enter, RegionTypeOK, Positions, Importing,
         Opening, Callers, request, stage, limits
<1>2. LockInv'
  BY DEF Look, Step, Enter, LockInv, RegionTypeOK, Callers
<1>3. FlockInv'
  BY DEF Look, Unlock, Step, Enter, FlockInv, Holding, RegionTypeOK, Callers
<1>4. IndexInv'
  BY DEF Look, Outside, Step, Enter, IndexInv, RegionTypeOK, Opening, Callers
<1>5. DestInv'
  BY DEF Look, Outside, Step, Enter, DestInv, RegionTypeOK, Callers
<1>6. SourceInv' /\ ReadInv' /\ PhaseInv' /\ ValidInv'
  BY OpeningsKeepImports DEF Look, Outside, Step, Enter, RegionTypeOK,
         Importing, Callers, request, stage
<1> QED BY <1>1, <1>2, <1>3, <1>4, <1>5, <1>6

(* A workspace is made. *)
LEMMA MakeKeepsInv ==
    ASSUME RegionInv, NEW a \in Callers, Make(a)
    PROVE  RegionInv'
<1> USE RegionAssumption DEF RegionInv
<1>1. RegionTypeOK'
  BY DEF Make, Outside, Step, Enter, RegionTypeOK, Positions, Importing,
         Opening, Callers, request, stage, limits, File, Half
<1>2. LockInv'
  BY DEF Make, Step, Enter, LockInv, RegionTypeOK, Callers
<1>3. FlockInv'
  BY DEF Make, Step, Enter, FlockInv, Holding, RegionTypeOK, Callers
<1>4. IndexInv'
  <2>1. phase[a] = "making" /\ phase' = [phase EXCEPT ![a] = "building"]
    BY DEF Make, Step, Enter
  <2>2. dest # Absent /\ dest' = dest
    BY <2>1 DEF Make, Outside, IndexInv, Opening
  <2>3. phase'[a] = "building" /\ \A b \in Callers : b # a => phase'[b] = phase[b]
    BY <2>1 DEF RegionTypeOK
  <2>4. shared[a] => \A b \in Callers : phase'[b] # "moving"
    BY <2>1, <2>3 DEF IndexInv, FlockInv, Holding
  <2>5. ~shared[a] => workspace' = workspace
    BY DEF Make
  <2>6. \A b \in Callers : b # a => shared'[b] = shared[b]
    BY DEF Make, RegionTypeOK
  <2>7. ~shared[a] \/ shared[a]
    BY DEF RegionTypeOK
  <2> QED BY <2>2, <2>3, <2>4, <2>5, <2>6, <2>7 DEF IndexInv
<1>5. DestInv'
  BY DEF Make, Outside, Step, Enter, DestInv, RegionTypeOK, Callers
<1>6. SourceInv' /\ ReadInv' /\ PhaseInv' /\ ValidInv'
  BY OpeningsKeepImports DEF Make, Outside, Step, Enter, RegionTypeOK,
         Importing, Callers, request, stage
<1> QED BY <1>1, <1>2, <1>3, <1>4, <1>5, <1>6

(* The index is built there. *)
LEMMA RebuildKeepsInv ==
    ASSUME RegionInv, NEW a \in Callers, Rebuild(a)
    PROVE  RegionInv'
<1> USE RegionAssumption DEF RegionInv
<1>1. RegionTypeOK'
  <2>1. phase[a] = "building" /\ dest \in Regions
    BY DEF Rebuild, Step, IndexInv, Opening, RegionTypeOK
  <2>2. dest.files["search"] \in File
    BY <2>1 DEF Regions, Files, Summed
  <2>3. /\ phase' \in [Callers -> Positions]
        /\ \A o \in Openings : phase'[o] \notin Importing
    BY DEF Rebuild, Step, Enter, RegionTypeOK, Positions, Opening, Importing,
           Callers
  <2> QED BY <2>2, <2>3 DEF Rebuild, Unlock, Outside, request, stage, limits,
             RegionTypeOK
<1>2. LockInv'
  BY DEF Rebuild, Step, Enter, LockInv, RegionTypeOK, Callers
<1>3. FlockInv'
  BY DEF Rebuild, Unlock, Step, Enter, FlockInv, Holding, RegionTypeOK, Callers
<1>4. IndexInv'
  BY DEF Rebuild, Outside, Step, Enter, IndexInv, RegionTypeOK, Opening, Callers
<1>5. DestInv'
  BY DEF Rebuild, Outside, Step, Enter, DestInv, RegionTypeOK, Callers
<1>6. SourceInv' /\ ReadInv' /\ PhaseInv' /\ ValidInv'
  BY OpeningsKeepImports DEF Rebuild, Outside, Step, Enter, RegionTypeOK,
         Importing, Callers, request, stage
<1> QED BY <1>1, <1>2, <1>3, <1>4, <1>5, <1>6

(* The index takes its place. *)
LEMMA MoveKeepsInv ==
    ASSUME RegionInv, NEW a \in Callers, Move(a)
    PROVE  RegionInv'
<1> USE RegionAssumption DEF RegionInv
<1>1. RegionTypeOK'
  <2>1. dest \in Regions
    BY DEF Move, Step, IndexInv, Opening, RegionTypeOK
  <2>2. [dest EXCEPT !.files["poi"] = workspace] \in Regions
    BY <2>1 DEF Regions, RegionTypeOK
  <2>3. dest' \in Regions \cup {Absent}
    BY <2>1, <2>2 DEF Move
  <2>4. /\ phase' \in [Callers -> Positions]
        /\ \A o \in Openings : phase'[o] \notin Importing
    BY DEF Move, Step, Enter, RegionTypeOK, Positions, Opening, Importing,
           Callers
  <2>5. workspace' \in File /\ flock' \in Lockers \cup {Absent}
    BY DEF Move, Unlock, Missing, File, RegionTypeOK
  <2> QED BY <2>3, <2>4, <2>5 DEF Move, request, stage, limits, RegionTypeOK
<1>2. LockInv'
  BY DEF Move, Step, Enter, LockInv, RegionTypeOK, Callers
<1>3. FlockInv'
  BY DEF Move, Unlock, Step, Enter, FlockInv, Holding, RegionTypeOK, Callers
<1>4. IndexInv'
  <2>1. phase[a] = "moving" /\ dest # Absent /\ dest' # Absent
    BY DEF Move, Step, IndexInv, Opening, Regions, RegionTypeOK
  <2>2. phase'[a] \in {"rereading", "open"}
        /\ \A b \in Callers : b # a => phase'[b] = phase[b]
    BY DEF Move, Step, Enter, RegionTypeOK
  <2>3. \A b \in Callers : b # a => phase[b] # "moving"
    BY <2>1 DEF IndexInv, FlockInv, Holding
  <2> QED BY <2>1, <2>2, <2>3 DEF IndexInv, Opening
<1>5. DestInv'
  <2>1. dest \in Regions /\ dest # Absent
    BY DEF Move, Step, IndexInv, Opening, RegionTypeOK
  <2>2. Whole(dest) /\ DeclaredSource(dest)
    BY <2>1 DEF DestInv
  <2>3. \/ dest' = dest
        \/ dest' = [dest EXCEPT !.files["poi"] = workspace]
    BY DEF Move
  <2>4. /\ dest'.manifest = dest.manifest
        /\ \A n \in Files \ {"poi"} : dest'.files[n] = dest.files[n]
    BY <2>1, <2>3 DEF Regions
  <2>5. "tiles" \in Files \ {"poi"} /\ Summed \subseteq Files \ {"poi"}
    BY DEF Files, Summed
  <2> QED BY <2>2, <2>4, <2>5 DEF DestInv, Whole, DeclaredSource
<1>6. SourceInv' /\ ReadInv' /\ PhaseInv' /\ ValidInv'
  BY OpeningsKeepImports DEF Move, Step, Enter, RegionTypeOK, Importing,
         Callers, request, stage
<1> QED BY <1>1, <1>2, <1>3, <1>4, <1>5, <1>6

(* It is read once more. *)
LEMMA RereadKeepsInv ==
    ASSUME RegionInv, NEW a \in Callers, Reread(a)
    PROVE  RegionInv'
<1> USE RegionAssumption DEF RegionInv
<1>1. RegionTypeOK'
  BY DEF Reread, Unlock, GoAway, Returns, Outside, Enter, RegionTypeOK,
         Positions, Importing, Callers, request, stage, limits
<1>2. LockInv'
  BY DEF Reread, GoAway, Returns, Enter, LockInv, RegionTypeOK, Callers
<1>3. FlockInv'
  BY DEF Reread, Unlock, GoAway, Returns, Enter, FlockInv, Holding,
         RegionTypeOK, Callers
<1>4. IndexInv'
  BY DEF Reread, GoAway, Returns, Outside, Enter, IndexInv, RegionTypeOK,
         Opening, Callers
<1>5. DestInv'
  BY DEF Reread, Outside, Enter, DestInv, RegionTypeOK, Callers
<1>6. SourceInv' /\ ReadInv' /\ PhaseInv' /\ ValidInv'
  BY OpeningsKeepImports DEF Reread, GoAway, Returns, Outside, Enter,
         RegionTypeOK, Importing, Callers, request, stage
<1> QED BY <1>1, <1>2, <1>3, <1>4, <1>5, <1>6

(* An opening gives up and takes its workspace away. *)
LEMMA GiveUpKeepsInv ==
    ASSUME RegionInv, NEW a \in Callers, GiveUp(a)
    PROVE  RegionInv'
<1> USE RegionAssumption DEF RegionInv
<1>1. RegionTypeOK'
  BY DEF GiveUp, Unlock, GoAway, Returns, Outside, Enter, RegionTypeOK,
         Positions, Importing, Callers, request, stage, limits, File, Missing
<1>2. LockInv'
  BY DEF GiveUp, GoAway, Returns, Enter, LockInv, RegionTypeOK, Opening, Callers
<1>3. FlockInv'
  BY DEF GiveUp, Unlock, GoAway, Returns, Enter, FlockInv, Holding,
         RegionTypeOK, Callers
<1>4. IndexInv'
  <2>1. phase[a] \in Opening /\ dest # Absent /\ dest' = dest /\ shared' = shared
    BY DEF GiveUp, Outside, IndexInv
  <2>2. phase'[a] \notin Opening /\ \A b \in Callers : b # a => phase'[b] = phase[b]
    BY DEF GiveUp, GoAway, Returns, Enter, RegionTypeOK, Opening
  <2>3. CASE shared[a] /\ phase[a] \in {"building", "moving"}
    <3>1. \A b \in Callers : b # a => phase[b] # "moving"
      BY <2>3 DEF IndexInv, FlockInv, Holding
    <3> QED BY <2>1, <2>2, <3>1 DEF IndexInv, Opening
  <2>4. CASE ~(shared[a] /\ phase[a] \in {"building", "moving"})
    <3>1. workspace' = workspace
      BY <2>4 DEF GiveUp
    <3> QED BY <2>1, <2>2, <3>1 DEF IndexInv, Opening
  <2> QED BY <2>3, <2>4
<1>5. DestInv'
  BY DEF GiveUp, Outside, Enter, DestInv, RegionTypeOK, Callers
<1>6. SourceInv' /\ ReadInv' /\ PhaseInv' /\ ValidInv'
  BY OpeningsKeepImports DEF GiveUp, GoAway, Returns, Outside, Enter,
         RegionTypeOK, Importing, Callers, request, stage
<1> QED BY <1>1, <1>2, <1>3, <1>4, <1>5, <1>6

(* An engine is closed. *)
LEMMA ShutKeepsInv ==
    ASSUME RegionInv, NEW a \in Callers, Shut(a)
    PROVE  RegionInv'
<1> USE RegionAssumption DEF RegionInv
<1>1. RegionTypeOK'
  BY DEF Shut, GoAway, Returns, Outside, Enter, RegionTypeOK, Positions,
         Importing, Callers, request, stage, pois, limits
<1>2. LockInv'
  BY DEF Shut, GoAway, Returns, Enter, LockInv, RegionTypeOK, Callers
<1>3. FlockInv'
  BY DEF Shut, GoAway, Returns, Enter, FlockInv, Holding, RegionTypeOK, Callers,
         pois
<1>4. IndexInv'
  BY DEF Shut, GoAway, Returns, Outside, Enter, IndexInv, RegionTypeOK, Opening,
         Callers, pois
<1>5. DestInv'
  BY DEF Shut, Outside, Enter, DestInv, RegionTypeOK, Callers
<1>6. SourceInv' /\ ReadInv' /\ PhaseInv' /\ ValidInv'
  BY OpeningsKeepImports DEF Shut, GoAway, Returns, Outside, Enter,
         RegionTypeOK, Importing, Callers, request, stage
<1> QED BY <1>1, <1>2, <1>3, <1>4, <1>5, <1>6

-----------------------------------------------------------------------------
(* What nobody decides.                                                      *)

(* Who dies holds no lock and has begun nothing. *)
LEMMA DiesKeepsInv ==
    ASSUME RegionInv, NEW dying, NEW l \in {"idle", "closed"}, Dies(dying, l),
           (dying = Importers /\ l = "idle") \/ dying \cap Importers = {}
    PROVE  RegionInv'
<1> USE RegionAssumption DEF RegionInv
<1>1. \A a \in Callers : phase'[a] = IF a \in dying THEN l ELSE phase[a]
  BY DEF Dies
<1>2. RegionTypeOK'
  <2>1. /\ phase' \in [Callers -> Positions]
        /\ \A o \in Openings : phase'[o] \notin Importing
    BY <1>1 DEF Dies, RegionTypeOK, Positions, Importing, Callers
  <2> QED BY <2>1 DEF Dies, request, stage, RegionTypeOK
<1>3. LockInv'
  <2>1. CASE dying = Importers /\ l = "idle"
    BY <1>1, <2>1 DEF Dies, LockInv, RegionTypeOK, Callers
  <2>2. CASE dying \cap Importers = {}
    BY <1>1, <2>2 DEF Dies, LockInv, RegionTypeOK, Callers
  <2> QED BY <2>1, <2>2
<1>4. FlockInv'
  BY <1>1 DEF Dies, FlockInv, Holding, RegionTypeOK
<1>5. IndexInv'
  BY <1>1 DEF Dies, IndexInv, Opening
<1>6. DestInv'
  BY DEF Dies, DestInv, Whole, DeclaredSource
<1>7. \A i \in Importers : phase'[i] \in Importing => phase'[i] = phase[i]
  BY <1>1 DEF Callers, Importing
<1>8. SourceInv' /\ ReadInv' /\ PhaseInv' /\ ValidInv'
  BY <1>7, OpeningsKeepImports DEF Dies, request, stage
<1> QED BY <1>2, <1>3, <1>4, <1>5, <1>6, <1>8

(* The process of the imports, or that of an opening, dies. *)
LEMMA DeathKeepsInv ==
    ASSUME RegionInv, Death
    PROVE  RegionInv'
<1>1. CASE Dies(Importers, "idle")
  BY <1>1, DiesKeepsInv
<1>2. ASSUME NEW o \in Openings, Dies({o}, "closed")
      PROVE  RegionInv'
  <2>1. {o} \cap Importers = {}
    BY RegionAssumption
  <2> QED BY <1>2, <2>1, DiesKeepsInv
<1> QED BY <1>1, <1>2 DEF Death

(* A newer PBF leaves what has been read as old as it was. *)
LEMMA ReplaceKeepsInv ==
    ASSUME RegionInv, Replace
    PROVE  RegionInv'
<1> USE RegionAssumption DEF RegionInv
<1>1. pbf \in Nat /\ pbf' \in Nat /\ pbf < pbf' /\ pbf' \in Contents
  BY DEF Replace, RegionTypeOK
<1>2. \A d \in Nat : d <= pbf => d <= pbf'
  BY <1>1
<1>3. RegionTypeOK'
  BY <1>1 DEF Replace, request, stage, pois, limits, RegionTypeOK
<1>4. LockInv' /\ FlockInv' /\ IndexInv' /\ DestInv'
  BY DEF Replace, pois, LockInv, FlockInv, IndexInv, DestInv, Whole,
         DeclaredSource
<1>5. PhaseInv' /\ ValidInv'
  BY DEF Replace, request, stage, PhaseInv, ValidInv, Complete
<1>6. ReadInv'
  <2>1. \A i \in Importers : reads[i] \subseteq Nat
    BY DEF RegionTypeOK
  <2> QED BY <1>2, <2>1 DEF Replace, request, ReadInv
<1>7. SourceInv'
  <2>1. \A n \in Files : parts[n] \ {Torn} \subseteq Nat
    BY DEF RegionTypeOK, File
  <2>2. \A c : Since(c) => Since(c)'
    BY <1>2, <2>1 DEF Replace, stage, Since
  <2>3. \A i \in Importers : hash[i] \in Nat
    BY DEF RegionTypeOK
  <2>4. \A i \in Importers : hash[i] <= pbf'
    BY <1>2, <2>3 DEF SourceInv
  <2> QED BY <2>2, <2>4 DEF Replace, request, stage, SourceInv, Signature
<1> QED BY <1>3, <1>4, <1>5, <1>6, <1>7

-----------------------------------------------------------------------------
(* The invariant.                                                            *)

(* The invariant holds of an empty destination and of an earlier region. *)
LEMMA RegionInitInv == RegionInit => RegionInv
<1> SUFFICES ASSUME RegionInit PROVE RegionInv
  OBVIOUS
<1> USE RegionAssumption DEF RegionInit
<1>1. pbf \in Contents /\ pbf \in Nat /\ pbf # Torn
  OBVIOUS
<1>2. ASSUME dest # Absent
      PROVE  dest \in Regions /\ Whole(dest) /\ DeclaredSource(dest)
  <2>1. PICK r \in Options, index \in {Missing, Half} :
           dest = Earlier(pbf, r, index)
    BY <1>2
  <2>2. dest.manifest \in Manifests
    BY <1>1, <2>1 DEF Earlier, Manifests, File
  <2>3. dest.files \in [Files -> File]
    BY <1>1, <2>1 DEF Earlier, Missing, Half, File
  <2>4. dest \in Regions
    BY <2>1, <2>2, <2>3 DEF Earlier, Regions
  <2>5. /\ \A n \in Files \ {"poi"} : dest.files[n] = {pbf}
        /\ \A n \in Summed : dest.manifest.sums[n] = {pbf}
        /\ dest.manifest.pbf = pbf
    BY <2>1 DEF Earlier
  <2>6. Summed \subseteq Files \ {"poi"} /\ "tiles" \in Files \ {"poi"}
    BY DEF Files, Summed
  <2> QED BY <1>1, <2>4, <2>5, <2>6 DEF Whole, DeclaredSource, Missing, Half
<1>3. RegionTypeOK
  <2>1. parts \in [Files -> File] /\ workspace \in File
    BY DEF Empty, Missing, File
  <2> QED BY <1>1, <1>2, <2>1 DEF RegionTypeOK, Positions, Importing, Callers
<1>4. LockInv /\ FlockInv /\ IndexInv
  BY DEF LockInv, FlockInv, IndexInv, Holding, Opening, Callers
<1>5. DestInv
  BY <1>2 DEF DestInv
<1>6. SourceInv
  BY <1>1 DEF SourceInv, Importing, Callers
<1>7. ReadInv /\ PhaseInv /\ ValidInv
  BY DEF ReadInv, PhaseInv, ValidInv, Tiled, Found, Searched, Bounded, Routed,
         Callers
<1> QED BY <1>3, <1>4, <1>5, <1>6, <1>7 DEF RegionInv

(* A step that changes nothing of the region keeps the invariant. *)
LEMMA StutterInv ==
    ASSUME RegionInv, UNCHANGED regionVars
    PROVE  RegionInv'
<1> USE DEF regionVars, request, stage, pois, limits
<1>1. RegionTypeOK' /\ LockInv' /\ FlockInv' /\ IndexInv' /\ DestInv'
  BY DEF RegionInv, RegionTypeOK, LockInv, FlockInv, IndexInv, DestInv, Whole,
         DeclaredSource
<1>2. SourceInv' /\ ReadInv' /\ PhaseInv' /\ ValidInv'
  BY OpeningsKeepImports
<1> QED BY <1>1, <1>2 DEF RegionInv

(* Every step of an import, an opening or the world keeps the invariant. *)
LEMMA RegionStepInv ==
    ASSUME RegionInv, [RegionNext]_regionVars
    PROVE  RegionInv'
<1>1. ASSUME NEW i \in Importers, ImportStep(i)
      PROVE  RegionInv'
  BY <1>1, CheckKeepsInv, SignKeepsInv, SignedKeepsInv, GraphKeepsInv,
     LandmarksKeepsInv, SearchKeepsInv, RestoreKeepsInv, MapKeepsInv,
     ValidateKeepsInv, DeclareKeepsInv, PublishKeepsInv DEF ImportStep
<1>2. ASSUME NEW i \in Importers,
             ImportFails(i) \/ \E r \in Options : Import(i, r)
      PROVE  RegionInv'
  BY <1>2, ImportKeepsInv, ImportFailsKeepsInv
<1>3. ASSUME NEW o \in Openings, Open(o)
      PROVE  RegionInv'
  BY <1>3, OpenKeepsInv
<1>4. ASSUME NEW a \in Callers, OpenStep(a)
      PROVE  RegionInv'
  BY <1>4, VerifyKeepsInv, AcquireKeepsInv, CleanKeepsInv, LookKeepsInv,
     MakeKeepsInv, RebuildKeepsInv, MoveKeepsInv, RereadKeepsInv DEF OpenStep
<1>5. ASSUME NEW a \in Callers, GiveUp(a) \/ Shut(a)
      PROVE  RegionInv'
  BY <1>5, GiveUpKeepsInv, ShutKeepsInv
<1> QED BY <1>1, <1>2, <1>3, <1>4, <1>5, DeathKeepsInv, ReplaceKeepsInv,
           StutterInv DEF RegionNext

(* The inductive invariant, for any number of imports and openings and any
   contents of the PBF, whatever fails and whoever dies. *)
THEOREM RegionInvariant == RegionSpec => []RegionInv
<1> QED BY RegionInitInv, RegionStepInv, PTL DEF RegionSpec

(* The variables of an import and its region keep their types. *)
THEOREM RegionTypeCorrect == RegionSpec => []RegionTypeOK
<1>1. RegionInv => RegionTypeOK
  BY DEF RegionInv
<1> QED BY <1>1, RegionInvariant, PTL

-----------------------------------------------------------------------------
(* The promise.                                                              *)

(* What is published is what its manifest declares: one source and one request. *)
LEMMA PublishedIsMade ==
    ASSUME RegionInv
    PROVE  IF dest = Absent THEN Published = Absent ELSE
           /\ Published = [pbf     |-> dest.manifest.pbf,
                           request |-> dest.manifest.request]
           /\ Published \in Signatures
<1>1. CASE dest = Absent
  BY <1>1 DEF Published
<1>2. CASE dest # Absent
  <2>1. Whole(dest) /\ DeclaredSource(dest)
    BY <1>2 DEF RegionInv, DestInv
  <2>2. dest.manifest \in Manifests
    BY <1>2 DEF RegionInv, RegionTypeOK, Regions
  <2>3. dest.manifest.pbf \in Contents /\ dest.manifest.request \in Options
    BY <2>2 DEF Manifests
  <2> QED BY <1>2, <2>1, <2>3 DEF Published, Signatures
<1> QED BY <1>1, <1>2

(* A rename makes a region appear at once, whole. *)
LEMMA PublishAppears ==
    ASSUME RegionInv, RegionInv', NEW i \in Importers, Publish(i)
    PROVE  Promise!Appear
<1> USE RegionAssumption
<1>1. dest = Absent /\ dest' \in Regions
  <2>1. dest' = [files |-> parts, manifest |-> manifest]
    BY DEF Publish
  <2>2. manifest = [pbf |-> hash[i], request |-> options[i],
                    sums |-> [n \in Summed |-> parts[n]]]
    BY DEF Publish, RegionInv, ValidInv
  <2>3. [n \in Summed |-> parts[n]] \in [Summed -> File]
    BY DEF RegionInv, RegionTypeOK, Files
  <2>4. manifest \in Manifests
    BY <2>2, <2>3 DEF Manifests, RegionInv, RegionTypeOK
  <2> QED BY <2>1, <2>4 DEF Publish, Regions, RegionInv, RegionTypeOK
<1>2. Published = Absent /\ dest' # Absent
  BY <1>1 DEF Published
<1>3. Published' \in Signatures
  <2>1. Whole(dest)' /\ DeclaredSource(dest)'
    BY <1>2 DEF RegionInv, DestInv
  <2>2. dest'.manifest \in Manifests
    BY <1>1 DEF Regions
  <2>3. dest'.manifest.pbf \in Contents /\ dest'.manifest.request \in Options
    BY <2>2 DEF Manifests
  <2> QED BY <1>2, <2>1, <2>3 DEF Published, Signatures
<1>4. parts["poi"] = parts["search"]
  BY DEF Publish, RegionInv, PhaseInv, Found, Tiled
<1>5. Fits(dest)'
  BY <1>4 DEF Publish, Fits
<1>6. Spoilt' = {}
  BY <1>5 DEF Spoilt
<1> QED BY <1>2, <1>3, <1>6 DEF Promise!Appear

(* The index that is moved into a region is its own. *)
LEMMA MoveReindexes ==
    ASSUME RegionInv, NEW a \in Callers, Move(a)
    PROVE  Promise!Reindex \/ UNCHANGED <<Published, Spoilt>>
<1> USE RegionAssumption
<1>1. CASE UNCHANGED dest
  BY <1>1 DEF Published, Spoilt, Whole, DeclaredSource, Fits
<1>2. CASE dest' = [dest EXCEPT !.files["poi"] = workspace]
  <2>1. phase[a] = "moving"
    BY DEF Move, Step
  <2>2. dest # Absent /\ dest \in Regions /\ workspace = dest.files["search"]
    BY <2>1 DEF RegionInv, RegionTypeOK, IndexInv, Opening
  <2>3. workspace \in File
    BY DEF RegionInv, RegionTypeOK
  <2>4. [dest EXCEPT !.files["poi"] = workspace] \in Regions
    BY <2>2, <2>3 DEF Regions
  <2>5. dest' # Absent
    BY <1>2, <2>4
  <2>6. /\ dest'.manifest = dest.manifest
        /\ \A n \in Files \ {"poi"} : dest'.files[n] = dest.files[n]
        /\ dest'.files["poi"] = workspace
    BY <1>2, <2>2 DEF Regions, Files
  <2>7. Summed \subseteq Files \ {"poi"} /\ "tiles" \in Files \ {"poi"}
    BY DEF Files, Summed
  <2>8. Whole(dest) /\ DeclaredSource(dest)
    BY <2>2 DEF RegionInv, DestInv
  <2>9. Whole(dest)' /\ DeclaredSource(dest)'
    BY <2>6, <2>7, <2>8 DEF Whole, DeclaredSource
  <2>10. Published' = Published /\ Published # Absent
    BY <2>2, <2>5, <2>6, <2>8, <2>9, PublishedIsMade DEF Published
  <2>11. Fits(dest)'
    BY <2>2, <2>6, <2>7 DEF Fits, Summed
  <2> QED BY <2>10, <2>11 DEF Promise!Reindex, Spoilt
<1> QED BY <1>1, <1>2 DEF Move

(* Nothing else touches the region. *)
LEMMA OthersLeaveRegion ==
    ASSUME [RegionNext]_regionVars,
           \A i \in Importers : ~Publish(i), \A a \in Callers : ~Move(a)
    PROVE  UNCHANGED dest
<1> USE DEF Elsewhere, Outside
<1>1. ASSUME NEW i \in Importers,
             ImportStep(i) \/ ImportFails(i) \/ \E r \in Options : Import(i, r)
      PROVE  UNCHANGED dest
  BY <1>1 DEF ImportStep, Check, Sign, Signed, Graph, Landmarks, Search,
         Restore,
              Map, Validate, Declare, ImportFails, Import
<1>2. ASSUME NEW o \in Openings, Open(o)
      PROVE  UNCHANGED dest
  BY <1>2 DEF Open
<1>3. ASSUME NEW a \in Callers, OpenStep(a) \/ GiveUp(a) \/ Shut(a)
      PROVE  UNCHANGED dest
  BY <1>3 DEF OpenStep, Verify, Acquire, Clean, Look, Make, Rebuild, Reread,
              GiveUp, Shut
<1>4. CASE Replace \/ Death \/ UNCHANGED regionVars
  BY <1>4 DEF Replace, Death, Dies, regionVars
<1> QED BY <1>1, <1>2, <1>3, <1>4 DEF RegionNext

(* Every step is one of RegionPromise, or a stutter. *)
LEMMA StepKeepsPromise ==
    ASSUME RegionInv, RegionInv', [RegionNext]_regionVars
    PROVE  [Promise!Appear \/ Promise!Reindex]_<<Published, Spoilt>>
<1>1. CASE \E i \in Importers : Publish(i)
  BY <1>1, PublishAppears
<1>2. CASE \E a \in Callers : Move(a)
  BY <1>2, MoveReindexes
<1>3. CASE UNCHANGED dest
  BY <1>3 DEF Published, Spoilt, Whole, DeclaredSource, Fits
<1> QED BY <1>1, <1>2, <1>3, OthersLeaveRegion

(* A region appears at once, whole and made from one source with one choice of
   options, and is not changed after; only its POI index is replaced, by one
   of its own search: the refinement of RegionPromise. *)
THEOREM RegionIsMadeOnce == RegionSpec => RegionAppearsWhole
<1>1. RegionInit => Promise!PromiseInit
  BY RegionInitInv, PublishedIsMade DEF Promise!PromiseInit
<1>2. RegionInv /\ RegionInv' /\ [RegionNext]_regionVars
         => [Promise!Appear \/ Promise!Reindex]_<<Published, Spoilt>>
  BY StepKeepsPromise
<1> QED BY <1>1, <1>2, RegionInvariant, PTL
        DEF RegionSpec, RegionAppearsWhole, Promise!PromiseSpec

-----------------------------------------------------------------------------
(* The log, the tiles and the region together: what is proved of each holds  *)
(* of every behaviour that is about one of them.                             *)
THEOREM StoresAreTheirParts == StoresSpec => StoreSpec /\ Spec /\ RegionSpec
<1>1. StoresInit => StoreInit /\ Init /\ RegionInit
  BY DEF StoresInit
<1>2. [StoresNext]_<<storeVars, vars, regionVars, store, party>> =>
        [StoreNext]_storeVars /\ [Next]_vars /\ [RegionNext]_regionVars
  BY DEF StoresNext, LogNext, StoreNext
<1> QED BY <1>1, <1>2, PTL DEF StoresSpec, StoreSpec, Spec, RegionSpec

(* The variables of the log, the tiles and the region keep their types. *)
THEOREM StoresTypeCorrect == StoresSpec => []StoresTypeOK
<1>1. StoreTypeOK /\ TileTypeOK /\ RegionTypeOK => StoresTypeOK
  BY DEF StoresTypeOK
<1> QED BY <1>1, StoresAreTheirParts, StoreTypeCorrect, TileTypeCorrect, RegionTypeCorrect, PTL
=============================================================================
