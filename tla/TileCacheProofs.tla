--------------------------- MODULE TileCacheProofs ---------------------------
(***************************************************************************)
(* The tile proxy for any number of requests, tiles, sources and changes   *)
(* of the settings.  TileInv is the inductive invariant: what memory, disk *)
(* and flights hold is of the source in their key, and the flights in the  *)
(* map are those that somebody waits for.                                  *)
(***************************************************************************)
EXTENDS TileCache, FiniteSetTheorems, TLAPS

(* What is cached under a key comes from the source in the key. *)
CacheInv ==
    /\ \A k \in DOMAIN mem : mem[k].image = k[1]
    /\ \A k \in DOMAIN files : files[k] = k[1]

(* So does what a flight brings, unless it fails. *)
FlightInv ==
    \A f \in Requests : flight[f].pc # "idle" =>
        /\ flight[f].key[1] = flight[f].source
        /\ flight[f].image \in {flight[f].source, Failed}
        /\ flight[f].pc \in {"save", "warm"} => flight[f].image = flight[f].source

Going(f) == Busy(f) /\ ~flight[f].cancelled

(* The map has the flights that are going, by their keys. *)
ListInv ==
    /\ \A k \in Keys : flights[k] # NoFlight => Going(flights[k]) /\ flight[flights[k]].key = k
    /\ \A f \in Requests : Going(f) => flights[flight[f].key] = f

(* A request waits for a flight of its own key, and only a request that has
   started a flight waits or is answered. *)
RequestInv ==
    \A r \in Requests :
        /\ req[r].pc \in {"looking", "missed", "waiting"} => req[r].key[1] = req[r].source
        /\ req[r].pc = "waiting" => flight[req[r].on].pc # "idle" /\ flight[req[r].on].key = req[r].key
        /\ req[r].pc = "answered" => req[r].image \in {req[r].source, Failed}
        /\ flight[r].pc # "idle" => req[r].pc \in {"waiting", "answered"}

(* A flight counts those who wait for it, and is cancelled when it has none. *)
CountInv ==
    \A f \in Requests :
        /\ IsFiniteSet(Waiters(f))
        /\ flight[f].pc # "idle" => flight[f].waiters = Cardinality(Waiters(f))
        /\ Busy(f) => (flight[f].cancelled <=> flight[f].waiters = 0)

TileInv ==
    TileTypeOK /\ CacheInv /\ FlightInv /\ ListInv /\ RequestInv /\ CountInv

-----------------------------------------------------------------------------
(* Flights.                                                                *)

(* A flight that has started has the fields of a flight. *)
LEMMA FlightTyped ==
    ASSUME TileTypeOK, NEW f \in Requests, flight[f].pc # "idle"
    PROVE  /\ flight[f] \in Flight
           /\ flight[f].key \in Keys /\ flight[f].source \in Sources
           /\ flight[f].image \in Images /\ flight[f].waiters \in Nat
           /\ flight[f].cancelled \in BOOLEAN /\ flight[f].pc \in Running \cup {"done"}
<1>1. flight[f] \in Flight
  BY DEF TileTypeOK, NoReq
<1> QED BY <1>1 DEF Flight

(* A flight goes on with an image of its source, or without one. *)
LEMMA MovesKeepsInv ==
    ASSUME TileInv, NEW f \in Requests, Busy(f), NEW pc \in Running, NEW image,
           image \in {flight[f].source, Failed},
           pc \in {"save", "warm"} => image = flight[f].source,
           Moves(f, pc, image), UNCHANGED <<flights, req>>
    PROVE  /\ flight' \in [Requests -> Flight \cup {NoReq}]
           /\ FlightInv' /\ ListInv' /\ RequestInv' /\ CountInv'
<1> USE DEF TileInv
<1> DEFINE new == [[flight[f] EXCEPT !.pc = pc] EXCEPT !.image = image]
<1>1. flight[f] \in Flight /\ flight[f].pc # "idle"
  BY FlightTyped DEF Busy, Running
<1>2. /\ flight' = [flight EXCEPT ![f] = new]
      /\ flight \in [Requests -> Flight \cup {NoReq}]
  BY DEF Moves, TileTypeOK
<1>3. /\ new \in Flight /\ new.pc = pc /\ new.image = image
      /\ new.key = flight[f].key /\ new.source = flight[f].source
      /\ new.waiters = flight[f].waiters /\ new.cancelled = flight[f].cancelled
  BY <1>1 DEF Flight, Images
<1>4. pc # "idle" /\ pc # "done"
  BY DEF Running
<1> HIDE DEF new
<1>5. flight'[f] = new /\ \A g \in Requests : g # f => flight'[g] = flight[g]
  BY <1>2
<1>6. flight' \in [Requests -> Flight \cup {NoReq}]
  BY <1>2, <1>3
<1>7. FlightInv'
  BY <1>1, <1>3, <1>4, <1>5 DEF FlightInv
<1>8. \A g \in Requests : Busy(g)' = Busy(g) /\ Going(g)' = Going(g)
  BY <1>3, <1>5 DEF Busy, Going
<1>9. ListInv'
  BY <1>3, <1>5, <1>8, TileAssumption DEF ListInv, TileTypeOK
<1>10. RequestInv'
  <2>1. \A g \in Requests : /\ flight'[g].pc # "idle" <=> flight[g].pc # "idle"
                            /\ flight[g].pc # "idle" => flight'[g].key = flight[g].key
    BY <1>1, <1>3, <1>4, <1>5
  <2>2. \A r \in Requests : req[r].pc = "waiting" => req[r].on \in Requests
    BY DEF TileTypeOK, Lookup, Wait, Answer, NoReq
  <2> QED BY <2>1, <2>2 DEF RequestInv
<1>11. CountInv'
  <2>1. \A g \in Requests : Waiters(g)' = Waiters(g)
    BY DEF Waiters
  <2>2. \A g \in Requests : /\ flight'[g].pc # "idle" <=> flight[g].pc # "idle"
                            /\ flight[g].pc # "idle" =>
                                 /\ flight'[g].waiters = flight[g].waiters
                                 /\ flight'[g].cancelled = flight[g].cancelled
    BY <1>1, <1>3, <1>4, <1>5
  <2> QED BY <1>8, <2>1, <2>2 DEF CountInv, Busy, Running
<1> QED BY <1>6, <1>7, <1>9, <1>10, <1>11

(* A file is found, or not; the one of a cancelled flight is not used. *)
LEMMA ReadDiskKeepsInv ==
    ASSUME TileInv, NEW f \in Requests, ReadDisk(f)
    PROVE  TileInv'
<1> USE DEF TileInv
<1>1. Busy(f) /\ flight[f].key \in Keys /\ flight[f].key[1] = flight[f].source
  BY FlightTyped DEF ReadDisk, Busy, Running, FlightInv
<1>2. PICK pc \in {"fetch", "end", "warm"}, image \in {flight[f].source, Failed} :
        /\ Moves(f, pc, image)
        /\ pc = "warm" => image = flight[f].source
  BY <1>1 DEF ReadDisk, CacheInv
<1>3. UNCHANGED <<cfg, caches, flights, req, left, updates>>
  BY DEF ReadDisk
<1>4. /\ flight' \in [Requests -> Flight \cup {NoReq}]
      /\ FlightInv' /\ ListInv' /\ RequestInv' /\ CountInv'
  BY <1>1, <1>2, <1>3, MovesKeepsInv DEF Running
<1> QED BY <1>3, <1>4 DEF TileTypeOK, CacheInv, caches

(* An image comes from upstream. *)
LEMMA FetchKeepsInv ==
    ASSUME TileInv, NEW f \in Requests, Fetch(f)
    PROVE  TileInv'
<1> USE DEF TileInv
<1>1. Busy(f)
  BY DEF Fetch, Busy, Running
<1>2. PICK pc \in {"save", "end"}, image \in {flight[f].source, Failed} :
        /\ Moves(f, pc, image)
        /\ pc = "save" => image = flight[f].source
  BY DEF Fetch
<1>3. UNCHANGED <<cfg, caches, flights, req, left, updates>>
  BY DEF Fetch
<1>4. /\ flight' \in [Requests -> Flight \cup {NoReq}]
      /\ FlightInv' /\ ListInv' /\ RequestInv' /\ CountInv'
  BY <1>1, <1>2, <1>3, MovesKeepsInv DEF Running
<1> QED BY <1>3, <1>4 DEF TileTypeOK, CacheInv, caches

(* A file is written under the key of the flight. *)
LEMMA SaveTileKeepsInv ==
    ASSUME TileInv, NEW f \in Requests, SaveTile(f)
    PROVE  TileInv'
<1> USE DEF TileInv
<1>1. /\ Busy(f) /\ flight[f].key \in Keys /\ flight[f].source \in Sources
      /\ flight[f].image = flight[f].source /\ flight[f].key[1] = flight[f].source
  BY FlightTyped DEF SaveTile, Busy, Running, FlightInv
<1>2. Moves(f, "warm", flight[f].image) /\ UNCHANGED <<cfg, mem, flights, req, left, updates>>
  BY DEF SaveTile
<1>3. /\ flight' \in [Requests -> Flight \cup {NoReq}]
      /\ FlightInv' /\ ListInv' /\ RequestInv' /\ CountInv'
  BY <1>1, <1>2, MovesKeepsInv DEF Running
<1>4. /\ DOMAIN files' \subseteq Keys
      /\ \A k \in DOMAIN files' : files'[k] = k[1] /\ files'[k] \in Sources
  BY <1>1 DEF SaveTile, With, CacheInv, TileTypeOK
<1> QED BY <1>2, <1>3, <1>4 DEF TileTypeOK, CacheInv

(* An entry is set in memory, whatever has to go for it. *)
LEMMA WarmKeepsInv ==
    ASSUME TileInv, NEW f \in Requests, Warm(f)
    PROVE  TileInv'
<1> USE DEF TileInv
<1>1. /\ Busy(f) /\ flight[f].key \in Keys /\ flight[f].source \in Sources
      /\ flight[f].image = flight[f].source /\ flight[f].key[1] = flight[f].source
  BY FlightTyped DEF Warm, Busy, Running, FlightInv
<1>2. Moves(f, "end", flight[f].image) /\ UNCHANGED <<cfg, files, flights, req, left, updates>>
  BY DEF Warm
<1>3. /\ flight' \in [Requests -> Flight \cup {NoReq}]
      /\ FlightInv' /\ ListInv' /\ RequestInv' /\ CountInv'
  BY <1>1, <1>2, MovesKeepsInv DEF Running
<1>4. PICK gone : mem' = With(Restrict(mem, DOMAIN mem \ gone), flight[f].key,
                              [image |-> flight[f].image, fresh |-> TRUE])
  BY DEF Warm
<1>5. /\ DOMAIN mem' \subseteq Keys
      /\ \A k \in DOMAIN mem' : mem'[k].image = k[1] /\ mem'[k] \in [image : Sources, fresh : BOOLEAN]
  <2> DEFINE entry == [image |-> flight[f].image, fresh |-> TRUE]
  <2>1. entry \in [image : Sources, fresh : BOOLEAN] /\ entry.image = flight[f].key[1]
    BY <1>1
  <2> HIDE DEF entry
  <2>2. /\ DOMAIN mem' = (DOMAIN mem \ gone) \cup {flight[f].key}
        /\ \A k \in DOMAIN mem' : mem'[k] = IF k = flight[f].key THEN entry ELSE mem[k]
    BY <1>4 DEF With, Restrict, entry
  <2> QED BY <1>1, <2>1, <2>2 DEF CacheInv, TileTypeOK
<1> QED BY <1>2, <1>3, <1>5 DEF TileTypeOK, CacheInv

(* The flight is over: nobody can join it any more. *)
LEMMA LandKeepsInv ==
    ASSUME TileInv, NEW f \in Requests, Land(f)
    PROVE  TileInv'
<1> USE DEF TileInv
<1> DEFINE new == [[flight[f] EXCEPT !.pc = "done"] EXCEPT !.cancelled = TRUE]
<1>1. flight[f] \in Flight /\ flight[f].pc = "end"
  BY FlightTyped DEF Land
<1>2. /\ flight' = [flight EXCEPT ![f] = new]
      /\ flights' = [k \in Keys |-> IF flights[k] = f THEN NoFlight ELSE flights[k]]
      /\ UNCHANGED <<cfg, mem, files, req, left, updates>>
  BY DEF Land, caches
<1>3. /\ new \in Flight /\ new.pc = "done" /\ new.image = flight[f].image
      /\ new.key = flight[f].key /\ new.source = flight[f].source
      /\ new.waiters = flight[f].waiters
  BY <1>1 DEF Flight
<1> HIDE DEF new
<1>4. flight'[f] = new /\ \A g \in Requests : g # f => flight'[g] = flight[g]
  BY <1>2 DEF TileTypeOK
<1>5. TileTypeOK' /\ CacheInv'
  BY <1>2, <1>3 DEF TileTypeOK, CacheInv
<1>6. FlightInv'
  BY <1>1, <1>3, <1>4 DEF FlightInv
<1>7. ListInv'
  <2>1. ~Going(f)' /\ \A g \in Requests : g # f => Going(g)' = Going(g)
    BY <1>3, <1>4 DEF Going, Busy, Running
  <2>2. \A g \in Requests : Going(g) => flight[g].key \in Keys
    BY FlightTyped DEF Going, Busy, Running
  <2>3. \A k \in Keys : flights[k] \in Requests \cup {NoFlight}
    BY DEF TileTypeOK
  <2>4. \A k \in Keys : flights'[k] = IF flights[k] = f THEN NoFlight ELSE flights[k]
    BY <1>2
  <2>5. \A k \in Keys, g \in Requests : flights'[k] = g => Going(g)' /\ flight'[g].key = k
    BY <1>4, <2>1, <2>4, TileAssumption DEF ListInv
  <2>6. \A g \in Requests : Going(g)' => flights'[flight'[g].key] = g
    BY <1>4, <2>1, <2>2, <2>4 DEF ListInv
  <2> QED BY <2>3, <2>4, <2>5, <2>6 DEF ListInv, Going, Busy
<1>8. RequestInv'
  <2>1. \A r \in Requests : req[r].pc = "waiting" => req[r].on \in Requests
    BY DEF TileTypeOK, Lookup, Wait, Answer, NoReq
  <2> QED BY <1>1, <1>2, <1>3, <1>4, <2>1 DEF RequestInv
<1>9. CountInv'
  <2>1. \A g \in Requests : Waiters(g)' = Waiters(g)
    BY <1>2 DEF Waiters
  <2> QED BY <1>1, <1>3, <1>4, <2>1 DEF CountInv, Busy, Running
<1> QED BY <1>5, <1>6, <1>7, <1>8, <1>9

-----------------------------------------------------------------------------
(* Requests.                                                               *)

(* A request in each of its positions has the fields of that position. *)
LEMMA RequestTyped ==
    ASSUME TileTypeOK, NEW r \in Requests
    PROVE  /\ req[r].pc \in {"looking", "missed"} => req[r] \in Lookup
           /\ req[r].pc = "waiting" => req[r] \in Wait /\ req[r].on \in Requests
           /\ req[r].pc = "answered" => req[r] \in Answer
BY DEF TileTypeOK, Lookup, Wait, Answer, NoReq

(* A request that does not wait, and will not, moves or is answered. *)
LEMMA AsksKeepsInv ==
    ASSUME TileInv, NEW r \in Requests, req[r].pc # "waiting",
           NEW new \in Lookup \cup Answer, req' = [req EXCEPT ![r] = new],
           new.pc \in {"looking", "missed"} => new.key[1] = new.source,
           new.pc = "answered" => new.image \in {new.source, Failed},
           new.pc = "answered" \/ flight[r].pc = "idle",
           UNCHANGED <<flight, flights>>
    PROVE  /\ req' \in [Requests -> Lookup \cup Wait \cup Answer \cup {NoReq}]
           /\ FlightInv' /\ ListInv' /\ RequestInv' /\ CountInv'
<1> USE DEF TileInv
<1>1. new.pc \in {"looking", "missed", "answered"}
  BY DEF Lookup, Answer
<1>2. req'[r] = new /\ \A q \in Requests : q # r => req'[q] = req[q]
  BY DEF TileTypeOK
<1>3. req' \in [Requests -> Lookup \cup Wait \cup Answer \cup {NoReq}]
  BY DEF TileTypeOK
<1>4. FlightInv' /\ ListInv'
  BY DEF FlightInv, ListInv, Going, Busy
<1>5. RequestInv'
  BY <1>1, <1>2 DEF RequestInv
<1>6. \A f \in Requests : Waiters(f)' = Waiters(f)
  BY <1>1, <1>2 DEF Waiters
<1>7. CountInv'
  BY <1>6 DEF CountInv, Busy
<1> QED BY <1>3, <1>4, <1>5, <1>7

(* A request comes in and looks for the source configured now. *)
LEMMA ArriveKeepsInv ==
    ASSUME TileInv, NEW r \in Requests, NEW tile \in Tiles, Arrive(r, tile)
    PROVE  TileInv'
<1> USE DEF TileInv
<1> DEFINE new == [pc |-> "looking", source |-> cfg.source, key |-> Key(cfg.source, tile)]
<1>1. /\ req' = [req EXCEPT ![r] = new] /\ req[r].pc = "idle"
      /\ UNCHANGED <<cfg, caches, flight, flights, left, updates>>
  BY DEF Arrive, NoReq
<1>2. new \in Lookup /\ new.key[1] = new.source /\ new.pc = "looking"
  BY DEF Lookup, Key, Keys, TileTypeOK
<1>3. flight[r].pc = "idle"
  BY <1>1 DEF RequestInv
<1> HIDE DEF new
<1>4. /\ req' \in [Requests -> Lookup \cup Wait \cup Answer \cup {NoReq}]
      /\ FlightInv' /\ ListInv' /\ RequestInv' /\ CountInv'
  BY <1>1, <1>2, <1>3, AsksKeepsInv
<1> QED BY <1>1, <1>4 DEF TileTypeOK, CacheInv, caches

(* The answer of memory, or of nobody, to a request that does not wait. *)
LEMMA AnswersAtOnce ==
    ASSUME TileInv, NEW r \in Requests, req[r].pc \in {"looking", "missed"},
           NEW image \in {req[r].source, Failed}, Answers(r, image),
           UNCHANGED <<flight, flights>>
    PROVE  /\ req' \in [Requests -> Lookup \cup Wait \cup Answer \cup {NoReq}]
           /\ FlightInv' /\ ListInv' /\ RequestInv' /\ CountInv'
<1> DEFINE new == [pc |-> "answered", source |-> req[r].source, image |-> image]
<1>1. req' = [req EXCEPT ![r] = new]
  BY DEF Answers
<1>2. req[r].source \in Sources
  BY RequestTyped DEF TileInv, Lookup
<1>3. new \in Answer /\ new.pc = "answered" /\ new.image \in {new.source, Failed}
  BY <1>2 DEF Answer, Images
<1> HIDE DEF new
<1> QED BY <1>1, <1>3, AsksKeepsInv

(* What memory has under a key is of the source of the request. *)
LEMMA FreshIsOfSource ==
    ASSUME TileInv, NEW r \in Requests, req[r].pc \in {"looking", "missed"}, Fresh(req[r].key)
    PROVE  mem[req[r].key].image = req[r].source
BY DEF TileInv, CacheInv, RequestInv, Fresh

(* A tile is found in memory, or not. *)
LEMMA LookInMemKeepsInv ==
    ASSUME TileInv, NEW r \in Requests, LookInMem(r)
    PROVE  TileInv'
<1>1. req[r].pc = "looking" /\ UNCHANGED <<cfg, caches, flight, flights, left, updates>>
  BY DEF LookInMem
<1>2. /\ req' \in [Requests -> Lookup \cup Wait \cup Answer \cup {NoReq}]
      /\ FlightInv' /\ ListInv' /\ RequestInv' /\ CountInv'
  <2>1. CASE Fresh(req[r].key)
    BY <1>1, <2>1, FreshIsOfSource, AnswersAtOnce DEF LookInMem
  <2>2. CASE ~Fresh(req[r].key)
    <3> DEFINE new == [req[r] EXCEPT !.pc = "missed"]
    <3>1. req' = [req EXCEPT ![r] = new]
      BY <2>2 DEF LookInMem
    <3>2. req[r] \in Lookup /\ req[r].key[1] = req[r].source /\ flight[r].pc = "idle"
      BY <1>1, RequestTyped DEF TileInv, RequestInv
    <3>3. new \in Lookup /\ new.pc = "missed" /\ new.key[1] = new.source
      BY <3>2 DEF Lookup
    <3> HIDE DEF new
    <3> QED BY <1>1, <3>1, <3>2, <3>3, AsksKeepsInv
  <2> QED BY <2>1, <2>2
<1> QED BY <1>1, <1>2 DEF TileInv, TileTypeOK, CacheInv, caches

(* A request begins to wait for a flight of its key that is going. *)
LEMMA WaitsKeepsInv ==
    ASSUME TileInv, NEW r \in Requests, req[r].pc = "missed", NEW f \in Requests, 
           NEW new \in Flight, flight' = [flight EXCEPT ![f] = new],
           new.pc \in Running, ~new.cancelled, new.key = req[r].key,
           req' = [req EXCEPT ![r] = [pc |-> "waiting", key |-> req[r].key,
                                      source |-> req[r].source, on |-> f]],
           flights' = [flights EXCEPT ![req[r].key] = f],
           new.source = new.key[1], new.image \in {new.source, Failed},
           new.pc \in {"save", "warm"} => new.image = new.source,
           \/ f = r /\ new.waiters = 1 /\ flights[req[r].key] = NoFlight
           \/ flights[req[r].key] = f /\ new.waiters = flight[f].waiters + 1,
           UNCHANGED <<cfg, caches, left, updates>>
    PROVE  TileInv'
<1> USE DEF TileInv
<1> DEFINE k == req[r].key
           wait == [pc |-> "waiting", key |-> k, source |-> req[r].source, on |-> f]
<1>1. k \in Keys /\ k[1] = req[r].source /\ req[r].source \in Sources /\ flight[r].pc = "idle"
  BY RequestTyped DEF Lookup, RequestInv
<1>2. /\ wait \in Wait /\ wait.pc = "waiting" /\ wait.key = k
      /\ wait.source = req[r].source /\ wait.on = f
  BY <1>1 DEF Wait
<1> HIDE DEF wait
<1>3. req'[r] = wait /\ \A q \in Requests : q # r => req'[q] = req[q]
  BY DEF TileTypeOK, wait
<1>4. flight'[f] = new /\ \A g \in Requests : g # f => flight'[g] = flight[g]
  BY DEF TileTypeOK
<1>5. flights'[k] = f /\ \A x \in Keys : x # k => flights'[x] = flights[x]
  BY <1>1 DEF TileTypeOK
<1>6. new.pc \notin {"idle", "done"}
  BY DEF Running
<1>7. \/ f = r /\ flight[f].pc = "idle" /\ new.waiters = 1 /\ flights[k] = NoFlight
      \/ Going(f) /\ flight[f].key = k /\ new.waiters = flight[f].waiters + 1 /\ flights[k] = f
  BY <1>1, TileAssumption DEF ListInv
<1> HIDE DEF k
<1>8. TileTypeOK' /\ CacheInv'
  <2>1. req' \in [Requests -> Lookup \cup Wait \cup Answer \cup {NoReq}]
    BY <1>2 DEF TileTypeOK, wait, k
  <2>2. flight' \in [Requests -> Flight \cup {NoReq}] /\ flights' \in [Keys -> Requests \cup {NoFlight}]
    BY DEF TileTypeOK
  <2> QED BY <2>1, <2>2 DEF TileTypeOK, CacheInv, caches
<1>9. FlightInv'
  BY <1>4 DEF FlightInv
<1>10. ListInv'
  <2>1. Going(f)' /\ \A g \in Requests : g # f => Going(g)' = Going(g)
    BY <1>4 DEF Going, Busy
  <2>2. \A g \in Requests : Going(g) => flight[g].key \in Keys
    BY FlightTyped DEF Going, Busy, Running
  <2>3. \A x \in Keys : flights[x] \in Requests \cup {NoFlight}
    BY DEF TileTypeOK
  <2>4. \A x \in Keys : flights[x] = f => x = k
    BY <1>7, TileAssumption DEF ListInv, Going, Busy, Running
  <2>5. \A x \in Keys, g \in Requests : flights'[x] = g => Going(g)' /\ flight'[g].key = x
    BY <1>4, <1>5, <2>1, <2>4, TileAssumption DEF ListInv, k
  <2>6. ASSUME NEW g \in Requests, Going(g)' PROVE flights'[flight'[g].key] = g
    <3>1. CASE g = f
      BY <1>4, <1>5, <3>1 DEF k
    <3>2. CASE g # f
      <4>1. Going(g) /\ flight'[g] = flight[g] /\ flights[flight[g].key] = g
        BY <1>4, <2>1, <2>6, <3>2 DEF ListInv
      <4>2. flight[g].key # k
        BY <1>7, <3>2, <4>1, TileAssumption
      <4> QED BY <1>5, <2>2, <4>1, <4>2
    <3> QED BY <3>1, <3>2
  <2> QED BY <1>5, <2>3, <2>5, <2>6 DEF ListInv, Going, Busy
<1>11. RequestInv'
  <2>1. \A q \in Requests : req[q].pc = "waiting" => req[q].on \in Requests
    BY RequestTyped
  <2>2. \A q \in Requests : q # r /\ req[q].pc = "waiting" /\ req[q].on = f => req[q].key = k
    BY <1>7 DEF RequestInv
  <2>3. \A q \in Requests : flight'[q].pc # "idle" => flight[q].pc # "idle" \/ q = r
    BY <1>4, <1>7 DEF Going, Busy, Running
  <2> QED BY <1>1, <1>2, <1>3, <1>4, <1>6, <2>1, <2>2, <2>3 DEF RequestInv, k
<1>12. CountInv'
  <2>1. r \notin Waiters(f) /\ Waiters(f)' = Waiters(f) \cup {r}
    BY <1>2, <1>3 DEF Waiters
  <2>2. \A g \in Requests : g # f => Waiters(g)' = Waiters(g)
    BY <1>2, <1>3 DEF Waiters
  <2>3. IsFiniteSet(Waiters(f)) /\ Cardinality(Waiters(f)) \in Nat
    BY FS_CardinalityType DEF CountInv
  <2>4. IsFiniteSet(Waiters(f)') /\ Cardinality(Waiters(f)') = Cardinality(Waiters(f)) + 1
    BY <2>1, <2>3, FS_AddElement
  <2>5. new.waiters = Cardinality(Waiters(f)) + 1
    <3>1. CASE f = r /\ flight[f].pc = "idle" /\ new.waiters = 1
      <4>1. Waiters(f) = {}
        BY <3>1 DEF RequestInv, Waiters
      <4> QED BY <3>1, <4>1, FS_EmptySet
    <3>2. CASE Going(f) /\ new.waiters = flight[f].waiters + 1
      BY <3>2 DEF CountInv, Going, Busy, Running
    <3> QED BY <1>7, <3>1, <3>2
  <2>6. new.waiters # 0 /\ IsFiniteSet(Waiters(f)') /\ new.waiters = Cardinality(Waiters(f)')
    BY <2>3, <2>4, <2>5
  <2> QED BY <1>4, <2>2, <2>6 DEF CountInv, Busy
<1> QED BY <1>8, <1>9, <1>10, <1>11, <1>12

(* A request finds the tile after all, joins a flight or starts one. *)
LEMMA JoinKeepsInv ==
    ASSUME TileInv, NEW r \in Requests, Join(r)
    PROVE  TileInv'
<1> DEFINE k == req[r].key
           f == flights[k]
           wait(on) == req' = [req EXCEPT ![r] = [pc |-> "waiting", key |-> k,
                                                  source |-> req[r].source, on |-> on]]
<1>1. req[r].pc = "missed" /\ UNCHANGED <<cfg, caches, left, updates>>
  BY DEF Join
<1>2. /\ k \in Keys /\ k[1] = req[r].source /\ req[r].source \in Sources
      /\ f \in Requests \cup {NoFlight}
  BY <1>1, RequestTyped DEF TileInv, TileTypeOK, Lookup, RequestInv
<1>3. ASSUME NEW image \in {req[r].source, Failed}, Answers(r, image), UNCHANGED <<flight, flights>>
      PROVE  TileInv'
  <2>1. /\ req' \in [Requests -> Lookup \cup Wait \cup Answer \cup {NoReq}]
        /\ FlightInv' /\ ListInv' /\ RequestInv' /\ CountInv'
    BY <1>1, <1>3, AnswersAtOnce
  <2> QED BY <1>1, <1>3, <2>1 DEF TileInv, TileTypeOK, CacheInv, caches
<1>4. CASE f # NoFlight /\ flight' = [flight EXCEPT ![f].waiters = @ + 1] /\ wait(f) /\ UNCHANGED flights
  <2> DEFINE new == [flight[f] EXCEPT !.waiters = @ + 1]
  <2>1. f \in Requests /\ Going(f) /\ flight[f].key = k /\ flight[f] \in Flight /\ flight[f].pc # "idle"
    BY <1>2, <1>4, FlightTyped DEF TileInv, ListInv, Going, Busy, Running
  <2>2. /\ new \in Flight /\ new.pc = flight[f].pc /\ new.cancelled = flight[f].cancelled
        /\ new.key = k /\ new.source = flight[f].source /\ new.image = flight[f].image
        /\ new.waiters = flight[f].waiters + 1
    <3> DEFINE old == flight[f]
    <3>1. old \in Flight /\ old.key = k /\ new = [old EXCEPT !.waiters = @ + 1]
      BY <2>1
    <3> HIDE DEF old, new
    <3>2. /\ new \in Flight /\ new.pc = old.pc /\ new.cancelled = old.cancelled
          /\ new.key = old.key /\ new.source = old.source /\ new.image = old.image
          /\ new.waiters = old.waiters + 1
      BY <3>1 DEF Flight
    <3> QED BY <3>1, <3>2 DEF old
  <2>3. flight' = [flight EXCEPT ![f] = new] /\ flights' = [flights EXCEPT ![k] = f]
    BY <1>2, <1>4 DEF TileInv, TileTypeOK
  <2>4. /\ new.pc \in Running /\ ~new.cancelled /\ new.source = new.key[1]
        /\ new.image \in {new.source, Failed}
        /\ new.pc \in {"save", "warm"} => new.image = new.source
    <3>1. flight[f].pc \in Running /\ ~flight[f].cancelled
      BY <2>1 DEF Going, Busy
    <3>2. /\ flight[f].key[1] = flight[f].source
          /\ flight[f].image \in {flight[f].source, Failed}
          /\ flight[f].pc \in {"save", "warm"} => flight[f].image = flight[f].source
      BY <2>1 DEF TileInv, FlightInv
    <3> HIDE DEF new
    <3> QED BY <2>1, <2>2, <3>1, <3>2
  <2> HIDE DEF new
  <2> QED BY <1>1, <1>4, <2>1, <2>2, <2>3, <2>4, WaitsKeepsInv
<1>5. CASE f = NoFlight /\ flight' = [flight EXCEPT ![r] = NewFlight(r)]
           /\ flights' = [flights EXCEPT ![k] = r] /\ wait(r)
  <2> DEFINE new == NewFlight(r)
  <2>1. /\ new \in Flight /\ new.pc = "disk" /\ new.cancelled = FALSE /\ new.key = k
        /\ new.source = k[1] /\ new.image = Failed /\ new.waiters = 1
    BY <1>2 DEF NewFlight, Flight, Running, Images
  <2>2. new.pc \in Running
    BY <2>1 DEF Running
  <2> HIDE DEF new
  <2>3. flight' = [flight EXCEPT ![r] = new]
    BY <1>5 DEF new
  <2> QED BY <1>1, <1>5, <2>1, <2>2, <2>3, WaitsKeepsInv
<1> QED
  <2>1. CASE Answers(r, Failed) /\ UNCHANGED <<flight, flights>>
    BY <1>3, <2>1
  <2>2. CASE Fresh(k) /\ Answers(r, mem[k].image) /\ UNCHANGED <<flight, flights>>
    BY <1>1, <1>3, <2>2, FreshIsOfSource
  <2> QED BY <1>4, <1>5, <2>1, <2>2 DEF Join

(* A browser that goes away is only noted. *)
LEMMA DisconnectKeepsInv ==
    ASSUME TileInv, NEW r \in Requests, Disconnect(r)
    PROVE  TileInv'
<1>1. UNCHANGED <<cfg, caches, flight, flights, req, updates>> /\ left' \subseteq Requests
  BY DEF TileInv, TileTypeOK, Disconnect
<1>2. \A f \in Requests : Waiters(f)' = Waiters(f)
  BY <1>1 DEF Waiters
<1> QED BY <1>1, <1>2 DEF TileInv, TileTypeOK, CacheInv, FlightInv, ListInv, Going, Busy, RequestInv,
           CountInv, caches

(* A request leaves the flight f with or without the image; the last one
   cancels the flight. *)
LEMMA LeavesKeepsInv ==
    ASSUME TileInv, NEW r \in Requests, NEW f \in Requests, f = req[r].on, Leave(r)
    PROVE  TileInv'
<1> USE DEF TileInv
<1> DEFINE k    == flight[f].key
           last == flight[f].waiters = 1
           new  == [[flight[f] EXCEPT !.waiters = @ - 1] EXCEPT !.cancelled = @ \/ last]
<1>1. /\ req[r].pc = "waiting" /\ req[r] \in Wait /\ f \in Requests /\ req[r].source \in Sources
      /\ flight[f].pc # "idle" /\ k = req[r].key /\ k[1] = req[r].source
  BY RequestTyped DEF Leave, Wait, RequestInv
<1>2. /\ flight[f] \in Flight /\ flight[f].source = k[1] /\ k \in Keys
      /\ flight[f].image \in {flight[f].source, Failed} /\ flight[f].waiters \in Nat
      /\ flight[f].cancelled \in BOOLEAN
  BY <1>1, FlightTyped DEF FlightInv
<1>3. PICK image \in {req[r].source, Failed} : Answers(r, image)
  BY <1>1, <1>2 DEF Leave
<1>4. /\ flight' = [flight EXCEPT ![f] = new]
      /\ flights' = IF last /\ flights[k] = f THEN [flights EXCEPT ![k] = NoFlight] ELSE flights
      /\ UNCHANGED <<cfg, mem, files, left, updates>>
  BY DEF Leave, LeaveFlight, caches
<1> DEFINE answer == [pc |-> "answered", source |-> req[r].source, image |-> image]
<1>5. answer \in Answer /\ answer.pc = "answered" /\ answer.image \in {answer.source, Failed}
  BY <1>1 DEF Answer, Images
<1>6. req' = [req EXCEPT ![r] = answer]
  BY <1>3 DEF Answers
<1> HIDE DEF answer
<1>7. req'[r] = answer /\ \A q \in Requests : q # r => req'[q] = req[q]
  BY <1>6 DEF TileTypeOK
<1>8. r \in Waiters(f)
  BY <1>1 DEF Waiters
<1>9. /\ IsFiniteSet(Waiters(f)) /\ flight[f].waiters = Cardinality(Waiters(f))
      /\ flight[f].waiters >= 1
  <2>1. IsFiniteSet(Waiters(f)) /\ flight[f].waiters = Cardinality(Waiters(f))
    BY <1>1 DEF CountInv
  <2>2. Cardinality(Waiters(f)) # 0
    BY <1>8, <2>1, FS_EmptySet
  <2> QED BY <1>2, <2>1, <2>2
<1>10. /\ new \in Flight /\ new.pc = flight[f].pc /\ new.image = flight[f].image
       /\ new.key = k /\ new.source = flight[f].source
       /\ new.waiters = flight[f].waiters - 1
       /\ new.cancelled = (flight[f].cancelled \/ last)
  <2> DEFINE fewer == [flight[f] EXCEPT !.waiters = @ - 1]
             all   == flight[f].cancelled \/ last
  <2>1. /\ fewer \in Flight /\ fewer.waiters = flight[f].waiters - 1 /\ fewer.pc = flight[f].pc
        /\ fewer.image = flight[f].image /\ fewer.key = k /\ fewer.source = flight[f].source
        /\ fewer.cancelled = flight[f].cancelled
    BY <1>2, <1>9 DEF Flight
  <2>2. all \in BOOLEAN
    OBVIOUS
  <2>3. new = [fewer EXCEPT !.cancelled = all]
    BY <2>1
  <2> HIDE DEF fewer, all
  <2>4. /\ new \in Flight /\ new.pc = fewer.pc /\ new.image = fewer.image
        /\ new.key = fewer.key /\ new.source = fewer.source /\ new.waiters = fewer.waiters
        /\ new.cancelled = all
    <3> HIDE DEF new
    <3> QED BY <2>1, <2>2, <2>3 DEF Flight
  <2> HIDE DEF new
  <2> QED BY <2>1, <2>4 DEF all
<1> HIDE DEF new
<1>11. flight'[f] = new /\ \A g \in Requests : g # f => flight'[g] = flight[g]
  BY <1>1, <1>4 DEF TileTypeOK
<1>12. TileTypeOK' /\ CacheInv'
  BY <1>2, <1>4, <1>5, <1>6, <1>10 DEF TileTypeOK, CacheInv
<1>13. FlightInv'
  BY <1>1, <1>10, <1>11 DEF FlightInv
<1>14. ListInv'
  <2>1. /\ Going(f)' = (Going(f) /\ ~last)
        /\ \A g \in Requests : g # f => Going(g)' = Going(g)
    BY <1>10, <1>11 DEF Going, Busy
  <2>2. \A g \in Requests : Going(g) => flight[g].key \in Keys /\ flights[flight[g].key] = g
    BY FlightTyped DEF Going, Busy, Running, ListInv
  <2>3. \A x \in Keys : flights[x] \in Requests \cup {NoFlight}
    BY DEF TileTypeOK
  <2>4. \A x \in Keys : flights'[x] = IF last /\ flights[k] = f /\ x = k THEN NoFlight ELSE flights[x]
    BY <1>2, <1>4 DEF TileTypeOK
  <2>5. \A x \in Keys : flights[x] = f => x = k
    BY <1>1, TileAssumption DEF ListInv
  <2>6. \A x \in Keys, g \in Requests : flights'[x] = g => Going(g)' /\ flight'[g].key = x
    <3> SUFFICES ASSUME NEW x \in Keys, NEW g \in Requests, flights'[x] = g
                 PROVE  Going(g)' /\ flight'[g].key = x
      OBVIOUS
    <3>1. flights[x] = g /\ Going(g) /\ flight[g].key = x
      BY <2>4, TileAssumption DEF ListInv
    <3>2. CASE g = f
      <4>1. x = k /\ ~last
        BY <2>4, <3>1, <3>2, TileAssumption
      <4> QED BY <1>10, <1>11, <2>1, <3>1, <3>2, <4>1
    <3>3. CASE g # f
      BY <1>11, <2>1, <3>1, <3>3
    <3> QED BY <3>2, <3>3
  <2>7. \A g \in Requests : Going(g)' => flights'[flight'[g].key] = g
    <3> SUFFICES ASSUME NEW g \in Requests, Going(g)' PROVE flights'[flight'[g].key] = g
      OBVIOUS
    <3>1. Going(g) /\ (g = f => ~last)
      BY <2>1
    <3>2. flight'[g].key = flight[g].key
      BY <1>10, <1>11
    <3>3. ~(last /\ flights[k] = f /\ flight[g].key = k)
      BY <2>2, <3>1
    <3> QED BY <2>2, <2>4, <3>1, <3>2, <3>3
  <2> QED BY <2>3, <2>4, <2>6, <2>7 DEF ListInv, Going, Busy
<1>15. RequestInv'
  <2>1. \A q \in Requests : req[q].pc = "waiting" => req[q].on \in Requests
    BY RequestTyped
  <2> QED BY <1>1, <1>5, <1>7, <1>10, <1>11, <2>1 DEF RequestInv
<1>16. CountInv'
  <2>1. Waiters(f)' = Waiters(f) \ {r}
    BY <1>1, <1>5, <1>7 DEF Waiters
  <2>2. \A g \in Requests : g # f => Waiters(g)' = Waiters(g)
    BY <1>1, <1>5, <1>7 DEF Waiters
  <2>3. IsFiniteSet(Waiters(f)') /\ Cardinality(Waiters(f)') = Cardinality(Waiters(f)) - 1
    BY <1>8, <1>9, <2>1, FS_RemoveElement
  <2>4. flight'[f].waiters = Cardinality(Waiters(f)')
    BY <1>9, <1>10, <1>11, <2>3
  <2>5. Busy(f)' => (flight'[f].cancelled <=> flight'[f].waiters = 0)
    <3> SUFFICES ASSUME Busy(f)' PROVE flight'[f].cancelled <=> flight'[f].waiters = 0
      OBVIOUS
    <3>1. ~flight[f].cancelled
      BY <1>9, <1>10, <1>11 DEF CountInv, Busy
    <3>2. flight'[f].cancelled <=> last
      BY <1>10, <1>11, <3>1
    <3>3. flight'[f].waiters = 0 <=> last
      BY <1>2, <1>10, <1>11
    <3> QED BY <3>2, <3>3
  <2> QED BY <1>11, <2>2, <2>3, <2>4, <2>5 DEF CountInv, Busy
<1> QED BY <1>12, <1>13, <1>14, <1>15, <1>16

(* So does every request that leaves. *)
LEMMA LeaveKeepsInv ==
    ASSUME TileInv, NEW r \in Requests, Leave(r)
    PROVE  TileInv'
<1>1. req[r].on \in Requests
  BY RequestTyped DEF TileInv, Leave
<1> QED BY <1>1, LeavesKeepsInv

-----------------------------------------------------------------------------
(* The rest of the cache.                                                  *)

(* Settings, expiry and the hourly eviction take entries away or leave them. *)
LEMMA DropsKeepInv ==
    ASSUME TileInv, UNCHANGED <<flight, flights, req, left>>,
           cfg' \in [source : Sources, max : Capacities], updates' \in 0..MaxUpdates,
           DOMAIN mem' \subseteq DOMAIN mem, DOMAIN files' \subseteq DOMAIN files,
           \A k \in DOMAIN mem' : mem'[k].image = mem[k].image /\ mem'[k] \in [image : Sources, fresh : BOOLEAN],
           \A k \in DOMAIN files' : files'[k] = files[k]
    PROVE  TileInv'
<1>1. TileTypeOK' /\ CacheInv'
  BY DEF TileInv, TileTypeOK, CacheInv
<1>2. \A f \in Requests : Waiters(f)' = Waiters(f)
  BY DEF Waiters
<1> QED BY <1>1, <1>2 DEF TileInv, FlightInv, ListInv, Going, Busy, RequestInv, CountInv

(* A change of the settings empties the memory, not the disk. *)
LEMMA UpdateKeepsInv ==
    ASSUME TileInv, NEW source \in Sources, NEW max \in Capacities, Update(source, max)
    PROVE  TileInv'
<1>1. /\ UNCHANGED <<files, flight, flights, req, left>>
      /\ cfg' \in [source : Sources, max : Capacities] /\ updates' \in 0..MaxUpdates
  BY TileAssumption DEF Update, TileInv, TileTypeOK
<1>2. mem' = mem \/ DOMAIN mem' = {}
  BY DEF Update, Restrict
<1>3. \A k \in DOMAIN mem' : mem'[k].image = mem[k].image /\ mem'[k] \in [image : Sources, fresh : BOOLEAN]
  BY <1>2 DEF TileInv, TileTypeOK
<1> QED BY <1>1, <1>2, <1>3, DropsKeepInv

(* An entry or a file is too old from now on. *)
LEMMA ExpireKeepsInv ==
    ASSUME TileInv, NEW k \in Keys, Expire(k)
    PROVE  TileInv'
<1>1. /\ UNCHANGED <<cfg, flight, flights, req, left, updates>>
      /\ cfg \in [source : Sources, max : Capacities] /\ updates \in 0..MaxUpdates
      /\ \A x \in DOMAIN mem : mem[x] \in [image : Sources, fresh : BOOLEAN]
  BY DEF Expire, TileInv, TileTypeOK
<1>2. CASE mem' = [mem EXCEPT ![k].fresh = FALSE] /\ UNCHANGED files
  <2>1. DOMAIN mem' = DOMAIN mem
    BY <1>2
  <2>2. \A x \in DOMAIN mem' :
          mem'[x].image = mem[x].image /\ mem'[x] \in [image : Sources, fresh : BOOLEAN]
    <3> SUFFICES ASSUME NEW x \in DOMAIN mem
                 PROVE  mem'[x].image = mem[x].image /\ mem'[x] \in [image : Sources, fresh : BOOLEAN]
      BY <2>1
    <3>1. CASE x = k
      <4>1. mem'[x] = [mem[x] EXCEPT !.fresh = FALSE]
        BY <1>2, <3>1
      <4> QED BY <1>1, <4>1
    <3>2. CASE x # k
      BY <1>1, <1>2, <3>2
    <3> QED BY <3>1, <3>2
  <2> QED BY <1>1, <1>2, <2>1, <2>2, DropsKeepInv
<1>3. CASE files' = Restrict(files, DOMAIN files \ {k}) /\ UNCHANGED mem
  BY <1>1, <1>3, DropsKeepInv DEF Restrict
<1> QED BY <1>2, <1>3 DEF Expire

(* What has expired is evicted. *)
LEMMA EvictKeepsInv ==
    ASSUME TileInv, Evict
    PROVE  TileInv'
<1>1. /\ UNCHANGED <<cfg, files, flight, flights, req, left, updates>>
      /\ cfg \in [source : Sources, max : Capacities] /\ updates \in 0..MaxUpdates
      /\ \A x \in DOMAIN mem : mem[x] \in [image : Sources, fresh : BOOLEAN]
  BY DEF Evict, TileInv, TileTypeOK
<1>2. /\ DOMAIN mem' \subseteq DOMAIN mem
      /\ \A x \in DOMAIN mem' : mem'[x] = mem[x]
  BY DEF Evict, Restrict
<1> QED BY <1>1, <1>2, DropsKeepInv

-----------------------------------------------------------------------------
(* An empty cache and no requests: the invariant holds. *)
LEMMA TileInitInv == Init => TileInv
<1> SUFFICES ASSUME Init PROVE TileInv
  OBVIOUS
<1>1. TileTypeOK
  BY TileAssumption DEF Init, TileTypeOK
<1>2. CacheInv /\ FlightInv /\ ListInv /\ RequestInv
  BY DEF Init, CacheInv, FlightInv, ListInv, Going, Busy, Running, RequestInv, NoReq
<1>3. \A f \in Requests : Waiters(f) = {} /\ flight[f].pc = "idle"
  BY DEF Init, Waiters, NoReq
<1>4. CountInv
  BY <1>3, FS_EmptySet DEF CountInv, Busy, Running
<1> QED BY <1>1, <1>2, <1>4 DEF TileInv

(* Every step keeps the invariant. *)
LEMMA TileStepInv == TileInv /\ [Next]_vars => TileInv'
<1> SUFFICES ASSUME TileInv, [Next]_vars PROVE TileInv'
  OBVIOUS
<1>1. ASSUME NEW r \in Requests, NEW tile \in Tiles, Arrive(r, tile) PROVE TileInv'
  BY <1>1, ArriveKeepsInv
<1>2. ASSUME NEW r \in Requests, Serve(r) PROVE TileInv'
  BY <1>2, LookInMemKeepsInv, JoinKeepsInv, LeaveKeepsInv DEF Serve
<1>3. ASSUME NEW r \in Requests, Disconnect(r) PROVE TileInv'
  BY <1>3, DisconnectKeepsInv
<1>4. ASSUME NEW r \in Requests, Fill(r) PROVE TileInv'
  BY <1>4, ReadDiskKeepsInv, FetchKeepsInv, SaveTileKeepsInv, WarmKeepsInv, LandKeepsInv DEF Fill
<1>5. ASSUME NEW source \in Sources, NEW max \in Capacities, Update(source, max) PROVE TileInv'
  BY <1>5, UpdateKeepsInv
<1>6. ASSUME NEW k \in Keys, Expire(k) PROVE TileInv'
  BY <1>6, ExpireKeepsInv
<1>7. CASE Evict
  BY <1>7, EvictKeepsInv
<1>8. CASE UNCHANGED vars
  <2>1. \A f \in Requests : Waiters(f)' = Waiters(f)
    BY <1>8 DEF vars, Waiters
  <2> QED BY <1>8, <2>1 DEF vars, caches, TileInv, TileTypeOK, CacheInv, FlightInv, ListInv, Going,
             Busy, RequestInv, CountInv
<1> QED BY <1>1, <1>2, <1>3, <1>4, <1>5, <1>6, <1>7, <1>8 DEF Next

(* The inductive invariant holds in every reachable state. *)
THEOREM TileInvariant == Spec => []TileInv
<1>1. Init => TileInv
  BY TileInitInv
<1>2. TileInv /\ [Next]_vars => TileInv'
  BY TileStepInv
<1> QED BY <1>1, <1>2, PTL DEF Spec

(* The variables of the tile proxy keep their types. *)
THEOREM TileTypeCorrect == Spec => []TileTypeOK
<1>1. TileInv => TileTypeOK
  BY DEF TileInv
<1> QED BY <1>1, TileInvariant, PTL

(* Nobody is answered with a tile of another source, whenever the settings
   change while requests and downloads are under way. *)
THEOREM AnswersAreOfTheirSource == Spec => []ServedFromItsSource
<1>1. TileInv => ServedFromItsSource
  BY DEF TileInv, RequestInv, ServedFromItsSource
<1> QED BY <1>1, TileInvariant, PTL

(* A download goes on exactly as long as somebody waits for it, and there is
   one for each tile of a source. *)
THEOREM DownloadsAreShared == Spec => []SharedWhileWanted
<1>1. TileInv => SharedWhileWanted
  <2> SUFFICES ASSUME TileInv, NEW f \in Requests
               PROVE  /\ Busy(f) => (Going(f) <=> Waiters(f) # {})
                      /\ \A g \in Requests :
                           Going(f) /\ Going(g) /\ flight[f].key = flight[g].key => f = g
    BY DEF SharedWhileWanted, Going
  <2>1. ASSUME Busy(f) PROVE Going(f) <=> Waiters(f) # {}
    <3>1. IsFiniteSet(Waiters(f)) /\ flight[f].waiters = Cardinality(Waiters(f))
      BY <2>1 DEF TileInv, CountInv, Busy, Running
    <3>2. Cardinality(Waiters(f)) = 0 <=> Waiters(f) = {}
      BY <3>1, FS_EmptySet
    <3> QED BY <2>1, <3>1, <3>2 DEF TileInv, CountInv, Going
  <2>2. \A g \in Requests : Going(f) /\ Going(g) /\ flight[f].key = flight[g].key => f = g
    BY DEF TileInv, ListInv
  <2> QED BY <2>1, <2>2
<1> QED BY <1>1, TileInvariant, PTL
=============================================================================
