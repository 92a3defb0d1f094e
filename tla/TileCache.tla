------------------------------ MODULE TileCache ------------------------------
(***************************************************************************)
(* The tile proxy of the server: TileCache in cmd/main.go and the shared   *)
(* downloads ("flights") of cmd/tile_proxy.go.  A tile is looked up in     *)
(* memory, then on disk, then upstream; requests for one tile of one       *)
(* source share a flight, which is cancelled when its last waiter leaves,  *)
(* while the settings may switch the source at any moment.                 *)
(*                                                                         *)
(* A section under tc.mu is one action.  A flight is named by the request  *)
(* that started it, and the image of a tile by the source it came from.    *)
(* Requests the proxy refuses by their path or for a source that belongs   *)
(* into the browser change nothing and are left out, and so is Close, that *)
(* the program never calls.  CacheDir is taken not to change.              *)
(***************************************************************************)
EXTENDS Naturals, FiniteSets, Functions

CONSTANTS
    Requests,    \* the browser's requests
    Tiles,       \* z/x/y
    Sources,     \* what a configuration can have upstream
    Capacities,  \* tiles in memory, at most
    NoFlight,    \* no flight
    Failed,      \* the answer 502 Bad Gateway
    MaxUpdates   \* bound: how often the settings change

ASSUME TileAssumption ==
    /\ NoFlight \notin Requests
    /\ Failed \notin Sources
    /\ Capacities \subseteq Nat \ {0}
    /\ MaxUpdates \in Nat

VARIABLES
    cfg,      \* tc.cfg with tc.source and tc.memMax
    mem,      \* tc.mem, by key; an entry may have expired
    files,    \* the tile files that are not too old, by key
    flight,   \* flight[r]: the flight request r has started
    flights,  \* tc.flights
    req,      \* req[r]: where a request is, and what it has been answered
    left,     \* the requests whose browser has gone
    updates   \* changes of the settings left

caches == <<mem, files>>
vars   == <<cfg, mem, files, flight, flights, req, left, updates>>

Keys    == Sources \X Tiles
Images  == Sources \cup {Failed}
NoReq   == [pc |-> "idle"]
Running == {"disk", "fetch", "save", "warm", "end"}
Flight  == [pc : Running \cup {"done"}, key : Keys, source : Sources,
            image : Images, waiters : Nat, cancelled : BOOLEAN]
Lookup  == [pc : {"looking", "missed"}, key : Keys, source : Sources]
Wait    == [pc : {"waiting"}, key : Keys, source : Sources, on : Requests]
Answer  == [pc : {"answered"}, source : Sources, image : Images]

(* The values of the variables of the tile proxy. *)
TileTypeOK ==
    /\ cfg \in [source : Sources, max : Capacities]
    /\ DOMAIN mem \subseteq Keys
    /\ \A k \in DOMAIN mem : mem[k] \in [image : Sources, fresh : BOOLEAN]
    /\ DOMAIN files \subseteq Keys
    /\ \A k \in DOMAIN files : files[k] \in Sources
    /\ flight \in [Requests -> Flight \cup {NoReq}]
    /\ flights \in [Keys -> Requests \cup {NoFlight}]
    /\ req \in [Requests -> Lookup \cup Wait \cup Answer \cup {NoReq}]
    /\ left \subseteq Requests
    /\ updates \in 0..MaxUpdates

Init ==
    /\ cfg \in [source : Sources, max : Capacities]
    /\ mem = [k \in {} |-> Failed]
    /\ files = [k \in {} |-> Failed]
    /\ flight = [r \in Requests |-> NoReq]
    /\ flights = [k \in Keys |-> NoFlight]
    /\ req = [r \in Requests |-> NoReq]
    /\ left = {}
    /\ updates = MaxUpdates

Fresh(k)   == k \in DOMAIN mem /\ mem[k].fresh
With(f, k, v) == [x \in DOMAIN f \cup {k} |-> IF x = k THEN v ELSE f[x]]

-----------------------------------------------------------------------------
(* Requests.                                                               *)

(* Mutant of Key: the source is not part of the key. *)
KeyOfTile(source, tile) == <<CHOOSE s \in Sources : TRUE, tile>>

(* tileCacheKey: the same tile of another source is another tile. *)
Key(source, tile) == <<source, tile>>

(* ServeHTTP takes a copy of the configuration and its source. *)
Arrive(r, tile) ==
    /\ req[r] = NoReq
    /\ req' = [req EXCEPT ![r] = [pc |-> "looking", source |-> cfg.source,
                                  key |-> Key(cfg.source, tile)]]
    /\ UNCHANGED <<cfg, caches, flight, flights, left, updates>>

Answers(r, image) ==
    req' = [req EXCEPT ![r] = [pc |-> "answered", source |-> @.source, image |-> image]]

(* getFromMem. *)
LookInMem(r) ==
    /\ req[r].pc = "looking"
    /\ IF Fresh(req[r].key)
       THEN Answers(r, mem[req[r].key].image)
       ELSE req' = [req EXCEPT ![r].pc = "missed"]
    /\ UNCHANGED <<cfg, caches, flight, flights, left, updates>>

(* Mutant of NewFlight: only those who join are counted as waiters. *)
NewFlightUncounted(r) ==
    [pc |-> "disk", key |-> req[r].key, source |-> req[r].source,
     image |-> Failed, waiters |-> 0, cancelled |-> FALSE]

(* The flight of a request that finds none, and waits for it. *)
NewFlight(r) ==
    [pc |-> "disk", key |-> req[r].key, source |-> req[r].source,
     image |-> Failed, waiters |-> 1, cancelled |-> FALSE]

(* loadTile up to its select.  A flight may have filled the memory since
   LookInMem; otherwise the request joins the flight for its key or starts
   one. *)
Join(r) ==
    LET k == req[r].key
        f == flights[k]
        waits(on) == req' = [req EXCEPT ![r] = [pc |-> "waiting", key |-> k,
                                                source |-> @.source, on |-> on]]
    IN  /\ req[r].pc = "missed"
        /\ \/ /\ r \in left
              /\ Answers(r, Failed)
              /\ UNCHANGED <<flight, flights>>
           \/ /\ r \notin left /\ Fresh(k)
              /\ Answers(r, mem[k].image)
              /\ UNCHANGED <<flight, flights>>
           \/ /\ r \notin left /\ ~Fresh(k) /\ f # NoFlight
              /\ flight' = [flight EXCEPT ![f].waiters = @ + 1]
              /\ waits(f)
              /\ UNCHANGED flights
           \/ /\ r \notin left /\ ~Fresh(k) /\ f = NoFlight
              /\ flight' = [flight EXCEPT ![r] = NewFlight(r)]
              /\ flights' = [flights EXCEPT ![k] = r]
              /\ waits(r)
        /\ UNCHANGED <<cfg, caches, left, updates>>

(* The browser goes away: the context of its request is cancelled. *)
Disconnect(r) ==
    /\ req[r].pc \in {"looking", "missed", "waiting"}
    /\ r \notin left
    /\ left' = left \cup {r}
    /\ UNCHANGED <<cfg, caches, flight, flights, req, updates>>

(* leaveTileFlight: the last waiter cancels the flight and takes it out of
   the map, unless a later flight is there already. *)
LeaveFlight(f) ==
    LET last == flight[f].waiters = 1
        k    == flight[f].key
    IN  /\ flight' = [flight EXCEPT ![f].waiters = @ - 1,
                                    ![f].cancelled = @ \/ last]
        /\ flights' = IF last /\ flights[k] = f
                      THEN [flights EXCEPT ![k] = NoFlight] ELSE flights

(* loadTile's select: the browser is gone or the flight is done; when both,
   either. *)
Leave(r) ==
    LET f == req[r].on
    IN  /\ req[r].pc = "waiting"
        /\ \/ r \in left /\ Answers(r, Failed)
           \/ flight[f].pc = "done" /\ Answers(r, flight[f].image)
        /\ LeaveFlight(f)
        /\ UNCHANGED <<cfg, caches, left, updates>>

-----------------------------------------------------------------------------
(* Flights: fillTile and readOrFetchTile.                                  *)

Moves(f, pc, image) == flight' = [flight EXCEPT ![f].pc = pc, ![f].image = image]

(* readCachedTile, and the look at the context after it. *)
ReadDisk(f) ==
    /\ flight[f].pc = "disk"
    /\ IF flight[f].key \notin DOMAIN files THEN Moves(f, "fetch", Failed)
       ELSE IF flight[f].cancelled THEN Moves(f, "end", Failed)
       ELSE Moves(f, "warm", files[flight[f].key])
    /\ UNCHANGED <<cfg, caches, flights, req, left, updates>>

(* The upstream answers with an image or anything else, or not at all before
   the client's timeout; a cancelled flight has no use for the image. *)
Fetch(f) ==
    /\ flight[f].pc = "fetch"
    /\ \/ ~flight[f].cancelled /\ Moves(f, "save", flight[f].source)
       \/ Moves(f, "end", Failed)
    /\ UNCHANGED <<cfg, caches, flights, req, left, updates>>

(* writeCachedTile, whose errors are ignored. *)
SaveTile(f) ==
    /\ flight[f].pc = "save"
    /\ files' \in {files, With(files, flight[f].key, flight[f].image)}
    /\ Moves(f, "warm", flight[f].image)
    /\ UNCHANGED <<cfg, mem, flights, req, left, updates>>

(* setInMem: at capacity the expired entries go, and if that is not enough a
   quarter of the others, the oldest. *)
Expired == {k \in DOMAIN mem : ~mem[k].fresh}

(* What may have to go before an entry is set. *)
Evicted ==
    LET live == DOMAIN mem \ Expired
    IN  IF Cardinality(DOMAIN mem) < cfg.max THEN {{}}
        ELSE IF Cardinality(live) < cfg.max THEN {Expired}
        ELSE {Expired \cup old : old \in {o \in SUBSET live :
                Cardinality(o) = IF Cardinality(live) < 4 THEN 1 ELSE Cardinality(live) \div 4}}

Warm(f) ==
    /\ flight[f].pc = "warm"
    /\ \E gone \in Evicted :
         mem' = With(Restrict(mem, DOMAIN mem \ gone), flight[f].key,
                     [image |-> flight[f].image, fresh |-> TRUE])
    /\ Moves(f, "end", flight[f].image)
    /\ UNCHANGED <<cfg, files, flights, req, left, updates>>

(* Mutant of Land: whatever flight is in the map is taken out. *)
LandUnlisting(f) ==
    /\ flight[f].pc = "end"
    /\ flight' = [flight EXCEPT ![f].pc = "done", ![f].cancelled = TRUE]
    /\ flights' = [flights EXCEPT ![flight[f].key] = NoFlight]
    /\ UNCHANGED <<cfg, caches, req, left, updates>>

(* fillTile's last section: the result is there for whoever waits. *)
Land(f) ==
    /\ flight[f].pc = "end"
    /\ flight' = [flight EXCEPT ![f].pc = "done", ![f].cancelled = TRUE]
    /\ flights' = [k \in Keys |-> IF flights[k] = f THEN NoFlight ELSE flights[k]]
    /\ UNCHANGED <<cfg, caches, req, left, updates>>

-----------------------------------------------------------------------------
(* The rest of the cache.                                                  *)

(* Update, called by a change of the settings. *)
Update(source, max) ==
    /\ updates > 0
    /\ updates' = updates - 1
    /\ cfg' = [source |-> source, max |-> max]
    /\ mem' = IF cfg' # cfg THEN Restrict(mem, {}) ELSE mem
    /\ UNCHANGED <<files, flight, flights, req, left>>

(* An entry in memory, or a file, gets too old. *)
Expire(k) ==
    /\ \/ /\ Fresh(k)
          /\ mem' = [mem EXCEPT ![k].fresh = FALSE]
          /\ UNCHANGED files
       \/ /\ k \in DOMAIN files
          /\ files' = Restrict(files, DOMAIN files \ {k})
          /\ UNCHANGED mem
    /\ UNCHANGED <<cfg, flight, flights, req, left, updates>>

(* evictMem, every hour.  The memory is never beyond its capacity, so that
   the expired entries are all that goes. *)
Evict ==
    /\ Expired # {}
    /\ mem' = Restrict(mem, DOMAIN mem \ Expired)
    /\ UNCHANGED <<cfg, files, flight, flights, req, left, updates>>

-----------------------------------------------------------------------------
Serve(r) == LookInMem(r) \/ Join(r) \/ Leave(r)

Fill(f) == ReadDisk(f) \/ Fetch(f) \/ SaveTile(f) \/ Warm(f) \/ Land(f)

Next ==
    \/ \E r \in Requests :
         \/ \E tile \in Tiles : Arrive(r, tile)
         \/ Serve(r) \/ Disconnect(r) \/ Fill(r)
    \/ \E source \in Sources, max \in Capacities : Update(source, max)
    \/ \E k \in Keys : Expire(k)
    \/ Evict

Spec == Init /\ [][Next]_vars

-----------------------------------------------------------------------------
Busy(f)    == flight[f].pc \in Running
Waiters(f) == {r \in Requests : req[r].pc = "waiting" /\ req[r].on = f}

(* Nobody is answered with the imagery of another source than the one that was
   configured when the request came in: not from memory, not from disk and not
   from a flight that was under way when the settings changed. *)
ServedFromItsSource ==
    \A r \in Requests :
        req[r].pc = "answered" => req[r].image \in {req[r].source, Failed}

(* A download is shared by all that ask for the tile of a source, and goes on
   for as long as one of them waits.  A browser that goes away does not take
   it from another, nothing is downloaded for nobody, and there is one at a
   time, although an abandoned one may end after its successor has begun. *)
SharedWhileWanted ==
    LET Going(f) == Busy(f) /\ ~flight[f].cancelled
    IN  \A f \in Requests :
          /\ Busy(f) => (Going(f) <=> Waiters(f) # {})
          /\ \A g \in Requests :
               Going(f) /\ Going(g) /\ flight[f].key = flight[g].key => f = g

=============================================================================
