------------------------------ MODULE Operations ------------------------------
(***************************************************************************)
(* Delivery and maintenance entries from the form in a browser tab to the  *)
(* server's log: cmd/web/app.js (the form, the offline queue and its       *)
(* flush), handleOperations in cmd/main.go and the store of                *)
(* OperationsStore.                                                        *)
(*                                                                         *)
(* The tabs of one browser share the queue and the browser-local log, both *)
(* in localStorage.  A handler runs to its next await without a break, so  *)
(* one action is one such run.  A tab has at most two requests on their    *)
(* way, one from its form and one from its flush.                          *)
(***************************************************************************)
EXTENDS OperationsStore, SequencesExt

CONSTANTS
    Tabs,        \* browser tabs on the same origin
    BadDocs,     \* what validateOperation refuses and the form does not
    Legacy,      \* queues that an earlier version may have left, without ids
    Modes,       \* deployment modes under consideration
    NoActor,     \* no operator: "" in Actor, or a request without a token
    QueueLimit,  \* operationsQueueLimit
    LocalLimit,  \* the limit of the browser-local log
    MaxFaults    \* bounds: how often each fault may happen

Entry == [id : Ids \cup {NoId}, doc : Docs]

ASSUME OperationsAssumption ==
    /\ BadDocs \subseteq Docs
    /\ NoActor \in Actors
    /\ Modes \subseteq {"single-user", "multi-user", "browser-local"}
    /\ IsFiniteSet(Ids)
    /\ QueueLimit \in Nat /\ LocalLimit \in Nat
    /\ MaxFaults \in [{"network", "crash", "save", "reload", "offline"} -> Nat]

(* A queue holds what was entered in the form, each entry once, and
   savePendingOperations stores no more than its limit. *)
ASSUME LegacyAssumption ==
    \A q \in Legacy :
        /\ q \in Seq([id : {NoId}, doc : Docs])
        /\ Len(q) <= QueueLimit
        /\ \A i, j \in 1..Len(q) : q[i].doc = q[j].doc => i = j

VARIABLES
    mode,     \* the server's -deployment-mode
    queue,    \* localStorage[operationsQueueKey], oldest first
    local,    \* localStorage[operationsLocalKey]
    view,     \* view[t]: the deployment mode tab t believes in
    token,    \* token[t]: whose operator token is in tab t
    todo,     \* todo[t]: what the running flush of t has still to send
    req,      \* req[c]: the request of client c
    orphans,  \* requests on their way that no tab waits for any more
    online,   \* navigator.onLine
    told,     \* told[d]: what the form last said about d
    used,     \* client event identifiers drawn so far
    faults    \* faults left

tabVars == <<queue, local, view, token, todo, told, used>>
vars == <<storeVars, tabVars, mode, req, orphans, online, faults>>

Clients   == Tabs \X {"form", "flush"}
Message   == [entry : Entry, cred : Actors]
NoRequest == [st |-> "none"]
Outcomes  == {"created", "rejected", "lost", "kept", "full"}
Request   == [st : {"sent", "held"} \cup Outcomes, msg : Message]

(* The values of the variables of browser, network and server. *)
OperationsTypeOK ==
    /\ StoreTypeOK
    /\ mode \in Modes
    /\ queue \in Seq(Entry) /\ local \in Seq(Entry)
    /\ view \in [Tabs -> Modes \cup {"single-user"}]
    /\ token \in [Tabs -> Actors]
    /\ todo \in [Tabs -> Seq(Entry)]
    /\ req \in [Clients -> Request \cup {NoRequest}]
    /\ orphans \subseteq Message
    /\ online \in BOOLEAN
    /\ told \in [Docs -> {"none", "sending", "saved", "queued", "refused"}]
    /\ used \subseteq Ids
    /\ faults \in [DOMAIN MaxFaults -> Nat]

-----------------------------------------------------------------------------
Init ==
    /\ StoreInit
    /\ mode \in Modes
    /\ queue \in Legacy
    /\ local = <<>>
    /\ view = [t \in Tabs |-> "single-user"]
    /\ token = [t \in Tabs |-> NoActor]
    /\ todo = [t \in Tabs |-> <<>>]
    /\ req = [c \in Clients |-> NoRequest]
    /\ orphans = {}
    /\ online = TRUE
    /\ told = [d \in Docs |-> IF \E i \in 1..Len(queue) : queue[i].doc = d
                              THEN "queued" ELSE "none"]
    /\ used = {}
    /\ faults = MaxFaults

Fault(kind) == faults[kind] > 0 /\ faults' = [faults EXCEPT ![kind] = @ - 1]

-----------------------------------------------------------------------------
(* The browser.                                                            *)

(* operationEventID: identifiers never drawn before, one for each place. *)
FreshIds(places) ==
    CHOOSE ids \in [places -> Ids \ used] : IsInjective(ids)
CanDraw(places)  == Cardinality(Ids \ used) >= Cardinality(places)

(* operationHeaders: a tab that knows of operator tokens sends its own. *)
Credential(t) == IF view[t] = "multi-user" THEN token[t] ELSE NoActor

(* submitOperation up to its first await: keep the entry in the browser-local
   log, or send it. *)
Send(c, entry) ==
    LET t     == c[1]
        keeps == view[t] = "browser-local"
        st    == CASE keeps /\ Len(local) < LocalLimit  -> "kept"
                   [] keeps /\ Len(local) >= LocalLimit -> "full"
                   [] ~keeps /\ online                  -> "sent"
                   [] ~keeps /\ ~online                 -> "lost"
    IN  /\ req' = [req EXCEPT ![c] =
                     [st |-> st, msg |-> [entry |-> entry, cred |-> Credential(t)]]]
        /\ local' = IF st = "kept" THEN <<entry>> \o local ELSE local

(* The form is submitted: operationPayload draws an identifier. *)
FormSubmit(t, d) ==
    LET c == <<t, "form">>
    IN  /\ req[c] = NoRequest
        /\ told[d] = "none"
        /\ CanDraw({1})
        /\ LET id == FreshIds({1})[1]
           IN  /\ Send(c, [id |-> id, doc |-> d])
               /\ used' = used \cup {id}
        /\ told' = [told EXCEPT ![d] = "sending"]
        /\ UNCHANGED <<storeVars, mode, queue, view, token, todo,
                       orphans, online, faults>>

Queued(entry) == \E i \in 1..Len(queue) : queue[i].id = entry.id

(* Mutant of FormReply: the limit of the queue is not looked at. *)
FormReplyUnlimited(t) ==
    LET c     == <<t, "form">>
        entry == req[c].msg.entry
        fails == req[c].st = "lost" \/ (req[c].st \in {"rejected", "full"} /\ ~online)
    IN  /\ req[c].st \in Outcomes
        /\ queue' = IF fails /\ ~Queued(entry) THEN Append(queue, entry) ELSE queue
        /\ told' = [told EXCEPT ![entry.doc] =
                      CASE req[c].st \in {"created", "kept"} -> "saved"
                        [] fails                             -> "queued"
                        [] OTHER                             -> "refused"]
        /\ req' = [req EXCEPT ![c] = NoRequest]
        /\ UNCHANGED <<storeVars, mode, local, view, token, todo,
                       orphans, online, used, faults>>

(* The form's await is over.  A network error, and any error while offline,
   puts the entry into the queue unless the queue is full. *)
FormReply(t) ==
    LET c     == <<t, "form">>
        entry == req[c].msg.entry
        fails == req[c].st = "lost" \/ (req[c].st \in {"rejected", "full"} /\ ~online)
        fits  == Queued(entry) \/ Len(queue) < QueueLimit
    IN  /\ req[c].st \in Outcomes
        /\ queue' = IF fails /\ fits /\ ~Queued(entry) THEN Append(queue, entry) ELSE queue
        /\ told' = [told EXCEPT ![entry.doc] =
                      CASE req[c].st \in {"created", "kept"} -> "saved"
                        [] fails /\ fits                     -> "queued"
                        [] OTHER                             -> "refused"]
        /\ req' = [req EXCEPT ![c] = NoRequest]
        /\ UNCHANGED <<storeVars, mode, local, view, token, todo,
                       orphans, online, used, faults>>

(* The places of the entries that have no identifier, and the queue with one
   drawn for each of them. *)
Bare(entries) == {i \in 1..Len(entries) : entries[i].id = NoId}

Identified(entries) ==
    LET ids == FreshIds(Bare(entries))
    IN  [i \in 1..Len(entries) |->
           IF entries[i].id # NoId THEN entries[i]
           ELSE [entries[i] EXCEPT !.id = ids[i]]]

(* Mutant of FlushStart: the identifiers are not stored in the queue. *)
FlushStartUnsaved(t) ==
    LET queued == Identified(queue)
    IN  /\ todo[t] = <<>>
        /\ view[t] # "browser-local"
        /\ online
        /\ queue # <<>>
        /\ CanDraw(Bare(queue))
        /\ used' = used \cup {queued[i].id : i \in 1..Len(queued)}
        /\ todo' = [todo EXCEPT ![t] = queued]
        /\ Send(<<t, "flush">>, queued[1])
        /\ UNCHANGED <<storeVars, mode, queue, view, token, orphans, online,
                       told, faults>>

(* flushPendingOperations up to its first await: the online event, the 30 s
   interval or the end of startup.  The identifiers are stored before the
   first entry is sent. *)
FlushStart(t) ==
    LET queued == Identified(queue)
    IN  /\ todo[t] = <<>>
        /\ view[t] # "browser-local"
        /\ online
        /\ queue # <<>>
        /\ CanDraw(Bare(queue))
        /\ queue' = queued
        /\ used' = used \cup {queued[i].id : i \in 1..Len(queued)}
        /\ todo' = [todo EXCEPT ![t] = queued]
        /\ Send(<<t, "flush">>, queued[1])
        /\ UNCHANGED <<storeVars, mode, view, token,  orphans, online,
                       told, faults>>

(* The entries but the one that has arrived, in their order. *)
Without(entries, entry) ==
    LET kept  == {i \in 1..Len(entries) : entries[i].id # entry.id}
        place == CHOOSE f \in [1..Cardinality(kept) -> kept] :
                     \A j, k \in 1..Cardinality(kept) : j < k => f[j] < f[k]
    IN  [j \in 1..Cardinality(kept) |-> entries[place[j]]]

(* What the mutants of FlushReply share: the rest is sent. *)
FlushesOn(t, rest) ==
    LET c == <<t, "flush">>
    IN  /\ req[c].st \in Outcomes
        /\ todo' = [todo EXCEPT ![t] = rest]
        /\ IF rest = <<>>
           THEN req' = [req EXCEPT ![c] = NoRequest] /\ UNCHANGED local
           ELSE Send(c, rest[1])
        /\ UNCHANGED <<storeVars, mode, view, token, orphans, online,
                       told, used, faults>>

FlushSucceeds(t) == req[<<t, "flush">>].st \in {"created", "kept"}

(* Mutant of FlushReply: the queue as it was read is written back. *)
FlushReplyStale(t) ==
    /\ FlushesOn(t, Tail(todo[t]))
    /\ queue' = IF FlushSucceeds(t) THEN Tail(todo[t]) ELSE queue

(* Mutant of FlushReply: the first error ends the flush. *)
FlushReplyStopping(t) ==
    /\ FlushesOn(t, IF FlushSucceeds(t) THEN Tail(todo[t]) ELSE <<>>)
    /\ queue' = IF FlushSucceeds(t)
                THEN Without(queue, req[<<t, "flush">>].msg.entry) ELSE queue

(* The flush's await is over: on success the entry leaves the queue as it is
   now, on an error it stays.  Either way the next entry is sent. *)
FlushReply(t) ==
    LET c    == <<t, "flush">>
        rest == Tail(todo[t])
    IN  /\ req[c].st \in Outcomes
        /\ queue' = IF req[c].st \in {"created", "kept"}
                    THEN Without(queue, req[c].msg.entry) ELSE queue
        /\ todo' = [todo EXCEPT ![t] = rest]
        /\ IF rest = <<>>
           THEN req' = [req EXCEPT ![c] = NoRequest] /\ UNCHANGED local
           ELSE Send(c, rest[1])
        /\ UNCHANGED <<storeVars, mode, view, token,  orphans, online,
                       told, used, faults>>

(* loadDeployment succeeds; when it fails the tab keeps its default. *)
LoadDeployment(t) ==
    /\ up /\ online
    /\ view' = [view EXCEPT ![t] = mode]
    /\ UNCHANGED <<storeVars, mode, queue, local, token, todo, req,
                   orphans, online, told, used, faults>>

(* The operator token of the tab changes. *)
SetToken(t, a) ==
    /\ view[t] = "multi-user"
    /\ token' = [token EXCEPT ![t] = a]
    /\ UNCHANGED <<storeVars, mode, queue, local, view, todo, req,
                   orphans, online, told, used, faults>>

Messages(cs) == {req[c].msg : c \in {c \in cs : req[c].st = "sent"}}

(* The tab is reloaded: its requests go on without anybody waiting. *)
Reload(t) ==
    LET mine == {t} \X {"form", "flush"}
    IN  /\ Fault("reload")
        /\ view' = [view EXCEPT ![t] = "single-user"]
        /\ todo' = [todo EXCEPT ![t] = <<>>]
        /\ req' = [c \in Clients |-> IF c \in mine THEN NoRequest ELSE req[c]]
        /\ orphans' = orphans \cup Messages(mine)
        /\ UNCHANGED <<storeVars, mode, queue, local, token, online, told, used>>

-----------------------------------------------------------------------------
(* The network.                                                            *)

(* The connection of a request breaks.  The request, or its answer, may
   already be where it was going. *)
NetworkError(c) ==
    /\ Fault("network")
    /\ req[c].st \in {"sent", "held", "created", "rejected"}
    /\ req' = [req EXCEPT ![c].st = "lost"]
    /\ orphans' = orphans \cup Messages({c})
    /\ UNCHANGED <<storeVars, tabVars, mode, online>>

(* No server, or no network: a request that was not received fails. *)
Unreachable(c) ==
    /\ ~up \/ ~online
    /\ req[c].st = "sent"
    /\ req' = [req EXCEPT ![c].st = "lost"]
    /\ UNCHANGED <<storeVars, tabVars, mode,  orphans, online, faults>>

GoOffline ==
    /\ online
    /\ online' = FALSE
    /\ Fault("offline")
    /\ UNCHANGED <<storeVars, tabVars, mode, req,  orphans>>

GoOnline ==
    /\ ~online
    /\ online' = TRUE
    /\ UNCHANGED <<storeVars, tabVars, mode, req,  orphans, faults>>

-----------------------------------------------------------------------------
(* The server.                                                             *)

(* handleOperations answers 404, 401 or 400 before the store is locked. *)
Refused(msg) ==
    \/ mode = "browser-local"
    \/ mode = "multi-user" /\ msg.cred = NoActor
    \/ msg.entry.doc \in BadDocs

(* The operator authenticatedOperator finds, "" on a single-user server. *)
Operation(msg) ==
    [id    |-> msg.entry.id,
     doc   |-> msg.entry.doc,
     actor |-> IF mode = "multi-user" THEN msg.cred ELSE NoActor]

Create(msg) == CreateKnown(Operation(msg)) \/ CreateAppend(Operation(msg))

Refuse(c) ==
    /\ up
    /\ req[c].st = "sent"
    /\ Refused(req[c].msg)
    /\ req' = [req EXCEPT ![c].st = "rejected"]
    /\ UNCHANGED <<storeVars, tabVars, mode,  orphans, online, faults>>

Handle(c) ==
    /\ req[c].st = "sent"
    /\ ~Refused(req[c].msg)
    /\ Create(req[c].msg)
    /\ req' = [req EXCEPT ![c].st = "held"]
    /\ UNCHANGED <<tabVars, mode, orphans, online, faults>>

HandleOrphan(msg) ==
    /\ msg \in orphans
    /\ ~Refused(msg)
    /\ Create(msg)
    /\ orphans' = orphans \ {msg}
    /\ UNCHANGED <<tabVars, mode, req, online, faults>>

(* Create's own steps, and the answer of the handler that called it. *)
Save ==
    /\ SaveRenames \/ PublishRecord
    /\ UNCHANGED <<tabVars, mode, req,  orphans, online, faults>>

SaveError ==
    /\ SaveFails
    /\ Fault("save")
    /\ UNCHANGED <<tabVars, mode, req,  orphans, online>>

(* The request whose Create holds the store, if its tab still waits. *)
Held(st) == [c \in Clients |->
               IF req[c].st = "held" THEN [req[c] EXCEPT !.st = st] ELSE req[c]]

(* Mutant of Answer: a failed Create is answered like a successful one. *)
AnswerCreated ==
    /\ CreateReturns
    /\ req' = Held("created")
    /\ UNCHANGED <<tabVars, mode, orphans, online, faults>>

Answer ==
    /\ CreateReturns
    /\ req' = Held(IF call.result = "ok" THEN "created" ELSE "rejected")
    /\ UNCHANGED <<tabVars, mode, orphans, online, faults>>

Crash ==
    /\ StoreCrash
    /\ Fault("crash")
    /\ req' = Held("lost")
    /\ UNCHANGED <<tabVars, mode, orphans, online>>

Restart ==
    /\ StoreLoad
    /\ UNCHANGED <<tabVars, mode, req,  orphans, online, faults>>

-----------------------------------------------------------------------------
Next ==
    \/ \E t \in Tabs :
         \/ \E d \in Docs : FormSubmit(t, d)
         \/ FormReply(t)
         \/ FlushStart(t)
         \/ FlushReply(t)
         \/ LoadDeployment(t)
         \/ \E a \in Actors : SetToken(t, a)
         \/ Reload(t)
    \/ \E c \in Clients : NetworkError(c) \/ Unreachable(c) \/ Refuse(c) \/ Handle(c)
    \/ \E msg \in orphans : HandleOrphan(msg)
    \/ GoOffline \/ GoOnline
    \/ Save \/ SaveError \/ Answer \/ Crash \/ Restart

Spec == Init /\ [][Next]_vars

(* A handler runs on, a lock is granted, the supervisor restarts the server,
   the 30 s interval fires and the connection comes back.  Nobody has to
   submit, reload or load the deployment. *)
Fairness ==
    /\ \A t \in Tabs : /\ WF_vars(FormReply(t))
                       /\ WF_vars(FlushStart(t))
                       /\ WF_vars(FlushReply(t))
    /\ \A c \in Clients : /\ WF_vars(Unreachable(c))
                          /\ WF_vars(Refuse(c))
                          /\ SF_vars(Handle(c))
    /\ WF_vars(Save) /\ WF_vars(Answer) /\ WF_vars(Restart)
    /\ WF_vars(GoOnline)

FairSpec == Spec /\ Fairness

-----------------------------------------------------------------------------
InQueue(d) == \E i \in 1..Len(queue) : queue[i].doc = d
InLocal(d) == \E i \in 1..Len(local) : local[i].doc = d
OnDisk(d)  == \E i \in 1..Len(disk) : disk[i].in.doc = d

(* What the form said was saved is in the log file or the browser's own log:
   a crash, a broken connection or a second tab takes none of it away. *)
SavedIsKept == \A d \in Docs : told[d] = "saved" => OnDisk(d) \/ InLocal(d)

(* What the form put into the queue stays there until a log has it, whatever
   the flushes of several tabs do with the queue they share. *)
QueuedIsKept ==
    \A d \in Docs : told[d] = "queued" => InQueue(d) \/ OnDisk(d) \/ InLocal(d)

(* The queue never outgrows its limit and never holds an event twice. *)
QueueIsBounded ==
    /\ Len(queue) <= QueueLimit
    /\ \A i, j \in 1..Len(queue) : queue[i].id = queue[j].id => i = j \/ queue[i].id = NoId

(* The logs as the people who read them see them: the log file, and on a
   browser-local server, whose file stays empty, the log of the browser, which
   has its newest entry first. *)
Promise == INSTANCE OperationsPromise
    WITH once    <- mode # "browser-local",
         log     <- [i \in 1..Len(disk) |-> disk[i].in.doc]
                    \o [i \in 1..Len(local) |-> Reverse(local)[i].doc],
         promise <- [d \in Docs |-> IF told[d] = "sending" THEN "none" ELSE told[d]]

(* The way from the form to the log implements the safety of the promise: a
   log grows at its end, a server's by entries it does not have, a browser's
   at most by an entry it has that was put off, and the form says "saved" only
   of what is logged. *)
PromiseSafety == Promise!PromiseSpec

(* A flush reaches every entry the server accepts, past the ones it refuses,
   and takes it out of the queue. *)
QueueDrains == \A d \in Docs \ BadDocs : []<>~InQueue(d)

(* The status text says that a queued entry is transferred on the next
   contact. *)
QueuedIsTransferred ==
    \A d \in Docs \ BadDocs : told[d] = "queued" ~> (OnDisk(d) \/ InLocal(d))
=============================================================================
