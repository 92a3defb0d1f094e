--------------------------- MODULE OperationsStore ---------------------------
(***************************************************************************)
(* The server's delivery and maintenance log: OperationsStore in           *)
(* cmd/operations.go.  The store keeps the records in append order         *)
(* together with two derived indexes, `newest` for listing and             *)
(* `clientEvents` for idempotent retries, and persists the records by      *)
(* writing a temporary file and renaming it over the log.                  *)
(*                                                                         *)
(* Create holds the store's mutex from its idempotency check to its        *)
(* return.  `call` is the Create that holds it: nothing else reads or      *)
(* writes the store meanwhile, but the process can die between any two of  *)
(* its steps.                                                              *)
(***************************************************************************)
EXTENDS Naturals, Sequences, FiniteSets

CONSTANTS
    Ids,     \* client event identifiers
    NoId,    \* the empty client_event_id, which opts out of idempotency
    Docs,    \* what a record says: its asset, recipient, status, ...
    Actors,  \* what the handler may write into Actor, "" included
    Clock    \* values of time.Now(): the wall clock may go backwards

ASSUME StoreAssumption ==
    /\ NoId \notin Ids
    /\ Clock \subseteq Nat

VARIABLES
    up,            \* the server process runs
    records,       \* s.records, in append order
    newest,        \* s.newest, offsets into records, newest first
    clientEvents,  \* s.clientEvents, from event identifier to offset
    disk,          \* the log file (an absent file reads as the empty log)
    call           \* the Create holding s.mu

storeVars == <<up, records, newest, clientEvents, disk, call>>

Input   == [id : Ids \cup {NoId}, doc : Docs, actor : Actors]
Record  == [in : Input, created : Clock]
Result  == {"none", "ok", "conflict", "failed"}
Phases  == {"saving", "renamed", "done"}
NoCall  == [phase |-> "none"]
Call    == [phase : Phases, in : Input, result : Result]

(* The values of the variables of OperationsStore; `newest` has its type from
   ListingInOrder. *)
StoreTypeOK ==
    /\ up \in BOOLEAN
    /\ records \in Seq(Record)
    /\ disk \in Seq(Record)
    /\ DOMAIN clientEvents \subseteq Ids
    /\ \A e \in DOMAIN clientEvents : clientEvents[e] \in 1..Len(records)
    /\ call \in Call \cup {NoCall}

-----------------------------------------------------------------------------
(* Load's order: later creation first, and of equal times the later offset. *)
Newer(recs, i, j) ==
    \/ recs[i].created > recs[j].created
    \/ recs[i].created = recs[j].created /\ i > j

LoadOrder(recs) ==
    CHOOSE order \in [1..Len(recs) -> 1..Len(recs)] :
        \A p, q \in 1..Len(recs) : p < q => Newer(recs, order[p], order[q])

EventIds(recs) == {recs[i].in.id : i \in 1..Len(recs)} \ {NoId}

EventIndex(recs) ==
    [e \in EventIds(recs) |-> CHOOSE i \in 1..Len(recs) : recs[i].in.id = e]

NoEvents == [e \in {} |-> 0]

DuplicateEvents(recs) ==
    \E i, j \in 1..Len(recs) :
        i # j /\ recs[i].in.id = recs[j].in.id /\ recs[i].in.id # NoId

(* Mutant of InsertNewest: an equally old record stays in front. *)
InsertNewestLast(order, recs, i) ==
    LET newer    == {p \in 1..Len(order) : recs[order[p]].created >= recs[i].created}
        position == Cardinality(newer)
    IN  SubSeq(order, 1, position) \o <<i>> \o SubSeq(order, position + 1, Len(order))

(* Create's binary search: the first place whose record is not newer than
   the new one. *)
InsertNewest(order, recs, i) ==
    LET newer    == {p \in 1..Len(order) : recs[order[p]].created > recs[i].created}
        position == Cardinality(newer)
    IN  SubSeq(order, 1, position) \o <<i>> \o SubSeq(order, position + 1, Len(order))

-----------------------------------------------------------------------------
StoreInit ==
    /\ up = TRUE
    /\ records = <<>>
    /\ newest = <<>>
    /\ clientEvents = NoEvents
    /\ disk = <<>>
    /\ call = NoCall

Known(in) == in.id \in DOMAIN clientEvents

(* The event is known.  The same operation is answered with the stored
   record, a different one with ErrOperationIdempotencyConflict. *)
CreateKnown(in) ==
    /\ up
    /\ call = NoCall
    /\ Known(in)
    /\ call' = [phase  |-> "done",
                in     |-> in,
                result |-> IF records[clientEvents[in.id]].in = in
                           THEN "ok" ELSE "conflict"]
    /\ UNCHANGED <<up, records, newest, clientEvents, disk>>

(* Mutant of CreateAppend: the event is not looked up. *)
CreateAppendBlind(in) ==
    /\ up
    /\ call = NoCall
    /\ \E now \in Clock : records' = Append(records, [in |-> in, created |-> now])
    /\ call' = [phase |-> "saving", in |-> in, result |-> "none"]
    /\ UNCHANGED <<up, newest, clientEvents, disk>>

(* Mutant of CreateAppend: the event is indexed before the save. *)
CreateAppendIndexed(in) ==
    /\ up
    /\ call = NoCall
    /\ ~Known(in)
    /\ \E now \in Clock : records' = Append(records, [in |-> in, created |-> now])
    /\ clientEvents' = [e \in (DOMAIN clientEvents \cup {in.id}) \ {NoId} |->
                          IF e = in.id THEN Len(records) + 1 ELSE clientEvents[e]]
    /\ call' = [phase |-> "saving", in |-> in, result |-> "none"]
    /\ UNCHANGED <<up, newest, disk>>

(* The event is new: append to the records and go on to save them. *)
CreateAppend(in) ==
    /\ up
    /\ call = NoCall
    /\ ~Known(in)
    /\ \E now \in Clock : records' = Append(records, [in |-> in, created |-> now])
    /\ call' = [phase |-> "saving", in |-> in, result |-> "none"]
    /\ UNCHANGED <<up, newest, clientEvents, disk>>

(* Mutant of SaveFails: the append is not undone. *)
SaveFailsKeeping ==
    /\ call.phase = "saving"
    /\ call' = [call EXCEPT !.phase = "done", !.result = "failed"]
    /\ UNCHANGED <<up, records, newest, clientEvents, disk>>

(* Mutant of SaveFails: the error is not reported. *)
SaveFailsSilently ==
    /\ call.phase = "saving"
    /\ records' = SubSeq(records, 1, Len(records) - 1)
    /\ call' = [call EXCEPT !.phase = "done", !.result = "ok"]
    /\ UNCHANGED <<up, newest, clientEvents, disk>>

(* MkdirAll, WriteFile or Rename reports an error: the append is undone. *)
SaveFails ==
    /\ call.phase = "saving"
    /\ records' = SubSeq(records, 1, Len(records) - 1)
    /\ call' = [call EXCEPT !.phase = "done", !.result = "failed"]
    /\ UNCHANGED <<up, newest, clientEvents, disk>>

(* The rename replaces the log file with all records. *)
SaveRenames ==
    /\ call.phase = "saving"
    /\ disk' = records
    /\ call' = [call EXCEPT !.phase = "renamed"]
    /\ UNCHANGED <<up, records, newest, clientEvents>>

(* After the save: the new offset enters both indexes. *)
PublishRecord ==
    /\ call.phase = "renamed"
    /\ newest' = InsertNewest(newest, records, Len(records))
    /\ clientEvents' =
         IF call.in.id = NoId THEN clientEvents
         ELSE [e \in DOMAIN clientEvents \cup {call.in.id} |->
                 IF e = call.in.id THEN Len(records) ELSE clientEvents[e]]
    /\ call' = [call EXCEPT !.phase = "done", !.result = "ok"]
    /\ UNCHANGED <<up, records, disk>>

(* Create returns and releases the mutex. *)
CreateReturns ==
    /\ call.phase = "done"
    /\ call' = NoCall
    /\ UNCHANGED <<up, records, newest, clientEvents, disk>>

(* The process dies: the log file is all that is left. *)
StoreCrash ==
    /\ up
    /\ up' = FALSE
    /\ records' = <<>>
    /\ newest' = <<>>
    /\ clientEvents' = NoEvents
    /\ call' = NoCall
    /\ UNCHANGED disk

(* Mutant of StoreLoad: every log is refused. *)
StoreLoadEmpty ==
    /\ ~up
    /\ up' = TRUE
    /\ UNCHANGED <<records, newest, clientEvents, disk, call>>

(* NewOperationsStore and Load at startup.  A log with a repeated event is
   refused and main carries on with an empty store. *)
StoreLoad ==
    /\ ~up
    /\ up' = TRUE
    /\ IF DuplicateEvents(disk)
       THEN UNCHANGED <<records, newest, clientEvents>>
       ELSE /\ records' = disk
            /\ newest' = LoadOrder(disk)
            /\ clientEvents' = EventIndex(disk)
    /\ UNCHANGED <<disk, call>>

-----------------------------------------------------------------------------
StoreNext ==
    \/ \E in \in Input : CreateKnown(in) \/ CreateAppend(in)
    \/ SaveFails
    \/ SaveRenames
    \/ PublishRecord
    \/ CreateReturns
    \/ StoreCrash
    \/ StoreLoad

StoreSpec == StoreInit /\ [][StoreNext]_storeVars

-----------------------------------------------------------------------------
(* At most one record per client event reaches the log, whatever is retried,
   however often the process dies in the middle of a Create. *)
OneRecordPerEvent == ~DuplicateEvents(disk) /\ ~DuplicateEvents(records)

(* Between two Creates the store in memory is what a restart would load: the
   records of the log file and the index Load builds of them, although Create
   only ever adds to both. *)
RestartInvisible ==
    up /\ call = NoCall =>
        /\ records = disk
        /\ clientEvents = EventIndex(disk)

(* A listing before a restart has the order of a listing after it: Create's
   insertion and Load's sort agree, also when the clock has gone backwards. *)
ListingInOrder == up /\ call = NoCall => newest = LoadOrder(disk)

(* A Create that answers success has its operation in the log file already. *)
AnsweredIsDurable ==
    call.phase = "done" /\ call.result = "ok" =>
        \E i \in 1..Len(disk) : disk[i].in = call.in

(* What holds at every step of a Create, and makes the properties above
   inductive: how far records, index and log file are apart in each phase. *)
Indexed ==
    IF call.phase = "saving" THEN disk
    ELSE IF call.phase = "renamed" THEN SubSeq(disk, 1, Len(disk) - 1)
    ELSE disk

StoreInv ==
    /\ StoreTypeOK
    /\ ~DuplicateEvents(disk)
    /\ ~up => records = <<>> /\ clientEvents = NoEvents /\ call = NoCall
    /\ up => clientEvents = EventIndex(Indexed)
    /\ up /\ call.phase # "saving" => records = disk
    /\ call.phase = "saving" =>
          \E rec \in Record : rec.in = call.in /\ records = Append(disk, rec)
    /\ call.phase = "renamed" => disk # <<>> /\ disk[Len(disk)].in = call.in
    /\ call.phase \in {"saving", "renamed"} => call.in.id \notin EventIds(Indexed)
    /\ AnsweredIsDurable

(* The log file only ever grows at its end: no save drops, reorders or
   rewrites an earlier record. *)
LogAppendOnly ==
    [][ /\ Len(disk') >= Len(disk)
        /\ \A i \in 1..Len(disk) : disk'[i] = disk[i] ]_disk
=============================================================================
