------------------------ MODULE OperationsStoreProofs ------------------------
(***************************************************************************)
(* The operations log keeps its promises for every set of events,          *)
(* documents, actors and clock values.  StoreInv is the inductive          *)
(* invariant: it says, phase by phase of a Create, how far the records in  *)
(* memory, the index of events and the log file are apart.                 *)
(***************************************************************************)
EXTENDS OperationsStore, SequenceTheorems, FiniteSetTheorems, TLAPS

-----------------------------------------------------------------------------
(* The index of events.                                                    *)

(* Appending a record adds its event identifier and nothing else. *)
LEMMA AppendEventIds ==
    ASSUME NEW recs \in Seq(Record), NEW rec \in Record
    PROVE  EventIds(Append(recs, rec)) = EventIds(recs) \cup ({rec.in.id} \ {NoId})
<1> DEFINE app == Append(recs, rec)
<1>1. /\ Len(app) = Len(recs) + 1
      /\ Len(recs) \in Nat
      /\ \A i \in 1..Len(recs) : app[i] = recs[i]
      /\ app[Len(recs) + 1] = rec
  OBVIOUS
<1> HIDE DEF app
<1>2. {app[i].in.id : i \in 1..Len(app)} =
        {recs[i].in.id : i \in 1..Len(recs)} \cup {rec.in.id}
  BY <1>1
<1> QED BY <1>2 DEF EventIds, app

(* A log without a repeated event stays so when a new event is appended. *)
LEMMA AppendUnique ==
    ASSUME NEW recs \in Seq(Record), NEW rec \in Record,
           ~DuplicateEvents(recs), rec.in.id \notin EventIds(recs)
    PROVE  ~DuplicateEvents(Append(recs, rec))
<1> DEFINE app == Append(recs, rec)
<1>1. /\ Len(app) = Len(recs) + 1
      /\ Len(recs) \in Nat
      /\ \A i \in 1..Len(recs) : app[i] = recs[i]
      /\ app[Len(recs) + 1] = rec
  OBVIOUS
<1> HIDE DEF app
<1>2. SUFFICES ASSUME NEW i \in 1..Len(app), NEW j \in 1..Len(app), i # j,
                      app[i].in.id = app[j].in.id, app[i].in.id # NoId
               PROVE  FALSE
  BY DEF DuplicateEvents, app
<1>3. CASE i \in 1..Len(recs) /\ j \in 1..Len(recs)
  BY <1>1, <1>2, <1>3 DEF DuplicateEvents
<1>4. CASE i = Len(recs) + 1 /\ j \in 1..Len(recs)
  BY <1>1, <1>2, <1>4 DEF EventIds
<1>5. CASE j = Len(recs) + 1 /\ i \in 1..Len(recs)
  BY <1>1, <1>2, <1>5 DEF EventIds
<1> QED BY <1>1, <1>2, <1>3, <1>4, <1>5

(* An event that occurs is indexed by a place where it occurs. *)
LEMMA IndexedOccurs ==
    ASSUME NEW recs \in Seq(Record), NEW e \in EventIds(recs)
    PROVE  /\ EventIndex(recs)[e] \in 1..Len(recs)
           /\ recs[EventIndex(recs)[e]].in.id = e
<1>1. \E i \in 1..Len(recs) : recs[i].in.id = e
  BY DEF EventIds
<1>2. EventIndex(recs)[e] = CHOOSE i \in 1..Len(recs) : recs[i].in.id = e
  BY DEF EventIndex
<1> QED BY <1>1, <1>2

(* Load's index of a log is Create's index of the same log: the old entries
   and the new record's place. *)
LEMMA AppendIndex ==
    ASSUME NEW recs \in Seq(Record), NEW rec \in Record,
           ~DuplicateEvents(recs), rec.in.id \notin EventIds(recs)
    PROVE  EventIndex(Append(recs, rec)) =
             IF rec.in.id = NoId THEN EventIndex(recs)
             ELSE [e \in DOMAIN EventIndex(recs) \cup {rec.in.id} |->
                     IF e = rec.in.id THEN Len(recs) + 1 ELSE EventIndex(recs)[e]]
<1> DEFINE app == Append(recs, rec)
<1>1. /\ app \in Seq(Record)
      /\ Len(app) = Len(recs) + 1
      /\ Len(recs) \in Nat
      /\ \A i \in 1..Len(recs) : app[i] = recs[i]
      /\ app[Len(recs) + 1] = rec
  OBVIOUS
<1>2. EventIds(app) = EventIds(recs) \cup ({rec.in.id} \ {NoId})
  BY AppendEventIds
<1>3. ~DuplicateEvents(app)
  BY AppendUnique
<1> HIDE DEF app
<1>4. ASSUME NEW e \in EventIds(recs)
      PROVE  EventIndex(app)[e] = EventIndex(recs)[e]
  <2>1. /\ EventIndex(recs)[e] \in 1..Len(recs)
        /\ recs[EventIndex(recs)[e]].in.id = e
    BY IndexedOccurs
  <2>2. /\ EventIndex(app)[e] \in 1..Len(app)
        /\ app[EventIndex(app)[e]].in.id = e
    BY <1>1, <1>2, IndexedOccurs
  <2>3. /\ EventIndex(recs)[e] \in 1..Len(app)
        /\ app[EventIndex(recs)[e]].in.id = e
        /\ e # NoId
    BY <1>1, <2>1 DEF EventIds
  <2> QED BY <1>3, <2>2, <2>3 DEF DuplicateEvents
<1>5. ASSUME rec.in.id # NoId
      PROVE  EventIndex(app)[rec.in.id] = Len(recs) + 1
  <2>1. /\ EventIndex(app)[rec.in.id] \in 1..Len(app)
        /\ app[EventIndex(app)[rec.in.id]].in.id = rec.in.id
    BY <1>1, <1>2, <1>5, IndexedOccurs
  <2>2. Len(recs) + 1 \in 1..Len(app) /\ app[Len(recs) + 1].in.id = rec.in.id
    BY <1>1
  <2> QED BY <1>3, <1>5, <2>1, <2>2 DEF DuplicateEvents
<1>6. /\ DOMAIN EventIndex(recs) = EventIds(recs)
      /\ DOMAIN EventIndex(app) = EventIds(app)
      /\ EventIndex(recs) = [e \in EventIds(recs) |-> EventIndex(recs)[e]]
      /\ EventIndex(app) = [e \in EventIds(app) |-> EventIndex(app)[e]]
  BY DEF EventIndex
<1>7. CASE rec.in.id = NoId
  <2>1. EventIds(app) = EventIds(recs)
    BY <1>2, <1>7
  <2> QED BY <1>4, <1>6, <1>7, <2>1 DEF app
<1>8. CASE rec.in.id # NoId
  <2>1. EventIds(app) = EventIds(recs) \cup {rec.in.id}
    BY <1>2, <1>8
  <2> QED BY <1>4, <1>5, <1>6, <1>8, <2>1 DEF app
<1> QED BY <1>7, <1>8

(* The index of an empty log is empty. *)
LEMMA EmptyLog == ~DuplicateEvents(<<>>) /\ EventIndex(<<>>) = NoEvents
<1>1. EventIds(<<>>) = {}
  BY DEF EventIds
<1> QED BY <1>1 DEF DuplicateEvents, EventIndex, NoEvents

(* Every event of a log is a client event identifier. *)
LEMMA EventIdsTyped ==
    ASSUME NEW recs \in Seq(Record)
    PROVE  EventIds(recs) \subseteq Ids
<1>1. ASSUME NEW i \in 1..Len(recs) PROVE recs[i].in.id \in Ids \cup {NoId}
  <2>1. recs[i] \in Record
    BY ElementOfSeq
  <2>2. recs[i].in \in Input
    BY <2>1 DEF Record
  <2> QED BY <2>2 DEF Input
<1> QED BY <1>1 DEF EventIds

(* A Create in one of its phases is a Create, and stays one. *)
LEMMA CallTyped ==
    ASSUME StoreTypeOK, call.phase \in Phases,
           NEW phase \in Phases, NEW result \in Result
    PROVE  /\ call \in Call
           /\ [call EXCEPT !.phase = phase] \in Call
           /\ [call EXCEPT !.phase = phase].phase = phase
           /\ [call EXCEPT !.phase = phase].in = call.in
           /\ [call EXCEPT !.phase = phase, !.result = result] \in Call
           /\ [call EXCEPT !.phase = phase, !.result = result].phase = phase
           /\ [call EXCEPT !.phase = phase, !.result = result].result = result
           /\ [call EXCEPT !.phase = phase, !.result = result].in = call.in
<1>1. call \in Call
  BY DEF StoreTypeOK, NoCall, Phases
<1> QED BY <1>1 DEF Call

-----------------------------------------------------------------------------
(* The inductive invariant, one lemma per kind of step.                    *)

(* An empty store over an absent log file is consistent. *)
LEMMA StoreInitInv == StoreInit => StoreInv
<1> SUFFICES ASSUME StoreInit PROVE StoreInv
  OBVIOUS
<1>1. StoreTypeOK
  BY DEF StoreInit, StoreTypeOK, NoEvents, NoCall
<1>2. call.phase = "none" /\ Indexed = disk
  BY DEF StoreInit, NoCall, Indexed
<1> QED BY <1>1, <1>2, EmptyLog DEF StoreInit, StoreInv, AnsweredIsDurable

(* A Create of a known event changes nothing but the answer, and it answers
   "ok" only with a record that is in the log file. *)
LEMMA KnownKeepsInv ==
    ASSUME StoreInv, NEW in \in Input, CreateKnown(in)
    PROVE  StoreInv'
<1> USE DEF CreateKnown
<1>1. /\ up /\ call = NoCall /\ call.phase = "none"
      /\ call' = [phase |-> "done", in |-> in, result |-> call'.result]
      /\ call'.result \in {"ok", "conflict"}
  BY DEF NoCall
<1>2. StoreTypeOK'
  BY <1>1 DEF StoreInv, StoreTypeOK, Call, Phases, Result
<1>3. /\ Indexed = disk /\ Indexed' = disk
      /\ records = disk /\ clientEvents = EventIndex(disk)
  BY <1>1 DEF StoreInv, Indexed
<1>4. ASSUME call'.result = "ok"
      PROVE  \E i \in 1..Len(disk) : disk[i].in = in
  <2>1. in.id \in EventIds(disk) /\ records[clientEvents[in.id]].in = in
    BY <1>3, <1>4 DEF Known, EventIndex
  <2>2. disk \in Seq(Record)
    BY DEF StoreInv, StoreTypeOK
  <2> QED BY <1>3, <2>1, <2>2, IndexedOccurs
<1>5. AnsweredIsDurable'
  BY <1>1, <1>4 DEF AnsweredIsDurable
<1> QED BY <1>1, <1>2, <1>3, <1>5 DEF StoreInv

(* A Create of a new event puts its record at the end of the records and
   nowhere else: the index and the log file do not know of it yet. *)
LEMMA AppendKeepsInv ==
    ASSUME StoreInv, NEW in \in Input, CreateAppend(in)
    PROVE  StoreInv'
<1>1. PICK now \in Clock : records' = Append(records, [in |-> in, created |-> now])
  BY DEF CreateAppend
<1> DEFINE rec == [in |-> in, created |-> now]
<1>2. /\ up /\ call = NoCall /\ call.phase = "none" /\ ~Known(in)
      /\ call' = [phase |-> "saving", in |-> in, result |-> "none"]
      /\ UNCHANGED <<up, newest, clientEvents, disk>>
  BY DEF CreateAppend, NoCall
<1>3. rec \in Record /\ rec.in = in
  BY DEF Record
<1>4. /\ Indexed = disk /\ Indexed' = disk
      /\ records = disk /\ clientEvents = EventIndex(disk)
      /\ records \in Seq(Record)
  BY <1>2 DEF StoreInv, StoreTypeOK, Indexed
<1>5. records' = Append(disk, rec) /\ Len(records') = Len(records) + 1 /\ records' \in Seq(Record)
  BY <1>1, <1>3, <1>4
<1>6. StoreTypeOK'
  BY <1>2, <1>4, <1>5 DEF StoreInv, StoreTypeOK, Call, Phases, Result
<1>7. in.id \notin EventIds(disk)
  BY <1>2, <1>4 DEF Known, EventIndex
<1>8. AnsweredIsDurable'
  BY <1>2 DEF AnsweredIsDurable
<1> QED BY <1>2, <1>3, <1>4, <1>5, <1>6, <1>7, <1>8 DEF StoreInv

(* After an error of saveLocked the shortened records are those of the log
   file again, and nobody is told "ok". *)
LEMMA SaveFailsKeepsInv ==
    ASSUME StoreInv, SaveFails
    PROVE  StoreInv'
<1>1. /\ call.phase = "saving"
      /\ records' = SubSeq(records, 1, Len(records) - 1)
      /\ call' = [call EXCEPT !.phase = "done", !.result = "failed"]
      /\ UNCHANGED <<up, newest, clientEvents, disk>>
  BY DEF SaveFails
<1>2. PICK rec \in Record : rec.in = call.in /\ records = Append(disk, rec)
  BY <1>1 DEF StoreInv
<1>3. disk \in Seq(Record) /\ records \in Seq(Record)
  BY DEF StoreInv, StoreTypeOK
<1>4. records' = disk
  <2>1. /\ Len(records) = Len(disk) + 1 /\ Len(disk) \in Nat
        /\ \A i \in 1..Len(disk) : records[i] = disk[i]
    BY <1>2, <1>3
  <2>2. /\ records' \in Seq(Record) /\ Len(records') = Len(disk)
        /\ \A i \in 1..Len(disk) : records'[i] = disk[i]
    BY <1>1, <1>3, <2>1
  <2> QED BY <1>3, <2>2, SeqEqual
<1>5. /\ call \in Call
      /\ call'.phase = "done" /\ call'.result = "failed" /\ call' \in Call
  BY <1>1, CallTyped DEF StoreInv, Phases, Result
<1>6. up /\ Indexed = disk /\ Indexed' = disk
  BY <1>1, <1>5 DEF StoreInv, Indexed, NoCall
<1>7. clientEvents = EventIndex(disk)
  BY <1>6 DEF StoreInv
<1>8. \A e \in DOMAIN clientEvents : clientEvents[e] \in 1..Len(disk)
  BY <1>3, <1>7, IndexedOccurs DEF EventIndex
<1>9. StoreTypeOK'
  BY <1>1, <1>3, <1>4, <1>5, <1>8 DEF StoreInv, StoreTypeOK
<1> QED BY <1>1, <1>4, <1>5, <1>6, <1>7, <1>9 DEF StoreInv, AnsweredIsDurable

(* The rename makes the log file the records, which repeat no event because
   Create looked the event up before it appended. *)
LEMMA SaveRenamesKeepsInv ==
    ASSUME StoreInv, SaveRenames
    PROVE  StoreInv'
<1>1. /\ call.phase = "saving"
      /\ disk' = records
      /\ call' = [call EXCEPT !.phase = "renamed"]
      /\ UNCHANGED <<up, records, newest, clientEvents>>
  BY DEF SaveRenames
<1>2. PICK rec \in Record : rec.in = call.in /\ records = Append(disk, rec)
  BY <1>1 DEF StoreInv
<1>3. disk \in Seq(Record) /\ records \in Seq(Record)
  BY DEF StoreInv, StoreTypeOK
<1>4. /\ call \in Call /\ call' \in Call
      /\ call'.phase = "renamed" /\ call'.in = call.in
  BY <1>1, CallTyped DEF StoreInv, Phases, Result
<1>5. Indexed = disk
  BY <1>1 DEF Indexed
<1>6. Indexed' = disk
  <2>1. /\ Len(records) = Len(disk) + 1 /\ Len(disk) \in Nat
        /\ \A i \in 1..Len(disk) : records[i] = disk[i]
    BY <1>2, <1>3
  <2>2. Indexed' = SubSeq(records, 1, Len(records) - 1)
    BY <1>1, <1>4 DEF Indexed
  <2>3. /\ Indexed' \in Seq(Record) /\ Len(Indexed') = Len(disk)
        /\ \A i \in 1..Len(disk) : Indexed'[i] = disk[i]
    BY <1>3, <2>1, <2>2
  <2> QED BY <1>3, <2>3, SeqEqual
<1>7. ~DuplicateEvents(disk')
  BY <1>1, <1>2, <1>3, <1>5, AppendUnique DEF StoreInv
<1>8. disk' # <<>> /\ disk'[Len(disk')].in = call'.in
  BY <1>1, <1>2, <1>3, <1>4
<1>9. StoreTypeOK'
  BY <1>1, <1>3, <1>4 DEF StoreInv, StoreTypeOK
<1>10. up
  BY <1>1 DEF StoreInv, NoCall
<1> QED BY <1>1, <1>4, <1>5, <1>6, <1>7, <1>8, <1>9, <1>10 DEF StoreInv, AnsweredIsDurable

(* The entry Create adds to the index after the save is the one Load would
   find in the log file, and the answer "ok" is in that file. *)
LEMMA RecordKeepsInv ==
    ASSUME StoreInv, PublishRecord
    PROVE  StoreInv'
<1>1. /\ call.phase = "renamed"
      /\ clientEvents' =
           IF call.in.id = NoId THEN clientEvents
           ELSE [e \in DOMAIN clientEvents \cup {call.in.id} |->
                   IF e = call.in.id THEN Len(records) ELSE clientEvents[e]]
      /\ call' = [call EXCEPT !.phase = "done", !.result = "ok"]
      /\ UNCHANGED <<up, records, disk>>
  BY DEF PublishRecord
<1>2. /\ disk \in Seq(Record) /\ disk # <<>> /\ records = disk /\ up
      /\ disk[Len(disk)].in = call.in /\ ~DuplicateEvents(disk)
  BY <1>1 DEF StoreInv, StoreTypeOK, NoCall
<1> DEFINE front == SubSeq(disk, 1, Len(disk) - 1)
           rec   == disk[Len(disk)]
<1>3. /\ Len(disk) \in Nat \ {0} /\ rec \in Record
      /\ front \in Seq(Record) /\ Len(front) = Len(disk) - 1
      /\ \A i \in 1..Len(front) : front[i] = disk[i]
  <2>1. Len(disk) \in Nat \ {0} /\ Len(disk) \in Nat /\ Len(disk) >= 1
    <3>1. Len(disk) \in Nat \ {0}
      BY <1>2, EmptySeq
    <3> QED BY <3>1
  <2>2. \A i \in 1..Len(disk) : disk[i] \in Record
    BY <1>2, ElementOfSeq
  <2>3. PICK n \in Nat : Len(disk) = n + 1
    <3>1. Len(disk) - 1 \in Nat /\ Len(disk) = (Len(disk) - 1) + 1
      BY <2>1
    <3> QED BY <3>1
  <2>4. /\ front \in Seq(Record) /\ Len(front) = n
        /\ \A i \in 1..n : front[i] = disk[i]
    BY <1>2, <2>3
  <2> HIDE DEF front
  <2> QED BY <2>1, <2>2, <2>3, <2>4
<1>4. disk = Append(front, rec)
  <2> HIDE DEF front
  <2>1. /\ Append(front, rec) \in Seq(Record) /\ Len(Append(front, rec)) = Len(disk)
        /\ \A i \in 1..Len(disk) : Append(front, rec)[i] = disk[i]
    BY <1>3
  <2> QED BY <1>2, <2>1, SeqEqual
<1>5. /\ Indexed = front /\ clientEvents = EventIndex(front)
      /\ call.in.id \notin EventIds(front)
  BY <1>1, <1>2 DEF StoreInv, Indexed
<1>6. ~DuplicateEvents(front)
  BY <1>2, <1>3 DEF DuplicateEvents
<1> HIDE DEF front
<1>7. clientEvents' = EventIndex(disk)
  <2>1. EventIndex(Append(front, rec)) =
          IF rec.in.id = NoId THEN EventIndex(front)
          ELSE [e \in DOMAIN EventIndex(front) \cup {rec.in.id} |->
                  IF e = rec.in.id THEN Len(front) + 1 ELSE EventIndex(front)[e]]
    BY <1>2, <1>3, <1>5, <1>6, AppendIndex
  <2>2. Len(records) = Len(front) + 1 /\ rec.in.id = call.in.id
    BY <1>2, <1>3
  <2> HIDE DEF rec
  <2> QED BY <1>1, <1>4, <1>5, <2>1, <2>2
<1>8. /\ call \in Call /\ call' \in Call
      /\ call'.phase = "done" /\ call'.result = "ok" /\ call'.in = call.in
  BY <1>1, CallTyped DEF StoreInv, Phases, Result
<1>9. Indexed' = disk
  BY <1>1, <1>8 DEF Indexed
<1>10. /\ DOMAIN clientEvents' \subseteq Ids
       /\ \A e \in DOMAIN clientEvents' : clientEvents'[e] \in 1..Len(disk)
  <2>1. DOMAIN clientEvents' = EventIds(disk) /\ EventIds(disk) \subseteq Ids
    BY <1>2, <1>7, EventIdsTyped DEF EventIndex
  <2> QED BY <1>2, <1>7, <2>1, IndexedOccurs
<1>11. StoreTypeOK'
  BY <1>1, <1>2, <1>8, <1>10 DEF StoreInv, StoreTypeOK
<1>12. AnsweredIsDurable'
  BY <1>1, <1>2, <1>3, <1>8 DEF AnsweredIsDurable
<1> QED BY <1>1, <1>2, <1>7, <1>8, <1>9, <1>11, <1>12 DEF StoreInv

(* Returning from Create releases the mutex and leaves the store as it is. *)
LEMMA ReturnKeepsInv ==
    ASSUME StoreInv, CreateReturns
    PROVE  StoreInv'
<1>1. /\ call.phase = "done" /\ call' = NoCall /\ call'.phase = "none"
      /\ UNCHANGED <<up, records, newest, clientEvents, disk>>
  BY DEF CreateReturns, NoCall
<1>2. Indexed' = Indexed
  BY <1>1 DEF Indexed
<1> QED BY <1>1, <1>2 DEF StoreInv, StoreTypeOK, AnsweredIsDurable

(* A crash leaves the log file, and what it holds has no repeated event. *)
LEMMA CrashKeepsInv ==
    ASSUME StoreInv, StoreCrash
    PROVE  StoreInv'
<1>1. /\ up' = FALSE /\ records' = <<>> /\ clientEvents' = NoEvents /\ call' = NoCall
      /\ call'.phase = "none" /\ UNCHANGED disk
  BY DEF StoreCrash, NoCall
<1>2. DOMAIN NoEvents = {} /\ <<>> \in Seq(Record)
  BY DEF NoEvents
<1>3. StoreTypeOK'
  <2> HIDE DEF NoEvents
  <2> QED BY <1>1, <1>2 DEF StoreInv, StoreTypeOK
<1> QED BY <1>1, <1>3 DEF StoreInv, AnsweredIsDurable

(* Load accepts every log file that Create has left and rebuilds its index. *)
LEMMA LoadKeepsInv ==
    ASSUME StoreInv, StoreLoad
    PROVE  StoreInv'
<1>1. /\ up' = TRUE /\ records' = disk /\ clientEvents' = EventIndex(disk)
      /\ call = NoCall /\ call.phase = "none" /\ UNCHANGED <<disk, call>>
  BY DEF StoreLoad, StoreInv, NoCall
<1>2. disk \in Seq(Record)
  BY DEF StoreInv, StoreTypeOK
<1>3. /\ DOMAIN clientEvents' \subseteq Ids
      /\ \A e \in DOMAIN clientEvents' : clientEvents'[e] \in 1..Len(disk)
  <2>1. DOMAIN clientEvents' = EventIds(disk) /\ EventIds(disk) \subseteq Ids
    BY <1>1, <1>2, EventIdsTyped DEF EventIndex
  <2> QED BY <1>1, <1>2, <2>1, IndexedOccurs
<1>4. StoreTypeOK'
  BY <1>1, <1>2, <1>3 DEF StoreInv, StoreTypeOK
<1>5. Indexed' = disk
  BY <1>1 DEF Indexed
<1> QED BY <1>1, <1>4, <1>5 DEF StoreInv, AnsweredIsDurable

(* Every step of the store, Create's as well as the crash and the restart,
   keeps records, index and log file as far apart as the phase says. *)
LEMMA StoreStepInv == StoreInv /\ [StoreNext]_storeVars => StoreInv'
<1> SUFFICES ASSUME StoreInv, [StoreNext]_storeVars PROVE StoreInv'
  OBVIOUS
<1>1. ASSUME NEW in \in Input, CreateKnown(in) PROVE StoreInv'
  BY <1>1, KnownKeepsInv
<1>2. ASSUME NEW in \in Input, CreateAppend(in) PROVE StoreInv'
  BY <1>2, AppendKeepsInv
<1>3. CASE SaveFails
  BY <1>3, SaveFailsKeepsInv
<1>4. CASE SaveRenames
  BY <1>4, SaveRenamesKeepsInv
<1>5. CASE PublishRecord
  BY <1>5, RecordKeepsInv
<1>6. CASE CreateReturns
  BY <1>6, ReturnKeepsInv
<1>7. CASE StoreCrash
  BY <1>7, CrashKeepsInv
<1>8. CASE StoreLoad
  BY <1>8, LoadKeepsInv
<1>9. CASE UNCHANGED storeVars
  <2>1. Indexed' = Indexed
    BY <1>9 DEF storeVars, Indexed
  <2> QED BY <1>9, <2>1 DEF storeVars, StoreInv, StoreTypeOK, AnsweredIsDurable
<1> QED BY <1>1, <1>2, <1>3, <1>4, <1>5, <1>6, <1>7, <1>8, <1>9 DEF StoreNext

(* The inductive invariant holds in every reachable state. *)
THEOREM StoreInvariant == StoreSpec => []StoreInv
<1>1. StoreInit => StoreInv
  BY StoreInitInv
<1>2. StoreInv /\ [StoreNext]_storeVars => StoreInv'
  BY StoreStepInv
<1> QED BY <1>1, <1>2, PTL DEF StoreSpec

-----------------------------------------------------------------------------
(* The order of a listing.                                                 *)

(* A set of natural numbers has a least element: the well-foundedness of the
   library for sets, which stands for induction here. *)
LEMMA LeastNatural ==
    ASSUME NEW T \in SUBSET Nat, T # {}
    PROVE  \E m \in T : \A k \in T : m <= k
<1>1. PICK m \in T : \A k \in T : <<k, m>> \notin OpToRel(<, Nat)
  BY NatLessThanWellFounded, WFMin
<1>2. \A k \in T : ~(k < m)
  BY <1>1 DEF OpToRel
<1> QED BY <1>2

(* The places in front of others in the set are a beginning. *)
LEMMA DownsetIsInterval ==
    ASSUME NEW n \in Nat, NEW S \in SUBSET (1..n),
           \A p \in S : \A q \in 1..n : q < p => q \in S
    PROVE  S = 1..Cardinality(S) /\ Cardinality(S) \in 0..n
<1>1. PICK m \in (1..(n + 1)) \ S : \A k \in (1..(n + 1)) \ S : m <= k
  <2>1. n + 1 \in (1..(n + 1)) \ S /\ (1..(n + 1)) \ S \in SUBSET Nat
    OBVIOUS
  <2> QED BY <2>1, LeastNatural
<1>2. S = 1..(m - 1)
  <2>1. ASSUME NEW p \in 1..(m - 1) PROVE p \in S
    BY <1>1
  <2>2. ASSUME NEW p \in S PROVE p \in 1..(m - 1)
    BY <1>1
  <2> QED BY <2>1, <2>2
<1>3. Cardinality(1..(m - 1)) = m - 1
  BY FS_Interval
<1> QED BY <1>2, <1>3

(* An order in which a listing shows the records. *)
Sorted(recs, order) ==
    /\ order \in [1..Len(recs) -> 1..Len(recs)]
    /\ \A p, q \in 1..Len(recs) : p < q => Newer(recs, order[p], order[q])

(* Times of creation are compared as numbers. *)
LEMMA CreatedIsNatural == \A rec \in Record : rec.created \in Nat
  BY StoreAssumption DEF Record

(* When it was created puts one record before or after any other. *)
LEMMA NewerIsTotal ==
    ASSUME NEW recs \in Seq(Record)
    PROVE  /\ \A i, j \in 1..Len(recs) :
                 Newer(recs, i, j) <=> i # j /\ ~Newer(recs, j, i)
           /\ \A i, j, k \in 1..Len(recs) :
                 Newer(recs, i, j) /\ Newer(recs, j, k) => Newer(recs, i, k)
<1>1. \A i \in 1..Len(recs) : recs[i].created \in Nat
  BY ElementOfSeq, CreatedIsNatural
<1> QED BY <1>1 DEF Newer

(* There is one such order at most. *)
LEMMA SortedOnce ==
    ASSUME NEW recs \in Seq(Record), NEW f, NEW g,
           Sorted(recs, f), Sorted(recs, g)
    PROVE  f = g
<1> DEFINE places == 1..Len(recs)
<1>1. /\ f \in [places -> places] /\ g \in [places -> places]
      /\ \A p, q \in places : p < q => Newer(recs, f[p], f[q])
      /\ \A p, q \in places : p < q => Newer(recs, g[p], g[q])
      /\ Len(recs) \in Nat
  BY DEF Sorted
<1>2. ASSUME NEW h \in [places -> places],
             \A p, q \in places : p < q => Newer(recs, h[p], h[q])
      PROVE  \A i \in places : \E p \in places : h[p] = i
  <2>1. ASSUME NEW p \in places, NEW q \in places, h[p] = h[q]
        PROVE  p = q
    <3>1. ~(p < q) /\ ~(q < p)
      BY <1>2, <2>1, NewerIsTotal
    <3> QED BY <1>1, <3>1
  <2>2. h \in Injection(places, places)
    BY <2>1 DEF Injection, IsInjective
  <2>3. h \in Surjection(places, places)
    <3>1. IsFiniteSet(places)
      BY <1>1, FS_Interval
    <3> QED BY <2>2, <3>1, FS_Injection
  <2> QED BY <2>3 DEF Surjection
<1>3. SUFFICES ASSUME NEW p \in places, f[p] # g[p],
                      \A q \in places : f[q] # g[q] => p <= q
               PROVE  FALSE
  <2> DEFINE T == {q \in places : f[q] # g[q]}
  <2>1. CASE T = {}
    BY <1>1, <2>1
  <2>2. CASE T # {}
    <3>1. T \in SUBSET Nat
      BY <1>1
    <3>2. PICK p \in T : \A q \in T : p <= q
      BY <2>2, <3>1, LeastNatural
    <3> QED BY <1>3, <3>2
  <2> QED BY <2>1, <2>2
<1>4. PICK q \in places : g[q] = f[p]
  BY <1>1, <1>2
<1>5. PICK r \in places : f[r] = g[p]
  BY <1>1, <1>2
<1>6. p < q
  <2>1. q # p
    BY <1>3, <1>4
  <2>2. ~(q < p)
    <3>1. SUFFICES ASSUME q < p PROVE FALSE
      OBVIOUS
    <3>2. f[q] = g[q]
      BY <1>1, <1>3, <3>1
    <3>3. Newer(recs, f[q], f[p])
      BY <1>1, <3>1
    <3> QED BY <1>1, <1>4, <3>2, <3>3, NewerIsTotal
  <2> QED BY <1>1, <2>1, <2>2
<1>7. p < r
  <2>1. r # p
    BY <1>3, <1>5
  <2>2. ~(r < p)
    <3>1. SUFFICES ASSUME r < p PROVE FALSE
      OBVIOUS
    <3>2. f[r] = g[r]
      BY <1>1, <1>3, <3>1
    <3>3. Newer(recs, g[r], g[p])
      BY <1>1, <3>1
    <3> QED BY <1>1, <1>5, <3>2, <3>3, NewerIsTotal
  <2> QED BY <1>1, <2>1, <2>2
<1>8. Newer(recs, f[p], g[p]) /\ Newer(recs, g[p], f[p])
  BY <1>1, <1>4, <1>5, <1>6, <1>7
<1> QED BY <1>1, <1>8, NewerIsTotal

(* Load finds the order that is there. *)
LEMMA SortedIsLoaded ==
    ASSUME NEW recs \in Seq(Record), NEW order, Sorted(recs, order)
    PROVE  LoadOrder(recs) = order
<1>1. Sorted(recs, LoadOrder(recs))
  BY DEF LoadOrder, Sorted
<1> QED BY <1>1, SortedOnce

(* Create's insertion yields it. *)
LEMMA InsertSorted ==
    ASSUME NEW recs \in Seq(Record), NEW rec \in Record, NEW order,
           Sorted(recs, order)
    PROVE  Sorted(Append(recs, rec),
                  InsertNewest(order, Append(recs, rec), Len(recs) + 1))
<1> DEFINE n     == Len(recs)
           app   == Append(recs, rec)
           newer == {p \in 1..n : app[order[p]].created > rec.created}
           k     == Cardinality(newer)
           made  == SubSeq(order, 1, k) \o <<n + 1>> \o SubSeq(order, k + 1, n)
<1>1. /\ n \in Nat /\ Len(app) = n + 1 /\ app \in Seq(Record)
      /\ \A i \in 1..n : app[i] = recs[i]
      /\ app[n + 1] = rec
  OBVIOUS
<1>2. order \in [1..n -> 1..n] /\ order \in Seq(1..n) /\ Len(order) = n
  BY <1>1 DEF Sorted
<1> HIDE DEF n, app
<1>3. /\ \A i \in 1..n : app[i].created \in Nat
      /\ rec.created \in Nat
  <2>1. \A i \in 1..n : app[i] \in Record
    BY <1>1, ElementOfSeq DEF n
  <2> QED BY <2>1, CreatedIsNatural
<1>4. ASSUME NEW p \in 1..n, NEW q \in 1..n, p < q
      PROVE  Newer(app, order[p], order[q])
  <2>1. Len(recs) = n /\ order[p] \in 1..n /\ order[q] \in 1..n
    BY <1>2 DEF n
  <2>2. Newer(recs, order[p], order[q])
    BY <1>4, <2>1 DEF Sorted
  <2>3. app[order[p]] = recs[order[p]] /\ app[order[q]] = recs[order[q]]
    BY <1>1, <2>1
  <2> QED BY <2>2, <2>3 DEF Newer
<1>5. newer = 1..k /\ k \in 0..n
  <2>1. ASSUME NEW p \in newer, NEW q \in 1..n, q < p
        PROVE  q \in newer
    <3>1. p \in 1..n /\ order[p] \in 1..n /\ order[q] \in 1..n
      BY <1>2
    <3>2. Newer(app, order[q], order[p])
      BY <1>4, <2>1, <3>1
    <3>3. /\ app[order[p]].created \in Nat /\ app[order[q]].created \in Nat
          /\ app[order[p]].created > rec.created
      BY <1>3, <2>1, <3>1
    <3> QED BY <1>3, <3>2, <3>3 DEF Newer
  <2>2. newer \in SUBSET (1..n)
    OBVIOUS
  <2> HIDE DEF newer
  <2> QED BY <1>1, <2>1, <2>2, DownsetIsInterval
<1>6. InsertNewest(order, app, n + 1) = made
  BY <1>1, <1>2 DEF InsertNewest
<1> HIDE DEF k
<1>7. /\ Len(made) = n + 1
      /\ made \in [1..(n + 1) -> 1..(n + 1)]
      /\ \A p \in 1..k : made[p] = order[p]
      /\ made[k + 1] = n + 1
      /\ \A p \in (k + 1)..n : made[p + 1] = order[p]
  <2> DEFINE before == SubSeq(order, 1, k)
             after  == SubSeq(order, k + 1, n)
  <2>1. /\ before \in Seq(1..n) /\ Len(before) = k
        /\ \A p \in 1..k : before[p] = order[p]
    BY <1>1, <1>2, <1>5
  <2>2. /\ after \in Seq(1..n) /\ Len(after) = n - k
        /\ \A p \in (k + 1)..n : after[p - k] = order[p]
    <3>1. \A i \in (k + 1)..n : order[i] \in 1..n
      BY <1>1, <1>2, <1>5
    <3>2. k + 1 \in Int /\ n \in Int
      BY <1>1, <1>5
    <3>3. /\ after \in Seq(1..n)
          /\ Len(after) = IF k + 1 <= n THEN n - (k + 1) + 1 ELSE 0
          /\ \A i \in 1..(n - (k + 1) + 1) : after[i] = order[(k + 1) + i - 1]
      BY <3>1, <3>2, SubSeqProperties
    <3> HIDE DEF after
    <3>4. ASSUME NEW p \in (k + 1)..n PROVE after[p - k] = order[p]
      <4>1. p - k \in 1..(n - (k + 1) + 1) /\ (k + 1) + (p - k) - 1 = p
        BY <1>1, <1>5
      <4> QED BY <3>3, <4>1
    <3> QED BY <1>1, <1>5, <3>3, <3>4
  <2> HIDE DEF before, after
  <2>3. /\ before \in Seq(1..(n + 1)) /\ after \in Seq(1..(n + 1))
        /\ <<n + 1>> \in Seq(1..(n + 1))
    <3>1. 1..n \subseteq 1..(n + 1) /\ n + 1 \in 1..(n + 1)
      BY <1>1
    <3>2. before \in Seq(1..(n + 1)) /\ after \in Seq(1..(n + 1))
      BY <2>1, <2>2, <3>1, SeqMonotonic
    <3> QED BY <3>1, <3>2
  <2>4. /\ before \o <<n + 1>> \in Seq(1..(n + 1))
        /\ Len(before \o <<n + 1>>) = k + 1
        /\ \A p \in 1..(k + 1) : (before \o <<n + 1>>)[p] =
              IF p <= k THEN before[p] ELSE n + 1
    BY <2>1, <2>3, <1>5
  <2> DEFINE upto == before \o <<n + 1>>
  <2>5. /\ made = upto \o after
        /\ upto \in Seq(1..(n + 1)) /\ Len(upto) = k + 1
    BY <2>4 DEF before, after
  <2> HIDE DEF upto, made
  <2>6. /\ made \in Seq(1..(n + 1)) /\ Len(made) = n + 1
        /\ \A p \in 1..(n + 1) : made[p] =
              IF p <= k + 1 THEN upto[p] ELSE after[p - (k + 1)]
    <3>1. /\ made \in Seq(1..(n + 1)) /\ Len(made) = (k + 1) + Len(after)
          /\ \A p \in 1..((k + 1) + Len(after)) : made[p] =
                IF p <= k + 1 THEN upto[p] ELSE after[p - (k + 1)]
      <4>1. after \in Seq(1..(n + 1))
        BY <2>3
      <4> QED BY <2>5, <4>1, ConcatProperties
    <3>2. (k + 1) + Len(after) = n + 1
      BY <1>1, <1>5, <2>2
    <3> QED BY <3>1, <3>2
  <2>7. made \in [1..(n + 1) -> 1..(n + 1)]
    BY <2>6, LenProperties
  <2>8. ASSUME NEW p \in (k + 1)..n PROVE made[p + 1] = order[p]
    <3>1. p + 1 \in 1..(n + 1) /\ ~(p + 1 <= k + 1) /\ (p + 1) - (k + 1) = p - k
      BY <1>1, <1>5
    <3> QED BY <2>2, <2>6, <3>1
  <2>9. ASSUME NEW p \in 1..(k + 1)
        PROVE  made[p] = IF p <= k THEN order[p] ELSE n + 1
    <3>1. p \in 1..(n + 1)
      BY <1>1, <1>5
    <3>2. made[p] = upto[p]
      BY <1>5, <2>6, <3>1
    <3>3. upto[p] = IF p <= k THEN before[p] ELSE n + 1
      BY <2>4 DEF upto
    <3>4. p <= k => p \in 1..k
      BY <1>5
    <3> QED BY <2>1, <3>2, <3>3, <3>4
  <2> QED BY <1>5, <2>6, <2>7, <2>8, <2>9
<1> HIDE DEF made
<1>8. ASSUME NEW p \in 1..k
      PROVE  Newer(app, order[p], n + 1)
  BY <1>1, <1>5, <1>8 DEF Newer
<1>9. ASSUME NEW p \in (k + 1)..n
      PROVE  Newer(app, n + 1, order[p])
  <2>1. p \in 1..n /\ p \notin newer
    BY <1>1, <1>5
  <2>2. ~(app[order[p]].created > rec.created) /\ order[p] \in 1..n
    BY <1>2, <2>1
  <2> QED BY <1>1, <1>3, <2>2 DEF Newer
<1>10. ASSUME NEW p \in 1..(n + 1), NEW q \in 1..(n + 1), p < q
       PROVE  Newer(app, made[p], made[q])
  <2>1. CASE q <= k
    <3>1. p \in 1..k /\ q \in 1..k /\ p \in 1..n /\ q \in 1..n
      BY <1>1, <1>5, <1>10, <2>1
    <3> QED BY <1>4, <1>7, <1>10, <3>1
  <2>2. CASE q = k + 1
    BY <1>1, <1>5, <1>7, <1>8, <1>10, <2>2
  <2>3. CASE q > k + 1 /\ p = k + 1
    <3>1. q - 1 \in (k + 1)..n /\ (q - 1) + 1 = q
      BY <1>1, <1>5, <2>3
    <3> QED BY <1>7, <1>9, <2>3, <3>1
  <2>4. CASE q > k + 1 /\ p <= k
    <3>1. q - 1 \in (k + 1)..n /\ (q - 1) + 1 = q /\ p \in 1..n /\ p < q - 1
          /\ q - 1 \in 1..n /\ p \in 1..k
      BY <1>1, <1>5, <2>4
    <3>2. made[q] = order[q - 1] /\ made[p] = order[p]
      BY <1>7, <3>1
    <3> QED BY <1>4, <3>1, <3>2
  <2>5. CASE q > k + 1 /\ p > k + 1
    <3>1. q - 1 \in (k + 1)..n /\ (q - 1) + 1 = q /\ p - 1 \in (k + 1)..n
          /\ (p - 1) + 1 = p /\ p - 1 < q - 1
          /\ q - 1 \in 1..n /\ p - 1 \in 1..n
      BY <1>1, <1>5, <1>10, <2>5
    <3>2. made[q] = order[q - 1] /\ made[p] = order[p - 1]
      BY <1>7, <3>1
    <3> QED BY <1>4, <3>1, <3>2
  <2> QED BY <1>1, <1>5, <2>1, <2>2, <2>3, <2>4, <2>5
<1>11. Sorted(app, made)
  BY <1>1, <1>7, <1>10 DEF Sorted
<1> QED BY <1>6, <1>11 DEF n, app

(* Any log can be sorted: a shortest one that could not would be sorted by an
   insertion. *)
LEMMA SortExists ==
    ASSUME NEW recs \in Seq(Record)
    PROVE  Sorted(recs, LoadOrder(recs))
<1> DEFINE T == {n \in Nat : \E r \in Seq(Record) :
                     Len(r) = n /\ ~ \E order : Sorted(r, order)}
<1>1. SUFFICES T = {}
  <2>1. ASSUME T = {} PROVE \E order : Sorted(recs, order)
    BY <2>1
  <2> QED BY <1>1, <2>1, SortedIsLoaded
<1>2. SUFFICES ASSUME T # {} PROVE FALSE
  OBVIOUS
<1>3. PICK n \in T : \A k \in T : n <= k
  BY <1>2, LeastNatural
<1>4. PICK r \in Seq(Record) : Len(r) = n /\ ~ \E order : Sorted(r, order)
  BY <1>3
<1>5. n # 0
  <2>1. SUFFICES ASSUME n = 0 PROVE FALSE
    OBVIOUS
  <2>2. Sorted(r, <<>>)
    BY <1>4, <2>1 DEF Sorted
  <2> QED BY <1>4, <2>2
<1>6. PICK m \in Nat : n = m + 1
  <2>1. n - 1 \in Nat /\ n = (n - 1) + 1
    BY <1>3, <1>5
  <2> QED BY <2>1
<1> DEFINE front == SubSeq(r, 1, m)
<1>7. front \in Seq(Record) /\ Len(front) = m /\ r[n] \in Record
  BY <1>4, <1>6, ElementOfSeq
<1>8. r = Append(front, r[n])
  <2>1. \A i \in 1..m : front[i] = r[i]
    BY <1>4, <1>6
  <2> HIDE DEF front
  <2>2. /\ Append(front, r[n]) \in Seq(Record)
        /\ Len(Append(front, r[n])) = n
        /\ \A i \in 1..n : Append(front, r[n])[i] = r[i]
    BY <1>6, <1>7, <2>1
  <2> QED BY <1>4, <2>2, SeqEqual
<1> HIDE DEF front
<1>9. m \notin T
  BY <1>3, <1>6
<1>10. PICK order : Sorted(front, order)
  BY <1>7, <1>9
<1> QED BY <1>4, <1>7, <1>8, <1>10, InsertSorted

(* What a listing shows, at every step of a Create. *)
OrderInv == up => newest = LoadOrder(Indexed)

(* The order in memory is that of a fresh Load after every step of the
   store. *)
LEMMA StepKeepsOrder ==
    ASSUME StoreInv, StoreInv', OrderInv, [StoreNext]_storeVars
    PROVE  OrderInv'
<1>1. ASSUME NEW in \in Input, CreateKnown(in) \/ CreateAppend(in)
      PROVE  OrderInv'
  <2>1. UNCHANGED <<up, newest, disk>> /\ call = NoCall
    BY <1>1 DEF CreateKnown, CreateAppend
  <2>2. call'.phase \in {"done", "saving"}
    BY <1>1 DEF CreateKnown, CreateAppend
  <2> QED BY <2>1, <2>2 DEF OrderInv, Indexed, NoCall
<1>2. CASE SaveFails
  BY <1>2, CallTyped DEF SaveFails, OrderInv, Indexed, Phases, Result, StoreInv
<1>3. CASE SaveRenames
  <2>1. PICK rec \in Record : records = Append(disk, rec)
    BY <1>3 DEF StoreInv, SaveRenames
  <2>2. disk \in Seq(Record) /\ Len(disk) \in Nat
    BY DEF StoreInv, StoreTypeOK
  <2>3. SubSeq(Append(disk, rec), 1, Len(Append(disk, rec)) - 1) = disk
    BY <2>2
  <2>4. call'.phase = "renamed"
    BY <1>3, CallTyped DEF SaveRenames, Phases, Result, StoreInv
  <2> QED BY <1>3, <2>1, <2>3, <2>4 DEF SaveRenames, OrderInv, Indexed
<1>4. CASE PublishRecord
  <2>1. /\ call.phase = "renamed" /\ disk \in Seq(Record) /\ disk # <<>> /\ up
        /\ records = disk /\ disk' = disk
        /\ newest' = InsertNewest(newest, disk, Len(disk))
    BY <1>4 DEF PublishRecord, StoreInv, StoreTypeOK, NoCall
  <2>2. call'.phase = "done"
    BY <1>4, CallTyped DEF PublishRecord, Phases, Result, StoreInv
  <2>3. PICK m \in Nat : Len(disk) = m + 1
    <3>1. Len(disk) \in Nat \ {0}
      BY <2>1, EmptySeq
    <3>2. Len(disk) - 1 \in Nat /\ Len(disk) = (Len(disk) - 1) + 1
      BY <3>1
    <3> QED BY <3>2
  <2> DEFINE front == SubSeq(disk, 1, m)
             rec   == disk[m + 1]
  <2>4. front \in Seq(Record) /\ Len(front) = m /\ rec \in Record
    BY <2>1, <2>3, ElementOfSeq
  <2>5. Indexed = front /\ Indexed' = disk
    BY <2>1, <2>2, <2>3 DEF Indexed
  <2>6. \A i \in 1..m : front[i] = disk[i]
    BY <2>1, <2>3
  <2> HIDE DEF front
  <2>7. disk = Append(front, rec)
    <3>1. /\ Append(front, rec) \in Seq(Record)
          /\ Len(Append(front, rec)) = m + 1
          /\ \A i \in 1..(m + 1) : Append(front, rec)[i] = disk[i]
      BY <2>4, <2>6
    <3> QED BY <2>1, <2>3, <3>1, SeqEqual
  <2>8. Sorted(front, newest)
    BY <2>1, <2>4, <2>5, SortExists DEF OrderInv
  <2>9. Sorted(disk, newest')
    BY <2>1, <2>3, <2>4, <2>7, <2>8, InsertSorted
  <2> QED BY <2>1, <2>5, <2>9, SortedIsLoaded DEF OrderInv
<1>5. CASE CreateReturns
  BY <1>5 DEF CreateReturns, OrderInv, Indexed, NoCall
<1>6. CASE StoreCrash
  BY <1>6 DEF StoreCrash, OrderInv
<1>7. CASE StoreLoad
  BY <1>7 DEF StoreLoad, StoreInv, OrderInv, Indexed, NoCall
<1>8. CASE UNCHANGED storeVars
  BY <1>8 DEF storeVars, OrderInv, Indexed
<1> QED BY <1>1, <1>2, <1>3, <1>4, <1>5, <1>6, <1>7, <1>8 DEF StoreNext

(* A listing before a restart has the order of a listing after it: the binary
   search of Create agrees with the sort of Load for any clock. *)
THEOREM ListingsAgree == StoreSpec => []ListingInOrder
<1>1. StoreInit => OrderInv
  <2> SUFFICES ASSUME StoreInit PROVE newest = LoadOrder(Indexed)
    BY DEF OrderInv
  <2>1. newest = <<>> /\ Indexed = <<>> /\ <<>> \in Seq(Record)
    BY DEF StoreInit, Indexed, NoCall
  <2>2. Sorted(<<>>, <<>>)
    BY DEF Sorted
  <2> QED BY <2>1, <2>2, SortedIsLoaded
<1>2. StoreInv /\ StoreInv' /\ OrderInv /\ [StoreNext]_storeVars => OrderInv'
  BY StepKeepsOrder
<1>3. OrderInv => ListingInOrder
  BY DEF OrderInv, ListingInOrder, Indexed, NoCall
<1> QED BY <1>1, <1>2, <1>3, StoreInvariant, PTL DEF StoreSpec

-----------------------------------------------------------------------------
(* What the invariant implies.                                             *)

(* The store's variables keep their types. *)
THEOREM StoreTypeCorrect == StoreSpec => []StoreTypeOK
<1>1. StoreInv => StoreTypeOK
  BY DEF StoreInv
<1> QED BY <1>1, StoreInvariant, PTL

(* Retries, failed saves and crashes never log an event twice. *)
THEOREM OnceOnly == StoreSpec => []OneRecordPerEvent
<1>1. StoreInv => OneRecordPerEvent
  <2> SUFFICES ASSUME StoreInv PROVE ~DuplicateEvents(records)
    BY DEF StoreInv, OneRecordPerEvent
  <2>1. CASE call.phase = "saving"
    <3>1. PICK rec \in Record : rec.in = call.in /\ records = Append(disk, rec)
      BY <2>1 DEF StoreInv
    <3>2. /\ disk \in Seq(Record) /\ ~DuplicateEvents(disk)
          /\ rec.in.id \notin EventIds(disk)
      BY <2>1, <3>1 DEF StoreInv, StoreTypeOK, Indexed
    <3> QED BY <3>1, <3>2, AppendUnique
  <2>2. CASE up /\ call.phase # "saving"
    BY <2>2 DEF StoreInv
  <2>3. CASE ~up
    BY <2>3, EmptyLog DEF StoreInv
  <2> QED BY <2>1, <2>2, <2>3
<1> QED BY <1>1, StoreInvariant, PTL

(* A restart between two Creates would load the records and the index that
   are in memory anyway. *)
THEOREM RestartLosesNothing == StoreSpec => []RestartInvisible
<1>1. StoreInv => RestartInvisible
  BY DEF StoreInv, RestartInvisible, Indexed, NoCall
<1> QED BY <1>1, StoreInvariant, PTL

(* Whoever is answered "ok" finds the operation in the log file. *)
THEOREM AnsweredStays == StoreSpec => []AnsweredIsDurable
<1>1. StoreInv => AnsweredIsDurable
  BY DEF StoreInv
<1> QED BY <1>1, StoreInvariant, PTL

(* No step drops, reorders or rewrites a record of the log file. *)
THEOREM AppendsOnly == StoreSpec => LogAppendOnly
<1> DEFINE Grows == /\ Len(disk') >= Len(disk)
                    /\ \A i \in 1..Len(disk) : disk'[i] = disk[i]
<1>1. StoreInv /\ [StoreNext]_storeVars => [Grows]_disk
  <2> SUFFICES ASSUME StoreInv, [StoreNext]_storeVars, disk' # disk PROVE Grows
    OBVIOUS
  <2>1. SaveRenames
    BY DEF StoreNext, storeVars, CreateKnown, CreateAppend, SaveFails, PublishRecord,
           CreateReturns, StoreCrash, StoreLoad
  <2>2. PICK rec \in Record : records = Append(disk, rec)
    BY <2>1 DEF StoreInv, SaveRenames
  <2>3. disk' = Append(disk, rec) /\ disk \in Seq(Record)
    BY <2>1, <2>2 DEF SaveRenames, StoreInv, StoreTypeOK
  <2> QED BY <2>3
<1> QED BY <1>1, StoreInvariant, PTL DEF StoreSpec, LogAppendOnly
=============================================================================
