--------------------------- MODULE OperationsProofs ---------------------------
(***************************************************************************)
(* Whatever tabs, network and server do, what the form has said stays      *)
(* true: for every number of tabs, entries and identifiers, for every      *)
(* limit and every number of faults.  OperationsInv is the inductive       *)
(* invariant.  Its core is SeenInv: an entry is on its way in many copies, *)
(* in the queue, in the flushes of several tabs, in requests nobody waits  *)
(* for any more and in the log, and all of them have the identifier it was *)
(* given once.  StoreInv of OperationsStoreProofs is a part of it.         *)
(***************************************************************************)
EXTENDS Operations, OperationsStoreProofs, FunctionTheorems

-----------------------------------------------------------------------------
(* The invariant.                                                          *)

(* What a record says of the entry it was made from. *)
EntryOf(in) == [id |-> in.id, doc |-> in.doc]

(* The entries that have left the queue for a flush, a request or the log. *)
ToSend ==
    {e \in Entry : \E t \in Tabs : \E i \in 1..Len(todo[t]) : e = todo[t][i]}
Requested == {req[c].msg.entry : c \in {c \in Clients : req[c] # NoRequest}}
Adrift    == {msg.entry : msg \in orphans}
Underway  == ToSend \cup Requested \cup Adrift
Logged ==
    {EntryOf(disk[i].in) : i \in 1..Len(disk)}
        \cup (IF call = NoCall THEN {} ELSE {EntryOf(call.in)})
Waiting == {queue[i] : i \in 1..Len(queue)}
Seen    == Waiting \cup Underway \cup Logged

(* Wherever an entry is seen it has the same identifier, and no other entry
   has it.  An entry without one is nowhere but in the queue. *)
SeenInv ==
    /\ \A e, f \in Seen : e.doc = f.doc => e = f
    /\ \A e, f \in Seen : e.id = f.id /\ e.id # NoId => e = f
    /\ \A e \in Seen : e.id \in used \cup {NoId} /\ told[e.doc] # "none"
    /\ \A e \in Underway \cup Logged : e.id # NoId

(* The queue keeps its limit and has no entry twice. *)
QueueInv ==
    /\ Len(queue) <= QueueLimit
    /\ \A i, j \in 1..Len(queue) : queue[i].doc = queue[j].doc => i = j

(* A flush has a request exactly while it has something to send. *)
FlushInv == \A t \in Tabs : todo[t] = <<>> <=> req[<<t, "flush">>] = NoRequest

(* The form has said that it is sending what it waits for, and two forms wait
   for different entries. *)
FormInv ==
    /\ \A t \in Tabs :
          req[<<t, "form">>] # NoRequest =>
              told[req[<<t, "form">>].msg.entry.doc] = "sending"
    /\ \A t, u \in Tabs :
          /\ req[<<t, "form">>] # NoRequest
          /\ req[<<u, "form">>] # NoRequest
          /\ req[<<t, "form">>].msg.entry.doc = req[<<u, "form">>].msg.entry.doc
          => t = u

(* The Create that holds the store is the one of the request that is held. *)
HeldInv ==
    \A c \in Clients :
        req[c].st = "held" => call # NoCall /\ call.in = Operation(req[c].msg)

(* What a request was told is so. *)
AnswerInv ==
    \A c \in Clients :
        /\ req[c].st = "created" => OnDisk(req[c].msg.entry.doc)
        /\ req[c].st = "kept" => InLocal(req[c].msg.entry.doc)

(* The store holds nothing the handler refuses. *)
CallInv == call # NoCall => call.in.doc \notin BadDocs

OperationsInv ==
    /\ OperationsTypeOK
    /\ StoreInv
    /\ SeenInv
    /\ QueueInv
    /\ FlushInv
    /\ FormInv
    /\ HeldInv
    /\ AnswerInv
    /\ CallInv
    /\ SavedIsKept
    /\ QueuedIsKept
-----------------------------------------------------------------------------
(* Identifiers, and the queue without an entry.                            *)

(* The places of a sequence are finitely many. *)
LEMMA IntervalSize == \A n \in Nat : IsFiniteSet(1..n) /\ Cardinality(1..n) = n
  BY FS_Interval

(* Places to fill and enough that is new: there is one for each of them. *)
LEMMA DrawExists ==
    ASSUME NEW S, NEW T, IsFiniteSet(S), IsFiniteSet(T),
           Cardinality(S) <= Cardinality(T)
    PROVE  \E f \in [S -> T] : IsInjective(f)
<1>1. PICK g \in Injection(S, 1..Cardinality(S)) : TRUE
  <2>1. ExistsBijection(1..Cardinality(S), S)
    BY FS_CardinalityType
  <2>2. PICK b \in Bijection(1..Cardinality(S), S) : TRUE
    BY <2>1 DEF ExistsBijection
  <2>3. Inverse(b, 1..Cardinality(S), S) \in Bijection(S, 1..Cardinality(S))
    BY Fun_BijInverse
  <2> QED BY <2>3, Fun_BijectionProperties
<1>2. PICK h \in Injection(1..Cardinality(T), T) : TRUE
  <2>1. ExistsBijection(1..Cardinality(T), T)
    BY FS_CardinalityType
  <2> QED BY <2>1, Fun_BijectionProperties DEF ExistsBijection
<1>3. 1..Cardinality(S) \subseteq 1..Cardinality(T)
  BY FS_CardinalityType
<1>4. /\ g \in [S -> 1..Cardinality(S)]
      /\ \A a, b \in S : g[a] = g[b] => a = b
      /\ h \in [1..Cardinality(T) -> T]
      /\ \A a, b \in 1..Cardinality(T) : h[a] = h[b] => a = b
  BY <1>1, <1>2 DEF Injection, IsInjective
<1>5. [x \in S |-> h[g[x]]] \in [S -> T]
  BY <1>3, <1>4
<1>6. ASSUME NEW a \in S, NEW b \in S, h[g[a]] = h[g[b]] PROVE a = b
  BY <1>3, <1>4, <1>6
<1> WITNESS [x \in S |-> h[g[x]]] \in [S -> T]
<1> QED BY <1>6 DEF IsInjective

(* What operationEventID draws is new, and different for each place. *)
LEMMA FreshIdsFacts ==
    ASSUME OperationsTypeOK, NEW places, IsFiniteSet(places), CanDraw(places)
    PROVE  /\ FreshIds(places) \in [places -> Ids \ used]
           /\ \A a, b \in places :
                 FreshIds(places)[a] = FreshIds(places)[b] => a = b
<1>1. IsFiniteSet(Ids \ used)
  BY OperationsAssumption, FS_Subset
<1>2. \E ids \in [places -> Ids \ used] : IsInjective(ids)
  BY <1>1, DrawExists DEF CanDraw
<1>3. FreshIds(places) \in [places -> Ids \ used] /\ IsInjective(FreshIds(places))
  BY <1>2 DEF FreshIds
<1> QED BY <1>3 DEF IsInjective

(* The places of a part of a sequence, in their order. *)
Enumerates(f, S) ==
    /\ f \in [1..Cardinality(S) -> S]
    /\ \A j, k \in 1..Cardinality(S) : j < k => f[j] < f[k]

(* Every part of a sequence can be put in its order. *)
LEMMA EnumerationExists ==
    ASSUME NEW n \in Nat, NEW S \in SUBSET (1..n)
    PROVE  \E f : Enumerates(f, S)
<1> DEFINE Fails(m) == \E R \in SUBSET (1..m) : \A f : ~Enumerates(f, R)
           T        == {m \in Nat : Fails(m)}
<1>1. SUFFICES ASSUME T # {} PROVE FALSE
  OBVIOUS
<1>2. PICK m \in T : \A k \in T : m <= k
  BY <1>1, LeastNatural
<1>3. m \in Nat
  BY <1>2
<1>4. PICK R \in SUBSET (1..m) : \A f : ~Enumerates(f, R)
  BY <1>2
<1> HIDE DEF T, Fails
<1>5. R # {}
  <2>1. SUFFICES ASSUME R = {} PROVE FALSE
    OBVIOUS
  <2>2. Cardinality(R) = 0
    BY <2>1, FS_EmptySet
  <2>3. Enumerates([i \in 1..0 |-> 0], R)
    BY <2>1, <2>2 DEF Enumerates
  <2> QED BY <1>4, <2>3
<1>6. m \in Nat \ {0} /\ m - 1 \in Nat /\ ~(m <= m - 1)
  <2>1. PICK x \in R : x \in 1..m
    BY <1>5
  <2> QED BY <1>3, <2>1
<1>7. ~Fails(m - 1)
  BY <1>2, <1>6 DEF T
<1>8. m \in R
  <2>1. SUFFICES ASSUME m \notin R PROVE FALSE
    OBVIOUS
  <2>2. R \in SUBSET (1..(m - 1))
    BY <1>3, <2>1
  <2> QED BY <1>4, <1>7, <2>2 DEF Fails
<1>9. R \ {m} \in SUBSET (1..(m - 1))
  BY <1>3
<1>10. PICK g : Enumerates(g, R \ {m})
  BY <1>7, <1>9 DEF Fails
<1>11. /\ IsFiniteSet(R)
       /\ Cardinality(R) \in Nat
       /\ Cardinality(R \ {m}) = Cardinality(R) - 1
       /\ Cardinality(R) # 0
  <2>1. IsFiniteSet(R)
    <3>1. IsFiniteSet(1..m)
      BY <1>3, FS_Interval
    <3> QED BY <3>1, FS_Subset
  <2> QED BY <1>5, <1>8, <2>1, FS_CardinalityType, FS_RemoveElement, FS_EmptySet
<1> DEFINE c == Cardinality(R)
           f == [j \in 1..c |-> IF j = c THEN m ELSE g[j]]
<1>12. \A j \in 1..(c - 1) : g[j] \in R \ {m}
  BY <1>10, <1>11 DEF Enumerates
<1>13. \A j \in 1..c : f[j] \in R
  BY <1>8, <1>11, <1>12
<1>14. ASSUME NEW j \in 1..c, NEW k \in 1..c, j < k PROVE f[j] < f[k]
  <2>1. f[j] = g[j] /\ g[j] \in 1..(m - 1)
    BY <1>9, <1>11, <1>12, <1>14
  <2>2. CASE k = c
    BY <1>3, <2>1, <2>2
  <2>3. CASE k # c
    <3>1. j \in 1..(c - 1) /\ k \in 1..(c - 1) /\ f[k] = g[k]
      BY <1>11, <1>14, <2>3
    <3>2. g[j] < g[k]
      BY <1>10, <1>11, <1>14, <3>1 DEF Enumerates
    <3> QED BY <2>1, <3>1, <3>2
  <2> QED BY <2>2, <2>3
<1>15. Enumerates(f, R)
  BY <1>13, <1>14 DEF Enumerates
<1> QED BY <1>4, <1>15

(* Where the entries of Without come from. *)
Kept(entries, entry) == {i \in 1..Len(entries) : entries[i].id # entry.id}

(* What has arrived leaves the queue and nothing else does. *)
LEMMA WithoutFacts ==
    ASSUME NEW entries \in Seq(Entry), NEW entry \in Entry
    PROVE  LET rest == Without(entries, entry)
           IN  /\ rest \in Seq(Entry)
               /\ Len(rest) <= Len(entries)
               /\ \A j \in 1..Len(rest) :
                     \E i \in 1..Len(entries) : rest[j] = entries[i]
               /\ \A i \in 1..Len(entries) :
                     entries[i].id # entry.id =>
                         \E j \in 1..Len(rest) : rest[j] = entries[i]
               /\ (\A i, j \in 1..Len(entries) :
                      entries[i].doc = entries[j].doc => i = j)
                  => \A i, j \in 1..Len(rest) : rest[i].doc = rest[j].doc => i = j
<1> DEFINE K == Kept(entries, entry)
           c == Cardinality(K)
           p == CHOOSE f \in [1..c -> K] :
                    \A j, k \in 1..c : j < k => f[j] < f[k]
           rest == Without(entries, entry)
<1>1. Len(entries) \in Nat /\ K \in SUBSET (1..Len(entries))
  BY DEF Kept
<1>2. /\ IsFiniteSet(K)
      /\ c \in Nat
      /\ c <= Len(entries)
  <2>1. IsFiniteSet(1..Len(entries)) /\ Cardinality(1..Len(entries)) = Len(entries)
    BY <1>1, IntervalSize
  <2>2. IsFiniteSet(K) /\ Cardinality(K) <= Cardinality(1..Len(entries))
    <3> HIDE DEF K
    <3> QED BY <1>1, <2>1, FS_Subset
  <2> QED BY <2>1, <2>2, FS_CardinalityType
<1>3. PICK f : Enumerates(f, K)
  BY <1>1, EnumerationExists
<1>4. p \in [1..c -> K] /\ \A j, k \in 1..c : j < k => p[j] < p[k]
  BY <1>3 DEF Enumerates
<1>5. rest = [j \in 1..c |-> entries[p[j]]]
  BY DEF Without, Kept
<1> HIDE DEF rest, p, c
<1>6. \A j \in 1..c : p[j] \in 1..Len(entries) /\ p[j] \in K
  BY <1>1, <1>4
<1>7. rest \in Seq(Entry) /\ Len(rest) = c
  <2>1. \A j \in 1..c : entries[p[j]] \in Entry
    BY <1>6
  <2> QED BY <1>2, <1>5, <2>1
<1>8. \A j, k \in 1..c : p[j] = p[k] => j = k
  <2>1. SUFFICES ASSUME NEW j \in 1..c, NEW k \in 1..c, p[j] = p[k], j # k
                 PROVE  FALSE
    OBVIOUS
  <2>2. p[j] \in Int /\ p[k] \in Int
    BY <1>6
  <2>3. j < k \/ k < j
    BY <2>1, <1>2
  <2> QED BY <1>4, <2>1, <2>2, <2>3
<1>9. \A i \in K : \E j \in 1..c : p[j] = i
  <2>1. p \in Injection(1..c, K)
    BY <1>4, <1>8 DEF Injection, IsInjective
  <2>2. Cardinality(1..c) = c
    BY <1>2, FS_Interval
  <2>3. p \in Surjection(1..c, K)
    BY <1>2, <2>1, <2>2, FS_Injection DEF c
  <2> QED BY <2>3 DEF Surjection
<1>10. ASSUME NEW i \in 1..Len(entries), entries[i].id # entry.id
       PROVE  \E j \in 1..Len(rest) : rest[j] = entries[i]
  <2>1. i \in K
    BY <1>10 DEF Kept
  <2> QED BY <1>5, <1>7, <1>9, <2>1
<1>11. ASSUME \A i, j \in 1..Len(entries) : entries[i].doc = entries[j].doc => i = j,
              NEW i \in 1..Len(rest), NEW j \in 1..Len(rest), rest[i].doc = rest[j].doc
       PROVE  i = j
  <2>1. i \in 1..c /\ j \in 1..c
    BY <1>7, <1>11
  <2>2. rest[i] = entries[p[i]] /\ rest[j] = entries[p[j]]
    BY <1>5, <2>1
  <2>3. p[i] = p[j]
    BY <1>6, <1>11, <2>1, <2>2
  <2> QED BY <1>8, <2>1, <2>3
<1> QED BY <1>2, <1>5, <1>6, <1>7, <1>10, <1>11 DEF rest

(* What flushPendingOperations makes of the queue it has read: every entry has
   an identifier, and the ones that have just got theirs are alone with it. *)
LEMMA IdentifiedFacts ==
    ASSUME OperationsTypeOK, CanDraw(Bare(queue))
    PROVE  LET queued == Identified(queue)
           IN  /\ queued \in Seq(Entry)
               /\ Len(queued) = Len(queue)
               /\ \A i \in 1..Len(queue) :
                     /\ queued[i].doc = queue[i].doc
                     /\ queued[i].id \in Ids
                     /\ queue[i].id # NoId => queued[i] = queue[i]
                     /\ queue[i].id = NoId => queued[i].id \notin used
               /\ \A i, j \in 1..Len(queue) :
                     queue[i].id = NoId /\ queue[j].id = NoId
                         /\ queued[i].id = queued[j].id => i = j
<1> DEFINE ids == FreshIds(Bare(queue))
           queued == Identified(queue)
<1>1. queue \in Seq(Entry) /\ Len(queue) \in Nat
  BY DEF OperationsTypeOK
<1>2. IsFiniteSet(Bare(queue))
  <2>1. IsFiniteSet(1..Len(queue))
    BY <1>1, IntervalSize
  <2>2. Bare(queue) \in SUBSET (1..Len(queue))
    BY DEF Bare
  <2> QED BY <2>1, <2>2, FS_Subset
<1>3. /\ ids \in [Bare(queue) -> Ids \ used]
      /\ \A a, b \in Bare(queue) : ids[a] = ids[b] => a = b
  BY <1>2, FreshIdsFacts
<1>4. queued = [i \in 1..Len(queue) |->
                  IF queue[i].id # NoId THEN queue[i]
                  ELSE [queue[i] EXCEPT !.id = ids[i]]]
  BY DEF Identified
<1> HIDE DEF ids, queued
<1>5. ASSUME NEW i \in 1..Len(queue)
      PROVE  /\ queued[i] \in Entry
             /\ queued[i].doc = queue[i].doc
             /\ queued[i].id \in Ids
             /\ queue[i].id # NoId => queued[i] = queue[i]
             /\ queue[i].id = NoId => queued[i].id = ids[i] /\ i \in Bare(queue)
  <2>1. queue[i] \in Entry
    BY <1>1
  <2>2. CASE queue[i].id # NoId
    BY <1>4, <2>1, <2>2 DEF Entry
  <2>3. CASE queue[i].id = NoId
    <3>1. i \in Bare(queue) /\ ids[i] \in Ids
      BY <1>3, <2>3 DEF Bare
    <3>2. queued[i] = [id |-> ids[i], doc |-> queue[i].doc]
      BY <1>4, <2>1, <2>3 DEF Entry
    <3> QED BY <2>1, <2>3, <3>1, <3>2 DEF Entry
  <2> QED BY <2>2, <2>3
<1>6. queued \in Seq(Entry) /\ Len(queued) = Len(queue)
  BY <1>1, <1>4, <1>5
<1> QED BY <1>3, <1>5, <1>6 DEF queued

-----------------------------------------------------------------------------
(* Requests.                                                               *)

(* A client without a request has none of the statuses of one. *)
LEMMA NoRequestIsNone == NoRequest.st = "none" /\ NoRequest \notin Request
  BY DEF NoRequest, Request, Outcomes

(* A client that has a request has an entry in it. *)
LEMMA RequestTyped ==
    ASSUME OperationsTypeOK, NEW c \in Clients, req[c] # NoRequest
    PROVE  /\ req[c] \in Request
           /\ req[c].st \in {"sent", "held"} \cup Outcomes
           /\ req[c].msg \in Message
           /\ req[c].msg.entry \in Entry
  BY DEF OperationsTypeOK, Request, Message

(* A status that is not "none" is one of a request. *)
LEMMA StatusTyped ==
    ASSUME OperationsTypeOK, NEW c \in Clients
    PROVE  req[c].st # "none" <=> req[c] # NoRequest
<1>1. ASSUME req[c] # NoRequest PROVE req[c].st # "none"
  BY <1>1, RequestTyped DEF Outcomes
<1> QED BY <1>1, NoRequestIsNone

(* Each tab has the client of its form and the one of its flush. *)
LEMMA ClientTyped ==
    \A t \in Tabs : <<t, "form">> \in Clients /\ <<t, "flush">> \in Clients
  BY DEF Clients

(* A request is under way, and so is every entry a flush has still to send. *)
LEMMA RequestUnderway ==
    \A c \in Clients : req[c] # NoRequest => req[c].msg.entry \in Underway
  BY DEF Underway, Requested

(* What a flush has still to send is an entry, and under way. *)
LEMMA TodoUnderway ==
    ASSUME OperationsTypeOK, NEW t \in Tabs, NEW i \in 1..Len(todo[t])
    PROVE  todo[t][i] \in Entry /\ todo[t][i] \in Underway
<1>1. todo[t][i] \in Entry
  BY DEF OperationsTypeOK
<1> QED BY <1>1 DEF Underway, ToSend

(* The handler gives the store the entry as it was sent, and the operator. *)
LEMMA OperationTyped ==
    ASSUME NEW msg \in Message
    PROVE  /\ Operation(msg) \in Input
           /\ EntryOf(Operation(msg)) = msg.entry
           /\ Operation(msg).doc = msg.entry.doc
<1>1. /\ msg.entry \in Entry /\ msg.cred \in Actors
      /\ msg.entry.id \in Ids \cup {NoId} /\ msg.entry.doc \in Docs
      /\ msg.entry = [id |-> msg.entry.id, doc |-> msg.entry.doc]
  BY DEF Message, Entry
<1>2. (IF mode = "multi-user" THEN msg.cred ELSE NoActor) \in Actors
  BY <1>1, OperationsAssumption
<1> QED BY <1>1, <1>2 DEF Operation, Input, EntryOf

(* A fault takes one from those that are left. *)
LEMMA FaultTyped ==
    ASSUME NEW kind \in {"network", "crash", "save", "reload", "offline"},
           OperationsTypeOK, Fault(kind)
    PROVE  faults' \in [DOMAIN MaxFaults -> Nat]
<1>1. faults \in [DOMAIN MaxFaults -> Nat] /\ kind \in DOMAIN MaxFaults
  BY OperationsAssumption DEF OperationsTypeOK
<1>2. faults[kind] - 1 \in Nat
  BY <1>1 DEF Fault
<1> QED BY <1>1, <1>2 DEF Fault

(* What the form, the log and the handler think of an entry does not change
   when nothing but the places where it is seen becomes fewer. *)
LEMMA SeenShrinks ==
    ASSUME SeenInv,
           Waiting' \subseteq Seen,
           Underway' \subseteq Underway,
           Logged' \subseteq Logged \cup Underway,
           used \subseteq used',
           \A e \in Seen : told[e.doc] # "none" => told'[e.doc] # "none"
    PROVE  SeenInv'
<1>1. Seen' \subseteq Seen
  BY DEF Seen
<1>2. (Underway \cup Logged)' \subseteq Underway \cup Logged
  OBVIOUS
<1> QED BY <1>1, <1>2 DEF SeenInv

-----------------------------------------------------------------------------
(* The steps of network and server, which leave the browser alone.         *)

(* What a log file has it keeps. *)
LEMMA DiskKeeps ==
    ASSUME \A i \in 1..Len(disk) : i \in 1..Len(disk') /\ disk'[i] = disk[i],
           NEW d, OnDisk(d)
    PROVE  OnDisk(d)'
  BY DEF OnDisk

(* A step after which the same requests wait with the same messages. *)
LEMMA ServerStep ==
    ASSUME OperationsInv, StoreInv',
           UNCHANGED <<queue, local, view, token, todo, told, used, mode>>,
           req' \in [Clients -> Request \cup {NoRequest}],
           \A c \in Clients :
               /\ req'[c] = NoRequest <=> req[c] = NoRequest
               /\ req[c] # NoRequest => req'[c].msg = req[c].msg
               /\ req'[c].st = "kept" => req[c].st = "kept"
               /\ req'[c].st = "created" =>
                      req[c].st = "created" \/ OnDisk(req[c].msg.entry.doc),
           \A msg \in orphans' :
               msg \in orphans \/ \E c \in Clients : req[c] # NoRequest /\ msg = req[c].msg,
           Logged' \subseteq Logged \cup Underway,
           \A i \in 1..Len(disk) : i \in 1..Len(disk') /\ disk'[i] = disk[i],
           HeldInv', CallInv',
           online' \in BOOLEAN, faults' \in [DOMAIN MaxFaults -> Nat]
    PROVE  OperationsInv'
<1> USE DEF OperationsInv
<1>1. OperationsTypeOK'
  <2>1. StoreTypeOK'
    BY DEF StoreInv
  <2>2. orphans' \subseteq Message
    <3>1. \A c \in Clients : req[c] # NoRequest => req[c].msg \in Message
      BY RequestTyped
    <3>2. orphans \subseteq Message
      BY DEF OperationsTypeOK
    <3> QED BY <3>1, <3>2
  <2>3. /\ mode' \in Modes
        /\ queue' \in Seq(Entry) /\ local' \in Seq(Entry)
        /\ view' \in [Tabs -> Modes \cup {"single-user"}]
        /\ token' \in [Tabs -> Actors]
        /\ todo' \in [Tabs -> Seq(Entry)]
        /\ told' \in [Docs -> {"none", "sending", "saved", "queued", "refused"}]
        /\ used' \subseteq Ids
    BY DEF OperationsTypeOK
  <2> QED BY <2>1, <2>2, <2>3 DEF OperationsTypeOK
<1>2. Underway' \subseteq Underway
  <2>1. ToSend' = ToSend
    BY DEF ToSend
  <2>2. Requested' \subseteq Requested
    BY DEF Requested
  <2>3. Adrift' \subseteq Adrift \cup Requested
    BY DEF Adrift, Requested
  <2> QED BY <2>1, <2>2, <2>3 DEF Underway
<1>3. SeenInv'
  <2>1. Waiting' \subseteq Seen
    BY DEF Waiting, Seen
  <2> QED BY <1>2, <2>1, SeenShrinks
<1>4. QueueInv'
  BY DEF QueueInv
<1>5. FlushInv'
  BY ClientTyped DEF FlushInv
<1>6. FormInv'
  <2>1. \A t \in Tabs :
           /\ req'[<<t, "form">>] # NoRequest => req[<<t, "form">>] # NoRequest
           /\ req[<<t, "form">>] # NoRequest =>
                 req'[<<t, "form">>].msg = req[<<t, "form">>].msg
    BY ClientTyped
  <2> QED BY <2>1 DEF FormInv
<1>7. AnswerInv'
  <2>1. SUFFICES ASSUME NEW c \in Clients
                 PROVE  /\ req'[c].st = "created" => OnDisk(req[c].msg.entry.doc)'
                        /\ req'[c].st = "kept" => InLocal(req[c].msg.entry.doc)'
    BY DEF AnswerInv
  <2>2. ASSUME req'[c].st \in {"created", "kept"}
        PROVE  req[c] # NoRequest /\ req'[c].msg = req[c].msg
    BY <2>2, NoRequestIsNone
  <2>3. ASSUME req'[c].st = "created" PROVE OnDisk(req[c].msg.entry.doc)'
    <3>1. OnDisk(req[c].msg.entry.doc)
      BY <2>3 DEF AnswerInv
    <3>2. req'[c].msg = req[c].msg
      BY <2>2, <2>3
    <3> QED BY <3>1, <3>2 DEF OnDisk
  <2>4. ASSUME req'[c].st = "kept" PROVE InLocal(req[c].msg.entry.doc)'
    <3>1. InLocal(req[c].msg.entry.doc)
      BY <2>4 DEF AnswerInv
    <3>2. req'[c].msg = req[c].msg
      BY <2>2, <2>4
    <3> QED BY <3>1, <3>2 DEF InLocal
  <2> QED BY <2>3, <2>4
<1>8. SavedIsKept' /\ QueuedIsKept'
  <2>1. \A d \in Docs : /\ OnDisk(d) => OnDisk(d)'
                        /\ InLocal(d) => InLocal(d)'
                        /\ InQueue(d) => InQueue(d)'
    BY DiskKeeps DEF InLocal, InQueue
  <2> QED BY <2>1 DEF SavedIsKept, QueuedIsKept
<1> QED BY <1>1, <1>3, <1>4, <1>5, <1>6, <1>7, <1>8

(* A request that is answered, received or lost keeps its message. *)
LEMMA StatusStep ==
    ASSUME OperationsTypeOK, NEW c \in Clients, req[c] # NoRequest,
           NEW st \in {"sent", "held"} \cup Outcomes,
           req' = [req EXCEPT ![c].st = st]
    PROVE  /\ req' \in [Clients -> Request \cup {NoRequest}]
           /\ \A k \in Clients : /\ req'[k] = NoRequest <=> req[k] = NoRequest
                                 /\ req[k] # NoRequest => req'[k].msg = req[k].msg
                                 /\ k # c => req'[k] = req[k]
           /\ req'[c].st = st
<1>1. req[c] \in Request /\ req \in [Clients -> Request \cup {NoRequest}]
  BY RequestTyped DEF OperationsTypeOK
<1>2. /\ [req[c] EXCEPT !.st = st] \in Request
      /\ [req[c] EXCEPT !.st = st].msg = req[c].msg
      /\ [req[c] EXCEPT !.st = st].st = st
  BY <1>1 DEF Request
<1>3. /\ req'[c] = [req[c] EXCEPT !.st = st]
      /\ \A k \in Clients : k # c => req'[k] = req[k]
      /\ req' \in [Clients -> Request \cup {NoRequest}]
  BY <1>1, <1>2
<1> QED BY <1>2, <1>3, NoRequestIsNone

(* So does the request whose Create is over. *)
LEMMA HeldStep ==
    ASSUME OperationsTypeOK, NEW st \in Outcomes, req' = Held(st)
    PROVE  /\ req' \in [Clients -> Request \cup {NoRequest}]
           /\ \A k \in Clients :
                 /\ req'[k] = NoRequest <=> req[k] = NoRequest
                 /\ req[k] # NoRequest => req'[k].msg = req[k].msg
                 /\ req[k].st # "held" => req'[k] = req[k]
                 /\ req[k].st = "held" => req'[k].st = st
                 /\ req'[k].st # "held"
<1>1. req \in [Clients -> Request \cup {NoRequest}]
  BY DEF OperationsTypeOK
<1>2. ASSUME NEW k \in Clients
      PROVE  /\ req'[k] \in Request \cup {NoRequest}
             /\ req'[k] = NoRequest <=> req[k] = NoRequest
             /\ req[k] # NoRequest => req'[k].msg = req[k].msg
             /\ req[k].st # "held" => req'[k] = req[k]
             /\ req[k].st = "held" => req'[k].st = st
             /\ req'[k].st # "held"
  <2>1. CASE req[k].st # "held"
    <3>1. req'[k] = req[k]
      BY <2>1 DEF Held
    <3> QED BY <1>1, <2>1, <3>1
  <2>2. CASE req[k].st = "held"
    <3>1. req[k] \in Request
      BY <2>2, NoRequestIsNone, RequestTyped
    <3>2. req'[k] = [req[k] EXCEPT !.st = st]
      BY <2>2 DEF Held
    <3>3. req'[k] \in Request /\ req'[k].msg = req[k].msg /\ req'[k].st = st
      BY <3>1, <3>2 DEF Request
    <3> QED BY <2>2, <3>1, <3>3, NoRequestIsNone DEF Outcomes
  <2> QED BY <2>1, <2>2
<1>3. req' \in [Clients -> Request \cup {NoRequest}]
  BY <1>2 DEF Held
<1> QED BY <1>2, <1>3

(* A step outside the store keeps what is known of it. *)
LEMMA StoreRests ==
    ASSUME OperationsInv, UNCHANGED <<storeVars, mode>>
    PROVE  /\ StoreInv' /\ CallInv' /\ Logged' = Logged
           /\ \A i \in 1..Len(disk) : i \in 1..Len(disk') /\ disk'[i] = disk[i]
           /\ \A c \in Clients : req'[c] = req[c] => (req[c].st = "held" =>
                 call' # NoCall /\ call'.in = Operation(req[c].msg)')
<1>1. StoreInv'
  BY StoreStepInv DEF OperationsInv
<1>2. call' = call /\ disk' = disk /\ mode' = mode
  BY DEF storeVars
<1> QED BY <1>1, <1>2 DEF OperationsInv, CallInv, Logged, HeldInv, Operation

(* The requests that break off or come back refused. *)
LEMMA LosesKeepsInv ==
    ASSUME OperationsInv, NEW c \in Clients,
           NetworkError(c) \/ Unreachable(c) \/ Refuse(c)
    PROVE  OperationsInv'
<1> USE DEF OperationsInv
<1>1. UNCHANGED storeVars /\ UNCHANGED <<queue, local, view, token, todo, told, used, mode>>
  BY DEF NetworkError, Unreachable, Refuse, tabVars
<1>2. PICK st \in {"lost", "rejected"} : req' = [req EXCEPT ![c].st = st]
  BY DEF NetworkError, Unreachable, Refuse
<1>3. req[c] # NoRequest
  BY NoRequestIsNone DEF NetworkError, Unreachable, Refuse
<1>4. st \in {"sent", "held"} \cup Outcomes
  BY DEF Outcomes
<1>5. /\ req' \in [Clients -> Request \cup {NoRequest}]
      /\ \A k \in Clients : /\ req'[k] = NoRequest <=> req[k] = NoRequest
                            /\ req[k] # NoRequest => req'[k].msg = req[k].msg
                            /\ k # c => req'[k] = req[k]
      /\ req'[c].st = st
  BY <1>2, <1>3, <1>4, StatusStep
<1>6. \A k \in Clients : /\ req'[k].st = "kept" => req[k].st = "kept"
                         /\ req'[k].st = "created" => req[k].st = "created"
  BY <1>5
<1>7. \A msg \in orphans' :
         msg \in orphans \/ \E k \in Clients : req[k] # NoRequest /\ msg = req[k].msg
  BY <1>3 DEF NetworkError, Unreachable, Refuse, Messages
<1>8. /\ StoreInv' /\ CallInv' /\ Logged' = Logged
      /\ \A i \in 1..Len(disk) : i \in 1..Len(disk') /\ disk'[i] = disk[i]
      /\ \A k \in Clients : req'[k] = req[k] => (req[k].st = "held" =>
            call' # NoCall /\ call'.in = Operation(req[k].msg)')
  BY <1>1, StoreRests
<1>9. HeldInv'
  BY <1>5, <1>8 DEF HeldInv
<1>10. online' \in BOOLEAN /\ faults' \in [DOMAIN MaxFaults -> Nat]
  BY FaultTyped DEF NetworkError, Unreachable, Refuse, OperationsTypeOK
<1> HIDE DEF OperationsInv
<1> QED BY <1>1, <1>5, <1>6, <1>7, <1>8, <1>9, <1>10, ServerStep

(* The steps of the network, and the server's start: nothing of a request
   changes. *)
LEMMA RestartKeepsInv ==
    ASSUME OperationsInv, GoOffline \/ GoOnline \/ Restart
    PROVE  OperationsInv'
<1> USE DEF OperationsInv
<1>1. UNCHANGED <<queue, local, view, token, todo, told, used, mode>>
      /\ req' = req /\ orphans' = orphans /\ disk' = disk /\ call' = call
  BY DEF GoOffline, GoOnline, Restart, StoreLoad, tabVars, storeVars
<1>2. [StoreNext]_storeVars
  BY DEF GoOffline, GoOnline, Restart, StoreNext
<1>3. StoreInv'
  BY <1>2, StoreStepInv
<1>4. HeldInv' /\ CallInv' /\ Logged' = Logged
  BY <1>1 DEF HeldInv, CallInv, Logged, Operation
<1>5. req \in [Clients -> Request \cup {NoRequest}]
  BY DEF OperationsTypeOK
<1>6. online' \in BOOLEAN /\ faults' \in [DOMAIN MaxFaults -> Nat]
  BY FaultTyped DEF GoOffline, GoOnline, Restart, OperationsTypeOK
<1> HIDE DEF OperationsInv
<1> QED BY <1>1, <1>3, <1>4, <1>5, <1>6, ServerStep

(* What a Create changes of the log, and that its operation is one the
   handler has let through. *)
LEMMA CreateFacts ==
    ASSUME OperationsInv, NEW msg \in Message, ~Refused(msg), Create(msg),
           mode' = mode, msg.entry \in Underway
    PROVE  /\ StoreInv' /\ CallInv'
           /\ call = NoCall /\ call' # NoCall /\ call'.in = Operation(msg)
           /\ Logged' \subseteq Logged \cup Underway
           /\ disk' = disk
<1> DEFINE op == Operation(msg)
<1>1. op \in Input /\ EntryOf(op) = msg.entry /\ op.doc = msg.entry.doc
  BY OperationTyped
<1>2. StoreNext
  BY <1>1 DEF Create, StoreNext
<1>3. StoreInv'
  BY <1>2, StoreStepInv DEF OperationsInv
<1> HIDE DEF op
<1>4. call = NoCall /\ disk' = disk /\ call'.in = op /\ call'.phase # "none"
  BY DEF Create, CreateKnown, CreateAppend, op
<1>5. call' # NoCall
  BY <1>4 DEF NoCall
<1>6. CallInv'
  BY <1>1, <1>4 DEF CallInv, Refused
<1>7. EntryOf(call.in)' = msg.entry
  BY <1>1, <1>4 DEF EntryOf
<1>8. Logged' \subseteq Logged \cup {EntryOf(call.in)'}
  BY <1>4 DEF Logged, EntryOf
<1> QED BY <1>3, <1>4, <1>5, <1>6, <1>7, <1>8 DEF op

(* The handler of a request takes the store, or meets the event it has. *)
LEMMA HandleKeepsInv ==
    ASSUME OperationsInv, NEW c \in Clients, Handle(c)
    PROVE  OperationsInv'
<1> USE DEF OperationsInv
<1>1. /\ UNCHANGED <<queue, local, view, token, todo, told, used, mode>>
      /\ orphans' = orphans /\ online' = online /\ faults' = faults
      /\ req' = [req EXCEPT ![c].st = "held"]
      /\ req[c].st = "sent"
  BY DEF Handle, tabVars
<1>2. req[c] # NoRequest
  BY <1>1, NoRequestIsNone
<1>3. req[c].msg \in Message /\ req[c].msg.entry \in Underway
  BY <1>2, RequestTyped, RequestUnderway
<1>4. /\ StoreInv' /\ CallInv'
      /\ call = NoCall /\ call' # NoCall /\ call'.in = Operation(req[c].msg)
      /\ Logged' \subseteq Logged \cup Underway
      /\ disk' = disk
  <2>1. ~Refused(req[c].msg) /\ Create(req[c].msg) /\ mode' = mode
    BY <1>1 DEF Handle
  <2> HIDE DEF OperationsInv
  <2> QED BY <1>3, <2>1, CreateFacts
<1>5. /\ req' \in [Clients -> Request \cup {NoRequest}]
      /\ \A k \in Clients : /\ req'[k] = NoRequest <=> req[k] = NoRequest
                            /\ req[k] # NoRequest => req'[k].msg = req[k].msg
                            /\ k # c => req'[k] = req[k]
      /\ req'[c].st = "held"
  BY <1>1, <1>2, StatusStep
<1>6. HeldInv'
  <2>1. SUFFICES ASSUME NEW k \in Clients, req'[k].st = "held"
                 PROVE  call' # NoCall /\ call'.in = Operation(req[k].msg)'
    BY DEF HeldInv
  <2>2. k = c
    BY <1>4, <1>5, <2>1 DEF HeldInv
  <2>3. Operation(req[k].msg)' = Operation(req[c].msg)
    BY <1>1, <1>2, <1>5, <2>2 DEF Operation
  <2> QED BY <1>4, <2>3
<1>7. online' \in BOOLEAN /\ faults' \in [DOMAIN MaxFaults -> Nat]
  BY <1>1 DEF OperationsTypeOK
<1>8. \A k \in Clients : /\ req'[k].st = "kept" => req[k].st = "kept"
                         /\ req'[k].st = "created" => req[k].st = "created"
  BY <1>5
<1> HIDE DEF OperationsInv
<1> QED BY <1>1, <1>4, <1>5, <1>6, <1>7, <1>8, ServerStep

(* So does the handler of a request whose tab is gone. *)
LEMMA HandleOrphanKeepsInv ==
    ASSUME OperationsInv, NEW msg \in orphans, HandleOrphan(msg)
    PROVE  OperationsInv'
<1> USE DEF OperationsInv
<1>1. /\ UNCHANGED <<queue, local, view, token, todo, told, used, mode>>
      /\ orphans' \subseteq orphans /\ online' = online /\ faults' = faults
      /\ req' = req
  BY DEF HandleOrphan, tabVars
<1>2. msg \in Message /\ msg.entry \in Underway
  BY DEF OperationsTypeOK, Underway, Adrift
<1>3. /\ StoreInv' /\ CallInv'
      /\ call = NoCall
      /\ Logged' \subseteq Logged \cup Underway
      /\ disk' = disk
  <2>1. ~Refused(msg) /\ Create(msg) /\ mode' = mode
    BY <1>1 DEF HandleOrphan
  <2> HIDE DEF OperationsInv
  <2> QED BY <1>2, <2>1, CreateFacts
<1>4. HeldInv'
  BY <1>1, <1>3 DEF HeldInv
<1>5. /\ req \in [Clients -> Request \cup {NoRequest}]
      /\ online' \in BOOLEAN /\ faults' \in [DOMAIN MaxFaults -> Nat]
  BY <1>1 DEF OperationsTypeOK
<1> HIDE DEF OperationsInv
<1> QED BY <1>1, <1>3, <1>4, <1>5, ServerStep

(* The save, done or failed: the operation in hand stays the one it is, and
   the log file has it afterwards or not. *)
LEMMA SaveKeepsInv ==
    ASSUME OperationsInv, Save \/ SaveError
    PROVE  OperationsInv'
<1> USE DEF OperationsInv
<1>1. /\ UNCHANGED <<queue, local, view, token, todo, told, used, mode>>
      /\ orphans' = orphans /\ online' = online /\ req' = req
  BY DEF Save, SaveError, tabVars
<1>2. SaveRenames \/ PublishRecord \/ SaveFails
  BY DEF Save, SaveError
<1>3. StoreInv'
  BY <1>2, StoreStepInv DEF StoreNext
<1>4. call \in Call /\ call # NoCall
  <2>1. call.phase # "none" /\ StoreTypeOK
    BY <1>2 DEF SaveRenames, PublishRecord, SaveFails, StoreInv
  <2> QED BY <2>1 DEF StoreTypeOK, NoCall
<1>5. call'.in = call.in /\ call'.phase # "none"
  BY <1>2, <1>4 DEF SaveRenames, PublishRecord, SaveFails, Call
<1>6. call' # NoCall
  BY <1>5 DEF NoCall
<1>7. HeldInv' /\ CallInv'
  BY <1>1, <1>4, <1>5, <1>6 DEF HeldInv, CallInv, Operation
<1>8. \/ disk' = disk
      \/ \E rec \in Record : rec.in = call.in /\ disk' = Append(disk, rec)
  BY <1>2 DEF SaveRenames, PublishRecord, SaveFails, StoreInv
<1>9. disk \in Seq(Record)
  BY DEF StoreInv, StoreTypeOK
<1>10. \A i \in 1..Len(disk) : i \in 1..Len(disk') /\ disk'[i] = disk[i]
  BY <1>8, <1>9
<1>11. \A i \in 1..Len(disk') :
          (i \in 1..Len(disk) /\ disk'[i] = disk[i]) \/ disk'[i].in = call.in
  BY <1>8, <1>9
<1>12. Logged' \subseteq Logged
  BY <1>4, <1>5, <1>11 DEF Logged, EntryOf
<1>13. /\ req \in [Clients -> Request \cup {NoRequest}]
       /\ online' \in BOOLEAN /\ faults' \in [DOMAIN MaxFaults -> Nat]
  BY <1>1, FaultTyped DEF OperationsTypeOK, Save, SaveError
<1> HIDE DEF OperationsInv
<1> QED BY <1>1, <1>3, <1>7, <1>10, <1>12, <1>13, ServerStep

(* The end of a Create, by its answer or by the death of the process: what is
   answered "created" is in the log file. *)
LEMMA AnswerKeepsInv ==
    ASSUME OperationsInv, Answer \/ Crash
    PROVE  OperationsInv'
<1> USE DEF OperationsInv
<1>1. /\ UNCHANGED <<queue, local, view, token, todo, told, used, mode>>
      /\ orphans' = orphans /\ online' = online /\ disk' = disk /\ call' = NoCall
  BY DEF Answer, Crash, CreateReturns, StoreCrash, tabVars
<1>2. StoreInv'
  BY StoreStepInv DEF StoreNext, Answer, Crash
<1>3. PICK st \in {"created", "rejected", "lost"} :
         /\ req' = Held(st)
         /\ st = "created" => call.phase = "done" /\ call.result = "ok"
  BY DEF Answer, Crash, CreateReturns
<1>4. /\ req' \in [Clients -> Request \cup {NoRequest}]
      /\ \A k \in Clients :
            /\ req'[k] = NoRequest <=> req[k] = NoRequest
            /\ req[k] # NoRequest => req'[k].msg = req[k].msg
            /\ req[k].st # "held" => req'[k] = req[k]
            /\ req[k].st = "held" => req'[k].st = st
            /\ req'[k].st # "held"
  <2>1. st \in Outcomes
    BY DEF Outcomes
  <2> QED BY <1>3, <2>1, HeldStep
<1>5. HeldInv' /\ CallInv'
  BY <1>1, <1>4 DEF HeldInv, CallInv
<1>6. Logged' \subseteq Logged
  BY <1>1 DEF Logged, EntryOf
<1>7. ASSUME NEW k \in Clients, req'[k].st = "created"
      PROVE  req[k].st = "created" \/ OnDisk(req[k].msg.entry.doc)
  <2>1. SUFFICES ASSUME req[k].st = "held", st = "created"
                 PROVE  OnDisk(req[k].msg.entry.doc)
    BY <1>4, <1>7
  <2>2. req[k] # NoRequest
    BY <2>1, NoRequestIsNone
  <2>3. call.in.doc = req[k].msg.entry.doc
    BY <2>1, <2>2, RequestTyped, OperationTyped DEF HeldInv
  <2>4. \E i \in 1..Len(disk) : disk[i].in = call.in
    BY <1>3, <2>1 DEF StoreInv, AnsweredIsDurable
  <2> QED BY <2>3, <2>4 DEF OnDisk
<1>8. ASSUME NEW k \in Clients, req'[k].st = "kept" PROVE req[k].st = "kept"
  BY <1>4, <1>8
<1>9. online' \in BOOLEAN /\ faults' \in [DOMAIN MaxFaults -> Nat]
  BY <1>1, FaultTyped DEF OperationsTypeOK, Answer, Crash
<1> HIDE DEF OperationsInv
<1> QED BY <1>1, <1>2, <1>4, <1>5, <1>6, <1>7, <1>8, <1>9, ServerStep

-----------------------------------------------------------------------------
(* The steps of the browser, which leave the server alone.                 *)

(* submitOperation: the entry is on its way, or in the log of the browser if
   that is where it belongs. *)
LEMMA SendFacts ==
    ASSUME OperationsTypeOK, NEW c \in Clients, NEW entry \in Entry, Send(c, entry)
    PROVE  /\ req' \in [Clients -> Request \cup {NoRequest}]
           /\ \A k \in Clients : k # c => req'[k] = req[k]
           /\ req'[c] # NoRequest
           /\ req'[c].msg.entry = entry
           /\ req'[c].st \in {"sent", "lost", "kept", "full"}
           /\ local' \in Seq(Entry)
           /\ \A d \in Docs : InLocal(d) => InLocal(d)'
           /\ req'[c].st = "kept" => InLocal(entry.doc)'
<1> DEFINE t == c[1]
           keeps == view[t] = "browser-local"
           st == CASE keeps /\ Len(local) < LocalLimit  -> "kept"
                   [] keeps /\ Len(local) >= LocalLimit -> "full"
                   [] ~keeps /\ online                  -> "sent"
                   [] ~keeps /\ ~online                 -> "lost"
           msg == [entry |-> entry, cred |-> Credential(t)]
<1>1. /\ req' = [req EXCEPT ![c] = [st |-> st, msg |-> msg]]
      /\ local' = IF st = "kept" THEN <<entry>> \o local ELSE local
  BY DEF Send
<1>2. t \in Tabs /\ local \in Seq(Entry) /\ Len(local) \in Nat /\ online \in BOOLEAN
      /\ req \in [Clients -> Request \cup {NoRequest}]
      /\ view[t] \in Modes \cup {"single-user"}
  BY DEF Clients, OperationsTypeOK
<1>3. msg \in Message
  BY <1>2, OperationsAssumption DEF Credential, Message, OperationsTypeOK
<1>4. st \in {"sent", "lost", "kept", "full"}
  BY <1>2, OperationsAssumption
<1>5. st = "kept" => keeps
  <2>1. CASE keeps
    BY <2>1
  <2>2. CASE ~keeps
    BY <1>2, <2>2
  <2> QED BY <2>1, <2>2
<1> HIDE DEF st, keeps, msg
<1>6. [st |-> st, msg |-> msg] \in Request /\ [st |-> st, msg |-> msg] # NoRequest
  BY <1>3, <1>4, NoRequestIsNone DEF Request, Outcomes
<1>7. /\ req'[c] = [st |-> st, msg |-> msg]
      /\ \A k \in Clients : k # c => req'[k] = req[k]
      /\ req' \in [Clients -> Request \cup {NoRequest}]
  BY <1>1, <1>2, <1>6
<1>8. req'[c].st = st /\ req'[c].msg.entry = entry
  BY <1>7 DEF msg
<1>9. CASE st = "kept"
  <2>1. /\ local' = <<entry>> \o local
        /\ local' \in Seq(Entry)
        /\ Len(local') = Len(local) + 1
        /\ local'[1] = entry
        /\ \A i \in 1..Len(local) : local'[i + 1] = local[i]
    BY <1>1, <1>2, <1>9
  <2>2. ASSUME NEW d \in Docs, InLocal(d) PROVE InLocal(d)'
    <3>1. PICK i \in 1..Len(local) : local[i].doc = d
      BY <2>2 DEF InLocal
    <3>2. i + 1 \in 1..Len(local') /\ local'[i + 1].doc = d
      BY <1>2, <2>1, <3>1
    <3> QED BY <3>2 DEF InLocal
  <2>3. 1 \in 1..Len(local')
    BY <1>2, <2>1
  <2>4. InLocal(entry.doc)'
    BY <2>1, <2>3 DEF InLocal
  <2> QED BY <1>4, <1>6, <1>7, <1>8, <1>9, <2>1, <2>2, <2>4
<1>10. CASE st # "kept"
  <2>1. local' = local
    BY <1>1, <1>10
  <2>2. \A d \in Docs : InLocal(d) => InLocal(d)'
    BY <2>1 DEF InLocal
  <2> QED BY <1>2, <1>4, <1>6, <1>7, <1>8, <1>10, <2>1, <2>2
<1> QED BY <1>9, <1>10

(* What holds after such a step whatever it does to queue and form. *)
LEMMA TabStep ==
    ASSUME OperationsInv, UNCHANGED <<storeVars, mode>>,
           \A d \in Docs : InLocal(d) => InLocal(d)',
           \A k \in Clients :
               \/ req'[k] = req[k]
               \/ req'[k] = NoRequest
               \/ /\ req'[k].st \in {"sent", "lost", "kept", "full"}
                  /\ req'[k].st = "kept" => InLocal(req[k].msg.entry.doc)'
    PROVE  /\ StoreInv' /\ HeldInv' /\ AnswerInv' /\ CallInv'
           /\ Logged' = Logged
           /\ \A d \in Docs : OnDisk(d) => OnDisk(d)'
<1>1. /\ StoreInv' /\ CallInv' /\ Logged' = Logged
      /\ \A c \in Clients : req'[c] = req[c] => (req[c].st = "held" =>
            call' # NoCall /\ call'.in = Operation(req[c].msg)')
  BY StoreRests
<1>2. \A d \in Docs : OnDisk(d) => OnDisk(d)'
  BY DEF OnDisk, storeVars
<1>3. HeldInv'
  <2>1. SUFFICES ASSUME NEW k \in Clients, req'[k].st = "held"
                 PROVE  call' # NoCall /\ call'.in = Operation(req[k].msg)'
    BY DEF HeldInv
  <2>2. req'[k] = req[k]
    BY <2>1, NoRequestIsNone
  <2> QED BY <1>1, <2>1, <2>2
<1>4. AnswerInv'
  <2>1. SUFFICES ASSUME NEW k \in Clients
                 PROVE  /\ req'[k].st = "created" => OnDisk(req[k].msg.entry.doc)'
                        /\ req'[k].st = "kept" => InLocal(req[k].msg.entry.doc)'
    BY DEF AnswerInv
  <2>2. CASE req'[k] = req[k] /\ req[k] # NoRequest
    <3>1. req[k].msg.entry.doc \in Docs
      BY <2>2, RequestTyped DEF OperationsInv, Entry
    <3>2. /\ req[k].st = "created" => OnDisk(req[k].msg.entry.doc)
          /\ req[k].st = "kept" => InLocal(req[k].msg.entry.doc)
      BY DEF OperationsInv, AnswerInv
    <3>3. (disk' = disk)
      BY DEF storeVars
    <3>4. req[k].st = "created" => OnDisk(req[k].msg.entry.doc)'
      BY <2>2, <3>2, <3>3 DEF OnDisk
    <3>5. ASSUME NEW d \in Docs, d = req[k].msg.entry.doc, req[k].st = "kept"
          PROVE  InLocal(req[k].msg.entry.doc)'
      BY <2>2, <3>2, <3>5 DEF InLocal
    <3> QED BY <2>2, <3>1, <3>4, <3>5
  <2>3. CASE req'[k] = NoRequest
    BY <2>3, NoRequestIsNone
  <2>4. CASE /\ req'[k].st \in {"sent", "lost", "kept", "full"}
             /\ req'[k].st = "kept" => InLocal(req[k].msg.entry.doc)'
    BY <2>4
  <2> QED BY <2>2, <2>3, <2>4
<1> QED BY <1>1, <1>2, <1>3, <1>4

(* The form draws an identifier for an entry nobody has seen. *)
LEMMA FormSubmitKeepsInv ==
    ASSUME OperationsInv, NEW t \in Tabs, NEW d \in Docs, FormSubmit(t, d)
    PROVE  OperationsInv'
<1>0. PICK id : id = FreshIds({1})[1]
  OBVIOUS
<1> DEFINE c == <<t, "form">>
           entry == [id |-> id, doc |-> d]
<1>1. /\ UNCHANGED <<storeVars, mode>>
      /\ UNCHANGED <<queue, view, token, todo, orphans, online, faults>>
      /\ told[d] = "none" /\ told' = [told EXCEPT ![d] = "sending"]
      /\ Send(c, entry) /\ used' = used \cup {id}
      /\ req[c] = NoRequest
  BY <1>0 DEF FormSubmit
<1>2. id \in Ids \ used /\ id # NoId
  <2>1. IsFiniteSet({1}) /\ CanDraw({1})
    BY FS_Singleton DEF FormSubmit
  <2>2. FreshIds({1}) \in [{1} -> Ids \ used]
    BY <2>1, FreshIdsFacts DEF OperationsInv
  <2> QED BY <1>0, <2>2, StoreAssumption
<1>3. c \in Clients /\ entry \in Entry
  BY <1>2, ClientTyped DEF Entry
<1>4. /\ req' \in [Clients -> Request \cup {NoRequest}]
      /\ \A k \in Clients : k # c => req'[k] = req[k]
      /\ req'[c] # NoRequest
      /\ req'[c].msg.entry = entry
      /\ req'[c].st \in {"sent", "lost", "kept", "full"}
      /\ local' \in Seq(Entry)
      /\ \A x \in Docs : InLocal(x) => InLocal(x)'
      /\ req'[c].st = "kept" => InLocal(entry.doc)'
  BY <1>1, <1>3, SendFacts DEF OperationsInv
<1>5. entry.id = id /\ entry.doc = d
  OBVIOUS
<1> HIDE DEF entry
<1>6. /\ StoreInv' /\ HeldInv' /\ AnswerInv' /\ CallInv'
      /\ Logged' = Logged
      /\ \A x \in Docs : OnDisk(x) => OnDisk(x)'
  <2>1. \A k \in Clients :
           \/ req'[k] = req[k]
           \/ req'[k] = NoRequest
           \/ /\ req'[k].st \in {"sent", "lost", "kept", "full"}
              /\ req'[k].st = "kept" => InLocal(req[k].msg.entry.doc)'
    <3>1. req'[c].msg.entry.doc = entry.doc
      BY <1>4
    <3>2. InLocal(req[c].msg.entry.doc)' <=> InLocal(entry.doc)'
      BY <3>1 DEF InLocal
    <3> QED BY <1>4, <3>2
  <2> QED BY <1>1, <1>4, <2>1, TabStep
<1> USE DEF OperationsInv
<1>7. told \in [Docs -> {"none", "sending", "saved", "queued", "refused"}]
  BY DEF OperationsTypeOK
<1>8. OperationsTypeOK'
  <2>1. StoreTypeOK'
    BY <1>6 DEF StoreInv
  <2>2. /\ queue' \in Seq(Entry) /\ mode' \in Modes
        /\ view' \in [Tabs -> Modes \cup {"single-user"}]
        /\ token' \in [Tabs -> Actors]
        /\ todo' \in [Tabs -> Seq(Entry)]
        /\ orphans' \subseteq Message
        /\ online' \in BOOLEAN
        /\ faults' \in [DOMAIN MaxFaults -> Nat]
        /\ used' \subseteq Ids
    BY <1>1, <1>2 DEF OperationsTypeOK
  <2>3. told' \in [Docs -> {"none", "sending", "saved", "queued", "refused"}]
    BY <1>1, <1>7
  <2> QED BY <1>4, <2>1, <2>2, <2>3 DEF OperationsTypeOK
<1>9. SeenInv'
  <2>1. Waiting' = Waiting
    BY <1>1 DEF Waiting
  <2>2. Underway' \subseteq Underway \cup {entry}
    <3>1. ToSend' = ToSend /\ Adrift' = Adrift
      BY <1>1 DEF ToSend, Adrift
    <3>2. Requested' \subseteq Requested \cup {entry}
      BY <1>4 DEF Requested
    <3> QED BY <3>1, <3>2 DEF Underway
  <2>3. Seen' \subseteq Seen \cup {entry}
    BY <1>6, <2>1, <2>2 DEF Seen
  <2>4. \A e \in Seen : e.doc # d /\ e.id # id
    BY <1>1, <1>2 DEF SeenInv
  <2>5. \A e, f \in Seen' : e.doc = f.doc => e = f
    BY <1>5, <2>3, <2>4 DEF SeenInv
  <2>6. \A e, f \in Seen' : e.id = f.id /\ e.id # NoId => e = f
    BY <1>5, <2>3, <2>4 DEF SeenInv
  <2>7. \A x \in Docs : told[x] # "none" => told'[x] # "none"
    BY <1>1, <1>7
  <2>8. \A e \in Seen : told'[e.doc] # "none"
    <3>1. SUFFICES ASSUME NEW e \in Seen PROVE told'[e.doc] # "none"
      OBVIOUS
    <3>2. told[e.doc] # "none" /\ e.doc # d
      BY <2>4 DEF SeenInv
    <3> QED BY <1>1, <1>7, <3>2
  <2>9. told'[d] = "sending"
    BY <1>1, <1>7
  <2>10. \A e \in Seen' : e.id \in used' \cup {NoId} /\ told'[e.doc] # "none"
    BY <1>1, <1>5, <2>3, <2>8, <2>9 DEF SeenInv
  <2>11. \A e \in (Underway \cup Logged)' : e.id # NoId
    BY <1>2, <1>5, <1>6, <2>2 DEF SeenInv
  <2> QED BY <2>5, <2>6, <2>10, <2>11 DEF SeenInv
<1>10. QueueInv'
  BY <1>1 DEF QueueInv
<1>11. FlushInv'
  BY <1>1, <1>4, ClientTyped DEF FlushInv
<1>12. FormInv'
  <2>1. \A u \in Tabs : u # t =>
           /\ req'[<<u, "form">>] = req[<<u, "form">>]
           /\ req[<<u, "form">>] # NoRequest =>
                 req[<<u, "form">>].msg.entry.doc # d
    <3>1. SUFFICES ASSUME NEW u \in Tabs, u # t
                   PROVE  /\ req'[<<u, "form">>] = req[<<u, "form">>]
                          /\ req[<<u, "form">>] # NoRequest =>
                                req[<<u, "form">>].msg.entry.doc # d
      OBVIOUS
    <3>2. req'[<<u, "form">>] = req[<<u, "form">>]
      BY <1>4, <3>1, ClientTyped
    <3> QED BY <1>1, <3>2 DEF FormInv
  <2>2. told'[d] = "sending" /\ \A x \in Docs : x # d => told'[x] = told[x]
    BY <1>1, <1>7
  <2>3. \A u \in Tabs : req[<<u, "form">>] # NoRequest =>
                            req[<<u, "form">>].msg.entry.doc \in Docs
    BY ClientTyped, RequestTyped DEF Entry
  <2>4. req'[<<t, "form">>].msg.entry.doc = d
    BY <1>4, <1>5
  <2>5. \A u \in Tabs : req'[<<u, "form">>] # NoRequest =>
                            told'[req'[<<u, "form">>].msg.entry.doc] = "sending"
    <3>1. ASSUME NEW u \in Tabs, u # t, req[<<u, "form">>] # NoRequest
          PROVE  told'[req[<<u, "form">>].msg.entry.doc] = "sending"
      <4> DEFINE x == req[<<u, "form">>].msg.entry.doc
      <4>1. x \in Docs /\ x # d
        BY <2>1, <2>3, <3>1
      <4>2. told[x] = "sending"
        BY <3>1 DEF FormInv
      <4> HIDE DEF x
      <4>3. told'[x] = "sending"
        BY <2>2, <4>1, <4>2
      <4> QED BY <4>3 DEF x
    <3>2. told'[req'[<<t, "form">>].msg.entry.doc] = "sending"
      BY <2>2, <2>4
    <3> QED BY <2>1, <3>1, <3>2
  <2>6. ASSUME NEW u \in Tabs, NEW v \in Tabs,
               req'[<<u, "form">>] # NoRequest, req'[<<v, "form">>] # NoRequest,
               req'[<<u, "form">>].msg.entry.doc = req'[<<v, "form">>].msg.entry.doc
        PROVE  u = v
    BY <2>1, <2>4, <2>6 DEF FormInv
  <2> QED BY <2>5, <2>6 DEF FormInv
<1>13. SavedIsKept' /\ QueuedIsKept'
  <2>1. \A x \in Docs : told'[x] \in {"saved", "queued"} => told'[x] = told[x]
    BY <1>1, <1>7
  <2>2. \A x \in Docs : InQueue(x) => InQueue(x)'
    BY <1>1 DEF InQueue
  <2> QED BY <1>4, <1>6, <2>1, <2>2 DEF SavedIsKept, QueuedIsKept
<1> QED BY <1>6, <1>8, <1>9, <1>10, <1>11, <1>12, <1>13

(* The deployment and the operator token are not in what is kept of entries,
   and neither is a flush or a form that ends with its tab. *)
LEMMA TabRestKeepsInv ==
    ASSUME OperationsInv, NEW t \in Tabs,
           \/ LoadDeployment(t)
           \/ \E a \in Actors : SetToken(t, a)
           \/ Reload(t)
    PROVE  OperationsInv'
<1> USE DEF OperationsInv
<1>1. /\ UNCHANGED <<storeVars, mode>>
      /\ UNCHANGED <<queue, local, online, told, used>>
  BY DEF LoadDeployment, SetToken, Reload
<1>2. \A k \in Clients : \/ req'[k] = req[k] \/ req'[k] = NoRequest
  BY DEF LoadDeployment, SetToken, Reload
<1>3. /\ StoreInv' /\ HeldInv' /\ AnswerInv' /\ CallInv'
      /\ Logged' = Logged
      /\ \A x \in Docs : OnDisk(x) => OnDisk(x)'
  <2>1. \A d \in Docs : InLocal(d) => InLocal(d)'
    BY <1>1 DEF InLocal
  <2> HIDE DEF OperationsInv
  <2> QED BY <1>1, <1>2, <2>1, TabStep
<1>4. \A msg \in orphans' :
         msg \in orphans \/ \E c \in Clients : req[c] # NoRequest /\ msg = req[c].msg
  BY NoRequestIsNone DEF LoadDeployment, SetToken, Reload, Messages, Clients
<1>5. /\ todo' \in [Tabs -> Seq(Entry)]
      /\ \A u \in Tabs : todo'[u] = todo[u] \/ todo'[u] = <<>>
  <2>1. todo \in [Tabs -> Seq(Entry)] /\ <<>> \in Seq(Entry)
    BY DEF OperationsTypeOK
  <2>2. todo' = todo \/ todo' = [todo EXCEPT ![t] = <<>>]
    BY DEF LoadDeployment, SetToken, Reload
  <2> QED BY <2>1, <2>2
<1>6. OperationsTypeOK'
  <2>1. StoreTypeOK'
    BY <1>3 DEF StoreInv
  <2>2. orphans' \subseteq Message
    <3>1. \A c \in Clients : req[c] # NoRequest => req[c].msg \in Message
      BY RequestTyped
    <3>2. orphans \subseteq Message
      BY DEF OperationsTypeOK
    <3> HIDE DEF OperationsInv
    <3> QED BY <1>4, <3>1, <3>2
  <2>3. /\ view' \in [Tabs -> Modes \cup {"single-user"}]
        /\ token' \in [Tabs -> Actors]
    BY DEF LoadDeployment, SetToken, Reload, OperationsTypeOK
  <2>4. req' \in [Clients -> Request \cup {NoRequest}]
    BY DEF LoadDeployment, SetToken, Reload, OperationsTypeOK
  <2>5. faults' \in [DOMAIN MaxFaults -> Nat]
    BY FaultTyped DEF LoadDeployment, SetToken, Reload, OperationsTypeOK
  <2> QED BY <1>1, <1>5, <2>1, <2>2, <2>3, <2>4, <2>5 DEF OperationsTypeOK
<1>7. SeenInv'
  <2>1. ToSend' \subseteq ToSend
    BY <1>5 DEF ToSend
  <2>2. Requested' \subseteq Requested
    BY <1>2 DEF Requested
  <2>3. Adrift' \subseteq Adrift \cup Requested
    BY <1>4 DEF Adrift, Requested
  <2>4. Underway' \subseteq Underway /\ Waiting' \subseteq Seen
    BY <1>1, <2>1, <2>2, <2>3 DEF Underway, Waiting, Seen
  <2> QED BY <1>1, <1>3, <2>4, SeenShrinks
<1>8. QueueInv'
  BY <1>1 DEF QueueInv
<1>9. FlushInv'
  <2>1. CASE req' = req /\ todo' = todo
    BY <2>1 DEF FlushInv
  <2>2. CASE Reload(t)
    <3>1. todo' = [todo EXCEPT ![t] = <<>>]
          /\ req' = [c \in Clients |-> IF c \in {t} \X {"form", "flush"}
                                       THEN NoRequest ELSE req[c]]
      BY <2>2 DEF Reload
    <3>2. \A u \in Tabs : u # t => todo'[u] = todo[u]
                                   /\ req'[<<u, "flush">>] = req[<<u, "flush">>]
      BY <3>1, ClientTyped DEF OperationsTypeOK
    <3>3. todo'[t] = <<>> /\ req'[<<t, "flush">>] = NoRequest
      BY <3>1, ClientTyped DEF OperationsTypeOK
    <3> QED BY <3>2, <3>3 DEF FlushInv
  <2> QED BY <2>1, <2>2 DEF LoadDeployment, SetToken
<1>10. FormInv'
  BY <1>1, <1>2, ClientTyped DEF FormInv
<1>11. SavedIsKept' /\ QueuedIsKept'
  <2>1. \A x \in Docs : (InQueue(x) => InQueue(x)') /\ (InLocal(x) => InLocal(x)')
    BY <1>1 DEF InQueue, InLocal
  <2> QED BY <1>1, <1>3, <2>1 DEF SavedIsKept, QueuedIsKept
<1> QED BY <1>3, <1>6, <1>7, <1>8, <1>9, <1>10, <1>11

(* What the form could not send and has room for is in the queue afterwards;
   what it says is saved is in a log. *)
LEMMA FormReplyKeepsInv ==
    ASSUME OperationsInv, NEW t \in Tabs, FormReply(t)
    PROVE  OperationsInv'
<1> DEFINE c == <<t, "form">>
<1>1. PICK entry : entry = req[c].msg.entry
  OBVIOUS
<1>2. PICK word \in {"saved", "queued", "refused"} :
         /\ told' = [told EXCEPT ![entry.doc] = word]
         /\ word = "saved" => req[c].st \in {"created", "kept"}
         /\ word = "queued" =>
               \/ Queued(entry) /\ queue' = queue
               \/ queue' = Append(queue, entry)
  <2>1. /\ (req[c].st \in {"created", "kept"}) =>
              told' = [told EXCEPT ![entry.doc] = "saved"]
        /\ \/ /\ told' = [told EXCEPT ![entry.doc] = "queued"]
              /\ \/ Queued(entry) /\ queue' = queue
                 \/ queue' = Append(queue, entry)
           \/ told' = [told EXCEPT ![entry.doc] = "refused"]
           \/ req[c].st \in {"created", "kept"}
    BY <1>1 DEF FormReply
  <2> QED BY <2>1
<1>3. /\ UNCHANGED <<storeVars, mode>>
      /\ UNCHANGED <<local, view, token, todo, orphans, online, used, faults>>
      /\ req' = [req EXCEPT ![c] = NoRequest]
      /\ req[c].st \in Outcomes
  BY DEF FormReply
<1>4. \/ queue' = queue
      \/ /\ queue' = Append(queue, entry)
         /\ ~Queued(entry) /\ Len(queue) < QueueLimit
  BY <1>1 DEF FormReply
<1> USE DEF OperationsInv
<1>5. c \in Clients /\ req[c] # NoRequest
  BY <1>3, ClientTyped, NoRequestIsNone DEF Outcomes
<1>6. entry \in Entry /\ entry.doc \in Docs /\ entry \in Underway /\ entry \in Seen
  BY <1>1, <1>5, RequestTyped, RequestUnderway DEF Entry, Seen
<1>7. entry.id # NoId
  BY <1>6 DEF SeenInv
<1>8. /\ req' \in [Clients -> Request \cup {NoRequest}]
      /\ \A k \in Clients : k # c => req'[k] = req[k]
      /\ req'[c] = NoRequest
  BY <1>3, <1>5 DEF OperationsTypeOK
<1>9. /\ StoreInv' /\ HeldInv' /\ AnswerInv' /\ CallInv'
      /\ Logged' = Logged
      /\ \A x \in Docs : OnDisk(x) => OnDisk(x)'
  <2>1. \A d \in Docs : InLocal(d) => InLocal(d)'
    BY <1>3 DEF InLocal
  <2> HIDE DEF OperationsInv
  <2> QED BY <1>3, <1>8, <2>1, TabStep
<1>10. /\ told' \in [Docs -> {"none", "sending", "saved", "queued", "refused"}]
       /\ told'[entry.doc] = word
       /\ \A d \in Docs : d # entry.doc => told'[d] = told[d]
  BY <1>2, <1>6 DEF OperationsTypeOK
<1>11. /\ queue \in Seq(Entry) /\ queue' \in Seq(Entry)
       /\ \A i \in 1..Len(queue) : i \in 1..Len(queue') /\ queue'[i] = queue[i]
       /\ \A i \in 1..Len(queue') :
             (i \in 1..Len(queue) /\ queue'[i] = queue[i]) \/ queue'[i] = entry
  <2>1. queue \in Seq(Entry)
    BY DEF OperationsTypeOK
  <2> QED BY <1>4, <1>6, <2>1
<1>12. OperationsTypeOK'
  <2>1. StoreTypeOK'
    BY <1>9 DEF StoreInv
  <2>2. /\ mode' \in Modes /\ local' \in Seq(Entry)
        /\ view' \in [Tabs -> Modes \cup {"single-user"}]
        /\ token' \in [Tabs -> Actors]
        /\ todo' \in [Tabs -> Seq(Entry)]
        /\ orphans' \subseteq Message
        /\ online' \in BOOLEAN
        /\ faults' \in [DOMAIN MaxFaults -> Nat]
        /\ used' \subseteq Ids
    BY <1>3 DEF OperationsTypeOK
  <2> QED BY <1>8, <1>10, <1>11, <2>1, <2>2 DEF OperationsTypeOK
<1>13. SeenInv'
  <2>1. Waiting' \subseteq Seen
    BY <1>6, <1>11 DEF Waiting, Seen
  <2>2. Underway' \subseteq Underway
    <3>1. ToSend' = ToSend /\ Adrift' = Adrift
      BY <1>3 DEF ToSend, Adrift
    <3>2. Requested' \subseteq Requested
      BY <1>8 DEF Requested
    <3> QED BY <3>1, <3>2 DEF Underway
  <2>3. \A e \in Seen : told[e.doc] # "none" => told'[e.doc] # "none"
    BY <1>2, <1>10 DEF OperationsTypeOK
  <2> QED BY <1>3, <1>9, <2>1, <2>2, <2>3, SeenShrinks
<1>14. QueueInv'
  <2>1. CASE queue' = queue
    BY <2>1 DEF QueueInv
  <2>2. CASE queue' = Append(queue, entry) /\ ~Queued(entry) /\ Len(queue) < QueueLimit
    <3>1. \A i \in 1..Len(queue) : queue[i].doc # entry.doc
      <4>1. SUFFICES ASSUME NEW i \in 1..Len(queue), queue[i].doc = entry.doc
                     PROVE  FALSE
        OBVIOUS
      <4>2. queue[i] \in Seen
        BY DEF Seen, Waiting
      <4>3. queue[i] = entry
        BY <1>6, <4>1, <4>2 DEF SeenInv
      <4> QED BY <2>2, <4>3 DEF Queued
    <3>2. /\ Len(queue') = Len(queue) + 1 /\ Len(queue) \in Nat
          /\ queue'[Len(queue) + 1] = entry
          /\ \A i \in 1..Len(queue) : queue'[i] = queue[i]
      BY <1>6, <1>11, <2>2
    <3>3. Len(queue') <= QueueLimit
      BY <2>2, <3>2, OperationsAssumption
    <3>4. ASSUME NEW i \in 1..Len(queue'), NEW j \in 1..Len(queue'),
                 queue'[i].doc = queue'[j].doc
          PROVE  i = j
      <4>1. CASE i \in 1..Len(queue) /\ j \in 1..Len(queue)
        BY <3>2, <3>4, <4>1 DEF QueueInv
      <4>2. CASE i = Len(queue) + 1 \/ j = Len(queue) + 1
        BY <3>1, <3>2, <3>4, <4>2
      <4> QED BY <3>2, <4>1, <4>2
    <3> QED BY <3>3, <3>4 DEF QueueInv
  <2> QED BY <1>4, <2>1, <2>2
<1>15. FlushInv'
  BY <1>3, <1>8, ClientTyped DEF FlushInv
<1>16. FormInv'
  <2>1. \A u \in Tabs : u # t => req'[<<u, "form">>] = req[<<u, "form">>]
    BY <1>8, ClientTyped
  <2>2. \A u \in Tabs : u # t /\ req[<<u, "form">>] # NoRequest =>
                            /\ req[<<u, "form">>].msg.entry.doc # entry.doc
                            /\ req[<<u, "form">>].msg.entry.doc \in Docs
    <3>1. \A u \in Tabs : req[<<u, "form">>] # NoRequest =>
                              req[<<u, "form">>].msg.entry.doc \in Docs
      BY ClientTyped, RequestTyped DEF Entry
    <3> QED BY <1>1, <1>5, <3>1 DEF FormInv
  <2> QED BY <1>8, <1>10, <2>1, <2>2 DEF FormInv
<1>17. \A d \in Docs : /\ InQueue(d) => InQueue(d)'
                       /\ InLocal(d) => InLocal(d)'
  BY <1>3, <1>11 DEF InQueue, InLocal
<1>18. SavedIsKept'
  <2>1. word = "saved" => OnDisk(entry.doc)' \/ InLocal(entry.doc)'
    BY <1>1, <1>2, <1>5, <1>6, <1>9, <1>17 DEF AnswerInv
  <2> QED BY <1>9, <1>10, <1>17, <2>1 DEF SavedIsKept
<1>19. QueuedIsKept'
  <2>1. ASSUME word = "queued" PROVE InQueue(entry.doc)'
    <3>1. CASE Queued(entry) /\ queue' = queue
      <4>1. PICK i \in 1..Len(queue) : queue[i].id = entry.id
        BY <3>1 DEF Queued
      <4>2. queue[i] \in Seen
        BY DEF Seen, Waiting
      <4>3. queue[i] = entry
        BY <1>6, <1>7, <4>1, <4>2 DEF SeenInv
      <4> QED BY <3>1, <4>3 DEF InQueue
    <3>2. CASE queue' = Append(queue, entry)
      <4>1. Len(queue) + 1 \in 1..Len(queue') /\ queue'[Len(queue) + 1] = entry
        BY <1>6, <1>11, <3>2
      <4> QED BY <4>1 DEF InQueue
    <3> QED BY <1>2, <2>1, <3>1, <3>2
  <2> QED BY <1>9, <1>10, <1>17, <2>1 DEF QueuedIsKept
<1> QED BY <1>9, <1>12, <1>13, <1>14, <1>15, <1>16, <1>18, <1>19

(* A flush gives every entry of the queue an identifier and takes the first
   one.  An entry that has just got its identifier was nowhere else. *)
LEMMA FlushStartKeepsInv ==
    ASSUME OperationsInv, NEW t \in Tabs, FlushStart(t)
    PROVE  OperationsInv'
<1> DEFINE c == <<t, "flush">>
<1>1. PICK queued : queued = Identified(queue)
  OBVIOUS
<1>2. /\ UNCHANGED <<storeVars, mode>>
      /\ UNCHANGED <<view, token, orphans, online, told, faults>>
      /\ queue # <<>> /\ queue' = queued
      /\ used' = used \cup {queued[i].id : i \in 1..Len(queued)}
      /\ todo' = [todo EXCEPT ![t] = queued]
      /\ Send(c, queued[1])
  BY <1>1 DEF FlushStart
<1>3. /\ queued \in Seq(Entry)
      /\ Len(queued) = Len(queue)
      /\ \A i \in 1..Len(queue) :
            /\ queued[i].doc = queue[i].doc
            /\ queued[i].id \in Ids
            /\ queue[i].id # NoId => queued[i] = queue[i]
            /\ queue[i].id = NoId => queued[i].id \notin used
      /\ \A i, j \in 1..Len(queue) :
            queue[i].id = NoId /\ queue[j].id = NoId
                /\ queued[i].id = queued[j].id => i = j
  <2>1. OperationsTypeOK /\ CanDraw(Bare(queue))
    BY DEF OperationsInv, FlushStart
  <2> QED BY <1>1, <2>1, IdentifiedFacts
<1> USE DEF OperationsInv
<1>4. queue \in Seq(Entry) /\ 1 \in 1..Len(queue) /\ queued # <<>> /\ queued[1] \in Entry
  <2>1. queue \in Seq(Entry)
    BY DEF OperationsTypeOK
  <2> QED BY <1>2, <1>3, <2>1
<1>5. PICK first \in Entry : first = queued[1]
  BY <1>4
<1>6. c \in Clients
  BY ClientTyped
<1>7. /\ req' \in [Clients -> Request \cup {NoRequest}]
      /\ \A k \in Clients : k # c => req'[k] = req[k]
      /\ req'[c] # NoRequest
      /\ req'[c].msg.entry = first
      /\ req'[c].st \in {"sent", "lost", "kept", "full"}
      /\ local' \in Seq(Entry)
      /\ \A x \in Docs : InLocal(x) => InLocal(x)'
      /\ req'[c].st = "kept" => InLocal(first.doc)'
  BY <1>2, <1>5, <1>6, SendFacts
<1>8. /\ StoreInv' /\ HeldInv' /\ AnswerInv' /\ CallInv'
      /\ Logged' = Logged
      /\ \A x \in Docs : OnDisk(x) => OnDisk(x)'
  <2>1. InLocal(req[c].msg.entry.doc)' <=> InLocal(first.doc)'
    <3>1. req'[c].msg.entry.doc = first.doc
      BY <1>7
    <3> QED BY <3>1 DEF InLocal
  <2>2. \A k \in Clients :
           \/ req'[k] = req[k]
           \/ req'[k] = NoRequest
           \/ /\ req'[k].st \in {"sent", "lost", "kept", "full"}
              /\ req'[k].st = "kept" => InLocal(req[k].msg.entry.doc)'
    BY <1>7, <2>1
  <2> HIDE DEF OperationsInv
  <2> QED BY <1>2, <1>7, <2>2, TabStep
<1>9. /\ todo' \in [Tabs -> Seq(Entry)]
      /\ todo'[t] = queued
      /\ \A u \in Tabs : u # t => todo'[u] = todo[u]
  BY <1>2, <1>3 DEF OperationsTypeOK
<1>10. OperationsTypeOK'
  <2>1. StoreTypeOK'
    BY <1>8 DEF StoreInv
  <2>2. /\ mode' \in Modes
        /\ view' \in [Tabs -> Modes \cup {"single-user"}]
        /\ token' \in [Tabs -> Actors]
        /\ told' \in [Docs -> {"none", "sending", "saved", "queued", "refused"}]
        /\ orphans' \subseteq Message
        /\ online' \in BOOLEAN
        /\ faults' \in [DOMAIN MaxFaults -> Nat]
    BY <1>2 DEF OperationsTypeOK
  <2>3. used' \subseteq Ids
    BY <1>2, <1>3 DEF OperationsTypeOK
  <2> QED BY <1>2, <1>3, <1>7, <1>9, <2>1, <2>2, <2>3 DEF OperationsTypeOK
<1> DEFINE Drawn == {queued[i] : i \in Bare(queue)}
           Old   == {e \in Seen : e.id # NoId}
<1>11. \A e \in Drawn : \E i \in 1..Len(queue) :
          e = queued[i] /\ queue[i].id = NoId /\ queue[i] \in Seen
  BY DEF Bare, Seen, Waiting
<1>12. \A i \in 1..Len(queued) : queued[i] \in Drawn \cup Old
  <2>1. SUFFICES ASSUME NEW i \in 1..Len(queue), queue[i].id # NoId
                 PROVE  queued[i] \in Old
    BY <1>3 DEF Bare
  <2>2. queue[i] \in Seen /\ queued[i] = queue[i]
    BY <1>3, <2>1 DEF Seen, Waiting
  <2> QED BY <2>1, <2>2
<1>13. Underway \cup Logged \subseteq Old
  BY DEF SeenInv, Seen
<1>14. Waiting' \subseteq Drawn \cup Old
  BY <1>2, <1>12 DEF Waiting
<1> HIDE DEF Old, Drawn
<1>15. Underway' \subseteq Drawn \cup Old
  <2>1. ToSend' \subseteq ToSend \cup Drawn \cup Old
    <3>1. SUFFICES ASSUME NEW e \in ToSend' PROVE e \in ToSend \cup Drawn \cup Old
      OBVIOUS
    <3>2. PICK u \in Tabs : e \in Entry /\ \E i \in 1..Len(todo'[u]) : e = todo'[u][i]
      BY <3>1 DEF ToSend
    <3>3. CASE u = t
      BY <1>9, <1>12, <3>2, <3>3
    <3>4. CASE u # t
      BY <1>9, <3>2, <3>4 DEF ToSend
    <3> QED BY <3>3, <3>4
  <2>2. first \in Drawn \cup Old
    BY <1>3, <1>4, <1>5, <1>12
  <2>3. Requested' \subseteq Requested \cup {first}
    BY <1>7 DEF Requested
  <2>4. Adrift' = Adrift
    BY <1>2 DEF Adrift
  <2> QED BY <1>13, <2>1, <2>2, <2>3, <2>4 DEF Underway
<1>16. Seen' \subseteq Drawn \cup Old
  BY <1>8, <1>13, <1>14, <1>15 DEF Seen
<1>17. \A e \in Drawn : e.id \in Ids /\ e.id # NoId /\ e.id \notin used /\ e.id \in used'
                        /\ told[e.doc] # "none"
  <2>1. SUFFICES ASSUME NEW i \in 1..Len(queue), queue[i].id = NoId, queue[i] \in Seen
                 PROVE  /\ queued[i].id \in Ids /\ queued[i].id # NoId
                        /\ queued[i].id \notin used /\ queued[i].id \in used'
                        /\ told[queued[i].doc] # "none"
    BY <1>11
  <2>2. queued[i].id \in Ids /\ queued[i].id \notin used /\ queued[i].doc = queue[i].doc
    BY <1>3, <2>1
  <2>3. queued[i].id \in used'
    BY <1>2, <1>3, <2>1
  <2> QED BY <2>1, <2>2, <2>3, StoreAssumption DEF SeenInv
<1>18. \A e, f \in Drawn : e.doc = f.doc \/ e.id = f.id => e = f
  <2>1. SUFFICES ASSUME NEW i \in 1..Len(queue), NEW j \in 1..Len(queue),
                        queue[i].id = NoId, queue[j].id = NoId,
                        queued[i].doc = queued[j].doc \/ queued[i].id = queued[j].id
                 PROVE  i = j
    BY <1>11
  <2>2. CASE queued[i].doc = queued[j].doc
    BY <1>3, <2>2 DEF QueueInv
  <2>3. CASE queued[i].id = queued[j].id
    BY <1>3, <2>1, <2>3
  <2> QED BY <2>1, <2>2, <2>3
<1>19. \A e \in Drawn : \A f \in Old : e.doc # f.doc /\ e.id # f.id
  <2>1. SUFFICES ASSUME NEW i \in 1..Len(queue), queue[i].id = NoId, queue[i] \in Seen,
                        NEW f \in Old
                 PROVE  queued[i].doc # f.doc /\ queued[i].id # f.id
    BY <1>11
  <2>2. f \in Seen /\ f.id # NoId /\ f.id \in used
    BY DEF Old, SeenInv
  <2>3. queue[i].doc # f.doc
    BY <2>1, <2>2 DEF SeenInv
  <2> QED BY <1>3, <2>1, <2>2, <2>3
<1>20. /\ \A e, f \in Old : e.doc = f.doc \/ e.id = f.id => e = f
       /\ \A e \in Old : e.id # NoId /\ e.id \in used' /\ told[e.doc] # "none"
  <2>1. used \subseteq used'
    BY <1>2
  <2> QED BY <2>1 DEF Old, SeenInv
<1>21. SeenInv'
  <2>1. \A e, f \in Drawn \cup Old : e.doc = f.doc \/ e.id = f.id => e = f
    BY <1>18, <1>19, <1>20
  <2>2. \A e \in Drawn \cup Old : e.id # NoId /\ e.id \in used' /\ told[e.doc] # "none"
    BY <1>17, <1>20
  <2>3. (Underway \cup Logged)' \subseteq Drawn \cup Old
    BY <1>8, <1>13, <1>15
  <2> QED BY <1>2, <1>16, <2>1, <2>2, <2>3 DEF SeenInv
<1>22. QueueInv'
  BY <1>2, <1>3 DEF QueueInv
<1>23. FlushInv'
  <2>1. \A u \in Tabs : u # t => req'[<<u, "flush">>] = req[<<u, "flush">>]
    BY <1>7, ClientTyped
  <2> QED BY <1>4, <1>7, <1>9, <2>1 DEF FlushInv
<1>24. FormInv'
  <2>1. \A u \in Tabs : req'[<<u, "form">>] = req[<<u, "form">>]
    BY <1>7, ClientTyped
  <2> QED BY <1>2, <2>1 DEF FormInv
<1>25. SavedIsKept' /\ QueuedIsKept'
  <2>1. \A d \in Docs : InQueue(d) => InQueue(d)'
    BY <1>2, <1>3 DEF InQueue
  <2> QED BY <1>2, <1>7, <1>8, <2>1 DEF SavedIsKept, QueuedIsKept
<1> QED BY <1>8, <1>10, <1>21, <1>22, <1>23, <1>24, <1>25

(* What arrives leaves the queue as it is then, and what leaves the queue is
   in a log. *)
LEMMA FlushReplyKeepsInv ==
    ASSUME OperationsInv, NEW t \in Tabs, FlushReply(t)
    PROVE  OperationsInv'
<1> DEFINE c == <<t, "flush">>
<1>1. PICK entry : entry = req[c].msg.entry
  OBVIOUS
<1>2. PICK rest : rest = Tail(todo[t])
  OBVIOUS
<1>3. /\ UNCHANGED <<storeVars, mode>>
      /\ UNCHANGED <<view, token, orphans, online, told, used, faults>>
      /\ req[c].st \in Outcomes
      /\ queue' = IF req[c].st \in {"created", "kept"} THEN Without(queue, entry)
                  ELSE queue
      /\ todo' = [todo EXCEPT ![t] = rest]
      /\ IF rest = <<>> THEN req' = [req EXCEPT ![c] = NoRequest] /\ local' = local
         ELSE Send(c, rest[1])
  BY <1>1, <1>2 DEF FlushReply
<1> USE DEF OperationsInv
<1>4. c \in Clients /\ req[c] # NoRequest
  BY <1>3, ClientTyped, NoRequestIsNone DEF Outcomes
<1>5. entry \in Entry /\ entry \in Seen /\ entry.id # NoId
  BY <1>1, <1>4, RequestTyped, RequestUnderway DEF Seen, SeenInv
<1>6. /\ rest \in Seq(Entry)
      /\ \A i \in 1..Len(rest) : \E j \in 1..Len(todo[t]) : rest[i] = todo[t][j]
  <2>1. todo[t] \in Seq(Entry) /\ todo[t] # <<>>
    BY <1>4 DEF OperationsTypeOK, FlushInv
  <2>2. /\ rest \in Seq(Entry)
        /\ \A i \in 1..Len(rest) : i + 1 \in 1..Len(todo[t]) /\ rest[i] = todo[t][i + 1]
    BY <1>2, <2>1
  <2> QED BY <2>2
<1>7. \A i \in 1..Len(rest) : rest[i] \in Underway
  BY <1>6, TodoUnderway
<1>8. /\ req' \in [Clients -> Request \cup {NoRequest}]
      /\ \A k \in Clients : k # c => req'[k] = req[k]
      /\ IF rest = <<>> THEN req'[c] = NoRequest
         ELSE /\ req'[c] # NoRequest /\ req'[c].msg.entry = rest[1]
              /\ req'[c].st \in {"sent", "lost", "kept", "full"}
              /\ req'[c].st = "kept" => InLocal(rest[1].doc)'
      /\ local' \in Seq(Entry)
      /\ \A x \in Docs : InLocal(x) => InLocal(x)'
  <2>1. CASE rest = <<>>
    BY <1>3, <1>4, <2>1 DEF OperationsTypeOK, InLocal
  <2>2. CASE rest # <<>>
    <3>1. rest[1] \in Entry
      BY <1>6, <2>2
    <3> QED BY <1>3, <1>4, <2>2, <3>1, SendFacts
  <2> QED BY <2>1, <2>2
<1>9. /\ StoreInv' /\ HeldInv' /\ AnswerInv' /\ CallInv'
      /\ Logged' = Logged
      /\ \A x \in Docs : OnDisk(x) => OnDisk(x)'
  <2>1. ASSUME rest # <<>>
        PROVE  InLocal(req[c].msg.entry.doc)' <=> InLocal(rest[1].doc)'
    <3>1. req'[c].msg.entry.doc = rest[1].doc
      BY <1>8, <2>1
    <3> QED BY <3>1 DEF InLocal
  <2>2. \A k \in Clients :
           \/ req'[k] = req[k]
           \/ req'[k] = NoRequest
           \/ /\ req'[k].st \in {"sent", "lost", "kept", "full"}
              /\ req'[k].st = "kept" => InLocal(req[k].msg.entry.doc)'
    BY <1>8, <2>1
  <2> HIDE DEF OperationsInv
  <2> QED BY <1>3, <1>8, <2>2, TabStep
<1>10. /\ todo' \in [Tabs -> Seq(Entry)]
       /\ todo'[t] = rest
       /\ \A u \in Tabs : u # t => todo'[u] = todo[u]
  BY <1>3, <1>6 DEF OperationsTypeOK
<1>11. /\ queue' \in Seq(Entry)
       /\ Len(queue') <= QueueLimit
       /\ \A j \in 1..Len(queue') : \E i \in 1..Len(queue) : queue'[j] = queue[i]
       /\ \A i, j \in 1..Len(queue') : queue'[i].doc = queue'[j].doc => i = j
       /\ \A i \in 1..Len(queue) :
             \/ \E j \in 1..Len(queue') : queue'[j] = queue[i]
             \/ queue[i].id = entry.id /\ req[c].st \in {"created", "kept"}
  <2>1. /\ queue \in Seq(Entry) /\ Len(queue) <= QueueLimit
        /\ \A i, j \in 1..Len(queue) : queue[i].doc = queue[j].doc => i = j
    BY DEF OperationsTypeOK, QueueInv
  <2>2. CASE queue' = queue
    BY <2>1, <2>2
  <2>3. CASE req[c].st \in {"created", "kept"} /\ queue' = Without(queue, entry)
    <3>1. /\ queue' \in Seq(Entry)
          /\ Len(queue') <= Len(queue)
          /\ \A j \in 1..Len(queue') : \E i \in 1..Len(queue) : queue'[j] = queue[i]
          /\ \A i \in 1..Len(queue) :
                queue[i].id # entry.id => \E j \in 1..Len(queue') : queue'[j] = queue[i]
          /\ \A i, j \in 1..Len(queue') : queue'[i].doc = queue'[j].doc => i = j
      <4> DEFINE w == Without(queue, entry)
      <4>1. /\ w \in Seq(Entry)
            /\ Len(w) <= Len(queue)
            /\ \A j \in 1..Len(w) : \E i \in 1..Len(queue) : w[j] = queue[i]
            /\ \A i \in 1..Len(queue) :
                  queue[i].id # entry.id => \E j \in 1..Len(w) : w[j] = queue[i]
            /\ \A i, j \in 1..Len(w) : w[i].doc = w[j].doc => i = j
        <5> HIDE DEF OperationsInv
        <5> QED BY <1>5, <2>1, WithoutFacts
      <4> HIDE DEF w
      <4>2. queue' = w
        BY <2>3 DEF w
      <4> QED BY <4>1, <4>2
    <3>2. Len(queue') <= QueueLimit
      BY <2>1, <3>1, OperationsAssumption
    <3> QED BY <2>3, <3>1, <3>2
  <2> QED BY <1>3, <2>2, <2>3
<1>12. OperationsTypeOK'
  <2>1. StoreTypeOK'
    BY <1>9 DEF StoreInv
  <2>2. /\ mode' \in Modes
        /\ view' \in [Tabs -> Modes \cup {"single-user"}]
        /\ token' \in [Tabs -> Actors]
        /\ told' \in [Docs -> {"none", "sending", "saved", "queued", "refused"}]
        /\ orphans' \subseteq Message
        /\ online' \in BOOLEAN
        /\ faults' \in [DOMAIN MaxFaults -> Nat]
        /\ used' \subseteq Ids
    BY <1>3 DEF OperationsTypeOK
  <2> QED BY <1>8, <1>10, <1>11, <2>1, <2>2 DEF OperationsTypeOK
<1>13. SeenInv'
  <2>1. Waiting' \subseteq Seen
    BY <1>11 DEF Waiting, Seen
  <2>2. ToSend' \subseteq Underway
    <3>1. SUFFICES ASSUME NEW e \in ToSend' PROVE e \in Underway
      OBVIOUS
    <3>2. PICK u \in Tabs : e \in Entry /\ \E i \in 1..Len(todo'[u]) : e = todo'[u][i]
      BY <3>1 DEF ToSend
    <3>3. CASE u = t
      BY <1>7, <1>10, <3>2, <3>3
    <3>4. CASE u # t
      BY <1>10, <3>2, <3>4 DEF ToSend, Underway
    <3> QED BY <3>3, <3>4
  <2>3. Requested' \subseteq Underway
    <3>1. SUFFICES ASSUME NEW k \in Clients, req'[k] # NoRequest
                   PROVE  req'[k].msg.entry \in Underway
      BY DEF Requested
    <3>2. CASE k = c
      <4>1. rest # <<>> /\ req'[k].msg.entry = rest[1]
        BY <1>8, <3>1, <3>2
      <4>2. 1 \in 1..Len(rest)
        BY <1>6, <4>1
      <4> QED BY <1>7, <4>1, <4>2
    <3>3. CASE k # c
      BY <1>8, <3>1, <3>3, RequestUnderway
    <3> QED BY <3>2, <3>3
  <2>4. Adrift' = Adrift
    BY <1>3 DEF Adrift
  <2>5. Underway' \subseteq Underway
    BY <2>2, <2>3, <2>4 DEF Underway
  <2> QED BY <1>3, <1>9, <2>1, <2>5, SeenShrinks
<1>14. QueueInv'
  BY <1>11 DEF QueueInv
<1>15. FlushInv'
  <2>1. \A u \in Tabs : u # t => req'[<<u, "flush">>] = req[<<u, "flush">>]
    BY <1>8, ClientTyped
  <2> QED BY <1>8, <1>10, <2>1 DEF FlushInv
<1>16. FormInv'
  <2>1. \A u \in Tabs : req'[<<u, "form">>] = req[<<u, "form">>]
    BY <1>8, ClientTyped
  <2> QED BY <1>3, <2>1 DEF FormInv
<1>17. SavedIsKept'
  BY <1>3, <1>8, <1>9 DEF SavedIsKept
<1>18. QueuedIsKept'
  <2>1. SUFFICES ASSUME NEW d \in Docs, InQueue(d)
                 PROVE  (InQueue(d) \/ OnDisk(d) \/ InLocal(d))'
    BY <1>3, <1>8, <1>9 DEF QueuedIsKept
  <2>2. PICK i \in 1..Len(queue) : queue[i].doc = d
    BY <2>1 DEF InQueue
  <2>3. CASE \E j \in 1..Len(queue') : queue'[j] = queue[i]
    BY <2>2, <2>3 DEF InQueue
  <2>4. CASE queue[i].id = entry.id /\ req[c].st \in {"created", "kept"}
    <3>1. queue[i] \in Seen
      BY DEF Seen, Waiting
    <3>2. entry.doc = d
      BY <1>5, <2>2, <2>4, <3>1 DEF SeenInv
    <3>3. OnDisk(d) \/ InLocal(d)
      BY <1>1, <1>4, <2>4, <3>2 DEF AnswerInv
    <3> QED BY <1>8, <1>9, <3>3
  <2> QED BY <1>11, <2>3, <2>4
<1> QED BY <1>9, <1>12, <1>13, <1>14, <1>15, <1>16, <1>17, <1>18

-----------------------------------------------------------------------------
(* The invariant holds at the start and is kept by every step.             *)

(* An old queue, an empty log and idle tabs satisfy the invariant. *)
LEMMA OperationsInitInv == Init => OperationsInv
<1> SUFFICES ASSUME Init PROVE OperationsInv
  OBVIOUS
<1> USE DEF Init
<1>1. StoreInv
  BY StoreInitInv
<1>2. call = NoCall /\ disk = <<>>
  BY DEF StoreInit
<1>3. /\ queue \in Seq([id : {NoId}, doc : Docs])
      /\ Len(queue) <= QueueLimit
      /\ \A i, j \in 1..Len(queue) : queue[i].doc = queue[j].doc => i = j
  BY LegacyAssumption
<1>4. ASSUME NEW i \in 1..Len(queue)
      PROVE  /\ queue[i] = [id |-> NoId, doc |-> queue[i].doc]
             /\ queue[i].id = NoId
             /\ queue[i].doc \in Docs
             /\ queue[i] \in Entry
  <2>1. queue[i] \in [id : {NoId}, doc : Docs]
    BY <1>3, ElementOfSeq
  <2> QED BY <2>1 DEF Entry
<1>5. queue \in Seq(Entry)
  <2>1. Len(queue) \in Nat /\ queue = [i \in 1..Len(queue) |-> queue[i]]
    BY <1>3
  <2> QED BY <1>4, <2>1
<1>6. /\ told \in [Docs -> {"none", "sending", "saved", "queued", "refused"}]
      /\ \A d \in Docs : told[d] = IF InQueue(d) THEN "queued" ELSE "none"
  BY DEF InQueue
<1>7. OperationsTypeOK
  <2>1. StoreTypeOK
    BY <1>1 DEF StoreInv
  <2>2. /\ view \in [Tabs -> Modes \cup {"single-user"}]
        /\ token \in [Tabs -> Actors]
        /\ req \in [Clients -> Request \cup {NoRequest}]
        /\ faults \in [DOMAIN MaxFaults -> Nat]
    BY OperationsAssumption
  <2> QED BY <1>5, <1>6, <2>1, <2>2 DEF OperationsTypeOK
<1>8. SeenInv
  <2>1. ToSend = {} /\ Requested = {} /\ Adrift = {} /\ Logged = {}
    BY <1>2 DEF ToSend, Requested, Adrift, Logged
  <2>2. Seen = Waiting /\ Underway \cup Logged = {}
    BY <2>1 DEF Seen, Underway
  <2>3. \A e \in Seen : \E i \in 1..Len(queue) : e = queue[i]
    BY <2>2 DEF Waiting
  <2>4. \A e \in Seen : e = [id |-> NoId, doc |-> e.doc] /\ e.id = NoId
    BY <1>4, <2>3
  <2>5. \A e \in Seen : told[e.doc] # "none"
    BY <1>4, <1>6, <2>3 DEF InQueue
  <2> QED BY <2>2, <2>4, <2>5 DEF SeenInv
<1>9. QueueInv
  BY <1>3 DEF QueueInv
<1>10. \A c \in Clients : req[c] = NoRequest /\ req[c].st = "none"
  BY NoRequestIsNone
<1>11. FlushInv /\ FormInv /\ HeldInv /\ AnswerInv
  BY <1>10, ClientTyped DEF FlushInv, FormInv, HeldInv, AnswerInv
<1>12. CallInv
  BY <1>2 DEF CallInv
<1>13. SavedIsKept /\ QueuedIsKept
  BY <1>6 DEF SavedIsKept, QueuedIsKept
<1> QED BY <1>1, <1>7, <1>8, <1>9, <1>11, <1>12, <1>13 DEF OperationsInv

(* Every step of tabs, network and server keeps it. *)
LEMMA OperationsStepInv == OperationsInv /\ [Next]_vars => OperationsInv'
<1> SUFFICES ASSUME OperationsInv, [Next]_vars PROVE OperationsInv'
  OBVIOUS
<1>1. ASSUME NEW t \in Tabs, NEW d \in Docs, FormSubmit(t, d) PROVE OperationsInv'
  BY <1>1, FormSubmitKeepsInv
<1>2. ASSUME NEW t \in Tabs, FormReply(t) PROVE OperationsInv'
  BY <1>2, FormReplyKeepsInv
<1>3. ASSUME NEW t \in Tabs, FlushStart(t) PROVE OperationsInv'
  BY <1>3, FlushStartKeepsInv
<1>4. ASSUME NEW t \in Tabs, FlushReply(t) PROVE OperationsInv'
  BY <1>4, FlushReplyKeepsInv
<1>5. ASSUME NEW t \in Tabs,
             LoadDeployment(t) \/ (\E a \in Actors : SetToken(t, a)) \/ Reload(t)
      PROVE  OperationsInv'
  BY <1>5, TabRestKeepsInv
<1>6. ASSUME NEW c \in Clients, NetworkError(c) \/ Unreachable(c) \/ Refuse(c)
      PROVE  OperationsInv'
  BY <1>6, LosesKeepsInv
<1>7. ASSUME NEW c \in Clients, Handle(c) PROVE OperationsInv'
  BY <1>7, HandleKeepsInv
<1>8. ASSUME NEW msg \in orphans, HandleOrphan(msg) PROVE OperationsInv'
  BY <1>8, HandleOrphanKeepsInv
<1>9. CASE GoOffline \/ GoOnline \/ Restart
  BY <1>9, RestartKeepsInv
<1>10. CASE Save \/ SaveError
  BY <1>10, SaveKeepsInv
<1>11. CASE Answer \/ Crash
  BY <1>11, AnswerKeepsInv
<1>12. CASE UNCHANGED vars
  <2>1. /\ UNCHANGED storeVars
        /\ UNCHANGED <<queue, local, view, token, todo, told, used, mode>>
        /\ UNCHANGED <<req, orphans, online, faults, disk, call>>
    BY <1>12 DEF vars, tabVars, storeVars
  <2>2. StoreInv'
    BY <2>1, StoreStepInv DEF OperationsInv
  <2>3. HeldInv' /\ CallInv' /\ Logged' = Logged
    BY <2>1 DEF OperationsInv, HeldInv, CallInv, Logged, Operation
  <2>4. /\ req' \in [Clients -> Request \cup {NoRequest}]
        /\ online' \in BOOLEAN /\ faults' \in [DOMAIN MaxFaults -> Nat]
    BY <2>1 DEF OperationsInv, OperationsTypeOK
  <2> QED BY <2>1, <2>2, <2>3, <2>4, ServerStep
<1> QED BY <1>1, <1>2, <1>3, <1>4, <1>5, <1>6, <1>7, <1>8, <1>9, <1>10, <1>11, <1>12
    DEF Next

(* The inductive invariant holds in every reachable state. *)
THEOREM OperationsInvariant == Spec => []OperationsInv
<1>1. Init => OperationsInv
  BY OperationsInitInv
<1>2. OperationsInv /\ [Next]_vars => OperationsInv'
  BY OperationsStepInv
<1> QED BY <1>1, <1>2, PTL DEF Spec

(* Page, network and server keep the types of their variables. *)
THEOREM OperationsTypeCorrect == Spec => []OperationsTypeOK
<1>1. OperationsInv => OperationsTypeOK
  BY DEF OperationsInv
<1> QED BY <1>1, OperationsInvariant, PTL

(* Nothing the form has called saved is lost, for any number of tabs, retries,
   crashes and reloads. *)
THEOREM SavedStays == Spec => []SavedIsKept
<1>1. OperationsInv => SavedIsKept
  BY DEF OperationsInv
<1> QED BY <1>1, OperationsInvariant, PTL

(* What was put off waits in the queue until a log has it, whichever tabs take
   entries out of the queue meanwhile. *)
THEOREM QueuedStays == Spec => []QueuedIsKept
<1>1. OperationsInv => QueuedIsKept
  BY DEF OperationsInv
<1> QED BY <1>1, OperationsInvariant, PTL

(* The queue keeps its limit and holds no event twice. *)
THEOREM QueueStaysBounded == Spec => []QueueIsBounded
<1>1. ASSUME OperationsInv PROVE QueueIsBounded
  <2>1. Len(queue) <= QueueLimit
    BY <1>1 DEF OperationsInv, QueueInv
  <2>2. ASSUME NEW i \in 1..Len(queue), NEW j \in 1..Len(queue),
               queue[i].id = queue[j].id, queue[i].id # NoId
        PROVE  i = j
    <3>1. queue[i] \in Seen /\ queue[j] \in Seen
      BY DEF Seen, Waiting
    <3>2. queue[i].doc = queue[j].doc
      BY <1>1, <2>2, <3>1 DEF OperationsInv, SeenInv
    <3> QED BY <1>1, <3>2 DEF OperationsInv, QueueInv
  <2> QED BY <2>1, <2>2 DEF QueueIsBounded
<1> QED BY <1>1, OperationsInvariant, PTL

-----------------------------------------------------------------------------
(* What the whole implements.                                              *)

(* Handlers, faults and retries use the store as it is meant to be used: what
   is proved of the store holds of the log behind the network. *)
THEOREM LogIsTheStore == Spec => StoreSpec
<1>1. Init => StoreInit
  BY DEF Init
<1>2. OperationsInv /\ [Next]_vars => [StoreNext]_storeVars
  <2> SUFFICES ASSUME OperationsInv, [Next]_vars PROVE [StoreNext]_storeVars
    OBVIOUS
  <2>1. ASSUME NEW t \in Tabs,
               \/ \E d \in Docs : FormSubmit(t, d)
               \/ FormReply(t) \/ FlushStart(t) \/ FlushReply(t) \/ LoadDeployment(t)
               \/ (\E a \in Actors : SetToken(t, a))
               \/ Reload(t)
        PROVE  UNCHANGED storeVars
    BY <2>1 DEF FormSubmit, FormReply, FlushStart, FlushReply, LoadDeployment,
                SetToken, Reload
  <2>2. ASSUME NEW c \in Clients, NetworkError(c) \/ Unreachable(c) \/ Refuse(c)
        PROVE  UNCHANGED storeVars
    BY <2>2 DEF NetworkError, Unreachable, Refuse
  <2>3. ASSUME NEW msg \in Message, Create(msg) PROVE StoreNext
    <3>1. Operation(msg) \in Input
      BY OperationTyped
    <3> QED BY <2>3, <3>1 DEF Create, StoreNext
  <2>4. ASSUME NEW c \in Clients, Handle(c) PROVE StoreNext
    <3>1. req[c] # NoRequest
      BY <2>4, NoRequestIsNone DEF Handle
    <3>2. req[c].msg \in Message
      BY <3>1, RequestTyped DEF OperationsInv
    <3> QED BY <2>3, <2>4, <3>2 DEF Handle
  <2>5. ASSUME NEW msg \in orphans, HandleOrphan(msg) PROVE StoreNext
    <3>1. msg \in Message
      BY DEF OperationsInv, OperationsTypeOK
    <3> QED BY <2>3, <2>5, <3>1 DEF HandleOrphan
  <2>6. CASE GoOffline \/ GoOnline
    BY <2>6 DEF GoOffline, GoOnline
  <2>7. CASE Save \/ SaveError \/ Answer \/ Crash \/ Restart
    BY <2>7 DEF Save, SaveError, Answer, Crash, Restart, StoreNext
  <2>8. CASE UNCHANGED vars
    BY <2>8 DEF vars
  <2> QED BY <2>1, <2>2, <2>4, <2>5, <2>6, <2>7, <2>8 DEF Next
<1> QED BY <1>1, <1>2, OperationsInvariant, PTL DEF Spec, StoreSpec

(* What the promise needs besides.  The log that grows is the one of the mode,
   and with the log of a server no tab believes that the browser keeps it. *)
ModeInv ==
    /\ mode # "browser-local" =>
           local = <<>> /\ \A t \in Tabs : view[t] # "browser-local"
    /\ mode = "browser-local" => disk = <<>> /\ call = NoCall

(* The form has put off whatever a flush may yet log, and it has been asked
   for whatever the browser has logged. *)
DelayInv ==
    /\ \A i \in 1..Len(queue) : told[queue[i].doc] = "queued"
    /\ \A t \in Tabs : \A i \in 1..Len(todo[t]) : told[todo[t][i].doc] = "queued"
    /\ \A i \in 1..Len(local) : told[local[i].doc] # "none"

(* What a queue, a flush or the browser's log holds. *)
LEMMA EntriesTyped ==
    ASSUME NEW entries \in Seq(Entry), NEW i \in 1..Len(entries)
    PROVE  entries[i] \in Entry /\ entries[i].doc \in Docs
<1>1. entries[i] \in Entry
  OBVIOUS
<1> QED BY <1>1 DEF Entry

(* The server is started with its deployment mode and keeps it. *)
LEMMA ModeStays == [Next]_vars => mode' = mode
  BY DEF Next, FormSubmit, FormReply, FlushStart, FlushReply, LoadDeployment, SetToken,
         Reload, NetworkError, Unreachable, Refuse, Handle, HandleOrphan, GoOffline,
         GoOnline, Save, SaveError, Answer, Crash, Restart, vars

(* What is sent in a tab that believes in the browser's log may enter it. *)
LEMMA SendLogs ==
    ASSUME OperationsTypeOK, NEW c \in Clients, NEW entry \in Entry, Send(c, entry)
    PROVE  \/ local' = local
           \/ view[c[1]] = "browser-local" /\ local' = <<entry>> \o local
<1> DEFINE keeps == view[c[1]] = "browser-local"
           st == CASE keeps /\ Len(local) < LocalLimit  -> "kept"
                   [] keeps /\ Len(local) >= LocalLimit -> "full"
                   [] ~keeps /\ online                  -> "sent"
                   [] ~keeps /\ ~online                 -> "lost"
<1>1. local' = IF st = "kept" THEN <<entry>> \o local ELSE local
  BY DEF Send
<1>2. online \in BOOLEAN
  BY DEF OperationsTypeOK
<1>3. ~keeps => st # "kept"
  BY <1>2
<1> HIDE DEF st
<1> QED BY <1>1, <1>3

(* Three steps of a tab may add to the browser's log: the form an entry nobody
   has heard of, a flush one that was put off. *)
LEMMA LocalGrows ==
    ASSUME OperationsInv, DelayInv, NEW t \in Tabs,
           (\E d \in Docs : FormSubmit(t, d)) \/ FlushStart(t) \/ FlushReply(t)
    PROVE  \/ local' = local
           \/ \E entry \in Entry :
                 /\ view[t] = "browser-local"
                 /\ local' = <<entry>> \o local
                 /\ \/ told[entry.doc] = "none" /\ told' = [told EXCEPT ![entry.doc] = "sending"]
                    \/ told[entry.doc] = "queued" /\ told' = told
<1>1. OperationsTypeOK
  BY DEF OperationsInv
<1>2. ASSUME NEW d \in Docs, FormSubmit(t, d)
      PROVE  \E entry \in Entry : /\ entry.doc = d
                                  /\ Send(<<t, "form">>, entry)
                                  /\ told[d] = "none"
                                  /\ told' = [told EXCEPT ![d] = "sending"]
  <2>1. FreshIds({1}) \in [{1} -> Ids \ used]
    BY <1>1, <1>2, FreshIdsFacts, FS_Singleton DEF FormSubmit
  <2>2. [id |-> FreshIds({1})[1], doc |-> d] \in Entry
    BY <2>1 DEF Entry
  <2> QED BY <1>2, <2>2 DEF FormSubmit
<1>3. ASSUME FlushStart(t)
      PROVE  \E entry \in Entry : /\ Send(<<t, "flush">>, entry)
                                  /\ told[entry.doc] = "queued"
                                  /\ told' = told
  <2>1. PICK queued : queued = Identified(queue)
    OBVIOUS
  <2>2. /\ queue # <<>> /\ CanDraw(Bare(queue)) /\ told' = told
        /\ Send(<<t, "flush">>, queued[1])
    BY <1>3, <2>1 DEF FlushStart
  <2>3. /\ queued \in Seq(Entry) /\ Len(queued) = Len(queue)
        /\ \A i \in 1..Len(queue) : queued[i].doc = queue[i].doc
    BY <1>1, <2>1, <2>2, IdentifiedFacts
  <2>4. 1 \in 1..Len(queue) /\ queued[1] \in Entry
    BY <1>1, <2>2, <2>3 DEF OperationsTypeOK
  <2> QED BY <2>2, <2>3, <2>4 DEF DelayInv
<1>4. ASSUME FlushReply(t), local' # local
      PROVE  \E entry \in Entry : /\ Send(<<t, "flush">>, entry)
                                  /\ told[entry.doc] = "queued"
                                  /\ told' = told
  <2>1. PICK rest : rest = Tail(todo[t])
    OBVIOUS
  <2>2. rest # <<>> /\ Send(<<t, "flush">>, rest[1]) /\ told' = told
    BY <1>4, <2>1 DEF FlushReply
  <2>3. todo[t] \in Seq(Entry)
    BY <1>1 DEF OperationsTypeOK
  <2>4. todo[t] # <<>>
    <3>1. req[<<t, "flush">>] # NoRequest
      BY <1>4, NoRequestIsNone DEF FlushReply, Outcomes
    <3> QED BY <3>1 DEF OperationsInv, FlushInv
  <2>5. 2 \in 1..Len(todo[t]) /\ rest[1] = todo[t][2] /\ rest[1] \in Entry
    BY <2>1, <2>2, <2>3, <2>4
  <2> QED BY <2>2, <2>5 DEF DelayInv
<1>5. ASSUME NEW c \in {<<t, "form">>, <<t, "flush">>}, NEW entry \in Entry, Send(c, entry),
             local' # local
      PROVE  view[t] = "browser-local" /\ local' = <<entry>> \o local
  BY <1>1, <1>5, SendLogs, ClientTyped
<1> QED BY <1>2, <1>3, <1>4, <1>5

(* A server that leaves the log to the browser refuses every request before the
   store is asked, and only loadDeployment tells a tab of it. *)
LEMMA ModeStep ==
    ASSUME OperationsInv, DelayInv, ModeInv, [Next]_vars
    PROVE  ModeInv'
<1>1. mode' = mode
  BY ModeStays
<1>2. CASE mode # "browser-local"
  <2>1. local = <<>> /\ \A t \in Tabs : view[t] # "browser-local"
    BY <1>2 DEF ModeInv
  <2>2. view \in [Tabs -> Modes \cup {"single-user"}]
    BY DEF OperationsInv, OperationsTypeOK
  <2>3. local' = local
    <3>1. ASSUME NEW t \in Tabs,
                 (\E d \in Docs : FormSubmit(t, d)) \/ FlushStart(t) \/ FlushReply(t)
          PROVE  local' = local
      BY <2>1, <3>1, LocalGrows
    <3>2. ASSUME NEW t \in Tabs,
                 FormReply(t) \/ LoadDeployment(t) \/ (\E a \in Actors : SetToken(t, a))
                     \/ Reload(t)
          PROVE  local' = local
      BY <3>2 DEF FormReply, LoadDeployment, SetToken, Reload
    <3>3. \/ local' = local
          \/ \E t \in Tabs : \E d \in Docs : FormSubmit(t, d)
          \/ \E t \in Tabs : FlushStart(t) \/ FlushReply(t)
          \/ \E t \in Tabs : FormReply(t) \/ LoadDeployment(t) \/ Reload(t)
                                \/ (\E a \in Actors : SetToken(t, a))
      BY DEF Next, NetworkError, Unreachable, Refuse, Handle, HandleOrphan, GoOffline,
             GoOnline, Save, SaveError, Answer, Crash, Restart, vars, tabVars
    <3> QED BY <3>1, <3>2, <3>3
  <2>4. ASSUME NEW u \in Tabs PROVE view'[u] # "browser-local"
    <3>1. CASE view' = view
      BY <2>1, <3>1
    <3>2. ASSUME NEW t \in Tabs, LoadDeployment(t) \/ Reload(t)
          PROVE  view'[u] # "browser-local"
      <4>1. view' = [view EXCEPT ![t] = mode] \/ view' = [view EXCEPT ![t] = "single-user"]
        BY <3>2 DEF LoadDeployment, Reload
      <4>2. view'[u] \in {view[u], mode, "single-user"}
        BY <2>2, <4>1
      <4> QED BY <1>2, <2>1, <4>2
    <3>3. view' = view \/ \E t \in Tabs : LoadDeployment(t) \/ Reload(t)
      BY DEF Next, FormSubmit, FormReply, FlushStart, FlushReply, SetToken, NetworkError,
             Unreachable, Refuse, Handle, HandleOrphan, GoOffline, GoOnline, Save,
             SaveError, Answer, Crash, Restart, vars, tabVars
    <3> QED BY <3>1, <3>2, <3>3
  <2> QED BY <1>1, <1>2, <2>1, <2>3, <2>4 DEF ModeInv
<1>3. CASE mode = "browser-local"
  <2>1. disk = <<>> /\ call = NoCall
    BY <1>3 DEF ModeInv
  <2>2. call.phase \notin {"saving", "renamed", "done"}
    BY <2>1 DEF NoCall
  <2>3. \A msg : Refused(msg)
    BY <1>3 DEF Refused
  <2>4. disk' = disk /\ call' = call
    <3>1. ASSUME NEW t \in Tabs,
                 \/ \E d \in Docs : FormSubmit(t, d)
                 \/ FormReply(t) \/ FlushStart(t) \/ FlushReply(t) \/ LoadDeployment(t)
                 \/ (\E a \in Actors : SetToken(t, a))
                 \/ Reload(t)
          PROVE  UNCHANGED storeVars
      BY <3>1 DEF FormSubmit, FormReply, FlushStart, FlushReply, LoadDeployment,
                  SetToken, Reload
    <3>2. ASSUME NEW c \in Clients,
                 NetworkError(c) \/ Unreachable(c) \/ Refuse(c) \/ Handle(c)
          PROVE  UNCHANGED storeVars
      BY <2>3, <3>2 DEF NetworkError, Unreachable, Refuse, Handle
    <3>3. ASSUME NEW msg \in orphans PROVE ~HandleOrphan(msg)
      BY <2>3 DEF HandleOrphan
    <3>4. CASE GoOffline \/ GoOnline
      BY <3>4 DEF GoOffline, GoOnline, storeVars
    <3>5. ASSUME Save \/ SaveError \/ Answer PROVE FALSE
      BY <2>2, <3>5 DEF Save, SaveError, Answer, SaveRenames, PublishRecord, SaveFails,
                        CreateReturns
    <3>6. CASE Crash \/ Restart
      BY <2>1, <3>6 DEF Crash, Restart, StoreCrash, StoreLoad
    <3>7. CASE UNCHANGED vars
      BY <3>7 DEF vars, storeVars
    <3> QED BY <3>1, <3>2, <3>3, <3>4, <3>5, <3>6, <3>7 DEF Next, storeVars
  <2> QED BY <1>1, <1>3, <2>1, <2>4 DEF ModeInv
<1> QED BY <1>2, <1>3

(* The form says "queued" once and for all, and a flush takes from the queue. *)
LEMMA DelayStep ==
    ASSUME OperationsInv, DelayInv, [Next]_vars
    PROVE  DelayInv'
<1>1. /\ told \in [Docs -> {"none", "sending", "saved", "queued", "refused"}]
      /\ queue \in Seq(Entry) /\ local \in Seq(Entry)
      /\ todo \in [Tabs -> Seq(Entry)]
      /\ OperationsTypeOK
  BY DEF OperationsInv, OperationsTypeOK
<1>2. ASSUME NEW d \in Docs, NEW word \in {"none", "sending", "saved", "queued", "refused"},
             told' = [told EXCEPT ![d] = word], told[d] \in {"none", "sending"},
             word # "none"
      PROVE  /\ \A x \in Docs : told[x] = "queued" => told'[x] = "queued"
             /\ \A x \in Docs : told[x] # "none" => told'[x] # "none"
  BY <1>1, <1>2
<1>3. ASSUME local' = local,
             \A x \in Docs : told[x] # "none" => told'[x] # "none"
      PROVE  \A i \in 1..Len(local') : told'[local'[i].doc] # "none"
  <2>1. \A i \in 1..Len(local) : local[i].doc \in Docs
    BY <1>1, EntriesTyped
  <2> QED BY <1>3, <2>1 DEF DelayInv
<1>4. ASSUME NEW entry \in Entry, local' = <<entry>> \o local,
             \A x \in Docs : told[x] # "none" => told'[x] # "none",
             told'[entry.doc] # "none"
      PROVE  \A i \in 1..Len(local') : told'[local'[i].doc] # "none"
  <2>1. SUFFICES ASSUME NEW i \in 1..Len(local') PROVE told'[local'[i].doc] # "none"
    OBVIOUS
  <2>2. CASE i = 1
    <3>1. local'[1] = entry
      BY <1>1, <1>4
    <3> QED BY <1>4, <2>2, <3>1
  <2>3. CASE i # 1
    <3>1. i - 1 \in 1..Len(local) /\ local'[i] = local[i - 1] /\ local[i - 1] \in Entry
      BY <1>1, <1>4, <2>1, <2>3
    <3> QED BY <1>4, <3>1 DEF DelayInv, Entry
  <2> QED BY <2>2, <2>3
<1>5. ASSUME NEW t \in Tabs, NEW d \in Docs, FormSubmit(t, d) PROVE DelayInv'
  <2>1. /\ told[d] = "none" /\ told' = [told EXCEPT ![d] = "sending"]
        /\ queue' = queue /\ todo' = todo
    BY <1>5 DEF FormSubmit
  <2>2. /\ \A x \in Docs : told[x] = "queued" => told'[x] = "queued"
        /\ \A x \in Docs : told[x] # "none" => told'[x] # "none"
    BY <1>2, <2>1
  <2>3. \A i \in 1..Len(local') : told'[local'[i].doc] # "none"
    <3>1. CASE local' = local
      BY <1>3, <2>2, <3>1
    <3>2. ASSUME NEW entry \in Entry, local' = <<entry>> \o local,
                 told' = [told EXCEPT ![entry.doc] = "sending"] \/ told[entry.doc] = "queued"
          PROVE  \A i \in 1..Len(local') : told'[local'[i].doc] # "none"
      <4>1. told'[entry.doc] # "none"
        BY <1>1, <2>2, <3>2 DEF Entry
      <4> QED BY <1>4, <2>2, <3>2, <4>1
    <3> QED BY <1>5, <3>1, <3>2, LocalGrows
  <2>4. \A i \in 1..Len(queue) : queue[i].doc \in Docs
    BY <1>1, EntriesTyped
  <2>5. \A u \in Tabs : \A i \in 1..Len(todo[u]) : todo[u][i].doc \in Docs
    <3>1. SUFFICES ASSUME NEW u \in Tabs, NEW i \in 1..Len(todo[u])
                   PROVE  todo[u][i].doc \in Docs
      OBVIOUS
    <3>2. todo[u] \in Seq(Entry)
      BY <1>1
    <3> QED BY <3>2, EntriesTyped
  <2> QED BY <2>1, <2>2, <2>3, <2>4, <2>5 DEF DelayInv
<1>6. ASSUME NEW t \in Tabs, FormReply(t) PROVE DelayInv'
  <2> DEFINE c == <<t, "form">>
  <2>1. PICK entry : entry = req[c].msg.entry
    OBVIOUS
  <2>2. c \in Clients /\ req[c] # NoRequest
    BY <1>6, ClientTyped, NoRequestIsNone DEF FormReply, Outcomes
  <2>3. entry \in Entry /\ entry.doc \in Docs /\ told[entry.doc] = "sending"
    BY <1>1, <2>1, <2>2, RequestTyped DEF OperationsInv, FormInv, Entry
  <2>4. PICK word \in {"saved", "queued", "refused"} :
           /\ told' = [told EXCEPT ![entry.doc] = word]
           /\ \/ queue' = queue
              \/ queue' = Append(queue, entry) /\ word = "queued"
    <3>1. CASE req[c].st \in {"created", "kept"}
      BY <1>6, <2>1, <3>1 DEF FormReply
    <3>2. CASE req[c].st \notin {"created", "kept"}
      BY <1>6, <2>1, <3>2 DEF FormReply
    <3> QED BY <3>1, <3>2
  <2>5. /\ \A x \in Docs : told[x] = "queued" => told'[x] = "queued"
        /\ \A x \in Docs : told[x] # "none" => told'[x] # "none"
    BY <1>2, <2>3, <2>4
  <2>6. todo' = todo /\ local' = local
    BY <1>6 DEF FormReply
  <2>7. \A i \in 1..Len(queue) : queue[i].doc \in Docs
    BY <1>1, EntriesTyped
  <2>8. \A i \in 1..Len(queue') : told'[queue'[i].doc] = "queued"
    <3>1. CASE queue' = queue
      BY <2>5, <2>7, <3>1 DEF DelayInv
    <3>2. CASE queue' = Append(queue, entry) /\ word = "queued"
      <4>1. SUFFICES ASSUME NEW i \in 1..Len(queue') PROVE told'[queue'[i].doc] = "queued"
        OBVIOUS
      <4>2. CASE i \in 1..Len(queue)
        <5>1. queue'[i] = queue[i]
          BY <1>1, <3>2, <4>2
        <5> QED BY <2>5, <2>7, <4>2, <5>1 DEF DelayInv
      <4>3. CASE i \notin 1..Len(queue)
        <5>1. queue'[i] = entry
          BY <1>1, <3>2, <4>1, <4>3
        <5> QED BY <1>1, <2>3, <2>4, <3>2, <5>1
      <4> QED BY <4>2, <4>3
    <3> QED BY <2>4, <3>1, <3>2
  <2>9. \A u \in Tabs : \A i \in 1..Len(todo[u]) : todo[u][i].doc \in Docs
    <3>1. SUFFICES ASSUME NEW u \in Tabs, NEW i \in 1..Len(todo[u])
                   PROVE  todo[u][i].doc \in Docs
      OBVIOUS
    <3>2. todo[u] \in Seq(Entry)
      BY <1>1
    <3> QED BY <3>2, EntriesTyped
  <2>10. \A i \in 1..Len(local') : told'[local'[i].doc] # "none"
    BY <1>3, <2>5, <2>6
  <2> QED BY <2>5, <2>6, <2>8, <2>9, <2>10 DEF DelayInv
<1>7. ASSUME NEW t \in Tabs, FlushStart(t) \/ FlushReply(t) PROVE DelayInv'
  <2>1. told' = told
    BY <1>7 DEF FlushStart, FlushReply
  <2>2. \A i \in 1..Len(local') : told'[local'[i].doc] # "none"
    <3>1. CASE local' = local
      BY <1>3, <2>1, <3>1
    <3>2. ASSUME NEW entry \in Entry, local' = <<entry>> \o local,
                 told' = [told EXCEPT ![entry.doc] = "sending"] \/ told[entry.doc] = "queued"
          PROVE  \A i \in 1..Len(local') : told'[local'[i].doc] # "none"
      <4>1. told'[entry.doc] # "none"
        BY <1>1, <2>1, <3>2 DEF Entry
      <4> QED BY <1>4, <2>1, <3>2, <4>1
    <3> QED BY <1>7, <3>1, <3>2, LocalGrows
  <2>3. CASE FlushStart(t)
    <3>1. PICK queued : queued = Identified(queue)
      OBVIOUS
    <3>2. queue' = queued /\ todo' = [todo EXCEPT ![t] = queued] /\ CanDraw(Bare(queue))
      BY <2>3, <3>1 DEF FlushStart
    <3>3. /\ Len(queued) = Len(queue)
          /\ \A i \in 1..Len(queue) : queued[i].doc = queue[i].doc
      BY <1>1, <3>1, <3>2, IdentifiedFacts
    <3>4. \A i \in 1..Len(queued) : told[queued[i].doc] = "queued"
      BY <3>3 DEF DelayInv
    <3>5. todo'[t] = queued /\ \A u \in Tabs : u # t => todo'[u] = todo[u]
      BY <1>1, <3>2
    <3>6. \A i \in 1..Len(queued) : told'[queued[i].doc] = "queued"
      BY <2>1, <3>4
    <3>7. \A u \in Tabs : \A i \in 1..Len(todo'[u]) : told'[todo'[u][i].doc] = "queued"
      <4>1. \A u \in Tabs : \A i \in 1..Len(todo[u]) : told'[todo[u][i].doc] = "queued"
        BY <2>1 DEF DelayInv
      <4> QED BY <3>5, <3>6, <4>1
    <3> QED BY <2>2, <3>2, <3>6, <3>7 DEF DelayInv
  <2>4. CASE FlushReply(t)
    <3>1. PICK entry : entry = req[<<t, "flush">>].msg.entry
      OBVIOUS
    <3>2. req[<<t, "flush">>] # NoRequest
      BY <2>4, NoRequestIsNone DEF FlushReply, Outcomes
    <3>3. entry \in Entry /\ todo[t] \in Seq(Entry) /\ todo[t] # <<>>
      BY <1>1, <3>1, <3>2, RequestTyped, ClientTyped DEF OperationsInv, FlushInv
    <3>4. queue' = queue \/ queue' = Without(queue, entry)
      BY <2>4, <3>1 DEF FlushReply
    <3>5. \A j \in 1..Len(queue') : \E i \in 1..Len(queue) : queue'[j] = queue[i]
      <4>1. CASE queue' = queue
        BY <4>1
      <4>2. CASE queue' = Without(queue, entry)
        <5>1. \A j \in 1..Len(Without(queue, entry)) :
                 \E i \in 1..Len(queue) : Without(queue, entry)[j] = queue[i]
          BY <1>1, <3>3, WithoutFacts
        <5> QED BY <4>2, <5>1
      <4> QED BY <3>4, <4>1, <4>2
    <3>6. todo' = [todo EXCEPT ![t] = Tail(todo[t])]
      BY <2>4 DEF FlushReply
    <3>7. /\ todo'[t] = Tail(todo[t])
          /\ \A u \in Tabs : u # t => todo'[u] = todo[u]
      BY <1>1, <3>6
    <3>8. \A i \in 1..Len(Tail(todo[t])) :
             i + 1 \in 1..Len(todo[t]) /\ Tail(todo[t])[i] = todo[t][i + 1]
      BY <3>3
    <3>9. \A u \in Tabs : \A i \in 1..Len(todo'[u]) : told'[todo'[u][i].doc] = "queued"
      <4>1. ASSUME NEW u \in Tabs, NEW i \in 1..Len(todo'[u])
            PROVE  told[todo'[u][i].doc] = "queued"
        <5>1. CASE u = t
          <6>1. i + 1 \in 1..Len(todo[t]) /\ todo'[u][i] = todo[t][i + 1]
            BY <3>7, <3>8, <4>1, <5>1
          <6> QED BY <6>1 DEF DelayInv
        <5>2. CASE u # t
          <6>1. todo'[u] = todo[u]
            BY <3>7, <5>2
          <6>2. i \in 1..Len(todo[u])
            BY <4>1, <6>1
          <6>3. told[todo[u][i].doc] = "queued"
            BY <6>2 DEF DelayInv
          <6> QED BY <6>1, <6>3
        <5> QED BY <5>1, <5>2
      <4> QED BY <2>1, <4>1
    <3>10. \A j \in 1..Len(queue') : told'[queue'[j].doc] = "queued"
      <4>1. \A i \in 1..Len(queue) : told'[queue[i].doc] = "queued"
        BY <2>1 DEF DelayInv
      <4> QED BY <3>5, <4>1
    <3> QED BY <2>2, <3>9, <3>10 DEF DelayInv
  <2> QED BY <1>7, <2>3, <2>4
<1>8. ASSUME UNCHANGED <<queue, local, told>>,
             \A t \in Tabs : todo'[t] = todo[t] \/ todo'[t] = <<>>
      PROVE  DelayInv'
  BY <1>8 DEF DelayInv
<1>9. ASSUME NEW t \in Tabs,
             LoadDeployment(t) \/ (\E a \in Actors : SetToken(t, a)) \/ Reload(t)
      PROVE  DelayInv'
  <2>1. UNCHANGED <<queue, local, told>>
    BY <1>9 DEF LoadDeployment, SetToken, Reload
  <2>2. todo' = todo \/ todo' = [todo EXCEPT ![t] = <<>>]
    BY <1>9 DEF LoadDeployment, SetToken, Reload
  <2> QED BY <1>1, <1>8, <2>1, <2>2
<1>10. CASE \/ \E c \in Clients : NetworkError(c) \/ Unreachable(c) \/ Refuse(c) \/ Handle(c)
            \/ \E msg \in orphans : HandleOrphan(msg)
            \/ GoOffline \/ GoOnline
            \/ Save \/ SaveError \/ Answer \/ Crash \/ Restart
            \/ UNCHANGED vars
  <2>1. UNCHANGED <<queue, local, told, todo>>
    BY <1>10 DEF NetworkError, Unreachable, Refuse, Handle, HandleOrphan, GoOffline,
                 GoOnline, Save, SaveError, Answer, Crash, Restart, vars, tabVars
  <2> QED BY <1>8, <2>1
<1> QED BY <1>5, <1>6, <1>7, <1>9, <1>10 DEF Next

(* The log and the words of the form, as the promise sees them. *)
LogOf(recs, kept) == [i \in 1..Len(recs) |-> recs[i].in.doc]
                        \o [i \in 1..Len(kept) |-> Reverse(kept)[i].doc]
TheLog == LogOf(disk, local)
Said   == [d \in Docs |-> IF told[d] = "sending" THEN "none" ELSE told[d]]

(* The log of a server. *)
LEMMA LogIsDisk ==
    ASSUME NEW recs \in Seq(Record)
    PROVE  /\ LogOf(recs, <<>>) = [i \in 1..Len(recs) |-> recs[i].in.doc]
           /\ LogOf(recs, <<>>) \in Seq(Docs)
           /\ Len(LogOf(recs, <<>>)) = Len(recs)
<1> DEFINE docs == [i \in 1..Len(recs) |-> recs[i].in.doc]
           none == [i \in 1..Len(<<>>) |-> Reverse(<<>>)[i].doc]
<1>1. Len(recs) \in Nat
  OBVIOUS
<1>2. \A i \in 1..Len(recs) : recs[i].in.doc \in Docs
  <2>1. SUFFICES ASSUME NEW i \in 1..Len(recs) PROVE recs[i].in.doc \in Docs
    OBVIOUS
  <2>2. recs[i] \in Record
    BY ElementOfSeq
  <2> QED BY <2>2 DEF Record, Input
<1>3. docs \in Seq(Docs) /\ Len(docs) = Len(recs)
  BY <1>1, <1>2
<1>4. none = <<>>
  OBVIOUS
<1>5. LogOf(recs, <<>>) = docs \o none
  BY DEF LogOf
<1> HIDE DEF docs, none
<1>6. docs \o <<>> = docs
  BY <1>3
<1> QED BY <1>3, <1>4, <1>5, <1>6 DEF docs

(* The browser's log, which has its newest entry first. *)
LEMMA LogIsLocal ==
    ASSUME NEW kept \in Seq(Entry)
    PROVE  /\ LogOf(<<>>, kept) \in Seq(Docs)
           /\ Len(LogOf(<<>>, kept)) = Len(kept)
           /\ \A i \in 1..Len(kept) : LogOf(<<>>, kept)[i] = kept[Len(kept) - i + 1].doc
<1> DEFINE none == [i \in 1..Len(<<>>) |-> <<>>[i].in.doc]
           docs == [i \in 1..Len(kept) |-> Reverse(kept)[i].doc]
<1>1. Len(kept) \in Nat
  OBVIOUS
<1>2. \A i \in 1..Len(kept) : Reverse(kept)[i] = kept[Len(kept) - i + 1]
  BY <1>1 DEF Reverse
<1>3. \A i \in 1..Len(kept) : kept[Len(kept) - i + 1] \in Entry
  <2>1. SUFFICES ASSUME NEW i \in 1..Len(kept) PROVE kept[Len(kept) - i + 1] \in Entry
    OBVIOUS
  <2>2. Len(kept) - i + 1 \in 1..Len(kept)
    BY <1>1
  <2> QED BY <2>2, ElementOfSeq
<1>4. \A i \in 1..Len(kept) : docs[i] = kept[Len(kept) - i + 1].doc /\ docs[i] \in Docs
  BY <1>2, <1>3 DEF Entry
<1>5. docs \in Seq(Docs) /\ Len(docs) = Len(kept)
  BY <1>1, <1>4
<1>6. none = <<>>
  OBVIOUS
<1>7. LogOf(<<>>, kept) = none \o docs
  BY DEF LogOf
<1> HIDE DEF none, docs
<1>8. <<>> \o docs = docs
  BY <1>5
<1> QED BY <1>4, <1>5, <1>6, <1>7, <1>8

(* A new entry at the front of the browser's log is one at the promise's end. *)
LEMMA LocalLogs ==
    ASSUME NEW kept \in Seq(Entry), NEW entry \in Entry
    PROVE  LogOf(<<>>, <<entry>> \o kept) = Append(LogOf(<<>>, kept), entry.doc)
<1>1. PICK longer : longer = <<entry>> \o kept
  OBVIOUS
<1>2. /\ longer \in Seq(Entry) /\ Len(longer) = Len(kept) + 1
      /\ longer[1] = entry
      /\ \A i \in 1..Len(kept) : longer[i + 1] = kept[i]
  BY <1>1
<1>3. PICK old, new : old = LogOf(<<>>, kept) /\ new = LogOf(<<>>, longer)
  OBVIOUS
<1>4. /\ old \in Seq(Docs) /\ Len(old) = Len(kept)
      /\ new \in Seq(Docs) /\ Len(new) = Len(kept) + 1
      /\ \A i \in 1..Len(kept) : old[i] = kept[Len(kept) - i + 1].doc
      /\ \A i \in 1..Len(longer) : new[i] = longer[Len(longer) - i + 1].doc
  BY <1>2, <1>3, LogIsLocal
<1>5. Len(kept) \in Nat /\ entry.doc \in Docs
  BY DEF Entry
<1>6. /\ Append(old, entry.doc) \in Seq(Docs)
      /\ Len(Append(old, entry.doc)) = Len(new)
      /\ Append(old, entry.doc)[Len(kept) + 1] = entry.doc
      /\ \A i \in 1..Len(kept) : Append(old, entry.doc)[i] = old[i]
  BY <1>4, <1>5
<1>7. ASSUME NEW i \in 1..Len(new) PROVE new[i] = Append(old, entry.doc)[i]
  <2>1. i \in 1..Len(longer)
    BY <1>2, <1>4
  <2>2. CASE i = Len(kept) + 1
    <3>1. Len(longer) - i + 1 = 1
      BY <1>2, <1>5, <2>2
    <3> QED BY <1>2, <1>4, <1>6, <2>1, <2>2, <3>1
  <2>3. CASE i # Len(kept) + 1
    <3>1. i \in 1..Len(kept)
      BY <1>2, <1>5, <2>1, <2>3
    <3>2. /\ Len(kept) - i + 1 \in 1..Len(kept)
          /\ Len(longer) - i + 1 = (Len(kept) - i + 1) + 1
      BY <1>2, <1>5, <3>1
    <3>3. longer[Len(longer) - i + 1] = kept[Len(kept) - i + 1]
      BY <1>2, <3>2
    <3> QED BY <1>4, <1>6, <2>1, <3>1, <3>3
  <2> QED BY <2>2, <2>3
<1> QED BY <1>1, <1>3, <1>4, <1>6, <1>7, SeqEqual

(* What a log has is in the promise's log, and nothing else is. *)
LEMMA LogHas ==
    ASSUME OperationsTypeOK, ModeInv, NEW d \in Docs
    PROVE  d \in Range(TheLog) <=> OnDisk(d) \/ InLocal(d)
<1>1. disk \in Seq(Record) /\ local \in Seq(Entry)
  BY DEF OperationsTypeOK, StoreTypeOK
<1>2. CASE local = <<>>
  <2>1. TheLog = [i \in 1..Len(disk) |-> disk[i].in.doc]
    BY <1>1, <1>2, LogIsDisk DEF TheLog
  <2>2. ~InLocal(d)
    BY <1>2 DEF InLocal
  <2> QED BY <2>1, <2>2 DEF Range, OnDisk
<1>3. CASE disk = <<>>
  <2>1. PICK docs : docs = TheLog
    OBVIOUS
  <2>2. /\ docs \in Seq(Docs) /\ Len(docs) = Len(local)
        /\ \A i \in 1..Len(local) : docs[i] = local[Len(local) - i + 1].doc
    BY <1>1, <1>3, <2>1, LogIsLocal DEF TheLog
  <2>3. Len(local) \in Nat /\ DOMAIN docs = 1..Len(local)
    BY <1>1, <2>2
  <2>4. \A i \in 1..Len(local) :
           /\ Len(local) - i + 1 \in 1..Len(local)
           /\ Len(local) - (Len(local) - i + 1) + 1 = i
    BY <2>3
  <2>5. d \in Range(docs) <=> InLocal(d)
    <3>1. ASSUME d \in Range(docs) PROVE InLocal(d)
      <4>1. PICK i \in 1..Len(local) : docs[i] = d
        BY <2>3, <3>1 DEF Range
      <4>2. /\ Len(local) - i + 1 \in 1..Len(local)
            /\ local[Len(local) - i + 1].doc = d
        BY <2>2, <2>4, <4>1
      <4> QED BY <4>2 DEF InLocal
    <3>2. ASSUME InLocal(d) PROVE d \in Range(docs)
      <4>1. PICK i \in 1..Len(local) : local[i].doc = d
        BY <3>2 DEF InLocal
      <4>2. Len(local) - i + 1 \in 1..Len(local) /\ docs[Len(local) - i + 1] = d
        BY <2>2, <2>4, <4>1
      <4> QED BY <2>3, <4>2 DEF Range
    <3> QED BY <3>1, <3>2
  <2>6. ~OnDisk(d)
    BY <1>3 DEF OnDisk
  <2> QED BY <2>1, <2>5, <2>6
<1> QED BY <1>2, <1>3 DEF ModeInv

(* The rename of a save alone adds to a server's log, an entry the log has not
   and the server does not refuse. *)
LEMMA SaveLogs ==
    ASSUME OperationsInv, OperationsInv', ModeInv, local' = local, SaveRenames
    PROVE  /\ mode # "browser-local"
           /\ call.in.doc \in Docs \ BadDocs
           /\ call.in.doc \notin Range(TheLog)
           /\ TheLog' = Append(TheLog, call.in.doc)
<1> DEFINE d == call.in.doc
<1>1. call.phase = "saving" /\ disk' = records
  BY DEF SaveRenames
<1>2. disk \in Seq(Record) /\ Len(disk) \in Nat
  BY DEF OperationsInv, StoreInv, StoreTypeOK
<1>3. call # NoCall
  BY <1>1 DEF NoCall
<1>4. call \in Call /\ call.in.id # NoId /\ call.in.id \notin EventIds(disk)
  <2>1. call \in Call
    BY <1>3 DEF OperationsInv, StoreInv, StoreTypeOK
  <2>2. EntryOf(call.in) \in Logged
    BY <1>3 DEF Logged
  <2>3. call.in.id # NoId
    BY <2>2 DEF OperationsInv, SeenInv, EntryOf
  <2>4. call.in.id \notin EventIds(disk)
    BY <1>1 DEF OperationsInv, StoreInv, Indexed
  <2> QED BY <2>1, <2>3, <2>4
<1>5. d \in Docs \ BadDocs
  BY <1>3, <1>4 DEF OperationsInv, CallInv, Call, Input
<1>6. \A i \in 1..Len(disk) : disk[i].in.doc # d
  <2>1. SUFFICES ASSUME NEW i \in 1..Len(disk), disk[i].in.doc = d PROVE FALSE
    OBVIOUS
  <2>2. EntryOf(disk[i].in) \in Seen /\ EntryOf(call.in) \in Seen
    BY <1>3 DEF Seen, Logged
  <2>3. EntryOf(disk[i].in).doc = EntryOf(call.in).doc
    BY <2>1 DEF EntryOf
  <2>4. EntryOf(disk[i].in) = EntryOf(call.in)
    BY <2>2, <2>3 DEF OperationsInv, SeenInv
  <2>5. disk[i].in.id = call.in.id
    BY <2>4 DEF EntryOf
  <2> QED BY <1>4, <2>5 DEF EventIds
<1>7. PICK rec \in Record : rec.in = call.in /\ disk' = Append(disk, rec)
  BY <1>1 DEF OperationsInv, StoreInv
<1>8. mode # "browser-local" /\ local = <<>> /\ local' = <<>> /\ disk' \in Seq(Record)
  BY <1>3 DEF ModeInv, OperationsInv, StoreInv, StoreTypeOK
<1>9. /\ TheLog = [i \in 1..Len(disk) |-> disk[i].in.doc]
      /\ TheLog' = [i \in 1..Len(disk') |-> disk'[i].in.doc]
      /\ TheLog \in Seq(Docs) /\ Len(TheLog) = Len(disk)
      /\ TheLog' \in Seq(Docs) /\ Len(TheLog') = Len(disk')
  BY <1>2, <1>8, LogIsDisk DEF TheLog
<1>10. d \notin Range(TheLog)
  BY <1>6, <1>9 DEF Range
<1>11. /\ Len(disk') = Len(disk) + 1
       /\ disk'[Len(disk) + 1].in.doc = d
       /\ \A i \in 1..Len(disk) : disk'[i] = disk[i]
  BY <1>2, <1>7
<1>12. TheLog' = Append(TheLog, d)
  <2>1. /\ Append(TheLog, d) \in Seq(Docs)
        /\ Len(Append(TheLog, d)) = Len(disk) + 1
        /\ Append(TheLog, d)[Len(disk) + 1] = d
        /\ \A i \in 1..Len(disk) : Append(TheLog, d)[i] = TheLog[i]
    BY <1>2, <1>5, <1>9
  <2>2. /\ \A i \in 1..Len(disk) : TheLog'[i] = TheLog[i]
        /\ TheLog'[Len(disk) + 1] = d
    BY <1>2, <1>9, <1>11
  <2>3. \A i \in 1..Len(TheLog') : TheLog'[i] = Append(TheLog, d)[i]
    BY <1>2, <1>9, <1>11, <2>1, <2>2
  <2> QED BY <1>9, <1>11, <2>1, <2>3, SeqEqual
<1> QED BY <1>5, <1>8, <1>10, <1>12

(* A step that adds to the browser's log does so at its end, and what the log
   has already was put off. *)
LEMMA LocalSays ==
    ASSUME OperationsInv, ModeInv, DelayInv, NEW t \in Tabs,
           (\E d \in Docs : FormSubmit(t, d)) \/ FlushStart(t) \/ FlushReply(t)
    PROVE  /\ Said' = Said
           /\ \/ TheLog' = TheLog
              \/ \E d \in Docs : /\ mode = "browser-local"
                                 /\ TheLog' = Append(TheLog, d)
                                 /\ d \in Range(TheLog) => Said[d] = "queued"
<1>1. /\ OperationsTypeOK /\ local \in Seq(Entry)
      /\ told \in [Docs -> {"none", "sending", "saved", "queued", "refused"}]
  BY DEF OperationsInv, OperationsTypeOK
<1>2. disk' = disk
  BY DEF FormSubmit, FlushStart, FlushReply, storeVars
<1>3. Said' = Said
  <2>1. CASE told' = told
    BY <2>1 DEF Said
  <2>2. ASSUME NEW d \in Docs, told[d] = "none", told' = [told EXCEPT ![d] = "sending"]
        PROVE  Said' = Said
    <3>1. /\ told'[d] = "sending"
          /\ \A x \in Docs : x # d => told'[x] = told[x]
      BY <1>1, <2>2
    <3> QED BY <2>2, <3>1 DEF Said
  <2>3. told' = told \/ \E d \in Docs : /\ told[d] = "none"
                                        /\ told' = [told EXCEPT ![d] = "sending"]
    BY DEF FormSubmit, FlushStart, FlushReply
  <2> QED BY <2>1, <2>2, <2>3
<1>4. CASE local' = local
  BY <1>2, <1>3, <1>4 DEF TheLog
<1>5. ASSUME NEW entry \in Entry, view[t] = "browser-local",
             local' = <<entry>> \o local,
             told[entry.doc] = "none" \/ told[entry.doc] = "queued"
      PROVE  /\ entry.doc \in Docs /\ mode = "browser-local"
             /\ TheLog' = Append(TheLog, entry.doc)
             /\ entry.doc \in Range(TheLog) => Said[entry.doc] = "queued"
  <2>1. entry.doc \in Docs /\ mode = "browser-local" /\ disk = <<>>
    BY <1>5 DEF ModeInv, Entry
  <2>2. TheLog' = Append(TheLog, entry.doc)
    BY <1>1, <1>2, <1>5, <2>1, LocalLogs DEF TheLog
  <2>3. ASSUME entry.doc \in Range(TheLog) PROVE told[entry.doc] # "none"
    <3>1. ~OnDisk(entry.doc)
      BY <2>1 DEF OnDisk
    <3>2. InLocal(entry.doc)
      BY <1>1, <2>1, <2>3, <3>1, LogHas
    <3> QED BY <3>2 DEF InLocal, DelayInv
  <2> QED BY <1>5, <2>1, <2>2, <2>3 DEF Said
<1> QED BY <1>3, <1>4, <1>5, LocalGrows

(* What FormReply says: "saved" of what was answered so, and of every entry
   for the first time. *)
LEMMA FormReplySays ==
    ASSUME OperationsInv, ModeInv, NEW t \in Tabs, FormReply(t)
    PROVE  \E d \in Docs, word \in {"saved", "queued", "refused"} :
              /\ Said[d] = "none"
              /\ Said' = [Said EXCEPT ![d] = word]
              /\ word = "saved" => d \in Range(TheLog)
<1> DEFINE c == <<t, "form">>
<1>1. PICK d : d = req[c].msg.entry.doc
  OBVIOUS
<1>2. c \in Clients /\ req[c] # NoRequest
  BY ClientTyped, NoRequestIsNone DEF FormReply, Outcomes
<1>3. d \in Docs /\ told[d] = "sending"
  BY <1>1, <1>2, RequestTyped DEF OperationsInv, FormInv, Entry
<1>4. PICK word \in {"saved", "queued", "refused"} :
         /\ told' = [told EXCEPT ![d] = word]
         /\ word = "saved" => req[c].st \in {"created", "kept"}
  BY <1>1 DEF FormReply
<1>5. told \in [Docs -> {"none", "sending", "saved", "queued", "refused"}]
  BY DEF OperationsInv, OperationsTypeOK
<1>6. Said[d] = "none"
  BY <1>3 DEF Said
<1>7. Said' = [Said EXCEPT ![d] = word]
  <2>1. /\ told'[d] = word
        /\ \A x \in Docs : x # d => told'[x] = told[x]
    BY <1>3, <1>4, <1>5
  <2> QED BY <1>3, <2>1 DEF Said
<1>8. ASSUME word = "saved" PROVE d \in Range(TheLog)
  <2>1. OnDisk(d) \/ InLocal(d)
    BY <1>1, <1>2, <1>4, <1>8 DEF OperationsInv, AnswerInv
  <2> QED BY <1>3, <2>1, LogHas DEF OperationsInv
<1> QED BY <1>3, <1>6, <1>7, <1>8

(* Every other step leaves log and words alone. *)
LEMMA PromiseRests ==
    ASSUME [Next]_vars, ~(Save /\ SaveRenames),
           \A t \in Tabs : ~(\/ \E d \in Docs : FormSubmit(t, d)
                            \/ FormReply(t) \/ FlushStart(t) \/ FlushReply(t))
    PROVE  UNCHANGED <<told, disk, local>>
<1>1. ASSUME NEW t \in Tabs,
             LoadDeployment(t) \/ (\E a \in Actors : SetToken(t, a)) \/ Reload(t)
      PROVE  UNCHANGED <<told, disk, local>>
  BY <1>1 DEF LoadDeployment, SetToken, Reload, storeVars
<1>2. ASSUME NEW c \in Clients,
             NetworkError(c) \/ Unreachable(c) \/ Refuse(c) \/ Handle(c)
      PROVE  UNCHANGED <<told, disk, local>>
  BY <1>2 DEF NetworkError, Unreachable, Refuse, Handle, Create, CreateKnown,
              CreateAppend, storeVars, tabVars
<1>3. ASSUME NEW msg \in orphans, HandleOrphan(msg)
      PROVE  UNCHANGED <<told, disk, local>>
  BY <1>3 DEF HandleOrphan, Create, CreateKnown, CreateAppend, tabVars
<1>4. CASE GoOffline \/ GoOnline
  BY <1>4 DEF GoOffline, GoOnline, storeVars, tabVars
<1>5. CASE Save \/ SaveError \/ Answer \/ Crash \/ Restart
  BY <1>5 DEF Save, SaveError, Answer, Crash, Restart, PublishRecord, SaveFails,
              CreateReturns, StoreCrash, StoreLoad, tabVars
<1>6. CASE UNCHANGED vars
  BY <1>6 DEF vars, storeVars, tabVars
<1> QED BY <1>1, <1>2, <1>3, <1>4, <1>5, <1>6 DEF Next

(* In every deployment mode the whole implements the promise: the log of the
   mode grows at its end, a server's by entries it does not have and does not
   refuse, a browser's by entries it does not have or that were put off, and
   the form says one thing of each entry, "saved" only of what is logged. *)
THEOREM PromiseIsImplemented == Spec => PromiseSafety
<1> DEFINE Inv == OperationsInv /\ ModeInv /\ DelayInv
<1>1. Init => Promise!PromiseInit
  <2> SUFFICES ASSUME Init PROVE Promise!PromiseInit
    OBVIOUS
  <2>1. disk = <<>> /\ local = <<>> /\ disk \in Seq(Record)
    BY DEF Init, StoreInit
  <2>2. TheLog = <<>>
    <3>1. LogOf(disk, <<>>) \in Seq(Docs) /\ Len(LogOf(disk, <<>>)) = 0
      BY <2>1, LogIsDisk
    <3> QED BY <2>1, <3>1 DEF TheLog
  <2>3. Said \in [Docs -> {"none", "queued"}]
    BY DEF Init, Said
  <2>4. (mode # "browser-local") \in BOOLEAN
    OBVIOUS
  <2> QED BY <2>2, <2>3, <2>4 DEF Promise!PromiseInit, TheLog, LogOf, Said
<1>2. Init => Inv
  <2> SUFFICES ASSUME Init PROVE ModeInv /\ DelayInv
    BY OperationsInitInv
  <2>1. ModeInv
    BY DEF Init, StoreInit, ModeInv
  <2>2. DelayInv
    <3>1. queue \in Seq(Entry)
      BY OperationsInitInv DEF OperationsInv, OperationsTypeOK
    <3>2. \A i \in 1..Len(queue) : queue[i].doc \in Docs
      BY <3>1, EntriesTyped
    <3> QED BY <3>2 DEF Init, DelayInv
  <2> QED BY <2>1, <2>2
<1>3. Inv /\ [Next]_vars => Inv'
  BY OperationsStepInv, ModeStep, DelayStep
<1>4. Inv /\ Inv' /\ [Next]_vars => [Promise!PromiseNext]_(Promise!promiseVars)
  <2> SUFFICES ASSUME Inv, Inv', [Next]_vars
               PROVE  [Promise!PromiseNext]_(Promise!promiseVars)
    OBVIOUS
  <2> DEFINE once == mode # "browser-local"
  <2>1. once' = once
    BY ModeStays
  <2>2. ASSUME NEW d \in Docs, once => d \notin BadDocs,
               d \in Range(TheLog) => Said[d] = "queued" /\ ~once,
               Said' = Said, TheLog' = Append(TheLog, d)
        PROVE  Promise!PromiseNext
    BY <2>1, <2>2 DEF Promise!PromiseNext, Promise!Log, Promise!Range, Range, TheLog,
                      LogOf, Said
  <2>3. ASSUME NEW d \in Docs, NEW word \in {"saved", "queued", "refused"},
               Said[d] = "none", Said' = [Said EXCEPT ![d] = word], TheLog' = TheLog,
               word = "saved" => d \in Range(TheLog)
        PROVE  Promise!PromiseNext
    BY <2>1, <2>3 DEF Promise!PromiseNext, Promise!Say, Promise!Range, Range, TheLog,
                      LogOf, Said
  <2>4. ASSUME Said' = Said, TheLog' = TheLog
        PROVE  UNCHANGED Promise!promiseVars
    BY <2>1, <2>4 DEF Promise!promiseVars, TheLog, LogOf, Said
  <2>5. CASE Save /\ SaveRenames
    <3>1. told' = told /\ local' = local
      BY <2>5 DEF Save, tabVars
    <3>2. /\ once /\ call.in.doc \in Docs \ BadDocs
          /\ call.in.doc \notin Range(TheLog)
          /\ TheLog' = Append(TheLog, call.in.doc)
      BY <2>5, <3>1, SaveLogs
    <3>3. Said' = Said
      BY <3>1 DEF Said
    <3> QED BY <2>2, <3>2, <3>3
  <2>6. ASSUME NEW t \in Tabs, FormReply(t) PROVE Promise!PromiseNext
    <3>1. TheLog' = TheLog
      BY <2>6 DEF FormReply, TheLog, storeVars
    <3> QED BY <2>3, <2>6, <3>1, FormReplySays
  <2>7. ASSUME NEW t \in Tabs,
               (\E d \in Docs : FormSubmit(t, d)) \/ FlushStart(t) \/ FlushReply(t)
        PROVE  [Promise!PromiseNext]_(Promise!promiseVars)
    BY <2>2, <2>4, <2>7, LocalSays
  <2>8. CASE /\ ~(Save /\ SaveRenames)
             /\ \A t \in Tabs : ~(\/ \E d \in Docs : FormSubmit(t, d)
                                  \/ FormReply(t) \/ FlushStart(t) \/ FlushReply(t))
    <3>1. UNCHANGED <<told, disk, local>>
      BY <2>8, PromiseRests
    <3>2. Said' = Said /\ TheLog' = TheLog
      BY <3>1 DEF Said, TheLog
    <3> QED BY <2>4, <3>2
  <2> QED BY <2>5, <2>6, <2>7, <2>8
<1> QED BY <1>1, <1>2, <1>3, <1>4, PTL DEF Spec, PromiseSafety, Promise!PromiseSpec
=============================================================================
