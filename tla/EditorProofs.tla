---------------------------- MODULE EditorProofs ----------------------------
(***************************************************************************)
(* The OSM editor for any OpenStreetMap, any number of drafts, requests    *)
(* and steps of undo.  Every draft that the history, the local storage or  *)
(* the form ever holds is one that validateDraft accepts; every workspace  *)
(* can be checked without an issue; undo and redo walk along one line; the *)
(* exported file makes, uses and deletes objects in an order that          *)
(* OpenStreetMap can follow; and no handler loses the work on an object    *)
(* that the user has not asked about.  EditorInv is the inductive          *)
(* invariant, with KeptInv for the last.                                   *)
(***************************************************************************)
EXTENDS OsmEditor, TLAPS, SequenceTheorems, FiniteSetTheorems, WellFoundedInduction

(* A sequence of anything. *)
IsSeq(s) == s \in Seq(ToSet(s))

(* A workspace as it is kept: drafts that fit, without an issue. *)
Sound(ds) ==
    /\ IsSeq(ds)
    /\ \A d \in ToSet(ds) : validateDraft(d)
    /\ checkReferences(ds)

(* The history keeps sound workspaces. *)
HistoryInv ==
    /\ IsSeq(undo) /\ IsSeq(redo)
    /\ \A ds \in {drafts, stored} \cup ToSet(undo) \cup ToSet(redo) : Sound(ds)

(* What is open is an element, perhaps not one that can be saved, of a base
   that OpenStreetMap has sent, with drafts of nodes that wait. *)
Waits(d) == validateDraft(d) /\ ~d.deleted /\ d.value.type = "node"
Openable(c) ==
    /\ c = Opened(c.base, c.value, c.pending, c.conf, c.shape)
    /\ c.value = Element(c.value.type, c.value.id, c.value.version, c.value.tags,
                         c.value.at, c.value.nodes, c.value.members)
    /\ c.value.nodes \in Seq(Refs)
    /\ c = Nothing \/ c.value.type \in Types
    /\ c.base = NoElement \/ element(c.base, FALSE)
    /\ IsSeq(c.pending) /\ \A d \in ToSet(c.pending) : Waits(d)
FormInv ==
    /\ Openable(current)
    /\ dirty \in BOOLEAN
    /\ current = Nothing => ~dirty /\ members = <<>>

(* The points of a drawing can become nodes. *)
IsPoint(p) == p.at # Nowhere /\ p.node \in Nat
PenInv == IsSeq(points) /\ \A p \in ToSet(points) : IsPoint(p)

(* What a request carries can be used when its answer comes. *)
Carries(job) ==
    /\ job.op \in Ops
    /\ job.op = "delete" => validateDraft(job.old)
    /\ job.op = "load" => IF job.old = NoDraft THEN job.arg \in OsmKeys
                          ELSE validateDraft(job.old) /\ ~job.old.deleted
    /\ job.op = "confidential" =>
           /\ job.arg = [id |-> job.arg.id, type |-> job.arg.type,
                         tags |-> job.arg.tags, line |-> job.arg.line]
           /\ IsSeq(job.arg.line)

(* The tools, the requests and the world around the editor. *)
ToolsInv ==
    /\ {busy, placing, geometry, split} \subseteq BOOLEAN
    /\ drawing \in {"no", "line", "area"}
NetInv == \A job \in jobs : Carries(job)
WorldInv ==
    /\ \A o \in vault : IsSeq(o.line)
    /\ live \in [OsmKeys -> 0..(MaxLive + 1)]
    /\ work \in Nat /\ \E w \in Worlds : work <= w.work
AroundInv == ToolsInv /\ NetInv /\ WorldInv

EditorInv == HistoryInv /\ FormInv /\ PenInv /\ AroundInv

-----------------------------------------------------------------------------
(* Sequences.                                                              *)

(* A function on the first numbers is a sequence. *)
LEMMA FunctionIsSeq ==
    ASSUME NEW n \in Nat, NEW s, s = [i \in 1..n |-> s[i]]
    PROVE  IsSeq(s) /\ Len(s) = n /\ DOMAIN s = 1..n
<1>1. DOMAIN s = 1..n
  OBVIOUS
<1>2. \A i \in 1..n : s[i] \in ToSet(s)
  BY <1>1 DEF ToSet
<1>3. s \in Seq(ToSet(s))
  BY <1>2
<1> QED BY <1>1, <1>3 DEF IsSeq

(* The elements of a sequence are in whatever set it is over. *)
LEMMA SequenceIsSeq ==
    ASSUME NEW S, NEW s \in Seq(S)
    PROVE  IsSeq(s) /\ ToSet(s) \subseteq S
<1>1. s = [i \in 1..Len(s) |-> s[i]] /\ Len(s) \in Nat /\ DOMAIN s = 1..Len(s)
  OBVIOUS
<1>2. \A i \in 1..Len(s) : s[i] \in S
  OBVIOUS
<1> QED BY <1>1, <1>2, FunctionIsSeq DEF ToSet

(* A sequence of anything has a length and numbered elements. *)
LEMMA IsSeqProperties ==
    ASSUME NEW s, IsSeq(s)
    PROVE  /\ Len(s) \in Nat /\ DOMAIN s = 1..Len(s) /\ s = [i \in 1..Len(s) |-> s[i]]
           /\ ToSet(s) = {s[i] : i \in 1..Len(s)}
BY DEF IsSeq, ToSet

(* What the editor does with sequences gives sequences. *)
LEMMA EmptyIsSeq == IsSeq(<<>>) /\ ToSet(<<>>) = {}
<1>1. <<>> \in Seq({})
  OBVIOUS
<1>2. IsSeq(<<>>)
  BY <1>1, SequenceIsSeq
<1>3. DOMAIN <<>> = {}
  BY <1>1
<1> QED BY <1>2, <1>3 DEF ToSet

(* An element more. *)
LEMMA AppendIsSeq ==
    ASSUME NEW s, IsSeq(s), NEW e
    PROVE  IsSeq(Append(s, e)) /\ ToSet(Append(s, e)) = ToSet(s) \cup {e}
<1> DEFINE S == ToSet(s) \cup {e}
<1>1. s \in Seq(S) /\ e \in S
  BY DEF IsSeq
<1>2. Append(s, e) \in Seq(S)
  BY <1>1
<1>3. /\ Len(s) \in Nat /\ DOMAIN Append(s, e) = 1..(Len(s) + 1)
      /\ \A i \in 1..Len(s) : Append(s, e)[i] = s[i]
      /\ Append(s, e)[Len(s) + 1] = e
  BY <1>1
<1>4. ToSet(s) = {s[i] : i \in 1..Len(s)}
  BY IsSeqProperties
<1>5. S \subseteq ToSet(Append(s, e))
  BY <1>3, <1>4 DEF ToSet
<1> QED BY <1>2, <1>5, SequenceIsSeq

(* One sequence behind another. *)
LEMMA ConcatIsSeq ==
    ASSUME NEW s, IsSeq(s), NEW t, IsSeq(t)
    PROVE  IsSeq(s \o t) /\ ToSet(s \o t) \subseteq ToSet(s) \cup ToSet(t)
<1> DEFINE S == ToSet(s) \cup ToSet(t)
<1>1. s \in Seq(S) /\ t \in Seq(S)
  BY DEF IsSeq
<1>2. s \o t \in Seq(S)
  BY <1>1
<1> QED BY <1>2, SequenceIsSeq

(* A part of a sequence, with its length and elements. *)
LEMMA SubSeqIsSeq ==
    ASSUME NEW s, IsSeq(s), NEW m \in 1..(Len(s) + 1), NEW n \in 0..Len(s)
    PROVE  /\ IsSeq(SubSeq(s, m, n)) /\ ToSet(SubSeq(s, m, n)) \subseteq ToSet(s)
           /\ Len(SubSeq(s, m, n)) = IF m <= n THEN n - m + 1 ELSE 0
           /\ \A i \in 1..Len(SubSeq(s, m, n)) : SubSeq(s, m, n)[i] = s[m + i - 1]
<1> DEFINE S == ToSet(s)
<1>1. s \in Seq(S) /\ Len(s) \in Nat /\ m \in Nat /\ n \in Nat
  BY IsSeqProperties DEF IsSeq
<1> HIDE DEF S
<1>2. \A i \in m..n : s[i] \in S
  BY <1>1
<1>3. SubSeq(s, m, n) \in Seq(S)
  BY <1>1, <1>2, SubSeqProperties
<1>4. /\ Len(SubSeq(s, m, n)) = IF m <= n THEN n - m + 1 ELSE 0
      /\ \A i \in 1..Len(SubSeq(s, m, n)) : SubSeq(s, m, n)[i] = s[m + i - 1]
  BY <1>1, <1>2, SubSeqProperties
<1> QED BY <1>3, <1>4, SequenceIsSeq DEF S

(* An element replaced. *)
LEMMA ExceptIsSeq ==
    ASSUME NEW s, IsSeq(s), NEW i, NEW e
    PROVE  /\ IsSeq([s EXCEPT ![i] = e]) /\ Len([s EXCEPT ![i] = e]) = Len(s)
           /\ ToSet([s EXCEPT ![i] = e]) \subseteq ToSet(s) \cup {e}
<1>1. Len(s) \in Nat /\ DOMAIN s = 1..Len(s)
  BY IsSeqProperties
<1>2. [s EXCEPT ![i] = e] = [j \in 1..Len(s) |-> [s EXCEPT ![i] = e][j]]
  BY <1>1
<1>3. IsSeq([s EXCEPT ![i] = e]) /\ Len([s EXCEPT ![i] = e]) = Len(s)
  BY <1>1, <1>2, FunctionIsSeq
<1>4. \A j \in DOMAIN s : [s EXCEPT ![i] = e][j] \in ToSet(s) \cup {e}
  BY DEF ToSet
<1> QED BY <1>3, <1>4 DEF ToSet

(* An element taken out, as removeDraft and Undelete do: the others move up. *)
LEMMA RemoveAtIsSeq ==
    ASSUME NEW s, IsSeq(s), NEW i \in 1..Len(s)
    PROVE  /\ IsSeq(RemoveAt(s, i)) /\ Len(RemoveAt(s, i)) = Len(s) - 1
           /\ ToSet(RemoveAt(s, i)) \subseteq ToSet(s)
           /\ \A j \in 1..(Len(s) - 1) :
                 RemoveAt(s, i)[j] = IF j < i THEN s[j] ELSE s[j + 1]
<1> DEFINE a == SubSeq(s, 1, i - 1)
           b == SubSeq(s, i + 1, Len(s))
<1>1. Len(s) \in Nat
  BY IsSeqProperties
<1>2. /\ 1 \in 1..(Len(s) + 1) /\ i - 1 \in 0..Len(s)
      /\ i + 1 \in 1..(Len(s) + 1) /\ Len(s) \in 0..Len(s)
  BY <1>1
<1>3. /\ IsSeq(a) /\ Len(a) = i - 1 /\ \A j \in 1..(i - 1) : a[j] = s[j]
  <2>1. /\ IsSeq(a) /\ Len(a) = IF 1 <= i - 1 THEN i - 1 - 1 + 1 ELSE 0
        /\ \A j \in 1..Len(a) : a[j] = s[1 + j - 1]
    BY <1>1, <1>2, SubSeqIsSeq
  <2>2. Len(a) = i - 1
    BY <1>1, <2>1
  <2> QED BY <1>1, <2>1, <2>2
<1>4. /\ IsSeq(b) /\ Len(b) = Len(s) - i
      /\ \A j \in 1..(Len(s) - i) : b[j] = s[i + j]
  <2>1. /\ IsSeq(b) /\ Len(b) = IF i + 1 <= Len(s) THEN Len(s) - (i + 1) + 1 ELSE 0
        /\ \A j \in 1..Len(b) : b[j] = s[i + 1 + j - 1]
    BY <1>1, <1>2, SubSeqIsSeq
  <2>2. Len(b) = Len(s) - i
    BY <1>1, <2>1
  <2> QED BY <1>1, <2>1, <2>2
<1>5. RemoveAt(s, i) = a \o b
  BY DEF RemoveAt
<1> HIDE DEF a, b
<1> DEFINE S == ToSet(a) \cup ToSet(b)
<1>6. a \in Seq(S) /\ b \in Seq(S)
  BY <1>3, <1>4 DEF IsSeq
<1> HIDE DEF S
<1>7. /\ Len(a \o b) = Len(s) - 1
      /\ \A j \in 1..(Len(s) - 1) : (a \o b)[j] = IF j <= Len(a) THEN a[j] ELSE b[j - Len(a)]
  <2>1. /\ Len(a \o b) = Len(a) + Len(b)
        /\ \A j \in 1..(Len(a) + Len(b)) : (a \o b)[j] = IF j <= Len(a) THEN a[j] ELSE b[j - Len(a)]
    BY <1>6, ConcatProperties
  <2>2. Len(a) + Len(b) = Len(s) - 1
    BY <1>1, <1>3, <1>4
  <2> QED BY <2>1, <2>2
<1>8. ASSUME NEW j \in 1..(Len(s) - 1)
      PROVE  RemoveAt(s, i)[j] = IF j < i THEN s[j] ELSE s[j + 1]
  <2>1. CASE j < i
    <3>1. j \in 1..(i - 1) /\ j <= Len(a)
      BY <1>1, <1>3, <2>1
    <3>2. (a \o b)[j] = a[j] /\ a[j] = s[j]
      BY <1>3, <1>7, <3>1
    <3> QED BY <1>5, <2>1, <3>2
  <2>2. CASE ~(j < i)
    <3>1. j - Len(a) \in 1..(Len(s) - i) /\ ~(j <= Len(a)) /\ i + (j - Len(a)) = j + 1
      BY <1>1, <1>3, <2>2
    <3>2. (a \o b)[j] = b[j - Len(a)] /\ b[j - Len(a)] = s[j + 1]
      BY <1>4, <1>7, <3>1
    <3> QED BY <1>5, <2>2, <3>2
  <2> QED BY <2>1, <2>2
<1>9. ToSet(a) \subseteq ToSet(s) /\ ToSet(b) \subseteq ToSet(s)
  BY <1>1, <1>2, SubSeqIsSeq DEF a, b
<1>10. IsSeq(a \o b) /\ ToSet(a \o b) \subseteq ToSet(a) \cup ToSet(b)
  BY <1>3, <1>4, ConcatIsSeq
<1> QED BY <1>5, <1>7, <1>8, <1>9, <1>10

(* A set of numbers that is not empty has a least element. *)
LEMMA LeastNumber ==
    ASSUME NEW T \in SUBSET Nat, T # {}
    PROVE  \E m \in T : \A k \in T : m <= k
<1>1. PICK m \in T : \A k \in T : <<k, m>> \notin OpToRel(<, Nat)
  BY NatLessThanWellFounded, WFMin
<1>2. \A k \in T : ~(k < m)
  BY <1>1 DEF OpToRel
<1> QED BY <1>2

(* The first of some positions, as Min gives it. *)
LEMMA MinIsLeast ==
    ASSUME NEW S \in SUBSET Nat, S # {}
    PROVE  Min(S) \in S /\ \A x \in S : Min(S) <= x
<1>1. \E m \in S : \A x \in S : m <= x
  BY LeastNumber
<1> QED BY <1>1 DEF Min

(* The greatest of some positions, as Max gives it. *)
LEMMA MaxIs ==
    ASSUME NEW S \in SUBSET Nat, NEW m \in S, \A x \in S : x <= m
    PROVE  Max(S) = m
<1>1. \A x \in S : m >= x
  OBVIOUS
<1>2. Max(S) \in S /\ \A x \in S : Max(S) >= x
  BY <1>1 DEF Max
<1>3. Max(S) <= m /\ Max(S) >= m /\ Max(S) \in Nat /\ m \in Nat
  BY <1>2
<1> QED BY <1>3

(* There is a greatest one among the positions of a sequence. *)
LEMMA MaxExists ==
    ASSUME NEW n \in Nat, NEW S \in SUBSET (1..n), S # {}
    PROVE  Max(S) \in S /\ \A x \in S : x <= Max(S)
<1> DEFINE T == {n - x : x \in S}
<1>1. T \in SUBSET Nat /\ T # {}
  <2>1. \A x \in S : n - x \in Nat
    OBVIOUS
  <2>2. T \subseteq Nat
    BY <2>1
  <2>3. PICK x : x \in S
    OBVIOUS
  <2>4. n - x \in T
    BY <2>3
  <2> QED BY <2>2, <2>4
<1>2. PICK m \in T : \A k \in T : m <= k
  <2> HIDE DEF T
  <2> QED BY <1>1, LeastNumber
<1>3. PICK x \in S : m = n - x
  BY <1>2
<1>4. \A y \in S : y <= x
  <2>1. SUFFICES ASSUME NEW y \in S PROVE y <= x
    OBVIOUS
  <2>2. n - y \in T
    OBVIOUS
  <2> QED BY <1>2, <1>3, <2>2
<1>5. S \in SUBSET Nat
  OBVIOUS
<1> QED BY <1>3, <1>4, <1>5, MaxIs

(* The positions in a set can be counted in their order. *)
LEMMA InOrderExists ==
    ASSUME NEW N \in Nat
    PROVE  \A n \in Nat : \A K \in SUBSET (1..N) :
              Cardinality(K) = n =>
                  \E f \in [1..n -> K] : \A i, j \in 1..n : i < j => f[i] < f[j]
<1> DEFINE Counted(n, K) == \E f \in [1..n -> K] : \A i, j \in 1..n : i < j => f[i] < f[j]
           T == {n \in Nat : \E K \in SUBSET (1..N) : Cardinality(K) = n /\ ~Counted(n, K)}
<1>1. SUFFICES ASSUME T # {} PROVE FALSE
  OBVIOUS
<1>2. PICK n \in T : \A k \in T : n <= k
  <2>1. T \in SUBSET Nat
    OBVIOUS
  <2> HIDE DEF T
  <2> QED BY <1>1, <2>1, LeastNumber
<1>3. PICK K \in SUBSET (1..N) : Cardinality(K) = n /\ ~Counted(n, K)
  BY <1>2
<1>4. n \in Nat /\ IsFiniteSet(K)
  <2>1. IsFiniteSet(1..N) /\ K \subseteq 1..N
    BY FS_Interval
  <2> QED BY <1>2, <2>1, FS_Subset
<1>5. CASE n = 0
  <2>1. [i \in 1..0 |-> 0] \in [1..n -> K]
    BY <1>5
  <2>2. \A i, j \in 1..n : FALSE
    BY <1>5
  <2> QED BY <1>3, <2>1, <2>2
<1>6. CASE n # 0
  <2>1. K # {}
    BY <1>3, <1>6, FS_EmptySet
  <2> DEFINE m == Max(K)
             L == K \ {m}
  <2>2. m \in K /\ \A x \in K : x <= m
    BY <2>1, MaxExists
  <2> HIDE DEF m
  <2>3. IsFiniteSet(L) /\ Cardinality(L) = n - 1 /\ L \in SUBSET (1..N) /\ n - 1 \in Nat
    BY <1>3, <1>4, <1>6, <2>2, FS_RemoveElement
  <2>4. Counted(n - 1, L)
    <3>1. n - 1 \notin T
      <4> HIDE DEF T
      <4>1. ~(n <= n - 1)
        BY <1>4
      <4> QED BY <1>2, <4>1
    <3> HIDE DEF Counted
    <3> QED BY <2>3, <3>1
  <2>5. PICK g \in [1..(n - 1) -> L] : \A i, j \in 1..(n - 1) : i < j => g[i] < g[j]
    BY <2>4
  <2> DEFINE f == [i \in 1..n |-> IF i = n THEN m ELSE g[i]]
  <2>6. f \in [1..n -> K]
    <3>1. \A i \in 1..n : i # n => i \in 1..(n - 1)
      BY <1>4
    <3> QED BY <2>2, <2>5, <3>1
  <2>7. ASSUME NEW i \in 1..n, NEW j \in 1..n, i < j PROVE f[i] < f[j]
    <3>1. i \in 1..(n - 1) /\ i # n
      BY <1>4, <2>7
    <3>2. CASE j = n
      <4>1. g[i] \in K /\ g[i] # m
        BY <2>5, <3>1
      <4>2. g[i] <= m /\ g[i] \in 1..N /\ m \in 1..N
        BY <2>2, <4>1
      <4> QED BY <3>1, <3>2, <4>1, <4>2
    <3>3. CASE j # n
      <4>1. j \in 1..(n - 1)
        BY <1>4, <3>3
      <4> QED BY <2>5, <2>7, <3>1, <3>3, <4>1
    <3> QED BY <3>2, <3>3
  <2> HIDE DEF f
  <2> QED BY <1>3, <2>6, <2>7
<1> QED BY <1>5, <1>6

(* The filters of the source give a sequence of some of the elements. *)
LEMMA KeepAtIsSeq ==
    ASSUME NEW s, IsSeq(s), NEW K \in SUBSET DOMAIN s
    PROVE  IsSeq(KeepAt(s, K)) /\ Len(KeepAt(s, K)) = Cardinality(K)
<1>1. IsFiniteSet(1..Len(s)) /\ K \subseteq 1..Len(s)
  <2>1. DOMAIN s = 1..Len(s) /\ Len(s) \in Nat
    BY IsSeqProperties
  <2>2. IsFiniteSet(1..Len(s))
    BY <2>1, FS_Interval
  <2> QED BY <2>1, <2>2
<1>2. Cardinality(K) \in Nat
  BY <1>1, FS_Subset, FS_CardinalityType
<1>3. KeepAt(s, K) = [i \in 1..Cardinality(K) |-> KeepAt(s, K)[i]]
  BY DEF KeepAt
<1> QED BY <1>2, <1>3, FunctionIsSeq

(* The filters give the elements at the positions they keep, and no others. *)
LEMMA KeepAtElements ==
    ASSUME NEW s, IsSeq(s), NEW K \in SUBSET DOMAIN s
    PROVE  /\ IsSeq(KeepAt(s, K)) /\ DOMAIN KeepAt(s, K) = 1..Len(KeepAt(s, K))
           /\ \A i \in DOMAIN KeepAt(s, K) : \E k \in K : KeepAt(s, K)[i] = s[k]
           /\ ToSet(KeepAt(s, K)) = {s[k] : k \in K}
<1> DEFINE n == Cardinality(K)
           Up(f) == \A i, j \in 1..n : i < j => f[i] < f[j]
           up == CHOOSE f \in [1..n -> K] : Up(f)
<1>1. Len(s) \in Nat /\ DOMAIN s = 1..Len(s)
  BY IsSeqProperties
<1>2. n \in Nat
  <2>1. IsFiniteSet(1..Len(s)) /\ K \subseteq 1..Len(s)
    BY <1>1, FS_Interval
  <2> QED BY <2>1, FS_Subset, FS_CardinalityType
<1>3. \E f \in [1..n -> K] : Up(f)
  BY <1>1, <1>2, InOrderExists
<1>4. up \in [1..n -> K] /\ Up(up)
  <2> HIDE DEF Up, n
  <2> QED BY <1>3
<1>5. KeepAt(s, K) = [i \in 1..n |-> s[up[i]]]
  BY DEF KeepAt
<1> HIDE DEF up, n
<1>6. DOMAIN KeepAt(s, K) = 1..n /\ \A i \in 1..n : KeepAt(s, K)[i] = s[up[i]] /\ up[i] \in K
  BY <1>4, <1>5
<1>7. IsSeq(KeepAt(s, K)) /\ Len(KeepAt(s, K)) = n
  BY KeepAtIsSeq DEF n
<1>8. ASSUME NEW k \in K PROVE \E i \in 1..n : up[i] = k
  <2>1. SUFFICES ASSUME \A i \in 1..n : up[i] # k PROVE FALSE
    OBVIOUS
  <2> DEFINE L == K \ {k}
  <2>2. IsFiniteSet(K)
    <3>1. IsFiniteSet(1..Len(s)) /\ K \in SUBSET (1..Len(s))
      BY <1>1, FS_Interval
    <3> QED BY <3>1, FS_Subset
  <2>3. IsFiniteSet(L) /\ Cardinality(L) = n - 1
    BY <1>8, <2>2, FS_RemoveElement DEF n
  <2>4. IsFiniteSet(1..n) /\ Cardinality(1..n) = n
    BY <1>2, FS_Interval
  <2>5. up \in [1..n -> L]
    BY <1>4, <2>1
  <2> HIDE DEF L
  <2>6. Cardinality(L) < Cardinality(1..n)
    BY <1>2, <2>3, <2>4
  <2>7. PICK i \in 1..n, j \in 1..n : i # j /\ up[i] = up[j]
    BY <2>3, <2>4, <2>5, <2>6, FS_PigeonHole
  <2>8. up[i] \in 1..Len(s) /\ (i < j \/ j < i)
    BY <1>1, <1>2, <1>4, <2>7
  <2> QED BY <1>1, <1>4, <2>7, <2>8
<1>9. {s[k] : k \in K} \subseteq ToSet(KeepAt(s, K))
  BY <1>6, <1>8 DEF ToSet
<1> QED BY <1>6, <1>7, <1>9 DEF ToSet

(* A draft replaced or added, as save, merge and split do. *)
LEMMA PutIsSeq ==
    ASSUME NEW ds, IsSeq(ds), NEW d
    PROVE  /\ IsSeq(Put(ds, d)) /\ Len(Put(ds, d)) >= Len(ds)
           /\ ToSet(Put(ds, d)) \subseteq ToSet(ds) \cup {d}
<1> DEFINE at == {i \in DOMAIN ds : Key(ds[i]) = Key(d)}
<1>1. Len(ds) \in Nat /\ ds \in Seq(ToSet(ds) \cup {d})
  BY IsSeqProperties DEF IsSeq
<1>2. CASE at = {}
  <2>1. Put(ds, d) = Append(ds, d)
    BY <1>2 DEF Put
  <2>2. Len(Append(ds, d)) = Len(ds) + 1
    BY <1>1
  <2> QED BY <1>1, <2>1, <2>2, AppendIsSeq
<1>3. CASE at # {}
  <2>1. Put(ds, d) = [ds EXCEPT ![Min(at)] = d]
    BY <1>3 DEF Put
  <2>2. /\ IsSeq([ds EXCEPT ![Min(at)] = d]) /\ Len([ds EXCEPT ![Min(at)] = d]) = Len(ds)
        /\ ToSet([ds EXCEPT ![Min(at)] = d]) \subseteq ToSet(ds) \cup {d}
    BY ExceptIsSeq
  <2> QED BY <1>1, <2>1, <2>2
<1> QED BY <1>2, <1>3

(* put has the steps of PutAll. *)
Puts(put, ds, new) ==
    /\ put[0] = ds /\ PutAll(ds, new) = put[Len(new)]
    /\ \A k \in 1..Len(new) : put[k] = Put(put[k - 1], new[k])

(* PutAll puts one draft after the other. *)
LEMMA PutAllSteps ==
    ASSUME NEW ds, NEW new, IsSeq(new)
    PROVE  \E put : Puts(put, ds, new)
<1> DEFINE R(n, f) == f = [k \in 0..n |-> IF k = 0 THEN ds ELSE Put(f[k - 1], new[k])]
           N == Len(new)
<1>1. N \in Nat
  BY IsSeqProperties
<1>2. \A n \in Nat : \E f : R(n, f)
  <2> DEFINE T == {n \in Nat : ~\E f : R(n, f)}
  <2>1. SUFFICES ASSUME T # {} PROVE FALSE
    OBVIOUS
  <2>2. PICK n \in T : \A k \in T : n <= k
    BY <2>1, LeastNumber
  <2>3. CASE n = 0
    <3> DEFINE f == [k \in 0..0 |-> ds]
    <3>1. R(0, f)
      OBVIOUS
    <3> QED BY <2>2, <2>3, <3>1
  <2>4. CASE n # 0
    <3>1. PICK g : R(n - 1, g)
      <4>1. T \subseteq Nat
        OBVIOUS
      <4>2. n - 1 \in Nat /\ (n - 1 \notin T => \E f : R(n - 1, f))
        BY <2>2, <2>4, <4>1
      <4> HIDE DEF T, R
      <4>3. n - 1 \notin T
        BY <2>2, <2>4, <4>1
      <4> QED BY <4>2, <4>3
    <3> DEFINE f == [k \in 0..n |-> IF k < n THEN g[k] ELSE Put(g[n - 1], new[n])]
    <3>2. ASSUME NEW k \in 0..n
          PROVE  f[k] = IF k = 0 THEN ds ELSE Put(f[k - 1], new[k])
      BY <2>2, <2>4, <3>1
    <3>3. R(n, f)
      BY <3>2
    <3> QED BY <2>2, <3>3
  <2> QED BY <2>3, <2>4
<1>3. PICK put : R(N, put) /\ PutAll(ds, new) = put[N]
  <2> DEFINE put == CHOOSE f : R(N, f)
  <2>1. R(N, put)
    BY <1>1, <1>2
  <2>2. PutAll(ds, new) = put[N]
    BY DEF PutAll
  <2> QED BY <2>1, <2>2
<1>4. put[0] = ds /\ \A k \in 1..N : put[k] = Put(put[k - 1], new[k])
  BY <1>1, <1>3
<1>5. Puts(put, ds, new)
  BY <1>3, <1>4 DEF Puts
<1> QED BY <1>5

(* What it gives has the drafts of both. *)
LEMMA PutAllIsSeq ==
    ASSUME NEW ds, IsSeq(ds), NEW new, IsSeq(new)
    PROVE  /\ IsSeq(PutAll(ds, new)) /\ Len(PutAll(ds, new)) >= Len(ds)
           /\ ToSet(PutAll(ds, new)) \subseteq ToSet(ds) \cup ToSet(new)
<1> DEFINE N == Len(new)
<1>1. N \in Nat
  BY IsSeqProperties
<1>2. PICK put : Puts(put, ds, new)
  BY PutAllSteps
<1>3. \A k \in 0..N : /\ IsSeq(put[k]) /\ Len(put[k]) >= Len(ds)
                      /\ ToSet(put[k]) \subseteq ToSet(ds) \cup ToSet(new)
  <2> DEFINE T == {k \in 0..N : ~(/\ IsSeq(put[k]) /\ Len(put[k]) >= Len(ds)
                                  /\ ToSet(put[k]) \subseteq ToSet(ds) \cup ToSet(new))}
  <2>1. SUFFICES ASSUME T # {} PROVE FALSE
    OBVIOUS
  <2>2. PICK k \in T : \A l \in T : k <= l
    <3>1. T \in SUBSET Nat
      BY <1>1
    <3> QED BY <2>1, <3>1, LeastNumber
  <2>3. k # 0 /\ put[k] = Put(put[k - 1], new[k])
    <3>1. put[0] = ds /\ Len(ds) \in Nat
      BY <1>2, IsSeqProperties DEF Puts
    <3> QED BY <1>1, <1>2, <2>2, <3>1 DEF Puts
  <2>4. /\ IsSeq(put[k - 1]) /\ Len(put[k - 1]) >= Len(ds)
        /\ ToSet(put[k - 1]) \subseteq ToSet(ds) \cup ToSet(new)
    BY <1>1, <2>2, <2>3
  <2>5. /\ IsSeq(put[k]) /\ Len(put[k]) >= Len(put[k - 1])
        /\ ToSet(put[k]) \subseteq ToSet(put[k - 1]) \cup {new[k]}
    BY <2>3, <2>4, PutIsSeq
  <2>6. new[k] \in ToSet(new)
    BY <1>1, <2>2, <2>3, IsSeqProperties
  <2>7. Len(put[k]) \in Nat /\ Len(put[k - 1]) \in Nat /\ Len(ds) \in Nat
    BY <2>4, <2>5, IsSeqProperties
  <2> QED BY <2>2, <2>4, <2>5, <2>6, <2>7
<1> QED BY <1>1, <1>2, <1>3 DEF Puts

(* Left over vertices are taken out of a workspace. *)
LEMMA PrunedIsSeq ==
    ASSUME NEW ds, IsSeq(ds), NEW nodes
    PROVE  IsSeq(Pruned(ds, nodes)) /\ ToSet(Pruned(ds, nodes)) \subseteq ToSet(ds)
<1>1. PICK K \in SUBSET DOMAIN ds : Pruned(ds, nodes) = KeepAt(ds, K)
  BY DEF Pruned
<1>2. {ds[k] : k \in K} \subseteq ToSet(ds)
  BY DEF ToSet
<1> QED BY <1>1, <1>2, KeepAtElements

(* What save makes of the workspace. *)
LEMMA SavedIsSeq ==
    ASSUME IsSeq(drafts), NEW pending, IsSeq(pending), NEW d
    PROVE  /\ IsSeq(Saved(d, pending))
           /\ ToSet(Saved(d, pending)) \subseteq ToSet(drafts) \cup ToSet(pending) \cup {d}
<1> DEFINE all    == PutAll(drafts, pending)
           at     == {i \in DOMAIN drafts : Key(drafts[i]) = Key(d)}
           next   == IF ~IsNew(d) /\ elementUnchanged(d.base, d.value)
                     THEN IF at = {} THEN all ELSE RemoveAt(all, Min(at))
                     ELSE Put(all, d)
           before == IF at = {} \/ drafts[Min(at)].deleted THEN {}
                     ELSE ToSet(drafts[Min(at)].value.nodes)
<1>1. /\ IsSeq(all) /\ Len(all) >= Len(drafts)
      /\ ToSet(all) \subseteq ToSet(drafts) \cup ToSet(pending)
  BY PutAllIsSeq
<1>2. Len(all) \in Nat /\ Len(drafts) \in Nat /\ DOMAIN drafts = 1..Len(drafts)
  BY <1>1, IsSeqProperties
<1>3. at # {} => Min(at) \in 1..Len(all)
  <2>1. at \in SUBSET Nat /\ at \subseteq 1..Len(drafts)
    BY <1>2
  <2> HIDE DEF at, all
  <2>2. at # {} => Min(at) \in at
    BY <2>1, MinIsLeast
  <2>3. at # {} => Min(at) \in 1..Len(drafts)
    BY <2>1, <2>2
  <2>4. \A x \in 1..Len(drafts) : x \in 1..Len(all)
    BY <1>1, <1>2
  <2> QED BY <2>3, <2>4
<1>4. Saved(d, pending) = IF d.value.type = "way" THEN Pruned(next, before) ELSE next
  BY DEF Saved
<1> HIDE DEF all, at, before
<1>5. IsSeq(next) /\ ToSet(next) \subseteq ToSet(all) \cup {d}
  <2>1. at # {} => /\ IsSeq(RemoveAt(all, Min(at)))
                   /\ ToSet(RemoveAt(all, Min(at))) \subseteq ToSet(all)
    BY <1>1, <1>3, RemoveAtIsSeq
  <2>2. IsSeq(Put(all, d)) /\ ToSet(Put(all, d)) \subseteq ToSet(all) \cup {d}
    BY <1>1, PutIsSeq
  <2> QED BY <1>1, <2>1, <2>2
<1> HIDE DEF next
<1>6. IsSeq(Pruned(next, before)) /\ ToSet(Pruned(next, before)) \subseteq ToSet(next)
  BY <1>5, PrunedIsSeq
<1> QED BY <1>1, <1>4, <1>5, <1>6

(* Patches keep the positions. *)
LEMMA PatchesAreSeqs ==
    ASSUME NEW ds, IsSeq(ds), NEW a, NEW b
    PROVE  IsSeq(patchRelationsForSplit(ds, a, b)) /\ IsSeq(patchRelationsForMerge(ds, a, b))
<1>1. Len(ds) \in Nat /\ DOMAIN ds = 1..Len(ds)
  BY IsSeqProperties
<1>2. patchRelationsForSplit(ds, a, b)
        = [i \in 1..Len(ds) |-> patchRelationsForSplit(ds, a, b)[i]]
  BY <1>1 DEF patchRelationsForSplit
<1>3. patchRelationsForMerge(ds, a, b)
        = [i \in 1..Len(ds) |-> patchRelationsForMerge(ds, a, b)[i]]
  BY <1>1 DEF patchRelationsForMerge
<1> QED BY <1>1, <1>2, <1>3, FunctionIsSeq

-----------------------------------------------------------------------------
(* Elements and drafts.                                                    *)

(* What element accepts has all fields, and those of its type. *)
LEMMA ElementShape ==
    ASSUME NEW e, NEW create, element(e, create)
    PROVE  /\ e = Element(e.type, e.id, e.version, e.tags, e.at, e.nodes, e.members)
           /\ e.type \in Types /\ e.id \in Int /\ e.nodes \in Seq(Refs)
           /\ e # NoElement
<1>1. e.id \in Int
  BY DEF element
<1>2. CASE e = Node(e.id, e.version, e.tags, e.at)
  <2>1. e.type = "node" /\ e.nodes = <<>>
    BY <1>2 DEF Node, Element
  <2>2. e = Element(e.type, e.id, e.version, e.tags, e.at, e.nodes, e.members)
    BY <1>2 DEF Node, Element
  <2> QED BY <1>1, <2>1, <2>2 DEF Types, Rank, NoElement, Element
<1>3. CASE e = Way(e.id, e.version, e.tags, e.nodes) /\ e.nodes \in Seq(Refs)
  <2>1. e.type = "way"
    BY <1>3 DEF Way, Element
  <2>2. e = Element(e.type, e.id, e.version, e.tags, e.at, e.nodes, e.members)
    BY <1>3 DEF Way, Element
  <2> QED BY <1>1, <1>3, <2>1, <2>2 DEF Types, Rank, NoElement, Element
<1>4. CASE e = Relation(e.id, e.version, e.tags, e.members)
  <2>1. e.type = "relation" /\ e.nodes = <<>>
    BY <1>4 DEF Relation, Element
  <2>2. e = Element(e.type, e.id, e.version, e.tags, e.at, e.nodes, e.members)
    BY <1>4 DEF Relation, Element
  <2> QED BY <1>1, <2>1, <2>2 DEF Types, Rank, NoElement, Element
<1> QED BY <1>2, <1>3, <1>4 DEF element

(* A draft that fits pairs elements that fit. *)
LEMMA DraftShape ==
    ASSUME NEW d, validateDraft(d)
    PROVE  /\ d.base = NoElement \/ element(d.base, FALSE)
           /\ d.deleted => d = Deletion(d.base) /\ element(d.base, FALSE)
           /\ ~d.deleted => d = Draft(d.base, d.value) /\ element(d.value, IsNew(d))
           /\ d # NoDraft
<1>1. CASE d.deleted
  <2>1. d = Deletion(d.base) /\ element(d.base, FALSE)
    BY <1>1 DEF validateDraft
  <2>2. ~NoDraft.deleted
    BY DEF NoDraft
  <2> QED BY <1>1, <2>1, <2>2
<1>2. CASE ~d.deleted
  <2>1. d = Draft(d.base, d.value) /\ element(d.value, IsNew(d))
    BY <1>2 DEF validateDraft
  <2>2. d.base = NoElement \/ element(d.base, FALSE)
    BY <1>2 DEF validateDraft, IsNew
  <2>3. d # NoDraft
    <3>1. d.value # NoElement
      BY <2>1, ElementShape
    <3> QED BY <3>1 DEF NoDraft
  <2> QED BY <1>2, <2>1, <2>2, <2>3
<1> QED BY <1>1, <1>2

-----------------------------------------------------------------------------
(* What is open.                                                           *)

(* An element of any type with its base and nodes that wait can be open. *)
LEMMA OpenedIsOpenable ==
    ASSUME NEW b, b = NoElement \/ element(b, FALSE),
           NEW v, v = Element(v.type, v.id, v.version, v.tags, v.at, v.nodes, v.members),
           v.type \in Types, v.nodes \in Seq(Refs),
           NEW p, IsSeq(p), \A d \in ToSet(p) : Waits(d), NEW c, NEW s
    PROVE  Openable(Opened(b, v, p, c, s)) /\ Opened(b, v, p, c, s) # Nothing
<1> DEFINE o == Opened(b, v, p, c, s)
<1>1. /\ o.base = b /\ o.value = v /\ o.pending = p /\ o.conf = c /\ o.shape = s
  BY DEF Opened
<1>2. o # Nothing
  <2>1. Nothing.value.type \notin Types
    BY DEF Nothing, Opened, NoElement, Element, Types, Rank
  <2> QED BY <1>1, <2>1
<1> HIDE DEF o
<1>3. o = Opened(o.base, o.value, o.pending, o.conf, o.shape)
  BY <1>1 DEF o
<1> QED BY <1>1, <1>2, <1>3 DEF Openable, o

(* A new element can be open. *)
LEMMA NewIsOpenable ==
    ASSUME NEW v,
           \/ \E id, version, tags, at : v = Node(id, version, tags, at)
           \/ \E id, version, tags : \E nodes \in Seq(Refs) : v = Way(id, version, tags, nodes)
           \/ \E id, version, tags, m : v = Relation(id, version, tags, m),
           NEW p, IsSeq(p), \A d \in ToSet(p) : Waits(d), NEW c, NEW s
    PROVE  Openable(Opened(NoElement, v, p, c, s)) /\ Opened(NoElement, v, p, c, s) # Nothing
<1>1. <<>> \in Seq(Refs)
  OBVIOUS
<1>2. /\ v = Element(v.type, v.id, v.version, v.tags, v.at, v.nodes, v.members)
      /\ v.type \in Types /\ v.nodes \in Seq(Refs)
  <2>1. CASE \E id, version, tags, at : v = Node(id, version, tags, at)
    BY <1>1, <2>1 DEF Node, Element, Types, Rank
  <2>2. CASE \E id, version, tags : \E nodes \in Seq(Refs) : v = Way(id, version, tags, nodes)
    BY <2>2 DEF Way, Element, Types, Rank
  <2>3. CASE \E id, version, tags, m : v = Relation(id, version, tags, m)
    BY <1>1, <2>3 DEF Relation, Element, Types, Rank
  <2> QED BY <2>1, <2>2, <2>3
<1> QED BY <1>2, OpenedIsOpenable

(* Nothing can be open. *)
LEMMA NothingIsOpenable == Openable(Nothing)
<1>1. <<>> \in Seq(Refs)
  OBVIOUS
<1>2. /\ Nothing.base = NoElement /\ Nothing.value = NoElement /\ Nothing.pending = <<>>
      /\ Nothing = Opened(Nothing.base, Nothing.value, Nothing.pending, Nothing.conf, Nothing.shape)
  BY DEF Nothing, Opened
<1>3. /\ NoElement.nodes = <<>>
      /\ NoElement = Element(NoElement.type, NoElement.id, NoElement.version, NoElement.tags,
                             NoElement.at, NoElement.nodes, NoElement.members)
  BY DEF NoElement, Element
<1> QED BY <1>1, <1>2, <1>3, EmptyIsSeq DEF Openable

(* So can a draft that is not a deletion. *)
LEMMA DraftIsOpenable ==
    ASSUME NEW d, validateDraft(d), ~d.deleted
    PROVE  Openable(FromDraft(d)) /\ FromDraft(d) # Nothing
<1>1. (d.base = NoElement \/ element(d.base, FALSE)) /\ element(d.value, IsNew(d))
  BY DraftShape
<1>2. /\ d.value = Element(d.value.type, d.value.id, d.value.version, d.value.tags,
                           d.value.at, d.value.nodes, d.value.members)
      /\ d.value.type \in Types /\ d.value.nodes \in Seq(Refs)
  BY <1>1, ElementShape
<1> QED BY <1>1, <1>2, OpenedIsOpenable, EmptyIsSeq DEF FromDraft

(* And what OpenStreetMap sends. *)
LEMMA FetchedIsElement ==
    ASSUME AroundInv, NEW key \in OsmKeys, live[key] > 0
    PROVE  /\ element(Fetched(key), FALSE)
           /\ OsmAt(key) \in Osm /\ Key(Draft(Fetched(key), Fetched(key))) = key
           /\ Fetched(key).type = key[1] /\ Fetched(key).id = key[2]
<1> DEFINE o == OsmAt(key)
           e == Fetched(key)
<1>1. o \in Osm /\ <<o.type, o.id>> = key
  BY DEF OsmKeys, OsmAt
<1>2. element(o, FALSE)
  BY <1>1, EditorAssumption
<1>3. e = [o EXCEPT !.version = live[key]]
  BY DEF Fetched
<1>4. live[key] \in Nat \ {0}
  BY EditorAssumption DEF AroundInv, WorldInv
<1> HIDE DEF o, e
<1>5. o = Element(o.type, o.id, o.version, o.tags, o.at, o.nodes, o.members)
  BY <1>2, ElementShape
<1>6. /\ e = Element(o.type, o.id, live[key], o.tags, o.at, o.nodes, o.members)
      /\ e.type = o.type /\ e.id = o.id /\ e.version = live[key] /\ e.tags = o.tags
      /\ e.at = o.at /\ e.nodes = o.nodes /\ e.members = o.members
  <2>1. e = [Element(o.type, o.id, o.version, o.tags, o.at, o.nodes, o.members)
                EXCEPT !.version = live[key]]
    BY <1>3, <1>5
  <2>2. e = Element(o.type, o.id, live[key], o.tags, o.at, o.nodes, o.members)
    BY <2>1 DEF Element
  <2> QED BY <2>2 DEF Element
<1>7. {e.id, e.version} \subseteq Nat \ {0}
  BY <1>2, <1>4, <1>6 DEF element
<1>8. CASE o = Node(o.id, o.version, o.tags, o.at) /\ o.at # Nowhere
  <2>1. e = Node(e.id, e.version, e.tags, e.at)
    BY <1>6, <1>8 DEF Node, Element
  <2> QED BY <1>1, <1>6, <1>7, <1>8, <2>1 DEF element, o, e, Key, Subject, Draft
<1>9. CASE /\ o = Way(o.id, o.version, o.tags, o.nodes)
           /\ o.nodes \in Seq(Refs) /\ Len(o.nodes) \in 2..MaxNodes
  <2>1. e = Way(e.id, e.version, e.tags, e.nodes)
    BY <1>6, <1>9 DEF Way, Element
  <2> QED BY <1>1, <1>6, <1>7, <1>9, <2>1 DEF element, o, e, Key, Subject, Draft
<1>10. CASE /\ o = Relation(o.id, o.version, o.tags, o.members)
            /\ o.members \in Seq(Types \X Refs) /\ Len(o.members) <= MaxMembers
  <2>1. e = Relation(e.id, e.version, e.tags, e.members)
    BY <1>6, <1>10 DEF Relation, Element
  <2> QED BY <1>1, <1>6, <1>7, <1>10, <2>1 DEF element, o, e, Key, Subject, Draft
<1> QED BY <1>2, <1>8, <1>9, <1>10 DEF element

(* What load fetches can be open. *)
LEMMA FetchedIsOpenable ==
    ASSUME AroundInv, NEW key \in OsmKeys, live[key] > 0
    PROVE  /\ Openable(Opened(Fetched(key), Fetched(key), <<>>, 0, NoShape))
           /\ Opened(Fetched(key), Fetched(key), <<>>, 0, NoShape) # Nothing
<1> DEFINE e == Fetched(key)
<1>1. element(e, FALSE)
  BY FetchedIsElement
<1> HIDE DEF e
<1>2. /\ e = Element(e.type, e.id, e.version, e.tags, e.at, e.nodes, e.members)
      /\ e.type \in Types /\ e.nodes \in Seq(Refs)
  BY <1>1, ElementShape
<1>3. \A d \in ToSet(<<>>) : Waits(d)
  BY EmptyIsSeq
<1> QED BY <1>1, <1>2, <1>3, OpenedIsOpenable, EmptyIsSeq DEF e

-----------------------------------------------------------------------------
(* Placeholders and nodes.                                                 *)

(* Among finitely many numbers and 0 there is a least one. *)
LEMMA LeastAmong ==
    \A n \in Nat : \A f :
        (\A i \in 1..n : f[i] \in Int) =>
            \E m \in Int : /\ m <= 0 /\ \A i \in 1..n : m <= f[i]
                           /\ m = 0 \/ \E i \in 1..n : m = f[i]
<1> DEFINE Least(n, f, m) == /\ m <= 0 /\ \A i \in 1..n : m <= f[i]
                             /\ m = 0 \/ \E i \in 1..n : m = f[i]
           T == {n \in Nat : \E f : (\A i \in 1..n : f[i] \in Int)
                                    /\ ~\E m \in Int : Least(n, f, m)}
<1>1. SUFFICES ASSUME T # {} PROVE FALSE
  OBVIOUS
<1>2. PICK n \in T : \A k \in T : n <= k
  <2>1. T \in SUBSET Nat
    OBVIOUS
  <2> HIDE DEF T
  <2> QED BY <1>1, <2>1, LeastNumber
<1>3. PICK f : (\A i \in 1..n : f[i] \in Int) /\ ~\E m \in Int : Least(n, f, m)
  BY <1>2
<1>4. n \in Nat
  BY <1>2
<1>5. CASE n = 0
  <2>1. Least(0, f, 0)
    OBVIOUS
  <2> QED BY <1>3, <1>5, <2>1
<1>6. CASE n # 0
  <2>1. n - 1 \in Nat /\ ~(n <= n - 1)
    BY <1>4, <1>6
  <2>2. n - 1 \notin T
    <3> HIDE DEF T
    <3> QED BY <1>2, <2>1
  <2>3. \A i \in 1..(n - 1) : f[i] \in Int
    BY <1>3, <1>4
  <2>4. PICK m \in Int : Least(n - 1, f, m)
    <3> HIDE DEF Least
    <3> QED BY <2>1, <2>2, <2>3
  <2>5. \A i \in 1..n : i = n \/ i \in 1..(n - 1)
    BY <1>4
  <2>6. n \in 1..n /\ f[n] \in Int /\ \A i \in 1..(n - 1) : i \in 1..n
    BY <1>3, <1>4, <1>6
  <2>7. CASE m <= f[n]
    <3>1. Least(n, f, m)
      BY <2>4, <2>5, <2>6, <2>7
    <3> QED BY <1>3, <3>1
  <2>8. CASE ~(m <= f[n])
    <3>1. f[n] <= 0 /\ \A i \in 1..(n - 1) : f[n] <= f[i]
      BY <1>3, <2>4, <2>6, <2>8
    <3>2. Least(n, f, f[n])
      BY <2>5, <2>6, <3>1
    <3> QED BY <1>3, <2>6, <3>2
  <2> QED BY <2>7, <2>8
<1> QED BY <1>5, <1>6

(* The next placeholder is a negative number, less than those in use. *)
LEMMA TempIdIsNegative ==
    ASSUME NEW ds, IsSeq(ds), \A d \in ToSet(ds) : validateDraft(d), NEW type
    PROVE  /\ nextTempId(ds, type) \in Int /\ nextTempId(ds, type) < 0
           /\ \A i \in Alive(ds) : ds[i].value.type = type =>
                 ds[i].value.id \in Int /\ nextTempId(ds, type) < ds[i].value.id
<1> DEFINE K == {j \in Alive(ds) : ds[j].value.type = type}
           S == {0} \cup {ds[i].value.id : i \in K}
           n == Len(ds)
           f == [i \in 1..n |-> IF i \in K THEN ds[i].value.id ELSE 0]
<1>1. n \in Nat /\ DOMAIN ds = 1..n
  BY IsSeqProperties
<1>2. \A i \in K : i \in 1..n /\ ds[i].value.id \in Int
  <2>1. SUFFICES ASSUME NEW i \in Alive(ds) PROVE i \in 1..n /\ ds[i].value.id \in Int
    OBVIOUS
  <2>2. i \in DOMAIN ds /\ ~ds[i].deleted /\ ds[i] \in ToSet(ds)
    BY DEF Alive, ToSet
  <2>3. element(ds[i].value, IsNew(ds[i]))
    BY <2>2, DraftShape
  <2> QED BY <1>1, <2>2, <2>3, ElementShape
<1>3. \A i \in 1..n : f[i] \in Int
  <2> HIDE DEF K
  <2> QED BY <1>2
<1>4. PICK m \in Int : /\ m <= 0 /\ \A i \in 1..n : m <= f[i]
                       /\ m = 0 \/ \E i \in 1..n : m = f[i]
  <2> HIDE DEF f
  <2> QED BY <1>1, <1>3, LeastAmong
<1> HIDE DEF K
<1>5. m \in S /\ \A x \in S : m <= x
  BY <1>2, <1>4
<1>6. \A x \in S : x \in Int
  BY <1>2
<1>7. Min(S) \in S /\ \A x \in S : Min(S) <= x
  <2> HIDE DEF S
  <2> QED BY <1>5 DEF Min
<1>8. Min(S) \in Int /\ Min(S) <= 0
  BY <1>6, <1>7
<1>9. nextTempId(ds, type) = Min(S) - 1
  BY DEF nextTempId, K
<1>10. \A i \in K : ds[i].value.id \in S
  OBVIOUS
<1> HIDE DEF S
<1> QED BY <1>2, <1>7, <1>8, <1>9, <1>10 DEF K

(* A new node with a placeholder and a position can wait to be saved. *)
LEMMA NewNodeWaits ==
    ASSUME NEW id \in Int, id < 0, NEW tags, NEW at, at # Nowhere
    PROVE  Waits(Draft(NoElement, Node(id, 0, tags, at)))
<1> DEFINE v == Node(id, 0, tags, at)
           d == Draft(NoElement, v)
<1>1. v = Node(v.id, v.version, v.tags, v.at) /\ v.id = id /\ v.at = at /\ v.type = "node"
  BY DEF Node, Element
<1>2. d.base = NoElement /\ d.value = v /\ ~d.deleted /\ d = Draft(d.base, d.value)
  BY DEF Draft
<1> HIDE DEF v, d
<1>3. element(v, TRUE)
  BY <1>1 DEF element
<1>4. IsNew(d) = TRUE
  BY <1>2 DEF IsNew
<1> QED BY <1>1, <1>2, <1>3, <1>4 DEF Waits, validateDraft, v, d

(* A draft with another value. *)
LEMMA DraftValue ==
    ASSUME NEW b, NEW x, NEW y, NEW r, r = Draft(b, x), NEW s, s = [r EXCEPT !.value = y]
    PROVE  s = Draft(b, y)
<1>1. DOMAIN r = {"base", "value", "deleted"} /\ r.base = b /\ r.value = x /\ r.deleted = FALSE
  BY DEF Draft
<1>2. DOMAIN s = {"base", "value", "deleted"} /\ s.base = b /\ s.value = y /\ s.deleted = FALSE
  BY <1>1
<1>3. s = [k \in {"base", "value", "deleted"} |-> s[k]]
  BY <1>1, <1>2
<1> QED BY <1>2, <1>3 DEF Draft

(* A draft of a node that is moved waits as well. *)
LEMMA MovedWaits ==
    ASSUME NEW d, Waits(d), NEW at, at # Nowhere
    PROVE  LET m == [d EXCEPT !.value.at = at]
           IN  Waits(m) /\ Key(m) = Key(d) /\ m.base = d.base /\ m.value.tags = d.value.tags
<1> DEFINE v == d.value
           w == [v EXCEPT !.at = at]
           m == [d EXCEPT !.value.at = at]
<1>1. d = Draft(d.base, v) /\ element(v, IsNew(d)) /\ v.type = "node" /\ ~d.deleted
  BY DraftShape DEF Waits
<1>2. m = Draft(d.base, w)
  <2>1. m = [d EXCEPT !.value = w]
    OBVIOUS
  <2> HIDE DEF v, w, m
  <2> QED BY <1>1, <2>1, DraftValue
<1>3. v = Node(v.id, v.version, v.tags, v.at)
  <2>1. \/ v = Node(v.id, v.version, v.tags, v.at)
        \/ v.type = "way" \/ v.type = "relation"
    <3>1. \/ v = Node(v.id, v.version, v.tags, v.at)
          \/ v = Way(v.id, v.version, v.tags, v.nodes)
          \/ v = Relation(v.id, v.version, v.tags, v.members)
      BY <1>1 DEF element
    <3> HIDE DEF v
    <3> QED BY <3>1 DEF Way, Relation, Element
  <2> HIDE DEF v
  <2> QED BY <1>1, <2>1
<1> HIDE DEF v
<1>4. w = Node(v.id, v.version, v.tags, at)
  <2>1. w = [Node(v.id, v.version, v.tags, v.at) EXCEPT !.at = at]
    BY <1>3
  <2> QED BY <2>1 DEF Node, Element
<1> HIDE DEF w
<1>5. /\ w.id = v.id /\ w.version = v.version /\ w.tags = v.tags /\ w.at = at
      /\ w.type = "node" /\ w = Node(w.id, w.version, w.tags, w.at)
  BY <1>4 DEF Node, Element
<1>6. m.base = d.base /\ m.value = w /\ ~m.deleted /\ m = Draft(m.base, m.value)
  BY <1>2 DEF Draft
<1> HIDE DEF m
<1>7. IsNew(m) = IsNew(d)
  BY <1>6 DEF IsNew
<1>8. element(w, IsNew(m))
  BY <1>1, <1>5, <1>7 DEF element
<1>9. validateDraft(d) /\ v = d.value
  BY DEF Waits, v
<1>10. IsNew(m) \/ (/\ element(m.base, FALSE)
                    /\ \A f \in {"type", "id", "version"} : m.base[f] = w[f])
  <2>1. CASE IsNew(d)
    BY <1>7, <2>1
  <2>2. CASE ~IsNew(d)
    <3>1. element(d.base, FALSE) /\ \A f \in {"type", "id", "version"} : d.base[f] = v[f]
      BY <1>1, <1>9, <2>2 DEF validateDraft
    <3>2. d.base["type"] = v["type"] /\ d.base["id"] = v["id"] /\ d.base["version"] = v["version"]
      BY <3>1
    <3> QED BY <1>1, <1>5, <1>6, <3>1, <3>2
  <2> QED BY <2>1, <2>2
<1>11. validateDraft(m)
  BY <1>5, <1>6, <1>8, <1>10 DEF validateDraft
<1>12. Key(m) = Key(d)
  BY <1>1, <1>5, <1>6, <1>9 DEF Key, Subject
<1> QED BY <1>5, <1>6, <1>9, <1>11, <1>12 DEF Waits, m

-----------------------------------------------------------------------------
(* The work on the geometry.                                               *)

(* The beginning and the last element of a sequence that has one. *)
LEMMA FrontIsSeq ==
    ASSUME NEW s, IsSeq(s), s # <<>>
    PROVE  /\ Len(s) \in Nat /\ Len(s) >= 1 /\ Last(s) = s[Len(s)] /\ Last(s) \in ToSet(s)
           /\ IsSeq(Front(s)) /\ ToSet(Front(s)) \subseteq ToSet(s)
           /\ Len(Front(s)) = Len(s) - 1
           /\ \A i \in 1..(Len(s) - 1) : Front(s)[i] = s[i]
<1>1. Len(s) \in Nat /\ Len(s) >= 1
  <2>1. s \in Seq(ToSet(s))
    BY DEF IsSeq
  <2> HIDE DEF IsSeq
  <2> QED BY <2>1, EmptySeq, LenProperties
<1>2. Last(s) = s[Len(s)] /\ Last(s) \in ToSet(s)
  BY <1>1, IsSeqProperties DEF Last
<1>3. /\ IsSeq(SubSeq(s, 1, Len(s) - 1)) /\ ToSet(SubSeq(s, 1, Len(s) - 1)) \subseteq ToSet(s)
      /\ Len(SubSeq(s, 1, Len(s) - 1)) = IF 1 <= Len(s) - 1 THEN Len(s) - 1 - 1 + 1 ELSE 0
      /\ \A i \in 1..Len(SubSeq(s, 1, Len(s) - 1)) :
             SubSeq(s, 1, Len(s) - 1)[i] = s[1 + i - 1]
  <2>1. 1 \in 1..(Len(s) + 1) /\ Len(s) - 1 \in 0..Len(s)
    BY <1>1
  <2> QED BY <2>1, SubSeqIsSeq
<1>4. Len(SubSeq(s, 1, Len(s) - 1)) = Len(s) - 1
  BY <1>1, <1>3
<1>5. \A i \in 1..(Len(s) - 1) : SubSeq(s, 1, Len(s) - 1)[i] = s[i]
  BY <1>1, <1>3, <1>4
<1> QED BY <1>1, <1>2, <1>3, <1>4, <1>5 DEF Front

(* A sequence of some elements is one over every set that has them. *)
LEMMA IsSeqOver ==
    ASSUME NEW S, NEW s, IsSeq(s), ToSet(s) \subseteq S
    PROVE  s \in Seq(S)
<1>1. s \in Seq(ToSet(s))
  BY DEF IsSeq
<1> HIDE DEF IsSeq
<1> DEFINE T == ToSet(s)
<1>2. s \in Seq(T) /\ T \subseteq S
  BY <1>1
<1> HIDE DEF T
<1> QED BY <1>2

(* A vertex more is a reference more. *)
LEMMA InsertIsSeq ==
    ASSUME NEW S, NEW s \in Seq(S), NEW i \in 1..(Len(s) - 1), NEW e \in S
    PROVE  InsertNode(s, i, e) \in Seq(S)
<1> DEFINE a == SubSeq(s, 1, i)
           b == SubSeq(s, i + 1, Len(s))
<1>1. IsSeq(s) /\ ToSet(s) \subseteq S /\ Len(s) \in Nat
  BY SequenceIsSeq
<1>2. /\ 1 \in 1..(Len(s) + 1) /\ i \in 0..Len(s)
      /\ i + 1 \in 1..(Len(s) + 1) /\ Len(s) \in 0..Len(s)
  BY <1>1
<1>3. IsSeq(a) /\ ToSet(a) \subseteq S /\ IsSeq(b) /\ ToSet(b) \subseteq S
  BY <1>1, <1>2, SubSeqIsSeq
<1>4. i + 1 - 1 = i
  BY <1>1
<1>5. InsertNode(s, i, e) = a \o <<e>> \o b
  BY <1>4 DEF InsertNode, InsertAt
<1> HIDE DEF a, b
<1>6. a \in Seq(S) /\ b \in Seq(S)
  BY <1>3, IsSeqOver
<1>7. a \o <<e>> \o b \in Seq(S)
  BY <1>6
<1> QED BY <1>5, <1>7

(* A vertex less is no other reference. *)
LEMMA WithoutIsSeq ==
    ASSUME NEW S, NEW s \in Seq(S), NEW i, CanRemove(s, i)
    PROVE  WithoutNode(s, i) \in Seq(S)
<1> DEFINE f == Front(s)
           ring == RemoveAt(f, i)
<1>1. IsSeq(s) /\ ToSet(s) \subseteq S /\ Len(s) \in Nat /\ DOMAIN s = 1..Len(s)
  BY SequenceIsSeq, IsSeqProperties
<1>2. i \in 1..Len(s) /\ (IsClosed(s) => i < Len(s) /\ Len(s) > 3)
  BY <1>1 DEF CanRemove, IsClosed
<1>3. CASE IsClosed(s)
  <2>1. s # <<>>
    BY <1>2, <1>3
  <2>2. IsSeq(f) /\ ToSet(f) \subseteq ToSet(s) /\ Len(f) = Len(s) - 1
    BY <1>1, <2>1, FrontIsSeq
  <2> HIDE DEF f
  <2>3. i \in 1..Len(f) /\ Len(f) - 1 >= 1
    BY <1>1, <1>2, <1>3, <2>2
  <2>4. IsSeq(ring) /\ ToSet(ring) \subseteq ToSet(f) /\ Len(ring) = Len(f) - 1
    BY <2>2, <2>3, RemoveAtIsSeq
  <2> HIDE DEF ring
  <2>5. ring \in Seq(S)
    BY <1>1, <2>2, <2>4, IsSeqOver
  <2>6. ring[1] \in S
    BY <1>1, <2>2, <2>3, <2>4, <2>5
  <2>7. Append(ring, ring[1]) \in Seq(S)
    BY <2>5, <2>6
  <2> QED BY <1>3, <2>7 DEF WithoutNode, ring, f
<1>4. CASE ~IsClosed(s)
  <2>1. IsSeq(RemoveAt(s, i)) /\ ToSet(RemoveAt(s, i)) \subseteq ToSet(s)
    BY <1>1, <1>2, RemoveAtIsSeq
  <2>2. RemoveAt(s, i) \in Seq(S)
    BY <1>1, <2>1, IsSeqOver
  <2> QED BY <1>4, <2>2 DEF WithoutNode
<1> QED BY <1>3, <1>4

(* What is open with another value and other nodes that wait. *)
LEMMA OpenedValue ==
    ASSUME NEW r, r = Opened(r.base, r.value, r.pending, r.conf, r.shape),
           NEW w, NEW q
    PROVE  /\ [r EXCEPT !.value = w, !.pending = q] = Opened(r.base, w, q, r.conf, r.shape)
           /\ [r EXCEPT !.value = w] = Opened(r.base, w, r.pending, r.conf, r.shape)
           /\ [r EXCEPT !.pending = q] = Opened(r.base, r.value, q, r.conf, r.shape)
<1> DEFINE D == {"base", "value", "deleted", "pending", "conf", "shape"}
<1>1. DOMAIN r = D /\ r = [k \in D |-> r[k]] /\ r.deleted = FALSE
  BY DEF Opened
<1>2. ASSUME NEW s, s = [k \in D |-> s[k]], s.deleted = FALSE
      PROVE  s = Opened(s.base, s.value, s.pending, s.conf, s.shape)
  BY <1>2 DEF Opened
<1> HIDE DEF D
<1>3. [r EXCEPT !.value = w, !.pending = q] = Opened(r.base, w, q, r.conf, r.shape)
  <2> DEFINE s == [r EXCEPT !.value = w, !.pending = q]
  <2>1. /\ s = [k \in D |-> s[k]] /\ s.deleted = FALSE /\ s.value = w
        /\ s.pending = q /\ s.base = r.base /\ s.conf = r.conf /\ s.shape = r.shape
    BY <1>1 DEF D
  <2>2. s = Opened(s.base, s.value, s.pending, s.conf, s.shape)
    <3> HIDE DEF s
    <3> QED BY <1>2, <2>1
  <2> QED BY <2>1, <2>2
<1>4. [r EXCEPT !.value = w] = Opened(r.base, w, r.pending, r.conf, r.shape)
  <2> DEFINE s == [r EXCEPT !.value = w]
  <2>1. /\ s = [k \in D |-> s[k]] /\ s.deleted = FALSE /\ s.value = w
        /\ s.pending = r.pending /\ s.base = r.base /\ s.conf = r.conf /\ s.shape = r.shape
    BY <1>1 DEF D
  <2>2. s = Opened(s.base, s.value, s.pending, s.conf, s.shape)
    <3> HIDE DEF s
    <3> QED BY <1>2, <2>1
  <2> QED BY <2>1, <2>2
<1>5. [r EXCEPT !.pending = q] = Opened(r.base, r.value, q, r.conf, r.shape)
  <2> DEFINE s == [r EXCEPT !.pending = q]
  <2>1. /\ s = [k \in D |-> s[k]] /\ s.deleted = FALSE /\ s.value = r.value
        /\ s.pending = q /\ s.base = r.base /\ s.conf = r.conf /\ s.shape = r.shape
    BY <1>1 DEF D
  <2>2. s = Opened(s.base, s.value, s.pending, s.conf, s.shape)
    <3> HIDE DEF s
    <3> QED BY <1>2, <2>1
  <2> QED BY <2>1, <2>2
<1> QED BY <1>3, <1>4, <1>5

(* A value is made of its seven fields. *)
Whole(w) ==
    w = Element(w.type, w.id, w.version, w.tags, w.at, w.nodes, w.members)

(* What is open stays so with another value, and with other drafts pending. *)
LEMMA StaysOpenable ==
    ASSUME NEW c, Openable(c),
           NEW w, Whole(w),
           w.type \in Types, w.nodes \in Seq(Refs),
           NEW q, IsSeq(q), \A d \in ToSet(q) : Waits(d),
           NEW e, e = Opened(c.base, w, q, c.conf, c.shape)
    PROVE  Openable(e) /\ e # Nothing
<1> DEFINE b == c.base
           x == c.conf
           y == c.shape
<1>1. (b = NoElement \/ element(b, FALSE)) /\ e = Opened(b, w, q, x, y)
  BY DEF Openable
<1> HIDE DEF b, x, y
<1>2. Openable(Opened(b, w, q, x, y)) /\ Opened(b, w, q, x, y) # Nothing
  BY <1>1, OpenedIsOpenable DEF Whole
<1> QED BY <1>1, <1>2

(* Other nodes of a value. *)
LEMMA NodesOfValue ==
    ASSUME NEW v, Whole(v), NEW n
    PROVE  /\ Whole([v EXCEPT !.nodes = n])
           /\ [v EXCEPT !.nodes = n].type = v.type
           /\ [v EXCEPT !.nodes = n].nodes = n
<1> DEFINE w == [v EXCEPT !.nodes = n]
<1>1. w = Element(v.type, v.id, v.version, v.tags, v.at, n, v.members)
  BY DEF Element, Whole
<1> HIDE DEF w
<1>2. Whole(w) /\ w.type = v.type /\ w.nodes = n
  BY <1>1 DEF Element, Whole
<1> QED BY <1>2 DEF w

(* Another position of a value. *)
LEMMA PlaceOfValue ==
    ASSUME NEW v, Whole(v), NEW at
    PROVE  /\ Whole([v EXCEPT !.at = at])
           /\ [v EXCEPT !.at = at].type = v.type
           /\ [v EXCEPT !.at = at].nodes = v.nodes
<1> DEFINE w == [v EXCEPT !.at = at]
<1>1. w = Element(v.type, v.id, v.version, v.tags, at, v.nodes, v.members)
  BY DEF Element, Whole
<1> HIDE DEF w
<1>2. Whole(w) /\ w.type = v.type /\ w.nodes = v.nodes
  BY <1>1 DEF Element, Whole
<1> QED BY <1>2 DEF w

(* A node put into the open way, or taken from it, leaves it open. *)
LEMMA NodesAreOpenable ==
    ASSUME NEW c, Openable(c), c.value.type \in Types, NEW n \in Seq(Refs),
           NEW p, IsSeq(p), \A d \in ToSet(p) : Waits(d),
           NEW e, e = [c EXCEPT !.value.nodes = n, !.pending = p]
    PROVE  Openable(e) /\ e # Nothing
<1> DEFINE v == c.value
           w == [v EXCEPT !.nodes = n]
<1>1. c = Opened(c.base, c.value, c.pending, c.conf, c.shape)
  BY DEF Openable
<1>2. Whole(v)
  BY DEF Openable, Whole
<1>3. e = [c EXCEPT !.value = w, !.pending = p] /\ v.type \in Types
  OBVIOUS
<1> HIDE DEF v
<1>4. Whole(w) /\ w.type = v.type /\ w.nodes = n
  BY <1>2, NodesOfValue
<1> HIDE DEF w
<1>5. e = Opened(c.base, w, p, c.conf, c.shape)
  BY <1>1, <1>3, OpenedValue
<1> QED BY <1>3, <1>4, <1>5, StaysOpenable

(* An open node that is moved stays open. *)
LEMMA PlaceIsOpenable ==
    ASSUME NEW c, Openable(c), c.value.type \in Types,
           NEW at, NEW e, e = [c EXCEPT !.value.at = at]
    PROVE  Openable(e) /\ e # Nothing
<1> DEFINE v == c.value
           w == [v EXCEPT !.at = at]
<1>1. c = Opened(c.base, c.value, c.pending, c.conf, c.shape)
  BY DEF Openable
<1>2. Whole(v)
  BY DEF Openable, Whole
<1>3. v.nodes \in Seq(Refs) /\ IsSeq(c.pending) /\ \A d \in ToSet(c.pending) : Waits(d)
  BY DEF Openable
<1>4. e = [c EXCEPT !.value = w] /\ v.type \in Types
  OBVIOUS
<1> HIDE DEF v
<1>5. Whole(w) /\ w.type = v.type /\ w.nodes = v.nodes
  BY <1>2, PlaceOfValue
<1> HIDE DEF w
<1>6. e = Opened(c.base, w, c.pending, c.conf, c.shape)
  BY <1>1, <1>4, OpenedValue
<1> QED BY <1>3, <1>4, <1>5, <1>6, StaysOpenable

(* What is open stays so when other drafts wait with it. *)
LEMMA PendingIsOpenable ==
    ASSUME NEW c, Openable(c), c.value.type \in Types,
           NEW p, IsSeq(p), \A d \in ToSet(p) : Waits(d),
           NEW e, e = [c EXCEPT !.pending = p]
    PROVE  Openable(e) /\ e # Nothing
<1> DEFINE v == c.value
<1>1. c = Opened(c.base, c.value, c.pending, c.conf, c.shape)
  BY DEF Openable
<1>2. Whole(v) /\ v.type \in Types /\ v.nodes \in Seq(Refs)
  BY DEF Openable, Whole
<1>3. e = Opened(c.base, v, p, c.conf, c.shape)
  BY <1>1, OpenedValue
<1> HIDE DEF v
<1> QED BY <1>2, <1>3, StaysOpenable

-----------------------------------------------------------------------------
(* Workspaces.                                                             *)

(* Nothing refers to a deletion, so that it can be taken back without a
   check. *)
LEMMA UndeleteIsSound ==
    ASSUME NEW ds, Sound(ds), NEW i \in DOMAIN ds, ds[i].deleted
    PROVE  Sound(RemoveAt(ds, i))
<1> DEFINE r == RemoveAt(ds, i)
           n == Len(ds)
           at(s, key) == {j \in DOMAIN s : Key(s[j]) = key}
<1>1. n \in Nat /\ DOMAIN ds = 1..n /\ i \in 1..n /\ n # 0
  BY IsSeqProperties DEF Sound
<1>2. /\ IsSeq(r) /\ Len(r) = n - 1
      /\ \A j \in 1..(n - 1) : r[j] = IF j < i THEN ds[j] ELSE ds[j + 1]
      /\ \A d \in ToSet(r) : validateDraft(d)
  BY <1>1, RemoveAtIsSeq DEF Sound
<1>3. DOMAIN r = 1..(n - 1)
  BY <1>2, IsSeqProperties
<1> DEFINE old(j) == IF j < i THEN j ELSE j + 1
           new(j) == IF j < i THEN j ELSE j - 1
<1>4. /\ \A j \in DOMAIN r : old(j) \in DOMAIN ds /\ old(j) # i /\ r[j] = ds[old(j)]
      /\ \A j \in DOMAIN ds : j # i => new(j) \in DOMAIN r /\ r[new(j)] = ds[j]
                                       /\ old(new(j)) = j
  BY <1>1, <1>2, <1>3
<1> HIDE DEF r
<1>5. i \notin Alive(ds) /\ ~UsedIn(ds, Key(ds[i]))
  BY DEF Sound, checkReferences, Alive
<1>6. \A key : UsedIn(r, key) <=> UsedIn(ds, key)
  BY <1>4, <1>5 DEF UsedIn, Alive
<1>7. ASSUME NEW key, key # Key(ds[i])
      PROVE  Exists(ds, key) => Exists(r, key)
  <2>1. CASE at(r, key) = {}
    <3>1. at(ds, key) = {}
      BY <1>4, <1>7, <2>1
    <3> QED BY <2>1, <3>1 DEF Exists
  <2>2. CASE at(r, key) # {}
    <3>1. at(ds, key) # {} /\ at(ds, key) \in SUBSET (1..n)
      BY <1>1, <1>4, <2>2
    <3> DEFINE m == Max(at(ds, key))
    <3>2. m \in at(ds, key) /\ \A j \in at(ds, key) : j <= m
      <4> HIDE DEF at
      <4> QED BY <1>1, <3>1, MaxExists
    <3>3. m \in 1..n /\ m # i /\ new(m) \in at(r, key) /\ at(r, key) \in SUBSET Nat
      BY <1>1, <1>3, <1>4, <1>7, <3>2
    <3>4. ASSUME NEW j \in at(r, key) PROVE j <= new(m)
      <4>1. old(j) \in at(ds, key) /\ j \in 1..(n - 1)
        BY <1>3, <1>4
      <4>2. old(j) <= m
        BY <3>2, <4>1
      <4> QED BY <1>1, <3>3, <4>1, <4>2
    <3>5. Max(at(r, key)) = new(m)
      <4> HIDE DEF at, new, m
      <4> QED BY <3>3, <3>4, MaxIs
    <3>6. r[new(m)] = ds[m]
      BY <1>1, <1>4, <3>3
    <3> QED BY <2>2, <3>1, <3>5, <3>6 DEF Exists
  <2> QED BY <2>1, <2>2
<1>8. ASSUME NEW j \in Alive(r), NEW key \in References(r[j].value)
      PROVE  Exists(r, key)
  <2>1. old(j) \in Alive(ds) /\ key \in References(ds[old(j)].value)
    BY <1>4, <1>8 DEF Alive
  <2>2. key # Key(ds[i])
    BY <1>5, <2>1 DEF UsedIn
  <2>3. Exists(ds, key)
    BY <2>1 DEF Sound, checkReferences
  <2> QED BY <1>7, <2>2, <2>3
<1>9. \A j \in DOMAIN r : r[j].deleted => ~UsedIn(r, Key(r[j]))
  BY <1>4, <1>6 DEF Sound, checkReferences
<1>10. \A j \in Alive(r) :
          (r[j].value.type = "node" /\ IsNew(r[j]) /\ r[j].value.tags = {})
          => UsedIn(r, Key(r[j]))
  BY <1>4, <1>6 DEF Sound, checkReferences, Alive
<1>11. checkReferences(r)
  BY <1>8, <1>9, <1>10 DEF checkReferences
<1> QED BY <1>2, <1>11 DEF Sound, r

-----------------------------------------------------------------------------
(* The steps.                                                              *)

(* What a step may do to the history and to the points of a drawing. *)
HistoryMoves ==
    \/ UNCHANGED history
    \/ \E next : persist(next) /\ Sound(next)
    \/ Undo \/ Redo \/ Reload
PenMoves ==
    \/ points' = points \/ points' = <<>>
    \/ \E p : IsPoint(p) /\ points' = Append(points, p)
    \/ points # <<>> /\ points' = Front(points)
Moves == HistoryMoves /\ PenMoves /\ FormInv'

(* Handlers that leave the form as it is or close it. *)
LEMMA SameForm ==
    ASSUME FormInv, UNCHANGED form \/ closeCurrent
    PROVE  FormInv'
<1>1. CASE UNCHANGED form
  <2>1. current' = current /\ dirty' = dirty /\ members' = members
    BY <1>1 DEF form
  <2> QED BY <2>1 DEF FormInv, Openable, Waits, IsSeq, ToSet
<1>2. CASE closeCurrent
  <2>1. current' = Nothing /\ dirty' = FALSE /\ members' = <<>>
    BY <1>2 DEF closeCurrent
  <2>2. Openable(current')
    BY <2>1, NothingIsOpenable
  <2> QED BY <2>1, <2>2 DEF FormInv
<1> QED BY <1>1, <1>2

(* Handlers that change the form of an open object. *)
LEMMA StillOpen ==
    ASSUME Openable(current'), current' # Nothing, dirty' \in BOOLEAN
    PROVE  FormInv'
BY DEF FormInv

(* Handlers that open another object. *)
LEMMA NewForm ==
    ASSUME NEW d, Openable(d), d # Nothing, NEW changed \in BOOLEAN, open(d, changed)
    PROVE  FormInv'
<1>1. current' = d /\ dirty' = changed
  BY DEF open
<1> QED BY <1>1, StillOpen

(* The drafts fit, and those of nodes wait to be saved. *)
LEMMA WhatIsKept ==
    ASSUME EditorInv
    PROVE  /\ IsSeq(drafts) /\ (\A d \in ToSet(drafts) : validateDraft(d)) /\ Sound(drafts)
           /\ FormInv /\ Openable(current) /\ PenInv /\ AroundInv /\ HistoryInv
           /\ IsSeq(current.pending) /\ \A d \in ToSet(current.pending) : Waits(d)
           /\ \A i \in DOMAIN drafts : drafts[i] \in ToSet(drafts)
<1>1. HistoryInv /\ FormInv /\ PenInv /\ AroundInv
  BY DEF EditorInv
<1>2. Sound(drafts) /\ Openable(current)
  BY <1>1 DEF HistoryInv, FormInv
<1> QED BY <1>1, <1>2 DEF Sound, Openable, ToSet

(* The handlers of the form. *)
LEMMA FormStepMoves ==
    ASSUME EditorInv, FormStep PROVE Moves
<1>1. /\ IsSeq(drafts) /\ (\A d \in ToSet(drafts) : validateDraft(d)) /\ FormInv
      /\ Openable(current) /\ IsSeq(current.pending)
      /\ \A d \in ToSet(current.pending) : Waits(d)
  BY WhatIsKept
<1>2. CASE SetTab \/ leave \/ saveConfidential
  <2>1. UNCHANGED history /\ UNCHANGED form /\ (points' = points \/ points' = <<>>)
    BY <1>2 DEF SetTab, leave, saveConfidential, form, pen, cancel
  <2> QED BY <1>1, <2>1, SameForm DEF Moves, HistoryMoves, PenMoves
<1>3. CASE EditTags
  <2>1. /\ UNCHANGED history /\ points' = points /\ current' = current
        /\ current # Nothing /\ dirty' = TRUE
    BY <1>3 DEF EditTags, IsOpen, pen
  <2> QED BY <1>1, <2>1, StillOpen DEF Moves, HistoryMoves, PenMoves
<1>4. CASE newRelation
  <2> DEFINE v == Relation(nextTempId(drafts, "relation"), 0, {}, <<>>)
             o == Opened(NoElement, v, <<>>, 0, NoShape)
  <2>1. UNCHANGED history /\ points' = <<>> /\ open(o, TRUE)
    BY <1>4 DEF newRelation, cancel
  <2>2. Openable(o) /\ o # Nothing
    BY EmptyIsSeq, NewIsOpenable
  <2> HIDE DEF o
  <2> QED BY <2>1, <2>2, NewForm DEF Moves, HistoryMoves, PenMoves
<1>5. CASE discard
  <2>1. UNCHANGED history /\ points' = points /\ closeCurrent
    BY <1>5 DEF discard, pen
  <2> QED BY <1>1, <2>1, SameForm DEF Moves, HistoryMoves, PenMoves
<1>6. ASSUME NEW key, AddMember(key) PROVE Moves
  <2>1. /\ UNCHANGED history /\ points' = points /\ current' = current
        /\ current.value.type = "relation" /\ dirty' = TRUE
    BY <1>6 DEF AddMember, pen
  <2>2. current # Nothing
    BY <2>1 DEF Nothing, Opened, NoElement, Element
  <2> QED BY <1>1, <2>1, <2>2, StillOpen DEF Moves, HistoryMoves, PenMoves
<1>7. ASSUME NEW i, EditMembers(i) PROVE Moves
  <2>1. /\ UNCHANGED history /\ points' = points /\ current' = current
        /\ i \in DOMAIN members /\ dirty' = TRUE
    BY <1>7 DEF EditMembers, pen
  <2>2. current # Nothing
    BY <1>1, <2>1 DEF FormInv
  <2> QED BY <1>1, <2>1, <2>2, StillOpen DEF Moves, HistoryMoves, PenMoves
<1>8. CASE save
  <2> DEFINE next == Saved(Edited, current.pending)
  <2>1. /\ checkReferences(next) /\ persist(next) /\ closeCurrent /\ points' = points
        /\ validateDraft(Edited)
    BY <1>8 DEF save, pen
  <2>2. IsSeq(next) /\ ToSet(next) \subseteq ToSet(drafts) \cup ToSet(current.pending) \cup {Edited}
    BY <1>1, SavedIsSeq
  <2>3. Sound(next)
    BY <1>1, <2>1, <2>2 DEF Sound, Waits
  <2> HIDE DEF next
  <2> QED BY <1>1, <2>1, <2>3, SameForm DEF Moves, HistoryMoves, PenMoves
<1> QED BY <1>2, <1>3, <1>4, <1>5, <1>6, <1>7, <1>8 DEF FormStep

(* The draft of a node that a vertex is moved with: one that waits, the one
   of the workspace, or one of OpenStreetMap's node if there is none. *)
LEMMA MovedNodeFrom ==
    ASSUME EditorInv, NEW id, NEW at, at # Nowhere, MoveVertex(id, at),
           current.value.type # "node"
    PROVE  \E from :
              /\ Waits(from) /\ MovedNode(id, at) = [from EXCEPT !.value.at = at]
              /\ \/ from \in ToSet(current.pending)
                 \/ Key(from) = <<"node", id>> /\ from = DraftOf(<<"node", id>>)
                 \/ Key(from) = <<"node", id>> /\ AliveOf(<<"node", id>>) = {}
<1>1. /\ IsSeq(drafts) /\ (\A d \in ToSet(drafts) : validateDraft(d))
      /\ Openable(current) /\ AroundInv /\ IsSeq(current.pending)
      /\ \A d \in ToSet(current.pending) : Waits(d)
  BY WhatIsKept
<1> DEFINE waiting == {i \in DOMAIN current.pending : current.pending[i].value.id = id}
           key == <<"node", id>>
           from == IF waiting # {} THEN current.pending[Min(waiting)]
                   ELSE IF AliveOf(key) # {} THEN DraftOf(key)
                   ELSE Draft(Fetched(key), Fetched(key))
<1>2. MovedNode(id, at) = [from EXCEPT !.value.at = at]
  BY DEF MovedNode
<1> SUFFICES /\ Waits(from)
             /\ \/ from \in ToSet(current.pending)
                \/ Key(from) = key /\ from = DraftOf(key)
                \/ Key(from) = key /\ AliveOf(key) = {}
  <2> HIDE DEF from
  <2> QED BY <1>2
<1>3. /\ id \in ToSet(current.value.nodes)
      /\ (id > 0 /\ AliveOf(key) = {}) => key \in OsmKeys /\ live[key] > 0
      /\ id < 0 => coordsOfNode(id) # Nowhere
  BY DEF MoveVertex
<1>4. id \in Int /\ id # 0
  <2>1. current.value.nodes \in Seq(Refs)
    BY <1>1 DEF Openable
  <2>2. ToSet(current.value.nodes) \subseteq Refs
    BY <2>1, SequenceIsSeq
  <2> QED BY <1>3, <2>2 DEF Refs
<1>5. CASE waiting # {}
  <2>1. waiting \in SUBSET Nat
    BY <1>1, IsSeqProperties
  <2>2. Min(waiting) \in waiting
    <3> HIDE DEF waiting
    <3> QED BY <1>5, <2>1, MinIsLeast
  <2>3. current.pending[Min(waiting)] \in ToSet(current.pending)
    BY <2>2 DEF ToSet
  <2> QED BY <1>1, <1>5, <2>3
<1>6. CASE waiting = {} /\ AliveOf(key) # {}
  <2>1. AliveOf(key) \in SUBSET Nat
    BY <1>1, IsSeqProperties DEF AliveOf, Alive
  <2>2. Min(AliveOf(key)) \in AliveOf(key)
    BY <1>6, <2>1, MinIsLeast
  <2> DEFINE d == drafts[Min(AliveOf(key))]
  <2>3. d \in ToSet(drafts) /\ ~d.deleted /\ Key(d) = key
    BY <2>2 DEF AliveOf, Alive, ToSet
  <2>4. d.value.type = "node"
    BY <2>3 DEF Key, Subject
  <2>5. Waits(d)
    BY <1>1, <2>3, <2>4 DEF Waits
  <2>6. from = d
    BY <1>6 DEF DraftOf
  <2>7. from = DraftOf(key)
    BY <1>6
  <2> QED BY <2>3, <2>5, <2>6, <2>7
<1>7. CASE waiting = {} /\ AliveOf(key) = {}
  <2>1. id > 0
    <3> SUFFICES ASSUME ~(id > 0) PROVE FALSE
      OBVIOUS
    <3> DEFINE own(ds) == {i \in Alive(ds) : ds[i].value.type = "node" /\ ds[i].value.id = id}
    <3>1. own(current.pending) = {}
      BY <1>7 DEF Alive
    <3>2. own(drafts) = {}
      BY <1>7 DEF AliveOf, Alive, Key, Subject
    <3>3. key \notin OsmKeys
      <4>1. SUFFICES ASSUME NEW e \in Osm, <<e.type, e.id>> = key PROVE FALSE
        BY DEF OsmKeys
      <4>2. e.id \in Nat \ {0}
        BY EditorAssumption DEF element
      <4> QED BY <1>4, <4>1, <4>2
    <3>4. coordsOfNode(id) = Nowhere
      BY <3>1, <3>2, <3>3 DEF coordsOfNode
    <3> QED BY <1>3, <1>4, <3>4
  <2>2. key \in OsmKeys /\ live[key] > 0
    BY <1>3, <1>7, <2>1
  <2> DEFINE e == Fetched(key)
             d == Draft(e, e)
  <2>3. element(e, FALSE) /\ e.type = "node" /\ Key(d) = key
    BY <1>1, <2>2, FetchedIsElement
  <2>4. from = d
    BY <1>7
  <2> HIDE DEF e
  <2>5. d.base = e /\ d.value = e /\ d.deleted = FALSE
    BY DEF Draft
  <2>6. IsNew(d) = FALSE
    BY <2>3, <2>5, ElementShape DEF IsNew
  <2>7. validateDraft(d)
    BY <2>3, <2>5, <2>6 DEF validateDraft
  <2>8. Waits(d)
    BY <2>3, <2>5, <2>7 DEF Waits
  <2> QED BY <1>7, <2>3, <2>4, <2>8
<1> QED BY <1>5, <1>6, <1>7

(* It can wait to be saved. *)
LEMMA MovedNodeWaits ==
    ASSUME EditorInv, NEW id, NEW at, at # Nowhere, MoveVertex(id, at),
           current.value.type # "node"
    PROVE  Waits(MovedNode(id, at))
<1>1. PICK from : Waits(from) /\ MovedNode(id, at) = [from EXCEPT !.value.at = at]
  BY MovedNodeFrom
<1>2. Waits([from EXCEPT !.value.at = at])
  BY <1>1, MovedWaits
<1> QED BY <1>1, <1>2

(* A vertex that is inserted or moved waits beside the others. *)
LEMMA VerticesMove ==
    ASSUME EditorInv, NEW i, NEW at \in Places,
           insertVertex(i, at) \/ MoveVertex(i, at)
    PROVE  Moves
<1> DEFINE c == current
           nodes == current.value.nodes
           p == current.pending
<1>1. /\ IsSeq(drafts) /\ (\A d \in ToSet(drafts) : validateDraft(d))
      /\ Openable(c) /\ nodes \in Seq(Refs) /\ IsSeq(p) /\ \A d \in ToSet(p) : Waits(d)
  BY WhatIsKept DEF Openable
<1>2. UNCHANGED history /\ points' = points /\ dirty' = TRUE
  BY DEF insertVertex, MoveVertex, pen
<1>3. at # Nowhere
  BY EditorAssumption
<1>4. \A e : Openable(e) /\ e # Nothing /\ c' = e => Moves
  BY <1>2, StillOpen DEF Moves, HistoryMoves, PenMoves
<1>5. CASE insertVertex(i, at)
  <2> DEFINE all == drafts \o p
             id == nextTempId(all, "node")
             n == InsertNode(nodes, i, id)
             d == Draft(NoElement, Node(id, 0, {}, at))
             q == Append(p, d)
  <2>1. /\ c' = [c EXCEPT !.value.nodes = n, !.pending = q]
        /\ c.value.type \in Types /\ i \in 1..(Len(nodes) - 1)
    BY <1>5 DEF insertVertex, CanInsert, Types, Rank
  <2>2. IsSeq(all) /\ \A x \in ToSet(all) : validateDraft(x)
    <3>1. IsSeq(all) /\ ToSet(all) \subseteq ToSet(drafts) \cup ToSet(p)
      BY <1>1, ConcatIsSeq
    <3> QED BY <1>1, <3>1 DEF Waits
  <2> HIDE DEF all
  <2>3. id \in Int /\ id < 0 /\ id \in Refs
    <3>1. id \in Int /\ id < 0
      BY <2>2, TempIdIsNegative
    <3> QED BY <3>1 DEF Refs
  <2> HIDE DEF id
  <2>4. n \in Seq(Refs)
    <3> HIDE DEF nodes
    <3> QED BY <1>1, <2>1, <2>3, InsertIsSeq
  <2>5. Waits(d)
    BY <1>3, <2>3, NewNodeWaits
  <2> HIDE DEF d, n
  <2>6. IsSeq(q) /\ \A x \in ToSet(q) : Waits(x)
    BY <1>1, <2>5, AppendIsSeq
  <2> HIDE DEF q
  <2>7. Openable(c') /\ c' # Nothing
    <3> HIDE DEF c, p
    <3> QED BY <1>1, <2>1, <2>4, <2>6, NodesAreOpenable
  <2> QED BY <1>4, <2>7
<1>7. CASE MoveVertex(i, at) /\ c.value.type = "node"
  <2>1. c' = [c EXCEPT !.value.at = at] /\ c.value.type \in Types
    BY <1>7 DEF MoveVertex, Types, Rank
  <2>2. Openable(c') /\ c' # Nothing
    <3> HIDE DEF c, p
    <3> QED BY <1>1, <2>1, PlaceIsOpenable
  <2> QED BY <1>4, <2>2
<1>8. CASE MoveVertex(i, at) /\ c.value.type # "node"
  <2> DEFINE d == MovedNode(i, at)
             q == Put(p, d)
  <2>1. c' = [c EXCEPT !.pending = q] /\ i \in ToSet(nodes)
    BY <1>8 DEF MoveVertex
  <2>2. c.value.type \in Types
    <3>1. c # Nothing
      BY <2>1, EmptyIsSeq DEF Nothing, Opened, NoElement, Element
    <3> QED BY <1>1, <3>1 DEF Openable
  <2>3. Waits(d)
    BY <1>3, <1>8, MovedNodeWaits
  <2> HIDE DEF d
  <2>4. IsSeq(q) /\ \A x \in ToSet(q) : Waits(x)
    BY <1>1, <2>3, PutIsSeq
  <2> HIDE DEF q
  <2>5. Openable(c') /\ c' # Nothing
    <3> HIDE DEF c, p
    <3> QED BY <1>1, <2>1, <2>2, <2>4, PendingIsOpenable
  <2> QED BY <1>4, <2>5
<1> QED BY <1>5, <1>7, <1>8

(* A vertex that is removed takes the draft that waits for it along. *)
LEMMA VertexLeaves ==
    ASSUME EditorInv, NEW i, removeVertex(i)
    PROVE  Moves
<1> DEFINE c == current
           nodes == current.value.nodes
           p == current.pending
<1>1. /\ IsSeq(drafts) /\ (\A d \in ToSet(drafts) : validateDraft(d))
      /\ Openable(c) /\ nodes \in Seq(Refs) /\ IsSeq(p) /\ \A d \in ToSet(p) : Waits(d)
  BY WhatIsKept DEF Openable
<1>2. UNCHANGED history /\ points' = points /\ dirty' = TRUE
  BY DEF removeVertex, pen
<1>3. \A e : Openable(e) /\ e # Nothing /\ c' = e => Moves
  BY <1>2, StillOpen DEF Moves, HistoryMoves, PenMoves
<1> DEFINE n == WithoutNode(nodes, i)
           K == {j \in DOMAIN p : p[j].value.id # nodes[i] \/ nodes[i] \in ToSet(n)}
           q == KeepAt(p, K)
<1>4. /\ c' = [c EXCEPT !.value.nodes = n, !.pending = q]
      /\ c.value.type \in Types /\ CanRemove(nodes, i)
  BY DEF removeVertex, Types, Rank
<1>5. n \in Seq(Refs)
  <2> HIDE DEF nodes
  <2> QED BY <1>1, <1>4, WithoutIsSeq
<1>6. IsSeq(q) /\ \A x \in ToSet(q) : Waits(x)
  <2>1. K \in SUBSET DOMAIN p
    OBVIOUS
  <2> HIDE DEF K
  <2>2. IsSeq(q) /\ ToSet(q) \subseteq {p[k] : k \in K}
    BY <1>1, <2>1, KeepAtElements
  <2>3. {p[k] : k \in K} \subseteq ToSet(p)
    BY <2>1 DEF ToSet
  <2> QED BY <1>1, <2>2, <2>3
<1> HIDE DEF n, q
<1>7. Openable(c') /\ c' # Nothing
  <2> HIDE DEF c, p
  <2> QED BY <1>1, <1>4, <1>5, <1>6, NodesAreOpenable
<1> QED BY <1>3, <1>7

(* What is drawn becomes a way of nodes of OpenStreetMap and new ones. *)
LEMMA DrawnCanBeOpened ==
    ASSUME PenInv, NEW from \in Int, from < 0
    PROVE  /\ DrawnIds(from) \in Seq(Refs) /\ Len(DrawnIds(from)) = Len(points)
           /\ IsSeq(DrawnNodes(DrawnIds(from)))
           /\ \A d \in ToSet(DrawnNodes(DrawnIds(from))) :
                 Waits(d) /\ \E id \in Int : \E at :
                                id <= from /\ d = Draft(NoElement, Node(id, 0, {}, at))
<1> DEFINE N == Len(points)
           before(i) == {j \in 1..(i - 1) : points[j].node = 0}
           ids == DrawnIds(from)
<1>1. N \in Nat /\ DOMAIN points = 1..N /\ \A i \in 1..N : IsPoint(points[i])
  <2>1. IsSeq(points) /\ \A p \in ToSet(points) : IsPoint(p)
    BY DEF PenInv
  <2>2. N \in Nat /\ DOMAIN points = 1..N
    BY <2>1, IsSeqProperties
  <2> QED BY <2>1, <2>2 DEF ToSet
<1>2. ids = [i \in 1..N |-> IF points[i].node # 0 THEN points[i].node
                            ELSE from - Cardinality(before(i))]
  BY <1>1 DEF DrawnIds
<1>3. ASSUME NEW i \in 1..N PROVE Cardinality(before(i)) \in Nat
  <2>1. IsFiniteSet(1..(i - 1)) /\ before(i) \subseteq 1..(i - 1)
    BY FS_Interval
  <2> QED BY <2>1, FS_Subset, FS_CardinalityType
<1> HIDE DEF before, ids
<1>4. ASSUME NEW i \in 1..N
      PROVE  /\ ids[i] \in Refs
             /\ points[i].node = 0 => ids[i] \in Int /\ ids[i] <= from /\ ids[i] < 0
             /\ points[i].at # Nowhere
  <2>1. points[i].node \in Nat /\ points[i].at # Nowhere
    BY <1>1 DEF IsPoint
  <2> QED BY <1>2, <1>3, <2>1 DEF Refs
<1>5. DOMAIN ids = 1..N
  BY <1>2
<1>6. ids \in Seq(Refs) /\ Len(ids) = N
  <2>1. ids = [i \in 1..N |-> ids[i]]
    BY <1>2
  <2>2. IsSeq(ids) /\ Len(ids) = N
    BY <1>1, <2>1, FunctionIsSeq
  <2>3. ToSet(ids) \subseteq Refs
    BY <1>4, <1>5 DEF ToSet
  <2> QED BY <2>2, <2>3, IsSeqOver
<1> DEFINE places == [i \in DOMAIN points |-> i]
           K == {i \in DOMAIN points : points[i].node = 0}
           new == KeepAt(places, K)
           drawn == DrawnNodes(ids)
<1>7. /\ IsSeq(new) /\ DOMAIN new = 1..Len(new) /\ Len(new) \in Nat
      /\ \A n \in DOMAIN new : new[n] \in 1..N /\ points[new[n]].node = 0
  <2>1. places = [i \in 1..N |-> places[i]]
    BY <1>1
  <2>2. IsSeq(places) /\ DOMAIN places = 1..N
    BY <1>1, <2>1, FunctionIsSeq
  <2>3. K \in SUBSET DOMAIN places
    OBVIOUS
  <2>4. \A k \in K : k \in 1..N /\ points[k].node = 0 /\ places[k] = k
    BY <1>1
  <2> HIDE DEF places, K
  <2>5. /\ IsSeq(new) /\ DOMAIN new = 1..Len(new)
        /\ \A n \in DOMAIN new : \E k \in K : new[n] = places[k]
    BY <2>2, <2>3, KeepAtElements
  <2> QED BY <2>4, <2>5, IsSeqProperties
<1>8. drawn = [n \in DOMAIN new |-> Draft(NoElement, Node(ids[new[n]], 0, {}, points[new[n]].at))]
  BY DEF DrawnNodes
<1> HIDE DEF new, drawn
<1>9. ASSUME NEW n \in DOMAIN new
      PROVE  Waits(drawn[n]) /\ \E id \in Int : \E at :
                id <= from /\ drawn[n] = Draft(NoElement, Node(id, 0, {}, at))
  BY <1>4, <1>7, <1>8, NewNodeWaits
<1>10. DOMAIN drawn = DOMAIN new /\ drawn = [n \in 1..Len(new) |-> drawn[n]]
  BY <1>7, <1>8
<1>11. IsSeq(drawn)
  BY <1>7, <1>10, FunctionIsSeq
<1>12. \A d \in ToSet(drawn) :
          Waits(d) /\ \E id \in Int : \E at :
                         id <= from /\ d = Draft(NoElement, Node(id, 0, {}, at))
  BY <1>9, <1>10 DEF ToSet
<1> QED BY <1>6, <1>11, <1>12 DEF ids, drawn

(* The handlers of the map and its tools. *)
LEMMA MapStepMoves ==
    ASSUME EditorInv, MapStep PROVE Moves
<1>1. /\ IsSeq(drafts) /\ (\A d \in ToSet(drafts) : validateDraft(d)) /\ FormInv
      /\ Openable(current) /\ PenInv /\ IsSeq(points)
  BY WhatIsKept DEF PenInv
<1>2. CASE toggleGeometryMode \/ StartPlacing \/ (\E kind \in {"line", "area"} : startDrawing(kind))
           \/ undoDrawPoint \/ startSplit \/ endSplit
  <2>1. UNCHANGED history /\ UNCHANGED form /\ PenMoves
    BY <1>2 DEF toggleGeometryMode, StartPlacing, startDrawing, undoDrawPoint, startSplit,
       endSplit, pen, PenMoves
  <2> QED BY <1>1, <2>1, SameForm DEF Moves, HistoryMoves
<1>3. ASSUME NEW at, place(at) \/ startAt(at) PROVE Moves
  <2> DEFINE v == Node(nextTempId(drafts, "node"), 0, {}, at)
             o == Opened(NoElement, v, <<>>, 0, NoShape)
  <2>1. UNCHANGED history /\ points' = points /\ open(o, TRUE)
    BY <1>3 DEF place, startAt
  <2>2. Openable(o) /\ o # Nothing
    BY EmptyIsSeq, NewIsOpenable
  <2> HIDE DEF o
  <2> QED BY <2>1, <2>2, NewForm DEF Moves, HistoryMoves, PenMoves
<1>4. ASSUME NEW p, IsPoint(p), addDrawPoint(p) PROVE Moves
  <2>1. UNCHANGED history /\ UNCHANGED form /\ points' = Append(points, p)
    BY <1>4 DEF addDrawPoint
  <2> QED BY <1>1, <1>4, <2>1, SameForm DEF Moves, HistoryMoves, PenMoves
<1>5. CASE drawSelectedArea
  <2>1. UNCHANGED history /\ closeCurrent /\ points' = <<>>
    BY <1>5 DEF drawSelectedArea
  <2> QED BY <1>1, <2>1, SameForm DEF Moves, HistoryMoves, PenMoves
<1>6. CASE finishDraw
  <2> DEFINE from  == nextTempId(drafts, "node")
             ids   == DrawnIds(from)
             nodes == IF drawing = "area" THEN Append(ids, ids[1]) ELSE ids
             v     == Way(nextTempId(drafts, "way"), 0, drawTags, nodes)
             new   == DrawnNodes(ids)
             o     == Opened(NoElement, v, new, 0, NoShape)
  <2>1. /\ UNCHANGED history /\ points' = <<>> /\ open(o, TRUE)
        /\ Len(points) >= (IF drawing = "area" THEN 3 ELSE 2)
    BY <1>6 DEF finishDraw, cancel
  <2>2. from \in Int /\ from < 0
    BY <1>1, TempIdIsNegative
  <2> HIDE DEF from
  <2>3. /\ ids \in Seq(Refs) /\ Len(ids) = Len(points)
        /\ IsSeq(new) /\ \A d \in ToSet(new) : Waits(d)
    BY <1>1, <2>2, DrawnCanBeOpened
  <2> HIDE DEF ids, new
  <2>4. nodes \in Seq(Refs)
    <3>1. Len(ids) \in Nat /\ Len(ids) >= 2
      BY <2>1, <2>3
    <3> QED BY <2>3, <3>1
  <2> HIDE DEF nodes
  <2>5. Openable(o) /\ o # Nothing
    BY <2>3, <2>4, NewIsOpenable
  <2> HIDE DEF o
  <2> QED BY <2>1, <2>5, NewForm DEF Moves, HistoryMoves, PenMoves
<1>7. ASSUME NEW i, performSplit(i) PROVE Moves
  <2>1. PICK first, second, id :
           LET next == patchRelationsForSplit(Append(Put(drafts, first), second),
                                              current.value.id, id)
           IN  /\ checkReferences(next) /\ persist(next)
               /\ \A j \in DOMAIN next : validateDraft(next[j])
    BY <1>7 DEF performSplit
  <2> DEFINE next == patchRelationsForSplit(Append(Put(drafts, first), second),
                                            current.value.id, id)
  <2>2. IsSeq(Append(Put(drafts, first), second))
    BY <1>1, PutIsSeq, AppendIsSeq
  <2>3. IsSeq(next)
    BY <2>2, PatchesAreSeqs
  <2>4. Sound(next) /\ persist(next)
    <3>1. /\ checkReferences(next) /\ persist(next)
          /\ \A j \in DOMAIN next : validateDraft(next[j])
      BY <2>1
    <3> HIDE DEF next
    <3> QED BY <2>3, <3>1 DEF Sound, ToSet
  <2> HIDE DEF next
  <2>5. closeCurrent /\ points' = points
    BY <1>7 DEF performSplit, pen
  <2> QED BY <1>1, <2>4, <2>5, SameForm DEF Moves, HistoryMoves, PenMoves
<1>8. \A at \in Places : IsPoint([at |-> at, node |-> 0])
  BY EditorAssumption DEF IsPoint
<1>9. ASSUME NEW e \in Osm, e.type = "node" PROVE IsPoint([at |-> e.at, node |-> e.id])
  <2>1. element(e, FALSE)
    BY EditorAssumption
  <2>2. e.id \in Nat
    BY <2>1 DEF element
  <2>3. e.at # Nowhere
    BY <1>9, <2>1 DEF element, Way, Relation, Element
  <2> QED BY <2>2, <2>3 DEF IsPoint
<1>10. ASSUME NEW at \in Places, NEW i, insertVertex(i, at) \/ MoveVertex(i, at) PROVE Moves
  BY <1>10, VerticesMove
<1>11. ASSUME NEW i, removeVertex(i) PROVE Moves
  BY <1>11, VertexLeaves
<1> QED BY <1>2, <1>3, <1>4, <1>5, <1>6, <1>7, <1>8, <1>9, <1>10, <1>11 DEF MapStep

(* The draft of an object that is not gone. *)
LEMMA DraftOfIsKept ==
    ASSUME Sound(drafts), NEW key
    PROVE  DraftOf(key) # NoDraft =>
               /\ DraftOf(key) \in ToSet(drafts) /\ validateDraft(DraftOf(key))
               /\ ~DraftOf(key).deleted /\ Key(DraftOf(key)) = key
<1>1. IsSeq(drafts) /\ \A d \in ToSet(drafts) : validateDraft(d)
  BY DEF Sound
<1>2. CASE AliveOf(key) = {}
  BY <1>2 DEF DraftOf
<1>3. CASE AliveOf(key) # {}
  <2>1. AliveOf(key) \in SUBSET Nat
    BY <1>1, IsSeqProperties DEF AliveOf, Alive
  <2>2. Min(AliveOf(key)) \in AliveOf(key)
    BY <1>3, <2>1, MinIsLeast
  <2> DEFINE d == drafts[Min(AliveOf(key))]
  <2>3. d \in ToSet(drafts) /\ ~d.deleted /\ Key(d) = key
    BY <2>2 DEF AliveOf, Alive, ToSet
  <2> QED BY <1>1, <1>3, <2>3 DEF DraftOf
<1> QED BY <1>2, <1>3

(* The handlers of the list of drafts, of undo and redo, and of requests. *)
LEMMA DraftStepMoves ==
    ASSUME EditorInv, DraftStep PROVE Moves
<1>1. /\ IsSeq(drafts) /\ (\A d \in ToSet(drafts) : validateDraft(d)) /\ Sound(drafts)
      /\ FormInv /\ AroundInv /\ \A i \in DOMAIN drafts : drafts[i] \in ToSet(drafts)
  BY WhatIsKept
<1>2. CASE \/ \E e \in Osm : e.type = "way" /\ mergeWith(e.id)
           \/ deleteObject \/ Look \/ Check \/ Import
  <2>1. UNCHANGED history /\ UNCHANGED form /\ points' = points
    BY <1>2 DEF mergeWith, deleteObject, Look, Check, Import
  <2> QED BY <1>1, <2>1, SameForm DEF Moves, HistoryMoves, PenMoves
<1>3. ASSUME NEW i \in DOMAIN drafts, OpenDraft(i) PROVE Moves
  <2>1. UNCHANGED history /\ points' = <<>> /\ open(FromDraft(drafts[i]), FALSE)
    BY <1>3 DEF OpenDraft, cancel
  <2>2. validateDraft(drafts[i]) /\ ~drafts[i].deleted
    BY <1>1, <1>3 DEF OpenDraft, Alive
  <2> QED BY <2>1, <2>2, DraftIsOpenable, NewForm DEF Moves, HistoryMoves, PenMoves
<1>4. ASSUME NEW key, load(key) PROVE Moves
  <2> DEFINE d == DraftOf(key)
  <2>1. UNCHANGED history /\ points' = <<>>
    BY <1>4 DEF load, cancel
  <2>2. (d # NoDraft /\ open(FromDraft(d), FALSE)) \/ UNCHANGED form
    BY <1>4 DEF load
  <2>3. d # NoDraft => validateDraft(d) /\ ~d.deleted
    BY <1>1, DraftOfIsKept
  <2> HIDE DEF d
  <2> QED BY <1>1, <2>1, <2>2, <2>3, SameForm, DraftIsOpenable, NewForm
          DEF Moves, HistoryMoves, PenMoves
<1>5. ASSUME NEW i \in DOMAIN drafts, removeDraft(i) PROVE Moves
  <2> DEFINE next == Pruned(RemoveAt(drafts, i), ToSet(drafts[i].value.nodes))
  <2>1. checkReferences(next) /\ persist(next) /\ UNCHANGED form /\ points' = points
    BY <1>5 DEF removeDraft, pen
  <2>2. i \in 1..Len(drafts)
    BY <1>1, IsSeqProperties
  <2>3. IsSeq(next) /\ ToSet(next) \subseteq ToSet(drafts)
    <3> DEFINE r == RemoveAt(drafts, i)
    <3>1. IsSeq(r) /\ ToSet(r) \subseteq ToSet(drafts)
      BY <1>1, <2>2, RemoveAtIsSeq
    <3> HIDE DEF r
    <3>2. ASSUME NEW s PROVE IsSeq(Pruned(r, s)) /\ ToSet(Pruned(r, s)) \subseteq ToSet(r)
      BY <3>1, PrunedIsSeq
    <3> QED BY <3>1, <3>2 DEF r
  <2> HIDE DEF next
  <2>4. Sound(next)
    BY <1>1, <2>1, <2>3 DEF Sound
  <2> QED BY <1>1, <2>1, <2>4, SameForm DEF Moves, HistoryMoves, PenMoves
<1>6. ASSUME NEW i \in DOMAIN drafts, Undelete(i) PROVE Moves
  <2>1. /\ persist(RemoveAt(drafts, i)) /\ UNCHANGED form /\ points' = points
        /\ drafts[i].deleted
    BY <1>6 DEF Undelete, pen, Alive
  <2>2. Sound(RemoveAt(drafts, i))
    BY <1>1, <2>1, UndeleteIsSound
  <2> QED BY <1>1, <2>1, <2>2, SameForm DEF Moves, HistoryMoves, PenMoves
<1>7. ASSUME NEW o \in vault, openConfidential(o) PROVE Moves
  <2> DEFINE w == [i \in DOMAIN o.line |-> -i]
             v == IF o.type = "node"
                  THEN Node(nextTempId(drafts, "node"), 0, o.tags, o.line[1])
                  ELSE Way(nextTempId(drafts, "way"), 0, o.tags, w)
             c == Opened(NoElement, v, <<>>, o.id, o.line)
  <2>1. UNCHANGED history /\ points' = <<>> /\ open(c, FALSE)
    BY <1>7 DEF openConfidential, cancel
  <2>2. w \in Seq(Refs)
    <3>1. IsSeq(o.line)
      BY <1>1 DEF AroundInv, WorldInv
    <3>2. Len(o.line) \in Nat /\ DOMAIN o.line = 1..Len(o.line)
      BY <3>1, IsSeqProperties
    <3>3. w = [i \in 1..Len(o.line) |-> -i]
      BY <3>2
    <3>4. \A i \in 1..Len(o.line) : -i \in Refs
      BY <3>2 DEF Refs
    <3> QED BY <3>2, <3>3, <3>4
  <2> HIDE DEF w
  <2>3. Openable(c) /\ c # Nothing
    BY <2>2, EmptyIsSeq, NewIsOpenable
  <2> HIDE DEF c
  <2> QED BY <2>1, <2>3, NewForm DEF Moves, HistoryMoves, PenMoves
<1>8. ASSUME NEW o, deleteConfidential(o) PROVE Moves
  <2>1. UNCHANGED history /\ points' = points /\ (closeCurrent \/ UNCHANGED form)
    BY <1>8 DEF deleteConfidential, pen
  <2> QED BY <1>1, <2>1, SameForm DEF Moves, HistoryMoves, PenMoves
<1>9. CASE Undo \/ Redo
  <2>1. closeCurrent /\ points' = points
    BY <1>9 DEF Undo, Redo, pen
  <2> QED BY <1>1, <1>9, <2>1, SameForm DEF Moves, HistoryMoves, PenMoves
<1> QED BY <1>2, <1>3, <1>4, <1>5, <1>6, <1>7, <1>8, <1>9 DEF DraftStep

(* The answers to requests, whatever has happened meanwhile. *)
LEMMA AnswerMoves ==
    ASSUME EditorInv, NEW job \in jobs, Answer(job) PROVE Moves
<1>1. /\ IsSeq(drafts) /\ (\A d \in ToSet(drafts) : validateDraft(d)) /\ Sound(drafts)
      /\ FormInv /\ AroundInv /\ Carries(job)
  BY WhatIsKept DEF AroundInv, NetInv
<1>2. CASE LookAnswer(job) \/ CheckAnswer(job)
  <2>1. UNCHANGED history /\ UNCHANGED form /\ points' = points
    BY <1>2 DEF LookAnswer, CheckAnswer, pen
  <2> QED BY <1>1, <2>1, SameForm DEF Moves, HistoryMoves, PenMoves
<1>3. CASE LoadAnswer(job)
  <2> DEFINE f == Fetched(job.arg)
             o == Opened(f, f, <<>>, 0, NoShape)
  <2>1. UNCHANGED history /\ points' = points /\ job.op = "load"
    BY <1>3 DEF LoadAnswer, pen
  <2>2. \/ job.old # NoDraft /\ open(FromDraft(job.old), FALSE)
        \/ job.old = NoDraft /\ live[job.arg] > 0 /\ open(o, FALSE)
        \/ UNCHANGED form
    BY <1>3 DEF LoadAnswer
  <2>3. IF job.old = NoDraft THEN job.arg \in OsmKeys
        ELSE validateDraft(job.old) /\ ~job.old.deleted
    BY <1>1, <2>1 DEF Carries
  <2>4. job.old = NoDraft /\ live[job.arg] > 0 => Openable(o) /\ o # Nothing
    BY <1>1, <2>3, FetchedIsOpenable
  <2> HIDE DEF o
  <2> QED BY <1>1, <2>1, <2>2, <2>3, <2>4, SameForm, DraftIsOpenable, NewForm
          DEF Moves, HistoryMoves, PenMoves
<1>4. CASE DeleteAnswer(job)
  <2> DEFINE K == {i \in DOMAIN drafts : Key(drafts[i]) # Key(current)}
             rest == KeepAt(drafts, K)
             next == Append(rest, job.old)
  <2>1. /\ points' = points /\ job.op = "delete"
        /\ \/ checkReferences(next) /\ persist(next) /\ closeCurrent
           \/ UNCHANGED history /\ UNCHANGED form
    BY <1>4 DEF DeleteAnswer, pen
  <2>2. IsSeq(rest) /\ ToSet(rest) \subseteq ToSet(drafts)
    <3>1. K \in SUBSET DOMAIN drafts
      OBVIOUS
    <3> HIDE DEF K
    <3>2. IsSeq(rest) /\ ToSet(rest) \subseteq {drafts[k] : k \in K}
      BY <1>1, <3>1, KeepAtElements
    <3>3. {drafts[k] : k \in K} \subseteq ToSet(drafts)
      BY <3>1 DEF ToSet
    <3> QED BY <3>2, <3>3
  <2> HIDE DEF rest
  <2>3. IsSeq(next) /\ ToSet(next) = ToSet(rest) \cup {job.old}
    BY <2>2, AppendIsSeq
  <2>4. validateDraft(job.old)
    BY <1>1, <2>1 DEF Carries
  <2>5. checkReferences(next) => Sound(next)
    <3> HIDE DEF next
    <3> QED BY <1>1, <2>2, <2>3, <2>4 DEF Sound
  <2> HIDE DEF next
  <2> QED BY <1>1, <2>1, <2>5, SameForm DEF Moves, HistoryMoves, PenMoves
<1>5. CASE MergeAnswer(job)
  <2> DEFINE other == IF job.old # NoDraft THEN job.old.value ELSE Fetched(job.arg)
             v     == current.value
             kept  == Draft(current.base, [v EXCEPT !.nodes = Joined(v.nodes, other.nodes),
                                                    !.tags = v.tags \cup other.tags])
             gone  == Deletion(IF job.old # NoDraft THEN job.old.base ELSE other)
             with  == Put(drafts, kept)
             at    == {i \in Alive(with) : Key(with[i]) = job.arg}
             all   == IF at = {} THEN Append(with, gone) ELSE [with EXCEPT ![Min(at)] = gone]
             next  == patchRelationsForMerge(all, job.arg[2], v.id)
  <2>1. /\ points' = points
        /\ \/ /\ checkReferences(next) /\ persist(next) /\ closeCurrent
              /\ \A j \in DOMAIN next : validateDraft(next[j])
           \/ UNCHANGED history /\ UNCHANGED form
    BY <1>5 DEF MergeAnswer, pen
  <2> HIDE DEF other, kept, gone, v
  <2>2. IsSeq(with)
    BY <1>1, PutIsSeq
  <2> HIDE DEF with, at
  <2>3. IsSeq(all)
    BY <2>2, AppendIsSeq, ExceptIsSeq
  <2> HIDE DEF all
  <2>4. IsSeq(next)
    BY <2>3, PatchesAreSeqs
  <2> HIDE DEF next
  <2> QED BY <1>1, <2>1, <2>4, SameForm DEF Moves, HistoryMoves, PenMoves, Sound, ToSet
<1>6. CASE ImportAnswer(job)
  <2>1. /\ points' = points /\ UNCHANGED form
        /\ \/ \E ds \in Files : Acceptable(drafts \o ds) /\ persist(drafts \o ds)
           \/ UNCHANGED history
    BY <1>6 DEF ImportAnswer, pen
  <2>2. ASSUME NEW ds \in Files, Acceptable(drafts \o ds) PROVE Sound(drafts \o ds)
    <3>1. IsSeq(ds)
      BY EditorAssumption DEF IsSeq
    <3> DEFINE all == drafts \o ds
    <3>2. IsSeq(all) /\ checkReferences(all) /\ \A i \in DOMAIN all : validateDraft(all[i])
      BY <1>1, <2>2, <3>1, ConcatIsSeq DEF Acceptable
    <3> HIDE DEF all
    <3>3. Sound(all)
      BY <3>2 DEF Sound, ToSet
    <3> QED BY <3>3 DEF all
  <2> QED BY <1>1, <2>1, <2>2, SameForm DEF Moves, HistoryMoves, PenMoves
<1>7. CASE ConfidentialAnswer(job)
  <2>1. UNCHANGED history /\ points' = points /\ (closeCurrent \/ UNCHANGED form)
    BY <1>7 DEF ConfidentialAnswer, pen
  <2> QED BY <1>1, <2>1, SameForm DEF Moves, HistoryMoves, PenMoves
<1> QED BY <1>2, <1>3, <1>4, <1>5, <1>6, <1>7 DEF Answer

(* Every step is one of these. *)
LEMMA EveryStepMoves ==
    ASSUME EditorInv, [Next]_vars PROVE Moves
<1>1. FormInv
  BY DEF EditorInv
<1>2. CASE Reload
  <2>1. closeCurrent /\ points' = <<>>
    BY <1>2 DEF Reload, closeCurrent, cancel
  <2> QED BY <1>1, <1>2, <2>1, SameForm DEF Moves, HistoryMoves, PenMoves
<1>3. CASE UNCHANGED vars \/ \E key \in OsmKeys : OsmChanges(key)
  <2>1. UNCHANGED history /\ points' = points /\ UNCHANGED form
    BY <1>3 DEF OsmChanges, vars, pen
  <2> QED BY <1>1, <2>1, SameForm DEF Moves, HistoryMoves, PenMoves
<1> QED BY <1>2, <1>3, FormStepMoves, MapStepMoves, DraftStepMoves, AnswerMoves DEF Next

-----------------------------------------------------------------------------
(* What is around the editor.                                              *)

(* The flags of the tools and the kind of a drawing. *)
LEMMA ToolsAreKept ==
    ASSUME ToolsInv, [Next]_vars PROVE ToolsInv'
<1> SUFFICES /\ busy' \in BOOLEAN /\ placing' \in BOOLEAN /\ geometry' \in BOOLEAN
             /\ split' \in BOOLEAN /\ drawing' \in {"no", "line", "area"}
  BY DEF ToolsInv
<1>1. /\ busy \in BOOLEAN /\ placing \in BOOLEAN /\ geometry \in BOOLEAN
      /\ split \in BOOLEAN /\ drawing \in {"no", "line", "area"}
  BY DEF ToolsInv
<1>2. CASE FormStep
  <2>1. CASE EditTags \/ newRelation \/ discard \/ SetTab \/ leave
    BY <1>1, <2>1
       DEF EditTags, newRelation, discard, SetTab, leave, cancel, closeCurrent, LeaveForm,
           pen, tools, net
  <2>2. ASSUME NEW key, AddMember(key) PROVE UNCHANGED <<pen, tools, net>>
    BY <2>2 DEF AddMember
  <2>3. ASSUME NEW i, EditMembers(i) PROVE UNCHANGED <<pen, tools, net>>
    BY <2>3 DEF EditMembers
  <2>4. CASE UNCHANGED <<pen, tools, net>>
    BY <1>1, <2>4 DEF pen, tools, net
  <2>5. CASE save
    BY <1>1, <2>5 DEF save, closeCurrent, pen, net
  <2>6. CASE saveConfidential
    BY <1>1, <2>6 DEF saveConfidential, Begin, tools
  <2> QED BY <1>2, <2>1, <2>2, <2>3, <2>4, <2>5, <2>6 DEF FormStep
<1>3. CASE MapStep
  <2>1. CASE toggleGeometryMode \/ startSplit \/ endSplit
    BY <1>1, <2>1
       DEF toggleGeometryMode, startSplit, endSplit, cancel, closeCurrent, LeaveForm,
           pen, tools, net
  <2>2. CASE \E at : place(at) \/ startAt(at)
    BY <1>1, <2>2 DEF place, startAt, cancel, LeaveForm, pen, tools, net
  <2>3. CASE \E point : addDrawPoint(point)
    BY <1>1, <2>3 DEF addDrawPoint, pen, tools, net
  <2>4. CASE \/ \E i, at : insertVertex(i, at) \/ MoveVertex(i, at)
             \/ \E i : removeVertex(i)
    BY <1>1, <2>4 DEF insertVertex, MoveVertex, removeVertex, pen, tools, net
  <2>5. CASE \E i : performSplit(i)
    BY <1>1, <2>5 DEF performSplit, closeCurrent, pen, tools, net
  <2>6. CASE \/ StartPlacing \/ drawSelectedArea \/ undoDrawPoint \/ finishDraw
             \/ \E kind \in {"line", "area"} : startDrawing(kind)
    BY <1>1, <2>6
       DEF StartPlacing, startDrawing, drawSelectedArea, undoDrawPoint, finishDraw, cancel,
           closeCurrent, LeaveForm, pen, tools, net
  <2> QED BY <1>3, <2>1, <2>2, <2>3, <2>4, <2>5, <2>6 DEF MapStep
<1>4. CASE DraftStep
  BY <1>1, <1>4
     DEF DraftStep, OpenDraft, removeDraft, Undelete, load, mergeWith, openConfidential,
         deleteConfidential, deleteObject, Undo, Redo, Look, Check, Import,
         cancel, closeCurrent, LeaveForm, Begin, pen, tools, net
<1>5. ASSUME NEW job \in jobs, Answer(job)
      PROVE  /\ busy' \in BOOLEAN /\ placing' \in BOOLEAN /\ geometry' \in BOOLEAN
             /\ split' \in BOOLEAN /\ drawing' \in {"no", "line", "area"}
  BY <1>1, <1>5
     DEF Answer, LoadAnswer, LookAnswer, DeleteAnswer, MergeAnswer, CheckAnswer, ImportAnswer,
         ConfidentialAnswer, closeCurrent, Finish, pen, tools
<1>6. CASE Reload \/ UNCHANGED vars \/ \E key \in OsmKeys : OsmChanges(key)
  BY <1>1, <1>6 DEF Reload, OsmChanges, cancel, vars, pen, tools, net
<1> QED BY <1>2, <1>3, <1>4, <1>5, <1>6 DEF Next

(* The shape of a confidential object is a sequence of positions. *)
LEMMA ShapeIsSeq ==
    ASSUME Openable(current) PROVE IsSeq(confidentialGeometry)
<1> DEFINE v == current.value
           nodes == v.nodes
           drawn(i) == IF i \in DOMAIN current.shape THEN current.shape[i] ELSE Nowhere
           at == [i \in DOMAIN nodes |->
                     LET here == coordsOfNode(nodes[i])
                     IN  IF here # Nowhere THEN here ELSE drawn(i)]
           K == {i \in DOMAIN at : at[i] # Nowhere}
<1>1. Len(nodes) \in Nat /\ DOMAIN nodes = 1..Len(nodes)
  BY DEF Openable
<1>2. CASE v.type = "node"
  <2>1. confidentialGeometry = <<v.at>>
    BY <1>2 DEF confidentialGeometry
  <2> QED BY <2>1 DEF IsSeq, ToSet
<1>3. CASE v.type # "node"
  <2>1. confidentialGeometry = KeepAt(at, K)
    BY <1>3 DEF confidentialGeometry
  <2>2. DOMAIN at = 1..Len(nodes) /\ at = [i \in 1..Len(nodes) |-> at[i]]
    BY <1>1
  <2>3. K \in SUBSET DOMAIN at
    OBVIOUS
  <2> HIDE DEF at, K
  <2>4. IsSeq(at)
    BY <1>1, <2>2, FunctionIsSeq
  <2>5. IsSeq(KeepAt(at, K))
    BY <2>3, <2>4, KeepAtElements
  <2> QED BY <2>1, <2>5
<1> QED BY <1>2, <1>3

(* A request takes along what its answer needs. *)
LEMMA RequestsCarry ==
    ASSUME EditorInv, [Next]_vars PROVE NetInv'
<1>1. NetInv /\ Sound(drafts) /\ Openable(current)
  BY WhatIsKept DEF AroundInv
<1> SUFFICES jobs' \subseteq jobs \/ \E job : Carries(job) /\ jobs' = jobs \cup {job}
  BY <1>1 DEF NetInv, Carries
<1>2. ASSUME NEW op \in {"look", "merge", "check", "import"}, NEW arg, NEW old
      PROVE  Carries(Job(op, arg, old))
  BY DEF Carries, Job, Ops
<1>3. CASE FormStep
  <2>1. CASE saveConfidential
    <3> DEFINE arg == [id |-> current.conf, type |-> current.value.type,
                       tags |-> working, line |-> confidentialGeometry]
               job == Job("confidential", arg, NoDraft)
    <3>1. jobs' = jobs \cup {job}
      BY <2>1 DEF saveConfidential, Begin
    <3>2. IsSeq(arg.line)
      BY <1>1, ShapeIsSeq
    <3>3. arg = [id |-> arg.id, type |-> arg.type, tags |-> arg.tags, line |-> arg.line]
      OBVIOUS
    <3> HIDE DEF arg
    <3>4. Carries(job)
      BY <3>2, <3>3 DEF Carries, Job, Ops
    <3> QED BY <3>1, <3>4
  <2> QED BY <1>3, <2>1
     DEF FormStep, EditTags, newRelation, discard, SetTab, leave, AddMember, EditMembers, save, net
<1>4. CASE MapStep
  BY <1>4
     DEF MapStep, toggleGeometryMode, place, startAt, addDrawPoint, insertVertex, MoveVertex,
         removeVertex, performSplit, StartPlacing, startDrawing, drawSelectedArea, undoDrawPoint,
         finishDraw, startSplit, endSplit, net
<1>5. CASE DraftStep
  <2>1. CASE Look \/ Check \/ Import \/ \E e \in Osm : e.type = "way" /\ mergeWith(e.id)
    BY <1>2, <2>1 DEF Look, Check, Import, mergeWith, Begin
  <2>2. CASE deleteObject
    <3> DEFINE job == Job("delete", Key(current), Deletion(current.base))
    <3>1. jobs' = jobs \cup {job} /\ ~IsNew(current)
      BY <2>2 DEF deleteObject, Begin
    <3>2. element(current.base, FALSE)
      BY <1>1, <3>1 DEF Openable, IsNew
    <3>3. Carries(job)
      BY <3>2 DEF Carries, Job, Ops, validateDraft, Deletion
    <3> QED BY <3>1, <3>3
  <2>3. ASSUME NEW key \in OsmKeys \cup {Key(drafts[i]) : i \in Alive(drafts)}, load(key)
        PROVE  jobs' \subseteq jobs \/ \E job : Carries(job) /\ jobs' = jobs \cup {job}
    <3> DEFINE d == DraftOf(key)
               job == Job("load", key, d)
    <3>1. jobs' = jobs \/ jobs' = jobs \cup {job}
      BY <2>3 DEF load, Begin, net
    <3>2. d # NoDraft => validateDraft(d) /\ ~d.deleted
      BY <1>1, DraftOfIsKept
    <3>3. d = NoDraft => key \in OsmKeys
      <4> SUFFICES ASSUME NEW i \in Alive(drafts), key = Key(drafts[i]) PROVE d # NoDraft
        OBVIOUS
      <4>1. i \in AliveOf(key) /\ AliveOf(key) \in SUBSET Nat
        BY <1>1, IsSeqProperties DEF AliveOf, Alive, Sound
      <4>2. Min(AliveOf(key)) \in AliveOf(key)
        BY <4>1, MinIsLeast
      <4>3. validateDraft(drafts[Min(AliveOf(key))])
        BY <1>1, <4>2 DEF AliveOf, Alive, Sound, ToSet
      <4> QED BY <4>1, <4>3, DraftShape DEF DraftOf
    <3> HIDE DEF d
    <3>4. Carries(job)
      BY <3>2, <3>3 DEF Carries, Job, Ops
    <3> QED BY <3>1, <3>4
  <2> QED BY <1>5, <2>1, <2>2, <2>3
     DEF DraftStep, OpenDraft, removeDraft, Undelete, openConfidential, deleteConfidential,
         Undo, Redo, net
<1>6. ASSUME NEW job \in jobs, Answer(job) PROVE jobs' \subseteq jobs
  BY <1>6
     DEF Answer, LoadAnswer, LookAnswer, DeleteAnswer, MergeAnswer, CheckAnswer, ImportAnswer,
         ConfidentialAnswer, Finish
<1>7. CASE Reload \/ UNCHANGED vars \/ \E key \in OsmKeys : OsmChanges(key)
  BY <1>7 DEF Reload, OsmChanges, vars, net
<1> QED BY <1>3, <1>4, <1>5, <1>6, <1>7 DEF Next

(* The confidential objects, the versions and what the user may still do. *)
LEMMA WorldIsKept ==
    ASSUME EditorInv, [Next]_vars PROVE WorldInv'
<1>1. NetInv /\ WorldInv
  BY WhatIsKept DEF AroundInv
<1> DEFINE Worked == work' = work \/ Works
           Away == vault' \subseteq vault
           Stored == \E o : IsSeq(o.line) /\ vault' \subseteq vault \cup {o}
           Same == live' = live
           Altered == \E key \in OsmKeys : OsmChanges(key)
<1>2. FormStep => Worked /\ Away /\ Same
  BY DEF FormStep, EditTags, newRelation, discard, SetTab, leave, AddMember, EditMembers, save,
         saveConfidential, world
<1>3. MapStep => Worked /\ Away /\ Same
  BY DEF MapStep, toggleGeometryMode, place, startAt, addDrawPoint, insertVertex, MoveVertex,
         removeVertex, performSplit, StartPlacing, startDrawing, drawSelectedArea, undoDrawPoint,
         finishDraw, startSplit, endSplit, world
<1>4. DraftStep => Worked /\ Away /\ Same
  BY DEF DraftStep, OpenDraft, removeDraft, Undelete, load, mergeWith, openConfidential,
         deleteConfidential, deleteObject, Undo, Redo, Look, Check, Import, world
<1>5. ASSUME NEW job \in jobs, Answer(job) PROVE Worked /\ (Away \/ Stored) /\ Same
  <2>1. CASE ConfidentialAnswer(job)
    <3>1. \/ vault' = vault
          \/ \E id : vault' \subseteq vault \cup {[job.arg EXCEPT !.id = id]}
      BY <2>1 DEF ConfidentialAnswer
    <3>2. /\ job.arg = [id |-> job.arg.id, type |-> job.arg.type,
                        tags |-> job.arg.tags, line |-> job.arg.line]
          /\ IsSeq(job.arg.line)
      BY <1>1, <2>1 DEF NetInv, Carries, ConfidentialAnswer
    <3>3. ASSUME NEW id PROVE [job.arg EXCEPT !.id = id].line = job.arg.line
      BY <3>2
    <3>4. work' = work /\ live' = live
      BY <2>1 DEF ConfidentialAnswer
    <3> QED BY <3>1, <3>2, <3>3, <3>4
  <2> QED BY <1>5, <2>1
     DEF Answer, LoadAnswer, LookAnswer, DeleteAnswer, MergeAnswer, CheckAnswer, ImportAnswer, world
<1>6. Reload \/ UNCHANGED vars => Worked /\ Away /\ Same
  BY DEF Reload, vars, world
<1>7. Altered => Worked /\ Away
  BY DEF OsmChanges
<1>8. Worked /\ (Away \/ Stored) /\ (Same \/ Altered)
  <2> HIDE DEF Worked, Away, Stored, Same, Altered
  <2> QED BY <1>2, <1>3, <1>4, <1>5, <1>6, <1>7 DEF Next, Altered
<1>9. work' \in Nat /\ \E w \in Worlds : work' <= w.work
  <2>1. PICK w \in Worlds : work <= w.work
    BY <1>1 DEF WorldInv
  <2>2. w.work \in Nat /\ work \in Nat
    BY <1>1, EditorAssumption DEF WorldInv
  <2>3. work' \in Nat /\ work' <= w.work
    BY <1>8, <2>1, <2>2 DEF Works
  <2> QED BY <2>3
<1>10. live' \in [OsmKeys -> 0..(MaxLive + 1)]
  <2>1. CASE Same
    BY <1>1, <2>1 DEF WorldInv
  <2>2. ASSUME NEW key \in OsmKeys, OsmChanges(key) PROVE live' \in [OsmKeys -> 0..(MaxLive + 1)]
    <3>1. PICK v \in {0, live[key] + 1} : live' = [live EXCEPT ![key] = v]
      BY <2>2 DEF OsmChanges
    <3>2. live[key] \in 1..MaxLive /\ MaxLive \in Nat /\ live \in [OsmKeys -> 0..(MaxLive + 1)]
      BY <1>1, <2>2, EditorAssumption DEF OsmChanges, WorldInv
    <3>3. v \in 0..(MaxLive + 1)
      BY <3>1, <3>2
    <3> QED BY <3>1, <3>2, <3>3
  <2> QED BY <1>8, <2>1, <2>2
<1>11. \A o \in vault' : IsSeq(o.line)
  BY <1>1, <1>8 DEF WorldInv
<1> QED BY <1>9, <1>10, <1>11 DEF WorldInv, IsSeq, ToSet

-----------------------------------------------------------------------------
(* The history.                                                            *)

(* The end of a sequence from one of its positions on. *)
LEMMA EndIsSeq ==
    ASSUME NEW s, IsSeq(s), NEW k \in 1..Len(s)
    PROVE  /\ IsSeq(SubSeq(s, k, Len(s))) /\ ToSet(SubSeq(s, k, Len(s))) \subseteq ToSet(s)
           /\ Len(SubSeq(s, k, Len(s))) = Len(s) - k + 1
           /\ \A i \in 1..(Len(s) - k + 1) : SubSeq(s, k, Len(s))[i] = s[k + i - 1]
<1>1. Len(s) \in Nat /\ k \in 1..(Len(s) + 1) /\ Len(s) \in 0..Len(s)
  BY IsSeqProperties
<1>2. /\ IsSeq(SubSeq(s, k, Len(s))) /\ ToSet(SubSeq(s, k, Len(s))) \subseteq ToSet(s)
      /\ Len(SubSeq(s, k, Len(s))) = IF k <= Len(s) THEN Len(s) - k + 1 ELSE 0
      /\ \A i \in 1..Len(SubSeq(s, k, Len(s))) : SubSeq(s, k, Len(s))[i] = s[k + i - 1]
  BY <1>1, SubSeqIsSeq
<1>3. Len(SubSeq(s, k, Len(s))) = Len(s) - k + 1
  BY <1>1, <1>2
<1> QED BY <1>2, <1>3

(* What persist keeps of the steps to undo: their end, and the newest one. *)
LEMMA UndoIsCut ==
    ASSUME NEW u, IsSeq(u), Len(u) >= 1,
           NEW k, k = Max({1, Len(u) - UndoLimit + 1})
    PROVE  /\ Len(u) \in Nat /\ k \in 1..Len(u)
           /\ IsSeq(SubSeq(u, k, Len(u))) /\ ToSet(SubSeq(u, k, Len(u))) \subseteq ToSet(u)
           /\ Len(SubSeq(u, k, Len(u))) = Len(u) - k + 1
           /\ \A i \in 1..(Len(u) - k + 1) : SubSeq(u, k, Len(u))[i] = u[k + i - 1]
<1>1. Len(u) \in Nat /\ UndoLimit \in Nat /\ UndoLimit >= 1
  BY IsSeqProperties, EditorAssumption
<1>2. k \in {1, Len(u) - UndoLimit + 1} /\ k >= 1
  <2> DEFINE x == Len(u) - UndoLimit + 1
  <2>1. x \in Int
    BY <1>1
  <2> HIDE DEF x
  <2>2. \E m \in {1, x} : \A y \in {1, x} : m >= y
    <3>1. CASE x >= 1
      BY <2>1, <3>1
    <3>2. CASE ~(x >= 1)
      BY <2>1, <3>2
    <3> QED BY <3>1, <3>2
  <2>3. Max({1, x}) \in {1, x} /\ \A y \in {1, x} : Max({1, x}) >= y
    BY <2>2 DEF Max
  <2> QED BY <2>3 DEF x
<1>3. k \in 1..Len(u)
  BY <1>1, <1>2
<1> QED BY <1>1, <1>3, EndIsSeq

(* A change of the workspace as persist makes it. *)
LEMMA PersistSteps ==
    ASSUME HistoryInv, NEW next, next # drafts, persist(next)
    PROVE  /\ drafts' = next /\ redo' = <<>> /\ stored' \in {next, stored}
           /\ \E k \in 1..(Len(undo) + 1) :
                 /\ undo' = SubSeq(Append(undo, drafts), k, Len(undo) + 1)
                 /\ IsSeq(undo') /\ ToSet(undo') \subseteq ToSet(undo) \cup {drafts}
                 /\ Len(undo') = Len(undo) + 2 - k
                 /\ \A i \in 1..Len(undo') : undo'[i] = Append(undo, drafts)[k + i - 1]
<1> DEFINE u == Append(undo, drafts)
           k == Max({1, Len(u) - UndoLimit + 1})
<1>1. drafts' = next /\ redo' = <<>> /\ stored' \in {next, stored}
  BY DEF persist
<1>2. undo' = SubSeq(u, k, Len(u))
  BY DEF persist
<1>3. IsSeq(undo) /\ Len(undo) \in Nat
  BY IsSeqProperties DEF HistoryInv
<1>4. IsSeq(u) /\ ToSet(u) = ToSet(undo) \cup {drafts}
  BY <1>3, AppendIsSeq
<1>5. Len(u) = Len(undo) + 1
  <2>1. undo \in Seq(ToSet(undo) \cup {drafts}) /\ drafts \in ToSet(undo) \cup {drafts}
    BY <1>3 DEF IsSeq
  <2> QED BY <2>1
<1> HIDE DEF u
<1> SUFFICES /\ k \in 1..Len(u) /\ IsSeq(undo') /\ ToSet(undo') \subseteq ToSet(u)
             /\ Len(undo') = Len(u) - k + 1
             /\ \A i \in 1..(Len(u) - k + 1) : undo'[i] = u[k + i - 1]
  <2> HIDE DEF k
  <2>1. k \in 1..Len(u) => Len(u) - k + 1 = Len(undo) + 2 - k
    BY <1>3, <1>5
  <2> QED BY <1>1, <1>2, <1>4, <1>5, <2>1 DEF u
<1>6. Len(u) >= 1
  BY <1>3, <1>5
<1> QED BY <1>2, <1>4, <1>6, UndoIsCut

(* The history keeps sound workspaces, however it moves. *)
LEMMA HistoryIsKept ==
    ASSUME HistoryInv, HistoryMoves
    PROVE  HistoryInv'
<1>1. /\ IsSeq(undo) /\ IsSeq(redo) /\ Sound(drafts) /\ Sound(stored)
      /\ \A ds \in ToSet(undo) : Sound(ds)
      /\ \A ds \in ToSet(redo) : Sound(ds)
  BY DEF HistoryInv
<1>2. Sound(<<>>)
  <2>1. DOMAIN <<>> = {}
    OBVIOUS
  <2> QED BY <2>1, EmptyIsSeq DEF Sound, checkReferences, Alive
<1> SUFFICES /\ IsSeq(undo') /\ IsSeq(redo') /\ Sound(drafts') /\ Sound(stored')
             /\ \A ds \in ToSet(undo') : Sound(ds)
             /\ \A ds \in ToSet(redo') : Sound(ds)
  <2>1. ASSUME NEW ds \in ({drafts, stored} \cup ToSet(undo) \cup ToSet(redo))'
        PROVE  Sound(ds)
    <3>1. ds = drafts' \/ ds = stored' \/ ds \in ToSet(undo') \/ ds \in ToSet(redo')
      BY <2>1 DEF ToSet
    <3> QED BY <3>1
  <2> QED BY <2>1 DEF HistoryInv, IsSeq, ToSet, Sound, checkReferences
<1>3. CASE UNCHANGED history
  <2>1. drafts' = drafts /\ undo' = undo /\ redo' = redo /\ stored' = stored
    BY <1>3 DEF history
  <2> QED BY <1>1, <2>1
<1>4. ASSUME NEW next, persist(next), Sound(next)
      PROVE  /\ IsSeq(undo') /\ IsSeq(redo') /\ Sound(drafts') /\ Sound(stored')
             /\ \A ds \in ToSet(undo') : Sound(ds)
             /\ \A ds \in ToSet(redo') : Sound(ds)
  <2>1. CASE next = drafts
    <3>1. drafts' = drafts /\ undo' = undo /\ redo' = redo /\ stored' \in {next, stored}
      BY <1>4, <2>1 DEF persist
    <3> QED BY <1>1, <1>4, <3>1
  <2>2. CASE next # drafts
    <3>1. drafts' = next /\ redo' = <<>> /\ stored' \in {next, stored}
      BY <1>4, <2>2, PersistSteps
    <3>2. IsSeq(undo') /\ ToSet(undo') \subseteq ToSet(undo) \cup {drafts}
      BY <1>4, <2>2, PersistSteps
    <3> QED BY <1>1, <1>4, <3>1, <3>2, EmptyIsSeq
  <2> QED BY <2>1, <2>2
<1>5. CASE Undo
  <2>1. /\ undo # <<>> /\ drafts' = Last(undo) /\ undo' = Front(undo)
        /\ redo' = Append(redo, drafts) /\ stored' \in {drafts', stored}
    BY <1>5 DEF Undo
  <2>2. /\ Last(undo) \in ToSet(undo) /\ IsSeq(Front(undo))
        /\ ToSet(Front(undo)) \subseteq ToSet(undo)
    BY <1>1, <2>1, FrontIsSeq
  <2>3. IsSeq(redo') /\ ToSet(redo') = ToSet(redo) \cup {drafts}
    BY <1>1, <2>1, AppendIsSeq
  <2> QED BY <1>1, <2>1, <2>2, <2>3
<1>6. CASE Redo
  <2>1. /\ redo # <<>> /\ drafts' = Last(redo) /\ redo' = Front(redo)
        /\ undo' = Append(undo, drafts) /\ stored' \in {drafts', stored}
    BY <1>6 DEF Redo
  <2>2. /\ Last(redo) \in ToSet(redo) /\ IsSeq(Front(redo))
        /\ ToSet(Front(redo)) \subseteq ToSet(redo)
    BY <1>1, <2>1, FrontIsSeq
  <2>3. IsSeq(undo') /\ ToSet(undo') = ToSet(undo) \cup {drafts}
    BY <1>1, <2>1, AppendIsSeq
  <2> QED BY <1>1, <2>1, <2>2, <2>3
<1>7. CASE Reload
  <2>1. drafts' \in {stored, <<>>} /\ undo' = <<>> /\ redo' = <<>> /\ stored' = stored
    BY <1>7 DEF Reload, restore
  <2> QED BY <1>1, <1>2, <2>1, EmptyIsSeq
<1> QED BY <1>3, <1>4, <1>5, <1>6, <1>7 DEF HistoryMoves

(* So do the points of a drawing. *)
LEMMA PenIsKept ==
    ASSUME PenInv, PenMoves
    PROVE  PenInv'
<1>1. IsSeq(points) /\ \A p \in ToSet(points) : IsPoint(p)
  BY DEF PenInv
<1> SUFFICES IsSeq(points') /\ \A p \in ToSet(points') : IsPoint(p)
  BY DEF PenInv, IsSeq, ToSet
<1>2. CASE points' = points \/ points' = <<>>
  BY <1>1, <1>2, EmptyIsSeq
<1>3. ASSUME NEW p, IsPoint(p), points' = Append(points, p)
      PROVE  IsSeq(points') /\ \A q \in ToSet(points') : IsPoint(q)
  BY <1>1, <1>3, AppendIsSeq
<1>4. CASE points # <<>> /\ points' = Front(points)
  BY <1>1, <1>4, FrontIsSeq
<1> QED BY <1>2, <1>3, <1>4 DEF PenMoves

-----------------------------------------------------------------------------
(* The inductive invariant and what it gives.                              *)

(* The editor is created with no drafts and nothing open. *)
LEMMA EditorBegins ==
    ASSUME Init PROVE EditorInv
<1>1. /\ drafts = <<>> /\ undo = <<>> /\ redo = <<>> /\ stored = <<>>
      /\ points = <<>> /\ current = Nothing /\ members = <<>> /\ dirty = FALSE
      /\ busy = FALSE /\ placing = FALSE /\ geometry = FALSE /\ split = FALSE
      /\ drawing = "no" /\ jobs = {}
  BY DEF Init, Fresh
<1>2. HistoryInv
  <2>1. Sound(<<>>)
    <3>1. DOMAIN <<>> = {}
      OBVIOUS
    <3> QED BY <3>1, EmptyIsSeq DEF Sound, checkReferences, Alive
  <2> QED BY <1>1, <2>1, EmptyIsSeq DEF HistoryInv
<1>3. FormInv
  BY <1>1, NothingIsOpenable DEF FormInv
<1>4. PenInv
  BY <1>1, EmptyIsSeq DEF PenInv
<1>5. ToolsInv /\ NetInv
  BY <1>1 DEF ToolsInv, NetInv
<1>6. WorldInv
  <2>1. PICK w \in Worlds : /\ vault = w.vault /\ work = w.work
                            /\ live = [k \in OsmKeys |-> IF k \in w.osm THEN w.version ELSE 0]
    BY DEF Init
  <2>2. /\ w.work \in Nat /\ w.version \in 1..(MaxLive + 1) /\ MaxLive \in Nat
        /\ \A o \in w.vault : IsSeq(o.line)
    BY EditorAssumption DEF IsSeq
  <2>3. live \in [OsmKeys -> 0..(MaxLive + 1)]
    BY <2>1, <2>2
  <2>4. work <= w.work
    BY <2>1, <2>2
  <2> QED BY <2>1, <2>2, <2>3, <2>4 DEF WorldInv
<1> QED BY <1>2, <1>3, <1>4, <1>5, <1>6 DEF EditorInv, AroundInv

(* The editor keeps only workspaces of elements that fit, without an issue,
   and opens only what it can go on with, whatever the user, the answers to
   earlier requests, imports and reloads do. *)
THEOREM EditorInvariant == Spec => []EditorInv
<1>1. Init => EditorInv
  BY EditorBegins
<1>2. EditorInv /\ [Next]_vars => EditorInv'
  <2> SUFFICES ASSUME EditorInv, [Next]_vars PROVE EditorInv'
    OBVIOUS
  <2>1. HistoryInv /\ PenInv /\ ToolsInv /\ Moves
    BY EveryStepMoves DEF EditorInv, AroundInv
  <2>2. HistoryInv' /\ FormInv' /\ PenInv'
    BY <2>1, HistoryIsKept, PenIsKept DEF Moves
  <2>3. AroundInv'
    BY <2>1, ToolsAreKept, RequestsCarry, WorldIsKept DEF AroundInv
  <2> QED BY <2>2, <2>3 DEF EditorInv
<1> QED BY <1>1, <1>2, PTL DEF Spec

(* Every draft, now, in the history and in localStorage, is one that
   validateDraft accepts, and so is every node that waits in the form; only
   an open object is changed, every point of a drawing has a position, and
   the flags and requests are those of the source. *)
THEOREM EditorTypeCorrect == Spec => []EditorTypeOK
<1>1. EditorInv => EditorTypeOK
  <2> SUFFICES ASSUME EditorInv PROVE EditorTypeOK
    OBVIOUS
  <2>1. ASSUME NEW ds, IsSeq(ds), NEW i \in DOMAIN ds PROVE ds[i] \in ToSet(ds)
    BY DEF ToSet
  <2>2. HistoryInv /\ Openable(current) /\ PenInv /\ ToolsInv /\ NetInv /\ WorldInv
        /\ dirty \in BOOLEAN /\ (current = Nothing => ~dirty)
    BY DEF EditorInv, FormInv, AroundInv
  <2>3. \A ds \in {drafts, stored} \cup ToSet(undo) \cup ToSet(redo) :
            \A i \in DOMAIN ds : validateDraft(ds[i])
    BY <2>1, <2>2 DEF HistoryInv, Sound
  <2>4. /\ current = Nothing \/ current.value.type \in Types
        /\ \A i \in DOMAIN current.pending : validateDraft(current.pending[i])
    BY <2>1, <2>2 DEF Openable, Waits
  <2>5. \A i \in DOMAIN points : points[i].at # Nowhere
    BY <2>1, <2>2 DEF PenInv, IsPoint
  <2> QED BY <2>2, <2>3, <2>4, <2>5
          DEF EditorTypeOK, IsOpen, ToolsInv, NetInv, Carries, WorldInv
<1> QED BY <1>1, EditorInvariant, PTL

(* Every workspace there is, now, in the history and in localStorage, can be
   checked without an issue: references resolve, nothing deleted is used and
   no vertex is left over, in persist, undo, redo and restore. *)
THEOREM WorkspacesStaySound == Spec => []WorkspacesAreSound
<1>1. EditorInv => WorkspacesAreSound
  BY DEF EditorInv, HistoryInv, Sound, WorkspacesAreSound
<1> QED BY <1>1, EditorInvariant, PTL

-----------------------------------------------------------------------------
(* The line of workspaces.                                                 *)

(* Two sequences with the same elements at the same places are the same. *)
LEMMA SameSequence ==
    ASSUME NEW s, IsSeq(s), NEW t, IsSeq(t), Len(s) = Len(t),
           \A i \in 1..Len(s) : s[i] = t[i]
    PROVE  s = t
<1>1. s = [i \in 1..Len(s) |-> s[i]] /\ t = [i \in 1..Len(t) |-> t[i]]
  BY IsSeqProperties
<1> QED BY <1>1

(* What these sequences are, element by element: l is s and then t, l is s
   backwards, l is the line of a, d and b, and s agrees with the end of t. *)
IsConcat(l, s, t) ==
    /\ IsSeq(l) /\ Len(s) \in Nat /\ Len(t) \in Nat /\ Len(l) = Len(s) + Len(t)
    /\ \A i \in 1..Len(s) : l[i] = s[i]
    /\ \A i \in 1..Len(t) : l[Len(s) + i] = t[i]
IsReverse(l, s) ==
    /\ IsSeq(l) /\ Len(s) \in Nat /\ Len(l) = Len(s)
    /\ \A i \in 1..Len(s) : l[i] = s[Len(s) - i + 1]
Line(a, d, b) == a \o <<d>> \o Reverse(b)
IsLine(l, a, d, b) ==
    /\ IsSeq(l) /\ Len(a) \in Nat /\ Len(b) \in Nat
    /\ Len(l) = Len(a) + Len(b) + 1
    /\ \A i \in 1..Len(a) : l[i] = a[i]
    /\ l[Len(a) + 1] = d
    /\ \A i \in 1..Len(b) : l[Len(a) + 1 + i] = b[Len(b) - i + 1]
IsEnd(s, t, k) ==
    /\ k \in Nat /\ Len(t) = Len(s) + k
    /\ \A i \in 1..Len(s) : s[i] = t[i + k]
IsCut(u, k, c) ==
    /\ k \in 1..Len(c) /\ Len(u) = Len(c) + 1 - k
    /\ \A i \in 1..Len(u) : u[i] = c[k + i - 1]

(* Short sequences, and one with an element more. *)
LEMMA FewAreSeq ==
    ASSUME NEW d, NEW e
    PROVE  /\ IsSeq(<<d>>) /\ Len(<<d>>) = 1 /\ <<d>>[1] = d
           /\ IsSeq(<<d, e>>) /\ Len(<<d, e>>) = 2 /\ <<d, e>>[1] = d /\ <<d, e>>[2] = e
<1> DEFINE S == {d, e}
<1>1. <<d>> \in Seq(S) /\ <<d, e>> \in Seq(S)
  OBVIOUS
<1> HIDE DEF S
<1>2. IsSeq(<<d>>) /\ IsSeq(<<d, e>>)
  BY <1>1, SequenceIsSeq
<1> QED BY <1>2

(* A sequence with an element more, element by element. *)
LEMMA AppendElements ==
    ASSUME NEW a, IsSeq(a), NEW d
    PROVE  IsConcat(Append(a, d), a, <<d>>)
<1>1. a \in Seq(ToSet(a) \cup {d}) /\ d \in ToSet(a) \cup {d}
  BY DEF IsSeq
<1>2. /\ Len(a) \in Nat /\ Len(Append(a, d)) = Len(a) + 1 /\ Len(<<d>>) = 1
      /\ Append(a, d)[Len(a) + 1] = d /\ <<d>>[1] = d
  BY <1>1
<1>3. \A i \in 1..Len(a) : Append(a, d)[i] = a[i]
  BY <1>1
<1>4. \A i \in 1..Len(<<d>>) : Append(a, d)[Len(a) + i] = <<d>>[i]
  <2>1. \A i \in 1..Len(<<d>>) : i = 1
    BY <1>2
  <2> QED BY <1>2, <2>1
<1>5. IsSeq(Append(a, d))
  BY AppendIsSeq
<1> QED BY <1>2, <1>3, <1>4, <1>5 DEF IsConcat

(* The elements of two sequences, one behind the other. *)
LEMMA ConcatElements ==
    ASSUME NEW s, IsSeq(s), NEW t, IsSeq(t)
    PROVE  IsConcat(s \o t, s, t)
<1> DEFINE S == ToSet(s) \cup ToSet(t)
<1>1. s \in Seq(S) /\ t \in Seq(S)
  BY DEF IsSeq
<1>2. Len(s) \in Nat /\ Len(t) \in Nat
  BY IsSeqProperties
<1> HIDE DEF S
<1>3. /\ Len(s \o t) = Len(s) + Len(t)
      /\ \A i \in 1..(Len(s) + Len(t)) :
             (s \o t)[i] = IF i <= Len(s) THEN s[i] ELSE t[i - Len(s)]
  BY <1>1, ConcatProperties
<1>4. \A i \in 1..Len(s) : i \in 1..(Len(s) + Len(t)) /\ i <= Len(s)
  BY <1>2
<1>5. \A i \in 1..Len(t) : /\ Len(s) + i \in 1..(Len(s) + Len(t))
                           /\ ~(Len(s) + i <= Len(s)) /\ Len(s) + i - Len(s) = i
  BY <1>2
<1>6. IsSeq(s \o t)
  BY ConcatIsSeq
<1>7. \A i \in 1..Len(s) : (s \o t)[i] = s[i]
  BY <1>3, <1>4
<1>8. \A i \in 1..Len(t) : (s \o t)[Len(s) + i] = t[i]
  BY <1>3, <1>5
<1> QED BY <1>2, <1>3, <1>6, <1>7, <1>8 DEF IsConcat

(* A sequence backwards. *)
LEMMA ReverseIsSeq ==
    ASSUME NEW s, IsSeq(s)
    PROVE  IsReverse(Reverse(s), s)
<1>1. Len(s) \in Nat
  BY IsSeqProperties
<1>2. Reverse(s) = [i \in 1..Len(s) |-> s[Len(s) - i + 1]]
  BY DEF Reverse
<1>3. Reverse(s) = [i \in 1..Len(s) |-> Reverse(s)[i]]
  BY <1>2
<1>4. IsSeq(Reverse(s)) /\ Len(Reverse(s)) = Len(s)
  BY <1>1, <1>3, FunctionIsSeq
<1> QED BY <1>1, <1>2, <1>4 DEF IsReverse

(* The beginning of a sequence. *)
LEMMA BeginningIsSeq ==
    ASSUME NEW s, IsSeq(s), NEW n \in 1..Len(s)
    PROVE  /\ IsSeq(SubSeq(s, 1, n)) /\ Len(SubSeq(s, 1, n)) = n
           /\ \A i \in 1..n : SubSeq(s, 1, n)[i] = s[i]
<1>1. Len(s) \in Nat /\ 1 \in 1..(Len(s) + 1) /\ n \in 0..Len(s)
  BY IsSeqProperties
<1>2. /\ IsSeq(SubSeq(s, 1, n)) /\ Len(SubSeq(s, 1, n)) = IF 1 <= n THEN n - 1 + 1 ELSE 0
      /\ \A i \in 1..Len(SubSeq(s, 1, n)) : SubSeq(s, 1, n)[i] = s[1 + i - 1]
  BY <1>1, SubSeqIsSeq
<1>3. Len(SubSeq(s, 1, n)) = n
  BY <1>1, <1>2
<1> QED BY <1>1, <1>2, <1>3

(* One sequence ends another if it agrees with it from some place on. *)
LEMMA SuffixAt ==
    ASSUME NEW s, IsSeq(s), NEW t, IsSeq(t), NEW k, IsEnd(s, t, k)
    PROVE  IsSuffix(s, t)
<1> DEFINE a == Reverse(s)
           b == Reverse(t)
<1>1. /\ Len(s) \in Nat /\ Len(t) \in Nat /\ k \in Nat /\ Len(t) = Len(s) + k
      /\ \A i \in 1..Len(s) : s[i] = t[i + k]
  BY IsSeqProperties DEF IsEnd
<1>2. /\ IsSeq(a) /\ Len(a) = Len(s) /\ \A i \in 1..Len(s) : a[i] = s[Len(s) - i + 1]
      /\ IsSeq(b) /\ Len(b) = Len(t) /\ \A i \in 1..Len(t) : b[i] = t[Len(t) - i + 1]
  <2>1. IsReverse(a, s) /\ IsReverse(b, t)
    BY ReverseIsSeq
  <2> HIDE DEF a, b
  <2> QED BY <2>1 DEF IsReverse
<1>3. ASSUME NEW i \in 1..Len(s) PROVE a[i] = b[i]
  <2>1. /\ Len(s) - i + 1 \in 1..Len(s) /\ i \in 1..Len(t)
        /\ Len(t) - i + 1 = (Len(s) - i + 1) + k
    BY <1>1
  <2> HIDE DEF a, b
  <2> QED BY <1>1, <1>2, <2>1
<1> HIDE DEF a, b
<1>4. CASE Len(a) = 0
  <2>1. IsPrefix(<<>>, b)
    <3>1. SubSeq(<<>>, 1, 0) = <<>> /\ Len(<<>>) = 0
      OBVIOUS
    <3>2. 1 \in 1..(Len(b) + 1) /\ 0 \in 0..Len(b)
      BY <1>1, <1>2
    <3>3. IsSeq(SubSeq(b, 1, 0)) /\ Len(SubSeq(b, 1, 0)) = IF 1 <= 0 THEN 0 - 1 + 1 ELSE 0
      BY <1>2, <3>2, SubSeqIsSeq
    <3>4. SubSeq(b, 1, 0) = <<>>
      <4>1. Len(SubSeq(b, 1, 0)) = 0
        BY <3>3
      <4> QED BY <3>3, <4>1, <3>1, EmptyIsSeq, SameSequence
    <3> QED BY <1>1, <1>2, <3>1, <3>4 DEF IsPrefix
  <2>2. a = <<>>
    <3>1. Len(<<>>) = 0
      OBVIOUS
    <3> QED BY <1>2, <1>4, <3>1, EmptyIsSeq, SameSequence
  <2> QED BY <2>1, <2>2 DEF IsSuffix, a, b
<1>5. CASE Len(a) # 0
  <2> DEFINE n == Len(a)
  <2>1. /\ n \in Nat /\ n >= 1 /\ n <= Len(b) /\ 1 \in 1..(n + 1) /\ n \in 0..n
        /\ 1 \in 1..(Len(b) + 1) /\ n \in 0..Len(b)
    BY <1>1, <1>2, <1>5
  <2>2. /\ IsSeq(SubSeq(a, 1, n)) /\ Len(SubSeq(a, 1, n)) = n
        /\ \A i \in 1..n : SubSeq(a, 1, n)[i] = a[i]
    BY <1>2, <2>1, BeginningIsSeq
  <2>3. /\ IsSeq(SubSeq(b, 1, n)) /\ Len(SubSeq(b, 1, n)) = n
        /\ \A i \in 1..n : SubSeq(b, 1, n)[i] = b[i]
    <3> HIDE DEF n
    <3>1. n \in 1..Len(b)
      BY <1>1, <1>2, <2>1
    <3> QED BY <1>2, <3>1, BeginningIsSeq
  <2>6. SubSeq(a, 1, n) = SubSeq(b, 1, n)
    BY <1>2, <1>3, <2>2, <2>3, SameSequence
  <2> QED BY <2>1, <2>6 DEF IsSuffix, IsPrefix, a, b
<1> QED BY <1>4, <1>5

(* The steps to undo, the workspace and those to redo, in one line. *)
LEMMA LineElements ==
    ASSUME NEW a, IsSeq(a), NEW d, NEW b, IsSeq(b)
    PROVE  IsLine(Line(a, d, b), a, d, b)
<1> DEFINE r == Reverse(b)
           e == <<d>>
           m == a \o e
           l == m \o r
<1>1. IsReverse(r, b) /\ IsSeq(e) /\ Len(e) = 1 /\ e[1] = d
  BY ReverseIsSeq, FewAreSeq
<1>2. Line(a, d, b) = l
  BY DEF Line
<1> HIDE DEF r, e
<1>3. IsConcat(m, a, e)
  BY <1>1, ConcatElements
<1>4. IsSeq(m) /\ IsSeq(r)
  BY <1>1, <1>3 DEF IsConcat, IsReverse
<1> HIDE DEF m
<1>5. IsConcat(l, m, r)
  BY <1>4, ConcatElements
<1> HIDE DEF l
<1>6. /\ Len(a) \in Nat /\ Len(m) = Len(a) + 1 /\ 1 \in 1..Len(e)
      /\ \A i \in 1..Len(a) : m[i] = a[i]
      /\ m[Len(a) + 1] = d
  BY <1>1, <1>3 DEF IsConcat
<1>7. /\ IsSeq(l) /\ Len(l) = Len(m) + Len(r)
      /\ \A i \in 1..Len(m) : l[i] = m[i]
      /\ \A i \in 1..Len(r) : l[Len(m) + i] = r[i]
  BY <1>5 DEF IsConcat
<1>8. /\ Len(b) \in Nat /\ Len(r) = Len(b)
      /\ \A i \in 1..Len(b) : r[i] = b[Len(b) - i + 1]
  BY <1>1 DEF IsReverse
<1>9. \A i \in 1..Len(a) : l[i] = a[i]
  <2>1. \A i \in 1..Len(a) : i \in 1..Len(m)
    BY <1>6
  <2> QED BY <1>6, <1>7, <2>1
<1>10. l[Len(a) + 1] = d
  <2>1. Len(a) + 1 \in 1..Len(m)
    BY <1>6
  <2> QED BY <1>6, <1>7, <2>1
<1>11. \A i \in 1..Len(b) : l[Len(a) + 1 + i] = b[Len(b) - i + 1]
  BY <1>6, <1>7, <1>8
<1>12. Len(l) = Len(a) + Len(b) + 1
  BY <1>6, <1>7, <1>8
<1>13. IsLine(l, a, d, b)
  BY <1>6, <1>7, <1>8, <1>9, <1>10, <1>11, <1>12 DEF IsLine
<1> QED BY <1>2, <1>13

(* A step along the line, in either direction, is no other line. *)
LEMMA LineIsWalked ==
    ASSUME NEW a, IsSeq(a), a # <<>>, NEW d, NEW b, IsSeq(b)
    PROVE  Line(a, d, b) = Line(Front(a), Last(a), Append(b, d))
<1> DEFINE l == Line(a, d, b)
           f == Front(a)
           e == Last(a)
           c == Append(b, d)
           k == Line(f, e, c)
<1>1. /\ Len(a) \in Nat /\ Len(a) >= 1 /\ e = a[Len(a)] /\ IsSeq(f) /\ Len(f) = Len(a) - 1
      /\ \A i \in 1..(Len(a) - 1) : f[i] = a[i]
  BY FrontIsSeq
<1>2. /\ IsSeq(c) /\ Len(b) \in Nat /\ Len(c) = Len(b) + 1
      /\ \A i \in 1..Len(b) : c[i] = b[i]
      /\ c[Len(b) + 1] = d
  <2> DEFINE o == <<d>>
  <2>1. IsConcat(c, b, o) /\ Len(o) = 1 /\ o[1] = d
    BY AppendElements, FewAreSeq
  <2> HIDE DEF c, o
  <2> QED BY <2>1 DEF IsConcat
<1>3. IsLine(l, a, d, b)
  BY LineElements
<1> HIDE DEF l, f, e, c
<1>4. IsLine(k, f, e, c)
  BY <1>1, <1>2, LineElements
<1> HIDE DEF k
<1>5. Len(l) = Len(k)
  BY <1>1, <1>2, <1>3, <1>4 DEF IsLine
<1>6. ASSUME NEW i \in 1..Len(l) PROVE l[i] = k[i]
  <2>1. CASE i <= Len(a) - 1
    <3>1. i \in 1..(Len(a) - 1) /\ i \in 1..Len(a) /\ i \in 1..Len(f)
      BY <1>1, <1>2, <1>3, <2>1 DEF IsLine
    <3> QED BY <1>1, <1>3, <1>4, <3>1 DEF IsLine
  <2>2. CASE i = Len(a)
    <3>1. i \in 1..Len(a) /\ i = Len(f) + 1
      BY <1>1, <2>2
    <3> QED BY <1>1, <1>3, <1>4, <2>2, <3>1 DEF IsLine
  <2>3. CASE i = Len(a) + 1
    <3>1. 1 \in 1..Len(c) /\ i = Len(f) + 1 + 1 /\ Len(c) - 1 + 1 = Len(b) + 1
      BY <1>1, <1>2, <2>3
    <3>2. k[Len(f) + 1 + 1] = c[Len(c) - 1 + 1]
      BY <1>4, <3>1 DEF IsLine
    <3> QED BY <1>2, <1>3, <2>3, <3>1, <3>2 DEF IsLine
  <2>4. CASE i > Len(a) + 1
    <3> DEFINE j == i - Len(a) - 1
    <3>1. /\ j \in 1..Len(b) /\ i = Len(a) + 1 + j
          /\ j + 1 \in 1..Len(c) /\ i = Len(f) + 1 + (j + 1)
          /\ Len(c) - (j + 1) + 1 = Len(b) - j + 1 /\ Len(b) - j + 1 \in 1..Len(b)
      BY <1>1, <1>2, <1>3, <2>4 DEF IsLine
    <3> HIDE DEF j
    <3>2. l[i] = b[Len(b) - j + 1] /\ k[i] = c[Len(c) - (j + 1) + 1]
      BY <1>3, <1>4, <3>1 DEF IsLine
    <3> QED BY <1>2, <3>1, <3>2
  <2> QED BY <1>1, <1>2, <1>3, <2>1, <2>2, <2>3, <2>4 DEF IsLine
<1>7. l = k
  BY <1>3, <1>4, <1>5, <1>6, SameSequence DEF IsLine
<1> QED BY <1>7 DEF l, k, f, e, c

(* And back: the line before a redo is the line after the undo of it. *)
LEMMA LineIsTaken ==
    ASSUME NEW a, IsSeq(a), NEW d, NEW b, IsSeq(b), b # <<>>
    PROVE  Line(Append(a, d), Last(b), Front(b)) = Line(a, d, b)
<1>1. IsSeq(Append(a, d)) /\ IsSeq(Front(b))
  BY AppendIsSeq, FrontIsSeq
<1>2. Append(a, d) # <<>> /\ Front(Append(a, d)) = a /\ Last(Append(a, d)) = d
  <2> DEFINE o == <<d>>
             c == Append(a, d)
  <2>1. IsConcat(c, a, o) /\ Len(o) = 1 /\ o[1] = d
    BY AppendElements, FewAreSeq
  <2> HIDE DEF c, o
  <2>2. /\ IsSeq(c) /\ Len(a) \in Nat /\ Len(c) = Len(a) + 1 /\ c[Len(a) + 1] = d
        /\ \A i \in 1..Len(a) : c[i] = a[i]
    BY <2>1 DEF IsConcat
  <2>3. Len(<<>>) = 0 /\ c # <<>>
    BY <2>2
  <2>4. /\ IsSeq(Front(c)) /\ Len(Front(c)) = Len(a)
        /\ \A i \in 1..Len(a) : Front(c)[i] = c[i]
        /\ Last(c) = c[Len(c)]
    <3>1. /\ IsSeq(Front(c)) /\ Len(Front(c)) = Len(c) - 1
          /\ \A i \in 1..(Len(c) - 1) : Front(c)[i] = c[i]
          /\ Last(c) = c[Len(c)]
      BY <2>2, <2>3, FrontIsSeq
    <3>2. Len(c) - 1 = Len(a)
      BY <2>2
    <3> QED BY <3>1, <3>2
  <2>5. Front(c) = a
    BY <2>2, <2>4, SameSequence
  <2> QED BY <2>2, <2>3, <2>4, <2>5 DEF c
<1>3. Append(Front(b), Last(b)) = b
  <2>1. /\ Len(b) \in Nat /\ Len(b) >= 1 /\ Last(b) = b[Len(b)] /\ IsSeq(Front(b))
        /\ Len(Front(b)) = Len(b) - 1 /\ \A i \in 1..(Len(b) - 1) : Front(b)[i] = b[i]
    BY FrontIsSeq
  <2> DEFINE f == Front(b)
             l == Last(b)
             c == Append(f, l)
             o == <<l>>
  <2> HIDE DEF f, l
  <2>2. IsSeq(f)
    BY <2>1 DEF f
  <2>3. IsConcat(c, f, o) /\ Len(o) = 1 /\ o[1] = l
    BY <2>2, AppendElements, FewAreSeq
  <2> HIDE DEF c, o
  <2>4. \A i \in 1..Len(f) : c[i] = f[i]
    BY <2>3 DEF IsConcat
  <2>5. IsSeq(c) /\ Len(c) = Len(f) + 1 /\ c[Len(f) + 1] = l
    BY <2>3 DEF IsConcat
  <2>6. Len(c) = Len(b)
    BY <2>1, <2>5 DEF f
  <2>7. ASSUME NEW i \in 1..Len(b) PROVE c[i] = b[i]
    <3>1. CASE i = Len(b)
      BY <2>1, <2>5, <3>1 DEF f, l
    <3>2. CASE i # Len(b)
      <4>1. i \in 1..(Len(b) - 1) /\ i \in 1..Len(f)
        BY <2>1, <3>2 DEF f
      <4> QED BY <2>1, <2>4, <4>1 DEF f
    <3> QED BY <3>1, <3>2
  <2>8. c = b
    BY <2>5, <2>6, <2>7, SameSequence
  <2> QED BY <2>8 DEF c, f, l
<1>4. ASSUME NEW x, IsSeq(x), x # <<>>, NEW y, IsSeq(y)
      PROVE  Line(x, Last(b), y) = Line(Front(x), Last(x), Append(y, Last(b)))
  BY <1>4, LineIsWalked
<1> QED BY <1>1, <1>2, <1>3, <1>4

(* A change leaves the end of the steps to undo with the new workspace. *)
LEMMA LineIsCut ==
    ASSUME NEW a, IsSeq(a), NEW d, NEW e, NEW k, NEW u, IsSeq(u),
           IsCut(u, k, Append(a, d))
    PROVE  IsSuffix(Line(u, e, <<>>), a \o <<d, e>>) /\ Len(u) > 0
<1> DEFINE n == <<>>
           s == Line(u, e, n)
           p == <<d, e>>
           t == a \o p
           c == Append(a, d)
           o == <<d>>
<1>1. IsConcat(c, a, o) /\ Len(o) = 1 /\ o[1] = d
  BY AppendElements, FewAreSeq
<1>2. IsSeq(p) /\ Len(p) = 2 /\ p[1] = d /\ p[2] = e
  BY FewAreSeq
<1>3. IsSeq(n) /\ Len(n) = 0
  BY EmptyIsSeq
<1>4. IsCut(u, k, c)
  OBVIOUS
<1> HIDE DEF p, c, o, n
<1>5. IsConcat(t, a, p)
  BY <1>2, ConcatElements
<1>6. IsLine(s, u, e, n)
  BY <1>3, LineElements
<1> HIDE DEF s, t
<1>7. /\ IsSeq(t) /\ Len(a) \in Nat /\ Len(t) = Len(a) + 2
      /\ \A i \in 1..Len(a) : t[i] = a[i]
      /\ t[Len(a) + 1] = d /\ t[Len(a) + 2] = e
  <2>1. 1 \in 1..Len(p) /\ 2 \in 1..Len(p)
    BY <1>2
  <2> QED BY <1>2, <1>5, <2>1 DEF IsConcat
<1>8. /\ Len(c) = Len(a) + 1 /\ c[Len(a) + 1] = d
      /\ \A i \in 1..Len(a) : c[i] = a[i]
  BY <1>1 DEF IsConcat
<1>9. ASSUME NEW i \in 1..Len(c) PROVE c[i] = t[i]
  <2>1. i \in 1..Len(a) \/ i = Len(a) + 1
    BY <1>7, <1>8
  <2> QED BY <1>7, <1>8, <2>1
<1>10. /\ IsSeq(s) /\ Len(u) \in Nat /\ Len(s) = Len(u) + 1
       /\ \A i \in 1..Len(u) : s[i] = u[i]
       /\ s[Len(u) + 1] = e
  BY <1>3, <1>6 DEF IsLine
<1>11. /\ k \in 1..(Len(a) + 1) /\ Len(u) = Len(a) + 2 - k
       /\ \A i \in 1..Len(u) : u[i] = c[k + i - 1]
  BY <1>4, <1>7, <1>8 DEF IsCut
<1>12. k - 1 \in Nat /\ Len(t) = Len(s) + (k - 1) /\ Len(u) > 0
  BY <1>7, <1>10, <1>11
<1>13. ASSUME NEW i \in 1..Len(s) PROVE s[i] = t[i + (k - 1)]
  <2>1. CASE i = Len(u) + 1
    <3>1. i + (k - 1) = Len(a) + 2
      BY <1>7, <1>11, <2>1
    <3> QED BY <1>7, <1>10, <2>1, <3>1
  <2>2. CASE i # Len(u) + 1
    <3>1. i \in 1..Len(u) /\ k + i - 1 = i + (k - 1) /\ k + i - 1 \in 1..Len(c)
      BY <1>7, <1>8, <1>10, <1>11, <2>2
    <3>2. s[i] = c[k + i - 1]
      BY <1>10, <1>11, <3>1
    <3> QED BY <1>9, <3>1, <3>2
  <2> QED BY <2>1, <2>2
<1>14. IsEnd(s, t, k - 1)
  BY <1>12, <1>13 DEF IsEnd
<1>15. IsSuffix(s, t)
  BY <1>7, <1>10, <1>14, SuffixAt
<1> QED BY <1>12, <1>15 DEF s, t, p, n

(* Undo and redo walk along one line of workspaces, which a change cuts off
   behind the current one and which nothing else alters; a reload begins a
   new one: persist, undo and redo of the source. *)
THEOREM HistoryStaysALine == Spec => HistoryIsALine
<1> DEFINE A == \/ Timeline' = Timeline
                \/ IsSuffix(Timeline', undo \o <<drafts, drafts'>>) /\ Len(undo') > 0
                \/ Reload
<1>1. EditorInv /\ [Next]_vars => A
  <2> SUFFICES ASSUME EditorInv, [Next]_vars PROVE A
    OBVIOUS
  <2>1. HistoryInv /\ HistoryMoves /\ IsSeq(undo) /\ IsSeq(redo)
    BY EveryStepMoves DEF EditorInv, HistoryInv, Moves
  <2>2. CASE UNCHANGED history
    BY <2>2 DEF history, Timeline
  <2>3. ASSUME NEW next, persist(next) PROVE A
    <3>1. CASE next = drafts
      <4>1. drafts' = drafts /\ undo' = undo /\ redo' = redo
        BY <2>3, <3>1 DEF persist
      <4> QED BY <4>1 DEF Timeline
    <3>2. CASE next # drafts
      <4>1. redo' = <<>> /\ IsSeq(undo') /\ \E k : IsCut(undo', k, Append(undo, drafts))
        <5> DEFINE o == <<drafts>>
                   c == Append(undo, drafts)
        <5>1. IsConcat(c, undo, o) /\ Len(o) = 1
          BY <2>1, AppendElements, FewAreSeq
        <5>2. PICK k \in 1..(Len(undo) + 1) :
                 /\ IsSeq(undo') /\ Len(undo') = Len(undo) + 2 - k
                 /\ \A i \in 1..Len(undo') : undo'[i] = c[k + i - 1]
          BY <2>1, <2>3, <3>2, PersistSteps
        <5>3. redo' = <<>>
          BY <2>3, <3>2 DEF persist
        <5> HIDE DEF c, o
        <5>4. Len(undo) \in Nat /\ Len(c) = Len(undo) + 1
          BY <5>1 DEF IsConcat
        <5>5. IsCut(undo', k, c)
          BY <5>2, <5>4 DEF IsCut
        <5> QED BY <5>2, <5>3, <5>5 DEF c
      <4>2. /\ IsSuffix(Line(undo', drafts', <<>>), undo \o <<drafts, drafts'>>)
            /\ Len(undo') > 0
        BY <2>1, <4>1, LineIsCut
      <4>3. Timeline' = Line(undo', drafts', <<>>)
        BY <4>1 DEF Timeline, Line, Reverse
      <4> QED BY <4>2, <4>3
    <3> QED BY <3>1, <3>2
  <2>4. CASE Undo
    <3>1. /\ undo # <<>> /\ drafts' = Last(undo) /\ undo' = Front(undo)
          /\ redo' = Append(redo, drafts)
      BY <2>4 DEF Undo
    <3>2. Line(undo, drafts, redo) = Line(undo', drafts', redo')
      BY <2>1, <3>1, LineIsWalked
    <3> QED BY <3>2 DEF Timeline, Line, Reverse
  <2>5. CASE Redo
    <3>1. /\ redo # <<>> /\ drafts' = Last(redo) /\ redo' = Front(redo)
          /\ undo' = Append(undo, drafts)
      BY <2>5 DEF Redo
    <3>2. Line(undo', drafts', redo') = Line(undo, drafts, redo)
      BY <2>1, <3>1, LineIsTaken
    <3> QED BY <3>2 DEF Timeline, Line, Reverse
  <2> QED BY <2>1, <2>2, <2>3, <2>4, <2>5 DEF HistoryMoves
<1>2. HistoryIsALine <=> [][A]_vars
  BY DEF HistoryIsALine
<1> QED BY <1>1, <1>2, EditorInvariant, PTL DEF Spec

-----------------------------------------------------------------------------
(* The exported file.                                                      *)

(* Where the file has a draft: among the creations by type, the changes, or
   the deletions by type. *)
Place(d) == IF d.deleted THEN 6 - Rank[d.base.type]
            ELSE IF IsNew(d) THEN Rank[d.value.type] ELSE 3

(* A part of the file: drafts of the workspace with their places from a to b. *)
Sorted(s, ds, a, b) ==
    /\ IsSeq(s)
    /\ \A i \in DOMAIN s : s[i] \in ToSet(ds) /\ Place(s[i]) \in a..b
    /\ \A i, j \in DOMAIN s : i < j => Place(s[i]) <= Place(s[j])

(* What is of one place can stand in any order. *)
LEMMA PartIsSorted ==
    ASSUME NEW ds, IsSeq(ds), NEW K \in SUBSET DOMAIN ds, NEW a \in Int,
           \A k \in K : Place(ds[k]) = a
    PROVE  Sorted(KeepAt(ds, K), ds, a, a)
<1>1. /\ IsSeq(KeepAt(ds, K))
      /\ \A i \in DOMAIN KeepAt(ds, K) : \E k \in K : KeepAt(ds, K)[i] = ds[k]
  BY KeepAtElements
<1>2. \A k \in K : ds[k] \in ToSet(ds)
  BY DEF ToSet
<1>3. \A i \in DOMAIN KeepAt(ds, K) :
         KeepAt(ds, K)[i] \in ToSet(ds) /\ Place(KeepAt(ds, K)[i]) = a
  BY <1>1, <1>2
<1> QED BY <1>1, <1>3 DEF Sorted

(* Parts follow each other. *)
LEMMA PartsAreSorted ==
    ASSUME NEW ds, NEW s, NEW t, NEW a \in Int, NEW b \in Int, NEW c \in Int,
           Sorted(s, ds, a, b), Sorted(t, ds, c, c), a <= b, b <= c
    PROVE  Sorted(s \o t, ds, a, c)
<1> DEFINE l == s \o t
<1>1. IsSeq(s) /\ IsSeq(t)
  BY DEF Sorted
<1>2. IsConcat(l, s, t)
  BY <1>1, ConcatElements
<1> HIDE DEF l
<1>3. /\ Len(s) \in Nat /\ Len(t) \in Nat /\ DOMAIN s = 1..Len(s) /\ DOMAIN t = 1..Len(t)
      /\ IsSeq(l) /\ DOMAIN l = 1..(Len(s) + Len(t))
  BY <1>1, <1>2, IsSeqProperties DEF IsConcat
<1>4. ASSUME NEW i \in DOMAIN l
      PROVE  \/ i \in DOMAIN s /\ l[i] = s[i]
             \/ ~(i <= Len(s)) /\ i - Len(s) \in DOMAIN t /\ l[i] = t[i - Len(s)]
  <2>1. CASE i <= Len(s)
    BY <1>2, <1>3, <2>1 DEF IsConcat
  <2>2. CASE ~(i <= Len(s))
    <3>1. i - Len(s) \in 1..Len(t) /\ Len(s) + (i - Len(s)) = i
      BY <1>3, <2>2
    <3>2. l[Len(s) + (i - Len(s))] = t[i - Len(s)]
      BY <1>2, <3>1 DEF IsConcat
    <3> QED BY <1>3, <2>2, <3>1, <3>2
  <2> QED BY <2>1, <2>2
<1>5. ASSUME NEW i \in DOMAIN l PROVE l[i] \in ToSet(ds) /\ Place(l[i]) \in a..c
  <2>1. CASE i \in DOMAIN s /\ l[i] = s[i]
    <3>1. s[i] \in ToSet(ds) /\ Place(s[i]) \in a..b
      BY <2>1 DEF Sorted
    <3> QED BY <2>1, <3>1
  <2>2. CASE i - Len(s) \in DOMAIN t /\ l[i] = t[i - Len(s)]
    <3>1. t[i - Len(s)] \in ToSet(ds) /\ Place(t[i - Len(s)]) \in c..c
      BY <2>2 DEF Sorted
    <3> QED BY <2>2, <3>1
  <2> QED BY <1>4, <2>1, <2>2
<1>6. ASSUME NEW i \in DOMAIN l, NEW j \in DOMAIN l, i < j
      PROVE  Place(l[i]) <= Place(l[j])
  <2>1. CASE j \in DOMAIN s /\ l[j] = s[j]
    <3>1. i \in DOMAIN s /\ l[i] = s[i]
      BY <1>3, <1>4, <1>6, <2>1
    <3> QED BY <1>6, <2>1, <3>1 DEF Sorted
  <2>2. CASE j - Len(s) \in DOMAIN t /\ l[j] = t[j - Len(s)]
    <3>1. Place(t[j - Len(s)]) \in c..c
      BY <2>2 DEF Sorted
    <3>2. Place(l[i]) \in a..c
      BY <1>5
    <3> QED BY <2>2, <3>1, <3>2
  <2> QED BY <1>4, <2>1, <2>2
<1>7. Sorted(l, ds, a, c)
  BY <1>3, <1>5, <1>6 DEF Sorted
<1> QED BY <1>7 DEF l

(* osc: creations from nodes to relations, changes, deletions from relations
   to nodes. *)
LEMMA FileIsSorted ==
    ASSUME NEW ds, IsSeq(ds)
    PROVE  Sorted(osc(ds), ds, 0, 6)
<1> DEFINE new == {i \in Alive(ds) : IsNew(ds[i])}
           modified == {i \in Alive(ds) \ new : ~elementUnchanged(ds[i].base, ds[i].value)}
           gone == DOMAIN ds \ Alive(ds)
           of(K, type) == KeepAt(ds, {i \in K : Subject(ds[i]).type = type})
           f1 == of(new, "node") \o of(new, "way")
           f2 == f1 \o of(new, "relation")
           f3 == f2 \o KeepAt(ds, modified)
           f4 == f3 \o of(gone, "relation")
           f5 == f4 \o of(gone, "way")
           f6 == f5 \o of(gone, "node")
<1>1. osc(ds) = f6
  BY DEF osc
<1>2. /\ \A i \in new : i \in DOMAIN ds /\ ~ds[i].deleted /\ IsNew(ds[i])
      /\ \A i \in modified : i \in DOMAIN ds /\ ~ds[i].deleted /\ ~IsNew(ds[i])
      /\ \A i \in gone : i \in DOMAIN ds /\ ds[i].deleted
  BY DEF Alive
<1>3. Rank["node"] = 0 /\ Rank["way"] = 1 /\ Rank["relation"] = 2
  BY DEF Rank
<1> HIDE DEF new, modified, gone
<1>4. /\ Sorted(of(new, "node"), ds, 0, 0) /\ Sorted(of(new, "way"), ds, 1, 1)
      /\ Sorted(of(new, "relation"), ds, 2, 2)
  <2>1. ASSUME NEW type, NEW r \in Int, Rank[type] = r
        PROVE  Sorted(of(new, type), ds, r, r)
    <3> DEFINE K == {i \in new : Subject(ds[i]).type = type}
    <3>1. K \in SUBSET DOMAIN ds /\ \A i \in K : Place(ds[i]) = r
      BY <1>2, <2>1 DEF Place, Subject
    <3> HIDE DEF K
    <3>2. Sorted(KeepAt(ds, K), ds, r, r)
      BY <3>1, PartIsSorted
    <3> QED BY <3>2 DEF K
  <2> HIDE DEF of
  <2> QED BY <1>3, <2>1
<1>5. /\ Sorted(of(gone, "node"), ds, 6, 6) /\ Sorted(of(gone, "way"), ds, 5, 5)
      /\ Sorted(of(gone, "relation"), ds, 4, 4)
  <2>1. ASSUME NEW type, NEW r \in Int, 6 - Rank[type] = r
        PROVE  Sorted(of(gone, type), ds, r, r)
    <3> DEFINE K == {i \in gone : Subject(ds[i]).type = type}
    <3>1. K \in SUBSET DOMAIN ds /\ \A i \in K : Place(ds[i]) = r
      BY <1>2, <2>1 DEF Place, Subject
    <3> HIDE DEF K
    <3>2. Sorted(KeepAt(ds, K), ds, r, r)
      BY <3>1, PartIsSorted
    <3> QED BY <3>2 DEF K
  <2>2. 6 - Rank["node"] = 6 /\ 6 - Rank["way"] = 5 /\ 6 - Rank["relation"] = 4
    BY <1>3
  <2> HIDE DEF of
  <2> QED BY <2>1, <2>2
<1>6. Sorted(KeepAt(ds, modified), ds, 3, 3)
  <2>1. modified \in SUBSET DOMAIN ds /\ \A i \in modified : Place(ds[i]) = 3
    BY <1>2 DEF Place
  <2> QED BY <2>1, PartIsSorted
<1> HIDE DEF of, f1, f2, f3, f4, f5, f6
<1>7. Sorted(f1, ds, 0, 1)
  BY <1>4, PartsAreSorted DEF f1
<1>8. Sorted(f2, ds, 0, 2)
  BY <1>4, <1>7, PartsAreSorted DEF f2
<1>9. Sorted(f3, ds, 0, 3)
  BY <1>6, <1>8, PartsAreSorted DEF f3
<1>10. Sorted(f4, ds, 0, 4)
  BY <1>5, <1>9, PartsAreSorted DEF f4
<1>11. Sorted(f5, ds, 0, 5)
  BY <1>5, <1>10, PartsAreSorted DEF f5
<1>12. Sorted(f6, ds, 0, 6)
  BY <1>5, <1>11, PartsAreSorted DEF f6
<1> QED BY <1>1, <1>12

(* An accepted element refers to objects of a type before its own, but for
   relations in relations. *)
LEMMA ReferencesGoDown ==
    ASSUME NEW e, NEW create \in BOOLEAN, element(e, create),
           NEW key \in References(e), key[1] # "relation"
    PROVE  e.type \in Types /\ Rank[key[1]] \in Int /\ Rank[key[1]] < Rank[e.type]
<1>1. CASE e = Node(e.id, e.version, e.tags, e.at)
  <2>1. e.nodes = <<>> /\ e.members = <<>>
    BY <1>1 DEF Node, Element
  <2>2. References(e) = {}
    BY <2>1, EmptyIsSeq DEF References, ToSet
  <2> QED BY <2>2
<1>2. CASE e = Way(e.id, e.version, e.tags, e.nodes)
  <2>1. e.type = "way" /\ e.members = <<>>
    BY <1>2 DEF Way, Element
  <2>2. key[1] = "node"
    BY <2>1, EmptyIsSeq DEF References, ToSet
  <2> QED BY <2>1, <2>2 DEF Rank, Types
<1>3. CASE /\ e = Relation(e.id, e.version, e.tags, e.members)
           /\ e.members \in Seq(Types \X Refs)
  <2>1. e.type = "relation" /\ e.nodes = <<>>
    BY <1>3 DEF Relation, Element
  <2>2. ToSet(e.members) \subseteq Types \X Refs
    BY <1>3, SequenceIsSeq
  <2>3. key \in ToSet(e.members)
    BY <2>1, EmptyIsSeq DEF References, ToSet
  <2>4. key[1] \in Types
    BY <2>2, <2>3
  <2> QED BY <1>3, <2>1, <2>4 DEF Rank, Types
<1> QED BY <1>1, <1>2, <1>3 DEF element

(* What the editor accepts is exported in an order that can be applied. *)
LEMMA FileIsInOrder ==
    ASSUME NEW ds, IsSeq(ds), \A d \in ToSet(ds) : validateDraft(d),
           NEW i \in DOMAIN osc(ds), NEW j \in DOMAIN osc(ds),
           Key(osc(ds)[j]) \in References(Subject(osc(ds)[i])),
           Subject(osc(ds)[j]).type # "relation"
    PROVE  /\ IsNew(osc(ds)[j]) => j < i
           /\ osc(ds)[j].deleted /\ osc(ds)[i].deleted => i < j
<1> DEFINE file == osc(ds)
           d == file[i]
           e == file[j]
<1>1. Sorted(file, ds, 0, 6)
  BY FileIsSorted
<1>2. /\ IsSeq(file) /\ Len(file) \in Nat /\ DOMAIN file = 1..Len(file)
      /\ validateDraft(d) /\ validateDraft(e)
      /\ Place(d) \in 0..6 /\ Place(e) \in 0..6
      /\ (i < j => Place(d) <= Place(e)) /\ (j < i => Place(e) <= Place(d))
  <2>1. i \in DOMAIN file /\ j \in DOMAIN file
    OBVIOUS
  <2> HIDE DEF file
  <2>2. IsSeq(file)
    BY <1>1 DEF Sorted
  <2>3. /\ d \in ToSet(ds) /\ e \in ToSet(ds) /\ Place(d) \in 0..6 /\ Place(e) \in 0..6
        /\ (i < j => Place(d) <= Place(e)) /\ (j < i => Place(e) <= Place(d))
    BY <1>1, <2>1 DEF Sorted
  <2>4. validateDraft(d) /\ validateDraft(e)
    BY <2>3
  <2>5. Len(file) \in Nat /\ DOMAIN file = 1..Len(file)
    BY <2>2, IsSeqProperties
  <2> QED BY <2>2, <2>3, <2>4, <2>5
<1>3. Key(e) \in References(Subject(d)) /\ Key(e)[1] = Subject(e).type
      /\ Key(e)[1] # "relation"
  BY DEF Key
<1>4. i \in 1..Len(file) /\ j \in 1..Len(file) /\ (i = j => d = e)
  BY <1>2
<1> HIDE DEF file, d, e
<1>5. \E create \in BOOLEAN : element(Subject(d), create)
  <2>1. element(Subject(d), FALSE) \/ element(Subject(d), IsNew(d))
    BY <1>2 DEF validateDraft, Subject
  <2>2. IsNew(d) \in BOOLEAN
    BY DEF IsNew
  <2> QED BY <2>1, <2>2
<1>6. /\ Subject(d).type \in Types /\ Rank[Subject(e).type] \in Int
      /\ Rank[Subject(e).type] < Rank[Subject(d).type]
  BY <1>3, <1>5, ReferencesGoDown
<1>7. Rank[Subject(d).type] \in 0..2
  BY <1>6 DEF Types, Rank
<1>8. ASSUME IsNew(e) PROVE j < i
  <2>1. ~e.deleted
    <3>1. ~element(NoElement, FALSE)
      BY DEF element, NoElement, Element
    <3>2. e.deleted => element(e.base, FALSE)
      BY <1>2 DEF validateDraft
    <3> QED BY <1>8, <3>1, <3>2 DEF IsNew
  <2>2. Place(e) = Rank[Subject(e).type]
    BY <1>8, <2>1 DEF Place, Subject
  <2>3. Place(d) > Place(e)
    BY <1>6, <1>7, <2>2 DEF Place, Subject
  <2>4. i # j /\ ~(i < j)
    BY <1>2, <1>4, <2>3
  <2> QED BY <1>2, <1>4, <2>4
<1>9. ASSUME e.deleted, d.deleted PROVE i < j
  <2>1. Place(e) = 6 - Rank[Subject(e).type] /\ Place(d) = 6 - Rank[Subject(d).type]
    BY <1>9 DEF Place, Subject
  <2>2. Place(d) < Place(e)
    BY <1>6, <1>7, <2>1
  <2>3. i # j /\ ~(j < i)
    BY <1>2, <1>4, <2>2
  <2> QED BY <1>2, <1>4, <2>3
<1> QED BY <1>8, <1>9 DEF file, d, e

(* In the order of the exported file a placeholder is made before an object
   of another type refers to it, and what is deleted is not used by anything
   of another type that is deleted after it: the groups of osc. *)
THEOREM ExportStaysInOrder == Spec => []ExportInOrder
<1>1. EditorInv => ExportInOrder
  <2> SUFFICES ASSUME EditorInv, CanExport,
                      NEW i \in DOMAIN osc(drafts), NEW j \in DOMAIN osc(drafts),
                      Key(osc(drafts)[j]) \in References(Subject(osc(drafts)[i])),
                      Subject(osc(drafts)[j]).type # "relation"
               PROVE  /\ IsNew(osc(drafts)[j]) => j < i
                      /\ osc(drafts)[j].deleted /\ osc(drafts)[i].deleted => i < j
    BY DEF ExportInOrder
  <2>1. IsSeq(drafts)
    BY DEF EditorInv, HistoryInv, Sound
  <2>2. \A d \in ToSet(drafts) : validateDraft(d)
    BY DEF CanExport, Acceptable, ToSet
  <2> QED BY <2>1, <2>2, FileIsInOrder
<1> QED BY <1>1, EditorInvariant, PTL

-----------------------------------------------------------------------------
(* The work on an object.                                                  *)

(* What DraftsAreKept counts, and a draft that stands for another one: the
   same, or another one with the same base and tags. *)
Holds(d) == ~d.deleted /\ (~IsNew(d) \/ d.value.type # "node" \/ d.value.tags # {})
StandsFor(e, d, type) ==
    /\ Key(e) = Key(d)
    /\ Holds(d) => Holds(e) /\ (e = d \/ (d.value.type = type /\ Alike(d, e)))

(* A node that waits holds no less than the draft of the same node. *)
Fits(p) ==
    AliveOf(Key(p)) # {} => /\ DraftOf(Key(p)).base = p.base
                            /\ DraftOf(Key(p)).value.tags = p.value.tags

(* Nodes wait only in a changed form, and each of them fits. *)
KeptInv ==
    /\ current.pending # <<>> => dirty
    /\ \A p \in ToSet(current.pending) : Fits(p)

(* The work, draft by draft. *)
LEMMA WorkOf ==
    ASSUME NEW ds
    PROVE  Work(ds) = {d \in ToSet(ds) : Holds(d)}
BY DEF Work, Holds, Alive, ToSet

(* What stands for every draft keeps the work. *)
LEMMA StandingKeeps ==
    ASSUME NEW ds, NEW next, NEW type,
           \A i \in DOMAIN ds : i \in DOMAIN next /\ StandsFor(next[i], ds[i], type)
    PROVE  \A d \in Work(ds) : d \in Work(next) \/ Follows(type, d, next)
<1>1. ASSUME NEW i \in DOMAIN ds, Holds(ds[i])
      PROVE  ds[i] \in Work(next) \/ Follows(type, ds[i], next)
  <2>1. next[i] \in Work(next)
    BY <1>1, WorkOf DEF StandsFor, ToSet
  <2>2. next[i] = ds[i] \/ (ds[i].value.type = type /\ Alike(ds[i], next[i]))
    BY <1>1 DEF StandsFor
  <2> QED BY <2>1, <2>2 DEF Follows
<1> QED BY <1>1, WorkOf DEF ToSet

(* What is still there is still kept. *)
LEMMA MoreKeeps ==
    ASSUME NEW ds, NEW next, NEW lost,
           \A d \in ToSet(ds) : Holds(d) => d \in ToSet(next) \/ Key(d) \in lost
    PROVE  \A d \in Work(ds) : d \in Work(next) \/ Key(d) \in lost
BY WorkOf

(* And what followed goes on to follow, unless its object is lost. *)
LEMMA FollowsOn ==
    ASSUME NEW ds, NEW next, NEW lost, NEW type, NEW d, Follows(type, d, ds),
           \A e \in Work(ds) : e \in Work(next) \/ Key(e) \in lost
    PROVE  Follows(type, d, next) \/ Key(d) \in lost
<1>1. PICK e \in Work(ds) : Alike(d, e)
  BY DEF Follows
<1> QED BY <1>1 DEF Follows, Alike

(* Put changes the first draft of the object, or adds one. *)
LEMMA PutAt ==
    ASSUME NEW ds, IsSeq(ds), NEW d
    PROVE  /\ IsSeq(Put(ds, d)) /\ Len(Put(ds, d)) >= Len(ds) /\ Len(Put(ds, d)) \in Nat
           /\ d \in ToSet(Put(ds, d))
           /\ \A i \in 1..Len(ds) :
                 \/ Put(ds, d)[i] = ds[i]
                 \/ /\ Put(ds, d)[i] = d /\ Key(ds[i]) = Key(d)
                    /\ \A j \in 1..Len(ds) : Key(ds[j]) = Key(d) => i <= j
<1> DEFINE at == {i \in DOMAIN ds : Key(ds[i]) = Key(d)}
           p == Put(ds, d)
<1>1. IsSeq(p) /\ Len(p) >= Len(ds) /\ Len(p) \in Nat
  BY PutIsSeq, IsSeqProperties
<1>2. Len(ds) \in Nat /\ DOMAIN ds = 1..Len(ds)
  BY IsSeqProperties
<1>3. CASE at = {}
  <2>1. p = Append(ds, d)
    BY <1>3 DEF Put
  <2>2. d \in ToSet(p)
    BY <2>1, AppendIsSeq
  <2>3. \A i \in 1..Len(ds) : p[i] = ds[i]
    <3>1. ds \in Seq(ToSet(ds) \cup {d})
      BY DEF IsSeq
    <3> QED BY <2>1, <3>1
  <2> QED BY <1>1, <2>2, <2>3
<1>4. CASE at # {}
  <2> DEFINE m == Min(at)
  <2>1. p = [ds EXCEPT ![m] = d]
    BY <1>4 DEF Put
  <2>2. m \in at /\ \A j \in at : m <= j
    <3>1. at \in SUBSET Nat
      BY <1>2
    <3> HIDE DEF at
    <3> QED BY <1>4, <3>1, MinIsLeast
  <2> HIDE DEF m
  <2>3. m \in DOMAIN p /\ p[m] = d
    BY <2>1, <2>2
  <2>4. d \in ToSet(p)
    BY <2>3 DEF ToSet
  <2>5. \A i \in 1..Len(ds) : i # m => p[i] = ds[i]
    BY <1>2, <2>1
  <2>6. Key(ds[m]) = Key(d) /\ \A j \in 1..Len(ds) : Key(ds[j]) = Key(d) => m <= j
    BY <1>2, <2>2
  <2> QED BY <1>1, <2>3, <2>4, <2>5, <2>6
<1> QED BY <1>3, <1>4

(* Put replaces nothing but the draft of its object. *)
LEMMA PutKeeps ==
    ASSUME NEW ds, IsSeq(ds), NEW d
    PROVE  \A e \in Work(ds) : e \in Work(Put(ds, d)) \/ Key(e) = Key(d)
<1> DEFINE p == Put(ds, d)
<1>1. /\ IsSeq(p) /\ Len(p) \in Nat /\ Len(p) >= Len(ds)
      /\ \A i \in 1..Len(ds) : p[i] = ds[i] \/ Key(ds[i]) = Key(d)
  BY PutAt
<1> HIDE DEF p
<1>2. /\ Len(ds) \in Nat /\ DOMAIN ds = 1..Len(ds) /\ DOMAIN p = 1..Len(p)
  BY <1>1, IsSeqProperties
<1>3. \A i \in DOMAIN ds : i \in DOMAIN p
  BY <1>1, <1>2
<1>4. ASSUME NEW i \in DOMAIN ds PROVE ds[i] \in ToSet(p) \/ Key(ds[i]) \in {Key(d)}
  BY <1>1, <1>2, <1>3 DEF ToSet
<1>5. \A e \in ToSet(ds) : Holds(e) => e \in ToSet(p) \/ Key(e) \in {Key(d)}
  BY <1>4 DEF ToSet
<1>6. \A e \in Work(ds) : e \in Work(p) \/ Key(e) \in {Key(d)}
  BY <1>5, MoreKeeps
<1> QED BY <1>6 DEF p

(* The nodes that wait replace their own drafts and lose no work on them. *)
LEMMA PutAllKeeps ==
    ASSUME IsSeq(drafts), NEW new, IsSeq(new), \A p \in ToSet(new) : Waits(p) /\ Fits(p)
    PROVE  \A i \in DOMAIN drafts :
              i \in DOMAIN PutAll(drafts, new) /\ StandsFor(PutAll(drafts, new)[i], drafts[i], "node")
<1> DEFINE N == Len(new)
           L == Len(drafts)
           Stand(s) == \A i \in 1..L : StandsFor(s[i], drafts[i], "node")
<1>1. N \in Nat /\ L \in Nat /\ DOMAIN drafts = 1..L /\ DOMAIN new = 1..N
  BY IsSeqProperties
<1>2. PICK put : Puts(put, drafts, new)
  BY PutAllSteps
<1>3. /\ put[0] = drafts /\ PutAll(drafts, new) = put[N]
      /\ \A k \in 1..N : put[k] = Put(put[k - 1], new[k])
  BY <1>2 DEF Puts
<1>4. ASSUME NEW s, IsSeq(s), Len(s) \in Nat, Len(s) >= L, Stand(s),
             NEW p, Waits(p), Fits(p)
      PROVE  Stand(Put(s, p))
  <2> SUFFICES ASSUME NEW i \in 1..L PROVE StandsFor(Put(s, p)[i], drafts[i], "node")
    OBVIOUS
  <2> DEFINE t == Put(s, p)
  <2>1. \A j \in 1..L : j \in 1..Len(s)
    BY <1>1, <1>4
  <2>2. \/ t[i] = s[i]
        \/ /\ t[i] = p /\ Key(s[i]) = Key(p)
           /\ \A j \in 1..Len(s) : Key(s[j]) = Key(p) => i <= j
    BY <1>4, <2>1, PutAt
  <2> HIDE DEF t
  <2>3. CASE t[i] = s[i]
    BY <1>4, <2>3 DEF t
  <2>4. CASE /\ t[i] = p /\ Key(s[i]) = Key(p)
             /\ \A j \in 1..Len(s) : Key(s[j]) = Key(p) => i <= j
    <3>1. \A j \in 1..L : Key(s[j]) = Key(drafts[j])
      BY <1>4 DEF StandsFor
    <3>2. Key(drafts[i]) = Key(p) /\ \A j \in 1..L : Key(drafts[j]) = Key(p) => i <= j
      BY <2>1, <2>4, <3>1
    <3>3. ASSUME Holds(drafts[i])
          PROVE  Holds(p) /\ drafts[i].value.type = "node" /\ Alike(drafts[i], p)
      <4>1. AliveOf(Key(p)) \in SUBSET (1..L) /\ i \in AliveOf(Key(p))
        BY <1>1, <3>2, <3>3 DEF AliveOf, Alive, Holds
      <4>2. \A j \in AliveOf(Key(p)) : i <= j
        BY <1>1, <3>2 DEF AliveOf, Alive
      <4>3. Min(AliveOf(Key(p))) = i
        <5>1. AliveOf(Key(p)) \in SUBSET Nat /\ AliveOf(Key(p)) # {}
          BY <1>1, <4>1
        <5>2. /\ Min(AliveOf(Key(p))) \in AliveOf(Key(p))
              /\ \A j \in AliveOf(Key(p)) : Min(AliveOf(Key(p))) <= j
          BY <5>1, MinIsLeast
        <5> QED BY <1>1, <4>1, <4>2, <5>1, <5>2
      <4>4. DraftOf(Key(p)) = drafts[i]
        BY <4>1, <4>3 DEF DraftOf
      <4>5. drafts[i].base = p.base /\ drafts[i].value.tags = p.value.tags
        BY <1>4, <4>1, <4>4 DEF Fits
      <4>6. ~p.deleted /\ p.value.type = "node" /\ ~drafts[i].deleted
        BY <1>4, <3>3 DEF Waits, Holds
      <4>7. drafts[i].value.type = "node"
        BY <3>2, <4>6 DEF Key, Subject
      <4> QED BY <3>2, <3>3, <4>5, <4>6, <4>7 DEF Holds, IsNew, Alike
    <3> QED BY <2>4, <3>2, <3>3 DEF StandsFor, t
  <2> QED BY <2>2, <2>3, <2>4
<1>5. \A k \in 0..N : IsSeq(put[k]) /\ Len(put[k]) \in Nat /\ Len(put[k]) >= L /\ Stand(put[k])
  <2> DEFINE Good(k) == IsSeq(put[k]) /\ Len(put[k]) \in Nat /\ Len(put[k]) >= L /\ Stand(put[k])
             T == {k \in 0..N : ~Good(k)}
  <2>1. SUFFICES ASSUME T # {} PROVE FALSE
    OBVIOUS
  <2>2. PICK k \in T : \A l \in T : k <= l
    <3>1. T \in SUBSET Nat
      BY <1>1
    <3> QED BY <2>1, <3>1, LeastNumber
  <2>3. CASE k = 0
    <3>1. Good(0)
      BY <1>1, <1>3 DEF StandsFor
    <3> QED BY <2>2, <2>3, <3>1
  <2>4. CASE k # 0
    <3>1. k \in 1..N /\ k - 1 \in 0..N /\ ~(k <= k - 1)
      BY <1>1, <2>2, <2>4
    <3>2. Good(k - 1)
      <4> HIDE DEF Good
      <4> QED BY <2>2, <3>1
    <3>3. new[k] \in ToSet(new)
      BY <1>1, <3>1 DEF ToSet
    <3> HIDE DEF Stand
    <3>4. Stand(put[k])
      BY <1>3, <1>4, <3>1, <3>2, <3>3
    <3>5. IsSeq(put[k]) /\ Len(put[k]) >= Len(put[k - 1]) /\ Len(put[k]) \in Nat
      BY <1>3, <3>1, <3>2, PutAt
    <3> QED BY <1>1, <2>2, <3>2, <3>4, <3>5
  <2> QED BY <2>3, <2>4
<1>6. PutAll(drafts, new) = put[N] /\ N \in 0..N
  BY <1>1, <1>3
<1>7. /\ IsSeq(put[N]) /\ Len(put[N]) \in Nat /\ Len(put[N]) >= L
      /\ \A i \in 1..L : StandsFor(put[N][i], drafts[i], "node")
  BY <1>5, <1>6
<1>8. DOMAIN put[N] = 1..Len(put[N])
  BY <1>7, IsSeqProperties
<1> QED BY <1>1, <1>6, <1>7, <1>8

(* A draft is taken out, and all others stay. *)
LEMMA RemoveAtKeeps ==
    ASSUME NEW ds, IsSeq(ds), NEW i \in DOMAIN ds, NEW lost,
           Holds(ds[i]) => ds[i] \in lost
    PROVE  \A d \in Work(ds) : d \in Work(RemoveAt(ds, i)) \/ d \in lost
<1> DEFINE r == RemoveAt(ds, i)
           n == Len(ds)
<1>1. n \in Nat /\ DOMAIN ds = 1..n /\ i \in 1..n
  BY IsSeqProperties
<1>2. /\ IsSeq(r) /\ Len(r) = n - 1
      /\ \A j \in 1..(n - 1) : r[j] = IF j < i THEN ds[j] ELSE ds[j + 1]
  BY <1>1, RemoveAtIsSeq
<1>3. DOMAIN r = 1..(n - 1)
  BY <1>2, IsSeqProperties
<1> HIDE DEF r
<1>4. ASSUME NEW j \in DOMAIN ds, j # i PROVE ds[j] \in ToSet(r)
  <2> DEFINE k == IF j < i THEN j ELSE j - 1
  <2>1. k \in 1..(n - 1) /\ r[k] = ds[j]
    BY <1>1, <1>2, <1>4
  <2> HIDE DEF k
  <2> QED BY <1>3, <2>1 DEF ToSet
<1>5. \A d \in ToSet(ds) : Holds(d) => d \in ToSet(r) \/ d \in lost
  BY <1>4 DEF ToSet
<1>6. \A d \in Work(ds) : d \in Work(r) \/ d \in lost
  BY <1>5, WorkOf
<1> QED BY <1>6 DEF r

(* A vertex that is left over holds nothing. *)
LEMMA PrunedKeeps ==
    ASSUME NEW ds, IsSeq(ds), NEW nodes
    PROVE  Work(ds) \subseteq Work(Pruned(ds, nodes))
<1>1. PICK K \in SUBSET DOMAIN ds :
         /\ Pruned(ds, nodes) = KeepAt(ds, K)
         /\ \A i \in DOMAIN ds : Holds(ds[i]) => i \in K
  <2> DEFINE K == {i \in DOMAIN ds :
                 ~(/\ ~ds[i].deleted /\ IsNew(ds[i]) /\ ds[i].value.type = "node"
                   /\ ds[i].value.id \in nodes /\ ds[i].value.tags = {}
                   /\ ~UsedIn(ds, Key(ds[i])))}
  <2>1. Pruned(ds, nodes) = KeepAt(ds, K)
    BY DEF Pruned
  <2>2. \A i \in DOMAIN ds : Holds(ds[i]) => i \in K
    BY DEF Holds
  <2>3. K \in SUBSET DOMAIN ds
    OBVIOUS
  <2> HIDE DEF K
  <2> QED BY <2>1, <2>2, <2>3
<1>2. ToSet(KeepAt(ds, K)) = {ds[k] : k \in K}
  BY KeepAtElements
<1> DEFINE next == KeepAt(ds, K)
<1>3. \A d \in ToSet(ds) : Holds(d) => d \in ToSet(next)
  BY <1>1, <1>2 DEF ToSet
<1> HIDE DEF next
<1>4. Work(ds) = {d \in ToSet(ds) : Holds(d)} /\ Work(next) = {d \in ToSet(next) : Holds(d)}
  BY WorkOf
<1>5. Work(ds) \subseteq Work(next)
  BY <1>3, <1>4
<1>6. Pruned(ds, nodes) = next
  BY <1>1 DEF next
<1> QED BY <1>5, <1>6

(* A draft given the members it has is the draft it was. *)
LEMMA PatchedSame ==
    ASSUME NEW d, NEW b, NEW v, d = Draft(b, v), NEW m, [v EXCEPT !.members = m] = v
    PROVE  [d EXCEPT !.value.members = m] = d
<1>1. d.value = v
  BY DEF Draft
<1> DEFINE e == [d EXCEPT !.value.members = m]
<1>2. e = [d EXCEPT !.value = v]
  BY <1>1
<1> HIDE DEF e
<1>3. e = Draft(b, v)
  BY <1>2, DraftValue
<1> QED BY <1>3 DEF e

(* A draft with other members stands for a relation's. *)
LEMMA PatchedStands ==
    ASSUME NEW d, d = Draft(d.base, d.value), d.value.type = "relation", NEW m,
           NEW e, e = [d EXCEPT !.value.members = m]
    PROVE  StandsFor(e, d, "relation")
<1> DEFINE v == d.value
           w == [v EXCEPT !.members = m]
<1>1. e.base = d.base /\ e.deleted = d.deleted /\ e.value = w
  BY DEF Draft
<1>2. w.type = v.type /\ w.id = v.id /\ w.tags = v.tags
  OBVIOUS
<1> QED BY <1>1, <1>2 DEF StandsFor, Key, Subject, Holds, IsNew, Alike

(* Only a relation has members. *)
LEMMA WhoHasMembers ==
    ASSUME NEW d, validateDraft(d), ~d.deleted
    PROVE  /\ d = Draft(d.base, d.value)
           /\ d.value.type = "relation" \/ d.value.members = <<>>
<1>1. d = Draft(d.base, d.value) /\ element(d.value, IsNew(d))
  BY DraftShape
<1>2. \/ d.value = Node(d.value.id, d.value.version, d.value.tags, d.value.at)
      \/ d.value = Way(d.value.id, d.value.version, d.value.tags, d.value.nodes)
      \/ d.value = Relation(d.value.id, d.value.version, d.value.tags, d.value.members)
  BY <1>1 DEF element
<1> QED BY <1>1, <1>2 DEF Node, Way, Relation, Element

(* Both patches change the members of relations, and nothing else. *)
LEMMA PatchesKeep ==
    ASSUME NEW ds, IsSeq(ds), \A d \in ToSet(ds) : validateDraft(d), NEW old, NEW new
    PROVE  /\ \A d \in Work(ds) : \/ d \in Work(patchRelationsForSplit(ds, old, new))
                                  \/ Follows("relation", d, patchRelationsForSplit(ds, old, new))
           /\ \A d \in Work(ds) : \/ d \in Work(patchRelationsForMerge(ds, old, new))
                                  \/ Follows("relation", d, patchRelationsForMerge(ds, old, new))
<1> DEFINE p == patchRelationsForSplit(ds, old, new)
           q == patchRelationsForMerge(ds, old, new)
<1>1. DOMAIN p = DOMAIN ds /\ DOMAIN q = DOMAIN ds
  BY DEF patchRelationsForSplit, patchRelationsForMerge
<1>2. ASSUME NEW i \in DOMAIN ds PROVE StandsFor(p[i], ds[i], "relation")
  <2>1. CASE p[i] = ds[i]
    BY <2>1 DEF StandsFor
  <2>2. CASE p[i] # ds[i]
    <3>1. /\ ~ds[i].deleted /\ \E j \in DOMAIN ds[i].value.members : TRUE
          /\ \E m : p[i] = [ds[i] EXCEPT !.value.members = m]
      BY <2>2 DEF patchRelationsForSplit
    <3>2. ds[i] = Draft(ds[i].base, ds[i].value) /\ ds[i].value.type = "relation"
      <4>1. validateDraft(ds[i])
        BY DEF ToSet
      <4>2. ds[i].value.members # <<>>
        BY <3>1
      <4> QED BY <3>1, <4>1, <4>2, WhoHasMembers
    <3> QED BY <3>1, <3>2, PatchedStands
  <2> QED BY <2>1, <2>2
<1>3. ASSUME NEW i \in DOMAIN ds PROVE StandsFor(q[i], ds[i], "relation")
  <2>1. CASE ds[i].deleted
    <3>1. q[i] = ds[i]
      BY <2>1 DEF patchRelationsForMerge
    <3> QED BY <3>1 DEF StandsFor
  <2>2. CASE ~ds[i].deleted
    <3> DEFINE m == [j \in DOMAIN ds[i].value.members |->
                       IF ds[i].value.members[j] = <<"way", old>> THEN <<"way", new>>
                       ELSE ds[i].value.members[j]]
    <3>1. q[i] = [ds[i] EXCEPT !.value.members = m]
      BY <2>2 DEF patchRelationsForMerge
    <3>2. validateDraft(ds[i])
      BY DEF ToSet
    <3>3. /\ ds[i] = Draft(ds[i].base, ds[i].value)
          /\ ds[i].value.type = "relation" \/ ds[i].value.members = <<>>
      BY <2>2, <3>2, WhoHasMembers
    <3>4. CASE ds[i].value.type = "relation"
      <4> HIDE DEF m, q
      <4> QED BY <3>1, <3>3, <3>4, PatchedStands
    <3>5. CASE ds[i].value.members = <<>>
      <4>1. m = <<>>
        BY <3>5
      <4> HIDE DEF m, q
      <4>2. ds[i].value = Element(ds[i].value.type, ds[i].value.id, ds[i].value.version,
                                  ds[i].value.tags, ds[i].value.at, ds[i].value.nodes,
                                  ds[i].value.members)
        BY <2>2, <3>2, DraftShape, ElementShape
      <4>3. [ds[i].value EXCEPT !.members = m] = ds[i].value
        BY <3>5, <4>1, <4>2 DEF Element
      <4>4. q[i] = ds[i]
        <5>1. PICK d, b, v : d = ds[i] /\ b = ds[i].base /\ v = ds[i].value
          OBVIOUS
        <5>2. d = Draft(b, v) /\ [v EXCEPT !.members = m] = v
          BY <3>3, <4>3, <5>1
        <5>3. [d EXCEPT !.value.members = m] = d
          BY <5>2, PatchedSame
        <5> QED BY <3>1, <5>1, <5>3
      <4> QED BY <4>4 DEF StandsFor
    <3> QED BY <3>3, <3>4, <3>5
  <2> QED BY <2>1, <2>2
<1> HIDE DEF p, q
<1>4. /\ \A d \in Work(ds) : d \in Work(p) \/ Follows("relation", d, p)
      /\ \A d \in Work(ds) : d \in Work(q) \/ Follows("relation", d, q)
  BY <1>1, <1>2, <1>3, StandingKeeps
<1> QED BY <1>4 DEF p, q

(* save loses nothing but the draft of what is open. *)
LEMMA SavedKeeps ==
    ASSUME IsSeq(drafts), NEW new, IsSeq(new), \A p \in ToSet(new) : Waits(p) /\ Fits(p), NEW d
    PROVE  \A e \in Work(drafts) : \/ e \in Work(Saved(d, new)) \/ Key(e) = Key(d)
                                  \/ Follows("node", e, Saved(d, new))
<1> DEFINE all    == PutAll(drafts, new)
           at     == {i \in DOMAIN drafts : Key(drafts[i]) = Key(d)}
           next   == IF ~IsNew(d) /\ elementUnchanged(d.base, d.value)
                     THEN IF at = {} THEN all ELSE RemoveAt(all, Min(at))
                     ELSE Put(all, d)
           before == IF at = {} \/ drafts[Min(at)].deleted THEN {}
                     ELSE ToSet(drafts[Min(at)].value.nodes)
<1>1. /\ IsSeq(all)
      /\ \A i \in DOMAIN drafts : i \in DOMAIN all /\ StandsFor(all[i], drafts[i], "node")
  BY PutAllIsSeq, PutAllKeeps
<1>2. at # {} => Min(at) \in DOMAIN all /\ Key(all[Min(at)]) = Key(d)
  <2>1. at \in SUBSET Nat /\ at \subseteq DOMAIN drafts
    BY IsSeqProperties
  <2>2. at # {} => Min(at) \in at
    <3> HIDE DEF at
    <3> QED BY <2>1, MinIsLeast
  <2>3. at # {} => Min(at) \in DOMAIN drafts /\ Key(drafts[Min(at)]) = Key(d)
    BY <2>2
  <2> HIDE DEF at, all
  <2> QED BY <1>1, <2>3 DEF StandsFor
<1>3. Saved(d, new) = IF d.value.type = "way" THEN Pruned(next, before) ELSE next
  BY DEF Saved
<1> HIDE DEF all, at, before
<1>4. \A e \in Work(drafts) : e \in Work(all) \/ Follows("node", e, all)
  BY <1>1, StandingKeeps
<1>5. IsSeq(next) /\ \A e \in Work(all) : e \in Work(next) \/ Key(e) \in {Key(d)}
  <2>1. CASE next = all
    BY <1>1, <2>1
  <2>2. CASE at # {} /\ next = RemoveAt(all, Min(at))
    <3>1. Min(at) \in 1..Len(all)
      BY <1>1, <1>2, <2>2, IsSeqProperties
    <3>2. IsSeq(RemoveAt(all, Min(at)))
      BY <1>1, <3>1, RemoveAtIsSeq
    <3>3. \A e \in Work(all) : e \in Work(RemoveAt(all, Min(at))) \/ e \in {all[Min(at)]}
      BY <1>1, <1>2, <2>2, RemoveAtKeeps
    <3> QED BY <1>2, <2>2, <3>2, <3>3
  <2>3. CASE next = Put(all, d)
    <3>1. IsSeq(Put(all, d)) /\ \A e \in Work(all) : e \in Work(Put(all, d)) \/ Key(e) = Key(d)
      BY <1>1, PutIsSeq, PutKeeps
    <3> QED BY <2>3, <3>1
  <2> QED BY <2>1, <2>2, <2>3
<1> HIDE DEF next
<1>6. Work(next) \subseteq Work(Pruned(next, before))
  BY <1>5, PrunedKeeps
<1>7. Work(next) \subseteq Work(Saved(d, new))
  BY <1>3, <1>6
<1>8. \A e \in Work(all) : e \in Work(Saved(d, new)) \/ Key(e) \in {Key(d)}
  BY <1>5, <1>7
<1>9. ASSUME NEW e \in Work(drafts), Follows("node", e, all)
      PROVE  Key(e) = Key(d) \/ Follows("node", e, Saved(d, new))
  BY <1>8, <1>9, FollowsOn
<1> QED BY <1>4, <1>8, <1>9

(* What a step may do to the drafts, as DraftsAreKept has it. *)
AskedFor(d) ==
    \/ save /\ (Key(d) = Key(current) \/ Follows("node", d, drafts'))
    \/ /\ \E i \in 1..MaxNodes : performSplit(i)
       /\ Key(d) = Key(current) \/ Follows("relation", d, drafts')
    \/ \E job \in jobs :
          \/ DeleteAnswer(job) /\ Key(d) = Key(current)
          \/ /\ MergeAnswer(job)
             /\ Key(d) \in {Key(current), job.arg} \/ Follows("relation", d, drafts')
    \/ \E i \in DOMAIN drafts : removeDraft(i) /\ d = drafts[i]
    \/ Undo \/ Redo \/ Reload
KeptMoves == \A d \in Work(drafts) \ Work(drafts') : AskedFor(d)

(* A handler that leaves the workspace alone. *)
LEMMA SameDrafts ==
    ASSUME UNCHANGED history PROVE KeptMoves
<1>1. drafts' = drafts
  BY DEF history
<1>2. Work(drafts') = Work(drafts)
  BY <1>1
<1> QED BY <1>2 DEF KeptMoves

(* A handler that makes another one. *)
LEMMA NextDrafts ==
    ASSUME NEW next, persist(next),
           \A d \in Work(drafts) : d \in Work(next) \/ (drafts' = next => AskedFor(d))
    PROVE  KeptMoves
<1>1. drafts' = next
  BY DEF persist
<1>2. Work(drafts') = Work(next)
  BY <1>1
<1> QED BY <1>1, <1>2 DEF KeptMoves

(* What is edited is what is open. *)
LEMMA SameKey ==
    ASSUME Openable(current), NEW w, w.type = current.value.type, w.id = current.value.id,
           NEW d, d = Draft(current.base, w)
    PROVE  Key(d) = Key(current)
<1>1. ~current.deleted
  BY DEF Openable, Opened
<1>2. ~d.deleted /\ d.value = w
  BY DEF Draft
<1> QED BY <1>1, <1>2 DEF Key, Subject

(* The form gives new tags and members to it, and a split fewer nodes. *)
LEMMA EditedKey ==
    ASSUME Openable(current), NEW nodes
    PROVE  /\ Key(Edited) = Key(current)
           /\ Key(Draft(current.base, [current.value EXCEPT !.nodes = nodes])) = Key(current)
<1> DEFINE v == current.value
           w == [v EXCEPT !.tags = working, !.members = members]
           x == [v EXCEPT !.nodes = nodes]
<1>1. v = Element(v.type, v.id, v.version, v.tags, v.at, v.nodes, v.members)
  BY DEF Openable
<1> HIDE DEF v
<1>2. w.type = v.type /\ w.id = v.id /\ x.type = v.type /\ x.id = v.id
  BY <1>1 DEF Element
<1>3. Edited = Draft(current.base, w)
  BY DEF Edited, v
<1> HIDE DEF w, x
<1>4. Key(Edited) = Key(current) /\ Key(Draft(current.base, x)) = Key(current)
  BY <1>2, <1>3, SameKey DEF v
<1> QED BY <1>4 DEF x, v

(* The handlers of the form: only save makes another workspace. *)
LEMMA FormKeepsDrafts ==
    ASSUME EditorInv, KeptInv, FormStep PROVE KeptMoves
<1>1. CASE save
  <2>1. persist(Saved(Edited, current.pending))
    BY <1>1 DEF save
  <2>2. /\ IsSeq(drafts) /\ Openable(current) /\ IsSeq(current.pending)
        /\ \A p \in ToSet(current.pending) : Waits(p) /\ Fits(p)
    BY WhatIsKept DEF KeptInv
  <2> DEFINE next == Saved(Edited, current.pending)
  <2>3. \A d \in Work(drafts) : d \in Work(next) \/ Key(d) = Key(Edited) \/ Follows("node", d, next)
    BY <2>2, SavedKeeps
  <2>4. Key(Edited) = Key(current)
    BY <2>2, EditedKey
  <2> HIDE DEF next
  <2>5. \A d \in Work(drafts) : d \in Work(next) \/ (drafts' = next => AskedFor(d))
    BY <1>1, <2>3, <2>4 DEF AskedFor
  <2> QED BY <2>1, <2>5, NextDrafts DEF next
<1>2. CASE ~save
  <2>1. UNCHANGED history
    BY <1>2 DEF FormStep, EditTags, newRelation, discard, SetTab, leave, AddMember,
       EditMembers, saveConfidential
  <2> QED BY <2>1, SameDrafts
<1> QED BY <1>1, <1>2

(* The tools of the map: only a split does. *)
LEMMA MapKeepsDrafts ==
    ASSUME EditorInv, MapStep PROVE KeptMoves
<1>1. ASSUME NEW i \in 1..MaxNodes, performSplit(i) PROVE KeptMoves
  <2> DEFINE v      == current.value
             first  == Draft(current.base, [v EXCEPT !.nodes = SubSeq(v.nodes, 1, i)])
             second == Draft(NoElement, Way(nextTempId(drafts, "way"), 0, v.tags,
                                            SubSeq(v.nodes, i, Len(v.nodes))))
             put    == Put(drafts, first)
             all    == Append(put, second)
             next   == patchRelationsForSplit(all, v.id, second.value.id)
  <2>1. persist(next) /\ validateDraft(first) /\ validateDraft(second)
    BY <1>1 DEF performSplit
  <2>2. /\ IsSeq(drafts) /\ (\A d \in ToSet(drafts) : validateDraft(d)) /\ Openable(current)
    BY WhatIsKept
  <2>3. Key(first) = Key(current)
    BY <2>2, EditedKey
  <2> HIDE DEF first, second
  <2>4. /\ IsSeq(put) /\ ToSet(put) \subseteq ToSet(drafts) \cup {first}
        /\ \A d \in Work(drafts) : d \in Work(put) \/ Key(d) = Key(first)
    BY <2>2, PutIsSeq, PutKeeps
  <2> HIDE DEF put
  <2>5. IsSeq(all) /\ ToSet(all) = ToSet(put) \cup {second}
    BY <2>4, AppendIsSeq
  <2> HIDE DEF all
  <2>6. \A d \in Work(put) : d \in Work(all)
    BY <2>5, WorkOf
  <2>7. \A d \in ToSet(all) : validateDraft(d)
    BY <2>1, <2>2, <2>4, <2>5
  <2>8. \A d \in Work(all) : d \in Work(next) \/ Follows("relation", d, next)
    BY <2>5, <2>7, PatchesKeep
  <2> HIDE DEF next
  <2>9. \A d \in Work(drafts) : d \in Work(next) \/ (drafts' = next => AskedFor(d))
    BY <1>1, <2>3, <2>4, <2>6, <2>8 DEF AskedFor
  <2> QED BY <2>1, <2>9, NextDrafts
<1>2. CASE ~\E i \in 1..MaxNodes : performSplit(i)
  <2>1. UNCHANGED history
    BY <1>2 DEF MapStep, toggleGeometryMode, place, startAt, addDrawPoint, insertVertex,
       MoveVertex, removeVertex, StartPlacing, startDrawing, drawSelectedArea, undoDrawPoint,
       finishDraw, startSplit, endSplit
  <2> QED BY <2>1, SameDrafts
<1> QED BY <1>1, <1>2

(* The list of drafts: a deletion that is taken back has held nothing. *)
LEMMA ListKeepsDrafts ==
    ASSUME EditorInv, DraftStep PROVE KeptMoves
<1>1. ASSUME NEW i \in DOMAIN drafts, Undelete(i) PROVE KeptMoves
  <2>1. persist(RemoveAt(drafts, i)) /\ drafts[i].deleted
    BY <1>1 DEF Undelete, Alive
  <2>2. IsSeq(drafts)
    BY WhatIsKept
  <2>3. ~Holds(drafts[i])
    BY <2>1 DEF Holds
  <2>4. \A d \in Work(drafts) : d \in Work(RemoveAt(drafts, i)) \/ d \in {}
    BY <2>2, <2>3, RemoveAtKeeps
  <2> QED BY <2>1, <2>4, NextDrafts
<1>2. ASSUME NEW i \in DOMAIN drafts, removeDraft(i) PROVE KeptMoves
  <2> DEFINE left  == RemoveAt(drafts, i)
             next  == Pruned(left, ToSet(drafts[i].value.nodes))
  <2>1. persist(next)
    BY <1>2 DEF removeDraft
  <2>2. IsSeq(drafts)
    BY WhatIsKept
  <2>3. IsSeq(left) /\ \A d \in Work(drafts) : d \in Work(left) \/ d \in {drafts[i]}
    BY <2>2, IsSeqProperties, RemoveAtIsSeq, RemoveAtKeeps
  <2> HIDE DEF left
  <2>4. Work(left) \subseteq Work(next)
    BY <2>3, PrunedKeeps
  <2> HIDE DEF next
  <2>5. \A d \in Work(drafts) : d \in Work(next) \/ (drafts' = next => AskedFor(d))
    BY <1>2, <2>3, <2>4 DEF AskedFor
  <2> QED BY <2>1, <2>5, NextDrafts
<1>3. CASE ~\E i \in DOMAIN drafts : Undelete(i) \/ removeDraft(i)
  <2>1. CASE Undo \/ Redo
    BY <2>1 DEF KeptMoves, AskedFor
  <2>2. CASE ~(Undo \/ Redo)
    <3>1. UNCHANGED history
      BY <1>3, <2>2 DEF DraftStep, OpenDraft, load, mergeWith, openConfidential,
         deleteConfidential, deleteObject, Look, Check, Import
    <3> QED BY <3>1, SameDrafts
  <2> QED BY <2>1, <2>2
<1> QED BY <1>1, <1>2, <1>3

(* The answers, whatever the user has opened meanwhile. *)
LEMMA AnswersKeepDrafts ==
    ASSUME EditorInv, NEW job \in jobs, Answer(job) PROVE KeptMoves
<1>1. IsSeq(drafts)
  BY WhatIsKept
<1>2. CASE DeleteAnswer(job)
  <2> DEFINE K == {i \in DOMAIN drafts : Key(drafts[i]) # Key(current)}
             rest == KeepAt(drafts, K)
             next == Append(rest, job.old)
  <2>1. persist(next) \/ UNCHANGED history
    BY <1>2 DEF DeleteAnswer
  <2>2. IsSeq(rest) /\ ToSet(rest) = {drafts[k] : k \in K}
    <3>1. K \in SUBSET DOMAIN drafts
      OBVIOUS
    <3> HIDE DEF K
    <3> QED BY <1>1, <3>1, KeepAtElements
  <2>3. \A d \in ToSet(drafts) : d \in ToSet(rest) \/ Key(d) \in {Key(current)}
    BY <2>2 DEF ToSet
  <2> HIDE DEF rest
  <2>4. ToSet(next) = ToSet(rest) \cup {job.old}
    BY <2>2, AppendIsSeq
  <2> HIDE DEF next
  <2>5. \A d \in Work(drafts) : d \in Work(next) \/ Key(d) \in {Key(current)}
    BY <2>3, <2>4, MoreKeeps
  <2>6. \A d \in Work(drafts) : d \in Work(next) \/ (drafts' = next => AskedFor(d))
    BY <1>2, <2>5 DEF AskedFor
  <2> QED BY <2>1, <2>6, NextDrafts, SameDrafts
<1>3. CASE ImportAnswer(job)
  <2>1. ASSUME NEW ds \in Files, persist(drafts \o ds) PROVE KeptMoves
    <3> DEFINE all == drafts \o ds
    <3>1. IsSeq(ds)
      BY EditorAssumption DEF IsSeq
    <3>2. \A d \in ToSet(drafts) : d \in ToSet(all)
      <4>1. IsConcat(all, drafts, ds)
        BY <1>1, <3>1, ConcatElements
      <4>2. Len(drafts) \in Nat /\ Len(ds) \in Nat /\ DOMAIN drafts = 1..Len(drafts)
        BY <1>1, <3>1, IsSeqProperties
      <4> HIDE DEF all
      <4>3. DOMAIN all = 1..(Len(drafts) + Len(ds)) /\ \A i \in DOMAIN drafts : all[i] = drafts[i]
        BY <4>1, <4>2, IsSeqProperties DEF IsConcat
      <4> QED BY <4>2, <4>3 DEF ToSet
    <3> HIDE DEF all
    <3>3. \A d \in Work(drafts) : d \in Work(all)
      BY <3>2, WorkOf
    <3> QED BY <2>1, <3>3, NextDrafts DEF all
  <2>2. (\E ds \in Files : persist(drafts \o ds)) \/ UNCHANGED history
    BY <1>3 DEF ImportAnswer
  <2> QED BY <2>1, <2>2, SameDrafts
<1>4. CASE MergeAnswer(job)
  <2> DEFINE other == IF job.old # NoDraft THEN job.old.value ELSE Fetched(job.arg)
             v     == current.value
             w     == [v EXCEPT !.nodes = Joined(v.nodes, other.nodes),
                                !.tags = v.tags \cup other.tags]
             kept  == Draft(current.base, w)
             gone  == Deletion(IF job.old # NoDraft THEN job.old.base ELSE other)
             with  == Put(drafts, kept)
             at    == {i \in Alive(with) : Key(with[i]) = job.arg}
             all   == IF at = {} THEN Append(with, gone) ELSE [with EXCEPT ![Min(at)] = gone]
             next  == patchRelationsForMerge(all, job.arg[2], v.id)
  <2>1. \/ persist(next) /\ validateDraft(kept)
           /\ \A j \in DOMAIN next : validateDraft(next[j])
        \/ UNCHANGED history
    BY <1>4 DEF MergeAnswer
  <2>2. Openable(current) /\ \A d \in ToSet(drafts) : validateDraft(d)
    BY WhatIsKept
  <2>3. Key(kept) = Key(current)
    <3>1. v = Element(v.type, v.id, v.version, v.tags, v.at, v.nodes, v.members)
      BY <2>2 DEF Openable
    <3>2. w.type = v.type /\ w.id = v.id
      <4> HIDE DEF v, other
      <4> QED BY <3>1 DEF Element
    <3> HIDE DEF w
    <3> QED BY <2>2, <3>2, SameKey
  <2> HIDE DEF other, kept, gone, v
  <2>4. /\ IsSeq(with) /\ ToSet(with) \subseteq ToSet(drafts) \cup {kept}
        /\ \A d \in Work(drafts) : d \in Work(with) \/ Key(d) = Key(kept)
    BY <1>1, PutIsSeq, PutKeeps
  <2> HIDE DEF with
  <2>5. /\ IsSeq(all) /\ DOMAIN all = 1..Len(all)
        /\ ToSet(all) \subseteq ToSet(with) \cup {gone}
        /\ \A d \in Work(with) : d \in Work(all) \/ Key(d) \in {job.arg}
    <3>1. Len(with) \in Nat /\ DOMAIN with = 1..Len(with)
      BY <2>4, IsSeqProperties
    <3>2. CASE at = {}
      <4>1. all = Append(with, gone)
        BY <3>2
      <4>2. IsSeq(all) /\ ToSet(all) = ToSet(with) \cup {gone}
        BY <2>4, <4>1, AppendIsSeq
      <4> HIDE DEF all
      <4> QED BY <4>2, IsSeqProperties, WorkOf
    <3>3. CASE at # {}
      <4> DEFINE m == Min(at)
      <4>1. all = [with EXCEPT ![m] = gone]
        BY <3>3
      <4>2. m \in at
        <5>1. at \in SUBSET Nat
          BY <3>1 DEF Alive
        <5> HIDE DEF at
        <5> QED BY <3>3, <5>1, MinIsLeast
      <4>3. m \in 1..Len(with) /\ Key(with[m]) = job.arg
        BY <3>1, <4>2 DEF Alive
      <4> HIDE DEF m, all
      <4>4. IsSeq(all) /\ DOMAIN all = 1..Len(all) /\ DOMAIN all = DOMAIN with
        BY <2>4, <3>1, <4>1, <4>3, ExceptIsSeq, IsSeqProperties
      <4>5. ToSet(all) \subseteq ToSet(with) \cup {gone}
        BY <4>1, <4>4 DEF ToSet
      <4>6. ASSUME NEW i \in DOMAIN with PROVE with[i] \in ToSet(all) \/ Key(with[i]) \in {job.arg}
        BY <4>1, <4>3, <4>4 DEF ToSet
      <4>7. \A d \in ToSet(with) : Holds(d) => d \in ToSet(all) \/ Key(d) \in {job.arg}
        BY <4>6 DEF ToSet
      <4> QED BY <4>4, <4>5, <4>7, MoreKeeps
    <3> QED BY <3>2, <3>3
  <2> HIDE DEF all
  <2>6. ASSUME persist(next), validateDraft(kept), \A j \in DOMAIN next : validateDraft(next[j])
        PROVE  KeptMoves
    <3>1. validateDraft(gone) \/ gone \notin ToSet(all)
      <4>1. ASSUME NEW j \in DOMAIN all, all[j] = gone PROVE validateDraft(gone)
        <5>1. gone.deleted
          BY DEF gone, Deletion
        <5>2. j \in DOMAIN next /\ next[j] = gone
          BY <4>1, <5>1 DEF patchRelationsForMerge
        <5> QED BY <2>6, <5>2
      <4> QED BY <4>1 DEF ToSet
    <3>2. \A d \in ToSet(all) : validateDraft(d)
      BY <2>2, <2>4, <2>5, <2>6, <3>1
    <3>3. \A d \in Work(all) : d \in Work(next) \/ Follows("relation", d, next)
      BY <2>5, <3>2, PatchesKeep
    <3> HIDE DEF next
    <3>4. \A d \in Work(drafts) : d \in Work(next) \/ (drafts' = next => AskedFor(d))
      BY <1>4, <2>3, <2>4, <2>5, <3>3 DEF AskedFor
    <3> QED BY <2>6, <3>4, NextDrafts
  <2> QED BY <2>1, <2>6, SameDrafts
<1>5. CASE LoadAnswer(job) \/ LookAnswer(job) \/ CheckAnswer(job) \/ ConfidentialAnswer(job)
  <2>1. UNCHANGED history
    BY <1>5 DEF LoadAnswer, LookAnswer, CheckAnswer, ConfidentialAnswer
  <2> QED BY <2>1, SameDrafts
<1> QED BY <1>2, <1>3, <1>4, <1>5 DEF Answer

(* Every step. *)
LEMMA EveryStepKeepsDrafts ==
    ASSUME EditorInv, KeptInv, [Next]_vars PROVE KeptMoves
<1>1. CASE UNCHANGED vars \/ \E key \in OsmKeys : OsmChanges(key)
  <2>1. UNCHANGED history
    BY <1>1 DEF OsmChanges, vars
  <2> QED BY <2>1, SameDrafts
<1>2. CASE Reload
  BY <1>2 DEF KeptMoves, AskedFor
<1> QED BY <1>1, <1>2, FormKeepsDrafts, MapKeepsDrafts, ListKeepsDrafts, AnswersKeepDrafts
        DEF Next

(* What a step does to the form, as far as the nodes that wait depend on it. *)
LEMMA FitsAfter ==
    ASSUME KeptInv,
           \/ current'.pending = <<>>
           \/ UNCHANGED <<drafts, current>> /\ dirty' \in {dirty, TRUE}
           \/ ~dirty /\ UNCHANGED form
           \/ /\ drafts' = drafts /\ dirty' = TRUE
              /\ \A p \in ToSet(current'.pending) : Fits(p)
    PROVE  KeptInv'
<1>1. ASSUME drafts' = drafts, NEW p, Fits(p) PROVE Fits(p)'
  <2>1. AliveOf(Key(p))' = AliveOf(Key(p)) /\ DraftOf(Key(p))' = DraftOf(Key(p))
    BY <1>1 DEF DraftOf, AliveOf, Alive
  <2> QED BY <1>1, <2>1 DEF Fits
<1>2. CASE current'.pending = <<>>
  BY <1>2, EmptyIsSeq DEF KeptInv
<1>3. CASE UNCHANGED <<drafts, current>> /\ dirty' \in {dirty, TRUE}
  BY <1>1, <1>3 DEF KeptInv
<1>4. CASE ~dirty /\ UNCHANGED form
  <2>1. current'.pending = <<>>
    BY <1>4 DEF KeptInv, form
  <2> QED BY <1>2, <2>1
<1>5. CASE /\ drafts' = drafts /\ dirty' = TRUE
           /\ \A p \in ToSet(current'.pending) : Fits(p)
  BY <1>1, <1>5 DEF KeptInv
<1> QED BY <1>2, <1>3, <1>4, <1>5

(* Handlers that close the form, open something else or do neither. *)
LEMMA FitsWithout ==
    ASSUME KeptInv,
           \/ closeCurrent
           \/ \E b, v, c, s, changed : open(Opened(b, v, <<>>, c, s), changed)
           \/ \E d, changed : open(FromDraft(d), changed)
           \/ UNCHANGED history /\ UNCHANGED form
           \/ ~dirty /\ UNCHANGED form
    PROVE  KeptInv'
<1>1. CASE closeCurrent \/ \E b, v, c, s, changed : open(Opened(b, v, <<>>, c, s), changed)
  <2>1. current'.pending = <<>>
    BY <1>1 DEF closeCurrent, open, Nothing, Opened
  <2> QED BY <2>1, FitsAfter
<1>2. CASE \E d, changed : open(FromDraft(d), changed)
  <2>1. current'.pending = <<>>
    BY <1>2 DEF open, FromDraft, Opened
  <2> QED BY <2>1, FitsAfter
<1>3. CASE UNCHANGED history /\ UNCHANGED form
  <2>1. UNCHANGED <<drafts, current>> /\ dirty' \in {dirty, TRUE}
    BY <1>3 DEF history, form
  <2> QED BY <2>1, FitsAfter
<1>4. CASE ~dirty /\ UNCHANGED form
  BY <1>4, FitsAfter
<1> QED BY <1>1, <1>2, <1>3, <1>4

(* A new node has no draft yet. *)
LEMMA FreshFits ==
    ASSUME NEW id, NEW at,
           \A i \in Alive(drafts) : drafts[i].value.type = "node" =>
                 drafts[i].value.id \in Int /\ id \in Int /\ id < drafts[i].value.id
    PROVE  Fits(Draft(NoElement, Node(id, 0, {}, at)))
<1> DEFINE d == Draft(NoElement, Node(id, 0, {}, at))
<1>1. Key(d) = <<"node", id>>
  BY DEF Key, Subject, Draft, Node, Element
<1>2. ASSUME NEW i \in AliveOf(Key(d)) PROVE FALSE
  <2>1. i \in Alive(drafts) /\ ~drafts[i].deleted /\ Key(drafts[i]) = <<"node", id>>
    BY <1>1 DEF AliveOf, Alive
  <2>2. drafts[i].value.type = "node" /\ drafts[i].value.id = id
    BY <2>1 DEF Key, Subject
  <2> QED BY <2>1, <2>2
<1> QED BY <1>2 DEF Fits

(* A vertex that is inserted or moved. *)
LEMMA VerticesFit ==
    ASSUME EditorInv, KeptInv, NEW i, NEW at \in Places,
           insertVertex(i, at) \/ MoveVertex(i, at)
    PROVE  KeptInv'
<1> DEFINE c == current
           p == current.pending
<1>1. /\ IsSeq(drafts) /\ (\A d \in ToSet(drafts) : validateDraft(d)) /\ Sound(drafts)
      /\ IsSeq(p) /\ \A d \in ToSet(p) : Waits(d) /\ Fits(d)
  BY WhatIsKept DEF KeptInv
<1>2. c = Opened(c.base, c.value, p, c.conf, c.shape)
  BY WhatIsKept DEF Openable
<1>3. drafts' = drafts /\ dirty' = TRUE /\ at # Nowhere
  BY EditorAssumption DEF insertVertex, MoveVertex, history
<1>4. ASSUME NEW q, c'.pending = q, \A d \in ToSet(q) : Fits(d) PROVE KeptInv'
  <2>1. \A d \in ToSet(current'.pending) : Fits(d)
    BY <1>4
  <2> QED BY <1>3, <2>1, FitsAfter
<1>5. CASE insertVertex(i, at)
  <2> DEFINE all == drafts \o p
             id == nextTempId(all, "node")
             d == Draft(NoElement, Node(id, 0, {}, at))
             q == Append(p, d)
             n == InsertNode(c.value.nodes, i, id)
  <2>1. c' = [c EXCEPT !.value.nodes = n, !.pending = q]
    BY <1>5 DEF insertVertex
  <2>2. c'.pending = q
    <3> HIDE DEF c, q, n
    <3> QED BY <1>2, <2>1 DEF Opened
  <2>3. Fits(d)
    <3>1. /\ IsSeq(all) /\ ToSet(all) \subseteq ToSet(drafts) \cup ToSet(p)
          /\ IsConcat(all, drafts, p)
      BY <1>1, ConcatIsSeq, ConcatElements
    <3> HIDE DEF all
    <3>2. \A x \in ToSet(all) : validateDraft(x)
      BY <1>1, <3>1 DEF Waits
    <3>3. id \in Int /\ \A j \in Alive(all) : all[j].value.type = "node" =>
              all[j].value.id \in Int /\ id < all[j].value.id
      BY <3>1, <3>2, TempIdIsNegative
    <3>4. \A j \in Alive(drafts) : j \in Alive(all) /\ all[j] = drafts[j]
      <4>1. /\ Len(drafts) \in Nat /\ Len(p) \in Nat /\ DOMAIN drafts = 1..Len(drafts)
            /\ DOMAIN all = 1..(Len(drafts) + Len(p))
            /\ \A j \in DOMAIN drafts : all[j] = drafts[j]
        BY <1>1, <3>1, IsSeqProperties DEF IsConcat
      <4> QED BY <4>1 DEF Alive
    <3> HIDE DEF id
    <3> QED BY <3>3, <3>4, FreshFits
  <2> HIDE DEF d
  <2>4. \A x \in ToSet(q) : Fits(x)
    BY <1>1, <2>3, AppendIsSeq
  <2> HIDE DEF q
  <2> QED BY <1>4, <2>2, <2>4
<1>6. CASE MoveVertex(i, at) /\ c.value.type = "node"
  <2>1. c' = [c EXCEPT !.value.at = at]
    BY <1>6 DEF MoveVertex
  <2>2. c'.pending = p
    <3> HIDE DEF c, p
    <3> QED BY <1>2, <2>1 DEF Opened
  <2> HIDE DEF p
  <2> QED BY <1>1, <1>4, <2>2
<1>7. CASE MoveVertex(i, at) /\ c.value.type # "node"
  <2> DEFINE d == MovedNode(i, at)
             q == Put(p, d)
             key == <<"node", i>>
  <2>1. c' = [c EXCEPT !.pending = q]
    BY <1>7 DEF MoveVertex
  <2>2. PICK from : /\ Waits(from) /\ d = [from EXCEPT !.value.at = at]
                    /\ \/ from \in ToSet(p)
                       \/ Key(from) = key /\ from = DraftOf(key)
                       \/ Key(from) = key /\ AliveOf(key) = {}
    BY <1>3, <1>7, MovedNodeFrom
  <2> HIDE DEF d
  <2>3. Key(d) = Key(from) /\ d.base = from.base /\ d.value.tags = from.value.tags
    BY <1>3, <2>2, MovedWaits
  <2>4. Fits(d)
    BY <1>1, <2>2, <2>3 DEF Fits
  <2>5. \A x \in ToSet(q) : Fits(x)
    <3>1. ToSet(q) \subseteq ToSet(p) \cup {d}
      BY <1>1, PutIsSeq
    <3> HIDE DEF q
    <3> QED BY <1>1, <2>4, <3>1
  <2> HIDE DEF q
  <2>6. c'.pending = q
    <3> HIDE DEF c, p
    <3> QED BY <1>2, <2>1 DEF Opened
  <2> QED BY <1>4, <2>5, <2>6
<1> QED BY <1>5, <1>6, <1>7

(* A vertex that is removed leaves the others waiting. *)
LEMMA VertexLeft ==
    ASSUME EditorInv, KeptInv, NEW i, removeVertex(i)
    PROVE  KeptInv'
<1> DEFINE c == current
           p == current.pending
           id == c.value.nodes[i]
           n == WithoutNode(c.value.nodes, i)
           K == {j \in DOMAIN p : p[j].value.id # id \/ id \in ToSet(n)}
           q == KeepAt(p, K)
<1>1. IsSeq(p) /\ \A d \in ToSet(p) : Fits(d)
  BY WhatIsKept DEF KeptInv
<1>2. c = Opened(c.base, c.value, p, c.conf, c.shape)
  BY WhatIsKept DEF Openable
<1>3. drafts' = drafts /\ dirty' = TRUE /\ c' = [c EXCEPT !.value.nodes = n, !.pending = q]
  BY DEF removeVertex, history
<1>4. ToSet(q) \subseteq ToSet(p)
  <2>1. K \in SUBSET DOMAIN p
    OBVIOUS
  <2> HIDE DEF K
  <2>2. ToSet(q) = {p[k] : k \in K}
    BY <1>1, <2>1, KeepAtElements
  <2> QED BY <2>1, <2>2 DEF ToSet
<1> HIDE DEF q, n
<1>5. c'.pending = q
  <2> HIDE DEF c, p
  <2> QED BY <1>2, <1>3 DEF Opened
<1>6. \A d \in ToSet(current'.pending) : Fits(d)
  BY <1>1, <1>4, <1>5
<1> QED BY <1>3, <1>6, FitsAfter

(* What is drawn is a way of nodes that are all new. *)
LEMMA DrawnFit ==
    ASSUME EditorInv, KeptInv, finishDraw PROVE KeptInv'
<1> DEFINE from == nextTempId(drafts, "node")
           new  == DrawnNodes(DrawnIds(from))
<1>1. /\ IsSeq(drafts) /\ (\A d \in ToSet(drafts) : validateDraft(d)) /\ PenInv
  BY WhatIsKept
<1>2. drafts' = drafts /\ dirty' = TRUE /\ current'.pending = new
  BY DEF finishDraw, open, history, Opened
<1>3. /\ from \in Int /\ from < 0
      /\ \A i \in Alive(drafts) : drafts[i].value.type = "node" =>
             drafts[i].value.id \in Int /\ from < drafts[i].value.id
  BY <1>1, TempIdIsNegative
<1> HIDE DEF from
<1>4. \A d \in ToSet(new) : \E id \in Int : \E at :
          id <= from /\ d = Draft(NoElement, Node(id, 0, {}, at))
  BY <1>1, <1>3, DrawnCanBeOpened
<1> HIDE DEF new
<1>5. ASSUME NEW d \in ToSet(new) PROVE Fits(d)
  <2>1. PICK id \in Int : \E at : id <= from /\ d = Draft(NoElement, Node(id, 0, {}, at))
    BY <1>4
  <2>2. \A i \in Alive(drafts) : drafts[i].value.type = "node" =>
            drafts[i].value.id \in Int /\ id < drafts[i].value.id
    BY <1>3, <2>1
  <2> QED BY <2>1, <2>2, FreshFits
<1> QED BY <1>2, <1>5, FitsAfter

(* The handlers of the form. *)
LEMMA FormStepFits ==
    ASSUME KeptInv, FormStep PROVE KeptInv'
<1>1. CASE EditTags \/ (\E key : AddMember(key)) \/ (\E i : EditMembers(i))
  <2>1. UNCHANGED <<drafts, current>> /\ dirty' \in {dirty, TRUE}
    BY <1>1 DEF EditTags, AddMember, EditMembers, history
  <2> QED BY <2>1, FitsAfter
<1>2. CASE save \/ discard
  <2>1. closeCurrent
    BY <1>2 DEF save, discard
  <2> QED BY <2>1, FitsWithout
<1>3. CASE newRelation
  <2>1. \E b, v, c, s, changed : open(Opened(b, v, <<>>, c, s), changed)
    BY <1>3 DEF newRelation
  <2> QED BY <2>1, FitsWithout
<1>4. CASE SetTab \/ leave \/ saveConfidential
  <2>1. UNCHANGED history /\ UNCHANGED form
    BY <1>4 DEF SetTab, leave, saveConfidential
  <2> QED BY <2>1, FitsWithout
<1> QED BY <1>1, <1>2, <1>3, <1>4 DEF FormStep

(* The handlers of the map and its tools. *)
LEMMA MapStepFits ==
    ASSUME EditorInv, KeptInv, MapStep PROVE KeptInv'
<1>1. CASE \/ toggleGeometryMode \/ StartPlacing \/ (\E kind : startDrawing(kind))
           \/ undoDrawPoint \/ startSplit \/ endSplit \/ (\E p : addDrawPoint(p))
  <2>1. UNCHANGED history /\ UNCHANGED form
    BY <1>1 DEF toggleGeometryMode, StartPlacing, startDrawing, undoDrawPoint, startSplit,
       endSplit, addDrawPoint
  <2> QED BY <2>1, FitsWithout
<1>2. CASE \E at : place(at) \/ startAt(at)
  <2>1. \E b, v, c, s, changed : open(Opened(b, v, <<>>, c, s), changed)
    BY <1>2 DEF place, startAt
  <2> QED BY <2>1, FitsWithout
<1>3. CASE drawSelectedArea \/ \E i : performSplit(i)
  <2>1. closeCurrent
    BY <1>3 DEF drawSelectedArea, performSplit
  <2> QED BY <2>1, FitsWithout
<1>4. CASE finishDraw
  BY <1>4, DrawnFit
<1>5. ASSUME NEW at \in Places, NEW i, insertVertex(i, at) \/ MoveVertex(i, at) PROVE KeptInv'
  BY <1>5, VerticesFit
<1>6. ASSUME NEW i, removeVertex(i) PROVE KeptInv'
  BY <1>6, VertexLeft
<1> QED BY <1>1, <1>2, <1>3, <1>4, <1>5, <1>6 DEF MapStep

(* The handlers of the list of drafts, of undo and redo, and of requests. *)
LEMMA DraftStepFits ==
    ASSUME KeptInv, DraftStep PROVE KeptInv'
<1>1. CASE \/ \E e \in Osm : e.type = "way" /\ mergeWith(e.id)
           \/ deleteObject \/ Look \/ Check \/ Import
  <2>1. UNCHANGED history /\ UNCHANGED form
    BY <1>1 DEF mergeWith, deleteObject, Look, Check, Import
  <2> QED BY <2>1, FitsWithout
<1>2. CASE \E i : OpenDraft(i)
  <2>1. \E d, changed : open(FromDraft(d), changed)
    BY <1>2 DEF OpenDraft
  <2> QED BY <2>1, FitsWithout
<1>3. ASSUME NEW key, load(key) PROVE KeptInv'
  <2>1. open(FromDraft(DraftOf(key)), FALSE) \/ (UNCHANGED history /\ UNCHANGED form)
    BY <1>3 DEF load
  <2> QED BY <2>1, FitsWithout
<1>4. CASE \E i : removeDraft(i) \/ Undelete(i)
  <2>1. ~dirty /\ UNCHANGED form
    BY <1>4 DEF removeDraft, Undelete, canSwitch
  <2> QED BY <2>1, FitsWithout
<1>5. CASE \E o : openConfidential(o)
  <2>1. \E b, v, c, s, changed : open(Opened(b, v, <<>>, c, s), changed)
    BY <1>5 DEF openConfidential
  <2> QED BY <2>1, FitsWithout
<1>6. ASSUME NEW o, deleteConfidential(o) PROVE KeptInv'
  <2>1. closeCurrent \/ (UNCHANGED history /\ UNCHANGED form)
    BY <1>6 DEF deleteConfidential
  <2> QED BY <2>1, FitsWithout
<1>7. CASE Undo \/ Redo
  <2>1. closeCurrent
    BY <1>7 DEF Undo, Redo
  <2> QED BY <2>1, FitsWithout
<1> QED BY <1>1, <1>2, <1>3, <1>4, <1>5, <1>6, <1>7 DEF DraftStep

(* The answers. *)
LEMMA AnswerFits ==
    ASSUME KeptInv, NEW job, Answer(job) PROVE KeptInv'
<1>1. CASE LookAnswer(job) \/ CheckAnswer(job) \/ DeleteAnswer(job) \/ MergeAnswer(job)
           \/ ConfidentialAnswer(job)
  <2>1. CASE LookAnswer(job) \/ CheckAnswer(job)
    BY <2>1, FitsWithout DEF LookAnswer, CheckAnswer
  <2>2. CASE DeleteAnswer(job)
    BY <2>2, FitsWithout DEF DeleteAnswer
  <2>3. CASE MergeAnswer(job)
    BY <2>3, FitsWithout DEF MergeAnswer
  <2>4. CASE ConfidentialAnswer(job)
    BY <2>4, FitsWithout DEF ConfidentialAnswer
  <2> QED BY <1>1, <2>1, <2>2, <2>3, <2>4
<1>2. CASE ImportAnswer(job)
  <2>1. UNCHANGED form /\ (~dirty \/ UNCHANGED history)
    BY <1>2 DEF ImportAnswer
  <2> QED BY <2>1, FitsWithout
<1>3. CASE LoadAnswer(job)
  <2>1. \/ \E d, changed : open(FromDraft(d), changed)
        \/ \E b, v, c, s, changed : open(Opened(b, v, <<>>, c, s), changed)
        \/ UNCHANGED history /\ UNCHANGED form
    BY <1>3 DEF LoadAnswer
  <2> QED BY <2>1, FitsWithout
<1> QED BY <1>1, <1>2, <1>3 DEF Answer

(* A node that waits in the form never holds less than the draft of the same
   node that save will replace with it: it is moved from that draft, and the
   drafts only change under an unchanged form. *)
THEOREM WaitingNodesFit == Spec => []KeptInv
<1>1. Init => KeptInv
  BY EmptyIsSeq DEF Init, Fresh, KeptInv, Nothing, Opened
<1>2. EditorInv /\ KeptInv /\ [Next]_vars => KeptInv'
  <2> SUFFICES ASSUME EditorInv, KeptInv, [Next]_vars PROVE KeptInv'
    OBVIOUS
  <2>1. CASE Reload
    <3>1. closeCurrent
      BY <2>1 DEF Reload, closeCurrent
    <3> QED BY <3>1, FitsWithout
  <2>2. CASE UNCHANGED vars \/ \E key \in OsmKeys : OsmChanges(key)
    <3>1. UNCHANGED history /\ UNCHANGED form
      BY <2>2 DEF OsmChanges, vars
    <3> QED BY <3>1, FitsWithout
  <2> QED BY <2>1, <2>2, FormStepFits, MapStepFits, DraftStepFits, AnswerFits DEF Next
<1> QED BY <1>1, <1>2, EditorInvariant, PTL DEF Spec

(* A draft is replaced or taken out only by what is asked for, whatever waits
   in the form and whatever has been opened before an answer comes; the tags
   and the base of a vertex that is moved with its way, and of a relation whose
   way is split or merged, stay. *)
THEOREM NoDraftIsLost == Spec => DraftsAreKept
<1>1. EditorInv /\ KeptInv /\ [Next]_vars => KeptMoves
  BY EveryStepKeepsDrafts
<1>2. DraftsAreKept <=> [][KeptMoves]_vars
  BY DEF DraftsAreKept, KeptMoves, AskedFor
<1> QED BY <1>1, <1>2, EditorInvariant, WaitingNodesFit, PTL DEF Spec
=============================================================================
