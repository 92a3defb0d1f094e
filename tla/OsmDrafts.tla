----------------------------- MODULE OsmDrafts -----------------------------
(***************************************************************************)
(* The drafts of the OSM editor as values: the functions of osm-editor.js  *)
(* that keep no state.  An element is a record with all fields of the      *)
(* three types: a node has a position, a way its nodes, a relation its     *)
(* members; those it does not have are empty.  A draft pairs the version   *)
(* that OpenStreetMap has sent ("base", NoElement for a new object) with   *)
(* the edited one, or marks the base as deleted.                           *)
(*                                                                         *)
(* Tags are a set of tokens; roles, texts and the formats of JSON and XML  *)
(* are left out.  An Error thrown by a function of the source is a         *)
(* predicate here, false where the source throws.                          *)
(***************************************************************************)
EXTENDS Integers, Sequences, FiniteSets, SequencesExt, FiniteSetsExt

CONSTANTS
    MaxDrafts,   \* drafts in the workspace, at most (100)
    MaxNodes,    \* nodes of a way, at most (2000)
    MaxMembers,  \* members of a relation, at most (300)
    Nowhere      \* the position of what is no node

ASSUME DraftsAssumption ==
    /\ MaxDrafts \in Nat \ {0}
    /\ MaxNodes \in Nat /\ MaxNodes >= 2
    /\ MaxMembers \in Nat

Rank == [node |-> 0, way |-> 1, relation |-> 2]
Types == DOMAIN Rank

Element(type, id, version, tags, at, nodes, members) ==
    [type |-> type, id |-> id, version |-> version, tags |-> tags,
     at |-> at, nodes |-> nodes, members |-> members]
NoElement == Element("none", 0, 0, {}, Nowhere, <<>>, <<>>)
Node(id, version, tags, at) == Element("node", id, version, tags, at, <<>>, <<>>)
Way(id, version, tags, nodes) == Element("way", id, version, tags, Nowhere, nodes, <<>>)
Relation(id, version, tags, members) ==
    Element("relation", id, version, tags, Nowhere, <<>>, members)

Draft(base, value) == [base |-> base, value |-> value, deleted |-> FALSE]
Deletion(base) == [base |-> base, value |-> NoElement, deleted |-> TRUE]

(* keyOf: a deleted draft has no value and goes by its base. *)
Subject(d) == IF d.deleted THEN d.base ELSE d.value
Key(d) == <<Subject(d).type, Subject(d).id>>
IsNew(d) == d.base = NoElement
Alive(ds) == {i \in DOMAIN ds : ~ds[i].deleted}
IsClosed(nodes) == Len(nodes) > 3 /\ nodes[1] = Last(nodes)

(* The elements of s at the positions in K, in their order: SelectSeq, in a
   form that can be proved about. *)
KeepAt(s, K) ==
    LET n  == Cardinality(K)
        up == CHOOSE f \in [1..n -> K] : \A i, j \in 1..n : i < j => f[i] < f[j]
    IN  [i \in 1..n |-> s[up[i]]]

-----------------------------------------------------------------------------
(* Is the value accepted by element(raw, create)? It has what its type has;
   a reference may be a placeholder and is never 0. *)
Refs == Int \ {0}
element(e, create) ==
    /\ IF create THEN e.id \in Int /\ e.id < 0 ELSE {e.id, e.version} \subseteq Nat \ {0}
    /\ \/ e = Node(e.id, e.version, e.tags, e.at) /\ e.at # Nowhere
       \/ /\ e = Way(e.id, e.version, e.tags, e.nodes)
          /\ e.nodes \in Seq(Refs) /\ Len(e.nodes) \in 2..MaxNodes
       \/ /\ e = Relation(e.id, e.version, e.tags, e.members)
          /\ e.members \in Seq(Types \X Refs) /\ Len(e.members) <= MaxMembers

(* Do tags, geometry and membership equal those of the base? A relation's
   members are compared as a set first and then by their order. *)
elementUnchanged(base, value) ==
    /\ base.tags = value.tags
    /\ IF value.type = "relation" THEN base.members = value.members
       ELSE base.at = value.at /\ base.nodes = value.nodes

(* validateDraft: an existing object keeps its identity and version, and a
   new way or relation needs a tag. *)
validateDraft(d) ==
    IF d.deleted
    THEN d = Deletion(d.base) /\ element(d.base, FALSE)
    ELSE /\ d = Draft(d.base, d.value)
         /\ element(d.value, IsNew(d))
         /\ IF IsNew(d)
            THEN d.value.type # "node" => d.value.tags # {}
            ELSE /\ element(d.base, FALSE)
                 /\ \A f \in {"type", "id", "version"} : d.base[f] = d.value[f]

(* The next placeholder: one counter for each type, over the drafts given. *)
nextTempId(ds, type) ==
    Min({0} \cup {ds[i].value.id : i \in {j \in Alive(ds) : ds[j].value.type = type}}) - 1

(* A reference resolves to the last draft of its object, or else to OSM. *)
Exists(ds, key) ==
    LET at == {i \in DOMAIN ds : Key(ds[i]) = key}
    IN  IF at = {} THEN key[2] > 0 ELSE ~ds[Max(at)].deleted

References(e) == {<<"node", e.nodes[i]>> : i \in DOMAIN e.nodes} \cup ToSet(e.members)
UsedIn(ds, key) == \E i \in Alive(ds) : key \in References(ds[i].value)

(* collectIssues finds nothing: every reference resolves, nothing deleted is
   in use, and a new node has a tag or is part of something. *)
checkReferences(ds) ==
    /\ \A i \in Alive(ds) : \A key \in References(ds[i].value) : Exists(ds, key)
    /\ \A i \in DOMAIN ds : ds[i].deleted => ~UsedIn(ds, Key(ds[i]))
    /\ \A i \in Alive(ds) :
           ds[i].value.type = "node" /\ IsNew(ds[i]) /\ ds[i].value.tags = {}
           => UsedIn(ds, Key(ds[i]))

(* osc and restore refuse what does not fit, repeats an object or does not
   resolve. *)
Unique(ds) == \A i, j \in DOMAIN ds : Key(ds[i]) = Key(ds[j]) => i = j
Acceptable(ds) ==
    /\ Len(ds) <= MaxDrafts
    /\ \A i \in DOMAIN ds : validateDraft(ds[i])
    /\ Unique(ds)
    /\ checkReferences(ds)
restore(ds) == IF Acceptable(ds) THEN ds ELSE <<>>

(* Mutant of osc: in the order in which the drafts were made. *)
oscAsMade(ds) == ds

(* The file: creations from nodes to relations, modifications, deletions
   from relations to nodes. *)
osc(ds) ==
    LET new == {i \in Alive(ds) : IsNew(ds[i])}
        modified == {i \in Alive(ds) \ new : ~elementUnchanged(ds[i].base, ds[i].value)}
        gone == DOMAIN ds \ Alive(ds)
        of(K, type) == KeepAt(ds, {i \in K : Subject(ds[i]).type = type})
    IN  of(new, "node") \o of(new, "way") \o of(new, "relation") \o KeepAt(ds, modified)
        \o of(gone, "relation") \o of(gone, "way") \o of(gone, "node")

(* checkVersions: some base is not what OSM has now. "live" gives the current
   version of each object, 0 for one that is gone. *)
checkVersions(ds, live) ==
    \E i \in DOMAIN ds : ~IsNew(ds[i]) /\ live[Key(ds[i])] # ds[i].base.version
versions(ds) ==
    {<<Key(ds[i]), ds[i].base.version>> : i \in {j \in DOMAIN ds : ~IsNew(ds[j])}}

-----------------------------------------------------------------------------
(* editWayNodes. Insertion after position i of the way; the way must not have
   the node yet. *)
CanInsert(nodes, i, id) ==
    /\ i \in 1..(Len(nodes) - 1)
    /\ id \notin ToSet(nodes)
    /\ Len(nodes) < MaxNodes
InsertNode(nodes, i, id) == InsertAt(nodes, i + 1, id)

(* Removal of a node of the way: a ring is closed again at its new beginning
   and keeps three different nodes, a line two; the last node of a line goes
   by way of the reversed line. *)
WithoutNode(nodes, i) ==
    LET ring == RemoveAt(Front(nodes), i)
    IN  IF IsClosed(nodes) THEN Append(ring, ring[1]) ELSE RemoveAt(nodes, i)
CanRemove(nodes, i) ==
    /\ i \in DOMAIN nodes
    /\ IsClosed(nodes) => i < Len(nodes)
    /\ Cardinality(ToSet(WithoutNode(nodes, i))) >= (IF IsClosed(nodes) THEN 3 ELSE 2)

(* validateWayCoordinates on positions; that an area crosses itself or has no
   extent is left to geometry. *)
validateWayCoordinates(at, closed) ==
    /\ Cardinality(ToSet(at)) >= (IF closed THEN 3 ELSE 2)
    /\ \A i \in 2..Len(at) : at[i] # at[i - 1]

(* mergeWith: b is put before or behind a, reversed if need be. *)
Joined(a, b) ==
    CASE Last(a) = b[1]       -> a \o Tail(b)
      [] Last(a) = Last(b)    -> a \o Reverse(Front(b))
      [] a[1] = Last(b)       -> b \o Tail(a)
      [] OTHER                -> Reverse(b) \o Tail(a)
CanJoin(a, b) == {a[1], Last(a)} \cap {b[1], Last(b)} # {}

(* Relation drafts follow a split: the new part stands behind the old one. *)
patchRelationsForSplit(ds, old, new) ==
    [i \in DOMAIN ds |->
        LET m  == ds[i].value.members
            at == {j \in DOMAIN m : m[j] = <<"way", old>>}
        IN  IF ds[i].deleted \/ at = {} THEN ds[i]
            ELSE [ds[i] EXCEPT !.value.members = InsertAt(m, Min(at) + 1, <<"way", new>>)]]

(* And a merge: they refer to the way that is kept. *)
patchRelationsForMerge(ds, removed, kept) ==
    [i \in DOMAIN ds |->
        IF ds[i].deleted THEN ds[i]
        ELSE [ds[i] EXCEPT !.value.members =
                 [j \in DOMAIN @ |-> IF @[j] = <<"way", removed>> THEN <<"way", kept>> ELSE @[j]]]]

(* The new untagged nodes among the given ones that nothing uses any more:
   both save and removeDraft take them out. *)
Pruned(ds, nodes) ==
    KeepAt(ds, {i \in DOMAIN ds :
        ~(/\ ~ds[i].deleted /\ IsNew(ds[i]) /\ ds[i].value.type = "node"
          /\ ds[i].value.id \in nodes /\ ds[i].value.tags = {}
          /\ ~UsedIn(ds, Key(ds[i])))})

(* A draft replaces the one of the same object or is added. *)
Put(ds, d) ==
    LET at == {i \in DOMAIN ds : Key(ds[i]) = Key(d)}
    IN  IF at = {} THEN Append(ds, d) ELSE [ds EXCEPT ![Min(at)] = d]
PutAll(ds, new) ==
    LET put[n \in 0..Len(new)] == IF n = 0 THEN ds ELSE Put(put[n - 1], new[n])
    IN  put[Len(new)]
=============================================================================
