----------------------------- MODULE OsmEditor -----------------------------
(***************************************************************************)
(* The OSM editor of the page, OSMEditor.create of osm-editor.js: drafts   *)
(* with undo, redo and local storage; the open object and its form; the    *)
(* tools on the map; requests to OpenStreetMap and to the server, whose    *)
(* answers find whatever the user has done meanwhile; and the confidential *)
(* objects, which are edited in the same form and never become drafts.     *)
(*                                                                         *)
(* An action that the source refuses with a message is not enabled here.   *)
(* Left out: candidates, highlights, presets beyond the tags they set, and *)
(* the position of the map.  A node of OpenStreetMap is taken to be known  *)
(* with its position when a way that has it is open.                       *)
(***************************************************************************)
EXTENDS OsmDrafts

CONSTANTS
    Osm,          \* the elements of OpenStreetMap, in their first version
    Places,       \* positions the user points at
    UserTags,     \* tags the user may give
    Worlds,       \* what there is at first: keys of OSM and confidential objects
    Files,        \* sequences of drafts that may be imported
    UndoLimit,    \* steps that can be undone (30)
    MaxLive,      \* bound: others change what is in a version up to this one
    MaxLocal,     \* bound: confidential objects
    MaxJobs,      \* bound: requests of the editor under way
    StorageFails  \* may localStorage refuse?

ASSUME EditorAssumption ==
    /\ \A e \in Osm : element(e, FALSE) /\ e.version = 1
    /\ Nowhere \notin Places
    /\ \A ds \in Files : ds \in Seq(ToSet(ds)) /\ Acceptable(ds)
    /\ \A w \in Worlds : /\ w.work \in Nat /\ w.version \in 1..(MaxLive + 1)
                         /\ \A o \in w.vault : /\ o.id > 0 /\ o.tags # {}
                                              /\ o.line \in Seq(ToSet(o.line)) \ {<<>>}
    /\ UndoLimit \in Nat \ {0} /\ MaxLive \in Nat /\ MaxJobs \in Nat /\ MaxLocal \in Nat
    /\ StorageFails \in BOOLEAN

VARIABLES
    drafts,   \* the workspace
    undo,     \* earlier workspaces
    redo,     \* undone ones
    stored,   \* what localStorage has
    current,  \* the open object with the nodes that wait to be saved with it
    working,  \* the tags of the form
    members,  \* the members in the form
    dirty,    \* has the form been changed?
    busy,     \* the flag of setBusy
    jobs,     \* requests under way
    placing,  \* the next click on the map places a new node
    drawing,  \* "no", "line" or "area"
    points,   \* the points drawn so far
    drawTags, \* pendingDrawTags
    geometry, \* geometryMode
    split,    \* splitMode
    outdated, \* checkedFor, if that check has found conflicts
    vault,    \* the confidential objects of the server
    live,     \* the versions on OpenStreetMap, 0 for what is gone
    work      \* bound: what the user may still begin or edit

history == <<drafts, undo, redo, stored>>
form    == <<current, working, members, dirty>>
pen     == <<placing, drawing, points, drawTags>>
tools   == <<geometry, split>>
net     == <<busy, jobs>>
world   == <<outdated, vault, live>>
vars    == <<history, form, pen, tools, net, world, work>>

NoDraft == [base |-> NoElement, value |-> NoElement, deleted |-> FALSE]
NoShape == <<>>
Opened(base, value, pending, conf, shape) ==
    [base |-> base, value |-> value, deleted |-> FALSE,
     pending |-> pending, conf |-> conf, shape |-> shape]
Nothing  == Opened(NoElement, NoElement, <<>>, 0, NoShape)
IsOpen   == current # Nothing
OsmKeys  == {<<e.type, e.id>> : e \in Osm}
OsmAt(key) == CHOOSE e \in Osm : <<e.type, e.id>> = key
Fetched(key) == [OsmAt(key) EXCEPT !.version = live[key]]
AliveOf(key) == {i \in Alive(drafts) : Key(drafts[i]) = key}
DraftOf(key) == IF AliveOf(key) = {} THEN NoDraft ELSE drafts[Min(AliveOf(key))]
Ops == {"look", "load", "merge", "delete", "check", "import", "confidential"}
Job(op, arg, old) == [op |-> op, arg |-> arg, old |-> old]

(* The shape of the editor's state; elements and drafts are well formed. *)
EditorTypeOK ==
    /\ \A ds \in {drafts, stored} \cup ToSet(undo) \cup ToSet(redo) :
           \A i \in DOMAIN ds : validateDraft(ds[i])
    /\ current = Nothing \/ current.value.type \in Types
    /\ \A i \in DOMAIN current.pending : validateDraft(current.pending[i])
    /\ dirty => IsOpen
    /\ {dirty, busy, placing, geometry, split} \subseteq BOOLEAN
    /\ \A j \in jobs : j.op \in Ops
    /\ drawing \in {"no", "line", "area"}
    /\ \A i \in DOMAIN points : points[i].at # Nowhere
    /\ live \in [OsmKeys -> 0..(MaxLive + 1)]
    /\ \E w \in Worlds : work <= w.work

(* The editor as it is created: the drafts come from localStorage. *)
Fresh(ds) ==
    /\ drafts = ds /\ undo = <<>> /\ redo = <<>>
    /\ current = Nothing /\ working = {} /\ members = <<>> /\ dirty = FALSE
    /\ busy = FALSE /\ jobs = {}
    /\ placing = FALSE /\ drawing = "no" /\ points = <<>> /\ drawTags = {}
    /\ geometry = FALSE /\ split = FALSE
    /\ outdated = {}

Init ==
    /\ stored = <<>> /\ Fresh(stored)
    /\ \E w \in Worlds : /\ vault = w.vault
                         /\ live = [k \in OsmKeys |-> IF k \in w.osm THEN w.version ELSE 0]
                         /\ work = w.work

Works == work > 0 /\ work' = work - 1

-----------------------------------------------------------------------------
(* What several handlers do.                                               *)

canSwitch == ~dirty /\ ~busy

cancel == placing' = FALSE /\ drawing' = "no" /\ points' = <<>> /\ drawTags' = {}

(* Mutant of closeCurrent: the mark of a changed form stays. *)
closeCurrentDirty ==
    /\ current' = Nothing /\ working' = {} /\ members' = <<>> /\ dirty' = dirty
    /\ geometry' = FALSE /\ split' = FALSE

closeCurrent ==
    /\ current' = Nothing /\ working' = {} /\ members' = <<>> /\ dirty' = FALSE
    /\ geometry' = FALSE /\ split' = FALSE

(* open: the tools stay as they are. *)
open(d, changed) ==
    /\ current' = d
    /\ working' = d.value.tags
    /\ members' = d.value.members
    /\ dirty' = changed

(* setTab away from the form ends the work on the geometry, not the split. *)
LeaveForm == geometry' = FALSE /\ split' = split

(* Mutant of persist: what has been undone stays to be redone. *)
persistKeepingRedo(next) ==
    /\ drafts' = next
    /\ undo' = IF next = drafts THEN undo ELSE LET u == Append(undo, drafts) IN
                   SubSeq(u, Max({1, Len(u) - UndoLimit + 1}), Len(u))
    /\ redo' = redo
    /\ stored' \in {next} \cup (IF StorageFails THEN {stored} ELSE {})

(* persist: the workspace before becomes a step to undo; localStorage may
   refuse, and then keeps what it has. *)
persist(next) ==
    /\ drafts' = next
    /\ IF next = drafts THEN UNCHANGED <<undo, redo>>
       ELSE /\ redo' = <<>>
            /\ LET u == Append(undo, drafts)
               IN  undo' = SubSeq(u, Max({1, Len(u) - UndoLimit + 1}), Len(u))
    /\ stored' \in {next} \cup (IF StorageFails THEN {stored} ELSE {})

(* setBusy: a request of the editor starts, and ends. *)
Begin(job) ==
    /\ Cardinality(jobs) < MaxJobs
    /\ jobs' = jobs \cup {job}
    /\ busy' = TRUE
    /\ placing' = FALSE
Finish(job) == jobs' = jobs \ {job} /\ busy' = FALSE

(* coordsOfNode, without a node that is being dragged. *)
coordsOfNode(id) ==
    LET own(ds) == {i \in Alive(ds) : ds[i].value.type = "node" /\ ds[i].value.id = id}
        at(ds) == ds[Min(own(ds))].value.at
    IN  IF current.value.type = "node" /\ current.value.id = id THEN current.value.at
        ELSE IF own(current.pending) # {} THEN at(current.pending)
        ELSE IF own(drafts) # {} THEN at(drafts)
        ELSE IF <<"node", id>> \in OsmKeys THEN OsmAt(<<"node", id>>).at
        ELSE Nowhere

-----------------------------------------------------------------------------
(* The form.                                                               *)

(* Rows and fields set tags, in a fieldset that is disabled while busy; so do
   the presets offered for a new node or way, which are not. *)
EditTags ==
    /\ IsOpen /\ (~busy \/ (IsNew(current) /\ current.value.type # "relation"))
    /\ Works
    /\ \E T \in SUBSET UserTags : working' = (working \ UserTags) \cup T
    /\ working' # working
    /\ dirty' = TRUE
    /\ UNCHANGED <<history, current, members, pen, tools, net, world>>

(* addMember: what the picker offers or a number of OpenStreetMap; these
   controls stay enabled while busy. *)
AddMember(key) ==
    /\ current.value.type = "relation" /\ Works
    /\ key \notin ToSet(members)
    /\ Len(members) < MaxMembers
    /\ \/ key \in OsmKeys /\ live[key] > 0
       \/ AliveOf(key) # {} /\ key[1] # "relation" /\ key # Key(current)
    /\ members' = Append(members, key)
    /\ dirty' = TRUE
    /\ UNCHANGED <<history, current, working, pen, tools, net, world>>

(* renderMembers: a member is removed or moved up. *)
EditMembers(i) ==
    /\ i \in DOMAIN members /\ Works
    /\ \/ members' = RemoveAt(members, i)
       \/ i > 1 /\ members' = [members EXCEPT ![i] = members[i - 1], ![i - 1] = members[i]]
    /\ dirty' = TRUE
    /\ UNCHANGED <<history, current, working, pen, tools, net, world>>

(* A new relation: open, and not yet a draft. *)
newRelation ==
    /\ canSwitch /\ Works
    /\ cancel
    /\ open(Opened(NoElement, Relation(nextTempId(drafts, "relation"), 0, {}, <<>>),
                   <<>>, 0, NoShape), TRUE)
    /\ UNCHANGED <<history, tools, net, world>>

discard ==
    /\ IsOpen /\ ~busy
    /\ closeCurrent
    /\ UNCHANGED <<history, pen, net, world, work>>

SetTab ==
    /\ geometry
    /\ LeaveForm
    /\ UNCHANGED <<history, form, pen, net, world, work>>

(* leave: the user goes to another part of the page. *)
leave ==
    /\ placing \/ drawing # "no" \/ geometry
    /\ cancel /\ LeaveForm
    /\ UNCHANGED <<history, form, net, world, work>>

-----------------------------------------------------------------------------
(* Points of an open way or node.                                          *)

toggleGeometryMode ==
    /\ IsOpen /\ current.value.type # "relation" /\ current.conf = 0 /\ ~busy
    /\ geometry' = ~geometry
    /\ Works
    /\ UNCHANGED <<history, form, pen, split, net, world>>

(* insertVertex, with the click on a section of the way. *)
insertVertex(i, at) ==
    LET id == nextTempId(drafts \o current.pending, "node")
    IN  /\ geometry /\ ~busy /\ Works
        /\ current.value.type = "way" /\ current.conf = 0
        /\ CanInsert(current.value.nodes, i, id)
        /\ current' = [current EXCEPT
               !.value.nodes = InsertNode(@, i, id),
               !.pending = Append(@, Draft(NoElement, Node(id, 0, {}, at)))]
        /\ dirty' = TRUE
        /\ UNCHANGED <<history, working, members, pen, tools, net, world>>

(* removeVertex: the node itself stays, unless it waits to be saved and the
   way has lost its last use of it. *)
removeVertex(i) ==
    /\ geometry /\ ~busy /\ Works
    /\ current.value.type = "way"
    /\ CanRemove(current.value.nodes, i)
    /\ LET id == current.value.nodes[i]
           nodes == WithoutNode(current.value.nodes, i)
       IN  current' = [current EXCEPT
               !.value.nodes = nodes,
               !.pending = KeepAt(@, {j \in DOMAIN @ : @[j].value.id # id \/ id \in ToSet(nodes)})]
    /\ dirty' = TRUE
    /\ UNCHANGED <<history, working, members, pen, tools, net, world>>

(* The draft of a node that is moved: the one that waits already, the saved
   one or the node of OpenStreetMap. *)
MovedNode(id, at) ==
    LET waiting == {i \in DOMAIN current.pending : current.pending[i].value.id = id}
        key == <<"node", id>>
        from == IF waiting # {} THEN current.pending[Min(waiting)]
                ELSE IF AliveOf(key) # {} THEN DraftOf(key)
                ELSE Draft(Fetched(key), Fetched(key))
    IN  [from EXCEPT !.value.at = at]

(* Drag a vertex and drop it, or enter its position: commitNodeMove. *)
MoveVertex(id, at) ==
    /\ geometry /\ ~busy /\ Works
    /\ coordsOfNode(id) # at
    /\ IF current.value.type = "node"
       THEN /\ id = current.value.id
            /\ current' = [current EXCEPT !.value.at = at]
       ELSE /\ id \in ToSet(current.value.nodes)
            /\ id > 0 /\ AliveOf(<<"node", id>>) = {} => <<"node", id>> \in OsmKeys
                                                       /\ live[<<"node", id>>] > 0
            /\ id < 0 => coordsOfNode(id) # Nowhere
            /\ current' = [current EXCEPT !.pending = Put(@, MovedNode(id, at))]
    /\ dirty' = TRUE
    /\ UNCHANGED <<history, working, members, pen, tools, net, world>>

-----------------------------------------------------------------------------
(* Placing and drawing.                                                    *)

(* The button for a new place; what is open stays open. *)
StartPlacing ==
    /\ canSwitch
    /\ drawing' = "no" /\ points' = <<>> /\ drawTags' = {}
    /\ placing' = ~placing
    /\ IF placing THEN UNCHANGED tools ELSE LeaveForm
    /\ Works
    /\ UNCHANGED <<history, form, net, world>>

(* place: a click on the map, without a look at what is open. *)
place(at) ==
    /\ placing /\ drawing = "no"
    /\ placing' = FALSE
    /\ open(Opened(NoElement, Node(nextTempId(drafts, "node"), 0, {}, at), <<>>, 0, NoShape), TRUE)
    /\ UNCHANGED <<history, drawing, points, drawTags, tools, net, world, work>>

(* startAt of the context menu, and "add it here" after a miss: a drawing
   goes on. *)
startAt(at) ==
    /\ canSwitch /\ Works
    /\ placing' = FALSE
    /\ open(Opened(NoElement, Node(nextTempId(drafts, "node"), 0, {}, at), <<>>, 0, NoShape), TRUE)
    /\ UNCHANGED <<history, drawing, points, drawTags, tools, net, world>>

startDrawing(kind) ==
    /\ canSwitch
    /\ LeaveForm
    /\ placing' = FALSE /\ drawing' = kind /\ points' = <<>> /\ drawTags' = {}
    /\ Works
    /\ UNCHANGED <<history, form, net, world>>

(* drawSelectedArea: the open new node becomes an area with its tags. *)
drawSelectedArea ==
    /\ current.value.type = "node" /\ IsNew(current) /\ ~busy
    /\ drawTags' = working
    /\ closeCurrent
    /\ placing' = FALSE /\ drawing' = "area" /\ points' = <<>>
    /\ UNCHANGED <<history, net, world, work>>

(* addDrawPoint: a new point, or a node of OpenStreetMap near enough. *)
addDrawPoint(point) ==
    /\ drawing # "no" /\ Len(points) < MaxNodes /\ Works
    /\ points' = Append(points, point)
    /\ UNCHANGED <<history, form, placing, drawing, drawTags, tools, net, world>>

undoDrawPoint ==
    /\ points # <<>>
    /\ points' = Front(points)
    /\ UNCHANGED <<history, form, placing, drawing, drawTags, tools, net, world, work>>

(* The nodes of what is drawn: those docked to, and placeholders that count
   on from the drafts. *)
DrawnIds(from) ==
    [i \in DOMAIN points |->
        IF points[i].node # 0 THEN points[i].node
        ELSE from - Cardinality({j \in 1..(i - 1) : points[j].node = 0})]
DrawnNodes(ids) ==
    LET new == KeepAt([i \in DOMAIN points |-> i], {i \in DOMAIN points : points[i].node = 0})
    IN  [n \in DOMAIN new |-> Draft(NoElement, Node(ids[new[n]], 0, {}, points[new[n]].at))]

(* finishDraw opens the new way, whatever has been open. *)
finishDraw ==
    LET area  == drawing = "area"
        ids   == DrawnIds(nextTempId(drafts, "node"))
        nodes == IF area THEN Append(ids, ids[1]) ELSE ids
        at    == [i \in DOMAIN points |-> points[i].at]
    IN  /\ drawing # "no" /\ Len(points) >= (IF area THEN 3 ELSE 2)
        /\ Len(nodes) <= MaxNodes
        /\ validateWayCoordinates(IF area THEN Append(at, at[1]) ELSE at, area)
        /\ cancel
        /\ open(Opened(NoElement, Way(nextTempId(drafts, "way"), 0, drawTags, nodes),
                       DrawnNodes(ids), 0, NoShape), TRUE)
        /\ UNCHANGED <<history, tools, net, world, work>>

-----------------------------------------------------------------------------
(* Loading.                                                                *)

FromDraft(d) == Opened(d.base, d.value, <<>>, 0, NoShape)

(* A draft of the list, which is in another tab than the form, or one under
   the click of pick. *)
OpenDraft(i) ==
    /\ canSwitch /\ i \in Alive(drafts)
    /\ cancel /\ LeaveForm
    /\ open(FromDraft(drafts[i]), FALSE)
    /\ UNCHANGED <<history, net, world, work>>

(* load: a draft is opened with its base, a way after a look at OSM for its
   nodes; anything else is fetched. *)
load(key) ==
    LET d == DraftOf(key)
    IN  /\ canSwitch
        /\ cancel
        /\ IF d # NoDraft /\ ~(key[1] = "way" /\ key[2] > 0)
           THEN open(FromDraft(d), FALSE) /\ UNCHANGED net
           ELSE Begin(Job("load", key, d)) /\ UNCHANGED form
        /\ UNCHANGED <<history, tools, world, work>>

(* The answer. A saved draft is opened also without one; otherwise what the
   user has begun meanwhile is kept, and the object is not opened. *)
LoadAnswer(job) ==
    /\ job.op = "load"
    /\ \/ /\ job.old # NoDraft
          /\ open(FromDraft(job.old), FALSE)
       \/ /\ job.old = NoDraft /\ live[job.arg] > 0 /\ ~dirty
          /\ open(Opened(Fetched(job.arg), Fetched(job.arg), <<>>, 0, NoShape), FALSE)
       \/ job.old = NoDraft /\ UNCHANGED form
    /\ Finish(job)
    /\ UNCHANGED <<history, pen, tools, world, work>>

(* search, pick, loadMapData: busy until there is an answer, that a single
   hit of pick follows with load. *)
Look ==
    /\ ~busy
    /\ Begin(Job("look", 0, NoDraft))
    /\ UNCHANGED <<history, form, drawing, points, drawTags, tools, world, work>>
LookAnswer(job) ==
    /\ job.op = "look"
    /\ Finish(job)
    /\ UNCHANGED <<history, form, pen, tools, world, work>>

-----------------------------------------------------------------------------
(* Changes of the workspace.                                               *)

(* The workspace after save: the vertices that waited, the object unless it
   is as it was, and no vertex that only its earlier draft has used. *)
Saved(d, pending) ==
    LET all  == PutAll(drafts, pending)
        at   == {i \in DOMAIN drafts : Key(drafts[i]) = Key(d)}
        next == IF ~IsNew(d) /\ elementUnchanged(d.base, d.value)
                THEN IF at = {} THEN all ELSE RemoveAt(all, Min(at))
                ELSE Put(all, d)
        before == IF at = {} \/ drafts[Min(at)].deleted THEN {}
                  ELSE ToSet(drafts[Min(at)].value.nodes)
    IN  IF d.value.type = "way" THEN Pruned(next, before) ELSE next

(* save, with what the form has. The button asks for a change, or a draft to
   replace, and a tag on what is new. *)
Edited ==
    Draft(current.base, [current.value EXCEPT !.tags = working, !.members = members])
Changed ==
    IF IsNew(current) THEN working # {}
    ELSE ~elementUnchanged(current.base, Edited.value) \/ current.pending # <<>>
         \/ AliveOf(Key(Edited)) # {}
GeometryHolds ==
    LET nodes == current.value.nodes
        at == [i \in DOMAIN nodes |-> coordsOfNode(nodes[i])]
    IN  (/\ current.value.type = "way"
         /\ IsNew(current) \/ current.base.nodes # nodes \/ current.pending # <<>>
         /\ Nowhere \notin ToSet(at))
        => validateWayCoordinates(at, IsClosed(nodes))

save ==
    LET next == Saved(Edited, current.pending)
    IN  /\ IsOpen /\ ~busy /\ Changed /\ current.conf = 0
        /\ GeometryHolds /\ validateDraft(Edited)
        /\ Len(next) <= MaxDrafts /\ checkReferences(next)
        /\ persist(next)
        /\ closeCurrent
        /\ UNCHANGED <<pen, net, world, work>>

(* Mutant of removeDraft: it looks for nothing that still needs the draft. *)
removeDraftUnchecked(i) ==
    /\ canSwitch /\ i \in Alive(drafts)
    /\ LeaveForm /\ persist(RemoveAt(drafts, i))
    /\ Works
    /\ UNCHANGED <<form, pen, net, world>>

(* removeDraft: the object stays open if it is. *)
removeDraft(i) ==
    LET next == Pruned(RemoveAt(drafts, i), ToSet(drafts[i].value.nodes))
    IN  /\ canSwitch /\ i \in Alive(drafts)
        /\ checkReferences(next)
        /\ LeaveForm /\ persist(next)
        /\ Works
        /\ UNCHANGED <<form, pen, net, world>>

(* draftNode for a deletion: it is taken back without a check. *)
Undelete(i) ==
    /\ canSwitch /\ i \in DOMAIN drafts \ Alive(drafts)
    /\ LeaveForm /\ persist(RemoveAt(drafts, i))
    /\ Works
    /\ UNCHANGED <<form, pen, net, world>>

(* deleteObject asks OpenStreetMap who uses the object. *)
deleteObject ==
    /\ IsOpen /\ ~IsNew(current) /\ canSwitch
    /\ Begin(Job("delete", Key(current), Deletion(current.base)))
    /\ Works
    /\ UNCHANGED <<history, form, drawing, points, drawTags, tools, world>>

(* A parent counts as the workspace has it. *)
UsedOnOsm(key) ==
    \E e \in Osm :
        LET parent == <<e.type, e.id>>
            at == {i \in DOMAIN drafts : Key(drafts[i]) = parent}
        IN  /\ live[parent] > 0 /\ key \in References(e)
            /\ \/ at = {}
               \/ ~drafts[Min(at)].deleted /\ key \in References(drafts[Min(at)].value)

(* Its answer: what is open now makes room for the deletion. *)
DeleteAnswer(job) ==
    LET next == Append(KeepAt(drafts, {i \in DOMAIN drafts : Key(drafts[i]) # Key(current)}), job.old)
    IN  /\ job.op = "delete"
        /\ \/ /\ IsOpen /\ ~UsedOnOsm(job.arg)
              /\ Len(next) <= MaxDrafts /\ checkReferences(next)
              /\ persist(next)
              /\ closeCurrent
           \/ UNCHANGED <<history, form, tools>>
        /\ Finish(job)
        /\ UNCHANGED <<pen, world, work>>

(* startSplit, and performSplit at an inner node of the way: the tags and
   vertices that wait in the form are not looked at. *)
startSplit ==
    /\ current.value.type = "way" /\ ~IsNew(current) /\ ~dirty
    /\ split' = TRUE
    /\ geometry' = (geometry \/ ~busy)
    /\ Works
    /\ UNCHANGED <<history, form, pen, net, world>>

performSplit(i) ==
    LET v      == current.value
        first  == Draft(current.base, [v EXCEPT !.nodes = SubSeq(@, 1, i)])
        second == Draft(NoElement, Way(nextTempId(drafts, "way"), 0, v.tags,
                                       SubSeq(v.nodes, i, Len(v.nodes))))
        next   == patchRelationsForSplit(Append(Put(drafts, first), second),
                                         v.id, second.value.id)
    IN  /\ split /\ geometry /\ ~busy /\ v.type = "way"
        /\ i \in 2..(Len(v.nodes) - 1)
        /\ \A j \in 1..(i - 1) : v.nodes[j] # v.nodes[i]
        /\ validateDraft(first) /\ validateDraft(second)
        /\ \A j \in DOMAIN next : validateDraft(next[j])
        /\ checkReferences(next)
        /\ persist(next)
        /\ closeCurrent
        /\ Works
        /\ UNCHANGED <<pen, net, world>>

(* A click on no inner node, and Escape, end it. *)
endSplit ==
    /\ split
    /\ split' = FALSE
    /\ UNCHANGED <<history, form, pen, geometry, net, world, work>>

(* mergeWith remembers the draft of the other way, if there is one; its
   button is enabled while busy. *)
mergeWith(id) ==
    /\ current.value.type = "way" /\ ~IsNew(current) /\ ~dirty
    /\ <<"way", id>> \in OsmKeys /\ id # current.value.id
    /\ Begin(Job("merge", <<"way", id>>, DraftOf(<<"way", id>>)))
    /\ Works
    /\ UNCHANGED <<history, form, drawing, points, drawTags, tools, world>>

(* The answer: the other way joins what is open now and is deleted. *)
MergeAnswer(job) ==
    LET other == IF job.old # NoDraft THEN job.old.value ELSE Fetched(job.arg)
        v     == current.value
        kept  == Draft(current.base, [v EXCEPT !.nodes = Joined(@, other.nodes),
                                               !.tags = @ \cup other.tags])
        gone  == Deletion(IF job.old # NoDraft THEN job.old.base ELSE other)
        with  == Put(drafts, kept)
        at    == {i \in Alive(with) : Key(with[i]) = job.arg}
        next  == patchRelationsForMerge(
                     IF at = {} THEN Append(with, gone) ELSE [with EXCEPT ![Min(at)] = gone],
                     job.arg[2], v.id)
    IN  /\ job.op = "merge"
        /\ \/ /\ v.type = "way"
              /\ (job.old # NoDraft \/ live[job.arg] > 0)
              /\ CanJoin(v.nodes, other.nodes)
              /\ validateDraft(kept) /\ checkReferences(next)
              /\ \A j \in DOMAIN next : validateDraft(next[j])
              /\ persist(next)
              /\ closeCurrent
           \/ UNCHANGED <<history, form, tools>>
        /\ Finish(job)
        /\ UNCHANGED <<pen, world, work>>

(* The buttons for undo and redo close what is open. *)
Undo ==
    /\ canSwitch /\ undo # <<>>
    /\ drafts' = Last(undo) /\ undo' = Front(undo) /\ redo' = Append(redo, drafts)
    /\ stored' \in {drafts'} \cup (IF StorageFails THEN {stored} ELSE {})
    /\ closeCurrent
    /\ UNCHANGED <<pen, net, world, work>>
Redo ==
    /\ canSwitch /\ redo # <<>>
    /\ drafts' = Last(redo) /\ redo' = Front(redo) /\ undo' = Append(undo, drafts)
    /\ stored' \in {drafts'} \cup (IF StorageFails THEN {stored} ELSE {})
    /\ closeCurrent
    /\ UNCHANGED <<pen, net, world, work>>

-----------------------------------------------------------------------------
(* Files, versions and reloads.                                            *)

(* The version check, whose verdict counts if the drafts are the same. *)
Check ==
    /\ canSwitch /\ versions(drafts) # {}
    /\ LeaveForm
    /\ Begin(Job("check", drafts, NoDraft))
    /\ UNCHANGED <<history, form, drawing, points, drawTags, world, work>>
CheckAnswer(job) ==
    /\ job.op = "check"
    /\ outdated' = IF job.arg # drafts THEN outdated
                   ELSE IF checkVersions(drafts, live) THEN versions(drafts) ELSE {}
    /\ Finish(job)
    /\ UNCHANGED <<history, form, pen, tools, vault, live, work>>

(* The export button; the file is osc(drafts). *)
CanExport ==
    /\ canSwitch /\ drafts # <<>> /\ Acceptable(drafts)
    /\ outdated # {} => outdated # versions(drafts)

(* Mutant of ImportAnswer: the file takes the place of the workspace. *)
ImportAnswerReplacing(job) ==
    /\ job.op = "import"
    /\ \/ \E ds \in Files :
              /\ ~dirty /\ Acceptable(drafts \o ds)
              /\ persist(ds)
       \/ UNCHANGED history
    /\ Finish(job)
    /\ UNCHANGED <<form, pen, tools, world, work>>

(* An exported workspace is added to this one. *)
Import ==
    /\ canSwitch /\ Works
    /\ LeaveForm
    /\ Begin(Job("import", 0, NoDraft))
    /\ UNCHANGED <<history, form, drawing, points, drawTags, world>>
ImportAnswer(job) ==
    /\ job.op = "import"
    /\ \/ \E ds \in Files :
              /\ ~dirty /\ Acceptable(drafts \o ds)
              /\ persist(drafts \o ds)
       \/ UNCHANGED history
    /\ Finish(job)
    /\ UNCHANGED <<form, pen, tools, world, work>>

(* The page is loaded again: what cannot be restored is left out. *)
Reload ==
    /\ Works
    /\ current' = Nothing /\ working' = {} /\ members' = <<>> /\ dirty' = FALSE
    /\ drafts' = restore(stored) /\ undo' = <<>> /\ redo' = <<>> /\ stored' = stored
    /\ busy' = FALSE /\ jobs' = {}
    /\ cancel /\ geometry' = FALSE /\ split' = FALSE
    /\ outdated' = {}
    /\ UNCHANGED <<vault, live>>

(* Somebody else changes an object on OpenStreetMap, or deletes it. *)
OsmChanges(key) ==
    /\ live[key] \in 1..MaxLive /\ Works
    /\ \E v \in {0, live[key] + 1} : live' = [live EXCEPT ![key] = v]
    /\ UNCHANGED <<history, form, pen, tools, net, outdated, vault>>

-----------------------------------------------------------------------------
(* Confidential objects.                                                   *)

(* openConfidential: placeholders count the points of the object, and have
   no drafts. *)
openConfidential(o) ==
    LET value == IF o.type = "node"
                 THEN Node(nextTempId(drafts, "node"), 0, o.tags, o.line[1])
                 ELSE Way(nextTempId(drafts, "way"), 0, o.tags, [i \in DOMAIN o.line |-> -i])
    IN  /\ canSwitch
        /\ cancel /\ LeaveForm
        /\ open(Opened(NoElement, value, <<>>, o.id, o.line), FALSE)
        /\ UNCHANGED <<history, net, world, work>>

(* confidentialGeometry: where the vertices are, or else the shape. *)
confidentialGeometry ==
    LET v == current.value
        drawn(i) == IF i \in DOMAIN current.shape THEN current.shape[i] ELSE Nowhere
        at == [i \in DOMAIN v.nodes |->
                  LET here == coordsOfNode(v.nodes[i]) IN IF here # Nowhere THEN here ELSE drawn(i)]
    IN  IF v.type = "node" THEN <<v.at>>
        ELSE KeepAt(at, {i \in DOMAIN at : at[i] # Nowhere})

(* saveConfidential: an update, or any new point or way for which the user
   has turned the switch. *)
saveConfidential ==
    /\ IsOpen /\ IsNew(current) /\ current.value.type # "relation"
    /\ ~busy /\ working # {}
    /\ current.value.type = "way" => Len(confidentialGeometry) >= 2
    /\ Begin(Job("confidential",
                 [id |-> current.conf, type |-> current.value.type,
                  tags |-> working, line |-> confidentialGeometry], NoDraft))
    /\ UNCHANGED <<history, form, drawing, points, drawTags, tools, world, work>>

(* The server has stored it, and the form is closed, or it has not. *)
ConfidentialAnswer(job) ==
    /\ job.op = "confidential"
    /\ \/ LET id == IF job.arg.id # 0 THEN job.arg.id
                    ELSE 1 + Max({0} \cup {o.id : o \in vault})
          IN  /\ IF job.arg.id # 0 THEN \E o \in vault : o.id = id ELSE id <= MaxLocal
              /\ vault' = {o \in vault : o.id # id} \cup {[job.arg EXCEPT !.id = id]}
              /\ closeCurrent
       \/ UNCHANGED <<vault, form, tools>>
    /\ Finish(job)
    /\ UNCHANGED <<history, pen, outdated, live, work>>

deleteConfidential(o) ==
    /\ vault' = vault \ {o}
    /\ IF current.conf = o.id THEN closeCurrent ELSE UNCHANGED <<form, tools>>
    /\ UNCHANGED <<history, pen, net, outdated, live, work>>

-----------------------------------------------------------------------------
Answer(job) ==
    \/ LoadAnswer(job) \/ LookAnswer(job) \/ DeleteAnswer(job) \/ MergeAnswer(job)
    \/ CheckAnswer(job) \/ ImportAnswer(job) \/ ConfidentialAnswer(job)

FormStep ==
    \/ EditTags \/ newRelation \/ discard \/ SetTab \/ leave
    \/ \E key \in OsmKeys \cup {Key(drafts[i]) : i \in DOMAIN drafts} : AddMember(key)
    \/ \E i \in 1..MaxMembers : EditMembers(i)
    \/ save \/ saveConfidential

MapStep ==
    \/ toggleGeometryMode
    \/ \E at \in Places :
           \/ place(at) \/ startAt(at)
           \/ addDrawPoint([at |-> at, node |-> 0])
           \/ \E i \in 1..MaxNodes : insertVertex(i, at)
           \/ \E id \in ToSet(current.value.nodes) \cup {current.value.id} : MoveVertex(id, at)
    \/ \E i \in 1..MaxNodes : removeVertex(i) \/ performSplit(i)
    \/ \E e \in Osm : e.type = "node" /\ live[<<"node", e.id>>] > 0 /\ addDrawPoint([at |-> e.at, node |-> e.id])
    \/ StartPlacing \/ \E kind \in {"line", "area"} : startDrawing(kind)
    \/ drawSelectedArea \/ undoDrawPoint \/ finishDraw \/ startSplit \/ endSplit

DraftStep ==
    \/ \E i \in DOMAIN drafts : OpenDraft(i) \/ removeDraft(i) \/ Undelete(i)
    \/ \E key \in OsmKeys \cup {Key(drafts[i]) : i \in Alive(drafts)} : load(key)
    \/ \E e \in Osm : e.type = "way" /\ mergeWith(e.id)
    \/ \E o \in vault : openConfidential(o) \/ deleteConfidential(o)
    \/ deleteObject \/ Undo \/ Redo \/ Look \/ Check \/ Import

Next ==
    \/ FormStep \/ MapStep \/ DraftStep \/ Reload
    \/ \E job \in jobs : Answer(job)
    \/ \E key \in OsmKeys : OsmChanges(key)

Spec == Init /\ [][Next]_vars

-----------------------------------------------------------------------------
(* Properties.                                                             *)

(* Every workspace there is, now, in the history and in localStorage, can
   be checked without an issue: references resolve, nothing deleted is used
   and no vertex is left over. *)
WorkspacesAreSound ==
    \A ds \in {drafts, stored} \cup ToSet(undo) \cup ToSet(redo) : checkReferences(ds)

(* Undo and redo walk along one line of workspaces, which a change cuts off
   behind the current one and which nothing else alters; a reload begins a
   new one. *)
Timeline == undo \o <<drafts>> \o Reverse(redo)
HistoryIsALine ==
    [][\/ Timeline' = Timeline
       \/ IsSuffix(Timeline', undo \o <<drafts, drafts'>>) /\ Len(undo') > 0
       \/ Reload]_vars

(* A draft is replaced or taken out only by what is asked for: by save and
   performSplit that of the open object, by removeDraft the one named, by a
   merge those of the two ways.  The tags and the base of another one stay,
   although save may move it as a vertex of the open way, and a split or merge
   change the members of a relation.  Answers act on what is open by then, as
   the code has it: the one to deleteObject takes out that draft, the one to
   mergeWith replaces it, even if another object has been opened since. *)
Work(ds) == {ds[i] : i \in {j \in Alive(ds) :
                ~IsNew(ds[j]) \/ ds[j].value.type # "node" \/ ds[j].value.tags # {}}}
Alike(d, e) == Key(e) = Key(d) /\ e.base = d.base /\ e.value.tags = d.value.tags
Follows(type, d, ds) == d.value.type = type /\ \E e \in Work(ds) : Alike(d, e)
DraftsAreKept ==
    [][\A d \in Work(drafts) \ Work(drafts') :
          \/ save /\ (Key(d) = Key(current) \/ Follows("node", d, drafts'))
          \/ /\ \E i \in 1..MaxNodes : performSplit(i)
             /\ Key(d) = Key(current) \/ Follows("relation", d, drafts')
          \/ \E job \in jobs :
                \/ DeleteAnswer(job) /\ Key(d) = Key(current)
                \/ /\ MergeAnswer(job)
                   /\ Key(d) \in {Key(current), job.arg} \/ Follows("relation", d, drafts')
          \/ \E i \in DOMAIN drafts : removeDraft(i) /\ d = drafts[i]
          \/ Undo \/ Redo \/ Reload]_vars

(* In the order of the exported file a placeholder is made before an object
   of another type refers to it, and what is deleted is not used by anything
   of another type that is deleted after it. A relation in a relation is
   left out: osc sorts by the type. *)
ExportInOrder ==
    CanExport =>
        LET file == osc(drafts)
        IN  \A i, j \in DOMAIN file :
                (/\ Key(file[j]) \in References(Subject(file[i]))
                 /\ Subject(file[j]).type # "relation") =>
                    /\ IsNew(file[j]) => j < i
                    /\ file[j].deleted /\ file[i].deleted => i < j

(* Local-only objects "never touch drafts, osc() or the .osc export". *)
ConfidentialStaysLocal ==
    \A i \in Alive(drafts) : drafts[i].value.tags \subseteq UserTags

(* "OSM-Edit keeps drafts in the browser": what localStorage has taken can be
   restored by the next load of the page. *)
DraftsSurviveReload == Acceptable(stored)
=============================================================================
