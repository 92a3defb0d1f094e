---------------------------- MODULE MCOsmEditor ----------------------------
(* The instances of OsmEditor that are model-checked. *)
EXTENDS OsmEditor

(* A way with an inner node, two ways that meet at both ends and a relation. *)
OsmElements ==
    {Node(1, 1, {}, "a"), Node(2, 1, {}, "b"), Node(3, 1, {}, "c"),
     Way(1, 1, {"t"}, <<1, 2, 3>>), Way(2, 1, {"t"}, <<2, 3>>), Way(3, 1, {}, <<3, 2>>),
     Relation(1, 1, {"t"}, <<<<"way", 1>>>>)}

Nodes == {<<"node", 1>>, <<"node", 2>>, <<"node", 3>>}
OneWay == Nodes \cup {<<"way", 1>>}
SecretLine == [id |-> 1, type |-> "way", tags |-> {"secret"}, line |-> <<"r", "s">>]
SecretPoint == [id |-> 2, type |-> "node", tags |-> {"secret"}, line |-> <<"s">>]
World(osm, version, secret, steps) ==
    [osm |-> osm, version |-> version, vault |-> secret, work |-> steps]

(* The worlds of a run: what is in one does not multiply with what is in
   another. Others change only what is in version 1. *)
AllWorlds ==
    {World({}, 1, {}, 5), World({}, 1, {SecretLine}, 3), World(OneWay, 2, {}, 3),
     World({<<"node", 2>>, <<"node", 3>>, <<"way", 2>>, <<"way", 3>>}, 1, {}, 1),
     World(OneWay \cup {<<"relation", 1>>}, 1, {}, 2)}

OneWayWorld == {World(OneWay, 1, {}, 4)}
SecretWorld == {World({}, 1, {SecretPoint}, 4)}

(* A place from an earlier export. *)
Backups == {<<Draft(NoElement, Node(-1, 0, {"t"}, "q"))>>}
=============================================================================
