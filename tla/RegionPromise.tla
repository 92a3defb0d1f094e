---------------------------- MODULE RegionPromise ----------------------------
(***************************************************************************)
(* What an offline region is to those who open it: it appears at once,     *)
(* made from one source with one choice of options, and never changes.     *)
(* Only its POI index can be spoilt, and made anew.                        *)
(***************************************************************************)
CONSTANTS
    Made,   \* what can be made, by its source and options
    Absent  \* no region yet

VARIABLES
    region,  \* the region, once it is there
    spoilt   \* its POI index, if that cannot be used

PromiseInit == region \in Made \cup {Absent}

Appear == region = Absent /\ region' \in Made /\ spoilt' = {}

Reindex == region # Absent /\ spoilt' = {} /\ UNCHANGED region

PromiseSpec == PromiseInit /\ [][Appear \/ Reindex]_<<region, spoilt>>
=============================================================================
