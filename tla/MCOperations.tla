---------------------------- MODULE MCOperations ----------------------------
(* Small instances of the way from the form to the log. *)
EXTENDS Operations

CONSTANTS Network, Crashes, SaveErrors, Reloads, Offlines, LegacyDocs

MCMaxFaults == [network |-> Network, crash |-> Crashes, save |-> SaveErrors,
                reload |-> Reloads, offline |-> Offlines]
MCLegacy == {<<>>} \cup {<<[id |-> NoId, doc |-> d]>> : d \in LegacyDocs}

Symmetry == Permutations(Tabs)

-----------------------------------------------------------------------------
(* The deployment modes in one run: all tabs of a browser against a
   single-user server or with a log of their own, one tab against a server
   where tokens change. *)
VARIABLE open   \* the tabs that are open

AtRest(t) ==
    /\ view[t] = "single-user" /\ token[t] = NoActor /\ todo[t] = <<>>
    /\ \A c \in Clients : c[1] = t => req[c] = NoRequest

ModesInit ==
    /\ Init
    /\ open \in IF mode # "multi-user" THEN {Tabs} ELSE {{t} : t \in Tabs}

ModesNext ==
    /\ Next
    /\ \A t \in Tabs \ open : AtRest(t)'
    /\ UNCHANGED open

ModesSpec == ModesInit /\ [][ModesNext]_<<vars, open>>

FairModesSpec == ModesSpec /\ Fairness

-----------------------------------------------------------------------------
(* The way from the form to the log implements the promise, its liveness
   included: what the form puts off to the next contact is logged, and leaves
   the queue. *)
PromiseKept == Promise!FairPromiseSpec /\ QueueDrains
=============================================================================
