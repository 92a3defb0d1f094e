-------------------------- MODULE OperationsPromise --------------------------
(***************************************************************************)
(* What the delivery and maintenance log promises the people who fill it:  *)
(* the log only grows at its end, the form says "saved" only of what is    *)
(* logged, and what it puts off to the next contact is logged in the end.  *)
(* The log of a server has an entry at most once and never one that the    *)
(* server refuses; the log of a browser may repeat what was put off, and   *)
(* only that.                                                              *)
(***************************************************************************)
EXTENDS Sequences, Functions

CONSTANTS
    Docs,     \* the entries people may make
    BadDocs   \* those the server refuses

VARIABLES
    once,     \* whether the log is a server's
    promise,  \* what the form said about each entry
    log       \* the log

promiseVars == <<once, promise, log>>

PromiseInit ==
    /\ once \in BOOLEAN
    /\ promise \in [Docs -> {"none", "queued"}]
    /\ log = <<>>

Log(d) ==
    /\ once => d \notin BadDocs
    /\ d \in Range(log) => promise[d] = "queued" /\ ~once
    /\ log' = Append(log, d)
    /\ UNCHANGED <<once, promise>>

Say(d, word) ==
    /\ promise[d] = "none"
    /\ promise' = [promise EXCEPT ![d] = word]
    /\ UNCHANGED <<once, log>>

PromiseNext ==
    \E d \in Docs :
        \/ Log(d)
        \/ d \in Range(log) /\ Say(d, "saved")
        \/ Say(d, "queued")
        \/ Say(d, "refused")

PromiseSpec == PromiseInit /\ [][PromiseNext]_promiseVars

PromiseFairness ==
    \A d \in Docs :
        WF_promiseVars(promise[d] = "queued" /\ d \notin Range(log) /\ Log(d))

FairPromiseSpec == PromiseSpec /\ PromiseFairness
=============================================================================
