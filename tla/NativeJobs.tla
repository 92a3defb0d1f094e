------------------------------ MODULE NativeJobs ------------------------------
(***************************************************************************)
(* The native bridge, bindings/c/main.go: asynchronous jobs, their         *)
(* cancellation, the engines they open and the calls of the C interface,   *)
(* together with the reader/writer lock of mobile.Engine that a close      *)
(* shares with the queries.                                                *)
(*                                                                         *)
(* A job's fields change under job.mu and the registry under its own lock, *)
(* so one action is one such section.  Identifiers are never reused: a job *)
(* stands for its identifier, and an opening job also for its engine.      *)
(***************************************************************************)
EXTENDS Naturals

CONSTANTS
    Imports, Openers, Queries,  \* the jobs by their action
    Closers,                    \* callers of OSMminiClose
    NoEngine,                   \* the nil engine pointer
    MaxProgress                 \* bound: progress reports per import

ASSUME NativeAssumption ==
    /\ Imports \cap Openers = {} /\ Imports \cap Queries = {}
    /\ Openers \cap Queries = {} /\ Openers \cap Closers = {}
    /\ NoEngine \notin Openers
    /\ MaxProgress \in Nat

VARIABLES
    job,     \* job[j]: its record, `changed` standing for the channel
    ctx,     \* ctx[j]: its context is cancelled
    work,    \* work[j]: where the goroutine of j is
    target,  \* target[q]: the engine pointer the query q has captured
    engine,  \* engine[o]: the engine the job o opens
    listed,  \* the engines in registry.engines
    wait,    \* wait[j]: the channel on which the caller of Wait is blocked
    close    \* close[c]: where a close is, and of which engine

nativeVars == <<job, ctx, work, target, engine, listed, wait, close>>

Jobs      == Imports \cup Openers \cup Queries
Terminal  == {"failed", "complete"}
NotClosing == [pc |-> "idle", of |-> NoEngine]
NoWait    == 0

(* The values of the variables of the bridge.  A channel is replaced once per
   progress report, at the end of the job and at its release. *)
JobsTypeOK ==
    /\ job \in [Jobs -> [state : {"none", "running"} \cup Terminal,
                         claimed : BOOLEAN, released : BOOLEAN,
                         changed : 1..MaxProgress + 3]]
    /\ ctx \in [Jobs -> BOOLEAN]
    /\ work \in [Jobs -> {"none", "working", "reading", "ok", "err", "done"}]
    /\ target \in [Queries -> Openers \cup {NoEngine}]
    /\ engine \in [Openers -> {"none", "open", "closed"}]
    /\ listed \subseteq Openers
    /\ wait \in [Jobs -> 0..MaxProgress + 3]
    /\ close \in [Closers \cup Openers ->
                    [pc : {"idle", "asked", "locking", "done"},
                     of : Openers \cup {NoEngine}]]

JobsInit ==
    /\ job = [j \in Jobs |-> [state |-> "none", claimed |-> FALSE,
                              released |-> FALSE, changed |-> 1]]
    /\ ctx = [j \in Jobs |-> FALSE]
    /\ work = [j \in Jobs |-> "none"]
    /\ target = [q \in Queries |-> NoEngine]
    /\ engine = [o \in Openers |-> "none"]
    /\ listed = {}
    /\ wait = [j \in Jobs |-> NoWait]
    /\ close = [c \in Closers \cup Openers |-> NotClosing]

(* signalLocked: whoever waits on the old channel is woken. *)
Signalled(j, fields) == [fields EXCEPT !.changed = @ + 1]

-----------------------------------------------------------------------------
(* startOperation registers the job and captures the engine of a query. *)
Start(j, o) ==
    /\ job[j].state = "none"
    /\ job' = [job EXCEPT ![j].state = "running"]
    /\ work' = [work EXCEPT ![j] = "working"]
    /\ target' = IF j \in Queries
                 THEN [target EXCEPT ![j] = IF o \in listed THEN o ELSE NoEngine]
                 ELSE target
    /\ UNCHANGED <<ctx, engine, listed, wait, close>>

(* setProgress, which only an import calls. *)
Progress(j) ==
    /\ j \in Imports
    /\ work[j] = "working"
    /\ job[j].changed <= MaxProgress
    /\ job' = [job EXCEPT ![j] = Signalled(j, @)]
    /\ UNCHANGED <<ctx, work, target, engine, listed, wait, close>>

(* The import or the opening ends; a panic is an error as well. *)
WorkEnds(j) ==
    /\ j \in Imports \cup Openers
    /\ work[j] = "working"
    /\ \/ /\ work' = [work EXCEPT ![j] = "ok"]
          /\ engine' = IF j \in Openers THEN [engine EXCEPT ![j] = "open"] ELSE engine
       \/ work' = [work EXCEPT ![j] = "err"] /\ UNCHANGED engine
    /\ UNCHANGED <<job, ctx, target, listed, wait, close>>

Closing(o) == \E c \in Closers \cup Openers : close[c] = [pc |-> "locking", of |-> o]
Readers(o) == {q \in Queries : work[q] = "reading" /\ target[q] = o}

(* A query takes the engine's lock for reading, which a waiting close holds
   up, and looks whether the engine has been closed. *)
Read(q) ==
    /\ q \in Queries
    /\ work[q] = "working"
    /\ ~Closing(target[q])
    /\ work' = [work EXCEPT ![q] =
                  IF target[q] # NoEngine /\ engine[target[q]] # "closed"
                  THEN "reading" ELSE "err"]
    /\ UNCHANGED <<job, ctx, target, engine, listed, wait, close>>

ReadEnds(q) ==
    /\ work[q] = "reading"
    /\ \E res \in {"ok", "err"} : work' = [work EXCEPT ![q] = res]
    /\ UNCHANGED <<job, ctx, target, engine, listed, wait, close>>

(* Mutant of Finish: nobody is woken. *)
FinishQuietly(j) ==
    LET fails == work[j] = "err" \/ ctx[j]
    IN  /\ work[j] \in {"ok", "err"}
        /\ job' = [job EXCEPT ![j].state = IF fails THEN "failed" ELSE "complete"]
        /\ IF j \in Openers /\ work[j] = "ok"
           THEN IF fails
                THEN engine' = [engine EXCEPT ![j] = "closed"] /\ UNCHANGED listed
                ELSE listed' = listed \cup {j} /\ UNCHANGED engine
           ELSE UNCHANGED <<engine, listed>>
        /\ work' = [work EXCEPT ![j] = "done"]
        /\ UNCHANGED <<ctx, target, wait, close>>

(* The goroutine's last section.  A cancellation turns success into failure
   and closes the engine that nobody has seen yet. *)
Finish(j) ==
    LET fails == work[j] = "err" \/ ctx[j]
    IN  /\ work[j] \in {"ok", "err"}
        /\ job' = [job EXCEPT ![j] = Signalled(j,
                     [@ EXCEPT !.state = IF fails THEN "failed" ELSE "complete"])]
        /\ IF j \in Openers /\ work[j] = "ok"
           THEN IF fails
                THEN engine' = [engine EXCEPT ![j] = "closed"] /\ UNCHANGED listed
                ELSE listed' = listed \cup {j} /\ UNCHANGED engine
           ELSE UNCHANGED <<engine, listed>>
        /\ work' = [work EXCEPT ![j] = "done"]
        /\ UNCHANGED <<ctx, target, wait, close>>

-----------------------------------------------------------------------------
(* Mutant of Cancel: the waiters are signalled as well. *)
CancelSignalling(j) ==
    /\ job[j].state # "none"
    /\ ~job[j].released
    /\ ctx' = [ctx EXCEPT ![j] = TRUE]
    /\ job' = [job EXCEPT ![j] = Signalled(j, @)]
    /\ UNCHANGED <<work, target, engine, listed, wait, close>>

(* OSMminiCancel, and OSMminiRelease of a running job. *)
Cancel(j) ==
    /\ job[j].state # "none"
    /\ ~job[j].released
    /\ ctx' = [ctx EXCEPT ![j] = TRUE]
    /\ UNCHANGED <<job, work, target, engine, listed, wait, close>>

(* OSMminiWait of a running job: subscribe, be woken or run into the timeout,
   and read the job again.  One thread waits for a job. *)
WaitBegins(j) ==
    /\ job[j].state = "running"
    /\ wait[j] = NoWait
    /\ wait' = [wait EXCEPT ![j] = job[j].changed]
    /\ UNCHANGED <<job, ctx, work, target, engine, listed, close>>

WaitEnds(j) ==
    /\ wait[j] # NoWait
    /\ wait' = [wait EXCEPT ![j] = NoWait]
    /\ UNCHANGED <<job, ctx, work, target, engine, listed, close>>

(* OSMminiTakeEngine hands the engine over, once. *)
TakeEngine(o) ==
    /\ job[o].state = "complete" /\ ~job[o].claimed /\ ~job[o].released
    /\ job' = [job EXCEPT ![o].claimed = TRUE]
    /\ UNCHANGED <<ctx, work, target, engine, listed, wait, close>>

(* OSMminiRelease of a finished job.  The engine nobody has taken is closed
   after the job is unlocked. *)
Release(j) ==
    /\ job[j].state \in Terminal
    /\ ~job[j].released
    /\ job' = [job EXCEPT ![j] = Signalled(j, [@ EXCEPT !.released = TRUE])]
    /\ close' = IF j \in Openers /\ job[j].state = "complete" /\ ~job[j].claimed
                THEN [close EXCEPT ![j] = [pc |-> "asked", of |-> j]]
                ELSE close
    /\ UNCHANGED <<ctx, work, target, engine, listed, wait>>

(* OSMminiClose is called. *)
Close(c, o) ==
    /\ close[c] = NotClosing
    /\ close' = [close EXCEPT ![c] = [pc |-> "asked", of |-> o]]
    /\ UNCHANGED <<job, ctx, work, target, engine, listed, wait>>

(* closeEngine looks the engine up and takes it off the registry; an engine
   that is not there any more is nothing to do. *)
CloseUnlists(c) ==
    LET o == close[c].of
    IN  /\ close[c].pc = "asked"
        /\ listed' = listed \ {o}
        /\ close' = [close EXCEPT ![c].pc = IF o \in listed THEN "locking" ELSE "done"]
        /\ UNCHANGED <<job, ctx, work, target, engine, wait>>

(* Mutant of CloseEngine: the readers are not waited for. *)
CloseEngineAtOnce(c) ==
    /\ close[c].pc = "locking"
    /\ engine' = [engine EXCEPT ![close[c].of] = "closed"]
    /\ close' = [close EXCEPT ![c].pc = "done"]
    /\ UNCHANGED <<job, ctx, work, target, listed, wait>>

(* Engine.Close has waited for the readers. *)
CloseEngine(c) ==
    /\ close[c].pc = "locking"
    /\ Readers(close[c].of) = {}
    /\ engine' = [engine EXCEPT ![close[c].of] = "closed"]
    /\ close' = [close EXCEPT ![c].pc = "done"]
    /\ UNCHANGED <<job, ctx, work, target, listed, wait>>

CloseReturns(c) ==
    /\ c \in Closers
    /\ close[c].pc = "done"
    /\ close' = [close EXCEPT ![c] = NotClosing]
    /\ UNCHANGED <<job, ctx, work, target, engine, listed, wait>>

-----------------------------------------------------------------------------
Goroutine(j) == Progress(j) \/ WorkEnds(j) \/ Read(j) \/ ReadEnds(j) \/ Finish(j)

(* Any program that uses the interface.  It learns of an engine by taking it
   and uses it until and after it closes it. *)
Client ==
    \/ \E j \in Jobs :
         \/ j \notin Queries /\ Start(j, NoEngine)
         \/ Cancel(j) \/ WaitBegins(j) \/ WaitEnds(j) \/ Release(j)
    \/ \E o \in Openers :
         \/ TakeEngine(o)
         \/ job[o].claimed /\ \E q \in Queries : Start(q, o)
         \/ job[o].claimed /\ \E c \in Closers : Close(c, o)

JobsNext ==
    \/ \E j \in Jobs : Goroutine(j)
    \/ \E c \in Closers \cup Openers : CloseUnlists(c) \/ CloseEngine(c) \/ CloseReturns(c)
    \/ Client

JobsSpec == JobsInit /\ [][JobsNext]_nativeVars

-----------------------------------------------------------------------------
(* Whatever is closed and by how many callers, no query reads an engine whose
   mapped files are gone. *)
NoUseAfterClose == \A o \in Openers : Readers(o) # {} => engine[o] = "open"

(* No open engine is out of reach: its job is about to register it, or can
   still hand it over, or its owner can close it, or it is being closed. *)
NoEngineLeaks ==
    \A o \in Openers :
        engine[o] = "open" =>
            \/ work[o] = "ok"
            \/ Closing(o)
            \/ o \in listed /\ (~job[o].released \/ job[o].claimed \/ close[o].pc = "asked")

(* An engine that has been taken goes only when its owner closes it, also when
   the job is cancelled or released at the same moment. *)
OnlyOwnerCloses ==
    \A o \in Openers :
        job[o].claimed /\ (o \in listed \ listed' \/ engine'[o] # engine[o]) =>
            \E c \in Closers : close[c].of = o /\ close[c].pc # "done"

(* A blocked Wait waits on the channel that the next change will close. *)
NoMissedWakeup ==
    \A j \in Jobs : wait[j] = job[j].changed => job[j].state = "running"
=============================================================================
