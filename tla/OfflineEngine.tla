---------------------------- MODULE OfflineEngine ----------------------------
(***************************************************************************)
(* The Swift side of the native bridge,                                    *)
(* apple/Sources/OSMmini/OfflineEngine.swift: each asynchronous call runs  *)
(* one native job on a worker thread of its own, while the task that made  *)
(* the call may be cancelled at any moment and the engine closed from      *)
(* elsewhere.  A call is named by its job.                                 *)
(***************************************************************************)
EXTENDS NativeJobs

VARIABLES
    outcome,    \* outcome[j]: what the call has come to
    worker,     \* worker[j]: where its worker thread is
    cancelled   \* cancelled[j]: the task, and its Cancellation, is cancelled

swiftVars == <<outcome, worker, cancelled>>
offlineVars == <<nativeVars, swiftVars>>

Settled == {"value", "cancelled", "error"}

(* The values of the variables of the client and the bridge. *)
OfflineTypeOK ==
    /\ JobsTypeOK
    /\ outcome \in [Jobs -> {"none", "pending", "resumed", "closing"} \cup Settled]
    /\ worker \in [Jobs -> {"none", "queued", "started", "polling", "waiting",
                            "answered", "taking", "resumed", "dropping",
                            "failing", "dropped", "failed", "done"}]
    /\ cancelled \in [Jobs -> BOOLEAN]

OfflineInit ==
    /\ JobsInit
    /\ outcome = [j \in Jobs |-> "none"]
    /\ worker = [j \in Jobs |-> "none"]
    /\ cancelled = [j \in Jobs |-> FALSE]

Goes(j, pc) == worker' = [worker EXCEPT ![j] = pc]
Ends(j, o)  == outcome' = [outcome EXCEPT ![j] = o]
Owned(o)    == outcome[o] = "value"

-----------------------------------------------------------------------------
(* The call is made.  A task that is cancelled already starts nothing. *)
Call(j) ==
    /\ outcome[j] = "none"
    /\ IF cancelled[j]
       THEN Ends(j, "cancelled") /\ UNCHANGED worker
       ELSE Ends(j, "pending") /\ Goes(j, "queued")
    /\ UNCHANGED <<nativeVars, cancelled>>

(* The worker starts the native job, for a query on its engine's handle. *)
StartJob(j, o) ==
    /\ worker[j] = "queued"
    /\ Start(j, o)
    /\ Goes(j, "started")
    /\ UNCHANGED <<outcome, cancelled>>

(* The request is refused before there is a job. *)
StartFails(j) ==
    /\ worker[j] = "queued"
    /\ Goes(j, "done")
    /\ Ends(j, "error")
    /\ UNCHANGED <<nativeVars, cancelled>>

(* Cancellation.attach: the job of a task cancelled meanwhile is cancelled. *)
Attach(j) ==
    /\ worker[j] = "started"
    /\ IF cancelled[j] THEN Cancel(j) ELSE UNCHANGED nativeVars
    /\ Goes(j, "polling")
    /\ UNCHANGED <<outcome, cancelled>>

Attached(j) == worker[j] \notin {"none", "queued", "started"}

(* The task is cancelled: Cancellation.cancel, from any thread. *)
TaskCancel(j) ==
    /\ outcome[j] \notin Settled
    /\ ~cancelled[j]
    /\ cancelled' = [cancelled EXCEPT ![j] = TRUE]
    /\ IF Attached(j) /\ ~job[j].released THEN Cancel(j) ELSE UNCHANGED nativeVars
    /\ UNCHANGED <<outcome, worker>>

(* OSMminiWait, called again and again until the job is over. *)
PollWaits(j) ==
    /\ worker[j] = "polling"
    /\ WaitBegins(j)
    /\ Goes(j, "waiting")
    /\ UNCHANGED <<outcome, cancelled>>

PollAnswers(j) ==
    /\ \/ worker[j] = "polling" /\ job[j].state \in Terminal /\ UNCHANGED nativeVars
       \/ worker[j] = "waiting" /\ WaitEnds(j)
    /\ Goes(j, IF job[j].state = "running" THEN "polling" ELSE "answered")
    /\ UNCHANGED <<outcome, cancelled>>

(* The worker acts on the end of the job: it drops what a cancelled task has
   no use for, fails, or goes on to hand the result over.  A result may be
   unreadable. *)
JudgeJob(j) ==
    /\ worker[j] = "answered"
    /\ \/ cancelled[j] /\ Goes(j, "dropping")
       \/ ~cancelled[j] /\ Goes(j, "failing")
       \/ ~cancelled[j] /\ job[j].state = "complete" /\ Goes(j, "taking")
    /\ UNCHANGED <<nativeVars, outcome, cancelled>>

(* Mutant of HandOver: the engine is not taken. *)
HandOverUntaken(j) ==
    /\ worker[j] = "taking"
    /\ Ends(j, "resumed")
    /\ Goes(j, "resumed")
    /\ UNCHANGED <<nativeVars, cancelled>>

(* The engine is taken and the continuation resumed, before the job is
   released. *)
HandOver(j) ==
    /\ worker[j] = "taking"
    /\ IF j \in Openers THEN TakeEngine(j) ELSE UNCHANGED nativeVars
    /\ Ends(j, "resumed")
    /\ Goes(j, "resumed")
    /\ UNCHANGED cancelled

(* defer { OSMminiRelease }. *)
ReleaseJob(j) ==
    /\ Release(j)
    /\ \/ worker[j] = "resumed"  /\ Goes(j, "done")
       \/ worker[j] = "dropping" /\ Goes(j, "dropped")
       \/ worker[j] = "failing"  /\ Goes(j, "failed")
    /\ UNCHANGED <<outcome, cancelled>>

(* Mutant of Throw: only a cancellation resumes the continuation. *)
ThrowCancellation(j) ==
    /\ j \in Openers => close[j].pc \in {"idle", "done"}
    /\ \/ worker[j] = "dropped" /\ Ends(j, "cancelled")
       \/ worker[j] = "failed"  /\ UNCHANGED outcome
    /\ Goes(j, "done")
    /\ UNCHANGED <<nativeVars, cancelled>>

(* The error leaves the worker once the release has closed what it had to. *)
Throw(j) ==
    /\ j \in Openers => close[j].pc \in {"idle", "done"}
    /\ \/ worker[j] = "dropped" /\ Ends(j, "cancelled")
       \/ worker[j] = "failed"  /\ Ends(j, "error")
    /\ Goes(j, "done")
    /\ UNCHANGED <<nativeVars, cancelled>>

(* Mutant of Return: a cancelled open() throws without closing. *)
ReturnDropping(j) ==
    /\ outcome[j] = "resumed"
    /\ Ends(j, IF j \in Openers /\ cancelled[j] THEN "cancelled" ELSE "value")
    /\ UNCHANGED <<nativeVars, worker, cancelled>>

(* The call returns its value.  open() first looks whether its task has been
   cancelled meanwhile, and closes the engine itself if so. *)
Return(j) ==
    /\ outcome[j] = "resumed"
    /\ IF j \in Openers /\ cancelled[j]
       THEN Close(j, j) /\ Ends(j, "closing")
       ELSE Ends(j, "value") /\ UNCHANGED nativeVars
    /\ UNCHANGED <<worker, cancelled>>

OpenThrows(o) ==
    /\ outcome[o] = "closing"
    /\ close[o].pc = "done"
    /\ Ends(o, "cancelled")
    /\ UNCHANGED <<nativeVars, worker, cancelled>>

-----------------------------------------------------------------------------
Worker(j) ==
    \/ \E o \in Openers : j \in Queries /\ Owned(o) /\ StartJob(j, o)
    \/ j \notin Queries /\ StartJob(j, NoEngine)
    \/ StartFails(j) \/ Attach(j) \/ PollWaits(j) \/ PollAnswers(j) \/ JudgeJob(j)
    \/ HandOver(j) \/ ReleaseJob(j) \/ Throw(j)

Task(j) == Return(j) \/ (j \in Openers /\ OpenThrows(j))

User ==
    \/ \E j \in Jobs : (j \in Queries => \E o \in Openers : Owned(o)) /\ Call(j)
    \/ \E j \in Jobs : TaskCancel(j)
    \/ \E c \in Closers, o \in Openers : Owned(o) /\ Close(c, o) /\ UNCHANGED swiftVars

NativeStep ==
    /\ \/ \E j \in Jobs : Goroutine(j)
       \/ \E c \in Closers \cup Openers : CloseUnlists(c) \/ CloseEngine(c) \/ CloseReturns(c)
    /\ UNCHANGED swiftVars

OfflineNext ==
    \/ \E j \in Jobs : Worker(j) \/ Task(j)
    \/ User
    \/ NativeStep

OfflineSpec == OfflineInit /\ [][OfflineNext]_offlineVars

(* Threads that can go on do, and native work ends.  Nobody has to call,
   cancel or close anything. *)
OfflineFairness ==
    /\ \A j \in Jobs : WF_offlineVars(Worker(j)) /\ WF_offlineVars(Task(j))
    /\ \A j \in Jobs : WF_offlineVars((WorkEnds(j) \/ Read(j) \/ ReadEnds(j) \/ Finish(j))
                                      /\ UNCHANGED swiftVars)
    /\ \A c \in Closers \cup Openers :
         WF_offlineVars((CloseUnlists(c) \/ CloseEngine(c) \/ CloseReturns(c)) /\ UNCHANGED swiftVars)

-----------------------------------------------------------------------------
(* open() that does not return an engine leaves none behind, whenever its task
   was cancelled: before, during or after the native opening. *)
FailedOpenLeavesNothing ==
    \A o \in Openers : outcome[o] \in {"cancelled", "error"} => engine[o] # "open"

(* Every engine has somebody who can still close it, also after an open() that
   was cancelled at any moment. *)
EnginesAreOwned == NoEngineLeaks /\ FailedOpenLeavesNothing

(* open() that returns an engine returns a usable one, and only close() takes
   it away again. *)
OpenedStaysOpen ==
    \A o \in Openers : (outcome'[o] = "value" /\ o \notin listed') =>
        Owned(o) /\ (o \in listed => \E c \in Closers : close[c].of = o)

(* Every call returns, whatever is cancelled or closed meanwhile: its
   continuation is resumed on every path. *)
CallsReturn == \A j \in Jobs : outcome[j] = "pending" ~> outcome[j] \in Settled

(* Every job a call has started is released, so that the registry does not
   grow. *)
JobsAreDrained == \A j \in Jobs : job[j].state # "none" ~> job[j].released

(* A close gets past the queries it waits for; a query that comes later waits
   for the close in its turn. *)
ClosesReturn == \A c \in Closers : close[c].pc = "asked" ~> close[c] = NotClosing

(* apple/README.md of close(): it is idempotent and waits for active native
   work.  A second close() must not return while a query still reads. *)
CloseWaitsForWork ==
    \A c \in Closers : close[c].pc = "done" => Readers(close[c].of) = {}
=============================================================================
