------------------------ MODULE NativeBridgeProofs -------------------------
(***************************************************************************)
(* The native bridge for any number of jobs, engines and callers.          *)
(* BridgeInv is the inductive invariant; the steps are those of any C      *)
(* program and of the Swift client, so that one proof serves both.         *)
(*                                                                         *)
(* The Swift client on the bridge, for any number of calls, engines and    *)
(* callers of close(): its steps are steps of the bridge, so that what is  *)
(* proved of the bridge holds there; SwiftInv adds where worker and task   *)
(* of a call may be while its job is in some phase.                        *)
(***************************************************************************)
EXTENDS MCOffline, TinyTilesBuildProofs, TLAPS

JobRecord == [state : {"none", "running"} \cup Terminal, claimed : BOOLEAN,
              released : BOOLEAN, changed : 1..MaxProgress + 3]

(* A job and its goroutine: only the job that has ended is claimed or
   released. *)
PhaseInv ==
    \A j \in Jobs :
        /\ job[j].state = "none" <=> work[j] = "none"
        /\ job[j].state \in Terminal <=> work[j] = "done"
        /\ job[j].released => job[j].state \in Terminal
        /\ job[j].claimed => job[j].state = "complete"

(* How often the channel of a job has been replaced in each phase; a waiter
   has an older one, or that of a running job. *)
ChannelInv ==
    \A j \in Jobs :
        /\ job[j].state \notin Terminal => job[j].changed <= MaxProgress + 1
        /\ ~job[j].released => job[j].changed <= MaxProgress + 2
        /\ wait[j] <= job[j].changed
        /\ wait[j] = job[j].changed => job[j].state = "running"

(* An engine is known to others only after its job has ended with success,
   and an engine on the registry is open. *)
EngineInv ==
    \A o \in Openers :
        /\ o \in listed => engine[o] = "open" /\ work[o] = "done"
        /\ work[o] = "ok" => engine[o] = "open"
        /\ engine[o] = "open" =>
             work[o] = "ok" \/ (work[o] = "done" /\ job[o].state = "complete")

(* A query has the pointer of an engine that was on the registry once. *)
QueryInv ==
    /\ \A q \in Queries : target[q] # NoEngine =>
          work[target[q]] = "done" /\ engine[target[q]] # "none"
    /\ \A j \in Jobs : work[j] = "reading" => j \in Queries /\ target[j] # NoEngine
    /\ NoUseAfterClose

(* The engine that a close is about to unmap is off the registry.  The close
   in the name of a job is of its own engine, and begins with the release of
   the job or after the engine has been taken. *)
CloseInv ==
    /\ \A c \in Closers \cup Openers :
          /\ close[c].pc # "idle" => close[c].of \in Openers
          /\ close[c].pc = "locking" => close[c].of \notin listed /\ work[close[c].of] = "done"
    /\ \A o \in Openers : close[o].pc # "idle" =>
          close[o].of = o /\ (job[o].released \/ job[o].claimed)
    /\ \A o \in Openers : close[o].pc \in {"locking", "done"} => o \notin listed

(* NoEngineLeaks, by components of a close. *)
ReachInv ==
    \A o \in Openers : engine[o] = "open" =>
        \/ work[o] = "ok"
        \/ \E c \in Closers \cup Openers : close[c].pc = "locking" /\ close[c].of = o
        \/ o \in listed /\ (~job[o].released \/ job[o].claimed \/ close[o].pc = "asked")

BridgeInv ==
    /\ JobsTypeOK /\ PhaseInv /\ ChannelInv /\ EngineInv /\ QueryInv /\ CloseInv
    /\ ReachInv

(* The steps of the bridge under any client.  The Swift client closes, in the
   name of the job, an engine that it has taken and has no use for. *)
BridgeStep ==
    \/ \E j \in Jobs : Goroutine(j)
    \/ \E c \in Closers \cup Openers : CloseUnlists(c) \/ CloseEngine(c) \/ CloseReturns(c)
    \/ \E j \in Jobs : Cancel(j) \/ WaitBegins(j) \/ WaitEnds(j) \/ Release(j)
    \/ \E j \in Jobs \ Queries : Start(j, NoEngine)
    \/ \E q \in Queries, o \in Openers : Start(q, o)
    \/ \E o \in Openers : TakeEngine(o) \/ (job[o].claimed /\ Close(o, o))
    \/ \E o \in Openers, c \in Closers : Close(c, o)

-----------------------------------------------------------------------------
(* One lemma per step of the bridge.                                       *)

(* A job starts; a query gets the pointer of an engine on the registry, or none. *)
LEMMA StartKeepsInv ==
    ASSUME BridgeInv, NEW j \in Jobs, NEW o \in Openers \cup {NoEngine},
           o = NoEngine <=> j \notin Queries, Start(j, o)
    PROVE  BridgeInv'
<1> USE NativeAssumption DEF BridgeInv
<1>1. JobsTypeOK'
  BY DEF Start, JobsTypeOK
<1>2. PhaseInv'
  BY DEF Start, PhaseInv, JobsTypeOK, Terminal
<1>3. ChannelInv'
  BY DEF Start, ChannelInv, Terminal
<1>4. EngineInv'
  BY DEF Start, EngineInv, PhaseInv
<1>5. QueryInv'
  BY DEF Start, QueryInv, EngineInv, PhaseInv, NoUseAfterClose, Readers
<1>6. CloseInv'
  BY DEF Start, CloseInv, PhaseInv
<1>7. ReachInv'
  BY DEF Start, ReachInv, PhaseInv
<1> QED BY <1>1, <1>2, <1>3, <1>4, <1>5, <1>6, <1>7

(* An import reports its progress. *)
LEMMA ProgressKeepsInv ==
    ASSUME BridgeInv, NEW j \in Jobs, Progress(j)
    PROVE  BridgeInv'
<1> USE NativeAssumption DEF BridgeInv
<1>1. JobsTypeOK'
  BY DEF Progress, Signalled, JobsTypeOK, Jobs
<1>2. PhaseInv'
  BY DEF Progress, Signalled, PhaseInv
<1>3. ChannelInv'
  BY DEF Progress, Signalled, ChannelInv, JobsTypeOK
<1>4. EngineInv'
  BY DEF Progress, EngineInv
<1>5. QueryInv'
  BY DEF Progress, QueryInv, NoUseAfterClose, Readers
<1>6. CloseInv'
  BY DEF Progress, CloseInv
<1>7. ReachInv'
  BY DEF Progress, ReachInv
<1> QED BY <1>1, <1>2, <1>3, <1>4, <1>5, <1>6, <1>7

(* An import or an opening ends; nobody knows the engine yet. *)
LEMMA WorkEndsKeepsInv ==
    ASSUME BridgeInv, NEW j \in Jobs, WorkEnds(j)
    PROVE  BridgeInv'
<1> USE NativeAssumption DEF BridgeInv
<1>1. JobsTypeOK'
  BY DEF WorkEnds, JobsTypeOK, Terminal
<1>2. PhaseInv'
  BY DEF WorkEnds, PhaseInv, JobsTypeOK
<1>3. ChannelInv'
  BY DEF WorkEnds, ChannelInv
<1>4. EngineInv'
  BY DEF WorkEnds, EngineInv, JobsTypeOK, Jobs
<1>5. QueryInv'
  BY DEF WorkEnds, QueryInv, CloseInv, NoUseAfterClose, Readers, JobsTypeOK,
         Jobs
<1>6. CloseInv'
  BY DEF WorkEnds, CloseInv, JobsTypeOK, Jobs
<1>7. ReachInv'
  BY DEF WorkEnds, ReachInv, JobsTypeOK, Jobs
<1> QED BY <1>1, <1>2, <1>3, <1>4, <1>5, <1>6, <1>7

(* A query finds its engine open or fails. *)
LEMMA ReadKeepsInv ==
    ASSUME BridgeInv, NEW j \in Jobs, Read(j)
    PROVE  BridgeInv'
<1> USE NativeAssumption DEF BridgeInv
<1>1. JobsTypeOK'
  BY DEF Read, JobsTypeOK
<1>2. PhaseInv'
  BY DEF Read, PhaseInv
<1>3. ChannelInv'
  BY DEF Read, ChannelInv
<1>4. EngineInv'
  BY DEF Read, EngineInv
<1>5. QueryInv'
  BY DEF Read, QueryInv, NoUseAfterClose, Readers, JobsTypeOK
<1>6. CloseInv'
  BY DEF Read, CloseInv
<1>7. ReachInv'
  BY DEF Read, ReachInv
<1> QED BY <1>1, <1>2, <1>3, <1>4, <1>5, <1>6, <1>7

(* A query ends. *)
LEMMA ReadEndsKeepsInv ==
    ASSUME BridgeInv, NEW j \in Jobs, ReadEnds(j)
    PROVE  BridgeInv'
<1> USE NativeAssumption DEF BridgeInv
<1>1. JobsTypeOK'
  BY DEF ReadEnds, JobsTypeOK
<1>2. PhaseInv'
  BY DEF ReadEnds, PhaseInv
<1>3. ChannelInv'
  BY DEF ReadEnds, ChannelInv
<1>4. EngineInv'
  BY DEF ReadEnds, EngineInv, QueryInv
<1>5. QueryInv'
  BY DEF ReadEnds, QueryInv, NoUseAfterClose, Readers
<1>6. CloseInv'
  BY DEF ReadEnds, CloseInv
<1>7. ReachInv'
  BY DEF ReadEnds, ReachInv
<1> QED BY <1>1, <1>2, <1>3, <1>4, <1>5, <1>6, <1>7

(* The goroutine's last section registers the engine or closes it. *)
LEMMA FinishKeepsInv ==
    ASSUME BridgeInv, NEW j \in Jobs, Finish(j)
    PROVE  BridgeInv'
<1> USE NativeAssumption DEF BridgeInv
<1>1. JobsTypeOK'
  <2> DEFINE end == [job[j] EXCEPT !.state = IF work[j] = "err" \/ ctx[j]
                                            THEN "failed" ELSE "complete"]
  <2>1. job' = [job EXCEPT ![j] = Signalled(j, end)]
    BY DEF Finish
  <2>2. end \in JobRecord /\ end.changed = job[j].changed
    BY DEF JobsTypeOK, JobRecord, Terminal
  <2>3. job[j].changed + 1 \in 1..MaxProgress + 3
    BY DEF Finish, JobsTypeOK, PhaseInv, ChannelInv, Terminal
  <2> HIDE DEF end
  <2>4. Signalled(j, end) \in JobRecord
    BY <2>2, <2>3 DEF JobRecord, Signalled
  <2>5. job \in [Jobs -> JobRecord]
    BY DEF JobsTypeOK, JobRecord
  <2>6. job' \in [Jobs -> JobRecord]
    BY <2>1, <2>4, <2>5
  <2>7. work' \in [Jobs -> {"none", "working", "reading", "ok", "err", "done"}]
    BY DEF Finish, JobsTypeOK
  <2>8. engine' \in [Openers -> {"none", "open", "closed"}] /\ listed' \subseteq Openers
    BY DEF Finish, JobsTypeOK
  <2>9. UNCHANGED <<ctx, target, wait, close>>
    BY DEF Finish
  <2> QED BY <2>6, <2>7, <2>8, <2>9 DEF JobsTypeOK, JobRecord
<1>2. PhaseInv'
  BY DEF Finish, Signalled, PhaseInv, JobsTypeOK, Terminal
<1>3. ChannelInv'
  BY DEF Finish, Signalled, ChannelInv, PhaseInv, JobsTypeOK, Terminal
<1>4. EngineInv'
  <2> DEFINE fails == work[j] = "err" \/ ctx[j]
  <2>1. /\ job'[j].state = IF fails THEN "failed" ELSE "complete"
        /\ work' = [work EXCEPT ![j] = "done"]
        /\ \A i \in Jobs \ {j} : job'[i] = job[i]
    BY DEF Finish, Signalled, JobsTypeOK, Jobs
  <2>2. \A o \in Openers \ {j} : engine'[o] = engine[o] /\ (o \in listed' <=> o \in listed)
    BY DEF Finish, JobsTypeOK
  <2>3. j \in Openers => (j \in listed' => engine'[j] = "open") /\ (engine'[j] = "open" => ~fails)
    BY DEF Finish, JobsTypeOK, EngineInv
  <2> HIDE DEF fails
  <2> QED BY <2>1, <2>2, <2>3 DEF EngineInv, JobsTypeOK, Jobs
<1>5. QueryInv'
  <2>1. work' = [work EXCEPT ![j] = "done"] /\ UNCHANGED target
    BY DEF Finish
  <2>2. \A o \in Openers : engine'[o] = engine[o] \/ (o = j /\ work[j] = "ok" /\ engine'[o] = "closed")
    BY DEF Finish, JobsTypeOK
  <2>3. \A q \in Queries : target[q] # j \/ j \notin Openers \/ work[j] \notin {"ok", "err"}
    BY DEF QueryInv
  <2> QED BY <2>1, <2>2, <2>3 DEF Finish, QueryInv, NoUseAfterClose, Readers, JobsTypeOK, Jobs
<1>6. CloseInv'
  BY DEF Finish, Signalled, CloseInv, PhaseInv, JobsTypeOK, Jobs, Terminal
<1>7. ReachInv'
  BY DEF Finish, Signalled, ReachInv, PhaseInv, JobsTypeOK
<1> QED BY <1>1, <1>2, <1>3, <1>4, <1>5, <1>6, <1>7

(* A job is cancelled. *)
LEMMA CancelKeepsInv ==
    ASSUME BridgeInv, NEW j \in Jobs, Cancel(j)
    PROVE  BridgeInv'
<1> USE NativeAssumption DEF BridgeInv
<1>1. JobsTypeOK'
  BY DEF Cancel, JobsTypeOK
<1>2. PhaseInv'
  BY DEF Cancel, PhaseInv
<1>3. ChannelInv'
  BY DEF Cancel, ChannelInv
<1>4. EngineInv'
  BY DEF Cancel, EngineInv
<1>5. QueryInv'
  BY DEF Cancel, QueryInv, NoUseAfterClose, Readers
<1>6. CloseInv'
  BY DEF Cancel, CloseInv
<1>7. ReachInv'
  BY DEF Cancel, ReachInv
<1> QED BY <1>1, <1>2, <1>3, <1>4, <1>5, <1>6, <1>7

(* A caller subscribes to a running job. *)
LEMMA WaitBeginsKeepsInv ==
    ASSUME BridgeInv, NEW j \in Jobs, WaitBegins(j)
    PROVE  BridgeInv'
<1> USE NativeAssumption DEF BridgeInv
<1>1. JobsTypeOK'
  BY DEF WaitBegins, JobsTypeOK
<1>2. PhaseInv'
  BY DEF WaitBegins, PhaseInv
<1>3. ChannelInv'
  BY DEF WaitBegins, ChannelInv, JobsTypeOK
<1>4. EngineInv'
  BY DEF WaitBegins, EngineInv
<1>5. QueryInv'
  BY DEF WaitBegins, QueryInv, NoUseAfterClose, Readers
<1>6. CloseInv'
  BY DEF WaitBegins, CloseInv
<1>7. ReachInv'
  BY DEF WaitBegins, ReachInv
<1> QED BY <1>1, <1>2, <1>3, <1>4, <1>5, <1>6, <1>7

(* A caller is woken, or its time is up. *)
LEMMA WaitEndsKeepsInv ==
    ASSUME BridgeInv, NEW j \in Jobs, WaitEnds(j)
    PROVE  BridgeInv'
<1> USE NativeAssumption DEF BridgeInv
<1>1. JobsTypeOK'
  BY DEF WaitEnds, NoWait, JobsTypeOK
<1>2. PhaseInv'
  BY DEF WaitEnds, PhaseInv
<1>3. ChannelInv'
  BY DEF WaitEnds, NoWait, ChannelInv, JobsTypeOK
<1>4. EngineInv'
  BY DEF WaitEnds, EngineInv
<1>5. QueryInv'
  BY DEF WaitEnds, QueryInv, NoUseAfterClose, Readers
<1>6. CloseInv'
  BY DEF WaitEnds, CloseInv
<1>7. ReachInv'
  BY DEF WaitEnds, ReachInv
<1> QED BY <1>1, <1>2, <1>3, <1>4, <1>5, <1>6, <1>7

(* The engine is handed over. *)
LEMMA TakeEngineKeepsInv ==
    ASSUME BridgeInv, NEW o \in Openers, TakeEngine(o)
    PROVE  BridgeInv'
<1> USE NativeAssumption DEF BridgeInv
<1>1. JobsTypeOK'
  <2>1. job' = [job EXCEPT ![o] = [job[o] EXCEPT !.claimed = TRUE]]
    BY DEF TakeEngine
  <2>2. o \in Jobs /\ job[o] \in JobRecord
    BY DEF JobsTypeOK, JobRecord, Jobs
  <2>3. [job[o] EXCEPT !.claimed = TRUE] \in JobRecord
    BY <2>2 DEF JobRecord
  <2> QED BY <2>1, <2>2, <2>3 DEF TakeEngine, JobsTypeOK, JobRecord
<1>2. PhaseInv'
  BY DEF TakeEngine, PhaseInv
<1>3. ChannelInv'
  BY DEF TakeEngine, ChannelInv
<1>4. EngineInv'
  BY DEF TakeEngine, EngineInv
<1>5. QueryInv'
  BY DEF TakeEngine, QueryInv, NoUseAfterClose, Readers
<1>6. CloseInv'
  BY DEF TakeEngine, CloseInv
<1>7. ReachInv'
  BY DEF TakeEngine, ReachInv
<1> QED BY <1>1, <1>2, <1>3, <1>4, <1>5, <1>6, <1>7

(* A finished job is released; an engine not taken will be closed. *)
LEMMA ReleaseKeepsInv ==
    ASSUME BridgeInv, NEW j \in Jobs, Release(j)
    PROVE  BridgeInv'
<1> USE NativeAssumption DEF BridgeInv
<1>1. JobsTypeOK'
  <2>1. job' = [job EXCEPT ![j] = Signalled(j, [job[j] EXCEPT !.released = TRUE])]
    BY DEF Release
  <2>2. [job[j] EXCEPT !.released = TRUE] \in JobRecord
    <3>1. job[j] \in JobRecord
      BY DEF JobsTypeOK, JobRecord
    <3> QED BY <3>1 DEF JobRecord
  <2>3. job[j].changed + 1 \in 1..MaxProgress + 3
    BY DEF Release, JobsTypeOK, PhaseInv, ChannelInv, Terminal
  <2>4. Signalled(j, [job[j] EXCEPT !.released = TRUE]) \in JobRecord
    BY <2>2, <2>3 DEF JobRecord, Signalled, JobsTypeOK
  <2> QED BY <2>1, <2>4 DEF Release, JobsTypeOK, JobRecord, Jobs
<1>2. PhaseInv'
  BY DEF Release, Signalled, PhaseInv
<1>3. ChannelInv'
  BY DEF Release, Signalled, ChannelInv, JobsTypeOK
<1>4. EngineInv'
  BY DEF Release, Signalled, EngineInv
<1>5. QueryInv'
  BY DEF Release, QueryInv, NoUseAfterClose, Readers
<1>6. CloseInv'
  BY DEF Release, Signalled, CloseInv, JobsTypeOK
<1>7. ReachInv'
  BY DEF Release, Signalled, ReachInv, CloseInv, EngineInv, JobsTypeOK
<1> QED BY <1>1, <1>2, <1>3, <1>4, <1>5, <1>6, <1>7

(* A close is called, in the name of a job only once its engine is taken. *)
LEMMA CloseKeepsInv ==
    ASSUME BridgeInv, NEW c \in Closers \cup Openers, NEW o \in Openers,
           c \in Openers => c = o /\ job[o].claimed, Close(c, o)
    PROVE  BridgeInv'
<1> USE NativeAssumption DEF BridgeInv
<1>1. JobsTypeOK'
  BY DEF Close, JobsTypeOK
<1>2. PhaseInv'
  BY DEF Close, PhaseInv
<1>3. ChannelInv'
  BY DEF Close, ChannelInv
<1>4. EngineInv'
  BY DEF Close, EngineInv
<1>5. QueryInv'
  BY DEF Close, QueryInv, NoUseAfterClose, Readers
<1>6. CloseInv'
  BY DEF Close, CloseInv
<1>7. ReachInv'
  BY DEF Close, NotClosing, ReachInv
<1> QED BY <1>1, <1>2, <1>3, <1>4, <1>5, <1>6, <1>7

(* A close takes its engine off the registry; only one of several does. *)
LEMMA CloseUnlistsKeepsInv ==
    ASSUME BridgeInv, NEW c \in Closers \cup Openers, CloseUnlists(c)
    PROVE  BridgeInv'
<1> USE NativeAssumption DEF BridgeInv
<1>1. JobsTypeOK'
  BY DEF CloseUnlists, JobsTypeOK
<1>2. PhaseInv'
  BY DEF CloseUnlists, PhaseInv
<1>3. ChannelInv'
  BY DEF CloseUnlists, ChannelInv
<1>4. EngineInv'
  BY DEF CloseUnlists, EngineInv
<1>5. QueryInv'
  BY DEF CloseUnlists, QueryInv, NoUseAfterClose, Readers
<1>6. CloseInv'
  BY DEF CloseUnlists, CloseInv, EngineInv
<1>7. ReachInv'
  BY DEF CloseUnlists, ReachInv, CloseInv, JobsTypeOK
<1> QED BY <1>1, <1>2, <1>3, <1>4, <1>5, <1>6, <1>7

(* A close unmaps its engine, which no query reads. *)
LEMMA CloseEngineKeepsInv ==
    ASSUME BridgeInv, NEW c \in Closers \cup Openers, CloseEngine(c)
    PROVE  BridgeInv'
<1> USE NativeAssumption DEF BridgeInv
<1>1. JobsTypeOK'
  <2>1. engine' \in [Openers -> {"none", "open", "closed"}]
    BY DEF CloseEngine, JobsTypeOK
  <2>2. close' \in [Closers \cup Openers ->
                    [pc : {"idle", "asked", "locking", "done"},
                     of : Openers \cup {NoEngine}]]
    BY DEF CloseEngine, JobsTypeOK
  <2>3. UNCHANGED <<job, ctx, work, target, listed, wait>>
    BY DEF CloseEngine
  <2> QED BY <2>1, <2>2, <2>3 DEF JobsTypeOK
<1>2. PhaseInv'
  BY DEF CloseEngine, PhaseInv
<1>3. ChannelInv'
  BY DEF CloseEngine, ChannelInv
<1>4. EngineInv'
  BY DEF CloseEngine, EngineInv, CloseInv
<1>5. QueryInv'
  BY DEF CloseEngine, Readers, QueryInv, NoUseAfterClose
<1>6. CloseInv'
  BY DEF CloseEngine, CloseInv
<1>7. ReachInv'
  BY DEF CloseEngine, ReachInv, JobsTypeOK
<1> QED BY <1>1, <1>2, <1>3, <1>4, <1>5, <1>6, <1>7

(* A close returns. *)
LEMMA CloseReturnsKeepsInv ==
    ASSUME BridgeInv, NEW c \in Closers \cup Openers, CloseReturns(c)
    PROVE  BridgeInv'
<1> USE NativeAssumption DEF BridgeInv
<1>1. JobsTypeOK'
  BY DEF CloseReturns, NotClosing, JobsTypeOK
<1>2. PhaseInv'
  BY DEF CloseReturns, PhaseInv
<1>3. ChannelInv'
  BY DEF CloseReturns, ChannelInv
<1>4. EngineInv'
  BY DEF CloseReturns, EngineInv
<1>5. QueryInv'
  BY DEF CloseReturns, QueryInv, NoUseAfterClose, Readers
<1>6. CloseInv'
  BY DEF CloseReturns, NotClosing, CloseInv
<1>7. ReachInv'
  BY DEF CloseReturns, ReachInv
<1> QED BY <1>1, <1>2, <1>3, <1>4, <1>5, <1>6, <1>7

-----------------------------------------------------------------------------
(* Every step of the bridge keeps the invariant. *)
LEMMA BridgeStepKeepsInv == BridgeInv /\ (BridgeStep \/ UNCHANGED nativeVars) => BridgeInv'
<1> SUFFICES ASSUME BridgeInv, BridgeStep \/ UNCHANGED nativeVars PROVE BridgeInv'
  OBVIOUS
<1>1. ASSUME NEW j \in Jobs, Goroutine(j) PROVE BridgeInv'
  BY <1>1, ProgressKeepsInv, WorkEndsKeepsInv, ReadKeepsInv, ReadEndsKeepsInv, FinishKeepsInv
     DEF Goroutine
<1>2. ASSUME NEW c \in Closers \cup Openers, CloseUnlists(c) \/ CloseEngine(c) \/ CloseReturns(c)
      PROVE  BridgeInv'
  BY <1>2, CloseUnlistsKeepsInv, CloseEngineKeepsInv, CloseReturnsKeepsInv
<1>3. ASSUME NEW j \in Jobs, Cancel(j) \/ WaitBegins(j) \/ WaitEnds(j) \/ Release(j)
      PROVE  BridgeInv'
  BY <1>3, CancelKeepsInv, WaitBeginsKeepsInv, WaitEndsKeepsInv, ReleaseKeepsInv
<1>4. ASSUME NEW j \in Jobs \ Queries, Start(j, NoEngine) PROVE BridgeInv'
  BY <1>4, StartKeepsInv
<1>5. ASSUME NEW q \in Queries, NEW o \in Openers, Start(q, o) PROVE BridgeInv'
  <2>1. q \in Jobs /\ o # NoEngine
    BY NativeAssumption DEF Jobs
  <2> QED BY <1>5, <2>1, StartKeepsInv
<1>6. ASSUME NEW o \in Openers, TakeEngine(o) \/ (job[o].claimed /\ Close(o, o)) PROVE BridgeInv'
  BY <1>6, TakeEngineKeepsInv, CloseKeepsInv
<1>7. ASSUME NEW o \in Openers, NEW c \in Closers, Close(c, o) PROVE BridgeInv'
  <2>1. c \notin Openers
    BY NativeAssumption
  <2> QED BY <1>7, <2>1, CloseKeepsInv
<1>8. CASE UNCHANGED nativeVars
  BY <1>8 DEF nativeVars, BridgeInv, JobsTypeOK, PhaseInv, ChannelInv, EngineInv, QueryInv,
     NoUseAfterClose, Readers, CloseInv, ReachInv
<1> QED BY <1>1, <1>2, <1>3, <1>4, <1>5, <1>6, <1>7, <1>8 DEF BridgeStep

(* No job, no engine and no close: the invariant holds. *)
LEMMA BridgeInitInv == JobsInit => BridgeInv
<1> SUFFICES ASSUME JobsInit PROVE BridgeInv
  OBVIOUS
<1> USE NativeAssumption DEF JobsInit, Terminal, NoWait, NotClosing
<1>1. JobsTypeOK
  BY DEF JobsTypeOK
<1>2. PhaseInv /\ ChannelInv
  BY DEF PhaseInv, ChannelInv
<1>3. EngineInv /\ CloseInv /\ ReachInv
  BY DEF EngineInv, CloseInv, ReachInv, Jobs
<1>4. QueryInv
  BY DEF QueryInv, NoUseAfterClose, Readers, Jobs
<1> QED BY <1>1, <1>2, <1>3, <1>4 DEF BridgeInv

(* Any program that uses the C interface takes steps of the bridge. *)
LEMMA AnyClientSteps == [JobsNext]_nativeVars => BridgeStep \/ UNCHANGED nativeVars
BY DEF JobsNext, Client, BridgeStep

(* The components of a close tell whether it is waiting for the readers. *)
LEMMA ReachIsNoLeak == BridgeInv => NoEngineLeaks
<1> SUFFICES ASSUME BridgeInv, NEW c \in Closers \cup Openers, NEW o \in Openers,
                    close[c].pc = "locking", close[c].of = o
             PROVE  close[c] = [pc |-> "locking", of |-> o]
  BY DEF BridgeInv, ReachInv, NoEngineLeaks, Closing
<1> QED BY DEF BridgeInv, JobsTypeOK

-----------------------------------------------------------------------------
(* The inductive invariant holds for any program that uses the C interface. *)
THEOREM BridgeInvariant == JobsSpec => []BridgeInv
<1>1. JobsInit => BridgeInv
  BY BridgeInitInv
<1>2. BridgeInv /\ [JobsNext]_nativeVars => BridgeInv'
  BY AnyClientSteps, BridgeStepKeepsInv
<1> QED BY <1>1, <1>2, PTL DEF JobsSpec

(* The variables of the bridge keep their types. *)
THEOREM BridgeTypeCorrect == JobsSpec => []JobsTypeOK
<1>1. BridgeInv => JobsTypeOK
  BY DEF BridgeInv
<1> QED BY <1>1, BridgeInvariant, PTL

(* No query reads an engine whose files are unmapped, however many queries
   and closes of it there are. *)
THEOREM ReadersHoldTheirEngine == JobsSpec => []NoUseAfterClose
<1>1. BridgeInv => NoUseAfterClose
  BY DEF BridgeInv, QueryInv
<1> QED BY <1>1, BridgeInvariant, PTL

(* Whoever waits for a job waits on the channel that is closed next. *)
THEOREM WaitersAreWoken == JobsSpec => []NoMissedWakeup
<1>1. BridgeInv => NoMissedWakeup
  BY DEF BridgeInv, ChannelInv, NoMissedWakeup
<1> QED BY <1>1, BridgeInvariant, PTL

(* Every open engine can still be closed by somebody. *)
THEOREM OpenEnginesAreReachable == JobsSpec => []NoEngineLeaks
<1> QED BY ReachIsNoLeak, BridgeInvariant, PTL

(* As long as the client calls OSMminiClose itself, the close in the name of
   a job is of an engine nobody has taken. *)
OwnCloseInv == \A o \in Openers : job[o].claimed => close[o].pc = "idle"

(* No step closes an engine in the name of its job once it has been taken. *)
LEMMA OwnCloseStep == BridgeInv /\ OwnCloseInv /\ [JobsNext]_nativeVars => OwnCloseInv'
<1> SUFFICES ASSUME BridgeInv, OwnCloseInv, [JobsNext]_nativeVars, NEW o \in Openers
             PROVE  job'[o].claimed => close'[o].pc = "idle"
  BY DEF OwnCloseInv
<1> USE NativeAssumption DEF BridgeInv, JobsTypeOK, OwnCloseInv, Jobs
<1>1. ASSUME NEW j \in Jobs, Goroutine(j) PROVE job'[o].claimed = job[o].claimed /\ close'[o] = close[o]
  <2>1. CASE Progress(j)
    BY <2>1 DEF Progress, Signalled
  <2>2. CASE Finish(j)
    <3> DEFINE s   == IF work[j] = "err" \/ ctx[j] THEN "failed" ELSE "complete"
               new == Signalled(j, [job[j] EXCEPT !.state = s])
    <3>1. job' = [job EXCEPT ![j] = new]
      BY <2>2 DEF Finish
    <3> HIDE DEF s
    <3>2. new.claimed = job[j].claimed
      BY DEF Signalled
    <3> HIDE DEF new
    <3>3. close' = close
      BY <2>2 DEF Finish
    <3> QED BY <3>1, <3>2, <3>3
  <2>3. CASE WorkEnds(j) \/ Read(j) \/ ReadEnds(j)
    BY <2>3 DEF WorkEnds, Read, ReadEnds
  <2> QED BY <1>1, <2>1, <2>2, <2>3 DEF Goroutine
<1>2. ASSUME NEW c \in Closers \cup Openers, CloseUnlists(c) \/ CloseEngine(c) \/ CloseReturns(c)
      PROVE  job' = job /\ (close'[o] = close[o] \/ close[o].pc # "idle")
  BY <1>2 DEF CloseUnlists, CloseEngine, CloseReturns
<1>3. ASSUME NEW j \in Jobs, Cancel(j) \/ WaitBegins(j) \/ WaitEnds(j) PROVE job' = job /\ close' = close
  BY <1>3 DEF Cancel, WaitBegins, WaitEnds
<1>4. ASSUME NEW j \in Jobs, Release(j)
      PROVE  job'[o].claimed = job[o].claimed /\ (close'[o] = close[o] \/ ~job[o].claimed)
  BY <1>4 DEF Release, Signalled
<1>5. ASSUME NEW j \in Jobs, NEW p, Start(j, p) PROVE job'[o].claimed = job[o].claimed /\ close' = close
  BY <1>5 DEF Start
<1>6. ASSUME NEW p \in Openers, TakeEngine(p)
      PROVE  close' = close /\ (job'[o] = job[o] \/ (~job[o].released /\ ~job[o].claimed))
  BY <1>6 DEF TakeEngine
<1>7. ASSUME NEW p \in Openers, NEW c \in Closers, Close(c, p) PROVE job' = job /\ close'[o] = close[o]
  BY <1>7 DEF Close
<1>8. ~job[o].released /\ ~job[o].claimed => close[o].pc = "idle"
  BY DEF CloseInv
<1>9. CASE UNCHANGED nativeVars
  BY <1>9 DEF nativeVars
<1>10. CASE JobsNext
  BY <1>1, <1>2, <1>3, <1>4, <1>5, <1>6, <1>7, <1>8, <1>10 DEF JobsNext, Client
<1> QED BY <1>9, <1>10

(* In the step in which a taken engine leaves the registry or is unmapped, a
   close of its owner is at work. *)
LEMMA OwnersAloneStep == BridgeInv /\ OwnCloseInv /\ [JobsNext]_nativeVars => [OnlyOwnerCloses]_nativeVars
<1> SUFFICES ASSUME BridgeInv, OwnCloseInv, JobsNext, NEW o \in Openers, job[o].claimed,
                    o \in listed \ listed' \/ engine'[o] # engine[o]
             PROVE  \E c \in Closers : close[c].of = o /\ close[c].pc # "done"
  BY DEF OnlyOwnerCloses
<1>1. work[o] = "done"
  BY DEF BridgeInv, PhaseInv, Jobs, Terminal
<1>2. PICK c \in Closers \cup Openers : close[c].of = o /\ close[c].pc \in {"asked", "locking"}
  <2>1. ASSUME NEW j \in Jobs, Goroutine(j) PROVE FALSE
    BY <1>1, <2>1 DEF Goroutine, Progress, WorkEnds, Read, ReadEnds, Finish, BridgeInv, JobsTypeOK
  <2>2. ASSUME NEW c \in Closers \cup Openers, CloseUnlists(c) \/ CloseEngine(c) \/ CloseReturns(c)
        PROVE  close[c].of = o /\ close[c].pc \in {"asked", "locking"}
    BY <2>2 DEF CloseUnlists, CloseEngine, CloseReturns, BridgeInv, JobsTypeOK
  <2>3. ASSUME Client PROVE FALSE
    BY <2>3 DEF Client, Start, Cancel, WaitBegins, WaitEnds, Release, TakeEngine, Close
  <2> QED BY <2>1, <2>2, <2>3 DEF JobsNext
<1>3. c \notin Openers
  BY <1>2 DEF BridgeInv, CloseInv, OwnCloseInv
<1> QED BY <1>2, <1>3

(* An engine that has been taken leaves the registry, and is unmapped, only
   on behalf of its owner. *)
THEOREM OwnersAlone == JobsSpec => [][OnlyOwnerCloses]_nativeVars
<1>1. JobsInit => OwnCloseInv
  BY DEF JobsInit, OwnCloseInv, NotClosing, Jobs
<1> QED BY <1>1, OwnCloseStep, OwnersAloneStep, BridgeInvariant, PTL DEF JobsSpec

-----------------------------------------------------------------------------
(* The Swift client.                                                       *)

SwiftTypes ==
    /\ outcome \in [Jobs -> {"none", "pending", "resumed", "closing"} \cup Settled]
    /\ worker \in [Jobs -> {"none", "queued", "started", "polling", "waiting",
                            "answered", "taking", "resumed", "dropping",
                            "failing", "dropped", "failed", "done"}]
    /\ cancelled \in [Jobs -> BOOLEAN]

(* The worker and its job: only the worker takes an engine, and releases. *)
WorkerInv ==
    \A j \in Jobs :
        /\ worker[j] \in {"none", "queued"} => job[j].state = "none"
        /\ worker[j] \in {"started", "polling", "waiting"} => job[j].state # "none"
        /\ worker[j] \in {"answered", "dropping", "failing", "taking"} => job[j].state \in Terminal
        /\ job[j].claimed => worker[j] \in {"resumed", "done"}
        /\ worker[j] \in {"dropped", "failed"} => job[j].released
        /\ job[j].released => worker[j] \in {"dropped", "failed", "done"}

(* The task and its worker: the call is pending until the worker has resumed
   its continuation, with an engine only after that has been taken. *)
TaskInv ==
    \A j \in Jobs :
        /\ outcome[j] = "none" => worker[j] = "none"
        /\ outcome[j] = "pending" <=> worker[j] \notin {"none", "resumed", "done"}
        /\ outcome[j] \in {"cancelled", "error"} => job[j].state # "running"
        /\ j \in Openers /\ outcome[j] \in {"resumed", "closing", "value"} => job[j].claimed
        /\ outcome[j] = "closing" => j \in Openers /\ close[j].pc # "idle"

(* Only an engine that open() has returned is closed by others. *)
CloserInv ==
    \A c \in Closers : close[c].pc # "idle" => outcome[close[c].of] = "value"

SwiftInv ==
    /\ BridgeInv /\ SwiftTypes /\ WorkerInv /\ TaskInv /\ CloserInv
    /\ FailedOpenLeavesNothing

-----------------------------------------------------------------------------
(* One lemma per step of the client.                                       *)

(* A call is made. *)
LEMMA CallKeepsSwiftInv ==
    ASSUME SwiftInv, NEW j \in Jobs, Call(j)
    PROVE  SwiftInv'
<1> USE NativeAssumption DEF SwiftInv, BridgeInv
<1>1. BridgeInv'
  <2> HIDE DEF BridgeInv
  <2> QED BY BridgeStepKeepsInv DEF Call
<1>2. SwiftTypes'
  BY DEF Call, Goes, Ends, SwiftTypes, Settled
<1>3. WorkerInv'
  <2>1. job[j].state = "none" /\ ~job[j].claimed /\ ~job[j].released
    BY DEF Call, TaskInv, WorkerInv, PhaseInv, Terminal
  <2>2. job' = job /\ worker' \in {worker, [worker EXCEPT ![j] = "queued"]}
    BY DEF Call, Goes, nativeVars
  <2> QED BY <2>1, <2>2 DEF WorkerInv, SwiftTypes
<1>4. TaskInv'
  BY DEF Call, Goes, Ends, nativeVars, TaskInv, WorkerInv, SwiftTypes
<1>5. CloserInv'
  BY DEF Call, Ends, nativeVars, CloserInv, SwiftTypes, CloseInv, Jobs
<1>6. FailedOpenLeavesNothing'
  BY DEF Call, Ends, nativeVars, FailedOpenLeavesNothing, TaskInv, WorkerInv,
         PhaseInv, EngineInv, SwiftTypes, Jobs
<1> QED BY <1>1, <1>2, <1>3, <1>4, <1>5, <1>6

(* The worker starts the job. *)
LEMMA StartJobKeepsSwiftInv ==
    ASSUME SwiftInv, NEW j \in Jobs, NEW o \in Openers \cup {NoEngine},
           o = NoEngine <=> j \notin Queries, StartJob(j, o)
    PROVE  SwiftInv'
<1> USE NativeAssumption DEF SwiftInv, BridgeInv
<1>1. BridgeInv'
  <2> HIDE DEF BridgeInv
  <2> QED BY StartKeepsInv DEF StartJob
<1>2. SwiftTypes'
  BY DEF StartJob, Goes, SwiftTypes
<1>3. WorkerInv'
  BY DEF StartJob, Goes, Start, WorkerInv, TaskInv, SwiftTypes, JobsTypeOK
<1>4. TaskInv'
  BY DEF StartJob, Goes, Start, TaskInv
<1>5. CloserInv'
  BY DEF StartJob, Start, CloserInv
<1>6. FailedOpenLeavesNothing'
  BY DEF StartJob, Start, FailedOpenLeavesNothing
<1> QED BY <1>1, <1>2, <1>3, <1>4, <1>5, <1>6

(* The request is refused. *)
LEMMA StartFailsKeepsSwiftInv ==
    ASSUME SwiftInv, NEW j \in Jobs, StartFails(j)
    PROVE  SwiftInv'
<1> USE NativeAssumption DEF SwiftInv, BridgeInv
<1>1. BridgeInv'
  <2> HIDE DEF BridgeInv
  <2> QED BY BridgeStepKeepsInv DEF StartFails
<1>2. SwiftTypes'
  BY DEF StartFails, Goes, Ends, SwiftTypes, Settled
<1>3. WorkerInv'
  BY DEF StartFails, Goes, nativeVars, WorkerInv
<1>4. TaskInv'
  BY DEF StartFails, Goes, Ends, nativeVars, TaskInv, WorkerInv, SwiftTypes
<1>5. CloserInv'
  BY DEF StartFails, Ends, nativeVars, CloserInv, TaskInv
<1>6. FailedOpenLeavesNothing'
  BY DEF StartFails, Ends, nativeVars, FailedOpenLeavesNothing, WorkerInv,
         PhaseInv, EngineInv
<1> QED BY <1>1, <1>2, <1>3, <1>4, <1>5, <1>6

(* The job of a task that is cancelled already is cancelled. *)
LEMMA AttachKeepsSwiftInv ==
    ASSUME SwiftInv, NEW j \in Jobs, Attach(j)
    PROVE  SwiftInv'
<1> USE NativeAssumption DEF SwiftInv, BridgeInv
<1>1. BridgeInv'
  <2> HIDE DEF BridgeInv
  <2> QED BY CancelKeepsInv, BridgeStepKeepsInv DEF Attach
<1>2. SwiftTypes'
  BY DEF Attach, Goes, SwiftTypes
<1>3. WorkerInv'
  BY DEF Attach, Goes, Cancel, nativeVars, WorkerInv
<1>4. TaskInv'
  BY DEF Attach, Goes, Cancel, nativeVars, TaskInv
<1>5. CloserInv'
  BY DEF Attach, Cancel, nativeVars, CloserInv
<1>6. FailedOpenLeavesNothing'
  BY DEF Attach, Cancel, nativeVars, FailedOpenLeavesNothing
<1> QED BY <1>1, <1>2, <1>3, <1>4, <1>5, <1>6

(* The task is cancelled. *)
LEMMA TaskCancelKeepsSwiftInv ==
    ASSUME SwiftInv, NEW j \in Jobs, TaskCancel(j)
    PROVE  SwiftInv'
<1> USE NativeAssumption DEF SwiftInv, BridgeInv
<1>1. BridgeInv'
  <2> HIDE DEF BridgeInv
  <2> QED BY CancelKeepsInv, BridgeStepKeepsInv DEF TaskCancel
<1>2. SwiftTypes'
  BY DEF TaskCancel, SwiftTypes
<1>3. WorkerInv'
  BY DEF TaskCancel, Cancel, nativeVars, WorkerInv
<1>4. TaskInv'
  BY DEF TaskCancel, Cancel, nativeVars, TaskInv
<1>5. CloserInv'
  BY DEF TaskCancel, Cancel, nativeVars, CloserInv
<1>6. FailedOpenLeavesNothing'
  BY DEF TaskCancel, Cancel, nativeVars, FailedOpenLeavesNothing
<1> QED BY <1>1, <1>2, <1>3, <1>4, <1>5, <1>6

(* The worker waits. *)
LEMMA PollWaitsKeepsSwiftInv ==
    ASSUME SwiftInv, NEW j \in Jobs, PollWaits(j)
    PROVE  SwiftInv'
<1> USE NativeAssumption DEF SwiftInv, BridgeInv
<1>1. BridgeInv'
  <2> HIDE DEF BridgeInv
  <2> QED BY WaitBeginsKeepsInv DEF PollWaits
<1>2. SwiftTypes'
  BY DEF PollWaits, Goes, SwiftTypes
<1>3. WorkerInv'
  BY DEF PollWaits, Goes, WaitBegins, WorkerInv
<1>4. TaskInv'
  BY DEF PollWaits, Goes, WaitBegins, TaskInv
<1>5. CloserInv'
  BY DEF PollWaits, WaitBegins, CloserInv
<1>6. FailedOpenLeavesNothing'
  BY DEF PollWaits, WaitBegins, FailedOpenLeavesNothing
<1> QED BY <1>1, <1>2, <1>3, <1>4, <1>5, <1>6

(* The worker is told of the end of the job, or asks again. *)
LEMMA PollAnswersKeepsSwiftInv ==
    ASSUME SwiftInv, NEW j \in Jobs, PollAnswers(j)
    PROVE  SwiftInv'
<1> USE NativeAssumption DEF SwiftInv, BridgeInv
<1>1. BridgeInv'
  <2> HIDE DEF BridgeInv
  <2> QED BY WaitEndsKeepsInv, BridgeStepKeepsInv DEF PollAnswers
<1>2. SwiftTypes'
  BY DEF PollAnswers, Goes, SwiftTypes
<1>3. WorkerInv'
  BY DEF PollAnswers, Goes, WaitEnds, nativeVars, WorkerInv, JobsTypeOK
<1>4. TaskInv'
  BY DEF PollAnswers, Goes, WaitEnds, nativeVars, TaskInv
<1>5. CloserInv'
  BY DEF PollAnswers, WaitEnds, nativeVars, CloserInv
<1>6. FailedOpenLeavesNothing'
  BY DEF PollAnswers, WaitEnds, nativeVars, FailedOpenLeavesNothing
<1> QED BY <1>1, <1>2, <1>3, <1>4, <1>5, <1>6

(* The worker hands the result over, drops it or fails. *)
LEMMA JudgeJobKeepsSwiftInv ==
    ASSUME SwiftInv, NEW j \in Jobs, JudgeJob(j)
    PROVE  SwiftInv'
<1> USE NativeAssumption DEF SwiftInv, BridgeInv
<1>1. BridgeInv'
  <2> HIDE DEF BridgeInv
  <2> QED BY BridgeStepKeepsInv DEF JudgeJob
<1>2. SwiftTypes'
  BY DEF JudgeJob, Goes, SwiftTypes
<1>3. WorkerInv'
  BY DEF JudgeJob, Goes, nativeVars, WorkerInv, SwiftTypes
<1>4. TaskInv'
  BY DEF JudgeJob, Goes, nativeVars, TaskInv, SwiftTypes
<1>5. CloserInv'
  BY DEF JudgeJob, nativeVars, CloserInv
<1>6. FailedOpenLeavesNothing'
  BY DEF JudgeJob, nativeVars, FailedOpenLeavesNothing
<1> QED BY <1>1, <1>2, <1>3, <1>4, <1>5, <1>6

(* The engine is taken and the continuation resumed. *)
LEMMA HandOverKeepsSwiftInv ==
    ASSUME SwiftInv, NEW j \in Jobs, HandOver(j)
    PROVE  SwiftInv'
<1> USE NativeAssumption DEF SwiftInv, BridgeInv
<1>1. BridgeInv'
  <2> HIDE DEF BridgeInv
  <2> QED BY TakeEngineKeepsInv, BridgeStepKeepsInv DEF HandOver
<1>2. SwiftTypes'
  BY DEF HandOver, Goes, Ends, SwiftTypes
<1>3. WorkerInv'
  BY DEF HandOver, Goes, TakeEngine, nativeVars, WorkerInv, SwiftTypes,
         JobsTypeOK
<1>4. TaskInv'
  BY DEF HandOver, Goes, Ends, TakeEngine, nativeVars, TaskInv, SwiftTypes,
         JobsTypeOK
<1>5. CloserInv'
  BY DEF HandOver, Ends, TakeEngine, nativeVars, CloserInv, TaskInv
<1>6. FailedOpenLeavesNothing'
  BY DEF HandOver, Ends, TakeEngine, nativeVars, FailedOpenLeavesNothing
<1> QED BY <1>1, <1>2, <1>3, <1>4, <1>5, <1>6

(* The worker releases the job. *)
LEMMA ReleaseJobKeepsSwiftInv ==
    ASSUME SwiftInv, NEW j \in Jobs, ReleaseJob(j)
    PROVE  SwiftInv'
<1> USE NativeAssumption DEF SwiftInv, BridgeInv
<1>1. BridgeInv'
  <2> HIDE DEF BridgeInv
  <2> QED BY ReleaseKeepsInv DEF ReleaseJob
<1>2. SwiftTypes'
  BY DEF ReleaseJob, Goes, SwiftTypes
<1>3. WorkerInv'
  BY DEF ReleaseJob, Goes, Release, Signalled, WorkerInv, SwiftTypes, JobsTypeOK
<1>4. TaskInv'
  BY DEF ReleaseJob, Goes, Release, Signalled, TaskInv, SwiftTypes
<1>5. CloserInv'
  BY DEF ReleaseJob, Release, CloserInv
<1>6. FailedOpenLeavesNothing'
  BY DEF ReleaseJob, Release, FailedOpenLeavesNothing
<1> QED BY <1>1, <1>2, <1>3, <1>4, <1>5, <1>6

(* The call fails, and the release has closed the engine. *)
LEMMA ThrowKeepsSwiftInv ==
    ASSUME SwiftInv, NEW j \in Jobs, Throw(j)
    PROVE  SwiftInv'
<1> USE NativeAssumption DEF SwiftInv, BridgeInv
<1>1. BridgeInv'
  <2> HIDE DEF BridgeInv
  <2> QED BY BridgeStepKeepsInv DEF Throw
<1>2. SwiftTypes'
  BY DEF Throw, Goes, Ends, SwiftTypes, Settled
<1>3. WorkerInv'
  BY DEF Throw, Goes, nativeVars, WorkerInv
<1>4. TaskInv'
  BY DEF Throw, Goes, Ends, nativeVars, TaskInv, WorkerInv, SwiftTypes,
         PhaseInv, Terminal
<1>5. CloserInv'
  <2>1. outcome[j] = "pending" /\ close' = close
    BY DEF Throw, TaskInv, nativeVars
  <2>2. \A i \in Jobs : i # j => outcome'[i] = outcome[i]
    BY DEF Throw, Ends, SwiftTypes
  <2>3. \A c \in Closers : close[c].pc # "idle" => close[c].of \in Jobs \ {j}
    BY <2>1 DEF CloserInv, CloseInv, Jobs
  <2> QED BY <2>1, <2>2, <2>3 DEF CloserInv
<1>6. FailedOpenLeavesNothing'
  <2>1. j \in Openers => engine[j] # "open"
    <3> SUFFICES ASSUME j \in Openers, engine[j] = "open" PROVE FALSE
      OBVIOUS
    <3>1. /\ outcome[j] = "pending" /\ job[j].released /\ ~job[j].claimed
          /\ close[j].pc \in {"idle", "done"}
      BY DEF Throw, TaskInv, WorkerInv
    <3>2. ~\E c \in Closers \cup Openers : close[c].pc = "locking" /\ close[c].of = j
      BY <3>1 DEF CloserInv, CloseInv
    <3>3. work[j] = "done"
      BY <3>1 DEF PhaseInv
    <3> QED BY <3>1, <3>2, <3>3 DEF ReachInv
  <2>2. engine' = engine
    BY DEF Throw, nativeVars
  <2>3. \A i \in Jobs : i # j => outcome'[i] = outcome[i]
    BY DEF Throw, Ends, SwiftTypes
  <2> QED BY <2>1, <2>2, <2>3 DEF FailedOpenLeavesNothing, Jobs
<1> QED BY <1>1, <1>2, <1>3, <1>4, <1>5, <1>6

(* The call returns, or closes the engine nobody wants any more. *)
LEMMA ReturnKeepsSwiftInv ==
    ASSUME SwiftInv, NEW j \in Jobs, Return(j)
    PROVE  SwiftInv'
<1> USE NativeAssumption DEF SwiftInv, BridgeInv
<1>1. BridgeInv'
  <2> HIDE DEF BridgeInv
  <2> QED BY CloseKeepsInv, BridgeStepKeepsInv DEF Return, TaskInv
<1>2. SwiftTypes'
  BY DEF Return, Ends, SwiftTypes, Settled
<1>3. WorkerInv'
  BY DEF Return, Close, nativeVars, WorkerInv
<1>4. TaskInv'
  BY DEF Return, Ends, Close, nativeVars, TaskInv, SwiftTypes, JobsTypeOK
<1>5. CloserInv'
  <2>1. outcome[j] = "resumed" /\ \A i \in Jobs : i # j => outcome'[i] = outcome[i]
    BY DEF Return, Ends, SwiftTypes
  <2>2. \A c \in Closers : close'[c] = close[c]
    BY DEF Return, Close, nativeVars, JobsTypeOK
  <2>3. \A c \in Closers : close[c].pc # "idle" => close[c].of \in Jobs \ {j}
    BY <2>1 DEF CloserInv, CloseInv, Jobs
  <2> QED BY <2>1, <2>2, <2>3 DEF CloserInv
<1>6. FailedOpenLeavesNothing'
  BY DEF Return, Ends, Close, nativeVars, FailedOpenLeavesNothing, SwiftTypes,
         Jobs
<1> QED BY <1>1, <1>2, <1>3, <1>4, <1>5, <1>6

(* The engine nobody wanted has been closed. *)
LEMMA OpenThrowsKeepsSwiftInv ==
    ASSUME SwiftInv, NEW j \in Openers, OpenThrows(j)
    PROVE  SwiftInv'
<1> USE NativeAssumption DEF SwiftInv, BridgeInv
<1>1. BridgeInv'
  <2> HIDE DEF BridgeInv
  <2> QED BY BridgeStepKeepsInv DEF OpenThrows
<1>2. SwiftTypes'
  BY DEF OpenThrows, Ends, SwiftTypes, Settled
<1>3. WorkerInv'
  BY DEF OpenThrows, nativeVars, WorkerInv
<1>4. TaskInv'
  BY DEF OpenThrows, Ends, nativeVars, TaskInv, PhaseInv
<1>5. CloserInv'
  BY DEF OpenThrows, Ends, nativeVars, CloserInv
<1>6. FailedOpenLeavesNothing'
  BY DEF OpenThrows, Ends, nativeVars, FailedOpenLeavesNothing, TaskInv,
         CloserInv, PhaseInv, CloseInv, EngineInv, ReachInv, Jobs, Terminal
<1> QED BY <1>1, <1>2, <1>3, <1>4, <1>5, <1>6

(* close() of an engine that open() has returned. *)
LEMMA UserCloseKeepsSwiftInv ==
    ASSUME SwiftInv, NEW c \in Closers, NEW o \in Openers, Owned(o), Close(c, o),
           UNCHANGED swiftVars
    PROVE  SwiftInv'
<1> USE NativeAssumption DEF SwiftInv, BridgeInv
<1>1. BridgeInv'
  BY CloseKeepsInv
<1>2. SwiftTypes'
  BY DEF swiftVars, SwiftTypes
<1>3. WorkerInv'
  BY DEF Close, swiftVars, WorkerInv
<1>4. TaskInv'
  BY DEF Close, swiftVars, TaskInv
<1>5. CloserInv'
  BY DEF Close, Owned, swiftVars, CloserInv
<1>6. FailedOpenLeavesNothing'
  BY DEF Close, swiftVars, FailedOpenLeavesNothing
<1> QED BY <1>1, <1>2, <1>3, <1>4, <1>5, <1>6

(* The goroutine of a job takes a step. *)
LEMMA GoroutineKeepsSwiftInv ==
    ASSUME SwiftInv, NEW j \in Jobs, Goroutine(j), UNCHANGED swiftVars
    PROVE  SwiftInv'
<1> USE NativeAssumption DEF SwiftInv, BridgeInv
<1>1. BridgeInv'
  <2> HIDE DEF BridgeInv
  <2> QED BY BridgeStepKeepsInv DEF BridgeStep
<1>2. SwiftTypes'
  BY DEF Goroutine, WorkEnds, Read, ReadEnds, Finish, swiftVars, SwiftTypes
<1>3. /\ WorkerInv'
      /\ \A i \in Jobs : job'[i].state = "running" => job[i].state = "running"
      /\ \A i \in Jobs : job'[i].claimed = job[i].claimed
  <2>1. /\ UNCHANGED worker
        /\ \A i \in Jobs : /\ job'[i].claimed = job[i].claimed
                          /\ job'[i].released = job[i].released
                          /\ \/ job'[i].state = job[i].state
                             \/ job[i].state = "running" /\ job'[i].state \in Terminal
    <3>1. CASE Progress(j)
      BY <3>1 DEF Progress, Signalled, JobsTypeOK, swiftVars
    <3>2. CASE Finish(j)
      <4> DEFINE s   == IF work[j] = "err" \/ ctx[j] THEN "failed" ELSE "complete"
                 new == Signalled(j, [job[j] EXCEPT !.state = s])
      <4>1. job' = [job EXCEPT ![j] = new]
        BY <3>2 DEF Finish
      <4>2. job[j].state = "running" /\ s \in Terminal
        BY <3>2 DEF Finish, PhaseInv, JobsTypeOK, Terminal
      <4> HIDE DEF s
      <4>3. new.state = s /\ new.claimed = job[j].claimed /\ new.released = job[j].released
        BY DEF Signalled, JobsTypeOK
      <4> HIDE DEF new
      <4> QED BY <4>1, <4>2, <4>3 DEF JobsTypeOK, swiftVars
    <3>3. CASE WorkEnds(j) \/ Read(j) \/ ReadEnds(j)
      BY <3>3 DEF WorkEnds, Read, ReadEnds, swiftVars
    <3> QED BY <3>1, <3>2, <3>3 DEF Goroutine
  <2> QED BY <2>1 DEF WorkerInv, JobsTypeOK, Terminal
<1>4. TaskInv'
  <2>1. UNCHANGED <<outcome, worker, close>>
    BY DEF Goroutine, Progress, WorkEnds, Read, ReadEnds, Finish, swiftVars
  <2> QED BY <1>3, <2>1 DEF TaskInv, Jobs
<1>5. CloserInv'
  BY DEF Goroutine, Progress, WorkEnds, Read, ReadEnds, Finish, swiftVars,
         CloserInv
<1>6. FailedOpenLeavesNothing'
  BY DEF Goroutine, Progress, WorkEnds, Read, ReadEnds, Finish, swiftVars,
         FailedOpenLeavesNothing, TaskInv, PhaseInv, JobsTypeOK
<1> QED BY <1>1, <1>2, <1>3, <1>4, <1>5, <1>6

(* A close goes on. *)
LEMMA ClosingKeepsSwiftInv ==
    ASSUME SwiftInv, NEW c \in Closers \cup Openers, CloseUnlists(c) \/ CloseEngine(c) \/ CloseReturns(c),
           UNCHANGED swiftVars
    PROVE  SwiftInv'
<1> USE NativeAssumption DEF SwiftInv, BridgeInv
<1>1. BridgeInv'
  <2> HIDE DEF BridgeInv
  <2> QED BY BridgeStepKeepsInv DEF BridgeStep
<1>2. SwiftTypes'
  BY DEF CloseUnlists, CloseEngine, CloseReturns, swiftVars, SwiftTypes
<1>3. WorkerInv'
  BY DEF CloseUnlists, CloseEngine, CloseReturns, swiftVars, WorkerInv
<1>4. TaskInv'
  <2>1. UNCHANGED <<job, outcome, worker>>
    BY DEF CloseUnlists, CloseEngine, CloseReturns, swiftVars
  <2>2. ASSUME NEW j \in Openers, close[j].pc # "idle"
        PROVE  close'[j].pc # "idle"
    <3>1. j # c => close'[j] = close[j]
      BY DEF CloseUnlists, CloseEngine, CloseReturns, JobsTypeOK
    <3>2. j = c => close'[j].pc \in {"locking", "done"}
      BY DEF CloseUnlists, CloseEngine, CloseReturns, JobsTypeOK
    <3> QED BY <2>2, <3>1, <3>2
  <2> QED BY <2>1, <2>2 DEF TaskInv
<1>5. CloserInv'
  <2>1. ASSUME NEW d \in Closers, close'[d].pc # "idle"
        PROVE  close[d].pc # "idle" /\ close'[d].of = close[d].of
    <3>1. d # c => close'[d] = close[d]
      BY DEF CloseUnlists, CloseEngine, CloseReturns, JobsTypeOK
    <3>2. d = c => close[d].pc # "idle" /\ close'[d].of = close[d].of
      <4>1. CASE CloseUnlists(c) \/ CloseEngine(c)
        BY <4>1 DEF CloseUnlists, CloseEngine, JobsTypeOK
      <4>2. CASE CloseReturns(c)
        BY <2>1, <4>2 DEF CloseReturns, NotClosing, JobsTypeOK
      <4> QED BY <4>1, <4>2
    <3> QED BY <2>1, <3>1, <3>2
  <2>2. outcome' = outcome
    BY DEF swiftVars
  <2> QED BY <2>1, <2>2 DEF CloserInv
<1>6. FailedOpenLeavesNothing'
  BY DEF CloseUnlists, CloseEngine, CloseReturns, swiftVars,
         FailedOpenLeavesNothing, JobsTypeOK
<1> QED BY <1>1, <1>2, <1>3, <1>4, <1>5, <1>6

-----------------------------------------------------------------------------
(* No call has been made yet. *)
LEMMA SwiftInitInv == OfflineInit => SwiftInv
<1> SUFFICES ASSUME OfflineInit PROVE SwiftInv
  OBVIOUS
<1>1. BridgeInv
  BY BridgeInitInv DEF OfflineInit
<1>2. SwiftTypes
  BY DEF OfflineInit, SwiftTypes
<1>3. WorkerInv /\ TaskInv
  BY DEF OfflineInit, JobsInit, WorkerInv, TaskInv, Terminal
<1>4. CloserInv /\ FailedOpenLeavesNothing
  BY DEF OfflineInit, JobsInit, NotClosing, CloserInv, FailedOpenLeavesNothing, Jobs
<1> QED BY <1>1, <1>2, <1>3, <1>4 DEF SwiftInv

(* Every step of the client or of the bridge under it keeps the invariant. *)
LEMMA SwiftStepKeepsInv == SwiftInv /\ [OfflineNext]_offlineVars => SwiftInv'
<1> SUFFICES ASSUME SwiftInv, [OfflineNext]_offlineVars PROVE SwiftInv'
  OBVIOUS
<1>1. ASSUME NEW j \in Jobs, Worker(j) PROVE SwiftInv'
  <2>1. ASSUME NEW o \in Openers, j \in Queries, StartJob(j, o) PROVE SwiftInv'
    <3>1. o # NoEngine
      BY NativeAssumption
    <3> QED BY <2>1, <3>1, StartJobKeepsSwiftInv
  <2>2. ASSUME j \notin Queries, StartJob(j, NoEngine) PROVE SwiftInv'
    BY <2>2, StartJobKeepsSwiftInv
  <2> QED BY <1>1, <2>1, <2>2, StartFailsKeepsSwiftInv, AttachKeepsSwiftInv,
             PollWaitsKeepsSwiftInv, PollAnswersKeepsSwiftInv, JudgeJobKeepsSwiftInv,
             HandOverKeepsSwiftInv, ReleaseJobKeepsSwiftInv, ThrowKeepsSwiftInv DEF Worker
<1>2. ASSUME NEW j \in Jobs, Task(j) PROVE SwiftInv'
  BY <1>2, ReturnKeepsSwiftInv, OpenThrowsKeepsSwiftInv DEF Task
<1>3. CASE User
  BY <1>3, CallKeepsSwiftInv, TaskCancelKeepsSwiftInv, UserCloseKeepsSwiftInv DEF User
<1>4. CASE NativeStep
  BY <1>4, GoroutineKeepsSwiftInv, ClosingKeepsSwiftInv DEF NativeStep
<1>5. CASE UNCHANGED offlineVars
  <2>1. UNCHANGED nativeVars /\ UNCHANGED swiftVars
    BY <1>5 DEF offlineVars
  <2>2. BridgeInv'
    BY <2>1, BridgeStepKeepsInv DEF SwiftInv
  <2> QED BY <2>1, <2>2 DEF nativeVars, swiftVars, SwiftInv, SwiftTypes, WorkerInv, TaskInv,
             CloserInv, FailedOpenLeavesNothing
<1> QED BY <1>1, <1>2, <1>3, <1>4, <1>5 DEF OfflineNext

-----------------------------------------------------------------------------
(* The inductive invariant holds for the Swift client on the bridge. *)
THEOREM SwiftInvariant == OfflineSpec => []SwiftInv
<1>1. OfflineInit => SwiftInv
  BY SwiftInitInv
<1>2. SwiftInv /\ [OfflineNext]_offlineVars => SwiftInv'
  BY SwiftStepKeepsInv
<1> QED BY <1>1, <1>2, PTL DEF OfflineSpec

(* The variables of client and bridge keep their types. *)
THEOREM SwiftTypeCorrect == OfflineSpec => []OfflineTypeOK
<1>1. SwiftInv => OfflineTypeOK
  BY DEF SwiftInv, BridgeInv, SwiftTypes, OfflineTypeOK
<1> QED BY <1>1, SwiftInvariant, PTL

(* Whenever calls are cancelled and engines closed, no query of the Swift
   client reads an engine whose files are unmapped. *)
THEOREM SwiftReadersHoldTheirEngine == OfflineSpec => []NoUseAfterClose
<1>1. SwiftInv => NoUseAfterClose
  BY DEF SwiftInv, BridgeInv, QueryInv
<1> QED BY <1>1, SwiftInvariant, PTL

(* Every engine has somebody who can still close it, and an open() that was
   cancelled or has failed leaves none behind. *)
THEOREM NoEngineIsLost == OfflineSpec => []EnginesAreOwned
<1>1. SwiftInv => EnginesAreOwned
  BY ReachIsNoLeak DEF SwiftInv, EnginesAreOwned
<1> QED BY <1>1, SwiftInvariant, PTL
-----------------------------------------------------------------------------
(* An engine on its way to the caller of open() is on the registry until it
   has been returned, and nothing is closed in the name of its job. *)
OpenedInv ==
    \A o \in Openers :
        /\ outcome[o] = "pending" /\ job[o].state = "complete" /\ ~job[o].released => o \in listed
        /\ outcome[o] = "resumed" => o \in listed
        /\ outcome[o] \in {"resumed", "value"} => close[o].pc = "idle"

(* Only the close() of a caller takes an engine that open() has returned, or
   is about to return, off the registry. *)
LEMMA UnlistedByOwner ==
    ASSUME SwiftInv, OpenedInv, NEW o \in Openers, NEW c \in Closers \cup Openers,
           CloseUnlists(c) \/ CloseEngine(c) \/ CloseReturns(c)
    PROVE  o \in listed \ listed' =>
             /\ close[c].of = o
             /\ outcome[o] # "resumed"
             /\ outcome[o] = "pending" => job[o].released
             /\ outcome[o] = "value" => c \in Closers
<1> SUFFICES ASSUME o \in listed \ listed'
             PROVE  /\ close[c].of = o
                    /\ outcome[o] # "resumed"
                    /\ outcome[o] = "pending" => job[o].released
                    /\ outcome[o] = "value" => c \in Closers
  OBVIOUS
<1>1. close[c].pc = "asked" /\ close[c].of = o
  BY DEF CloseUnlists, CloseEngine, CloseReturns
<1>2. c \in Openers => c = o /\ (job[o].released \/ job[o].claimed)
  BY <1>1 DEF SwiftInv, BridgeInv, CloseInv
<1>3. job[o].claimed => outcome[o] # "pending"
  BY DEF SwiftInv, WorkerInv, TaskInv, Jobs
<1>4. c \in Openers => outcome[o] \notin {"resumed", "value"}
  BY <1>1, <1>2 DEF OpenedInv
<1>5. c \in Closers => outcome[o] = "value"
  BY <1>1 DEF SwiftInv, CloserInv
<1> QED BY <1>1, <1>2, <1>3, <1>4, <1>5

(* What each step does to an engine on its way, its call and its close. *)
LEMMA OpenedStep == SwiftInv /\ OpenedInv /\ [OfflineNext]_offlineVars => OpenedInv'
<1> SUFFICES ASSUME SwiftInv, OpenedInv, [OfflineNext]_offlineVars, NEW o \in Openers
             PROVE  /\ outcome'[o] = "pending" /\ job'[o].state = "complete" /\ ~job'[o].released => o \in listed'
                    /\ outcome'[o] = "resumed" => o \in listed'
                    /\ outcome'[o] \in {"resumed", "value"} => close'[o].pc = "idle"
  BY DEF OpenedInv
<1> DEFINE Kept == /\ outcome'[o] = "pending" /\ job'[o].state = "complete" /\ ~job'[o].released => o \in listed'
                   /\ outcome'[o] = "resumed" => o \in listed'
                   /\ outcome'[o] \in {"resumed", "value"} => close'[o].pc = "idle"
<1>a. o \in Jobs
  BY DEF Jobs
<1>b. /\ outcome[o] = "pending" /\ job[o].state = "complete" /\ ~job[o].released => o \in listed
      /\ outcome[o] = "resumed" => o \in listed
      /\ outcome[o] \in {"resumed", "value"} => close[o].pc = "idle"
  BY DEF OpenedInv
<1>c. JobsTypeOK /\ SwiftTypes
  BY DEF SwiftInv, BridgeInv
<1>d. /\ outcome[o] = "none" => job[o].state = "none"
      /\ outcome[o] \in {"resumed", "value"} => job[o].claimed
  BY <1>a DEF SwiftInv, TaskInv, WorkerInv
<1>1. ASSUME NEW j \in Jobs, Worker(j) PROVE Kept
  <2>1. ASSUME NEW p, StartJob(j, p) PROVE Kept
    BY <2>1, <1>b, <1>c DEF StartJob, Start, JobsTypeOK
  <2>2. CASE StartFails(j)
    BY <2>2, <1>b, <1>c DEF StartFails, Ends, SwiftTypes, nativeVars
  <2>3. CASE Attach(j) \/ PollWaits(j) \/ PollAnswers(j) \/ JudgeJob(j)
    BY <2>3, <1>b DEF Attach, PollWaits, PollAnswers, JudgeJob, Cancel, WaitBegins, WaitEnds, nativeVars
  <2>4. CASE HandOver(j)
    <3>1. CASE j = o
      <4>1. /\ job[o].state = "complete" /\ ~job[o].released /\ ~job[o].claimed
            /\ UNCHANGED <<listed, close>> /\ outcome' = [outcome EXCEPT ![o] = "resumed"]
        BY <2>4, <3>1 DEF HandOver, TakeEngine, Ends
      <4>2. outcome[o] = "pending"
        BY <2>4, <3>1, <1>a DEF HandOver, SwiftInv, TaskInv
      <4>3. close[o].pc = "idle"
        BY <4>1 DEF SwiftInv, BridgeInv, CloseInv
      <4> QED BY <4>1, <4>2, <4>3, <1>a, <1>b, <1>c DEF SwiftTypes
    <3>2. CASE j # o
      <4>1. job'[o] = job[o] /\ outcome'[o] = outcome[o] /\ UNCHANGED <<listed, close>>
        BY <2>4, <3>2, <1>a, <1>c DEF HandOver, TakeEngine, Ends, nativeVars, SwiftTypes, JobsTypeOK
      <4> QED BY <4>1, <1>b
    <3> QED BY <3>1, <3>2
  <2>5. CASE ReleaseJob(j)
    <3>1. UNCHANGED <<listed, outcome>> /\ (close'[o] = close[o] \/ ~job[o].claimed)
      BY <2>5, <1>c DEF ReleaseJob, Release, JobsTypeOK
    <3>2. job'[o] = job[o] \/ job'[o].released
      BY <2>5, <1>c DEF ReleaseJob, Release, Signalled, JobsTypeOK
    <3> QED BY <3>1, <3>2, <1>b, <1>d
  <2>6. CASE Throw(j)
    <3>1. /\ UNCHANGED <<job, listed, close>>
          /\ outcome'[o] = outcome[o] \/ outcome'[o] \in {"cancelled", "error"}
      BY <2>6, <1>a, <1>c DEF Throw, Ends, SwiftTypes, nativeVars
    <3> QED BY <3>1, <1>b
  <2> QED BY <1>1, <2>1, <2>2, <2>3, <2>4, <2>5, <2>6 DEF Worker
<1>2. ASSUME NEW j \in Jobs, Task(j) PROVE Kept
  <2>1. CASE Return(j)
    <3>1. CASE j = o
      <4>1. outcome'[o] = "closing" \/ (outcome'[o] = "value" /\ close'[o] = close[o])
        BY <2>1, <3>1, <1>a, <1>c DEF Return, Ends, nativeVars, SwiftTypes
      <4>2. outcome[o] = "resumed"
        BY <2>1, <3>1 DEF Return
      <4> QED BY <4>1, <4>2, <1>b
    <3>2. CASE j # o
      <4>1. outcome'[o] = outcome[o] /\ close'[o] = close[o] /\ UNCHANGED <<job, listed>>
        BY <2>1, <3>2, <1>a, <1>c DEF Return, Ends, Close, nativeVars, SwiftTypes, JobsTypeOK
      <4> QED BY <4>1, <1>b
    <3> QED BY <3>1, <3>2
  <2>2. CASE OpenThrows(j)
    BY <2>2, <1>b, <1>c DEF OpenThrows, Ends, nativeVars, SwiftTypes
  <2> QED BY <1>2, <2>1, <2>2 DEF Task
<1>3. CASE User
  <2>1. ASSUME NEW j \in Jobs, Call(j) PROVE Kept
    <3>1. /\ UNCHANGED <<job, listed, close>>
          /\ outcome'[o] = outcome[o] \/ (outcome[o] = "none" /\ outcome'[o] \in {"pending", "cancelled"})
      BY <2>1, <1>a, <1>c DEF Call, Ends, nativeVars, SwiftTypes
    <3> QED BY <3>1, <1>b, <1>d
  <2>2. ASSUME NEW j \in Jobs, TaskCancel(j) PROVE Kept
    BY <2>2, <1>b DEF TaskCancel, Cancel, nativeVars
  <2>3. ASSUME NEW c \in Closers, NEW p \in Openers, Close(c, p), UNCHANGED swiftVars PROVE Kept
    BY <2>3, <1>b, NativeAssumption DEF Close, swiftVars
  <2> QED BY <1>3, <2>1, <2>2, <2>3 DEF User
<1>4. ASSUME NEW j \in Jobs, Goroutine(j), UNCHANGED swiftVars PROVE Kept
  <2>1. CASE Progress(j)
    BY <2>1, <1>4, <1>b, <1>c DEF Progress, Signalled, JobsTypeOK, swiftVars
  <2>2. CASE Finish(j)
    <3> DEFINE s   == IF work[j] = "err" \/ ctx[j] THEN "failed" ELSE "complete"
               new == Signalled(j, [job[j] EXCEPT !.state = s])
    <3>1. job' = [job EXCEPT ![j] = new]
      BY <2>2 DEF Finish
    <3>2. /\ listed \subseteq listed' /\ UNCHANGED close
          /\ j \in Openers /\ s = "complete" => j \in listed'
      BY <2>2 DEF Finish
    <3> HIDE DEF s
    <3>3. new.state = s /\ new.released = job[j].released
      BY <1>c DEF Signalled, JobsTypeOK
    <3> HIDE DEF new
    <3>4. CASE j = o
      BY <1>4, <1>a, <1>b, <1>c, <3>1, <3>2, <3>3, <3>4 DEF swiftVars, JobsTypeOK
    <3>5. CASE j # o
      BY <1>4, <1>a, <1>b, <3>1, <3>2, <3>5 DEF swiftVars
    <3> QED BY <3>4, <3>5
  <2>3. CASE WorkEnds(j) \/ Read(j) \/ ReadEnds(j)
    BY <2>3, <1>4, <1>b DEF WorkEnds, Read, ReadEnds, swiftVars
  <2> QED BY <1>4, <2>1, <2>2, <2>3 DEF Goroutine
<1>5. ASSUME NEW c \in Closers \cup Openers, CloseUnlists(c) \/ CloseEngine(c) \/ CloseReturns(c),
             UNCHANGED swiftVars
      PROVE  Kept
  <2>1. UNCHANGED <<job, outcome>>
    BY <1>5 DEF CloseUnlists, CloseEngine, CloseReturns, swiftVars
  <2>2. close'[o] = close[o] \/ close[o].pc # "idle"
    BY <1>5, <1>c DEF CloseUnlists, CloseEngine, CloseReturns, JobsTypeOK
  <2>3. o \in listed \ listed' =>
          outcome[o] # "resumed" /\ (outcome[o] = "pending" => job[o].released)
    BY <1>5, UnlistedByOwner
  <2> QED BY <2>1, <2>2, <2>3, <1>b
<1>6. CASE UNCHANGED offlineVars
  BY <1>6, <1>b DEF offlineVars, nativeVars, swiftVars
<1>7. CASE NativeStep
  BY <1>4, <1>5, <1>7 DEF NativeStep
<1> QED BY <1>1, <1>2, <1>3, <1>6, <1>7 DEF OfflineNext

(* In a step that takes a returned engine off the registry, a caller closes it. *)
LEMMA OpenedStaysStep == SwiftInv /\ OpenedInv /\ [OfflineNext]_offlineVars => [OpenedStaysOpen]_offlineVars
<1> SUFFICES ASSUME SwiftInv, OpenedInv, OfflineNext, NEW o \in Openers,
                    outcome'[o] = "value", o \notin listed'
             PROVE  Owned(o) /\ (o \in listed => \E c \in Closers : close[c].of = o)
  BY DEF OpenedStaysOpen
<1>a. o \in Jobs /\ SwiftTypes
  BY DEF Jobs, SwiftInv
<1>1. ASSUME NEW c \in Closers \cup Openers, CloseUnlists(c) \/ CloseEngine(c) \/ CloseReturns(c),
             UNCHANGED swiftVars
      PROVE  Owned(o) /\ (o \in listed => \E d \in Closers : close[d].of = o)
  <2>1. outcome[o] = "value"
    BY <1>1 DEF swiftVars
  <2> QED BY <1>1, <2>1, UnlistedByOwner DEF Owned
<1>2. ASSUME NEW j \in Jobs, Goroutine(j), UNCHANGED swiftVars PROVE Owned(o) /\ o \notin listed
  BY <1>2 DEF Goroutine, Progress, WorkEnds, Read, ReadEnds, Finish, swiftVars, Owned
<1>3. ASSUME NEW j \in Jobs, Worker(j) PROVE Owned(o) /\ o \notin listed
  <2>1. listed' = listed
    BY <1>3 DEF Worker, StartJob, Start, StartFails, Attach, PollWaits, PollAnswers, JudgeJob,
                HandOver, ReleaseJob, Throw, Cancel, WaitBegins, WaitEnds, TakeEngine, Release, nativeVars
  <2>2. outcome[o] = "value"
    BY <1>3, <1>a DEF Worker, StartJob, StartFails, Attach, PollWaits, PollAnswers, JudgeJob,
                HandOver, ReleaseJob, Throw, Ends, SwiftTypes
  <2> QED BY <2>1, <2>2 DEF Owned
<1>4. ASSUME NEW j \in Jobs, Task(j) PROVE Owned(o) /\ o \notin listed
  <2>1. listed' = listed
    BY <1>4 DEF Task, Return, OpenThrows, Close, nativeVars
  <2>2. outcome[o] # "resumed"
    BY <2>1 DEF OpenedInv
  <2>3. outcome[o] = "value"
    BY <1>4, <1>a, <2>2 DEF Task, Return, OpenThrows, Ends, SwiftTypes
  <2> QED BY <2>1, <2>3 DEF Owned
<1>5. ASSUME User PROVE Owned(o) /\ o \notin listed
  <2>1. listed' = listed
    BY <1>5 DEF User, Call, TaskCancel, Cancel, Close, nativeVars
  <2>2. outcome[o] = "value"
    BY <1>5, <1>a DEF User, Call, TaskCancel, Ends, SwiftTypes, swiftVars
  <2> QED BY <2>1, <2>2 DEF Owned
<1> QED BY <1>1, <1>2, <1>3, <1>4, <1>5 DEF OfflineNext, NativeStep

(* open() that returns an engine returns a usable one, and of the Swift client
   only a close() takes it away again. *)
THEOREM OpenedEnginesStayOpen == OfflineSpec => [][OpenedStaysOpen]_offlineVars
<1>1. OfflineInit => OpenedInv
  BY DEF OfflineInit, JobsInit, OpenedInv, Jobs
<1> QED BY <1>1, OpenedStep, OpenedStaysStep, SwiftInvariant, PTL DEF OfflineSpec

-----------------------------------------------------------------------------
(* What a call still needs is there: the job it is about to take the result
   of is complete, only the thread that waits has a channel, and a close in
   the name of an opening job follows a release that took nobody's engine, or
   is open()'s own. *)
HeldInv ==
    \A j \in Jobs :
        /\ worker[j] \in {"taking", "resumed"} \/ outcome[j] = "resumed" =>
             job[j].state = "complete"
        /\ wait[j] # NoWait <=> worker[j] = "waiting"
        /\ j \in Openers /\ close[j] # NotClosing =>
             (job[j].released /\ ~job[j].claimed) \/ outcome[j] \in {"closing", "cancelled"}

(* Nothing that worker, task or cancellation ask of the bridge is refused. *)
CallsAreLegal ==
    \A j \in Jobs :
        /\ worker[j] = "queued" => job[j].state = "none"
        /\ Attached(j) /\ outcome[j] \notin Settled => job[j].state # "none"
        /\ worker[j] \in {"started", "polling", "waiting", "answered"} => ~job[j].released
        /\ worker[j] = "polling" => wait[j] = NoWait
        /\ worker[j] = "taking" =>
             job[j].state = "complete" /\ ~job[j].claimed /\ ~job[j].released
        /\ worker[j] \in {"resumed", "dropping", "failing"} =>
             job[j].state \in Terminal /\ ~job[j].released
        /\ j \in Openers /\ outcome[j] = "resumed" => close[j] = NotClosing

(* A step of the worker of a call keeps what the call needs. *)
LEMMA HeldWorkerStep ==
    ASSUME SwiftInv, HeldInv, NEW j \in Jobs, Worker(j)
    PROVE  HeldInv'
<1> SUFFICES ASSUME NEW i \in Jobs
             PROVE  /\ worker'[i] \in {"taking", "resumed"} \/ outcome'[i] = "resumed" =>
                         job'[i].state = "complete"
                    /\ wait'[i] # NoWait <=> worker'[i] = "waiting"
                    /\ i \in Openers /\ close'[i] # NotClosing =>
                         \/ job'[i].released /\ ~job'[i].claimed
                         \/ outcome'[i] \in {"closing", "cancelled"}
  BY DEF HeldInv
<1> DEFINE Held == /\ worker'[i] \in {"taking", "resumed"} \/ outcome'[i] = "resumed" =>
                         job'[i].state = "complete"
                   /\ wait'[i] # NoWait <=> worker'[i] = "waiting"
                   /\ i \in Openers /\ close'[i] # NotClosing =>
                         \/ job'[i].released /\ ~job'[i].claimed
                         \/ outcome'[i] \in {"closing", "cancelled"}
<1>a. /\ worker[i] \in {"taking", "resumed"} \/ outcome[i] = "resumed" => job[i].state = "complete"
      /\ wait[i] # NoWait <=> worker[i] = "waiting"
      /\ i \in Openers /\ close[i] # NotClosing =>
           (job[i].released /\ ~job[i].claimed) \/ outcome[i] \in {"closing", "cancelled"}
  BY DEF HeldInv
<1>c. JobsTypeOK /\ SwiftTypes
  BY DEF SwiftInv, BridgeInv
<1>1. ASSUME NEW p, StartJob(j, p) PROVE Held
  <2>1. /\ UNCHANGED <<wait, close, outcome>>
        /\ worker[j] = "queued" /\ worker' = [worker EXCEPT ![j] = "started"]
        /\ job' = [job EXCEPT ![j].state = "running"]
    BY <1>1 DEF StartJob, Start, Goes
  <2>2. job'[i].released = job[i].released /\ job'[i].claimed = job[i].claimed
    BY <2>1, <1>c DEF JobsTypeOK
  <2>3. \/ worker'[i] = worker[i] /\ job'[i] = job[i]
        \/ worker[i] = "queued" /\ worker'[i] = "started"
    BY <2>1, <1>c DEF JobsTypeOK, SwiftTypes
  <2>4. worker[i] = "queued" => outcome[i] = "pending"
    BY DEF SwiftInv, TaskInv
  <2> QED BY <2>1, <2>2, <2>3, <2>4, <1>a
<1>2. CASE StartFails(j)
  <2>1. /\ UNCHANGED <<job, wait, close>>
        /\ \/ worker'[i] = worker[i] /\ outcome'[i] = outcome[i]
           \/ worker[i] = "queued" /\ worker'[i] = "done" /\ outcome'[i] = "error"
    BY <1>2, <1>c DEF StartFails, Goes, Ends, nativeVars, SwiftTypes
  <2>2. worker[i] = "queued" => outcome[i] = "pending"
    BY DEF SwiftInv, TaskInv
  <2> QED BY <2>1, <2>2, <1>a
<1>3. CASE Attach(j)
  <2>1. /\ UNCHANGED <<job, wait, close, outcome>>
        /\ worker'[i] = worker[i] \/ (worker[i] = "started" /\ worker'[i] = "polling")
    BY <1>3, <1>c DEF Attach, Cancel, Goes, nativeVars, SwiftTypes
  <2> QED BY <2>1, <1>a
<1>4. CASE PollWaits(j)
  <2>1. /\ UNCHANGED <<job, close, outcome>>
        /\ wait' = [wait EXCEPT ![j] = job[j].changed]
        /\ worker[j] = "polling" /\ worker' = [worker EXCEPT ![j] = "waiting"]
    BY <1>4 DEF PollWaits, WaitBegins, Goes
  <2>2. job[j].changed # NoWait
    BY <1>c, NativeAssumption DEF JobsTypeOK, NoWait
  <2>3. \/ worker'[i] = worker[i] /\ wait'[i] = wait[i]
        \/ worker'[i] = "waiting" /\ wait'[i] # NoWait
    BY <2>1, <2>2, <1>c DEF JobsTypeOK, SwiftTypes
  <2> QED BY <2>1, <2>3, <1>a
<1>5. CASE PollAnswers(j)
  <2>1. /\ UNCHANGED <<job, close, outcome>>
        /\ (wait' = wait /\ worker[j] = "polling") \/ wait' = [wait EXCEPT ![j] = NoWait]
        /\ worker' = [worker EXCEPT ![j] =
             IF job[j].state = "running" THEN "polling" ELSE "answered"]
    BY <1>5 DEF PollAnswers, WaitEnds, Goes, nativeVars
  <2>2. \/ worker'[i] = worker[i] /\ wait'[i] = wait[i]
        \/ worker'[i] \in {"polling", "answered"} /\ wait'[i] = NoWait
    BY <2>1, <1>a, <1>c DEF JobsTypeOK, SwiftTypes
  <2> QED BY <2>1, <2>2, <1>a
<1>6. CASE JudgeJob(j)
  <2>1. /\ UNCHANGED <<job, wait, close, outcome>>
        /\ \/ worker'[i] = worker[i]
           \/ /\ worker[i] = "answered" /\ worker'[i] \in {"dropping", "failing", "taking"}
              /\ worker'[i] = "taking" => job[i].state = "complete"
    BY <1>6, <1>c DEF JudgeJob, Goes, nativeVars, SwiftTypes
  <2> QED BY <2>1, <1>a
<1>7. CASE HandOver(j)
  <2>1. /\ UNCHANGED <<wait, close>>
        /\ worker[j] = "taking" /\ worker' = [worker EXCEPT ![j] = "resumed"]
        /\ outcome' = [outcome EXCEPT ![j] = "resumed"]
        /\ job' = job \/ (~job[j].released /\ job' = [job EXCEPT ![j].claimed = TRUE])
    BY <1>7 DEF HandOver, TakeEngine, Goes, Ends, nativeVars
  <2>2. ~job[j].released /\ outcome[j] = "pending"
    BY <2>1 DEF SwiftInv, WorkerInv, TaskInv
  <2>3. /\ job'[i].state = job[i].state
        /\ i # j => job'[i] = job[i] /\ outcome'[i] = outcome[i] /\ worker'[i] = worker[i]
        /\ i = j => worker'[i] = "resumed"
    BY <2>1, <1>c DEF JobsTypeOK, SwiftTypes
  <2> QED BY <2>1, <2>2, <2>3, <1>a
<1>8. CASE ReleaseJob(j)
  <2>1. /\ UNCHANGED <<wait, outcome>>
        /\ job' = [job EXCEPT ![j] = Signalled(j, [@ EXCEPT !.released = TRUE])]
        /\ \/ close' = close
           \/ ~job[j].claimed /\ close' = [close EXCEPT ![j] = [pc |-> "asked", of |-> j]]
    BY <1>8 DEF ReleaseJob, Release
  <2>2. /\ worker[j] \in {"resumed", "dropping", "failing"}
        /\ \E at \in {"done", "dropped", "failed"} : worker' = [worker EXCEPT ![j] = at]
    BY <1>8 DEF ReleaseJob, Goes
  <2>3. /\ worker'[i] = worker[i] \/ worker'[i] \in {"done", "dropped", "failed"}
        /\ worker'[i] = "waiting" <=> worker[i] = "waiting"
    BY <2>2, <1>c DEF SwiftTypes
  <2>4. /\ job'[i].state = job[i].state /\ job'[i].claimed = job[i].claimed
        /\ job[i].released => job'[i].released
        /\ i = j => job'[i].released
    BY <2>1, <1>c DEF Signalled, JobsTypeOK
  <2>5. i \in Openers => close'[i] = close[i] \/ (i = j /\ ~job[i].claimed)
    BY <2>1, <1>c DEF JobsTypeOK
  <2> QED BY <2>1, <2>3, <2>4, <2>5, <1>a
<1>9. CASE Throw(j)
  <2>1. /\ UNCHANGED <<job, wait, close>>
        /\ worker[j] \in {"dropped", "failed"} /\ worker' = [worker EXCEPT ![j] = "done"]
        /\ \E o \in {"cancelled", "error"} : outcome' = [outcome EXCEPT ![j] = o]
    BY <1>9 DEF Throw, Goes, Ends, nativeVars
  <2>2. job[j].released /\ ~job[j].claimed
    BY <2>1 DEF SwiftInv, WorkerInv
  <2>3. /\ worker'[i] = worker[i] \/ (i = j /\ worker'[i] = "done")
        /\ worker'[i] = "waiting" <=> worker[i] = "waiting"
        /\ i # j => outcome'[i] = outcome[i]
    BY <2>1, <1>c DEF SwiftTypes
  <2> QED BY <2>1, <2>2, <2>3, <1>a
<1> QED BY <1>1, <1>2, <1>3, <1>4, <1>5, <1>6, <1>7, <1>8, <1>9 DEF Worker

(* So does every step of the client and of the bridge under it. *)
LEMMA HeldStep == SwiftInv /\ HeldInv /\ [OfflineNext]_offlineVars => HeldInv'
<1> SUFFICES ASSUME SwiftInv, HeldInv, [OfflineNext]_offlineVars PROVE HeldInv'
  OBVIOUS
<1>c. JobsTypeOK /\ SwiftTypes
  BY DEF SwiftInv, BridgeInv
<1>1. ASSUME NEW j \in Jobs, Worker(j) PROVE HeldInv'
  BY <1>1, HeldWorkerStep
<1>2. ASSUME NEW j \in Jobs, Return(j) PROVE HeldInv'
  <2>1. /\ UNCHANGED <<job, wait, worker>> /\ outcome[j] = "resumed"
        /\ \/ close' = close /\ outcome' = [outcome EXCEPT ![j] = "value"]
           \/ /\ close' = [close EXCEPT ![j] = [pc |-> "asked", of |-> j]]
              /\ outcome' = [outcome EXCEPT ![j] = "closing"]
    BY <1>2 DEF Return, Close, Ends, nativeVars
  <2>2. \A i \in Jobs : /\ i # j => outcome'[i] = outcome[i]
                        /\ i # j /\ i \in Openers => close'[i] = close[i]
                        /\ i = j /\ i \in Openers => close'[i] = close[i] \/ outcome'[i] = "closing"
    BY <2>1, <1>c DEF SwiftTypes, JobsTypeOK
  <2> QED BY <2>1, <2>2 DEF HeldInv
<1>3. ASSUME NEW o \in Openers, OpenThrows(o) PROVE HeldInv'
  <2>1. /\ UNCHANGED <<job, wait, worker, close>>
        /\ outcome' = [outcome EXCEPT ![o] = "cancelled"]
    BY <1>3 DEF OpenThrows, Ends, nativeVars
  <2>2. \A i \in Jobs : outcome'[i] = outcome[i] \/ outcome'[i] = "cancelled"
    BY <2>1, <1>c DEF SwiftTypes
  <2> QED BY <2>1, <2>2 DEF HeldInv
<1>4. ASSUME NEW j \in Jobs, Call(j) PROVE HeldInv'
  <2>1. /\ UNCHANGED <<job, wait, close>> /\ outcome[j] = "none"
        /\ \/ worker' = worker /\ outcome' = [outcome EXCEPT ![j] = "cancelled"]
           \/ /\ worker' = [worker EXCEPT ![j] = "queued"]
              /\ outcome' = [outcome EXCEPT ![j] = "pending"]
    BY <1>4 DEF Call, Goes, Ends, nativeVars
  <2>2. worker[j] = "none"
    BY <2>1 DEF SwiftInv, TaskInv
  <2>3. \A i \in Jobs : /\ worker'[i] = worker[i] \/ (worker[i] = "none" /\ worker'[i] = "queued")
                        /\ \/ outcome'[i] = outcome[i]
                           \/ outcome[i] = "none" /\ outcome'[i] \in {"pending", "cancelled"}
    BY <2>1, <2>2, <1>c DEF SwiftTypes
  <2> QED BY <2>1, <2>3 DEF HeldInv
<1>5. ASSUME NEW j \in Jobs, TaskCancel(j) PROVE HeldInv'
  <2>1. UNCHANGED <<job, wait, close, worker, outcome>>
    BY <1>5 DEF TaskCancel, Cancel, nativeVars
  <2> QED BY <2>1 DEF HeldInv
<1>6. ASSUME NEW c \in Closers, NEW o \in Openers, Close(c, o), UNCHANGED swiftVars PROVE HeldInv'
  <2>1. UNCHANGED <<job, wait, worker, outcome>> /\ \A i \in Openers : close'[i] = close[i]
    BY <1>6, <1>c, NativeAssumption DEF Close, swiftVars, JobsTypeOK
  <2> QED BY <2>1 DEF HeldInv
<1>7. ASSUME NEW j \in Jobs, Goroutine(j), UNCHANGED swiftVars PROVE HeldInv'
  <2>1. UNCHANGED <<wait, close, worker, outcome>>
    BY <1>7 DEF Goroutine, Progress, WorkEnds, Read, ReadEnds, Finish, swiftVars
  <2>2. \A i \in Jobs : /\ job'[i].released = job[i].released /\ job'[i].claimed = job[i].claimed
                        /\ job[i].state = "complete" => job'[i].state = "complete"
    <3>1. CASE Progress(j)
      BY <3>1, <1>c DEF Progress, Signalled, JobsTypeOK
    <3>2. CASE WorkEnds(j) \/ Read(j) \/ ReadEnds(j)
      BY <3>2 DEF WorkEnds, Read, ReadEnds
    <3>3. CASE Finish(j)
      <4>1. job[j].state # "complete"
        BY <3>3 DEF Finish, SwiftInv, BridgeInv, PhaseInv, Terminal
      <4> DEFINE s == IF work[j] = "err" \/ ctx[j] THEN "failed" ELSE "complete"
      <4>2. job' = [job EXCEPT ![j] = Signalled(j, [job[j] EXCEPT !.state = s])]
        BY <3>3 DEF Finish
      <4> HIDE DEF s
      <4> QED BY <4>1, <4>2, <1>c DEF Signalled, JobsTypeOK
    <3> QED BY <1>7, <3>1, <3>2, <3>3 DEF Goroutine
  <2> QED BY <2>1, <2>2 DEF HeldInv
<1>8. ASSUME NEW c \in Closers \cup Openers, CloseUnlists(c) \/ CloseEngine(c) \/ CloseReturns(c),
             UNCHANGED swiftVars
      PROVE  HeldInv'
  <2>1. UNCHANGED <<job, wait, worker, outcome>>
    BY <1>8 DEF CloseUnlists, CloseEngine, CloseReturns, swiftVars
  <2>2. close[c].pc # "idle" /\ \A i \in Openers : i # c => close'[i] = close[i]
    BY <1>8, <1>c DEF CloseUnlists, CloseEngine, CloseReturns, JobsTypeOK
  <2>3. close[c] # NotClosing
    BY <2>2 DEF NotClosing
  <2> QED BY <2>1, <2>2, <2>3 DEF HeldInv
<1>9. CASE UNCHANGED offlineVars
  BY <1>9 DEF offlineVars, nativeVars, swiftVars, HeldInv
<1> QED BY <1>1, <1>2, <1>3, <1>4, <1>5, <1>6, <1>7, <1>8, <1>9
        DEF OfflineNext, Task, User, NativeStep

(* Whenever calls are cancelled and engines closed, every call of the C
   interface that Native.perform and open() still make finds what it needs:
   OSMminiWait and OSMminiRelease a job that is on the registry,
   OSMminiTakeEngine one that is complete and whose engine nobody has taken,
   the OSMminiClose of a cancelled open() no close before it.  Neither
   "Unknown native operation state" nor the handle 0 is met. *)
THEOREM CallsAreNeverRefused == OfflineSpec => []CallsAreLegal
<1>1. OfflineInit => HeldInv
  BY DEF OfflineInit, JobsInit, HeldInv, Jobs
<1>2. SwiftInv /\ HeldInv => CallsAreLegal
  <2> SUFFICES ASSUME SwiftInv, HeldInv PROVE CallsAreLegal
    OBVIOUS
  <2>1. ASSUME NEW j \in Jobs, Attached(j), outcome[j] \notin Settled PROVE job[j].state # "none"
    <3>1. CASE worker[j] \in {"polling", "waiting", "answered", "dropping", "failing",
                              "taking", "resumed"}
      BY <3>1 DEF SwiftInv, WorkerInv, HeldInv, Terminal
    <3>2. CASE worker[j] \in {"dropped", "failed"}
      BY <3>2 DEF SwiftInv, WorkerInv, BridgeInv, PhaseInv, Terminal
    <3>3. CASE worker[j] = "done"
      <4>1. outcome[j] \in {"resumed", "closing"}
        BY <3>3, <2>1 DEF SwiftInv, SwiftTypes, TaskInv
      <4>2. outcome[j] = "closing" => job[j].claimed
        BY DEF SwiftInv, TaskInv
      <4> QED BY <4>1, <4>2 DEF HeldInv, SwiftInv, BridgeInv, PhaseInv
    <3> QED BY <2>1, <3>1, <3>2, <3>3 DEF SwiftInv, SwiftTypes, Attached
  <2>2. ASSUME NEW j \in Jobs
        PROVE  /\ worker[j] = "queued" => job[j].state = "none"
               /\ worker[j] \in {"started", "polling", "waiting", "answered"} => ~job[j].released
               /\ worker[j] = "polling" => wait[j] = NoWait
               /\ worker[j] = "taking" =>
                    job[j].state = "complete" /\ ~job[j].claimed /\ ~job[j].released
               /\ worker[j] \in {"resumed", "dropping", "failing"} =>
                    job[j].state \in Terminal /\ ~job[j].released
    BY DEF SwiftInv, WorkerInv, HeldInv, Terminal
  <2>3. ASSUME NEW o \in Openers, outcome[o] = "resumed" PROVE close[o] = NotClosing
    BY <2>3 DEF SwiftInv, TaskInv, HeldInv, Jobs
  <2> QED BY <2>1, <2>2, <2>3 DEF CallsAreLegal
<1> QED BY <1>1, <1>2, HeldStep, SwiftInvariant, PTL DEF OfflineSpec

-----------------------------------------------------------------------------
(* The two ways to an offline map together.  What the server does not touch  *)
(* the bridge leaves alone, and any program but the Swift one makes none of   *)
(* the calls of the client.                                                   *)

OfflineMapInv ==
    /\ client \in {"server", "any", "swift"} /\ BuildInv
    /\ client = "swift" => SwiftInv /\ OpenedInv
    /\ client # "swift" =>
         /\ BridgeInv /\ OwnCloseInv /\ SwiftTypes
         /\ \A j \in Jobs : outcome[j] = "none"

(* A step of a behaviour is one of its server or of its client. *)
LEMMA OfflineMapSteps ==
    ASSUME [OfflineMapNext]_offlineMapVars
    PROVE  /\ client' = client
           /\ [Next]_vars
           /\ client = "swift" => [OfflineNext]_offlineVars
           /\ client # "swift" => [JobsNext]_nativeVars /\ UNCHANGED swiftVars
BY DEF OfflineMapNext, offlineMapVars, offlineVars

(* Every step keeps the invariant, whichever of the two takes it. *)
LEMMA OfflineMapStepInv == OfflineMapInv /\ [OfflineMapNext]_offlineMapVars => OfflineMapInv'
<1> SUFFICES ASSUME OfflineMapInv, [OfflineMapNext]_offlineMapVars PROVE OfflineMapInv'
  OBVIOUS
<1>1. client' = client /\ client' \in {"server", "any", "swift"}
  BY OfflineMapSteps DEF OfflineMapInv
<1>2. BuildInv'
  BY OfflineMapSteps, StepInv DEF OfflineMapInv
<1>3. CASE client = "swift"
  BY <1>1, <1>2, <1>3, OfflineMapSteps, SwiftStepKeepsInv, OpenedStep DEF OfflineMapInv
<1>4. CASE client # "swift"
  <2>1. BridgeInv' /\ OwnCloseInv'
    BY <1>4, OfflineMapSteps, AnyClientSteps, BridgeStepKeepsInv, OwnCloseStep DEF OfflineMapInv
  <2>2. UNCHANGED <<outcome, worker, cancelled>>
    BY <1>4, OfflineMapSteps DEF swiftVars
  <2>3. SwiftTypes' /\ \A j \in Jobs : outcome'[j] = "none"
    BY <1>4, <2>2 DEF OfflineMapInv, SwiftTypes
  <2> QED BY <1>1, <1>2, <1>4, <2>1, <2>3 DEF OfflineMapInv
<1> QED BY <1>3, <1>4

(* The inductive invariant holds for the server and for every program that
   opens what it has built. *)
THEOREM OfflineMapInvariant == OfflineMapSpec => []OfflineMapInv
<1>1. OfflineMapInit => OfflineMapInv
  <2> SUFFICES ASSUME OfflineMapInit PROVE OfflineMapInv
    OBVIOUS
  <2>1. client \in {"server", "any", "swift"} /\ BuildInv /\ BridgeInv /\ SwiftInv
    BY InitInv, BridgeInitInv, SwiftInitInv DEF OfflineMapInit, OfflineInit
  <2>2. OwnCloseInv /\ OpenedInv /\ SwiftTypes /\ \A j \in Jobs : outcome[j] = "none"
    BY <2>1 DEF OfflineMapInit, OfflineInit, JobsInit, OwnCloseInv, OpenedInv, NotClosing, Jobs, SwiftInv
  <2> QED BY <2>1, <2>2 DEF OfflineMapInv
<1> QED BY <1>1, OfflineMapStepInv, PTL DEF OfflineMapSpec

(* The variables of builds, bridge and client keep their types. *)
THEOREM OfflineMapTypeCorrect == OfflineMapSpec => []OfflineMapTypeOK
<1>1. OfflineMapInv => OfflineMapTypeOK
  BY DEF OfflineMapInv, BuildInv, SwiftInv, BridgeInv, SwiftTypes, OfflineTypeOK, OfflineMapTypeOK
<1> QED BY <1>1, OfflineMapInvariant, PTL

(* An engine that has been handed over goes only when its owner closes it,
   whoever uses the bridge. *)
THEOREM EnginesStayWithOwners == OfflineMapSpec => OwnersKeepTheirEngine
<1>1. OfflineMapInv /\ [OfflineMapNext]_offlineMapVars =>
        [(client = "any" => OnlyOwnerCloses) /\ OpenedStaysOpen]_offlineMapVars
  <2> SUFFICES ASSUME OfflineMapInv, OfflineMapNext
               PROVE  (client = "any" => OnlyOwnerCloses) /\ OpenedStaysOpen
    OBVIOUS
  <2>1. CASE client = "swift"
    <3>1. [OpenedStaysOpen]_offlineVars
      BY <2>1, OfflineMapSteps, OpenedStaysStep DEF OfflineMapInv
    <3> QED BY <2>1, <3>1 DEF OpenedStaysOpen, offlineVars, nativeVars, swiftVars, Owned
  <2>2. CASE client # "swift"
    <3>1. [OnlyOwnerCloses]_nativeVars
      BY <2>2, OfflineMapSteps, OwnersAloneStep DEF OfflineMapInv
    <3>2. OnlyOwnerCloses
      BY <3>1 DEF OnlyOwnerCloses, nativeVars
    <3>3. OpenedStaysOpen
      BY <2>2, OfflineMapSteps DEF OfflineMapInv, OpenedStaysOpen, swiftVars, Jobs
    <3> QED BY <3>2, <3>3
  <2> QED BY <2>1, <2>2
<1> QED BY <1>1, OfflineMapInvariant, PTL DEF OfflineMapSpec, OwnersKeepTheirEngine
=============================================================================
