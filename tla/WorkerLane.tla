------------------------------ MODULE WorkerLane ------------------------------
(***************************************************************************)
(* LuaExecutorWorker's callback lane: the dispatch queue, the worker thread *)
(* that drains it, the runtime's thread that dispatches to it, and the      *)
(* shutdown of the lane.                                                    *)
(*                                                                          *)
(* Both threads are stacks.  A dispatch that runs on the lane may call back *)
(* over the Lua bridge and then waits, serving bridge requests; the runtime *)
(* thread serves the call in its event loop or while it waits for a         *)
(* synchronous dispatch.  A handler that dispatches synchronously waits for *)
(* the very lane that waits for it, so dispatchBatch makes the lane run the *)
(* head of its queue inside the wait (the "drive").                         *)
(*                                                                          *)
(* Every wait of the code polls (a bounded wait, then the loop again), so a *)
(* wake-up is not modelled: the step it announces is enabled by the state.  *)
(* Only the runtime's thread enqueues and shuts down, as in WorldRuntime.   *)
(***************************************************************************)
EXTENDS Naturals, Sequences, FiniteSets

CONSTANTS
  MaxRequests,      \* bound: dispatches ever made
  MaxBridgeCalls,   \* bound: bridge calls one dispatch makes
  MaxForeign,       \* bound: handlers of other lanes the runtime's thread serves
  MaxExpired        \* bound: drives the lane does not take in time

ASSUME LaneAssumption ==
  MaxRequests \in Nat /\ MaxBridgeCalls \in Nat /\ MaxForeign \in Nat /\ MaxExpired \in Nat

Reqs == 1..MaxRequests

VARIABLES
  sent,             \* dispatches made so far; they are numbered in that order
  kind,             \* how the dispatch was made: sync or async
  cancelled,        \* dispatches whose connection or runtime is cancelled
  outcome,          \* what the dispatch produced: a result or the fallback
  settled,          \* how often it was completed: wake of the waiter or deliverCompletion
  returned,         \* synchronous dispatches whose caller went on
  queue,            \* dispatchQueue
  pumpQueued,       \* dispatchQueuePumpQueued
  pumpsPosted,      \* posted calls of processQueuedDispatches
  draining,         \* processQueuedDispatches is on the lane's stack
  work,             \* the dispatches on the lane's stack, innermost last
  calls,            \* bridge calls of the lane the runtime's thread has not taken
  bridgeCalls,      \* bridge calls each dispatch made
  frames,           \* the runtime thread's stack
  foreign,          \* handlers of other lanes served so far
  driveFailed,      \* synchronous dispatches one of whose drives timed out
  started,          \* dispatches taken from the queue, in order
  shuttingDown,     \* m_workerShuttingDown
  cleanup,          \* the lane's teardown event: none, posted or done
  unserved          \* the requests shutdown took from the queue

requestVars  == <<sent, kind, cancelled, outcome, settled, returned>>
laneVars     == <<queue, pumpQueued, pumpsPosted, draining, work, calls,
                  bridgeCalls, started>>
shutdownVars == <<shuttingDown, cleanup, unserved>>
callerVars   == <<frames, foreign, driveFailed>>
vars == <<requestVars, laneVars, callerVars, shutdownVars>>

Top(s) == s[Len(s)]
Pop(s) == SubSeq(s, 1, Len(s) - 1)
ReplaceTop(s, x) == Append(Pop(s), x)

\* Frames of the runtime's thread; a handler knows the dispatch that called it.
Foreign == 0
SyncFrame(r, nested) == [k |-> "sync", r |-> r, nested |-> nested]
HandlerFrame(r)      == [k |-> "handler", r |-> r]
DriveFrame(r)        == [k |-> "drive", r |-> r, at |-> "posted"]
ShutdownFrame        == [k |-> "shutdown"]
MainFrames == [k : {"sync"}, r : Reqs, nested : BOOLEAN]
         \cup [k : {"handler"}, r : Reqs \cup {Foreign}]
         \cup [k : {"drive"}, r : Reqs, at : {"posted", "running", "done"}]
         \cup [k : {"shutdown"}]

\* A dispatch on the lane's stack: where it was started from, whether it is
\* executed (it was not cancelled when it started) and whether it waits for its
\* bridge call.
WorkFrame(r, from) == [r |-> r, from |-> from, executes |-> r \notin cancelled,
                       waits |-> FALSE]
WorkFrames == [r : Reqs, from : {"pump", "drive", "inline"}, executes : BOOLEAN,
               waits : BOOLEAN]

Init ==
  /\ sent = 0 /\ kind = [r \in Reqs |-> "none"] /\ cancelled = {}
  /\ outcome = [r \in Reqs |-> "none"] /\ settled = [r \in Reqs |-> 0] /\ returned = {}
  /\ queue = <<>> /\ pumpQueued = FALSE /\ pumpsPosted = 0 /\ draining = FALSE
  /\ work = <<>> /\ calls = <<>> /\ bridgeCalls = [r \in Reqs |-> 0]
  /\ frames = <<>> /\ foreign = 0 /\ driveFailed = {} /\ started = <<>>
  /\ shuttingDown = FALSE /\ cleanup = "none" /\ unserved = {}

\* What the threads are at.
MainIs(k)   == frames # <<>> /\ Top(frames).k = k
MainIdle    == frames = <<>>
InHandler   == \E i \in DOMAIN frames : frames[i].k = "handler"
LaneRuns    == work # <<>> /\ ~Top(work).waits
LaneWaits   == work # <<>> /\ Top(work).waits
LaneAtLoop  == work = <<>> /\ ~draining

Settle(r, what) ==
  /\ outcome' = [outcome EXCEPT ![r] = what]
  /\ settled' = [settled EXCEPT ![r] = @ + 1]

-----------------------------------------------------------------------------
(* Dispatching from the runtime's thread. *)

Send(k) ==
  /\ sent < MaxRequests
  /\ sent' = sent + 1
  /\ kind' = [kind EXCEPT ![sent'] = k]

PumpNeeded == ~pumpQueued

Enqueued(r) == Append(queue, r)

\* enqueueQueuedDispatch
Enqueue(r) ==
  /\ queue' = Enqueued(r)
  /\ pumpQueued' = TRUE
  /\ pumpsPosted' = IF PumpNeeded THEN pumpsPosted + 1 ELSE pumpsPosted

\* dispatchBatch: a handler of any lane makes the caller re-entrant.
DispatchSync ==
  /\ MainIdle \/ MainIs("handler")
  /\ ~shuttingDown
  /\ Send("sync") /\ Enqueue(sent')
  /\ frames' = Append(frames, SyncFrame(sent', InHandler))
  /\ UNCHANGED <<cancelled, outcome, settled, returned, draining, work,
                 calls, bridgeCalls, started, foreign, driveFailed, shutdownVars>>

DispatchAsync ==
  /\ MainIdle \/ MainIs("handler")
  /\ ~shuttingDown
  /\ Send("async") /\ Enqueue(sent')
  /\ UNCHANGED <<cancelled, outcome, settled, returned, draining, work,
                 calls, bridgeCalls, started, callerVars, shutdownVars>>

\* The fallback at once: to a handler served while the worker shuts down, and
\* to a synchronous dispatch whose connection is already cancelled.
DispatchRefused ==
  /\ MainIdle \/ MainIs("handler")
  /\ \E k \in {"sync", "async"} :
       /\ shuttingDown \/ k = "sync"
       /\ Send(k)
       /\ returned' = IF k = "sync" THEN returned \cup {sent'} ELSE returned
  /\ Settle(sent', "fallback")
  /\ UNCHANGED <<cancelled, laneVars, callerVars, shutdownVars>>

\* The connection or the runtime of a dispatch is cancelled: read when it starts,
\* so it matters while the dispatch is queued.
CancelDispatch(r) ==
  /\ MainIdle \/ MainIs("handler")
  /\ r \notin cancelled /\ \E i \in DOMAIN queue : queue[i] = r
  /\ cancelled' = cancelled \cup {r}
  /\ UNCHANGED <<sent, kind, outcome, settled, returned, laneVars, callerVars,
                 shutdownVars>>

-----------------------------------------------------------------------------
(* The runtime's thread waits: for a synchronous dispatch, for a drive, for *)
(* the teardown of the lane.                                                *)

\* Mutant: the shutdown of the lane does not pump.
ServesUntilShutdown == ~MainIs("handler") /\ ~MainIs("shutdown")
\* Event loop, dispatchBatch, the bridge's wait and shutdownWorkerLane serve
\* the bridge calls of lanes.
ServesBridge == ~MainIs("handler")

ServeBridge ==
  /\ ServesBridge /\ calls # <<>>
  /\ calls' = Tail(calls)
  /\ frames' = Append(frames, HandlerFrame(Head(calls)))
  /\ UNCHANGED <<requestVars, queue, pumpQueued, pumpsPosted, draining, work,
                 bridgeCalls, started, foreign, driveFailed, shutdownVars>>

ServeForeign ==
  /\ ServesBridge /\ foreign < MaxForeign
  /\ foreign' = foreign + 1
  /\ frames' = Append(frames, HandlerFrame(Foreign))
  /\ UNCHANGED <<requestVars, laneVars, driveFailed, shutdownVars>>

\* The handler ends; the dispatch whose call it was goes on once it is again
\* the innermost one of the lane.
HandlerReturns ==
  /\ MainIs("handler")
  /\ frames' = Pop(frames)
  /\ work' = [i \in DOMAIN work |->
                [work[i] EXCEPT !.waits = @ /\ work[i].r # Top(frames).r]]
  /\ UNCHANGED <<requestVars, queue, pumpQueued, pumpsPosted, draining,
                 calls, bridgeCalls, started, foreign, driveFailed, shutdownVars>>

\* Mutant: a waiting caller leaves the lane alone.
NeverDrives == FALSE
MayDrive == Top(frames).nested /\ Top(frames).r \notin driveFailed

\* driveLaneOnceForBridgeReentry
Drive ==
  /\ MainIs("sync") /\ calls = <<>>
  /\ outcome[Top(frames).r] = "none" /\ MayDrive
  /\ frames' = Append(frames, DriveFrame(Top(frames).r))
  /\ UNCHANGED <<requestVars, laneVars, foreign, driveFailed, shutdownVars>>

DriveEnds ==
  /\ MainIs("drive") /\ Top(frames).at = "done"
  /\ frames' = Pop(frames)
  /\ UNCHANGED <<requestVars, laneVars, foreign, driveFailed, shutdownVars>>

\* The bridge gives up a request that the lane was too busy to take in time;
\* this call of dispatchBatch does not drive again.
DriveExpires ==
  /\ MainIs("drive") /\ Top(frames).at = "posted"
  /\ LaneRuns /\ Cardinality(driveFailed) < MaxExpired
  /\ driveFailed' = driveFailed \cup {Top(frames).r}
  /\ frames' = Pop(frames)
  /\ UNCHANGED <<requestVars, laneVars, foreign, shutdownVars>>

\* Mutant: a caller whose deadline has passed returns the fallback.
ReturnsAnyTime(r) == TRUE
IsCompleted(r) == settled[r] > 0

SyncReturns ==
  /\ MainIs("sync") /\ IsCompleted(Top(frames).r)
  /\ returned' = returned \cup {Top(frames).r}
  /\ frames' = Pop(frames)
  /\ UNCHANGED <<sent, kind, cancelled, outcome, settled, laneVars, foreign, driveFailed, shutdownVars>>

-----------------------------------------------------------------------------
(* The lane. *)

\* The posted call of processQueuedDispatches begins.
PumpBegins ==
  /\ LaneAtLoop /\ pumpsPosted > 0
  /\ pumpsPosted' = pumpsPosted - 1
  /\ draining' = TRUE
  /\ UNCHANGED <<requestVars, queue, pumpQueued, work, calls, bridgeCalls,
                 started, callerVars, shutdownVars>>

\* processOneQueuedDispatch takes the head and marks it started.  Only
\* shutdown could touch it in between, and that looks at the queue alone.
StartNext(from) ==
  /\ queue # <<>>
  /\ queue' = Tail(queue)
  /\ work' = Append(work, WorkFrame(Head(queue), from))
  /\ started' = Append(started, Head(queue))

PumpStarts ==
  /\ draining /\ work = <<>>
  /\ StartNext("pump")
  /\ UNCHANGED <<requestVars, pumpQueued, pumpsPosted, draining, calls,
                 bridgeCalls, callerVars, shutdownVars>>

\* Mutant: the pump leaves without looking at the queue again.
MayLeave == TRUE
QueueDrained == queue = <<>>

PumpEnds ==
  /\ draining /\ work = <<>> /\ QueueDrained
  /\ draining' = FALSE /\ pumpQueued' = FALSE
  /\ UNCHANGED <<requestVars, queue, pumpsPosted, work, calls, bridgeCalls,
                 started, callerVars, shutdownVars>>

\* The bridge serves requests in the order they were posted, so the lane takes the oldest
\* drive; of those that run, the last it took ends first.
DrivesAt(at) == {i \in DOMAIN frames : frames[i].k = "drive" /\ frames[i].at = at}
OldestPosted  == {i \in DrivesAt("posted") : \A j \in DrivesAt("posted") : i <= j}
LatestRunning == {i \in DrivesAt("running") : \A j \in DrivesAt("running") : j <= i}
MoveDrive(which, to) ==
  frames' = [i \in DOMAIN frames |->
              IF i \in which THEN [frames[i] EXCEPT !.at = to] ELSE frames[i]]

\* The lane serves a drive in its event loop or while it waits for the bridge.
ServeDrive ==
  /\ LaneAtLoop \/ LaneWaits
  /\ DrivesAt("posted") # {}
  /\ \/ /\ queue = <<>> /\ MoveDrive(OldestPosted, "done")
        /\ UNCHANGED <<queue, work, started>>
     \/ /\ StartNext("drive") /\ MoveDrive(OldestPosted, "running")
  /\ UNCHANGED <<requestVars, pumpQueued, pumpsPosted, draining, calls,
                 bridgeCalls, foreign, driveFailed, shutdownVars>>

\* The running dispatch calls the runtime's thread.
CallBridge ==
  /\ LaneRuns /\ LET r == Top(work).r
                 IN /\ Top(work).executes /\ bridgeCalls[r] < MaxBridgeCalls
                    /\ bridgeCalls' = [bridgeCalls EXCEPT ![r] = @ + 1]
  /\ work' = ReplaceTop(work, [Top(work) EXCEPT !.waits = TRUE])
  /\ calls' = Append(calls, Top(work).r)
  /\ UNCHANGED <<requestVars, queue, pumpQueued, pumpsPosted, draining, started,
                 callerVars, shutdownVars>>

WithoutCall(i) == [j \in 1..(Len(calls) - 1) |-> IF j < i THEN calls[j] ELSE calls[j + 1]]

\* A bridge call that nobody took in time fails; the dispatch goes on.
BridgeTimesOut ==
  /\ LaneWaits
  /\ \E i \in DOMAIN calls : calls[i] = Top(work).r /\ calls' = WithoutCall(i)
  /\ work' = ReplaceTop(work, [Top(work) EXCEPT !.waits = FALSE])
  /\ UNCHANGED <<requestVars, queue, pumpQueued, pumpsPosted, draining, bridgeCalls,
                 started, callerVars, shutdownVars>>

\* A dispatch made on the lane's own thread runs there and then.
DispatchInline ==
  /\ LaneRuns /\ Top(work).executes
  /\ \E k \in {"sync", "async"} : Send(k)
  /\ work' = Append(work, WorkFrame(sent', "inline"))
  /\ UNCHANGED <<cancelled, outcome, settled, returned, queue, pumpQueued, pumpsPosted,
                 draining, calls, bridgeCalls, started, callerVars,
                 shutdownVars>>

\* The dispatch ends: with the result, or with the fallback if it threw or its
\* connection or runtime was cancelled before it started.
FinishWork ==
  /\ LaneRuns
  /\ LET w == Top(work)
     IN /\ \/ w.executes /\ Settle(w.r, "result")
           \/ Settle(w.r, "fallback")
        /\ returned' = IF w.from = "inline" /\ kind[w.r] = "sync"
                       THEN returned \cup {w.r} ELSE returned
        /\ IF w.from = "drive" THEN MoveDrive(LatestRunning, "done") ELSE UNCHANGED frames
  /\ work' = Pop(work)
  /\ UNCHANGED <<sent, kind, cancelled, queue, pumpQueued, pumpsPosted, draining,
                 calls, bridgeCalls, started, foreign, driveFailed, shutdownVars>>

-----------------------------------------------------------------------------
(* Shutdown, by the runtime's destructor: nothing else is on its stack.      *)

\* Mutants: the requests are dropped; the running ones get a fallback as well.
DropRequests == {}
AllUnsettled == {r \in 1..sent : settled[r] = 0}
TakenByShutdown == {queue[i] : i \in DOMAIN queue}

ShutDown ==
  /\ MainIdle /\ ~shuttingDown
  /\ shuttingDown' = TRUE
  /\ unserved' = TakenByShutdown
  /\ queue' = <<>> /\ pumpQueued' = FALSE
  /\ cleanup' = "posted"
  /\ frames' = Append(frames, ShutdownFrame)
  /\ UNCHANGED <<requestVars, pumpsPosted, draining, work, calls, bridgeCalls,
                 started, foreign, driveFailed>>

\* The teardown of the retained engines, behind every posted pump.
CleanUp ==
  /\ LaneAtLoop /\ cleanup = "posted" /\ pumpsPosted = 0
  /\ cleanup' = "done"
  /\ UNCHANGED <<requestVars, laneVars, callerVars, shuttingDown, unserved>>

\* deliverShutdownFallbacks, once the lane's thread has ended.
DeliverFallback(r) ==
  /\ MainIs("shutdown") /\ cleanup = "done"
  /\ r \in unserved
  /\ unserved' = unserved \ {r}
  /\ Settle(r, "fallback")
  /\ UNCHANGED <<sent, kind, cancelled, returned, laneVars, callerVars, shuttingDown,
                 cleanup>>

WorkerGone == MainIs("shutdown") /\ cleanup = "done" /\ unserved = {}
Terminated == WorkerGone /\ UNCHANGED vars

-----------------------------------------------------------------------------
Dispatching == \/ DispatchSync \/ DispatchAsync \/ DispatchRefused
               \/ \E r \in Reqs : CancelDispatch(r)
Caller == \/ ServeBridge \/ HandlerReturns \/ Drive \/ DriveEnds \/ SyncReturns
Lane == \/ PumpBegins \/ PumpStarts \/ PumpEnds \/ ServeDrive \/ CallBridge
        \/ FinishWork \/ CleanUp
Next == \/ Dispatching \/ Caller \/ ServeForeign \/ DriveExpires
        \/ Lane \/ BridgeTimesOut \/ DispatchInline
        \/ ShutDown \/ (\E r \in Reqs : DeliverFallback(r)) \/ Terminated

Spec == Init /\ [][Next]_vars

\* Both threads go on: handlers return, Lua functions end, waits poll.
FairSpec == /\ Spec
            /\ WF_vars(Caller) /\ WF_vars(Lane)
            /\ WF_vars(\E r \in Reqs : DeliverFallback(r))

-----------------------------------------------------------------------------
(* Properties. *)

\* Types; a dispatch is on one stack or in one queue, or has not been made.
TypeOK ==
  /\ sent \in 0..MaxRequests
  /\ kind \in [Reqs -> {"none", "sync", "async"}]
  /\ cancelled \subseteq Reqs /\ returned \subseteq Reqs /\ unserved \subseteq Reqs
  /\ outcome \in [Reqs -> {"none", "result", "fallback"}]
  /\ settled \in [Reqs -> Nat] /\ bridgeCalls \in [Reqs -> Nat]
  /\ queue \in Seq(Reqs) /\ started \in Seq(Reqs)
  /\ work \in Seq(WorkFrames) /\ calls \in Seq(Reqs) /\ frames \in Seq(MainFrames)
  /\ {pumpQueued, draining, shuttingDown} \subseteq BOOLEAN
  /\ pumpsPosted \in 0..1 /\ cleanup \in {"none", "posted", "done"}
  /\ foreign \in 0..MaxForeign /\ driveFailed \subseteq Reqs

\* A request in the queue always has a pump that will reach it: posted, or on
\* the lane's stack.  The flag alone decides whether enqueue posts one.
QueueHasPump == queue # <<>> => pumpsPosted > 0 \/ draining

\* Dispatches leave the queue in the order they were made, each once, also
\* when a drive nests a later one inside an earlier one.
StartedInOrder == \A i, j \in DOMAIN started : i < j => started[i] < started[j]

\* No completion is given twice, nor to a dispatch that was never made.
SettledOnce == \A r \in Reqs : settled[r] <= (IF r <= sent THEN 1 ELSE 0)

\* No dispatch runs on the lane, or is still to run, after the synchronous
\* call that made it has returned: its arguments may be gone.
NoOrphans ==
  \A r \in returned :
    /\ \A i \in DOMAIN queue : queue[i] # r
    /\ \A i \in DOMAIN work : work[i].r # r

\* Once the lane is torn down nothing is left on it, and when the destructor
\* ends every dispatch that was made has been completed.
QuietAtTheEnd ==
  /\ cleanup = "done" => LaneAtLoop /\ queue = <<>> /\ calls = <<>>
  /\ WorkerGone => \A r \in 1..sent : settled[r] = 1

\* A synchronous dispatch returns, also when the lane waits for its caller.
SyncReturnsEventually ==
  \A r \in Reqs : (kind[r] = "sync") ~> (r \in returned)

\* A shutdown that has begun tears the lane down and lets the destructor return.
ShutdownEnds == shuttingDown ~> WorkerGone
=============================================================================
