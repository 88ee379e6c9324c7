------------------------------ MODULE RawIngress ------------------------------
(***************************************************************************)
(* WorldRuntime's raw ingress: the queue of received and simulated input,   *)
(* the one operation that is parsed at a time, the plugin callbacks its     *)
(* parser waits for, and the playbacks of script journals that simulate     *)
(* input and wait for it.                                                   *)
(*                                                                          *)
(* All of it runs on the runtime's thread, so the module is one stack of    *)
(* frames over an event loop.  A callback the parser waits for does not     *)
(* block the thread: the operation keeps a continuation and its frame       *)
(* leaves the stack.  A callback dispatched synchronously does, and runs    *)
(* the callback lane inside the wait: lane steps then nest in the parser's  *)
(* or in a playback's frame.                                                *)
(*                                                                          *)
(* A connection's cancellation state is the number of its generation, which *)
(* is cancelled when a later one began; NoState is the null pointer.  The   *)
(* queue holds operations in the order of their numbers: they are numbered  *)
(* when they are queued, and the filter of an ended connection keeps order. *)
(***************************************************************************)
EXTENDS Naturals, Sequences, FiniteSets

CONSTANTS
  Playbacks,        \* journals that are ever played back
  NoPlayback,       \* the null playback
  MaxOperations,    \* bound: payloads ever queued
  MaxGenerations,   \* bound: connection generations
  MaxMutations,     \* bound: mutations of one journal
  MaxFrames         \* bound: frames under which the lane still nests (0: never)

ASSUME IngressAssumption ==
  /\ NoPlayback \notin Playbacks /\ IsFiniteSet(Playbacks)
  /\ MaxOperations \in Nat /\ MaxGenerations \in Nat \ {0}
  /\ MaxMutations \in Nat /\ MaxFrames \in Nat

Operations  == 1..MaxOperations
Generations == 1..MaxGenerations
NoOperation == 0
NoState     == 0

VARIABLES
  generation,       \* m_connectionEpoch and m_connectionCancellationState
  arrived,          \* payloads queued so far: m_nextRawIngressOperationId
  payload,          \* what was queued: source, connection state, retained playback
  pending,          \* m_pendingRawIngressPayloads
  active,           \* m_activeRawIngressOperation
  executing,        \* its executionDepth is not 0
  cancelling,       \* its cancellationRequested
  draining,         \* m_drainingPendingRawIngressPayloads
  drainQueued,      \* m_pendingRawIngressPayloadDrainQueued
  continuations,    \* m_pendingPluginCallbackResultContinuations, by operation
  resolved,         \* those whose callback has returned
  waiter,           \* the playback each of them retains
  parsed,           \* history: the operations that were completed, in that order
  playback,         \* LuaDeferredRuntimeMutationPlayback, one per journal
  stack             \* the frames of the runtime's thread, innermost last

activeVars == <<active, executing, cancelling>>
resultVars == <<continuations, resolved, waiter, parsed>>
vars == <<generation, arrived, payload, pending, activeVars, draining, drainQueued,
          resultVars, playback, stack>>

States   == {NoState} \cup Generations
Holders  == Playbacks \cup {NoPlayback}
Payloads == [source : {"none", "network", "simulation"},
             state : States, playback : Holders]
PlaybackRecords == [status : {"new", "live", "completed", "cancelled"}, state : States,
                    parent : Holders, retained : Nat, left : 0..MaxMutations,
                    applying : BOOLEAN]

\* A frame names its operation and the playback that is innermost when it runs.
Frames == [kind : {"apply"}, op : {NoOperation}, playback : Playbacks]
     \cup [kind : {"drain", "completed"}, op : {NoOperation}, playback : Holders]
     \cup [kind : {"process", "parse"}, op : Operations, playback : Holders]
Frame(kind, o, p) == [kind |-> kind, op |-> o, playback |-> p]

Init ==
  /\ generation = 1
  /\ arrived = 0 /\ pending = {}
  /\ payload = [o \in Operations |->
                  [source |-> "none", state |-> NoState, playback |-> NoPlayback]]
  /\ active = NoOperation /\ executing = FALSE /\ cancelling = FALSE
  /\ draining = FALSE /\ drainQueued = FALSE
  /\ continuations = {} /\ resolved = {} /\ waiter = [o \in Operations |-> NoPlayback]
  /\ parsed = <<>>
  /\ playback = [p \in Playbacks |->
                   [status |-> "new", state |-> NoState, parent |-> NoPlayback,
                    retained |-> 0, left |-> 0, applying |-> FALSE]]
  /\ stack = <<>>

Pop         == SubSeq(stack, 1, Len(stack) - 1)
Top         == stack[Len(stack)]
TopIs(kind) == stack # <<>> /\ Top.kind = kind

\* The event loop, or a synchronous callback inside a parser or a mutation.
LaneMayRun ==
  \/ stack = <<>>
  \/ (TopIs("apply") \/ TopIs("parse")) /\ Len(stack) < MaxFrames

\* LuaCallbackConnectionCancellationState::isCancelled
Cancelled(state) == state # NoState /\ state # generation
Stale(o) == Cancelled(payload[o].state)

-----------------------------------------------------------------------------
(* Playbacks: what retains them, and how one ends. *)

ActivePlayback == IF stack = <<>> THEN NoPlayback ELSE Top.playback

\* The playback that a new continuation, payload or nested playback retains.
Retainable ==
  IF ActivePlayback \in Playbacks /\ playback[ActivePlayback].status = "live"
  THEN ActivePlayback ELSE NoPlayback

Retained(pbs, p) == [pbs EXCEPT ![p].retained = @ + 1]
Retain(pbs, p)   == IF p \in Playbacks THEN Retained(pbs, p) ELSE pbs

\* A cancelled playback cancels the one that waits for it, and so on.
WithParents(ps) ==
  LET closed(qs) == \A q \in qs : playback[q].parent \in qs \cup {NoPlayback} IN
  {q \in Playbacks : \A qs \in SUBSET Playbacks : ps \subseteq qs /\ closed(qs) => q \in qs}

Cancel(pbs, ps) ==
  LET doomed == {q \in WithParents(ps \cap Playbacks) : pbs[q].status = "live"}
  IN  [q \in Playbacks |-> IF q \in doomed
                           THEN [pbs[q] EXCEPT !.status = "cancelled", !.left = 0]
                           ELSE pbs[q]]

Released(pbs, p) == [pbs EXCEPT ![p].retained = IF @ > 0 THEN @ - 1 ELSE 0]
Applying(pbs, p) == [pbs EXCEPT ![p].applying = TRUE]

\* The playback of the last holder goes on, unless its connection ended.
Release(pbs, p, base) ==
  \/ /\ p \notin Playbacks \/ (p \in Playbacks /\ pbs[p].status # "live")
     /\ playback' = pbs /\ stack' = base
  \/ /\ p \in Playbacks /\ pbs[p].status = "live"
     /\ LET freed == Released(pbs, p)
            goes  == freed[p].retained = 0 /\ ~freed[p].applying IN
        /\ playback' = IF goes
                       THEN IF Cancelled(freed[p].state) THEN Cancel(freed, {p})
                                                         ELSE Applying(freed, p)
                       ELSE freed
        /\ stack' = IF goes /\ ~Cancelled(freed[p].state)
                    THEN Append(base, Frame("apply", NoOperation, p)) ELSE base

\* A batch begins to play back on the runtime thread, for no connection or for the one
\* it was made for; the playback it is started from waits for it.  If the connection has
\* ended it is cancelled at once, and what waits for it.
Begun(p, s, n) ==
  [Retain(playback, Retainable) EXCEPT
     ![p] = [status |-> "live", state |-> s, parent |-> Retainable,
             retained |-> 0, left |-> n, applying |-> ~Cancelled(s)]]
StartPlayback(p) ==
  /\ LaneMayRun /\ playback[p].status = "new"
  /\ \/ /\ \E s \in {NoState, generation}, n \in 1..MaxMutations :
             playback' = Begun(p, s, n)
        /\ stack' = Append(stack, Frame("apply", NoOperation, p))
     \/ /\ \E s \in 1..(generation - 1), n \in 1..MaxMutations :
             playback' = Cancel(Begun(p, s, n), {p, Retainable})
        /\ UNCHANGED stack
  /\ UNCHANGED <<generation, arrived, payload, pending, activeVars, draining,
                 drainQueued, resultVars>>

\* The next mutation may run: nothing the playback started is outstanding.
MayMutate(p) ==
  /\ TopIs("apply") /\ Top.playback = p /\ playback[p].status = "live"
  /\ playback[p].retained = 0 /\ playback[p].left > 0
OneLess(p) == [playback EXCEPT ![p].left = @ - 1]

MutatePlain(p) ==
  /\ MayMutate(p)
  /\ playback' = OneLess(p)
  /\ UNCHANGED <<generation, arrived, payload, pending, activeVars, draining,
                 drainQueued, resultVars, stack>>

\* The segment is over: its journal is done, or waits for what it started.
SegmentEnds ==
  /\ TopIs("apply")
  /\ LET p == Top.playback IN
     /\ ~MayMutate(p)
     /\ IF playback[p].status = "live" /\ playback[p].retained = 0
        THEN Release([playback EXCEPT ![p].applying = FALSE, ![p].status = "completed"],
                     playback[p].parent, Pop)
        ELSE /\ playback' = [playback EXCEPT ![p].applying = FALSE]
             /\ stack' = Pop
  /\ UNCHANGED <<generation, arrived, payload, pending, activeVars, draining,
                 drainQueued, resultVars>>

-----------------------------------------------------------------------------
(* The queue and the operation that is processed. *)

\* finalizeRawIngressCancellation, with the continuation that is cancelled first;
\* held are playbacks that a continuation of the returning frame retains.
\* Mutant: the next drain is not posted.
CancelActive_Unposted(base, held) ==
  /\ active' = NoOperation /\ executing' = FALSE /\ cancelling' = FALSE
  /\ continuations' = continuations \ {active}
  /\ resolved' = resolved \ {active}
  /\ waiter' = [waiter EXCEPT ![active] = NoPlayback]
  /\ playback' = Cancel(playback, held \cup {payload[active].playback}
                          \cup {waiter[o] : o \in continuations \cap {active}})
  /\ stack' = base
  /\ UNCHANGED <<arrived, payload, pending, draining, drainQueued, parsed>>
CancelActive(base, held) ==
  /\ active' = NoOperation /\ executing' = FALSE /\ cancelling' = FALSE
  /\ drainQueued' = TRUE
  /\ continuations' = continuations \ {active}
  /\ resolved' = resolved \ {active}
  /\ waiter' = [waiter EXCEPT ![active] = NoPlayback]
  /\ playback' = Cancel(playback, held \cup {payload[active].playback}
                          \cup {waiter[o] : o \in continuations \cap {active}})
  /\ stack' = base
  /\ UNCHANGED <<arrived, payload, pending, draining, parsed>>

\* drainPendingRawIngressPayloads, which drains unless someone else will.
MayDrain == ~drainQueued /\ ~draining /\ active = NoOperation
DrainFrom(base) ==
  /\ draining' = (draining \/ MayDrain)
  /\ stack' = IF MayDrain THEN Append(base, Frame("drain", NoOperation, ActivePlayback))
                          ELSE base

\* enqueueRawIngress
Enqueue(source, state, holder, pbs) ==
  /\ arrived < MaxOperations
  /\ DrainFrom(stack)
  /\ arrived' = arrived + 1
  /\ pending' = pending \cup {arrived + 1}
  /\ payload' = [payload EXCEPT ![arrived + 1] =
                   [source |-> source, state |-> state, playback |-> holder]]
  /\ playback' = Retain(pbs, holder)
  /\ UNCHANGED <<generation, activeVars, drainQueued, resultVars>>

\* Bytes of the connection; what is replayed after a reload belongs to it like them.
Receive ==
  /\ stack = <<>>
  /\ Enqueue("network", generation, NoPlayback, playback)

\* Debug world input: simulated, for no script.
SimulateDirect ==
  /\ stack = <<>>
  /\ Enqueue("simulation", NoState, NoPlayback, playback)

\* A script's Simulate.  A callback's script may not call it; the other journals
\* that belong to a connection may.
MutateSimulate(p) ==
  /\ MayMutate(p)
  /\ Enqueue("simulation", NoState, p, OneLess(p))

\* drainPendingRawIngressPayloads takes the next payload
Dequeue ==
  /\ TopIs("drain") /\ active = NoOperation /\ pending # {}
  /\ \E o \in pending :
       /\ \A other \in pending : o <= other
       /\ active' = o /\ pending' = pending \ {o}
       /\ stack' = Append(stack, Frame("process", o, ActivePlayback))
  /\ executing' = TRUE /\ cancelling' = FALSE
  /\ UNCHANGED <<generation, arrived, payload, draining, drainQueued, resultVars, playback>>

DrainEnds ==
  /\ TopIs("drain") /\ (active # NoOperation \/ pending = {})
  /\ draining' = FALSE /\ stack' = Pop
  /\ UNCHANGED <<generation, arrived, payload, pending, activeVars, drainQueued,
                 resultVars, playback>>

\* The posted drain event.
DrainEvent ==
  /\ stack = <<>> /\ drainQueued
  /\ drainQueued' = FALSE
  /\ LET drains == ~draining /\ active = NoOperation IN
     /\ draining' = (draining \/ drains)
     /\ stack' = IF drains THEN <<Frame("drain", NoOperation, NoPlayback)>> ELSE stack
  /\ UNCHANGED <<generation, arrived, payload, pending, activeVars, resultVars, playback>>

\* The operation's frame returns: endRawIngressExecution
Unwind ==
  IF cancelling
  THEN CancelActive(Pop, {})
  ELSE /\ executing' = FALSE /\ stack' = Pop
       /\ UNCHANGED <<arrived, payload, pending, active, cancelling, draining, drainQueued,
                      resultVars, playback>>

\* It returns because a callback suspended it: dispatchPluginCallbackWithContinuation
Suspended ==
  /\ continuations' = continuations \cup {active}
  /\ waiter' = [waiter EXCEPT ![active] = Retainable]
  /\ executing' = FALSE /\ stack' = Pop
  /\ UNCHANGED <<arrived, payload, pending, active, cancelling, draining, drainQueued,
                 resolved, parsed>>
\* Mutant: the continuation does not retain the playback it will resume.
Suspend_Unretained ==
  /\ ~cancelling /\ Suspended /\ UNCHANGED <<generation, playback>>
\* Mutant: a cancellation that was requested meanwhile is forgotten.
Suspend_Forgets ==
  /\ Suspended /\ playback' = Retain(playback, Retainable) /\ UNCHANGED generation
Suspend ==
  /\ IF cancelling THEN CancelActive(Pop, {Retainable})
     ELSE Suspended /\ playback' = Retain(playback, Retainable)
  /\ UNCHANGED generation

\* Simulated input is first shown to the plugins, if any listens.
AskPlugins ==
  /\ TopIs("process") /\ payload[active].source = "simulation"
  /\ Suspend

BeginParsing ==
  /\ TopIs("process")
  /\ IF cancelling \/ Stale(active)
     THEN Unwind
     ELSE /\ stack' = Append(Pop, Frame("parse", active, ActivePlayback))
          /\ UNCHANGED <<arrived, payload, pending, activeVars, draining, drainQueued,
                         resultVars, playback>>
  /\ UNCHANGED generation

\* The parser awaits a callback, an MXP tag's.
AwaitCallback ==
  /\ TopIs("parse")
  /\ Suspend

\* completeRawDataPayload: it requests its own cancellation when its connection
\* ended, and completes otherwise.
\* Mutant: the script that simulated the input is not told.
Parsed_Untold ==
  /\ TopIs("parse")
  /\ IF cancelling \/ Stale(active)
     THEN CancelActive(Pop, {})
     ELSE /\ active' = NoOperation /\ executing' = FALSE
          /\ stack' = Append(Pop, Frame("completed", NoOperation, ActivePlayback))
          /\ parsed' = Append(parsed, active)
          /\ UNCHANGED <<arrived, payload, pending, cancelling, draining, drainQueued,
                         continuations, resolved, waiter, playback>>
  /\ UNCHANGED generation
Parsed ==
  /\ TopIs("parse")
  /\ IF cancelling \/ Stale(active)
     THEN CancelActive(Pop, {})
     ELSE /\ active' = NoOperation /\ executing' = FALSE
          /\ Release(playback, payload[active].playback,
                     Append(Pop, Frame("completed", NoOperation, ActivePlayback)))
          /\ parsed' = Append(parsed, active)
          /\ UNCHANGED <<arrived, payload, pending, cancelling, draining, drainQueued,
                         continuations, resolved, waiter>>
  /\ UNCHANGED generation

\* completeProcessedRawIngressOperations drains last.
\* Mutant: nothing is drained after an operation.
CompletedDrains_Not ==
  /\ TopIs("completed")
  /\ stack' = Pop
  /\ UNCHANGED <<generation, arrived, payload, pending, activeVars, draining, drainQueued,
                 resultVars, playback>>
CompletedDrains ==
  /\ TopIs("completed")
  /\ DrainFrom(Pop)
  /\ UNCHANGED <<generation, arrived, payload, pending, activeVars, drainQueued,
                 resultVars, playback>>

-----------------------------------------------------------------------------
(* Continuations. *)

\* The callback returned: a lane command will resume the operation.
Resolve(o) ==
  /\ o \in continuations \ resolved
  /\ resolved' = resolved \cup {o}
  /\ UNCHANGED <<generation, arrived, payload, pending, activeVars, draining,
                 drainQueued, continuations, waiter, parsed, playback, stack>>

\* The operation's frame is entered again, over those of base.
Reenter(o, base, p) ==
  /\ executing' = TRUE
  /\ stack' = Append(base, Frame("parse", o, p))
  /\ UNCHANGED <<active, cancelling, drainQueued>>

WaiterLives(o) == waiter[o] \in Playbacks /\ playback[waiter[o]].status = "live"

\* The lane resumes it, through the playback that waits for it.
Resume(o) ==
  /\ LaneMayRun /\ o \in resolved /\ o = active
  /\ \/ /\ Stale(o)
        /\ CancelActive(stack, {})
     \/ /\ ~Stale(o)
        /\ continuations' = continuations \ {o} /\ resolved' = resolved \ {o}
        /\ waiter' = [waiter EXCEPT ![o] = NoPlayback]
        /\ UNCHANGED <<arrived, payload, pending, draining, parsed>>
        /\ LET p == waiter[o]
               freed == Released(playback, p) IN
           \/ /\ ~WaiterLives(o)
              /\ Reenter(o, stack, ActivePlayback)
              /\ UNCHANGED playback
           \/ /\ WaiterLives(o) /\ playback[p].applying
              /\ playback' = freed
              /\ Reenter(o, stack, p)
           \/ /\ WaiterLives(o) /\ ~playback[p].applying /\ ~Cancelled(playback[p].state)
              /\ playback' = Applying(freed, p)
              /\ Reenter(o, Append(stack, Frame("apply", NoOperation, p)), p)
           \* resumeLuaDeferredRuntimeMutationPlayback returns without its prelude
           \/ /\ WaiterLives(o) /\ ~playback[p].applying /\ Cancelled(playback[p].state)
              /\ playback' = Cancel(freed, {p})
              /\ UNCHANGED <<activeVars, drainQueued, stack>>
  /\ UNCHANGED generation

-----------------------------------------------------------------------------
(* The connection ends: invalidateConnectionGeneration and                    *)
(* cancelStaleConnectionRawIngressOperations.                                 *)

\* A payload survives if it belongs to no connection, or to the new one.
\* Mutant: only what is processed is cancelled, not what waits.
Survivors_All(g) == pending
Survivors(g) == {o \in pending : payload[o].state \in {NoState, g}}
\* enqueueRawIngress gives only replayed payloads of a connection a holder.
Dropped(g) == {payload[o].playback : o \in pending \ Survivors(g)}

Invalidate(pbs) ==
  /\ generation < MaxGenerations
  /\ generation' = generation + 1
  /\ pending' = Survivors(generation + 1)
  /\ LET ends == active # NoOperation /\ payload[active].state # NoState
         now  == ends /\ ~executing
         held == IF now THEN {payload[active].playback}
                               \cup {waiter[o] : o \in continuations \cap {active}}
                        ELSE {} IN
     /\ active' = IF now THEN NoOperation ELSE active
     /\ cancelling' = IF now THEN FALSE ELSE (cancelling \/ ends)
     /\ drainQueued' = (drainQueued \/ now)
     /\ continuations' = IF now THEN continuations \ {active} ELSE continuations
     /\ resolved' = IF now THEN resolved \ {active} ELSE resolved
     /\ waiter' = IF now THEN [waiter EXCEPT ![active] = NoPlayback] ELSE waiter
     /\ playback' = Cancel(pbs, held \cup Dropped(generation + 1))
  /\ UNCHANGED <<arrived, payload, executing, draining, parsed, stack>>

Disconnect == stack = <<>> /\ Invalidate(playback)
MutateDisconnect(p) == MayMutate(p) /\ Invalidate(OneLess(p))

-----------------------------------------------------------------------------
Internal ==
  \/ \E p \in Playbacks : MutatePlain(p)
  \/ SegmentEnds \/ Dequeue \/ DrainEnds \/ DrainEvent
  \/ BeginParsing \/ Parsed \/ CompletedDrains

Next ==
  \/ Internal
  \/ Receive \/ SimulateDirect \/ Disconnect
  \/ AskPlugins \/ AwaitCallback
  \/ \E p \in Playbacks : StartPlayback(p) \/ MutateSimulate(p) \/ MutateDisconnect(p)
  \/ \E o \in Operations : Resolve(o) \/ Resume(o)

Spec == Init /\ [][Next]_vars

\* The thread runs, the event loop delivers posted events, a callback returns (one
\* operation at a time has any).
\* A parser that awaits again and again is not excused: it ends its input.
FairSpec ==
  /\ Spec
  /\ WF_vars(Internal)
  /\ SF_vars(Parsed)
  /\ WF_vars(\E o \in Operations : Resolve(o))
  /\ WF_vars(\E o \in Operations : Resume(o))

-----------------------------------------------------------------------------
(* Properties. *)

\* Every variable has its type.
TypeOK ==
  /\ generation \in Generations
  /\ arrived \in 0..MaxOperations
  /\ payload \in [Operations -> Payloads]
  /\ pending \in SUBSET Operations
  /\ active \in {NoOperation} \cup Operations
  /\ executing \in BOOLEAN /\ cancelling \in BOOLEAN
  /\ draining \in BOOLEAN /\ drainQueued \in BOOLEAN
  /\ continuations \in SUBSET Operations /\ resolved \in SUBSET Operations
  /\ waiter \in [Operations -> Holders] /\ parsed \in Seq(Operations)
  /\ playback \in [Playbacks -> PlaybackRecords]
  /\ stack \in Seq(Frames)

\* Input that waits while nothing is processed has someone who will take it: a
\* posted drain event, a drain that runs, or a completion that is about to drain.
\* The three flags of drainPendingRawIngressPayloads may not refuse each other's
\* drains until none is left.
QueueHasDrainer ==
  pending # {} /\ active = NoOperation =>
    \/ drainQueued \/ draining
    \/ \E i \in DOMAIN stack : stack[i].kind = "completed"

\* Once its connection ended, the processed operation is only there while its own
\* frame runs, and that frame knows it must cancel on its way out: no suspended
\* operation of an ended connection blocks the next connection's input.
EndedConnectionIsLeft ==
  active # NoOperation /\ (cancelling \/ Stale(active)) => executing /\ cancelling

\* No bytes of an ended connection wait to be parsed in the next one.
NoStalePending == \A o \in pending : ~Stale(o)

\* An operation that gave up its frame for a callback is resumed by it: it is
\* never left without a continuation.
CompletionArrives == active # NoOperation /\ ~executing => active \in continuations

\* A playback waits for exactly what it started: the payloads it simulated, the
\* operations that were suspended under it and the playbacks nested in it.  One
\* too many never ends its journal, one too few runs it ahead of what it awaits.
HeldBy(p) ==
    Cardinality({o \in pending \cup ({active} \ {NoOperation}) : payload[o].playback = p})
  + Cardinality({o \in continuations : waiter[o] = p})
  + Cardinality({q \in Playbacks : playback[q].parent = p /\ playback[q].status = "live"})
RetainsMatch ==
  \A p \in Playbacks : playback[p].status = "live" => playback[p].retained = HeldBy(p)

Input == INSTANCE InputOrder WITH
  Connections <- Generations, connection <- generation,
  belongs <- [o \in Operations |-> payload[o].state], waiting <- pending, current <- active
\* The queue, its drains and the suspended parser keep the promise InputOrder states:
\* input is completed in the order it came in, nothing of an ended connection is, and
\* nothing else is given up.
ImplementsInputOrder == Input!Spec

\* Input that was queued ends: parsed, cancelled or dropped.  What CompletionArrives
\* is violated by, a continuation that is dropped, is all that can prevent it.
OperationsEnd ==
  []CompletionArrives =>
    \A o \in Operations : (o \in pending \/ active = o) ~> (o \notin pending /\ active # o)

\* A journal that waits for what it simulated ends, under the same condition.
PlaybacksSettle ==
  []CompletionArrives =>
    \A p \in Playbacks : (playback[p].status = "live") ~> (playback[p].status # "live")

=============================================================================
