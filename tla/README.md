# QMud verification

TLA+ models, TLC runs and TLAPS proofs for QMud, a MUD client in C++20 and Qt 6
whose scripts run on Lua threads of their own. Source references are paths in the
repository; `PROJECT.json` maps every definition to its lines.

The interesting control of QMud is where three things meet: the application's
thread, which owns every `WorldRuntime`; one Lua callback lane per runtime, with
queues in both directions; and an event loop that is also run from inside waits.
What a script did reaches the world later, in another order of events and perhaps
after its connection, its plugin or its runtime has gone. The models follow this path:

```
 server
   |  ^
   v  |            input                                  dispatch
 WorldSocket -----------------> RawIngress ----- runtime ----------> WorkerLane
   |  ^   TelnetNegotiation         ^              |  ^                 |  bridge calls
   |  |                             | simulated    |  |                 v
   |  |                             | input        |  +-- drive -- runtime's thread
   |  |   CausalOutbound            |              v
   |  +---- commands, packets ---- CompletionSequencer, MutationDelivery
   |                               (order of completions; who applies a batch)
   +-- epochs: what belongs to an ended connection does not reach the next one
```

with two parts beside it: `PluginStatePersistence`, a second background thread, and
`SingleInstance`, what several QMud processes say to each other when one is started.

## Running

`tlc -workers 2 -config <cfg> <MC module>` for a run of the table below, and
`tlapm <Module>Proofs.tla` for the proofs.

## The system

| component | state it keeps | operations | what is hard | status |
|---|---|---|---|---|
| Deferred mutation delivery (`LuaExecutorWorker.cpp` 60-300, `LuaExecutor.h` 3780-3850) | retained backups by number, the thread that delivers, queued deliveries, recovery | retain, consume, discard, recover, collect at shutdown | consumers on several threads, re-entry from a delivery's own consumer, shutdown | `MutationDelivery`, `MutationJournal` |
| Completion sequencing (`LuaExecutorWorker.cpp` 300-460, `helpers/LuaCompletionDeliveryUtils.cpp`) | tickets, results, the delivery under way | reserve, resolve, skip, deliver | results out of order, targets that die, a continuation two parties may take | `CompletionOrder`, `CompletionSequencer` |
| Worker lane (`LuaExecutorWorker.cpp` 480-1190, part of `helpers/LuaExecutionUtils.cpp`) | dispatch queue, the two threads' stacks | dispatch, drive, bridge call, shutdown | both threads wait for each other and nest | `WorkerLane` |
| Plugin-state persistence (`PluginStatePersistence.cpp`) | revisions per file, the worker's sleep, a flush's goals | reserve, submit, flush, destroy | the rate limit, failing writes, draining at exit | `PluginStateStore`, `PluginStatePersistence` |
| Raw ingress (`WorldRuntime.cpp` 3950-4520, 8120-8900, 9347-9404, 24992-25070) | queued payloads, the processed operation, continuations, playbacks | receive, simulate, parse, suspend, resume, disconnect | suspension in a parser, nesting, the end of a connection | `InputOrder`, `RawIngress` |
| Plugin callback lane (`WorldRuntime.cpp` 23200-25250) | queue of callbacks, barriers, suspended modal dispatches, tickets | queue, drain, wait, suspend, resume, cancel | synchronous waits that run the queue, destruction | planned |
| Causal outbound (`WorldRuntime.cpp` 9083-9428, 12827-13153, 27433-27501, `WorldCommandProcessor.cpp` 6510-7071) | scopes, groups, segments, the command between staging and its notification, queued sends, packet-debug records | begin, send, decide, stage, write, notify, release, disconnect | order over suspended callbacks, writes that fail inside a flush, a disconnect that waits for it | `CausalOutbound` |
| Lua bridge (`helpers/LuaExecutionUtils.cpp`) | calls per thread, asynchronous mailbox | invoke, pump, time out, cancel | late answers, calls between two lanes | partly, in `WorkerLane` |
| World socket (`WorldSocket.cpp`, `WorldRuntime.cpp` 7836-7900, 12193-12576) | buffered bytes, drain flags, connection phase, epoch, START-TLS offer and timer | read, drain, connect, disconnect, adopt, fall back, encrypt | handlers that disconnect and reconnect inside a drain, timers that outlive their connection | `WorldSocket` |
| Single-instance start-up (`helpers/SingleInstanceIpc.cpp`, `Main.cpp`, `AppController.cpp` 8345-8365) | start-up lock, endpoint, requests taken and not yet opened | lock, probe, forward, listen, take over, take, dispatch | two starts at once, deadlines, a stale endpoint, dialogs inside the dispatch | `SingleInstance` |
| Reload (`helpers/ReloadUtils.cpp`, `WorldRuntime.cpp` 12500-12825) | descriptors, probe buffer, generations | hand over, probe, keep or reconnect | a timer against an answer | planned |
| Telnet negotiation (`TelnetProcessor.cpp` 364-1045, 2450-2630) | per option and direction: attempts, what settled, time left of a suppression | answer a verb, suppress, change a setting, restore, reset | loops of answers with a peer that never stops | `TelnetNegotiation` |
| MCCP, MXP, MSP (`TelnetProcessor.cpp`, `MspProtocol.cpp`) | decompression, tag and mode stacks | parse | - | planned: the hold-back of an incomplete MCCP negotiation |
| Commands and timers (`WorldCommandProcessor.cpp`, `helpers/TimerSchedulingUtils.cpp`) | command queue, next fire times | evaluate, queue, fire | a rule that changes the rules | planned |
| Output buffers (`helpers/*RingBuffer.h`) | ring, base index, projection | append, drop, map | boundaries | planned |
| Sound (`SoundEngine.cpp`, `NativePluginRegistry.cpp`) | mixer thread, channels, caches | play, stop, fade | commands against the mixer | planned last |
| Session restore and final save (`helpers/WorldSession*Utils.cpp`, `AppController.cpp`) | files of scrollback and history | restore, save, close | close against save | planned with the close protocol |
| Lua API, views, dialogs, miniwindows, import, databases, text helpers | - | - | painting, conversion, library calls | not modelled: no control of their own that a checker reaches better than a test; `PROJECT.json` says so for each |

### What makes the modelled parts correct

- A script's deferred changes are applied or deliberately discarded once, older
  batches before newer ones, whoever consumes them.
- Completions begin in the order of their dispatches, one at a time, and the queue
  never stalls on a handshake.
- A dispatch is completed once; a synchronous caller leaves only when the lane no
  longer holds its arguments; neither thread waits for the other for ever.
- A plugin's file never goes back to an older state, an accepted snapshot is
  written in time, a flush means what it says, and exit loses nothing.
- Input is parsed in order and never blocks: a suspended operation is resumed or
  cancelled, nothing of an ended connection enters the next one, and a journal
  waits for exactly what it started.
- What scripts send leaves in the order of its causes and of each script's calls, on
  the connection it was meant for; a disconnect waits for all of it and happens.
- Bytes are handed over in order under the epoch of their connection, none lie
  unseen; START-TLS is given up only when this connection's server refused it or was
  silent, and never awaited for ever.
- While negotiation is suppressed, an option is as the last positive verb left it, and
  suppression ends however much the peer sends.
- One QMud answers; the files it acknowledged are opened once, in order.

## Modules and code

Each component has a module, an `MC` module with its instances and a `Proofs` module;
`TelnetNegotiation` and `WorldSocket` share `ConnectionProofs`.
Definitions called `Mutant` are wrong variants of the definition that follows them;
nothing uses them but the mutation runs.

### MutationJournal, MutationDelivery

`MutationJournal` is the abstract promise: a batch is numbered when it is retained
and leaves with a set of oldest outstanding batches, once.

`MutationDelivery` is the registry that keeps it. `pending` and `backup` are the
registry's map and the handle's own backup, `active`/`phase`/`current`/`queued` the
thread inside `runDeliveryActions` and what is left for it, `recovery` and
`recovered` the progress of `consumeAllForRecovery`. An action is one critical
section of the registry's mutex or one stretch of code outside it: `ReserveId` and
`Insert` (`retainAsyncMutationBackup`), `Consume` with its three kinds
(`consumeForDelivery`, `discard`, `recoverUndelivered`), `RunAction`, `NextAction`,
`EndDelivery` (the loop that runs the queued deliveries), `StartRecovery*`,
`EndWait`, `Recover` (collection at shutdown: with another thread inside, from
within a delivery's consumer, or alone) and `StopLane`. A vector of batches is a
set, since every vector is built by walking an ordered map.

### CompletionOrder, CompletionSequencer

`CompletionOrder` is the abstract promise: a completion begins only when everything
accepted before it is settled, and what became of a result is decided once.

`CompletionSequencer` keeps it, whatever the order of the results and the threads.
`first..last` is the ticket queue. `Reserve`, `Resolve`, `Skip`, `DeliverDirect` are
the callers; `GoIdle`, `DropSkipped`, `DequeueResolved`, `Post`, `ReturnFromPost` the
loop of `deliverNext`; `Execute`, `CompletionEnds`, `Cancel`, `FinishCanceled`,
`RecoverUndelivered`, `FinishAttempt` the posted delivery attempt, on its target's
thread or in the destructor of its last copy. `callReturned` and `finished` are the
two flags of `DeliveryContinuation`; whoever sets the second goes on with the queue.

### WorkerLane

The two threads are stacks, `work` (the lane) and `frames` (the runtime's thread).
`DispatchSync`, `DispatchAsync`, `DispatchRefused`, `DispatchInline` enqueue or
refuse; `PumpBegins`, `PumpStarts`, `PumpEnds` are `processQueuedDispatches`;
`CallBridge`, `ServeBridge`, `ServeForeign`, `HandlerReturns`, `BridgeTimesOut` the
bridge; `Drive`, `ServeDrive`, `DriveEnds`, `DriveExpires` the re-entry drive of
`driveLaneOnceForBridgeReentry`, which the bridge takes in the order they were posted; `CancelDispatch`, `FinishWork`, `SyncReturns` the
completion; `ShutDown`, `CleanUp`, `DeliverFallback` the shutdown. All waits of the
code poll, so no lost wake-up can hide in a missing signal, and signals are not
modelled. Only the runtime's thread dispatches and shuts down, as `WorldRuntime`
does. Left out: cancelling a queued dispatch from another thread, a failing post of
the pump, and the branches for a lane that stopped while a caller waits
(`dispatchBatch`, 630-642 and 676-684), which only a second dispatching thread could meet.
What a caller does with its request in them is therefore not checked.

### PluginStateStore, PluginStatePersistence

`PluginStateStore` is the abstract promise: newer and newer snapshots of a file are
accepted, a write that ends holds the last one tried, and a wait ends when the newest
snapshot of each awaited file has been tried.

`PluginStatePersistence` is the service that keeps it. A snapshot is its revision. `Reserve`, `Submit`, `Abandon` are a save around its
callback (`preparePluginStateSave`), which other saves may overtake; `Flush`,
`FlushReturns`, `Destroy`, `Stop`, `Join` the blocking calls; `StartWrite`,
`EndWrite`, `Sleep`, `WakeUp`, `TimedWakeUp`, `End` the worker of `run()`. Time is a
tick counter, the rate limit `Interval` ticks. `credit` is a history variable: how
often a file was forced less the writes that started before their minute.

### InputOrder, RawIngress

`InputOrder` is the abstract promise: payloads are processed one at a time in the order of
their arrival, those of a connection that ends are given up, none of them is completed
after it, and nothing else is lost.

`RawIngress` is how it is kept. The runtime's thread is a stack over the event loop: `drain`, `process`, `parse`,
`completed` (the completion callback of an operation, which may release a playback
and drains) and `apply` (a segment of a playback). `Receive`, `SimulateDirect`,
`MutateSimulate` end in `enqueueRawIngress`; `Dequeue`, `DrainEnds`, `DrainEvent`,
`AskPlugins`, `BeginParsing`, `AwaitCallback`, `Parsed`, `CompletedDrains` are the
drain, the parse and its suspension; `Resolve` and `Resume` the continuation ticket;
`StartPlayback`, `MutatePlain`, `SegmentEnds` the playback; `Disconnect` and
`MutateDisconnect` the end of a connection. `LaneMayRun` is where the callback lane
runs: at the event loop, or nested in a parser or mutation whose synchronous
callback waits. A connection's cancellation state is its generation number. Bytes that are
replayed after a reload are queued like received ones, for the connection they belong to.
A batch whose connection has ended when its playback starts is cancelled at once, with the
playbacks that wait for it. `parsed` is a history variable: what was completed, in order.
Left out: the next batch of a `LuaDeferredRuntimeMutationBatchSequence` (`WorldRuntime.cpp`
3855-3878), which may start under a completed frame or a drain, and the refusal of input
while `m_incomingSocketDataPaused` is set (8148), which is a reload's.

### CausalOutbound

An `op` is a callback with its scope and playback (or bare: the input line, which has no
scope and so no generation: its queued command may go out on the next connection), a `tx`
one send. `Begin` and `End` are a scope's life; `Send` is `doSendMsg` with its branches
(`Refuse`, `Postpone`, `AwaitDecision`, `DoSend`), `SendRaw` a `SendPkt`; `Stage` and
`Transmit` are `stageCausalOutboundTransmission`, which joins the group of the scope,
playback or flush, or makes one. `StartFlush`, `FlushWrite`, `FlushPop`,
`FlushReturns`, `FlushFinishes`, `FlushGoesOn` are the two flush functions, in steps
because a write may end the connection (`TelnetFails`) under them.
`NotificationCompletes`, `InlineEnds`, `NotificationEnds`, `Decide`, `DrainSend` are the
command processor's side, `PublishRecord` and `PublicationCompletes` the packet-debug
records that hold back a close, `Disconnect`, `SocketDrains`, `RemoteClose`, `Connect`
and `ConnectionEnds` the connection.

Abstractions: a segment is one sequence in the order it is flushed in (a priority command
goes in front). Left out: the retains by which the command processor keeps a trigger's
group open, packet-debug handlers that run synchronously inside the drain, sends by the
`OnPluginSend` handler itself, the replaying of queued sends as plugin mutations
(`WorldCommandProcessor.cpp` 6539-6544, 6769-6782), a refusal by a synchronous
`OnPluginSend`, which returns without draining the sends behind it (6622-6630), and the
spam filler. A record unblocked by a remote close
is published at once. Sends inside a synchronous `OnPluginSent` are ignored by the code,
and by the model.

### TelnetNegotiation

`Peer` is any verb for any option at any time, as `handleWill/Wont/Do/Dont` and the guard
before them treat it (`Drop` while suppressed); a bucket is what the protection keeps of
an option and direction. `ChangeSetting`, `ChangeProtection`, `ChangeOnce`, `Restore`,
`ResetConnection` are the calls of the runtime, `Tick` the clock. Time stamps are ages, capped
where the code stops telling them apart. `last` is a history variable: the verb
answered last and the outcome. Left out: START-TLS (in `WorldSocket`), decompression, MXP
modes, and handlers that change a setting inside their own callback. The rule that
COMPRESS is refused once COMPRESS2 is known is in the model and its proofs, but not in the
TLC instance.

### WorldSocket

`inbound`, `draining` and `posted` are the socket's buffer, flag and queued drains,
`depth` the drains on the stack whose handler has not returned: while one runs, any
event may be nested in it. `Receive` is `onReadyRead`; `StartDrain`, `NextChunk`,
`DrainEnds`, `QueuedDrain` are `drainPendingReads`, whose budget may run out after any
chunk. `Connect`, `Connected`, `ConnectedInVain`, `Disconnect`, `DeferredDisconnect`,
`Disconnected`, `Adopt` are the runtime's calls and the handlers of the socket's signals;
where closing emits `disconnected()` synchronously, `LineEnds` is part of the action.
`Process` is the part of the parser that acts on START-TLS, `TimerFires` a fallback
timer, which cannot be stopped and so stays in `timers` with its generation, `Encrypted`
the end of the handshake. `arrived`, `home`, `handed`, `grounds` are history. Left out:
proxies, certificates, `closeSocketForReloadReconnect`, the pause of input in a reload.

### SingleInstance

A process goes through `Launch`, `TryLock`, `Connect`, `Write`, `Forwarded` (or
`SendFails`), or `Removes`/`Listen` (`ListenFails`), as `startServerOrForward` does; as an
instance it does `Take` (the receiver and its acknowledgement), `Handle`, and `Dispatch`
in three stages, since `enableFileAssociationDispatch` opens dialogs in which more
requests arrive. `Reload` replaces an image by one that takes the endpoint over without a
probe. `Crash`, `Hangs`, `LockTimesOut` are what the operating system and the deadlines may
do at any point. The end of a server is two steps, as in Qt's Unix `QLocalServer` (the
source of the step is outside the repository): `Exit` closes the socket that listens,
`Unlink` removes whatever file is at the path by then, without the start-up lock.
`contested` remembers that a takeover or an `Unlink` met another instance (*Other
disagreements*), the two things that end `OneInstance`. Left out: requests without a file, processes that allow
several instances, invalid frames, and QLockFile's 30 s limit for a holder that lives.

## What the runs show

| run | question | bounds | distinct states |
|---|---|---|---|
| `mutation_delivery` | does the registry implement the journal, so that no batch is lost, duplicated or overtaken; does a shutdown settle everything | 2 threads, 4 batches | 14 853 |
| `completion_sequencer` | does the sequencer implement the order; one driver, every resolved ticket delivered | 4 tickets | 41 781 |
| `worker_lane` | pump handshake, single completion, no orphan, quiet end, termination of waits and shutdown | 2 dispatches, 2 bridge calls each, 2 foreign handlers, 1 expired drive | 50 378 |
| `lane_nested_expiry` | *violation*: does a caller return when a drive times out below another | 3 dispatches, 1 bridge call each, 1 foreign handler, 1 expiry | finding 1 |
| `plugin_state` | does the writer implement the store; meaning of a flush, rate limit; is everything accepted or forced written; do flush and destructor return | 2 files, interval 1, 3 revisions, 2 ticks, 1 failure, 1 flush | 191 870 |
| `ingress` | does the ingress implement the input order; drainers, ended connections, retain counts, with nesting; does input end and does a journal end as long as no continuation is dropped | 3 payloads, 2 connections, 2 playbacks of 1 mutation, lane steps under up to 5 frames | 642 124 |
| `ingress_bound_script` | *violation*: is a suspended operation always resumed | 2 payloads, 2 connections, 2 playbacks of 2 mutations, lane steps at the event loop only | finding 2 |
| `outbound` | order of causes, order of calls, own connection, a close after the flush, nothing ready left waiting | 2 overlapping callbacks and the input line, 2 commands (1 priority), 1 raw packet, 2 connections, symmetry over the callbacks | 1 393 956 |
| `outbound_progress` | does a disconnect end, does every command settle, but for the slot circle | 2 overlapping callbacks, 2 commands, 1 raw packet, packet debugging observed, 1 connection | 631 258 |
| `telnet_negotiation` | is what is suppressed settled, what is answered beyond the limit, is a peer heard again | ECHO and NAWS, limit 2, window 2, suppression 2 | 176 532 |
| `world_socket` | order and epoch of what is handed over, nothing left in the buffer, START-TLS given up with cause and not awaited for ever | 2 connections of 3 chunks, drains 2 deep | 381 127 |
| `single_instance` | one instance but for a takeover or an unlink that meets another, files opened once and in order, and at all | 3 processes, 1 reload | 310 145 |

The two violations are code paths the modules keep; `OperationsEnd` and `PlaybacksSettle`
of `ingress` are stated under `[]CompletionArrives`, the property finding 2 violates.

### Why the bounds are enough

- Four batches: one delivering, one queued behind it, one pending between them and
  one that arrives later; a second thread is all that competition needs, since one
  delivers and everyone else queues.
- Four tickets: one under way, one resolved behind one that is not, one to skip.
- Two dispatches with two bridge calls: a dispatch driven inside the other's handler, whose
  own handler is below it, and a second wait after the first; a foreign handler gives the
  runtime's thread a frame that is not the lane's. One drive that expires. The deepest
  pattern, three nested dispatches, is that of `lane_nested_expiry`.
- Three revisions: one being written, one pending, one that arrives late; with an interval
  of one tick the clock passes an interval's start. One failure is enough to lose the
  written state of a flush or a drain.
- Three payloads: a processed one and two behind it, so that there is an order to keep. Two
  playbacks: one that simulates and one nested in it or in the parser. One mutation each: a
  playback may still be retained twice, by what it simulated and by what is nested in it.
  Two generations: the old connection and the new. Five frames hold a drain, its parse
  frame, and an apply with a nested parse. `MaxFrames = 0` turns nesting off.
- Two callbacks and a connection more than one: a group held open, a complete one behind
  it, and a callback that outlives its connection; the input line is the sender without a
  scope. A priority command, a plain one and a
  raw packet are the three ways into a segment.
- An option whose refusals matter and one in the other direction; a limit of 2 so that the
  first verb does not reach it. The counts and times of the code are constants of the
  module, and the proofs hold for all of them.
- Two connections: every hazard of the socket is about an earlier and a later one. Three
  chunks: one in a handler, one for the loop to go on with, one that is received meanwhile.
- Three processes: an instance, one that probes it, and one that waits for the lock; or one
  that exits, one that listens before it unlinks, and one that then finds nobody.

The safety properties of the runs that pass are also proved for all values of these
constants; `ClosesAfterFlush` as far as it is true (*Other disagreements*).

### Fairness

- `MutationDelivery`: a thread inside `runDeliveryActions` or in recovery goes on.
  Nobody has to consume a result or to shut down.
- `CompletionSequencer`: the loop, the posting call and a posted attempt go on (the
  bridge runs or cancels what it queued). No result has to arrive.
- `WorkerLane`: handlers return, Lua functions end, polling waits poll. Weak
  fairness of either thread; no fairness on dispatching, cancellation, shutdown or a
  drive's expiry.
- `PluginStatePersistence`: worker, waiting caller and clock.
- `CausalOutbound`: the thread goes on with what it has begun, callbacks end, the lane
  answers, the transport takes its buffer. Liveness is checked with overlapping callbacks;
  `SlotCircle`, the deadlock described under *Other disagreements*, is its only exception.
- `TelnetNegotiation`: the clock goes on, and the peer keeps sending.
- `WorldSocket`: handlers return and their drains go on, queued calls and timers come to
  their turn, and the groups a disconnect waits for are flushed (`ClosingEnds` of
  `outbound_progress`). Nothing is asked of the peer, the user or the parser.
- `SingleInstance`: the start-up of an instance goes on. Nobody has to be launched.
- `RawIngress`: the thread runs its frames, the event loop delivers posted events,
  and a continuation is resolved and resumed. `Parsed` is strongly fair: a payload
  is finite and each callback consumes part of it, so the parser cannot suspend for
  ever, while the model's `AwaitCallback` has no count. Nothing obliges input,
  scripts or disconnects.

Deadlock checking is off where everything may be said and done: the components then
wait for callers, the peer or the user (`CompletionSequencer`, `MutationDelivery`,
`RawIngress`, `CausalOutbound`, `WorldSocket`, `SingleInstance`). The lane and
the persistence runs check it, with `Terminated` for the state after destruction.

### Findings

1. `lane_nested_expiry` (`LuaExecutorWorker.cpp:606`). `bridgeDriveFailed` is set when
   one drive times out and never reset during the call. The lane was busy with a
   driven dispatch; it then calls the bridge, its handler is below the caller on the
   runtime's stack, and only another drive would let the lane go on. Caller and lane
   poll for ever, against `LuaExecutorWorker.h:27-28`.
2. `ingress_bound_script` (`WorldRuntime.cpp:4195`). A simulated operation belongs to no
   connection, so a disconnect leaves it active; but its continuation is resumed
   through the playback that simulated it, and a playback cancelled with its
   connection drops the continuation it was given. `m_activeRawIngressOperation` stays
   set and every later payload waits behind it, also after a reconnect. Needed is a
   journal that belongs to a connection and may simulate: the `on_world_save` script
   of a `Save()` inside a trigger. With nesting there is a second way to the same
   state that needs no such journal: a lane step nested in a mutation of a playback
   of the connection resumes the operation, and its next suspension is retained by
   that playback.

### Other disagreements

Met while modelling, not kept as runs:

- Two overlapping callbacks can block all sending (`WorldCommandProcessor.cpp:6523`). The
  first has sent a packet, is suspended by a modal dialog, and keeps its group open; a
  command of the second, in a younger group, occupies the one slot of
  `m_pluginSentNotificationPending`; a command of the first then waits for the slot, the
  slot for the group before it, that group for the first callback's playback, and the
  playback for its command. `SlotCircle` names this state, and `CommandsSettle` and
  `ClosingEnds` say that nothing else stops the sending. TLC reaches it under the constants
  of `outbound_progress` (ask for `[]~SlotCircle`) in 5 steps, and finds that it lasts until
  the connection ends.
- A disconnect deferred to the flush of a group is lost when START-TLS ends meanwhile
  (`WorldRuntime.cpp:12466`, `12221`): `finalizeSocketConnectedState` sets the phase back to
  connected, and `performPendingCausalOutboundSocketDisconnect` (9422) then does nothing. It
  takes a trigger that holds a group open before the world is ready.
- Disconnecting while the socket still connects aborts it without `disconnected()`, so
  `m_connectPhase` stays `eConnectDisconnecting`; a script's `Connect` is then refused
  (`WorldRuntime.cpp:12434`) until the user connects.
- Two deferred disconnects in two groups: the second aborts the graceful close the first
  began (`WorldRuntime.cpp:9256`, `WorldSocket.cpp:269`).
- A packet-debug record of an ended connection can close the next one when that one is
  disconnecting. `invalidateConnectionGeneration` (`WorldRuntime.cpp:9347-9404`) clears
  neither the records nor the publication, and `completeOutgoingPacketDebugRecord` (13128)
  and `performPendingCausalOutboundSocketDisconnect` (9422) look only at `m_connectPhase`.
  The late record then overtakes the disconnect of the new connection, against
  `packetDebugDisconnectWaitsForRemainingCausalOutboundTransmissions`
  (`tst_WorldRuntime_PluginLifecycle.cpp:4693`), which tests it over one connection. The
  proof of `ClosesAfterFlush` stopped here, and TLC finds it violated in 20 steps for
  `PacketDebug`, `Observed` and `Overlap` all `TRUE`, two connections, three callbacks, three
  sends of which one is raw, no input line and no command.
- A loop of refusals after an acceptance is answered for ever
  (`TelnetProcessor.cpp:758`), while `WorldPreferencesDialog.cpp:9202` and
  `TelnetProcessor.h:182` speak of loops being broken. `AwaitsOnlyAnAcceptance` says that
  this is the only such loop.
- WONT NAWS withdraws what the bucket of DO NAWS settled on
  (`TelnetProcessor.cpp:917`); a DO inside that bucket's suppression is then dropped.
- `SingleInstanceIpc.h:106-108` says that the start-up lock is held "so one process cannot
  remove an endpoint that another process has just created". Two processes do, both without
  it. The `QLocalServer` of `Main.cpp:237` of a process that exits closes its socket and
  then unlinks its path: a launch between the two finds a stale endpoint, removes it and
  listens, the unlink removes the new file, and a third launch finds nobody and becomes a
  second instance. And the image of a reload takes the endpoint over without a probe when a
  launch found the old image's endpoint stale in the meantime. `OneInstance` says that
  nothing else leads to two instances; with `Unprobed(p) == takeover[p]` and no reload TLC
  finds the first of the two in 10 steps. What is true of the sentence is a theorem,
  `NoLaunchRemovesAnInstance`: a launch that probed never removes an endpoint in use.

## What is proved

TLAPS proves the following for every number of threads, batches, tickets, dispatches,
calls, files, revisions, failures, payloads, connections, playbacks, frames, sends,
options, limits, processes and reloads, from the named assumptions on the constants only.

| module | theorems | inductive invariant |
|---|---|---|
| `MutationDeliveryProofs` | types, `Conservation`, `HandedOverOnceInOrder`, `NothingLeftBehind`, `RecoveryIsExclusive`, and the refinement of `MutationJournal` | `TypeOK`, `Conservation`, `Control` (which phases of lane, delivery and recovery go together) and `Order` (settled batches are older than held ones, held ones older than pending ones). Order of the log alone is not inductive: it needs to know that what a consumer still holds is newer than the log and older than the map. |
| `CompletionSequencerProofs` | types, `OneDriver`, `NoLostStart`, `StartedInOrder`, `OneCompletionAtATime`, `EndedIsSettled`, and the refinement of `CompletionOrder` | with `QueueShape` (status and post by position in the queue; what left it has an outcome), `DeliveryShape` (the stages of one delivery), `NewestInFlight`. The handshake is a token; the shape of a delivery says which flag combinations exist. |
| `WorkerLaneProofs` | types, `QueueHasPump`, `StartedInOrder`, `SettledOnce`, `NoOrphans`, `QuietAtTheEnd` | `Pump` (flag, posted call and running loop), `Order`, `Stack`, `Books` (a made dispatch is queued, running, in shutdown's hands, or completed once), `Calls` (who waits for the bridge) and `Closing`. `Books` carries the result; the others make it inductive. |
| `PluginStatePersistenceProofs` | types, `FileNeverRegresses`, `FlushSettles`, `EarlyWritesArePaid`, `NothingDropped`, and the refinement of `PluginStateStore` | `Ordered` (disk, completed, in flight, pending, latest in this order), `Paid` (an unused force has its credit) and `Drained`; for the refinement `Asked` (who waits has accepted nothing since). |
| `RawIngressProofs` | types, `QueueHasDrainer`, `EndedConnectionIsLeft`, `NoStalePending`, `RetainsMatch`, and the refinement of `InputOrder` | `Threaded` (the processed operation has one frame or a continuation, never both), `Numbered` and `Drained`, which weakens the drainer to what nests. For the counts, `Fresh`: nothing is held by a playback that has not begun. Each action adds to or takes from one of three sets whose sizes the count is the sum of; the cancellation of a connection's playbacks takes whole trees. For the refinement `Bound`: nothing belongs to a connection to come, and what is to be cancelled is of an ended one. |
| `CausalOutboundProofs` | types, `CausalOrder`, `OwnConnection`, `OwnOrder`, `NoReadyGroupWaits`, `ClosesAfterFlush` for one connection, without packet debugging, or as long as no record is late | `Order` (the queue ascends, the flush writes its head, what was written is no newer than any group in the queue) and `Owned` (what is staged or stands in a group was asked for by a callback of this connection, or by a bare one). A write is then of the oldest group that is left and, but for bare callers, of its own connection. For `OwnOrder` every send has one place: `Holding` (who holds a group open), `Stock` (what stands in a group is staged), `Direct` (what is sent past the groups), `Places` (no send stands twice), `Life` (a callback's state against its sends') and `Ordered` (of one callback, the earlier call stands before the later one, or is written). `Unstranded` adds to `NoReadyGroupWaits` that no send is about to end a flush; `Deferring` (the group that carries a disconnect is the last), `Recorded` and `Shutting` (what each phase of the connection allows a record to close) carry `ClosesAfterFlush`. |
| `ConnectionProofs` | `SettledState`, `AwaitsOnlyAnAcceptance`; of the socket types, `InOrder`, `PlainIsDue` | of the negotiation types, `Unguarded` (no protection, no suppression), `Apart` (suppressed and awaiting exclude each other) and `Governed` (what a setting decides) beside the two; of the socket `SocketShape` (what a phase allows), `InboundNumbered` and `HandedNumbered` (what lies in the buffer continues what was handed over) and `TimerShape` (a current timer is this connection's). |
| `SingleInstanceProofs` | types, `OneInstance`, `LaunchersRemoveStale`, `OpenedOnceInOrder` | `Locked` (who is between lock and listen), `Probed` (a probe that found nobody still finds nobody) and `OneInstance`; `Fresh`, `Held`, `Phases`, `Distinct`, `Once`, `Marked` for the files: a request stands in one queue, and a connection whose request was taken is marked so. |

`Conservation`, `HandedOverOnceInOrder`, `NothingLeftBehind`, `RecoveryIsExclusive`,
`NothingDropped`, `FileNeverRegresses`, `NoStalePending`, `StartedInOrder` of the lane and of the sequencer, `NoLostStart`,
`OneCompletionAtATime` and `EndedIsSettled` are theorems and no longer in a run: TLC checked
them, the proofs replaced it.

Each proof has a lemma per action (or group), a case per conjunct it disturbs, and one
temporal step. `ImplementsJournal` maps `journaled` to every number the lane handed out
and inserted, and the log to itself: `Insert` is `Journal`, `RunAction` and `Recover` are
`Settle`, everything else stutters. `ImplementsOrder` maps `accepted` to every ticket
reserved, and a ticket's result to its outcome once it has been skipped or its delivery has
finished: `Reserve` is `Accept`, the start of a posted completion `Begin`, `Skip` and the end
of an attempt `Settle`, everything else stutters. `ImplementsStore` maps a file's `accepted`,
`tried` and `stored` to `latest`, `completed` and `disk`: `Submit` of what was not overtaken is
`Accept`, `EndWrite` is `Try`, a flush `Wait`, and `FlushReturns` and `Stop` are `GoOn`.
`ImplementsInputOrder` maps `belongs` to the cancellation state of a payload, `waiting` and
`current` to the queue and the processed operation: `Enqueue` is `Arrive`, `Dequeue` is
`Begin`, `Parsed` `Complete` or `GiveUp`, every other cancellation `GiveUp`, `Invalidate`
`EndConnection`; suspension, nesting, drains and playbacks stutter.

`LateRecord`, the hypothesis of `ClosesUnlessLate`, is a state in which a connection is up and
a record is left of a group that carried the disconnect of an earlier one. `CloseWaitsForAll`
needs no such hypothesis: for one connection there is no earlier one, and without packet
debugging there are no records.

Only model-checked: the liveness properties, since the prover has no fairness. The
properties of the two violations are false of the code, so nothing is proved of them.

## Hazards and where they stand

`PROJECT.json` lists them at their lines: the thirty or so of the modelled components
with the properties that would catch them, and those of the components without a module
with the reason. Two assumptions of the models are not checked: a runtime is deleted from
the event loop, never inside a handler of its own lane, where its destructor would wait
for a teardown the lane cannot reach (`WorldRuntime.cpp:7936`), and only the runtime's
thread dispatches to its lane.

## Plan

Done: the modules above. Next, in this order; a module comes with its instances, its proofs
and a place in the tables. Checked properties are kept few: where a composition shows more
than one of its parts did, the part's property stays as a theorem and leaves its run.

1. **Plugin callback lane** (`PluginCallbackLane`): the queue of callback dispatches, the
   one in flight, barriers that run the queue inside their wait
   (`WorldRuntime.cpp:24603`, `24787`), suspended modal dispatches and continuation
   tickets (`24892-25250`), cancellation by connection and by destruction. Properties:
   callbacks start in order except behind a suspended one, each result is applied or
   discarded once, a barrier returns, nothing runs after cancellation except what is
   permitted during destruction. To prove: order and single settlement.
2. **Delivery of asynchronous results** (`AsyncDelivery`), composing `WorkerLane`,
   `CompletionSequencer` and `MutationDelivery`: a result's batch is retained on the lane,
   travels with its completion, is overtaken by synchronous results; batches carry the
   connection that stamps them (`4028-4033`), discarded results drop earlier batches
   (`23308-23317`). Runs: three dispatches, two connections.
3. **Plugin close and save**: `finalizePluginStateForClose` (`7972-8015`) over
   `PluginStatePersistence` as a component, with `RawIngress` for the destruction of a
   runtime, which the module leaves out now.
4. **Reload probe**, **command queue and timers**, **MCCP hold-back**: one small state machine
   each. **Ring buffers** and **tab history** as functions against a reference sequence,
   bounded.
5. **WorldSocket** with `CausalOutbound` and `RawIngress`: one epoch for all three, so that a
   deferred disconnect, a flush and a drain meet in one model.
6. **Sound sessions**, if the rest leaves room.

## Not modelled

Painting, dialogs, file conversion, the Lua API's direct accessors, databases, text to
speech, encodings and text helpers: sequential code whose results a test compares. The
bytes of telnet, MXP and MSP, the XML of plugin state, and the wall clock are abstracted in
every module that touches them. Memory exhaustion is not modelled (the code treats it as
the end of the process nearly everywhere).
