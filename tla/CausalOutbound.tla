--------------------------- MODULE CausalOutbound ---------------------------
(***************************************************************************)
(* What scripts send to the server, in the order of its causes.            *)
(* WorldRuntime gives every callback a scope.  What is sent in a scope is  *)
(* staged in a group; groups stand in a queue and are written one after    *)
(* the other, a group being held open while a scope retains it, except for *)
(* segments that a command has sealed.  WorldCommandProcessor lets one     *)
(* command at a time go from staging to the end of its OnPluginSent        *)
(* notification; the others wait in m_pendingPluginSends.  A disconnect    *)
(* waits for the last group.                                               *)
(*                                                                         *)
(* An op is a callback with its scope and playback, or bare: a caller      *)
(* without scope and so without beginning and end, such as the input line. *)
(* A tx is one send, a command (Send) or a raw packet (SendPkt).  All code *)
(* runs on the runtime's thread: Drainable, Draining and a busy flush are  *)
(* stretches of one call and exclude everything else.                      *)
(***************************************************************************)
EXTENDS Integers, FiniteSets, Sequences

CONSTANTS Op, Bare, Tx, Command, Priority, None,
          MaxEpoch,      \* bound: connections of a behaviour
          MaxCommands,   \* bound: commands of one callback
          Overlap,       \* callbacks run while another one is suspended or has a command under way
          PacketDebug,   \* packet debugging is on
          Observed       \* and a plugin handles OnPluginPacketDebug

ASSUME OutboundAssumption ==
  /\ Bare \subseteq Op /\ Command \subseteq Tx /\ Priority \subseteq Command
  /\ None \notin Op \cup Tx
  /\ MaxEpoch \in Nat \ {0} /\ MaxCommands \in Nat
  /\ Overlap \in BOOLEAN /\ PacketDebug \in BOOLEAN /\ Observed \in BOOLEAN

VARIABLES
  conn,        \* phase of the runtime, state of the socket, generation, write buffer
  op,          \* callbacks: state, generation of their scope, group of their slot
  tx,          \* sends: state, who asked, group
  group,       \* every causal group made so far
  queue,       \* m_causalOutboundGroups
  flush,       \* the stretch of flushReadyCausalOutboundGroups under way
  slot,        \* the command of m_pluginSentNotificationPending
  deciding,    \* the command whose OnPluginSend decision is pending
  pending,     \* m_pendingPluginSends
  settling,    \* the command inside completePluginSentNotification
  inline,      \* the op whose playback that completion has resumed
  records,     \* m_outgoingPacketDebugRecords
  publishing,  \* m_outgoingPacketDebugPublication
  asked,       \* history: sends of live scopes, in the order of the calls
  log          \* history: what was written to the socket

vars == <<conn, op, tx, group, queue, flush, slot, deciding, pending, settling,
          inline, records, publishing, asked, log>>

Segment == [txs : Seq(Tx), sealed : BOOLEAN]
Group   == [retain : Nat, segments : Seq(Segment), note : BOOLEAN,
            closes : BOOLEAN, finished : BOOLEAN, records : Int]
Record  == [tx : Tx, group : Nat]

TypeOK ==
  /\ conn \in [phase : {"connected", "closing", "down"},
               sock : {"open", "draining", "closed"}, epoch : Nat, buffer : Seq(Tx)]
  /\ op \in [Op -> [state : {"idle", "running", "waiting", "cancelled", "ended"},
                    epoch : Nat, group : Nat]]
  /\ tx \in [Tx -> [state : {"new", "pending", "deciding", "staged", "written",
                             "settled", "done", "rejected"},
                    op : Op \cup {None}, group : Nat]]
  /\ group \in Seq(Group)
  /\ queue \in Seq(Nat)
  /\ flush \in [stage : {"idle", "write", "drain", "direct"}, group : Nat]
  /\ slot \in Tx \cup {None} /\ deciding \in Tx \cup {None}
  /\ pending \in Seq(Tx) /\ settling \in Tx \cup {None} /\ inline \in Op \cup {None}
  /\ records \in Seq(Record) /\ publishing \in Record \cup {None}
  /\ asked \in Seq(Tx)
  /\ log \in Seq([tx : Tx, group : Nat, epoch : Nat])

Idle == [stage |-> "idle", group |-> 0]

Init ==
  /\ conn = [phase |-> "connected", sock |-> "open", epoch |-> 1, buffer |-> <<>>]
  /\ op = [o \in Op |-> [state |-> IF o \in Bare THEN "running" ELSE "idle",
                         epoch |-> 0, group |-> 0]]
  /\ tx = [t \in Tx |-> [state |-> "new", op |-> None, group |-> 0]]
  /\ group = <<>> /\ queue = <<>> /\ flush = Idle
  /\ slot = None /\ deciding = None /\ pending = <<>>
  /\ settling = None /\ inline = None
  /\ records = <<>> /\ publishing = None
  /\ asked = <<>> /\ log = <<>>

-----------------------------------------------------------------------------
(* Who may run *)

Unfinished(g) == g # 0 /\ ~group[g].finished

Flushing == flush.stage # "idle"
\* A synchronous OnPluginSent runs inside the write of its command.
Notifying == flush.stage = "write" /\ group[flush.group].note

\* drainOutgoingPacketDebugRecords would publish its first record.
Drainable ==
  /\ records # <<>> /\ publishing = None
  /\ records[1].tx \in Command => tx[records[1].tx].state = "done"
  /\ ~Unfinished(records[1].group)

\* drainPendingPluginSends would take its first send.
Draining == inline = None /\ slot = None /\ deciding = None /\ pending # <<>>

Quiet == ~Drainable /\ ~Draining /\ (Flushing => Notifying)

\* A playback runs until it waits or ends.  While it waits, or while a dialog or a causal
\* callback of its own suspends it, other callbacks may overlap with it.
Running(o) == o \notin Bare /\ op[o].state \in {"running", "cancelled"}
UnderWay(t) == tx[t].state \in {"pending", "deciding", "staged", "written", "settled"}
Alone(o) ==
  \A p \in Op \ (Bare \cup {o}) :
    ~Running(p) /\ \A t \in Command : tx[t].op = p => ~UnderWay(t)

EventLoop == Quiet /\ (Overlap \/ \A p \in Op : ~Running(p))

CanAct(o) ==
  /\ Quiet /\ IF inline # None THEN inline = o ELSE settling = None
  /\ Overlap \/ IF o \in Bare THEN \A p \in Op : ~Running(p) ELSE Alone(o)

\* Mutant: the generation of the scope is not looked at.
ContextRejected_AnyConnection(o) == conn.phase = "closing"

\* currentOutboundContextRejected for the scope of o; a bare caller is of any generation.
ContextRejected(o) == conn.phase = "closing" \/ (o \notin Bare /\ op[o].epoch # conn.epoch)

Live(o) == o \notin Bare /\ op[o].state \in {"running", "waiting"}

-----------------------------------------------------------------------------
(* Groups and the flush *)

NewGroup(n) == [retain |-> n, segments |-> <<>>, note |-> FALSE,
                closes |-> FALSE, finished |-> FALSE, records |-> 0]

\* flushReadyCausalOutboundGroups: may the first group of the queue be written?
Ready(g) == ~g.note /\ (g.retain = 0 \/ (g.segments # <<>> /\ g.segments[1].sealed))

\* Mutant: a group that is complete does not wait for the ones before it.
StartFlush_FirstReady(gs, q) ==
  IF \E i \in 1..Len(q) : Ready(gs[q[i]])
    THEN [stage |-> "write",
          group |-> q[CHOOSE i \in 1..Len(q) : Ready(gs[q[i]]) /\ \A j \in 1..(i - 1) : ~Ready(gs[q[j]])]]
    ELSE Idle

StartFlush(gs, q) ==
  IF q # <<>> /\ Ready(gs[q[1]]) THEN [stage |-> "write", group |-> q[1]] ELSE Idle

Kick(gs, q) == IF Flushing THEN flush ELSE StartFlush(gs, q)

\* Mutant: every command goes to the front, not only one with trigger priority.
Join_CommandFirst(s, t) ==
  IF t \in Command THEN [txs |-> <<t>> \o s.txs, sealed |-> TRUE]
                   ELSE [txs |-> Append(s.txs, t), sealed |-> FALSE]

\* stageCausalOutboundTransmission: a command seals its segment, and goes to the front of
\* it when it has trigger priority.
Join(s, t) ==
  IF t \in Priority THEN [txs |-> <<t>> \o s.txs, sealed |-> TRUE]
                    ELSE [txs |-> Append(s.txs, t), sealed |-> t \in Command]

Stage(g, t) ==
  IF g.segments = <<>> \/ g.segments[Len(g.segments)].sealed
    THEN [g EXCEPT !.segments = Append(@, Join([txs |-> <<>>, sealed |-> FALSE], t))]
    ELSE [g EXCEPT !.segments[Len(g.segments)] = Join(@, t)]

\* releaseCausalOutboundGroup without its flush.
Released(gs, g) ==
  IF g # 0 /\ ~gs[g].finished /\ gs[g].retain > 0
    THEN [gs EXCEPT ![g].retain = @ - 1] ELSE gs

\* currentCausalOutboundGroup for a caller without a group of its own.
AmbientGroup == IF flush.stage = "write" THEN flush.group ELSE 0

-----------------------------------------------------------------------------
(* The end of a connection *)

Resumed(ops, o) == IF ops[o].state = "waiting" THEN [ops EXCEPT ![o].state = "running"] ELSE ops
Stopped(ops, o) == IF ops[o].state = "waiting" THEN [ops EXCEPT ![o].state = "cancelled"] ELSE ops

Staged(t) == tx[t].state = "staged"

\* Mutant: the command that was staged keeps the slot.
ConnectionEnds_KeepsSlot(gs) ==
  /\ conn' = [phase |-> "down", sock |-> "closed", epoch |-> conn.epoch + 1, buffer |-> <<>>]
  /\ group' = [i \in DOMAIN gs |-> [gs[i] EXCEPT !.finished = TRUE, !.segments = <<>>]]
  /\ queue' = <<>> /\ flush' = Idle
  /\ tx' = [t \in Tx |-> IF Staged(t) THEN [tx[t] EXCEPT !.state = "rejected"] ELSE tx[t]]
  /\ op' = IF slot # None /\ Staged(slot) THEN Stopped(op, tx[slot].op) ELSE op
  /\ UNCHANGED slot

\* invalidateConnectionGeneration, in handleSocketDisconnected.
ConnectionEnds(gs) ==
  /\ conn' = [phase |-> "down", sock |-> "closed", epoch |-> conn.epoch + 1, buffer |-> <<>>]
  /\ group' = [i \in DOMAIN gs |-> [gs[i] EXCEPT !.finished = TRUE, !.segments = <<>>]]
  /\ queue' = <<>> /\ flush' = Idle
  /\ tx' = [t \in Tx |-> IF Staged(t) THEN [tx[t] EXCEPT !.state = "rejected"] ELSE tx[t]]
  /\ IF slot # None /\ Staged(slot)
       THEN slot' = None /\ op' = Stopped(op, tx[slot].op)
       ELSE UNCHANGED <<slot, op>>

\* WorldSocket::disconnectFromHost, by way of performPendingCausalOutboundSocketDisconnect
\* or disconnectFromWorld: a connected socket drains its buffer, any other is aborted.
CloseSocket(gs, next) ==
  \/ /\ conn.sock = "open" /\ conn.buffer # <<>>
     /\ conn' = [conn EXCEPT !.phase = "closing", !.sock = "draining"]
     /\ group' = gs /\ flush' = next
     /\ UNCHANGED <<op, tx, queue, slot>>
  \/ /\ conn.sock = "open" => conn.buffer = <<>>
     /\ ConnectionEnds(gs)

RemoteClose ==
  /\ EventLoop /\ conn.sock # "closed"
  /\ ConnectionEnds(group)
  /\ UNCHANGED <<deciding, pending, settling, inline, records, publishing, asked, log>>

\* The write buffer reaches the server; a draining socket closes when it is empty.
SocketDrains ==
  /\ EventLoop /\ conn.sock # "closed" /\ conn.buffer # <<>>
  /\ IF conn.sock = "draining" /\ Len(conn.buffer) = 1
       THEN ConnectionEnds(group)
       ELSE /\ conn' = [conn EXCEPT !.buffer = Tail(@)]
            /\ UNCHANGED <<op, tx, group, queue, flush, slot>>
  /\ UNCHANGED <<deciding, pending, settling, inline, records, publishing, asked, log>>

Connect ==
  /\ EventLoop /\ conn.phase = "down" /\ conn.epoch <= MaxEpoch
  /\ conn' = [conn EXCEPT !.phase = "connected", !.sock = "open"]
  /\ UNCHANGED <<op, tx, group, queue, flush, slot, deciding, pending, settling,
                 inline, records, publishing, asked, log>>

-----------------------------------------------------------------------------
(* Callbacks *)

\* createCausalOutboundScope, inheriting the group of a caller or a group of its own later.
Begin(o) ==
  /\ CanAct(o) /\ inline = None /\ o \notin Bare /\ op[o].state = "idle"
  /\ \E g \in {0} \cup {AmbientGroup} \cup {op[p].group : p \in {q \in Op : Live(q)}} :
       /\ g # 0 => Unfinished(g)
       /\ op' = [op EXCEPT ![o] = [state |-> "running", epoch |-> conn.epoch, group |-> g]]
       /\ group' = IF g = 0 THEN group ELSE [group EXCEPT ![g].retain = @ + 1]
  /\ UNCHANGED <<conn, tx, queue, flush, slot, deciding, pending, settling,
                 inline, records, publishing, asked, log>>

\* finishPluginCallbackDispatchCommand: releaseCausalOutboundScope and the flush it leads to.
End(o) ==
  /\ CanAct(o) /\ o \notin Bare /\ op[o].state \in {"running", "cancelled"}
  /\ op' = [op EXCEPT ![o].state = "ended"]
  /\ LET gs == IF op[o].epoch = conn.epoch THEN Released(group, op[o].group) ELSE group
     IN  /\ group' = gs
         /\ flush' = IF gs = group THEN flush ELSE Kick(gs, queue)
  /\ UNCHANGED <<conn, tx, queue, slot, deciding, pending, settling,
                 inline, records, publishing, asked, log>>

-----------------------------------------------------------------------------
(* Staging *)

\* The group a send of o goes to; 0 means that it is sent at once.  Live scopes hold their
\* group; a continuation that outlived its scope joins the group it knew or the end of the
\* queue, and holds nothing.
OldGroup(o) ==
  IF o \in Bare \/ (Live(o) /\ op[o].group = 0) THEN AmbientGroup
  ELSE IF Live(o) \/ Unfinished(op[o].group) THEN op[o].group ELSE 0

NeedsGroup(o) == OldGroup(o) = 0 /\ (Live(o) \/ (o \notin Bare /\ (Flushing \/ queue # <<>>)))

\* stageCausalOutboundTransmission for a send t of o that is neither rejected nor refused.
Transmit(ops, o, t) ==
  LET new     == NeedsGroup(o)
      g       == IF new THEN Len(group) + 1 ELSE OldGroup(o)
      retains == Live(o) /\ op[o].group = 0
      gs      == IF new THEN Append(group, NewGroup(0)) ELSE group
      held    == IF retains THEN [gs EXCEPT ![g].retain = @ + 1] ELSE gs
      staged  == [held EXCEPT ![g] = Stage(@, t)]
      q       == IF new THEN Append(queue, g) ELSE queue
  IN  /\ tx' = [tx EXCEPT ![t] = [state |-> "staged", op |-> o, group |-> g]]
      /\ IF g = 0
           THEN /\ flush' = [stage |-> "direct", group |-> 0]
                /\ op' = ops
                /\ UNCHANGED <<group, queue>>
           ELSE /\ group' = staged /\ queue' = q
                /\ op' = IF retains THEN [ops EXCEPT ![o].group = g] ELSE ops
                /\ flush' = IF t \in Command \/ (new /\ ~Live(o)) THEN Kick(staged, q) ELSE flush

\* sendRawPacketFromCurrentContext.
SendRaw(o, t) ==
  /\ CanAct(o) /\ op[o].state \in {"running", "ended"}
  /\ t \notin Command /\ tx[t].state = "new"
  /\ IF ContextRejected(o) \/ conn.phase # "connected"
       THEN /\ tx' = [tx EXCEPT ![t] = [@ EXCEPT !.state = "rejected", !.op = o]]
            /\ UNCHANGED <<op, group, queue, flush, asked>>
       ELSE /\ Transmit(op, o, t)
            /\ asked' = IF Live(o) THEN Append(asked, t) ELSE asked
  /\ UNCHANGED <<conn, slot, deciding, pending, settling,
                 inline, records, publishing, log>>

-----------------------------------------------------------------------------
(* Commands *)

\* The playback of a live scope waits for its command.
Waits(o) == IF Live(o) THEN [op EXCEPT ![o].state = "waiting"] ELSE op

\* doSendMsg, for a new command and for one taken from m_pendingPluginSends, by its outcome:
\* refused, put behind another command, asked about on the lane (OnPluginSend), or passed
\* on to startPluginSentNotification.
Refuse(o, t) ==
  /\ tx' = [tx EXCEPT ![t].state = "rejected", ![t].op = o]
  /\ op' = Resumed(op, o)
  /\ UNCHANGED <<group, queue, flush, slot, deciding>>

Postpone(o, t) ==
  /\ slot # None \/ deciding # None
  /\ tx' = [tx EXCEPT ![t].state = "pending", ![t].op = o]
  /\ op' = Waits(o)
  /\ UNCHANGED <<group, queue, flush, slot, deciding>>

AwaitDecision(o, t) ==
  /\ slot = None /\ deciding = None /\ conn.phase = "connected"
  /\ tx' = [tx EXCEPT ![t].state = "deciding", ![t].op = o]
  /\ deciding' = t
  /\ op' = Waits(o)
  /\ UNCHANGED <<group, queue, flush, slot>>

StartSend(o, t) ==
  /\ slot = None /\ conn.phase = "connected"
  /\ slot' = t
  /\ Transmit(Waits(o), o, t)

DoSend(o, t) ==
  \/ ContextRejected(o) /\ Refuse(o, t)
  \/ slot = None /\ deciding = None /\ Refuse(o, t)  \* not connected, or a plugin's answer
  \/ ~ContextRejected(o) /\ (Postpone(o, t) \/ AwaitDecision(o, t))
  \/ ~ContextRejected(o) /\ deciding = None /\ StartSend(o, t) /\ UNCHANGED deciding

CommandsOf(o) == {t \in Command : tx[t].op = o}

Send(o, t) ==
  /\ CanAct(o) /\ ~Notifying /\ op[o].state \in {"running", "ended"}
  /\ t \in Command /\ tx[t].state = "new" /\ Cardinality(CommandsOf(o)) < MaxCommands
  /\ DoSend(o, t)
  /\ asked' = IF Live(o) THEN Append(asked, t) ELSE asked
  /\ pending' = IF tx'[t].state = "pending" THEN Append(pending, t) ELSE pending
  /\ UNCHANGED <<conn, settling, inline, records, publishing, log>>

\* drainPendingPluginSends.  A playback whose send was refused goes on at once.
DrainSend ==
  /\ Draining /\ ~Drainable
  /\ LET t == Head(pending)
         o == tx[t].op
     IN  /\ DoSend(o, t)
         /\ inline' = IF tx'[t].state = "rejected" /\ op[o].state = "waiting" THEN o ELSE None
  /\ pending' = Tail(pending)
  /\ UNCHANGED <<conn, settling, records, publishing, asked, log>>

\* completePluginSendDecision, with the plugins' answer.
Decide ==
  /\ EventLoop /\ settling = None /\ inline = None /\ deciding # None
  /\ deciding' = None
  /\ LET t == deciding
         o == tx[t].op
     IN  \/ /\ ~ContextRejected(o) /\ StartSend(o, t)
            /\ UNCHANGED inline
         \/ /\ tx' = [tx EXCEPT ![t].state = "rejected"]
            /\ op' = Resumed(op, o)
            /\ inline' = IF op[o].state = "waiting" THEN o ELSE None
            /\ UNCHANGED <<group, queue, flush, slot>>
  /\ UNCHANGED <<conn, pending, settling, records, publishing, asked, log>>

\* completePluginSentNotification: the slot is free and the playback goes on, before the
\* sends behind it (DrainSend) and before the group does (NotificationEnds).
NotificationCompletes ==
  /\ EventLoop /\ settling = None /\ inline = None
  /\ slot # None /\ tx[slot].state = "written"
  /\ tx' = [tx EXCEPT ![slot].state = "settled"]
  /\ settling' = slot /\ slot' = None
  /\ LET o == tx[slot].op IN
     /\ op' = Resumed(op, o)
     /\ inline' = IF op[o].state = "waiting" THEN o ELSE None
  /\ UNCHANGED <<conn, group, queue, flush, deciding, pending, records, publishing, asked, log>>

\* The resumed playback has come to its end or to its next wait.
InlineEnds ==
  /\ Quiet /\ inline # None /\ (Overlap \/ ~Running(inline))
  /\ inline' = None
  /\ UNCHANGED <<conn, op, tx, group, queue, flush, slot, deciding, pending, settling,
                 records, publishing, asked, log>>

\* Mutant: the completion of a notification does not flush.
NotificationEnds_Unflushed ==
  /\ Quiet /\ settling # None /\ inline = None
  /\ settling' = None
  /\ tx' = [tx EXCEPT ![settling].state = "done"]
  /\ group' = IF Unfinished(tx[settling].group)
                THEN [group EXCEPT ![tx[settling].group].note = FALSE] ELSE group
  /\ UNCHANGED <<conn, op, queue, flush, slot, deciding, pending, inline, records, publishing,
                 asked, log>>

\* finishOutboundCommandNotification.
NotificationEnds ==
  /\ Quiet /\ settling # None /\ inline = None
  /\ settling' = None
  /\ tx' = [tx EXCEPT ![settling].state = "done"]
  /\ LET g  == tx[settling].group
         gs == IF Unfinished(g) THEN [group EXCEPT ![g].note = FALSE] ELSE group
     IN  /\ group' = gs
         /\ flush' = IF Unfinished(g) THEN Kick(gs, queue) ELSE flush
  /\ UNCHANGED <<conn, op, queue, slot, deciding, pending, inline, records, publishing, asked, log>>

-----------------------------------------------------------------------------
(* Writing *)

\* writeWorldPacket accepts t of group g; gs has t taken out.
Accepted(t, g, gs) ==
  /\ conn.sock = "open"
  /\ conn' = [conn EXCEPT !.buffer = Append(@, t)]
  /\ log' = Append(log, [tx |-> t, group |-> g, epoch |-> conn.epoch])
  /\ tx' = [tx EXCEPT ![t].state = IF t \in Command THEN "written" ELSE "done"]
  /\ group' = IF g = 0 THEN gs
              ELSE [gs EXCEPT ![g].note = t \in Command,
                              ![g].records = IF PacketDebug THEN @ + 1 ELSE @]
  /\ records' = IF PacketDebug THEN Append(records, [tx |-> t, group |-> g]) ELSE records
  /\ UNCHANGED <<op, slot>>

\* The transport does not take it any more.
Failed(t, gs) ==
  /\ conn.sock # "open"
  /\ tx' = [tx EXCEPT ![t].state = "rejected"]
  /\ group' = gs
  /\ IF t \in Command THEN slot' = None /\ op' = Stopped(op, tx[t].op) ELSE UNCHANGED <<slot, op>>
  /\ UNCHANGED <<conn, log, records>>

\* flushTelnetOutput loses protocol bytes that come first, and gives the connection up.
TelnetFails ==
  /\ conn.sock = "open"
  /\ ConnectionEnds(group)
  /\ UNCHANGED <<log, records>>

WriteDirect ==
  /\ flush.stage = "direct"
  /\ \E t \in Tx :
       /\ Staged(t) /\ tx[t].group = 0
       /\ \/ (Accepted(t, 0, group) \/ Failed(t, group)) /\ flush' = Idle /\ UNCHANGED queue
          \/ TelnetFails
  /\ UNCHANGED <<deciding, pending, settling, inline, publishing, asked>>

\* One step of flushCausalOutboundGroup on the first group.
Writing == flush.stage = "write" /\ ~Notifying /\ ~Drainable /\ ~Draining
FirstSegment == group[flush.group].segments[1]
MayWrite == LET g == group[flush.group] IN g.segments # <<>> /\ (g.retain = 0 \/ FirstSegment.sealed)

FlushWrite ==
  /\ Writing /\ MayWrite /\ FirstSegment.txs # <<>>
  /\ LET g  == flush.group
         t  == Head(FirstSegment.txs)
         gs == [group EXCEPT ![g].segments[1].txs = Tail(@)]
     IN  \/ (Accepted(t, g, gs) \/ Failed(t, gs)) /\ UNCHANGED <<flush, queue>>
         \/ TelnetFails
  /\ UNCHANGED <<deciding, pending, settling, inline, publishing, asked>>

FlushPop ==
  /\ Writing /\ MayWrite /\ FirstSegment.txs = <<>>
  /\ group' = [group EXCEPT ![flush.group].segments = Tail(@)]
  /\ UNCHANGED <<conn, op, tx, queue, flush, slot, deciding, pending, settling,
                 inline, records, publishing, asked, log>>

\* The group is still held open, or the notification of its command has been suspended.
FlushReturns ==
  /\ ~Drainable /\ ~Draining /\ settling = None
  /\ \/ Notifying
     \/ Writing /\ ~MayWrite /\ group[flush.group].retain > 0
  /\ flush' = Idle
  /\ UNCHANGED <<conn, op, tx, group, queue, slot, deciding, pending, settling,
                 inline, records, publishing, asked, log>>

FlushFinishes ==
  /\ Writing /\ group[flush.group].segments = <<>> /\ group[flush.group].retain = 0
  /\ group' = [group EXCEPT ![flush.group].finished = TRUE]
  /\ queue' = Tail(queue)
  /\ flush' = [flush EXCEPT !.stage = "drain"]
  /\ UNCHANGED <<conn, op, tx, slot, deciding, pending, settling,
                 inline, records, publishing, asked, log>>

\* flushReadyCausalOutboundGroups after a finished group.
ClosesNow(g) == g.closes /\ g.records = 0 /\ conn.phase = "closing"

FlushGoesOn ==
  /\ flush.stage = "drain" /\ ~Drainable
  /\ IF ClosesNow(group[flush.group])
       THEN CloseSocket(group, Idle)
       ELSE /\ flush' = StartFlush(group, queue)
            /\ UNCHANGED <<conn, op, tx, group, queue, slot>>
  /\ UNCHANGED <<deciding, pending, settling, inline, records, publishing, asked, log>>

\* Mutant: the first group of the queue closes the socket.
Disconnect_AfterTheFirst ==
  /\ Quiet /\ conn.phase = "connected"
  /\ IF queue # <<>>
       THEN /\ group' = [group EXCEPT ![Head(queue)].closes = TRUE]
            /\ conn' = [conn EXCEPT !.phase = "closing"]
            /\ UNCHANGED <<op, tx, queue, flush, slot>>
       ELSE CloseSocket(group, flush)
  /\ UNCHANGED <<deciding, pending, settling, inline, records, publishing, asked, log>>

\* disconnectFromWorld: the last group of the queue closes the socket.
Disconnect ==
  /\ Quiet /\ conn.phase = "connected"
  /\ IF queue # <<>>
       THEN /\ group' = [group EXCEPT ![queue[Len(queue)]].closes = TRUE]
            /\ conn' = [conn EXCEPT !.phase = "closing"]
            /\ UNCHANGED <<op, tx, queue, flush, slot>>
       ELSE CloseSocket(group, flush)
  /\ UNCHANGED <<deciding, pending, settling, inline, records, publishing, asked, log>>

-----------------------------------------------------------------------------
(* Packet debugging *)

\* Mutant: a record that completes does not look for a deferred disconnect.
Published_Silently(r) ==
  /\ group' = IF r.group = 0 THEN group ELSE [group EXCEPT ![r.group].records = @ - 1]
  /\ UNCHANGED <<conn, op, tx, queue, flush, slot>>

\* completeOutgoingPacketDebugRecord.
Published(r) ==
  LET gs == IF r.group = 0 THEN group ELSE [group EXCEPT ![r.group].records = @ - 1]
  IN  IF r.group # 0 /\ gs[r.group].finished /\ ClosesNow(gs[r.group])
        THEN CloseSocket(gs, flush)
        ELSE /\ group' = gs
             /\ UNCHANGED <<conn, op, tx, queue, flush, slot>>

PublishRecord ==
  /\ Drainable
  /\ records' = Tail(records)
  /\ \/ /\ Published(Head(records)) /\ UNCHANGED publishing
     \/ /\ Observed /\ publishing' = Head(records)
        /\ UNCHANGED <<conn, op, tx, group, queue, flush, slot>>
  /\ UNCHANGED <<deciding, pending, settling, inline, asked, log>>

PublicationCompletes ==
  /\ EventLoop /\ publishing # None
  /\ publishing' = None
  /\ Published(publishing)
  /\ UNCHANGED <<deciding, pending, settling, inline, records, asked, log>>

-----------------------------------------------------------------------------

Working ==
  \/ DrainSend \/ NotificationCompletes \/ InlineEnds \/ NotificationEnds \/ Decide
  \/ WriteDirect \/ FlushWrite \/ FlushPop \/ FlushReturns \/ FlushFinishes \/ FlushGoesOn
  \/ PublishRecord \/ PublicationCompletes

Next ==
  \/ Working
  \/ RemoteClose \/ SocketDrains \/ Connect \/ Disconnect
  \/ \E o \in Op : Begin(o) \/ End(o) \/ \E t \in Tx : SendRaw(o, t) \/ Send(o, t)

Spec == Init /\ [][Next]_vars

\* The thread goes on with what it has begun, callbacks end, the lane answers, and the
\* transport takes what is in the buffer.
Fairness ==
  /\ WF_vars(Working) /\ WF_vars(SocketDrains)
  /\ \A o \in Op : WF_vars(End(o))

FairSpec == Spec /\ Fairness

-----------------------------------------------------------------------------
(* Properties *)

(* Groups go out in the order in which they were made, whole: no write of  *)
(* a connection belongs to an older group than the write before it, though *)
(* older groups are held open over suspended callbacks and notifications   *)
(* while younger ones are complete.                                        *)
CausalOrder ==
  \A i, j \in 1..Len(log) :
    (i < j /\ log[i].group # 0 /\ log[j].group # 0) => log[i].group <= log[j].group

(* What one callback sends arrives in the order of its calls, through      *)
(* decisions, the pending queue, segments and direct writes; only a        *)
(* trigger-priority command may go before raw packets of its segment.      *)
OwnOrder ==
  \A i, j \in 1..Len(log) :
    i < j => ~\E k, l \in 1..Len(asked) :
      /\ k < l /\ asked[k] = log[j].tx /\ asked[l] = log[i].tx
      /\ tx[asked[k]].op = tx[asked[l]].op
      /\ ~(asked[l] \in Priority /\ asked[k] \notin Command)

(* A callback of an ended connection writes nothing to a later one: every  *)
(* write of a scope is on the connection that the scope belongs to.  (A    *)
(* bare caller has no scope, and what it has queued may go out later.)     *)
OwnConnection ==
  \A i \in 1..Len(log) :
    LET o == tx[log[i].tx].op IN o \in Bare \/ log[i].epoch = op[o].epoch

(* A graceful close begins only when everything staged before it has been  *)
(* written, or refused.  (With PacketDebug it may be that of the next      *)
(* connection: a record of the ended one performs its disconnect.)         *)
ClosesAfterFlush ==
  conn.sock = "draining" => \A t \in Tx : ~Staged(t)

(* A group that may be written does not wait for another event: whenever   *)
(* no flush is under way, the first group of the queue is held open or has *)
(* a notification to come.  (A direct write is no flush of the queue.)     *)
NoReadyGroupWaits ==
  flush.stage \in {"idle", "direct"} /\ queue # <<>> => ~Ready(group[queue[1]])

(* The one way in which sending comes to a stop: the command of the slot   *)
(* is staged behind a group that a suspended callback holds open, and that *)
(* callback waits for a command of its own, which waits for the slot.      *)
SlotCircle ==
  /\ slot # None /\ Staged(slot) /\ queue # <<>> /\ tx[slot].group # queue[1]
  /\ \E o \in Op, t \in Command :
       /\ Live(o) /\ op[o].state = "waiting" /\ op[o].group = queue[1]
       /\ tx[t].state = "pending" /\ tx[t].op = o

(* A command that was taken is sent and its notification completed, or it  *)
(* is rejected, whatever overlaps, fails or disconnects: but for the       *)
(* circle.                                                                 *)
CommandsSettle ==
  \A t \in Tx : tx[t].state \in {"pending", "deciding", "staged", "written"}
                  ~> (tx[t].state \in {"done", "rejected"} \/ SlotCircle)

(* A disconnect that waits for the flush of its group and for the records  *)
(* of it ends, but for the circle.                                         *)
ClosingEnds == conn.phase = "closing" ~> (conn.phase = "down" \/ SlotCircle)
=============================================================================
