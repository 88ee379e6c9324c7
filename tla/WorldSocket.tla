----------------------------- MODULE WorldSocket -----------------------------
(***************************************************************************)
(* The connection of a world: WorldSocket, which hands over what it        *)
(* receives in drains of a limited length, and the part of WorldRuntime    *)
(* that follows its signals: connection epochs, START-TLS with its         *)
(* fallback to a plain session, and when the world counts as connected.    *)
(*                                                                         *)
(* Whatever is handed over may open a dialog: while a handler runs, any    *)
(* other event may be nested in it, further drains included.  A chunk is   *)
(* known by its connection and number; its kind says what the server tells *)
(* about START-TLS in it.  An offer is over once the connection is          *)
(* encrypted; renegotiating it then changes nothing that is kept here.      *)
(***************************************************************************)
EXTENDS Naturals, Sequences

CONSTANTS MaxLines,      \* bound: connections of a behaviour
          MaxChunks,     \* bound: chunks received on a connection
          MaxDepth       \* bound: drains nested in each other's handlers

ASSUME SocketAssumption == MaxLines \in Nat /\ MaxChunks \in Nat /\ MaxDepth \in Nat \ {0}

VARIABLES
    sock,      \* state of the QTcpSocket
    tls,       \* and of its encryption
    inbound,   \* m_pendingInbound
    draining,  \* m_drainingNow
    depth,     \* drains whose handler has not returned
    posted,    \* queued calls of drainPendingReads
    phase,     \* m_connectPhase
    ready,     \* m_socketReadyForWorld
    mode,      \* m_tlsEncryptionEnabled, m_tlsMethod
    offered,   \* m_startTlsEnabled of the telnet processor
    upgrading, \* m_startTlsUpgradeInProgress
    timers,    \* fallback timers: their connection, whether their generation is current
    epoch,     \* m_connectionEpoch
    ingress,   \* chunks handed over that have not been parsed
    line,      \* connections so far
    arrived,   \* history: chunks received on each
    home,      \* history: the epoch each began with
    handed,    \* history: chunks handed over, with the epoch that stamped them
    grounds    \* history: why this connection may go on in the clear

socketVars  == <<sock, tls>>
drainVars   == <<inbound, draining, depth, posted>>
tlsVars     == <<mode, offered, upgrading, timers>>
worldVars   == <<phase, ready, epoch, ingress>>
historyVars == <<line, arrived, home, handed, grounds>>
connectionVars == <<socketVars, drainVars, tlsVars, worldVars, historyVars>>

Lines == 1..MaxLines
Kinds == {"text", "deny", "accept"}
Chunk == [line : Lines, n : 1..MaxChunks, kind : Kinds]

SocketInit ==
    /\ sock = "none" /\ tls = "plain"
    /\ inbound = <<>> /\ draining = FALSE /\ depth = 0 /\ posted = 0
    /\ phase = "down" /\ ready = FALSE
    /\ mode = "plain" /\ offered = FALSE /\ upgrading = FALSE /\ timers = {}
    /\ epoch = 0 /\ ingress = <<>>
    /\ line = 0 /\ arrived = [l \in Lines |-> 0] /\ home = [l \in Lines |-> 0]
    /\ handed = <<>> /\ grounds = "none"

-----------------------------------------------------------------------------
(* What a step is put together from *)

\* cancelStartTlsFallbackTimer: the timers run on, of a generation that is over.
Cancelled == {[t EXCEPT !.current = FALSE] : t \in timers}

\* Mutant: the generation is taken before the timers of earlier ones are cancelled.
Armed_Stale == Cancelled \cup {[line |-> line, current |-> FALSE]}

\* startStartTlsFallbackTimer.
Armed == Cancelled \cup {[line |-> line, current |-> TRUE]}

\* Mutant: a disconnect leaves the bytes that were received.
SocketEnds_KeepsInput ==
    /\ sock' = "none" /\ tls' = "plain"
    /\ draining' = FALSE /\ UNCHANGED inbound

\* onDisconnected, in the middle of a drain where its handler disconnects.
SocketEnds ==
    /\ sock' = "none" /\ tls' = "plain"
    /\ draining' = FALSE /\ inbound' = <<>>

\* handleSocketDisconnected, in epoch e.
WorldEnds(e) ==
    /\ epoch' = e + 1 /\ ingress' = <<>>
    /\ phase' = "down" /\ ready' = FALSE
    /\ timers' = Cancelled /\ upgrading' = FALSE

\* disconnected() is emitted, inside the call that closes the socket where there is one.
LineEnds(e) == SocketEnds /\ WorldEnds(e) /\ UNCHANGED <<depth, posted, mode>>

\* finalizeSocketConnectedState, with the timers ts, the encryption t and the chunks q that
\* its caller leaves.  Its negotiation may fail to be sent, which aborts the connection.
Finalize(ts, t, q) ==
    \/ /\ phase' = (IF ready THEN phase ELSE "up") /\ ready' = TRUE
       /\ timers' = ts /\ upgrading' = FALSE /\ tls' = t /\ ingress' = q
       /\ UNCHANGED <<sock, drainVars, mode, epoch>>
    \/ ~ready /\ LineEnds(epoch)

\* flushTelnetOutput would send or has nothing to send.
OutputReady == ~(phase = "closing" /\ sock = "closing")

-----------------------------------------------------------------------------
(* The drain *)

\* rawDataReceived with the head of q, which the runtime stamps and enqueues.
HandOver(q) ==
    /\ inbound' = Tail(q)
    /\ handed' = Append(handed, [line |-> Head(q).line, n |-> Head(q).n, epoch |-> epoch])
    /\ ingress' = Append(ingress, Head(q))

\* drainPendingReads finds q and enters the handler of its first chunk.
StartDrain(q) ==
    /\ depth < MaxDepth
    /\ draining' = TRUE /\ depth' = depth + 1
    /\ HandOver(q)

\* onReadyRead.  What arrives during a handshake belongs to it.
Receive(kind) ==
    /\ sock = "open" /\ tls # "handshake" /\ arrived[line] < MaxChunks
    /\ arrived' = [arrived EXCEPT ![line] = @ + 1]
    /\ LET q == Append(inbound, [line |-> line, n |-> arrived[line] + 1, kind |-> kind])
       IN  IF draining
             THEN inbound' = q /\ UNCHANGED <<draining, depth, handed, ingress>>
             ELSE StartDrain(q)
    /\ UNCHANGED <<socketVars, posted, tlsVars, phase, ready, epoch, line, home, grounds>>

\* A queued drainPendingReads.
QueuedDrain ==
    /\ posted > 0 /\ posted' = posted - 1
    /\ IF draining \/ inbound = <<>>
         THEN UNCHANGED <<inbound, draining, depth, handed, ingress>>
         ELSE StartDrain(inbound)
    /\ UNCHANGED <<socketVars, tlsVars, phase, ready, epoch, line, arrived, home, grounds>>

\* The handler of the innermost drain returns, and the drain goes on to the next chunk.
NextChunk ==
    /\ depth > 0 /\ inbound # <<>>
    /\ HandOver(inbound)
    /\ UNCHANGED <<socketVars, draining, depth, posted, tlsVars, phase, ready, epoch,
                   line, arrived, home, grounds>>

\* Mutant: a drain that has used up its budget leaves the rest to the next readyRead.
DrainEnds_Unposted ==
    /\ depth > 0
    /\ draining' = FALSE /\ depth' = depth - 1
    /\ UNCHANGED <<socketVars, inbound, posted, tlsVars, worldVars, historyVars>>

\* It returns to a drain that has nothing left, or has used up its chunks or its time.
DrainEnds ==
    /\ depth > 0
    /\ draining' = FALSE /\ depth' = depth - 1
    /\ posted' = IF inbound # <<>> THEN posted + 1 ELSE posted
    /\ UNCHANGED <<socketVars, inbound, tlsVars, worldVars, historyVars>>

-----------------------------------------------------------------------------
(* Connecting and disconnecting *)

\* connectToWorld, which its callers refuse only to a world that is up: connectToHost aborts
\* an earlier connection, whose disconnected() comes in between.
Connect(m) ==
    /\ phase # "up" /\ line < MaxLines
    /\ line' = line + 1
    /\ sock' = "connecting" /\ tls' = "plain"
    /\ IF sock \in {"open", "closing"}
         THEN inbound' = <<>> /\ draining' = FALSE /\ epoch' = epoch + 1 /\ ingress' = <<>>
         ELSE UNCHANGED <<inbound, draining, epoch, ingress>>
    /\ phase' = "connecting" /\ ready' = FALSE
    /\ mode' = m /\ offered' = (m = "start") /\ upgrading' = FALSE
    /\ timers' = Cancelled
    /\ UNCHANGED <<depth, posted, arrived, home, handed, grounds>>

\* The attempt fails; stateChanged leaves a world that is disconnecting as it is.
ConnectFails ==
    /\ sock = "connecting"
    /\ sock' = "none" /\ phase' = (IF phase = "closing" THEN phase ELSE "down")
    /\ UNCHANGED <<tls, drainVars, tlsVars, ready, epoch, ingress, historyVars>>

\* The TCP connection is there: a new epoch, and START-TLS is offered if it is to be used.
Connected ==
    /\ sock = "connecting"
    /\ sock' = "open"
    /\ epoch' = epoch + 1 /\ ingress' = <<>>
    /\ home' = [home EXCEPT ![line] = epoch + 1] /\ grounds' = "none"
    /\ IF mode = "start"
         THEN timers' = Armed /\ UNCHANGED <<phase, ready, tls>>
         ELSE /\ phase' = "up" /\ ready' = TRUE /\ UNCHANGED timers
              /\ tls' = IF mode = "direct" THEN "handshake" ELSE "plain"
    /\ UNCHANGED <<drainVars, mode, offered, upgrading, line, arrived, handed>>

\* What the new connection begins with is not sent in full.
ConnectedInVain ==
    /\ sock = "connecting"
    /\ LineEnds(epoch + 1)
    /\ home' = [home EXCEPT ![line] = epoch + 1] /\ grounds' = "none"
    /\ UNCHANGED <<offered, line, arrived, handed>>

\* adoptConnectedSocketDescriptor: the connection a reload handed over.
Adopt ==
    /\ line = 0 /\ MaxLines > 0 /\ line' = 1
    /\ sock' = "open" /\ phase' = "up" /\ ready' = TRUE
    /\ epoch' = epoch + 1 /\ home' = [home EXCEPT ![1] = epoch + 1]
    /\ UNCHANGED <<tls, drainVars, tlsVars, ingress, arrived, handed, grounds>>

\* WorldSocket::disconnectFromHost: an open socket drains what is still to be written.  One
\* that is not connected yet is aborted and emits nothing.
CloseSocket ==
    \/ /\ sock \in {"open", "connecting"}
       /\ sock' = IF sock = "open" THEN "closing" ELSE "none"
       /\ phase' = "closing" /\ timers' = Cancelled
       /\ UNCHANGED <<tls, drainVars, mode, upgrading, ready, epoch, ingress>>
    \/ sock \in {"open", "closing"} /\ LineEnds(epoch)

\* disconnectFromWorld: where a group of commands is held open, the socket waits for it.
Disconnect ==
    /\ phase \in {"connecting", "up"}
    /\ \/ CloseSocket
       \/ /\ sock = "open"
          /\ phase' = "closing" /\ timers' = Cancelled
          /\ UNCHANGED <<socketVars, drainVars, mode, upgrading, ready, epoch, ingress>>
    /\ UNCHANGED <<offered, historyVars>>

\* performPendingCausalOutboundSocketDisconnect.
DeferredDisconnect ==
    /\ phase = "closing" /\ sock = "open" /\ CloseSocket
    /\ UNCHANGED <<offered, historyVars>>

\* The peer closes, a write or the handshake fails, or a closing socket is through.
Disconnected ==
    /\ sock \in {"open", "closing"} /\ LineEnds(epoch)
    /\ UNCHANGED <<offered, historyVars>>

-----------------------------------------------------------------------------
(* START-TLS *)

\* Mutant: a timer of an earlier connection is taken for this one's.
Due_AnyGeneration(t) == sock = "open" /\ ~ready /\ mode = "start"

\* shouldFallbackToPlainOnStartTlsTimeout.
Due(t) == t.current /\ sock = "open" /\ ~ready /\ mode = "start"

\* A fallback timer of 500 ms fires; its connection may be long gone.
TimerFires(t) ==
    /\ t \in timers
    /\ IF Due(t)
         THEN /\ Finalize(timers \ {t}, tls, ingress)
              /\ offered' = FALSE
              /\ grounds' = IF t.line = line /\ tls = "plain" THEN "silence" ELSE grounds
         ELSE /\ timers' = timers \ {t}
              /\ UNCHANGED <<socketVars, drainVars, mode, offered, upgrading, worldVars, grounds>>
    /\ UNCHANGED <<line, arrived, home, handed>>

\* The head of ingress answers an offer that stands.
Answers(kind) == Head(ingress).kind = kind /\ offered /\ tls # "encrypted" /\ OutputReady

\* WONT or DONT START-TLS, before the session is up: it goes on in the clear.
Denied ==
    /\ Answers("deny") /\ ~ready
    /\ Finalize(Cancelled, tls, Tail(ingress))
    /\ offered' = FALSE /\ grounds' = "denied"
    /\ UNCHANGED <<line, arrived, home, handed>>

\* WILL START-TLS or FOLLOWS: the handshake begins.
Accepted ==
    /\ Answers("accept") /\ ~upgrading
    /\ upgrading' = TRUE /\ timers' = Cancelled /\ tls' = "handshake"
    /\ ingress' = Tail(ingress)
    /\ UNCHANGED <<sock, drainVars, mode, offered, phase, ready, epoch, historyVars>>

\* processRawDataPayload, up to its START-TLS steps.
Process ==
    /\ ingress # <<>>
    /\ \/ Denied
       \/ Accepted
       \/ /\ ~(Answers("deny") /\ ~ready) /\ ~(Answers("accept") /\ ~upgrading)
          /\ ingress' = Tail(ingress)
          /\ UNCHANGED <<socketVars, drainVars, tlsVars, phase, ready, epoch, historyVars>>

\* tlsEncrypted.
Encrypted ==
    /\ sock = "open" /\ tls = "handshake"
    /\ Finalize(Cancelled, "encrypted", ingress)
    /\ UNCHANGED <<offered, historyVars>>

-----------------------------------------------------------------------------
SocketNext ==
    \/ \E kind \in Kinds : Receive(kind)
    \/ QueuedDrain \/ NextChunk \/ DrainEnds
    \/ \E m \in {"plain", "direct", "start"} : Connect(m)
    \/ ConnectFails \/ Connected \/ ConnectedInVain \/ Adopt
    \/ Disconnect \/ DeferredDisconnect \/ Disconnected
    \/ \E t \in timers : TimerFires(t)
    \/ Process \/ Encrypted

SocketSpec == SocketInit /\ [][SocketNext]_connectionVars

\* Handlers return and their drains go on, the event loop comes to its queued calls and
\* timers, and the groups a disconnect waits for are flushed.  Nothing is asked of the peer,
\* of the user, or of the parsing of what was handed over.
FairSocketSpec ==
    /\ SocketSpec
    /\ WF_connectionVars(NextChunk \/ DrainEnds) /\ WF_connectionVars(QueuedDrain)
    /\ WF_connectionVars(\E t \in timers : TimerFires(t))
    /\ WF_connectionVars(DeferredDisconnect)

-----------------------------------------------------------------------------
SocketTypeOK ==
    /\ sock \in {"none", "connecting", "open", "closing"}
    /\ tls \in {"plain", "handshake", "encrypted"}
    /\ inbound \in Seq(Chunk) /\ ingress \in Seq(Chunk)
    /\ draining \in BOOLEAN /\ depth \in 0..MaxDepth /\ posted \in Nat
    /\ phase \in {"down", "connecting", "up", "closing"} /\ ready \in BOOLEAN
    /\ mode \in {"plain", "direct", "start"} /\ offered \in BOOLEAN /\ upgrading \in BOOLEAN
    /\ timers \subseteq [line : Lines, current : BOOLEAN]
    /\ epoch \in Nat /\ line \in 0..MaxLines
    /\ arrived \in [Lines -> 0..MaxChunks] /\ home \in [Lines -> Nat]
    /\ handed \in Seq([line : Lines, n : 1..MaxChunks, epoch : Nat])
    /\ grounds \in {"none", "denied", "silence"}

\* What a connection received is handed over in order, without a gap, and under the epoch of
\* that connection, although drains nest and end under each other's handlers (WorldSocket.cpp,
\* drainPendingReads and onDisconnected; enqueueRawIngress stamps whatever comes).
InOrder ==
    \A i \in DOMAIN handed :
       /\ handed[i].epoch = home[handed[i].line]
       /\ handed[i].n > 1 => i > 1 /\ handed[i - 1] = [handed[i] EXCEPT !.n = @ - 1]
       /\ \A j \in 1..(i - 1) : handed[j] # handed[i]

\* A session of a world that uses START-TLS goes on in the clear only if this connection's
\* server refused it or let its time pass, never for a timer of an earlier connection or
\* after an acceptance (WorldRuntime.cpp, startStartTlsFallbackTimer).
PlainIsDue == ready /\ mode = "start" /\ tls # "encrypted" => grounds \in {"denied", "silence"}

\* Whatever was received is handed over, or dropped with its connection: a drain that has used
\* up its budget comes back (WorldSocket.cpp, drainPendingReads).
ReceivedIsHandedOver == inbound # <<>> ~> inbound = <<>>

\* A connection that waits for an answer to START-TLS does not wait for ever: it is encrypted,
\* goes on in the clear or ends (WorldRuntime.cpp, the connected handler and its timer).
HandshakeSettles ==
    (sock = "open" /\ mode = "start" /\ ~ready) ~> (ready \/ sock # "open" \/ tls # "plain")
=============================================================================
