--------------------------- MODULE WorkerLaneProofs ---------------------------
(***************************************************************************)
(* Proofs about WorkerLane, for any number of dispatches, bridge calls,     *)
(* foreign handlers and expired drives.                                     *)
(*                                                                          *)
(* The account of the dispatches is Books: one that was made is queued, on  *)
(* the lane's stack or in shutdown's hands, and otherwise has been          *)
(* completed exactly once.  It rests on Order (the queue and the started    *)
(* ones form one increasing sequence) and on Stack (the lane's stack holds  *)
(* each dispatch once).  Pump is the handshake about the posted pump, and   *)
(* Calls says who waits for the bridge, which shutdown needs.               *)
(***************************************************************************)
EXTENDS WorkerLane, TLAPS

Elems(s)  == {s[i] : i \in DOMAIN s}
Running   == {work[i].r : i \in DOMAIN work}
Increasing(s) == \A i, j \in DOMAIN s : i < j => s[i] < s[j]
Injective(s)  == \A i, j \in DOMAIN s : s[i] = s[j] => i = j

Pump == /\ pumpsPosted = 1 => ~draining
        /\ queue # <<>> => pumpQueued
        /\ pumpQueued => pumpsPosted = 1 \/ draining
        /\ ~shuttingDown /\ (pumpsPosted = 1 \/ draining) => pumpQueued

Order == /\ StartedInOrder
         /\ Increasing(queue)
         /\ \A i \in DOMAIN started, j \in DOMAIN queue : started[i] < queue[j]
         /\ \A i \in DOMAIN started : started[i] <= sent
         /\ \A j \in DOMAIN queue : queue[j] <= sent

Stack == /\ \A i, j \in DOMAIN work : work[i].r = work[j].r => i = j
         /\ \A i \in DOMAIN work : work[i].r <= sent
         /\ Running \cap Elems(queue) = {}

Books == /\ unserved \cap (Running \cup Elems(queue)) = {}
         /\ \A r \in unserved : r <= sent
         /\ \A r \in Reqs :
              settled[r] = IF r <= sent /\ r \notin Running \cup Elems(queue) \cup unserved
                           THEN 1 ELSE 0
         /\ \A r \in returned : settled[r] = 1

Waiting == {work[i].r : i \in {j \in DOMAIN work : work[j].waits}}
Calls == /\ Injective(calls)
         /\ \A i \in DOMAIN calls : calls[i] \in Waiting
         /\ \A i \in DOMAIN frames :
              frames[i].k = "handler" /\ frames[i].r # Foreign =>
                /\ frames[i].r \in Waiting
                /\ frames[i].r \notin Elems(calls)
                /\ \A j \in DOMAIN frames : frames[j] = frames[i] => j = i

Closing == /\ ~shuttingDown => unserved = {} /\ cleanup = "none"
           /\ shuttingDown => queue = <<>> /\ cleanup # "none"
           /\ cleanup = "done" => /\ work = <<>> /\ ~draining /\ pumpsPosted = 0
                                  /\ calls = <<>>

IInv == TypeOK /\ Pump /\ Order /\ Stack /\ Books /\ Calls /\ Closing

-----------------------------------------------------------------------------
(* Sequences used as stacks and queues. *)

LEMMA AppendFacts ==
  ASSUME NEW S, NEW s \in Seq(S), NEW x \in S
  PROVE  /\ Append(s, x) \in Seq(S)
         /\ DOMAIN Append(s, x) = DOMAIN s \cup {Len(s) + 1}
         /\ DOMAIN s = 1..Len(s) /\ Len(s) \in Nat
         /\ \A i \in DOMAIN s : Append(s, x)[i] = s[i]
         /\ Append(s, x)[Len(s) + 1] = x
         /\ Append(s, x) # <<>>
OBVIOUS

LEMMA Numbers ==
  ASSUME NEW s \in Seq(Reqs)
  PROVE  \A i \in DOMAIN s : s[i] \in Reqs /\ s[i] \in Nat
<1>1. \A i \in DOMAIN s : s[i] \in Reqs
  OBVIOUS
<1> QED BY <1>1, LaneAssumption DEF Reqs

LEMMA TailFacts ==
  ASSUME NEW S, NEW s \in Seq(S), s # <<>>
  PROVE  /\ Tail(s) \in Seq(S) /\ Head(s) \in S /\ Head(s) = s[1]
         /\ DOMAIN Tail(s) = 1..(Len(s) - 1)
         /\ DOMAIN s = 1..Len(s) /\ Len(s) \in Nat \ {0}
         /\ \A i \in DOMAIN Tail(s) : i + 1 \in DOMAIN s /\ Tail(s)[i] = s[i + 1]
         /\ \A i \in DOMAIN s : i # 1 => i - 1 \in DOMAIN Tail(s) /\ Tail(s)[i - 1] = s[i]
OBVIOUS

LEMMA PopFacts ==
  ASSUME NEW S, NEW s \in Seq(S), s # <<>>
  PROVE  /\ Pop(s) \in Seq(S) /\ Top(s) \in S
         /\ DOMAIN Pop(s) = 1..(Len(s) - 1)
         /\ DOMAIN s = 1..Len(s) /\ Len(s) \in Nat \ {0}
         /\ \A i \in DOMAIN Pop(s) : i \in DOMAIN s /\ i # Len(s) /\ Pop(s)[i] = s[i]
         /\ \A i \in DOMAIN s : i # Len(s) => i \in DOMAIN Pop(s)
         /\ Top(s) = s[Len(s)] /\ Len(s) \in DOMAIN s
         /\ Len(Pop(s)) = Len(s) - 1
BY DEF Pop, Top

LEMMA ReplaceFacts ==
  ASSUME NEW S, NEW s \in Seq(S), s # <<>>, NEW x \in S
  PROVE  /\ ReplaceTop(s, x) \in Seq(S)
         /\ DOMAIN ReplaceTop(s, x) = DOMAIN s
         /\ \A i \in DOMAIN s : ReplaceTop(s, x)[i] = IF i = Len(s) THEN x ELSE s[i]
<1>1. /\ Pop(s) \in Seq(S) /\ DOMAIN Pop(s) = 1..(Len(s) - 1)
      /\ DOMAIN s = 1..Len(s) /\ Len(s) \in Nat \ {0}
      /\ \A i \in DOMAIN Pop(s) : Pop(s)[i] = s[i]
      /\ Len(Pop(s)) = Len(s) - 1
  BY PopFacts
<1> DEFINE P == Pop(s)
<1> HIDE DEF P
<1>3. /\ Append(P, x) \in Seq(S)
      /\ DOMAIN Append(P, x) = DOMAIN P \cup {Len(P) + 1}
      /\ \A i \in DOMAIN P : Append(P, x)[i] = P[i]
      /\ Append(P, x)[Len(P) + 1] = x
  BY <1>1, AppendFacts DEF P
<1> QED BY <1>1, <1>3 DEF P, ReplaceTop

\* A pushed dispatch, and a popped one.
LEMMA PushRuns ==
  ASSUME work \in Seq(WorkFrames), NEW w \in WorkFrames, work' = Append(work, w)
  PROVE  /\ work' \in Seq(WorkFrames) /\ Running' = Running \cup {w.r}
         /\ Waiting \subseteq Waiting'
         /\ Stack /\ w.r \notin Running => \A i, j \in DOMAIN work' : work'[i].r = work'[j].r => i = j
<1>1. /\ work' \in Seq(WorkFrames)
      /\ DOMAIN work' = DOMAIN work \cup {Len(work) + 1}
      /\ DOMAIN work = 1..Len(work) /\ Len(work) \in Nat
      /\ \A i \in DOMAIN work : work'[i] = work[i]
      /\ work'[Len(work) + 1] = w
  BY AppendFacts
<1>2. Running' = Running \cup {w.r}
  BY <1>1 DEF Running
<1>3. Waiting \subseteq Waiting'
  BY <1>1 DEF Waiting
<1>4. ASSUME Stack, w.r \notin Running, NEW i \in DOMAIN work', NEW j \in DOMAIN work',
             work'[i].r = work'[j].r
      PROVE  i = j
  BY <1>1, <1>4 DEF Stack, Running
<1> QED BY <1>1, <1>2, <1>3, <1>4

LEMMA PopRuns ==
  ASSUME work \in Seq(WorkFrames), work # <<>>, Stack, work' = Pop(work)
  PROVE  /\ work' \in Seq(WorkFrames) /\ Running' = Running \ {Top(work).r}
         /\ Top(work).r \in Running /\ Top(work) \in WorkFrames
         /\ Waiting \ {Top(work).r} \subseteq Waiting'
         /\ \A i, j \in DOMAIN work' : work'[i].r = work'[j].r => i = j
<1>1. /\ work' \in Seq(WorkFrames) /\ Top(work) \in WorkFrames
      /\ DOMAIN work = 1..Len(work) /\ Len(work) \in Nat \ {0}
      /\ \A i \in DOMAIN work' : i \in DOMAIN work /\ i # Len(work) /\ work'[i] = work[i]
      /\ \A i \in DOMAIN work : i # Len(work) => i \in DOMAIN work'
      /\ Top(work) = work[Len(work)] /\ Len(work) \in DOMAIN work
  BY PopFacts
<1>2. Running' = Running \ {Top(work).r}
  <2>1. \A r \in Running' : r \in Running /\ r # Top(work).r
    BY <1>1 DEF Running, Stack
  <2>2. \A r \in Running : r # Top(work).r => r \in Running'
    BY <1>1 DEF Running
  <2> QED BY <2>1, <2>2
<1>3. Waiting \ {Top(work).r} \subseteq Waiting'
  BY <1>1 DEF Waiting
<1>4. \A i, j \in DOMAIN work' : work'[i].r = work'[j].r => i = j
  BY <1>1 DEF Stack
<1> QED BY <1>1, <1>2, <1>3, <1>4 DEF Running

\* The innermost dispatch changes, but remains the same dispatch.
LEMMA TopRuns ==
  ASSUME work \in Seq(WorkFrames), work # <<>>, NEW w \in WorkFrames,
         w.r = Top(work).r, work' = ReplaceTop(work, w)
  PROVE  /\ work' \in Seq(WorkFrames) /\ Running' = Running
         /\ \A i \in DOMAIN work' : i \in DOMAIN work /\ work'[i].r = work[i].r
         /\ Waiting \ {w.r} \subseteq Waiting'
         /\ w.waits => w.r \in Waiting'
<1>1. /\ work' \in Seq(WorkFrames) /\ DOMAIN work' = DOMAIN work
      /\ \A i \in DOMAIN work : work'[i] = IF i = Len(work) THEN w ELSE work[i]
  BY ReplaceFacts
<1>0. Top(work) = work[Len(work)] /\ Len(work) \in DOMAIN work
  BY PopFacts
<1>2. \A i \in DOMAIN work : work'[i].r = work[i].r
  BY <1>0, <1>1
<1>3. Running' = Running
  BY <1>1, <1>2 DEF Running
<1>4. Waiting \ {w.r} \subseteq Waiting'
  BY <1>0, <1>1 DEF Waiting
<1>5. w.waits => w.r \in Waiting'
  BY <1>0, <1>1 DEF Waiting
<1> QED BY <1>1, <1>2, <1>3, <1>4, <1>5

-----------------------------------------------------------------------------
(* The runtime thread's stack and the bridge calls. *)

\* A frame other than a handler of the lane's own calls.
LEMMA PushCalls ==
  ASSUME Calls, frames \in Seq(MainFrames), NEW f \in MainFrames,
         f.k = "handler" => f.r = Foreign,
         frames' = Append(frames, f), UNCHANGED <<calls, work>>
  PROVE  frames' \in Seq(MainFrames) /\ Calls'
<1>1. /\ frames' \in Seq(MainFrames)
      /\ DOMAIN frames' = DOMAIN frames \cup {Len(frames) + 1}
      /\ \A i \in DOMAIN frames : frames'[i] = frames[i]
      /\ frames'[Len(frames) + 1] = f
  BY AppendFacts
<1>2. Waiting' = Waiting
  BY DEF Waiting
<1>3. Elems(calls)' = Elems(calls)
  BY DEF Elems
<1>4. ASSUME NEW i \in DOMAIN frames', frames'[i].k = "handler", frames'[i].r # Foreign
      PROVE  /\ frames'[i].r \in Waiting' /\ frames'[i].r \notin Elems(calls)'
             /\ \A j \in DOMAIN frames' : frames'[j] = frames'[i] => j = i
  <2>1. i \in DOMAIN frames /\ frames'[i] = frames[i]
    BY <1>1, <1>4
  <2> QED BY <1>1, <1>2, <1>3, <1>4, <2>1 DEF Calls
<1> QED BY <1>1, <1>2, <1>4 DEF Calls, Injective

LEMMA PopCalls ==
  ASSUME Calls, frames \in Seq(MainFrames), frames # <<>>,
         frames' = Pop(frames), UNCHANGED <<calls, work>>
  PROVE  frames' \in Seq(MainFrames) /\ Calls'
<1>1. /\ frames' \in Seq(MainFrames)
      /\ \A i \in DOMAIN frames' : i \in DOMAIN frames /\ frames'[i] = frames[i]
  BY PopFacts
<1>2. Waiting' = Waiting
  BY DEF Waiting
<1>3. Elems(calls)' = Elems(calls)
  BY DEF Elems
<1> QED BY <1>1, <1>2, <1>3 DEF Calls, Injective

\* Drives move on, dispatches that wait still wait.
LEMMA KeepCalls ==
  ASSUME Calls, DOMAIN frames' = DOMAIN frames,
         \A i \in DOMAIN frames : /\ frames[i].k = "handler" => frames'[i] = frames[i]
                                  /\ frames'[i].k = frames[i].k,
         UNCHANGED calls, Waiting \subseteq Waiting'
  PROVE  Calls'
<1>1. Elems(calls)' = Elems(calls)
  BY DEF Elems
<1>2. ASSUME NEW i \in DOMAIN frames', frames'[i].k = "handler", frames'[i].r # Foreign
      PROVE  /\ frames'[i].r \in Waiting' /\ frames'[i].r \notin Elems(calls)'
             /\ \A j \in DOMAIN frames' : frames'[j] = frames'[i] => j = i
  <2>1. i \in DOMAIN frames /\ frames[i].k = "handler" /\ frames'[i] = frames[i]
    BY <1>2
  <2>2. frames[i].r \in Waiting /\ frames[i].r \notin Elems(calls)
    BY <1>2, <2>1 DEF Calls
  <2>3. ASSUME NEW j \in DOMAIN frames, frames'[j] = frames'[i] PROVE j = i
    <3>1. frames[j].k = "handler"
      BY <2>1, <2>3
    <3>2. frames[j] = frames[i]
      BY <2>1, <2>3, <3>1
    <3> QED BY <1>2, <2>1, <3>2 DEF Calls
  <2> QED BY <1>1, <2>1, <2>2, <2>3
<1> QED BY <1>1, <1>2 DEF Calls, Injective

LEMMA MoveFacts ==
  ASSUME frames \in Seq(MainFrames), NEW which, NEW to \in {"posted", "running", "done"},
         \A i \in which : i \in DOMAIN frames /\ frames[i].k = "drive", MoveDrive(which, to)
  PROVE  /\ frames' \in Seq(MainFrames) /\ DOMAIN frames' = DOMAIN frames
         /\ \A i \in DOMAIN frames : /\ frames[i].k = "handler" => frames'[i] = frames[i]
                                     /\ frames'[i].k = frames[i].k
<1>1. DOMAIN frames' = DOMAIN frames /\ DOMAIN frames = 1..Len(frames) /\ Len(frames) \in Nat
  BY DEF MoveDrive
<1>2. ASSUME NEW i \in DOMAIN frames
      PROVE  /\ frames'[i] \in MainFrames
             /\ frames[i].k = "handler" => frames'[i] = frames[i]
             /\ frames'[i].k = frames[i].k
  <2>1. frames[i] \in MainFrames
    BY <1>1
  <2>2. CASE frames[i].k = "drive" /\ frames'[i] = [frames[i] EXCEPT !.at = to]
    BY <2>1, <2>2 DEF MainFrames
  <2>3. CASE frames'[i] = frames[i]
    BY <2>1, <2>3
  <2> QED BY <2>2, <2>3 DEF MoveDrive
<1>3. frames' \in Seq(MainFrames)
  <2> DEFINE F(i) == IF i \in which THEN [frames[i] EXCEPT !.at = to] ELSE frames[i]
  <2>1. frames' = [i \in 1..Len(frames) |-> F(i)]
    BY <1>1 DEF MoveDrive
  <2>2. \A i \in 1..Len(frames) : F(i) \in MainFrames
    BY <1>1, <1>2, <2>1
  <2> HIDE DEF F
  <2> QED BY <1>1, <2>1, <2>2
<1> QED BY <1>1, <1>2, <1>3

-----------------------------------------------------------------------------
(* The initial states and the dispatches. *)

LEMMA InitInvariant == Init => IInv
<1> SUFFICES ASSUME Init PROVE IInv
  OBVIOUS
<1>1. /\ Running = {} /\ Elems(queue) = {} /\ Waiting = {} /\ Elems(calls) = {}
      /\ DOMAIN queue = {} /\ DOMAIN started = {} /\ DOMAIN work = {}
      /\ DOMAIN calls = {} /\ DOMAIN frames = {}
      /\ queue \in Seq(Reqs) /\ started \in Seq(Reqs) /\ work \in Seq(WorkFrames)
      /\ calls \in Seq(Reqs) /\ frames \in Seq(MainFrames)
  BY DEF Init, Running, Elems, Waiting
<1>2. TypeOK
  <2>1. 0 \in 0..MaxRequests /\ 0 \in 0..MaxForeign
    BY LaneAssumption
  <2>2. /\ kind \in [Reqs -> {"none", "sync", "async"}]
        /\ outcome \in [Reqs -> {"none", "result", "fallback"}]
        /\ settled \in [Reqs -> Nat] /\ bridgeCalls \in [Reqs -> Nat]
    BY DEF Init
  <2>3. {pumpQueued, draining, shuttingDown} \subseteq BOOLEAN
    BY DEF Init
  <2> QED BY <1>1, <2>1, <2>2, <2>3 DEF Init, TypeOK
<1>3. Pump /\ Closing
  BY DEF Init, Pump, Closing
<1>4. Order /\ Stack /\ Calls
  BY <1>1 DEF Order, Stack, Calls, StartedInOrder, Increasing, Injective
<1>5. Books
  BY <1>1 DEF Init, Books, Reqs
<1> QED BY <1>2, <1>3, <1>4, <1>5 DEF IInv

\* The number of a new dispatch.
LEMMA NewNumber ==
  ASSUME TypeOK, NEW k \in {"sync", "async"}, Send(k)
  PROVE  /\ sent' = sent + 1 /\ sent' \in Reqs /\ sent' \in 0..MaxRequests
         /\ kind' \in [Reqs -> {"none", "sync", "async"}]
BY LaneAssumption DEF TypeOK, Send, Reqs

LEMMA EnqueueInvariant ==
  ASSUME IInv, NEW k \in {"sync", "async"}, ~shuttingDown, Send(k), Enqueue(sent'),
         UNCHANGED <<cancelled, outcome, settled, returned, draining, work, calls,
                     bridgeCalls, started, foreign, driveFailed, shutdownVars>>,
         frames' \in Seq(MainFrames), Calls'
  PROVE  IInv'
<1>1. /\ sent' = sent + 1 /\ sent' \in Reqs /\ sent' \in 0..MaxRequests
      /\ kind' \in [Reqs -> {"none", "sync", "async"}] /\ sent \in Nat
  BY NewNumber DEF IInv, TypeOK
<1>2. /\ queue' \in Seq(Reqs)
      /\ DOMAIN queue' = DOMAIN queue \cup {Len(queue) + 1}
      /\ DOMAIN queue = 1..Len(queue) /\ Len(queue) \in Nat
      /\ \A i \in DOMAIN queue : queue'[i] = queue[i]
      /\ queue'[Len(queue) + 1] = sent' /\ queue' # <<>>
  BY <1>1, AppendFacts DEF Enqueue, Enqueued, IInv, TypeOK
<1>3. UNCHANGED <<shuttingDown, cleanup, unserved>>
  BY DEF shutdownVars
<1>4. Elems(queue)' = Elems(queue) \cup {sent'}
  BY <1>2 DEF Elems
<1>5. Running' = Running
  BY DEF Running
<1>6. sent' \notin Running /\ sent' \notin Elems(queue) /\ sent' \notin unserved
  <2>1. \A r \in Running \cup Elems(queue) \cup unserved : r <= sent /\ r \in Nat
    <3>1. \A i \in DOMAIN work : work[i].r \in Nat /\ work[i].r <= sent
      <4>1. \A i \in DOMAIN work : work[i] \in WorkFrames
        BY DEF IInv, TypeOK
      <4> QED BY <4>1 DEF IInv, Stack, WorkFrames, Reqs
    <3>2. \A i \in DOMAIN queue : queue[i] \in Nat /\ queue[i] <= sent
      BY Numbers DEF IInv, Order, TypeOK
    <3>3. \A r \in unserved : r \in Nat /\ r <= sent
      BY DEF IInv, Books, TypeOK, Reqs
    <3> QED BY <3>1, <3>2, <3>3 DEF Running, Elems
  <2> QED BY <1>1, <2>1
<1>7. /\ pumpQueued' = TRUE
      /\ pumpsPosted' = IF ~pumpQueued THEN pumpsPosted + 1 ELSE pumpsPosted
  BY DEF Enqueue, PumpNeeded
<1>8. pumpsPosted' \in 0..1 /\ Pump'
  <2>1. ~pumpQueued => pumpsPosted = 0 /\ ~draining
    BY DEF IInv, Pump, TypeOK
  <2> QED BY <1>3, <1>7, <2>1 DEF IInv, Pump, TypeOK
<1>9. TypeOK'
  BY <1>1, <1>2, <1>3, <1>7, <1>8 DEF IInv, TypeOK
<1>10. Order'
  <2>1. \A i \in DOMAIN queue : queue[i] \in Nat /\ queue[i] <= sent
    BY Numbers DEF IInv, Order, TypeOK
  <2>2. \A i \in DOMAIN started : started[i] \in Nat /\ started[i] <= sent
    BY Numbers DEF IInv, Order, TypeOK
  <2>3. Increasing(queue)'
    <3>1. ASSUME NEW i \in DOMAIN queue', NEW j \in DOMAIN queue', i < j
          PROVE  queue'[i] < queue'[j]
      <4>1. i \in DOMAIN queue
        BY <1>2, <3>1
      <4>2. CASE j \in DOMAIN queue
        BY <1>2, <3>1, <4>1, <4>2 DEF IInv, Order, Increasing
      <4>3. CASE j = Len(queue) + 1
        BY <1>1, <1>2, <2>1, <4>1, <4>3
      <4> QED BY <1>2, <4>2, <4>3
    <3> QED BY <3>1 DEF Increasing
  <2>4. \A i \in DOMAIN started, j \in DOMAIN queue' : started[i] < queue'[j]
    <3>1. ASSUME NEW i \in DOMAIN started, NEW j \in DOMAIN queue'
          PROVE  started[i] < queue'[j]
      <4>1. CASE j \in DOMAIN queue
        BY <1>2, <4>1 DEF IInv, Order
      <4>2. CASE j = Len(queue) + 1
        BY <1>1, <1>2, <2>2, <4>2
      <4> QED BY <1>2, <4>1, <4>2
    <3> QED BY <3>1
  <2>5. \A i \in DOMAIN started : started[i] <= sent'
    BY <1>1, <2>2
  <2>6. \A j \in DOMAIN queue' : queue'[j] <= sent'
    BY <1>1, <1>2, <2>1
  <2> QED BY <2>3, <2>4, <2>5, <2>6 DEF IInv, Order, StartedInOrder
<1>11. Stack'
  <2>1. \A i \in DOMAIN work : work[i].r \in Nat /\ work[i].r <= sent'
    <3>1. \A i \in DOMAIN work : work[i] \in WorkFrames
      BY DEF IInv, TypeOK
    <3> QED BY <1>1, <3>1 DEF IInv, Stack, WorkFrames, Reqs
  <2> QED BY <1>4, <1>5, <1>6, <2>1 DEF IInv, Stack
<1>12. Books'
  <2>1. unserved' \cap (Running' \cup Elems(queue)') = {}
    BY <1>3, <1>4, <1>5, <1>6 DEF IInv, Books
  <2>2. \A r \in unserved' : r <= sent'
    BY <1>1, <1>3 DEF IInv, Books, TypeOK, Reqs
  <2>3. ASSUME NEW r \in Reqs
        PROVE  settled'[r] = IF r <= sent' /\ r \notin Running' \cup Elems(queue)' \cup unserved'
                             THEN 1 ELSE 0
    <3>1. r <= sent' <=> r <= sent \/ r = sent'
      BY <1>1 DEF Reqs
    <3>2. settled[sent'] = 0
      <4>1. ~(sent' <= sent)
        BY <1>1
      <4> QED BY <1>1, <4>1 DEF IInv, Books
    <3> QED BY <1>3, <1>4, <1>5, <3>1, <3>2 DEF IInv, Books
  <2> QED BY <2>1, <2>2, <2>3 DEF IInv, Books
<1>13. Closing'
  BY <1>3 DEF IInv, Closing
<1> QED BY <1>8, <1>9, <1>10, <1>11, <1>12, <1>13 DEF IInv

LEMMA SyncInvariant == IInv /\ DispatchSync => IInv'
<1> SUFFICES ASSUME IInv, DispatchSync PROVE IInv'
  OBVIOUS
<1>1. Send("sync") /\ sent' \in Reqs
  BY NewNumber DEF DispatchSync, IInv
<1>2. SyncFrame(sent', InHandler) \in MainFrames
  BY <1>1 DEF SyncFrame, MainFrames, InHandler
<1>3. SyncFrame(sent', InHandler).k # "handler"
  BY DEF SyncFrame
<1>4. frames' \in Seq(MainFrames) /\ Calls'
  BY <1>2, <1>3, PushCalls DEF DispatchSync, IInv, TypeOK
<1> QED BY <1>1, <1>4, EnqueueInvariant DEF DispatchSync

LEMMA AsyncInvariant == IInv /\ DispatchAsync => IInv'
<1> SUFFICES ASSUME IInv, DispatchAsync PROVE IInv'
  OBVIOUS
<1>1. UNCHANGED <<frames, calls, work, foreign, driveFailed>>
  BY DEF DispatchAsync, callerVars
<1>2. Calls'
  BY <1>1 DEF IInv, Calls, Waiting, Elems, Injective
<1>3. frames' \in Seq(MainFrames)
  BY <1>1 DEF IInv, TypeOK
<1> QED BY <1>1, <1>2, <1>3, EnqueueInvariant DEF DispatchAsync

\* A completed dispatch.
LEMMA SettleFacts ==
  ASSUME TypeOK, NEW r \in Reqs, NEW what \in {"result", "fallback"}, Settle(r, what)
  PROVE  /\ outcome' \in [Reqs -> {"none", "result", "fallback"}]
         /\ settled' \in [Reqs -> Nat]
         /\ settled'[r] = settled[r] + 1
         /\ \A q \in Reqs : q # r => settled'[q] = settled[q]
BY DEF TypeOK, Settle

\* What is queued, running or in shutdown's hands was made.
LEMMA HeldWasSent ==
  ASSUME IInv
  PROVE  \A r \in Running \cup Elems(queue) \cup unserved : r \in Reqs /\ r \in Nat /\ r <= sent
<1>1. \A i \in DOMAIN work : work[i].r \in Reqs /\ work[i].r \in Nat /\ work[i].r <= sent
  <2>1. \A i \in DOMAIN work : work[i] \in WorkFrames
    BY DEF IInv, TypeOK
  <2> QED BY <2>1, LaneAssumption DEF IInv, Stack, WorkFrames, Reqs
<1>2. \A i \in DOMAIN queue : queue[i] \in Reqs /\ queue[i] \in Nat /\ queue[i] <= sent
  BY Numbers DEF IInv, Order, TypeOK
<1>3. \A r \in unserved : r \in Reqs /\ r \in Nat /\ r <= sent
  BY LaneAssumption DEF IInv, Books, TypeOK, Reqs
<1> QED BY <1>1, <1>2, <1>3 DEF Running, Elems

LEMMA RefusedInvariant == IInv /\ DispatchRefused => IInv'
<1> SUFFICES ASSUME IInv, DispatchRefused PROVE IInv'
  OBVIOUS
<1>0. PICK k \in {"sync", "async"} :
        /\ Send(k)
        /\ returned' = IF k = "sync" THEN returned \cup {sent'} ELSE returned
  BY DEF DispatchRefused
<1>1. /\ sent' = sent + 1 /\ sent' \in Reqs /\ sent' \in 0..MaxRequests
      /\ kind' \in [Reqs -> {"none", "sync", "async"}] /\ sent \in Nat
  BY <1>0, NewNumber DEF IInv, TypeOK
<1>2. UNCHANGED <<queue, pumpQueued, pumpsPosted, draining, work, calls, bridgeCalls, started,
                  frames, foreign, driveFailed, shuttingDown, cleanup, unserved, cancelled>>
  BY DEF DispatchRefused, laneVars, callerVars, shutdownVars
<1>3. /\ outcome' \in [Reqs -> {"none", "result", "fallback"}]
      /\ settled' \in [Reqs -> Nat]
      /\ settled'[sent'] = settled[sent'] + 1
      /\ \A q \in Reqs : q # sent' => settled'[q] = settled[q]
  BY <1>1, SettleFacts DEF DispatchRefused, IInv
<1>4. Running' = Running /\ Elems(queue)' = Elems(queue)
  BY <1>2 DEF Running, Elems
<1>5. sent' \notin Running \cup Elems(queue) \cup unserved
  BY <1>1, HeldWasSent
<1>6. TypeOK'
  BY <1>0, <1>1, <1>2, <1>3 DEF IInv, TypeOK
<1>7. Pump' /\ Closing'
  BY <1>2 DEF IInv, Pump, Closing
<1>8. Calls'
  BY <1>2 DEF IInv, Calls, Waiting, Elems, Injective
<1>9. Order'
  <2>1. \A i \in DOMAIN started : started[i] <= sent'
    BY <1>1, Numbers DEF IInv, Order, TypeOK
  <2>2. \A i \in DOMAIN queue : queue[i] <= sent'
    BY <1>1, Numbers DEF IInv, Order, TypeOK
  <2> QED BY <1>2, <2>1, <2>2 DEF IInv, Order, StartedInOrder, Increasing
<1>10. Stack'
  <2>1. \A i \in DOMAIN work : work[i].r <= sent'
    BY <1>1, HeldWasSent DEF Running
  <2> QED BY <1>2, <1>4, <2>1 DEF IInv, Stack
<1>11. Books'
  <2>1. settled[sent'] = 0
    <3>1. ~(sent' <= sent)
      BY <1>1
    <3> QED BY <1>1, <3>1 DEF IInv, Books
  <2>2. \A r \in unserved : r <= sent'
    BY <1>1, HeldWasSent
  <2>3. ASSUME NEW r \in Reqs
        PROVE  settled'[r] = IF r <= sent' /\ r \notin Running \cup Elems(queue) \cup unserved
                             THEN 1 ELSE 0
    <3>1. r <= sent' <=> r <= sent \/ r = sent'
      BY <1>1 DEF Reqs
    <3>2. CASE r = sent'
      BY <1>1, <1>3, <1>5, <2>1, <3>1, <3>2
    <3>3. CASE r # sent'
      BY <1>3, <3>1, <3>3 DEF IInv, Books
    <3> QED BY <3>2, <3>3
  <2>4. \A r \in returned' : settled'[r] = 1
    <3>1. returned \subseteq Reqs
      BY DEF IInv, TypeOK
    <3>2. settled'[sent'] = 1
      BY <1>3, <2>1
    <3> QED BY <1>0, <1>3, <3>1, <3>2 DEF IInv, Books
  <2> QED BY <1>2, <1>4, <2>2, <2>3, <2>4 DEF IInv, Books
<1> QED BY <1>6, <1>7, <1>8, <1>9, <1>10, <1>11 DEF IInv

-----------------------------------------------------------------------------
(* The runtime's thread waits. *)

\* Steps that neither make nor move nor complete a dispatch.
LEMMA AccountKept ==
  ASSUME IInv, UNCHANGED <<sent, settled, returned, queue, started, unserved>>,
         Running' = Running,
         \A i, j \in DOMAIN work' : work'[i].r = work'[j].r => i = j
  PROVE  Order' /\ Stack' /\ Books'
<1>1. Elems(queue)' = Elems(queue)
  BY DEF Elems
<1>2. \A i \in DOMAIN work' : work'[i].r <= sent
  <2>1. \A i \in DOMAIN work' : work'[i].r \in Running'
    BY DEF Running
  <2> QED BY <2>1, HeldWasSent
<1>3. Order'
  BY DEF IInv, Order, StartedInOrder, Increasing
<1>4. Stack'
  BY <1>1, <1>2 DEF IInv, Stack
<1>5. Books'
  BY <1>1 DEF IInv, Books
<1> QED BY <1>3, <1>4, <1>5

\* Steps of the runtime's thread that touch its stack alone.
LEMMA FramesInvariant ==
  ASSUME IInv, UNCHANGED <<requestVars, laneVars, shutdownVars>>,
         frames' \in Seq(MainFrames), Calls',
         foreign' \in 0..MaxForeign, driveFailed' \subseteq Reqs
  PROVE  IInv'
<1>1. UNCHANGED <<sent, kind, cancelled, outcome, settled, returned, queue, pumpQueued,
                  pumpsPosted, draining, work, calls, bridgeCalls, started, shuttingDown,
                  cleanup, unserved>>
  BY DEF requestVars, laneVars, shutdownVars
<1>2. Order' /\ Stack' /\ Books'
  <2>1. Running' = Running
    BY <1>1 DEF Running
  <2>2. \A i, j \in DOMAIN work' : work'[i].r = work'[j].r => i = j
    BY <1>1 DEF IInv, Stack
  <2> QED BY <1>1, <2>1, <2>2, AccountKept
<1>3. Pump' /\ Closing'
  BY <1>1 DEF IInv, Pump, Closing
<1>4. TypeOK'
  BY <1>1 DEF IInv, TypeOK
<1> QED BY <1>2, <1>3, <1>4 DEF IInv

LEMMA CancelInvariant == ASSUME IInv, NEW r \in Reqs, CancelDispatch(r) PROVE IInv'
<1>1. UNCHANGED <<sent, kind, outcome, settled, returned, queue, pumpQueued, pumpsPosted,
                  draining, work, calls, bridgeCalls, started, frames, foreign,
                  driveFailed, shuttingDown, cleanup, unserved>>
  BY DEF CancelDispatch, laneVars, callerVars, shutdownVars
<1>2. Order' /\ Stack' /\ Books'
  <2>1. Running' = Running
    BY <1>1 DEF Running
  <2>2. \A i, j \in DOMAIN work' : work'[i].r = work'[j].r => i = j
    BY <1>1 DEF IInv, Stack
  <2> QED BY <1>1, <2>1, <2>2, AccountKept
<1>3. Pump' /\ Closing'
  BY <1>1 DEF IInv, Pump, Closing
<1>4. TypeOK'
  BY <1>1 DEF IInv, TypeOK, CancelDispatch
<1>5. Calls'
  BY <1>1 DEF IInv, Calls, Waiting, Elems, Injective
<1> QED BY <1>2, <1>3, <1>4, <1>5 DEF IInv

LEMMA ForeignInvariant == IInv /\ ServeForeign => IInv'
<1> SUFFICES ASSUME IInv, ServeForeign PROVE IInv'
  OBVIOUS
<1>1. HandlerFrame(Foreign) \in MainFrames /\ HandlerFrame(Foreign).r = Foreign
  BY DEF HandlerFrame, MainFrames, Foreign
<1>2. frames' \in Seq(MainFrames) /\ Calls'
  BY <1>1, PushCalls DEF ServeForeign, laneVars, IInv, TypeOK
<1>3. foreign' \in 0..MaxForeign
  BY LaneAssumption DEF ServeForeign, IInv, TypeOK
<1>4. UNCHANGED <<requestVars, laneVars, shutdownVars, driveFailed>>
  BY DEF ServeForeign
<1>5. driveFailed' \subseteq Reqs
  BY <1>4 DEF IInv, TypeOK
<1> QED BY <1>2, <1>3, <1>4, <1>5, FramesInvariant

LEMMA TopFrame ==
  ASSUME TypeOK, frames # <<>>
  PROVE  Top(frames) \in MainFrames /\ (Top(frames).k \in {"sync", "drive"} => Top(frames).r \in Reqs)
<1>1. Top(frames) \in MainFrames
  BY PopFacts DEF TypeOK
<1> QED BY <1>1 DEF MainFrames

LEMMA DriveInvariant == IInv /\ (Drive \/ DriveEnds \/ DriveExpires) => IInv'
<1> SUFFICES ASSUME IInv, Drive \/ DriveEnds \/ DriveExpires PROVE IInv'
  OBVIOUS
<1>1. frames # <<>> /\ UNCHANGED <<requestVars, laneVars, shutdownVars, foreign>>
  BY DEF Drive, DriveEnds, DriveExpires, MainIs
<1>2. UNCHANGED <<calls, work>>
  BY <1>1 DEF laneVars
<1>3. CASE Drive
  <2>1. DriveFrame(Top(frames).r) \in MainFrames /\ DriveFrame(Top(frames).r).k # "handler"
    BY <1>1, <1>3, TopFrame DEF Drive, MainIs, DriveFrame, MainFrames, IInv
  <2>2. frames' \in Seq(MainFrames) /\ Calls'
    BY <1>2, <1>3, <2>1, PushCalls DEF Drive, IInv, TypeOK
  <2>3. foreign' \in 0..MaxForeign /\ driveFailed' \subseteq Reqs
    BY <1>3 DEF Drive, IInv, TypeOK
  <2> QED BY <1>1, <2>2, <2>3, FramesInvariant
<1>4. CASE DriveEnds \/ DriveExpires
  <2>1. frames' \in Seq(MainFrames) /\ Calls'
    BY <1>1, <1>2, <1>4, PopCalls DEF DriveEnds, DriveExpires, IInv, TypeOK
  <2>2. foreign' \in 0..MaxForeign
    BY <1>1 DEF IInv, TypeOK
  <2>3. driveFailed' \subseteq Reqs
    <3>1. MainIs("drive") => Top(frames).r \in Reqs
      BY <1>1, TopFrame DEF MainIs, IInv
    <3> QED BY <1>4, <3>1 DEF DriveEnds, DriveExpires, IInv, TypeOK
  <2> QED BY <1>1, <2>1, <2>2, <2>3, FramesInvariant
<1> QED BY <1>3, <1>4

LEMMA SyncReturnsInvariant == IInv /\ SyncReturns => IInv'
<1> SUFFICES ASSUME IInv, SyncReturns PROVE IInv'
  OBVIOUS
<1>1. UNCHANGED <<sent, kind, cancelled, outcome, settled, queue, pumpQueued, pumpsPosted,
                  draining, work, calls, bridgeCalls, started, foreign,
                  driveFailed, shuttingDown, cleanup, unserved>>
  BY DEF SyncReturns, laneVars, shutdownVars
<1>2. frames # <<>> /\ Top(frames).r \in Reqs /\ settled[Top(frames).r] > 0
      /\ returned' = returned \cup {Top(frames).r} /\ frames' = Pop(frames)
  BY TopFrame DEF SyncReturns, MainIs, IsCompleted, IInv
<1>3. frames' \in Seq(MainFrames) /\ Calls'
  BY <1>1, <1>2, PopCalls DEF IInv, TypeOK
<1>4. Pump' /\ Closing'
  BY <1>1 DEF IInv, Pump, Closing
<1>5. TypeOK'
  BY <1>1, <1>2, <1>3 DEF IInv, TypeOK
<1>6. Running' = Running /\ Elems(queue)' = Elems(queue)
  BY <1>1 DEF Running, Elems
<1>7. settled[Top(frames).r] = 1
  BY <1>2 DEF IInv, Books
<1>8. Order' /\ Stack'
  BY <1>1, <1>6 DEF IInv, Order, StartedInOrder, Increasing, Stack
<1>9. Books'
  BY <1>1, <1>2, <1>6, <1>7 DEF IInv, Books
<1> QED BY <1>3, <1>4, <1>5, <1>8, <1>9 DEF IInv

\* A call moves from the queue to the stack of the runtime's thread.
LEMMA ServeBridgeInvariant == IInv /\ ServeBridge => IInv'
<1> SUFFICES ASSUME IInv, ServeBridge PROVE IInv'
  OBVIOUS
<1>1. UNCHANGED <<sent, kind, cancelled, outcome, settled, returned, queue, pumpQueued,
                  pumpsPosted, draining, work, bridgeCalls, started, foreign,
                  driveFailed, shuttingDown, cleanup, unserved>>
  BY DEF ServeBridge, requestVars, shutdownVars
<1>2. /\ calls' \in Seq(Reqs) /\ Head(calls) \in Reqs /\ Head(calls) = calls[1]
      /\ 1 \in DOMAIN calls
      /\ \A i \in DOMAIN calls' : i + 1 \in DOMAIN calls /\ calls'[i] = calls[i + 1] /\ i \in Nat \ {0}
  <2>1. calls \in Seq(Reqs) /\ calls # <<>> /\ calls' = Tail(calls)
    BY DEF ServeBridge, IInv, TypeOK
  <2>2. /\ calls' \in Seq(Reqs) /\ Head(calls) \in Reqs /\ Head(calls) = calls[1]
        /\ DOMAIN calls' = 1..(Len(calls) - 1)
        /\ DOMAIN calls = 1..Len(calls) /\ Len(calls) \in Nat \ {0}
        /\ \A i \in DOMAIN calls' : i + 1 \in DOMAIN calls /\ calls'[i] = calls[i + 1]
    BY <2>1, TailFacts
  <2> QED BY <2>2
<1> DEFINE h == HandlerFrame(Head(calls))
<1>3. h \in MainFrames /\ h.k = "handler" /\ h.r = Head(calls)
  BY <1>2 DEF HandlerFrame, MainFrames
<1>4. /\ frames' \in Seq(MainFrames)
      /\ DOMAIN frames' = DOMAIN frames \cup {Len(frames) + 1}
      /\ DOMAIN frames = 1..Len(frames) /\ Len(frames) \in Nat
      /\ \A i \in DOMAIN frames : frames'[i] = frames[i]
      /\ frames'[Len(frames) + 1] = h
  BY <1>3, AppendFacts DEF ServeBridge, IInv, TypeOK
<1> HIDE DEF h
<1>5. Waiting' = Waiting /\ Running' = Running
  BY <1>1 DEF Waiting, Running
<1>6. h.r \in Waiting /\ h.r \in Elems(calls) /\ h.r # Foreign
  BY <1>2, <1>3, LaneAssumption DEF IInv, Calls, Elems, Foreign, Reqs
<1>7. Elems(calls)' \subseteq Elems(calls) \ {h.r}
  <2>1. ASSUME NEW i \in DOMAIN calls' PROVE calls'[i] \in Elems(calls) /\ calls'[i] # calls[1]
    <3>1. i + 1 # 1
      BY <1>2
    <3> QED BY <1>2, <3>1 DEF IInv, Calls, Injective, Elems
  <2> QED BY <1>2, <1>3, <2>1 DEF Elems
<1>8. Calls'
  <2>1. Injective(calls)'
    <3>1. ASSUME NEW i \in DOMAIN calls', NEW j \in DOMAIN calls', calls'[i] = calls'[j]
          PROVE  i = j
      <4>1. i + 1 = j + 1
        BY <1>2, <3>1 DEF IInv, Calls, Injective
      <4> QED BY <1>2, <4>1
    <3> QED BY <3>1 DEF Injective
  <2>2. \A i \in DOMAIN calls' : calls'[i] \in Waiting'
    BY <1>2, <1>5 DEF IInv, Calls
  <2>3. ASSUME NEW i \in DOMAIN frames', frames'[i].k = "handler", frames'[i].r # Foreign
        PROVE  /\ frames'[i].r \in Waiting' /\ frames'[i].r \notin Elems(calls)'
               /\ \A j \in DOMAIN frames' : frames'[j] = frames'[i] => j = i
    <3>1. CASE i \in DOMAIN frames
      <4>1. /\ frames[i].r \in Waiting /\ frames[i].r \notin Elems(calls)
            /\ \A j \in DOMAIN frames : frames[j] = frames[i] => j = i
        BY <1>4, <2>3, <3>1 DEF IInv, Calls
      <4>2. frames[i] # h
        BY <1>6, <4>1
      <4> QED BY <1>4, <1>5, <1>7, <3>1, <4>1, <4>2
    <3>2. CASE i = Len(frames) + 1
      <4>1. \A j \in DOMAIN frames : frames[j] # h
        BY <1>3, <1>6 DEF IInv, Calls
      <4> QED BY <1>4, <1>5, <1>6, <1>7, <3>2, <4>1
    <3> QED BY <1>4, <3>1, <3>2
  <2> QED BY <2>1, <2>2, <2>3 DEF Calls
<1>9. TypeOK'
  BY <1>1, <1>2, <1>4 DEF IInv, TypeOK
<1>10. Pump'
  BY <1>1 DEF IInv, Pump
<1>11. Closing'
  BY <1>1 DEF IInv, Closing, ServeBridge
<1>12. Order' /\ Stack' /\ Books'
  BY <1>1, <1>5, AccountKept DEF IInv, Stack
<1> QED BY <1>8, <1>9, <1>10, <1>11, <1>12 DEF IInv

LEMMA HandlerReturnsInvariant == IInv /\ HandlerReturns => IInv'
<1> SUFFICES ASSUME IInv, HandlerReturns PROVE IInv'
  OBVIOUS
<1>1. UNCHANGED <<sent, kind, cancelled, outcome, settled, returned, queue, pumpQueued,
                  pumpsPosted, draining, calls, bridgeCalls, started, foreign,
                  driveFailed, shuttingDown, cleanup, unserved>>
  BY DEF HandlerReturns, requestVars, shutdownVars
<1>2. frames # <<>> /\ Top(frames).k = "handler"
  BY DEF HandlerReturns, MainIs
<1>3. /\ frames' \in Seq(MainFrames) /\ Top(frames) = frames[Len(frames)]
      /\ Len(frames) \in DOMAIN frames
      /\ \A i \in DOMAIN frames' : i \in DOMAIN frames /\ i # Len(frames) /\ frames'[i] = frames[i]
  BY <1>2, PopFacts DEF HandlerReturns, IInv, TypeOK
<1> DEFINE q == Top(frames).r
           W(i) == [work[i] EXCEPT !.waits = @ /\ work[i].r # q]
<1>4. /\ work' = [i \in 1..Len(work) |-> W(i)] /\ Len(work) \in Nat
      /\ DOMAIN work = 1..Len(work) /\ DOMAIN work' = DOMAIN work
      /\ \A i \in DOMAIN work : work[i] \in WorkFrames
  BY DEF HandlerReturns, IInv, TypeOK
<1>5. \A i \in DOMAIN work : /\ W(i) \in WorkFrames /\ W(i).r = work[i].r
                             /\ work[i].r # q => W(i).waits = work[i].waits
  BY <1>4 DEF WorkFrames
<1>6. work' \in Seq(WorkFrames)
  <2> HIDE DEF W
  <2> QED BY <1>4, <1>5
<1>7. \A i \in DOMAIN work : /\ work'[i].r = work[i].r
                             /\ work[i].r # q => work'[i].waits = work[i].waits
  BY <1>4, <1>5
<1> HIDE DEF q, W
<1>8. Running' = Running
  BY <1>4, <1>7 DEF Running
<1>9. Waiting \ {q} \subseteq Waiting'
  BY <1>4, <1>7 DEF Waiting
<1>10. Order' /\ Stack' /\ Books'
  BY <1>1, <1>4, <1>7, <1>8, AccountKept DEF IInv, Stack
<1>11. Calls'
  <2>1. Foreign \notin Waiting
    BY <1>4 DEF Waiting, WorkFrames, Foreign, Reqs
  <2>2. q \notin Elems(calls)
    <3>1. CASE q = Foreign
      <4>1. \A i \in DOMAIN calls : calls[i] # Foreign
        BY <2>1 DEF IInv, Calls
      <4> QED BY <3>1, <4>1 DEF Elems
    <3>2. CASE q # Foreign
      BY <1>2, <1>3, <3>2 DEF q, IInv, Calls
    <3> QED BY <3>1, <3>2
  <2>3. Elems(calls)' = Elems(calls)
    BY <1>1 DEF Elems
  <2>4. \A i \in DOMAIN calls' : calls'[i] \in Waiting'
    BY <1>1, <1>9, <2>2 DEF IInv, Calls, Elems
  <2>5. ASSUME NEW i \in DOMAIN frames', frames'[i].k = "handler", frames'[i].r # Foreign
        PROVE  /\ frames'[i].r \in Waiting' /\ frames'[i].r \notin Elems(calls)'
               /\ \A j \in DOMAIN frames' : frames'[j] = frames'[i] => j = i
    <3>1. i \in DOMAIN frames /\ i # Len(frames) /\ frames'[i] = frames[i]
      BY <1>3
    <3>2. /\ frames[i].r \in Waiting /\ frames[i].r \notin Elems(calls)
          /\ \A j \in DOMAIN frames : frames[j] = frames[i] => j = i
      BY <2>5, <3>1 DEF IInv, Calls
    <3>3. frames[i].r # q
      <4>1. frames[i] # Top(frames)
        BY <1>3, <3>1, <3>2
      <4>2. frames[i].k = "handler" /\ frames[i] \in MainFrames /\ Top(frames) \in MainFrames
        BY <1>2, <2>5, <3>1, TopFrame DEF IInv, TypeOK
      <4> QED BY <1>2, <4>1, <4>2 DEF q, MainFrames
    <3> QED BY <1>3, <1>9, <2>3, <3>1, <3>2, <3>3
  <2> QED BY <1>1, <2>4, <2>5 DEF IInv, Calls, Injective
<1>12. TypeOK'
  BY <1>1, <1>3, <1>6 DEF IInv, TypeOK
<1>13. Pump'
  BY <1>1 DEF IInv, Pump
<1>14. Closing'
  <2>1. work = <<>> => work' = <<>>
    BY <1>4
  <2> QED BY <1>1, <2>1 DEF IInv, Closing
<1> QED BY <1>10, <1>11, <1>12, <1>13, <1>14 DEF IInv

-----------------------------------------------------------------------------
(* The lane. *)

LEMMA PumpMovesInvariant == IInv /\ (PumpBegins \/ PumpEnds) => IInv'
<1> SUFFICES ASSUME IInv, PumpBegins \/ PumpEnds PROVE IInv'
  OBVIOUS
<1>1. UNCHANGED <<sent, kind, cancelled, outcome, settled, returned, queue, work, calls,
                  bridgeCalls, started, frames, foreign, driveFailed, shuttingDown,
                  cleanup, unserved>>
  BY DEF PumpBegins, PumpEnds, requestVars, callerVars, shutdownVars
<1>2. \/ pumpsPosted = 1 /\ pumpsPosted' = 0 /\ ~draining /\ draining' /\ pumpQueued' = pumpQueued
      \/ /\ pumpsPosted' = pumpsPosted /\ draining /\ ~draining' /\ ~pumpQueued' /\ queue = <<>>
  BY DEF PumpBegins, PumpEnds, LaneAtLoop, QueueDrained, IInv, TypeOK
<1>3. {pumpQueued', draining', shuttingDown'} \subseteq BOOLEAN
  BY <1>1 DEF PumpBegins, PumpEnds, IInv, TypeOK
<1>4. pumpsPosted' \in 0..1
  BY <1>2 DEF IInv, TypeOK
<1>5. TypeOK'
  BY <1>1, <1>3, <1>4 DEF IInv, TypeOK
<1>6. Pump' /\ Closing'
  <2>1. draining => pumpsPosted # 1
    BY DEF IInv, Pump
  <2> QED BY <1>1, <1>2, <2>1 DEF IInv, Pump, Closing
<1>7. Calls'
  BY <1>1 DEF IInv, Calls, Waiting, Elems, Injective
<1>8. Running' = Running
  BY <1>1 DEF Running
<1>9. Order' /\ Stack' /\ Books'
  BY <1>1, <1>8, AccountKept DEF IInv, Stack
<1> QED BY <1>5, <1>6, <1>7, <1>9 DEF IInv

\* The head of the queue goes to the lane's stack.
LEMMA StartInvariant ==
  ASSUME IInv, NEW from \in {"pump", "drive"}, StartNext(from),
         UNCHANGED <<requestVars, pumpQueued, pumpsPosted, draining, calls, bridgeCalls,
                     foreign, driveFailed, shutdownVars>>,
         frames' \in Seq(MainFrames), DOMAIN frames' = DOMAIN frames,
         \A i \in DOMAIN frames : /\ frames[i].k = "handler" => frames'[i] = frames[i]
                                  /\ frames'[i].k = frames[i].k
  PROVE  IInv'
<1>1. UNCHANGED <<sent, kind, cancelled, outcome, settled, returned, pumpQueued, pumpsPosted,
                  draining, calls, bridgeCalls, foreign, driveFailed, shuttingDown,
                  cleanup, unserved>>
  BY DEF requestVars, shutdownVars
<1> DEFINE h == Head(queue)
<1>2. queue \in Seq(Reqs) /\ queue # <<>> /\ queue' = Tail(queue)
  BY DEF StartNext, IInv, TypeOK
<1>3. /\ queue' \in Seq(Reqs) /\ h \in Reqs /\ h = queue[1]
      /\ DOMAIN queue' = 1..(Len(queue) - 1)
      /\ DOMAIN queue = 1..Len(queue) /\ Len(queue) \in Nat \ {0}
      /\ \A i \in DOMAIN queue' : i + 1 \in DOMAIN queue /\ queue'[i] = queue[i + 1]
      /\ \A i \in DOMAIN queue : i # 1 => i - 1 \in DOMAIN queue' /\ queue'[i - 1] = queue[i]
  BY <1>2, TailFacts
<1>4. WorkFrame(h, from) \in WorkFrames /\ WorkFrame(h, from).r = h
  BY <1>3 DEF WorkFrame, WorkFrames
<1>5. work' = Append(work, WorkFrame(h, from)) /\ started' = Append(started, h)
  BY DEF StartNext
<1> HIDE DEF h
<1>6. h \in Elems(queue) /\ h \notin Running /\ h \in Nat
  BY <1>3, LaneAssumption DEF Elems, IInv, Stack, Reqs
<1>7. /\ work' \in Seq(WorkFrames) /\ Running' = Running \cup {h} /\ Waiting \subseteq Waiting'
      /\ \A i, j \in DOMAIN work' : work'[i].r = work'[j].r => i = j
  BY <1>4, <1>5, <1>6, PushRuns DEF IInv, TypeOK
<1>8. \A i \in DOMAIN queue' : h < queue'[i]
  BY <1>3 DEF IInv, Order, Increasing
<1>9. Elems(queue)' = Elems(queue) \ {h}
  <2>1. \A i \in DOMAIN queue' : queue'[i] \in Elems(queue) /\ queue'[i] # h
    BY <1>3, <1>6, <1>8, Numbers DEF Elems
  <2>2. \A i \in DOMAIN queue : queue[i] # h => queue[i] \in Elems(queue)'
    BY <1>3 DEF Elems
  <2> QED BY <2>1, <2>2 DEF Elems
<1>10. /\ started' \in Seq(Reqs)
       /\ DOMAIN started' = DOMAIN started \cup {Len(started) + 1}
       /\ DOMAIN started = 1..Len(started) /\ Len(started) \in Nat
       /\ \A i \in DOMAIN started : started'[i] = started[i]
       /\ started'[Len(started) + 1] = h
  BY <1>3, <1>5, AppendFacts DEF IInv, TypeOK
<1>11. ~shuttingDown
  BY <1>2 DEF IInv, Closing
<1>12. TypeOK'
  BY <1>1, <1>3, <1>7, <1>10 DEF IInv, TypeOK
<1>13. Pump'
  BY <1>1, <1>2 DEF IInv, Pump
<1>14. Closing'
  BY <1>1, <1>11 DEF IInv, Closing
<1>15. Calls'
  BY <1>1, <1>7, KeepCalls DEF IInv
<1>16. Order'
  <2>1. StartedInOrder'
    <3>1. ASSUME NEW i \in DOMAIN started', NEW j \in DOMAIN started', i < j
          PROVE  started'[i] < started'[j]
      <4>1. i \in DOMAIN started
        BY <1>10, <3>1
      <4>2. CASE j \in DOMAIN started
        BY <1>10, <3>1, <4>1, <4>2 DEF IInv, Order, StartedInOrder
      <4>3. CASE j = Len(started) + 1
        BY <1>3, <1>10, <4>1, <4>3 DEF IInv, Order
      <4> QED BY <1>10, <4>2, <4>3
    <3> QED BY <3>1 DEF StartedInOrder
  <2>2. Increasing(queue)'
    <3>1. ASSUME NEW i \in DOMAIN queue', NEW j \in DOMAIN queue', i < j
          PROVE  queue'[i] < queue'[j]
      <4>1. i + 1 < j + 1
        BY <1>3, <3>1
      <4> QED BY <1>3, <3>1, <4>1 DEF IInv, Order, Increasing
    <3> QED BY <3>1 DEF Increasing
  <2>3. ASSUME NEW i \in DOMAIN started', NEW j \in DOMAIN queue' PROVE started'[i] < queue'[j]
    <3>1. CASE i \in DOMAIN started
      BY <1>3, <1>10, <3>1 DEF IInv, Order
    <3>2. CASE i = Len(started) + 1
      BY <1>8, <1>10, <3>2
    <3> QED BY <1>10, <3>1, <3>2
  <2>4. ASSUME NEW i \in DOMAIN started' PROVE started'[i] <= sent
    <3>1. CASE i \in DOMAIN started
      BY <1>10, <3>1 DEF IInv, Order
    <3>2. CASE i = Len(started) + 1
      BY <1>3, <1>10, <3>2 DEF IInv, Order
    <3> QED BY <1>10, <3>1, <3>2
  <2>5. \A j \in DOMAIN queue' : queue'[j] <= sent
    BY <1>3 DEF IInv, Order
  <2> QED BY <1>1, <2>1, <2>2, <2>3, <2>4, <2>5 DEF Order
<1>17. Stack'
  <2>1. \A r \in Running' : r <= sent
    BY <1>6, <1>7, HeldWasSent
  <2>2. \A i \in DOMAIN work' : work'[i].r <= sent
    BY <2>1 DEF Running
  <2> QED BY <1>1, <1>7, <1>9, <2>2 DEF IInv, Stack
<1>18. Books'
  <2>1. Running' \cup Elems(queue)' = Running \cup Elems(queue)
    BY <1>6, <1>7, <1>9
  <2> QED BY <1>1, <2>1 DEF IInv, Books
<1> QED BY <1>12, <1>13, <1>14, <1>15, <1>16, <1>17, <1>18 DEF IInv

LEMMA PumpStartsInvariant == IInv /\ PumpStarts => IInv'
<1> SUFFICES ASSUME IInv, PumpStarts PROVE IInv'
  OBVIOUS
<1>1. UNCHANGED <<requestVars, pumpQueued, pumpsPosted, draining, calls, bridgeCalls,
                  frames, foreign, driveFailed, shutdownVars>>
  BY DEF PumpStarts, callerVars
<1>2. frames' \in Seq(MainFrames)
  BY <1>1 DEF IInv, TypeOK
<1> QED BY <1>1, <1>2, StartInvariant DEF PumpStarts

LEMMA ServeDriveInvariant == IInv /\ ServeDrive => IInv'
<1> SUFFICES ASSUME IInv, ServeDrive PROVE IInv'
  OBVIOUS
<1>1. UNCHANGED <<requestVars, pumpQueued, pumpsPosted, draining, calls, bridgeCalls,
                  foreign, driveFailed, shutdownVars>>
  BY DEF ServeDrive
<1>2. CASE StartNext("drive") /\ MoveDrive(OldestPosted, "running")
  <2>1. /\ frames' \in Seq(MainFrames) /\ DOMAIN frames' = DOMAIN frames
        /\ \A i \in DOMAIN frames : /\ frames[i].k = "handler" => frames'[i] = frames[i]
                                    /\ frames'[i].k = frames[i].k
    BY <1>2, MoveFacts DEF IInv, TypeOK, OldestPosted, DrivesAt
  <2> QED BY <1>1, <1>2, <2>1, StartInvariant
<1>3. CASE MoveDrive(OldestPosted, "done") /\ UNCHANGED <<queue, work, started>>
  <2>1. /\ frames' \in Seq(MainFrames) /\ DOMAIN frames' = DOMAIN frames
        /\ \A i \in DOMAIN frames : /\ frames[i].k = "handler" => frames'[i] = frames[i]
                                    /\ frames'[i].k = frames[i].k
    BY <1>3, MoveFacts DEF IInv, TypeOK, OldestPosted, DrivesAt
  <2>2. UNCHANGED <<requestVars, laneVars, shutdownVars>>
    BY <1>1, <1>3 DEF laneVars
  <2>3. Waiting' = Waiting
    BY <1>3 DEF Waiting
  <2>4. Calls'
    BY <1>1, <2>1, <2>3, KeepCalls DEF IInv
  <2>5. foreign' \in 0..MaxForeign /\ driveFailed' \subseteq Reqs
    BY <1>1 DEF IInv, TypeOK
  <2> QED BY <2>1, <2>2, <2>4, <2>5, FramesInvariant
<1> QED BY <1>2, <1>3 DEF ServeDrive

\* The innermost dispatch, when there is one.
LEMMA TopWork ==
  ASSUME IInv, work # <<>>
  PROVE  /\ Top(work) \in WorkFrames /\ Top(work).r \in Reqs /\ Top(work).r \in Running
         /\ Top(work).waits => Top(work).r \in Waiting
         /\ ~Top(work).waits => Top(work).r \notin Waiting
         /\ cleanup # "done"
<1>1. /\ Top(work) \in WorkFrames /\ Top(work) = work[Len(work)] /\ Len(work) \in DOMAIN work
  BY PopFacts DEF IInv, TypeOK
<1>2. Top(work).r \in Reqs
  BY <1>1 DEF WorkFrames
<1>3. ~Top(work).waits => Top(work).r \notin Waiting
  BY <1>1 DEF Waiting, IInv, Stack
<1> QED BY <1>1, <1>2, <1>3 DEF Running, Waiting, IInv, Closing

LEMMA CallBridgeInvariant == IInv /\ CallBridge => IInv'
<1> SUFFICES ASSUME IInv, CallBridge PROVE IInv'
  OBVIOUS
<1> DEFINE w == [Top(work) EXCEPT !.waits = TRUE]
           r == Top(work).r
<1>1. UNCHANGED <<sent, kind, cancelled, outcome, settled, returned, queue, pumpQueued,
                  pumpsPosted, draining, started, frames, foreign, driveFailed,
                  shuttingDown, cleanup, unserved>>
  BY DEF CallBridge, requestVars, callerVars, shutdownVars
<1>2. /\ work # <<>> /\ ~Top(work).waits /\ Top(work) \in WorkFrames /\ r \in Reqs
      /\ r \notin Waiting /\ cleanup # "done"
  BY TopWork DEF CallBridge, LaneRuns
<1>3. w \in WorkFrames /\ w.r = r /\ w.waits
  BY <1>2 DEF WorkFrames
<1>4. work' = ReplaceTop(work, w)
  BY DEF CallBridge
<1> HIDE DEF w
<1>5. /\ work' \in Seq(WorkFrames) /\ Running' = Running
      /\ \A i \in DOMAIN work' : i \in DOMAIN work /\ work'[i].r = work[i].r
      /\ Waiting \ {w.r} \subseteq Waiting' /\ w.r \in Waiting'
  BY <1>2, <1>3, <1>4, TopRuns DEF IInv, TypeOK
<1>6. /\ calls' \in Seq(Reqs)
      /\ DOMAIN calls' = DOMAIN calls \cup {Len(calls) + 1}
      /\ DOMAIN calls = 1..Len(calls) /\ Len(calls) \in Nat
      /\ \A i \in DOMAIN calls : calls'[i] = calls[i]
      /\ calls'[Len(calls) + 1] = r
  BY <1>2, AppendFacts DEF CallBridge, IInv, TypeOK
<1>7. bridgeCalls' \in [Reqs -> Nat]
  BY <1>2 DEF CallBridge, IInv, TypeOK
<1>8. TypeOK'
  BY <1>1, <1>5, <1>6, <1>7 DEF IInv, TypeOK
<1>9. Pump' /\ Closing'
  BY <1>1, <1>2 DEF IInv, Pump, Closing
<1>10. Order' /\ Stack' /\ Books'
  BY <1>1, <1>5, AccountKept DEF IInv, Stack
<1>11. Calls'
  <2>1. \A i \in DOMAIN calls : calls[i] # r
    BY <1>2 DEF IInv, Calls
  <2>2. Elems(calls)' = Elems(calls) \cup {r}
    BY <1>6 DEF Elems
  <2>3. Waiting \subseteq Waiting' /\ r \in Waiting'
    BY <1>3, <1>5
  <2>4. Injective(calls)'
    BY <1>6, <2>1 DEF IInv, Calls, Injective
  <2>5. \A i \in DOMAIN calls' : calls'[i] \in Waiting'
    BY <1>6, <2>3 DEF IInv, Calls
  <2>6. ASSUME NEW i \in DOMAIN frames', frames'[i].k = "handler", frames'[i].r # Foreign
        PROVE  /\ frames'[i].r \in Waiting' /\ frames'[i].r \notin Elems(calls)'
               /\ \A j \in DOMAIN frames' : frames'[j] = frames'[i] => j = i
    BY <1>1, <1>2, <2>2, <2>3, <2>6 DEF IInv, Calls
  <2> QED BY <2>4, <2>5, <2>6 DEF Calls
<1> QED BY <1>8, <1>9, <1>10, <1>11 DEF IInv

\* A call is taken out of the queue.
LEMMA WithoutFacts ==
  ASSUME calls \in Seq(Reqs), NEW i \in DOMAIN calls, Injective(calls), calls' = WithoutCall(i)
  PROVE  /\ calls' \in Seq(Reqs) /\ Injective(calls)'
         /\ \A j \in DOMAIN calls' : calls'[j] \in Elems(calls) /\ calls'[j] # calls[i]
<1>1. DOMAIN calls = 1..Len(calls) /\ Len(calls) \in Nat \ {0} /\ i \in 1..Len(calls)
  BY DEF WithoutCall
<1>2. DOMAIN calls' = 1..(Len(calls) - 1)
  BY <1>1 DEF WithoutCall
<1>3. ASSUME NEW j \in DOMAIN calls'
      PROVE  \/ j < i /\ j \in DOMAIN calls /\ calls'[j] = calls[j]
             \/ j >= i /\ j + 1 \in DOMAIN calls /\ calls'[j] = calls[j + 1]
  BY <1>1, <1>2 DEF WithoutCall
<1>4. \A j \in DOMAIN calls' : calls'[j] \in Reqs
  BY <1>1, <1>3
<1>5. calls' \in Seq(Reqs)
  <2>1. calls' = [j \in 1..(Len(calls) - 1) |-> calls'[j]] /\ Len(calls) - 1 \in Nat
    BY <1>1, <1>2 DEF WithoutCall
  <2> QED BY <1>2, <1>4, <2>1
<1>6. \A j \in DOMAIN calls' : calls'[j] \in Elems(calls) /\ calls'[j] # calls[i]
  BY <1>1, <1>2, <1>3 DEF Elems, Injective
<1>7. Injective(calls)'
  <2>1. ASSUME NEW j \in DOMAIN calls', NEW k \in DOMAIN calls', calls'[j] = calls'[k]
        PROVE  j = k
    BY <1>1, <1>2, <1>3, <2>1 DEF Injective
  <2> QED BY <2>1 DEF Injective
<1> QED BY <1>5, <1>6, <1>7

LEMMA BridgeTimesOutInvariant == IInv /\ BridgeTimesOut => IInv'
<1> SUFFICES ASSUME IInv, BridgeTimesOut PROVE IInv'
  OBVIOUS
<1> DEFINE w == [Top(work) EXCEPT !.waits = FALSE]
           r == Top(work).r
<1>1. UNCHANGED <<sent, kind, cancelled, outcome, settled, returned, queue, pumpQueued,
                  pumpsPosted, draining, bridgeCalls, started, frames, foreign,
                  driveFailed, shuttingDown, cleanup, unserved>>
  BY DEF BridgeTimesOut, requestVars, callerVars, shutdownVars
<1>2. /\ work # <<>> /\ Top(work) \in WorkFrames /\ r \in Reqs /\ cleanup # "done"
  BY TopWork DEF BridgeTimesOut, LaneWaits
<1>3. w \in WorkFrames /\ w.r = r
  BY <1>2 DEF WorkFrames
<1>4. work' = ReplaceTop(work, w)
  BY DEF BridgeTimesOut
<1> HIDE DEF w
<1>5. /\ work' \in Seq(WorkFrames) /\ Running' = Running
      /\ \A i \in DOMAIN work' : i \in DOMAIN work /\ work'[i].r = work[i].r
      /\ Waiting \ {w.r} \subseteq Waiting'
  BY <1>2, <1>3, <1>4, TopRuns DEF IInv, TypeOK
<1>6. PICK i \in DOMAIN calls : calls[i] = r /\ calls' = WithoutCall(i)
  BY DEF BridgeTimesOut
<1>7. /\ calls' \in Seq(Reqs) /\ Injective(calls)' /\ r \in Elems(calls)
      /\ \A j \in DOMAIN calls' : calls'[j] \in Elems(calls) /\ calls'[j] # r
  BY <1>6, WithoutFacts DEF IInv, TypeOK, Calls, Elems
<1>8. TypeOK'
  BY <1>1, <1>5, <1>7 DEF IInv, TypeOK
<1>9. Pump' /\ Closing'
  BY <1>1, <1>2 DEF IInv, Pump, Closing
<1>10. Order' /\ Stack' /\ Books'
  BY <1>1, <1>5, AccountKept DEF IInv, Stack
<1>11. Calls'
  <2>1. \A c \in Elems(calls) : c \in Waiting
    BY DEF IInv, Calls, Elems
  <2>2. \A j \in DOMAIN calls' : calls'[j] \in Waiting'
    BY <1>3, <1>5, <1>7, <2>1
  <2>3. Elems(calls)' \subseteq Elems(calls)
    BY <1>7 DEF Elems
  <2>4. ASSUME NEW j \in DOMAIN frames', frames'[j].k = "handler", frames'[j].r # Foreign
        PROVE  /\ frames'[j].r \in Waiting' /\ frames'[j].r \notin Elems(calls)'
               /\ \A k \in DOMAIN frames' : frames'[k] = frames'[j] => k = j
    BY <1>1, <1>3, <1>5, <1>7, <2>3, <2>4 DEF IInv, Calls
  <2> QED BY <1>7, <2>2, <2>4 DEF Calls
<1> QED BY <1>8, <1>9, <1>10, <1>11 DEF IInv

LEMMA InlineInvariant == IInv /\ DispatchInline => IInv'
<1> SUFFICES ASSUME IInv, DispatchInline PROVE IInv'
  OBVIOUS
<1>0. PICK k \in {"sync", "async"} : Send(k)
  BY DEF DispatchInline
<1>1. /\ sent' = sent + 1 /\ sent' \in Reqs /\ sent' \in 0..MaxRequests
      /\ kind' \in [Reqs -> {"none", "sync", "async"}] /\ sent \in Nat
  BY <1>0, NewNumber DEF IInv, TypeOK
<1>2. UNCHANGED <<cancelled, outcome, settled, returned, queue, pumpQueued, pumpsPosted,
                  draining, calls, bridgeCalls, started, frames, foreign, driveFailed,
                  shuttingDown, cleanup, unserved>>
  BY DEF DispatchInline, callerVars, shutdownVars
<1>3. cleanup # "done"
  BY TopWork DEF DispatchInline, LaneRuns
<1>4. WorkFrame(sent', "inline") \in WorkFrames /\ WorkFrame(sent', "inline").r = sent'
  BY <1>1 DEF WorkFrame, WorkFrames
<1>5. sent' \notin Running \cup Elems(queue) \cup unserved
  BY <1>1, HeldWasSent
<1>6. work' = Append(work, WorkFrame(sent', "inline"))
  BY DEF DispatchInline
<1>7. /\ work' \in Seq(WorkFrames) /\ Running' = Running \cup {sent'} /\ Waiting \subseteq Waiting'
      /\ \A i, j \in DOMAIN work' : work'[i].r = work'[j].r => i = j
  <2>1. PICK w \in WorkFrames : w.r = sent' /\ work' = Append(work, w)
    BY <1>4, <1>6
  <2> QED BY <1>5, <2>1, PushRuns DEF IInv, TypeOK
<1>8. Elems(queue)' = Elems(queue)
  BY <1>2 DEF Elems
<1>9. TypeOK'
  BY <1>1, <1>2, <1>7 DEF IInv, TypeOK
<1>10. Pump' /\ Closing'
  BY <1>2, <1>3 DEF IInv, Pump, Closing
<1>11. Calls'
  BY <1>2, <1>7, KeepCalls DEF IInv
<1>12. Order'
  <2>1. \A i \in DOMAIN started : started[i] <= sent'
    BY <1>1, Numbers DEF IInv, Order, TypeOK
  <2>2. \A i \in DOMAIN queue : queue[i] <= sent'
    BY <1>1, Numbers DEF IInv, Order, TypeOK
  <2> QED BY <1>2, <2>1, <2>2 DEF IInv, Order, StartedInOrder, Increasing
<1>13. Stack'
  <2>1. \A r \in Running' : r <= sent'
    BY <1>1, <1>7, HeldWasSent
  <2>2. \A i \in DOMAIN work' : work'[i].r <= sent'
    BY <2>1 DEF Running
  <2> QED BY <1>5, <1>7, <1>8, <2>2 DEF IInv, Stack
<1>14. Books'
  <2>1. ~(sent' <= sent)
    BY <1>1
  <2>2. \A r \in unserved : r <= sent'
    BY <1>1, HeldWasSent
  <2>3. ASSUME NEW r \in Reqs
        PROVE  settled[r] = IF r <= sent' /\ r \notin Running' \cup Elems(queue) \cup unserved
                            THEN 1 ELSE 0
    <3>1. r <= sent' <=> r <= sent \/ r = sent'
      BY <1>1 DEF Reqs
    <3> QED BY <1>1, <1>7, <2>1, <3>1 DEF IInv, Books
  <2>4. unserved \cap (Running' \cup Elems(queue)) = {}
    BY <1>5, <1>7 DEF IInv, Books
  <2> QED BY <1>2, <1>8, <2>2, <2>3, <2>4 DEF IInv, Books
<1> QED BY <1>9, <1>10, <1>11, <1>12, <1>13, <1>14 DEF IInv

LEMMA FinishInvariant == IInv /\ FinishWork => IInv'
<1> SUFFICES ASSUME IInv, FinishWork PROVE IInv'
  OBVIOUS
<1> DEFINE w == Top(work)
<1>1. UNCHANGED <<sent, kind, cancelled, queue, pumpQueued, pumpsPosted, draining, calls,
                  bridgeCalls, started, foreign, driveFailed, shuttingDown, cleanup,
                  unserved>>
  BY DEF FinishWork, shutdownVars
<1>2. /\ work # <<>> /\ ~w.waits /\ w \in WorkFrames /\ w.r \in Reqs /\ w.r \in Running
      /\ w.r \notin Waiting /\ cleanup # "done"
  BY TopWork DEF FinishWork, LaneRuns
<1>3. PICK what \in {"result", "fallback"} : Settle(w.r, what)
  BY DEF FinishWork
<1>4. returned' = returned \/ returned' = returned \cup {w.r}
  BY DEF FinishWork
<1>5. work' = Pop(work)
  BY DEF FinishWork
<1>6. /\ work' \in Seq(WorkFrames) /\ Running' = Running \ {w.r}
      /\ Waiting \ {w.r} \subseteq Waiting'
      /\ \A i, j \in DOMAIN work' : work'[i].r = work'[j].r => i = j
  BY <1>2, <1>5, PopRuns DEF IInv, TypeOK
<1>7. /\ frames' \in Seq(MainFrames) /\ DOMAIN frames' = DOMAIN frames
      /\ \A i \in DOMAIN frames : /\ frames[i].k = "handler" => frames'[i] = frames[i]
                                  /\ frames'[i].k = frames[i].k
  <2>1. CASE MoveDrive(LatestRunning, "done")
    BY <2>1, MoveFacts DEF IInv, TypeOK, LatestRunning, DrivesAt
  <2>2. CASE UNCHANGED frames
    BY <2>2 DEF IInv, TypeOK
  <2> QED BY <2>1, <2>2 DEF FinishWork
<1> HIDE DEF w
<1>8. /\ outcome' \in [Reqs -> {"none", "result", "fallback"}]
      /\ settled' \in [Reqs -> Nat]
      /\ settled'[w.r] = settled[w.r] + 1
      /\ \A q \in Reqs : q # w.r => settled'[q] = settled[q]
  BY <1>2, <1>3, SettleFacts DEF IInv
<1>9. Elems(queue)' = Elems(queue)
  BY <1>1 DEF Elems
<1>10. w.r \notin Elems(queue) /\ w.r \notin unserved /\ w.r <= sent /\ settled[w.r] = 0
  BY <1>2, HeldWasSent DEF IInv, Stack, Books
<1>11. TypeOK'
  BY <1>1, <1>2, <1>4, <1>6, <1>7, <1>8 DEF IInv, TypeOK
<1>12. Pump' /\ Closing'
  BY <1>1, <1>2 DEF IInv, Pump, Closing
<1>13. Calls'
  <2>1. Waiting \subseteq Waiting'
    BY <1>2, <1>6
  <2> QED BY <1>1, <1>7, <2>1, KeepCalls DEF IInv
<1>14. Order'
  BY <1>1 DEF IInv, Order, StartedInOrder, Increasing
<1>15. Stack'
  <2>1. \A i \in DOMAIN work' : work'[i].r \in Running'
    BY DEF Running
  <2>2. \A i \in DOMAIN work' : work'[i].r <= sent
    BY <1>6, <2>1, HeldWasSent
  <2> QED BY <1>1, <1>6, <1>9, <2>2 DEF IInv, Stack
<1>16. Books'
  <2>1. ASSUME NEW r \in Reqs
        PROVE  settled'[r] = IF r <= sent /\ r \notin Running' \cup Elems(queue) \cup unserved
                             THEN 1 ELSE 0
    <3>1. CASE r = w.r
      BY <1>6, <1>8, <1>10, <3>1
    <3>2. CASE r # w.r
      BY <1>6, <1>8, <3>2 DEF IInv, Books
    <3> QED BY <3>1, <3>2
  <2>2. \A r \in returned' : settled'[r] = 1
    <3>1. returned \subseteq Reqs
      BY DEF IInv, TypeOK
    <3>2. \A r \in returned : r # w.r /\ settled[r] = 1
      BY <1>10 DEF IInv, Books
    <3>3. settled'[w.r] = 1
      BY <1>8, <1>10
    <3> QED BY <1>4, <1>8, <3>1, <3>2, <3>3
  <2>3. unserved \cap (Running' \cup Elems(queue)) = {}
    BY <1>6 DEF IInv, Books
  <2> QED BY <1>1, <1>9, <2>1, <2>2, <2>3 DEF IInv, Books
<1> QED BY <1>11, <1>12, <1>13, <1>14, <1>15, <1>16 DEF IInv

-----------------------------------------------------------------------------
(* Shutdown. *)

LEMMA ShutDownInvariant == IInv /\ ShutDown => IInv'
<1> SUFFICES ASSUME IInv, ShutDown PROVE IInv'
  OBVIOUS
<1>1. UNCHANGED <<sent, kind, cancelled, outcome, settled, returned, pumpsPosted, draining,
                  work, calls, bridgeCalls, started, foreign, driveFailed>>
  BY DEF ShutDown, requestVars
<1>2. /\ shuttingDown' = TRUE /\ cleanup' = "posted" /\ queue' = <<>> /\ pumpQueued' = FALSE
      /\ unserved' = Elems(queue) /\ ~shuttingDown
  BY DEF ShutDown, TakenByShutdown, Elems
<1>3. Elems(queue)' = {} /\ DOMAIN queue' = {} /\ queue' \in Seq(Reqs)
  BY <1>2 DEF Elems
<1>4. Running' = Running
  BY <1>1 DEF Running
<1>5. ShutdownFrame \in MainFrames /\ ShutdownFrame.k # "handler"
  BY DEF ShutdownFrame, MainFrames
<1>6. frames' \in Seq(MainFrames) /\ Calls'
  BY <1>1, <1>5, PushCalls DEF ShutDown, IInv, TypeOK
<1>7. unserved = {} /\ cleanup = "none"
  BY <1>2 DEF IInv, Closing
<1>8. \A r \in unserved' : r \in Reqs /\ r <= sent
  BY <1>2, HeldWasSent
<1>9. TypeOK'
  BY <1>1, <1>2, <1>3, <1>6, <1>8 DEF IInv, TypeOK
<1>10. Pump' /\ Closing'
  BY <1>1, <1>2 DEF IInv, Pump, Closing
<1>11. Order'
  BY <1>1, <1>3 DEF IInv, Order, StartedInOrder, Increasing
<1>12. Stack'
  BY <1>1, <1>3, <1>4 DEF IInv, Stack
<1>13. Books'
  BY <1>1, <1>2, <1>3, <1>4, <1>7, <1>8 DEF IInv, Stack, Books
<1> QED BY <1>6, <1>9, <1>10, <1>11, <1>12, <1>13 DEF IInv

LEMMA CleanUpInvariant == IInv /\ CleanUp => IInv'
<1> SUFFICES ASSUME IInv, CleanUp PROVE IInv'
  OBVIOUS
<1>1. UNCHANGED <<sent, kind, cancelled, outcome, settled, returned, queue, pumpQueued,
                  pumpsPosted, draining, work, calls, bridgeCalls, started, frames, foreign,
                  driveFailed, shuttingDown, unserved>>
  BY DEF CleanUp, requestVars, laneVars, callerVars
<1>2. cleanup = "posted" /\ cleanup' = "done" /\ work = <<>> /\ ~draining /\ pumpsPosted = 0
  BY DEF CleanUp, LaneAtLoop
<1>3. calls = <<>>
  <2>1. Waiting = {}
    BY <1>2 DEF Waiting
  <2>2. DOMAIN calls = {}
    BY <2>1 DEF IInv, Calls
  <2> QED BY <2>2 DEF IInv, TypeOK
<1>4. TypeOK'
  BY <1>1, <1>2 DEF IInv, TypeOK
<1>5. Pump' /\ Closing'
  BY <1>1, <1>2, <1>3 DEF IInv, Pump, Closing
<1>6. Calls'
  BY <1>1 DEF IInv, Calls, Waiting, Elems, Injective
<1>7. Running' = Running
  BY <1>1 DEF Running
<1>8. Order' /\ Stack' /\ Books'
  BY <1>1, <1>7, AccountKept DEF IInv, Stack
<1> QED BY <1>4, <1>5, <1>6, <1>8 DEF IInv

LEMMA FallbackInvariant == \A r \in Reqs : IInv /\ DeliverFallback(r) => IInv'
<1> SUFFICES ASSUME NEW r \in Reqs, IInv, DeliverFallback(r) PROVE IInv'
  OBVIOUS
<1>1. UNCHANGED <<sent, kind, cancelled, returned, queue, pumpQueued, pumpsPosted, draining,
                  work, calls, bridgeCalls, started, frames, foreign, driveFailed,
                  shuttingDown, cleanup>>
  BY DEF DeliverFallback, laneVars, callerVars
<1>2. r \in unserved /\ unserved' = unserved \ {r}
  BY DEF DeliverFallback
<1>3. /\ outcome' \in [Reqs -> {"none", "result", "fallback"}]
      /\ settled' \in [Reqs -> Nat]
      /\ settled'[r] = settled[r] + 1
      /\ \A q \in Reqs : q # r => settled'[q] = settled[q]
  BY SettleFacts DEF DeliverFallback, IInv
<1>4. Running' = Running /\ Elems(queue)' = Elems(queue)
  BY <1>1 DEF Running, Elems
<1>5. r \notin Running \cup Elems(queue) /\ settled[r] = 0 /\ r <= sent
  BY <1>2 DEF IInv, Books
<1>6. TypeOK'
  BY <1>1, <1>2, <1>3 DEF IInv, TypeOK
<1>7. Pump' /\ Closing'
  BY <1>1, <1>2 DEF IInv, Pump, Closing
<1>8. Calls'
  BY <1>1 DEF IInv, Calls, Waiting, Elems, Injective
<1>9. Order'
  BY <1>1 DEF IInv, Order, StartedInOrder, Increasing
<1>10. Stack'
  BY <1>1, <1>4 DEF IInv, Stack
<1>11. Books'
  <2>1. ASSUME NEW q \in Reqs
        PROVE  settled'[q] = IF q <= sent /\ q \notin Running \cup Elems(queue) \cup unserved'
                             THEN 1 ELSE 0
    <3>1. CASE q = r
      BY <1>2, <1>3, <1>5, <3>1
    <3>2. CASE q # r
      BY <1>2, <1>3, <3>2 DEF IInv, Books
    <3> QED BY <3>1, <3>2
  <2>2. \A q \in returned : settled'[q] = 1
    <3>1. \A q \in returned : q \in Reqs /\ q # r
      BY <1>5 DEF IInv, TypeOK, Books
    <3> QED BY <1>3, <3>1 DEF IInv, Books
  <2>3. unserved' \cap (Running \cup Elems(queue)) = {} /\ \A q \in unserved' : q <= sent
    BY <1>2 DEF IInv, Books
  <2> QED BY <1>1, <1>4, <2>1, <2>2, <2>3 DEF IInv, Books
<1> QED BY <1>6, <1>7, <1>8, <1>9, <1>10, <1>11 DEF IInv

LEMMA StutterInvariant == IInv /\ UNCHANGED vars => IInv'
<1> SUFFICES ASSUME IInv, UNCHANGED vars PROVE IInv'
  OBVIOUS
<1>1. UNCHANGED <<requestVars, laneVars, shutdownVars, callerVars>>
  BY DEF vars
<1>2. UNCHANGED <<calls, work, frames, foreign, driveFailed>>
  BY <1>1 DEF laneVars, callerVars
<1>3. Calls'
  BY <1>2 DEF IInv, Calls, Waiting, Elems, Injective
<1>4. frames' \in Seq(MainFrames) /\ foreign' \in 0..MaxForeign /\ driveFailed' \subseteq Reqs
  BY <1>2 DEF IInv, TypeOK
<1> QED BY <1>1, <1>3, <1>4, FramesInvariant

-----------------------------------------------------------------------------
(* The theorems. *)

LEMMA NextInvariant == IInv /\ [Next]_vars => IInv'
<1> SUFFICES ASSUME IInv, [Next]_vars PROVE IInv'
  OBVIOUS
<1>1. CASE Dispatching
  BY <1>1, SyncInvariant, AsyncInvariant, RefusedInvariant, CancelInvariant DEF Dispatching
<1>2. CASE ServeBridge \/ HandlerReturns
  BY <1>2, ServeBridgeInvariant, HandlerReturnsInvariant
<1>3. CASE Drive \/ DriveEnds \/ DriveExpires
  BY <1>3, DriveInvariant
<1>4. CASE SyncReturns \/ ServeForeign
  BY <1>4, SyncReturnsInvariant, ForeignInvariant
<1>5. CASE PumpBegins \/ PumpStarts \/ PumpEnds
  BY <1>5, PumpMovesInvariant, PumpStartsInvariant
<1>6. CASE ServeDrive \/ CallBridge \/ BridgeTimesOut
  BY <1>6, ServeDriveInvariant, CallBridgeInvariant, BridgeTimesOutInvariant
<1>7. CASE DispatchInline \/ FinishWork
  BY <1>7, InlineInvariant, FinishInvariant
<1>8. CASE ShutDown \/ CleanUp \/ \E r \in Reqs : DeliverFallback(r)
  BY <1>8, ShutDownInvariant, CleanUpInvariant, FallbackInvariant
<1>9. CASE Terminated \/ UNCHANGED vars
  BY <1>9, StutterInvariant DEF Terminated
<1> QED BY <1>1, <1>2, <1>3, <1>4, <1>5, <1>6, <1>7, <1>8, <1>9
        DEF Next, Caller, Lane

\* The inductive invariant holds of every behaviour of the lane and its caller.
THEOREM Invariant == Spec => []IInv
BY InitInvariant, NextInvariant, PTL DEF Spec

\* Every state of the lane, of the dispatches and of the two stacks is well formed;
\* in particular at most one call of processQueuedDispatches is ever posted.
THEOREM TypeCorrect == Spec => []TypeOK
<1>1. IInv => TypeOK
  BY DEF IInv
<1> QED BY <1>1, Invariant, PTL

\* dispatchQueuePumpQueued alone decides whether enqueueQueuedDispatch posts a pump,
\* and that never strands a request: one is posted or running whenever there is one.
THEOREM QueueAlwaysHasPump == Spec => []QueueHasPump
<1>1. IInv => QueueHasPump
  BY DEF IInv, Pump, QueueHasPump
<1> QED BY <1>1, Invariant, PTL

\* processOneQueuedDispatch starts the dispatches in the order in which they were
\* made, though drives nest later ones inside earlier ones.
THEOREM DispatchesStartInOrder == Spec => []StartedInOrder
<1>1. IInv => StartedInOrder
  BY DEF IInv, Order
<1> QED BY <1>1, Invariant, PTL

\* A request is completed once at most: by the lane, by the fallback that refuses it
\* or by deliverShutdownFallbacks, and never by two of them.
THEOREM EachSettledOnce == Spec => []SettledOnce
<1>1. IInv => SettledOnce
  BY DEF IInv, Books, SettledOnce
<1> QED BY <1>1, Invariant, PTL

\* When dispatchBatch returns, the lane neither runs the dispatch nor will run it, so
\* what the caller lent to it is no longer used.
THEOREM NoOrphanedDispatch == Spec => []NoOrphans
<1>1. ASSUME IInv, NEW r \in returned
      PROVE  r \notin Running /\ r \notin Elems(queue)
  BY <1>1 DEF IInv, Books, TypeOK
<1>2. IInv => NoOrphans
  BY <1>1 DEF NoOrphans, Running, Elems
<1> QED BY <1>2, Invariant, PTL

\* When the lane has been torn down nothing is left on it, and the destructor ends
\* with every dispatch completed exactly once.
THEOREM QuietShutdown == Spec => []QuietAtTheEnd
<1>1. ASSUME IInv, cleanup = "done"
      PROVE  LaneAtLoop /\ queue = <<>> /\ calls = <<>> /\ Running = {} /\ Elems(queue) = {}
  BY <1>1 DEF IInv, Closing, LaneAtLoop, Running, Elems
<1>2. ASSUME IInv, cleanup = "done", unserved = {}, NEW r \in 1..sent
      PROVE  settled[r] = 1
  <2>1. r \in Reqs /\ r <= sent
    BY <1>2, LaneAssumption DEF IInv, TypeOK, Reqs
  <2>2. r \notin Running \cup Elems(queue) \cup unserved
    BY <1>1, <1>2
  <2> QED BY <1>2, <2>1, <2>2 DEF IInv, Books
<1>3. IInv => QuietAtTheEnd
  BY <1>1, <1>2 DEF QuietAtTheEnd, WorkerGone
<1> QED BY <1>3, Invariant, PTL
=============================================================================
