---------------------- MODULE CompletionSequencerProofs ----------------------
(***************************************************************************)
(* Proofs about CompletionSequencer, for any number of tickets.  The order *)
(* of the completions rests on the single driver: a completion begins only *)
(* in the delivery that is under way, and that delivery is the newest ever *)
(* made.  Shape ties the queue, the posts and the attempts together so     *)
(* that this can be carried through every step.                            *)
(***************************************************************************)
EXTENDS CompletionSequencer, TLAPS

Begun == {started[i] : i \in DOMAIN started}

\* The queue: free tickets behind it, settled ones before it, resolved ones posted.
QueueShape ==
  /\ \A k \in Tickets : status[k] = "free" <=> k > last
  /\ \A k \in Tickets : k < first => status[k] \in {"resolved", "skipped"}
  /\ \A k \in Tickets : post[k] # "none" <=> k < first /\ status[k] = "resolved"
  /\ \A k \in Tickets : status[k] = "resolved" /\ post[k] = "none" => outcome[k] = "none"

\* One delivery: the post, its attempt and the two flags of the handshake.
DeliveryShape == \A k \in Tickets :
  /\ post[k] = "posted" <=> job[k] # "none"
  /\ callReturned[k] => post[k] = "posted"
  /\ finished[k] => job[k] = "ended"
  /\ post[k] # "none" /\ job[k] \in {"none", "queued", "running", "canceled"} => outcome[k] = "none"
  /\ job[k] = "running" => k \in Begun
  /\ job[k] \in {"ending", "ended"} /\ outcome[k] = "executed" => k \in Begun
  /\ job[k] = "ending" => outcome[k] \in {"none", "executed"}
  /\ job[k] = "ended" => outcome[k] \in {"executed", "recovered"}
  /\ k \in Begun => job[k] \in {"running", "ending", "ended"}

\* The delivery under way is the newest.
NewestInFlight ==
  \A j, k \in Tickets : InFlight(k) /\ post[j] # "none" => j <= k

IInv == /\ TypeOK /\ OneDriver /\ NoLostStart
        /\ QueueShape /\ DeliveryShape /\ NewestInFlight /\ StartedInOrder

-----------------------------------------------------------------------------
(* Facts about a state. *)

\* An attempt that has not ended belongs to the delivery under way.
LEMMA OpenIsInFlight ==
  ASSUME IInv, NEW k \in Tickets
  PROVE  /\ job[k] \in {"queued", "running", "canceled", "ending"} => InFlight(k)
         /\ post[k] = "calling" => InFlight(k)
         /\ post[k] = "posted" /\ ~callReturned[k] => InFlight(k)
         /\ job[k] = "ended" /\ ~finished[k] => InFlight(k)
BY DEF IInv, DeliveryShape, InFlight

\* A delivery under way leaves nobody at the top of the loop.
LEMMA InFlightExcludesLoop ==
  ASSUME IInv, NEW k \in Tickets, InFlight(k)
  PROVE  atTop = 0 /\ deliveryActive /\ \A j \in Tickets : InFlight(j) => j = k
BY DEF IInv, OneDriver, TypeOK

LEMMA AppendBegins ==
  ASSUME NEW s \in Seq(Tickets), NEW k \in Tickets
  PROVE  /\ Append(s, k) \in Seq(Tickets)
         /\ {Append(s, k)[i] : i \in DOMAIN Append(s, k)} = {s[i] : i \in DOMAIN s} \cup {k}
         /\ (\A i, j \in DOMAIN s : i < j => s[i] < s[j]) /\ (\A i \in DOMAIN s : s[i] < k)
            => \A i, j \in DOMAIN Append(s, k) : i < j => Append(s, k)[i] < Append(s, k)[j]
<1> DEFINE A == Append(s, k)
<1>1. /\ A \in Seq(Tickets)
      /\ DOMAIN A = DOMAIN s \cup {Len(s) + 1}
      /\ \A i \in DOMAIN s : A[i] = s[i]
      /\ A[Len(s) + 1] = k
      /\ DOMAIN s = 1 .. Len(s) /\ Len(s) \in Nat
  BY DEF Tickets
<1> HIDE DEF A
<1>2. {A[i] : i \in DOMAIN A} = {s[i] : i \in DOMAIN s} \cup {k}
  BY <1>1
<1>3. ASSUME \A i, j \in DOMAIN s : i < j => s[i] < s[j], \A i \in DOMAIN s : s[i] < k,
             NEW i \in DOMAIN A, NEW j \in DOMAIN A, i < j
      PROVE  A[i] < A[j]
  <2>1. i \in DOMAIN s
    BY <1>1, <1>3
  <2>2. CASE j \in DOMAIN s
    BY <1>1, <1>3, <2>1, <2>2
  <2>3. CASE j = Len(s) + 1
    BY <1>1, <1>3, <2>1, <2>3
  <2> QED BY <1>1, <2>2, <2>3
<1> QED BY <1>1, <1>2, <1>3 DEF A

-----------------------------------------------------------------------------
(* Each step preserves IInv. *)

LEMMA InitInvariant == Init => IInv
<1> SUFFICES ASSUME Init PROVE IInv
  OBVIOUS
<1>1. Begun = {} /\ DOMAIN started = {} /\ started \in Seq(Tickets)
  BY DEF Init, Begun
<1>2. TypeOK
  <2>1. first = 1 /\ last = 0 /\ atTop = 0 /\ 0 <= MaxTickets
    BY TicketsAssumption DEF Init
  <2>2. first \in Nat \ {0} /\ last \in Nat /\ first <= last + 1 /\ last <= MaxTickets
    BY <2>1
  <2> QED BY <1>1, <2>1, <2>2 DEF Init, TypeOK
<1>3. OneDriver /\ NoLostStart /\ NewestInFlight /\ StartedInOrder
  BY <1>1 DEF Init, OneDriver, NoLostStart, NewestInFlight, StartedInOrder, InFlight,
     HeadResolved, HeadIs
<1>4. QueueShape /\ DeliveryShape
  BY <1>1 DEF Init, QueueShape, DeliveryShape, Tickets
<1> QED BY <1>2, <1>3, <1>4 DEF IInv

LEMMA ReserveInvariant == IInv /\ Reserve => IInv'
<1> SUFFICES ASSUME IInv, Reserve PROVE IInv'
  OBVIOUS
<1> USE DEF IInv
<1>1. /\ last' = last + 1 /\ last' \in Tickets
      /\ status' = [status EXCEPT ![last'] = "reserved"]
      /\ status[last'] = "free" /\ first <= last'
  BY TicketsAssumption DEF Reserve, TypeOK, Tickets, QueueShape
<1>2. UNCHANGED <<first, deliveryActive, atTop, post, job, callReturned, finished, outcome, started>>
  BY DEF Reserve
<1>3. TypeOK'
  BY <1>1, <1>2 DEF TypeOK, Tickets
<1>4. OneDriver' /\ NewestInFlight' /\ StartedInOrder'
  BY <1>2 DEF OneDriver, NewestInFlight, InFlight, StartedInOrder
<1>5. NoLostStart'
  <2>1. CASE first = last + 1
    BY <1>1, <1>2, <2>1 DEF NoLostStart, HeadResolved, HeadIs, TypeOK
  <2>2. CASE first <= last
    BY <1>1, <1>2, <2>2 DEF NoLostStart, HeadResolved, HeadIs, TypeOK, Tickets
  <2> QED BY <2>1, <2>2 DEF TypeOK
<1>6. QueueShape'
  <2>1. \A k \in Tickets : status'[k] = "free" <=> k > last'
    BY <1>1 DEF QueueShape, TypeOK, Tickets
  <2>2. \A k \in Tickets : k < first => k # last'
    BY <1>1 DEF TypeOK, Tickets
  <2> QED BY <1>1, <1>2, <2>1, <2>2 DEF QueueShape, TypeOK
<1>7. DeliveryShape'
  BY <1>2 DEF DeliveryShape, Begun
<1> QED BY <1>3, <1>4, <1>5, <1>6, <1>7

LEMMA SettleInvariant ==
  ASSUME IInv, NEW k \in Tickets, NEW to \in {"resolved", "skipped"}, Settle(k, to),
         outcome' \in [Tickets -> {"none", "executed", "recovered", "abandoned"}],
         \A j \in Tickets : j # k => outcome'[j] = outcome[j],
         to = "resolved" => outcome'[k] = "none"
  PROVE  IInv'
<1> USE DEF IInv
<1>1. /\ status[k] = "reserved" /\ status' = [status EXCEPT ![k] = to]
      /\ UNCHANGED <<first, last, post, job, callReturned, finished, started>>
  BY DEF Settle
<1> DEFINE start == ~deliveryActive /\ HeadResolved(status')
<1>2. /\ start => deliveryActive' = TRUE /\ atTop' = atTop + 1
      /\ ~start => deliveryActive' = deliveryActive /\ atTop' = atTop
  BY DEF Settle, SequencerIdle, TypeOK
<1> HIDE DEF start
<1>3. ~(k < first) /\ post[k] = "none" /\ job[k] = "none" /\ k <= last
  BY <1>1 DEF QueueShape, TypeOK, Tickets, DeliveryShape
<1>4. start => atTop = 0 /\ ~deliveryActive /\ \A j \in Tickets : ~InFlight(j)
  BY DEF OneDriver, TypeOK, start
<1>5. TypeOK'
  <2>1. atTop' \in {0, 1} /\ deliveryActive' \in BOOLEAN
    <3>1. CASE start
      <4>1. atTop = 0
        BY <1>4, <3>1
      <4>2. atTop' = 1 /\ deliveryActive' = TRUE
        BY <1>2, <3>1, <4>1
      <4> QED BY <4>2
    <3>2. CASE ~start
      BY <1>2, <3>2 DEF TypeOK
    <3> QED BY <3>1, <3>2
  <2> QED BY <1>1, <2>1 DEF TypeOK
<1>6. OneDriver'
  <2>1. \A j \in Tickets : InFlight(j)' <=> InFlight(j)
    BY <1>1 DEF InFlight
  <2>2. CASE start
    <3>1. atTop' = 1 /\ deliveryActive' = TRUE /\ \A j \in Tickets : ~InFlight(j)'
      BY <1>2, <1>4, <2>1, <2>2
    <3> QED BY <3>1 DEF OneDriver
  <2>3. CASE ~start
    <3>1. atTop' = atTop /\ deliveryActive' = deliveryActive
      BY <1>2, <2>3 DEF TypeOK
    <3> QED BY <3>1, <2>1 DEF OneDriver
  <2> QED BY <2>2, <2>3
<1>7. NoLostStart'
  BY <1>1, <1>2 DEF NoLostStart, HeadResolved, HeadIs, start
<1>8. QueueShape'
  BY <1>1, <1>3 DEF QueueShape, TypeOK
<1>9. DeliveryShape'
  <2> SUFFICES ASSUME NEW j \in Tickets PROVE DeliveryShape!(j)'
    BY DEF DeliveryShape
  <2>1. CASE j = k
    BY <1>1, <1>3, <2>1 DEF DeliveryShape, Begun
  <2>2. CASE j # k
    BY <1>1, <2>2 DEF DeliveryShape, Begun
  <2> QED BY <2>1, <2>2
<1>10. NewestInFlight' /\ StartedInOrder'
  BY <1>1 DEF NewestInFlight, StartedInOrder, InFlight
<1> QED BY <1>5, <1>6, <1>7, <1>8, <1>9, <1>10

\* Only the ticket's own status and outcome, and maybe the loop, change.
LEMMA CallerInvariant ==
  ASSUME IInv, NEW k \in Tickets, Caller(k)
  PROVE  IInv'
<1>1. CASE Resolve(k)
  <2>1. outcome' = outcome /\ outcome[k] = "none" /\ Settle(k, "resolved")
    BY <1>1 DEF Resolve
  <2> QED BY <2>1, SettleInvariant DEF IInv, TypeOK
<1>2. CASE Skip(k)
  <2>1. /\ outcome' = [outcome EXCEPT ![k] = IF @ = "none" THEN "abandoned" ELSE @]
        /\ Settle(k, "skipped")
    BY <1>2 DEF Skip
  <2>2. outcome' \in [Tickets -> {"none", "executed", "recovered", "abandoned"}]
    BY <2>1 DEF IInv, TypeOK
  <2>3. \A j \in Tickets : j # k => outcome'[j] = outcome[j]
    BY <2>1 DEF IInv, TypeOK
  <2> QED BY <2>1, <2>2, <2>3, SettleInvariant
<1>3. CASE DeliverDirect(k)
  <2> USE DEF IInv
  <2>1. /\ status[k] = "reserved"
        /\ UNCHANGED <<queueVars, atTop, post, job, callReturned, finished, started>>
        /\ outcome' \in [Tickets -> {"none", "executed", "recovered", "abandoned"}]
        /\ \A j \in Tickets : j # k => outcome'[j] = outcome[j]
    BY <1>3 DEF DeliverDirect, TypeOK
  <2>2. post[k] = "none" /\ job[k] = "none"
    BY <2>1 DEF QueueShape, DeliveryShape, TypeOK
  <2>3. TypeOK' /\ OneDriver' /\ NoLostStart' /\ NewestInFlight' /\ StartedInOrder'
    BY <2>1 DEF TypeOK, OneDriver, NoLostStart, NewestInFlight, StartedInOrder, InFlight,
       HeadResolved, HeadIs, queueVars
  <2>4. QueueShape'
    BY <2>1, <2>2 DEF QueueShape, queueVars
  <2>5. DeliveryShape'
    <3> SUFFICES ASSUME NEW j \in Tickets PROVE DeliveryShape!(j)'
      BY DEF DeliveryShape
    <3>1. CASE j = k
      BY <2>1, <2>2, <3>1 DEF DeliveryShape, Begun
    <3>2. CASE j # k
      BY <2>1, <3>2 DEF DeliveryShape, Begun
    <3> QED BY <3>1, <3>2
  <2> QED BY <2>3, <2>4, <2>5
<1> QED BY <1>1, <1>2, <1>3 DEF Caller

LEMMA LoopInvariant == IInv /\ Loop => IInv'
<1> SUFFICES ASSUME IInv, Loop PROVE IInv'
  OBVIOUS
<1> USE DEF IInv
<1>1. atTop = 1 /\ deliveryActive /\ \A k \in Tickets : ~InFlight(k)
  BY DEF Loop, GoIdle, DropSkipped, DequeueResolved, OneDriver, TypeOK
<1>2. CASE GoIdle
  <2>1. /\ ~HeadResolved(status) /\ deliveryActive' = FALSE /\ atTop' = 0
        /\ UNCHANGED <<first, last, status, post, job, callReturned, finished, outcome, started>>
    BY <1>1, <1>2 DEF GoIdle, NothingToDeliver
  <2>2. TypeOK'
    BY <2>1 DEF TypeOK
  <2>5. \A k \in Tickets : ~InFlight(k)'
    BY <1>1, <2>1 DEF InFlight
  <2>6. OneDriver'
    BY <2>1, <2>5 DEF OneDriver
  <2>3. NoLostStart'
    BY <2>1 DEF NoLostStart, HeadResolved, HeadIs
  <2>4. QueueShape' /\ DeliveryShape' /\ NewestInFlight' /\ StartedInOrder'
    BY <2>1 DEF QueueShape, DeliveryShape, NewestInFlight, StartedInOrder, InFlight, Begun
  <2> QED BY <2>2, <2>3, <2>4, <2>6
<1>3. CASE DropSkipped
  <2>1. /\ first <= last /\ status[first] = "skipped" /\ first' = first + 1
        /\ UNCHANGED <<last, status, deliveryActive, atTop, post, job, callReturned,
                       finished, outcome, started>>
    BY <1>3 DEF DropSkipped, HeadIs
  <2>2. TypeOK'
    BY <2>1 DEF TypeOK
  <2>3. OneDriver' /\ NoLostStart'
    BY <1>1, <2>1 DEF OneDriver, InFlight, NoLostStart
  <2>4. QueueShape'
    <3>1. \A k \in Tickets : k < first' => k < first \/ k = first
      BY <2>1 DEF TypeOK, Tickets
    <3>2. \A k \in Tickets : k < first => k < first'
      BY <2>1 DEF TypeOK, Tickets
    <3> QED BY <2>1, <3>1, <3>2 DEF QueueShape
  <2>5. DeliveryShape' /\ NewestInFlight' /\ StartedInOrder'
    BY <2>1 DEF DeliveryShape, NewestInFlight, StartedInOrder, InFlight, Begun
  <2> QED BY <2>2, <2>3, <2>4, <2>5
<1>4. CASE DequeueResolved
  <2>1. /\ first <= last /\ status[first] = "resolved" /\ first' = first + 1 /\ atTop' = 0
        /\ post' = [post EXCEPT ![first] = "calling"]
        /\ UNCHANGED <<last, status, deliveryActive, job, callReturned, finished, outcome, started>>
    BY <1>1, <1>4 DEF DequeueResolved, HeadIs
  <2>2. PICK f \in Tickets : f = first
    <3>1. first \in Nat /\ last \in Nat /\ first # 0 /\ first <= MaxTickets
      BY <2>1, TicketsAssumption DEF TypeOK
    <3> QED BY <3>1, TicketsAssumption DEF Tickets
  <2>11. post' = [post EXCEPT ![f] = "calling"] /\ status[f] = "resolved" /\ first' = f + 1
    BY <2>1, <2>2
  <2>3. /\ post[f] = "none" /\ job[f] = "none" /\ outcome[f] = "none"
        /\ ~callReturned[f] /\ ~finished[f]
    BY <2>1, <2>2, <2>11 DEF QueueShape, DeliveryShape, TypeOK
  <2>4. /\ InFlight(f)' /\ post'[f] = "calling"
        /\ \A k \in Tickets : k # f => post'[k] = post[k] /\ ~InFlight(k)'
    <3>1. post'[f] = "calling" /\ \A k \in Tickets : k # f => post'[k] = post[k]
      BY <2>1, <2>2, <2>11 DEF TypeOK
    <3>2. callReturned' = callReturned /\ finished' = finished
      BY <2>1
    <3>3. InFlight(f)'
      BY <2>2, <2>3, <3>1, <3>2 DEF InFlight
    <3>4. \A k \in Tickets : k # f => ~InFlight(k)'
      BY <1>1, <3>1, <3>2 DEF InFlight
    <3> QED BY <3>1, <3>3, <3>4
  <2>5. TypeOK'
    BY <2>1, <2>2, <2>11 DEF TypeOK
  <2>6. OneDriver' /\ NoLostStart'
    <3>1. deliveryActive' = deliveryActive /\ atTop' # 1
      BY <2>1
    <3>2. deliveryActive'
      BY <1>1, <3>1
    <3>3. \E k \in Tickets : InFlight(k)'
      BY <2>2, <2>4
    <3> QED BY <2>4, <3>1, <3>2, <3>3 DEF OneDriver, NoLostStart
  <2>7. QueueShape'
    <3>1. \A k \in Tickets : k < first' => k < first \/ k = f
      BY <2>1, <2>2 DEF TypeOK, Tickets
    <3>2. \A k \in Tickets : k < first \/ k = f => k < first'
      BY <2>1, <2>2 DEF TypeOK, Tickets
    <3> QED BY <2>1, <2>2, <2>11, <2>4, <3>1, <3>2 DEF QueueShape
  <2>8. DeliveryShape'
    <3> SUFFICES ASSUME NEW j \in Tickets PROVE DeliveryShape!(j)'
      BY DEF DeliveryShape
    <3>1. CASE j = f
      BY <2>1, <2>3, <2>4, <2>11, <3>1 DEF DeliveryShape, Begun
    <3>2. CASE j # f
      BY <2>1, <2>4, <3>2 DEF DeliveryShape, Begun
    <3> QED BY <3>1, <3>2
  <2>9. NewestInFlight'
    <3>1. \A j \in Tickets : post'[j] # "none" => j <= f
      BY <2>1, <2>2, <2>4 DEF QueueShape, TypeOK, Tickets
    <3> QED BY <2>4, <3>1 DEF NewestInFlight
  <2>10. StartedInOrder'
    BY <2>1 DEF StartedInOrder
  <2> QED BY <2>5, <2>6, <2>7, <2>8, <2>9, <2>10
<1> QED BY <1>2, <1>3, <1>4 DEF Loop

\* The post and the attempt it made; the delivery stays under way.
LEMMA PostInvariant ==
  ASSUME IInv, NEW k \in Tickets, Post(k)
  PROVE  IInv'
<1> USE DEF IInv
<1>1. PICK to \in {"ending", "queued", "canceled"} :
        /\ post[k] = "calling" /\ post' = [post EXCEPT ![k] = "posted"]
        /\ job' = [job EXCEPT ![k] = to]
        /\ UNCHANGED <<queueVars, atTop, callReturned, finished, outcome, started>>
  BY DEF Post
<1>2. /\ job[k] = "none" /\ outcome[k] = "none" /\ k \notin Begun
      /\ ~callReturned[k] /\ ~finished[k]
  BY <1>1 DEF DeliveryShape, TypeOK
<1>3. \A j \in Tickets : /\ InFlight(j)' <=> InFlight(j)
                         /\ post'[j] = "none" <=> post[j] = "none"
  BY <1>1, <1>2 DEF InFlight, TypeOK
<1>4. TypeOK'
  BY <1>1 DEF TypeOK, queueVars
<1>5. OneDriver' /\ NewestInFlight' /\ NoLostStart' /\ StartedInOrder' /\ QueueShape'
  BY <1>1, <1>3 DEF OneDriver, NewestInFlight, NoLostStart, HeadResolved, HeadIs,
     StartedInOrder, QueueShape, queueVars
<1>6. DeliveryShape'
  <2> SUFFICES ASSUME NEW j \in Tickets PROVE DeliveryShape!(j)'
    BY DEF DeliveryShape
  <2>1. CASE j = k
    BY <1>1, <1>2, <2>1 DEF DeliveryShape, Begun, TypeOK
  <2>2. CASE j # k
    BY <1>1, <2>2 DEF DeliveryShape, Begun, TypeOK
  <2> QED BY <2>1, <2>2
<1> QED BY <1>4, <1>5, <1>6

\* Signing off first leaves the delivery to the other party, signing off second
\* passes the token on to the loop.
LEMMA SignOffInvariant ==
  ASSUME IInv, NEW k \in Tickets, InFlight(k),
         NEW goesOn \in BOOLEAN,
         atTop' = IF goesOn THEN atTop + 1 ELSE atTop,
         \A j \in Tickets : j # k => (InFlight(j)' <=> InFlight(j)),
         InFlight(k)' <=> ~goesOn,
         UNCHANGED <<queueVars, post>>
  PROVE  OneDriver' /\ atTop' \in {0, 1} /\ NewestInFlight'
<1>1. atTop = 0 /\ deliveryActive /\ \A j \in Tickets : InFlight(j) => j = k
  BY InFlightExcludesLoop
<1>2. atTop' \in {0, 1} /\ (atTop' = 1 <=> goesOn)
  BY <1>1
<1>3. \A j \in Tickets : InFlight(j)' => j = k /\ ~goesOn
  BY <1>1
<1>4. deliveryActive'
  BY <1>1 DEF queueVars
<1>5. OneDriver'
  BY <1>2, <1>3, <1>4 DEF OneDriver
<1>6. NewestInFlight'
  BY <1>3 DEF NewestInFlight, IInv, queueVars
<1> QED BY <1>2, <1>5, <1>6

LEMMA ReturnFromPostInvariant ==
  ASSUME IInv, NEW k \in Tickets, ReturnFromPost(k)
  PROVE  IInv'
<1>1. /\ post[k] = "posted" /\ ~callReturned[k]
      /\ callReturned' = [callReturned EXCEPT ![k] = TRUE]
      /\ atTop' = IF finished[k] THEN atTop + 1 ELSE atTop
      /\ UNCHANGED <<queueVars, post, job, finished, outcome, started>>
  BY DEF ReturnFromPost, ContinueSynchronously
<1>2. InFlight(k)
  BY <1>1 DEF InFlight
<1>3. callReturned' \in [Tickets -> BOOLEAN] /\ callReturned'[k]
      /\ \A j \in Tickets : j # k => callReturned'[j] = callReturned[j]
  BY <1>1 DEF IInv, TypeOK
<1>4. \A j \in Tickets : j # k => (InFlight(j)' <=> InFlight(j))
  BY <1>1, <1>3 DEF InFlight
<1>5. (InFlight(k)' <=> ~finished[k]) /\ finished[k] \in BOOLEAN
  BY <1>1, <1>3 DEF InFlight, IInv, TypeOK
<1>6. OneDriver' /\ atTop' \in {0, 1} /\ NewestInFlight'
  BY <1>1, <1>2, <1>4, <1>5, SignOffInvariant
<1>7. TypeOK' /\ NoLostStart' /\ QueueShape' /\ StartedInOrder'
  BY <1>1, <1>3, <1>6 DEF IInv, TypeOK, NoLostStart, HeadResolved, HeadIs, QueueShape,
     StartedInOrder, queueVars
<1>8. DeliveryShape'
  <2> SUFFICES ASSUME NEW j \in Tickets PROVE DeliveryShape!(j)'
    BY DEF DeliveryShape
  <2>1. callReturned'[j] => post[j] = "posted"
    BY <1>1, <1>3 DEF IInv, DeliveryShape
  <2> QED BY <1>1, <2>1 DEF IInv, DeliveryShape, Begun
<1> QED BY <1>6, <1>7, <1>8 DEF IInv

LEMMA FinishAttemptInvariant ==
  ASSUME IInv, NEW k \in Tickets, FinishAttempt(k)
  PROVE  IInv'
<1>1. /\ job[k] = "ended" /\ ~finished[k]
      /\ finished' = [finished EXCEPT ![k] = TRUE]
      /\ atTop' = IF callReturned[k] THEN atTop + 1 ELSE atTop
      /\ UNCHANGED <<queueVars, post, job, callReturned, outcome, started>>
  BY DEF FinishAttempt, ContinueAsynchronously
<1>2. InFlight(k)
  BY <1>1, OpenIsInFlight
<1>3. finished' \in [Tickets -> BOOLEAN] /\ finished'[k]
      /\ \A j \in Tickets : j # k => finished'[j] = finished[j]
  BY <1>1 DEF IInv, TypeOK
<1>4. \A j \in Tickets : j # k => (InFlight(j)' <=> InFlight(j))
  BY <1>1, <1>3 DEF InFlight
<1>5. (InFlight(k)' <=> ~callReturned[k]) /\ callReturned[k] \in BOOLEAN
  BY <1>1, <1>2, <1>3 DEF InFlight, IInv, TypeOK
<1>6. OneDriver' /\ atTop' \in {0, 1} /\ NewestInFlight'
  BY <1>1, <1>2, <1>4, <1>5, SignOffInvariant
<1>7. TypeOK' /\ NoLostStart' /\ QueueShape' /\ StartedInOrder'
  BY <1>1, <1>3, <1>6 DEF IInv, TypeOK, NoLostStart, HeadResolved, HeadIs, QueueShape,
     StartedInOrder, queueVars
<1>8. DeliveryShape'
  <2> SUFFICES ASSUME NEW j \in Tickets PROVE DeliveryShape!(j)'
    BY DEF DeliveryShape
  <2>1. finished'[j] => job[j] = "ended"
    BY <1>1, <1>3 DEF IInv, DeliveryShape
  <2> QED BY <1>1, <2>1 DEF IInv, DeliveryShape, Begun
<1> QED BY <1>6, <1>7, <1>8 DEF IInv

\* The other steps of an attempt move only its own job, outcome and start.
LEMMA AttemptStepInvariant ==
  ASSUME IInv, NEW k \in Tickets,
         Execute(k) \/ CompletionEnds(k) \/ Cancel(k) \/ FinishCanceled(k)
           \/ RecoverUndelivered(k)
  PROVE  IInv'
<1> USE DEF IInv
<1>1. /\ UNCHANGED <<queueVars, atTop, post, callReturned, finished>>
      /\ job[k] \in {"queued", "running", "canceled", "ending"}
      /\ job' \in [Tickets -> {"none", "queued", "running", "canceled", "ending", "ended"}]
      /\ job'[k] # "none"
      /\ \A j \in Tickets : j # k => job'[j] = job[j] /\ outcome'[j] = outcome[j]
      /\ outcome' \in [Tickets -> {"none", "executed", "recovered", "abandoned"}]
  BY DEF Execute, CompletionEnds, Cancel, FinishCanceled, RecoverUndelivered,
     RecoverUnlessExecuted, TypeOK
<1>2. InFlight(k) /\ post[k] = "posted" /\ ~finished[k]
  BY <1>1, OpenIsInFlight DEF DeliveryShape
<1>3. /\ started' \in Seq(Tickets)
      /\ Begun' = Begun \cup (IF job'[k] = "running" THEN {k} ELSE {})
      /\ StartedInOrder'
  <2>1. CASE UNCHANGED started /\ job'[k] # "running"
    BY <2>1 DEF TypeOK, Begun, StartedInOrder
  <2>2. CASE started' = Append(started, k) /\ job[k] = "queued" /\ job'[k] = "running"
    <3>1. \A j \in Begun \cap Tickets : j <= k /\ j # k
      BY <1>2, <2>2 DEF DeliveryShape, NewestInFlight
    <3>2. \A i \in DOMAIN started : started[i] \in Tickets /\ started[i] \in Begun
      BY DEF TypeOK, Begun
    <3>3. \A i \in DOMAIN started : started[i] < k
      BY <3>1, <3>2 DEF Tickets
    <3>4. started \in Seq(Tickets)
      BY DEF TypeOK
    <3> QED BY <2>2, <3>3, <3>4, AppendBegins DEF StartedInOrder, Begun
  <2>3. \/ UNCHANGED started /\ job'[k] # "running"
        \/ started' = Append(started, k) /\ job[k] = "queued" /\ job'[k] = "running"
    BY DEF Execute, CompletionEnds, Cancel, FinishCanceled, RecoverUndelivered, TypeOK
  <2> QED BY <2>1, <2>2, <2>3
<1>4. TypeOK'
  BY <1>1, <1>3 DEF TypeOK, queueVars
<1>5. OneDriver' /\ NoLostStart' /\ NewestInFlight'
  BY <1>1 DEF OneDriver, InFlight, NoLostStart, HeadResolved, HeadIs, NewestInFlight, queueVars
<1>6. QueueShape'
  BY <1>1, <1>2 DEF QueueShape, queueVars
<1>7. DeliveryShape'
  <2> SUFFICES ASSUME NEW j \in Tickets PROVE DeliveryShape!(j)'
    BY DEF DeliveryShape
  <2>1. CASE j # k
    BY <1>1, <1>3, <2>1 DEF DeliveryShape
  <2>2. CASE j = k
    <3>1. \/ job[k] = "queued" /\ job'[k] \in {"running", "ending", "canceled"}
             /\ outcome'[k] = outcome[k]
          \/ job[k] = "running" /\ job'[k] = "ending" /\ outcome'[k] \in {"none", "executed"}
          \/ job[k] = "canceled" /\ job'[k] = "ending" /\ outcome'[k] = outcome[k]
          \/ job[k] = "ending" /\ job'[k] = "ended"
             /\ outcome'[k] = IF outcome[k] = "executed" THEN "executed" ELSE "recovered"
      BY DEF Execute, CompletionEnds, Cancel, FinishCanceled, RecoverUndelivered,
         RecoverUnlessExecuted, TypeOK
    <3> QED BY <1>1, <1>2, <1>3, <2>2, <3>1 DEF DeliveryShape
  <2> QED BY <2>1, <2>2
<1> QED BY <1>3, <1>4, <1>5, <1>6, <1>7

LEMMA NextInvariant == IInv /\ [Next]_vars => IInv'
<1> SUFFICES ASSUME IInv, [Next]_vars PROVE IInv'
  OBVIOUS
<1>1. CASE UNCHANGED vars
  BY <1>1 DEF vars, IInv, TypeOK, OneDriver, NoLostStart, HeadResolved, HeadIs, QueueShape,
     DeliveryShape, NewestInFlight, StartedInOrder, InFlight, Begun
<1>2. CASE \E k \in Tickets : Caller(k) \/ Post(k) \/ ReturnFromPost(k) \/ Attempt(k)
  BY <1>2, CallerInvariant, PostInvariant, ReturnFromPostInvariant, FinishAttemptInvariant,
     AttemptStepInvariant DEF Attempt
<1> QED BY <1>1, <1>2, ReserveInvariant, LoopInvariant DEF Next

-----------------------------------------------------------------------------
(* The theorems. *)

\* Types hold, the ticket queue stays an interval, and no two calls of deliverNext
\* are ever in their loop together.
THEOREM TypeCorrect == Spec => []TypeOK
<1>1. IInv => TypeOK
  BY DEF IInv
<1> QED BY <1>1, InitInvariant, NextInvariant, PTL DEF Spec

\* The two-flag handshake hands the delivery to exactly one party.
THEOREM SingleDriver == Spec => []OneDriver
<1>1. IInv => OneDriver
  BY DEF IInv
<1> QED BY <1>1, InitInvariant, NextInvariant, PTL DEF Spec

\* No resolution finds the sequencer idle and leaves it idle.
THEOREM NoStartIsLost == Spec => []NoLostStart
<1>1. IInv => NoLostStart
  BY DEF IInv
<1> QED BY <1>1, InitInvariant, NextInvariant, PTL DEF Spec

\* Completions begin in ticket order, each at most once.
THEOREM CompletionsStartInOrder == Spec => []StartedInOrder
<1>1. IInv => StartedInOrder
  BY DEF IInv
<1> QED BY <1>1, InitInvariant, NextInvariant, PTL DEF Spec

\* While a completion runs, no later one has even been posted.
THEOREM CompletionsDoNotOverlap == Spec => []OneCompletionAtATime
<1>1. IInv => OneCompletionAtATime
  <2> SUFFICES ASSUME IInv, NEW j \in Tickets, NEW k \in Tickets,
                      job[j] = "running", job[k] # "none"
               PROVE  k <= j
    BY DEF OneCompletionAtATime
  <2>1. InFlight(j) /\ post[k] # "none"
    BY OpenIsInFlight DEF IInv, DeliveryShape
  <2> QED BY <2>1 DEF IInv, NewestInFlight
<1> QED BY <1>1, InitInvariant, NextInvariant, PTL DEF Spec

\* A finished delivery ran its completion or recovered its mutations.
THEOREM EndedDeliveriesSettled == Spec => []EndedIsSettled
<1>1. IInv => EndedIsSettled
  BY DEF IInv, DeliveryShape, EndedIsSettled, Begun
<1> QED BY <1>1, InitInvariant, NextInvariant, PTL DEF Spec

-----------------------------------------------------------------------------
(* The sequencer implements CompletionOrder. *)

\* What is numbered, and what of it is settled.
LEMMA OrderFacts ==
  ASSUME IInv
  PROVE  /\ 1..last \subseteq Tickets /\ Order!Begun = Begun
         /\ \A k \in Tickets : ([j \in Tickets |-> Result(j)])[k] = Result(k)
         /\ Order!Open = {k \in 1..last : Result(k) = "open"}
<1>1. 1..last \subseteq Tickets
  BY TicketsAssumption DEF IInv, TypeOK, Tickets
<1> QED BY <1>1 DEF Order!Begun, Begun, Order!Open

LEMMA OpenResults ==
  ASSUME IInv, NEW k \in Tickets
  PROVE  Result(k) = "open" <=> status[k] # "skipped" /\ ~finished[k]
BY DEF IInv, TypeOK, DeliveryShape, Result

LEMMA SettlesOne ==
  ASSUME IInv, NEW k \in Tickets, NEW o \in Order!Outcomes, Result(k) = "open",
         k \in Begun => o # "abandoned", k <= last,
         Result(k)' = o, \A j \in Tickets : j # k => Result(j)' = Result(j),
         UNCHANGED <<last, started>>
  PROVE  Order!Settle
<1>1. k \in Order!Open
  BY OrderFacts DEF Tickets
<1>2. [j \in Tickets |-> Result(j)]' = [[j \in Tickets |-> Result(j)] EXCEPT ![k] = o]
  OBVIOUS
<1>3. (1..last)' = 1..last
  OBVIOUS
<1> QED BY <1>1, <1>2, <1>3, OrderFacts DEF Order!Settle

LEMMA ReserveImplements ==
  ASSUME IInv, Reserve
  PROVE  Order!Accept
<1>1. /\ last' = last + 1 /\ last \in Nat /\ last' \in Tickets
      /\ status' = [status EXCEPT ![last'] = "reserved"] /\ status[last'] = "free"
      /\ UNCHANGED <<finished, outcome, started>>
  BY TicketsAssumption DEF Reserve, IInv, TypeOK, QueueShape, Tickets
<1>2. \A k \in Tickets : Result(k)' = Result(k)
  BY <1>1 DEF Result, IInv, TypeOK
<1>3. (1..last)' = 1..last \cup {last'} /\ \A s \in 1..last : s < last'
  BY <1>1
<1> QED BY <1>1, <1>2, <1>3 DEF Order!Accept

LEMMA CallerImplements ==
  ASSUME IInv, NEW k \in Tickets, Caller(k)
  PROVE  Order!Settle \/ UNCHANGED Order!vars
<1> USE DEF Order!vars
<1>1. status[k] = "reserved" /\ UNCHANGED <<last, finished, started>>
  BY DEF Caller, Resolve, DeliverDirect, Skip, Settle, queueVars
<1>2. post[k] = "none" /\ ~finished[k] /\ k \notin Begun /\ k <= last /\ Result(k) = "open"
  BY <1>1, OpenResults DEF IInv, TypeOK, QueueShape, DeliveryShape, Tickets
<1>3. \A j \in Tickets : j # k => Result(j)' = Result(j)
  BY <1>1 DEF Caller, Resolve, DeliverDirect, Skip, Settle, queueVars, Result, IInv, TypeOK
<1>4. CASE Resolve(k) \/ DeliverDirect(k)
  <2>1. status'[k] # "skipped"
    BY <1>1, <1>4 DEF Resolve, DeliverDirect, Settle, queueVars, IInv, TypeOK
  <2>2. Result(k)' = Result(k)
    BY <1>1, <1>2, <2>1 DEF Result
  <2> QED BY <1>1, <1>3, <2>2
<1>5. CASE Skip(k)
  <2>1. /\ status'[k] = "skipped"
        /\ outcome'[k] = IF outcome[k] = "none" THEN "abandoned" ELSE outcome[k]
    BY <1>5 DEF Skip, Settle, IInv, TypeOK
  <2>2. outcome'[k] \in Order!Outcomes
    BY <2>1 DEF Order!Outcomes, IInv, TypeOK
  <2>3. Result(k)' = outcome'[k]
    BY <2>1 DEF Result
  <2> QED BY <1>1, <1>2, <1>3, <2>2, <2>3, SettlesOne
<1> QED BY <1>4, <1>5 DEF Caller

LEMMA LoopImplements ==
  ASSUME IInv, Loop \/ \E k \in Tickets : Post(k) \/ ReturnFromPost(k)
  PROVE  UNCHANGED Order!vars
<1>1. UNCHANGED <<last, status, finished, outcome, started>>
  BY DEF Loop, GoIdle, DropSkipped, DequeueResolved, Post, ReturnFromPost, queueVars
<1>2. \A k \in Tickets : Result(k)' = Result(k)
  BY <1>1 DEF Result
<1> QED BY <1>1, <1>2 DEF Order!vars

\* A completion begins in the only delivery under way: every earlier ticket has left
\* the queue, and either was skipped or had a delivery that has ended.
LEMMA BeginsInTurn ==
  ASSUME IInv, NEW k \in Tickets, job[k] = "queued"
  PROVE  k \in Order!Open /\ k \notin Begun /\ \A j \in Order!Open : k <= j
<1>1. /\ InFlight(k) /\ post[k] # "none" /\ k \notin Begun /\ ~finished[k]
      /\ k < first /\ status[k] = "resolved" /\ k <= last
  BY OpenIsInFlight DEF IInv, DeliveryShape, QueueShape, TypeOK, Tickets
<1>2. k \in Order!Open
  BY <1>1, OpenResults, OrderFacts DEF Tickets
<1>3. ASSUME NEW j \in Order!Open, j < k
      PROVE  FALSE
  <2>1. j \in Tickets /\ status[j] # "skipped" /\ ~finished[j]
    BY <1>3, OpenResults, OrderFacts
  <2>2. j < first
    BY <1>1, <1>3, <2>1 DEF IInv, TypeOK, Tickets
  <2>3. status[j] = "resolved" /\ post[j] # "none"
    BY <2>1, <2>2 DEF IInv, QueueShape
  <2>4. InFlight(j)
    BY <2>1, <2>3 DEF InFlight
  <2>5. j = k
    BY <1>1, <2>1, <2>4 DEF IInv, OneDriver
  <2> QED BY <1>3, <2>1, <2>5 DEF Tickets
<1>4. \A j \in Order!Open : j \in Nat /\ k \in Nat
  BY OrderFacts DEF Tickets
<1> QED BY <1>1, <1>2, <1>3, <1>4

LEMMA AttemptImplements ==
  ASSUME IInv, NEW k \in Tickets, Attempt(k)
  PROVE  Order!Begin \/ Order!Settle \/ UNCHANGED Order!vars
<1> USE DEF Order!vars
<1>1. UNCHANGED <<last, status>> /\ (1..last)' = 1..last
  BY DEF Attempt, Execute, CompletionEnds, Cancel, FinishCanceled, RecoverUndelivered,
         FinishAttempt, queueVars
<1>2. CASE FinishAttempt(k)
  <2>1. /\ job[k] = "ended" /\ ~finished[k] /\ finished' = [finished EXCEPT ![k] = TRUE]
        /\ UNCHANGED <<outcome, started>>
    BY <1>2 DEF FinishAttempt
  <2>2. /\ outcome[k] \in {"executed", "recovered"} /\ post[k] # "none"
        /\ status[k] = "resolved" /\ k <= last
    BY <2>1 DEF IInv, DeliveryShape, QueueShape, TypeOK, Tickets
  <2>3. Result(k)' = outcome[k] /\ \A j \in Tickets : j # k => Result(j)' = Result(j)
    BY <1>1, <2>1 DEF Result, IInv, TypeOK
  <2>4. Result(k) = "open"
    BY <2>1, <2>2, OpenResults
  <2> QED BY <1>1, <2>1, <2>2, <2>3, <2>4, SettlesOne DEF Order!Outcomes
<1>3. CASE \/ Execute(k) \/ CompletionEnds(k) \/ Cancel(k) \/ FinishCanceled(k)
           \/ RecoverUndelivered(k)
  <2>1. /\ finished' = finished /\ job[k] \in {"queued", "running", "canceled", "ending"}
        /\ \A j \in Tickets : j # k => outcome'[j] = outcome[j]
        /\ \/ started' = started
           \/ started' = Append(started, k) /\ job[k] = "queued"
    BY <1>3 DEF Execute, CompletionEnds, Cancel, FinishCanceled, RecoverUndelivered, IInv, TypeOK
  <2>2. ~finished[k] /\ status[k] = "resolved"
    BY <2>1 DEF IInv, DeliveryShape, QueueShape
  <2>3. \A j \in Tickets : Result(j)' = Result(j)
    BY <1>1, <2>1, <2>2 DEF Result
  <2>4. [j \in Tickets |-> Result(j)]' = [j \in Tickets |-> Result(j)]
    BY <2>3
  <2>5. CASE started' = Append(started, k) /\ job[k] = "queued"
    BY <1>1, <2>4, <2>5, BeginsInTurn, OrderFacts DEF Order!Begin
  <2> QED BY <1>1, <2>1, <2>4, <2>5
<1> QED BY <1>2, <1>3 DEF Attempt

LEMMA StepImplements == IInv /\ [Next]_vars => [Order!Next]_(Order!vars)
<1> SUFFICES ASSUME IInv, [Next]_vars PROVE Order!Next \/ UNCHANGED Order!vars
  BY DEF Order!vars
<1>1. CASE UNCHANGED vars
  <2>1. \A k \in Tickets : Result(k)' = Result(k)
    BY <1>1 DEF vars, Result
  <2> QED BY <1>1, <2>1 DEF vars, Order!vars
<1>2. CASE Next
  BY <1>2, ReserveImplements, CallerImplements, LoopImplements, AttemptImplements
     DEF Next, Order!Next
<1> QED BY <1>1, <1>2

\* In whichever order results arrive, targets die and threads sign off, an observer of
\* the completions sees what CompletionOrder promises.
THEOREM SequencerImplementsOrder == Spec => ImplementsOrder
<1>1. Init => Order!Init
  <2> SUFFICES ASSUME Init PROVE Order!Init
    OBVIOUS
  <2>1. 1..last = {} /\ started = <<>> /\ \A k \in Tickets : Result(k) = "open"
    BY DEF Init, Result
  <2> QED BY <2>1 DEF Order!Init
<1> QED BY <1>1, InitInvariant, NextInvariant, StepImplements, PTL
        DEF Spec, ImplementsOrder, Order!Spec
=============================================================================
