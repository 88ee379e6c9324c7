----------------------- MODULE MutationDeliveryProofs -----------------------
(***************************************************************************)
(* Proofs about MutationDelivery, for any threads and any number of        *)
(* batches.  HandedOverOnceInOrder and Conservation are not inductive: a   *)
(* hand-over keeps the log in order only because whoever still holds a     *)
(* batch holds newer ones than the log, and a consumer that takes earlier  *)
(* batches along needs everything still pending to be newer than what is   *)
(* already held.  IInv adds that order, and how far the lane, the running  *)
(* delivery and the recovery have got.                                     *)
(***************************************************************************)
EXTENDS MutationDelivery, TLAPS

Logged == [outcome : {"applied", "discarded"}, ids : SUBSET Ids]

\* How the parts of the registry constrain each other.
Control ==
  /\ reserving \subseteq {nextId - 1}
  /\ laneStopped => reserving = {}
  /\ recoveryStarted => laneStopped
  /\ recoveryStarted <=> recovery # "none"
  /\ recovery \in {"deferred", "collected", "done"} => pending = {}
  /\ recovered # {} => recovery \in {"deferred", "collected"}
  /\ recovery = "collected" => active = NoThread
  /\ recovery = "deferred" => active # NoThread
  /\ active = NoThread => queued = {}
  /\ pending \subseteq backup
  /\ \A a \in Unhanded : a.id \in backup
  /\ nextId <= MaxBatches + 2
  /\ recovery \in {"none", "waiting"} => nextId <= MaxBatches + 1

\* Older batches are further along: settled, then held, then pending.
Order ==
  /\ \A x \in Settled, y \in Captured \cup pending : x < y
  /\ \A x \in BatchesOf(Unhanded), y \in recovered \cup pending : x < y
  /\ \A a \in Unhanded : \A x \in a.earlier : x < a.id
  /\ \A a, b \in Unhanded : a.id <= b.id =>
       a = b \/ \A x \in Batches(a), y \in Batches(b) : x < y
  /\ phase = "run" => \A a \in current, b \in queued :
       \A x \in Batches(a), y \in Batches(b) : x < y
  /\ HandedOverOnceInOrder

IInv == TypeOK /\ Control /\ Conservation /\ Order

-----------------------------------------------------------------------------
(* What a hand-over does to the log. *)

\* Appending an entry settles its batches, and keeps the log in order when they
\* are newer than every settled batch.
LEMMA AppendSettles ==
  ASSUME NEW L \in Seq(Logged), NEW e \in Logged
  PROVE  /\ Append(L, e) \in Seq(Logged)
         /\ SettledBy(Append(L, e)) = SettledBy(L) \cup e.ids
         /\ (\A i, j \in DOMAIN L : i < j => \A x \in L[i].ids, y \in L[j].ids : x < y)
            /\ (\A x \in SettledBy(L), y \in e.ids : x < y)
            => \A i, j \in DOMAIN Append(L, e) : i < j =>
                 \A x \in Append(L, e)[i].ids, y \in Append(L, e)[j].ids : x < y
<1> DEFINE A == Append(L, e)
<1>1. /\ A \in Seq(Logged)
      /\ DOMAIN A = DOMAIN L \cup {Len(L) + 1}
      /\ \A i \in DOMAIN L : A[i] = L[i]
      /\ A[Len(L) + 1] = e
      /\ DOMAIN L = 1 .. Len(L) /\ Len(L) \in Nat
  OBVIOUS
<1>2. SettledBy(A) = SettledBy(L) \cup e.ids
  <2> HIDE DEF A
  <2> QED BY <1>1 DEF SettledBy
<1>3. ASSUME \A i, j \in DOMAIN L : i < j => \A x \in L[i].ids, y \in L[j].ids : x < y,
             \A x \in SettledBy(L), y \in e.ids : x < y,
             NEW i \in DOMAIN A, NEW j \in DOMAIN A, i < j,
             NEW x \in A[i].ids, NEW y \in A[j].ids
      PROVE  x < y
  <2> HIDE DEF A
  <2>1. i \in DOMAIN L
    BY <1>1, <1>3
  <2>2. CASE j \in DOMAIN L
    BY <1>1, <1>3, <2>1, <2>2
  <2>3. CASE j = Len(L) + 1
    BY <1>1, <1>3, <2>1, <2>3 DEF SettledBy
  <2> QED BY <1>1, <2>2, <2>3
<1> QED BY <1>1, <1>2, <1>3

\* A hand-over of batches newer than the log extends what is settled by them.
LEMMA HandOverSettles ==
  ASSUME TypeOK, HandedOverOnceInOrder,
         NEW ids \in SUBSET Ids, NEW outcome \in {"applied", "discarded"},
         \A x \in Settled, y \in ids : x < y,
         HandOver(outcome, ids)
  PROVE  /\ log' \in Seq(Logged)
         /\ Settled' = Settled \cup ids
         /\ HandedOverOnceInOrder'
<1>1. CASE ids = {}
  BY <1>1 DEF HandOver, TypeOK, Settled, HandedOverOnceInOrder, Logged
<1>2. CASE ids # {}
  <2> DEFINE e == [outcome |-> outcome, ids |-> ids]
  <2>1. e \in Logged /\ e.ids = ids /\ log \in Seq(Logged) /\ log' = Append(log, e)
    BY <1>2 DEF HandOver, TypeOK, Logged
  <2> HIDE DEF e
  <2>2. \A x \in SettledBy(log), y \in e.ids : x < y
    BY <2>1 DEF Settled
  <2>3. \A i, j \in DOMAIN log : i < j => \A x \in log[i].ids, y \in log[j].ids : x < y
    BY DEF HandedOverOnceInOrder
  <2>4. /\ log' \in Seq(Logged)
        /\ SettledBy(log') = SettledBy(log) \cup ids
        /\ \A i, j \in DOMAIN log' : i < j => \A x \in log'[i].ids, y \in log'[j].ids : x < y
    BY <2>1, <2>2, <2>3, AppendSettles
  <2> QED BY <2>4 DEF Settled, HandedOverOnceInOrder
<1> QED BY <1>1, <1>2

-----------------------------------------------------------------------------
(* Each step preserves IInv. *)

LEMMA InitInvariant == Init => IInv
<1> SUFFICES ASSUME Init PROVE IInv
  OBVIOUS
<1> USE ThreadsAssumption, BoundAssumption
<1>1. SettledBy(log) = {} /\ DOMAIN log = {} /\ Captured = {} /\ Unhanded = {}
  BY DEF Init, SettledBy, Captured, Unhanded, BatchesOf
<1>2. TypeOK
  <2>1. log \in Seq([outcome : {"applied", "discarded"}, ids : SUBSET Ids])
    BY DEF Init
  <2>2. nextId \in Ids
    BY DEF Init, Ids
  <2> QED BY <2>1, <2>2 DEF Init, TypeOK
<1>3. Control
  BY <1>1 DEF Init, Control, Ids
<1>4. Conservation
  BY <1>1 DEF Init, Conservation, Journaled, Settled
<1>5. Order
  BY <1>1 DEF Init, Order, Settled, HandedOverOnceInOrder, BatchesOf
<1> QED BY <1>2, <1>3, <1>4, <1>5 DEF IInv

LEMMA ReserveInvariant == IInv /\ ReserveId => IInv'
<1> SUFFICES ASSUME IInv, ReserveId PROVE IInv'
  OBVIOUS
<1> USE DEF IInv, ReserveId, deliveryVars, recoveryVars
<1>1. /\ Unhanded' = Unhanded /\ Captured' = Captured /\ Settled' = Settled
      /\ BatchesOf(Unhanded)' = BatchesOf(Unhanded)
  BY DEF Unhanded, Captured, Settled, BatchesOf, Batches
<1>2. TypeOK'
  BY DEF TypeOK, Ids
<1>3. Control'
  BY <1>1, BoundAssumption DEF Control, TypeOK, Ids
<1>4. Journaled' = Journaled
  BY DEF Journaled, TypeOK, Ids
<1>5. Conservation'
  BY <1>1, <1>4 DEF Conservation
<1>6. Order'
  BY <1>1 DEF Order, HandedOverOnceInOrder, Batches
<1> QED BY <1>2, <1>3, <1>5, <1>6

LEMMA InsertInvariant == IInv /\ Insert => IInv'
<1> SUFFICES ASSUME IInv, Insert PROVE IInv'
  OBVIOUS
<1> USE DEF IInv, Insert, deliveryVars, recoveryVars
<1>1. /\ Unhanded' = Unhanded /\ Captured' = Captured /\ Settled' = Settled
      /\ BatchesOf(Unhanded)' = BatchesOf(Unhanded)
  BY DEF Unhanded, Captured, Settled, BatchesOf, Batches
<1>2. TypeOK'
  BY DEF TypeOK, Ids
<1>3. reserving = {nextId - 1}
  BY DEF Control
<1>4. Control'
  BY <1>1 DEF Control, TypeOK, Ids
<1>5. Journaled' = Journaled \cup reserving /\ \A j \in Journaled : j < nextId - 1
  BY <1>3 DEF Journaled, TypeOK, Ids
<1>6. Conservation'
  BY <1>1, <1>3, <1>5 DEF Conservation, TypeOK, Ids
<1>7. recovered = {}
  BY DEF Control
<1>8. \A x \in BatchesOf(Unhanded) \cup Settled : x < nextId - 1
  BY <1>5 DEF Conservation, Captured
<1>9. Order'
  BY <1>1, <1>3, <1>7, <1>8 DEF Order, HandedOverOnceInOrder, Batches, Captured
<1> QED BY <1>2, <1>4, <1>6, <1>9

LEMMA StopLaneInvariant == IInv /\ StopLane => IInv'
<1> SUFFICES ASSUME IInv, StopLane PROVE IInv'
  OBVIOUS
<1> USE DEF IInv, StopLane, deliveryVars, recoveryVars
<1>1. /\ Unhanded' = Unhanded /\ Captured' = Captured /\ Settled' = Settled
      /\ BatchesOf(Unhanded)' = BatchesOf(Unhanded) /\ Journaled' = Journaled
  BY DEF Unhanded, Captured, Settled, BatchesOf, Batches, Journaled
<1>2. TypeOK' /\ Conservation'
  BY <1>1 DEF TypeOK, Conservation
<1>3. Control'
  BY <1>1 DEF Control
<1>4. Order'
  BY <1>1 DEF Order, HandedOverOnceInOrder, Batches
<1> QED BY <1>2, <1>3, <1>4

\* The winner's action is newer than every action before it and older than
\* whatever stays pending.
LEMMA ConsumeInvariant ==
  ASSUME IInv, NEW t \in Threads, NEW id \in pending, NEW kind \in Kinds,
         Consume(t, id, kind)
  PROVE  IInv'
<1> DEFINE earlier == Earlier(id)
           action  == [id |-> id, kind |-> kind, earlier |-> earlier \cap backup]
<1> USE DEF IInv
<1>1. /\ pending \subseteq Ids /\ id \in Ids /\ id \in backup
      /\ \A e \in earlier : e \in pending /\ e < id
      /\ id \notin earlier
      /\ \A p \in pending : p < id => p \in earlier
      /\ earlier \cap backup = earlier
  <2>1. pending \subseteq Ids /\ pending \subseteq backup
    BY DEF TypeOK, Control
  <2>2. \A e \in Ids : ~(e < e)
    BY DEF Ids
  <2> QED BY <2>1, <2>2 DEF Earlier
<1>2. /\ action \in Action /\ action.id = id /\ action.earlier = earlier
      /\ Batches(action) = earlier \cup {id}
  BY <1>1 DEF Action, Batches
<1>3. /\ pending' = pending \ Batches(action)
      /\ backup' = backup \ earlier
      /\ IF active = NoThread
           THEN active' = t /\ phase' = "run" /\ current' = {action} /\ queued' = queued
           ELSE queued' = queued \cup {action} /\ active' = active
                /\ phase' = phase /\ current' = current
      /\ UNCHANGED <<laneVars, recoveryVars, log>>
      /\ ~recoveryStarted
  BY <1>2 DEF Consume, Open
<1> HIDE DEF earlier, action
<1>4. /\ Unhanded' = Unhanded \cup {action}
      /\ active = NoThread => Unhanded = {} /\ queued = {} /\ phase = "idle"
  BY <1>3 DEF Unhanded, Control, TypeOK
<1>5. BatchesOf(Unhanded') = BatchesOf(Unhanded) \cup Batches(action)
  BY <1>4 DEF BatchesOf
<1>6. /\ recovered = {} /\ recovered' = {} /\ Settled' = Settled /\ Journaled' = Journaled
      /\ Captured = BatchesOf(Unhanded)
      /\ Captured' = BatchesOf(Unhanded) \cup Batches(action)
  BY <1>3, <1>5 DEF Captured, Settled, Journaled, laneVars, recoveryVars, Control
<1>7. \A x \in BatchesOf(Unhanded), y \in Batches(action) : x < y
  BY <1>1, <1>2 DEF Order
<1>8. TypeOK'
  BY <1>1, <1>2, <1>3, <1>4, ThreadsAssumption DEF TypeOK, laneVars, recoveryVars
<1>9. Control'
  <2>1. \A a \in Unhanded : a.id \notin earlier
    BY <1>1, <1>2, <1>6 DEF Conservation, BatchesOf, Batches
  <2>2. \A a \in Unhanded' : a.id \in backup'
    BY <1>1, <1>2, <1>3, <1>4, <2>1 DEF Control
  <2>3. pending' \subseteq backup'
    BY <1>2, <1>3 DEF Control
  <2>4. active' # NoThread
    BY <1>3, ThreadsAssumption
  <2> QED BY <1>3, <2>2, <2>3, <2>4 DEF Control, laneVars, recoveryVars
<1>10. Conservation'
  <2>1. Batches(action) \subseteq pending
    BY <1>1, <1>2
  <2> QED BY <1>3, <1>6, <2>1 DEF Conservation
<1>11. Order'
  <2>1. \A x \in Batches(action), y \in pending' : x < y
    <3> SUFFICES ASSUME NEW x \in earlier \cup {id}, NEW y \in pending,
                        y \notin earlier, y # id
                 PROVE  x < y
      BY <1>2, <1>3
    <3>1. x \in Ids /\ y \in Ids /\ id \in Ids /\ ~(y < id) /\ (x < id \/ x = id)
      BY <1>1
    <3> QED BY <3>1 DEF Ids
  <2>2. \A x \in Settled', y \in Captured' \cup pending' : x < y
    BY <1>1, <1>2, <1>3, <1>6 DEF Order
  <2>3. \A x \in BatchesOf(Unhanded)', y \in recovered' \cup pending' : x < y
    BY <1>3, <1>5, <1>6, <2>1 DEF Order, BatchesOf, Batches
  <2>4. \A a \in Unhanded' : \A x \in a.earlier : x < a.id
    BY <1>1, <1>2, <1>4 DEF Order
  <2>5. \A a \in Unhanded : \A x \in Batches(a), y \in Batches(action) : x < y
    BY <1>7 DEF BatchesOf
  <2>6. \A a \in Unhanded : a.id \in Ids /\ a.id < id
    BY <1>2, <2>5 DEF Batches, TypeOK, Unhanded, Action
  <2>7. \A a, b \in Unhanded' : a.id <= b.id =>
          a = b \/ \A x \in Batches(a), y \in Batches(b) : x < y
    BY <1>1, <1>2, <1>4, <2>5, <2>6 DEF Order, Ids
  <2>8. phase' = "run" => \A a \in current', b \in queued' :
          \A x \in Batches(a), y \in Batches(b) : x < y
    BY <1>3, <1>4, <2>5 DEF Order, Unhanded
  <2>9. HandedOverOnceInOrder'
    BY <1>3 DEF Order, HandedOverOnceInOrder
  <2> QED BY <2>2, <2>3, <2>4, <2>7, <2>8, <2>9 DEF Order, Batches
<1> QED BY <1>8, <1>9, <1>10, <1>11

\* The held action's batches become the newest of the log.
LEMMA RunActionInvariant == IInv /\ RunAction => IInv'
<1> SUFFICES ASSUME IInv, RunAction PROVE IInv'
  OBVIOUS
<1> USE DEF IInv
<1>1. PICK a \in current :
        /\ phase = "run" /\ phase' = "consuming"
        /\ \E outcome \in {"applied", "discarded"} : HandOver(outcome, Batches(a))
        /\ backup' \in {backup, backup \ {a.id}}
        /\ UNCHANGED <<laneVars, pending, active, current, queued, recoveryVars>>
  <2>1. \A a \in current : a.id \in backup /\ a.earlier \cup ({a.id} \cap backup) = Batches(a)
    BY DEF RunAction, Control, Unhanded, Batches
  <2> QED BY <2>1 DEF RunAction
<1>2. PICK outcome \in {"applied", "discarded"} : HandOver(outcome, Batches(a))
  BY <1>1
<1>3. /\ current = {a} /\ a \in Action /\ Batches(a) \in SUBSET Ids
      /\ Unhanded = {a} \cup queued /\ Unhanded' = queued
      /\ queued' = queued /\ queued \in SUBSET Action
  BY <1>1 DEF TypeOK, Unhanded, Batches, Action
<1>4. /\ BatchesOf(Unhanded) = Batches(a) \cup BatchesOf(queued)
      /\ BatchesOf(Unhanded)' = BatchesOf(queued)
      /\ Captured = Batches(a) \cup BatchesOf(queued) \cup recovered
      /\ Captured' = BatchesOf(queued) \cup recovered
      /\ recovered' = recovered /\ pending' = pending /\ Journaled' = Journaled
  BY <1>1, <1>3 DEF Captured, BatchesOf, Batches, laneVars, recoveryVars, Journaled
<1>5. \A x \in Settled, y \in Batches(a) : x < y
  BY <1>4 DEF Order
<1>6. /\ log' \in Seq(Logged) /\ Settled' = Settled \cup Batches(a)
      /\ HandedOverOnceInOrder'
  BY <1>2, <1>3, <1>5, HandOverSettles DEF Order
<1>7. \A b \in queued : \A x \in Batches(a), y \in Batches(b) : x < y
  BY <1>1, <1>3 DEF Order
<1>8. \A x \in Batches(a), y \in BatchesOf(queued) : x < y
  BY <1>7 DEF BatchesOf
<1>9. TypeOK'
  BY <1>1, <1>6 DEF TypeOK, laneVars, recoveryVars, Logged
<1>10. Control'
  <2>1. \A b \in queued : b.id # a.id
    BY <1>3, <1>7 DEF Batches, Action, Ids
  <2>2. a.id \notin pending
    BY <1>4 DEF Conservation, Batches
  <2>3. pending' \subseteq backup'
    BY <1>1, <2>2 DEF Control
  <2>4. \A b \in Unhanded' : b.id \in backup'
    BY <1>1, <1>3, <2>1 DEF Control
  <2> QED BY <1>1, <2>3, <2>4 DEF Control, laneVars, recoveryVars
<1>11. Conservation'
  <2>1. Batches(a) \cap (BatchesOf(queued) \cup recovered \cup pending) = {}
    <3>1. \A x \in Batches(a), y \in BatchesOf(queued) \cup recovered \cup pending : x < y
      BY <1>4, <1>8 DEF Order
    <3> QED BY <3>1, <1>3 DEF Ids
  <2> QED BY <1>4, <1>6, <2>1 DEF Conservation
<1>12. Order'
  <2>1. \A x \in Settled', y \in Captured' \cup pending' : x < y
    BY <1>4, <1>6, <1>8 DEF Order
  <2>2. \A x \in BatchesOf(Unhanded)', y \in recovered' \cup pending' : x < y
    BY <1>4 DEF Order
  <2> QED BY <1>1, <1>3, <1>6, <2>1, <2>2 DEF Order, Batches
<1> QED BY <1>9, <1>10, <1>11, <1>12

\* The queued action with the lowest key holds the oldest batches.
LEMMA NextActionInvariant == IInv /\ NextAction => IInv'
<1> SUFFICES ASSUME IInv, NextAction PROVE IInv'
  OBVIOUS
<1> USE DEF IInv
<1>1. PICK a \in queued :
        /\ phase = "consuming" /\ \A b \in queued : a.id <= b.id
        /\ phase' = "run" /\ current' = {a} /\ queued' = queued \ {a}
        /\ UNCHANGED <<laneVars, pending, backup, active, recoveryVars, log>>
  BY DEF NextAction, LowestKey
<1>2. /\ Unhanded = queued /\ Unhanded' = queued
      /\ BatchesOf(Unhanded)' = BatchesOf(Unhanded)
      /\ Captured' = Captured /\ Settled' = Settled /\ Journaled' = Journaled
  BY <1>1 DEF Unhanded, Captured, BatchesOf, Batches, Settled, Journaled, laneVars, recoveryVars
<1>3. TypeOK'
  BY <1>1 DEF TypeOK, laneVars, recoveryVars
<1>4. Control'
  BY <1>1, <1>2 DEF Control, TypeOK, laneVars, recoveryVars
<1>5. Conservation'
  BY <1>1, <1>2 DEF Conservation
<1>6. Order'
  <2>1. \A b \in queued \ {a} : \A x \in Batches(a), y \in Batches(b) : x < y
    BY <1>1, <1>2 DEF Order
  <2> QED BY <1>1, <1>2, <2>1 DEF Order, Batches, HandedOverOnceInOrder, recoveryVars
<1> QED BY <1>3, <1>4, <1>5, <1>6

LEMMA EndDeliveryInvariant == IInv /\ EndDelivery => IInv'
<1> SUFFICES ASSUME IInv, EndDelivery PROVE IInv'
  OBVIOUS
<1> USE DEF IInv
<1>1. /\ phase = "consuming" /\ queued = {}
      /\ active' = NoThread /\ phase' = "idle" /\ current' = {} /\ queued' = {}
      /\ recovery' = IF recovery = "deferred" THEN "collected" ELSE recovery
      /\ UNCHANGED <<laneVars, pending, backup, recoveryStarted, recovered, log>>
  BY DEF EndDelivery, NothingQueued, ThreadRemoved, DeferredDue
<1>2. /\ Unhanded = {} /\ Unhanded' = {}
      /\ Captured = recovered /\ Captured' = recovered /\ Settled' = Settled
      /\ Journaled' = Journaled
  BY <1>1 DEF Unhanded, Captured, BatchesOf, Settled, Journaled, laneVars
<1>3. TypeOK'
  BY <1>1 DEF TypeOK, laneVars
<1>4. Control'
  BY <1>1, <1>2 DEF Control, laneVars, TypeOK
<1>5. Conservation'
  BY <1>1, <1>2 DEF Conservation
<1>6. Order'
  BY <1>1, <1>2 DEF Order, HandedOverOnceInOrder, BatchesOf
<1> QED BY <1>3, <1>4, <1>5, <1>6

\* What collecting does, whichever way the recovery goes on.
LEMMA CollectInvariant ==
  ASSUME IInv, NEW next \in {"deferred", "collected"}, Collect(next),
         UNCHANGED <<deliveryVars, log>>,
         recovery \in {"none", "waiting"}, laneStopped, recoveryStarted',
         IF next = "deferred" THEN active # NoThread /\ phase = "consuming"
                              ELSE active = NoThread
  PROVE  IInv'
<1> USE DEF IInv
<1>1. PICK teardown \in SUBSET {nextId} :
        /\ recovered' = (pending \cap backup) \cup teardown
        /\ nextId' = IF teardown = {} THEN nextId ELSE nextId + 1
        /\ backup' = backup \ pending
        /\ pending' = {}
        /\ recovery' = IF recovered' = {} THEN "done" ELSE next
        /\ UNCHANGED <<reserving, laneStopped>>
  BY DEF Collect, SwappedOut
<1>2. /\ recovered = {} /\ reserving = {} /\ pending \cap backup = pending
      /\ nextId \in Ids /\ nextId <= MaxBatches + 1
  BY DEF Control, TypeOK
<1>3. /\ Unhanded' = Unhanded /\ BatchesOf(Unhanded)' = BatchesOf(Unhanded)
      /\ Settled' = Settled /\ phase # "run"
      /\ Captured = BatchesOf(Unhanded)
      /\ Captured' = BatchesOf(Unhanded) \cup pending \cup teardown
  BY <1>1, <1>2 DEF Unhanded, BatchesOf, Batches, Settled, Captured, deliveryVars, TypeOK
<1>4. Journaled' = Journaled \cup teardown /\ \A j \in Journaled : j < nextId
  <2>1. Journaled = 1..(nextId - 1) /\ Journaled' = 1..(nextId' - 1)
    BY <1>1, <1>2 DEF Journaled
  <2>2. nextId \in Nat /\ nextId >= 1
    BY <1>2 DEF Ids
  <2>3. CASE teardown = {}
    BY <1>1, <2>1, <2>2, <2>3
  <2>4. CASE teardown = {nextId}
    BY <1>1, <2>1, <2>2, <2>4
  <2> QED BY <2>3, <2>4
<1>5. TypeOK'
  BY <1>1, <1>2 DEF TypeOK, deliveryVars, Ids
<1>6. Control'
  <2>1. \A a \in Unhanded : a.id \notin pending
    BY <1>3 DEF Conservation, BatchesOf, Batches
  <2>2. \A a \in Unhanded' : a.id \in backup'
    BY <1>1, <1>3, <2>1 DEF Control
  <2>3. nextId' <= MaxBatches + 2
    BY <1>1, <1>2, BoundAssumption DEF Ids
  <2>4. recovery' \in {next, "done"} /\ (recovered' = {} <=> recovery' = "done")
    BY <1>1
  <2> QED BY <1>1, <1>2, <2>2, <2>3, <2>4 DEF Control, deliveryVars
<1>7. Conservation'
  <2>1. \A x \in BatchesOf(Unhanded) \cup Settled \cup pending : x < nextId
    BY <1>3, <1>4 DEF Conservation
  <2>2. teardown \cap (BatchesOf(Unhanded) \cup Settled \cup pending) = {}
    <3>1. ~(nextId < nextId)
      BY <1>2 DEF Ids
    <3> QED BY <2>1, <3>1
  <2> QED BY <1>1, <1>3, <1>4, <2>2 DEF Conservation
<1>8. Order'
  <2>1. \A x \in BatchesOf(Unhanded) \cup Settled : x < nextId
    BY <1>3, <1>4 DEF Conservation
  <2>2. \A x \in Settled', y \in Captured' \cup pending' : x < y
    BY <1>1, <1>3, <2>1 DEF Order
  <2>3. \A x \in BatchesOf(Unhanded)', y \in recovered' \cup pending' : x < y
    BY <1>1, <1>3, <2>1 DEF Order
  <2> QED BY <1>3, <2>2, <2>3 DEF Order, Batches, HandedOverOnceInOrder, deliveryVars
<1> QED BY <1>5, <1>6, <1>7, <1>8

LEMMA StartRecoveryInvariant == IInv /\ StartRecovery => IInv'
<1> SUFFICES ASSUME IInv, StartRecovery PROVE IInv'
  OBVIOUS
<1>1. CASE StartRecoveryBusy
  <2> USE DEF StartRecoveryBusy, IInv, laneVars, deliveryVars
  <2>1. /\ Unhanded' = Unhanded /\ BatchesOf(Unhanded)' = BatchesOf(Unhanded)
        /\ Captured' = Captured /\ Settled' = Settled /\ Journaled' = Journaled
    BY <1>1 DEF Unhanded, BatchesOf, Batches, Captured, Settled, Journaled
  <2>2. recovery = "none"
    BY <1>1 DEF Control
  <2>3. TypeOK' /\ Conservation'
    BY <1>1, <2>1 DEF TypeOK, Conservation
  <2>4. Control'
    BY <1>1, <2>1, <2>2 DEF Control
  <2>5. Order'
    BY <1>1, <2>1 DEF Order, HandedOverOnceInOrder, Batches
  <2> QED BY <2>3, <2>4, <2>5
<1>2. CASE StartRecoveryNested
  <2>1. recovery = "none" /\ active # NoThread
    BY <1>2, ThreadsAssumption DEF IInv, Control, StartRecoveryNested
  <2> QED BY <1>2, <2>1, CollectInvariant DEF StartRecoveryNested, WhenNested
<1>3. CASE StartRecoveryIdle
  <2>1. recovery = "none" /\ active = NoThread
    BY <1>3 DEF IInv, Control, TypeOK, StartRecoveryIdle, BusyElsewhere
  <2> QED BY <1>3, <2>1, CollectInvariant DEF StartRecoveryIdle
<1> QED BY <1>1, <1>2, <1>3 DEF StartRecovery

LEMMA EndWaitInvariant == IInv /\ EndWait => IInv'
<1> SUFFICES ASSUME IInv, EndWait PROVE IInv'
  OBVIOUS
<1>1. laneStopped /\ recoveryStarted /\ recoveryStarted'
  BY DEF IInv, Control, EndWait
<1> QED BY <1>1, CollectInvariant DEF EndWait

LEMMA RecoverInvariant == IInv /\ Recover => IInv'
<1> SUFFICES ASSUME IInv, Recover PROVE IInv'
  OBVIOUS
<1> USE DEF IInv, Recover, laneVars, deliveryVars
<1>1. /\ Unhanded' = Unhanded /\ BatchesOf(Unhanded)' = BatchesOf(Unhanded)
      /\ Unhanded = {} /\ Captured = recovered /\ Captured' = {}
      /\ pending = {} /\ Journaled' = Journaled
  BY DEF Unhanded, BatchesOf, Batches, Captured, Control, TypeOK, Journaled
<1>2. recovered \in SUBSET Ids /\ \A x \in Settled, y \in recovered : x < y
  BY <1>1 DEF Order, TypeOK
<1>3. /\ log' \in Seq(Logged) /\ Settled' = Settled \cup recovered
      /\ HandedOverOnceInOrder'
  BY <1>2, HandOverSettles DEF Order
<1>4. TypeOK'
  BY <1>3 DEF TypeOK, Logged
<1>5. Control'
  BY <1>1 DEF Control
<1>6. Conservation'
  BY <1>1, <1>3 DEF Conservation
<1>7. Order'
  BY <1>1, <1>3 DEF Order, Batches, BatchesOf
<1> QED BY <1>4, <1>5, <1>6, <1>7

LEMMA NextInvariant == IInv /\ [Next]_vars => IInv'
<1> SUFFICES ASSUME IInv, [Next]_vars PROVE IInv'
  OBVIOUS
<1>1. CASE UNCHANGED vars
  BY <1>1 DEF vars, IInv, TypeOK, Control, Conservation, Order, Unhanded, BatchesOf,
     Batches, Captured, Settled, Journaled, HandedOverOnceInOrder
<1>2. CASE \E t \in Threads, id \in pending, kind \in Kinds : Consume(t, id, kind)
  BY <1>2, ConsumeInvariant
<1>3. QED
  BY <1>1, <1>2, ReserveInvariant, InsertInvariant, StopLaneInvariant, RunActionInvariant,
     NextActionInvariant, EndDeliveryInvariant, StartRecoveryInvariant, EndWaitInvariant,
     RecoverInvariant DEF Next

-----------------------------------------------------------------------------
(* The theorems. *)

\* Every variable keeps its type, and the running delivery's thread, place and
\* action stay consistent.
THEOREM TypeCorrect == Spec => []TypeOK
<1>1. IInv => TypeOK
  BY DEF IInv
<1> QED BY <1>1, InitInvariant, NextInvariant, PTL DEF Spec

\* However consumption, recovery and shutdown interleave, every retained batch is
\* pending, held by one consumer, or settled: none is lost, none is held twice.
THEOREM BatchesConserved == Spec => []Conservation
<1>1. IInv => Conservation
  BY DEF IInv
<1> QED BY <1>1, InitInvariant, NextInvariant, PTL DEF Spec

\* No batch reaches a consumer twice or after a newer one.
THEOREM AppliedOnceInOrder == Spec => []HandedOverOnceInOrder
<1>1. IInv => HandedOverOnceInOrder
  BY DEF IInv, Order
<1> QED BY <1>1, InitInvariant, NextInvariant, PTL DEF Spec

\* After the shutdown consumer ran and the last delivery ended, all is settled.
THEOREM ShutdownLeavesNothing == Spec => []NothingLeftBehind
<1>1. IInv => NothingLeftBehind
  <2> SUFFICES ASSUME IInv, recovery = "done", active = NoThread
               PROVE  Settled = Journaled
    BY DEF NothingLeftBehind
  <2>1. pending = {} /\ recovered = {} /\ queued = {} /\ phase = "idle"
    BY DEF IInv, Control, TypeOK
  <2>2. Captured = {}
    BY <2>1 DEF Captured, Unhanded, BatchesOf
  <2> QED BY <2>1, <2>2 DEF IInv, Conservation
<1> QED BY <1>1, InitInvariant, NextInvariant, PTL DEF Spec

\* The shutdown consumer never takes over while a delivery is running.
THEOREM RecoveryExclusive == Spec => RecoveryIsExclusive
<1>1. IInv /\ [Next]_vars => [recovery = "collected" /\ recovery' = "done" => active = NoThread]_vars
  BY DEF IInv, Control
<1> QED BY <1>1, InitInvariant, NextInvariant, PTL DEF Spec, RecoveryIsExclusive

-----------------------------------------------------------------------------
(* The registry implements MutationJournal. *)

LEMMA JournalOutstanding ==
  ASSUME IInv
  PROVE  Journal!Outstanding = pending \cup Captured
<1>1. Journal!SettledBy(log) = Settled
  BY DEF Journal!SettledBy, Settled, SettledBy
<1> QED BY <1>1 DEF Journal!Outstanding, IInv, Conservation

\* Handing over the oldest outstanding batches is an abstract Settle.
LEMMA HandOverIsSettle ==
  ASSUME IInv, NEW ids, ids \subseteq pending \cup Captured,
         \A s \in ids, o \in pending \cup Captured : o \in ids \/ s < o,
         NEW outcome \in {"applied", "discarded"},
         HandOver(outcome, ids), Journaled' = Journaled
  PROVE  Journal!Settle \/ UNCHANGED Journal!vars
<1>1. CASE ids = {}
  BY <1>1 DEF HandOver, Journal!vars
<1>2. CASE ids # {}
  <2>1. log' = Append(log, [outcome |-> outcome, ids |-> ids])
    BY <1>2 DEF HandOver
  <2>2. ids \in SUBSET Journal!Outstanding
    BY JournalOutstanding
  <2>3. pending \cup Captured \subseteq Ids
    BY DEF IInv, TypeOK, Captured, BatchesOf, Batches, Unhanded, Action
  <2>4. \A s \in ids, o \in Journal!Outstanding : o < s => o \in ids
    <3> SUFFICES ASSUME NEW s \in ids, NEW o \in pending \cup Captured, o < s, s < o
                 PROVE  FALSE
      BY JournalOutstanding
    <3>1. s \in Nat /\ o \in Nat
      BY <2>3 DEF Ids
    <3> QED BY <3>1
  <2> QED BY <1>2, <2>1, <2>2, <2>4 DEF Journal!Settle, Journal!Outcomes
<1> QED BY <1>1, <1>2

\* Retaining or collecting a batch numbered after all others is an abstract Journal.
LEMMA NumberingIsJournal ==
  ASSUME NEW b \in 1..(MaxBatches + 1), \A j \in Journaled : j < b,
         Journaled' = Journaled \cup {b}, log' = log
  PROVE  Journal!Journal
BY DEF Journal!Journal

LEMMA CollectIsJournal ==
  ASSUME IInv, NEW next, Collect(next), log' = log,
         recovery \in {"none", "waiting"}, laneStopped
  PROVE  Journal!Journal \/ UNCHANGED Journal!vars
<1>1. PICK teardown \in SUBSET {nextId} :
        /\ nextId' = IF teardown = {} THEN nextId ELSE nextId + 1
        /\ reserving' = reserving
  BY DEF Collect
<1>2. reserving = {} /\ nextId \in Ids /\ nextId <= MaxBatches + 1
  BY DEF IInv, Control, TypeOK
<1>3. CASE teardown = {}
  BY <1>1, <1>3 DEF Journaled, Journal!vars
<1>4. CASE teardown = {nextId}
  <2>1. nextId \in 1..(MaxBatches + 1)
    BY <1>2, BoundAssumption DEF Ids
  <2>2. Journaled' = Journaled \cup {nextId} /\ \A j \in Journaled : j < nextId
    BY <1>1, <1>2, <1>4 DEF Journaled, Ids
  <2> QED BY <2>1, <2>2, NumberingIsJournal
<1> QED BY <1>3, <1>4

LEMMA StepImplements == IInv /\ [Next]_vars => [Journal!Next]_(Journal!vars)
<1> SUFFICES ASSUME IInv, [Next]_vars PROVE Journal!Next \/ UNCHANGED Journal!vars
  BY DEF Journal!vars
<1> USE DEF Journal!vars, Journaled
<1>1. CASE UNCHANGED vars
  BY <1>1 DEF vars
<1>2. CASE ReserveId
  <2>1. nextId \in Nat /\ nextId >= 1
    BY DEF IInv, TypeOK, Ids
  <2> QED BY <1>2, <2>1 DEF ReserveId
<1>3. CASE Insert
  <2>1. reserving = {nextId - 1} /\ nextId \in Ids /\ nextId <= MaxBatches + 2
    BY <1>3 DEF Insert, IInv, Control, TypeOK
  <2>2. nextId - 1 \in Ids
    BY <1>3, <2>1 DEF Insert, IInv, TypeOK
  <2>3. nextId - 1 \in 1..(MaxBatches + 1)
    BY <2>1, <2>2, BoundAssumption DEF Ids
  <2>4. Journaled' = Journaled \cup {nextId - 1} /\ \A j \in Journaled : j < nextId - 1
    BY <1>3, <2>1, <2>2 DEF Insert, Ids
  <2> QED BY <1>3, <2>3, <2>4, NumberingIsJournal DEF Insert, Journal!Next
<1>4. CASE \/ StopLane \/ NextAction \/ EndDelivery \/ StartRecoveryBusy
           \/ \E t \in Threads, id \in pending, kind \in Kinds : Consume(t, id, kind)
  BY <1>4 DEF StopLane, NextAction, EndDelivery, StartRecoveryBusy, Consume, laneVars
<1>5. CASE RunAction
  <2>1. PICK a \in current : /\ phase = "run"
                             /\ UNCHANGED laneVars
                             /\ \E outcome \in {"applied", "discarded"} :
                                  HandOver(outcome, Batches(a))
    <3>1. \A a \in current : phase = "run" =>
            a.id \in backup /\ a.earlier \cup ({a.id} \cap backup) = Batches(a)
      BY DEF IInv, Control, Unhanded, Batches
    <3> QED BY <1>5, <3>1 DEF RunAction
  <2>2. current = {a} /\ Unhanded = {a} \cup queued
    BY <2>1 DEF IInv, TypeOK, Unhanded
  <2>3. Captured = Batches(a) \cup BatchesOf(queued) \cup recovered
    BY <2>2 DEF Captured, BatchesOf
  <2>4. \A s \in Batches(a), o \in BatchesOf(queued) : s < o
    BY <2>1 DEF IInv, Order, BatchesOf
  <2>5. \A s \in Batches(a), o \in recovered \cup pending : s < o
    BY <2>2 DEF IInv, Order, BatchesOf
  <2>6. Journaled' = Journaled
    BY <2>1 DEF laneVars
  <2> QED BY <2>1, <2>3, <2>4, <2>5, <2>6, HandOverIsSettle DEF Journal!Next
<1>6. CASE StartRecoveryNested \/ StartRecoveryIdle \/ EndWait
  <2>1. recovery \in {"none", "waiting"} /\ laneStopped
    BY <1>6 DEF StartRecoveryNested, StartRecoveryIdle, EndWait, IInv, Control
  <2> QED BY <1>6, <2>1, CollectIsJournal
          DEF StartRecoveryNested, StartRecoveryIdle, EndWait, Journal!Next
<1>7. CASE Recover
  <2>1. Unhanded = {} /\ pending = {} /\ Captured = recovered
    BY <1>7 DEF Recover, IInv, Control, TypeOK, Unhanded, Captured, BatchesOf
  <2> QED BY <1>7, <2>1, HandOverIsSettle DEF Recover, laneVars, Journal!Next
<1> QED BY <1>1, <1>2, <1>3, <1>4, <1>5, <1>6, <1>7 DEF Next, StartRecovery

\* Whatever the threads do, an observer of the batches retained and handed over
\* sees what MutationJournal promises.
THEOREM RegistryImplementsJournal == Spec => ImplementsJournal
<1>1. Init => Journal!Init
  <2> SUFFICES ASSUME Init PROVE Journal!Init
    OBVIOUS
  <2>1. nextId = 1 /\ log = <<>>
    BY DEF Init
  <2> QED BY <2>1 DEF Journal!Init, Journaled
<1> QED BY <1>1, InitInvariant, NextInvariant, StepImplements, PTL
        DEF Spec, ImplementsJournal, Journal!Spec
=============================================================================
