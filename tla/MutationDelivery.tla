-------------------------- MODULE MutationDelivery --------------------------
(***************************************************************************)
(* LuaExecutorWorker's registry of deferred mutation journals              *)
(* (DeferredMutationDeliveryRegistry) and the delivery handles it gives    *)
(* out (LuaDeferredRuntimeMutationDelivery).                               *)
(*                                                                         *)
(* The callback lane retains a backup of every asynchronous result's       *)
(* batch.  Consumers of the results, on any thread and in any order, race  *)
(* with each other and with the worker's shutdown for these backups.       *)
(*                                                                         *)
(* A batch is its number.  A vector of batches is a set: the code builds   *)
(* every vector by walking a QMap in key order, so a set handed over means *)
(* its batches in increasing order.  Locking: one action is one critical   *)
(* section of `mutex', or one stretch of code outside it.                  *)
(***************************************************************************)
EXTENDS Naturals, Sequences, FiniteSets

CONSTANTS Threads,     \* threads that consume results
          Owner,       \* the thread that destroys the worker
          NoThread,
          MaxBatches   \* bound: batches the lane retains

ASSUME ThreadsAssumption == Owner \in Threads /\ NoThread \notin Threads
ASSUME BoundAssumption   == MaxBatches \in Nat

VARIABLES
  nextId,           \* next number reserveId() gives out
  reserving,        \* numbers reserved whose delivery is not inserted yet
  laneStopped,      \* shutdownWorkerLane has joined the lane thread
  pending,          \* keys of `pending': deliveries nobody has consumed
  backup,           \* deliveries whose m_backup still holds the batch
  active,           \* the thread in activeDeliveryThreads, NoThread if none
  phase,            \* where that thread is in runDeliveryActions
  current,          \* {a}: the action it runs; {} when there is none
  queued,           \* queuedDeliveryActions
  recoveryStarted,
  recovery,         \* progress of consumeAllForRecovery
  recovered,        \* the batches it collected and has not handed over
  log               \* the hand-overs to the mutation consumers, in order

laneVars     == <<nextId, reserving, laneStopped>>
deliveryVars == <<active, phase, current, queued>>
recoveryVars == <<recoveryStarted, recovery, recovered>>
vars == <<nextId, reserving, laneStopped, pending, backup, active, phase,
          current, queued, recoveryStarted, recovery, recovered, log>>

\* What a consumer does with a batch it won: apply the result's own copy
\* (QMudLuaDeferredRuntimeMutation::apply), drop it (discardPluginCallbackMutations),
\* or apply the backup of a completion that never ran (recoverUndelivered).
Kinds  == {"apply", "discard", "recover"}
Ids    == Nat \ {0}
Action == [id : Ids, kind : Kinds, earlier : SUBSET Ids]

SettledBy(entries) == UNION {entries[i].ids : i \in DOMAIN entries}
Settled   == SettledBy(log)
Journaled == (1..(nextId - 1)) \ reserving
Batches(a)        == a.earlier \cup {a.id}
BatchesOf(S)      == UNION {Batches(a) : a \in S}
\* Batches an action or the recovery holds, and nobody else can reach.
Unhanded  == IF phase = "run" THEN current \cup queued ELSE queued
Captured  == BatchesOf(Unhanded) \cup recovered

HandOver(outcome, ids) ==
  IF ids = {} THEN UNCHANGED log
              ELSE log' = Append(log, [outcome |-> outcome, ids |-> ids])

Init ==
  /\ nextId = 1 /\ reserving = {} /\ laneStopped = FALSE
  /\ pending = {} /\ backup = {}
  /\ active = NoThread /\ phase = "idle" /\ current = {} /\ queued = {}
  /\ recoveryStarted = FALSE /\ recovery = "none" /\ recovered = {}
  /\ log = <<>>

-----------------------------------------------------------------------------
\* retainAsyncMutationBackup on the lane: two critical sections.

ReserveId ==
  /\ ~laneStopped /\ reserving = {}
  /\ nextId <= MaxBatches
  /\ reserving' = {nextId}
  /\ nextId' = nextId + 1
  /\ UNCHANGED <<laneStopped, pending, backup, deliveryVars, recoveryVars, log>>

Insert ==
  /\ reserving # {}
  /\ pending' = pending \cup reserving
  /\ backup' = backup \cup reserving
  /\ reserving' = {}
  /\ UNCHANGED <<nextId, laneStopped, deliveryVars, recoveryVars, log>>

\* The teardown ran after the last dispatch, and the thread has been joined.
StopLane ==
  /\ ~laneStopped /\ reserving = {}
  /\ laneStopped' = TRUE
  /\ UNCHANGED <<nextId, reserving, pending, backup, deliveryVars, recoveryVars, log>>

-----------------------------------------------------------------------------
\* consumeDelivery: the winner takes the backups of all earlier deliveries too.
\* A thread that is itself running an action gets here from inside its consumer.

\* `recoveryStarted || !pending.contains(id)' refuses the consumer.
Open(id) == ~recoveryStarted /\ id \in pending

\* Mutant: the walk stops one delivery short of the previous one.
AllButPrevious(id) == {e \in pending : e + 1 < id}
Earlier(id) == {e \in pending : e < id}

Consume(t, id, kind) ==
  LET earlier == Earlier(id)
      action  == [id |-> id, kind |-> kind, earlier |-> earlier \cap backup]
  IN /\ Open(id)
     /\ active = t => phase = "consuming"
     /\ pending' = pending \ (earlier \cup {id})
     /\ backup' = backup \ earlier
     /\ IF active = NoThread
          THEN active' = t /\ phase' = "run" /\ current' = {action} /\ UNCHANGED queued
          ELSE queued' = queued \cup {action} /\ UNCHANGED <<active, phase, current>>
     /\ UNCHANGED <<laneVars, recoveryVars, log>>

\* runDeliveryActions: the action, outside the lock.
RunAction == \E a \in current :
  /\ phase = "run"
  /\ phase' = "consuming"
  /\ \/ a.kind = "apply"   /\ HandOver("applied", Batches(a)) /\ UNCHANGED backup
     \/ a.kind = "discard" /\ HandOver("discarded", Batches(a)) /\ UNCHANGED backup
     \/ /\ a.kind = "recover"
        /\ HandOver("applied", a.earlier \cup ({a.id} \cap backup))
        /\ backup' = backup \ {a.id}
  /\ UNCHANGED <<laneVars, pending, active, current, queued, recoveryVars>>

\* ... and the lock after it: the queued action with the lowest key is next.
\* Mutant: the action queued last runs first.
NewestFirst(a) == \A b \in queued : a.id >= b.id
LowestKey(a)   == \A b \in queued : a.id <= b.id

NextAction == \E a \in queued :
  /\ phase = "consuming"
  /\ LowestKey(a)
  /\ phase' = "run"
  /\ current' = {a}
  /\ queued' = queued \ {a}
  /\ UNCHANGED <<laneVars, pending, backup, active, recoveryVars, log>>

\* Mutant: the deferred recovery is forgotten.
DeferredForgotten == recovery
\* recoveryAfterActiveDeliveries is taken when the delivery ends.
DeferredDue == IF recovery = "deferred" THEN "collected" ELSE recovery

NothingQueued == queued = {}

ThreadRemoved == NoThread

EndDelivery ==
  /\ phase = "consuming" /\ NothingQueued
  /\ active' = ThreadRemoved /\ phase' = "idle" /\ current' = {}
  /\ recovery' = DeferredDue
  /\ UNCHANGED <<laneVars, pending, backup, queued, recoveryStarted, recovered, log>>

-----------------------------------------------------------------------------
\* consumeAllForRecovery.  The batches of the lane's teardown have no key: they
\* are newer than every retained one, so they take the number after the last.

SwappedOut == {}

\* pending.swap and takeBackupForRecovery, with the teardown batches appended.
Collect(next) == \E teardown \in SUBSET {nextId} :
  /\ recovered' = (pending \cap backup) \cup teardown
  /\ nextId' = IF teardown = {} THEN nextId ELSE nextId + 1
  /\ backup' = backup \ pending
  /\ pending' = SwappedOut
  /\ recovery' = IF recovered' = {} THEN "done" ELSE next
  /\ UNCHANGED <<reserving, laneStopped>>

\* Mutant: the owner does not wait for another thread's delivery.
NeverBusy == FALSE
BusyElsewhere == active \notin {NoThread, Owner}
WhenNested == "deferred"

\* Another thread's delivery is running: wait for it.
StartRecoveryBusy ==
  /\ laneStopped /\ ~recoveryStarted
  /\ BusyElsewhere
  /\ recoveryStarted' = TRUE
  /\ recovery' = "waiting"
  /\ UNCHANGED <<laneVars, pending, backup, deliveryVars, recovered, log>>

\* The worker dies inside its own delivery's consumer: collect now, hand over later.
StartRecoveryNested ==
  /\ laneStopped /\ ~recoveryStarted
  /\ active = Owner /\ phase = "consuming"
  /\ recoveryStarted' = TRUE
  /\ Collect(WhenNested)
  /\ UNCHANGED <<deliveryVars, log>>

StartRecoveryIdle ==
  /\ laneStopped /\ ~recoveryStarted
  /\ active # Owner /\ ~BusyElsewhere
  /\ recoveryStarted' = TRUE
  /\ Collect("collected")
  /\ UNCHANGED <<deliveryVars, log>>

EndWait ==
  /\ recovery = "waiting" /\ active = NoThread
  /\ Collect("collected")
  /\ UNCHANGED <<recoveryStarted, deliveryVars, log>>

\* The shutdown consumer gets everything that was collected.
Recover ==
  /\ recovery = "collected"
  /\ HandOver("applied", recovered)
  /\ recovery' = "done"
  /\ recovered' = {}
  /\ UNCHANGED <<laneVars, pending, backup, deliveryVars, recoveryStarted>>

StartRecovery == StartRecoveryBusy \/ StartRecoveryNested \/ StartRecoveryIdle

Next ==
  \/ ReserveId \/ Insert \/ StopLane
  \/ \E t \in Threads, id \in pending, kind \in Kinds : Consume(t, id, kind)
  \/ RunAction \/ NextAction \/ EndDelivery
  \/ StartRecovery \/ EndWait \/ Recover

Spec == Init /\ [][Next]_vars

\* The threads keep running what they started; nobody is obliged to consume a
\* result, to dispatch or to shut down.
Fairness == WF_vars(RunAction) /\ WF_vars(NextAction) /\ WF_vars(EndDelivery)
            /\ WF_vars(EndWait) /\ WF_vars(Recover)
FairSpec == Spec /\ Fairness
-----------------------------------------------------------------------------
(* Properties *)

\* Every variable stays in its range; the active thread, its place in the loop
\* and the action it runs agree with each other.
TypeOK ==
  /\ nextId \in Ids /\ reserving \in SUBSET Ids /\ laneStopped \in BOOLEAN
  /\ pending \in SUBSET Ids /\ backup \in SUBSET Ids
  /\ active \in Threads \cup {NoThread}
  /\ phase \in {"idle", "run", "consuming"}
  /\ current \in SUBSET Action /\ queued \in SUBSET Action
  /\ (active = NoThread) <=> (phase = "idle")
  /\ (phase = "idle") <=> (current = {})
  /\ \A a, b \in current : a = b
  /\ recoveryStarted \in BOOLEAN
  /\ recovery \in {"none", "waiting", "deferred", "collected", "done"}
  /\ recovered \in SUBSET Ids
  /\ log \in Seq([outcome : {"applied", "discarded"}, ids : SUBSET Ids])

\* Normal consumption, recovery of undelivered completions and worker shutdown
\* compete for a batch, and none falls between them: every retained batch is
\* pending, or held by one consumer, or settled, and never two of these.
Conservation ==
  /\ Journaled = pending \cup Captured \cup Settled
  /\ pending \cap Captured = {} /\ pending \cap Settled = {}
  /\ Captured \cap Settled = {}

\* No batch reaches a mutation consumer twice, nor after a newer one, whatever
\* order the threads consume, re-enter and shut down in.
HandedOverOnceInOrder ==
  \A i, j \in DOMAIN log : i < j =>
    \A x \in log[i].ids, y \in log[j].ids : x < y

\* The shutdown consumer never takes over while a delivery is still feeding its
\* own consumer: its hand-over waits for the other thread or for the nesting one.
RecoveryIsExclusive ==
  [][recovery = "collected" /\ recovery' = "done" => active = NoThread]_vars

\* When the shutdown consumer is through and no delivery is running, no batch
\* anywhere is still waiting for somebody.
NothingLeftBehind ==
  recovery = "done" /\ active = NoThread => Settled = Journaled

\* A shutdown that has begun settles every batch there is.
ShutdownSettlesAll == recoveryStarted ~> (recovery = "done" /\ Settled = Journaled)

Journal == INSTANCE MutationJournal WITH
  BatchIds <- 1..(MaxBatches + 1), journaled <- Journaled, log <- log
\* The registry keeps the promise MutationJournal states.
ImplementsJournal == Journal!Spec
=============================================================================
