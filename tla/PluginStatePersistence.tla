------------------------ MODULE PluginStatePersistence ------------------------
(***************************************************************************)
(* The background writer of plugin-state files: runtimes reserve a revision *)
(* before the save callback runs and submit a snapshot after it; one worker *)
(* thread keeps the newest snapshot of each file, writes a file at most     *)
(* once a minute unless a submission or flush forces it, and is drained     *)
(* when the process ends.                                                   *)
(*                                                                          *)
(* A snapshot is its revision.  Reserving, submitting, flushing and         *)
(* destroying are all called on the application's thread: "caller" says     *)
(* where that thread is.  Each critical section of m_mutex is one action;   *)
(* the worker leaves the mutex only to write and to sleep.                  *)
(***************************************************************************)
EXTENDS Integers, FiniteSets

CONSTANTS
  Files,            \* destinations
  Interval,         \* the minute between two starts, in ticks of the clock
  MaxRevisions,     \* bound: saves ever begun
  MaxTime,          \* bound: last tick of the clock
  MaxFailures,      \* bound: writes that fail
  MaxFlushes        \* bound: flushes before the destructor's

ASSUME PersistenceAssumption ==
  /\ Interval \in Nat \ {0} /\ MaxTime \in Nat \ {0}
  /\ MaxRevisions \in Nat /\ MaxFailures \in Nat /\ MaxFlushes \in Nat

Revisions == 1..MaxRevisions
NoRevision == 0
Never == 0          \* the clock starts at 1

VARIABLES
  now,              \* m_clock
  nextRevision,     \* m_nextRevision
  saving,           \* saves between reserveRevision and submit
  pending,          \* Destination::pending of each file
  startedAt,        \* Destination::lastStarted
  latest,           \* Destination::latestRevision
  completed,        \* Destination::completedRevision
  forced,           \* Destination::forcedRevision
  worker,           \* the thread in run(): none, deciding, asleep, writing or ended
  wakeAt,           \* deadline of its sleep, Never for none
  inFlight,         \* the revision of each file that is being written
  caller,           \* the application's thread: free, flushing, draining, joining or gone
  goals,            \* what its flush waits for
  disk,             \* the revision each file holds
  failed,           \* revisions whose write failed
  flushes,          \* flushes made
  credit            \* how often a file was forced, less the writes that started early

callerVars  == <<nextRevision, saving, caller, goals, flushes>>
mailboxVars == <<pending, latest, forced, credit>>
writeVars   == <<startedAt, completed, inFlight, disk, failed>>
workerVars  == <<worker, wakeAt>>
vars == <<now, callerVars, mailboxVars, writeVars, workerVars>>

Init ==
  /\ now = 1 /\ nextRevision = 1 /\ saving = {}
  /\ pending = [f \in Files |-> NoRevision] /\ latest = [f \in Files |-> 0]
  /\ completed = [f \in Files |-> 0] /\ forced = [f \in Files |-> 0]
  /\ startedAt = [f \in Files |-> Never] /\ inFlight = [f \in Files |-> NoRevision]
  /\ worker = "none" /\ wakeAt = Never
  /\ caller = "free" /\ goals = [f \in Files |-> 0]
  /\ disk = [f \in Files |-> NoRevision] /\ failed = {}
  /\ flushes = 0 /\ credit = [f \in Files |-> 0]

Larger(a, b) == IF a < b THEN b ELSE a
Stopping == caller \in {"joining", "gone"}

-----------------------------------------------------------------------------
(* The application's thread. *)

\* preparePluginStateSave: the revision is taken before the save callback.
Reserve(f) ==
  /\ caller = "free" /\ nextRevision <= MaxRevisions
  /\ saving' = saving \cup {[file |-> f, rev |-> nextRevision]}
  /\ nextRevision' = nextRevision + 1
  /\ UNCHANGED <<now, caller, goals, flushes, mailboxVars, writeVars, workerVars>>

\* The callback was cancelled or the plugin replaced: no snapshot is made.
Abandon(s) ==
  /\ caller = "free" /\ s \in saving
  /\ saving' = saving \ {s}
  /\ UNCHANGED <<now, nextRevision, caller, goals, flushes, mailboxVars, writeVars, workerVars>>

\* Mutant: the last snapshot submitted wins.
Any(s)   == TRUE
Newer(s) == s.rev > latest[s.file]

Rouse == wakeAt' = IF worker' = "asleep" THEN wakeAt ELSE Never

\* Mutant: submit wakes nobody.
StartOnly     == IF worker = "none" THEN "deciding" ELSE worker
StartOrNotify == IF worker \in {"none", "asleep"} THEN "deciding" ELSE worker

\* submit, immediate for a final save.  A snapshot older than one already
\* accepted is dropped, but still forces the newer one.
Submit(s, immediate) ==
  /\ caller = "free" /\ s \in saving
  /\ saving' = saving \ {s}
  /\ latest' = [latest EXCEPT ![s.file] = IF Newer(s) THEN s.rev ELSE @]
  /\ pending' = [pending EXCEPT ![s.file] = IF Newer(s) THEN s.rev ELSE @]
  /\ forced' = IF immediate THEN [forced EXCEPT ![s.file] = latest'[s.file]] ELSE forced
  /\ credit' = IF immediate THEN [credit EXCEPT ![s.file] = @ + 1] ELSE credit
  /\ worker' = StartOrNotify /\ Rouse
  /\ UNCHANGED <<now, nextRevision, caller, goals, flushes, writeVars>>

\* flush forces what it waits for.
Forced(F) == [f \in Files |-> IF f \in F THEN Larger(forced[f], latest[f]) ELSE forced[f]]
Notify == worker' = (IF worker = "asleep" THEN "deciding" ELSE worker) /\ Rouse

\* flush begins: for one file, before it is read, or for all of them.
BeginFlush(F, at) ==
  /\ caller = "free" /\ caller' = at
  /\ goals' = [f \in Files |-> IF f \in F THEN latest[f] ELSE 0]
  /\ forced' = Forced(F)
  /\ credit' = [f \in Files |-> IF f \in F THEN credit[f] + 1 ELSE credit[f]]
  /\ Notify
  /\ UNCHANGED <<now, nextRevision, saving, pending, latest, writeVars>>

Flush ==
  /\ flushes < MaxFlushes /\ flushes' = flushes + 1
  /\ \E F \in {Files} \cup {{f} : f \in Files} : BeginFlush(F, "flushing")
Destroy == BeginFlush(Files, "draining") /\ UNCHANGED flushes

\* Mutant: the caller waits until the worker has taken the snapshots.
TakenByWorker == \A f \in Files : pending[f] = NoRevision
GoalsReached  == \A f \in Files : completed[f] >= goals[f]

FlushReturns ==
  /\ caller = "flushing" /\ GoalsReached
  /\ caller' = "free" /\ goals' = [f \in Files |-> 0]
  /\ UNCHANGED <<now, nextRevision, saving, flushes, mailboxVars, writeVars, workerVars>>

\* The destructor: m_stopping is set after the drain, and the worker joined.
Stop ==
  /\ caller = "draining" /\ GoalsReached
  /\ caller' = "joining" /\ Notify
  /\ UNCHANGED <<now, nextRevision, saving, goals, flushes, mailboxVars, writeVars>>

Join ==
  /\ caller = "joining" /\ worker \in {"none", "ended"}
  /\ caller' = "gone"
  /\ UNCHANGED <<now, nextRevision, saving, goals, flushes, mailboxVars, writeVars, workerVars>>

-----------------------------------------------------------------------------
(* The worker thread: run(). *)

\* Mutant: a forced write stays forced.
ForcedAgain(f) == forced[f] >= completed[f] /\ forced[f] > 0
IsForced(f) == forced[f] > completed[f]
DueAt(f) == IF IsForced(f) \/ startedAt[f] = Never THEN now ELSE startedAt[f] + Interval
Pending == {f \in Files : pending[f] # NoRevision}
Due     == {f \in Pending : DueAt(f) <= now}

\* The due file with the oldest snapshot is written next.
StartWrite(f) ==
  /\ worker = "deciding"
  /\ f \in Due /\ \A g \in Due : pending[f] <= pending[g]
  /\ worker' = "writing"
  /\ inFlight' = [inFlight EXCEPT ![f] = pending[f]]
  /\ pending' = [pending EXCEPT ![f] = NoRevision]
  /\ startedAt' = [startedAt EXCEPT ![f] = now]
  /\ credit' = IF startedAt[f] # Never /\ now < startedAt[f] + Interval
               THEN [credit EXCEPT ![f] = @ - 1] ELSE credit
  /\ UNCHANGED <<now, callerVars, latest, forced, completed, disk, failed, wakeAt>>

\* Mutant: only a successful write is completed.  The write is atomic (QSaveFile); a failed one is not repeated.
CompletedIfWritten(f, written) == IF written THEN Larger(completed[f], inFlight[f]) ELSE completed[f]
Completed(f, written) == Larger(completed[f], inFlight[f])

EndWrite(f, written) ==
  /\ inFlight[f] # NoRevision
  /\ \/ /\ written
        /\ disk' = [disk EXCEPT ![f] = inFlight[f]] /\ UNCHANGED failed
     \/ /\ ~written /\ Cardinality(failed) < MaxFailures
        /\ failed' = failed \cup {inFlight[f]} /\ UNCHANGED disk
  /\ completed' = [completed EXCEPT ![f] = Completed(f, written)]
  /\ inFlight' = [inFlight EXCEPT ![f] = NoRevision]
  /\ worker' = "deciding"
  /\ UNCHANGED <<now, callerVars, mailboxVars, startedAt, wakeAt>>

\* Mutant: the worker sleeps until it is notified.
NoDeadline(t) == t = Never
NextDeadline(t) ==
  IF Pending = {} THEN t = Never
  ELSE (\E f \in Pending : t = DueAt(f)) /\ \A f \in Pending : t <= DueAt(f)

Sleep ==
  /\ worker = "deciding" /\ Due = {} /\ ~Stopping
  /\ \E t \in 0..(MaxTime + Interval) : NextDeadline(t) /\ wakeAt' = t
  /\ worker' = "asleep"
  /\ UNCHANGED <<now, callerVars, mailboxVars, writeVars>>

End ==
  /\ worker = "deciding" /\ Due = {} /\ Stopping
  /\ worker' = "ended"
  /\ UNCHANGED <<now, callerVars, mailboxVars, writeVars, wakeAt>>

WakeUp ==
  /\ worker = "asleep" /\ worker' = "deciding" /\ Rouse
  /\ UNCHANGED <<now, callerVars, mailboxVars, writeVars>>
TimedWakeUp == wakeAt # Never /\ wakeAt <= now /\ WakeUp

Tick ==
  /\ now < MaxTime /\ now' = now + 1
  /\ UNCHANGED <<callerVars, mailboxVars, writeVars, workerVars>>

Terminated == caller = "gone" /\ UNCHANGED vars

-----------------------------------------------------------------------------
Caller == FlushReturns \/ Stop \/ Join
Worker == \/ \E f \in Files : StartWrite(f) \/ EndWrite(f, TRUE)
          \/ Sleep \/ End \/ TimedWakeUp
Next == \/ \E f \in Files : Reserve(f)
        \/ \E s \in saving : Abandon(s) \/ \E immediate \in BOOLEAN : Submit(s, immediate)
        \/ Flush \/ Destroy \/ Caller
        \/ Worker \/ (\E f \in Files : EndWrite(f, FALSE)) \/ WakeUp \/ Tick \/ Terminated

Spec == Init /\ [][Next]_vars

\* The worker thread and a waiting application thread run, and time passes.
FairSpec == Spec /\ WF_vars(Caller) /\ WF_vars(Worker) /\ WF_vars(Tick)

-----------------------------------------------------------------------------
(* Properties. *)

\* Types; one file at a time is written, by the one worker.
TypeOK ==
  /\ now \in 1..MaxTime /\ nextRevision \in 1..(MaxRevisions + 1)
  /\ saving \subseteq [file : Files, rev : Revisions]
  /\ {pending, latest, completed, forced, inFlight, disk, goals}
        \subseteq [Files -> 0..MaxRevisions]
  /\ startedAt \in [Files -> 0..MaxTime] /\ credit \in [Files -> Int]
  /\ flushes \in 0..MaxFlushes
  /\ worker \in {"none", "deciding", "asleep", "writing", "ended"}
  /\ wakeAt \in 0..(MaxTime + Interval)
  /\ caller \in {"free", "flushing", "draining", "joining", "gone"}
  /\ failed \subseteq Revisions
  /\ \A f, g \in Files : inFlight[f] # NoRevision =>
       /\ worker = "writing"
       /\ inFlight[g] # NoRevision => f = g

\* Between the end of a drain and the end of its join nothing is left to be done.
Client == CASE caller = "free"     -> "active"
            [] caller = "flushing" -> "waiting"
            [] caller = "draining" -> "leaving"
            [] OTHER               -> "gone"

Store == INSTANCE PluginStateStore WITH
  accepted <- latest, tried <- completed, stored <- disk,
  client <- Client, awaited <- {f \in Files : goals[f] # 0}
\* The writer keeps the promise PluginStateStore states, in whatever order the save
\* callbacks end: no file goes back, no wait ends before the writes it is for.
ImplementsStore == Store!Spec

\* What a file holds is never replaced by an older state, in whatever order
\* the save callbacks end.
FileNeverRegresses == [][\A f \in Files : disk'[f] >= disk[f]]_vars

Settled(f) == /\ pending[f] = NoRevision /\ inFlight[f] = NoRevision
              /\ disk[f] = latest[f] \/ latest[f] \in failed

\* When flush returns, the state of each file it was called for is on disk, or
\* its write failed, and nobody will write the file while the caller reads it.
FlushSettles ==
  [][(caller \in {"flushing", "draining"} /\ caller' # caller) =>
       \A f \in Files : goals[f] = latest[f] => Settled(f)]_vars

\* A write that does not wait for its minute was asked for: each immediate
\* submission and each flush pays for one at most, failed writes included.
EarlyWritesArePaid == \A f \in Files : credit[f] >= 0

\* The worker ends with nothing unwritten.
NothingDropped == worker = "ended" => \A f \in Files : Settled(f)

\* An accepted snapshot, or a newer one, is written when its minute is over:
\* submissions cannot put it off.
AcceptedIsWritten ==
  \A f \in Files, r \in Revisions :
    (pending[f] = r /\ startedAt[f] + Interval <= MaxTime) ~> (completed[f] >= r)

\* A forced snapshot is written without waiting for the clock.
ForcedIsWritten ==
  \A f \in Files, r \in Revisions : (pending[f] = r /\ forced[f] >= r) ~> (completed[f] >= r)

\* flush and the destructor return.
FlushEnds == /\ (caller = "flushing") ~> (caller = "free")
             /\ (caller = "draining") ~> (caller = "gone")
=============================================================================
