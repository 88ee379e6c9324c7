--------------------- MODULE PluginStatePersistenceProofs ---------------------
(***************************************************************************)
(* Proofs about PluginStatePersistence, for any files, interval and bounds. *)
(*                                                                          *)
(* The inductive invariant orders the revisions of each file: what is on    *)
(* disk, what was completed, what is being written and what is pending, the *)
(* newest accepted.  Drained adds what the destructor relies on, Paid that  *)
(* a file whose force is still unused has credit for the write it allows.   *)
(***************************************************************************)
EXTENDS PluginStatePersistence, TLAPS

Ordered(f) ==
  /\ disk[f] <= completed[f] /\ completed[f] <= latest[f]
  /\ forced[f] <= latest[f] /\ goals[f] <= latest[f]
  /\ pending[f] # NoRevision => pending[f] = latest[f] /\ completed[f] < pending[f]
  /\ inFlight[f] # NoRevision => completed[f] < inFlight[f] /\ inFlight[f] <= latest[f]
  /\ pending[f] # NoRevision /\ inFlight[f] # NoRevision => inFlight[f] < pending[f]
  /\ pending[f] = NoRevision /\ inFlight[f] # NoRevision => inFlight[f] = latest[f]
  /\ pending[f] = NoRevision /\ inFlight[f] = NoRevision => completed[f] = latest[f]
  /\ disk[f] = completed[f] \/ completed[f] \in failed

Paid(f) ==
  /\ credit[f] >= 0
  /\ forced[f] > Larger(completed[f], inFlight[f]) => credit[f] >= 1

Drained ==
  /\ caller = "draining" => \A f \in Files : goals[f] = latest[f]
  /\ Stopping => \A f \in Files : completed[f] = latest[f]
  /\ worker = "ended" => Stopping

IInv == TypeOK /\ (\A f \in Files : Ordered(f) /\ Paid(f)) /\ Drained

-----------------------------------------------------------------------------
\* TypeOK, one fact for each variable.
Typed ==
  /\ now \in 1..MaxTime /\ nextRevision \in 1..(MaxRevisions + 1)
  /\ saving \subseteq [file : Files, rev : Revisions]
  /\ pending \in [Files -> 0..MaxRevisions] /\ latest \in [Files -> 0..MaxRevisions]
  /\ completed \in [Files -> 0..MaxRevisions] /\ forced \in [Files -> 0..MaxRevisions]
  /\ inFlight \in [Files -> 0..MaxRevisions] /\ disk \in [Files -> 0..MaxRevisions]
  /\ goals \in [Files -> 0..MaxRevisions]
  /\ startedAt \in [Files -> 0..MaxTime] /\ credit \in [Files -> Int]
  /\ flushes \in 0..MaxFlushes
  /\ worker \in {"none", "deciding", "asleep", "writing", "ended"}
  /\ wakeAt \in 0..(MaxTime + Interval)
  /\ caller \in {"free", "flushing", "draining", "joining", "gone"}
  /\ failed \subseteq Revisions
OneWrite ==
  \A f, g \in Files : inFlight[f] # NoRevision =>
    /\ worker = "writing"
    /\ inFlight[g] # NoRevision => f = g

LEMMA TypeParts == TypeOK <=> Typed /\ OneWrite
BY DEF TypeOK, Typed, OneWrite

LEMMA TypePartsNext == Typed' /\ OneWrite' => TypeOK'
BY DEF TypeOK, Typed, OneWrite

\* The revisions of a file are numbers.
LEMMA Numbers ==
  ASSUME Typed, NEW f \in Files
  PROVE  /\ pending[f] \in Nat /\ latest[f] \in Nat /\ completed[f] \in Nat
         /\ forced[f] \in Nat /\ inFlight[f] \in Nat /\ disk[f] \in Nat
         /\ goals[f] \in Nat /\ credit[f] \in Int /\ startedAt[f] \in Nat /\ now \in Nat
BY PersistenceAssumption DEF Typed

LEMMA InitInvariant == Init => IInv
<1> SUFFICES ASSUME Init PROVE IInv
  OBVIOUS
<1>1. Typed /\ OneWrite
  BY PersistenceAssumption DEF Init, Typed, OneWrite, NoRevision, Never
<1>2. ASSUME NEW f \in Files PROVE Ordered(f) /\ Paid(f)
  BY DEF Init, Ordered, Paid, Larger, NoRevision
<1>3. Drained
  BY DEF Init, Drained, Stopping
<1> QED BY <1>1, <1>2, <1>3, TypeParts DEF IInv

\* Steps that change nothing a file's order and credit are about.
LEMMA FilesKept ==
  ASSUME UNCHANGED <<mailboxVars, completed, inFlight, disk, failed, goals>>,
         NEW f \in Files, Ordered(f), Paid(f)
  PROVE  Ordered(f)' /\ Paid(f)'
BY DEF mailboxVars, Ordered, Paid

-----------------------------------------------------------------------------
(* The application's thread. *)

LEMMA SaveInvariant ==
  IInv /\ ((\E f \in Files : Reserve(f)) \/ \E s \in saving : Abandon(s)) => IInv'
<1> SUFFICES ASSUME IInv, (\E f \in Files : Reserve(f)) \/ \E s \in saving : Abandon(s)
             PROVE  IInv'
  OBVIOUS
<1>1. UNCHANGED <<now, caller, goals, flushes, mailboxVars, writeVars, workerVars>>
  BY DEF Reserve, Abandon
<1>2. /\ nextRevision' \in 1..(MaxRevisions + 1)
      /\ saving' \subseteq [file : Files, rev : Revisions]
  BY PersistenceAssumption, TypeParts DEF Reserve, Abandon, IInv, Typed, Revisions
<1>3. Typed' /\ OneWrite'
  BY <1>1, <1>2, TypeParts DEF IInv, Typed, OneWrite, mailboxVars, writeVars, workerVars
<1>4. \A f \in Files : Ordered(f)' /\ Paid(f)'
  BY <1>1, FilesKept DEF IInv, writeVars
<1>5. Drained'
  BY <1>1 DEF IInv, Drained, Stopping, mailboxVars, writeVars, workerVars
<1> QED BY <1>3, <1>4, <1>5, TypePartsNext DEF IInv

LEMMA SubmitInvariant ==
  ASSUME IInv, NEW s \in saving, NEW immediate \in BOOLEAN, Submit(s, immediate)
  PROVE  IInv'
<1>1. /\ UNCHANGED <<now, nextRevision, caller, goals, flushes, startedAt, completed, inFlight,
                     disk, failed>>
      /\ caller = "free" /\ saving' \subseteq saving
  BY DEF Submit, writeVars
<1>2. Typed /\ OneWrite
  BY TypeParts DEF IInv
<1>3. s.file \in Files /\ s.rev \in 1..MaxRevisions
  BY <1>2 DEF Typed, Revisions
<1>4. /\ latest' \in [Files -> 0..MaxRevisions] /\ pending' \in [Files -> 0..MaxRevisions]
      /\ forced' \in [Files -> 0..MaxRevisions] /\ credit' \in [Files -> Int]
  <2>1. latest' \in [Files -> 0..MaxRevisions] /\ pending' \in [Files -> 0..MaxRevisions]
    BY <1>2, <1>3 DEF Submit, Typed
  <2> QED BY <1>2, <1>3, <2>1 DEF Submit, Typed
<1>5. worker # "ended"
  BY <1>1 DEF IInv, Drained, Stopping
<1>6. /\ worker' \in {"none", "deciding", "asleep", "writing", "ended"}
      /\ wakeAt' \in 0..(MaxTime + Interval) /\ worker' # "ended"
      /\ worker = "writing" => worker' = "writing"
  BY <1>2, <1>5, PersistenceAssumption DEF Submit, StartOrNotify, Rouse, Typed, Never
<1>7. Typed' /\ OneWrite'
  <2>1. Typed'
    BY <1>1, <1>2, <1>4, <1>6 DEF Typed
  <2>2. OneWrite'
    BY <1>1, <1>2, <1>6 DEF OneWrite
  <2> QED BY <2>1, <2>2
<1>8. ASSUME NEW f \in Files PROVE Ordered(f)' /\ Paid(f)'
  <2>1. /\ pending[f] \in Nat /\ latest[f] \in Nat /\ completed[f] \in Nat /\ forced[f] \in Nat
        /\ inFlight[f] \in Nat /\ disk[f] \in Nat /\ goals[f] \in Nat /\ credit[f] \in Int
    BY <1>2, Numbers
  <2>2. Ordered(f) /\ Paid(f)
    BY DEF IInv
  <2>3. CASE f # s.file
    <3>1. /\ latest'[f] = latest[f] /\ pending'[f] = pending[f] /\ forced'[f] = forced[f]
          /\ credit'[f] = credit[f]
      BY <1>2, <2>3 DEF Submit, Typed
    <3> QED BY <1>1, <2>2, <3>1 DEF Ordered, Paid
  <2>4. CASE f = s.file /\ s.rev > latest[f]
    <3>1. latest'[f] = s.rev /\ pending'[f] = s.rev
      BY <1>2, <1>3, <2>4 DEF Submit, Newer, Typed
    <3>2. \/ forced'[f] = s.rev /\ credit'[f] = credit[f] + 1
          \/ forced'[f] = forced[f] /\ credit'[f] = credit[f]
      BY <1>2, <1>3, <2>4, <3>1 DEF Submit, Typed
    <3>3. s.rev # NoRevision /\ s.rev \in Nat
      BY <1>3, PersistenceAssumption DEF NoRevision
    <3>4. Ordered(f)'
      BY <1>1, <2>1, <2>2, <2>4, <3>1, <3>2, <3>3 DEF Ordered
    <3>5. Paid(f)'
      BY <1>1, <2>1, <2>2, <3>2, <3>3 DEF Paid, Larger
    <3> QED BY <3>4, <3>5
  <2>5. CASE f = s.file /\ ~(s.rev > latest[f])
    <3>1. latest'[f] = latest[f] /\ pending'[f] = pending[f]
      BY <1>2, <1>3, <2>5 DEF Submit, Newer, Typed
    <3>2. \/ forced'[f] = latest[f] /\ credit'[f] = credit[f] + 1
          \/ forced'[f] = forced[f] /\ credit'[f] = credit[f]
      BY <1>2, <1>3, <2>5, <3>1 DEF Submit, Typed
    <3>4. Ordered(f)'
      BY <1>1, <2>1, <2>2, <3>1, <3>2 DEF Ordered
    <3>5. Paid(f)'
      BY <1>1, <2>1, <2>2, <3>2 DEF Paid, Larger
    <3> QED BY <3>4, <3>5
  <2> QED BY <2>3, <2>4, <2>5
<1>9. Drained'
  BY <1>1, <1>6 DEF Drained, Stopping
<1> QED BY <1>7, <1>8, <1>9, TypePartsNext DEF IInv

LEMMA BeginFlushInvariant ==
  ASSUME IInv, NEW F \in SUBSET Files, NEW at \in {"flushing", "draining"},
         at = "draining" => F = Files,
         BeginFlush(F, at), flushes' \in 0..MaxFlushes
  PROVE  IInv'
<1>1. /\ UNCHANGED <<now, nextRevision, saving, pending, latest, startedAt, completed, inFlight,
                     disk, failed>>
      /\ caller = "free" /\ caller' = at
  BY DEF BeginFlush, writeVars
<1>2. Typed /\ OneWrite
  BY TypeParts DEF IInv
<1>3. \A f \in Files :
        /\ goals'[f] = IF f \in F THEN latest[f] ELSE 0
        /\ forced'[f] = IF f \in F THEN Larger(forced[f], latest[f]) ELSE forced[f]
        /\ credit'[f] = IF f \in F THEN credit[f] + 1 ELSE credit[f]
  BY DEF BeginFlush, Forced
<1>4. /\ goals' \in [Files -> 0..MaxRevisions] /\ forced' \in [Files -> 0..MaxRevisions]
      /\ credit' \in [Files -> Int]
  <2>1. goals' \in [Files -> 0..MaxRevisions]
    BY <1>2, PersistenceAssumption DEF BeginFlush, Typed
  <2>2. forced' \in [Files -> 0..MaxRevisions]
    BY <1>2 DEF BeginFlush, Forced, Larger, Typed
  <2>3. credit' \in [Files -> Int]
    BY <1>2 DEF BeginFlush, Typed
  <2> QED BY <2>1, <2>2, <2>3
<1>5. worker # "ended"
  BY <1>1 DEF IInv, Drained, Stopping
<1>6. /\ worker' \in {"none", "deciding", "asleep", "writing", "ended"}
      /\ wakeAt' \in 0..(MaxTime + Interval) /\ worker' # "ended"
      /\ worker = "writing" => worker' = "writing"
  BY <1>2, <1>5, PersistenceAssumption DEF BeginFlush, Notify, Rouse, Typed, Never
<1>7. Typed' /\ OneWrite'
  <2>1. Typed'
    BY <1>1, <1>2, <1>4, <1>6 DEF Typed
  <2>2. OneWrite'
    BY <1>1, <1>2, <1>6 DEF OneWrite
  <2> QED BY <2>1, <2>2
<1>8. ASSUME NEW f \in Files PROVE Ordered(f)' /\ Paid(f)'
  <2>1. /\ pending[f] \in Nat /\ latest[f] \in Nat /\ completed[f] \in Nat /\ forced[f] \in Nat
        /\ inFlight[f] \in Nat /\ disk[f] \in Nat /\ goals[f] \in Nat /\ credit[f] \in Int
    BY <1>2, Numbers
  <2>2. Ordered(f) /\ Paid(f)
    BY DEF IInv
  <2>3. Ordered(f)'
    BY <1>1, <1>3, <2>1, <2>2 DEF Ordered, Larger
  <2>4. Paid(f)'
    BY <1>1, <1>3, <2>1, <2>2 DEF Paid, Larger
  <2> QED BY <2>3, <2>4
<1>9. Drained'
  BY <1>1, <1>3, <1>6 DEF Drained, Stopping
<1> QED BY <1>7, <1>8, <1>9, TypePartsNext DEF IInv

LEMMA FlushInvariant == IInv /\ (Flush \/ Destroy) => IInv'
<1> SUFFICES ASSUME IInv, Flush \/ Destroy PROVE IInv'
  OBVIOUS
<1>1. CASE Flush
  <2>1. PICK F \in {Files} \cup {{f} : f \in Files} : BeginFlush(F, "flushing")
    BY <1>1 DEF Flush
  <2>2. flushes' \in 0..MaxFlushes
    BY <1>1, TypeParts, PersistenceAssumption DEF Flush, IInv, Typed
  <2>3. F \in SUBSET Files
    BY <2>1
  <2> QED BY <2>1, <2>2, <2>3, BeginFlushInvariant
<1>2. CASE Destroy
  <2>1. BeginFlush(Files, "draining") /\ flushes' \in 0..MaxFlushes
    BY <1>2, TypeParts DEF Destroy, IInv, Typed
  <2>2. Files \in SUBSET Files
    OBVIOUS
  <2> QED BY <2>1, <2>2, BeginFlushInvariant
<1> QED BY <1>1, <1>2

\* A wait that ends leaves the files it was for settled.
LEMMA GoalsSettle ==
  ASSUME IInv, GoalsReached, NEW f \in Files, goals[f] = latest[f]
  PROVE  completed[f] = latest[f] /\ Settled(f)
<1>1. Typed
  BY TypeParts DEF IInv
<1>2. /\ pending[f] \in Nat /\ latest[f] \in Nat /\ completed[f] \in Nat
      /\ inFlight[f] \in Nat /\ disk[f] \in Nat /\ goals[f] \in Nat
  BY <1>1, Numbers
<1> QED BY <1>2 DEF GoalsReached, IInv, Ordered, Settled

LEMMA CallerInvariant == IInv /\ Caller => IInv'
<1> SUFFICES ASSUME IInv, Caller PROVE IInv'
  OBVIOUS
<1>1. /\ UNCHANGED <<now, nextRevision, saving, flushes, mailboxVars, writeVars>>
      /\ goals' = goals \/ goals' = [f \in Files |-> 0]
      /\ caller' \in {"free", "joining", "gone"}
      /\ caller' \in {"joining", "gone"} =>
           caller = "joining" \/ (caller = "draining" /\ GoalsReached)
      /\ caller' = "free" => caller = "flushing"
  <2>1. CASE FlushReturns
    BY <2>1 DEF FlushReturns
  <2>2. CASE Stop
    BY <2>2 DEF Stop
  <2>3. CASE Join
    BY <2>3 DEF Join
  <2> QED BY <2>1, <2>2, <2>3 DEF Caller
<1>2. Typed /\ OneWrite
  BY TypeParts DEF IInv
<1>3. /\ worker' \in {"none", "deciding", "asleep", "writing", "ended"}
      /\ wakeAt' \in 0..(MaxTime + Interval)
      /\ worker' = "ended" => worker = "ended"
      /\ worker = "writing" => worker' = "writing"
  BY <1>2, PersistenceAssumption
     DEF Caller, FlushReturns, Stop, Join, Notify, Rouse, Typed, Never, workerVars
<1>4. goals' \in [Files -> 0..MaxRevisions]
  BY <1>1, <1>2, PersistenceAssumption DEF Typed
<1>5. Typed' /\ OneWrite'
  <2>1. Typed'
    BY <1>1, <1>2, <1>3, <1>4 DEF Typed, mailboxVars, writeVars
  <2>2. OneWrite'
    BY <1>1, <1>2, <1>3 DEF OneWrite, writeVars
  <2> QED BY <2>1, <2>2
<1>6. ASSUME NEW f \in Files PROVE Ordered(f)' /\ Paid(f)'
  <2>1. goals'[f] = goals[f] \/ goals'[f] = 0
    BY <1>1
  <2>2. latest[f] \in Nat
    BY <1>2, Numbers
  <2>3. Ordered(f) /\ Paid(f)
    BY DEF IInv
  <2> QED BY <1>1, <2>1, <2>2, <2>3 DEF Ordered, Paid, mailboxVars, writeVars
<1>7. Drained'
  <2>1. Stopping' => \A f \in Files : completed[f] = latest[f]
    <3>1. CASE caller = "joining"
      BY <3>1 DEF IInv, Drained, Stopping
    <3>2. CASE caller = "draining" /\ GoalsReached
      BY <3>2, GoalsSettle DEF IInv, Drained
    <3> QED BY <1>1, <3>1, <3>2 DEF Stopping
  <2>2. worker = "ended" => caller \in {"joining", "gone"}
    BY DEF IInv, Drained, Stopping
  <2> QED BY <1>1, <1>3, <2>1, <2>2 DEF Drained, Stopping, mailboxVars, writeVars
<1> QED BY <1>5, <1>6, <1>7, TypePartsNext DEF IInv

-----------------------------------------------------------------------------
(* The worker. *)

LEMMA StartWriteInvariant ==
  ASSUME IInv, NEW g \in Files, StartWrite(g)
  PROVE  IInv'
<1>1. UNCHANGED <<now, nextRevision, saving, caller, goals, flushes, latest, forced, completed,
                  disk, failed, wakeAt>>
  BY DEF StartWrite, callerVars
<1>2. Typed /\ OneWrite
  BY TypeParts DEF IInv
<1>3. /\ worker = "deciding" /\ worker' = "writing" /\ pending[g] # NoRevision
      /\ DueAt(g) <= now
  BY DEF StartWrite, Due, Pending
<1>4. \A f \in Files : inFlight[f] = NoRevision
  BY <1>2, <1>3 DEF OneWrite
<1>5. /\ inFlight' \in [Files -> 0..MaxRevisions] /\ pending' \in [Files -> 0..MaxRevisions]
      /\ startedAt' \in [Files -> 0..MaxTime] /\ credit' \in [Files -> Int]
  <2>1. inFlight' \in [Files -> 0..MaxRevisions] /\ pending' \in [Files -> 0..MaxRevisions]
    BY <1>2, PersistenceAssumption DEF StartWrite, Typed, NoRevision
  <2>2. startedAt' \in [Files -> 0..MaxTime]
    BY <1>2 DEF StartWrite, Typed
  <2>3. credit' \in [Files -> Int]
    BY <1>2 DEF StartWrite, Typed
  <2> QED BY <2>1, <2>2, <2>3
<1>6. \A f \in Files : /\ inFlight'[f] = IF f = g THEN pending[g] ELSE NoRevision
                       /\ pending'[f] = IF f = g THEN NoRevision ELSE pending[f]
  BY <1>2, <1>4 DEF StartWrite, Typed
<1>7. /\ \A f \in Files : f # g => credit'[f] = credit[f]
      /\ \/ credit'[g] = credit[g]
         \/ credit'[g] = credit[g] - 1 /\ startedAt[g] # Never /\ now < startedAt[g] + Interval
  BY <1>2 DEF StartWrite, Typed
<1>8. Typed' /\ OneWrite'
  <2>1. Typed'
    BY <1>1, <1>2, <1>3, <1>5 DEF Typed
  <2>2. OneWrite'
    BY <1>3, <1>6 DEF OneWrite
  <2> QED BY <2>1, <2>2
<1>9. ASSUME NEW f \in Files PROVE Ordered(f)' /\ Paid(f)'
  <2>1. /\ pending[f] \in Nat /\ latest[f] \in Nat /\ completed[f] \in Nat /\ forced[f] \in Nat
        /\ inFlight[f] \in Nat /\ disk[f] \in Nat /\ goals[f] \in Nat /\ credit[f] \in Int
        /\ startedAt[f] \in Nat /\ now \in Nat
    BY <1>2, Numbers
  <2>2. Ordered(f) /\ Paid(f)
    BY DEF IInv
  <2>3. Ordered(f)'
    BY <1>1, <1>3, <1>4, <1>6, <2>1, <2>2 DEF Ordered, NoRevision
  <2>4. CASE f # g
    BY <1>1, <1>4, <1>6, <1>7, <2>2, <2>3, <2>4 DEF Paid
  <2>5. CASE f = g
    <3>1. forced[f] <= inFlight'[f] /\ completed[f] < inFlight'[f]
      BY <1>3, <1>6, <2>2, <2>5 DEF Ordered
    <3>2. inFlight'[f] \in Nat
      BY <1>6, <2>1, <2>5
    <3>3. credit'[f] = credit[f] - 1 => credit[f] >= 1
      <4> SUFFICES ASSUME credit'[f] = credit[f] - 1 PROVE credit[f] >= 1
        OBVIOUS
      <4>1. startedAt[f] # Never /\ now < startedAt[f] + Interval
        BY <1>7, <2>1, <2>5
      <4>2. IsForced(f)
        BY <1>3, <2>1, <2>5, <4>1, PersistenceAssumption DEF DueAt
      <4>3. Larger(completed[f], inFlight[f]) = completed[f]
        BY <1>4, <2>1 DEF Larger, NoRevision
      <4> QED BY <2>2, <4>2, <4>3 DEF IsForced, Paid
    <3>4. credit'[f] >= 0
      BY <1>7, <2>1, <2>2, <2>5, <3>3 DEF Paid
    <3>5. ~(forced[f] > Larger(completed[f], inFlight'[f]))
      BY <2>1, <3>1, <3>2 DEF Larger
    <3> QED BY <1>1, <2>3, <3>4, <3>5 DEF Paid
  <2> QED BY <2>4, <2>5
<1>10. Drained'
  BY <1>1, <1>3 DEF IInv, Drained, Stopping
<1> QED BY <1>8, <1>9, <1>10, TypePartsNext DEF IInv

LEMMA EndWriteInvariant ==
  ASSUME IInv, NEW g \in Files, NEW written \in BOOLEAN, EndWrite(g, written)
  PROVE  IInv'
<1>1. UNCHANGED <<now, nextRevision, saving, caller, goals, flushes, pending, latest, forced,
                  credit, startedAt, wakeAt>>
  BY DEF EndWrite, callerVars, mailboxVars
<1>2. Typed /\ OneWrite
  BY TypeParts DEF IInv
<1>3. inFlight[g] # NoRevision /\ worker' = "deciding" /\ worker = "writing"
  BY <1>2 DEF EndWrite, OneWrite
<1>4. /\ completed[g] \in Nat /\ inFlight[g] \in Nat /\ completed[g] < inFlight[g]
  BY <1>2, <1>3, Numbers DEF IInv, Ordered
<1>5. completed' = [completed EXCEPT ![g] = inFlight[g]]
  BY <1>4 DEF EndWrite, Completed, Larger
<1>6. inFlight' = [inFlight EXCEPT ![g] = NoRevision]
  BY DEF EndWrite
<1>7. inFlight[g] \in Revisions
  BY <1>2, <1>3 DEF Typed, Revisions, NoRevision
<1>8. \/ disk' = [disk EXCEPT ![g] = inFlight[g]] /\ failed' = failed
      \/ disk' = disk /\ failed' = failed \cup {inFlight[g]}
  BY DEF EndWrite
<1>9. /\ completed' \in [Files -> 0..MaxRevisions] /\ inFlight' \in [Files -> 0..MaxRevisions]
      /\ disk' \in [Files -> 0..MaxRevisions] /\ failed' \subseteq Revisions
  <2>1. completed' \in [Files -> 0..MaxRevisions] /\ inFlight' \in [Files -> 0..MaxRevisions]
    BY <1>2, <1>5, <1>6, PersistenceAssumption DEF Typed, NoRevision
  <2>2. disk' \in [Files -> 0..MaxRevisions] /\ failed' \subseteq Revisions
    BY <1>2, <1>7, <1>8 DEF Typed
  <2> QED BY <2>1, <2>2
<1>10. \A f \in Files : inFlight'[f] = NoRevision
  BY <1>2, <1>3, <1>6 DEF OneWrite, Typed
<1>11. Typed' /\ OneWrite'
  <2>1. Typed'
    BY <1>1, <1>2, <1>3, <1>9 DEF Typed
  <2>2. OneWrite'
    BY <1>10 DEF OneWrite
  <2> QED BY <2>1, <2>2
<1>12. ASSUME NEW f \in Files PROVE Ordered(f)' /\ Paid(f)'
  <2>1. /\ pending[f] \in Nat /\ latest[f] \in Nat /\ completed[f] \in Nat /\ forced[f] \in Nat
        /\ inFlight[f] \in Nat /\ disk[f] \in Nat /\ goals[f] \in Nat /\ credit[f] \in Int
    BY <1>2, Numbers
  <2>2. Ordered(f) /\ Paid(f)
    BY DEF IInv
  <2>3. CASE f # g
    <3>1. completed'[f] = completed[f] /\ inFlight'[f] = inFlight[f] /\ disk'[f] = disk[f]
          /\ failed \subseteq failed'
      BY <1>2, <1>5, <1>6, <1>8, <2>3 DEF Typed
    <3> QED BY <1>1, <2>2, <3>1 DEF Ordered, Paid
  <2>4. CASE f = g
    <3>1. /\ completed'[f] = inFlight[f] /\ inFlight'[f] = NoRevision
          /\ \/ disk'[f] = inFlight[f]
             \/ disk'[f] = disk[f] /\ inFlight[f] \in failed'
      BY <1>2, <1>5, <1>8, <1>10, <2>4 DEF Typed
    <3>2. Ordered(f)'
      BY <1>1, <1>3, <2>1, <2>2, <2>4, <3>1 DEF Ordered
    <3>3. Paid(f)'
      BY <1>1, <1>4, <2>1, <2>2, <2>4, <3>1 DEF Paid, Larger, NoRevision
    <3> QED BY <3>2, <3>3
  <2> QED BY <2>3, <2>4
<1>13. Drained'
  <2>1. Stopping => \A f \in Files : f # g => completed'[f] = latest[f]
    BY <1>2, <1>5 DEF IInv, Drained, Typed
  <2>2. ~Stopping
    <3>1. latest[g] \in Nat /\ inFlight[g] <= latest[g]
      BY <1>2, <1>3, Numbers DEF IInv, Ordered
    <3> QED BY <1>4, <3>1 DEF IInv, Drained
  <2> QED BY <1>1, <1>3, <2>2 DEF IInv, Drained, Stopping
<1> QED BY <1>11, <1>12, <1>13, TypePartsNext DEF IInv

\* The worker sleeps, ends or wakes, time passes, or nothing happens.
LEMMA IdleInvariant == IInv /\ (Sleep \/ End \/ WakeUp \/ Tick \/ UNCHANGED vars) => IInv'
<1> SUFFICES ASSUME IInv, Sleep \/ End \/ WakeUp \/ Tick \/ UNCHANGED vars PROVE IInv'
  OBVIOUS
<1>1. UNCHANGED <<callerVars, mailboxVars, writeVars>>
  BY DEF Sleep, End, WakeUp, Tick, vars
<1>2. UNCHANGED <<nextRevision, saving, caller, goals, flushes, pending, latest, forced, credit,
                  startedAt, completed, inFlight, disk, failed>>
  BY <1>1 DEF callerVars, mailboxVars, writeVars
<1>3. Typed /\ OneWrite
  BY TypeParts DEF IInv
<1>4. /\ now' \in 1..MaxTime
      /\ worker' \in {"none", "deciding", "asleep", "writing", "ended"}
      /\ wakeAt' \in 0..(MaxTime + Interval)
      /\ worker = "writing" => worker' = "writing"
      /\ worker' = "ended" => worker = "ended" \/ Stopping
  BY <1>3, PersistenceAssumption
     DEF Sleep, End, WakeUp, Tick, Rouse, vars, workerVars, Typed, Never
<1>5. Typed' /\ OneWrite'
  <2>1. Typed'
    BY <1>2, <1>3, <1>4 DEF Typed
  <2>2. OneWrite'
    BY <1>2, <1>3, <1>4 DEF OneWrite
  <2> QED BY <2>1, <2>2
<1>6. \A f \in Files : Ordered(f)' /\ Paid(f)'
  BY <1>1, <1>2, FilesKept DEF IInv
<1>7. Drained'
  BY <1>2, <1>4 DEF IInv, Drained, Stopping
<1> QED BY <1>5, <1>6, <1>7, TypePartsNext DEF IInv

-----------------------------------------------------------------------------
(* The theorems. *)

LEMMA NextInvariant == IInv /\ [Next]_vars => IInv'
<1> SUFFICES ASSUME IInv, [Next]_vars PROVE IInv'
  OBVIOUS
<1>1. CASE (\E f \in Files : Reserve(f)) \/ \E s \in saving : Abandon(s)
  BY <1>1, SaveInvariant
<1>2. CASE \E s \in saving : \E immediate \in BOOLEAN : Submit(s, immediate)
  BY <1>2, SubmitInvariant
<1>3. CASE Flush \/ Destroy
  BY <1>3, FlushInvariant
<1>4. CASE Caller
  BY <1>4, CallerInvariant
<1>5. CASE \E f \in Files : StartWrite(f)
  BY <1>5, StartWriteInvariant
<1>6. CASE \E f \in Files : EndWrite(f, TRUE) \/ EndWrite(f, FALSE)
  BY <1>6, EndWriteInvariant
<1>7. CASE Sleep \/ End \/ WakeUp \/ TimedWakeUp \/ Tick \/ Terminated \/ UNCHANGED vars
  BY <1>7, IdleInvariant DEF TimedWakeUp, Terminated
<1> QED BY <1>1, <1>2, <1>3, <1>4, <1>5, <1>6, <1>7 DEF Next, Worker

\* The inductive invariant holds of every behaviour of the service.
THEOREM Invariant == Spec => []IInv
BY InitInvariant, NextInvariant, PTL DEF Spec

\* The service's state is well formed, and its one worker writes one file at a time.
THEOREM TypeCorrect == Spec => []TypeOK
<1>1. IInv => TypeOK
  BY DEF IInv
<1> QED BY <1>1, Invariant, PTL

\* An immediate submission or a flush allows one write ahead of the minute at most:
\* run() compares forcedRevision with completedRevision, and the write spends it.
THEOREM EarlyWritesPaid == Spec => []EarlyWritesArePaid
<1>1. IInv => EarlyWritesArePaid
  BY DEF IInv, Paid, EarlyWritesArePaid
<1> QED BY <1>1, Invariant, PTL

\* The worker that the destructor joins has written, or tried to write, all it accepted.
THEOREM WorkerDropsNothing == Spec => []NothingDropped
<1>1. ASSUME IInv, worker = "ended", NEW f \in Files PROVE Settled(f)
  <2>1. completed[f] = latest[f]
    BY <1>1 DEF IInv, Drained
  <2>2. /\ pending[f] \in Nat /\ latest[f] \in Nat /\ completed[f] \in Nat /\ inFlight[f] \in Nat
    BY <1>1, TypeParts, Numbers DEF IInv
  <2> QED BY <1>1, <2>1, <2>2 DEF IInv, Ordered, Settled
<1>2. IInv => NothingDropped
  BY <1>1 DEF NothingDropped
<1> QED BY <1>2, Invariant, PTL

\* submit and run() never replace what a file holds by an older state.
THEOREM FilesNeverRegress == Spec => FileNeverRegresses
<1>1. ASSUME IInv, [Next]_vars, NEW f \in Files PROVE disk'[f] >= disk[f]
  <2>1. Typed /\ disk[f] \in Nat /\ completed[f] \in Nat
    BY <1>1, TypeParts, Numbers DEF IInv
  <2>2. ASSUME NEW g \in Files, NEW written \in BOOLEAN, EndWrite(g, written)
        PROVE  disk'[f] >= disk[f]
    <3>1. inFlight[g] \in Nat /\ completed[g] \in Nat /\ disk[g] \in Nat
      BY <2>1, Numbers
    <3>2. disk[g] < inFlight[g]
      BY <1>1, <2>2, <3>1 DEF EndWrite, IInv, Ordered
    <3>3. disk' = disk \/ disk' = [disk EXCEPT ![g] = inFlight[g]]
      BY <2>2 DEF EndWrite
    <3> QED BY <2>1, <3>1, <3>2, <3>3 DEF Typed
  <2>3. CASE disk' = disk
    BY <2>1, <2>3
  <2>4. disk' = disk \/ \E g \in Files, written \in BOOLEAN : EndWrite(g, written)
    BY <1>1 DEF Next, Reserve, Abandon, Submit, Flush, Destroy, BeginFlush, Caller, FlushReturns,
                Stop, Join, Worker, StartWrite, Sleep, End, TimedWakeUp, WakeUp, Tick,
                Terminated, writeVars, vars
  <2> QED BY <2>2, <2>3, <2>4
<1>2. IInv /\ [Next]_vars => [\A f \in Files : disk'[f] >= disk[f]]_vars
  BY <1>1
<1> QED BY <1>2, Invariant, PTL DEF Spec, FileNeverRegresses

\* When flush returns, the file a plugin or world is about to load holds its newest
\* accepted state, unless that write failed, and the worker will not touch it.
THEOREM FlushSettlesFiles == Spec => FlushSettles
<1> DEFINE A == (caller \in {"flushing", "draining"} /\ caller' # caller) =>
                  \A f \in Files : goals[f] = latest[f] => Settled(f)
<1>1. ASSUME IInv, [Next]_vars PROVE A
  <2> SUFFICES ASSUME caller \in {"flushing", "draining"}, caller' # caller,
                      NEW f \in Files, goals[f] = latest[f]
               PROVE  Settled(f)
    OBVIOUS
  <2>1. GoalsReached
    BY <1>1 DEF Next, Reserve, Abandon, Submit, Flush, Destroy, BeginFlush, Caller, FlushReturns,
                Stop, Join, Worker, StartWrite, EndWrite, Sleep, End, TimedWakeUp, WakeUp, Tick,
                Terminated, callerVars, vars
  <2> QED BY <1>1, <2>1, GoalsSettle
<1>2. IInv /\ [Next]_vars => [A]_vars
  BY <1>1
<1> HIDE DEF A
<1>3. Spec => [][A]_vars
  BY <1>2, Invariant, PTL DEF Spec
<1> QED BY <1>3 DEF A, FlushSettles
-----------------------------------------------------------------------------
(* The service implements PluginStateStore. *)

\* Who waits has accepted nothing since, and who does not, waits for nothing.
Asked ==
  /\ caller = "free" => \A f \in Files : goals[f] = 0
  /\ \A f \in Files : goals[f] # 0 => goals[f] = latest[f]

\* The steps between which and the store there is nothing to show.
Quietly == UNCHANGED <<latest, completed, disk, caller, goals>>

LEMMA QuietSteps ==
  ASSUME Next
  PROVE  \/ Quietly
         \/ \E s \in saving, immediate \in BOOLEAN : Submit(s, immediate)
         \/ Flush \/ Destroy \/ Caller
         \/ \E f \in Files, written \in BOOLEAN : EndWrite(f, written)
<1>1. CASE (\E f \in Files : Reserve(f)) \/ \E s \in saving : Abandon(s)
  BY <1>1 DEF Reserve, Abandon, mailboxVars, writeVars, Quietly
<1>2. CASE \E f \in Files : StartWrite(f)
  BY <1>2 DEF StartWrite, callerVars, Quietly
<1>3. CASE Sleep \/ End \/ WakeUp \/ TimedWakeUp \/ Tick \/ Terminated
  BY <1>3 DEF Sleep, End, WakeUp, TimedWakeUp, Tick, Terminated, callerVars, mailboxVars,
              writeVars, vars, Quietly
<1> QED BY <1>1, <1>2, <1>3 DEF Next, Worker

\* What a flush waits for is what was accepted when it began.
LEMMA FlushBegins ==
  ASSUME Typed, NEW F \in SUBSET Files, NEW at, BeginFlush(F, at)
  PROVE  /\ caller = "free" /\ caller' = at
         /\ UNCHANGED <<latest, completed, disk>>
         /\ \A f \in Files : goals'[f] = IF f \in F THEN latest[f] ELSE 0
BY DEF BeginFlush, writeVars

LEMMA FlushOrDestroy ==
  ASSUME Typed, Flush \/ Destroy
  PROVE  \E F \in SUBSET Files :
           /\ caller = "free"
           /\ caller' = "flushing" \/ (caller' = "draining" /\ F = Files)
           /\ UNCHANGED <<latest, completed, disk>>
           /\ \A f \in Files : goals'[f] = IF f \in F THEN latest[f] ELSE 0
<1>1. CASE Flush
  <2>1. PICK F \in SUBSET Files : BeginFlush(F, "flushing")
    BY <1>1 DEF Flush
  <2> QED BY <2>1, FlushBegins
<1>2. CASE Destroy
  <2>1. BeginFlush(Files, "draining")
    BY <1>2 DEF Destroy
  <2> QED BY <2>1, FlushBegins
<1> QED BY <1>1, <1>2

LEMMA AskedStep ==
  ASSUME Typed, Asked, Next
  PROVE  Asked'
<1>1. CASE Quietly
  BY <1>1 DEF Quietly, Asked
<1>2. ASSUME NEW s \in saving, NEW immediate \in BOOLEAN, Submit(s, immediate) PROVE Asked'
  BY <1>2 DEF Submit, Asked
<1>3. CASE Flush \/ Destroy
  BY <1>3, FlushOrDestroy DEF Asked
<1>4. CASE Caller
  <2>1. FlushReturns => Asked'
    BY DEF FlushReturns, mailboxVars, Asked
  <2>2. Stop \/ Join => Asked'
    BY DEF Stop, Join, mailboxVars, Asked
  <2> QED BY <1>4, <2>1, <2>2 DEF Caller
<1>5. ASSUME NEW f \in Files, NEW written \in BOOLEAN, EndWrite(f, written) PROVE Asked'
  BY <1>5 DEF EndWrite, callerVars, mailboxVars, Asked
<1> QED BY <1>1, <1>2, <1>3, <1>4, <1>5, QuietSteps

\* A submission is an acceptance, unless the snapshot was overtaken.
LEMMA SubmitImplements ==
  ASSUME Typed, NEW s \in saving, NEW immediate \in BOOLEAN, Submit(s, immediate)
  PROVE  [Store!Next]_(Store!vars)
<1>1. s.file \in Files /\ s.rev \in Revisions
  BY DEF Typed
<1>2. UNCHANGED <<completed, disk, caller, goals>> /\ caller = "free"
  BY DEF Submit, writeVars
<1>3. Client = "active" /\ Client' = Client
  BY <1>2 DEF Client
<1>4. CASE Newer(s)
  <2>1. latest' = [latest EXCEPT ![s.file] = s.rev] /\ s.rev > latest[s.file]
    BY <1>4 DEF Submit, Newer
  <2>2. Store!Accept(s.file, s.rev)
    BY <1>2, <1>3, <2>1 DEF Store!Accept
  <2> QED BY <1>1, <2>2 DEF Store!Next
<1>5. CASE ~Newer(s)
  <2>1. latest' = latest
    BY <1>1, <1>5 DEF Submit, Typed
  <2> QED BY <1>2, <1>3, <2>1 DEF Store!vars
<1> QED BY <1>4, <1>5

\* A flush, or the destructor's, is a wait for the files it found.
LEMMA FlushImplements ==
  ASSUME Typed, Flush \/ Destroy
  PROVE  Store!Next
<1>1. PICK F \in SUBSET Files :
           /\ caller = "free"
           /\ caller' = "flushing" \/ (caller' = "draining" /\ F = Files)
           /\ UNCHANGED <<latest, completed, disk>>
           /\ \A f \in Files : goals'[f] = IF f \in F THEN latest[f] ELSE 0
  BY FlushOrDestroy
<1>2. Client = "active" /\ (Client' = "waiting" \/ (Client' = "leaving" /\ F = Files))
  BY <1>1 DEF Client
<1>3. {f \in Files : goals'[f] # 0} = {f \in F : latest[f] > 0}
  <2>1. \A f \in Files : latest[f] \in Nat
    BY Numbers
  <2> QED BY <1>1, <2>1
<1>4. Store!Wait(F)
  BY <1>1, <1>2, <1>3 DEF Store!Wait
<1> QED BY <1>1, <1>4 DEF Store!Next

\* The wait ends when the files it found are complete.
LEMMA CallerImplements ==
  ASSUME IInv, Asked, Caller
  PROVE  [Store!Next]_(Store!vars)
<1>1. Typed
  BY TypeParts DEF IInv
<1>2. UNCHANGED <<latest, completed, disk>>
  BY DEF Caller, FlushReturns, Stop, Join, mailboxVars, writeVars, callerVars
<1>3. ASSUME GoalsReached, NEW f \in Files, goals[f] # 0 PROVE completed[f] = latest[f]
  <2>1. completed[f] >= goals[f] /\ goals[f] = latest[f]
    BY <1>3 DEF GoalsReached, Asked
  <2>2. completed[f] <= latest[f] /\ completed[f] \in Nat /\ latest[f] \in Nat
    BY <1>1, Numbers DEF IInv, Ordered
  <2> QED BY <2>1, <2>2
<1>4. CASE FlushReturns
  <2>1. Client = "waiting" /\ Client' = "active"
    BY <1>4 DEF FlushReturns, Client
  <2>2. {f \in Files : goals'[f] # 0} = {}
    BY <1>4 DEF FlushReturns
  <2>3. Store!GoOn
    BY <1>2, <1>3, <1>4, <2>1, <2>2 DEF FlushReturns, Store!GoOn
  <2> QED BY <2>3 DEF Store!Next
<1>5. CASE Stop
  <2>1. Client = "leaving" /\ Client' = "gone" /\ goals' = goals
    BY <1>5 DEF Stop, Client
  <2>2. Store!GoOn
    BY <1>2, <1>3, <1>5, <2>1 DEF Stop, Store!GoOn
  <2> QED BY <2>2 DEF Store!Next
<1>6. CASE Join
  <2>1. Client = "gone" /\ Client' = "gone" /\ goals' = goals
    BY <1>6 DEF Join, Client
  <2> QED BY <1>2, <2>1 DEF Store!vars
<1> QED BY <1>4, <1>5, <1>6 DEF Caller

\* A write that ends, well or not, tries the snapshot that was in flight.
LEMMA EndWriteImplements ==
  ASSUME IInv, NEW g \in Files, NEW written \in BOOLEAN, EndWrite(g, written)
  PROVE  Store!Next
<1>1. Typed
  BY TypeParts DEF IInv
<1>2. /\ completed[g] \in Nat /\ inFlight[g] \in Nat /\ latest[g] \in Nat
      /\ completed[g] < inFlight[g] /\ inFlight[g] <= latest[g]
  BY <1>1, Numbers DEF EndWrite, IInv, Ordered
<1>3. inFlight[g] \in Revisions
  BY <1>1 DEF EndWrite, Typed, Revisions, NoRevision
<1>4. /\ completed' = [completed EXCEPT ![g] = inFlight[g]]
      /\ disk' = [disk EXCEPT ![g] = inFlight[g]] \/ disk' = disk
  BY <1>2 DEF EndWrite, Completed, Larger
<1>5. UNCHANGED <<latest, caller, goals>>
  BY DEF EndWrite, callerVars, mailboxVars
<1>6. Client' = Client
  BY <1>5 DEF Client
<1>7. Store!Try(g, inFlight[g])
  BY <1>2, <1>4, <1>5, <1>6 DEF Store!Try
<1> QED BY <1>3, <1>7 DEF Store!Next

LEMMA StepImplements == IInv /\ Asked /\ [Next]_vars => [Store!Next]_(Store!vars)
<1> SUFFICES ASSUME IInv, Asked, [Next]_vars PROVE [Store!Next]_(Store!vars)
  OBVIOUS
<1>1. Typed
  BY TypeParts DEF IInv
<1>2. Quietly => UNCHANGED Store!vars
  BY DEF Quietly, Client, Store!vars
<1>3. UNCHANGED vars => Quietly
  BY DEF vars, callerVars, mailboxVars, writeVars, Quietly
<1> QED BY <1>1, <1>2, <1>3, QuietSteps, SubmitImplements, FlushImplements, CallerImplements,
           EndWriteImplements

\* The writer refines PluginStateStore: whatever the order in which saves end, the minute
\* and failed writes do, a file only goes forward, and flush and the destructor return
\* when all they were called for has been tried.
THEOREM PersistenceImplementsStore == Spec => ImplementsStore
<1>1. Init => Store!Init /\ Asked
  <2>1. Init => Asked
    BY DEF Init, Asked
  <2>2. Init => Store!Init
    BY DEF Init, Client, NoRevision, Store!Init
  <2> QED BY <2>1, <2>2
<1>2. IInv /\ Asked /\ [Next]_vars => Asked'
  <2>1. IInv => Typed
    BY TypeParts DEF IInv
  <2>2. Asked /\ UNCHANGED vars => Asked'
    BY DEF vars, callerVars, mailboxVars, Asked
  <2> QED BY <2>1, <2>2, AskedStep
<1>3. Spec => []Asked
  BY <1>1, <1>2, Invariant, PTL DEF Spec
<1> QED BY <1>1, <1>3, Invariant, StepImplements, PTL DEF Spec, ImplementsStore, Store!Spec
=============================================================================
