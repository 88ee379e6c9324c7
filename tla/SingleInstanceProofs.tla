------------------------ MODULE SingleInstanceProofs ------------------------
(***************************************************************************)
(* Proofs about SingleInstance, for any processes and reloads.             *)
(***************************************************************************)
EXTENDS SingleInstance, SequenceTheorems, TLAPS

\* Who is past the lock in startServerOrForward holds it.
Locked == \A p \in Proc :
    state[p] \in {"probing", "sending", "waiting", "claiming"} => lock = p

\* A launcher that will listen has found that nobody does.
Probed == \A p \in Proc : state[p] = "claiming" /\ ~takeover[p] => ~Answered

Inv1 == TypeOK /\ Locked /\ Probed /\ OneInstance

-----------------------------------------------------------------------------
LEMMA NoSequence == <<>> \in Seq(Proc)
OBVIOUS

LEMMA InitFirst == Init => Inv1
<1>. SUFFICES ASSUME Init PROVE Inv1
  OBVIOUS
<1>1. TypeOK
  <2>1. /\ pending \in [Proc -> Seq(Proc)] /\ batch \in [Proc -> Seq(Proc)]
        /\ opened \in [Proc -> Seq(Proc)] /\ taken \in [Proc -> Seq(Proc)]
    BY NoSequence DEF Init
  <2>2. wire \in [Proc -> [server : Proc \cup {None},
                          stage : {"none", "open", "written", "taken", "closed"}]]
    BY DEF Init, NotConnected
  <2>3. /\ state \in [Proc -> {"new"} \cup Starting \cup Instances \cup Ended]
        /\ takeover \in [Proc -> BOOLEAN]
    BY DEF Init
  <2>4. reloads \in 0..MaxReloads /\ contested \in BOOLEAN
    <3>1. reloads = 0 /\ MaxReloads \in Nat
      BY ProcessAssumption DEF Init
    <3>2. contested \in BOOLEAN
      BY DEF Init
    <3>. QED BY <3>1, <3>2
  <2>5. lock \in Proc \cup {None} /\ endpoint \in Proc \cup {None}
    BY DEF Init
  <2>. QED BY <2>1, <2>2, <2>3, <2>4, <2>5 DEF TypeOK
<1>2. Locked /\ Probed /\ OneInstance
  BY DEF Init, Locked, Probed, OneInstance, Instances, Instance
<1>. QED BY <1>1, <1>2 DEF Inv1

LEMMA HangsType ==
  ASSUME TypeOK, NEW q \in Proc
  PROVE  Hangs(q) \in [Proc -> [server : Proc \cup {None},
                          stage : {"none", "open", "written", "taken", "closed"}]]
BY DEF TypeOK, Hangs

LEMMA HandleType ==
  ASSUME TypeOK, NEW p \in Proc, NEW q \in Proc, Handle(q, p)
  PROVE  /\ pending' \in [Proc -> Seq(Proc)] /\ batch' \in [Proc -> Seq(Proc)]
         /\ opened' \in [Proc -> Seq(Proc)] /\ taken' \in [Proc -> Seq(Proc)]
<1>1. \A s \in Seq(Proc) : Append(s, p) \in Seq(Proc)
  OBVIOUS
<1>2. /\ Append(taken[q], p) \in Seq(Proc) /\ Append(opened[q], p) \in Seq(Proc)
      /\ Append(pending[q], p) \in Seq(Proc)
  BY <1>1 DEF TypeOK
<1>. QED BY <1>2 DEF TypeOK, Handle

LEMMA ExchangeType ==
  ASSUME TypeOK, NEW q \in Proc, Exchange(q)
  PROVE  /\ pending' \in [Proc -> Seq(Proc)] /\ batch' \in [Proc -> Seq(Proc)]
         /\ opened' \in [Proc -> Seq(Proc)] /\ taken' \in [Proc -> Seq(Proc)]
<1>1. <<>> \in Seq(Proc)
  OBVIOUS
<1>. QED BY <1>1 DEF TypeOK, Exchange

\* A step of the start-up protocol of p keeps the first invariant.
LEMMA StartupFirst ==
  ASSUME Inv1, NEW p \in Proc, Startup(p)
  PROVE  Inv1'
<1>. USE ProcessAssumption DEF Inv1, TypeOK, Locked, Probed, OneInstance, Starting, Instances,
         Ended, Instance, Answered, filesVars
<1>1. CASE Launch(p)
  BY <1>1 DEF Launch, Goes
<1>2. CASE TryLock(p)
  BY <1>2 DEF TryLock, Goes
<1>3. CASE LockTimesOut(p)
  BY <1>3 DEF LockTimesOut, Goes
<1>4. CASE Connect(p)
  BY <1>4 DEF Connect, Goes
<1>5. CASE Unavailable(p)
  BY <1>5 DEF Unavailable, Goes
<1>6. CASE Write(p)
  BY <1>6 DEF Write, Goes
<1>7. CASE Forwarded(p)
  BY <1>7 DEF Forwarded, Goes, Unlock
<1>8. CASE SendFails(p)
  BY <1>8 DEF SendFails, Goes, Unlock
<1>9. CASE Listen(p)
  BY <1>9 DEF Listen, Goes, Unlock, Removes, Unprobed
<1>10. CASE ListenFails(p)
  BY <1>10 DEF ListenFails, Goes, Unlock, Removes, Unprobed
<1>. QED BY <1>1, <1>2, <1>3, <1>4, <1>5, <1>6, <1>7, <1>8, <1>9, <1>10 DEF Startup

LEMMA TakeFirst ==
  ASSUME Inv1, NEW q \in Proc, NEW p \in Proc, Take(q, p)
  PROVE  Inv1'
<1>1. /\ pending' \in [Proc -> Seq(Proc)] /\ batch' \in [Proc -> Seq(Proc)]
      /\ opened' \in [Proc -> Seq(Proc)] /\ taken' \in [Proc -> Seq(Proc)]
  BY HandleType DEF Inv1, Take
<1>2. wire' \in [Proc -> [server : Proc \cup {None},
                          stage : {"none", "open", "written", "taken", "closed"}]]
  BY DEF Inv1, TypeOK, Take
<1>3. UNCHANGED <<state, takeover, lock, endpoint, reloads, contested>>
  BY DEF Take
<1>4. TypeOK'
  BY <1>1, <1>2, <1>3 DEF Inv1, TypeOK
<1>5. Locked' /\ Probed' /\ OneInstance'
  BY <1>3 DEF Inv1, Locked, Probed, OneInstance, Instance, Answered
<1>. QED BY <1>4, <1>5 DEF Inv1

LEMMA ReloadFirst ==
  ASSUME Inv1, NEW q \in Proc, Reload(q)
  PROVE  Inv1'
<1>1. /\ pending' \in [Proc -> Seq(Proc)] /\ batch' \in [Proc -> Seq(Proc)]
      /\ opened' \in [Proc -> Seq(Proc)] /\ taken' \in [Proc -> Seq(Proc)]
  BY NoSequence DEF Inv1, TypeOK, Reload
<1>2. wire' \in [Proc -> [server : Proc \cup {None},
                          stage : {"none", "open", "written", "taken", "closed"}]]
  BY HangsType DEF Inv1, Reload
<1>3. /\ state' \in [Proc -> {"new"} \cup Starting \cup Instances \cup Ended]
      /\ takeover' \in [Proc -> BOOLEAN] /\ reloads' \in 0..MaxReloads
  BY ProcessAssumption DEF Inv1, TypeOK, Reload, Goes, Starting
<1>4. /\ lock' \in Proc \cup {None} /\ endpoint' \in Proc \cup {None}
      /\ contested' \in BOOLEAN
  BY DEF Inv1, TypeOK, Reload
<1>5. TypeOK'
  BY <1>1, <1>2, <1>3, <1>4 DEF TypeOK
<1>6. Locked' /\ Probed' /\ OneInstance'
  BY DEF Inv1, TypeOK, Locked, Probed, OneInstance, Instance, Instances, Answered, Reload, Goes
<1>. QED BY <1>5, <1>6 DEF Inv1

\* So does a step of an instance.
LEMMA InstanceFirst ==
  ASSUME Inv1, NEW q \in Proc,
         OwnFile(q) \/ Dispatch(q) \/ Exit(q) \/ Unlink(q) \/ Crash(q) \/ Reload(q)
           \/ \E p \in Proc : Take(q, p)
  PROVE  Inv1'
<1>. USE ProcessAssumption DEF Inv1, TypeOK, Locked, Probed, OneInstance, Starting, Instances,
         Ended, Instance, Answered, filesVars
<1>1. CASE OwnFile(q)
  BY <1>1, HandleType DEF OwnFile
<1>2. CASE BeginDispatch(q)
  BY <1>2, ExchangeType DEF BeginDispatch, Goes
<1>3. CASE DispatchNext(q)
  <2>1. Tail(batch[q]) \in Seq(Proc) /\ Append(opened[q], Head(batch[q])) \in Seq(Proc)
    BY <1>3 DEF DispatchNext
  <2>. QED BY <1>3, <2>1 DEF DispatchNext
<1>4. CASE BatchEnds(q)
  <2>1. CASE pending[q] # <<>>
    BY <1>4, <2>1, ExchangeType DEF BatchEnds
  <2>2. CASE pending[q] = <<>>
    BY <1>4, <2>2 DEF BatchEnds, Goes
  <2>. QED BY <2>1, <2>2
<1>5. CASE Exit(q)
  BY <1>5, HangsType DEF Exit, Goes
<1>6. CASE Crash(q)
  BY <1>6, HangsType DEF Crash, Goes, Unlock
<1>7. CASE Reload(q)
  BY <1>7, ReloadFirst
<1>8. ASSUME NEW p \in Proc, Take(q, p) PROVE Inv1'
  BY <1>8, TakeFirst
<1>9. CASE Unlink(q)
  BY <1>9 DEF Unlink, Goes, Removes, Unprobed
<1>. QED BY <1>1, <1>2, <1>3, <1>4, <1>5, <1>6, <1>7, <1>8, <1>9 DEF Dispatch

LEMMA NextFirst == Inv1 /\ [Next]_vars => Inv1'
<1>. SUFFICES ASSUME Inv1, [Next]_vars PROVE Inv1'
  OBVIOUS
<1>1. CASE UNCHANGED vars
  BY <1>1 DEF Inv1, TypeOK, Locked, Probed, OneInstance, Instance, Answered, vars, filesVars
<1>2. CASE Next
  BY <1>2, StartupFirst, InstanceFirst DEF Next
<1>. QED BY <1>1, <1>2

\* The variables keep their types.
THEOREM TypeCorrect == Spec => []TypeOK
<1>1. Spec => []Inv1
  BY InitFirst, NextFirst, PTL DEF Spec
<1>. QED BY <1>1, PTL DEF Inv1

\* A launcher that removes an endpoint's file to listen, under the lock, removes one that
\* nobody listens on, whatever other processes do meanwhile, unlinks of exiting ones and
\* takeovers included.
LaunchersRemoveStale ==
  [][\A p \in Proc : (Listen(p) \/ ListenFails(p)) /\ ~takeover[p] => ~Answered]_vars

\* startServerOrForward keeps its promise towards the endpoints of others: a launch never
\* removes one that is in use.
THEOREM NoLaunchRemovesAnInstance == Spec => LaunchersRemoveStale
<1>1. Inv1 /\ [Next]_vars =>
        [\A p \in Proc : (Listen(p) \/ ListenFails(p)) /\ ~takeover[p] => ~Answered]_vars
  BY DEF Inv1, Probed, Listen, ListenFails
<1>. QED BY <1>1, InitFirst, NextFirst, PTL DEF Spec, LaunchersRemoveStale

\* For any launches, reloads, exits, crashes and timeouts: there is one instance, the one a
\* launch finds, as long as no takeover and no exit has removed the endpoint of another.
THEOREM SingleOwner == Spec => []OneInstance
<1>1. Spec => []Inv1
  BY InitFirst, NextFirst, PTL DEF Spec
<1>. QED BY <1>1, PTL DEF Inv1

-----------------------------------------------------------------------------
(* What an instance opens. *)

\* An image that has not listened yet has taken nothing.
Fresh == \A q \in Proc : state[q] \in {"new"} \cup Starting =>
    taken[q] = <<>> /\ opened[q] = <<>> /\ batch[q] = <<>> /\ pending[q] = <<>>

\* What is taken is opened, in the batch or pending.
Held == \A q \in Proc : Instance(q) => taken[q] = opened[q] \o batch[q] \o pending[q]

\* Nothing is opened before the first batch, and nothing waits after the last.
Phases == \A q \in Proc :
    /\ state[q] = "starting" => opened[q] = <<>> /\ batch[q] = <<>>
    /\ state[q] = "ready" => batch[q] = <<>> /\ pending[q] = <<>>

Distinct == \A q \in Proc : \A i, j \in 1..Len(taken[q]) : taken[q][i] = taken[q][j] => i = j

\* A launcher connects once, and not to itself; its connection shows that it was taken.
Once == \A p \in Proc :
    /\ wire[p].server # p
    /\ state[p] \in {"new", "probing"} => ~takeover[p]
    /\ state[p] \in {"new", "locking", "probing"} /\ ~takeover[p] => wire[p].stage = "none"
Marked == \A q \in Proc : \A i \in 1..Len(taken[q]) :
    taken[q][i] # q => wire[taken[q][i]].stage = "taken"

Inv2 == Fresh /\ Held /\ Phases /\ Distinct /\ Once /\ Marked

LEMMA AppendLast ==
  ASSUME NEW S, NEW s \in Seq(S), NEW t \in Seq(S), NEW e \in S
  PROVE  Append(s \o t, e) = s \o Append(t, e)
<1>1. s \o t \in Seq(S) /\ <<e>> \in Seq(S)
  BY ConcatProperties
<1>2. Append(s \o t, e) = (s \o t) \o <<e>> /\ Append(t, e) = t \o <<e>>
  BY <1>1, AppendIsConcat
<1>. QED BY <1>1, <1>2, ConcatAssociative

LEMMA MoveHead ==
  ASSUME NEW S, NEW s \in Seq(S), NEW t \in Seq(S), t # <<>>
  PROVE  Append(s, Head(t)) \o Tail(t) = s \o t
<1>1. Head(t) \in S /\ Tail(t) \in Seq(S) /\ <<Head(t)>> \in Seq(S)
  BY HeadTailProperties
<1>2. t = <<Head(t)>> \o Tail(t)
  OBVIOUS
<1>3. Append(s, Head(t)) = s \o <<Head(t)>>
  BY <1>1, AppendIsConcat
<1>4. (s \o <<Head(t)>>) \o Tail(t) = s \o (<<Head(t)>> \o Tail(t))
  BY <1>1, ConcatAssociative
<1>. QED BY <1>2, <1>3, <1>4

\* An element that is not there can be appended to distinct ones.
LEMMA AppendDistinct ==
  ASSUME NEW S, NEW s \in Seq(S), NEW e \in S,
         \A i, j \in 1..Len(s) : s[i] = s[j] => i = j,
         \A i \in 1..Len(s) : s[i] # e
  PROVE  \A i, j \in 1..Len(Append(s, e)) : Append(s, e)[i] = Append(s, e)[j] => i = j
BY AppendProperties

LEMMA HandleSecond ==
  ASSUME TypeOK, Held, Phases, NEW q \in Proc, NEW p \in Proc, Instance(q), Handle(q, p)
  PROVE  taken'[q] = opened'[q] \o batch'[q] \o pending'[q]
<1>1. /\ opened[q] \in Seq(Proc) /\ batch[q] \in Seq(Proc) /\ pending[q] \in Seq(Proc)
      /\ opened[q] \o batch[q] \in Seq(Proc)
  <2>1. opened[q] \in Seq(Proc) /\ batch[q] \in Seq(Proc) /\ pending[q] \in Seq(Proc)
    BY DEF TypeOK
  <2>. QED BY <2>1, ConcatProperties
<1>2. taken[q] = opened[q] \o batch[q] \o pending[q] /\ taken'[q] = Append(taken[q], p)
  BY DEF Held, Handle, TypeOK
<1>3. CASE state[q] = "ready"
  <2>1. batch[q] = <<>> /\ pending[q] = <<>>
    BY <1>3 DEF Phases
  <2>2. taken[q] = opened[q]
    BY <1>1, <1>2, <2>1, ConcatEmptySeq
  <2>3. opened'[q] = Append(opened[q], p) /\ batch'[q] = <<>> /\ pending'[q] = <<>>
    BY <1>3, <2>1 DEF Handle, TypeOK
  <2>4. Append(opened[q], p) \in Seq(Proc)
    BY <1>1
  <2>. QED BY <1>2, <2>2, <2>3, <2>4, ConcatEmptySeq
<1>4. CASE state[q] # "ready"
  <2>1. pending'[q] = Append(pending[q], p) /\ opened'[q] = opened[q] /\ batch'[q] = batch[q]
    BY <1>4 DEF Handle, TypeOK
  <2>2. Append((opened[q] \o batch[q]) \o pending[q], p)
          = (opened[q] \o batch[q]) \o Append(pending[q], p)
    <3>1. \A s, t \in Seq(Proc) : Append(s \o t, p) = s \o Append(t, p)
      BY AppendLast
    <3>. QED BY <1>1, <3>1
  <2>. QED BY <1>2, <2>1, <2>2
<1>. QED BY <1>3, <1>4

LEMMA InitSecond == Init => Inv2
<1>. SUFFICES ASSUME Init PROVE Inv2
  OBVIOUS
<1>1. \A q \in Proc : taken[q] = <<>> /\ opened[q] = <<>> /\ batch[q] = <<>> /\ pending[q] = <<>>
  BY DEF Init
<1>2. \A q \in Proc : state[q] = "new" /\ takeover[q] = FALSE /\ wire[q] = NotConnected
  BY DEF Init
<1>3. Fresh /\ Held /\ Phases
  BY <1>1, <1>2 DEF Fresh, Held, Phases, Instance, Instances
<1>4. Distinct /\ Marked
  <2>1. Len(<<>>) = 0
    OBVIOUS
  <2>. QED BY <1>1, <2>1 DEF Distinct, Marked
<1>5. Once
  BY <1>2, ProcessAssumption DEF Once, NotConnected
<1>. QED BY <1>3, <1>4, <1>5 DEF Inv2

\* The launcher's part does not touch what was taken.
LEMMA StartupSecond ==
  ASSUME Inv1, Inv2, NEW p \in Proc, Startup(p)
  PROVE  Inv2'
<1>1. UNCHANGED filesVars
  BY DEF Startup, Launch, TryLock, LockTimesOut, Connect, Unavailable, Write, Forwarded,
         SendFails, Listen, ListenFails
<1>2. \A q \in Proc : Instance(q)' => Instance(q) \/ state[q] = "claiming"
  BY DEF Startup, Launch, TryLock, LockTimesOut, Connect, Unavailable, Write, Forwarded,
         SendFails, Listen, ListenFails, Goes, Inv1, TypeOK, Instance, Instances
<1>3. Fresh' /\ Phases'
  BY <1>1 DEF Startup, Launch, TryLock, LockTimesOut, Connect, Unavailable, Write, Forwarded,
         SendFails, Listen, ListenFails, Goes, Inv1, TypeOK, Inv2, Fresh, Phases, Starting,
         Instances, filesVars
<1>4. Held'
  <2>. SUFFICES ASSUME NEW q \in Proc, Instance(q)'
                PROVE  (taken[q] = opened[q] \o batch[q] \o pending[q])'
    BY DEF Held
  <2>1. CASE Instance(q)
    BY <1>1, <2>1 DEF Inv2, Held, filesVars
  <2>2. CASE state[q] = "claiming"
    BY <1>1, <2>2, NoSequence, ConcatEmptySeq DEF Inv2, Fresh, Starting, filesVars
  <2>. QED BY <1>2, <2>1, <2>2
<1>5. Distinct'
  BY <1>1 DEF Inv2, Distinct, filesVars
<1>6. Once'
  BY DEF Startup, Launch, TryLock, LockTimesOut, Connect, Unavailable, Write, Forwarded,
         SendFails, Listen, ListenFails, Goes, Inv1, TypeOK, Inv2, Once, Answered, Instance, Instances
<1>7. \A q \in Proc : wire[q].stage = "taken" => wire'[q].stage = "taken"
  BY DEF Startup, Launch, TryLock, LockTimesOut, Connect, Unavailable, Write, Forwarded,
         SendFails, Listen, ListenFails, Goes, Inv1, TypeOK, Inv2, Once
<1>8. Marked'
  <2>1. \A q \in Proc : \A i \in 1..Len(taken[q]) : taken[q][i] \in Proc
    BY DEF Inv1, TypeOK
  <2>. QED BY <1>1, <1>7, <2>1 DEF Inv2, Marked, filesVars
<1>. QED BY <1>3, <1>4, <1>5, <1>6, <1>8 DEF Inv2

\* What is handled is distinct from what was, and marked.
LEMMA HandleDistinct ==
  ASSUME TypeOK, Distinct, NEW q \in Proc, NEW p \in Proc, Handle(q, p),
         \A i \in 1..Len(taken[q]) : taken[q][i] # p
  PROVE  Distinct'
<1>. SUFFICES ASSUME NEW r \in Proc
              PROVE  \A i, j \in 1..Len(taken'[r]) : taken'[r][i] = taken'[r][j] => i = j
  BY DEF Distinct
<1>1. taken[q] \in Seq(Proc)
  BY DEF TypeOK
<1>2. CASE r = q
  <2>1. taken'[r] = Append(taken[q], p)
    BY <1>2 DEF Handle, TypeOK
  <2>2. \A i, j \in 1..Len(taken[q]) : taken[q][i] = taken[q][j] => i = j
    BY DEF Distinct
  <2>3. \A i, j \in 1..Len(Append(taken[q], p)) :
           Append(taken[q], p)[i] = Append(taken[q], p)[j] => i = j
    BY <1>1, <2>2, AppendDistinct
  <2>. QED BY <2>1, <2>3
<1>3. CASE r # q
  BY <1>3 DEF Handle, TypeOK, Distinct
<1>. QED BY <1>2, <1>3

\* Taking a request, or the instance's own file.
LEMMA HandleSteps ==
  ASSUME Inv1, Inv2, NEW q \in Proc, NEW p \in Proc, Instance(q), Handle(q, p),
         UNCHANGED <<state, takeover>>,
         wire' = wire \/ wire' = [wire EXCEPT ![p].stage = "taken"],
         p # q => wire'[p].stage = "taken",
         \A i \in 1..Len(taken[q]) : taken[q][i] # p,
         p = q \/ wire[p].stage = "written"
  PROVE  Inv2'
<1>. USE DEF Inv1, Inv2
<1>1. \A r \in Proc \ {q} : /\ taken'[r] = taken[r] /\ opened'[r] = opened[r]
                            /\ batch'[r] = batch[r] /\ pending'[r] = pending[r]
  BY DEF Handle, TypeOK
<1>2. Fresh'
  BY <1>1 DEF Fresh, Instance, Instances, Starting
<1>3. Held'
  <2>. SUFFICES ASSUME NEW r \in Proc, Instance(r)
                PROVE  taken'[r] = opened'[r] \o batch'[r] \o pending'[r]
    BY DEF Held, Instance
  <2>1. CASE r = q
    BY <2>1, HandleSecond
  <2>2. CASE r # q
    BY <1>1, <2>2 DEF Held
  <2>. QED BY <2>1, <2>2
<1>4. Phases'
  BY DEF Phases, Handle, TypeOK
<1>5. Distinct'
  BY HandleDistinct
<1>6. Once'
  <2>1. \A r \in Proc : wire'[r].server = wire[r].server
                      /\ (r # p => wire'[r].stage = wire[r].stage)
    BY DEF TypeOK
  <2>2. state[p] \in {"new", "locking", "probing"} => takeover[p]
    BY DEF Once, Instance, Instances
  <2>. QED BY <2>1, <2>2 DEF Once
<1>7. Marked'
  <2>. SUFFICES ASSUME NEW r \in Proc, NEW i \in 1..Len(taken'[r]), taken'[r][i] # r
                PROVE  wire'[taken'[r][i]].stage = "taken"
    BY DEF Marked
  <2>1. \A o \in Proc : wire[o].stage = "taken" => wire'[o].stage = "taken"
    BY DEF TypeOK
  <2>2. \A j \in 1..Len(taken[r]) : taken[r][j] \in Proc
    BY DEF TypeOK
  <2>3. CASE r # q
    BY <1>1, <2>1, <2>2, <2>3 DEF Marked
  <2>4. CASE r = q
    <3>1. taken'[r] = Append(taken[r], p) /\ taken[r] \in Seq(Proc)
      BY <2>4 DEF Handle, TypeOK
    <3>2. (i \in 1..Len(taken[r]) /\ taken'[r][i] = taken[r][i]) \/ taken'[r][i] = p
      BY <3>1, AppendProperties
    <3>. QED BY <2>1, <2>2, <2>4, <3>2 DEF Marked
  <2>. QED BY <2>3, <2>4
<1>. QED BY <1>2, <1>3, <1>4, <1>5, <1>6, <1>7

LEMMA TakeSecond ==
  ASSUME Inv1, Inv2, NEW q \in Proc, NEW p \in Proc, Take(q, p)
  PROVE  Inv2'
<1>1. p # q /\ wire[p].stage = "written"
  BY DEF Take, Inv2, Once
<1>2. \A i \in 1..Len(taken[q]) : taken[q][i] # p
  BY <1>1 DEF Inv2, Marked
<1>3. wire' = [wire EXCEPT ![p].stage = "taken"] /\ wire'[p].stage = "taken"
  BY DEF Take, Inv1, TypeOK
<1>. QED BY <1>1, <1>2, <1>3, HandleSteps DEF Take

LEMMA OwnFileSecond ==
  ASSUME Inv1, Inv2, NEW q \in Proc, OwnFile(q)
  PROVE  Inv2'
<1>1. Instance(q)
  BY DEF OwnFile, Instance, Instances
<1>. QED BY <1>1, HandleSteps DEF OwnFile

LEMMA DispatchSecond ==
  ASSUME Inv1, Inv2, NEW q \in Proc, Dispatch(q)
  PROVE  Inv2'
<1>. USE DEF Inv1, Inv2
<1>1. /\ taken' = taken /\ wire' = wire /\ takeover' = takeover
      /\ Instance(q) /\ Instance(q)'
      /\ \A r \in Proc \ {q} : /\ state'[r] = state[r] /\ opened'[r] = opened[r]
                               /\ batch'[r] = batch[r] /\ pending'[r] = pending[r]
  BY DEF Dispatch, BeginDispatch, DispatchNext, BatchEnds, Exchange, Goes, TypeOK, Instance,
         Instances, filesVars
<1>2. Fresh'
  BY <1>1 DEF Fresh, Instance, Instances, Starting
<1>3. opened[q] \in Seq(Proc) /\ batch[q] \in Seq(Proc) /\ pending[q] \in Seq(Proc)
  BY DEF TypeOK
<1>4. taken[q] = opened[q] \o batch[q] \o pending[q]
  BY <1>1 DEF Held
<1>5. ASSUME Exchange(q), batch[q] = <<>>
      PROVE  taken[q] = opened'[q] \o batch'[q] \o pending'[q]
  <2>1. opened'[q] = opened[q] /\ batch'[q] = pending[q] /\ pending'[q] = <<>>
    BY <1>5 DEF Exchange, TypeOK
  <2>2. taken[q] = opened[q] \o pending[q] /\ opened[q] \o pending[q] \in Seq(Proc)
    BY <1>3, <1>4, <1>5, ConcatEmptySeq, ConcatProperties
  <2>3. (opened[q] \o pending[q]) \o <<>> = opened[q] \o pending[q]
    BY <2>2, ConcatEmptySeq
  <2>. QED BY <2>1, <2>2, <2>3
<1>6. /\ taken[q] = opened'[q] \o batch'[q] \o pending'[q]
      /\ state'[q] = "starting" => opened'[q] = <<>> /\ batch'[q] = <<>>
      /\ state'[q] = "ready" => batch'[q] = <<>> /\ pending'[q] = <<>>
  <2>1. CASE BeginDispatch(q)
    <3>1. batch[q] = <<>> /\ state'[q] = "draining"
      BY <2>1 DEF BeginDispatch, Goes, Phases, TypeOK
    <3>. QED BY <1>5, <2>1, <3>1 DEF BeginDispatch
  <2>2. CASE DispatchNext(q)
    <3>1. /\ opened'[q] = Append(opened[q], Head(batch[q])) /\ batch'[q] = Tail(batch[q])
          /\ pending'[q] = pending[q] /\ state'[q] = "draining" /\ batch[q] # <<>>
      BY <2>2 DEF DispatchNext, TypeOK
    <3>2. Append(opened[q], Head(batch[q])) \o Tail(batch[q]) = opened[q] \o batch[q]
      BY <1>3, <3>1, MoveHead
    <3>. QED BY <1>4, <3>1, <3>2
  <2>3. CASE BatchEnds(q) /\ pending[q] # <<>>
    BY <1>5, <2>3 DEF BatchEnds
  <2>4. CASE BatchEnds(q) /\ pending[q] = <<>>
    <3>1. /\ opened' = opened /\ batch' = batch /\ pending' = pending
          /\ state'[q] = "ready" /\ batch[q] = <<>>
      BY <2>4 DEF BatchEnds, Goes, TypeOK, filesVars
    <3>. QED BY <1>4, <2>4, <3>1
  <2>. QED BY <2>1, <2>2, <2>3, <2>4 DEF Dispatch
<1>7. Held' /\ Phases'
  BY <1>1, <1>6 DEF Held, Phases, Instance
<1>8. Distinct' /\ Marked'
  BY <1>1 DEF Distinct, Marked
<1>9. Once'
  BY <1>1 DEF Once, Instance, Instances
<1>. QED BY <1>2, <1>7, <1>8, <1>9

LEMMA EndSecond ==
  ASSUME Inv1, Inv2, NEW q \in Proc, Exit(q) \/ Unlink(q) \/ Crash(q) \/ Reload(q)
  PROVE  Inv2'
<1>. USE DEF Inv1, Inv2
<1>1. /\ \A r \in Proc \ {q} :
           /\ state'[r] = state[r] /\ takeover'[r] = takeover[r] /\ taken'[r] = taken[r]
           /\ opened'[r] = opened[r] /\ batch'[r] = batch[r] /\ pending'[r] = pending[r]
      /\ \A r \in Proc : /\ wire'[r].server = wire[r].server
                         /\ wire[r].stage \in {"none", "taken"} => wire'[r].stage = wire[r].stage
  <2>1. wire' = Hangs(q) \/ wire' = wire
    BY DEF Exit, Unlink, Crash, Reload
  <2>3. \A r \in Proc \ {q} : state'[r] = state[r] /\ takeover'[r] = takeover[r]
    BY DEF Exit, Unlink, Crash, Reload, Goes, TypeOK
  <2>4. \A r \in Proc \ {q} :
           /\ taken'[r] = taken[r] /\ opened'[r] = opened[r]
           /\ batch'[r] = batch[r] /\ pending'[r] = pending[r]
    BY DEF Exit, Unlink, Crash, Reload, TypeOK, filesVars
  <2>5. \A r \in Proc :
           /\ wire'[r].server = wire[r].server
           /\ wire[r].stage \in {"none", "taken"} => wire'[r].stage = wire[r].stage
    BY <2>1 DEF Hangs, TypeOK
  <2>. HIDE DEF Inv1, Inv2
  <2>. QED BY <2>3, <2>4, <2>5
<1>2. \/ state'[q] \in {"exiting", "gone"} /\ taken'[q] = taken[q]
      \/ /\ state'[q] = "locking" /\ takeover'[q]
         /\ taken'[q] = <<>> /\ opened'[q] = <<>> /\ batch'[q] = <<>> /\ pending'[q] = <<>>
  BY DEF Exit, Unlink, Crash, Reload, Goes, TypeOK, filesVars
<1>3. Fresh'
  BY <1>1, <1>2 DEF Fresh, Starting
<1>4. Held' /\ Phases'
  BY <1>1, <1>2 DEF Held, Phases, Instance, Instances
<1>5. Len(<<>>) = 0
  OBVIOUS
<1>6. Distinct'
  BY <1>1, <1>2, <1>5 DEF Distinct
<1>7. Once'
  BY <1>1, <1>2 DEF Once
<1>8. Marked'
  <2>1. \A r \in Proc : \A i \in 1..Len(taken[r]) : taken[r][i] \in Proc
    BY DEF TypeOK
  <2>. QED BY <1>1, <1>2, <1>5, <2>1 DEF Marked
<1>. QED BY <1>3, <1>4, <1>6, <1>7, <1>8

LEMMA NextSecond == Inv1 /\ Inv2 /\ [Next]_vars => Inv2'
<1>. SUFFICES ASSUME Inv1, Inv2, [Next]_vars PROVE Inv2'
  OBVIOUS
<1>1. CASE UNCHANGED vars
  <2>1. UNCHANGED <<state, takeover, wire, pending, batch, opened, taken>>
    BY <1>1 DEF vars, filesVars
  <2>2. (Fresh /\ Held /\ Phases)'
    BY <2>1 DEF Inv2, Fresh, Held, Phases, Instance
  <2>3. (Distinct /\ Once /\ Marked)'
    BY <2>1 DEF Inv2, Distinct, Once, Marked
  <2>. QED BY <2>2, <2>3 DEF Inv2
<1>2. CASE Next
  BY <1>2, StartupSecond, TakeSecond, OwnFileSecond, DispatchSecond, EndSecond DEF Next
<1>. QED BY <1>1, <1>2

\* For any launches: an instance opens each file it was sent once, in the order it took them.
THEOREM FilesOpenedInOrder == Spec => []OpenedOnceInOrder
<1>1. Inv2 => OpenedOnceInOrder
  BY DEF Inv2, Held, Distinct, OpenedOnceInOrder
<1>2. Spec => [](Inv1 /\ Inv2)
  BY InitFirst, InitSecond, NextFirst, NextSecond, PTL DEF Spec
<1>. QED BY <1>1, <1>2, PTL
=============================================================================
