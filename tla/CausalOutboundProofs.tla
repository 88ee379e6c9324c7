------------------------ MODULE CausalOutboundProofs ------------------------
(***************************************************************************)
(* Proofs about CausalOutbound, for any callbacks, sends and connections,  *)
(* whether or not callbacks overlap and, but for the last two theorems,    *)
(* packets are debugged.                                                   *)
(***************************************************************************)
EXTENDS CausalOutbound, FiniteSetTheorems, SequenceTheorems, TLAPS

ConnType  == [phase : {"connected", "closing", "down"},
              sock : {"open", "draining", "closed"}, epoch : Nat, buffer : Seq(Tx)]
OpRecord  == [state : {"idle", "running", "waiting", "cancelled", "ended"},
              epoch : Nat, group : Nat]
OpTable   == [Op -> OpRecord]
TxRecord  == [state : {"new", "pending", "deciding", "staged", "written",
                       "settled", "done", "rejected"},
              op : Op \cup {None}, group : Nat]
TxTable   == [Tx -> TxRecord]
FlushType == [stage : {"idle", "write", "drain", "direct"}, group : Nat]
LogEntry  == [tx : Tx, group : Nat, epoch : Nat]

-----------------------------------------------------------------------------
(* What the operators of the model are built from returns. *)

LEMMA GroupFields ==
  ASSUME NEW r \in Group
  PROVE  /\ r.retain \in Nat /\ r.segments \in Seq(Segment) /\ r.records \in Int
         /\ \A n \in Nat : [r EXCEPT !.retain = n] \in Group
         /\ \A s \in Seq(Segment) : [r EXCEPT !.segments = s] \in Group
         /\ \A b \in BOOLEAN : /\ [r EXCEPT !.note = b] \in Group
                               /\ [r EXCEPT !.closes = b] \in Group
                               /\ [r EXCEPT !.finished = b] \in Group
                               /\ \A n \in Int : [r EXCEPT !.note = b, !.records = n] \in Group
         /\ \A n \in Int : [r EXCEPT !.records = n] \in Group
         /\ [r EXCEPT !.finished = TRUE, !.segments = <<>>] \in Group
<1>1. r.retain \in Nat /\ r.segments \in Seq(Segment) /\ r.records \in Int
  BY DEF Group
<1>2. \A n \in Nat : [r EXCEPT !.retain = n] \in Group
  BY DEF Group
<1>3. \A s \in Seq(Segment) : /\ [r EXCEPT !.segments = s] \in Group
                              /\ [r EXCEPT !.finished = TRUE, !.segments = s] \in Group
  BY DEF Group
<1>4. \A b \in BOOLEAN : /\ [r EXCEPT !.note = b] \in Group
                         /\ [r EXCEPT !.closes = b] \in Group
                         /\ [r EXCEPT !.finished = b] \in Group
  BY DEF Group
<1>5. \A b \in BOOLEAN, n \in Int : [r EXCEPT !.note = b, !.records = n] \in Group
  BY DEF Group
<1>6. \A n \in Int : [r EXCEPT !.records = n] \in Group
  BY DEF Group
<1>7. <<>> \in Seq(Segment)
  OBVIOUS
<1> QED BY <1>1, <1>2, <1>3, <1>4, <1>5, <1>6, <1>7

LEMMA NewGroupType == NewGroup(0) \in Group
BY DEF NewGroup, Group

LEMMA EmptyInSeq ==
  ASSUME NEW S
  PROVE  <<>> \in Seq(S)
OBVIOUS

LEMMA ReplaceInSeq ==
  ASSUME NEW S, NEW s \in Seq(S), NEW i, NEW v, i \in 1..Len(s) => v \in S
  PROVE  [s EXCEPT ![i] = v] \in Seq(S) /\ Len([s EXCEPT ![i] = v]) = Len(s)
<1> DEFINE r == [s EXCEPT ![i] = v]
<1>1. Len(s) \in Nat /\ DOMAIN s = 1..Len(s) /\ \A k \in 1..Len(s) : s[k] \in S
  OBVIOUS
<1>2. r = [k \in 1..Len(s) |-> IF k = i THEN v ELSE s[k]]
  BY <1>1
<1>3. \A k \in 1..Len(s) : r[k] \in S
  BY <1>1, <1>2
<1>4. r \in [1..Len(s) -> S]
  BY <1>2, <1>3
<1> HIDE DEF r
<1>5. r \in Seq(S) /\ Len(r) = Len(s)
  BY <1>1, <1>4
<1> QED BY <1>5 DEF r

LEMMA JoinType ==
  ASSUME NEW s \in Segment, NEW t \in Tx
  PROVE  Join(s, t) \in Segment
<1>1. s.txs \in Seq(Tx)
  BY DEF Segment
<1>2. <<t>> \o s.txs \in Seq(Tx) /\ Append(s.txs, t) \in Seq(Tx)
  BY <1>1
<1> QED BY <1>2 DEF Join, Segment

LEMMA StageType ==
  ASSUME NEW g \in Group, NEW t \in Tx
  PROVE  Stage(g, t) \in Group
<1> DEFINE S == g.segments
           fresh == [txs |-> <<>>, sealed |-> FALSE]
<1>0. fresh \in Segment
  BY EmptyInSeq DEF Segment
<1>1. S \in Seq(Segment) /\ fresh \in Segment
  BY <1>0, GroupFields
<1>2. Append(S, Join(fresh, t)) \in Seq(Segment)
  BY <1>1, JoinType
<1>3. S # <<>> => [S EXCEPT ![Len(S)] = Join(S[Len(S)], t)] \in Seq(Segment)
  <2>1. S # <<>> => S[Len(S)] \in Segment
    BY <1>1
  <2>2. S # <<>> => Join(S[Len(S)], t) \in Segment
    BY <2>1, JoinType
  <2> QED BY <1>1, <2>2, ReplaceInSeq
<1>4. /\ [g EXCEPT !.segments = Append(@, Join([txs |-> <<>>, sealed |-> FALSE], t))]
          = [g EXCEPT !.segments = Append(S, Join(fresh, t))]
      /\ [g EXCEPT !.segments[Len(g.segments)] = Join(@, t)]
          = [g EXCEPT !.segments = [S EXCEPT ![Len(S)] = Join(S[Len(S)], t)]]
  BY DEF Group
<1> HIDE DEF S, fresh
<1> QED BY <1>2, <1>3, <1>4, GroupFields DEF Stage, S

LEMMA ReleasedType ==
  ASSUME NEW gs \in Seq(Group), NEW g
  PROVE  Released(gs, g) \in Seq(Group) /\ Len(Released(gs, g)) = Len(gs)
<1> SUFFICES ASSUME g # 0, gs[g].retain > 0
             PROVE  /\ [gs EXCEPT ![g].retain = @ - 1] \in Seq(Group)
                    /\ Len([gs EXCEPT ![g].retain = @ - 1]) = Len(gs)
  BY DEF Released
<1>1. g \in 1..Len(gs) => [gs[g] EXCEPT !.retain = gs[g].retain - 1] \in Group
  <2> SUFFICES ASSUME g \in 1..Len(gs)
               PROVE  [gs[g] EXCEPT !.retain = gs[g].retain - 1] \in Group
    OBVIOUS
  <2>1. gs[g] \in Group
    OBVIOUS
  <2>a. gs[g].retain \in Nat
    BY <2>1, GroupFields
  <2>2. gs[g].retain - 1 \in Nat
    BY <2>a
  <2> QED BY <2>1, <2>2, GroupFields
<1>2. [gs EXCEPT ![g].retain = @ - 1]
        = [gs EXCEPT ![g] = [gs[g] EXCEPT !.retain = gs[g].retain - 1]]
  OBVIOUS
<1> QED BY <1>1, <1>2, ReplaceInSeq

LEMMA FlushTypes ==
  ASSUME NEW gs, NEW q \in Seq(Nat), flush \in FlushType
  PROVE  /\ Idle \in FlushType /\ StartFlush(gs, q) \in FlushType /\ Kick(gs, q) \in FlushType
         /\ StartFlush(gs, q).stage = "write" => q # <<>> /\ StartFlush(gs, q).group = q[1]
<1>1. q # <<>> => q[1] \in Nat
  OBVIOUS
<1> QED BY <1>1 DEF FlushType, Idle, StartFlush, Kick

LEMMA OpTypes ==
  ASSUME NEW ops \in OpTable, NEW o \in Op
  PROVE  /\ ops[o] \in OpRecord
         /\ ops[o].epoch \in Nat /\ ops[o].group \in Nat
         /\ \A s \in {"running", "waiting", "cancelled", "ended"} :
              [ops EXCEPT ![o].state = s] \in OpTable
         /\ \A g \in Nat : [ops EXCEPT ![o].group = g] \in OpTable
         /\ \A r \in OpRecord : [ops EXCEPT ![o] = r] \in OpTable
<1>1. ops[o] \in OpRecord /\ ops[o].epoch \in Nat /\ ops[o].group \in Nat
  BY DEF OpTable, OpRecord
<1>2. \A r \in OpRecord : [ops EXCEPT ![o] = r] \in OpTable
  BY DEF OpTable
<1>3. \A s \in {"running", "waiting", "cancelled", "ended"} :
        /\ [ops[o] EXCEPT !.state = s] \in OpRecord
        /\ [ops EXCEPT ![o].state = s] = [ops EXCEPT ![o] = [ops[o] EXCEPT !.state = s]]
  BY <1>1 DEF OpRecord
<1>4. \A g \in Nat :
        /\ [ops[o] EXCEPT !.group = g] \in OpRecord
        /\ [ops EXCEPT ![o].group = g] = [ops EXCEPT ![o] = [ops[o] EXCEPT !.group = g]]
  BY <1>1 DEF OpRecord
<1> QED BY <1>1, <1>2, <1>3, <1>4

LEMMA TxTypes ==
  ASSUME NEW txs \in TxTable, NEW t \in Tx
  PROVE  /\ txs[t] \in TxRecord
         /\ txs[t].group \in Nat /\ txs[t].op \in Op \cup {None}
         /\ \A s \in {"pending", "deciding", "written", "settled", "done", "rejected"} :
              /\ [txs EXCEPT ![t].state = s] \in TxTable
              /\ \A o \in Op : [txs EXCEPT ![t].state = s, ![t].op = o] \in TxTable
         /\ \A r \in TxRecord : [txs EXCEPT ![t] = r] \in TxTable
<1>1. txs[t] \in TxRecord /\ txs[t].group \in Nat /\ txs[t].op \in Op \cup {None}
  BY DEF TxTable, TxRecord
<1>2. \A r \in TxRecord : [txs EXCEPT ![t] = r] \in TxTable
  BY DEF TxTable
<1>3. \A s \in {"pending", "deciding", "written", "settled", "done", "rejected"} :
        /\ [txs[t] EXCEPT !.state = s] \in TxRecord
        /\ [txs EXCEPT ![t].state = s] = [txs EXCEPT ![t] = [txs[t] EXCEPT !.state = s]]
  BY <1>1 DEF TxRecord
<1>4. ASSUME NEW s \in {"pending", "deciding", "written", "settled", "done", "rejected"},
             NEW o \in Op
      PROVE  [txs EXCEPT ![t].state = s, ![t].op = o] \in TxTable
  <2>1. [txs[t] EXCEPT !.state = s, !.op = o] \in TxRecord
    BY <1>1 DEF TxRecord
  <2>2. [txs EXCEPT ![t].state = s, ![t].op = o]
          = [txs EXCEPT ![t] = [txs[t] EXCEPT !.state = s, !.op = o]]
    BY DEF TxTable
  <2> QED BY <1>2, <2>1, <2>2
<1> QED BY <1>1, <1>2, <1>3, <1>4

-----------------------------------------------------------------------------
(* The invariant: the queue ascends, its first group is the one that is     *)
(* written, and nothing that was written is younger than what is queued.    *)

MainOK == /\ conn \in ConnType /\ op \in OpTable /\ tx \in TxTable
          /\ group \in Seq(Group) /\ queue \in Seq(Nat) /\ flush \in FlushType
          /\ slot \in Tx \cup {None}
RestOK == /\ deciding \in Tx \cup {None} /\ pending \in Seq(Tx)
          /\ settling \in Tx \cup {None} /\ inline \in Op \cup {None}
          /\ records \in Seq(Record) /\ publishing \in Record \cup {None}
          /\ asked \in Seq(Tx)
LogOK  == log \in Seq(LogEntry)

Ascending == /\ \A i \in 1..Len(queue) : queue[i] \in 1..Len(group)
             /\ \A i, j \in 1..Len(queue) : i < j => queue[i] < queue[j]

WritesFirst == flush.stage = "write" => queue # <<>> /\ flush.group = queue[1]

LogIsOlder == \A i \in 1..Len(log) :
                /\ log[i].group <= Len(group)
                /\ \A j \in 1..Len(queue) : log[i].group <= queue[j]

Order == Ascending /\ WritesFirst /\ LogIsOlder /\ CausalOrder

\* What a step may do to the queue, the flush and the log.
QueueMoves ==
  /\ Len(group') >= Len(group)
  /\ \/ queue' \in {queue, <<>>}
     \/ queue # <<>> /\ queue' = Tail(queue)
     \/ Len(group') > Len(group) /\ queue' = Append(queue, Len(group'))
  /\ flush'.stage = "write" => queue' # <<>> /\ flush'.group = queue'[1]

Logs == \/ log' = log
        \/ /\ queue' = queue
           /\ \E e \in LogEntry : /\ log' = Append(log, e)
                                  /\ e.group = 0 \/ (flush.stage = "write" /\ e.group = flush.group)

LEMMA TypeParts == TypeOK <=> MainOK /\ RestOK /\ LogOK
BY DEF TypeOK, MainOK, RestOK, LogOK, ConnType, OpTable, OpRecord, TxTable, TxRecord,
       FlushType, LogEntry

LEMMA AscendingStep ==
  ASSUME MainOK, MainOK', Ascending, QueueMoves
  PROVE  Ascending'
<1>1. /\ Len(group) \in Nat /\ Len(group') \in Nat /\ Len(queue) \in Nat
      /\ queue \in Seq(Nat) /\ Len(group') >= Len(group)
  BY DEF MainOK, QueueMoves
<1>2. CASE queue' = queue
  BY <1>1, <1>2 DEF Ascending
<1>3. CASE queue' = <<>>
  BY <1>3 DEF Ascending
<1>4. CASE queue # <<>> /\ queue' = Tail(queue)
  <2>1. /\ Len(queue') = Len(queue) - 1
        /\ \A i \in 1..Len(queue') : queue'[i] = queue[i + 1] /\ i + 1 \in 1..Len(queue)
    BY <1>1, <1>4
  <2>2. ASSUME NEW i \in 1..Len(queue') PROVE queue'[i] \in 1..Len(group')
    BY <1>1, <2>1 DEF Ascending
  <2>3. ASSUME NEW i \in 1..Len(queue'), NEW j \in 1..Len(queue'), i < j
        PROVE  queue'[i] < queue'[j]
    <3>1. i + 1 \in 1..Len(queue) /\ j + 1 \in 1..Len(queue) /\ i + 1 < j + 1
      BY <1>1, <2>1, <2>3
    <3> QED BY <2>1, <3>1 DEF Ascending
  <2> QED BY <2>2, <2>3 DEF Ascending
<1>5. CASE Len(group') > Len(group) /\ queue' = Append(queue, Len(group'))
  <2>1. /\ Len(queue') = Len(queue) + 1 /\ queue'[Len(queue) + 1] = Len(group')
        /\ \A i \in 1..Len(queue) : queue'[i] = queue[i]
    BY <1>1, <1>5
  <2>2. ASSUME NEW i \in 1..Len(queue') PROVE queue'[i] \in 1..Len(group')
    BY <1>1, <2>1, <1>5 DEF Ascending
  <2>3. ASSUME NEW i \in 1..Len(queue'), NEW j \in 1..Len(queue'), i < j
        PROVE  queue'[i] < queue'[j]
    BY <1>1, <2>1, <1>5, <2>3 DEF Ascending
  <2> QED BY <2>2, <2>3 DEF Ascending
<1> QED BY <1>2, <1>3, <1>4, <1>5 DEF QueueMoves

LEMMA OldLogStep ==
  ASSUME MainOK, MainOK', LogOK, LogIsOlder, QueueMoves, log' = log
  PROVE  LogIsOlder'
<1> SUFFICES ASSUME NEW i \in 1..Len(log)
             PROVE  /\ log[i].group <= Len(group')
                    /\ \A j \in 1..Len(queue') : log[i].group <= queue'[j]
  BY DEF LogIsOlder
<1>1. /\ Len(group) \in Nat /\ Len(group') \in Nat /\ Len(queue) \in Nat
      /\ queue \in Seq(Nat) /\ Len(group') >= Len(group)
  BY DEF MainOK, QueueMoves
<1>a. log[i] \in LogEntry
  BY DEF LogOK
<1>2. log[i].group \in Nat /\ log[i].group <= Len(group)
  BY <1>a DEF LogIsOlder, LogEntry
<1>3. \A j \in 1..Len(queue) : log[i].group <= queue[j]
  BY DEF LogIsOlder
<1>4. ASSUME NEW j \in 1..Len(queue') PROVE log[i].group <= queue'[j]
  <2>1. CASE queue' \in {queue, <<>>}
    BY <1>3, <2>1
  <2>2. CASE queue # <<>> /\ queue' = Tail(queue)
    <3>1. Len(queue') = Len(queue) - 1 /\ queue'[j] = queue[j + 1] /\ j + 1 \in 1..Len(queue)
      BY <1>1, <2>2
    <3> QED BY <1>3, <3>1
  <2>3. CASE Len(group') > Len(group) /\ queue' = Append(queue, Len(group'))
    <3>1. (j \in 1..Len(queue) /\ queue'[j] = queue[j]) \/ queue'[j] = Len(group')
      BY <1>1, <2>3
    <3> QED BY <1>1, <1>2, <1>3, <3>1
  <2> QED BY <2>1, <2>2, <2>3 DEF QueueMoves
<1> QED BY <1>1, <1>2, <1>4

LEMMA OrderStep ==
  ASSUME MainOK, MainOK', LogOK, Order, QueueMoves, Logs
  PROVE  Order'
<1>1. Ascending'
  BY AscendingStep DEF Order
<1>2. WritesFirst'
  BY DEF QueueMoves, WritesFirst
<1>3. CASE log' = log
  <2>1. LogIsOlder'
    BY <1>3, OldLogStep DEF Order
  <2>2. CausalOrder'
    BY <1>3 DEF Order, CausalOrder
  <2> QED BY <1>1, <1>2, <2>1, <2>2 DEF Order
<1>4. ASSUME NEW e \in LogEntry, log' = Append(log, e), queue' = queue,
             e.group = 0 \/ (flush.stage = "write" /\ e.group = flush.group)
      PROVE  LogIsOlder' /\ CausalOrder'
  <2>0. /\ Len(log) \in Nat /\ Len(log') = Len(log) + 1 /\ log'[Len(log) + 1] = e
        /\ \A i \in 1..Len(log) : log'[i] = log[i] /\ log[i] \in LogEntry
    BY <1>4 DEF LogOK
  <2>1. /\ Len(log) \in Nat /\ Len(log') = Len(log) + 1 /\ log'[Len(log) + 1] = e
        /\ \A i \in 1..Len(log) : log'[i] = log[i] /\ log[i].group \in Nat
    BY <2>0 DEF LogEntry
  <2>2. /\ Len(group) \in Nat /\ Len(group') \in Nat /\ Len(group') >= Len(group)
        /\ Len(queue) \in Nat /\ \A j \in 1..Len(queue) : queue[j] \in 1..Len(group)
    BY DEF MainOK, QueueMoves, Order, Ascending
  <2>3. flush.stage = "write" => 1 \in 1..Len(queue) /\ flush.group = queue[1]
    BY DEF MainOK, Order, WritesFirst
  <2>4. /\ e.group \in Nat /\ e.group <= Len(group)
        /\ \A j \in 1..Len(queue) : e.group <= queue[j]
    BY <1>4, <2>2, <2>3 DEF LogEntry, Order, Ascending
  <2>5. \A i \in 1..Len(log) :
          log[i].group <= Len(group) /\ \A j \in 1..Len(queue) : log[i].group <= queue[j]
    BY DEF Order, LogIsOlder
  <2>6. LogIsOlder'
    <3> SUFFICES ASSUME NEW i \in 1..Len(log')
                 PROVE  /\ log'[i].group <= Len(group')
                        /\ \A j \in 1..Len(queue') : log'[i].group <= queue'[j]
      BY DEF LogIsOlder
    <3>1. CASE i \in 1..Len(log)
      BY <1>4, <2>1, <2>2, <2>5, <3>1
    <3>2. CASE i = Len(log) + 1
      BY <1>4, <2>1, <2>2, <2>4, <3>2
    <3> QED BY <2>1, <3>1, <3>2
  <2>7. CausalOrder'
    <3> SUFFICES ASSUME NEW i \in 1..Len(log'), NEW j \in 1..Len(log'), i < j,
                        log'[i].group # 0, log'[j].group # 0
                 PROVE  log'[i].group <= log'[j].group
      BY DEF CausalOrder
    <3>1. i \in 1..Len(log)
      BY <2>1
    <3>2. CASE j \in 1..Len(log)
      BY <2>1, <3>1, <3>2 DEF Order, CausalOrder
    <3>3. CASE j = Len(log) + 1
      <4>1. flush.stage = "write" /\ e.group = queue[1] /\ 1 \in 1..Len(queue)
        BY <1>4, <2>1, <2>3, <3>3
      <4> QED BY <2>1, <2>5, <3>1, <3>3, <4>1
    <3> QED BY <2>1, <3>2, <3>3
  <2> QED BY <2>6, <2>7
<1> QED BY <1>1, <1>2, <1>3, <1>4 DEF Logs, Order

-----------------------------------------------------------------------------
(* The parts that several actions share.                                    *)

\* A step that leaves the queue alone, and the flush alone or restarts it.
LEMMA QueueKept ==
  ASSUME MainOK, Order, NEW gs,
         queue' = queue, Len(group') >= Len(group),
         flush'.stage # "write" \/ flush' = flush \/ flush' \in {StartFlush(gs, queue), Kick(gs, queue)}
  PROVE  QueueMoves
<1>1. flush'.stage = "write" => queue # <<>> /\ flush'.group = queue[1]
  BY FlushTypes DEF MainOK, Kick, Order, WritesFirst
<1> QED BY <1>1 DEF QueueMoves

LEMMA StoppedType ==
  ASSUME NEW ops \in OpTable, NEW o
  PROVE  Stopped(ops, o) \in OpTable /\ Resumed(ops, o) \in OpTable
<1>1. CASE o \in Op
  BY <1>1, OpTypes DEF Stopped, Resumed
<1>2. CASE o \notin Op
  <2>1. \A s : [ops EXCEPT ![o].state = s] = ops
    BY <1>2 DEF OpTable
  <2> QED BY <2>1 DEF Stopped, Resumed
<1> QED BY <1>1, <1>2

LEMMA EndsTypes ==
  ASSUME MainOK, NEW gs \in Seq(Group), ConnectionEnds(gs)
  PROVE  /\ MainOK' /\ Len(group') = Len(gs) /\ queue' = <<>> /\ flush' = Idle
<1>1. conn' \in ConnType
  <2>1. <<>> \in Seq(Tx) /\ conn.epoch + 1 \in Nat
    BY EmptyInSeq DEF MainOK, ConnType
  <2> QED BY <2>1 DEF ConnectionEnds, ConnType
<1>2. group' \in Seq(Group) /\ Len(group') = Len(gs)
  <2> DEFINE emptied == [i \in 1..Len(gs) |-> [gs[i] EXCEPT !.finished = TRUE, !.segments = <<>>]]
  <2>1. ASSUME NEW i \in 1..Len(gs) PROVE emptied[i] \in Group
    <3>1. gs[i] \in Group
      OBVIOUS
    <3> QED BY <3>1, GroupFields
  <2>a. DOMAIN gs = 1..Len(gs) /\ Len(gs) \in Nat
    OBVIOUS
  <2>2. group' = emptied /\ DOMAIN gs = 1..Len(gs) /\ Len(gs) \in Nat
    BY <2>a DEF ConnectionEnds
  <2>3. emptied \in [1..Len(gs) -> Group]
    BY <2>1
  <2> HIDE DEF emptied
  <2> QED BY <2>2, <2>3
<1>3. tx' \in TxTable
  <2>1. \A t \in Tx : tx[t] \in TxRecord /\ [tx[t] EXCEPT !.state = "rejected"] \in TxRecord
    BY DEF MainOK, TxTable, TxRecord
  <2> QED BY <2>1 DEF ConnectionEnds, TxTable
<1>4. queue' \in Seq(Nat) /\ queue' = <<>>
  BY EmptyInSeq DEF ConnectionEnds
<1>5. flush' \in FlushType /\ flush' = Idle
  BY DEF ConnectionEnds, FlushType, Idle
<1>6. op' \in OpTable /\ slot' \in Tx \cup {None}
  BY StoppedType DEF ConnectionEnds, MainOK
<1> QED BY <1>1, <1>2, <1>3, <1>4, <1>5, <1>6 DEF MainOK

LEMMA CloseTypes ==
  ASSUME MainOK, Order, NEW gs \in Seq(Group), Len(gs) = Len(group), NEW next,
         next \in {flush, Idle}, CloseSocket(gs, next)
  PROVE  MainOK' /\ QueueMoves
<1>1. CASE ConnectionEnds(gs)
  <2>1. MainOK' /\ Len(group') = Len(gs) /\ queue' = <<>> /\ flush' = Idle
    BY <1>1, EndsTypes
  <2>2. QueueMoves
    BY <2>1 DEF QueueMoves, Idle, MainOK
  <2> QED BY <1>1, <2>1, <2>2
<1>2. CASE /\ conn' = [conn EXCEPT !.phase = "closing", !.sock = "draining"]
           /\ group' = gs /\ flush' = next
           /\ UNCHANGED <<op, tx, queue, slot>>
  <2>1. conn' \in ConnType
    BY <1>2 DEF MainOK, ConnType
  <2>2. flush' \in FlushType
    BY <1>2 DEF MainOK, FlushType, Idle
  <2>3. MainOK'
    BY <1>2, <2>1, <2>2 DEF MainOK
  <2>4. /\ queue' = queue /\ Len(group') >= Len(group)
        /\ flush'.stage # "write" \/ flush' = flush
    BY <1>2 DEF Idle, MainOK
  <2>5. QueueMoves
    BY <2>4, QueueKept
  <2> QED BY <1>2, <2>3, <2>5
<1> QED BY <1>1, <1>2 DEF CloseSocket

LEMMA TransmitTypes ==
  ASSUME MainOK, Order, NEW ops \in OpTable, NEW o \in Op, NEW t \in Tx, Transmit(ops, o, t)
  PROVE  /\ op' \in OpTable /\ tx' \in TxTable /\ group' \in Seq(Group)
         /\ queue' \in Seq(Nat) /\ flush' \in FlushType /\ QueueMoves
<1> DEFINE new     == NeedsGroup(o)
           g       == IF new THEN Len(group) + 1 ELSE OldGroup(o)
           retains == Live(o) /\ op[o].group = 0
           gs      == IF new THEN Append(group, NewGroup(0)) ELSE group
           held    == IF retains THEN [gs EXCEPT ![g].retain = @ + 1] ELSE gs
           staged  == [held EXCEPT ![g] = Stage(@, t)]
           q       == IF new THEN Append(queue, g) ELSE queue
<1>a. /\ group \in Seq(Group) /\ Len(group) \in Nat /\ queue \in Seq(Nat)
      /\ flush \in FlushType /\ op \in OpTable
  BY DEF MainOK
<1>b. flush.group \in Nat /\ op[o].group \in Nat
  BY <1>a, OpTypes DEF FlushType
<1>0. /\ group \in Seq(Group) /\ Len(group) \in Nat /\ queue \in Seq(Nat)
      /\ flush \in FlushType /\ flush.group \in Nat
      /\ op[o].group \in Nat
  BY <1>a, <1>b
<1>1. g \in Nat /\ OldGroup(o) \in Nat
  BY <1>0 DEF OldGroup, AmbientGroup
<1>2. /\ gs \in Seq(Group) /\ q \in Seq(Nat)
      /\ Len(gs) = IF new THEN Len(group) + 1 ELSE Len(group)
  BY <1>0, <1>1, NewGroupType
<1> HIDE DEF gs
<1>3. held \in Seq(Group) /\ Len(held) = Len(gs)
  <2>1. g \in 1..Len(gs) => [gs[g] EXCEPT !.retain = gs[g].retain + 1] \in Group
    <3> SUFFICES ASSUME g \in 1..Len(gs) PROVE [gs[g] EXCEPT !.retain = gs[g].retain + 1] \in Group
      OBVIOUS
    <3>1. gs[g] \in Group
      BY <1>2
    <3>a. gs[g].retain \in Nat
      BY <3>1 DEF Group
    <3>2. gs[g].retain + 1 \in Nat
      BY <3>a
    <3> QED BY <3>1, <3>2, GroupFields
  <2>2. [gs EXCEPT ![g].retain = @ + 1]
          = [gs EXCEPT ![g] = [gs[g] EXCEPT !.retain = gs[g].retain + 1]]
    OBVIOUS
  <2> HIDE DEF g
  <2> QED BY <1>2, <2>1, <2>2, ReplaceInSeq
<1> HIDE DEF held
<1>4. staged \in Seq(Group) /\ Len(staged) = Len(gs)
  <2>1. g \in 1..Len(held) => Stage(held[g], t) \in Group
    BY <1>3, StageType
  <2> HIDE DEF g
  <2> QED BY <1>3, <2>1, ReplaceInSeq
<1> HIDE DEF staged
<1>5. [state |-> "staged", op |-> o, group |-> g] \in TxRecord
  BY <1>1 DEF TxRecord
<1>6. tx' = [tx EXCEPT ![t] = [state |-> "staged", op |-> o, group |-> g]]
  BY DEF Transmit
<1>7. tx' \in TxTable
  BY <1>5, <1>6, TxTypes DEF MainOK
<1>8. CASE g = 0
  <2>1. /\ flush' = [stage |-> "direct", group |-> 0]
        /\ op' = ops /\ UNCHANGED <<group, queue>>
    BY <1>8 DEF Transmit
  <2>2. flush' \in FlushType /\ flush'.stage # "write"
    BY <2>1 DEF FlushType
  <2>3. QueueMoves
    BY <2>1, <2>2, QueueKept, <1>0
  <2> QED BY <1>0, <1>7, <2>1, <2>2, <2>3
<1>9. CASE g # 0
  <2>1. /\ group' = staged /\ queue' = q
        /\ op' = IF retains THEN [ops EXCEPT ![o].group = g] ELSE ops
        /\ flush' \in {Kick(staged, q), flush}
    BY <1>9 DEF Transmit, staged, held, gs
  <2>2. op' \in OpTable
    BY <2>1, <1>1, OpTypes
  <2>3. flush' \in FlushType
    BY <2>1, <1>0, <1>2, FlushTypes
  <2>4. CASE new
    <3>1. q = Append(queue, Len(group) + 1) /\ Len(group') = Len(group) + 1
      BY <2>1, <2>4, <1>2, <1>4
    <3>2. q # <<>> /\ (queue # <<>> => q[1] = queue[1])
      BY <3>1, <1>0
    <3>3. flush'.stage = "write" => q # <<>> /\ flush'.group = q[1]
      BY <2>1, <3>2, <1>0, <1>2, FlushTypes DEF Kick, Order, WritesFirst
    <3>4. QueueMoves
      BY <2>1, <3>1, <3>3, <1>0 DEF QueueMoves
    <3> QED BY <2>1, <2>2, <2>3, <3>4, <1>2, <1>4, <1>7
  <2>5. CASE ~new
    <3>1. queue' = queue /\ Len(group') = Len(group)
      BY <2>1, <2>5, <1>2, <1>4
    <3>2. flush' \in {Kick(staged, queue), flush}
      BY <2>1, <2>5
    <3>3. QueueMoves
      BY <3>1, <3>2, QueueKept, <1>0
    <3> QED BY <2>1, <2>2, <2>3, <3>3, <1>2, <1>4, <1>7
  <2> QED BY <2>4, <2>5
<1> QED BY <1>8, <1>9

LEMMA FieldTypes ==
  ASSUME NEW gs \in Seq(Group), NEW g
  PROVE  /\ \A b \in BOOLEAN : /\ [gs EXCEPT ![g].note = b] \in Seq(Group)
                               /\ Len([gs EXCEPT ![g].note = b]) = Len(gs)
                               /\ [gs EXCEPT ![g].closes = b] \in Seq(Group)
                               /\ Len([gs EXCEPT ![g].closes = b]) = Len(gs)
                               /\ [gs EXCEPT ![g].finished = b] \in Seq(Group)
                               /\ Len([gs EXCEPT ![g].finished = b]) = Len(gs)
         /\ \A n \in Nat : /\ [gs EXCEPT ![g].retain = n] \in Seq(Group)
                           /\ Len([gs EXCEPT ![g].retain = n]) = Len(gs)
         /\ \A n \in Int : /\ [gs EXCEPT ![g].records = n] \in Seq(Group)
                           /\ Len([gs EXCEPT ![g].records = n]) = Len(gs)
         /\ \A s \in Seq(Segment) : /\ [gs EXCEPT ![g].segments = s] \in Seq(Group)
                                    /\ Len([gs EXCEPT ![g].segments = s]) = Len(gs)
<1>1. g \in 1..Len(gs) => gs[g] \in Group
  OBVIOUS
<1>2. ASSUME NEW b \in BOOLEAN
      PROVE  /\ [gs EXCEPT ![g].note = b] \in Seq(Group)
             /\ Len([gs EXCEPT ![g].note = b]) = Len(gs)
             /\ [gs EXCEPT ![g].closes = b] \in Seq(Group)
             /\ Len([gs EXCEPT ![g].closes = b]) = Len(gs)
             /\ [gs EXCEPT ![g].finished = b] \in Seq(Group)
             /\ Len([gs EXCEPT ![g].finished = b]) = Len(gs)
  <2>1. g \in 1..Len(gs) => /\ [gs[g] EXCEPT !.note = b] \in Group
                            /\ [gs[g] EXCEPT !.closes = b] \in Group
                            /\ [gs[g] EXCEPT !.finished = b] \in Group
    BY <1>1, GroupFields
  <2>2. /\ [gs EXCEPT ![g].note = b] = [gs EXCEPT ![g] = [gs[g] EXCEPT !.note = b]]
        /\ [gs EXCEPT ![g].closes = b] = [gs EXCEPT ![g] = [gs[g] EXCEPT !.closes = b]]
        /\ [gs EXCEPT ![g].finished = b] = [gs EXCEPT ![g] = [gs[g] EXCEPT !.finished = b]]
    OBVIOUS
  <2> QED BY <2>1, <2>2, ReplaceInSeq
<1>4. ASSUME NEW n \in Nat
      PROVE  /\ [gs EXCEPT ![g].retain = n] \in Seq(Group)
             /\ Len([gs EXCEPT ![g].retain = n]) = Len(gs)
  <2>1. g \in 1..Len(gs) => [gs[g] EXCEPT !.retain = n] \in Group
    BY <1>1, GroupFields
  <2>2. [gs EXCEPT ![g].retain = n] = [gs EXCEPT ![g] = [gs[g] EXCEPT !.retain = n]]
    OBVIOUS
  <2> QED BY <2>1, <2>2, ReplaceInSeq
<1>5. ASSUME NEW n \in Int
      PROVE  /\ [gs EXCEPT ![g].records = n] \in Seq(Group)
             /\ Len([gs EXCEPT ![g].records = n]) = Len(gs)
  <2>1. g \in 1..Len(gs) => [gs[g] EXCEPT !.records = n] \in Group
    BY <1>1, GroupFields
  <2>2. [gs EXCEPT ![g].records = n] = [gs EXCEPT ![g] = [gs[g] EXCEPT !.records = n]]
    OBVIOUS
  <2> QED BY <2>1, <2>2, ReplaceInSeq
<1>6. ASSUME NEW s \in Seq(Segment)
      PROVE  /\ [gs EXCEPT ![g].segments = s] \in Seq(Group)
             /\ Len([gs EXCEPT ![g].segments = s]) = Len(gs)
  <2>1. g \in 1..Len(gs) => [gs[g] EXCEPT !.segments = s] \in Group
    BY <1>1, GroupFields
  <2>2. [gs EXCEPT ![g].segments = s] = [gs EXCEPT ![g] = [gs[g] EXCEPT !.segments = s]]
    OBVIOUS
  <2> QED BY <2>1, <2>2, ReplaceInSeq
<1> QED BY <1>2, <1>4, <1>5, <1>6

LEMMA AcceptedTypes ==
  ASSUME MainOK, RestOK, LogOK, NEW t \in Tx, NEW g \in Nat, NEW gs \in Seq(Group),
         Accepted(t, g, gs)
  PROVE  /\ conn' \in ConnType /\ tx' \in TxTable /\ op' \in OpTable /\ slot' \in Tx \cup {None}
         /\ group' \in Seq(Group) /\ Len(group') = Len(gs) /\ records' \in Seq(Record)
         /\ \E e \in LogEntry : log' = Append(log, e) /\ e.group = g
         /\ log' \in Seq(LogEntry)
<1>1. conn \in ConnType /\ conn.buffer \in Seq(Tx) /\ conn.epoch \in Nat
  BY DEF MainOK, ConnType
<1>2. Append(conn.buffer, t) \in Seq(Tx)
  BY <1>1
<1>3. conn' \in ConnType
  BY <1>1, <1>2 DEF Accepted, ConnType
<1>4. tx' \in TxTable
  BY TxTypes DEF Accepted, MainOK
<1>5. group' \in Seq(Group) /\ Len(group') = Len(gs)
  <2>1. CASE g = 0
    BY <2>1 DEF Accepted
  <2>2. CASE g \notin 1..Len(gs) /\ g # 0
    <3>1. group' = [gs EXCEPT ![g].note = t \in Command,
                              ![g].records = IF PacketDebug THEN @ + 1 ELSE @]
      BY <2>2 DEF Accepted
    <3>2. group' = gs
      BY <2>2, <3>1
    <3> QED BY <3>2
  <2>3. CASE g \in 1..Len(gs)
    <3> DEFINE n == IF PacketDebug THEN gs[g].records + 1 ELSE gs[g].records
               b == t \in Command
    <3>1. gs[g] \in Group
      BY <2>3
    <3>2. n \in Int /\ b \in BOOLEAN
      BY <3>1 DEF Group
    <3>3. group' = [gs EXCEPT ![g].note = b, ![g].records = n]
      BY <2>3, <3>1 DEF Accepted, Group
    <3> HIDE DEF n, b
    <3>4. [gs[g] EXCEPT !.note = b, !.records = n] \in Group
      BY <3>1, <3>2, GroupFields
    <3>5. group' = [gs EXCEPT ![g] = [gs[g] EXCEPT !.note = b, !.records = n]]
      BY <3>3
    <3> QED BY <3>4, <3>5, ReplaceInSeq
  <2> QED BY <2>1, <2>2, <2>3
<1>6. [tx |-> t, group |-> g] \in Record
  BY DEF Record
<1>7. records' \in Seq(Record)
  BY <1>6 DEF Accepted, RestOK
<1>8. [tx |-> t, group |-> g, epoch |-> conn.epoch] \in LogEntry
  BY <1>1 DEF LogEntry
<1>9. \E e \in LogEntry : log' = Append(log, e) /\ e.group = g
  BY <1>8 DEF Accepted
<1> QED BY <1>3, <1>4, <1>5, <1>7, <1>9 DEF Accepted, MainOK, LogOK

LEMMA FailedTypes ==
  ASSUME MainOK, NEW t \in Tx, NEW gs \in Seq(Group), Failed(t, gs)
  PROVE  /\ conn' \in ConnType /\ tx' \in TxTable /\ op' \in OpTable /\ slot' \in Tx \cup {None}
         /\ group' = gs /\ UNCHANGED <<log, records>>
BY TxTypes, StoppedType DEF Failed, MainOK

LEMMA WriteDirectTypes ==
  ASSUME MainOK, RestOK, LogOK, Order, WriteDirect
  PROVE  MainOK' /\ RestOK' /\ LogOK' /\ QueueMoves /\ Logs
<1>1. ASSUME NEW t \in Tx, Accepted(t, 0, group), flush' = Idle, queue' = queue
      PROVE  MainOK' /\ RestOK' /\ LogOK' /\ QueueMoves /\ Logs
  <2>1. /\ conn' \in ConnType /\ tx' \in TxTable /\ op' \in OpTable /\ slot' \in Tx \cup {None}
        /\ group' \in Seq(Group) /\ Len(group') = Len(group) /\ records' \in Seq(Record)
        /\ \E e \in LogEntry : log' = Append(log, e) /\ e.group = 0
        /\ log' \in Seq(LogEntry)
    BY <1>1, AcceptedTypes DEF MainOK
  <2>2. MainOK'
    BY <1>1, <2>1 DEF MainOK, Idle, FlushType
  <2>3. QueueMoves
    BY <1>1, <2>1 DEF QueueMoves, Idle, MainOK
  <2>4. RestOK' /\ LogOK'
    BY <2>1 DEF WriteDirect, RestOK, LogOK
  <2> QED BY <1>1, <2>1, <2>2, <2>3, <2>4 DEF Logs
<1>2. ASSUME NEW t \in Tx, Failed(t, group), flush' = Idle, queue' = queue
      PROVE  MainOK' /\ RestOK' /\ LogOK' /\ QueueMoves /\ Logs
  <2>1. /\ conn' \in ConnType /\ tx' \in TxTable /\ op' \in OpTable /\ slot' \in Tx \cup {None}
        /\ group' = group /\ UNCHANGED <<log, records>>
    BY <1>2, FailedTypes DEF MainOK
  <2>2. MainOK'
    BY <1>2, <2>1 DEF MainOK, Idle, FlushType
  <2>3. QueueMoves
    BY <1>2, <2>1 DEF QueueMoves, Idle, MainOK
  <2>4. RestOK' /\ LogOK'
    BY <2>1 DEF WriteDirect, RestOK, LogOK
  <2> QED BY <2>1, <2>2, <2>3, <2>4 DEF Logs
<1>3. CASE TelnetFails
  <2>1. MainOK' /\ Len(group') = Len(group) /\ queue' = <<>> /\ flush' = Idle
    BY <1>3, EndsTypes DEF TelnetFails, MainOK
  <2>2. QueueMoves
    BY <2>1 DEF QueueMoves, Idle, MainOK
  <2>3. RestOK' /\ LogOK' /\ Logs
    BY <1>3 DEF WriteDirect, TelnetFails, RestOK, LogOK, Logs
  <2> QED BY <2>1, <2>2, <2>3
<1> QED BY <1>1, <1>2, <1>3 DEF WriteDirect

LEMMA FlushWriteTypes ==
  ASSUME MainOK, RestOK, LogOK, Order, FlushWrite
  PROVE  MainOK' /\ RestOK' /\ LogOK' /\ QueueMoves /\ Logs
<1> DEFINE g == flush.group
           S == group[g].segments
           t == Head(S[1].txs)
           rest == [S EXCEPT ![1] = [S[1] EXCEPT !.txs = Tail(S[1].txs)]]
           gs == [group EXCEPT ![g].segments[1].txs = Tail(@)]
<1>1. /\ flush.stage = "write" /\ S # <<>> /\ S[1].txs # <<>>
      /\ ((Accepted(t, g, gs) \/ Failed(t, gs)) /\ UNCHANGED <<flush, queue>>) \/ TelnetFails
  BY DEF FlushWrite, Writing, MayWrite, FirstSegment
<1>2. g \in 1..Len(group) /\ g \in Nat
  BY <1>1 DEF Order, WritesFirst, Ascending, MainOK
<1>3. group[g] \in Group /\ group \in Seq(Group)
  BY <1>2 DEF MainOK
<1>4. S \in Seq(Segment)
  BY <1>3 DEF Group
<1>5. S[1] \in Segment
  BY <1>1, <1>4
<1>6. S[1].txs \in Seq(Tx)
  BY <1>5 DEF Segment
<1>7. t \in Tx /\ Tail(S[1].txs) \in Seq(Tx)
  BY <1>1, <1>6
<1>8. [S[1] EXCEPT !.txs = Tail(S[1].txs)] \in Segment
  BY <1>5, <1>7 DEF Segment
<1>9. rest \in Seq(Segment)
  BY <1>4, <1>8, ReplaceInSeq
<1>10. gs = [group EXCEPT ![g].segments = rest]
  BY <1>3, <1>4, <1>5 DEF Group, Segment
<1> HIDE DEF rest, gs, t
<1>11. gs \in Seq(Group) /\ Len(gs) = Len(group)
  BY <1>3, <1>9, <1>10, FieldTypes
<1>a. /\ UNCHANGED <<deciding, pending, settling, inline, publishing, asked>>
      /\ Len(group) \in Nat
  BY <1>3 DEF FlushWrite
<1>12. ASSUME Accepted(t, g, gs), UNCHANGED <<flush, queue>>
       PROVE  MainOK' /\ RestOK' /\ LogOK' /\ QueueMoves /\ Logs
  <2>1. /\ conn' \in ConnType /\ tx' \in TxTable /\ op' \in OpTable /\ slot' \in Tx \cup {None}
        /\ group' \in Seq(Group) /\ Len(group') = Len(gs) /\ records' \in Seq(Record)
        /\ \E e \in LogEntry : log' = Append(log, e) /\ e.group = g
        /\ log' \in Seq(LogEntry)
    BY <1>2, <1>7, <1>11, <1>12, AcceptedTypes
  <2>2. MainOK'
    BY <1>12, <2>1 DEF MainOK
  <2>3. QueueMoves
    BY <1>12, <1>a, <2>1, <1>11 DEF QueueMoves, Order, WritesFirst
  <2>4. RestOK' /\ LogOK'
    BY <1>a, <2>1 DEF RestOK, LogOK
  <2>5. Logs
    BY <1>1, <1>12, <2>1 DEF Logs
  <2> QED BY <2>2, <2>3, <2>4, <2>5
<1>13. ASSUME Failed(t, gs), UNCHANGED <<flush, queue>>
       PROVE  MainOK' /\ RestOK' /\ LogOK' /\ QueueMoves /\ Logs
  <2>1. /\ conn' \in ConnType /\ tx' \in TxTable /\ op' \in OpTable /\ slot' \in Tx \cup {None}
        /\ group' = gs /\ UNCHANGED <<log, records>>
    BY <1>7, <1>11, <1>13, FailedTypes
  <2>2. MainOK'
    BY <1>11, <1>13, <2>1 DEF MainOK
  <2>3. QueueMoves
    BY <1>13, <1>a, <2>1, <1>11 DEF QueueMoves, Order, WritesFirst
  <2>4. RestOK' /\ LogOK'
    BY <1>a, <2>1 DEF RestOK, LogOK
  <2> QED BY <2>1, <2>2, <2>3, <2>4 DEF Logs
<1>14. CASE TelnetFails
  <2>1. MainOK' /\ Len(group') = Len(group) /\ queue' = <<>> /\ flush' = Idle
    BY <1>14, EndsTypes DEF TelnetFails, MainOK
  <2>2. QueueMoves
    BY <1>a, <2>1 DEF QueueMoves, Idle
  <2>3. RestOK' /\ LogOK' /\ Logs
    BY <1>14, <1>a DEF TelnetFails, RestOK, LogOK, Logs
  <2> QED BY <2>1, <2>2, <2>3
<1> QED BY <1>1, <1>12, <1>13, <1>14

\* The outcome of doSendMsg that only touches the tables.
LEMMA DoSendTypes ==
  ASSUME MainOK, RestOK, Order, NEW o \in Op, NEW t \in Tx, DoSend(o, t),
         UNCHANGED conn
  PROVE  MainOK' /\ QueueMoves /\ deciding' \in Tx \cup {None}
<1>1. Waits(o) \in OpTable
  BY OpTypes DEF Waits, MainOK
<1>2. CASE Refuse(o, t) \/ Postpone(o, t) \/ AwaitDecision(o, t)
  <2>1. op' \in OpTable /\ tx' \in TxTable /\ deciding' \in Tx \cup {None}
    <3>1. /\ op' \in {Resumed(op, o), Waits(o)} /\ deciding' \in {deciding, t}
          /\ \E s \in {"rejected", "pending", "deciding"} :
               tx' = [tx EXCEPT ![t].state = s, ![t].op = o]
      BY <1>2 DEF Refuse, Postpone, AwaitDecision
    <3>2. \A s \in {"rejected", "pending", "deciding"} :
            [tx EXCEPT ![t].state = s, ![t].op = o] \in TxTable
      BY TxTypes DEF MainOK
    <3> QED BY <1>1, <3>1, <3>2, StoppedType DEF MainOK, RestOK
  <2>2. UNCHANGED <<conn, group, queue, flush, slot>>
    BY <1>2 DEF Refuse, Postpone, AwaitDecision
  <2>3. MainOK'
    BY <2>1, <2>2 DEF MainOK
  <2>4. QueueMoves
    BY <2>2 DEF QueueMoves, MainOK, Order, WritesFirst
  <2> QED BY <2>1, <2>3, <2>4
<1>3. CASE StartSend(o, t) /\ UNCHANGED deciding
  <2>1. /\ op' \in OpTable /\ tx' \in TxTable /\ group' \in Seq(Group)
        /\ queue' \in Seq(Nat) /\ flush' \in FlushType /\ QueueMoves
    BY <1>1, <1>3, TransmitTypes DEF StartSend
  <2>2. slot' = t
    BY <1>3 DEF StartSend
  <2> QED BY <1>3, <2>1, <2>2 DEF MainOK, RestOK
<1> QED BY <1>2, <1>3 DEF DoSend

LEMMA BeginTypes ==
  ASSUME MainOK, RestOK, LogOK, Order, NEW o \in Op, Begin(o)
  PROVE  MainOK' /\ RestOK' /\ LogOK' /\ QueueMoves /\ Logs
<1>1. PICK g \in {0} \cup {AmbientGroup} \cup {op[p].group : p \in {q \in Op : Live(q)}} :
        /\ op' = [op EXCEPT ![o] = [state |-> "running", epoch |-> conn.epoch, group |-> g]]
        /\ group' = IF g = 0 THEN group ELSE [group EXCEPT ![g].retain = @ + 1]
  BY DEF Begin
<1>2. g \in Nat /\ conn.epoch \in Nat
  <2>1. \A p \in Op : op[p].group \in Nat
    BY OpTypes DEF MainOK
  <2> QED BY <2>1 DEF AmbientGroup, MainOK, FlushType, ConnType
<1>3. op' \in OpTable
  <2>1. [state |-> "running", epoch |-> conn.epoch, group |-> g] \in OpRecord
    BY <1>2 DEF OpRecord
  <2> QED BY <1>1, <2>1, OpTypes DEF MainOK
<1>4. group' \in Seq(Group) /\ Len(group') = Len(group)
  <2>1. group \in Seq(Group)
    BY DEF MainOK
  <2>2. g \in 1..Len(group) => [group[g] EXCEPT !.retain = group[g].retain + 1] \in Group
    <3> SUFFICES ASSUME g \in 1..Len(group)
                 PROVE  [group[g] EXCEPT !.retain = group[g].retain + 1] \in Group
      OBVIOUS
    <3>1. group[g] \in Group
      BY <2>1
    <3>2. group[g].retain \in Nat
      BY <3>1 DEF Group
    <3>3. group[g].retain + 1 \in Nat
      BY <3>2
    <3> QED BY <3>1, <3>3, GroupFields
  <2>3. [group EXCEPT ![g].retain = @ + 1]
          = [group EXCEPT ![g] = [group[g] EXCEPT !.retain = group[g].retain + 1]]
    OBVIOUS
  <2> QED BY <1>1, <2>1, <2>2, <2>3, ReplaceInSeq
<1>5. UNCHANGED <<conn, tx, queue, flush, slot, deciding, pending, settling,
                  inline, records, publishing, asked, log>>
  BY DEF Begin
<1>6. MainOK' /\ RestOK' /\ LogOK' /\ Logs
  BY <1>3, <1>4, <1>5 DEF MainOK, RestOK, LogOK, Logs
<1>7. QueueMoves
  BY <1>4, <1>5 DEF QueueMoves, Order, WritesFirst, MainOK
<1> QED BY <1>6, <1>7

LEMMA EndTypes ==
  ASSUME MainOK, RestOK, LogOK, Order, NEW o \in Op, End(o)
  PROVE  MainOK' /\ RestOK' /\ LogOK' /\ QueueMoves /\ Logs
<1>1. op' \in OpTable
  BY OpTypes DEF End, MainOK
<1>2. PICK gs \in {group, Released(group, op[o].group)} :
        group' = gs /\ flush' = IF gs = group THEN flush ELSE Kick(gs, queue)
  BY DEF End
<1>3. group' \in Seq(Group) /\ Len(group') = Len(group)
  BY <1>2, ReleasedType DEF MainOK
<1>4. UNCHANGED <<conn, tx, queue, slot, deciding, pending, settling,
                  inline, records, publishing, asked, log>>
  BY DEF End
<1>5. flush' \in FlushType
  BY <1>2, FlushTypes DEF MainOK
<1>6. MainOK' /\ RestOK' /\ LogOK' /\ Logs
  BY <1>1, <1>3, <1>4, <1>5 DEF MainOK, RestOK, LogOK, Logs
<1>7. QueueMoves
  BY <1>2, <1>3, <1>4, QueueKept DEF MainOK
<1> QED BY <1>6, <1>7

LEMMA SendRawTypes ==
  ASSUME MainOK, RestOK, LogOK, Order, NEW o \in Op, NEW t \in Tx, SendRaw(o, t)
  PROVE  MainOK' /\ RestOK' /\ LogOK' /\ QueueMoves /\ Logs
<1>1. UNCHANGED <<conn, slot, deciding, pending, settling, inline, records, publishing, log>>
  BY DEF SendRaw
<1>2. CASE /\ tx' = [tx EXCEPT ![t] = [@ EXCEPT !.state = "rejected", !.op = o]]
           /\ UNCHANGED <<op, group, queue, flush, asked>>
  <2>1. tx' \in TxTable
    <3>1. tx[t] \in TxRecord
      BY DEF MainOK, TxTable
    <3>2. [tx[t] EXCEPT !.state = "rejected", !.op = o] \in TxRecord
      BY <3>1 DEF TxRecord
    <3> QED BY <1>2, <3>2, TxTypes DEF MainOK
  <2>2. MainOK' /\ RestOK' /\ LogOK' /\ Logs
    BY <1>1, <1>2, <2>1 DEF MainOK, RestOK, LogOK, Logs
  <2>3. QueueMoves
    BY <1>2 DEF QueueMoves, Order, WritesFirst, MainOK
  <2> QED BY <2>2, <2>3
<1>3. CASE Transmit(op, o, t) /\ asked' = IF Live(o) THEN Append(asked, t) ELSE asked
  <2>1. /\ op' \in OpTable /\ tx' \in TxTable /\ group' \in Seq(Group)
        /\ queue' \in Seq(Nat) /\ flush' \in FlushType /\ QueueMoves
    BY <1>3, TransmitTypes DEF MainOK
  <2>2. asked' \in Seq(Tx)
    BY <1>3 DEF RestOK
  <2> QED BY <1>1, <2>1, <2>2 DEF MainOK, RestOK, LogOK, Logs
<1> QED BY <1>2, <1>3 DEF SendRaw

LEMMA SendTypes ==
  ASSUME MainOK, RestOK, LogOK, Order, NEW o \in Op, NEW t \in Tx, Send(o, t)
  PROVE  MainOK' /\ RestOK' /\ LogOK' /\ QueueMoves /\ Logs
<1>1. /\ UNCHANGED <<conn, settling, inline, records, publishing, log>>
      /\ DoSend(o, t)
      /\ asked' \in {asked, Append(asked, t)} /\ pending' \in {pending, Append(pending, t)}
  BY DEF Send
<1>2. MainOK' /\ QueueMoves /\ deciding' \in Tx \cup {None}
  BY <1>1, DoSendTypes
<1>3. asked' \in Seq(Tx) /\ pending' \in Seq(Tx)
  <2>1. asked \in Seq(Tx) /\ pending \in Seq(Tx)
    BY DEF RestOK
  <2>2. Append(asked, t) \in Seq(Tx) /\ Append(pending, t) \in Seq(Tx)
    BY <2>1
  <2> QED BY <1>1, <2>1, <2>2
<1> QED BY <1>1, <1>2, <1>3 DEF RestOK, LogOK, Logs

LEMMA DrainSendTypes ==
  ASSUME MainOK, RestOK, LogOK, Order, NEW o \in Op, DrainSend, o = tx[Head(pending)].op
  PROVE  MainOK' /\ RestOK' /\ LogOK' /\ QueueMoves /\ Logs
<1>1. /\ UNCHANGED <<conn, settling, records, publishing, asked, log>>
      /\ DoSend(o, Head(pending)) /\ inline' \in {o, None}
      /\ pending' = Tail(pending) /\ pending # <<>>
  BY DEF DrainSend, Draining
<1>2. Head(pending) \in Tx /\ Tail(pending) \in Seq(Tx)
  BY <1>1 DEF RestOK
<1>3. MainOK' /\ QueueMoves /\ deciding' \in Tx \cup {None}
  BY <1>1, <1>2, DoSendTypes
<1> QED BY <1>1, <1>2, <1>3 DEF RestOK, LogOK, Logs

LEMMA DecideTypes ==
  ASSUME MainOK, RestOK, LogOK, Order, Decide, tx[deciding].op \in Op
  PROVE  MainOK' /\ RestOK' /\ LogOK' /\ QueueMoves /\ Logs
<1> DEFINE t == deciding
           o == tx[t].op
<1>1. /\ UNCHANGED <<conn, pending, settling, records, publishing, asked, log>>
      /\ deciding' = None /\ t \in Tx /\ o \in Op
  BY DEF Decide, RestOK
<1>2. CASE StartSend(o, t) /\ UNCHANGED inline
  <2>1. Waits(o) \in OpTable
    BY <1>1, OpTypes DEF Waits, MainOK
  <2>2. /\ op' \in OpTable /\ tx' \in TxTable /\ group' \in Seq(Group)
        /\ queue' \in Seq(Nat) /\ flush' \in FlushType /\ QueueMoves
    BY <1>1, <1>2, <2>1, TransmitTypes DEF StartSend
  <2>3. slot' = t
    BY <1>2 DEF StartSend
  <2> QED BY <1>1, <1>2, <2>2, <2>3 DEF MainOK, RestOK, LogOK, Logs
<1>3. CASE /\ tx' = [tx EXCEPT ![t].state = "rejected"]
           /\ op' = Resumed(op, o)
           /\ inline' = IF op[o].state = "waiting" THEN o ELSE None
           /\ UNCHANGED <<group, queue, flush, slot>>
  <2>1. tx' \in TxTable /\ op' \in OpTable /\ inline' \in Op \cup {None}
    BY <1>1, <1>3, TxTypes, StoppedType DEF MainOK
  <2>2. MainOK' /\ RestOK' /\ LogOK' /\ Logs
    BY <1>1, <1>3, <2>1 DEF MainOK, RestOK, LogOK, Logs
  <2>3. QueueMoves
    BY <1>3 DEF QueueMoves, Order, WritesFirst, MainOK
  <2> QED BY <2>2, <2>3
<1> QED BY <1>2, <1>3 DEF Decide

LEMMA NotificationTypes ==
  ASSUME MainOK, RestOK, LogOK, Order, NotificationCompletes \/ NotificationEnds
  PROVE  MainOK' /\ RestOK' /\ LogOK' /\ QueueMoves /\ Logs
<1>1. CASE NotificationCompletes
  <2>1. /\ UNCHANGED <<conn, group, queue, flush, deciding, pending, records, publishing, asked, log>>
        /\ slot \in Tx /\ slot' = None /\ settling' = slot
    BY <1>1 DEF NotificationCompletes, MainOK
  <2>2. tx' \in TxTable /\ op' \in OpTable
    BY <1>1, <2>1, TxTypes, StoppedType DEF NotificationCompletes, MainOK
  <2>3. tx[slot].op \in Op \cup {None} /\ inline' \in {tx[slot].op, None}
    BY <1>1, <2>1, TxTypes DEF NotificationCompletes, MainOK
  <2>4. MainOK' /\ RestOK' /\ LogOK' /\ Logs
    BY <2>1, <2>2, <2>3 DEF MainOK, RestOK, LogOK, Logs
  <2>5. QueueMoves
    BY <2>1 DEF QueueMoves, Order, WritesFirst, MainOK
  <2> QED BY <2>4, <2>5
<1>2. CASE NotificationEnds
  <2>1. /\ UNCHANGED <<conn, op, queue, slot, deciding, pending, inline, records, publishing, asked, log>>
        /\ settling \in Tx /\ settling' = None
        /\ tx' = [tx EXCEPT ![settling].state = "done"]
    BY <1>2 DEF NotificationEnds, RestOK
  <2>2. tx' \in TxTable
    BY <2>1, TxTypes DEF MainOK
  <2>3. PICK gs \in {group, [group EXCEPT ![tx[settling].group].note = FALSE]} :
          group' = gs /\ flush' \in {flush, Kick(gs, queue)}
    BY <1>2 DEF NotificationEnds
  <2>4. gs \in Seq(Group) /\ Len(gs) = Len(group) /\ flush' \in FlushType
    <3>1. group \in Seq(Group) /\ queue \in Seq(Nat) /\ flush \in FlushType
      BY DEF MainOK
    <3> DEFINE g == tx[settling].group
               cleared == [group EXCEPT ![g].note = FALSE]
    <3>a. cleared \in Seq(Group) /\ Len(cleared) = Len(group)
      BY <3>1, FieldTypes
    <3>2. gs \in Seq(Group) /\ Len(gs) = Len(group)
      BY <2>3, <3>1, <3>a
    <3> QED BY <2>3, <3>1, <3>2, FlushTypes
  <2>5. MainOK' /\ RestOK' /\ LogOK' /\ Logs
    BY <2>1, <2>2, <2>3, <2>4 DEF MainOK, RestOK, LogOK, Logs
  <2>6. QueueMoves
    BY <2>1, <2>3, <2>4, QueueKept DEF MainOK
  <2> QED BY <2>5, <2>6
<1> QED BY <1>1, <1>2

LEMMA FlushTypesStep ==
  ASSUME MainOK, RestOK, LogOK, Order,
         FlushPop \/ FlushReturns \/ FlushFinishes \/ FlushGoesOn
  PROVE  MainOK' /\ RestOK' /\ LogOK' /\ QueueMoves /\ Logs
<1>0. group \in Seq(Group) /\ queue \in Seq(Nat) /\ flush \in FlushType /\ Len(group) \in Nat
  BY DEF MainOK
<1>1. CASE FlushPop
  <2>1. /\ UNCHANGED <<conn, op, tx, queue, flush, slot, deciding, pending, settling,
                       inline, records, publishing, asked, log>>
        /\ flush.stage = "write"
    BY <1>1 DEF FlushPop, Writing
  <2> DEFINE g == flush.group
             S == group[g].segments
  <2>2. g \in 1..Len(group) /\ S # <<>>
    BY <1>0, <1>1, <2>1 DEF Order, WritesFirst, Ascending, FlushPop, MayWrite
  <2>3. S \in Seq(Segment)
    <3>1. group[g] \in Group
      BY <1>0, <2>2
    <3> QED BY <3>1 DEF Group
  <2>4. Tail(S) \in Seq(Segment)
    BY <2>2, <2>3
  <2>5. group' = [group EXCEPT ![g].segments = Tail(S)]
    BY <1>1 DEF FlushPop
  <2>6. group' \in Seq(Group) /\ Len(group') = Len(group)
    <3> HIDE DEF g, S
    <3>1. \A s \in Seq(Segment) : /\ [group EXCEPT ![g].segments = s] \in Seq(Group)
                                   /\ Len([group EXCEPT ![g].segments = s]) = Len(group)
      BY <1>0, FieldTypes
    <3> QED BY <2>4, <2>5, <3>1
  <2>7. MainOK' /\ RestOK' /\ LogOK' /\ Logs
    BY <2>1, <2>6 DEF MainOK, RestOK, LogOK, Logs
  <2>8. QueueMoves
    BY <1>0, <2>1, <2>6 DEF QueueMoves, Order, WritesFirst
  <2> QED BY <2>7, <2>8
<1>2. CASE FlushReturns
  <2>1. /\ UNCHANGED <<conn, op, tx, group, queue, slot, deciding, pending, settling,
                       inline, records, publishing, asked, log>>
        /\ flush' = Idle /\ Idle \in FlushType
    BY <1>2 DEF FlushReturns, Idle, FlushType
  <2>2. MainOK' /\ RestOK' /\ LogOK' /\ Logs
    BY <2>1 DEF MainOK, RestOK, LogOK, Logs
  <2>3. QueueMoves
    BY <1>0, <2>1 DEF QueueMoves, Idle
  <2> QED BY <2>2, <2>3
<1>3. CASE FlushFinishes
  <2>1. /\ UNCHANGED <<conn, op, tx, slot, deciding, pending, settling,
                       inline, records, publishing, asked, log>>
        /\ queue' = Tail(queue) /\ flush' = [flush EXCEPT !.stage = "drain"]
        /\ group' = [group EXCEPT ![flush.group].finished = TRUE]
        /\ flush.stage = "write"
    BY <1>3 DEF FlushFinishes, Writing
  <2>2. group' \in Seq(Group) /\ Len(group') = Len(group)
    <3>1. \A g : [group EXCEPT ![g].finished = TRUE] \in Seq(Group)
                 /\ Len([group EXCEPT ![g].finished = TRUE]) = Len(group)
      BY <1>0, FieldTypes
    <3> QED BY <2>1, <3>1
  <2>3. queue # <<>> /\ queue' \in Seq(Nat)
    BY <1>0, <2>1 DEF Order, WritesFirst
  <2>4. flush' \in FlushType /\ flush'.stage # "write"
    BY <1>0, <2>1 DEF FlushType
  <2>5. MainOK' /\ RestOK' /\ LogOK' /\ Logs
    BY <2>1, <2>2, <2>3, <2>4 DEF MainOK, RestOK, LogOK, Logs
  <2>6. QueueMoves
    BY <1>0, <2>1, <2>2, <2>3, <2>4 DEF QueueMoves
  <2> QED BY <2>5, <2>6
<1>4. CASE FlushGoesOn
  <2>1. UNCHANGED <<deciding, pending, settling, inline, records, publishing, asked, log>>
    BY <1>4 DEF FlushGoesOn
  <2>2. CASE CloseSocket(group, Idle)
    <3>1. MainOK' /\ QueueMoves
      BY <1>0, <2>2, CloseTypes DEF RestOK
    <3> QED BY <2>1, <3>1 DEF RestOK, LogOK, Logs
  <2>3. CASE /\ flush' = StartFlush(group, queue)
             /\ UNCHANGED <<conn, op, tx, group, queue, slot>>
    <3>1. flush' \in FlushType
      BY <1>0, <2>3, FlushTypes
    <3>2. MainOK' /\ RestOK' /\ LogOK' /\ Logs
      BY <2>1, <2>3, <3>1 DEF MainOK, RestOK, LogOK, Logs
    <3>3. QueueMoves
      BY <1>0, <2>3, QueueKept
    <3> QED BY <3>2, <3>3
  <2> QED BY <1>4, <2>2, <2>3 DEF FlushGoesOn
<1> QED BY <1>1, <1>2, <1>3, <1>4

LEMMA ConnectionTypes ==
  ASSUME MainOK, RestOK, LogOK, Order,
         RemoteClose \/ SocketDrains \/ Connect \/ Disconnect \/ InlineEnds
  PROVE  MainOK' /\ RestOK' /\ LogOK' /\ QueueMoves /\ Logs
<1>0. /\ group \in Seq(Group) /\ queue \in Seq(Nat) /\ flush \in FlushType /\ Len(group) \in Nat
      /\ conn \in ConnType
  BY DEF MainOK
<1>a. ASSUME ConnectionEnds(group) PROVE MainOK' /\ QueueMoves
  <2>1. MainOK' /\ Len(group') = Len(group) /\ queue' = <<>> /\ flush' = Idle
    BY <1>0, <1>a, EndsTypes
  <2> QED BY <1>0, <2>1 DEF QueueMoves, Idle
<1>b. ASSUME UNCHANGED <<op, tx, group, queue, flush, slot>>, conn' \in ConnType
      PROVE  MainOK' /\ QueueMoves
  BY <1>0, <1>b DEF MainOK, QueueMoves, Order, WritesFirst
<1>1. CASE RemoteClose
  BY <1>1, <1>a DEF RemoteClose, RestOK, LogOK, Logs
<1>2. CASE SocketDrains
  <2>1. /\ UNCHANGED <<deciding, pending, settling, inline, records, publishing, asked, log>>
        /\ \/ ConnectionEnds(group)
           \/ /\ conn' = [conn EXCEPT !.buffer = Tail(@)]
              /\ UNCHANGED <<op, tx, group, queue, flush, slot>>
        /\ conn.buffer # <<>>
    BY <1>2 DEF SocketDrains
  <2>2. Tail(conn.buffer) \in Seq(Tx)
    BY <1>0, <2>1 DEF ConnType
  <2>3. [conn EXCEPT !.buffer = Tail(@)] \in ConnType
    BY <1>0, <2>2 DEF ConnType
  <2>4. MainOK' /\ QueueMoves
    BY <1>a, <1>b, <2>1, <2>3
  <2> QED BY <2>1, <2>4 DEF RestOK, LogOK, Logs
<1>3. CASE Connect
  <2>1. /\ conn' \in ConnType
        /\ UNCHANGED <<op, tx, group, queue, flush, slot, deciding, pending, settling,
                       inline, records, publishing, asked, log>>
    BY <1>0, <1>3 DEF Connect, ConnType
  <2> QED BY <1>b, <2>1 DEF RestOK, LogOK, Logs
<1>4. CASE Disconnect
  <2>1. UNCHANGED <<deciding, pending, settling, inline, records, publishing, asked, log>>
    BY <1>4 DEF Disconnect
  <2>2. CASE /\ group' = [group EXCEPT ![queue[Len(queue)]].closes = TRUE]
             /\ conn' = [conn EXCEPT !.phase = "closing"]
             /\ UNCHANGED <<op, tx, queue, flush, slot>>
    <3>1. \A g : [group EXCEPT ![g].closes = TRUE] \in Seq(Group)
                 /\ Len([group EXCEPT ![g].closes = TRUE]) = Len(group)
      BY <1>0, FieldTypes
    <3>2. group' \in Seq(Group) /\ Len(group') = Len(group)
      BY <2>2, <3>1
    <3>3. conn' \in ConnType
      BY <1>0, <2>2 DEF ConnType
    <3>4. MainOK' /\ RestOK' /\ LogOK' /\ Logs
      BY <2>1, <2>2, <3>2, <3>3 DEF MainOK, RestOK, LogOK, Logs
    <3>5. QueueMoves
      BY <1>0, <2>2, <3>2 DEF QueueMoves, Order, WritesFirst
    <3> QED BY <3>4, <3>5
  <2>3. CASE CloseSocket(group, flush)
    <3>1. MainOK' /\ QueueMoves
      BY <1>0, <2>3, CloseTypes DEF RestOK
    <3> QED BY <2>1, <3>1 DEF RestOK, LogOK, Logs
  <2> QED BY <1>4, <2>2, <2>3 DEF Disconnect
<1>5. CASE InlineEnds
  <2>1. /\ UNCHANGED <<conn, op, tx, group, queue, flush, slot, deciding, pending, settling,
                       records, publishing, asked, log>>
        /\ inline' = None
    BY <1>5 DEF InlineEnds
  <2> QED BY <1>0, <1>b, <2>1 DEF RestOK, LogOK, Logs
<1> QED BY <1>1, <1>2, <1>3, <1>4, <1>5

LEMMA PublishedTypes ==
  ASSUME MainOK, Order, NEW r \in Record, Published(r)
  PROVE  MainOK' /\ QueueMoves
<1> DEFINE gs == IF r.group = 0 THEN group ELSE [group EXCEPT ![r.group].records = @ - 1]
<1>0. group \in Seq(Group) /\ Len(group) \in Nat
  BY DEF MainOK
<1>1. gs \in Seq(Group) /\ Len(gs) = Len(group)
  <2> DEFINE g == r.group
  <2>1. g \in 1..Len(group) => [group[g] EXCEPT !.records = group[g].records - 1] \in Group
    <3> SUFFICES ASSUME g \in 1..Len(group)
                 PROVE  [group[g] EXCEPT !.records = group[g].records - 1] \in Group
      OBVIOUS
    <3>1. group[g] \in Group
      BY <1>0
    <3>2. group[g].records \in Int
      BY <3>1 DEF Group
    <3>3. group[g].records - 1 \in Int
      BY <3>2
    <3> QED BY <3>1, <3>3, GroupFields
  <2>2. [group EXCEPT ![g].records = @ - 1]
          = [group EXCEPT ![g] = [group[g] EXCEPT !.records = group[g].records - 1]]
    OBVIOUS
  <2> QED BY <1>0, <2>1, <2>2, ReplaceInSeq
<1>2. CASE CloseSocket(gs, flush)
  <2> HIDE DEF gs
  <2> QED BY <1>1, <1>2, CloseTypes
<1>3. CASE group' = gs /\ UNCHANGED <<conn, op, tx, queue, flush, slot>>
  <2> HIDE DEF gs
  <2> QED BY <1>0, <1>1, <1>3 DEF MainOK, QueueMoves, Order, WritesFirst
<1> QED BY <1>2, <1>3 DEF Published

LEMMA RecordTypes ==
  ASSUME MainOK, RestOK, LogOK, Order, PublishRecord \/ PublicationCompletes
  PROVE  MainOK' /\ RestOK' /\ LogOK' /\ QueueMoves /\ Logs
<1>1. CASE PublishRecord
  <2>1. /\ UNCHANGED <<deciding, pending, settling, inline, asked, log>>
        /\ records # <<>> /\ records' = Tail(records)
    BY <1>1 DEF PublishRecord, Drainable
  <2>2. Head(records) \in Record /\ records' \in Seq(Record)
    BY <2>1 DEF RestOK
  <2>3. CASE Published(Head(records)) /\ UNCHANGED publishing
    <3>1. MainOK' /\ QueueMoves
      BY <2>2, <2>3, PublishedTypes DEF RestOK
    <3> QED BY <2>1, <2>2, <2>3, <3>1 DEF RestOK, LogOK, Logs
  <2>4. CASE /\ publishing' = Head(records)
             /\ UNCHANGED <<conn, op, tx, group, queue, flush, slot>>
    <3>1. MainOK' /\ RestOK' /\ LogOK' /\ Logs
      BY <2>1, <2>2, <2>4 DEF MainOK, RestOK, LogOK, Logs
    <3>2. QueueMoves
      BY <2>4 DEF QueueMoves, Order, WritesFirst, MainOK
    <3> QED BY <3>1, <3>2
  <2> QED BY <1>1, <2>3, <2>4 DEF PublishRecord
<1>2. CASE PublicationCompletes
  <2>1. /\ UNCHANGED <<deciding, pending, settling, inline, records, asked, log>>
        /\ publishing \in Record /\ publishing' = None /\ Published(publishing)
    BY <1>2 DEF PublicationCompletes, RestOK
  <2>2. MainOK' /\ QueueMoves
    BY <2>1, PublishedTypes DEF RestOK
  <2> QED BY <2>1, <2>2 DEF RestOK, LogOK, Logs
<1> QED BY <1>1, <1>2

-----------------------------------------------------------------------------
(* Who a send belongs to: it has an owner that has begun, and while it is   *)
(* staged its owner is bare or its scope is of the connection there is.     *)

InGroup(g, t) == \E j \in 1..Len(g.segments) : \E k \in 1..Len(g.segments[j].txs) :
                   g.segments[j].txs[k] = t

Asked(t)  == tx[t].state # "new"
Of(ops, o, n) == o \in Bare \/ ops[o].epoch = n
Current(t) == Asked(t) /\ Of(op, tx[t].op, conn.epoch)

Owned ==
  /\ \A t \in Tx : Asked(t) => tx[t].op \in Op /\ op[tx[t].op].state # "idle"
  /\ \A t \in Tx : Staged(t) => Current(t)
  /\ \A i \in 1..Len(group), t \in Tx : InGroup(group[i], t) => Current(t)
  /\ \A i \in 1..Len(log) : Asked(log[i].tx) /\ Of(op, tx[log[i].tx].op, log[i].epoch)
  /\ deciding # None => Asked(deciding)
  /\ settling # None => Asked(settling)
  /\ \A i \in 1..Len(pending) : Asked(pending[i])

\* What a step may do to the owners.
OwnersMove ==
  /\ \A o \in Op : \/ op'[o].epoch = op[o].epoch /\ (op[o].state # "idle" => op'[o].state # "idle")
                   \/ op[o].state = "idle" /\ op'[o].state # "idle"
  /\ \A t \in Tx : IF Asked(t) THEN tx'[t].op = tx[t].op /\ tx'[t].state # "new"
                   ELSE tx'[t].state # "new" => tx'[t].op \in Op /\ op[tx'[t].op].state # "idle"

\* What it may do to the connection and to what is staged in it.
StagedMove ==
  \/ /\ conn'.epoch = conn.epoch
     /\ \A t \in Tx : tx'[t].state = "staged" =>
          Staged(t) \/ (tx'[t].op \in Op /\ Of(op, tx'[t].op, conn.epoch))
     /\ \A i \in 1..Len(group'), t \in Tx :
          InGroup(group'[i], t) =>
            \/ i \in 1..Len(group) /\ InGroup(group[i], t)
            \/ tx'[t].state = "staged"
  \/ /\ \A t \in Tx : tx'[t].state # "staged"
     /\ \A i \in 1..Len(group'), t \in Tx : ~InGroup(group'[i], t)

LogMove ==
  \/ log' = log
  \/ \E e \in LogEntry : /\ log' = Append(log, e) /\ e.epoch = conn.epoch
                         /\ Current(e.tx) /\ Of(op', tx[e.tx].op, conn.epoch)

WaitMove ==
  /\ deciding' # None => tx'[deciding'].state # "new"
  /\ settling' # None => tx'[settling'].state # "new"
  /\ \A i \in 1..Len(pending') : tx'[pending'[i]].state # "new"

LEMMA OwnedStep ==
  ASSUME MainOK, LogOK, MainOK', LogOK', Owned, OwnersMove, StagedMove, LogMove, WaitMove
  PROVE  Owned'
<1>1. ASSUME NEW t \in Tx, Asked(t)
      PROVE  /\ tx'[t].op = tx[t].op /\ tx'[t].state # "new" /\ tx[t].op \in Op
             /\ op'[tx[t].op].epoch = op[tx[t].op].epoch /\ op'[tx[t].op].state # "idle"
  BY <1>1 DEF Owned, OwnersMove
<1>2. ASSUME NEW t \in Tx, tx'[t].state # "new"
      PROVE  tx'[t].op \in Op /\ op'[tx'[t].op].state # "idle"
             /\ op'[tx'[t].op].epoch = op[tx'[t].op].epoch
  BY <1>1, <1>2 DEF OwnersMove, Asked
<1>3. ASSUME NEW t \in Tx, tx'[t].state = "staged"
      PROVE  Of(op', tx'[t].op, conn'.epoch)
  BY <1>1, <1>2, <1>3 DEF StagedMove, Owned, Current, Asked, Of
<1>4. ASSUME NEW i \in 1..Len(group'), NEW t \in Tx, InGroup(group'[i], t)
      PROVE  tx'[t].state # "new" /\ Of(op', tx'[t].op, conn'.epoch)
  <2>1. /\ conn'.epoch = conn.epoch
        /\ (i \in 1..Len(group) /\ InGroup(group[i], t)) \/ tx'[t].state = "staged"
    BY <1>4 DEF StagedMove
  <2>2. CASE i \in 1..Len(group) /\ InGroup(group[i], t)
    <3>1. Current(t)
      BY <2>2 DEF Owned
    <3> QED BY <1>1, <2>1, <3>1 DEF Current, Of
  <2> QED BY <1>3, <2>1, <2>2
<1>5. ASSUME NEW i \in 1..Len(log')
      PROVE  tx'[log'[i].tx].state # "new" /\ Of(op', tx'[log'[i].tx].op, log'[i].epoch)
  <2>1. \A k \in 1..Len(log) : log[k].tx \in Tx
    <3>1. \A k \in 1..Len(log) : log[k] \in LogEntry
      BY DEF LogOK
    <3> QED BY <3>1 DEF LogEntry
  <2>2. CASE i \in 1..Len(log) /\ log'[i] = log[i]
    BY <1>1, <2>1, <2>2 DEF Owned, Of
  <2>3. ASSUME NEW e \in LogEntry, log'[i] = e, e.epoch = conn.epoch, Current(e.tx),
               Of(op', tx[e.tx].op, conn.epoch)
        PROVE  tx'[log'[i].tx].state # "new" /\ Of(op', tx'[log'[i].tx].op, log'[i].epoch)
    BY <1>1, <2>3 DEF Current, LogEntry, Of
  <2>4. \/ i \in 1..Len(log) /\ log'[i] = log[i]
        \/ \E e \in LogEntry : /\ log'[i] = e /\ e.epoch = conn.epoch /\ Current(e.tx)
                               /\ Of(op', tx[e.tx].op, conn.epoch)
    <3>1. CASE log' = log
      BY <3>1
    <3>2. ASSUME NEW e \in LogEntry, log' = Append(log, e)
          PROVE  (i \in 1..Len(log) /\ log'[i] = log[i]) \/ log'[i] = e
      BY <3>2 DEF LogOK
    <3> QED BY <3>1, <3>2 DEF LogMove
  <2> QED BY <2>2, <2>3, <2>4
<1>6. \A t \in Tx : Asked(t)' => tx'[t].op \in Op /\ op'[tx'[t].op].state # "idle"
  BY <1>2 DEF Asked
<1>7. \A t \in Tx : Staged(t)' => Current(t)'
  BY <1>3 DEF Staged, Current, Asked, Of
<1>8. \A i \in 1..Len(group'), t \in Tx : InGroup(group[i], t)' => Current(t)'
  BY <1>4 DEF Current, Asked, InGroup, Of
<1>9. \A i \in 1..Len(log') : (Asked(log[i].tx) /\ Of(op, tx[log[i].tx].op, log[i].epoch))'
  BY <1>5 DEF Asked, Of
<1>10. /\ (deciding # None => Asked(deciding))'
       /\ (settling # None => Asked(settling))'
       /\ \A i \in 1..Len(pending') : Asked(pending[i])'
  BY DEF WaitMove, Asked
<1> QED BY <1>6, <1>7, <1>8, <1>9, <1>10 DEF Owned

KeepsSegments(gs) == /\ gs \in Seq(Group) /\ Len(gs) = Len(group)
                     /\ \A i \in 1..Len(gs) : gs[i].segments = group[i].segments

LEMMA FieldsKeepSegments ==
  ASSUME MainOK, NEW g
  PROVE  /\ KeepsSegments(group)
         /\ KeepsSegments(Released(group, g))
         /\ \A b \in BOOLEAN : /\ KeepsSegments([group EXCEPT ![g].note = b])
                               /\ KeepsSegments([group EXCEPT ![g].closes = b])
                               /\ KeepsSegments([group EXCEPT ![g].finished = b])
         /\ \A n \in Nat : KeepsSegments([group EXCEPT ![g].retain = n])
         /\ \A n \in Int : KeepsSegments([group EXCEPT ![g].records = n])
<1>1. group \in Seq(Group) /\ \A i \in 1..Len(group) : group[i] \in Group
  BY DEF MainOK
<1>2. KeepsSegments(group)
  BY <1>1 DEF KeepsSegments
<1>3. ASSUME NEW b \in BOOLEAN
      PROVE  /\ KeepsSegments([group EXCEPT ![g].note = b])
             /\ KeepsSegments([group EXCEPT ![g].closes = b])
             /\ KeepsSegments([group EXCEPT ![g].finished = b])
  <2>1. /\ [group EXCEPT ![g].note = b] \in Seq(Group)
        /\ Len([group EXCEPT ![g].note = b]) = Len(group)
        /\ [group EXCEPT ![g].closes = b] \in Seq(Group)
        /\ Len([group EXCEPT ![g].closes = b]) = Len(group)
        /\ [group EXCEPT ![g].finished = b] \in Seq(Group)
        /\ Len([group EXCEPT ![g].finished = b]) = Len(group)
    BY <1>1, FieldTypes
  <2>2. \A i \in 1..Len(group) : /\ [group EXCEPT ![g].note = b][i].segments = group[i].segments
                                 /\ [group EXCEPT ![g].closes = b][i].segments = group[i].segments
                                 /\ [group EXCEPT ![g].finished = b][i].segments = group[i].segments
    BY <1>1 DEF Group
  <2> QED BY <2>1, <2>2 DEF KeepsSegments
<1>4. ASSUME NEW n \in Nat
      PROVE  KeepsSegments([group EXCEPT ![g].retain = n])
  <2>1. /\ [group EXCEPT ![g].retain = n] \in Seq(Group)
        /\ Len([group EXCEPT ![g].retain = n]) = Len(group)
    BY <1>1, FieldTypes
  <2>2. \A i \in 1..Len(group) : [group EXCEPT ![g].retain = n][i].segments = group[i].segments
    BY <1>1 DEF Group
  <2> QED BY <2>1, <2>2 DEF KeepsSegments
<1>5. ASSUME NEW n \in Int
      PROVE  KeepsSegments([group EXCEPT ![g].records = n])
  <2>1. /\ [group EXCEPT ![g].records = n] \in Seq(Group)
        /\ Len([group EXCEPT ![g].records = n]) = Len(group)
    BY <1>1, FieldTypes
  <2>2. \A i \in 1..Len(group) : [group EXCEPT ![g].records = n][i].segments = group[i].segments
    BY <1>1 DEF Group
  <2> QED BY <2>1, <2>2 DEF KeepsSegments
<1>6. KeepsSegments(Released(group, g))
  <2>1. Released(group, g) \in Seq(Group) /\ Len(Released(group, g)) = Len(group)
    BY <1>1, ReleasedType
  <2>2. \A i \in 1..Len(group) : Released(group, g)[i].segments = group[i].segments
    BY <1>1 DEF Group, Released
  <2> QED BY <2>1, <2>2 DEF KeepsSegments
<1> QED BY <1>2, <1>3, <1>4, <1>5, <1>6

\* A step that stages nothing and adds nothing to the groups.
AddsNothing(gs) == /\ Len(gs) = Len(group)
                   /\ \A i \in 1..Len(gs), t \in Tx : InGroup(gs[i], t) => InGroup(group[i], t)

LEMMA NothingAdded ==
  ASSUME MainOK, conn'.epoch = conn.epoch, AddsNothing(group'),
         \A t \in Tx : tx'[t].state = "staged" => Staged(t)
  PROVE  StagedMove
<1>1. \A i \in 1..Len(group'), t \in Tx : InGroup(group'[i], t) => i \in 1..Len(group) /\ InGroup(group[i], t)
  BY DEF AddsNothing
<1> QED BY <1>1 DEF StagedMove

LEMMA NothingStaged ==
  ASSUME MainOK, conn'.epoch = conn.epoch, KeepsSegments(group'),
         \A t \in Tx : tx'[t].state = "staged" => Staged(t)
  PROVE  StagedMove
<1>1. AddsNothing(group')
  BY DEF KeepsSegments, InGroup, AddsNothing
<1> QED BY <1>1, NothingAdded

LEMMA StoppedOwners ==
  ASSUME NEW ops \in OpTable, NEW p, NEW o \in Op
  PROVE  /\ Stopped(ops, p)[o].epoch = ops[o].epoch /\ Resumed(ops, p)[o].epoch = ops[o].epoch
         /\ ops[o].state # "idle" => Stopped(ops, p)[o].state # "idle" /\ Resumed(ops, p)[o].state # "idle"
BY DEF Stopped, Resumed, OpTable, OpRecord

LEMMA EndsOwned ==
  ASSUME MainOK, NEW gs \in Seq(Group), ConnectionEnds(gs)
  PROVE  OwnersMove /\ StagedMove /\ \A t \in Tx : Asked(t) => tx'[t].state # "new"
<1>1. tx' = [t \in Tx |-> IF Staged(t) THEN [tx[t] EXCEPT !.state = "rejected"] ELSE tx[t]]
  BY DEF ConnectionEnds
<1>2. \A t \in Tx : tx[t] \in TxRecord
  BY DEF MainOK, TxTable
<1>3. \A t \in Tx : /\ tx'[t].op = tx[t].op /\ tx'[t].state # "staged"
                    /\ tx'[t].state = "new" <=> tx[t].state = "new"
  BY <1>1, <1>2 DEF Staged, TxRecord
<1>4. \A o \in Op : op'[o].epoch = op[o].epoch /\ (op[o].state # "idle" => op'[o].state # "idle")
  <2>1. op' = op \/ \E p : op' = Stopped(op, p)
    BY DEF ConnectionEnds
  <2> QED BY <2>1, StoppedOwners DEF MainOK
<1>5. \A i \in 1..Len(group') : group'[i].segments = <<>>
  <2>1. \A i \in 1..Len(gs) : gs[i] \in Group
    OBVIOUS
  <2>2. group' = [i \in DOMAIN gs |-> [gs[i] EXCEPT !.finished = TRUE, !.segments = <<>>]]
    BY DEF ConnectionEnds
  <2>3. Len(group') = Len(gs) /\ DOMAIN gs = 1..Len(gs)
    BY EndsTypes
  <2>4. ASSUME NEW i \in 1..Len(gs)
        PROVE  group'[i].segments = <<>>
    <3>1. gs[i] \in Group /\ i \in DOMAIN gs
      BY <2>1, <2>3
    <3>2. group'[i] = [gs[i] EXCEPT !.finished = TRUE, !.segments = <<>>]
      BY <2>2, <3>1
    <3> QED BY <3>1, <3>2 DEF Group
  <2> QED BY <2>3, <2>4
<1>6. \A i \in 1..Len(group'), t \in Tx : ~InGroup(group'[i], t)
  BY <1>5 DEF InGroup
<1>7. OwnersMove
  BY <1>3, <1>4 DEF OwnersMove, Asked
<1>8. StagedMove
  BY <1>3, <1>6 DEF StagedMove
<1> QED BY <1>3, <1>7, <1>8 DEF Asked

LEMMA SameOwners ==
  ASSUME UNCHANGED <<op, tx>>
  PROVE  OwnersMove /\ \A t \in Tx : (Asked(t) => tx'[t].state # "new") /\ (tx'[t].state = "staged" => Staged(t))
BY DEF OwnersMove, Asked, Staged

LEMMA CloseOwned ==
  ASSUME MainOK, NEW gs, KeepsSegments(gs), NEW next, CloseSocket(gs, next)
  PROVE  OwnersMove /\ StagedMove /\ \A t \in Tx : Asked(t) => tx'[t].state # "new"
<1>0. gs \in Seq(Group)
  BY DEF KeepsSegments
<1>1. CASE ConnectionEnds(gs)
  BY <1>0, <1>1, EndsOwned
<1>2. CASE /\ conn' = [conn EXCEPT !.phase = "closing", !.sock = "draining"]
           /\ group' = gs /\ UNCHANGED <<op, tx, queue, slot>>
  <2>1. conn'.epoch = conn.epoch
    BY <1>2 DEF MainOK, ConnType
  <2> QED BY <1>2, <2>1, SameOwners, NothingStaged
<1> QED BY <1>1, <1>2 DEF CloseSocket

\* One send gets a new state, other than staged.
LEMMA OneSend ==
  ASSUME MainOK, NEW t \in Tx, NEW s, s \notin {"new", "staged"},
         \/ tx' = [tx EXCEPT ![t].state = s] /\ Asked(t)
         \/ /\ \E o \in Op : /\ op[o].state # "idle" /\ (Asked(t) => tx[t].op = o)
                             /\ tx' = [tx EXCEPT ![t].state = s, ![t].op = o],
         \A o \in Op : op'[o].epoch = op[o].epoch /\ (op[o].state # "idle" => op'[o].state # "idle")
  PROVE  /\ OwnersMove
         /\ \A u \in Tx : (Asked(u) => tx'[u].state # "new") /\ (tx'[u].state = "staged" => Staged(u))
         /\ tx'[t].state # "new"
<1>1. \A u \in Tx : tx[u] \in TxRecord
  BY DEF MainOK, TxTable
<1>2. CASE tx' = [tx EXCEPT ![t].state = s] /\ Asked(t)
  <2>1. \A u \in Tx : tx'[u].op = tx[u].op /\ (u # t => tx'[u].state = tx[u].state)
    BY <1>1, <1>2 DEF TxRecord, MainOK, TxTable
  <2>2. tx'[t].state = s
    BY <1>1, <1>2 DEF TxRecord, MainOK, TxTable
  <2> QED BY <1>2, <2>1, <2>2 DEF OwnersMove, Asked, Staged
<1>3. ASSUME NEW o \in Op, op[o].state # "idle", Asked(t) => tx[t].op = o,
             tx' = [tx EXCEPT ![t].state = s, ![t].op = o]
      PROVE  /\ OwnersMove
             /\ \A u \in Tx : (Asked(u) => tx'[u].state # "new") /\ (tx'[u].state = "staged" => Staged(u))
             /\ tx'[t].state # "new"
  <2>1. \A u \in Tx : u # t => tx'[u].op = tx[u].op /\ tx'[u].state = tx[u].state
    BY <1>1, <1>3 DEF TxRecord, MainOK, TxTable
  <2>2. tx'[t].state = s /\ tx'[t].op = o
    BY <1>1, <1>3 DEF TxRecord, MainOK, TxTable
  <2> QED BY <1>3, <2>1, <2>2 DEF OwnersMove, Asked, Staged
<1> QED BY <1>2, <1>3

LEMMA JoinOwned ==
  ASSUME NEW s \in Segment, NEW t \in Tx, NEW k \in 1..Len(Join(s, t).txs)
  PROVE  Join(s, t).txs[k] = t \/ \E m \in 1..Len(s.txs) : s.txs[m] = Join(s, t).txs[k]
<1>1. s.txs \in Seq(Tx) /\ Len(s.txs) \in Nat
  <2>1. s.txs \in Seq(Tx)
    BY DEF Segment
  <2> QED BY <2>1
<1>2. CASE Join(s, t).txs = Append(s.txs, t)
  <2>1. k \in 1..(Len(s.txs) + 1)
    BY <1>1, <1>2
  <2>2. CASE k \in 1..Len(s.txs)
    BY <1>1, <1>2, <2>2
  <2>3. CASE k = Len(s.txs) + 1
    BY <1>1, <1>2, <2>3
  <2> QED BY <1>1, <2>1, <2>2, <2>3
<1>3. CASE Join(s, t).txs = <<t>> \o s.txs
  <2>1. <<t>> \in Seq(Tx) /\ Len(<<t>>) = 1
    OBVIOUS
  <2>2. k \in 1..(1 + Len(s.txs))
    BY <1>1, <1>3, <2>1
  <2>3. CASE k = 1
    BY <1>1, <1>3, <2>1, <2>3
  <2>4. CASE k - 1 \in 1..Len(s.txs)
    <3>1. Join(s, t).txs[k] = s.txs[k - 1]
      BY <1>1, <1>3, <2>1, <2>2, <2>4
    <3> QED BY <2>4, <3>1
  <2> QED BY <1>1, <2>2, <2>3, <2>4
<1> QED BY <1>2, <1>3 DEF Join

LEMMA StageOwned ==
  ASSUME NEW g \in Group, NEW t \in Tx, NEW u, InGroup(Stage(g, t), u)
  PROVE  InGroup(g, u) \/ u = t
<1> DEFINE S == g.segments
           fresh == [txs |-> <<>>, sealed |-> FALSE]
           new == Stage(g, t).segments
<1>1. S \in Seq(Segment) /\ Len(S) \in Nat
  <2>1. S \in Seq(Segment)
    BY DEF Group
  <2> QED BY <2>1
<1>2. fresh \in Segment /\ Len(fresh.txs) = 0
  BY EmptyInSeq DEF Segment
<1>3. PICK j \in 1..Len(new) : \E k \in 1..Len(new[j].txs) : new[j].txs[k] = u
  BY DEF InGroup
<1>4. CASE S = <<>> \/ S[Len(S)].sealed
  <2>1. new = Append(S, Join(fresh, t))
    BY <1>4 DEF Stage, Group
  <2>2. CASE j \in 1..Len(S)
    <3>1. new[j] = S[j]
      BY <1>1, <2>1, <2>2
    <3> QED BY <1>3, <2>2, <3>1 DEF InGroup
  <2>3. CASE j = Len(S) + 1
    <3>1. new[j] = Join(fresh, t)
      BY <1>1, <2>1, <2>3
    <3>2. u = t
      BY <1>2, <1>3, <3>1, JoinOwned
    <3> QED BY <3>2
  <2>4. j \in 1..Len(S) \/ j = Len(S) + 1
    BY <1>1, <1>3, <2>1
  <2> QED BY <2>2, <2>3, <2>4
<1>5. CASE ~(S = <<>> \/ S[Len(S)].sealed)
  <2>a. Len(S) \in 1..Len(S)
    BY <1>1, <1>5
  <2>b. S[Len(S)] \in Segment
    BY <1>1, <2>a
  <2>1. new = [S EXCEPT ![Len(S)] = Join(S[Len(S)], t)]
    BY <1>5 DEF Stage, Group
  <2>2. Len(new) = Len(S)
    BY <1>1, <2>1
  <2>3. CASE j # Len(S)
    <3>1. new[j] = S[j]
      BY <1>1, <1>3, <2>1, <2>2, <2>3
    <3> QED BY <1>3, <2>2, <3>1 DEF InGroup
  <2>4. CASE j = Len(S)
    <3>1. new[j] = Join(S[Len(S)], t)
      BY <1>1, <2>1, <2>4, <2>a
    <3>2. u = t \/ \E m \in 1..Len(S[Len(S)].txs) : S[Len(S)].txs[m] = u
      BY <1>3, <2>b, <3>1, JoinOwned
    <3> QED BY <2>a, <3>2 DEF InGroup
  <2> QED BY <2>3, <2>4
<1> QED BY <1>4, <1>5

LEMMA TransmitOwned ==
  ASSUME MainOK, NEW ops \in OpTable, NEW o \in Op, NEW t \in Tx, Transmit(ops, o, t),
         conn' = conn, Of(op, o, conn.epoch), op[o].state # "idle", Asked(t) => tx[t].op = o,
         \A p \in Op : ops[p].epoch = op[p].epoch /\ (op[p].state # "idle" => ops[p].state # "idle")
  PROVE  /\ OwnersMove /\ StagedMove
         /\ \A u \in Tx : (Asked(u) => tx'[u].state # "new")
         /\ tx'[t].state # "new"
<1> DEFINE new     == NeedsGroup(o)
           g       == IF new THEN Len(group) + 1 ELSE OldGroup(o)
           retains == Live(o) /\ op[o].group = 0
           gs      == IF new THEN Append(group, NewGroup(0)) ELSE group
           held    == IF retains THEN [gs EXCEPT ![g].retain = @ + 1] ELSE gs
           staged  == [held EXCEPT ![g] = Stage(@, t)]
<1>1. /\ tx' = [tx EXCEPT ![t] = [state |-> "staged", op |-> o, group |-> g]]
      /\ group' = staged \/ group' = group
      /\ op' = ops \/ op' = [ops EXCEPT ![o].group = g]
  BY DEF Transmit
<1>2. \A u \in Tx : tx[u] \in TxRecord
  BY DEF MainOK, TxTable
<1>3. /\ \A u \in Tx : u # t => tx'[u] = tx[u]
      /\ tx'[t].state = "staged" /\ tx'[t].op = o
  BY <1>1 DEF MainOK, TxTable
<1>4. \A p \in Op : op'[p].epoch = op[p].epoch /\ (op[p].state # "idle" => op'[p].state # "idle")
  BY <1>1 DEF OpTable, OpRecord
<1>5. OwnersMove
  BY <1>3, <1>4 DEF OwnersMove, Asked
<1>6. group \in Seq(Group) /\ Len(group) \in Nat /\ \A i \in 1..Len(group) : group[i] \in Group
  BY DEF MainOK
<1>7. /\ Len(gs) \in Nat /\ gs \in Seq(Group)
      /\ \A i \in 1..Len(gs) : \/ i \in 1..Len(group) /\ gs[i] = group[i]
                               \/ gs[i].segments = <<>>
  <2>1. CASE new
    <3>1. gs = Append(group, NewGroup(0))
      BY <2>1
    <3>2. NewGroup(0).segments = <<>>
      BY DEF NewGroup
    <3> QED BY <1>6, <3>1, <3>2, NewGroupType
  <2>2. CASE ~new
    BY <1>6, <2>2
  <2> QED BY <2>1, <2>2
<1> HIDE DEF gs, g, new
<1>8. /\ Len(held) = Len(gs) /\ DOMAIN held = 1..Len(gs)
      /\ \A i \in 1..Len(gs) : held[i].segments = gs[i].segments
  <2>1. \A i \in 1..Len(gs) : gs[i] \in Group
    BY <1>7
  <2>2. CASE retains
    <3>1. held = [gs EXCEPT ![g].retain = @ + 1]
      BY <2>2
    <3>2. Len(held) = Len(gs) /\ DOMAIN held = 1..Len(gs)
      BY <1>7, <3>1
    <3>3. \A i \in 1..Len(gs) : held[i].segments = gs[i].segments
      BY <1>7, <2>1, <3>1 DEF Group
    <3> QED BY <3>2, <3>3
  <2>3. CASE ~retains
    BY <1>7, <2>3
  <2> QED BY <2>2, <2>3
<1>9. ASSUME NEW i \in 1..Len(gs), NEW u, InGroup(gs[i], u)
      PROVE  i \in 1..Len(group) /\ InGroup(group[i], u)
  BY <1>7, <1>9 DEF InGroup
<1>10. ASSUME NEW i \in 1..Len(gs), NEW u, InGroup(held[i], u)
       PROVE  i \in 1..Len(group) /\ InGroup(group[i], u)
  <2>1. held[i].segments = gs[i].segments
    BY <1>8
  <2> HIDE DEF held, retains
  <2>2. InGroup(gs[i], u)
    BY <1>10, <2>1 DEF InGroup
  <2> QED BY <1>9, <2>2
<1>11. \A i \in 1..Len(gs) : held[i] \in Group
  <2>1. \A i \in 1..Len(gs) : gs[i] \in Group
    BY <1>7
  <2>2. CASE retains
    <3>1. held = [gs EXCEPT ![g].retain = @ + 1]
      BY <2>2
    <3>2. \A i \in 1..Len(gs) : gs[i].retain + 1 \in Nat
      BY <2>1 DEF Group
    <3>3. \A i \in 1..Len(gs) : [gs[i] EXCEPT !.retain = gs[i].retain + 1] \in Group
      BY <2>1, <3>2, GroupFields
    <3>4. \A i \in 1..Len(gs) : held[i] = gs[i] \/ held[i] = [gs[i] EXCEPT !.retain = gs[i].retain + 1]
      BY <1>7, <3>1
    <3> QED BY <2>1, <3>3, <3>4
  <2>3. CASE ~retains
    BY <2>1, <2>3
  <2> QED BY <2>2, <2>3
<1> HIDE DEF held
<1>12. ASSUME NEW i \in 1..Len(group'), NEW u \in Tx, InGroup(group'[i], u), group' = staged
       PROVE  (i \in 1..Len(group) /\ InGroup(group[i], u)) \/ u = t
  <2>1. Len(staged) = Len(held) /\ i \in 1..Len(gs)
    BY <1>7, <1>8, <1>12
  <2>2. CASE i # g
    <3>1. staged[i] = held[i]
      BY <1>8, <2>1, <2>2
    <3> QED BY <1>10, <1>12, <2>1, <3>1
  <2>3. CASE i = g
    <3>1. staged[i] = Stage(held[i], t)
      BY <1>8, <2>1, <2>3
    <3>2. InGroup(held[i], u) \/ u = t
      BY <1>11, <1>12, <2>1, <3>1, StageOwned
    <3> QED BY <1>10, <2>1, <3>2
  <2> QED BY <2>2, <2>3
<1>13. ASSUME NEW i \in 1..Len(group'), NEW u \in Tx, InGroup(group'[i], u)
       PROVE  (i \in 1..Len(group) /\ InGroup(group[i], u)) \/ tx'[u].state = "staged"
  BY <1>1, <1>3, <1>12, <1>13
<1>14. ASSUME NEW u \in Tx, tx'[u].state = "staged"
       PROVE  Staged(u) \/ (tx'[u].op \in Op /\ Of(op, tx'[u].op, conn.epoch))
  BY <1>3, <1>14 DEF Staged
<1>15. StagedMove
  BY <1>13, <1>14 DEF StagedMove
<1> QED BY <1>3, <1>5, <1>15 DEF Asked

\* The steps of doSendMsg.
LEMMA DoSendOwned ==
  ASSUME MainOK, RestOK, NEW o \in Op, NEW t \in Tx, DoSend(o, t), conn' = conn,
         op[o].state # "idle", Asked(t) => tx[t].op = o
  PROVE  /\ OwnersMove /\ StagedMove
         /\ \A u \in Tx : (Asked(u) => tx'[u].state # "new")
         /\ tx'[t].state # "new" /\ deciding' \in {deciding, t}
<1>1. /\ Waits(o) \in OpTable
      /\ \A p \in Op : /\ Waits(o)[p].epoch = op[p].epoch
                       /\ op[p].state # "idle" => Waits(o)[p].state # "idle"
  <2>1. Waits(o) \in OpTable
    BY OpTypes DEF Waits, MainOK
  <2> QED BY <2>1 DEF Waits, MainOK, OpTable, OpRecord
<1>2. CASE Refuse(o, t) \/ Postpone(o, t) \/ AwaitDecision(o, t)
  <2>1. PICK s \in {"rejected", "pending", "deciding"} : tx' = [tx EXCEPT ![t].state = s, ![t].op = o]
    BY <1>2 DEF Refuse, Postpone, AwaitDecision
  <2>2. UNCHANGED group /\ deciding' \in {deciding, t}
    BY <1>2 DEF Refuse, Postpone, AwaitDecision
  <2>3. \A p \in Op : op'[p].epoch = op[p].epoch /\ (op[p].state # "idle" => op'[p].state # "idle")
    <3>1. op' \in {Resumed(op, o), Waits(o)}
      BY <1>2 DEF Refuse, Postpone, AwaitDecision
    <3>2. \A p \in Op : /\ Resumed(op, o)[p].epoch = op[p].epoch
                        /\ op[p].state # "idle" => Resumed(op, o)[p].state # "idle"
      BY StoppedOwners DEF MainOK
    <3> QED BY <1>1, <3>1, <3>2
  <2>4. s \notin {"new", "staged"}
    BY <2>1
  <2>5. /\ OwnersMove
        /\ \A u \in Tx : (Asked(u) => tx'[u].state # "new") /\ (tx'[u].state = "staged" => Staged(u))
        /\ tx'[t].state # "new"
    BY <2>1, <2>3, <2>4, OneSend
  <2>6. KeepsSegments(group') /\ conn'.epoch = conn.epoch
    <3>1. KeepsSegments(group)
      BY FieldsKeepSegments
    <3> QED BY <2>2, <3>1
  <2>7. StagedMove
    BY <2>5, <2>6, NothingStaged
  <2> QED BY <2>2, <2>5, <2>7
<1>3. CASE StartSend(o, t) /\ UNCHANGED deciding /\ ~ContextRejected(o)
  <2>1. Of(op, o, conn.epoch)
    BY <1>3 DEF ContextRejected, Of
  <2>2. Transmit(Waits(o), o, t)
    BY <1>3 DEF StartSend
  <2> QED BY <1>1, <1>3, <2>1, <2>2, TransmitOwned
<1> QED BY <1>2, <1>3 DEF DoSend

\* What has been asked for stays so; a step that leaves the waiting sends alone or takes the
\* first of them keeps them in order.
LEMMA WaitsKept ==
  ASSUME RestOK, Owned, \A u \in Tx : Asked(u) => tx'[u].state # "new",
         deciding' \in {deciding, None}, settling' \in {settling, None},
         pending' = pending \/ (pending # <<>> /\ pending' = Tail(pending))
  PROVE  WaitMove
<1>1. /\ pending \in Seq(Tx) /\ deciding \in Tx \cup {None} /\ settling \in Tx \cup {None}
      /\ \A i \in 1..Len(pending) : pending[i] \in Tx /\ Asked(pending[i])
  BY DEF RestOK, Owned
<1>2. /\ deciding' # None => tx'[deciding'].state # "new"
      /\ settling' # None => tx'[settling'].state # "new"
  BY <1>1 DEF Owned
<1>3. ASSUME NEW i \in 1..Len(pending')
      PROVE  \E k \in 1..Len(pending) : pending'[i] = pending[k]
  <2>1. CASE pending' = pending
    BY <2>1
  <2>2. CASE pending # <<>> /\ pending' = Tail(pending)
    <3>1. pending'[i] = pending[i + 1] /\ i + 1 \in 1..Len(pending)
      BY <1>1, <2>2
    <3> QED BY <3>1
  <2> QED BY <2>1, <2>2
<1>4. ASSUME NEW i \in 1..Len(pending') PROVE tx'[pending'[i]].state # "new"
  BY <1>1, <1>3
<1> QED BY <1>2, <1>4 DEF WaitMove

Owners == OwnersMove /\ StagedMove /\ LogMove /\ WaitMove

LEMMA ConnectionOwners ==
  ASSUME MainOK, RestOK, LogOK, Owned,
         RemoteClose \/ SocketDrains \/ Connect \/ Disconnect \/ InlineEnds
  PROVE  Owners
<1>1. UNCHANGED <<deciding, pending, settling, log>>
  BY DEF RemoteClose, SocketDrains, Connect, Disconnect, InlineEnds
<1>2. KeepsSegments(group) /\ group \in Seq(Group)
  BY FieldsKeepSegments DEF MainOK
<1>3. OwnersMove /\ StagedMove /\ \A t \in Tx : Asked(t) => tx'[t].state # "new"
  <2>1. CASE ConnectionEnds(group)
    BY <1>2, <2>1, EndsOwned
  <2>2. CASE CloseSocket(group, flush)
    BY <1>2, <2>2, CloseOwned
  <2>3. CASE UNCHANGED <<op, tx>> /\ conn'.epoch = conn.epoch /\ KeepsSegments(group')
    BY <2>3, SameOwners, NothingStaged
  <2>4. CASE Connect \/ InlineEnds \/ (SocketDrains /\ ~ConnectionEnds(group))
    <3>1. conn'.epoch = conn.epoch /\ UNCHANGED <<op, tx, group>>
      BY <2>4 DEF Connect, InlineEnds, SocketDrains, MainOK, ConnType
    <3>2. KeepsSegments(group')
      BY <1>2, <3>1
    <3> QED BY <2>3, <3>1, <3>2
  <2>5. CASE Disconnect /\ ~CloseSocket(group, flush)
    <3>1. /\ conn'.epoch = conn.epoch /\ UNCHANGED <<op, tx>>
          /\ group' = [group EXCEPT ![queue[Len(queue)]].closes = TRUE]
      BY <2>5 DEF Disconnect, MainOK, ConnType
    <3>2. KeepsSegments(group')
      BY <3>1, FieldsKeepSegments
    <3> QED BY <2>3, <3>1, <3>2
  <2> QED BY <2>1, <2>2, <2>4, <2>5 DEF RemoteClose
<1>4. WaitMove
  BY <1>1, <1>3, WaitsKept
<1> QED BY <1>1, <1>3, <1>4 DEF Owners, LogMove

LEMMA CallbackOwners ==
  ASSUME MainOK, RestOK, LogOK, Owned, NEW o \in Op, Begin(o) \/ End(o)
  PROVE  Owners
<1>1. UNCHANGED <<conn, tx, deciding, pending, settling, log>>
  BY DEF Begin, End
<1>2. /\ \A p \in Op : op[p] \in OpRecord
      /\ group \in Seq(Group) /\ \A i \in 1..Len(group) : group[i] \in Group
  BY DEF MainOK, OpTable
<1>3. OwnersMove
  <2>1. CASE Begin(o)
    <3>1. /\ op[o].state = "idle"
          /\ \E r : r.state = "running" /\ op' = [op EXCEPT ![o] = r]
      BY <2>1 DEF Begin
    <3>2. op'[o].state = "running" /\ \A p \in Op : p # o => op'[p] = op[p]
      BY <3>1 DEF MainOK, OpTable
    <3> QED BY <1>1, <3>1, <3>2 DEF OwnersMove, Asked
  <2>2. CASE End(o)
    <3>1. op' = [op EXCEPT ![o].state = "ended"]
      BY <2>2 DEF End
    <3>2. \A p \in Op : op'[p].epoch = op[p].epoch /\ (op[p].state # "idle" => op'[p].state # "idle")
      BY <1>2, <3>1 DEF MainOK, OpTable, OpRecord
    <3> QED BY <1>1, <3>2 DEF OwnersMove, Asked
  <2> QED BY <2>1, <2>2
<1>4. KeepsSegments(group')
  <2>1. CASE Begin(o)
    <3>1. PICK g : group' = IF g = 0 THEN group ELSE [group EXCEPT ![g].retain = @ + 1]
      BY <2>1 DEF Begin
    <3>2. CASE g \in 1..Len(group)
      <4>1. group[g] \in Group
        BY <1>2, <3>2
      <4>2. group[g].retain + 1 \in Nat
        BY <4>1 DEF Group
      <4>3. group' = [group EXCEPT ![g].retain = group[g].retain + 1] \/ group' = group
        BY <3>1
      <4> QED BY <4>2, <4>3, FieldsKeepSegments
    <3>3. CASE g \notin 1..Len(group)
      <4>1. group' = group
        BY <1>2, <3>1, <3>3
      <4> QED BY <4>1, FieldsKeepSegments
    <3> QED BY <3>2, <3>3
  <2>2. CASE End(o)
    <3>1. group' \in {group, Released(group, op[o].group)}
      BY <2>2 DEF End
    <3> QED BY <3>1, FieldsKeepSegments
  <2> QED BY <2>1, <2>2
<1>5. StagedMove
  BY <1>1, <1>4, NothingStaged DEF Staged
<1>6. WaitMove
  BY <1>1, WaitsKept DEF Asked
<1> QED BY <1>1, <1>3, <1>5, <1>6 DEF Owners, LogMove

LEMMA SendRawOwners ==
  ASSUME MainOK, RestOK, LogOK, Owned, NEW o \in Op, NEW t \in Tx, SendRaw(o, t)
  PROVE  Owners
<1>1. /\ UNCHANGED <<conn, deciding, pending, settling, log>>
      /\ op[o].state # "idle" /\ ~Asked(t)
  BY DEF SendRaw, Asked
<1>2. \A u \in Tx : tx[u] \in TxRecord
  BY DEF MainOK, TxTable
<1>3. OwnersMove /\ StagedMove /\ \A u \in Tx : Asked(u) => tx'[u].state # "new"
  <2>1. CASE /\ tx' = [tx EXCEPT ![t] = [@ EXCEPT !.state = "rejected", !.op = o]]
             /\ UNCHANGED <<op, group, queue, flush, asked>>
    <3>1. tx' = [tx EXCEPT ![t].state = "rejected", ![t].op = o]
      BY <1>2, <2>1 DEF MainOK, TxTable, TxRecord
    <3>2. \A p \in Op : op'[p].epoch = op[p].epoch /\ (op[p].state # "idle" => op'[p].state # "idle")
      BY <2>1
    <3>3. /\ OwnersMove
          /\ \A u \in Tx : (Asked(u) => tx'[u].state # "new") /\ (tx'[u].state = "staged" => Staged(u))
      <4>1. "rejected" \notin {"new", "staged"}
        OBVIOUS
      <4>2. \E p \in Op : /\ op[p].state # "idle" /\ (Asked(t) => tx[t].op = p)
                          /\ tx' = [tx EXCEPT ![t].state = "rejected", ![t].op = p]
        BY <1>1, <3>1
      <4> HIDE DEF Asked
      <4> QED BY <3>2, <4>1, <4>2, OneSend
    <3>4. KeepsSegments(group') /\ conn'.epoch = conn.epoch
      <4>1. KeepsSegments(group)
        BY FieldsKeepSegments
      <4> QED BY <1>1, <2>1, <4>1
    <3> QED BY <3>3, <3>4, NothingStaged
  <2>2. CASE Transmit(op, o, t) /\ ~ContextRejected(o)
    <3>1. Of(op, o, conn.epoch)
      BY <2>2 DEF ContextRejected, Of
    <3> QED BY <1>1, <2>2, <3>1, TransmitOwned DEF MainOK
  <2> QED BY <2>1, <2>2 DEF SendRaw
<1>4. WaitMove
  BY <1>1, <1>3, WaitsKept
<1> QED BY <1>1, <1>3, <1>4 DEF Owners, LogMove

LEMMA SendOwners ==
  ASSUME MainOK, RestOK, LogOK, Owned, NEW o \in Op, NEW t \in Tx, Send(o, t)
  PROVE  Owners
<1>1. /\ UNCHANGED <<conn, settling, log>> /\ DoSend(o, t)
      /\ op[o].state # "idle" /\ ~Asked(t)
      /\ pending' \in {pending, Append(pending, t)}
  BY DEF Send, Asked
<1>2. /\ OwnersMove /\ StagedMove
      /\ \A u \in Tx : (Asked(u) => tx'[u].state # "new")
      /\ tx'[t].state # "new" /\ deciding' \in {deciding, t}
  BY <1>1, DoSendOwned
<1>3. /\ pending \in Seq(Tx) /\ deciding \in Tx \cup {None}
      /\ \A i \in 1..Len(pending) : pending[i] \in Tx /\ Asked(pending[i])
      /\ deciding # None => Asked(deciding)
      /\ settling \in Tx \cup {None} /\ (settling # None => Asked(settling))
  BY DEF RestOK, Owned
<1>4. \A i \in 1..Len(pending') : tx'[pending'[i]].state # "new"
  <2>1. CASE pending' = pending
    BY <1>2, <1>3, <2>1
  <2>2. CASE pending' = Append(pending, t)
    <3>1. \A i \in 1..Len(pending') : pending'[i] = t \/ (i \in 1..Len(pending) /\ pending'[i] = pending[i])
      BY <1>3, <2>2
    <3> QED BY <1>2, <1>3, <3>1
  <2> QED BY <1>1, <2>1, <2>2
<1>5. /\ deciding' # None => tx'[deciding'].state # "new"
      /\ settling' # None => tx'[settling'].state # "new"
  BY <1>1, <1>2, <1>3
<1> QED BY <1>1, <1>2, <1>4, <1>5 DEF Owners, LogMove, WaitMove

LEMMA DrainSendOwners ==
  ASSUME MainOK, RestOK, LogOK, Owned, DrainSend
  PROVE  Owners
<1> DEFINE t == Head(pending)
           o == tx[t].op
<1>1. /\ UNCHANGED <<conn, settling, log>> /\ DoSend(o, t)
      /\ pending' = Tail(pending) /\ pending # <<>>
  BY DEF DrainSend, Draining
<1>2. /\ pending \in Seq(Tx) /\ deciding \in Tx \cup {None}
      /\ \A i \in 1..Len(pending) : pending[i] \in Tx /\ Asked(pending[i])
      /\ deciding # None => Asked(deciding)
      /\ settling \in Tx \cup {None} /\ (settling # None => Asked(settling))
  BY DEF RestOK, Owned
<1>3. t \in Tx /\ Asked(t)
  BY <1>1, <1>2
<1>4. o \in Op /\ op[o].state # "idle"
  BY <1>3 DEF Owned
<1>5. /\ OwnersMove /\ StagedMove
      /\ \A u \in Tx : (Asked(u) => tx'[u].state # "new")
      /\ tx'[t].state # "new" /\ deciding' \in {deciding, t}
  BY <1>1, <1>3, <1>4, DoSendOwned
<1>6. \A i \in 1..Len(pending') : tx'[pending'[i]].state # "new"
  <2>1. \A i \in 1..Len(pending') : pending'[i] = pending[i + 1] /\ i + 1 \in 1..Len(pending)
    BY <1>1, <1>2
  <2> QED BY <1>2, <1>5, <2>1
<1>7. /\ deciding' # None => tx'[deciding'].state # "new"
      /\ settling' # None => tx'[settling'].state # "new"
  BY <1>1, <1>2, <1>5
<1> QED BY <1>1, <1>5, <1>6, <1>7 DEF Owners, LogMove, WaitMove

LEMMA DecideOwners ==
  ASSUME MainOK, RestOK, LogOK, Owned, Decide
  PROVE  Owners
<1> DEFINE t == deciding
           o == tx[t].op
<1>1. /\ UNCHANGED <<conn, log, pending, settling>> /\ deciding' = None /\ t \in Tx
  BY DEF Decide, RestOK
<1>2. Asked(t) /\ o \in Op /\ op[o].state # "idle"
  BY <1>1 DEF Owned, RestOK, Decide
<1>3. OwnersMove /\ StagedMove /\ \A u \in Tx : Asked(u) => tx'[u].state # "new"
  <2>1. CASE ~ContextRejected(o) /\ StartSend(o, t)
    <3>1. Of(op, o, conn.epoch)
      BY <2>1 DEF ContextRejected, Of
    <3>2. Transmit(Waits(o), o, t)
      BY <2>1 DEF StartSend
    <3>3. Waits(o) \in OpTable
      BY <1>2, OpTypes DEF Waits, MainOK
    <3>4. \A p \in Op : /\ Waits(o)[p].epoch = op[p].epoch
                        /\ op[p].state # "idle" => Waits(o)[p].state # "idle"
      BY DEF Waits, MainOK, OpTable, OpRecord
    <3> QED BY <1>1, <1>2, <3>1, <3>2, <3>3, <3>4, TransmitOwned
  <2>2. CASE /\ tx' = [tx EXCEPT ![t].state = "rejected"] /\ op' = Resumed(op, o)
             /\ UNCHANGED <<group, queue, flush, slot>>
    <3>1. \A p \in Op : op'[p].epoch = op[p].epoch /\ (op[p].state # "idle" => op'[p].state # "idle")
      BY <2>2, StoppedOwners DEF MainOK
    <3>2. /\ OwnersMove
          /\ \A u \in Tx : (Asked(u) => tx'[u].state # "new") /\ (tx'[u].state = "staged" => Staged(u))
      <4>1. "rejected" \notin {"new", "staged"}
        OBVIOUS
      <4>2. tx' = [tx EXCEPT ![t].state = "rejected"] /\ Asked(t) /\ t \in Tx
        BY <1>1, <1>2, <2>2
      <4> HIDE DEF t, o
      <4> QED BY <3>1, <4>1, <4>2, OneSend
    <3>3. KeepsSegments(group') /\ conn'.epoch = conn.epoch
      <4>1. KeepsSegments(group)
        BY FieldsKeepSegments
      <4> QED BY <1>1, <2>2, <4>1
    <3> QED BY <3>2, <3>3, NothingStaged
  <2> QED BY <2>1, <2>2 DEF Decide
<1>4. WaitMove
  BY <1>1, <1>3, WaitsKept
<1> QED BY <1>1, <1>3, <1>4 DEF Owners, LogMove

LEMMA NotificationOwners ==
  ASSUME MainOK, RestOK, LogOK, Owned, NotificationCompletes \/ NotificationEnds
  PROVE  Owners
<1>1. PICK t \in Tx, s \in {"settled", "done"} :
        /\ Asked(t) /\ tx' = [tx EXCEPT ![t].state = s]
        /\ settling' \in {t, None}
  <2>1. CASE NotificationCompletes
    <3>1. slot \in Tx /\ Asked(slot) /\ tx' = [tx EXCEPT ![slot].state = "settled"] /\ settling' = slot
      BY <2>1 DEF NotificationCompletes, MainOK, Asked
    <3> QED BY <3>1
  <2>2. CASE NotificationEnds
    <3>1. settling \in Tx /\ Asked(settling) /\ tx' = [tx EXCEPT ![settling].state = "done"] /\ settling' = None
      BY <2>2 DEF NotificationEnds, RestOK, Owned
    <3> QED BY <3>1
  <2> QED BY <2>1, <2>2
<1>2. \A p \in Op : op'[p].epoch = op[p].epoch /\ (op[p].state # "idle" => op'[p].state # "idle")
  <2>1. op' = op \/ \E p : op' = Resumed(op, p)
    BY DEF NotificationCompletes, NotificationEnds
  <2> QED BY <2>1, StoppedOwners DEF MainOK
<1>3. /\ OwnersMove
      /\ \A u \in Tx : (Asked(u) => tx'[u].state # "new") /\ (tx'[u].state = "staged" => Staged(u))
      /\ tx'[t].state # "new"
  <2>1. s \notin {"new", "staged"}
    BY <1>1
  <2> QED BY <1>1, <1>2, <2>1, OneSend
<1>4. UNCHANGED <<conn, deciding, pending, log>>
  BY DEF NotificationCompletes, NotificationEnds
<1>5. KeepsSegments(group')
  <2>1. group' = group \/ \E g : group' = [group EXCEPT ![g].note = FALSE]
    BY DEF NotificationCompletes, NotificationEnds
  <2> QED BY <2>1, FieldsKeepSegments
<1>6. StagedMove
  BY <1>3, <1>4, <1>5, NothingStaged
<1>7. /\ deciding' # None => tx'[deciding'].state # "new"
      /\ \A i \in 1..Len(pending') : tx'[pending'[i]].state # "new"
  <2>1. /\ pending \in Seq(Tx) /\ deciding \in Tx \cup {None}
        /\ \A i \in 1..Len(pending) : pending[i] \in Tx /\ Asked(pending[i])
        /\ deciding # None => Asked(deciding)
    BY DEF RestOK, Owned
  <2> QED BY <1>3, <1>4, <2>1
<1>8. settling' # None => tx'[settling'].state # "new"
  BY <1>1, <1>3
<1>9. WaitMove
  BY <1>7, <1>8 DEF WaitMove
<1> QED BY <1>3, <1>4, <1>6, <1>9 DEF Owners, LogMove

LEMMA FlushOwners ==
  ASSUME MainOK, RestOK, LogOK, Owned,
         FlushPop \/ FlushReturns \/ FlushFinishes \/ FlushGoesOn
  PROVE  Owners
<1>1. UNCHANGED <<deciding, pending, settling, log>>
  BY DEF FlushPop, FlushReturns, FlushFinishes, FlushGoesOn
<1>2. KeepsSegments(group) /\ group \in Seq(Group) /\ \A i \in 1..Len(group) : group[i] \in Group
  BY FieldsKeepSegments DEF MainOK
<1>3. OwnersMove /\ StagedMove /\ \A t \in Tx : Asked(t) => tx'[t].state # "new"
  <2>1. CASE CloseSocket(group, Idle)
    BY <1>2, <2>1, CloseOwned
  <2>2. CASE UNCHANGED <<conn, op, tx>> /\ AddsNothing(group')
    BY <2>2, SameOwners, NothingAdded
  <2>3. CASE UNCHANGED <<conn, op, tx, group>>
    <3>1. AddsNothing(group')
      BY <2>3 DEF AddsNothing
    <3> QED BY <2>2, <2>3, <3>1
  <2>4. CASE FlushPop
    <3> DEFINE g == flush.group
    <3>1. UNCHANGED <<conn, op, tx>> /\ group' = [group EXCEPT ![g].segments = Tail(@)]
      BY <2>4 DEF FlushPop
    <3>2. Len(group') = Len(group)
      BY <1>2, <3>1
    <3>3. ASSUME NEW i \in 1..Len(group'), NEW t \in Tx, InGroup(group'[i], t)
          PROVE  InGroup(group[i], t)
      <4>1. CASE i # g
        <5>1. group'[i] = group[i]
          BY <1>2, <3>1, <3>2, <4>1
        <5> QED BY <3>3, <5>1
      <4>2. CASE i = g
        <5> DEFINE S == group[i].segments
        <5>1. group[i] \in Group
          BY <1>2, <3>2
        <5>2. S \in Seq(Segment) /\ group'[i].segments = Tail(S)
          BY <1>2, <3>1, <3>2, <4>2, <5>1 DEF Group
        <5>3. S # <<>>
          BY <2>4, <4>2 DEF FlushPop, MayWrite
        <5>4. \A j \in 1..Len(Tail(S)) : Tail(S)[j] = S[j + 1] /\ j + 1 \in 1..Len(S)
          BY <5>2, <5>3
        <5>5. PICK j \in 1..Len(Tail(S)) : \E k \in 1..Len(Tail(S)[j].txs) : Tail(S)[j].txs[k] = t
          BY <3>3, <5>2 DEF InGroup
        <5>6. \E k \in 1..Len(S[j + 1].txs) : S[j + 1].txs[k] = t
          BY <5>4, <5>5
        <5> QED BY <5>4, <5>6 DEF InGroup
      <4> QED BY <4>1, <4>2
    <3> QED BY <2>2, <3>1, <3>2, <3>3 DEF AddsNothing
  <2>5. CASE FlushFinishes
    <3>1. UNCHANGED <<conn, op, tx>> /\ group' = [group EXCEPT ![flush.group].finished = TRUE]
      BY <2>5 DEF FlushFinishes
    <3>2. KeepsSegments(group')
      BY <3>1, FieldsKeepSegments
    <3>3. AddsNothing(group')
      BY <3>2 DEF KeepsSegments, AddsNothing, InGroup
    <3> QED BY <2>2, <3>1, <3>3
  <2>6. CASE FlushReturns
    BY <2>3, <2>6 DEF FlushReturns
  <2>7. CASE FlushGoesOn
    BY <2>1, <2>3, <2>7 DEF FlushGoesOn
  <2> QED BY <2>4, <2>5, <2>6, <2>7
<1>4. WaitMove
  BY <1>1, <1>3, WaitsKept
<1> QED BY <1>1, <1>3, <1>4 DEF Owners, LogMove

LEMMA RecordOwners ==
  ASSUME MainOK, RestOK, LogOK, Owned, PublishRecord \/ PublicationCompletes
  PROVE  Owners
<1>1. UNCHANGED <<deciding, pending, settling, log>>
  BY DEF PublishRecord, PublicationCompletes
<1>2. ASSUME NEW r \in Record, Published(r)
      PROVE  OwnersMove /\ StagedMove /\ \A t \in Tx : Asked(t) => tx'[t].state # "new"
  <2> DEFINE gs == IF r.group = 0 THEN group ELSE [group EXCEPT ![r.group].records = @ - 1]
  <2>1. KeepsSegments(gs)
    <3>1. group \in Seq(Group)
      BY DEF MainOK
    <3>2. CASE r.group \in 1..Len(group)
      <4>1. group[r.group] \in Group
        BY <3>1, <3>2
      <4>2. group[r.group].records - 1 \in Int
        BY <4>1 DEF Group
      <4>3. gs = group \/ gs = [group EXCEPT ![r.group].records = group[r.group].records - 1]
        OBVIOUS
      <4> HIDE DEF gs
      <4> QED BY <4>2, <4>3, FieldsKeepSegments
    <3>3. CASE r.group \notin 1..Len(group)
      <4>1. gs = group
        BY <3>1, <3>3
      <4> HIDE DEF gs
      <4> QED BY <4>1, FieldsKeepSegments
    <3> QED BY <3>2, <3>3
  <2>2. CloseSocket(gs, flush) \/ (group' = gs /\ UNCHANGED <<conn, op, tx>>)
    BY <1>2 DEF Published
  <2> HIDE DEF gs
  <2>3. CASE CloseSocket(gs, flush)
    BY <2>1, <2>3, CloseOwned
  <2>4. CASE group' = gs /\ UNCHANGED <<conn, op, tx>>
    BY <2>1, <2>4, SameOwners, NothingStaged
  <2> QED BY <2>2, <2>3, <2>4
<1>3. CASE UNCHANGED <<conn, op, tx, group>>
  <2>1. KeepsSegments(group)
    BY FieldsKeepSegments
  <2>2. KeepsSegments(group')
    BY <1>3, <2>1
  <2>3. OwnersMove /\ StagedMove /\ \A t \in Tx : Asked(t) => tx'[t].state # "new"
    BY <1>3, <2>2, SameOwners, NothingStaged
  <2> QED BY <1>1, <2>3, WaitsKept DEF Owners, LogMove
<1>4. CASE \E r \in Record : Published(r)
  BY <1>1, <1>2, <1>4, WaitsKept DEF Owners, LogMove
<1>5. PublishRecord => records # <<>> /\ records \in Seq(Record) /\ Head(records) \in Record
  BY DEF PublishRecord, Drainable, RestOK
<1>6. PublicationCompletes => publishing \in Record
  BY DEF PublicationCompletes, RestOK
<1> QED BY <1>3, <1>4, <1>5, <1>6 DEF PublishRecord, PublicationCompletes

-----------------------------------------------------------------------------
(* The writes: what is written has its owner's connection. *)

LEMMA AcceptedOwned ==
  ASSUME MainOK, LogOK, Owned, NEW t \in Tx, NEW g \in Nat, NEW gs \in Seq(Group), AddsNothing(gs),
         Current(t), Accepted(t, g, gs)
  PROVE  /\ OwnersMove /\ StagedMove /\ LogMove /\ \A u \in Tx : Asked(u) => tx'[u].state # "new"
<1>1. /\ conn' = [conn EXCEPT !.buffer = Append(@, t)]
      /\ log' = Append(log, [tx |-> t, group |-> g, epoch |-> conn.epoch])
      /\ tx' = [tx EXCEPT ![t].state = IF t \in Command THEN "written" ELSE "done"]
      /\ group' = gs \/ group' = [gs EXCEPT ![g].note = t \in Command,
                                            ![g].records = IF PacketDebug THEN @ + 1 ELSE @]
      /\ UNCHANGED <<op, slot>>
  BY DEF Accepted
<1>2. PICK s \in {"written", "done"} : tx' = [tx EXCEPT ![t].state = s]
  BY <1>1
<1>3. /\ OwnersMove
      /\ \A u \in Tx : (Asked(u) => tx'[u].state # "new") /\ (tx'[u].state = "staged" => Staged(u))
  <2>1. s \notin {"new", "staged"} /\ Asked(t)
    BY DEF Current
  <2>2. \A p \in Op : op'[p].epoch = op[p].epoch /\ (op[p].state # "idle" => op'[p].state # "idle")
    BY <1>1
  <2> QED BY <1>2, <2>1, <2>2, OneSend
<1>4. conn'.epoch = conn.epoch /\ conn.epoch \in Nat
  BY <1>1 DEF MainOK, ConnType
<1>5. AddsNothing(group')
  <2>1. \A i \in 1..Len(gs) : gs[i] \in Group
    OBVIOUS
  <2>2. CASE group' = gs
    BY <2>2
  <2>3. CASE group' = [gs EXCEPT ![g].note = t \in Command,
                                 ![g].records = IF PacketDebug THEN @ + 1 ELSE @]
    <3>1. Len(group') = Len(gs)
      BY <2>3
    <3>2. \A i \in 1..Len(gs) : group'[i].segments = gs[i].segments
      BY <2>1, <2>3 DEF Group
    <3>3. \A i \in 1..Len(gs), u \in Tx : InGroup(group'[i], u) => InGroup(gs[i], u)
      BY <3>2 DEF InGroup
    <3> QED BY <3>1, <3>3 DEF AddsNothing
  <2> QED BY <1>1, <2>2, <2>3
<1>6. StagedMove
  BY <1>3, <1>4, <1>5, NothingAdded
<1>7. LogMove
  <2> DEFINE e == [tx |-> t, group |-> g, epoch |-> conn.epoch]
  <2>1. e \in LogEntry /\ e.tx = t /\ e.epoch = conn.epoch
    BY <1>4 DEF LogEntry
  <2>2. Of(op', tx[t].op, conn.epoch)
    BY <1>1 DEF Current, Of
  <2> QED BY <1>1, <2>1, <2>2 DEF LogMove
<1> QED BY <1>3, <1>6, <1>7

LEMMA FailedOwned ==
  ASSUME MainOK, NEW t \in Tx, NEW gs, AddsNothing(gs), Asked(t), Failed(t, gs)
  PROVE  /\ OwnersMove /\ StagedMove /\ LogMove /\ \A u \in Tx : Asked(u) => tx'[u].state # "new"
<1>1. /\ tx' = [tx EXCEPT ![t].state = "rejected"]
      /\ group' = gs /\ UNCHANGED <<conn, log>>
      /\ op' = op \/ op' = Stopped(op, tx[t].op)
  BY DEF Failed
<1>2. \A p \in Op : op'[p].epoch = op[p].epoch /\ (op[p].state # "idle" => op'[p].state # "idle")
  BY <1>1, StoppedOwners DEF MainOK
<1>3. /\ OwnersMove
      /\ \A u \in Tx : (Asked(u) => tx'[u].state # "new") /\ (tx'[u].state = "staged" => Staged(u))
  <2>1. "rejected" \notin {"new", "staged"}
    OBVIOUS
  <2> QED BY <1>1, <1>2, <2>1, OneSend
<1>4. StagedMove
  BY <1>1, <1>3, NothingAdded
<1> QED BY <1>1, <1>3, <1>4 DEF LogMove

LEMMA TelnetOwned ==
  ASSUME MainOK, TelnetFails
  PROVE  /\ OwnersMove /\ StagedMove /\ LogMove /\ \A u \in Tx : Asked(u) => tx'[u].state # "new"
<1>1. group \in Seq(Group) /\ ConnectionEnds(group) /\ log' = log
  BY DEF MainOK, TelnetFails
<1> QED BY <1>1, EndsOwned DEF LogMove

LEMMA WriteDirectOwners ==
  ASSUME MainOK, RestOK, LogOK, Owned, WriteDirect
  PROVE  Owners
<1>1. UNCHANGED <<deciding, pending, settling>>
  BY DEF WriteDirect
<1>2. AddsNothing(group) /\ group \in Seq(Group)
  BY DEF AddsNothing, MainOK
<1>3. PICK t \in Tx : Staged(t) /\ (Accepted(t, 0, group) \/ Failed(t, group) \/ TelnetFails)
  BY DEF WriteDirect
<1>4. Current(t) /\ Asked(t)
  BY <1>3 DEF Owned, Current
<1>5. /\ OwnersMove /\ StagedMove /\ LogMove /\ \A u \in Tx : Asked(u) => tx'[u].state # "new"
  BY <1>2, <1>3, <1>4, AcceptedOwned, FailedOwned, TelnetOwned
<1> QED BY <1>1, <1>5, WaitsKept DEF Owners

LEMMA FlushWriteOwners ==
  ASSUME MainOK, RestOK, LogOK, Order, Owned, FlushWrite
  PROVE  Owners
<1> DEFINE g == flush.group
           S == group[g].segments
           t == Head(S[1].txs)
           rest == [S EXCEPT ![1] = [S[1] EXCEPT !.txs = Tail(S[1].txs)]]
           gs == [group EXCEPT ![g].segments[1].txs = Tail(@)]
<1>1. /\ flush.stage = "write" /\ S # <<>> /\ S[1].txs # <<>>
      /\ Accepted(t, g, gs) \/ Failed(t, gs) \/ TelnetFails
      /\ UNCHANGED <<deciding, pending, settling>>
  BY DEF FlushWrite, Writing, MayWrite, FirstSegment
<1>2. g \in 1..Len(group) /\ g \in Nat
  BY <1>1 DEF Order, WritesFirst, Ascending, MainOK
<1>3. group[g] \in Group /\ group \in Seq(Group)
  BY <1>2 DEF MainOK
<1>4. S \in Seq(Segment) /\ 1 \in 1..Len(S)
  <2>1. S \in Seq(Segment)
    BY <1>3 DEF Group
  <2> QED BY <1>1, <2>1
<1>5. S[1] \in Segment
  BY <1>4
<1>6. S[1].txs \in Seq(Tx)
  BY <1>5 DEF Segment
<1>7. t \in Tx /\ Tail(S[1].txs) \in Seq(Tx) /\ 1 \in 1..Len(S[1].txs) /\ S[1].txs[1] = t
  BY <1>1, <1>6
<1>8. [S[1] EXCEPT !.txs = Tail(S[1].txs)] \in Segment
  BY <1>5, <1>7 DEF Segment
<1>9. rest \in Seq(Segment) /\ Len(rest) = Len(S)
  BY <1>4, <1>8, ReplaceInSeq
<1>10. gs = [group EXCEPT ![g].segments = rest]
  BY <1>3, <1>4, <1>5 DEF Group, Segment
<1>11. gs \in Seq(Group) /\ Len(gs) = Len(group)
  <2> HIDE DEF rest, gs
  <2> QED BY <1>3, <1>9, <1>10, FieldTypes
<1>12. ASSUME NEW j \in 1..Len(rest), NEW k \in 1..Len(rest[j].txs)
       PROVE  \E m \in 1..Len(S[j].txs) : S[j].txs[m] = rest[j].txs[k]
  <2>1. CASE j = 1
    <3>1. rest[j].txs = Tail(S[1].txs)
      BY <1>4, <1>5, <2>1 DEF Segment
    <3> DEFINE X == S[1].txs
    <3>a. X \in Seq(Tx) /\ X # <<>> /\ k \in 1..Len(Tail(X))
      BY <1>1, <1>6, <1>12, <2>1, <3>1
    <3> HIDE DEF X
    <3>b. Tail(X)[k] = X[k + 1] /\ k + 1 \in 1..Len(X)
      BY <3>a
    <3>2. Tail(S[1].txs)[k] = S[1].txs[k + 1] /\ k + 1 \in 1..Len(S[1].txs)
      BY <3>b DEF X
    <3> QED BY <2>1, <3>1, <3>2
  <2>2. CASE j # 1
    <3>1. rest[j] = S[j]
      BY <1>4, <1>9, <1>12, <2>2
    <3> QED BY <1>12, <3>1
  <2> QED BY <2>1, <2>2
<1> HIDE DEF rest
<1>13. ASSUME NEW i \in 1..Len(gs), NEW u \in Tx, InGroup(gs[i], u)
       PROVE  InGroup(group[i], u)
  <2>1. CASE i # g
    <3>1. gs[i] = group[i]
      BY <1>3, <1>10, <1>11, <2>1
    <3> QED BY <1>13, <3>1
  <2>2. CASE i = g
    <3>1. gs[i].segments = rest
      BY <1>2, <1>3, <1>10, <2>2 DEF Group
    <3> HIDE DEF gs
    <3>2. PICK j \in 1..Len(rest) : \E k \in 1..Len(rest[j].txs) : rest[j].txs[k] = u
      BY <1>13, <3>1 DEF InGroup
    <3>3. j \in 1..Len(S) /\ \E m \in 1..Len(S[j].txs) : S[j].txs[m] = u
      BY <1>9, <1>12, <3>2
    <3> QED BY <2>2, <3>3 DEF InGroup
  <2> QED BY <2>1, <2>2
<1>14. InGroup(group[g], t)
  BY <1>4, <1>7 DEF InGroup
<1>15. Current(t) /\ Asked(t)
  BY <1>2, <1>7, <1>14 DEF Owned, Current
<1> HIDE DEF gs, t, g
<1>16. AddsNothing(gs)
  BY <1>11, <1>13 DEF AddsNothing
<1>17. /\ OwnersMove /\ StagedMove /\ LogMove /\ \A u \in Tx : Asked(u) => tx'[u].state # "new"
  BY <1>1, <1>2, <1>7, <1>11, <1>15, <1>16, AcceptedOwned, FailedOwned, TelnetOwned
<1> QED BY <1>1, <1>17, WaitsKept DEF Owners

-----------------------------------------------------------------------------
(* The invariant and what follows from it. *)

IInv == TypeOK /\ Order /\ Owned

LEMMA InitOK == Init => IInv
<1> SUFFICES ASSUME Init PROVE IInv
  OBVIOUS
<1>1. MainOK
  <2>1. <<>> \in Seq(Tx) /\ <<>> \in Seq(Group) /\ <<>> \in Seq(Nat)
    BY EmptyInSeq
  <2> QED BY <2>1 DEF Init, MainOK, ConnType, OpTable, OpRecord, TxTable, TxRecord, FlushType, Idle
<1>2. RestOK /\ LogOK
  BY EmptyInSeq DEF Init, RestOK, LogOK
<1>3. Len(group) = 0 /\ Len(queue) = 0 /\ Len(log) = 0 /\ Len(pending) = 0
  BY DEF Init
<1>4. Order
  BY <1>3 DEF Init, Idle, Order, Ascending, WritesFirst, LogIsOlder, CausalOrder
<1>5. \A t \in Tx : ~Asked(t) /\ ~Staged(t)
  BY DEF Init, Asked, Staged
<1>6. \A i \in 1..Len(group) : FALSE
  BY <1>3
<1>7. Owned
  BY <1>3, <1>5, <1>6 DEF Init, Owned
<1> QED BY <1>1, <1>2, <1>4, <1>7, TypeParts DEF IInv

\* Every action keeps the types, orders the queue and the log, and respects the owners.
LEMMA ActionOK ==
  ASSUME MainOK, RestOK, LogOK, Order, Owned, Next
  PROVE  MainOK' /\ RestOK' /\ LogOK' /\ QueueMoves /\ Logs /\ Owners
<1>1. CASE DrainSend
  <2>1. tx[Head(pending)].op \in Op
    <3>1. pending # <<>> /\ pending \in Seq(Tx)
      BY <1>1 DEF DrainSend, Draining, RestOK
    <3>2. Head(pending) \in Tx /\ Asked(Head(pending))
      BY <3>1 DEF Owned
    <3> QED BY <3>2 DEF Owned
  <2> QED BY <1>1, <2>1, DrainSendTypes, DrainSendOwners
<1>2. CASE Decide
  <2>1. deciding \in Tx /\ Asked(deciding)
    BY <1>2 DEF Decide, RestOK, Owned
  <2>2. tx[deciding].op \in Op
    BY <2>1 DEF Owned
  <2> QED BY <1>2, <2>2, DecideTypes, DecideOwners
<1>3. CASE NotificationCompletes \/ NotificationEnds
  BY <1>3, NotificationTypes, NotificationOwners
<1>4. CASE RemoteClose \/ SocketDrains \/ Connect \/ Disconnect \/ InlineEnds
  BY <1>4, ConnectionTypes, ConnectionOwners
<1>5. CASE WriteDirect
  BY <1>5, WriteDirectTypes, WriteDirectOwners
<1>6. CASE FlushWrite
  BY <1>6, FlushWriteTypes, FlushWriteOwners
<1>7. CASE FlushPop \/ FlushReturns \/ FlushFinishes \/ FlushGoesOn
  BY <1>7, FlushTypesStep, FlushOwners
<1>8. CASE PublishRecord \/ PublicationCompletes
  BY <1>8, RecordTypes, RecordOwners
<1>9. ASSUME NEW o \in Op, Begin(o) \/ End(o)
      PROVE  MainOK' /\ RestOK' /\ LogOK' /\ QueueMoves /\ Logs /\ Owners
  BY <1>9, BeginTypes, EndTypes, CallbackOwners
<1>10. ASSUME NEW o \in Op, NEW t \in Tx, SendRaw(o, t) \/ Send(o, t)
       PROVE  MainOK' /\ RestOK' /\ LogOK' /\ QueueMoves /\ Logs /\ Owners
  BY <1>10, SendRawTypes, SendRawOwners, SendTypes, SendOwners
<1> QED BY <1>1, <1>2, <1>3, <1>4, <1>5, <1>6, <1>7, <1>8, <1>9, <1>10 DEF Next, Working

LEMMA StepOK == IInv /\ [Next]_vars => IInv'
<1> SUFFICES ASSUME IInv, [Next]_vars PROVE IInv'
  OBVIOUS
<1>1. MainOK /\ RestOK /\ LogOK /\ Order /\ Owned
  BY TypeParts DEF IInv
<1>2. CASE Next
  <2>1. MainOK' /\ RestOK' /\ LogOK' /\ QueueMoves /\ Logs /\ Owners
    BY <1>1, <1>2, ActionOK
  <2>2. Order'
    BY <1>1, <2>1, OrderStep
  <2>3. Owned'
    BY <1>1, <2>1, OwnedStep DEF Owners
  <2>4. (TypeOK <=> MainOK /\ RestOK /\ LogOK)'
    BY TypeParts, PTL
  <2> QED BY <2>1, <2>2, <2>3, <2>4 DEF IInv
<1>3. CASE UNCHANGED vars
  <2>1. UNCHANGED TypeOK
    BY <1>3 DEF vars, TypeOK
  <2>2. UNCHANGED Order
    BY <1>3 DEF vars, Order, Ascending, WritesFirst, LogIsOlder, CausalOrder
  <2>3. UNCHANGED Owned
    BY <1>3 DEF vars, Owned, InGroup, Asked, Current, Staged, Of
  <2> QED BY <2>1, <2>2, <2>3 DEF IInv
<1> QED BY <1>2, <1>3

LEMMA Invariant == Spec => []IInv
BY InitOK, StepOK, PTL DEF Spec

(* The tables of sends, callbacks and groups, the queues, the flush and    *)
(* the history keep their types through every action.                      *)
THEOREM TypeCorrect == Spec => []TypeOK
<1>1. IInv => TypeOK
  BY DEF IInv
<1> QED BY <1>1, Invariant, PTL

(* The queue ascends and the flush writes only its first group, so no      *)
(* write of flushCausalOutboundGroup is older than the one before it, for  *)
(* any number of callbacks, sends and connections.                         *)
THEOREM GroupsInOrder == Spec => []CausalOrder
<1>1. IInv => CausalOrder
  BY DEF IInv, Order
<1> QED BY <1>1, Invariant, PTL

(* What is staged belongs to the connection there is, and a disconnect     *)
(* rejects all of it: no write goes to a later connection than the scope   *)
(* that asked for it; a caller without a scope is of any.                  *)
THEOREM WritesOnOwnConnection == Spec => []OwnConnection
<1>1. IInv => OwnConnection
  BY DEF IInv, Owned, OwnConnection, Of
<1> QED BY <1>1, Invariant, PTL

-----------------------------------------------------------------------------
(* Places in a group: the k-th send of its a-th segment. *)

At(S, a, k, t) == a \in 1..Len(S) /\ k \in 1..Len(S[a].txs) /\ S[a].txs[k] = t

Holds(S, t) == \E a, k \in Nat : At(S, a, k, t)

Once(S) == \A t \in Tx : \A a, k, b, m \in Nat :
             At(S, a, k, t) /\ At(S, b, m, t) => a = b /\ k = m

Before(S, t, u) == \A a, k, b, m \in Nat :
                     At(S, a, k, t) /\ At(S, b, m, u) => a < b \/ (a = b /\ k < m)

\* A segment that is not sealed holds no command.
Unsealed(S) == \A a, k \in Nat, t \in Tx : At(S, a, k, t) /\ ~S[a].sealed => t \notin Command

Filed(S) == S \in Seq(Segment) /\ Once(S) /\ Unsealed(S)

LEMMA SegmentFacts ==
  ASSUME NEW S \in Seq(Segment), NEW a \in 1..Len(S)
  PROVE  S[a] \in Segment /\ S[a].txs \in Seq(Tx) /\ Len(S[a].txs) \in Nat /\ S[a].sealed \in BOOLEAN
<1>1. S[a] \in Segment
  OBVIOUS
<1>2. S[a].txs \in Seq(Tx) /\ S[a].sealed \in BOOLEAN
  BY <1>1 DEF Segment
<1> QED BY <1>1, <1>2

LEMMA AppendAt ==
  ASSUME NEW T, NEW X \in Seq(T), NEW v \in T
  PROVE  /\ Len(Append(X, v)) = Len(X) + 1 /\ Append(X, v)[Len(X) + 1] = v
         /\ \A k \in 1..Len(X) : Append(X, v)[k] = X[k]
         /\ Append(X, v) \in Seq(T) /\ Len(X) \in Nat
OBVIOUS

LEMMA FrontAt ==
  ASSUME NEW T, NEW X \in Seq(T), NEW v \in T
  PROVE  /\ Len(<<v>> \o X) = Len(X) + 1 /\ (<<v>> \o X)[1] = v
         /\ \A k \in 1..Len(X) : (<<v>> \o X)[k + 1] = X[k]
         /\ <<v>> \o X \in Seq(T) /\ Len(X) \in Nat
<1> DEFINE V == <<v>>
<1>1. V \in Seq(T) /\ Len(V) = 1 /\ V[1] = v
  OBVIOUS
<1> HIDE DEF V
<1>2. /\ V \o X \in Seq(T) /\ Len(V \o X) = Len(V) + Len(X)
      /\ \A i \in 1..Len(V) + Len(X) : (V \o X)[i] = IF i <= Len(V) THEN V[i] ELSE X[i - Len(V)]
  BY <1>1, ConcatProperties
<1>3. Len(X) \in Nat
  OBVIOUS
<1>4. ASSUME NEW k \in 1..Len(X) PROVE (V \o X)[k + 1] = X[k]
  <2>1. k + 1 \in 1..(Len(V) + Len(X)) /\ k + 1 > Len(V) /\ (k + 1) - Len(V) = k
    BY <1>1, <1>3
  <2> QED BY <1>2, <2>1
<1> QED BY <1>1, <1>2, <1>3, <1>4 DEF V

\* What Join makes of a segment.
LEMMA JoinPlaces ==
  ASSUME NEW s \in Segment, NEW t \in Tx
  PROVE  /\ Join(s, t) \in Segment /\ s.txs \in Seq(Tx) /\ Len(s.txs) \in Nat
         /\ Len(Join(s, t).txs) = Len(s.txs) + 1
         /\ t \in Priority =>
              /\ Join(s, t).txs[1] = t
              /\ \A k \in 1..Len(s.txs) : Join(s, t).txs[k + 1] = s.txs[k]
         /\ t \notin Priority =>
              /\ Join(s, t).txs[Len(s.txs) + 1] = t
              /\ \A k \in 1..Len(s.txs) : Join(s, t).txs[k] = s.txs[k]
         /\ t \in Command => Join(s, t).sealed
<1>0. s.txs \in Seq(Tx)
  BY DEF Segment
<1>2. Join(s, t) \in Segment
  BY JoinType
<1>3. CASE t \in Priority
  <2>1. Join(s, t).txs = <<t>> \o s.txs /\ Join(s, t).sealed = TRUE
    BY <1>3 DEF Join
  <2> QED BY <1>0, <1>2, <1>3, <2>1, FrontAt
<1>4. CASE t \notin Priority
  <2>1. Join(s, t).txs = Append(s.txs, t) /\ Join(s, t).sealed = (t \in Command)
    BY <1>4 DEF Join
  <2>2. /\ Len(Append(s.txs, t)) = Len(s.txs) + 1 /\ Append(s.txs, t)[Len(s.txs) + 1] = t
        /\ \A k \in 1..Len(s.txs) : Append(s.txs, t)[k] = s.txs[k]
        /\ Len(s.txs) \in Nat
    BY <1>0, AppendAt
  <2> QED BY <1>0, <1>2, <1>4, <2>1, <2>2
<1> QED BY <1>3, <1>4

\* A send is staged at the end of all places, or a trigger-priority command at the front of
\* the last segment, which is not sealed.
AtEnd(S, R, t) ==
  \E A, K \in Nat :
    /\ \A a, k \in Nat, u \in Tx : At(R, a, k, u) <=> At(S, a, k, u) \/ (u = t /\ a = A /\ k = K)
    /\ \A a, k \in Nat, u \in Tx : At(S, a, k, u) => a < A \/ (a = A /\ k < K)
AtFront(S, R, t) ==
  \E A \in Nat :
    /\ \A a, k \in Nat, u \in Tx :
         At(R, a, k, u) <=> \/ a # A /\ At(S, a, k, u)
                            \/ a = A /\ At(S, a, k - 1, u)
                            \/ u = t /\ a = A /\ k = 1
    /\ \A a, k \in Int, u \in Tx : At(S, a, k, u) => a \in 1..A /\ k >= 1
    /\ \A k \in Nat, u \in Tx : At(S, A, k, u) => u \notin Command
    /\ t \in Priority

LEMMA StagePlaces ==
  ASSUME NEW g \in Group, NEW t \in Tx, Unsealed(g.segments)
  PROVE  /\ AtEnd(g.segments, Stage(g, t).segments, t) \/ AtFront(g.segments, Stage(g, t).segments, t)
         /\ Unsealed(Stage(g, t).segments)
<1> DEFINE S == g.segments
           R == Stage(g, t).segments
           fresh == [txs |-> <<>>, sealed |-> FALSE]
           n == Len(S)
<1>1. S \in Seq(Segment) /\ Len(S) \in Nat
  <2>1. S \in Seq(Segment)
    BY DEF Group
  <2> QED BY <2>1
<1>2. fresh \in Segment /\ fresh.txs = <<>>
  BY EmptyInSeq DEF Segment
<1>3. \A a \in 1..n : S[a] \in Segment /\ S[a].txs \in Seq(Tx) /\ Len(S[a].txs) \in Nat /\ S[a].sealed \in BOOLEAN
  BY <1>1, SegmentFacts
<1>4. CASE S = <<>> \/ S[n].sealed
  <2> DEFINE J == Join(fresh, t)
  <2>1. R = Append(S, J)
    BY <1>4 DEF Stage, Group
  <2>2. J \in Segment /\ Len(J.txs) = 1 /\ J.txs[1] = t /\ (t \in Command => J.sealed)
    <3>1. Len(fresh.txs) = 0
      BY <1>2
    <3> HIDE DEF fresh
    <3>2. /\ J \in Segment /\ Len(J.txs) = Len(fresh.txs) + 1
          /\ t \in Priority => J.txs[1] = t
          /\ t \notin Priority => J.txs[Len(fresh.txs) + 1] = t
          /\ t \in Command => J.sealed
      BY <1>2, JoinPlaces
    <3> QED BY <3>1, <3>2
  <2> HIDE DEF R, J, S, fresh
  <2>3. /\ R \in Seq(Segment) /\ Len(R) = n + 1 /\ R[n + 1] = J
        /\ \A a \in 1..n : R[a] = S[a]
    BY <1>1, <2>1, <2>2, AppendAt
  <2>4. \A a, k \in Nat, u \in Tx : At(R, a, k, u) <=> At(S, a, k, u) \/ (u = t /\ a = n + 1 /\ k = 1)
    <3> SUFFICES ASSUME NEW a \in Nat, NEW k \in Nat, NEW u \in Tx
                 PROVE  At(R, a, k, u) <=> At(S, a, k, u) \/ (u = t /\ a = n + 1 /\ k = 1)
      OBVIOUS
    <3>1. CASE a = n + 1
      BY <1>1, <2>2, <2>3, <3>1 DEF At
    <3>2. CASE a \in 1..n
      BY <1>1, <2>3, <3>2 DEF At
    <3>3. CASE a \notin 1..(n + 1)
      BY <1>1, <2>3, <3>3 DEF At
    <3> QED BY <1>1, <3>1, <3>2, <3>3
  <2>5. \A a, k \in Nat, u \in Tx : At(S, a, k, u) => a < n + 1
    BY <1>1 DEF At
  <2>6. Unsealed(R)
    <3> SUFFICES ASSUME NEW a \in Nat, NEW k \in Nat, NEW u \in Tx, At(R, a, k, u), ~R[a].sealed
                 PROVE  u \notin Command
      BY DEF Unsealed
    <3>1. CASE At(S, a, k, u)
      <4>1. a \in 1..n
        BY <3>1 DEF At
      <4> QED BY <2>3, <3>1, <4>1 DEF Unsealed, S
    <3>2. CASE u = t /\ a = n + 1 /\ k = 1
      BY <2>2, <2>3, <3>2
    <3> QED BY <2>4, <3>1, <3>2
  <2>7. n + 1 \in Nat /\ 1 \in Nat
    BY <1>1
  <2>8. AtEnd(S, R, t)
    BY <2>4, <2>5, <2>7 DEF AtEnd
  <2> QED BY <2>6, <2>8 DEF R, S
<1>5. CASE ~(S = <<>> \/ S[n].sealed)
  <2> DEFINE J == Join(S[n], t)
             L == Len(S[n].txs)
  <2>0. n \in 1..n /\ S[n] \in Segment /\ ~S[n].sealed /\ L \in Nat
    BY <1>1, <1>3, <1>5
  <2>1. R = [S EXCEPT ![n] = J]
    BY <1>5 DEF Stage, Group
  <2>2. /\ J \in Segment /\ Len(J.txs) = L + 1
        /\ t \in Priority => J.txs[1] = t /\ \A k \in 1..L : J.txs[k + 1] = S[n].txs[k]
        /\ t \notin Priority => J.txs[L + 1] = t /\ \A k \in 1..L : J.txs[k] = S[n].txs[k]
        /\ t \in Command => J.sealed
    <3> DEFINE s == S[n]
    <3> HIDE DEF S
    <3>1. s \in Segment
      BY <2>0
    <3> HIDE DEF s
    <3>2. /\ Join(s, t) \in Segment /\ Len(Join(s, t).txs) = Len(s.txs) + 1
          /\ t \in Priority => /\ Join(s, t).txs[1] = t
                               /\ \A k \in 1..Len(s.txs) : Join(s, t).txs[k + 1] = s.txs[k]
          /\ t \notin Priority => /\ Join(s, t).txs[Len(s.txs) + 1] = t
                                  /\ \A k \in 1..Len(s.txs) : Join(s, t).txs[k] = s.txs[k]
          /\ t \in Command => Join(s, t).sealed
      BY <3>1, JoinPlaces
    <3> QED BY <3>2 DEF s
  <2> HIDE DEF R, J, S, L
  <2>3. /\ R \in Seq(Segment) /\ Len(R) = n /\ R[n] = J
        /\ \A a \in 1..n : a # n => R[a] = S[a]
    BY <1>1, <2>0, <2>1, <2>2
  <2>4. \A a, k \in Nat, u \in Tx : a # n => (At(R, a, k, u) <=> At(S, a, k, u))
    BY <2>3 DEF At
  <2>5. \A k \in Nat, u \in Tx : At(S, n, k, u) => u \notin Command
    BY <1>1, <2>0 DEF Unsealed, S
  <2>6. \A a, k \in Int, u \in Tx : At(S, a, k, u) => a \in 1..n /\ k >= 1 /\ (a = n => k <= L)
    BY <1>1, <1>3 DEF At, L
  <2>7. CASE t \in Priority
    <3>1. ASSUME NEW k \in Nat, NEW u \in Tx
          PROVE  At(R, n, k, u) <=> At(S, n, k - 1, u) \/ (u = t /\ k = 1)
      <4>1. CASE k \in 2..(L + 1)
        <5>1. k - 1 \in 1..L /\ (k - 1) + 1 = k
          BY <2>0, <4>1
        <5>2. J.txs[k] = S[n].txs[k - 1]
          BY <2>2, <2>7, <5>1
        <5> QED BY <2>0, <2>2, <2>3, <4>1, <5>1, <5>2 DEF At, L
      <4>2. CASE k = 1
        BY <2>0, <2>2, <2>3, <2>7, <4>2 DEF At, L
      <4>3. CASE k \notin 1..(L + 1)
        <5>1. k - 1 \notin 1..L
          BY <2>0, <4>3
        <5> QED BY <2>0, <2>2, <2>3, <4>3, <5>1 DEF At, L
      <4> QED BY <2>0, <4>1, <4>2, <4>3
    <3>2. AtFront(S, R, t)
      BY <1>1, <2>4, <2>5, <2>6, <2>7, <3>1 DEF AtFront
    <3>3. Unsealed(R)
      <4> SUFFICES ASSUME NEW a \in Nat, NEW k \in Nat, NEW u \in Tx, At(R, a, k, u), ~R[a].sealed
                   PROVE  u \notin Command
        BY DEF Unsealed
      <4>1. a # n
        BY <2>2, <2>3, <2>7, OutboundAssumption
      <4> QED BY <2>3, <2>4, <4>1 DEF Unsealed, S, At
    <3> QED BY <3>2, <3>3 DEF R, S
  <2>8. CASE t \notin Priority
    <3>1. ASSUME NEW k \in Nat, NEW u \in Tx
          PROVE  At(R, n, k, u) <=> At(S, n, k, u) \/ (u = t /\ k = L + 1)
      <4>1. CASE k \in 1..L
        BY <2>0, <2>2, <2>3, <2>8, <4>1 DEF At, L
      <4>2. CASE k = L + 1
        BY <2>0, <2>2, <2>3, <2>8, <4>2 DEF At, L
      <4>3. CASE k \notin 1..(L + 1)
        BY <2>0, <2>2, <2>3, <4>3 DEF At, L
      <4> QED BY <2>0, <4>1, <4>2, <4>3
    <3>2. \A a, k \in Nat, u \in Tx :
            At(R, a, k, u) <=> At(S, a, k, u) \/ (u = t /\ a = n /\ k = L + 1)
      BY <2>4, <3>1
    <3>3. \A a, k \in Nat, u \in Tx : At(S, a, k, u) => a < n \/ (a = n /\ k < L + 1)
      <4> SUFFICES ASSUME NEW a \in Nat, NEW k \in Nat, NEW u \in Tx, At(S, a, k, u)
                   PROVE  a < n \/ (a = n /\ k < L + 1)
        OBVIOUS
      <4>1. a \in 1..n /\ (a = n => k <= L)
        BY <2>6
      <4> QED BY <1>1, <2>0, <4>1
    <3>4. AtEnd(S, R, t)
      <4>1. n \in Nat /\ L + 1 \in Nat
        BY <1>1, <2>0
      <4> QED BY <3>2, <3>3, <4>1 DEF AtEnd
    <3>5. Unsealed(R)
      <4> SUFFICES ASSUME NEW a \in Nat, NEW k \in Nat, NEW u \in Tx, At(R, a, k, u), ~R[a].sealed
                   PROVE  u \notin Command
        BY DEF Unsealed
      <4>1. CASE a # n
        <5>1. At(S, a, k, u)
          BY <2>4, <4>1
        <5>2. a \in 1..n
          BY <2>6, <5>1
        <5>3. R[a] = S[a]
          BY <2>3, <4>1, <5>2
        <5> QED BY <5>1, <5>3 DEF Unsealed, S
      <4>2. CASE a = n
        BY <2>2, <2>3, <2>5, <3>1, <4>2
      <4> QED BY <4>1, <4>2
    <3> QED BY <3>4, <3>5 DEF R, S
  <2> QED BY <2>7, <2>8
<1> QED BY <1>4, <1>5

LEMMA StageFacts ==
  ASSUME NEW g \in Group, NEW t \in Tx, Filed(g.segments), ~Holds(g.segments, t)
  PROVE  /\ Filed(Stage(g, t).segments)
         /\ \A u \in Tx : Holds(Stage(g, t).segments, u) <=> Holds(g.segments, u) \/ u = t
         /\ \A u, v \in Tx : u # t /\ v # t /\ Before(g.segments, u, v)
                            => Before(Stage(g, t).segments, u, v)
         /\ \A u \in Tx : u # t /\ ~(t \in Priority /\ u \notin Command)
                         => Before(Stage(g, t).segments, u, t)
<1> DEFINE S == g.segments
           R == Stage(g, t).segments
<1>1. R \in Seq(Segment) /\ Unsealed(R)
  <2>1. Stage(g, t) \in Group
    BY StageType
  <2> QED BY <2>1, StagePlaces DEF Filed, Group
<1>2. AtEnd(S, R, t) \/ AtFront(S, R, t)
  BY StagePlaces DEF Filed
<1>3. Once(S) /\ \A a, k \in Nat : ~At(S, a, k, t)
  BY DEF Filed, Holds
<1> HIDE DEF S, R
<1>4. CASE AtEnd(S, R, t)
  <2>1. PICK A, K \in Nat :
          /\ \A a, k \in Nat, u \in Tx : At(R, a, k, u) <=> At(S, a, k, u) \/ (u = t /\ a = A /\ k = K)
          /\ \A a, k \in Nat, u \in Tx : At(S, a, k, u) => a < A \/ (a = A /\ k < K)
    BY <1>4 DEF AtEnd
  <2>2. Once(R)
    BY <1>3, <2>1 DEF Once
  <2>3. \A u \in Tx : Holds(R, u) <=> Holds(S, u) \/ u = t
    BY <2>1 DEF Holds
  <2>4. \A u, v \in Tx : u # t /\ v # t /\ Before(S, u, v) => Before(R, u, v)
    BY <2>1 DEF Before
  <2>5. \A u \in Tx : u # t => Before(R, u, t)
    BY <1>3, <2>1 DEF Before
  <2> QED BY <1>1, <2>2, <2>3, <2>4, <2>5 DEF Filed, S, R
<1>5. CASE AtFront(S, R, t)
  <2>1. PICK A \in Nat :
          /\ \A a, k \in Nat, u \in Tx :
               At(R, a, k, u) <=> \/ a # A /\ At(S, a, k, u)
                                  \/ a = A /\ At(S, a, k - 1, u)
                                  \/ u = t /\ a = A /\ k = 1
          /\ \A a, k \in Int, u \in Tx : At(S, a, k, u) => a \in 1..A /\ k >= 1
          /\ \A k \in Nat, u \in Tx : At(S, A, k, u) => u \notin Command
          /\ t \in Priority
    BY <1>5 DEF AtFront
  <2>0. ASSUME NEW k \in Nat, NEW u \in Tx, At(S, A, k - 1, u)
        PROVE  k - 1 \in Nat /\ k # 1 /\ u # t /\ u \notin Command
    <3>1. k - 1 \in Int
      OBVIOUS
    <3>2. k - 1 >= 1
      BY <2>0, <2>1, <3>1
    <3>3. k - 1 \in Nat /\ k # 1
      BY <3>2
    <3> QED BY <1>3, <2>0, <2>1, <3>3
  <2>2. Once(R)
    <3> SUFFICES ASSUME NEW u \in Tx, NEW a \in Nat, NEW k \in Nat, NEW b \in Nat, NEW m \in Nat,
                        At(R, a, k, u), At(R, b, m, u)
                 PROVE  a = b /\ k = m
      BY DEF Once
    <3>1. CASE u = t
      <4>1. ~At(S, a, k, u) /\ ~At(S, b, m, u)
        BY <1>3, <3>1
      <4>2. a = A /\ k = 1
        BY <2>0, <2>1, <3>1, <4>1
      <4>3. b = A /\ m = 1
        BY <2>0, <2>1, <3>1, <4>1
      <4> QED BY <4>2, <4>3
    <3>2. CASE u # t
      <4> DEFINE x == IF a = A THEN k - 1 ELSE k
                 y == IF b = A THEN m - 1 ELSE m
      <4>1. x \in Nat /\ At(S, a, x, u)
        BY <2>0, <2>1, <3>2
      <4>2. y \in Nat /\ At(S, b, y, u)
        BY <2>0, <2>1, <3>2
      <4>3. a = b /\ x = y
        <5> HIDE DEF x, y
        <5> QED BY <1>3, <4>1, <4>2 DEF Once
      <4> QED BY <4>3
    <3> QED BY <3>1, <3>2
  <2>3. ASSUME NEW u \in Tx PROVE Holds(R, u) <=> Holds(S, u) \/ u = t
    <3>1. Holds(R, u) => Holds(S, u) \/ u = t
      BY <2>0, <2>1 DEF Holds
    <3>2. ASSUME NEW a \in Nat, NEW k \in Nat, At(S, a, k, u)
          PROVE  At(R, a, k, u) \/ At(R, a, k + 1, u)
      <4>1. k + 1 \in Nat /\ (k + 1) - 1 = k
        OBVIOUS
      <4> QED BY <2>1, <3>2, <4>1
    <3>3. Holds(S, u) => Holds(R, u)
      <4> SUFFICES ASSUME NEW a \in Nat, NEW k \in Nat, At(S, a, k, u)
                   PROVE  Holds(R, u)
        BY DEF Holds
      <4>1. k + 1 \in Nat
        OBVIOUS
      <4> QED BY <3>2, <4>1 DEF Holds
    <3>4. u = t => Holds(R, u)
      BY <2>1 DEF Holds
    <3> QED BY <3>1, <3>3, <3>4
  <2>4. ASSUME NEW u \in Tx, NEW v \in Tx, u # t, v # t, Before(S, u, v)
        PROVE  Before(R, u, v)
    <3> SUFFICES ASSUME NEW a \in Nat, NEW k \in Nat, NEW b \in Nat, NEW m \in Nat,
                        At(R, a, k, u), At(R, b, m, v)
                 PROVE  a < b \/ (a = b /\ k < m)
      BY DEF Before
    <3> DEFINE x == IF a = A THEN k - 1 ELSE k
               y == IF b = A THEN m - 1 ELSE m
    <3>1. x \in Nat /\ At(S, a, x, u)
      BY <2>0, <2>1, <2>4
    <3>2. y \in Nat /\ At(S, b, y, v)
      BY <2>0, <2>1, <2>4
    <3>3. a < b \/ (a = b /\ x < y)
      <4> HIDE DEF x, y
      <4> QED BY <2>4, <3>1, <3>2 DEF Before
    <3> QED BY <3>3
  <2>5. ASSUME NEW u \in Tx, u # t, u \in Command
        PROVE  Before(R, u, t)
    <3> SUFFICES ASSUME NEW a \in Nat, NEW k \in Nat, NEW b \in Nat, NEW m \in Nat,
                        At(R, a, k, u), At(R, b, m, t)
                 PROVE  a < b \/ (a = b /\ k < m)
      BY DEF Before
    <3>1. b = A /\ m = 1
      BY <1>3, <2>0, <2>1
    <3>2. a # A /\ At(S, a, k, u)
      BY <2>0, <2>1, <2>5
    <3>3. a \in 1..A
      BY <2>1, <3>2
    <3> QED BY <3>1, <3>2, <3>3
  <2> QED BY <1>1, <2>1, <2>2, <2>3, <2>4, <2>5 DEF Filed, S, R
<1> QED BY <1>2, <1>4, <1>5

\* The first send of the first segment is taken out.
LEMMA HeadFacts ==
  ASSUME NEW S, Filed(S), S # <<>>, S[1].txs # <<>>
  PROVE  LET R == [S EXCEPT ![1] = [S[1] EXCEPT !.txs = Tail(S[1].txs)]]
             t == Head(S[1].txs)
         IN  /\ Filed(R) /\ t \in Tx /\ Holds(S, t)
             /\ \A u \in Tx : Holds(R, u) <=> Holds(S, u) /\ u # t
             /\ \A u, v \in Tx : Before(S, u, v) => Before(R, u, v)
             /\ \A u \in Tx : Holds(S, u) => ~Before(S, u, t)
<1> DEFINE R == [S EXCEPT ![1] = [S[1] EXCEPT !.txs = Tail(S[1].txs)]]
           t == Head(S[1].txs)
           X == S[1].txs
<1>1. S \in Seq(Segment) /\ 1 \in 1..Len(S) /\ Len(S) \in Nat /\ S[1] \in Segment
  BY DEF Filed
<1>2. X \in Seq(Tx) /\ X # <<>> /\ Len(X) \in Nat /\ 1 \in 1..Len(X) /\ t = X[1]
  <2>1. X \in Seq(Tx)
    BY <1>1 DEF Segment
  <2> QED BY <2>1
<1>3. t \in Tx
  BY <1>2
<1>4. /\ Tail(X) \in Seq(Tx) /\ Len(Tail(X)) = Len(X) - 1
      /\ \A k \in 1..Len(Tail(X)) : Tail(X)[k] = X[k + 1]
  <2> HIDE DEF X
  <2> QED BY <1>2
<1> DEFINE r == [S[1] EXCEPT !.txs = Tail(S[1].txs)]
<1>5. r \in Segment /\ r.txs = Tail(X) /\ r.sealed = S[1].sealed
  BY <1>1, <1>4 DEF Segment
<1>6. R \in Seq(Segment) /\ Len(R) = Len(S) /\ R[1] = r /\ \A a \in 1..Len(S) : a # 1 => R[a] = S[a]
  <2> HIDE DEF r
  <2>1. [S EXCEPT ![1] = r] \in Seq(Segment) /\ Len([S EXCEPT ![1] = r]) = Len(S)
    BY <1>1, <1>5, ReplaceInSeq
  <2>2. [S EXCEPT ![1] = r][1] = r /\ \A a \in 1..Len(S) : a # 1 => [S EXCEPT ![1] = r][a] = S[a]
    BY <1>1
  <2> QED BY <2>1, <2>2 DEF r
<1> HIDE DEF R, r, t
<1>7. ASSUME NEW a \in Nat, NEW k \in Nat, NEW u \in Tx
      PROVE  At(R, a, k, u) <=> \/ a # 1 /\ At(S, a, k, u)
                                \/ a = 1 /\ k # 0 /\ At(S, 1, k + 1, u)
  <2>1. CASE a # 1
    BY <1>6, <2>1 DEF At
  <2>2. CASE a = 1
    <3>1. At(R, a, k, u) <=> k \in 1..(Len(X) - 1) /\ Tail(X)[k] = u
      BY <1>1, <1>4, <1>5, <1>6, <2>2 DEF At
    <3>2. At(S, 1, k + 1, u) <=> k + 1 \in 1..Len(X) /\ X[k + 1] = u
      BY <1>1 DEF At
    <3>3. k + 1 \in 1..Len(X) /\ k # 0 <=> k \in 1..(Len(X) - 1)
      BY <1>2
    <3> QED BY <1>4, <2>2, <3>1, <3>2, <3>3
  <2> QED BY <2>1, <2>2
<1>8. /\ At(S, 1, 1, t)
      /\ \A a, k \in Nat, u \in Tx : At(S, a, k, u) => a >= 1 /\ k >= 1
  BY <1>1, <1>2 DEF At
<1>9. Once(S)
  BY DEF Filed
<1>10. Once(R)
  <2> SUFFICES ASSUME NEW u \in Tx, NEW a \in Nat, NEW k \in Nat, NEW b \in Nat, NEW m \in Nat,
                      At(R, a, k, u), At(R, b, m, u)
               PROVE  a = b /\ k = m
    BY DEF Once
  <2> DEFINE x == IF a = 1 THEN k + 1 ELSE k
             y == IF b = 1 THEN m + 1 ELSE m
  <2>1. x \in Nat /\ y \in Nat /\ At(S, a, x, u) /\ At(S, b, y, u)
    BY <1>7
  <2>2. a = b /\ x = y
    <3> HIDE DEF x, y
    <3> QED BY <1>9, <2>1 DEF Once
  <2> QED BY <2>2
<1>11. Unsealed(R)
  <2> SUFFICES ASSUME NEW u \in Tx, NEW a \in Nat, NEW k \in Nat, At(R, a, k, u), ~R[a].sealed
               PROVE  u \notin Command
    BY DEF Unsealed
  <2>1. a \in 1..Len(S)
    BY <1>6 DEF At
  <2>2. R[a].sealed = S[a].sealed
    BY <1>5, <1>6, <2>1
  <2>3. k + 1 \in Nat
    OBVIOUS
  <2> QED BY <1>7, <2>2, <2>3 DEF Filed, Unsealed
<1>12. ASSUME NEW u \in Tx PROVE Holds(R, u) <=> Holds(S, u) /\ u # t
  <2>1. ASSUME NEW a \in Nat, NEW k \in Nat, At(R, a, k, u)
        PROVE  Holds(S, u) /\ u # t
    <3> DEFINE x == IF a = 1 THEN k + 1 ELSE k
    <3>1. x \in Nat /\ At(S, a, x, u) /\ (a = 1 => x > 1)
      BY <1>7, <2>1
    <3> HIDE DEF x
    <3>2. u # t
      BY <1>8, <1>9, <3>1 DEF Once
    <3> QED BY <3>1, <3>2 DEF Holds
  <2>2. ASSUME NEW a \in Nat, NEW k \in Nat, At(S, a, k, u), u # t
        PROVE  Holds(R, u)
    <3>1. CASE a # 1
      BY <1>7, <2>2, <3>1 DEF Holds
    <3>2. CASE a = 1
      <4>1. k # 1
        BY <1>1, <1>2, <2>2, <3>2 DEF At
      <4>2. k - 1 \in Nat /\ k - 1 # 0 /\ (k - 1) + 1 = k
        BY <1>8, <2>2, <4>1
      <4>3. At(R, 1, k - 1, u)
        BY <1>7, <2>2, <3>2, <4>2
      <4> QED BY <4>2, <4>3 DEF Holds
    <3> QED BY <3>1, <3>2
  <2> QED BY <2>1, <2>2 DEF Holds
<1>13. ASSUME NEW u \in Tx, NEW v \in Tx, Before(S, u, v) PROVE Before(R, u, v)
  <2> SUFFICES ASSUME NEW a \in Nat, NEW k \in Nat, NEW b \in Nat, NEW m \in Nat,
                      At(R, a, k, u), At(R, b, m, v)
               PROVE  a < b \/ (a = b /\ k < m)
    BY DEF Before
  <2> DEFINE x == IF a = 1 THEN k + 1 ELSE k
             y == IF b = 1 THEN m + 1 ELSE m
  <2>1. x \in Nat /\ y \in Nat /\ At(S, a, x, u) /\ At(S, b, y, v)
    BY <1>7
  <2>2. a < b \/ (a = b /\ x < y)
    <3> HIDE DEF x, y
    <3> QED BY <1>13, <2>1 DEF Before
  <2> QED BY <2>2
<1>14. \A u \in Tx : Holds(S, u) => ~Before(S, u, t)
  BY <1>8 DEF Holds, Before
<1>15. Holds(S, t)
  BY <1>8 DEF Holds
<1> QED BY <1>3, <1>6, <1>10, <1>11, <1>12, <1>13, <1>14, <1>15 DEF Filed, R, t

\* An empty first segment is taken off.
LEMMA PopFacts ==
  ASSUME NEW S, Filed(S), S # <<>>, S[1].txs = <<>>
  PROVE  /\ Filed(Tail(S))
         /\ \A u \in Tx : Holds(Tail(S), u) <=> Holds(S, u)
         /\ \A u, v \in Tx : Before(S, u, v) => Before(Tail(S), u, v)
<1> DEFINE R == Tail(S)
<1>1. /\ S \in Seq(Segment) /\ R \in Seq(Segment) /\ Len(R) = Len(S) - 1 /\ Len(S) \in Nat
      /\ \A a \in 1..Len(R) : R[a] = S[a + 1]
  <2>1. S \in Seq(Segment)
    BY DEF Filed
  <2> QED BY <2>1
<1> HIDE DEF R
<1>2. ASSUME NEW a \in Nat, NEW k \in Nat, NEW u \in Tx
      PROVE  At(R, a, k, u) <=> a # 0 /\ At(S, a + 1, k, u)
  <2>1. a \in 1..Len(R) <=> a # 0 /\ a + 1 \in 1..Len(S)
    BY <1>1
  <2> QED BY <1>1, <2>1 DEF At
<1>3. \A a, k \in Nat, u \in Tx : At(S, a, k, u) => a > 1
  BY <1>1 DEF At
<1>4. \A a \in Nat : a + 1 \in Nat
  OBVIOUS
<1>5. Once(R)
  <2> SUFFICES ASSUME NEW u \in Tx, NEW a \in Nat, NEW k \in Nat, NEW b \in Nat, NEW m \in Nat,
                      At(R, a, k, u), At(R, b, m, u)
               PROVE  a = b /\ k = m
    BY DEF Once
  <2>1. At(S, a + 1, k, u) /\ At(S, b + 1, m, u)
    BY <1>2
  <2>2. a + 1 = b + 1 /\ k = m
    BY <1>4, <2>1 DEF Filed, Once
  <2> QED BY <2>2
<1>6. Unsealed(R)
  <2> SUFFICES ASSUME NEW u \in Tx, NEW a \in Nat, NEW k \in Nat, At(R, a, k, u), ~R[a].sealed
               PROVE  u \notin Command
    BY DEF Unsealed
  <2>1. At(S, a + 1, k, u)
    BY <1>2
  <2>2. R[a] = S[a + 1]
    BY <1>1 DEF At
  <2> QED BY <1>4, <2>1, <2>2 DEF Filed, Unsealed
<1>7. ASSUME NEW u \in Tx PROVE Holds(R, u) <=> Holds(S, u)
  <2>1. Holds(R, u) => Holds(S, u)
    BY <1>2, <1>4 DEF Holds
  <2>2. ASSUME NEW a \in Nat, NEW k \in Nat, At(S, a, k, u) PROVE Holds(R, u)
    <3>1. a - 1 \in Nat /\ a - 1 # 0 /\ (a - 1) + 1 = a
      BY <1>3, <2>2
    <3>2. At(R, a - 1, k, u)
      BY <1>2, <2>2, <3>1
    <3> QED BY <3>1, <3>2 DEF Holds
  <2> QED BY <2>1, <2>2 DEF Holds
<1>8. ASSUME NEW u \in Tx, NEW v \in Tx, Before(S, u, v) PROVE Before(R, u, v)
  <2> SUFFICES ASSUME NEW a \in Nat, NEW k \in Nat, NEW b \in Nat, NEW m \in Nat,
                      At(R, a, k, u), At(R, b, m, v)
               PROVE  a < b \/ (a = b /\ k < m)
    BY DEF Before
  <2>1. At(S, a + 1, k, u) /\ At(S, b + 1, m, v)
    BY <1>2
  <2>2. a + 1 < b + 1 \/ (a + 1 = b + 1 /\ k < m)
    BY <1>4, <1>8, <2>1 DEF Before
  <2> QED BY <2>2
<1> QED BY <1>1, <1>5, <1>6, <1>7, <1>8 DEF Filed, R

LEMMA EmptyFacts == Filed(<<>>) /\ \A u : ~Holds(<<>>, u)
<1>1. <<>> \in Seq(Segment) /\ Len(<<>>) = 0
  BY EmptyInSeq
<1>2. \A a, k, u : ~At(<<>>, a, k, u)
  BY <1>1 DEF At
<1> QED BY <1>1, <1>2 DEF Filed, Once, Unsealed, Holds

-----------------------------------------------------------------------------
(* Who holds a group open: the scopes of the connection that have it in    *)
(* their slot and have not ended.                                          *)

Holders(g) == {o \in Op \ Bare : /\ op[o].group = g /\ op[o].epoch = conn.epoch
                                 /\ op[o].state \in {"running", "waiting", "cancelled"}}

Holding ==
  /\ \A o \in Op : op[o].epoch <= conn.epoch /\ op[o].group \in 0..Len(group)
  /\ \A g \in 1..Len(group) : ~group[g].finished <=> \E i \in 1..Len(queue) : queue[i] = g
  /\ \A g \in 1..Len(group) : ~group[g].finished =>
       IsFiniteSet(Holders(g)) /\ group[g].retain = Cardinality(Holders(g))
  /\ \A g \in 1..Len(group) : Holders(g) # {} => ~group[g].finished

\* The groups stay as they are but for their note, their records and the disconnect.
Alike(gs, hs) ==
  /\ Len(gs) = Len(hs)
  /\ \A i \in 1..Len(hs) : /\ gs[i].segments = hs[i].segments
                           /\ gs[i].retain = hs[i].retain /\ gs[i].finished = hs[i].finished

\* The callbacks go on or wait.
SoftOps(ops) ==
  \A o \in Op : /\ ops[o].epoch = op[o].epoch /\ ops[o].group = op[o].group
                /\ \/ ops[o].state = op[o].state
                   \/ {op[o].state, ops[o].state} \subseteq {"running", "waiting", "cancelled"}

LEMMA Replaced ==
  ASSUME NEW S, NEW s \in Seq(S), NEW i \in 1..Len(s), NEW v
  PROVE  /\ Len([s EXCEPT ![i] = v]) = Len(s) /\ [s EXCEPT ![i] = v][i] = v
         /\ \A k \in 1..Len(s) : k # i => [s EXCEPT ![i] = v][k] = s[k]
OBVIOUS

LEMMA GroupTypes ==
  ASSUME MainOK
  PROVE  /\ group \in Seq(Group) /\ Len(group) \in Nat /\ Len(queue) \in Nat /\ conn.epoch \in Nat
         /\ \A i \in 1..Len(group) : /\ group[i] \in Group /\ group[i].retain \in Nat
                                     /\ group[i].finished \in BOOLEAN
                                     /\ group[i].segments \in Seq(Segment)
<1>1. /\ group \in Seq(Group) /\ Len(group) \in Nat /\ Len(queue) \in Nat /\ conn.epoch \in Nat
      /\ \A i \in 1..Len(group) : group[i] \in Group
  BY DEF MainOK, ConnType
<1>2. \A r \in Group : r.retain \in Nat /\ r.finished \in BOOLEAN /\ r.segments \in Seq(Segment)
  BY DEF Group
<1> QED BY <1>1, <1>2

LEMMA FieldsAlike ==
  ASSUME NEW gs \in Seq(Group), NEW g
  PROVE  /\ Alike(gs, gs)
         /\ \A b : Alike([gs EXCEPT ![g].note = b], gs) /\ Alike([gs EXCEPT ![g].closes = b], gs)
         /\ \A n : Alike([gs EXCEPT ![g].records = n], gs)
         /\ \A b, n : Alike([gs EXCEPT ![g].note = b, ![g].records = n], gs)
<1>1. \A i \in 1..Len(gs) : gs[i] \in Group
  OBVIOUS
<1>2. Alike(gs, gs)
  BY DEF Alike
<1>3. ASSUME NEW b PROVE Alike([gs EXCEPT ![g].note = b], gs) /\ Alike([gs EXCEPT ![g].closes = b], gs)
  BY <1>1 DEF Alike, Group
<1>4. ASSUME NEW n PROVE Alike([gs EXCEPT ![g].records = n], gs)
  BY <1>1 DEF Alike, Group
<1>5. ASSUME NEW b, NEW n PROVE Alike([gs EXCEPT ![g].note = b, ![g].records = n], gs)
  BY <1>1 DEF Alike, Group
<1> QED BY <1>2, <1>3, <1>4, <1>5

LEMMA AlikeTrans ==
  ASSUME NEW gs, NEW hs, NEW ks, Alike(gs, hs), Alike(hs, ks)
  PROVE  Alike(gs, ks)
BY DEF Alike

LEMMA SoftHolders ==
  ASSUME SoftOps(op'), conn'.epoch = conn.epoch, NEW g
  PROVE  Holders(g)' = Holders(g)
BY DEF SoftOps, Holders

LEMMA StoppedSoft ==
  ASSUME MainOK, NEW p
  PROVE  SoftOps(op) /\ SoftOps(Stopped(op, p)) /\ SoftOps(Resumed(op, p))
<1>1. ASSUME NEW s \in {"running", "cancelled"}, op[p].state = "waiting", NEW o \in Op
      PROVE  LET ops == [op EXCEPT ![p].state = s] IN
             /\ ops[o].epoch = op[o].epoch /\ ops[o].group = op[o].group
             /\ ops[o].state = op[o].state \/ (op[o].state = "waiting" /\ ops[o].state = s)
  BY <1>1 DEF MainOK, OpTable, OpRecord
<1>2. SoftOps(op)
  BY DEF SoftOps
<1>3. SoftOps(Stopped(op, p))
  BY <1>1, <1>2 DEF SoftOps, Stopped
<1>4. SoftOps(Resumed(op, p))
  BY <1>1, <1>2 DEF SoftOps, Resumed
<1> QED BY <1>2, <1>3, <1>4

LEMMA HoldingSoft ==
  ASSUME Holding, conn'.epoch = conn.epoch, queue' = queue, SoftOps(op'),
         Len(group') = Len(group),
         \A i \in 1..Len(group) : /\ group'[i].retain = group[i].retain
                                  /\ group'[i].finished = group[i].finished
  PROVE  Holding'
<1>1. \A g : Holders(g)' = Holders(g)
  BY SoftHolders
<1>2. \A o \in Op : op'[o].epoch <= conn'.epoch /\ op'[o].group \in 0..Len(group')
  BY DEF Holding, SoftOps
<1>3. \A g \in 1..Len(group') : ~group'[g].finished <=> \E i \in 1..Len(queue') : queue'[i] = g
  BY DEF Holding
<1>4. \A g \in 1..Len(group') :
        /\ ~group'[g].finished =>
             IsFiniteSet(Holders(g)') /\ group'[g].retain = Cardinality(Holders(g)')
        /\ Holders(g)' # {} => ~group'[g].finished
  BY <1>1 DEF Holding
<1> HIDE DEF Holders
<1> QED BY <1>2, <1>3, <1>4 DEF Holding

LEMMA HoldingEnds ==
  ASSUME MainOK, Holding, NEW gs \in Seq(Group), Len(gs) = Len(group), ConnectionEnds(gs)
  PROVE  Holding' /\ \A i \in 1..Len(group') : group'[i].segments = <<>> /\ group'[i].finished
<1>1. /\ Len(group') = Len(gs) /\ queue' = <<>> /\ conn'.epoch = conn.epoch + 1 /\ conn.epoch \in Nat
      /\ op' = op \/ \E p : op' = Stopped(op, p)
  BY EndsTypes, GroupTypes DEF ConnectionEnds
<1>2. group' = [i \in DOMAIN gs |-> [gs[i] EXCEPT !.finished = TRUE, !.segments = <<>>]]
  BY DEF ConnectionEnds
<1>3. \A i \in 1..Len(group') : group'[i].segments = <<>> /\ group'[i].finished
  <2> SUFFICES ASSUME NEW i \in 1..Len(group') PROVE group'[i].segments = <<>> /\ group'[i].finished
    OBVIOUS
  <2>1. gs[i] \in Group /\ i \in DOMAIN gs
    BY <1>1
  <2>2. group'[i] = [gs[i] EXCEPT !.finished = TRUE, !.segments = <<>>]
    BY <1>2, <2>1
  <2> QED BY <2>1, <2>2 DEF Group
<1>4. \A o \in Op : op'[o].epoch = op[o].epoch /\ op'[o].group = op[o].group
  BY <1>1, StoppedSoft DEF SoftOps
<1>5. \A o \in Op : op[o].epoch \in Nat /\ op[o].epoch <= conn.epoch /\ op[o].group \in 0..Len(group)
  BY OpTypes DEF Holding, MainOK
<1>6. \A g : Holders(g)' = {}
  <2>1. \A o \in Op : op'[o].epoch # conn'.epoch
    BY <1>1, <1>4, <1>5
  <2> QED BY <2>1 DEF Holders
<1>7. \A o \in Op : op'[o].epoch <= conn'.epoch /\ op'[o].group \in 0..Len(group')
  BY <1>1, <1>4, <1>5
<1>8. \A g \in 1..Len(group') : ~group'[g].finished <=> \E i \in 1..Len(queue') : queue'[i] = g
  <2>1. Len(queue') = 0
    BY <1>1
  <2> QED BY <1>3, <2>1
<1>9. \A g \in 1..Len(group') :
        /\ ~group'[g].finished =>
             IsFiniteSet(Holders(g)') /\ group'[g].retain = Cardinality(Holders(g)')
        /\ Holders(g)' # {} => ~group'[g].finished
  BY <1>3, <1>6
<1> HIDE DEF Holders
<1> QED BY <1>3, <1>7, <1>8, <1>9 DEF Holding

LEMMA HoldingFinishes ==
  ASSUME MainOK, Order, Holding, FlushFinishes
  PROVE  Holding'
<1> DEFINE f == flush.group
<1>1. /\ group' = [group EXCEPT ![f].finished = TRUE] /\ queue' = Tail(queue) /\ UNCHANGED <<conn, op>>
      /\ flush.stage = "write" /\ group[f].retain = 0
  BY DEF FlushFinishes, Writing
<1>2. queue # <<>> /\ f = queue[1] /\ queue \in Seq(Nat) /\ Len(queue) \in Nat
  BY <1>1 DEF Order, WritesFirst, MainOK
<1>3. /\ Len(queue') = Len(queue) - 1 /\ 1 \in 1..Len(queue)
      /\ \A i \in 1..Len(queue') : queue'[i] = queue[i + 1] /\ i + 1 \in 1..Len(queue)
  BY <1>1, <1>2
<1>4. f \in 1..Len(group)
  BY <1>2, <1>3 DEF Order, Ascending
<1>5. \A i \in 1..Len(group) : group[i] \in Group
  BY GroupTypes
<1>6. /\ Len(group') = Len(group)
      /\ \A i \in 1..Len(group) : /\ group'[i].finished <=> (i = f \/ group[i].finished)
                                  /\ group'[i].retain = group[i].retain
  <2> HIDE DEF f
  <2>0. group \in Seq(Group)
    BY GroupTypes
  <2> DEFINE v == [group[f] EXCEPT !.finished = TRUE]
  <2>1. group' = [group EXCEPT ![f] = v]
    BY <1>1
  <2>2. /\ Len(group') = Len(group) /\ group'[f] = v
        /\ \A i \in 1..Len(group) : i # f => group'[i] = group[i]
    <3> HIDE DEF v
    <3> QED BY <1>4, <2>0, <2>1, Replaced
  <2>3. group[f] \in Group
    BY <1>4, <1>5
  <2>4. group'[f].finished /\ group'[f].retain = group[f].retain
    BY <2>2, <2>3 DEF Group
  <2> HIDE DEF v
  <2> QED BY <2>2, <2>4
<1>7. \A g : Holders(g)' = Holders(g)
  BY <1>1 DEF Holders
<1>8. Holders(f) = {}
  <2>1. IsFiniteSet(Holders(f)) /\ Cardinality(Holders(f)) = 0
    BY <1>1, <1>2, <1>3, <1>4 DEF Holding
  <2> QED BY <2>1, FS_EmptySet
<1>9. ASSUME NEW g \in 1..Len(group)
      PROVE  ~group'[g].finished <=> \E i \in 1..Len(queue') : queue'[i] = g
  <2>1. \A i \in 1..Len(queue) : i # 1 => queue[i] # f
    BY <1>2, <1>3 DEF Order, Ascending
  <2>2. ~group[g].finished <=> \E i \in 1..Len(queue) : queue[i] = g
    BY DEF Holding
  <2>3. ASSUME NEW i \in 1..Len(queue') PROVE queue'[i] # f /\ \E j \in 1..Len(queue) : queue[j] = queue'[i]
    <3>1. i + 1 \in 1..Len(queue) /\ i + 1 # 1 /\ queue'[i] = queue[i + 1]
      BY <1>2, <1>3
    <3> QED BY <2>1, <3>1
  <2>4. ASSUME NEW i \in 1..Len(queue), queue[i] # f PROVE \E j \in 1..Len(queue') : queue'[j] = queue[i]
    <3>1. i # 1
      BY <1>2, <2>4
    <3>2. i - 1 \in 1..Len(queue') /\ (i - 1) + 1 = i
      BY <1>2, <1>3, <3>1
    <3>3. queue'[i - 1] = queue[(i - 1) + 1]
      BY <1>3, <3>2
    <3> QED BY <3>2, <3>3
  <2>5. (\E i \in 1..Len(queue') : queue'[i] = g) <=> g # f /\ \E i \in 1..Len(queue) : queue[i] = g
    BY <2>3, <2>4
  <2> HIDE DEF f
  <2> QED BY <1>6, <2>2, <2>5
<1> HIDE DEF Holders, f
<1> QED BY <1>1, <1>6, <1>7, <1>8, <1>9 DEF Holding

\* One callback takes the group g, which it did not hold: the group's count goes up.
LEMMA HoldingJoined ==
  ASSUME MainOK, Holding, NEW o \in Op \ Bare, NEW g \in Nat,
         conn'.epoch = conn.epoch, \A h : h # 0 => o \notin Holders(h),
         \A p \in Op : p # o => op'[p] = op[p],
         op'[o].state \in {"running", "waiting"}, op'[o].epoch = conn.epoch, op'[o].group = g,
         Len(group') >= Len(group), g \in 1..Len(group'), Len(group) \in Nat, Len(group') \in Nat,
         \A i \in 1..Len(group') : ~group'[i].finished <=> \E k \in 1..Len(queue') : queue'[k] = i,
         \A i \in 1..Len(group) : i # g => /\ group'[i].retain = group[i].retain
                                           /\ group'[i].finished = group[i].finished,
         \A i \in 1..Len(group') : i > Len(group) => i = g,
         ~group'[g].finished,
         g \in 1..Len(group) => ~group[g].finished /\ group'[g].retain = group[g].retain + 1,
         g \notin 1..Len(group) => group'[g].retain = 1
  PROVE  Holding'
<1>1. /\ Holders(g)' = Holders(g) \cup {o} /\ o \notin Holders(g)
      /\ \A h : h # g /\ h # 0 => Holders(h)' = Holders(h)
  <2>1. g # 0 /\ o \notin Holders(g)
    OBVIOUS
  <2>2. Holders(g)' = Holders(g) \cup {o}
    BY <2>1 DEF Holders
  <2>3. ASSUME NEW h, h # g, h # 0 PROVE Holders(h)' = Holders(h)
    <3>1. o \notin Holders(h)
      BY <2>3
    <3> QED BY <2>3, <3>1 DEF Holders
  <2> HIDE DEF Holders
  <2> QED BY <2>1, <2>2, <2>3
<1>2. IsFiniteSet(Holders(g)) /\ (g \in 1..Len(group) => Cardinality(Holders(g)) = group[g].retain)
      /\ (g \notin 1..Len(group) => Cardinality(Holders(g)) = 0)
  <2>1. CASE g \in 1..Len(group)
    BY <2>1 DEF Holding
  <2>2. CASE g \notin 1..Len(group)
    <3>1. Holders(g) = {}
      BY <2>2 DEF Holding, Holders
    <3> QED BY <2>2, <3>1, FS_EmptySet
  <2> QED BY <2>1, <2>2
<1>3. IsFiniteSet(Holders(g)') /\ Cardinality(Holders(g)') = Cardinality(Holders(g)) + 1
  BY <1>1, <1>2, FS_AddElement
<1>4. group'[g].retain = Cardinality(Holders(g)')
  BY <1>2, <1>3
<1>5. \A p \in Op : op'[p].epoch <= conn'.epoch /\ op'[p].group \in 0..Len(group')
  <2>1. \A p \in Op : op[p].epoch <= conn.epoch /\ op[p].group \in 0..Len(group)
    BY DEF Holding
  <2>2. conn.epoch \in Nat
    BY GroupTypes
  <2>3. \A p \in Op : op'[p] = op[p] \/ (op'[p].epoch = conn.epoch /\ op'[p].group = g)
    OBVIOUS
  <2> QED BY <2>1, <2>2, <2>3
<1>6. ASSUME NEW h \in 1..Len(group'), h # g
      PROVE  /\ ~group'[h].finished =>
                  IsFiniteSet(Holders(h)') /\ group'[h].retain = Cardinality(Holders(h)')
             /\ Holders(h)' # {} => ~group'[h].finished
  <2>1. h \in 1..Len(group) /\ h # 0
    BY <1>6
  <2> HIDE DEF Holders
  <2>2. Holders(h)' = Holders(h)
    BY <1>1, <1>6, <2>1
  <2>3. group'[h].retain = group[h].retain /\ group'[h].finished = group[h].finished
    BY <1>6, <2>1
  <2>4. /\ ~group[h].finished => IsFiniteSet(Holders(h)) /\ group[h].retain = Cardinality(Holders(h))
        /\ Holders(h) # {} => ~group[h].finished
    BY <2>1 DEF Holding
  <2> QED BY <2>2, <2>3, <2>4
<1> HIDE DEF Holders
<1> QED BY <1>3, <1>4, <1>5, <1>6 DEF Holding

LEMMA AmbientUnfinished ==
  ASSUME MainOK, Order, Holding, AmbientGroup # 0
  PROVE  AmbientGroup \in 1..Len(group) /\ Unfinished(AmbientGroup) /\ AmbientGroup = queue[1]
<1>1. flush.stage = "write" /\ AmbientGroup = flush.group
  BY DEF AmbientGroup
<1>2. queue # <<>> /\ flush.group = queue[1] /\ 1 \in 1..Len(queue)
  BY <1>1 DEF Order, WritesFirst, MainOK
<1>3. queue[1] \in 1..Len(group)
  BY <1>2 DEF Order, Ascending
<1>4. ~group[queue[1]].finished
  BY <1>2, <1>3 DEF Holding
<1> QED BY <1>1, <1>2, <1>3, <1>4, GroupTypes DEF Unfinished

LEMMA HoldingBegins ==
  ASSUME MainOK, Order, Holding, NEW o \in Op, Begin(o)
  PROVE  Holding'
<1>1. /\ UNCHANGED <<conn, queue>> /\ op[o].state = "idle"
  BY DEF Begin
<1>2. PICK g \in {0} \cup {AmbientGroup} \cup {op[p].group : p \in {q \in Op : Live(q)}} :
        /\ g # 0 => o \notin Bare /\ Unfinished(g)
        /\ op' = [op EXCEPT ![o] = [state |-> "running", epoch |-> conn.epoch, group |-> g]]
        /\ group' = IF g = 0 THEN group ELSE [group EXCEPT ![g].retain = @ + 1]
  BY DEF Begin
<1>3. /\ \A p \in Op : p # o => op'[p] = op[p]
      /\ op'[o].state = "running" /\ op'[o].epoch = conn.epoch /\ op'[o].group = g
  BY <1>2 DEF MainOK, OpTable
<1>4. g # 0 => g \in 1..Len(group)
  <2>1. \A p \in Op : op[p].group \in 0..Len(group)
    BY DEF Holding
  <2> QED BY <1>2, <2>1, AmbientUnfinished, GroupTypes
<1>5. \A h : o \notin Holders(h)
  BY <1>1 DEF Holders
<1>6. CASE g = 0
  <2>1. \A h \in 1..Len(group) : Holders(h)' = Holders(h)
    BY <1>1, <1>3, <1>6 DEF Holders
  <2>2. \A p \in Op : op'[p].epoch <= conn'.epoch /\ op'[p].group \in 0..Len(group)
    <3>1. \A p \in Op : op[p].epoch <= conn.epoch /\ op[p].group \in 0..Len(group)
      BY DEF Holding
    <3>2. \A p \in Op : op'[p] = op[p] \/ (op'[p].epoch = conn.epoch /\ op'[p].group = 0)
      BY <1>3, <1>6
    <3>3. conn.epoch \in Nat /\ Len(group) \in Nat
      BY GroupTypes
    <3> QED BY <1>1, <3>1, <3>2, <3>3
  <2>3. group' = group
    BY <1>2, <1>6
  <2> HIDE DEF Holders
  <2> QED BY <1>1, <2>1, <2>2, <2>3 DEF Holding
<1>7. CASE g # 0
  <2> DEFINE v == [group[g] EXCEPT !.retain = group[g].retain + 1]
  <2>1. group' = [group EXCEPT ![g] = v]
    BY <1>2, <1>7
  <2>2. /\ v.retain = group[g].retain + 1 /\ v.finished = group[g].finished
    BY <1>4, <1>7, GroupTypes DEF Group
  <2> HIDE DEF v
  <2>3. /\ Len(group') = Len(group) /\ group'[g] = v
        /\ \A k \in 1..Len(group) : k # g => group'[k] = group[k]
    BY <1>4, <1>7, <2>1, GroupTypes, Replaced
  <2>4. ~group[g].finished
    BY <1>2, <1>7 DEF Unfinished
  <2>5. \A i \in 1..Len(group') : ~group'[i].finished <=> \E k \in 1..Len(queue') : queue'[k] = i
    BY <1>1, <2>2, <2>3 DEF Holding
  <2>6. o \in Op \ Bare /\ g \in Nat
    BY <1>2, <1>4, <1>7
  <2>7. Len(group) \in Nat
    BY GroupTypes
  <2> HIDE DEF Holders
  <2> QED BY <1>1, <1>3, <1>4, <1>5, <1>7, <2>2, <2>3, <2>4, <2>5, <2>6, <2>7, HoldingJoined
<1> QED BY <1>6, <1>7

LEMMA HoldingReleases ==
  ASSUME MainOK, Holding, NEW o \in Op, End(o)
  PROVE  Holding'
<1>0. PICK g : g = op[o].group
  OBVIOUS
<1> DEFINE holds == op[o].epoch = conn.epoch /\ o \notin Bare
           gs == IF holds THEN Released(group, g) ELSE group
<1>1. /\ UNCHANGED <<conn, queue>> /\ op[o].state \in {"running", "cancelled"}
      /\ op' = [op EXCEPT ![o].state = "ended"] /\ group' = gs
  BY <1>0 DEF End
<1>2. /\ \A p \in Op : p # o => op'[p] = op[p]
      /\ op'[o].state = "ended" /\ op'[o].epoch = op[o].epoch /\ op'[o].group = g
  BY <1>0, <1>1 DEF MainOK, OpTable, OpRecord
<1>3. \A p \in Op : op'[p].epoch <= conn'.epoch /\ op'[p].group \in 0..Len(group)
  BY <1>0, <1>1, <1>2 DEF Holding
<1>4. CASE ~holds \/ g = 0
  <2>1. group' = group
    BY <1>1, <1>4 DEF Released
  <2>2. \A h \in 1..Len(group) : Holders(h)' = Holders(h)
    BY <1>0, <1>1, <1>2, <1>4 DEF Holders
  <2> HIDE DEF Holders, holds
  <2> QED BY <1>1, <1>3, <2>1, <2>2 DEF Holding
<1>5. CASE holds /\ g # 0
  <2>1. g \in 1..Len(group)
    BY <1>0, <1>5, GroupTypes DEF Holding
  <2>2. o \in Holders(g)
    BY <1>0, <1>1, <1>5 DEF Holders
  <2>3. /\ ~group[g].finished /\ IsFiniteSet(Holders(g)) /\ group[g].retain = Cardinality(Holders(g))
    BY <2>1, <2>2 DEF Holding
  <2>4. /\ Holders(g)' = Holders(g) \ {o} /\ \A h : h # g => Holders(h)' = Holders(h)
    BY <1>0, <1>1, <1>2 DEF Holders
  <2> DEFINE v == [group[g] EXCEPT !.retain = group[g].retain - 1]
  <2>5. IsFiniteSet(Holders(g)') /\ Cardinality(Holders(g)') = Cardinality(Holders(g)) - 1
    BY <2>2, <2>3, <2>4, FS_RemoveElement
  <2>6. group[g].retain > 0
    <3>1. Cardinality(Holders(g)) \in Nat
      BY <2>3, FS_CardinalityType
    <3>2. Cardinality(Holders(g)') \in Nat
      BY <2>5, FS_CardinalityType
    <3> QED BY <2>3, <2>5, <3>1, <3>2
  <2>7. group' = [group EXCEPT ![g] = v]
    BY <1>1, <1>5, <2>3, <2>6 DEF Released
  <2>8. v.retain = group[g].retain - 1 /\ v.finished = group[g].finished
    BY <2>1, GroupTypes DEF Group
  <2> HIDE DEF v, holds, gs, Holders
  <2>9. /\ Len(group') = Len(group) /\ group'[g] = v
        /\ \A k \in 1..Len(group) : k # g => group'[k] = group[k]
    BY <2>1, <2>7, GroupTypes, Replaced
  <2>10. \A h \in 1..Len(group') : ~group'[h].finished =>
           IsFiniteSet(Holders(h)') /\ group'[h].retain = Cardinality(Holders(h)')
    <3> SUFFICES ASSUME NEW h \in 1..Len(group'), ~group'[h].finished
                 PROVE  IsFiniteSet(Holders(h)') /\ group'[h].retain = Cardinality(Holders(h)')
      OBVIOUS
    <3>1. CASE h = g
      BY <2>3, <2>5, <2>8, <2>9, <3>1
    <3>2. CASE h # g
      <4> HIDE DEF Holders
      <4> QED BY <2>4, <2>9, <3>2 DEF Holding
    <3> QED BY <3>1, <3>2
  <2>11. \A h \in 1..Len(group') : /\ group'[h].finished = group[h].finished
                                   /\ Holders(h)' # {} => Holders(h) # {}
    BY <2>4, <2>8, <2>9
  <2> HIDE DEF Holders
  <2> QED BY <1>1, <1>3, <2>9, <2>10, <2>11 DEF Holding
<1> QED BY <1>4, <1>5

-----------------------------------------------------------------------------
(* What stageCausalOutboundTransmission does, for a scope of the connection. *)

Retains(o) == Live(o) /\ op[o].group = 0

\* t goes into an unfinished group g, which may be a new one.
StagesInto(o, t, g) ==
  LET old == g \in 1..Len(group) IN
  /\ g \in 1..Len(group')
  /\ IF old THEN ~group[g].finished /\ queue' = queue /\ Len(group') = Len(group)
            ELSE queue' = Append(queue, g) /\ Len(group') = Len(group) + 1 /\ g = Len(group')
  /\ \E base \in Group : /\ base.segments = IF old THEN group[g].segments ELSE <<>>
                         /\ group'[g].segments = Stage(base, t).segments
  /\ group'[g].retain = (IF old THEN group[g].retain ELSE 0) + (IF Retains(o) THEN 1 ELSE 0)
  /\ ~group'[g].finished
  /\ group'[g].closes = IF old THEN group[g].closes ELSE FALSE
  /\ group'[g].note = IF old THEN group[g].note ELSE FALSE
  /\ \A i \in 1..Len(group) : i # g => group'[i] = group[i]
  /\ flush' = flush \/ flush'.stage \in {"idle", "write"}

TransmitEffect(ops, o, t, g) ==
  /\ tx'[t].state = "staged" /\ tx'[t].op = o /\ tx'[t].group = g
  /\ \A u \in Tx : u # t => tx'[u] = tx[u]
  /\ \A p \in Op : p # o => op'[p] = ops[p]
  /\ op'[o].state = ops[o].state /\ op'[o].epoch = ops[o].epoch
  /\ op'[o].group = IF Retains(o) THEN g ELSE ops[o].group
  /\ Live(o) => g # 0 /\ (op[o].group # 0 => g = op[o].group)
  /\ g = 0 => flush'.stage = "direct" /\ group' = group /\ queue' = queue
  /\ g # 0 => StagesInto(o, t, g)

LEMMA TargetFacts ==
  ASSUME MainOK, Order, Holding, NEW o \in Op, Of(op, o, conn.epoch)
  PROVE  /\ OldGroup(o) \in 0..Len(group)
         /\ OldGroup(o) # 0 => ~group[OldGroup(o)].finished
         /\ Live(o) /\ op[o].group # 0 => OldGroup(o) = op[o].group
         /\ Live(o) /\ OldGroup(o) = 0 => NeedsGroup(o)
         /\ NeedsGroup(o) => OldGroup(o) = 0
<1>1. Live(o) /\ op[o].group # 0 => op[o].group \in 1..Len(group) /\ ~group[op[o].group].finished
  <2> SUFFICES ASSUME Live(o), op[o].group # 0
               PROVE  op[o].group \in 1..Len(group) /\ ~group[op[o].group].finished
    OBVIOUS
  <2>1. op[o].group \in 1..Len(group)
    BY GroupTypes DEF Holding
  <2>2. o \in Holders(op[o].group)
    BY DEF Live, Holders, Of
  <2> QED BY <2>1, <2>2 DEF Holding
<1>2. AmbientGroup # 0 => AmbientGroup \in 1..Len(group) /\ ~group[AmbientGroup].finished
  BY AmbientUnfinished DEF Unfinished
<1>3. Unfinished(op[o].group) => op[o].group \in 1..Len(group) /\ ~group[op[o].group].finished
  BY GroupTypes DEF Unfinished, Holding
<1>4. Len(group) \in Nat
  BY GroupTypes
<1>5. OldGroup(o) # 0 => OldGroup(o) \in 1..Len(group) /\ ~group[OldGroup(o)].finished
  BY <1>1, <1>2, <1>3 DEF OldGroup
<1>6. Live(o) => o \notin Bare
  BY DEF Live
<1> QED BY <1>4, <1>5, <1>6 DEF OldGroup, NeedsGroup

LEMMA TransmitFacts ==
  ASSUME MainOK, Order, Holding, NEW ops \in OpTable, NEW o \in Op, NEW t \in Tx,
         Of(op, o, conn.epoch), ops[o].group = op[o].group, Transmit(ops, o, t)
  PROVE  \E g \in 0..Len(group') : TransmitEffect(ops, o, t, g)
<1>0. PICK g : g = IF NeedsGroup(o) THEN Len(group) + 1 ELSE OldGroup(o)
  OBVIOUS
<1> DEFINE new     == NeedsGroup(o)
           retains == Retains(o)
           gs      == IF new THEN Append(group, NewGroup(0)) ELSE group
           held    == IF retains THEN [gs EXCEPT ![g].retain = @ + 1] ELSE gs
           staged  == [held EXCEPT ![g] = Stage(@, t)]
           q       == IF new THEN Append(queue, g) ELSE queue
<1>1. /\ tx' = [tx EXCEPT ![t] = [state |-> "staged", op |-> o, group |-> g]]
      /\ g = 0 => flush' = [stage |-> "direct", group |-> 0] /\ op' = ops /\ UNCHANGED <<group, queue>>
      /\ g # 0 => /\ group' = staged /\ queue' = q
                  /\ op' = IF retains THEN [ops EXCEPT ![o].group = g] ELSE ops
                  /\ flush' = flush \/ flush' = Kick(staged, q)
  BY <1>0 DEF Transmit, Retains
<1>2. /\ group \in Seq(Group) /\ Len(group) \in Nat
      /\ \A i \in 1..Len(group) : group[i] \in Group
  BY GroupTypes
<1>3. /\ g \in 0..(Len(group) + 1)
      /\ new <=> g = Len(group) + 1
      /\ g \in 1..Len(group) => ~group[g].finished
      /\ Live(o) => g # 0 /\ (op[o].group # 0 => g = op[o].group)
  <2>1. /\ OldGroup(o) \in 0..Len(group) /\ (OldGroup(o) # 0 => ~group[OldGroup(o)].finished)
        /\ Live(o) /\ op[o].group # 0 => OldGroup(o) = op[o].group
        /\ Live(o) /\ OldGroup(o) = 0 => new
        /\ new => OldGroup(o) = 0
    BY TargetFacts
  <2> HIDE DEF new
  <2>2. g = IF new THEN Len(group) + 1 ELSE OldGroup(o)
    BY <1>0 DEF new
  <2> QED BY <1>2, <2>1, <2>2
<1>4. /\ tx'[t].state = "staged" /\ tx'[t].op = o /\ tx'[t].group = g
      /\ \A u \in Tx : u # t => tx'[u] = tx[u]
  BY <1>1 DEF MainOK, TxTable
<1>5. /\ \A p \in Op : p # o => op'[p] = ops[p]
      /\ op'[o].state = ops[o].state /\ op'[o].epoch = ops[o].epoch
      /\ op'[o].group = IF retains THEN g ELSE ops[o].group
  <2>1. retains => g # 0
    BY <1>3 DEF Retains
  <2>2. op' = IF retains THEN [ops EXCEPT ![o].group = g] ELSE ops
    BY <1>1, <2>1
  <2> HIDE DEF retains
  <2> QED BY <2>2 DEF OpTable, OpRecord
<1>6. g = 0 => flush'.stage = "direct" /\ group' = group /\ queue' = queue
  BY <1>1
<1>7. ASSUME g # 0 PROVE StagesInto(o, t, g)
  <2> DEFINE old == g \in 1..Len(group)
             first == IF old THEN group[g] ELSE NewGroup(0)
             base == IF retains THEN [first EXCEPT !.retain = first.retain + 1] ELSE first
  <2>1. first \in Group /\ (~old => first.segments = <<>> /\ first.retain = 0 /\ ~first.finished
                                 /\ first.closes = FALSE /\ first.note = FALSE)
    BY <1>2, NewGroupType DEF NewGroup
  <2>2. ~first.finished /\ old = ~new
    BY <1>2, <1>3, <1>7, <2>1
  <2> HIDE DEF first
  <2>3. /\ base \in Group /\ base.segments = first.segments /\ base.finished = first.finished
        /\ base.retain = first.retain + (IF retains THEN 1 ELSE 0) /\ base.closes = first.closes
        /\ base.note = first.note
    <3>1. first.retain \in Nat
      BY <2>1, GroupFields
    <3>2. [first EXCEPT !.retain = first.retain + 1] \in Group
      <4>1. first.retain + 1 \in Nat
        BY <3>1
      <4> QED BY <2>1, <4>1, GroupFields
    <3>3. /\ [first EXCEPT !.retain = first.retain + 1].segments = first.segments
          /\ [first EXCEPT !.retain = first.retain + 1].finished = first.finished
          /\ [first EXCEPT !.retain = first.retain + 1].closes = first.closes
          /\ [first EXCEPT !.retain = first.retain + 1].note = first.note
          /\ [first EXCEPT !.retain = first.retain + 1].retain = first.retain + 1
      BY <2>1 DEF Group
    <3> QED BY <2>1, <3>1, <3>2, <3>3
  <2>4. /\ gs \in Seq(Group) /\ Len(gs) = (IF old THEN Len(group) ELSE Len(group) + 1)
        /\ g \in 1..Len(gs) /\ gs[g] = first
        /\ \A i \in 1..Len(group) : i # g => gs[i] = group[i]
    <3>1. CASE new
      <4>1. gs = Append(group, NewGroup(0)) /\ ~old /\ g = Len(group) + 1
        BY <1>3, <2>2, <3>1
      <4>2. first = NewGroup(0)
        BY <4>1 DEF first
      <4>3. /\ Append(group, NewGroup(0)) \in Seq(Group)
            /\ Len(Append(group, NewGroup(0))) = Len(group) + 1
            /\ Append(group, NewGroup(0))[Len(group) + 1] = NewGroup(0)
            /\ \A i \in 1..Len(group) : Append(group, NewGroup(0))[i] = group[i]
        BY <1>2, NewGroupType, AppendAt
      <4> QED BY <1>2, <4>1, <4>2, <4>3
    <3>2. CASE ~new
      <4>1. gs = group /\ old
        BY <2>2, <3>2
      <4> QED BY <1>2, <4>1 DEF first
    <3> QED BY <3>1, <3>2
  <2> HIDE DEF gs, base, new, old, retains
  <2>5. held = [gs EXCEPT ![g] = base] \/ (held = gs /\ base = first)
    BY <2>4 DEF base
  <2>6. /\ Len(held) = Len(gs) /\ held[g] = base /\ held \in Seq(Group)
        /\ \A i \in 1..Len(gs) : i # g => held[i] = gs[i]
    <3> HIDE DEF held
    <3>1. CASE held = [gs EXCEPT ![g] = base]
      BY <2>3, <2>4, <3>1, Replaced, ReplaceInSeq
    <3>2. CASE held = gs /\ base = first
      BY <2>4, <3>2
    <3> QED BY <2>5, <3>1, <3>2
  <2> HIDE DEF held
  <2>7. staged = [held EXCEPT ![g] = Stage(base, t)]
    BY <2>6
  <2>8. /\ Len(staged) = Len(gs) /\ staged[g] = Stage(base, t)
        /\ \A i \in 1..Len(gs) : i # g => staged[i] = gs[i]
    <3> HIDE DEF staged
    <3> QED BY <2>4, <2>6, <2>7, Replaced
  <2>9. /\ Stage(base, t).retain = base.retain /\ Stage(base, t).finished = base.finished
        /\ Stage(base, t).closes = base.closes /\ Stage(base, t).note = base.note
    BY <2>3 DEF Stage, Group
  <2>10. group' = staged /\ queue' = q
    BY <1>1, <1>7
  <2> HIDE DEF staged
  <2>11. flush' = flush \/ flush'.stage \in {"idle", "write"}
    BY <1>1, <1>7 DEF Kick, StartFlush, Idle
  <2>12. IF old THEN ~group[g].finished /\ queue' = queue /\ Len(group') = Len(group)
                ELSE queue' = Append(queue, g) /\ Len(group') = Len(group) + 1 /\ g = Len(group')
    BY <1>3, <2>2, <2>4, <2>8, <2>10 DEF old, new
  <2>13. group'[g].segments = Stage(base, t).segments
    BY <2>8, <2>10
  <2>14. base.segments = IF old THEN group[g].segments ELSE <<>>
    BY <2>1, <2>3 DEF first
  <2>15. group'[g].retain = (IF old THEN group[g].retain ELSE 0) + (IF retains THEN 1 ELSE 0)
    BY <2>1, <2>3, <2>8, <2>9, <2>10 DEF first
  <2>16. group'[g].closes = (IF old THEN group[g].closes ELSE FALSE) /\ ~group'[g].finished
    BY <2>1, <2>2, <2>3, <2>8, <2>9, <2>10 DEF first
  <2>19. group'[g].note = IF old THEN group[g].note ELSE FALSE
    BY <2>1, <2>3, <2>8, <2>9, <2>10 DEF first
  <2>17. \A i \in 1..Len(group) : i # g => group'[i] = group[i]
    BY <1>2, <2>4, <2>8, <2>10
  <2>18. g \in 1..Len(group')
    BY <2>4, <2>8, <2>10
  <2> QED BY <2>3, <2>11, <2>12, <2>13, <2>14, <2>15, <2>16, <2>17, <2>18, <2>19 DEF StagesInto, old, retains
<1>8. g \in 0..Len(group')
  <2>1. g = 0 => Len(group') = Len(group)
    BY <1>6
  <2>2. g # 0 => g \in 1..Len(group')
    BY <1>7 DEF StagesInto
  <2> QED BY <1>2, <2>1, <2>2
<1> HIDE DEF new, retains, gs, held, staged, q
<1> QED BY <1>3, <1>4, <1>5, <1>6, <1>7, <1>8 DEF TransmitEffect, retains

LEMMA HoldingStages ==
  ASSUME MainOK, Order, Holding, NEW ops, NEW o \in Op, NEW t \in Tx, NEW g \in Nat,
         conn'.epoch = conn.epoch, Of(op, o, conn.epoch), SoftOps(ops),
         \A p \in Op : p # o => ops[p] = op[p],
         Live(o) => ops[o].state \in {"running", "waiting"},
         TransmitEffect(ops, o, t, g)
  PROVE  Holding'
<1>1. /\ \A p \in Op : p # o => op'[p] = op[p]
      /\ op'[o].state = ops[o].state /\ op'[o].epoch = op[o].epoch
      /\ op'[o].group = IF Retains(o) THEN g ELSE op[o].group
      /\ Live(o) => g # 0
  BY DEF TransmitEffect, SoftOps
<1>2. Len(group) \in Nat /\ Len(queue) \in Nat /\ queue \in Seq(Nat) /\ conn.epoch \in Nat
  BY GroupTypes DEF MainOK
<1>3. CASE g = 0
  <2>1. SoftOps(op') /\ group' = group /\ queue' = queue
    BY <1>1, <1>3 DEF TransmitEffect, Retains, SoftOps
  <2> QED BY <2>1, HoldingSoft
<1>4. CASE g # 0
  <2> DEFINE old == g \in 1..Len(group)
  <2>1. /\ g \in 1..Len(group')
        /\ old => ~group[g].finished /\ queue' = queue /\ Len(group') = Len(group)
                  /\ group'[g].retain = group[g].retain + (IF Retains(o) THEN 1 ELSE 0)
        /\ ~old => queue' = Append(queue, g) /\ Len(group') = Len(group) + 1 /\ g = Len(group')
                   /\ group'[g].retain = (IF Retains(o) THEN 1 ELSE 0)
        /\ ~group'[g].finished
        /\ \A i \in 1..Len(group) : i # g => group'[i] = group[i]
    <3>1. StagesInto(o, t, g)
      BY <1>4 DEF TransmitEffect
    <3> HIDE DEF Retains
    <3> QED BY <3>1 DEF StagesInto
  <2>2. ASSUME NEW i \in 1..Len(group')
        PROVE  ~group'[i].finished <=> \E k \in 1..Len(queue') : queue'[k] = i
    <3>1. CASE old
      <4>1. ~group[i].finished <=> \E k \in 1..Len(queue) : queue[k] = i
        BY <2>1, <2>2, <3>1 DEF Holding
      <4> QED BY <2>1, <2>2, <3>1, <4>1
    <3>2. CASE ~old
      <4>1. /\ Len(queue') = Len(queue) + 1 /\ queue'[Len(queue) + 1] = g
            /\ \A k \in 1..Len(queue) : queue'[k] = queue[k]
        BY <1>2, <2>1, <3>2
      <4>2. CASE i = g
        <5>1. Len(queue) + 1 \in 1..Len(queue')
          BY <1>2, <4>1
        <5> QED BY <2>1, <4>1, <4>2, <5>1
      <4>3. CASE i # g
        <5>1. i \in 1..Len(group)
          BY <1>2, <2>1, <2>2, <3>2, <4>3
        <5>2. ~group[i].finished <=> \E k \in 1..Len(queue) : queue[k] = i
          BY <5>1 DEF Holding
        <5>3. \A k \in 1..Len(queue') : k \in 1..Len(queue) \/ k = Len(queue) + 1
          BY <1>2, <4>1
        <5>4. \A k \in 1..Len(queue) : k \in 1..Len(queue')
          BY <1>2, <4>1
        <5>5. (\E k \in 1..Len(queue') : queue'[k] = i) <=> \E k \in 1..Len(queue) : queue[k] = i
          BY <4>1, <4>3, <5>3, <5>4
        <5> QED BY <2>1, <4>3, <5>1, <5>2, <5>5
      <4> QED BY <4>2, <4>3
    <3> QED BY <3>1, <3>2
  <2>3. \A i \in 1..Len(group') : i > Len(group) => i = g
    BY <1>2, <2>1
  <2>4. CASE Retains(o)
    <3>1. o \in Op \ Bare /\ \A h : h # 0 => o \notin Holders(h)
      BY <2>4 DEF Retains, Live, Holders
    <3>2. op'[o].state \in {"running", "waiting"} /\ op'[o].group = g /\ op'[o].epoch = conn.epoch
      BY <1>1, <2>4 DEF Retains, Live, Of
    <3>3. Len(group') \in Nat /\ Len(group') >= Len(group)
      BY <1>2, <2>1
    <3>4. g \in 1..Len(group) => ~group[g].finished /\ group'[g].retain = group[g].retain + 1
      BY <2>1, <2>4
    <3>5. g \notin 1..Len(group) => group'[g].retain = 1
      BY <2>1, <2>4
    <3>6. \A i \in 1..Len(group) : i # g => /\ group'[i].retain = group[i].retain
                                             /\ group'[i].finished = group[i].finished
      BY <2>1
    <3> HIDE DEF Holders, Retains, Holding, Live
    <3> QED BY <1>1, <1>2, <2>1, <2>2, <2>3, <3>1, <3>2, <3>3, <3>4, <3>5, <3>6, HoldingJoined
  <2>5. CASE ~Retains(o)
    <3>1. SoftOps(op')
      BY <1>1, <2>5 DEF SoftOps
    <3>2. \A h : Holders(h)' = Holders(h)
      BY <3>1, SoftHolders
    <3>3. \A p \in Op : op'[p].epoch <= conn'.epoch /\ op'[p].group \in 0..Len(group')
      <4>1. \A p \in Op : op[p].epoch <= conn.epoch /\ op[p].group \in 0..Len(group)
        BY DEF Holding
      <4>2. 0..Len(group) \subseteq 0..Len(group')
        BY <1>2, <2>1
      <4> QED BY <3>1, <4>1, <4>2 DEF SoftOps
    <3>4. CASE old
      <4>1. Len(group') = Len(group) /\ group'[g].retain = group[g].retain + 0
        BY <2>1, <2>5, <3>4
      <4>2. \A i \in 1..Len(group') : group'[i].retain = group[i].retain /\ (group'[i].finished <=> group[i].finished)
        BY <2>1, <3>4, <4>1, GroupTypes
      <4> HIDE DEF Holders
      <4> QED BY <2>2, <3>2, <3>3, <4>1, <4>2 DEF Holding
    <3>5. CASE ~old
      <4>1. group'[g].retain = 0
        BY <2>1, <2>5, <3>5
      <4>2. Holders(g) = {}
        <5>1. \A p \in Op : op[p].group \in 0..Len(group)
          BY DEF Holding
        <5>2. g \notin 0..Len(group)
          BY <1>2, <1>4, <3>5
        <5> QED BY <5>1, <5>2 DEF Holders
      <4>3. IsFiniteSet(Holders(g)') /\ Cardinality(Holders(g)') = 0
        BY <3>2, <4>2, FS_EmptySet
      <4>4. \A i \in 1..Len(group') : i # g => i \in 1..Len(group) /\ group'[i] = group[i]
        BY <1>2, <2>1, <3>5
      <4>5. \A i \in 1..Len(group') :
              /\ ~group'[i].finished =>
                   IsFiniteSet(Holders(i)') /\ group'[i].retain = Cardinality(Holders(i)')
              /\ Holders(i)' # {} => ~group'[i].finished
        <5> SUFFICES ASSUME NEW i \in 1..Len(group')
                     PROVE  /\ ~group'[i].finished =>
                                 IsFiniteSet(Holders(i)') /\ group'[i].retain = Cardinality(Holders(i)')
                            /\ Holders(i)' # {} => ~group'[i].finished
          OBVIOUS
        <5>1. CASE i = g
          BY <2>1, <4>1, <4>3, <5>1
        <5>2. CASE i # g
          <6> HIDE DEF Holders
          <6> QED BY <3>2, <4>4, <5>2 DEF Holding
        <5> QED BY <5>1, <5>2
      <4> HIDE DEF Holders
      <4> QED BY <2>2, <3>3, <4>5 DEF Holding
    <3> QED BY <3>4, <3>5
  <2> QED BY <2>4, <2>5
<1> QED BY <1>3, <1>4

-----------------------------------------------------------------------------
(* What is staged stands in one place of its group, or is to be written at *)
(* once.                                                                    *)

Stock ==
  /\ \A t \in Tx : Staged(t) /\ tx[t].group # 0 =>
       tx[t].group \in 1..Len(group) /\ Holds(group[tx[t].group].segments, t)
  /\ \A i \in 1..Len(group), t \in Tx : Holds(group[i].segments, t) => Staged(t) /\ tx[t].group = i
  /\ \A i \in 1..Len(group) : /\ Filed(group[i].segments)
                              /\ group[i].finished => group[i].segments = <<>>

\* The sends that are staged stay staged, where they are.
SameStaged == \A t \in Tx : /\ tx'[t].state = "staged" <=> Staged(t)
                            /\ Staged(t) => tx'[t].group = tx[t].group

LEMMA StockKept ==
  ASSUME Stock, SameStaged, Len(group') = Len(group),
         \A i \in 1..Len(group) : /\ group'[i].segments = group[i].segments
                                  /\ group'[i].finished => group[i].finished \/ group[i].segments = <<>>
  PROVE  Stock'
<1>1. \A t \in Tx : tx'[t].state = "staged" /\ tx'[t].group # 0 =>
        tx'[t].group \in 1..Len(group') /\ Holds(group'[tx'[t].group].segments, t)
  BY DEF Stock, SameStaged
<1>2. \A i \in 1..Len(group'), t \in Tx : Holds(group'[i].segments, t) =>
        tx'[t].state = "staged" /\ tx'[t].group = i
  BY DEF Stock, SameStaged
<1>3. \A i \in 1..Len(group') : /\ Filed(group'[i].segments)
                                /\ group'[i].finished => group'[i].segments = <<>>
  BY DEF Stock
<1> QED BY <1>1, <1>2, <1>3 DEF Stock, Staged, Holds, At, Filed, Once, Unsealed

LEMMA StockEnds ==
  ASSUME \A t \in Tx : tx'[t].state # "staged",
         \A i \in 1..Len(group') : group'[i].segments = <<>> /\ group'[i].finished
  PROVE  Stock'
<1>1. \A i \in 1..Len(group'), t \in Tx : ~Holds(group'[i].segments, t)
  BY EmptyFacts
<1>2. \A i \in 1..Len(group') : Filed(group'[i].segments)
  BY EmptyFacts
<1> QED BY <1>1, <1>2 DEF Stock, Staged, Holds, At, Filed, Once, Unsealed

LEMMA StockPops ==
  ASSUME MainOK, Order, Stock, FlushPop
  PROVE  /\ Stock' /\ flush.group \in 1..Len(group)
         /\ Len(group') = Len(group)
         /\ \A i \in 1..Len(group) : i # flush.group => group'[i] = group[i]
         /\ \A u, v \in Tx : Before(group[flush.group].segments, u, v)
                               => Before(group'[flush.group].segments, u, v)
         /\ \A i \in 1..Len(group) : /\ group'[i].retain = group[i].retain
                                     /\ group'[i].finished = group[i].finished
<1>0. PICK g : g = flush.group
  OBVIOUS
<1> DEFINE S == group[g].segments
           v == [group[g] EXCEPT !.segments = Tail(S)]
<1>1. /\ flush.stage = "write" /\ S # <<>> /\ S[1].txs = <<>> /\ UNCHANGED <<conn, op, tx, queue>>
      /\ group' = [group EXCEPT ![g] = v]
  BY <1>0 DEF FlushPop, Writing, MayWrite, FirstSegment
<1>2. g \in 1..Len(group)
  BY <1>0, <1>1 DEF Order, WritesFirst, Ascending, MainOK
<1>3. v.segments = Tail(S) /\ v.finished = group[g].finished /\ v.retain = group[g].retain
  BY <1>2, GroupTypes DEF Group
<1> HIDE DEF v
<1>4. /\ Len(group') = Len(group) /\ group'[g] = v
      /\ \A i \in 1..Len(group) : i # g => group'[i] = group[i]
  BY <1>1, <1>2, GroupTypes, Replaced
<1>5. /\ Filed(Tail(S))
      /\ \A u \in Tx : Holds(Tail(S), u) <=> Holds(S, u)
      /\ \A u, w \in Tx : Before(S, u, w) => Before(Tail(S), u, w)
  BY <1>1, <1>2, PopFacts DEF Stock
<1>6. ~group[g].finished
  BY <1>1, <1>2 DEF Stock
<1>7. ASSUME NEW t \in Tx, tx'[t].state = "staged", tx'[t].group # 0
      PROVE  tx'[t].group \in 1..Len(group') /\ Holds(group'[tx'[t].group].segments, t)
  <2>1. tx[t].group \in 1..Len(group) /\ Holds(group[tx[t].group].segments, t) /\ tx' = tx
    BY <1>1, <1>7 DEF Stock, Staged
  <2> HIDE DEF S
  <2> QED BY <1>3, <1>4, <1>5, <2>1 DEF S
<1>8. ASSUME NEW i \in 1..Len(group'), NEW t \in Tx, Holds(group'[i].segments, t)
      PROVE  tx'[t].state = "staged" /\ tx'[t].group = i
  <2>1. Holds(group[i].segments, t)
    BY <1>3, <1>4, <1>5, <1>8
  <2> QED BY <1>1, <1>4, <2>1 DEF Stock, Staged
<1>9. \A i \in 1..Len(group') : /\ Filed(group'[i].segments)
                                /\ group'[i].finished => group'[i].segments = <<>>
  BY <1>3, <1>4, <1>5, <1>6 DEF Stock
<1>10. Stock'
  BY <1>7, <1>8, <1>9 DEF Stock, Staged, Holds, At, Filed, Once, Unsealed
<1> HIDE DEF S
<1> QED BY <1>0, <1>2, <1>3, <1>4, <1>5, <1>10 DEF S

\* The socket takes the send t, or refuses it.
Writes(t) ==
  /\ tx'[t].op = tx[t].op /\ tx'[t].group = tx[t].group
  /\ \A u \in Tx : u # t => tx'[u] = tx[u]
  /\ \/ /\ tx'[t].state = IF t \in Command THEN "written" ELSE "done"
        /\ UNCHANGED <<op, slot>>
        /\ \E e : e.tx = t /\ log' = Append(log, e) /\ e \in LogEntry
     \/ /\ tx'[t].state = "rejected" /\ log' = log
        /\ IF t \in Command THEN slot' = None /\ op' = Stopped(op, tx[t].op) ELSE UNCHANGED <<slot, op>>

LEMMA WritesTx ==
  ASSUME MainOK, NEW t \in Tx, NEW g \in Nat, NEW gs \in Seq(Group),
         Accepted(t, g, gs) \/ Failed(t, gs)
  PROVE  /\ Writes(t) /\ Alike(group', gs)
         /\ conn'.epoch = conn.epoch /\ conn'.phase = conn.phase /\ conn'.sock = conn.sock
<1>1. CASE Accepted(t, g, gs)
  <2>1. /\ tx' = [tx EXCEPT ![t].state = IF t \in Command THEN "written" ELSE "done"]
        /\ conn' = [conn EXCEPT !.buffer = Append(@, t)]
        /\ UNCHANGED <<op, slot>>
        /\ log' = Append(log, [tx |-> t, group |-> g, epoch |-> conn.epoch])
        /\ \/ group' = gs
           \/ \E n : group' = [gs EXCEPT ![g].note = t \in Command, ![g].records = n]
    BY <1>1 DEF Accepted
  <2>2. \E e : e.tx = t /\ log' = Append(log, e) /\ e \in LogEntry
    <3> DEFINE entry == [tx |-> t, group |-> g, epoch |-> conn.epoch]
    <3>1. entry.tx = t /\ entry \in LogEntry
      BY GroupTypes DEF LogEntry
    <3>2. log' = Append(log, entry)
      BY <2>1
    <3> HIDE DEF entry
    <3> QED BY <3>1, <3>2
  <2>3. Alike(group', gs)
    <3>1. CASE group' = gs
      BY <3>1, FieldsAlike
    <3>2. ASSUME NEW n, group' = [gs EXCEPT ![g].note = t \in Command, ![g].records = n]
          PROVE  Alike(group', gs)
      <4>1. \A b, m : Alike([gs EXCEPT ![g].note = b, ![g].records = m], gs)
        BY FieldsAlike
      <4>2. Alike([gs EXCEPT ![g].note = t \in Command, ![g].records = n], gs)
        BY <4>1
      <4> QED BY <3>2, <4>2
    <3> QED BY <2>1, <3>1, <3>2
  <2>4. conn'.epoch = conn.epoch /\ conn'.phase = conn.phase /\ conn'.sock = conn.sock
    BY <2>1 DEF MainOK, ConnType
  <2>5. /\ tx'[t].state = (IF t \in Command THEN "written" ELSE "done")
        /\ tx'[t].op = tx[t].op /\ tx'[t].group = tx[t].group
        /\ \A u \in Tx : u # t => tx'[u] = tx[u]
    BY <2>1 DEF MainOK, TxTable, TxRecord
  <2> QED BY <2>1, <2>2, <2>3, <2>4, <2>5 DEF Writes
<1>2. CASE Failed(t, gs)
  <2>1. /\ tx' = [tx EXCEPT ![t].state = "rejected"] /\ group' = gs /\ UNCHANGED <<conn, log>>
        /\ IF t \in Command THEN slot' = None /\ op' = Stopped(op, tx[t].op) ELSE UNCHANGED <<slot, op>>
    BY <1>2 DEF Failed
  <2>2. /\ tx'[t].state = "rejected"
        /\ tx'[t].op = tx[t].op /\ tx'[t].group = tx[t].group
        /\ \A u \in Tx : u # t => tx'[u] = tx[u]
    BY <2>1 DEF MainOK, TxTable, TxRecord
  <2>3. Alike(group', gs)
    BY <2>1, FieldsAlike
  <2> QED BY <2>1, <2>2, <2>3 DEF Writes
<1> QED BY <1>1, <1>2

\* A write of the flush takes the first send of the group.
TakesFirst(t) ==
  /\ Writes(t) /\ Staged(t) /\ tx[t].group # 0 /\ tx[t].group = flush.group
  /\ UNCHANGED <<flush, queue>> /\ conn'.epoch = conn.epoch
  /\ conn'.phase = conn.phase /\ conn'.sock = conn.sock
  /\ Len(group') = Len(group)
  /\ \A i \in 1..Len(group) : group'[i].retain = group[i].retain /\ group'[i].finished = group[i].finished
  /\ \A u \in Tx : Staged(u) /\ tx[u].group = tx[t].group => ~Before(group[tx[t].group].segments, u, t)
  /\ \A i \in 1..Len(group), u, v \in Tx :
       Before(group[i].segments, u, v) => Before(group'[i].segments, u, v)

LEMMA StockWrites ==
  ASSUME MainOK, Order, Stock, FlushWrite
  PROVE  \/ TelnetFails
         \/ Stock' /\ \E t \in Tx : TakesFirst(t)
<1>0. PICK g : g = flush.group
  OBVIOUS
<1> DEFINE S == group[g].segments
           t == Head(S[1].txs)
           rest == [S EXCEPT ![1] = [S[1] EXCEPT !.txs = Tail(S[1].txs)]]
           v == [group[g] EXCEPT !.segments = rest]
           gs == [group EXCEPT ![g].segments[1].txs = Tail(@)]
<1>1. /\ flush.stage = "write" /\ S # <<>> /\ S[1].txs # <<>>
      /\ \/ (Accepted(t, g, gs) \/ Failed(t, gs)) /\ UNCHANGED <<flush, queue>>
         \/ TelnetFails
  BY <1>0 DEF FlushWrite, Writing, MayWrite, FirstSegment
<1>2. g \in 1..Len(group) /\ g \in Nat
  BY <1>0, <1>1 DEF Order, WritesFirst, Ascending, MainOK
<1>3. Filed(S) /\ group[g] \in Group /\ S \in Seq(Segment) /\ 1 \in 1..Len(S)
  <2>1. Filed(S) /\ S \in Seq(Segment)
    BY <1>2, GroupTypes DEF Stock
  <2> QED BY <1>1, <1>2, <2>1, GroupTypes
<1>4. /\ Filed(rest) /\ t \in Tx /\ Holds(S, t)
      /\ \A u \in Tx : Holds(rest, u) <=> Holds(S, u) /\ u # t
      /\ \A u, w \in Tx : Before(S, u, w) => Before(rest, u, w)
      /\ \A u \in Tx : Holds(S, u) => ~Before(S, u, t)
  BY <1>1, <1>3, HeadFacts
<1>5. gs = [group EXCEPT ![g] = v]
  <2>1. S[1] \in Segment
    BY <1>3
  <2> QED BY <1>3, <2>1 DEF Group, Segment
<1>6. v.segments = rest /\ v.finished = group[g].finished /\ v.retain = group[g].retain /\ v \in Group
  <2>1. rest \in Seq(Segment)
    BY <1>4 DEF Filed
  <2> HIDE DEF rest
  <2> QED BY <1>3, <2>1, GroupFields DEF Group
<1> HIDE DEF v, rest, gs, t
<1>7. /\ Len(gs) = Len(group) /\ gs[g] = v /\ gs \in Seq(Group)
      /\ \A i \in 1..Len(group) : i # g => gs[i] = group[i]
  BY <1>2, <1>5, <1>6, GroupTypes, Replaced, ReplaceInSeq
<1>8. SUFFICES ASSUME Accepted(t, g, gs) \/ Failed(t, gs), UNCHANGED <<flush, queue>>
               PROVE  Stock' /\ TakesFirst(t)
  BY <1>1, <1>4
<1>9. /\ Writes(t) /\ Alike(group', gs)
      /\ conn'.epoch = conn.epoch /\ conn'.phase = conn.phase /\ conn'.sock = conn.sock
  BY <1>2, <1>4, <1>7, <1>8, WritesTx
<1>10. /\ Len(group') = Len(group) /\ group'[g].segments = rest
       /\ \A i \in 1..Len(group) : /\ i # g => group'[i].segments = group[i].segments
                                   /\ group'[i].retain = group[i].retain
                                   /\ group'[i].finished = group[i].finished
  BY <1>2, <1>6, <1>7, <1>9 DEF Alike
<1>11. Staged(t) /\ tx[t].group = g /\ g # 0 /\ ~group[g].finished
  BY <1>1, <1>2, <1>4 DEF Stock
<1>12. tx'[t].state # "staged" /\ \A u \in Tx : u # t => tx'[u] = tx[u]
  BY <1>9 DEF Writes
<1>13. ASSUME NEW u \in Tx, tx'[u].state = "staged", tx'[u].group # 0
       PROVE  tx'[u].group \in 1..Len(group') /\ Holds(group'[tx'[u].group].segments, u)
  <2>1. u # t /\ tx'[u] = tx[u]
    BY <1>12, <1>13
  <2>2. tx[u].group \in 1..Len(group) /\ Holds(group[tx[u].group].segments, u)
    BY <1>13, <2>1 DEF Stock, Staged
  <2>3. CASE tx[u].group = g
    BY <1>4, <1>10, <2>1, <2>2, <2>3
  <2>4. CASE tx[u].group # g
    BY <1>10, <2>1, <2>2, <2>4
  <2> QED BY <2>3, <2>4
<1>14. ASSUME NEW i \in 1..Len(group'), NEW u \in Tx, Holds(group'[i].segments, u)
       PROVE  tx'[u].state = "staged" /\ tx'[u].group = i
  <2>1. Holds(group[i].segments, u) /\ u # t
    <3>1. CASE i = g
      BY <1>4, <1>10, <1>14, <3>1
    <3>2. CASE i # g
      <4>1. Holds(group[i].segments, u)
        BY <1>10, <1>14, <3>2
      <4>2. tx[u].group = i
        BY <1>10, <4>1 DEF Stock
      <4> QED BY <1>11, <3>2, <4>1, <4>2
    <3> QED BY <3>1, <3>2
  <2> QED BY <1>10, <1>12, <2>1 DEF Stock, Staged
<1>15. \A i \in 1..Len(group') : /\ Filed(group'[i].segments)
                                 /\ group'[i].finished => group'[i].segments = <<>>
  BY <1>4, <1>10, <1>11 DEF Stock
<1>16. Stock'
  BY <1>13, <1>14, <1>15 DEF Stock, Staged, Holds, At, Filed, Once, Unsealed
<1>17. \A i \in 1..Len(group), u, w \in Tx :
         Before(group[i].segments, u, w) => Before(group'[i].segments, u, w)
  BY <1>4, <1>10
<1>18. \A u \in Tx : Staged(u) /\ tx[u].group = g => ~Before(S, u, t)
  BY <1>2, <1>4 DEF Stock
<1> QED BY <1>0, <1>8, <1>9, <1>10, <1>11, <1>16, <1>17, <1>18 DEF TakesFirst

LEMMA StockDirect ==
  ASSUME MainOK, Stock, NEW t \in Tx, Staged(t), tx[t].group = 0, Writes(t),
         Alike(group', group)
  PROVE  Stock'
<1>1. tx'[t].state # "staged" /\ \A u \in Tx : u # t => tx'[u] = tx[u]
  BY DEF Writes
<1>2. /\ Len(group') = Len(group)
      /\ \A i \in 1..Len(group) : /\ group'[i].segments = group[i].segments
                                  /\ group'[i].finished = group[i].finished
  BY DEF Alike
<1>3. \A u \in Tx : tx'[u].state = "staged" /\ tx'[u].group # 0 =>
        tx'[u].group \in 1..Len(group') /\ Holds(group'[tx'[u].group].segments, u)
  BY <1>1, <1>2 DEF Stock, Staged
<1>4. \A i \in 1..Len(group'), u \in Tx : Holds(group'[i].segments, u) =>
        tx'[u].state = "staged" /\ tx'[u].group = i
  <2> SUFFICES ASSUME NEW i \in 1..Len(group'), NEW u \in Tx, Holds(group'[i].segments, u)
               PROVE  tx'[u].state = "staged" /\ tx'[u].group = i
    OBVIOUS
  <2>1. Staged(u) /\ tx[u].group = i /\ i # 0
    BY <1>2 DEF Stock
  <2> QED BY <1>1, <2>1 DEF Staged
<1>5. \A i \in 1..Len(group') : /\ Filed(group'[i].segments)
                                /\ group'[i].finished => group'[i].segments = <<>>
  BY <1>2 DEF Stock
<1> QED BY <1>3, <1>4, <1>5 DEF Stock, Staged, Holds, At, Filed, Once, Unsealed

LEMMA StockStages ==
  ASSUME MainOK, Stock, NEW ops, NEW o \in Op, NEW t \in Tx, NEW g \in Nat,
         ~Staged(t), TransmitEffect(ops, o, t, g)
  PROVE  /\ Stock'
         /\ \A i \in 1..Len(group), u, v \in Tx :
              u # t /\ v # t /\ Before(group[i].segments, u, v) => Before(group'[i].segments, u, v)
         /\ g # 0 => \A u \in Tx : u # t /\ ~(t \in Priority /\ u \notin Command)
                                     => Before(group'[g].segments, u, t)
<1>1. /\ tx'[t].state = "staged" /\ tx'[t].group = g
      /\ \A u \in Tx : u # t => tx'[u] = tx[u]
  BY DEF TransmitEffect
<1>2. CASE g = 0
  <2>1. group' = group
    BY <1>2 DEF TransmitEffect
  <2>2. \A u \in Tx : tx'[u].state = "staged" /\ tx'[u].group # 0 =>
          tx'[u].group \in 1..Len(group') /\ Holds(group'[tx'[u].group].segments, u)
    BY <1>1, <1>2, <2>1 DEF Stock, Staged
  <2>3. \A i \in 1..Len(group'), u \in Tx : Holds(group'[i].segments, u) =>
          tx'[u].state = "staged" /\ tx'[u].group = i
    BY <1>1, <2>1 DEF Stock, Staged
  <2>4. \A i \in 1..Len(group') : /\ Filed(group'[i].segments)
                                  /\ group'[i].finished => group'[i].segments = <<>>
    BY <2>1 DEF Stock
  <2>5. Stock'
    BY <2>2, <2>3, <2>4 DEF Stock, Staged, Holds, At, Filed, Once, Unsealed
  <2> QED BY <1>2, <2>1, <2>5
<1>3. CASE g # 0
  <2> DEFINE old == g \in 1..Len(group)
  <2>1. PICK base \in Group : /\ base.segments = IF old THEN group[g].segments ELSE <<>>
                              /\ group'[g].segments = Stage(base, t).segments
    BY <1>3 DEF TransmitEffect, StagesInto
  <2>2. /\ g \in 1..Len(group') /\ ~group'[g].finished
        /\ \A i \in 1..Len(group) : i # g => group'[i] = group[i]
        /\ IF old THEN Len(group') = Len(group) ELSE Len(group') = Len(group) + 1 /\ g = Len(group')
    BY <1>3 DEF TransmitEffect, StagesInto
  <2>3. Filed(base.segments) /\ ~Holds(base.segments, t)
    <3>1. CASE old
      BY <2>1, <3>1 DEF Stock
    <3>2. CASE ~old
      BY <2>1, <3>2, EmptyFacts
    <3> QED BY <3>1, <3>2
  <2> DEFINE R == group'[g].segments
  <2>4. /\ Filed(R)
        /\ \A u \in Tx : Holds(R, u) <=> Holds(base.segments, u) \/ u = t
        /\ \A u, v \in Tx : u # t /\ v # t /\ Before(base.segments, u, v) => Before(R, u, v)
        /\ \A u \in Tx : u # t /\ ~(t \in Priority /\ u \notin Command) => Before(R, u, t)
    BY <2>1, <2>3, StageFacts
  <2>5. \A i \in 1..Len(group') : i # g => i \in 1..Len(group) /\ group'[i] = group[i]
    BY <2>2, GroupTypes
  <2>6. \A i \in 1..Len(group) : i \in 1..Len(group')
    BY <2>2, GroupTypes
  <2>7. ~old => \A u \in Tx : ~Holds(base.segments, u)
    BY <2>1, EmptyFacts
  <2> HIDE DEF R
  <2>8. ASSUME NEW u \in Tx, tx'[u].state = "staged", tx'[u].group # 0
        PROVE  tx'[u].group \in 1..Len(group') /\ Holds(group'[tx'[u].group].segments, u)
    <3>1. CASE u = t
      BY <1>1, <2>2, <2>4, <3>1 DEF R
    <3>2. CASE u # t
      <4>1. tx[u].group \in 1..Len(group) /\ Holds(group[tx[u].group].segments, u) /\ tx'[u] = tx[u]
        BY <1>1, <2>8, <3>2 DEF Stock, Staged
      <4>2. CASE tx[u].group = g
        BY <2>1, <2>2, <2>4, <4>1, <4>2 DEF R
      <4>3. CASE tx[u].group # g
        BY <2>2, <2>6, <4>1, <4>3
      <4> QED BY <4>2, <4>3
    <3> QED BY <3>1, <3>2
  <2>9. ASSUME NEW i \in 1..Len(group'), NEW u \in Tx, Holds(group'[i].segments, u)
        PROVE  tx'[u].state = "staged" /\ tx'[u].group = i
    <3>1. CASE i = g /\ u = t
      BY <1>1, <3>1
    <3>2. CASE i = g /\ u # t
      <4>1. Holds(base.segments, u) /\ old
        BY <2>4, <2>7, <2>9, <3>2 DEF R
      <4>2. Staged(u) /\ tx[u].group = g
        BY <2>1, <4>1 DEF Stock
      <4> QED BY <1>1, <3>2, <4>2 DEF Staged
    <3>3. CASE i # g
      <4>1. i \in 1..Len(group) /\ Holds(group[i].segments, u)
        BY <2>5, <2>9, <3>3
      <4>2. Staged(u) /\ tx[u].group = i
        BY <4>1 DEF Stock
      <4> QED BY <1>1, <4>2 DEF Staged
    <3> QED BY <3>1, <3>2, <3>3
  <2>10. \A i \in 1..Len(group') : /\ Filed(group'[i].segments)
                                   /\ group'[i].finished => group'[i].segments = <<>>
    BY <2>2, <2>4, <2>5 DEF Stock, R
  <2>11. Stock'
    BY <2>8, <2>9, <2>10 DEF Stock, Staged, Holds, At, Filed, Once, Unsealed
  <2>12. ASSUME NEW i \in 1..Len(group), NEW u \in Tx, NEW v \in Tx, u # t, v # t,
                Before(group[i].segments, u, v)
         PROVE  Before(group'[i].segments, u, v)
    BY <2>1, <2>2, <2>4, <2>12 DEF R
  <2> QED BY <2>4, <2>11, <2>12 DEF R
<1> QED BY <1>2, <1>3

-----------------------------------------------------------------------------
(* Where a command waits: it is asked about, or it stands in                *)
(* m_pendingPluginSends once.                                               *)

Places ==
  /\ deciding # None => deciding \in Command /\ tx[deciding].state = "deciding"
  /\ \A i \in 1..Len(pending) : pending[i] \in Command /\ tx[pending[i]].state = "pending"
  /\ \A i, j \in 1..Len(pending) : pending[i] = pending[j] => i = j
  /\ slot # None => slot \in Command
  /\ settling # None => tx[settling].state = "settled"

\* The send t is a new one of o, or a command of o that has waited.
Origin(o, t) ==
  \/ /\ tx[t].state = "new" /\ op[o].state \in {"running", "ended"}
     /\ asked' = asked \/ (Live(o) /\ asked' = Append(asked, t))
  \/ /\ tx[t].state \in {"pending", "deciding"} /\ t \in Command /\ tx[t].op = o
     /\ asked' = asked

\* It is refused, it waits, or it is staged.
OneChanges(o, t, s) ==
  /\ tx'[t].state = s /\ tx'[t].op = o /\ tx'[t].group = tx[t].group
  /\ \A u \in Tx : u # t => tx'[u] = tx[u]

Rejects(o, t) == /\ OneChanges(o, t, "rejected") /\ op' = Resumed(op, o)
                 /\ UNCHANGED <<group, queue, flush>>

Parks(o, t) == /\ OneChanges(o, t, "pending") \/ OneChanges(o, t, "deciding")
               /\ t \in Command /\ op' = Waits(o)
               /\ UNCHANGED <<group, queue, flush>>

Stages(o, t) == /\ Of(op, o, conn.epoch) /\ conn.phase = "connected"
                /\ Transmit(IF t \in Command THEN Waits(o) ELSE op, o, t)

Takes(o, t) == /\ conn' = conn /\ log' = log /\ op[o].state # "idle"
               /\ UNCHANGED <<records, publishing>> /\ flush.stage # "direct"
               /\ Origin(o, t) /\ (Rejects(o, t) \/ Parks(o, t) \/ Stages(o, t))
               /\ flush'.stage = "direct" => ~Draining'

LEMMA ChangeOne ==
  ASSUME MainOK, NEW o \in Op, NEW t \in Tx, NEW s,
         \/ tx' = [tx EXCEPT ![t].state = s, ![t].op = o]
         \/ tx' = [tx EXCEPT ![t].state = s] /\ tx[t].op = o
         \/ tx' = [tx EXCEPT ![t] = [@ EXCEPT !.state = s, !.op = o]]
  PROVE  OneChanges(o, t, s)
<1>1. tx[t] \in TxRecord /\ tx \in [Tx -> TxRecord]
  BY DEF MainOK, TxTable
<1>2. CASE tx' = [tx EXCEPT ![t].state = s, ![t].op = o]
  BY <1>1, <1>2 DEF OneChanges, TxRecord
<1>3. CASE tx' = [tx EXCEPT ![t].state = s] /\ tx[t].op = o
  BY <1>1, <1>3 DEF OneChanges, TxRecord
<1>4. CASE tx' = [tx EXCEPT ![t] = [@ EXCEPT !.state = s, !.op = o]]
  BY <1>1, <1>4 DEF OneChanges, TxRecord
<1> QED BY <1>2, <1>3, <1>4

LEMMA QuietNotDirect ==
  ASSUME Quiet
  PROVE  flush.stage # "direct" /\ ~Draining /\ (flush.stage = "idle" \/ flush.stage = "write")
BY DEF Quiet, Flushing, Notifying

LEMMA SlotTaken ==
  ASSUME slot' # None
  PROVE  ~Draining'
BY DEF Draining

LEMMA SendRawTakes ==
  ASSUME MainOK, NEW o \in Op, NEW t \in Tx, SendRaw(o, t)
  PROVE  Takes(o, t)
<1>1. /\ op[o].state \in {"running", "ended"} /\ tx[t].state = "new" /\ t \notin Command
      /\ UNCHANGED <<conn, slot, deciding, pending, inline, log, records, publishing>> /\ Quiet
  BY DEF SendRaw, CanAct
<1>2. flush.stage # "direct" /\ ~Draining'
  BY <1>1, QuietNotDirect DEF Draining
<1>3. CASE ContextRejected(o) \/ conn.phase # "connected"
  <2>1. /\ tx' = [tx EXCEPT ![t] = [@ EXCEPT !.state = "rejected", !.op = o]]
        /\ UNCHANGED <<op, group, queue, flush, asked>>
        /\ op' = Resumed(op, o)
    BY <1>1, <1>3 DEF SendRaw, Resumed
  <2>2. Rejects(o, t)
    BY <2>1, ChangeOne DEF Rejects
  <2> QED BY <1>1, <1>2, <2>1, <2>2 DEF Takes, Origin
<1>4. CASE ~(ContextRejected(o) \/ conn.phase # "connected")
  <2>1. Transmit(op, o, t) /\ asked' = IF Live(o) THEN Append(asked, t) ELSE asked
    BY <1>4 DEF SendRaw
  <2>2. Stages(o, t)
    BY <1>1, <1>2, <1>4, <2>1 DEF Stages, ContextRejected, Of
  <2> QED BY <1>1, <1>2, <2>1, <2>2 DEF Takes, Origin
<1> QED BY <1>3, <1>4

LEMMA DoSendTakes ==
  ASSUME MainOK, NEW o \in Op, NEW t \in Command, DoSend(o, t), Origin(o, t),
         op[o].state # "idle", UNCHANGED <<conn, log, records, publishing>>,
         flush.stage # "direct"
  PROVE  Takes(o, t)
<1>0. t \in Tx /\ t # None
  BY OutboundAssumption
<1>1. CASE Refuse(o, t)
  <2>1. Rejects(o, t) /\ UNCHANGED flush
    BY <1>0, <1>1, ChangeOne DEF Refuse, Rejects
  <2> QED BY <2>1 DEF Takes
<1>2. CASE Postpone(o, t)
  <2>1. Parks(o, t) /\ UNCHANGED flush
    BY <1>0, <1>2, ChangeOne DEF Postpone, Parks
  <2> QED BY <2>1 DEF Takes
<1>3. CASE AwaitDecision(o, t)
  <2>1. Parks(o, t) /\ UNCHANGED flush
    BY <1>0, <1>3, ChangeOne DEF AwaitDecision, Parks
  <2> QED BY <2>1 DEF Takes
<1>4. CASE ~ContextRejected(o) /\ StartSend(o, t)
  <2>1. Stages(o, t) /\ slot' = t
    BY <1>4 DEF StartSend, Stages, ContextRejected, Of
  <2>2. ~Draining'
    BY <1>0, <2>1, SlotTaken
  <2> QED BY <2>1, <2>2 DEF Takes
<1> QED BY <1>1, <1>2, <1>3, <1>4 DEF DoSend

LEMMA SendTakes ==
  ASSUME MainOK, NEW o \in Op, NEW t \in Tx, Send(o, t)
  PROVE  Takes(o, t)
<1>1. /\ op[o].state \in {"running", "ended"} /\ tx[t].state = "new" /\ t \in Command
      /\ UNCHANGED <<conn, log, records, publishing>> /\ Quiet /\ DoSend(o, t)
      /\ asked' = IF Live(o) THEN Append(asked, t) ELSE asked
  BY DEF Send, CanAct
<1>2. flush.stage # "direct"
  BY <1>1, QuietNotDirect
<1>3. Origin(o, t)
  BY <1>1 DEF Origin
<1> QED BY <1>1, <1>2, <1>3, DoSendTakes

LEMMA DrainSendTakes ==
  ASSUME MainOK, RestOK, Owned, Places, DrainSend, flush.stage # "direct"
  PROVE  LET t == Head(pending)
             o == tx[t].op
         IN  t \in Command /\ o \in Op /\ Takes(o, t)
<1> DEFINE t == Head(pending)
           o == tx[t].op
<1>1. /\ pending # <<>> /\ DoSend(o, t)
      /\ UNCHANGED <<conn, log, records, publishing, asked>>
  BY DEF DrainSend, Draining
<1>2. 1 \in 1..Len(pending) /\ pending[1] = t
  BY <1>1 DEF RestOK
<1>3. t \in Command /\ tx[t].state = "pending" /\ t \in Tx
  BY <1>2, OutboundAssumption DEF Places
<1>4. o \in Op /\ op[o].state # "idle"
  BY <1>3 DEF Owned, Asked
<1>5. Origin(o, t)
  BY <1>1, <1>3 DEF Origin
<1> HIDE DEF t, o
<1>6. Takes(o, t)
  BY <1>1, <1>3, <1>4, <1>5, DoSendTakes
<1> QED BY <1>3, <1>4, <1>6 DEF t, o

LEMMA DecideTakes ==
  ASSUME MainOK, RestOK, Owned, Places, Decide
  PROVE  LET t == deciding
             o == tx[t].op
         IN  t \in Command /\ o \in Op /\ Takes(o, t)
<1> DEFINE t == deciding
           o == tx[t].op
<1>1. /\ deciding # None /\ Quiet
      /\ UNCHANGED <<conn, log, records, publishing, asked>>
  BY DEF Decide, EventLoop
<1>2. t \in Command /\ tx[t].state = "deciding" /\ t \in Tx /\ t # None
  BY <1>1, OutboundAssumption DEF Places
<1>3. o \in Op /\ op[o].state # "idle"
  BY <1>2 DEF Owned, Asked
<1>4. Origin(o, t)
  BY <1>1, <1>2 DEF Origin
<1>5. flush.stage # "direct"
  BY <1>1, QuietNotDirect
<1>6. CASE ~ContextRejected(o) /\ StartSend(o, t)
  <2>1. Stages(o, t) /\ slot' = t
    BY <1>6, <1>2 DEF StartSend, Stages, ContextRejected, Of
  <2>2. ~Draining'
    BY <1>2, <2>1, SlotTaken
  <2> QED BY <1>1, <1>2, <1>3, <1>4, <1>5, <2>1, <2>2 DEF Takes
<1>7. CASE /\ tx' = [tx EXCEPT ![t].state = "rejected"]
           /\ op' = Resumed(op, o)
           /\ UNCHANGED <<group, queue, flush, slot>>
  <2>1. Rejects(o, t) /\ UNCHANGED flush
    BY <1>2, <1>3, <1>7, ChangeOne DEF Rejects
  <2> QED BY <1>1, <1>2, <1>3, <1>4, <1>5, <2>1 DEF Takes
<1> QED BY <1>2, <1>3, <1>6, <1>7 DEF Decide

LEMMA WaitsSoft ==
  ASSUME MainOK, NEW o \in Op
  PROVE  /\ SoftOps(Waits(o)) /\ Waits(o) \in OpTable
         /\ \A p \in Op : p # o => Waits(o)[p] = op[p]
         /\ Waits(o)[o].group = op[o].group /\ Waits(o)[o].epoch = op[o].epoch
         /\ IF Live(o) THEN Waits(o)[o].state = "waiting" ELSE Waits(o)[o].state = op[o].state
<1>1. op \in OpTable /\ op[o] \in OpRecord
  BY DEF MainOK, OpTable
<1>2. CASE Live(o)
  <2>1. Waits(o) = [op EXCEPT ![o].state = "waiting"]
    BY <1>2 DEF Waits
  <2>2. Waits(o) \in OpTable
    BY <1>1, <2>1, OpTypes
  <2>3. op[o].state \in {"running", "waiting"}
    BY <1>2 DEF Live
  <2> QED BY <1>1, <1>2, <2>1, <2>2, <2>3 DEF SoftOps, OpTable, OpRecord
<1>3. CASE ~Live(o)
  <2>1. Waits(o) = op
    BY <1>3 DEF Waits
  <2> QED BY <1>1, <1>3, <2>1, StoppedSoft
<1> QED BY <1>2, <1>3

\* The callbacks as stageCausalOutboundTransmission finds them.
OpsFor(o, t) == IF t \in Command THEN Waits(o) ELSE op

LEMMA StagesEffect ==
  ASSUME MainOK, Order, Holding, NEW o \in Op, NEW t \in Tx, Stages(o, t)
  PROVE  \E g \in Nat : TransmitEffect(OpsFor(o, t), o, t, g)
<1>1. /\ OpsFor(o, t) \in OpTable /\ OpsFor(o, t)[o].group = op[o].group
  BY WaitsSoft DEF OpsFor, MainOK
<1>2. Of(op, o, conn.epoch) /\ Transmit(OpsFor(o, t), o, t)
  BY DEF Stages, OpsFor
<1>3. \E g \in 0..Len(group') : TransmitEffect(OpsFor(o, t), o, t, g)
  BY <1>1, <1>2, TransmitFacts
<1> QED BY <1>3

LEMMA TakesHolding ==
  ASSUME MainOK, Order, Holding, Stock, NEW o \in Op, NEW t \in Tx, Takes(o, t)
  PROVE  Holding' /\ Stock'
<1>0. conn'.epoch = conn.epoch /\ ~Staged(t)
  BY DEF Takes, Origin, Staged
<1>1. CASE Rejects(o, t) \/ Parks(o, t)
  <2>1. SoftOps(op') /\ UNCHANGED <<group, queue>>
    BY <1>1, WaitsSoft, StoppedSoft DEF Rejects, Parks
  <2>2. Holding'
    BY <1>0, <2>1, HoldingSoft
  <2>3. SameStaged
    BY <1>0, <1>1 DEF Rejects, Parks, OneChanges, SameStaged, Staged
  <2>4. Stock'
    BY <2>1, <2>3, StockKept
  <2> QED BY <2>2, <2>4
<1>2. CASE Stages(o, t)
  <2>1. PICK g \in Nat : TransmitEffect(OpsFor(o, t), o, t, g)
    BY <1>2, StagesEffect
  <2>2. SoftOps(OpsFor(o, t)) /\ \A p \in Op : p # o => OpsFor(o, t)[p] = op[p]
    BY WaitsSoft, StoppedSoft DEF OpsFor
  <2>3. Live(o) => OpsFor(o, t)[o].state \in {"running", "waiting"}
    BY WaitsSoft DEF OpsFor, Live
  <2>4. Of(op, o, conn.epoch)
    BY <1>2 DEF Stages
  <2>5. Holding'
    BY <1>0, <2>1, <2>2, <2>3, <2>4, HoldingStages
  <2>6. Stock'
    BY <1>0, <2>1, StockStages
  <2> QED BY <2>5, <2>6
<1> QED BY <1>1, <1>2 DEF Takes

-----------------------------------------------------------------------------
(* A send without a group is written at once: no more than one is staged,   *)
(* while the connection is up and no pending send can be taken.             *)

Direct ==
  /\ \A t \in Tx : Staged(t) /\ tx[t].group = 0 => flush.stage = "direct"
  /\ \A t, u \in Tx : Staged(t) /\ tx[t].group = 0 /\ Staged(u) /\ tx[u].group = 0 => t = u
  /\ flush.stage = "direct" => conn.phase = "connected" /\ ~Draining

\* Nothing is staged that was not.
NoneStaged == \A t \in Tx : tx'[t].state = "staged" => Staged(t) /\ tx'[t].group = tx[t].group

LEMMA DirectKept ==
  ASSUME Direct, NoneStaged, flush.stage # "direct", flush'.stage # "direct"
  PROVE  Direct'
BY DEF Direct, NoneStaged, Staged

LEMMA DirectSame ==
  ASSUME Direct, NoneStaged, flush' = flush, conn'.phase = conn.phase,
         UNCHANGED <<inline, slot, deciding, pending>>
  PROVE  Direct'
BY DEF Direct, NoneStaged, Staged, Draining

LEMMA DirectTakes ==
  ASSUME MainOK, Order, Holding, Direct, NEW o \in Op, NEW t \in Tx, Takes(o, t)
  PROVE  Direct'
<1>0. flush.stage # "direct"
  BY DEF Takes
<1>1. CASE Rejects(o, t) \/ Parks(o, t)
  <2>1. NoneStaged /\ flush' = flush
    BY <1>1 DEF Rejects, Parks, OneChanges, NoneStaged, Staged
  <2> QED BY <1>0, <2>1, DirectKept
<1>2. CASE Stages(o, t)
  <2>1. PICK g \in Nat : TransmitEffect(OpsFor(o, t), o, t, g)
    BY <1>2, StagesEffect
  <2>2. /\ tx'[t].group = g /\ \A u \in Tx : u # t => tx'[u] = tx[u]
        /\ g = 0 => flush'.stage = "direct"
    BY <2>1 DEF TransmitEffect
  <2>3. flush'.stage = "direct" => conn'.phase = "connected" /\ ~Draining'
    BY <1>2 DEF Stages, Takes
  <2>4. \A u \in Tx : Staged(u) => tx[u].group # 0
    BY <1>0 DEF Direct
  <2>5. \A u \in Tx : tx'[u].state = "staged" /\ tx'[u].group = 0 => u = t /\ g = 0
    BY <2>2, <2>4 DEF Staged
  <2> QED BY <2>2, <2>3, <2>5 DEF Direct, Staged
<1> QED BY <1>1, <1>2 DEF Takes

-----------------------------------------------------------------------------
(* A live scope has one command under way and waits for it; what it asked   *)
(* for stands in its own group.                                             *)

InHand(t) == tx[t].state \in {"pending", "deciding", "staged", "written"}
Parked(t) == tx[t].state \in {"pending", "deciding"}

Waiting ==
  /\ \A t \in Command : InHand(t) /\ Live(tx[t].op) => op[tx[t].op].state = "waiting"
  /\ \A t, u \in Command : InHand(t) /\ InHand(u) /\ tx[t].op = tx[u].op /\ Live(tx[t].op) => t = u

AskedOnes ==
  /\ \A i \in 1..Len(asked) : Asked(asked[i])
  /\ \A i, j \in 1..Len(asked) : asked[i] = asked[j] => i = j
  /\ \A i \in 1..Len(asked) : Parked(asked[i]) => asked[i] \in Command /\ Live(tx[asked[i]].op)
  /\ \A i \in 1..Len(asked) : Staged(asked[i]) =>
       /\ tx[asked[i]].group # 0
       /\ Live(tx[asked[i]].op) => tx[asked[i]].group = op[tx[asked[i]].op].group

Life == Waiting /\ AskedOnes

\* The sends go on along their states.
Onward ==
  \A t \in Tx :
    /\ tx'[t].state = "new" <=> tx[t].state = "new"
    /\ tx[t].state # "new" => tx'[t].op = tx[t].op
    /\ tx'[t].state \in {"pending", "deciding"} => Parked(t)
    /\ tx'[t].state = "staged" => Staged(t) /\ tx'[t].group = tx[t].group
    /\ tx'[t].state = "written" => tx[t].state \in {"staged", "written"}
    /\ tx[t].state \in {"written", "settled", "done"} => tx'[t].state \in {"written", "settled", "done"}

\* The scopes of sends keep their group and are not revived, and those whose command is
\* under way go on waiting for it.
Scoped ==
  \A t \in Tx : Asked(t) =>
    LET o == tx[t].op IN
    /\ op'[o].group = op[o].group
    /\ op'[o].state \in {"running", "waiting"} => op[o].state \in {"running", "waiting"}
    /\ t \in Command /\ tx'[t].state \in {"pending", "deciding", "staged", "written"}
         /\ o \notin Bare /\ op[o].state = "waiting" => op'[o].state # "running"
    /\ t \in Command /\ tx'[t].state \in {"pending", "deciding"} /\ o \notin Bare /\ op[o].state = "waiting"
         => op'[o].state = "waiting"

LEMMA LifeKept ==
  ASSUME RestOK, Life, Onward, Scoped, asked' = asked
  PROVE  Life'
<1>1. \A i \in 1..Len(asked) : asked[i] \in Tx
  BY DEF RestOK
<1>2. ASSUME NEW t \in Tx, Asked(t)
      PROVE  /\ tx'[t].op = tx[t].op
             /\ Live(tx[t].op)' => Live(tx[t].op)
             /\ op'[tx[t].op].group = op[tx[t].op].group
  BY <1>2 DEF Onward, Scoped, Asked, Live
<1>3. ASSUME NEW t \in Tx, InHand(t)'
      PROVE  InHand(t) /\ Asked(t)
  BY <1>3 DEF Onward, InHand, Parked, Staged, Asked
<1>4. Waiting'
  <2>0. Command \subseteq Tx
    BY OutboundAssumption
  <2>1. ASSUME NEW t \in Command, InHand(t)', Live(tx[t].op)'
        PROVE  op'[tx'[t].op].state = "waiting"
    <3>1. t \in Tx /\ InHand(t) /\ Asked(t)
      BY <2>0, <2>1, <1>3
    <3>2. tx'[t].op = tx[t].op /\ Live(tx[t].op)
      BY <1>2, <2>1, <3>1 DEF Live
    <3>3. op[tx[t].op].state = "waiting"
      BY <3>1, <3>2 DEF Life, Waiting
    <3> QED BY <2>1, <3>1, <3>2, <3>3 DEF Scoped, InHand, Live
  <2>2. ASSUME NEW t \in Command, NEW u \in Command, InHand(t)', InHand(u)', tx'[t].op = tx'[u].op,
               Live(tx[t].op)'
        PROVE  t = u
    <3>1. t \in Tx /\ InHand(t) /\ Asked(t) /\ u \in Tx /\ InHand(u) /\ Asked(u)
      BY <2>0, <2>2, <1>3
    <3>2. tx'[t].op = tx[t].op /\ tx'[u].op = tx[u].op /\ Live(tx[t].op)
      BY <1>2, <2>2, <3>1 DEF Live
    <3> QED BY <2>2, <3>1, <3>2 DEF Life, Waiting
  <2> QED BY <2>1, <2>2 DEF Waiting
<1>5. \A i \in 1..Len(asked) : Asked(asked[i]) /\ Asked(asked[i])'
  BY <1>1 DEF Life, AskedOnes, Onward, Asked
<1>6. ASSUME NEW i \in 1..Len(asked), Parked(asked[i])'
      PROVE  asked[i] \in Command /\ Live(tx[asked[i]].op)'
  <2> DEFINE t == asked[i]
  <2>1. t \in Tx /\ Asked(t) /\ tx'[t].state \in {"pending", "deciding"}
    BY <1>1, <1>5, <1>6 DEF Parked
  <2>2. Parked(t)
    BY <2>1 DEF Onward
  <2>3. t \in Command /\ Live(tx[t].op)
    BY <2>2 DEF Life, AskedOnes
  <2>4. op[tx[t].op].state = "waiting"
    BY <2>2, <2>3 DEF Life, Waiting, InHand, Parked
  <2>5. op'[tx[t].op].state = "waiting" /\ tx'[t].op = tx[t].op
    BY <1>2, <2>1, <2>3, <2>4 DEF Scoped, Live
  <2> QED BY <2>3, <2>5 DEF Live
<1>7. ASSUME NEW i \in 1..Len(asked), Staged(asked[i])'
      PROVE  /\ tx'[asked[i]].group # 0
             /\ Live(tx[asked[i]].op)' => tx'[asked[i]].group = op'[tx'[asked[i]].op].group
  <2> DEFINE t == asked[i]
  <2>1. t \in Tx /\ Asked(t) /\ Staged(t) /\ tx'[t].group = tx[t].group
    BY <1>1, <1>5, <1>7 DEF Onward, Staged
  <2>2. /\ tx[t].group # 0
        /\ Live(tx[t].op) => tx[t].group = op[tx[t].op].group
    BY <2>1 DEF Life, AskedOnes
  <2>3. tx'[t].op = tx[t].op /\ op'[tx[t].op].group = op[tx[t].op].group
    BY <1>2, <2>1
  <2>4. Live(tx[t].op)' => Live(tx[t].op)
    BY <1>2, <2>1, <2>3
  <2> QED BY <2>1, <2>2, <2>3, <2>4
<1>8. AskedOnes'
  <2>1. \A i, j \in 1..Len(asked) : asked[i] = asked[j] => i = j
    BY DEF Life, AskedOnes
  <2> QED BY <1>5, <1>6, <1>7, <2>1 DEF AskedOnes
<1> QED BY <1>4, <1>8 DEF Life

\* What a send does to the callbacks and to itself.
LEMMA TakesStates ==
  ASSUME MainOK, Order, Holding, NEW o \in Op, NEW t \in Tx, Takes(o, t)
  PROVE  /\ tx'[t].op = o /\ \A u \in Tx : u # t => tx'[u] = tx[u]
         /\ \A p \in Op : p # o => op'[p] = op[p]
         /\ Live(o)' <=> Live(o)
         /\ tx'[t].state \in {"rejected", "pending", "deciding", "staged"}
         /\ tx'[t].state \in {"pending", "deciding"} => t \in Command
         /\ t \in Command /\ tx'[t].state # "rejected" /\ Live(o) => op'[o].state = "waiting"
         /\ tx'[t].state = "staged" /\ Live(o) => tx'[t].group # 0 /\ op'[o].group = tx'[t].group
         /\ op[o].group # 0 => op'[o].group = op[o].group
<1>0. op \in OpTable /\ op[o] \in OpRecord
  BY DEF MainOK, OpTable
<1>1. CASE Rejects(o, t)
  <2>1. op' = Resumed(op, o) /\ tx'[t].state = "rejected" /\ tx'[t].op = o
        /\ \A u \in Tx : u # t => tx'[u] = tx[u]
    BY <1>1 DEF Rejects, OneChanges
  <2>2. /\ \A p \in Op : p # o => op'[p] = op[p]
        /\ op'[o].group = op[o].group
        /\ op'[o].state = IF op[o].state = "waiting" THEN "running" ELSE op[o].state
    BY <1>0, <2>1 DEF Resumed, OpTable, OpRecord
  <2> QED BY <2>1, <2>2 DEF Live
<1>2. CASE Parks(o, t)
  <2>1. /\ op' = Waits(o) /\ tx'[t].state \in {"pending", "deciding"} /\ tx'[t].op = o
        /\ \A u \in Tx : u # t => tx'[u] = tx[u]
        /\ t \in Command
    BY <1>2 DEF Parks, OneChanges
  <2>2. /\ \A p \in Op : p # o => op'[p] = op[p]
        /\ op'[o].group = op[o].group
        /\ IF Live(o) THEN op'[o].state = "waiting" ELSE op'[o].state = op[o].state
    BY <2>1, WaitsSoft
  <2>3. Live(o)' <=> Live(o)
    BY <2>2 DEF Live
  <2> QED BY <2>1, <2>2, <2>3
<1>3. CASE Stages(o, t)
  <2>1. PICK g \in Nat : TransmitEffect(OpsFor(o, t), o, t, g)
    BY <1>3, StagesEffect
  <2>2. /\ \A p \in Op : p # o => OpsFor(o, t)[p] = op[p]
        /\ OpsFor(o, t)[o].group = op[o].group
        /\ IF t \in Command /\ Live(o) THEN OpsFor(o, t)[o].state = "waiting"
                                       ELSE OpsFor(o, t)[o].state = op[o].state
    BY WaitsSoft DEF OpsFor
  <2> QED BY <2>1, <2>2 DEF TransmitEffect, Retains, Live
<1> QED BY <1>1, <1>2, <1>3 DEF Takes

\* No other command of a live scope is under way.
LEMMA TakesAlone ==
  ASSUME Waiting, NEW o \in Op, NEW t \in Tx, Origin(o, t),
         NEW u \in Command, u # t, InHand(u), tx[u].op = o, Live(o)
  PROVE  FALSE
<1>1. CASE op[o].state \in {"running", "ended"}
  BY <1>1 DEF Waiting
<1>2. CASE tx[t].state \in {"pending", "deciding"} /\ t \in Command /\ tx[t].op = o
  BY <1>2 DEF Waiting, InHand
<1> QED BY <1>1, <1>2 DEF Origin

LEMMA LifeTakes ==
  ASSUME MainOK, RestOK, Order, Owned, Holding, Life, NEW o \in Op, NEW t \in Tx, Takes(o, t)
  PROVE  Life'
<1>0. Command \subseteq Tx /\ Origin(o, t) /\ asked \in Seq(Tx) /\ Waiting /\ AskedOnes
  BY OutboundAssumption DEF Takes, RestOK, Life
<1>1. /\ tx'[t].op = o /\ \A u \in Tx : u # t => tx'[u] = tx[u]
      /\ \A p \in Op : p # o => op'[p] = op[p]
      /\ Live(o)' <=> Live(o)
      /\ tx'[t].state \in {"rejected", "pending", "deciding", "staged"}
      /\ tx'[t].state \in {"pending", "deciding"} => t \in Command
      /\ t \in Command /\ tx'[t].state # "rejected" /\ Live(o) => op'[o].state = "waiting"
      /\ tx'[t].state = "staged" /\ Live(o) => tx'[t].group # 0 /\ op'[o].group = tx'[t].group
      /\ op[o].group # 0 => op'[o].group = op[o].group
  BY TakesStates
<1>2. \A p \in Op : Live(p)' <=> Live(p)
  BY <1>1 DEF Live
<1>3. \A u \in Tx : Asked(u) => tx[u].op \in Op
  BY DEF Owned
<1>4. ASSUME NEW u \in Command, InHand(u)', Live(tx[u].op)'
      PROVE  op'[tx'[u].op].state = "waiting" /\ (u # t => tx'[u].op # o)
  <2>1. CASE u = t
    <3>1. tx'[u].state # "rejected" /\ Live(o)
      BY <1>1, <1>4, <2>1 DEF InHand, Live
    <3> QED BY <1>1, <2>1, <3>1
  <2>2. CASE u # t
    <3>1. u \in Tx /\ tx'[u] = tx[u] /\ InHand(u) /\ Asked(u)
      BY <1>0, <1>1, <1>4, <2>2 DEF InHand, Asked
    <3>2. Live(tx[u].op)
      BY <1>2, <1>3, <1>4, <3>1 DEF Live
    <3>3. tx[u].op # o
      BY <1>0, <2>2, <3>1, <3>2, TakesAlone
    <3>4. op'[tx[u].op] = op[tx[u].op]
      BY <1>1, <1>3, <3>1, <3>3
    <3> QED BY <1>0, <3>1, <3>2, <3>3, <3>4 DEF Waiting
  <2> QED BY <2>1, <2>2
<1>5. ASSUME NEW u \in Command, NEW v \in Command, InHand(u)', InHand(v)', tx'[u].op = tx'[v].op,
             Live(tx[u].op)'
      PROVE  u = v
  <2>1. Live(tx[v].op)'
    BY <1>5 DEF Live
  <2>2. CASE u = t \/ v = t
    BY <1>1, <1>4, <1>5, <2>1, <2>2
  <2>3. CASE u # t /\ v # t
    <3>1. /\ u \in Tx /\ tx'[u] = tx[u] /\ InHand(u) /\ Asked(u)
          /\ v \in Tx /\ tx'[v] = tx[v] /\ InHand(v)
      BY <1>0, <1>1, <1>5, <2>3 DEF InHand, Asked
    <3>2. Live(tx[u].op)
      BY <1>2, <1>3, <1>5, <3>1 DEF Live
    <3> QED BY <1>0, <1>5, <3>1, <3>2 DEF Waiting
  <2> QED BY <2>2, <2>3
<1>6. Waiting'
  BY <1>4, <1>5 DEF Waiting
\* Of the sends asked for, t is the last one, or one that has waited.
<1>7. ASSUME NEW i \in 1..Len(asked')
      PROVE  /\ asked'[i] \in Tx
             /\ \/ asked'[i] # t /\ i \in 1..Len(asked) /\ asked'[i] = asked[i]
                \/ asked'[i] = t /\ Live(o)
                   /\ \/ i = Len(asked) + 1 /\ Len(asked') = Len(asked) + 1 /\ tx[t].state = "new"
                      \/ i \in 1..Len(asked) /\ asked[i] = t /\ tx[t].state # "new" /\ asked' = asked
  <2>1. CASE tx[t].state = "new" /\ asked' = asked
    BY <1>0, <2>1 DEF AskedOnes, Asked
  <2>2. CASE tx[t].state = "new" /\ Live(o) /\ asked' = Append(asked, t)
    <3>1. /\ Len(asked') = Len(asked) + 1 /\ asked'[Len(asked) + 1] = t
          /\ \A k \in 1..Len(asked) : asked'[k] = asked[k]
          /\ Len(asked) \in Nat
      BY <1>0, <2>2
    <3>2. CASE i = Len(asked) + 1
      BY <2>2, <3>1, <3>2
    <3>3. CASE i # Len(asked) + 1
      <4>1. i \in 1..Len(asked) /\ asked'[i] = asked[i] /\ asked[i] \in Tx
        BY <1>0, <3>1, <3>3
      <4>2. asked[i] # t
        BY <1>0, <2>2, <4>1 DEF AskedOnes, Asked
      <4> QED BY <4>1, <4>2
    <3> QED BY <3>2, <3>3
  <2>3. CASE tx[t].state \in {"pending", "deciding"} /\ tx[t].op = o /\ asked' = asked
    <3>1. i \in 1..Len(asked) /\ asked'[i] = asked[i] /\ asked[i] \in Tx
      BY <1>0, <2>3
    <3>2. asked[i] = t => Live(o)
      BY <1>0, <2>3, <3>1 DEF AskedOnes, Parked
    <3> QED BY <2>3, <3>1, <3>2
  <2> QED BY <1>0, <2>1, <2>2, <2>3 DEF Origin
<1>8. ASSUME NEW i \in 1..Len(asked')
      PROVE  /\ tx'[asked'[i]].state # "new"
             /\ Parked(asked[i])' => asked'[i] \in Command /\ Live(tx[asked[i]].op)'
             /\ Staged(asked[i])' =>
                  /\ tx'[asked'[i]].group # 0
                  /\ Live(tx[asked[i]].op)' =>
                       tx'[asked'[i]].group = op'[tx'[asked'[i]].op].group
  <2>1. CASE asked'[i] = t
    BY <1>1, <1>7, <2>1 DEF Parked, Staged, Live
  <2>2. CASE asked'[i] # t
    <3>0. asked'[i] \in Tx
      BY <1>7
    <3>z. PICK u \in Tx : u = asked'[i]
      BY <3>0
    <3>1. i \in 1..Len(asked) /\ asked[i] = u /\ asked'[i] = u /\ u # t
      BY <1>7, <2>2, <3>z
    <3>2. tx'[u] = tx[u] /\ Asked(u)
      BY <1>0, <1>1, <3>1 DEF AskedOnes
    <3>3. tx[u].op \in Op /\ (Live(tx[u].op)' <=> Live(tx[u].op))
      BY <1>2, <1>3, <3>1, <3>2 DEF Live
    <3>4. Parked(u) => u \in Command /\ Live(tx[u].op)
      BY <1>0, <3>1 DEF AskedOnes
    <3>5. Staged(u) => tx[u].group # 0 /\ (Live(tx[u].op) => tx[u].group = op[tx[u].op].group)
      BY <1>0, <3>1 DEF AskedOnes
    <3>6. op[tx[u].op].group # 0 => op'[tx[u].op].group = op[tx[u].op].group
      BY <1>1, <3>3
    <3> QED BY <3>1, <3>2, <3>3, <3>4, <3>5, <3>6 DEF Parked, Staged, Asked, Live
  <2> QED BY <2>1, <2>2
<1>9. \A i, j \in 1..Len(asked') : asked'[i] = asked'[j] => i = j
  BY <1>0, <1>7 DEF AskedOnes
<1>10. AskedOnes'
  BY <1>8, <1>9 DEF AskedOnes, Asked
<1> QED BY <1>6, <1>10 DEF Life

-----------------------------------------------------------------------------
(* Of two sends of one scope the sooner one is not left behind.             *)

Sooner(t, u) == \E k, l \in 1..Len(asked) :
                  /\ k < l /\ asked[k] = t /\ asked[l] = u
                  /\ tx[t].op = tx[u].op
                  /\ ~(u \in Priority /\ t \notin Command)

Logged(t) == \E i \in 1..Len(log) : log[i].tx = t

InLine(t, u) ==
  /\ ~Parked(t)
  /\ Logged(u) => ~Staged(t)
  /\ Staged(t) /\ Staged(u) => /\ tx[t].group = tx[u].group /\ tx[t].group # 0
                               /\ Before(group[tx[t].group].segments, t, u)

Ordered ==
  /\ \A t \in Tx : Logged(t) => tx[t].state \in {"written", "settled", "done"}
  /\ \A t, u \in Tx : Sooner(t, u) => InLine(t, u)
  /\ OwnOrder

\* The places of what stays staged keep their order.
SamePlaces ==
  \A i \in 1..Len(group), u, v \in Tx :
    /\ tx'[u].state = "staged" /\ tx'[v].state = "staged"
    /\ Before(group[i].segments, u, v)
    => Before(group'[i].segments, u, v)

LEMMA SoonerKept ==
  ASSUME RestOK, Life, Onward, asked' = asked
  PROVE  \A t, u \in Tx : Sooner(t, u)' <=> Sooner(t, u)
<1> SUFFICES ASSUME NEW t \in Tx, NEW u \in Tx PROVE Sooner(t, u)' <=> Sooner(t, u)
  OBVIOUS
<1>1. \A i \in 1..Len(asked) : asked[i] \in Tx /\ tx'[asked[i]].op = tx[asked[i]].op
  BY DEF RestOK, Life, AskedOnes, Onward, Asked
<1> QED BY <1>1 DEF Sooner

LEMMA InLineKept ==
  ASSUME Stock, Onward, SamePlaces, NEW t \in Tx, NEW u \in Tx, InLine(t, u),
         Logged(u)' => Logged(u) \/ tx'[t].state # "staged"
  PROVE  InLine(t, u)'
<1>1. ~Parked(t)' /\ (Logged(u)' => tx'[t].state # "staged")
  BY DEF Onward, InLine, Parked, Staged
<1>2. ASSUME tx'[t].state = "staged", tx'[u].state = "staged"
      PROVE  /\ tx'[t].group = tx'[u].group /\ tx'[t].group # 0
             /\ Before(group'[tx'[t].group].segments, t, u)
  <2>1. /\ Staged(t) /\ tx'[t].group = tx[t].group
        /\ Staged(u) /\ tx'[u].group = tx[u].group
    BY <1>2 DEF Onward
  <2>2. /\ tx[t].group = tx[u].group /\ tx[t].group # 0
        /\ Before(group[tx[t].group].segments, t, u)
    BY <2>1 DEF InLine
  <2>3. tx[t].group \in 1..Len(group)
    BY <2>1, <2>2 DEF Stock
  <2> QED BY <1>2, <2>1, <2>2, <2>3 DEF SamePlaces
<1>3. Before(group[tx[t].group].segments, t, u)' <=> Before(group'[tx'[t].group].segments, t, u)
  BY DEF Before, At
<1> QED BY <1>1, <1>2, <1>3 DEF InLine, Staged

LEMMA OwnOrderSame ==
  ASSUME LogOK, RestOK
  PROVE  OwnOrder <=> \A i, j \in 1..Len(log) : i < j => ~Sooner(log[j].tx, log[i].tx)
BY DEF OwnOrder, Sooner

LEMMA OrderedKept ==
  ASSUME RestOK, LogOK, RestOK', LogOK', Stock, Life, Ordered, Onward, SamePlaces,
         asked' = asked, log' = log
  PROVE  Ordered'
<1>1. \A t \in Tx : Logged(t)' <=> Logged(t)
  BY DEF Logged
<1>2. \A t, u \in Tx : Sooner(t, u)' <=> Sooner(t, u)
  BY SoonerKept
<1>3. \A t \in Tx : Logged(t)' => tx'[t].state \in {"written", "settled", "done"}
  BY <1>1 DEF Ordered, Onward
<1>4. \A t, u \in Tx : Sooner(t, u)' => InLine(t, u)'
  BY <1>1, <1>2, InLineKept DEF Ordered
<1>5. OwnOrder'
  <2>1. \A i \in 1..Len(log) : log[i] \in LogEntry
    BY DEF LogOK
  <2>2. \A i \in 1..Len(log) : log[i].tx \in Tx
    BY <2>1 DEF LogEntry
  <2>3. \A i, j \in 1..Len(log) : i < j => ~Sooner(log[j].tx, log[i].tx)
    BY OwnOrderSame DEF Ordered
  <2>4. ASSUME NEW i \in 1..Len(log), NEW j \in 1..Len(log), i < j,
               NEW k \in 1..Len(asked), NEW l \in 1..Len(asked), k < l,
               asked[k] = log[j].tx, asked[l] = log[i].tx,
               tx'[asked[k]].op = tx'[asked[l]].op,
               ~(asked[l] \in Priority /\ asked[k] \notin Command)
        PROVE  FALSE
    <3>1. PICK t \in Tx, u \in Tx : t = log[j].tx /\ u = log[i].tx
      BY <2>2
    <3>2. Sooner(t, u)'
      BY <2>4, <3>1 DEF Sooner
    <3> QED BY <1>2, <2>3, <2>4, <3>1, <3>2
  <2> QED BY <2>4 DEF OwnOrder
<1> QED BY <1>3, <1>4, <1>5 DEF Ordered

LEMMA OrderedWrites ==
  ASSUME RestOK, LogOK, RestOK', LogOK', Stock, Life, Ordered, Onward, SamePlaces,
         asked' = asked, NEW t \in Tx, Staged(t), Writes(t),
         \A u \in Tx : Sooner(u, t) => ~Staged(u)
  PROVE  Ordered'
<1>1. CASE log' = log
  BY <1>1, OrderedKept
<1>2. ASSUME NEW e \in LogEntry, e.tx = t, log' = Append(log, e),
             tx'[t].state \in {"written", "done"}
      PROVE  Ordered'
  <2>1. /\ Len(log) \in Nat /\ Len(log') = Len(log) + 1 /\ log'[Len(log) + 1] = e
        /\ \A i \in 1..Len(log) : log'[i] = log[i] /\ log[i] \in LogEntry
    BY <1>2 DEF LogOK
  <2>2. \A u \in Tx : Logged(u)' <=> Logged(u) \/ u = t
    <3> SUFFICES ASSUME NEW u \in Tx PROVE Logged(u)' <=> Logged(u) \/ u = t
      OBVIOUS
    <3>1. ASSUME Logged(u)' PROVE Logged(u) \/ u = t
      <4>1. PICK i \in 1..Len(log') : log'[i].tx = u
        BY <3>1 DEF Logged
      <4>2. CASE i \in 1..Len(log)
        BY <2>1, <4>1, <4>2 DEF Logged
      <4>3. CASE i = Len(log) + 1
        BY <1>2, <2>1, <4>1, <4>3
      <4> QED BY <2>1, <4>2, <4>3
    <3>2. ASSUME Logged(u) PROVE Logged(u)'
      <4>1. PICK i \in 1..Len(log) : log[i].tx = u
        BY <3>2 DEF Logged
      <4>2. i \in 1..Len(log') /\ log'[i].tx = u
        BY <2>1, <4>1
      <4> QED BY <4>2 DEF Logged
    <3>3. Logged(t)'
      <4>1. Len(log) + 1 \in 1..Len(log') /\ log'[Len(log) + 1].tx = t
        BY <1>2, <2>1
      <4> QED BY <4>1 DEF Logged
    <3> QED BY <3>1, <3>2, <3>3
  <2>3. \A u, v \in Tx : Sooner(u, v)' <=> Sooner(u, v)
    BY SoonerKept
  <2>4. \A u \in Tx : Logged(u)' => tx'[u].state \in {"written", "settled", "done"}
    BY <1>2, <2>2 DEF Ordered, Onward
  <2>5. ASSUME NEW u \in Tx, NEW v \in Tx, Sooner(u, v)'
        PROVE  InLine(u, v)'
    <3>1. Sooner(u, v) /\ InLine(u, v)
      BY <2>3, <2>5 DEF Ordered
    <3>2. Logged(v)' => Logged(v) \/ tx'[u].state # "staged"
      <4>1. v = t => ~Staged(u)
        BY <3>1
      <4> QED BY <2>2, <4>1 DEF Onward
    <3> QED BY <3>1, <3>2, InLineKept
  <2>6. OwnOrder'
    <3>1. \A i \in 1..Len(log') : log'[i] \in LogEntry
      BY DEF LogOK
    <3>2. \A i \in 1..Len(log') : log'[i].tx \in Tx
      BY <3>1 DEF LogEntry
    <3>3. \A i, j \in 1..Len(log) : i < j => ~Sooner(log[j].tx, log[i].tx)
      BY OwnOrderSame DEF Ordered
    <3>4. ASSUME NEW i \in 1..Len(log'), NEW j \in 1..Len(log'), i < j,
                 NEW k \in 1..Len(asked), NEW l \in 1..Len(asked), k < l,
                 asked[k] = log'[j].tx, asked[l] = log'[i].tx,
                 tx'[asked[k]].op = tx'[asked[l]].op,
                 ~(asked[l] \in Priority /\ asked[k] \notin Command)
          PROVE  FALSE
      <4>1. PICK u \in Tx, v \in Tx : u = log'[j].tx /\ v = log'[i].tx
        BY <3>2
      <4>2. Sooner(u, v)'
        BY <3>4, <4>1 DEF Sooner
      <4>3. Sooner(u, v)
        BY <2>3, <4>2
      <4>4. i \in 1..Len(log) /\ log'[i] = log[i]
        BY <2>1, <3>4
      <4>5. CASE j \in 1..Len(log)
        BY <2>1, <3>3, <3>4, <4>1, <4>3, <4>4, <4>5
      <4>6. CASE j = Len(log) + 1
        <5>1. u = t /\ Logged(v)
          BY <1>2, <2>1, <4>1, <4>4, <4>6 DEF Logged
        <5>2. ~Staged(t)
          BY <4>3, <5>1 DEF Ordered, InLine
        <5> QED BY <5>2
      <4> QED BY <2>1, <4>5, <4>6
    <3>5. asked' = asked
      BY <1>2
    <3> QED BY <3>4, <3>5 DEF OwnOrder
  <2> QED BY <2>4, <2>5, <2>6 DEF Ordered
<1> QED BY <1>1, <1>2 DEF Writes

\* A send is sooner than another after it was asked for only if it was before, or if the
\* other one is the send that is asked for or that has waited.
LEMMA TakesSooner ==
  ASSUME MainOK, RestOK, Order, Owned, Holding, Life, Ordered,
         NEW o \in Op, NEW t \in Tx, Takes(o, t), NEW u \in Tx, NEW v \in Tx, Sooner(u, v)'
  PROVE  /\ u # t /\ Asked(u) /\ \E i \in 1..Len(asked) : asked[i] = u
         /\ \/ v # t /\ Sooner(u, v)
            \/ /\ v = t /\ tx[u].op = o /\ Live(o) /\ ~Parked(u)
               /\ ~(t \in Priority /\ u \notin Command)
<1>0. asked \in Seq(Tx) /\ Waiting /\ AskedOnes /\ Origin(o, t)
  BY DEF RestOK, Life, Takes
<1>1. tx'[t].op = o /\ \A w \in Tx : w # t => tx'[w] = tx[w]
  BY TakesStates
<1>2. PICK k \in 1..Len(asked'), l \in 1..Len(asked') :
        /\ k < l /\ asked'[k] = u /\ asked'[l] = v /\ tx'[u].op = tx'[v].op
        /\ ~(v \in Priority /\ u \notin Command)
  BY DEF Sooner
<1>3. CASE asked' = asked
  <2>1. Asked(u) /\ Asked(v) /\ k \in 1..Len(asked) /\ l \in 1..Len(asked)
        /\ asked[k] = u /\ asked[l] = v
    BY <1>0, <1>2, <1>3 DEF AskedOnes
  <2>2. \A w \in Tx : Asked(w) => tx'[w].op = tx[w].op
    BY <1>0, <1>1 DEF Origin, Asked
  <2>3. Sooner(u, v) /\ tx[u].op = tx[v].op
    BY <1>2, <2>1, <2>2 DEF Sooner
  <2>4. ~Parked(u)
    BY <2>3 DEF Ordered, InLine
  <2>5. u # t
    BY <1>0, <2>1, <2>4 DEF Origin, Parked, Asked
  <2>6. CASE v = t
    <3>1. Parked(t) /\ tx[t].op = o
      BY <1>0, <2>1, <2>6 DEF Origin, Parked, Asked
    <3>2. Live(o)
      BY <1>0, <2>1, <2>6, <3>1 DEF AskedOnes
    <3> QED BY <1>2, <2>1, <2>3, <2>4, <2>5, <2>6, <3>1, <3>2
  <2> QED BY <2>1, <2>3, <2>5, <2>6
<1>4. CASE Live(o) /\ asked' = Append(asked, t) /\ tx[t].state = "new" /\ op[o].state \in {"running", "ended"}
  <2>1. /\ Len(asked') = Len(asked) + 1 /\ asked'[Len(asked) + 1] = t /\ Len(asked) \in Nat
        /\ \A i \in 1..Len(asked) : asked'[i] = asked[i]
    BY <1>0, <1>4
  <2>2. k \in 1..Len(asked) /\ asked[k] = u
    BY <1>2, <2>1
  <2>3. Asked(u) /\ u # t
    BY <1>0, <1>4, <2>2 DEF AskedOnes, Asked
  <2>4. CASE l \in 1..Len(asked)
    <3>1. asked[l] = v
      BY <1>2, <2>1, <2>4
    <3>2. v # t
      BY <1>0, <1>4, <2>4, <3>1 DEF AskedOnes, Asked
    <3>3. Sooner(u, v)
      BY <1>1, <1>2, <2>2, <2>3, <2>4, <3>1, <3>2 DEF Sooner
    <3> QED BY <2>2, <2>3, <3>2, <3>3
  <2>5. CASE l = Len(asked) + 1
    <3>1. v = t /\ tx[u].op = o
      BY <1>1, <1>2, <2>1, <2>3, <2>5
    <3>2. ASSUME Parked(u) PROVE FALSE
      <4>1. u \in Command
        BY <1>0, <2>2, <3>2 DEF AskedOnes
      <4> QED BY <1>0, <1>4, <2>3, <3>1, <3>2, <4>1, TakesAlone DEF InHand, Parked
    <3> QED BY <1>2, <1>4, <2>2, <2>3, <3>1, <3>2
  <2> QED BY <1>2, <2>1, <2>4, <2>5
<1> QED BY <1>0, <1>3, <1>4 DEF Origin

LEMMA OrderedTakes ==
  ASSUME MainOK, RestOK, LogOK, RestOK', LogOK', Order, Owned, Holding, Stock, Life, Ordered,
         NEW o \in Op, NEW t \in Tx, Takes(o, t)
  PROVE  Ordered'
<1>0. log' = log /\ ~Staged(t) /\ Origin(o, t) /\ AskedOnes
  BY DEF Takes, Origin, Staged, Life
<1>1. /\ tx'[t].op = o /\ \A w \in Tx : w # t => tx'[w] = tx[w]
      /\ tx'[t].state \in {"rejected", "pending", "deciding", "staged"}
      /\ tx'[t].state = "staged" /\ Live(o) => tx'[t].group # 0 /\ op'[o].group = tx'[t].group
      /\ op[o].group # 0 => op'[o].group = op[o].group
  BY TakesStates
<1>2. \A u \in Tx : Logged(u)' <=> Logged(u)
  BY <1>0 DEF Logged
<1>3. ~Logged(t)
  BY <1>0 DEF Ordered, Origin
<1>4. \A u \in Tx : Logged(u)' => tx'[u].state \in {"written", "settled", "done"}
  BY <1>1, <1>2, <1>3 DEF Ordered
\* The places before a staged send.
<1>5. /\ \A i \in 1..Len(group), u, v \in Tx :
           u # t /\ v # t /\ Before(group[i].segments, u, v) => Before(group'[i].segments, u, v)
      /\ tx'[t].state = "staged" /\ tx'[t].group # 0 =>
           \A u \in Tx : u # t /\ ~(t \in Priority /\ u \notin Command)
                           => Before(group'[tx'[t].group].segments, u, t)
  <2>1. CASE Rejects(o, t) \/ Parks(o, t)
    BY <2>1 DEF Rejects, Parks, OneChanges
  <2>2. CASE Stages(o, t)
    <3>1. PICK g \in Nat : TransmitEffect(OpsFor(o, t), o, t, g)
      BY <2>2, StagesEffect
    <3>2. tx'[t].group = g
      BY <3>1 DEF TransmitEffect
    <3> QED BY <1>0, <3>1, <3>2, StockStages
  <2> QED BY <2>1, <2>2 DEF Takes
<1>6. ASSUME NEW u \in Tx, NEW v \in Tx, Sooner(u, v)'
      PROVE  InLine(u, v)'
  <2>1. /\ u # t /\ Asked(u) /\ \E i \in 1..Len(asked) : asked[i] = u
        /\ \/ v # t /\ Sooner(u, v)
           \/ /\ v = t /\ tx[u].op = o /\ Live(o) /\ ~Parked(u)
              /\ ~(t \in Priority /\ u \notin Command)
    BY <1>6, TakesSooner
  <2>2. tx'[u] = tx[u]
    BY <1>1, <2>1
  <2>3. CASE v # t /\ Sooner(u, v)
    <3>1. InLine(u, v) /\ tx'[v] = tx[v]
      BY <1>1, <2>3 DEF Ordered
    <3>2. Staged(u) /\ Staged(v) => Before(group'[tx[u].group].segments, u, v)
      <4>1. Staged(u) /\ Staged(v) => tx[u].group \in 1..Len(group)
        BY <3>1 DEF InLine, Stock
      <4> QED BY <1>5, <2>1, <2>3, <3>1, <4>1 DEF InLine
    <3>3. Staged(u)' /\ Staged(v)' => Before(group'[tx'[u].group].segments, u, v)
      BY <2>2, <3>1, <3>2 DEF Staged
    <3> QED BY <1>2, <2>2, <3>1, <3>3 DEF InLine, Parked, Staged, Before, At
  <2>4. CASE /\ v = t /\ tx[u].op = o /\ Live(o) /\ ~Parked(u)
             /\ ~(t \in Priority /\ u \notin Command)
    <3>1. Staged(u) => tx[u].group # 0 /\ tx[u].group = op[o].group
      BY <1>0, <2>1, <2>4 DEF AskedOnes
    <3>2. ASSUME Staged(u), tx'[t].state = "staged"
          PROVE  /\ tx'[u].group = tx'[t].group /\ tx'[u].group # 0
                 /\ Before(group'[tx'[u].group].segments, u, t)
      <4>1. tx'[t].group = tx[u].group /\ tx'[t].group # 0
        BY <1>1, <2>4, <3>1, <3>2
      <4>2. Before(group'[tx'[t].group].segments, u, t)
        BY <1>5, <2>1, <2>4, <3>2, <4>1
      <4> QED BY <2>2, <4>1, <4>2
    <3> QED BY <1>2, <1>3, <2>2, <2>4, <3>2 DEF InLine, Parked, Staged, Before, At
  <2> QED BY <2>1, <2>3, <2>4
<1>7. OwnOrder'
  <2>1. \A i \in 1..Len(log) : log[i] \in LogEntry
    BY DEF LogOK
  <2>2. \A i \in 1..Len(log) : log[i].tx \in Tx
    BY <2>1 DEF LogEntry
  <2>3. \A i, j \in 1..Len(log) : i < j => ~Sooner(log[j].tx, log[i].tx)
    BY OwnOrderSame DEF Ordered
  <2>4. ASSUME NEW i \in 1..Len(log), NEW j \in 1..Len(log), i < j,
               NEW k \in 1..Len(asked'), NEW l \in 1..Len(asked'), k < l,
               asked'[k] = log[j].tx, asked'[l] = log[i].tx,
               tx'[asked'[k]].op = tx'[asked'[l]].op,
               ~(asked'[l] \in Priority /\ asked'[k] \notin Command)
        PROVE  FALSE
    <3>1. PICK u \in Tx, v \in Tx : u = log[j].tx /\ v = log[i].tx
      BY <2>2
    <3>2. Sooner(u, v)'
      BY <2>4, <3>1 DEF Sooner
    <3>3. Logged(v)
      BY <3>1 DEF Logged
    <3>4. Sooner(u, v)
      BY <1>3, <3>2, <3>3, TakesSooner
    <3> QED BY <2>3, <2>4, <3>1, <3>4
  <2> QED BY <1>0, <2>4 DEF OwnOrder
<1> QED BY <1>4, <1>6, <1>7 DEF Ordered

-----------------------------------------------------------------------------
(* All of it together, and the places through each action. *)

Kept == Holding /\ Stock /\ Direct /\ Places /\ Life /\ Ordered

LEMMA KeptOnward ==
  ASSUME RestOK, LogOK, RestOK', LogOK', Kept, Onward, Scoped, SamePlaces,
         asked' = asked, log' = log, Holding', Stock', Direct', Places'
  PROVE  Kept'
BY LifeKept, OrderedKept DEF Kept

LEMMA SameSends ==
  ASSUME tx' = tx, op' = op
  PROVE  Onward /\ Scoped /\ SameStaged /\ NoneStaged
BY DEF Onward, Scoped, Parked, Staged, SameStaged, NoneStaged, Asked

LEMMA PlacesKept ==
  ASSUME RestOK, Places, deciding' = deciding, pending' = pending, settling' = settling,
         slot' = slot \/ slot' = None,
         \A t \in Tx : tx[t].state \in {"pending", "deciding", "settled"} => tx'[t].state = tx[t].state
  PROVE  Places'
<1>1. \A i \in 1..Len(pending) : pending[i] \in Tx
  BY DEF RestOK
<1>2. deciding # None => deciding \in Command /\ tx'[deciding].state = "deciding"
  BY DEF Places, RestOK
<1>3. \A i \in 1..Len(pending) : pending[i] \in Command /\ tx'[pending[i]].state = "pending"
  BY <1>1 DEF Places
<1>4. settling # None => tx'[settling].state = "settled"
  BY DEF Places, RestOK
<1>5. slot' # None => slot' \in Command
  BY DEF Places
<1>6. \A i, j \in 1..Len(pending) : pending[i] = pending[j] => i = j
  BY DEF Places
<1> QED BY <1>2, <1>3, <1>4, <1>5, <1>6 DEF Places

LEMMA PlacesSendRaw ==
  ASSUME MainOK, RestOK, Order, Holding, Places, NEW o \in Op, NEW t \in Tx, SendRaw(o, t)
  PROVE  Places'
<1>1. UNCHANGED <<deciding, pending, settling, slot>> /\ tx[t].state = "new"
  BY DEF SendRaw
<1>2. \A u \in Tx : u # t => tx'[u] = tx[u]
  BY SendRawTakes, TakesStates
<1> QED BY <1>1, <1>2, PlacesKept

\* What doSendMsg does to the places of t.
LEMMA DoSendPlaces ==
  ASSUME MainOK, Order, Holding, NEW o \in Op, NEW t \in Command, DoSend(o, t), Takes(o, t)
  PROVE  /\ slot' = slot \/ slot' = t
         /\ deciding' = deciding \/ (deciding = None /\ deciding' = t /\ tx'[t].state = "deciding")
         /\ tx'[t].state = "pending" => slot # None \/ deciding # None
<1>0. tx \in TxTable /\ t \in Tx /\ tx[t] \in TxRecord
  BY OutboundAssumption DEF MainOK, TxTable
<1>1. CASE Refuse(o, t)
  BY <1>0, <1>1 DEF Refuse, TxTable, TxRecord
<1>2. CASE Postpone(o, t)
  BY <1>2 DEF Postpone
<1>3. CASE AwaitDecision(o, t)
  BY <1>0, <1>3 DEF AwaitDecision, TxTable, TxRecord
<1>4. CASE StartSend(o, t) /\ UNCHANGED deciding
  <2>1. tx'[t].state = "staged"
    BY <1>0, <1>4 DEF StartSend, Transmit, TxTable
  <2> QED BY <1>4, <2>1 DEF StartSend
<1> QED BY <1>1, <1>2, <1>3, <1>4 DEF DoSend

LEMMA PlacesSend ==
  ASSUME MainOK, RestOK, Order, Holding, Places, NEW o \in Op, NEW t \in Tx, Send(o, t)
  PROVE  Places'
<1>1. /\ UNCHANGED settling /\ tx[t].state = "new" /\ t \in Command /\ DoSend(o, t)
      /\ pending' = IF tx'[t].state = "pending" THEN Append(pending, t) ELSE pending
  BY DEF Send
<1>2. Takes(o, t) /\ \A u \in Tx : u # t => tx'[u] = tx[u]
  BY SendTakes, TakesStates
<1>3. /\ slot' = slot \/ slot' = t
      /\ deciding' = deciding \/ (deciding' = t /\ tx'[t].state = "deciding")
  BY <1>1, <1>2, DoSendPlaces
<1>4. deciding' # None => deciding' \in Command /\ tx'[deciding'].state = "deciding"
  BY <1>1, <1>2, <1>3 DEF Places, RestOK
<1>5. settling' # None => tx'[settling'].state = "settled"
  BY <1>1, <1>2 DEF Places, RestOK
<1>6. slot' # None => slot' \in Command
  BY <1>1, <1>3 DEF Places
<1>7. \A i \in 1..Len(pending) : pending[i] \in Command /\ pending[i] \in Tx /\ pending[i] # t
                                 /\ tx'[pending[i]].state = "pending"
  BY <1>1, <1>2 DEF Places, RestOK
<1>8. \A i, j \in 1..Len(pending) : pending[i] = pending[j] => i = j
  BY DEF Places
<1>9. CASE pending' = pending
  BY <1>4, <1>5, <1>6, <1>7, <1>8, <1>9 DEF Places
<1>10. CASE pending' = Append(pending, t) /\ tx'[t].state = "pending"
  <2>1. /\ Len(pending) \in Nat /\ Len(pending') = Len(pending) + 1 /\ pending'[Len(pending) + 1] = t
        /\ \A i \in 1..Len(pending) : pending'[i] = pending[i]
    BY <1>10 DEF RestOK
  <2>2. \A i \in 1..Len(pending') : pending'[i] \in Command /\ tx'[pending'[i]].state = "pending"
    BY <1>1, <1>7, <1>10, <2>1
  <2>3. \A i, j \in 1..Len(pending') : pending'[i] = pending'[j] => i = j
    BY <1>7, <1>8, <2>1
  <2> QED BY <1>4, <1>5, <1>6, <2>2, <2>3 DEF Places
<1> QED BY <1>1, <1>9, <1>10

LEMMA PlacesDrain ==
  ASSUME MainOK, RestOK, Order, Owned, Holding, Places, Direct, DrainSend
  PROVE  Places'
<1> DEFINE t == Head(pending)
           o == tx[t].op
<1>1. /\ pending # <<>> /\ slot = None /\ deciding = None /\ Draining
      /\ UNCHANGED settling /\ pending' = Tail(pending) /\ DoSend(o, t)
  BY DEF DrainSend, Draining
<1>2. flush.stage # "direct"
  BY <1>1 DEF Direct
<1>3. t \in Command /\ o \in Op /\ Takes(o, t)
  BY <1>2, DrainSendTakes
<1>4. /\ Len(pending) \in Nat /\ 1 \in 1..Len(pending) /\ pending[1] = t
      /\ Len(pending') = Len(pending) - 1
      /\ \A i \in 1..Len(pending') : pending'[i] = pending[i + 1] /\ i + 1 \in 1..Len(pending)
      /\ \A i \in 1..Len(pending) : pending[i] \in Tx
  BY <1>1 DEF RestOK
<1>5. t \in Tx /\ tx[t].state = "pending"
  BY <1>4 DEF Places
<1> HIDE DEF t, o
<1>6. /\ slot' = slot \/ slot' = t
      /\ deciding' = deciding \/ (deciding' = t /\ tx'[t].state = "deciding")
  BY <1>1, <1>3, DoSendPlaces
<1>z. PICK u \in Tx : u = t
  BY <1>5
<1>7. \A v \in Tx : v # u => tx'[v] = tx[v]
  BY <1>3, <1>z, TakesStates
<1>8. deciding' # None => deciding' \in Command /\ tx'[deciding'].state = "deciding"
  BY <1>1, <1>3, <1>6
<1>9. slot' # None => slot' \in Command
  BY <1>1, <1>3, <1>6
<1>10. settling' # None => tx'[settling'].state = "settled"
  BY <1>1, <1>5, <1>7, <1>z DEF Places, RestOK
<1>11. ASSUME NEW i \in 1..Len(pending')
       PROVE  pending'[i] \in Command /\ tx'[pending'[i]].state = "pending"
  <2>1. pending'[i] = pending[i + 1] /\ i + 1 \in 1..Len(pending) /\ i + 1 # 1
    BY <1>4
  <2>2. pending[i + 1] # u /\ pending[i + 1] \in Tx
    BY <1>4, <1>z, <2>1 DEF Places
  <2> QED BY <1>7, <2>1, <2>2 DEF Places
<1>12. ASSUME NEW i \in 1..Len(pending'), NEW j \in 1..Len(pending'), pending'[i] = pending'[j]
       PROVE  i = j
  <2>1. i + 1 = j + 1
    BY <1>4, <1>12 DEF Places
  <2> QED BY <2>1, <1>4
<1> QED BY <1>8, <1>9, <1>10, <1>11, <1>12 DEF Places

LEMMA PlacesDecide ==
  ASSUME MainOK, RestOK, Order, Owned, Holding, Places, Decide
  PROVE  Places'
<1> DEFINE t == deciding
           o == tx[t].op
<1>1. /\ t # None /\ deciding' = None /\ UNCHANGED <<pending, settling>>
      /\ slot' = t \/ slot' = slot
  BY DEF Decide, StartSend
<1>2. t \in Command /\ t \in Tx /\ o \in Op /\ Takes(o, t) /\ tx[t].state = "deciding"
  BY <1>1, DecideTakes, OutboundAssumption DEF Places
<1> HIDE DEF t, o
<1>3. \A u \in Tx : u # t => tx'[u] = tx[u]
  BY <1>2, TakesStates
<1>4. \A i \in 1..Len(pending) : pending[i] \in Command /\ tx'[pending[i]].state = "pending"
  BY <1>2, <1>3 DEF Places, RestOK
<1>5. settling # None => tx'[settling].state = "settled"
  BY <1>2, <1>3 DEF Places, RestOK
<1>6. slot' # None => slot' \in Command
  BY <1>1, <1>2 DEF Places
<1>7. \A i, j \in 1..Len(pending) : pending[i] = pending[j] => i = j
  BY DEF Places
<1> QED BY <1>1, <1>4, <1>5, <1>6, <1>7 DEF Places

-----------------------------------------------------------------------------
(* Every action keeps it. *)

TypesOK == MainOK /\ RestOK /\ LogOK

LEMMA KeptSends ==
  ASSUME TypesOK, TypesOK', Order, Owned, Kept,
         \/ DrainSend \/ Decide
         \/ \E o \in Op, t \in Tx : SendRaw(o, t) \/ Send(o, t)
  PROVE  Kept'
<1>0. MainOK /\ RestOK /\ LogOK /\ MainOK' /\ RestOK' /\ LogOK'
  BY DEF TypesOK
<1>k. Holding /\ Stock /\ Direct /\ Places /\ Life /\ Ordered
  BY DEF Kept
<1>1. ASSUME NEW o \in Op, NEW t \in Tx, Takes(o, t), Places'
      PROVE  Kept'
  <2>1. Holding' /\ Stock'
    BY <1>0, <1>k, <1>1, TakesHolding
  <2>2. Direct'
    BY <1>0, <1>k, <1>1, DirectTakes
  <2>3. Life'
    BY <1>0, <1>k, <1>1, LifeTakes
  <2>4. Ordered'
    BY <1>0, <1>k, <1>1, OrderedTakes
  <2> QED BY <1>1, <2>1, <2>2, <2>3, <2>4 DEF Kept
<1>2. CASE DrainSend
  <2>1. flush.stage # "direct"
    BY <1>2, <1>k DEF DrainSend, Direct
  <2>2. PICK t \in Command, o \in Op : Takes(o, t)
    BY <1>0, <1>k, <1>2, <2>1, DrainSendTakes
  <2>3. t \in Tx
    BY OutboundAssumption
  <2> QED BY <1>0, <1>k, <1>1, <1>2, <2>2, <2>3, PlacesDrain
<1>3. CASE Decide
  <2>2. PICK t \in Command, o \in Op : Takes(o, t)
    BY <1>0, <1>k, <1>3, DecideTakes
  <2>3. t \in Tx
    BY OutboundAssumption
  <2> QED BY <1>0, <1>k, <1>1, <1>3, <2>2, <2>3, PlacesDecide
<1>4. ASSUME NEW o \in Op, NEW t \in Tx, SendRaw(o, t)
      PROVE  Kept'
  BY <1>0, <1>k, <1>1, <1>4, SendRawTakes, PlacesSendRaw
<1>5. ASSUME NEW o \in Op, NEW t \in Tx, Send(o, t)
      PROVE  Kept'
  BY <1>0, <1>k, <1>1, <1>5, SendTakes, PlacesSend
<1> QED BY <1>2, <1>3, <1>4, <1>5

\* The callback whose command is given up stops waiting for it.
LEMMA StoppedScoped ==
  ASSUME MainOK, Life, NEW s \in Command, s \in Tx, InHand(s), ~Parked(s), Onward,
         op' = Stopped(op, tx[s].op)
  PROVE  Scoped
<1>1. SoftOps(op')
  BY StoppedSoft
<1>2. ASSUME NEW p \in Op
      PROVE  /\ op'[p].group = op[p].group
             /\ op'[p].state \in {"running", "waiting"} => op'[p] = op[p]
             /\ op[p].state = "waiting" => op'[p].state # "running"
             /\ p # tx[s].op => op'[p] = op[p]
  BY DEF MainOK, Stopped, OpTable, OpRecord
<1>3. ASSUME NEW t \in Tx, Asked(t), tx[t].op \in Op
      PROVE  LET o == tx[t].op IN
             /\ op'[o].group = op[o].group
             /\ op'[o].state \in {"running", "waiting"} => op[o].state \in {"running", "waiting"}
             /\ t \in Command /\ tx'[t].state \in {"pending", "deciding", "staged", "written"}
                  /\ o \notin Bare /\ op[o].state = "waiting" => op'[o].state # "running"
             /\ t \in Command /\ tx'[t].state \in {"pending", "deciding"} /\ o \notin Bare /\ op[o].state = "waiting"
                  => op'[o].state = "waiting"
  <2> DEFINE o == tx[t].op
  <2>1. ASSUME t \in Command, tx'[t].state \in {"pending", "deciding"}, o \notin Bare, op[o].state = "waiting"
        PROVE  op'[o].state = "waiting"
    <3>1. Parked(t) /\ InHand(t) /\ Live(o) /\ t # s
      BY <2>1 DEF Onward, Parked, InHand, Live
    <3>2. tx[s].op # o
      BY <2>1, <3>1 DEF Life, Waiting
    <3> QED BY <1>2, <1>3, <2>1, <3>2
  <2> QED BY <1>2, <1>3, <2>1
<1>4. ASSUME NEW t \in Tx, tx[t].op \notin Op
      PROVE  op'[tx[t].op] = op[tx[t].op]
  BY <1>4 DEF MainOK, Stopped, OpTable
<1> QED BY <1>3, <1>4 DEF Scoped

LEMMA KeptEnds ==
  ASSUME TypesOK, TypesOK', Order, Owned, Kept, NEW gs \in Seq(Group), Len(gs) = Len(group),
         ConnectionEnds(gs), UNCHANGED <<deciding, pending, settling, asked, log>>
  PROVE  Kept'
<1>0. MainOK /\ RestOK /\ LogOK /\ MainOK' /\ RestOK' /\ LogOK'
  BY DEF TypesOK
<1>k. Holding /\ Stock /\ Direct /\ Places /\ Life /\ Ordered
  BY DEF Kept
<1>1. /\ \A t \in Tx : tx'[t] = IF Staged(t) THEN [tx[t] EXCEPT !.state = "rejected"] ELSE tx[t]
      /\ flush'.stage = "idle"
      /\ \/ slot # None /\ Staged(slot) /\ slot' = None /\ op' = Stopped(op, tx[slot].op)
         \/ UNCHANGED <<slot, op>>
  BY DEF ConnectionEnds, Idle
<1>2. \A t \in Tx : tx[t] \in TxRecord
  BY <1>0 DEF MainOK, TxTable
<1>3. \A t \in Tx : /\ Staged(t) => tx'[t].state = "rejected" /\ tx'[t].op = tx[t].op
                    /\ ~Staged(t) => tx'[t] = tx[t]
                    /\ tx'[t].state # "staged"
  BY <1>1, <1>2 DEF TxRecord, Staged
<1>4. Onward
  BY <1>3 DEF Onward, Parked, Staged
<1>5. Scoped
  <2>1. CASE UNCHANGED <<slot, op>>
    BY <2>1 DEF Scoped
  <2>2. CASE slot # None /\ Staged(slot) /\ op' = Stopped(op, tx[slot].op)
    <3>1. slot \in Command /\ slot \in Tx /\ InHand(slot) /\ ~Parked(slot)
      BY <1>k, <2>2, OutboundAssumption DEF Places, InHand, Staged, Parked
    <3> QED BY <1>0, <1>k, <1>4, <2>2, <3>1, StoppedScoped
  <2> QED BY <1>1, <2>1, <2>2
<1>6. Holding' /\ \A i \in 1..Len(group') : group'[i].segments = <<>> /\ group'[i].finished
  BY <1>0, <1>k, HoldingEnds
<1>7. Stock'
  BY <1>3, <1>6, StockEnds
<1>8. Direct'
  BY <1>1, <1>3 DEF Direct, Staged
<1>9. Places'
  <2>1. \A t \in Tx : tx[t].state \in {"pending", "deciding", "settled"} => tx'[t].state = tx[t].state
    BY <1>3 DEF Staged
  <2> QED BY <1>0, <1>1, <1>k, <2>1, PlacesKept
<1>10. SamePlaces
  BY <1>3 DEF SamePlaces
<1> QED BY <1>0, <1>4, <1>5, <1>6, <1>7, <1>8, <1>9, <1>10, KeptOnward DEF Kept

LEMMA KeptPlain ==
  ASSUME TypesOK, TypesOK', Kept, Alike(group', group), conn'.epoch = conn.epoch,
         UNCHANGED <<tx, op, queue, slot, deciding, pending, settling, asked, log>>,
         \/ flush.stage # "direct" /\ flush'.stage # "direct"
         \/ flush' = flush /\ conn'.phase = conn.phase /\ inline' = inline
  PROVE  Kept'
<1>0. RestOK /\ LogOK /\ RestOK' /\ LogOK' /\ MainOK
  BY DEF TypesOK
<1>k. Holding /\ Stock /\ Direct /\ Places /\ Life /\ Ordered
  BY DEF Kept
<1>1. Onward /\ Scoped /\ SameStaged /\ NoneStaged
  BY SameSends
<1>2. /\ Len(group') = Len(group)
      /\ \A i \in 1..Len(group) : /\ group'[i].segments = group[i].segments
                                  /\ group'[i].retain = group[i].retain
                                  /\ group'[i].finished = group[i].finished
  BY DEF Alike
<1>3. SoftOps(op')
  BY DEF SoftOps
<1>4. Holding'
  BY <1>k, <1>2, <1>3, HoldingSoft
<1>5. Stock'
  BY <1>k, <1>1, <1>2, StockKept
<1>6. Direct'
  BY <1>k, <1>1, DirectKept, DirectSame
<1>7. Places'
  BY <1>0, <1>k, PlacesKept
<1>8. SamePlaces
  BY <1>2 DEF SamePlaces
<1> QED BY <1>0, <1>1, <1>4, <1>5, <1>6, <1>7, <1>8, KeptOnward

LEMMA KeptCloses ==
  ASSUME TypesOK, TypesOK', Order, Owned, Kept, NEW gs \in Seq(Group), NEW next, Alike(gs, group),
         CloseSocket(gs, next), flush.stage # "direct", next.stage # "direct",
         UNCHANGED <<deciding, pending, settling, asked, log>>
  PROVE  Kept'
<1>1. CASE ConnectionEnds(gs)
  <2>1. Len(gs) = Len(group)
    BY DEF Alike
  <2> QED BY <1>1, <2>1, KeptEnds
<1>2. CASE /\ conn' = [conn EXCEPT !.phase = "closing", !.sock = "draining"]
           /\ group' = gs /\ flush' = next
           /\ UNCHANGED <<op, tx, queue, slot>>
  <2>1. conn'.epoch = conn.epoch
    BY <1>2 DEF TypesOK, MainOK, ConnType
  <2> QED BY <1>2, <2>1, KeptPlain
<1> QED BY <1>1, <1>2 DEF CloseSocket

LEMMA KeptConnection ==
  ASSUME TypesOK, TypesOK', Order, Owned, Kept,
         RemoteClose \/ SocketDrains \/ Connect \/ Disconnect \/ InlineEnds
  PROVE  Kept'
<1>1. /\ flush.stage # "direct" /\ group \in Seq(Group) /\ Alike(group, group)
      /\ UNCHANGED <<deciding, pending, settling, asked, log>>
  BY QuietNotDirect, FieldsAlike
     DEF RemoteClose, SocketDrains, Connect, Disconnect, InlineEnds, EventLoop, TypesOK, MainOK
<1>2. CASE ConnectionEnds(group)
  BY <1>1, <1>2, KeptEnds
<1>3. CASE CloseSocket(group, flush)
  BY <1>1, <1>3, KeptCloses
<1>4. CASE /\ conn'.epoch = conn.epoch /\ UNCHANGED <<op, tx, queue, flush, slot>>
           /\ group' = group \/ \E g : group' = [group EXCEPT ![g].closes = TRUE]
  <2>1. ASSUME NEW g PROVE Alike([group EXCEPT ![g].closes = TRUE], group)
    BY <1>1, FieldsAlike
  <2>2. Alike(group', group)
    BY <1>1, <1>4, <2>1
  <2> QED BY <1>1, <1>4, <2>2, KeptPlain
<1>5. conn \in ConnType
  BY DEF TypesOK, MainOK
<1>6. /\ SocketDrains => ConnectionEnds(group) \/ (conn'.epoch = conn.epoch /\ UNCHANGED <<op, tx, group, queue, flush, slot>>)
      /\ Connect => conn'.epoch = conn.epoch /\ UNCHANGED <<op, tx, group, queue, flush, slot>>
      /\ InlineEnds => conn'.epoch = conn.epoch /\ UNCHANGED <<op, tx, group, queue, flush, slot>>
  BY <1>5 DEF SocketDrains, Connect, InlineEnds, ConnType
<1>7. Disconnect => \/ CloseSocket(group, flush)
                    \/ /\ conn'.epoch = conn.epoch /\ UNCHANGED <<op, tx, queue, flush, slot>>
                       /\ group' = [group EXCEPT ![queue[Len(queue)]].closes = TRUE]
  BY <1>5 DEF Disconnect, ConnType
<1>8. RemoteClose => ConnectionEnds(group)
  BY DEF RemoteClose
<1> QED BY <1>2, <1>3, <1>4, <1>6, <1>7, <1>8

LEMMA KeptRecords ==
  ASSUME TypesOK, TypesOK', Order, Owned, Kept, PublishRecord \/ PublicationCompletes
  PROVE  Kept'
<1>0. /\ group \in Seq(Group) /\ Direct
      /\ UNCHANGED <<deciding, pending, settling, inline, asked, log>>
  BY DEF PublishRecord, PublicationCompletes, TypesOK, MainOK, Kept
<1>1. CASE UNCHANGED <<conn, op, tx, group, queue, flush, slot>>
  BY <1>0, <1>1, FieldsAlike, KeptPlain
<1>2. ASSUME NEW r \in Record, Published(r)
      PROVE  Kept'
  <2>1. PICK gs : /\ gs = IF r.group = 0 THEN group ELSE [group EXCEPT ![r.group].records = @ - 1]
                  /\ \/ /\ ClosesNow(gs[r.group]) /\ CloseSocket(gs, flush)
                        /\ r.group # 0
                     \/ group' = gs /\ UNCHANGED <<conn, op, tx, queue, flush, slot>>
    BY <1>2 DEF Published
  <2>2. Alike(gs, group)
    <3>1. gs = group \/ gs = [group EXCEPT ![r.group].records = group[r.group].records - 1]
      BY <2>1
    <3>2. Alike(group, group) /\ \A n : Alike([group EXCEPT ![r.group].records = n], group)
      BY <1>0, FieldsAlike
    <3> QED BY <3>1, <3>2
  <2>3. CASE group' = gs /\ UNCHANGED <<conn, op, tx, queue, flush, slot>>
    BY <1>0, <2>2, <2>3, KeptPlain
  <2>4. CASE ClosesNow(gs[r.group]) /\ CloseSocket(gs, flush) /\ r.group # 0
    <3>1. flush.stage # "direct"
      BY <1>0, <2>4 DEF ClosesNow, Direct
    <3>2. gs \in Seq(Group)
      <4>1. gs = [group EXCEPT ![r.group] = [group[r.group] EXCEPT !.records = group[r.group].records - 1]]
        BY <2>1, <2>4
      <4>2. r.group \in 1..Len(group) =>
              [group[r.group] EXCEPT !.records = group[r.group].records - 1] \in Group
        <5> SUFFICES ASSUME r.group \in 1..Len(group)
                     PROVE  [group[r.group] EXCEPT !.records = group[r.group].records - 1] \in Group
          OBVIOUS
        <5>1. group[r.group] \in Group
          BY <1>0
        <5>2. group[r.group].records - 1 \in Int
          BY <5>1 DEF Group
        <5> QED BY <5>1, <5>2, GroupFields
      <4> QED BY <1>0, <4>1, <4>2, ReplaceInSeq
    <3> QED BY <1>0, <2>2, <2>4, <3>1, <3>2, KeptCloses
  <2> QED BY <2>1, <2>3, <2>4
<1>3. PublishRecord => records # <<>> /\ records \in Seq(Record) /\ Head(records) \in Record
  BY DEF PublishRecord, Drainable, TypesOK, RestOK
<1>4. PublicationCompletes => publishing \in Record
  BY DEF PublicationCompletes, TypesOK, RestOK
<1> QED BY <1>1, <1>2, <1>3, <1>4 DEF PublishRecord, PublicationCompletes

LEMMA KeptFlush ==
  ASSUME TypesOK, TypesOK', Order, Owned, Kept,
         FlushPop \/ FlushReturns \/ FlushFinishes \/ FlushGoesOn
  PROVE  Kept'
<1>0. /\ group \in Seq(Group) /\ Alike(group, group)
      /\ UNCHANGED <<deciding, pending, settling, asked, log>>
  BY FieldsAlike DEF FlushPop, FlushReturns, FlushFinishes, FlushGoesOn, TypesOK, MainOK
<1>m. MainOK /\ RestOK /\ LogOK /\ RestOK' /\ LogOK' /\ queue \in Seq(Nat) /\ flush \in FlushType
  BY DEF TypesOK, MainOK
<1>k. Holding /\ Stock /\ Direct /\ Places /\ Life /\ Ordered
  BY DEF Kept
<1>1. CASE FlushPop
  <2>1. UNCHANGED <<conn, op, tx, queue, flush, slot>>
    BY <1>1 DEF FlushPop
  <2>2. /\ Stock' /\ flush.group \in 1..Len(group)
        /\ Len(group') = Len(group)
        /\ \A i \in 1..Len(group) : i # flush.group => group'[i] = group[i]
        /\ \A u, v \in Tx : Before(group[flush.group].segments, u, v)
                              => Before(group'[flush.group].segments, u, v)
        /\ \A i \in 1..Len(group) : /\ group'[i].retain = group[i].retain
                                    /\ group'[i].finished = group[i].finished
    BY <1>m, <1>k, <1>1, StockPops
  <2>3. SoftOps(op')
    BY <2>1 DEF SoftOps
  <2>4. Holding'
    BY <1>k, <2>1, <2>2, <2>3, HoldingSoft
  <2>5. Onward /\ Scoped /\ NoneStaged
    BY <2>1, SameSends
  <2>6. Direct'
    BY <1>1, <1>k, <2>1, <2>5, DirectKept DEF FlushPop, Writing
  <2>7. Places'
    BY <1>0, <1>m, <1>k, <2>1, PlacesKept
  <2>8. SamePlaces
    BY <2>2 DEF SamePlaces
  <2> QED BY <1>0, <1>m, <2>2, <2>4, <2>5, <2>6, <2>7, <2>8, KeptOnward
<1>2. CASE FlushReturns
  BY <1>0, <1>2, KeptPlain DEF FlushReturns, Notifying, Writing, Idle
<1>3. CASE FlushFinishes
  <2>1. /\ UNCHANGED <<conn, op, tx, slot>> /\ flush.stage = "write"
        /\ flush' = [flush EXCEPT !.stage = "drain"]
        /\ group' = [group EXCEPT ![flush.group].finished = TRUE]
        /\ group[flush.group].segments = <<>>
    BY <1>3 DEF FlushFinishes, Writing
  <2>2. Holding'
    BY <1>m, <1>k, <1>3, HoldingFinishes
  <2>3. Onward /\ Scoped /\ SameStaged /\ NoneStaged
    BY <2>1, SameSends
  <2>4. flush'.stage = "drain"
    BY <1>m, <2>1 DEF FlushType
  <2>5. Direct'
    BY <1>k, <2>1, <2>3, <2>4, DirectKept
  <2>6. Places'
    BY <1>0, <1>m, <1>k, <2>1, PlacesKept
  <2>7. /\ Len(group') = Len(group)
        /\ \A i \in 1..Len(group) : /\ group'[i].segments = group[i].segments
                                    /\ group'[i].finished => group[i].finished \/ group[i].segments = <<>>
    <3>1. \A i \in 1..Len(group) : group[i] \in Group
      BY <1>0
    <3>2. Len(group') = Len(group)
      BY <1>0, <2>1
    <3>3. \A i \in 1..Len(group) : group'[i] = IF i = flush.group THEN [group[i] EXCEPT !.finished = TRUE]
                                                                 ELSE group[i]
      <4>1. group' = [group EXCEPT ![flush.group] = [group[flush.group] EXCEPT !.finished = TRUE]]
        BY <2>1
      <4>2. flush.group \in 1..Len(group)
        <5>1. queue # <<>> /\ flush.group = queue[1]
          BY <2>1 DEF Order, WritesFirst
        <5>2. 1 \in 1..Len(queue)
          BY <1>m, <5>1
        <5> QED BY <5>1, <5>2 DEF Order, Ascending
      <4>3. PICK f \in 1..Len(group) : f = flush.group
        BY <4>2
      <4>4. PICK v : v = [group[f] EXCEPT !.finished = TRUE]
        OBVIOUS
      <4>5. /\ [group EXCEPT ![f] = v][f] = v
            /\ \A k \in 1..Len(group) : k # f => [group EXCEPT ![f] = v][k] = group[k]
        BY <1>0, Replaced
      <4> QED BY <4>1, <4>3, <4>4, <4>5
    <3>4. \A i \in 1..Len(group) : [group[i] EXCEPT !.finished = TRUE].segments = group[i].segments
      BY <3>1 DEF Group
    <3> QED BY <2>1, <3>2, <3>3, <3>4
  <2>8. Stock'
    BY <1>k, <2>3, <2>7, StockKept
  <2>9. SamePlaces
    BY <2>7 DEF SamePlaces
  <2> QED BY <1>0, <1>m, <2>1, <2>2, <2>3, <2>5, <2>6, <2>8, <2>9, KeptOnward
<1>4. CASE FlushGoesOn
  <2>1. flush.stage # "direct" /\ Idle.stage # "direct" /\ StartFlush(group, queue).stage # "direct"
    BY <1>4 DEF FlushGoesOn, Idle, StartFlush
  <2>2. CASE CloseSocket(group, Idle)
    BY <1>0, <2>1, <2>2, KeptCloses
  <2>3. CASE /\ flush' = StartFlush(group, queue)
             /\ UNCHANGED <<conn, op, tx, group, queue, slot>>
    BY <1>0, <2>1, <2>3, KeptPlain
  <2> QED BY <1>4, <2>2, <2>3 DEF FlushGoesOn
<1> QED BY <1>1, <1>2, <1>3, <1>4

LEMMA KeptNotifies ==
  ASSUME TypesOK, TypesOK', Order, Owned, Kept, NotificationCompletes \/ NotificationEnds
  PROVE  Kept'
<1>0. /\ group \in Seq(Group) /\ tx \in TxTable /\ op \in OpTable
      /\ conn' = conn /\ queue' = queue /\ UNCHANGED <<deciding, pending, asked, log>>
      /\ flush.stage # "direct" /\ flush'.stage # "direct"
  BY QuietNotDirect
     DEF NotificationCompletes, NotificationEnds, EventLoop, TypesOK, MainOK, Kick, StartFlush, Idle
<1>m. MainOK /\ RestOK /\ LogOK /\ RestOK' /\ LogOK'
  BY DEF TypesOK
<1>k. Holding /\ Stock /\ Direct /\ Places /\ Life /\ Ordered
  BY DEF Kept
<1>c. Command \subseteq Tx
  BY OutboundAssumption
<1>1. CASE NotificationCompletes
  <2>1. /\ slot # None /\ tx[slot].state = "written" /\ tx' = [tx EXCEPT ![slot].state = "settled"]
        /\ settling' = slot /\ slot' = None /\ group' = group /\ op' = Resumed(op, tx[slot].op)
    BY <1>1 DEF NotificationCompletes
  <2>2. PICK s \in Command : s = slot
    BY <1>k, <2>1 DEF Places
  <2>3. s \in Tx /\ tx[s] \in TxRecord
    BY <1>0, <1>c, <2>2 DEF TxTable
  <2>4. /\ tx'[s].state = "settled" /\ tx'[s].op = tx[s].op
        /\ \A t \in Tx : t # s => tx'[t] = tx[t]
        /\ tx[s].state = "written"
    BY <1>0, <2>1, <2>2, <2>3 DEF TxTable, TxRecord
  <2>5. Onward /\ SameStaged /\ NoneStaged
    BY <2>3, <2>4 DEF Onward, SameStaged, NoneStaged, Staged, Parked
  <2>6. SoftOps(op')
    BY <1>m, <2>1, StoppedSoft
  <2>7. Scoped
    <3>1. tx[s].op \in Op
      BY <2>3, <2>4 DEF Owned, Asked
    <3>2. ASSUME NEW p \in Op
          PROVE  /\ op'[p].group = op[p].group
                 /\ op'[p].state \in {"running", "waiting"} => op[p].state \in {"running", "waiting"}
                 /\ p # tx[s].op => op'[p] = op[p]
      BY <1>0, <2>1, <2>2, <3>1 DEF Resumed, OpTable, OpRecord
    <3>3. ASSUME NEW t \in Tx, Asked(t), t \in Command, tx[t].op \notin Bare, op[tx[t].op].state = "waiting",
                 tx'[t].state \in {"pending", "deciding", "staged", "written"}
          PROVE  op'[tx[t].op] = op[tx[t].op]
      <4>1. t # s /\ InHand(t) /\ InHand(s) /\ Live(tx[t].op) /\ tx[t].op \in Op
        BY <2>4, <3>3 DEF InHand, Live, Owned
      <4>2. tx[t].op # tx[s].op
        BY <1>k, <2>2, <3>3, <4>1 DEF Life, Waiting
      <4> QED BY <3>2, <4>1, <4>2
    <3>4. \A t \in Tx : Asked(t) => tx[t].op \in Op
      BY DEF Owned
    <3> QED BY <3>2, <3>3, <3>4 DEF Scoped
  <2>8. Holding'
    BY <1>0, <1>k, <2>1, <2>6, HoldingSoft
  <2>9. Stock'
    BY <1>k, <2>1, <2>5, StockKept
  <2>10. Direct'
    BY <1>0, <1>k, <2>5, DirectKept
  <2>11. Places'
    <3>1. deciding # None => deciding \in Command /\ tx'[deciding].state = "deciding"
      BY <1>k, <1>c, <2>4 DEF Places
    <3>2. \A i \in 1..Len(pending) : pending[i] \in Command /\ tx'[pending[i]].state = "pending"
      BY <1>k, <1>c, <2>4 DEF Places
    <3>3. \A i, j \in 1..Len(pending) : pending[i] = pending[j] => i = j
      BY <1>k DEF Places
    <3> QED BY <1>0, <2>1, <2>2, <2>4, <3>1, <3>2, <3>3 DEF Places
  <2>12. SamePlaces
    BY <2>1 DEF SamePlaces
  <2> QED BY <1>0, <1>m, <2>5, <2>7, <2>8, <2>9, <2>10, <2>11, <2>12, KeptOnward DEF Kept
<1>2. CASE NotificationEnds
  <2>1. /\ settling # None /\ tx' = [tx EXCEPT ![settling].state = "done"] /\ settling' = None
        /\ UNCHANGED <<op, slot>>
        /\ group' = group \/ group' = [group EXCEPT ![tx[settling].group].note = FALSE]
    BY <1>2 DEF NotificationEnds
  <2>2. PICK s \in Tx : s = settling
    BY <1>m, <2>1 DEF RestOK
  <2>3. tx[s] \in TxRecord /\ tx[s].state = "settled"
    BY <1>0, <1>k, <2>1, <2>2 DEF TxTable, Places
  <2>4. /\ tx'[s].state = "done" /\ tx'[s].op = tx[s].op
        /\ \A t \in Tx : t # s => tx'[t] = tx[t]
    BY <1>0, <2>1, <2>2, <2>3 DEF TxTable, TxRecord
  <2>5. Onward /\ SameStaged /\ NoneStaged
    BY <2>3, <2>4 DEF Onward, SameStaged, NoneStaged, Staged, Parked
  <2>6. SoftOps(op') /\ Scoped
    BY <2>1 DEF SoftOps, Scoped
  <2>7. Alike(group', group)
    <3>1. Alike(group, group) /\ \A b : Alike([group EXCEPT ![tx[settling].group].note = b], group)
      BY <1>0, FieldsAlike
    <3> QED BY <2>1, <3>1
  <2>8. Holding'
    BY <1>0, <1>k, <2>6, <2>7, HoldingSoft DEF Alike
  <2>9. Stock'
    BY <1>k, <2>5, <2>7, StockKept DEF Alike
  <2>10. Direct'
    BY <1>0, <1>k, <2>5, DirectKept
  <2>11. Places'
    <3>1. deciding # None => deciding \in Command /\ tx'[deciding].state = "deciding"
      BY <1>k, <1>c, <2>3, <2>4 DEF Places
    <3>2. \A i \in 1..Len(pending) : pending[i] \in Command /\ tx'[pending[i]].state = "pending"
      BY <1>k, <1>c, <2>3, <2>4 DEF Places
    <3>3. \A i, j \in 1..Len(pending) : pending[i] = pending[j] => i = j
      BY <1>k DEF Places
    <3>4. slot # None => slot \in Command
      BY <1>k DEF Places
    <3> QED BY <1>0, <2>1, <3>1, <3>2, <3>3, <3>4 DEF Places
  <2>12. SamePlaces
    BY <2>7 DEF SamePlaces, Alike
  <2> QED BY <1>0, <1>m, <2>5, <2>6, <2>8, <2>9, <2>10, <2>11, <2>12, KeptOnward DEF Kept
<1> QED BY <1>1, <1>2

LEMMA RetainOnly ==
  ASSUME NEW gs \in Seq(Group), NEW g, NEW n
  PROVE  LET hs == [gs EXCEPT ![g].retain = n] IN
         /\ Len(hs) = Len(gs)
         /\ \A i \in 1..Len(gs) : hs[i].segments = gs[i].segments /\ hs[i].finished = gs[i].finished
<1>1. \A i \in 1..Len(gs) : gs[i] \in Group
  OBVIOUS
<1>2. PICK hs : hs = [gs EXCEPT ![g].retain = n]
  OBVIOUS
<1>3. Len(hs) = Len(gs)
  BY <1>2
<1>4. ASSUME NEW i \in 1..Len(gs)
      PROVE  hs[i].segments = gs[i].segments /\ hs[i].finished = gs[i].finished
  <2>1. gs[i] \in Group
    BY <1>1
  <2>2. hs[i] = gs[i] \/ hs[i] = [gs[i] EXCEPT !.retain = n]
    BY <1>2
  <2> QED BY <2>1, <2>2 DEF Group
<1> QED BY <1>2, <1>3, <1>4

LEMMA KeptCallbacks ==
  ASSUME TypesOK, TypesOK', Order, Owned, Kept, NEW o \in Op, Begin(o) \/ End(o)
  PROVE  Kept'
<1>0. /\ group \in Seq(Group) /\ op \in OpTable /\ tx' = tx
      /\ conn' = conn /\ queue' = queue /\ UNCHANGED <<slot, deciding, pending, settling, asked, log>>
      /\ flush.stage # "direct" /\ flush'.stage # "direct"
  BY QuietNotDirect DEF Begin, End, CanAct, TypesOK, MainOK, Kick, StartFlush, Idle
<1>m. MainOK /\ RestOK /\ LogOK /\ RestOK' /\ LogOK'
  BY DEF TypesOK
<1>k. Holding /\ Stock /\ Direct /\ Places /\ Life /\ Ordered
  BY DEF Kept
<1>1. Onward /\ SameStaged /\ NoneStaged
  BY <1>0 DEF Onward, SameStaged, NoneStaged, Staged, Parked
<1>2. group' = group \/ \E g, n : group' = [group EXCEPT ![g].retain = n]
  BY DEF Begin, End, Released
<1>3. /\ Len(group') = Len(group)
      /\ \A i \in 1..Len(group) : /\ group'[i].segments = group[i].segments
                                  /\ group'[i].finished = group[i].finished
  <2>1. CASE group' = group
    BY <2>1
  <2>2. ASSUME NEW g, NEW n, group' = [group EXCEPT ![g].retain = n]
        PROVE  /\ Len(group') = Len(group)
               /\ \A i \in 1..Len(group) : /\ group'[i].segments = group[i].segments
                                           /\ group'[i].finished = group[i].finished
    BY <1>0, <2>2, RetainOnly
  <2> QED BY <1>2, <2>1, <2>2
<1>4. Scoped
  <2>1. ASSUME NEW t \in Tx, Asked(t)
        PROVE  tx[t].op \in Op /\ op[tx[t].op].state # "idle"
    BY <2>1 DEF Owned
  <2>2. CASE Begin(o)
    <3>1. op[o].state = "idle" /\ \A p \in Op : p # o => op'[p] = op[p]
      BY <1>0, <2>2 DEF Begin, OpTable
    <3> QED BY <2>1, <3>1 DEF Scoped
  <2>3. CASE End(o)
    <3>1. op[o].state \in {"running", "cancelled"} /\ op' = [op EXCEPT ![o].state = "ended"]
      BY <2>3 DEF End
    <3>2. /\ \A p \in Op : p # o => op'[p] = op[p]
          /\ op'[o].state = "ended" /\ op'[o].group = op[o].group
      BY <1>0, <3>1 DEF OpTable, OpRecord
    <3> QED BY <2>1, <3>1, <3>2 DEF Scoped
  <2> QED BY <2>2, <2>3
<1>5. Holding'
  BY <1>m, <1>k, HoldingBegins, HoldingReleases
<1>6. Stock'
  BY <1>k, <1>1, <1>3, StockKept
<1>7. Direct'
  BY <1>0, <1>k, <1>1, DirectKept
<1>8. Places'
  BY <1>0, <1>m, <1>k, PlacesKept
<1>9. SamePlaces
  BY <1>3 DEF SamePlaces
<1> QED BY <1>0, <1>m, <1>1, <1>4, <1>5, <1>6, <1>7, <1>8, <1>9, KeptOnward

LEMMA KeptWrites ==
  ASSUME TypesOK, TypesOK', Order, Owned, Kept, WriteDirect \/ FlushWrite
  PROVE  Kept'
<1>0. /\ group \in Seq(Group) /\ Alike(group, group)
      /\ UNCHANGED <<deciding, pending, settling, asked>>
  BY FieldsAlike DEF WriteDirect, FlushWrite, TypesOK, MainOK
<1>m. MainOK /\ RestOK /\ LogOK /\ RestOK' /\ LogOK'
  BY DEF TypesOK
<1>k. Holding /\ Stock /\ Direct /\ Places /\ Life /\ Ordered
  BY DEF Kept
<1>1. CASE TelnetFails
  <2>1. ConnectionEnds(group) /\ log' = log
    BY <1>1 DEF TelnetFails
  <2> QED BY <1>0, <2>1, KeptEnds
<1>2. ASSUME NEW t \in Tx, Staged(t), Writes(t), Stock', Direct', SamePlaces,
             queue' = queue, conn'.epoch = conn.epoch, Len(group') = Len(group),
             \A i \in 1..Len(group) : group'[i].retain = group[i].retain /\ group'[i].finished = group[i].finished,
             \A u \in Tx : Sooner(u, t) => ~Staged(u)
      PROVE  Kept'
  <2>1. Onward
    BY <1>2 DEF Writes, Onward, Staged, Parked
  <2>2. SoftOps(op') /\ Scoped /\ (slot' = slot \/ slot' = None)
    <3>1. CASE UNCHANGED <<op, slot>>
      BY <3>1 DEF SoftOps, Scoped
    <3>2. CASE t \in Command /\ slot' = None /\ op' = Stopped(op, tx[t].op)
      <4>1. InHand(t) /\ ~Parked(t)
        BY <1>2 DEF InHand, Parked, Staged
      <4>2. Scoped
        BY <1>m, <1>k, <2>1, <3>2, <4>1, StoppedScoped
      <4>3. SoftOps(op')
        BY <1>m, <3>2, StoppedSoft
      <4> QED BY <3>2, <4>2, <4>3
    <3> QED BY <1>2, <3>1, <3>2 DEF Writes
  <2>3. Holding'
    BY <1>k, <1>2, <2>2, HoldingSoft
  <2>4. Places'
    <3>1. \A u \in Tx : tx[u].state \in {"pending", "deciding", "settled"} => tx'[u].state = tx[u].state
      BY <1>2 DEF Writes, Staged
    <3> QED BY <1>0, <1>m, <1>k, <2>2, <3>1, PlacesKept
  <2>5. Life'
    BY <1>0, <1>m, <1>k, <2>1, <2>2, LifeKept
  <2>6. Ordered'
    BY <1>0, <1>m, <1>k, <1>2, <2>1, OrderedWrites
  <2> QED BY <1>2, <2>3, <2>4, <2>5, <2>6 DEF Kept
<1>3. CASE FlushWrite
  <2>1. CASE TelnetFails
    BY <1>1, <2>1
  <2>2. ASSUME NEW t \in Tx, TakesFirst(t), Stock'
        PROVE  Kept'
    <3>1. Writes(t) /\ Staged(t) /\ queue' = queue /\ flush' = flush /\ conn'.epoch = conn.epoch
      BY <2>2 DEF TakesFirst
    <3>2. SamePlaces
      BY <2>2 DEF TakesFirst, SamePlaces
    <3>3. NoneStaged
      BY <3>1 DEF Writes, NoneStaged, Staged
    <3>4. Direct'
      BY <1>3, <1>k, <3>1, <3>3, DirectKept DEF FlushWrite, Writing
    <3>5. ASSUME NEW u \in Tx, Sooner(u, t), Staged(u)
          PROVE  FALSE
      <4>1. tx[u].group = tx[t].group /\ Before(group[tx[u].group].segments, u, t)
        BY <1>k, <3>1, <3>5 DEF Ordered, InLine
      <4> QED BY <2>2, <3>5, <4>1 DEF TakesFirst
    <3>6. Len(group') = Len(group)
          /\ \A i \in 1..Len(group) : group'[i].retain = group[i].retain /\ group'[i].finished = group[i].finished
      BY <2>2 DEF TakesFirst
    <3> QED BY <1>2, <2>2, <3>1, <3>2, <3>4, <3>5, <3>6
  <2> QED BY <1>m, <1>k, <1>3, <2>1, <2>2, StockWrites
<1>4. CASE WriteDirect
  <2>1. PICK t \in Tx : /\ Staged(t) /\ tx[t].group = 0
                        /\ \/ (Accepted(t, 0, group) \/ Failed(t, group)) /\ flush' = Idle /\ UNCHANGED queue
                           \/ TelnetFails
    BY <1>4 DEF WriteDirect
  <2>2. CASE (Accepted(t, 0, group) \/ Failed(t, group)) /\ flush' = Idle /\ UNCHANGED queue
    <3>1. Writes(t) /\ Alike(group', group) /\ conn'.epoch = conn.epoch
      BY <1>m, <1>0, <2>2, WritesTx
    <3>2. Stock'
      BY <1>m, <1>k, <2>1, <3>1, StockDirect
    <3>3. SamePlaces
      BY <3>1 DEF SamePlaces, Alike
    <3>4. Direct'
      <4>1. flush'.stage = "idle"
        BY <2>2 DEF Idle
      <4>2. \A u \in Tx : tx'[u].state = "staged" => u # t /\ tx'[u] = tx[u]
        BY <3>1 DEF Writes
      <4>3. \A u \in Tx : Staged(u) /\ tx[u].group = 0 => u = t
        BY <1>k, <2>1 DEF Direct
      <4> QED BY <4>1, <4>2, <4>3 DEF Direct, Staged
    <3>5. ASSUME NEW u \in Tx, Sooner(u, t)
          PROVE  FALSE
      <4>1. PICK l \in 1..Len(asked) : asked[l] = t
        BY <3>5 DEF Sooner
      <4> QED BY <1>k, <2>1, <4>1 DEF Life, AskedOnes
    <3> QED BY <1>2, <2>1, <2>2, <3>1, <3>2, <3>3, <3>4, <3>5 DEF Alike
  <2> QED BY <1>1, <2>1, <2>2
<1> QED BY <1>3, <1>4

-----------------------------------------------------------------------------

LEMMA KeptInit == Init => Kept
<1> SUFFICES ASSUME Init PROVE Kept
  OBVIOUS
<1>1. /\ group = <<>> /\ queue = <<>> /\ log = <<>> /\ asked = <<>> /\ pending = <<>>
      /\ \A t \in Tx : tx[t].state = "new"
      /\ \A o \in Op : /\ op[o].state \in {"idle", "running"} /\ op[o].epoch = 0 /\ op[o].group = 0
                      /\ ~Live(o)
      /\ conn.epoch = 1 /\ flush.stage = "idle"
      /\ deciding = None /\ slot = None /\ settling = None
  BY DEF Init, Idle, Live
<1>2. /\ Len(group) = 0 /\ Len(queue) = 0 /\ Len(log) = 0 /\ Len(asked) = 0 /\ Len(pending) = 0
  BY <1>1
<1>3. \A n \in 1..0 : FALSE
  OBVIOUS
<1>4. Holding
  BY <1>1, <1>2, <1>3 DEF Holding
<1>5. Stock /\ Direct
  BY <1>1, <1>2, <1>3 DEF Stock, Direct, Staged
<1>6. Places
  BY <1>1, <1>2, <1>3 DEF Places
<1>7. Life
  <2>1. \A t \in Tx : ~InHand(t)
    BY <1>1 DEF InHand
  <2> QED BY <1>2, <1>3, <2>1, OutboundAssumption DEF Life, Waiting, AskedOnes
<1>8. Ordered
  <2>1. \A t, u \in Tx : ~Sooner(t, u) /\ ~Logged(t)
    BY <1>2, <1>3 DEF Sooner, Logged
  <2>2. OwnOrder
    BY <1>2, <1>3 DEF OwnOrder
  <2> QED BY <2>1, <2>2 DEF Ordered
<1> QED BY <1>4, <1>5, <1>6, <1>7, <1>8 DEF Kept

LEMMA KeptStep == IInv /\ Kept /\ [Next]_vars => Kept'
<1> SUFFICES ASSUME IInv, Kept, [Next]_vars PROVE Kept'
  OBVIOUS
<1>1. TypesOK /\ Order /\ Owned
  BY TypeParts DEF IInv, TypesOK
<1>2. CASE Next
  <2>1. TypesOK'
    BY <1>1, <1>2, ActionOK DEF TypesOK
  <2>2. CASE DrainSend \/ Decide \/ \E o \in Op, t \in Tx : SendRaw(o, t) \/ Send(o, t)
    BY <1>1, <2>1, <2>2, KeptSends
  <2>3. CASE NotificationCompletes \/ NotificationEnds
    BY <1>1, <2>1, <2>3, KeptNotifies
  <2>4. CASE RemoteClose \/ SocketDrains \/ Connect \/ Disconnect \/ InlineEnds
    BY <1>1, <2>1, <2>4, KeptConnection
  <2>5. CASE WriteDirect \/ FlushWrite
    BY <1>1, <2>1, <2>5, KeptWrites
  <2>6. CASE FlushPop \/ FlushReturns \/ FlushFinishes \/ FlushGoesOn
    BY <1>1, <2>1, <2>6, KeptFlush
  <2>7. CASE PublishRecord \/ PublicationCompletes
    BY <1>1, <2>1, <2>7, KeptRecords
  <2>8. CASE \E o \in Op : Begin(o) \/ End(o)
    BY <1>1, <2>1, <2>8, KeptCallbacks
  <2> QED BY <1>2, <2>2, <2>3, <2>4, <2>5, <2>6, <2>7, <2>8 DEF Next, Working
<1>3. CASE UNCHANGED vars
  <2>1. UNCHANGED <<conn, op, tx, group, queue, flush, slot, deciding, pending, settling,
                    inline, asked, log>>
    BY <1>3 DEF vars
  <2>2. TypesOK'
    BY <1>1, <2>1, <1>3 DEF vars, TypesOK, MainOK, RestOK, LogOK
  <2>3. Alike(group', group)
    BY <2>1, FieldsAlike, <1>1 DEF TypesOK, MainOK
  <2> QED BY <1>1, <2>1, <2>2, <2>3, KeptPlain
<1> QED BY <1>2, <1>3

LEMMA KeptAlways == Spec => [](IInv /\ Kept)
<1>1. Spec => []IInv
  BY Invariant
<1>2. Init => Kept
  BY KeptInit
<1>3. IInv /\ Kept /\ [Next]_vars => Kept'
  BY KeptStep
<1> QED BY <1>1, <1>2, <1>3, PTL DEF Spec

(* What one callback sends is written in the order of its calls, through   *)
(* decisions, m_pendingPluginSends, segments and direct writes, for any    *)
(* callbacks, sends and connections.                                       *)
THEOREM OwnSendsInOrder == Spec => []OwnOrder
<1>1. IInv /\ Kept => OwnOrder
  BY DEF Kept, Ordered
<1> QED BY <1>1, KeptAlways, PTL

-----------------------------------------------------------------------------
(* A disconnect is left to the last group of the queue.                     *)

\* The groups but for what the disconnect does not look at.
SameClosing(gs, hs) ==
  /\ Len(gs) = Len(hs)
  /\ \A i \in 1..Len(hs) : gs[i].closes = hs[i].closes /\ gs[i].finished = hs[i].finished

LEMMA FieldsSameClosing ==
  ASSUME NEW gs \in Seq(Group), NEW g
  PROVE  /\ SameClosing(gs, gs)
         /\ \A n : SameClosing([gs EXCEPT ![g].retain = n], gs)
         /\ \A n : SameClosing([gs EXCEPT ![g].segments = n], gs)
         /\ \A n : SameClosing([gs EXCEPT ![g].note = n], gs)
         /\ \A n : SameClosing([gs EXCEPT ![g].records = n], gs)
         /\ \A b, n : SameClosing([gs EXCEPT ![g].note = b, ![g].records = n], gs)
<1>1. \A i \in 1..Len(gs) : gs[i] \in Group
  OBVIOUS
<1>2. SameClosing(gs, gs)
  BY DEF SameClosing
<1>3. ASSUME NEW n PROVE SameClosing([gs EXCEPT ![g].retain = n], gs)
  BY <1>1 DEF SameClosing, Group
<1>4. ASSUME NEW n PROVE SameClosing([gs EXCEPT ![g].segments = n], gs)
  BY <1>1 DEF SameClosing, Group
<1>5. ASSUME NEW n PROVE SameClosing([gs EXCEPT ![g].note = n], gs)
  BY <1>1 DEF SameClosing, Group
<1>6. ASSUME NEW n PROVE SameClosing([gs EXCEPT ![g].records = n], gs)
  BY <1>1 DEF SameClosing, Group
<1>7. ASSUME NEW b, NEW n PROVE SameClosing([gs EXCEPT ![g].note = b, ![g].records = n], gs)
  BY <1>1 DEF SameClosing, Group
<1> QED BY <1>2, <1>3, <1>4, <1>5, <1>6, <1>7

\* Nothing is staged when the queue is empty and nothing is written at once.
LEMMA AllFlushed ==
  ASSUME Kept, queue = <<>>, flush.stage # "direct"
  PROVE  \A t \in Tx : ~Staged(t)
<1>1. Holding /\ Stock /\ Direct /\ Len(queue) = 0
  BY DEF Kept
<1>2. ASSUME NEW t \in Tx, Staged(t)
      PROVE  FALSE
  <2>1. tx[t].group # 0
    BY <1>1, <1>2 DEF Direct
  <2>2. PICK g \in 1..Len(group) : g = tx[t].group /\ Holds(group[g].segments, t)
    BY <1>1, <1>2, <2>1 DEF Stock
  <2>3. group[g].finished
    BY <1>1 DEF Holding
  <2>4. group[g].segments = <<>>
    BY <1>1, <2>3 DEF Stock
  <2> QED BY <2>2, <2>4, EmptyFacts
<1> QED BY <1>2

\* A step that the disconnect does not look at.
Calmly ==
  /\ conn'.phase = conn.phase /\ conn'.sock = conn.sock /\ conn'.epoch = conn.epoch
  /\ queue' = queue /\ SameClosing(group', group) /\ NoneStaged
  /\ flush' = flush \/ flush'.stage # "drain"

LEMMA StillCalm ==
  ASSUME TypesOK, UNCHANGED <<tx, group, queue>>, flush' = flush \/ flush'.stage # "drain",
         conn'.phase = conn.phase, conn'.sock = conn.sock, conn'.epoch = conn.epoch
  PROVE  Calmly
<1>1. SameClosing(group', group)
  BY FieldsSameClosing DEF TypesOK, MainOK
<1> QED BY <1>1 DEF Calmly, NoneStaged, Staged

LEMMA CalmCallbacks ==
  ASSUME TypesOK, Order,
         \/ NotificationCompletes \/ NotificationEnds
         \/ \E o \in Op : Begin(o) \/ End(o)
  PROVE  Calmly
<1>0. group \in Seq(Group) /\ tx \in TxTable /\ settling \in Tx \cup {None} /\ slot \in Tx \cup {None}
  BY DEF TypesOK, MainOK, RestOK
<1>1. /\ conn' = conn /\ queue' = queue
      /\ flush' = flush \/ flush'.stage # "drain"
  BY DEF NotificationCompletes, NotificationEnds, Begin, End, Kick, StartFlush, Idle
<1>2. NoneStaged
  BY <1>0 DEF NotificationCompletes, NotificationEnds, Begin, End, NoneStaged, Staged, TxTable, TxRecord
<1>3. SameClosing(group', group)
  <2>1. SameClosing(group, group)
    BY <1>0, FieldsSameClosing
  <2>2. ASSUME NEW g, NEW n, group' = [group EXCEPT ![g].retain = n]
        PROVE  SameClosing(group', group)
    BY <1>0, <2>2, FieldsSameClosing
  <2>3. ASSUME NEW g, NEW n, group' = [group EXCEPT ![g].note = n]
        PROVE  SameClosing(group', group)
    BY <1>0, <2>3, FieldsSameClosing
  <2>4. NotificationCompletes => group' = group
    BY DEF NotificationCompletes
  <2>5. NotificationEnds => group' = group \/ \E g, n : group' = [group EXCEPT ![g].note = n]
    BY DEF NotificationEnds
  <2>6. ASSUME NEW o \in Op, Begin(o) \/ End(o)
        PROVE  group' = group \/ \E g, n : group' = [group EXCEPT ![g].retain = n]
    <3>1. CASE Begin(o)
      <4>1. PICK g : group' = IF g = 0 THEN group ELSE [group EXCEPT ![g].retain = group[g].retain + 1]
        BY <3>1 DEF Begin
      <4> QED BY <4>1
    <3>2. CASE End(o)
      <4>1. PICK g : group' = group \/ group' = [group EXCEPT ![g].retain = group[g].retain - 1]
        BY <3>2 DEF End, Released
      <4> QED BY <4>1
    <3> QED BY <2>6, <3>1, <3>2
  <2> QED BY <2>1, <2>2, <2>3, <2>4, <2>5, <2>6
<1> QED BY <1>1, <1>2, <1>3 DEF Calmly

LEMMA CalmConnection ==
  ASSUME TypesOK, SocketDrains \/ InlineEnds
  PROVE  Calmly \/ ConnectionEnds(group)
<1>1. conn \in ConnType
  BY DEF TypesOK, MainOK
<1>2. \/ ConnectionEnds(group)
      \/ /\ UNCHANGED <<op, tx, group, queue, flush, slot>>
         /\ conn'.phase = conn.phase /\ conn'.sock = conn.sock /\ conn'.epoch = conn.epoch
  BY <1>1 DEF SocketDrains, InlineEnds, ConnType
<1> QED BY <1>2, StillCalm

\* The group without its first send.
LEMMA FirstTaken ==
  ASSUME MainOK, Order, FlushWrite
  PROVE  LET gs == [group EXCEPT ![flush.group].segments[1].txs = Tail(@)]
         IN  gs \in Seq(Group) /\ SameClosing(gs, group)
<1>1. PICK g : g = flush.group
  OBVIOUS
<1>2. PICK S : S = group[g].segments
  OBVIOUS
<1>3. flush.stage = "write" /\ S # <<>> /\ S[1].txs # <<>> /\ group \in Seq(Group)
  BY <1>1, <1>2 DEF FlushWrite, Writing, MayWrite, FirstSegment, MainOK
<1>4. g \in 1..Len(group)
  BY <1>1, <1>3 DEF Order, WritesFirst, Ascending, MainOK
<1>5. group[g] \in Group
  BY <1>3, <1>4
<1>6. S \in Seq(Segment)
  BY <1>2, <1>5 DEF Group
<1>7. 1 \in 1..Len(S) /\ S[1] \in Segment
  BY <1>3, <1>6
<1>8. S[1].txs \in Seq(Tx)
  BY <1>7 DEF Segment
<1>t. Tail(S[1].txs) \in Seq(Tx)
  BY <1>3, <1>8
<1>9. [S[1] EXCEPT !.txs = Tail(S[1].txs)] \in Segment
  BY <1>7, <1>t DEF Segment
<1>10. PICK rest : rest = [S EXCEPT ![1] = [S[1] EXCEPT !.txs = Tail(S[1].txs)]]
  OBVIOUS
<1>11. rest \in Seq(Segment)
  BY <1>6, <1>9, <1>10, ReplaceInSeq
<1>12. [group EXCEPT ![g].segments[1].txs = Tail(@)] = [group EXCEPT ![g].segments = rest]
  BY <1>2, <1>3, <1>4, <1>5, <1>6, <1>7, <1>10 DEF Group, Segment
<1>13. [group EXCEPT ![g].segments = rest] \in Seq(Group)
  BY <1>3, <1>11, FieldTypes
<1>14. SameClosing([group EXCEPT ![g].segments = rest], group)
  BY <1>3, FieldsSameClosing
<1> QED BY <1>1, <1>12, <1>13, <1>14

LEMMA CalmWrites ==
  ASSUME TypesOK, Order, Kept, WriteDirect \/ FlushWrite
  PROVE  Calmly \/ ConnectionEnds(group)
<1>0. MainOK /\ group \in Seq(Group) /\ Stock /\ SameClosing(group, group)
  BY FieldsSameClosing DEF TypesOK, MainOK, Kept
<1>1. CASE TelnetFails
  BY <1>1 DEF TelnetFails
<1>2. ASSUME NEW t, NEW g, NEW gs \in Seq(Group), SameClosing(gs, group),
             Accepted(t, g, gs) \/ Failed(t, gs)
      PROVE  SameClosing(group', group)
  <2>1. PICK b, n : group' \in {gs, [gs EXCEPT ![g].note = b, ![g].records = n]}
    <3>1. CASE group' = gs
      BY <3>1
    <3>2. CASE group' = [gs EXCEPT ![g].note = t \in Command,
                                   ![g].records = IF PacketDebug THEN @ + 1 ELSE @]
      BY <3>2
    <3> QED BY <1>2, <3>1, <3>2 DEF Accepted, Failed
  <2>2. SameClosing(gs, gs) /\ SameClosing([gs EXCEPT ![g].note = b, ![g].records = n], gs)
    BY FieldsSameClosing
  <2>3. SameClosing(group', gs)
    BY <2>1, <2>2
  <2> QED BY <1>2, <2>3 DEF SameClosing
<1>3. CASE FlushWrite
  <2>1. CASE ~TelnetFails
    <3>1. PICK t \in Tx : TakesFirst(t)
      BY <1>0, <1>3, <2>1, StockWrites
    <3>2. PICK gs : /\ gs = [group EXCEPT ![flush.group].segments[1].txs = Tail(@)]
                    /\ \E u : Accepted(u, flush.group, gs) \/ Failed(u, gs)
      BY <1>3, <2>1 DEF FlushWrite
    <3>3. gs \in Seq(Group) /\ SameClosing(gs, group)
      BY <1>0, <1>3, <3>2, FirstTaken
    <3>4. SameClosing(group', group)
      BY <1>2, <3>2, <3>3
    <3>5. NoneStaged /\ UNCHANGED <<flush, queue>>
      BY <3>1 DEF TakesFirst, Writes, NoneStaged, Staged
    <3> QED BY <3>1, <3>4, <3>5 DEF TakesFirst, Calmly
  <2> QED BY <1>1, <2>1
<1>4. CASE WriteDirect
  <2>1. CASE ~TelnetFails
    <3>1. PICK t \in Tx : /\ Staged(t) /\ (Accepted(t, 0, group) \/ Failed(t, group))
                          /\ flush' = Idle /\ UNCHANGED queue
      BY <1>4, <2>1 DEF WriteDirect
    <3>2. SameClosing(group', group)
      BY <1>0, <1>2, <3>1
    <3>3. /\ Writes(t)
          /\ conn'.epoch = conn.epoch /\ conn'.phase = conn.phase /\ conn'.sock = conn.sock
      BY <1>0, <3>1, WritesTx
    <3>4. NoneStaged
      BY <3>3 DEF Writes, NoneStaged, Staged
    <3> QED BY <3>1, <3>2, <3>3, <3>4 DEF Idle, Calmly
  <2> QED BY <1>1, <2>1
<1> QED BY <1>3, <1>4

\* A record that is published counts down, and performs a disconnect or nothing.
LEMMA PublishedEffect ==
  ASSUME TypesOK, NEW r \in Record, Published(r), r.group <= Len(group)
  PROVE  \/ Calmly /\ UNCHANGED <<conn, op, tx, queue, flush, slot>>
         \/ \E gs \in Seq(Group) : /\ SameClosing(gs, group) /\ CloseSocket(gs, flush)
                                   /\ r.group \in 1..Len(group)
                                   /\ group[r.group].finished /\ group[r.group].closes
                                   /\ conn.phase = "closing"
<1>0. group \in Seq(Group) /\ SameClosing(group, group)
  BY FieldsSameClosing DEF TypesOK, MainOK
<1>1. PICK gs : /\ gs = IF r.group = 0 THEN group ELSE [group EXCEPT ![r.group].records = @ - 1]
                /\ \/ /\ r.group # 0 /\ gs[r.group].finished
                      /\ ClosesNow(gs[r.group]) /\ CloseSocket(gs, flush)
                   \/ group' = gs /\ UNCHANGED <<conn, op, tx, queue, flush, slot>>
  BY DEF Published
<1>2. gs = group \/ gs = [group EXCEPT ![r.group].records = group[r.group].records - 1]
  BY <1>1
<1>3. SameClosing(gs, group)
  <2>1. \A n : SameClosing([group EXCEPT ![r.group].records = n], group)
    BY <1>0, FieldsSameClosing
  <2> QED BY <1>0, <1>2, <2>1
<1>4. CASE group' = gs /\ UNCHANGED <<conn, op, tx, queue, flush, slot>>
  BY <1>3, <1>4 DEF Calmly, NoneStaged, Staged
<1>5. CASE r.group # 0 /\ gs[r.group].finished /\ ClosesNow(gs[r.group]) /\ CloseSocket(gs, flush)
  <2>1. r.group \in 1..Len(group)
    BY <1>0, <1>5 DEF Record
  <2>2. group[r.group].finished /\ group[r.group].closes /\ conn.phase = "closing"
    BY <1>3, <1>5, <2>1 DEF SameClosing, ClosesNow
  <2>3. gs \in Seq(Group)
    <3>1. group[r.group] \in Group
      BY <1>0, <2>1
    <3>2. group[r.group].records - 1 \in Int
      BY <3>1 DEF Group
    <3>3. [group EXCEPT ![r.group].records = group[r.group].records - 1] \in Seq(Group)
      BY <1>0, <3>2, FieldTypes
    <3> QED BY <1>0, <1>2, <3>3
  <2> QED BY <1>3, <1>5, <2>1, <2>2, <2>3
<1> QED BY <1>1, <1>4, <1>5

\* The group that carries the disconnect is the last of the queue, and the last to finish.
Deferring ==
  /\ flush.stage = "drain" => flush.group \in 1..Len(group)
  /\ flush.stage = "drain" /\ group[flush.group].closes /\ conn.phase = "closing" => queue = <<>>
  /\ \A g \in 1..Len(group) : group[g].closes /\ ~group[g].finished =>
       conn.phase = "closing" /\ queue # <<>> /\ queue[Len(queue)] = g

LEMMA DeferringCalm ==
  ASSUME Deferring, Calmly
  PROVE  Deferring'
<1>1. /\ Len(group') = Len(group)
      /\ \A i \in 1..Len(group) : group'[i].closes = group[i].closes /\ group'[i].finished = group[i].finished
  BY DEF Calmly, SameClosing
<1> QED BY <1>1 DEF Deferring, Calmly

LEMMA DeferringEnds ==
  ASSUME MainOK, Holding, NEW gs \in Seq(Group), Len(gs) = Len(group), ConnectionEnds(gs)
  PROVE  Deferring'
<1>1. \A i \in 1..Len(group') : group'[i].finished
  BY HoldingEnds
<1>2. flush'.stage = "idle"
  BY DEF ConnectionEnds, Idle
<1> QED BY <1>1, <1>2 DEF Deferring

LEMMA DeferringCloses ==
  ASSUME MainOK, Holding, Deferring, NEW gs \in Seq(Group), NEW next, SameClosing(gs, group),
         CloseSocket(gs, next), queue = <<>> \/ conn.phase = "closing",
         next = flush \/ next = Idle
  PROVE  Deferring'
<1>1. CASE ConnectionEnds(gs)
  BY <1>1, DeferringEnds DEF SameClosing
<1>2. CASE /\ conn' = [conn EXCEPT !.phase = "closing", !.sock = "draining"]
           /\ group' = gs /\ flush' = next
           /\ UNCHANGED <<op, tx, queue, slot>>
  <2>1. conn'.phase = "closing" /\ queue' = queue
    BY <1>2 DEF MainOK, ConnType
  <2>2. /\ Len(group') = Len(group)
        /\ \A i \in 1..Len(group) : group'[i].closes = group[i].closes /\ group'[i].finished = group[i].finished
    BY <1>2 DEF SameClosing
  <2>3. flush' = flush \/ flush'.stage = "idle"
    BY <1>2 DEF Idle
  <2>4. CASE queue = <<>>
    <3>1. Len(queue) = 0
      BY <2>4
    <3>2. \A g \in 1..Len(group) : group[g].finished
      BY <3>1 DEF Holding
    <3> QED BY <2>1, <2>2, <2>3, <2>4, <3>2 DEF Deferring
  <2>5. CASE conn.phase = "closing"
    BY <2>1, <2>2, <2>3, <2>5 DEF Deferring
  <2> QED BY <2>4, <2>5
<1> QED BY <1>1, <1>2 DEF CloseSocket

LEMMA DeferringTakes ==
  ASSUME TypesOK, MainOK', Order, Holding, Deferring, NEW o \in Op, NEW t \in Tx, Takes(o, t)
  PROVE  Deferring'
<1>1. conn' = conn /\ MainOK
  BY DEF Takes, TypesOK
<1>2. CASE Rejects(o, t) \/ Parks(o, t)
  <2>1. NoneStaged /\ UNCHANGED <<group, queue, flush>>
    BY <1>2 DEF Rejects, Parks, OneChanges, NoneStaged, Staged
  <2>2. SameClosing(group', group)
    BY <1>1, <2>1, FieldsSameClosing DEF MainOK
  <2> QED BY <1>1, <2>1, <2>2, DeferringCalm DEF Calmly
<1>3. CASE Stages(o, t)
  <2>1. PICK g \in Nat : TransmitEffect(OpsFor(o, t), o, t, g)
    BY <1>1, <1>3, StagesEffect
  <2>2. conn.phase = "connected" /\ Len(group) \in Nat /\ Len(group') \in Nat
    BY <1>1, <1>3 DEF Stages, MainOK
  <2>3. \A i \in 1..Len(group) : group[i].closes => group[i].finished
    BY <2>2 DEF Deferring
  <2>4. \A i \in 1..Len(group') : group'[i].closes => group'[i].finished
    <3>1. CASE g = 0
      BY <2>1, <2>3, <3>1 DEF TransmitEffect
    <3>2. CASE g # 0
      <4>1. StagesInto(o, t, g)
        BY <2>1, <3>2 DEF TransmitEffect
      <4>2. ASSUME NEW i \in 1..Len(group'), group'[i].closes
            PROVE  i \in 1..Len(group) /\ group'[i] = group[i]
        <5>1. CASE i = g
          BY <2>3, <4>1, <4>2, <5>1 DEF StagesInto
        <5>2. CASE i # g
          BY <2>2, <4>1, <5>2 DEF StagesInto
        <5> QED BY <5>1, <5>2
      <4> QED BY <2>3, <4>2
    <3> QED BY <3>1, <3>2
  <2>5. flush'.stage = "drain" => flush.group \in 1..Len(group') /\ flush' = flush
    <3>1. CASE g = 0
      BY <2>1, <3>1 DEF TransmitEffect
    <3>2. CASE g # 0
      <4>1. StagesInto(o, t, g)
        BY <2>1, <3>2 DEF TransmitEffect
      <4>2. Len(group') >= Len(group)
        BY <2>2, <4>1 DEF StagesInto
      <4>3. flush'.stage = "drain" => flush' = flush
        BY <4>1 DEF StagesInto
      <4> QED BY <2>2, <4>2, <4>3 DEF Deferring
    <3> QED BY <3>1, <3>2
  <2> QED BY <1>1, <2>2, <2>4, <2>5 DEF Deferring
<1> QED BY <1>2, <1>3 DEF Takes

\* The flush finishes the first group of the queue, which is the last if it is alone.
LEMMA DeferringFinishes ==
  ASSUME TypesOK, Order, Holding, Deferring, FlushFinishes
  PROVE  /\ Deferring' /\ Len(group') = Len(group)
         /\ \A i \in 1..Len(group) : /\ group'[i].closes = group[i].closes
                                     /\ group[i].finished => group'[i].finished
                                     /\ group'[i].finished => group[i].finished \/ i = flush.group
<1>0. /\ MainOK /\ group \in Seq(Group) /\ queue \in Seq(Nat)
      /\ flush \in FlushType /\ Len(group) \in Nat
  BY DEF TypesOK, MainOK
<1>1. /\ UNCHANGED <<conn, op, tx, slot>> /\ flush.stage = "write" /\ queue' = Tail(queue)
      /\ flush' = [flush EXCEPT !.stage = "drain"]
      /\ group' = [group EXCEPT ![flush.group] = [group[flush.group] EXCEPT !.finished = TRUE]]
  BY DEF FlushFinishes, Writing
<1>2. queue # <<>> /\ flush.group = queue[1]
  BY <1>1 DEF Order, WritesFirst
<1>3. 1 \in 1..Len(queue) /\ Len(queue) \in 1..Len(queue)
  BY <1>0, <1>2
<1>4. PICK g \in 1..Len(group) : g = flush.group
  BY <1>2, <1>3 DEF Order, Ascending
<1>5. PICK v : v = [group[g] EXCEPT !.finished = TRUE]
  OBVIOUS
<1>6. group[g] \in Group
  BY <1>0
<1>7. v.closes = group[g].closes /\ v.finished
  BY <1>5, <1>6 DEF Group
<1>8. /\ Len([group EXCEPT ![g] = v]) = Len(group)
      /\ [group EXCEPT ![g] = v][g] = v
      /\ \A k \in 1..Len(group) : k # g => [group EXCEPT ![g] = v][k] = group[k]
  BY <1>0, Replaced
<1>9. /\ Len(group') = Len(group) /\ group'[g] = v
      /\ \A k \in 1..Len(group) : k # g => group'[k] = group[k]
  BY <1>1, <1>4, <1>5, <1>8
<1>10. flush'.stage = "drain" /\ flush'.group = g
  BY <1>0, <1>1, <1>4 DEF FlushType
<1>11. ~group[g].finished
  BY <1>0, <1>2, <1>3, <1>4 DEF Holding
<1>12. queue[Len(queue)] = g => queue' = <<>>
  <2>1. queue[Len(queue)] = g => Len(queue) = 1
    <3>1. ASSUME Len(queue) > 1 PROVE queue[Len(queue)] # queue[1]
      <4>1. queue[1] < queue[Len(queue)] /\ queue[1] \in Nat /\ queue[Len(queue)] \in Nat
        BY <1>0, <1>3, <3>1 DEF Order, Ascending
      <4> QED BY <4>1
    <3>2. Len(queue) = 1 \/ Len(queue) > 1
      <4>1. PICK n \in Nat : n = Len(queue)
        BY <1>0
      <4>2. n \in 1..n
        BY <1>3, <4>1
      <4>3. n = 1 \/ n > 1
        BY <4>2
      <4> QED BY <4>1, <4>3
    <3>3. CASE Len(queue) > 1
      <4>1. queue[Len(queue)] # queue[1]
        BY <3>1, <3>3
      <4>2. g = queue[1]
        BY <1>2, <1>4
      <4> QED BY <4>1, <4>2
    <3>4. CASE ~(Len(queue) > 1)
      BY <3>2, <3>4
    <3> QED BY <3>3, <3>4
  <2> QED BY <1>0, <1>1, <2>1
<1>13. ASSUME NEW h, h # g, queue[Len(queue)] = h
       PROVE  queue' # <<>> /\ queue'[Len(queue')] = h
  <2>1. Len(queue) > 1 /\ Len(queue) \in Nat
    BY <1>0, <1>2, <1>3, <1>4, <1>13
  <2>2. /\ Len(queue') = Len(queue) - 1
        /\ \A i \in 1..Len(queue') : queue'[i] = queue[i + 1]
    BY <1>0, <1>1, <1>2
  <2>3. Len(queue') \in 1..Len(queue') /\ Len(queue') + 1 = Len(queue)
    BY <2>1, <2>2
  <2>4. queue'[Len(queue')] = queue[Len(queue)]
    BY <2>2, <2>3
  <2> QED BY <1>13, <2>3, <2>4
<1>14. ASSUME NEW h \in 1..Len(group), group'[h].closes, ~group'[h].finished
       PROVE  conn.phase = "closing" /\ queue' # <<>> /\ queue'[Len(queue')] = h
  <2>1. h # g /\ group'[h] = group[h]
    BY <1>7, <1>9, <1>14
  <2>2. conn.phase = "closing" /\ queue[Len(queue)] = h
    BY <1>14, <2>1 DEF Deferring
  <2> QED BY <1>13, <2>1, <2>2
<1>15. group'[g].closes /\ conn.phase = "closing" => queue' = <<>>
  BY <1>7, <1>9, <1>11, <1>12 DEF Deferring
<1>16. Deferring'
  BY <1>1, <1>9, <1>10, <1>14, <1>15 DEF Deferring
<1> QED BY <1>4, <1>7, <1>9, <1>16

\* Disconnect marks the last group, or closes the socket when there is none.
LEMMA DisconnectEffect ==
  ASSUME TypesOK, Order, Disconnect
  PROVE  /\ conn.phase = "connected" /\ flush.stage \in {"idle", "write"}
         /\ \/ queue = <<>> /\ CloseSocket(group, flush)
            \/ /\ queue # <<>> /\ UNCHANGED <<op, tx, queue, flush, slot>>
               /\ conn'.phase = "closing" /\ conn'.sock = conn.sock /\ conn'.epoch = conn.epoch
               /\ \E last \in 1..Len(group) :
                    /\ last = queue[Len(queue)] /\ Len(group') = Len(group)
                    /\ group'[last] = [group[last] EXCEPT !.closes = TRUE]
                    /\ \A i \in 1..Len(group) : i # last => group'[i] = group[i]
<1>0. group \in Seq(Group) /\ conn \in ConnType /\ queue \in Seq(Nat)
  BY DEF TypesOK, MainOK
<1>1. conn.phase = "connected" /\ flush.stage \in {"idle", "write"}
  BY QuietNotDirect DEF Disconnect
<1>2. CASE queue = <<>>
  BY <1>1, <1>2 DEF Disconnect
<1>3. CASE queue # <<>>
  <2>1. /\ group' = [group EXCEPT ![queue[Len(queue)]].closes = TRUE]
        /\ conn' = [conn EXCEPT !.phase = "closing"]
        /\ UNCHANGED <<op, tx, queue, flush, slot>>
    BY <1>3 DEF Disconnect
  <2>2. conn'.phase = "closing" /\ conn'.sock = conn.sock /\ conn'.epoch = conn.epoch
    BY <1>0, <2>1 DEF ConnType
  <2>3. Len(queue) \in 1..Len(queue)
    BY <1>0, <1>3
  <2>4. PICK last \in 1..Len(group) : last = queue[Len(queue)]
    BY <2>3 DEF Order, Ascending
  <2>5. PICK v : v = [group[last] EXCEPT !.closes = TRUE]
    OBVIOUS
  <2>6. group' = [group EXCEPT ![last] = v]
    BY <2>1, <2>4, <2>5
  <2>7. /\ Len([group EXCEPT ![last] = v]) = Len(group)
        /\ [group EXCEPT ![last] = v][last] = v
        /\ \A k \in 1..Len(group) : k # last => [group EXCEPT ![last] = v][k] = group[k]
    BY <1>0, Replaced
  <2>8. /\ Len(group') = Len(group) /\ group'[last] = v
        /\ \A i \in 1..Len(group) : i # last => group'[i] = group[i]
    BY <2>6, <2>7
  <2>9. \E l \in 1..Len(group) :
          /\ l = queue[Len(queue)] /\ Len(group') = Len(group)
          /\ group'[l] = [group[l] EXCEPT !.closes = TRUE]
          /\ \A i \in 1..Len(group) : i # l => group'[i] = group[i]
    BY <2>4, <2>5, <2>8
  <2> QED BY <1>1, <1>3, <2>1, <2>2, <2>9
<1> QED BY <1>2, <1>3

LEMMA DeferringDisconnect ==
  ASSUME TypesOK, Order, Holding, Deferring, Disconnect
  PROVE  Deferring'
<1>0. MainOK /\ group \in Seq(Group) /\ SameClosing(group, group) /\ queue \in Seq(Nat)
  BY FieldsSameClosing DEF TypesOK, MainOK
<1>1. CASE queue = <<>> /\ CloseSocket(group, flush)
  BY <1>0, <1>1, DeferringCloses
<1>2. CASE queue # <<>>
  <2>1. PICK last \in 1..Len(group) :
          /\ last = queue[Len(queue)] /\ Len(group') = Len(group)
          /\ group'[last] = [group[last] EXCEPT !.closes = TRUE]
          /\ \A i \in 1..Len(group) : i # last => group'[i] = group[i]
    BY <1>2, DisconnectEffect
  <2>2. /\ conn.phase = "connected" /\ conn'.phase = "closing" /\ queue' = queue /\ flush' = flush
        /\ flush.stage # "drain"
    BY <1>2, DisconnectEffect
  <2>3. \A i \in 1..Len(group) : group[i].closes => group[i].finished
    BY <2>2 DEF Deferring
  <2> QED BY <1>2, <2>1, <2>2, <2>3 DEF Deferring
<1> QED BY <1>1, <1>2, DisconnectEffect

\* The records name groups that have been made.
Recorded ==
  /\ ~PacketDebug => records = <<>> /\ publishing = None
  /\ \A i \in 1..Len(records) : records[i].group <= Len(group)
  /\ publishing # None => publishing.group <= Len(group)

LEMMA RecordedStep ==
  ASSUME TypesOK, TypesOK', Order, Recorded, Next, Len(group') >= Len(group)
  PROVE  Recorded'
<1>0. /\ records \in Seq(Record) /\ publishing \in Record \cup {None}
      /\ Len(group) \in Nat /\ Len(group') \in Nat /\ Len(records) \in Nat
      /\ \A i \in 1..Len(records) : records[i] \in Record
  BY DEF TypesOK, MainOK, RestOK
<1>1. \A i \in 1..Len(records) : records[i].group \in Nat /\ records[i].group <= Len(group')
  BY <1>0 DEF Record, Recorded
<1>2. publishing # None => publishing.group <= Len(group')
  BY <1>0 DEF Record, Recorded
<1>3. CASE records' = records /\ publishing' = publishing
  BY <1>1, <1>2, <1>3 DEF Recorded
<1>4. CASE PublishRecord
  <2>1. /\ records # <<>> /\ records' = Tail(records)
        /\ publishing' = publishing \/ publishing' = Head(records)
    BY <1>4 DEF PublishRecord, Drainable
  <2>2. PacketDebug
    BY <2>1 DEF Recorded
  <2>3. 1 \in 1..Len(records) /\ records[1] = Head(records)
    BY <1>0, <2>1
  <2>4. \A i \in 1..Len(records') : records'[i] = records[i + 1] /\ i + 1 \in 1..Len(records)
    BY <1>0, <2>1
  <2> QED BY <1>1, <1>2, <2>1, <2>2, <2>3, <2>4 DEF Recorded
<1>5. CASE PublicationCompletes
  BY <1>1, <1>5 DEF PublicationCompletes, Recorded
<1>6. ASSUME NEW g \in Nat, NEW t, g <= Len(group), PacketDebug,
             records' = Append(records, [tx |-> t, group |-> g]), publishing' = publishing
      PROVE  Recorded'
  <2>1. /\ Len(records') = Len(records) + 1 /\ records'[Len(records) + 1] = [tx |-> t, group |-> g]
        /\ \A i \in 1..Len(records) : records'[i] = records[i]
    BY <1>0, <1>6
  <2>2. ASSUME NEW i \in 1..Len(records')
        PROVE  records'[i].group <= Len(group')
    <3>1. CASE i \in 1..Len(records)
      BY <1>1, <2>1, <3>1
    <3>2. CASE i = Len(records) + 1
      BY <1>0, <1>6, <2>1, <3>2
    <3> QED BY <1>0, <2>1, <3>1, <3>2
  <2> QED BY <1>2, <1>6, <2>2 DEF Recorded
<1>7. CASE WriteDirect \/ FlushWrite
  <2>1. publishing' = publishing
    BY <1>7 DEF WriteDirect, FlushWrite
  <2>2. \/ records' = records
        \/ PacketDebug /\ \E t : records' = Append(records, [tx |-> t, group |-> 0])
        \/ /\ PacketDebug /\ flush.stage = "write"
           /\ \E t : records' = Append(records, [tx |-> t, group |-> flush.group])
    BY <1>7 DEF WriteDirect, FlushWrite, Writing, Accepted, Failed, TelnetFails
  <2>3. flush.stage = "write" => flush.group \in 1..Len(group)
    BY DEF Order, WritesFirst, Ascending, TypesOK, MainOK
  <2>4. CASE records' = records
    BY <1>3, <2>1, <2>4
  <2>5. CASE PacketDebug /\ \E t : records' = Append(records, [tx |-> t, group |-> 0])
    <3>1. PICK t : records' = Append(records, [tx |-> t, group |-> 0])
      BY <2>5
    <3>2. 0 \in Nat /\ 0 <= Len(group)
      BY <1>0
    <3> QED BY <1>6, <2>1, <2>5, <3>1, <3>2
  <2>6. CASE /\ PacketDebug /\ flush.stage = "write"
             /\ \E t : records' = Append(records, [tx |-> t, group |-> flush.group])
    <3>1. PICK t : records' = Append(records, [tx |-> t, group |-> flush.group])
      BY <2>6
    <3>2. flush.group \in Nat /\ flush.group <= Len(group)
      BY <1>0, <2>3, <2>6
    <3> QED BY <1>6, <2>1, <2>6, <3>1, <3>2
  <2> QED BY <2>2, <2>4, <2>5, <2>6
<1>8. \/ records' = records /\ publishing' = publishing
      \/ PublishRecord \/ PublicationCompletes \/ WriteDirect \/ FlushWrite
  BY DEF Next, Working, DrainSend, NotificationCompletes, InlineEnds, NotificationEnds, Decide,
         FlushPop, FlushReturns, FlushFinishes, FlushGoesOn, RemoteClose, SocketDrains, Connect,
         Disconnect, Begin, End, SendRaw, Send
<1> QED BY <1>3, <1>4, <1>5, <1>7, <1>8

LEMMA CalmFlush ==
  ASSUME TypesOK, FlushPop \/ FlushReturns \/ FlushGoesOn
  PROVE  \/ Calmly
         \/ /\ flush.stage = "drain" /\ ClosesNow(group[flush.group])
            /\ CloseSocket(group, Idle)
<1>0. group \in Seq(Group)
  BY DEF TypesOK, MainOK
<1>1. CASE FlushPop
  <2>1. group' = [group EXCEPT ![flush.group].segments = Tail(group[flush.group].segments)]
    BY <1>1 DEF FlushPop
  <2>2. \A n : SameClosing([group EXCEPT ![flush.group].segments = n], group)
    BY <1>0, FieldsSameClosing
  <2>3. SameClosing(group', group)
    BY <2>1, <2>2
  <2>4. UNCHANGED <<conn, op, tx, queue, flush>>
    BY <1>1 DEF FlushPop
  <2> QED BY <2>3, <2>4, SameSends DEF Calmly
<1>2. CASE FlushReturns
  BY <1>2, StillCalm DEF FlushReturns, Idle
<1>3. CASE FlushGoesOn
  BY <1>3, StillCalm DEF FlushGoesOn, StartFlush, Idle
<1> QED BY <1>1, <1>2, <1>3

LEMMA DeferringFlush ==
  ASSUME TypesOK, Order, Kept, Deferring,
         FlushPop \/ FlushReturns \/ FlushFinishes \/ FlushGoesOn
  PROVE  Deferring'
<1>0. /\ MainOK /\ group \in Seq(Group) /\ Holding /\ SameClosing(group, group)
  BY FieldsSameClosing DEF TypesOK, MainOK, Kept
<1>1. CASE Calmly
  BY <1>1, DeferringCalm
<1>2. CASE ClosesNow(group[flush.group]) /\ CloseSocket(group, Idle)
  BY <1>0, <1>2, DeferringCloses DEF ClosesNow
<1>3. CASE FlushFinishes
  BY <1>0, <1>3, DeferringFinishes
<1> QED BY <1>1, <1>2, <1>3, CalmFlush

LEMMA DeferringRecords ==
  ASSUME TypesOK, Order, Kept, Deferring, Recorded, PublishRecord \/ PublicationCompletes
  PROVE  Deferring'
<1>0. MainOK /\ Holding
  BY DEF TypesOK, Kept
<1>1. CASE UNCHANGED <<conn, op, tx, group, queue, flush, slot>>
  BY <1>1, StillCalm, DeferringCalm
<1>2. ASSUME NEW r \in Record, Published(r), r.group <= Len(group)
      PROVE  Deferring'
  <2>1. CASE Calmly
    BY <2>1, DeferringCalm
  <2>2. ASSUME NEW gs \in Seq(Group), SameClosing(gs, group), CloseSocket(gs, flush), conn.phase = "closing"
        PROVE  Deferring'
    BY <1>0, <2>2, DeferringCloses
  <2> QED BY <1>2, <2>1, <2>2, PublishedEffect
<1>3. PublishRecord => /\ 1 \in 1..Len(records) /\ records[1] = Head(records) /\ Head(records) \in Record
  BY DEF PublishRecord, Drainable, TypesOK, RestOK
<1>4. PublishRecord => Head(records).group <= Len(group)
  BY <1>3 DEF Recorded
<1>5. PublicationCompletes => publishing \in Record /\ publishing.group <= Len(group)
  BY DEF PublicationCompletes, TypesOK, RestOK, Recorded
<1> QED BY <1>1, <1>2, <1>3, <1>4, <1>5 DEF PublishRecord, PublicationCompletes

LEMMA DeferringConnect ==
  ASSUME TypesOK, Deferring, Connect
  PROVE  Deferring'
<1>1. /\ conn.phase = "down" /\ UNCHANGED <<op, tx, group, queue, flush>>
      /\ conn'.phase = "connected"
  BY DEF Connect, TypesOK, MainOK, ConnType
<1> QED BY <1>1 DEF Deferring

\* The commands and the packets of the callbacks.
LEMMA SendsTake ==
  ASSUME TypesOK, Owned, Kept, DrainSend \/ Decide \/ \E o \in Op, t \in Tx : SendRaw(o, t) \/ Send(o, t)
  PROVE  \E o \in Op, t \in Tx : Takes(o, t)
<1>0. MainOK /\ RestOK /\ Places /\ Direct
  BY DEF TypesOK, Kept
<1>1. CASE DrainSend
  <2>1. flush.stage # "direct"
    BY <1>0, <1>1 DEF DrainSend, Direct
  <2>2. PICK t \in Command, o \in Op : Takes(o, t)
    BY <1>0, <1>1, <2>1, DrainSendTakes
  <2> QED BY <2>2, OutboundAssumption
<1>2. CASE Decide
  <2>1. PICK t \in Command, o \in Op : Takes(o, t)
    BY <1>0, <1>2, DecideTakes
  <2> QED BY <2>1, OutboundAssumption
<1>3. CASE \E o \in Op, t \in Tx : SendRaw(o, t) \/ Send(o, t)
  BY <1>0, <1>3, SendRawTakes, SendTakes
<1> QED BY <1>1, <1>2, <1>3

LEMMA DeferringStep == IInv /\ Kept /\ Deferring /\ Recorded /\ [Next]_vars => Deferring' /\ Recorded'
<1> SUFFICES ASSUME IInv, Kept, Deferring, Recorded, [Next]_vars
             PROVE  Deferring' /\ Recorded'
  OBVIOUS
<1>1. TypesOK /\ Order /\ Owned /\ Holding /\ MainOK
  BY TypeParts DEF IInv, TypesOK, Kept
<1>2. CASE Next
  <2>1. TypesOK' /\ MainOK' /\ Len(group') >= Len(group)
    BY <1>1, <1>2, ActionOK DEF TypesOK, QueueMoves
  <2>2. Recorded'
    BY <1>1, <1>2, <2>1, RecordedStep
  <2>3. CASE DrainSend \/ Decide \/ \E o \in Op, t \in Tx : SendRaw(o, t) \/ Send(o, t)
    BY <1>1, <2>1, <2>2, <2>3, SendsTake, DeferringTakes
  <2>4. CASE SocketDrains \/ InlineEnds \/ RemoteClose \/ WriteDirect \/ FlushWrite
    <3>1. Calmly \/ ConnectionEnds(group)
      BY <1>1, <2>4, CalmConnection, CalmWrites DEF RemoteClose
    <3>2. group \in Seq(Group)
      BY <1>1 DEF MainOK
    <3> QED BY <1>1, <2>2, <3>1, <3>2, DeferringCalm, DeferringEnds
  <2>5. CASE NotificationCompletes \/ NotificationEnds \/ \E o \in Op : Begin(o) \/ End(o)
    BY <1>1, <2>2, <2>5, CalmCallbacks, DeferringCalm
  <2>6. CASE Connect \/ Disconnect
    BY <1>1, <2>2, <2>6, DeferringConnect, DeferringDisconnect
  <2>7. CASE FlushPop \/ FlushReturns \/ FlushFinishes \/ FlushGoesOn
    BY <1>1, <2>2, <2>7, DeferringFlush
  <2>8. CASE PublishRecord \/ PublicationCompletes
    BY <1>1, <2>2, <2>8, DeferringRecords
  <2> QED BY <1>2, <2>3, <2>4, <2>5, <2>6, <2>7, <2>8 DEF Next, Working
<1>3. CASE UNCHANGED vars
  <2>1. UNCHANGED <<conn, op, tx, group, queue, flush, records, publishing>>
    BY <1>3 DEF vars
  <2> QED BY <1>1, <2>1, StillCalm, DeferringCalm DEF Recorded
<1> QED BY <1>2, <1>3

LEMMA DeferringAlways == Spec => [](IInv /\ Kept /\ Deferring /\ Recorded)
<1>1. Init => Deferring /\ Recorded
  <2> SUFFICES ASSUME Init PROVE Deferring /\ Recorded
    OBVIOUS
  <2>1. /\ flush.stage = "idle" /\ records = <<>> /\ publishing = None
        /\ Len(group) = 0 /\ Len(records) = 0
    BY DEF Init, Idle
  <2>2. \A n \in 1..0 : FALSE
    OBVIOUS
  <2> QED BY <2>1, <2>2 DEF Deferring, Recorded
<1>2. IInv /\ Kept /\ Deferring /\ Recorded /\ [Next]_vars => Deferring' /\ Recorded'
  BY DeferringStep
<1> QED BY <1>1, <1>2, KeptAlways, PTL DEF Spec

-----------------------------------------------------------------------------
(* A group that may be written is written: a step that makes the first      *)
(* group of the queue ready flushes it, or is part of a flush.              *)

\* While the disconnect of a finished group is looked for, no pending send can be taken: it
\* would end the flush with a direct write.
Unstranded == NoReadyGroupWaits /\ (flush.stage = "drain" => ~Draining)

\* What Ready looks at.
SameFront(gs, hs) ==
  /\ Len(gs) = Len(hs)
  /\ \A i \in 1..Len(hs) : /\ gs[i].note = hs[i].note /\ gs[i].retain = hs[i].retain
                           /\ gs[i].segments = hs[i].segments

LEMMA FieldsSameFront ==
  ASSUME NEW gs \in Seq(Group), NEW g
  PROVE  /\ SameFront(gs, gs)
         /\ \A b : SameFront([gs EXCEPT ![g].closes = b], gs)
         /\ \A n : SameFront([gs EXCEPT ![g].records = n], gs)
<1>1. \A i \in 1..Len(gs) : gs[i] \in Group
  OBVIOUS
<1>2. SameFront(gs, gs)
  BY DEF SameFront
<1>3. ASSUME NEW b PROVE SameFront([gs EXCEPT ![g].closes = b], gs)
  BY <1>1 DEF SameFront, Group
<1>4. ASSUME NEW n PROVE SameFront([gs EXCEPT ![g].records = n], gs)
  BY <1>1 DEF SameFront, Group
<1> QED BY <1>2, <1>3, <1>4

LEMMA FirstOfQueue ==
  ASSUME TypesOK, Order, queue # <<>>
  PROVE  1 \in 1..Len(queue) /\ queue[1] \in 1..Len(group) /\ group[queue[1]] \in Group
<1>1. queue \in Seq(Nat) /\ group \in Seq(Group)
  BY DEF TypesOK, MainOK
<1>2. 1 \in 1..Len(queue)
  BY <1>1
<1>3. queue[1] \in 1..Len(group)
  BY <1>2 DEF Order, Ascending
<1> QED BY <1>1, <1>2, <1>3

LEMMA UnstrandedSame ==
  ASSUME TypesOK, Order, Unstranded, queue' = queue, flush' = flush, SameFront(group', group),
         flush.stage # "drain" \/ UNCHANGED <<inline, slot, deciding, pending>>
  PROVE  Unstranded'
<1>1. flush'.stage = "drain" => ~Draining'
  BY DEF Unstranded, Draining
<1>2. ASSUME flush'.stage \in {"idle", "direct"}, queue' # <<>>
      PROVE  ~Ready(group'[queue'[1]])
  <2>1. queue[1] \in 1..Len(group)
    BY <1>2, FirstOfQueue
  <2>2. ~Ready(group[queue[1]])
    BY <1>2 DEF Unstranded, NoReadyGroupWaits
  <2> QED BY <2>1, <2>2 DEF SameFront, Ready
<1> QED BY <1>1, <1>2 DEF Unstranded, NoReadyGroupWaits

LEMMA UnstrandedEnds ==
  ASSUME NEW gs, ConnectionEnds(gs)
  PROVE  Unstranded'
BY DEF ConnectionEnds, Idle, Unstranded, NoReadyGroupWaits

\* releaseCausalOutboundGroup, finishOutboundCommandNotification and the command that seals.
LEMMA KickFlushes ==
  ASSUME flush' = Kick(group', queue'), flush.stage \in {"idle", "write"}
  PROVE  Unstranded'
<1>1. CASE flush.stage = "write"
  BY <1>1 DEF Kick, Flushing, Unstranded, NoReadyGroupWaits
<1>2. CASE flush.stage = "idle"
  BY <1>2 DEF Kick, Flushing, StartFlush, Idle, Unstranded, NoReadyGroupWaits
<1> QED BY <1>1, <1>2

\* A raw packet does not seal its segment.
LEMMA StageUnsealed ==
  ASSUME NEW base \in Group, NEW t \in Tx \ Command,
         base.segments = <<>> \/ ~base.segments[1].sealed
  PROVE  /\ Stage(base, t).segments # <<>> => ~Stage(base, t).segments[1].sealed
<1>0. base.segments \in Seq(Segment) /\ t \notin Priority
  BY OutboundAssumption DEF Group
<1>1. PICK S \in Seq(Segment) : S = base.segments
  BY <1>0
<1>2. \A s : ~Join(s, t).sealed
  <2>1. t \notin Priority /\ t \notin Command
    BY <1>0
  <2> QED BY <2>1 DEF Join
<1>3. CASE S = <<>> \/ S[Len(S)].sealed
  <2>1. PICK v : v = Join([txs |-> <<>>, sealed |-> FALSE], t)
    OBVIOUS
  <2>2. Stage(base, t).segments = Append(S, v)
    BY <1>1, <1>3, <2>1 DEF Stage, Group
  <2>3. CASE S = <<>>
    <3>1. Append(S, v)[1] = v
      BY <2>3
    <3> QED BY <1>2, <2>1, <2>2, <3>1
  <2>4. CASE S # <<>>
    <3>1. Append(S, v)[1] = S[1]
      BY <2>4
    <3> QED BY <1>1, <2>2, <2>4, <3>1
  <2> QED BY <2>3, <2>4
<1>4. CASE ~(S = <<>> \/ S[Len(S)].sealed)
  <2>1. PICK n \in 1..Len(S) : n = Len(S)
    BY <1>4
  <2>2. PICK v : v = Join(S[n], t)
    OBVIOUS
  <2>3. Stage(base, t) = [base EXCEPT !.segments = [S EXCEPT ![n] = v]]
    BY <1>1, <1>4, <2>1, <2>2 DEF Stage, Group
  <2>4. Stage(base, t).segments = [S EXCEPT ![n] = v]
    BY <2>3 DEF Group
  <2>5. [S EXCEPT ![n] = v][1] = IF n = 1 THEN v ELSE S[1]
    BY <1>4
  <2> QED BY <1>1, <1>4, <1>2, <2>2, <2>4, <2>5
<1> QED BY <1>3, <1>4

\* How stageCausalOutboundTransmission leaves the flush.
LEMMA TransmitKicks ==
  ASSUME MainOK, NEW ops, NEW o, NEW t, Transmit(ops, o, t)
  PROVE  \/ flush' = Kick(group', queue')
         \/ flush' = flush /\ t \notin Command /\ (NeedsGroup(o) => Live(o))
         \/ /\ flush'.stage = "direct" /\ UNCHANGED <<group, queue>>
            /\ ~NeedsGroup(o) /\ OldGroup(o) = 0
<1>1. Len(group) \in Nat
  BY DEF MainOK
<1>2. CASE ~NeedsGroup(o) /\ OldGroup(o) = 0
  BY <1>2 DEF Transmit
<1>3. CASE ~(~NeedsGroup(o) /\ OldGroup(o) = 0)
  <2>1. NeedsGroup(o) => Len(group) + 1 # 0
    BY <1>1
  <2>2. flush' = IF t \in Command \/ (NeedsGroup(o) /\ ~Live(o)) THEN Kick(group', queue') ELSE flush
    BY <1>3, <2>1 DEF Transmit
  <2> QED BY <2>2
<1> QED BY <1>2, <1>3

\* No direct write begins in a flush.
LEMMA DirectFromIdle ==
  ASSUME TypesOK, Order, NEW o \in Op, ~NeedsGroup(o), OldGroup(o) = 0,
         flush.stage \in {"idle", "write"}
  PROVE  flush.stage = "idle"
<1> SUFFICES ASSUME flush.stage = "write" PROVE FALSE
  OBVIOUS
<1>1. queue # <<>> /\ flush.group = queue[1]
  BY DEF Order, WritesFirst
<1>2. AmbientGroup # 0
  BY <1>1, FirstOfQueue DEF AmbientGroup
<1> QED BY <1>2 DEF OldGroup, NeedsGroup, Flushing

\* A raw packet of a live scope leaves the first group as unready as it was.
LEMMA UnreadyStages ==
  ASSUME TypesOK, Order, Holding, NEW o \in Op, NEW t \in Tx \ Command, NEW g \in Nat, g # 0,
         StagesInto(o, t, g), g \in 1..Len(group) \/ Retains(o),
         queue # <<>> => ~Ready(group[queue[1]]), queue' # <<>>
  PROVE  ~Ready(group'[queue'[1]])
<1>0. /\ queue \in Seq(Nat) /\ group \in Seq(Group) /\ Len(group) \in Nat
      /\ \A i \in 1..Len(group) : group[i] \in Group
  BY DEF TypesOK, MainOK
<1>1. PICK base \in Group :
        /\ base.segments = IF g \in 1..Len(group) THEN group[g].segments ELSE <<>>
        /\ group'[g].segments = Stage(base, t).segments
  BY DEF StagesInto
<1>2. CASE queue = <<>> /\ g \notin 1..Len(group)
  <2>1. queue' = Append(queue, g) /\ queue'[1] = g
    BY <1>0, <1>2 DEF StagesInto
  <2>2. base.segments = <<>>
    BY <1>1, <1>2
  <2>3. group'[g].segments # <<>> => ~group'[g].segments[1].sealed
    BY <1>1, <2>2, StageUnsealed
  <2>4. group'[g].retain = 1
    BY <1>2 DEF StagesInto
  <2> QED BY <2>1, <2>3, <2>4 DEF Ready
<1>3. CASE queue = <<>> /\ g \in 1..Len(group)
  BY <1>3 DEF StagesInto
<1>4. CASE queue # <<>> /\ queue[1] # g
  <2>1. queue'[1] = queue[1]
    <3>1. queue' = queue \/ queue' = Append(queue, g)
      BY DEF StagesInto
    <3>2. Append(queue, g)[1] = queue[1]
      BY <1>0, <1>4
    <3> QED BY <3>1, <3>2
  <2>2. queue[1] \in 1..Len(group)
    BY <1>4, FirstOfQueue
  <2>3. group'[queue[1]] = group[queue[1]]
    BY <1>4, <2>2 DEF StagesInto
  <2> QED BY <1>4, <2>1, <2>3
<1>5. CASE queue # <<>> /\ queue[1] = g
  <2>1. g \in 1..Len(group)
    BY <1>5, FirstOfQueue
  <2>2. queue' = queue /\ group'[g].note = group[g].note
        /\ group'[g].retain = group[g].retain + (IF Retains(o) THEN 1 ELSE 0)
    BY <2>1 DEF StagesInto
  <2>3. group[g].retain \in Nat /\ ~Ready(group[g])
    BY <1>0, <1>5, <2>1 DEF Group
  <2>4. group[g].retain # 0 => group'[g].retain # 0
    BY <2>2, <2>3
  <2>5. CASE group[g].note
    BY <1>5, <2>2, <2>5 DEF Ready
  <2>6. CASE ~group[g].note
    <3>1. group[g].retain # 0 /\ (group[g].segments = <<>> \/ ~group[g].segments[1].sealed)
      BY <2>3, <2>6 DEF Ready
    <3>2. group'[g].segments # <<>> => ~group'[g].segments[1].sealed
      BY <1>1, <2>1, <3>1, StageUnsealed
    <3> QED BY <1>5, <2>2, <2>4, <3>1, <3>2 DEF Ready
  <2> QED BY <2>5, <2>6
<1> QED BY <1>2, <1>3, <1>4, <1>5

LEMMA UnstrandedTakes ==
  ASSUME TypesOK, Order, Holding, Unstranded, NEW o \in Op, NEW t \in Tx, Takes(o, t),
         flush.stage \in {"idle", "write"}
  PROVE  Unstranded'
<1>0. MainOK /\ group \in Seq(Group)
  BY DEF TypesOK, MainOK
<1>1. CASE Rejects(o, t) \/ Parks(o, t)
  <2>1. UNCHANGED <<group, queue, flush>>
    BY <1>1 DEF Rejects, Parks
  <2>2. SameFront(group', group)
    BY <1>0, <2>1, FieldsSameFront
  <2> QED BY <2>1, <2>2, UnstrandedSame
<1>2. CASE Stages(o, t)
  <2>1. Transmit(OpsFor(o, t), o, t) /\ Of(op, o, conn.epoch)
    BY <1>2 DEF Stages, OpsFor
  <2>2. CASE flush' = Kick(group', queue')
    BY <2>2, KickFlushes
  <2>3. CASE flush'.stage = "direct" /\ UNCHANGED <<group, queue>> /\ ~NeedsGroup(o) /\ OldGroup(o) = 0
    <3>1. flush.stage = "idle"
      BY <2>3, DirectFromIdle
    <3> QED BY <2>3, <3>1 DEF Unstranded, NoReadyGroupWaits
  <2>4. CASE flush' = flush /\ t \notin Command /\ (NeedsGroup(o) => Live(o))
    <3>1. CASE flush.stage = "write"
      BY <2>4, <3>1 DEF Unstranded, NoReadyGroupWaits
    <3>2. CASE flush.stage = "idle"
      <4>1. PICK g \in Nat : TransmitEffect(OpsFor(o, t), o, t, g)
        BY <1>0, <1>2, StagesEffect
      <4>2. g # 0
        BY <2>4, <3>2, <4>1 DEF TransmitEffect
      <4>3. StagesInto(o, t, g)
        BY <4>1, <4>2 DEF TransmitEffect
      <4>4. g \in 1..Len(group) \/ Retains(o)
        <5>1. tx'[t].group = g /\ tx \in TxTable
          BY <1>0, <4>1 DEF TransmitEffect, MainOK
        <5>2. tx'[t].group = IF NeedsGroup(o) THEN Len(group) + 1 ELSE OldGroup(o)
          BY <2>1, <5>1 DEF Transmit, TxTable
        <5>3. /\ OldGroup(o) \in 0..Len(group)
              /\ Live(o) /\ op[o].group # 0 => OldGroup(o) = op[o].group
              /\ NeedsGroup(o) => OldGroup(o) = 0
          BY <1>0, <2>1, TargetFacts
        <5>4. CASE NeedsGroup(o)
          BY <2>4, <5>3, <5>4 DEF Retains
        <5>5. CASE ~NeedsGroup(o)
          BY <4>2, <5>1, <5>2, <5>3, <5>5
        <5> QED BY <5>4, <5>5
      <4>5. queue # <<>> => ~Ready(group[queue[1]])
        BY <3>2 DEF Unstranded, NoReadyGroupWaits
      <4>6. t \in Tx \ Command
        BY <2>4
      <4>7. queue' # <<>> => ~Ready(group'[queue'[1]])
        BY <4>2, <4>3, <4>4, <4>5, <4>6, UnreadyStages
      <4> QED BY <2>4, <3>2, <4>7 DEF Unstranded, NoReadyGroupWaits
    <3> QED BY <3>1, <3>2
  <2> QED BY <1>0, <2>1, <2>2, <2>3, <2>4, TransmitKicks
<1> QED BY <1>1, <1>2 DEF Takes

LEMMA UnstrandedCallbacks ==
  ASSUME TypesOK, Order, Unstranded, NEW o \in Op, Begin(o) \/ End(o)
  PROVE  Unstranded'
<1>0. /\ flush.stage \in {"idle", "write"} /\ UNCHANGED <<queue, inline, slot, deciding, pending>>
      /\ group \in Seq(Group)
  BY QuietNotDirect DEF Begin, End, CanAct, TypesOK, MainOK
<1>1. CASE UNCHANGED <<group, flush>>
  BY <1>0, <1>1, FieldsSameFront, UnstrandedSame
<1>2. CASE Begin(o)
  <2>1. PICK g : group' = IF g = 0 THEN group ELSE [group EXCEPT ![g].retain = group[g].retain + 1]
    BY <1>2 DEF Begin
  <2>2. flush' = flush
    BY <1>2 DEF Begin
  <2>3. ASSUME flush.stage = "idle", queue # <<>>
        PROVE  ~Ready(group'[queue[1]])
    <3>1. ~Ready(group[queue[1]])
      BY <2>3 DEF Unstranded, NoReadyGroupWaits
    <3>2. queue[1] \in 1..Len(group) /\ group[queue[1]] \in Group
      BY <2>3, FirstOfQueue
    <3>3. PICK r \in Group : r = group[queue[1]]
      BY <3>2
    <3>4. CASE g = queue[1] /\ g # 0
      <4>1. group'[queue[1]] = [r EXCEPT !.retain = r.retain + 1]
        BY <1>0, <2>1, <3>2, <3>3, <3>4
      <4>2. r.retain \in Nat
        BY GroupFields
      <4> QED BY <3>1, <3>3, <4>1, <4>2 DEF Ready, Group
    <3>5. CASE ~(g = queue[1] /\ g # 0)
      <4>1. group'[queue[1]] = group[queue[1]]
        BY <1>0, <2>1, <3>2, <3>5
      <4> QED BY <3>1, <4>1
    <3> QED BY <3>4, <3>5
  <2> QED BY <1>0, <2>2, <2>3 DEF Unstranded, NoReadyGroupWaits
<1>3. CASE End(o)
  <2>1. UNCHANGED <<group, flush>> \/ flush' = Kick(group', queue')
    BY <1>0, <1>3 DEF End
  <2> QED BY <1>0, <1>1, <2>1, KickFlushes
<1> QED BY <1>2, <1>3

LEMMA UnstrandedConnection ==
  ASSUME TypesOK, Order, Unstranded,
         \/ NotificationCompletes \/ NotificationEnds \/ InlineEnds
         \/ RemoteClose \/ SocketDrains \/ Connect \/ Disconnect
  PROVE  Unstranded'
<1>0. flush.stage \in {"idle", "write"} /\ group \in Seq(Group) /\ SameFront(group, group)
  BY QuietNotDirect, FieldsSameFront
     DEF NotificationCompletes, NotificationEnds, InlineEnds, RemoteClose, SocketDrains, Connect,
         Disconnect, EventLoop, TypesOK, MainOK
<1>1. CASE UNCHANGED <<group, queue, flush>>
  BY <1>0, <1>1, UnstrandedSame
<1>2. CASE ConnectionEnds(group)
  BY <1>2, UnstrandedEnds
<1>3. NotificationCompletes \/ InlineEnds \/ Connect => UNCHANGED <<group, queue, flush>>
  BY DEF NotificationCompletes, InlineEnds, Connect
<1>4. RemoteClose \/ SocketDrains => UNCHANGED <<group, queue, flush>> \/ ConnectionEnds(group)
  BY DEF RemoteClose, SocketDrains
<1>5. NotificationEnds => UNCHANGED <<group, queue, flush>> \/ flush' = Kick(group', queue')
  BY DEF NotificationEnds
<1>6. CASE Disconnect
  <2>1. CASE queue = <<>>
    <3>1. CloseSocket(group, flush)
      BY <1>6, <2>1 DEF Disconnect
    <3>2. ConnectionEnds(group) \/ UNCHANGED <<group, queue, flush>>
      BY <3>1 DEF CloseSocket
    <3> QED BY <1>1, <1>2, <3>2
  <2>2. CASE queue # <<>>
    <3>1. /\ group' = [group EXCEPT ![queue[Len(queue)]].closes = TRUE]
          /\ UNCHANGED <<queue, flush>>
      BY <1>6, <2>2 DEF Disconnect
    <3>2. SameFront(group', group)
      <4>1. \A g, b : SameFront([group EXCEPT ![g].closes = b], group)
        BY <1>0, FieldsSameFront
      <4> QED BY <3>1, <4>1
    <3> QED BY <1>0, <3>1, <3>2, UnstrandedSame
  <2> QED BY <2>1, <2>2
<1> QED BY <1>0, <1>1, <1>2, <1>3, <1>4, <1>5, <1>6, KickFlushes

LEMMA UnstrandedFlush ==
  ASSUME TypesOK, Order, Deferring, Unstranded,
         \/ WriteDirect \/ FlushWrite
         \/ FlushPop \/ FlushReturns \/ FlushFinishes \/ FlushGoesOn
  PROVE  Unstranded'
<1>0. group \in Seq(Group) /\ flush \in FlushType
  BY DEF TypesOK, MainOK
<1>1. CASE ConnectionEnds(group)
  BY <1>1, UnstrandedEnds
<1>2. CASE flush'.stage = "write"
  BY <1>2 DEF Unstranded, NoReadyGroupWaits
<1>3. CASE WriteDirect
  <2>1. ConnectionEnds(group) \/ (group' = group /\ queue' = queue /\ flush' = Idle)
    BY <1>3 DEF WriteDirect, Accepted, Failed, TelnetFails
  <2>2. flush.stage = "direct"
    BY <1>3 DEF WriteDirect
  <2> QED BY <1>1, <2>1, <2>2 DEF Unstranded, NoReadyGroupWaits, Idle
<1>4. CASE FlushWrite \/ FlushPop
  <2>1. ConnectionEnds(group) \/ flush'.stage = "write"
    BY <1>4 DEF FlushWrite, FlushPop, Writing, TelnetFails
  <2> QED BY <1>1, <1>2, <2>1
<1>5. CASE FlushReturns
  <2>1. flush' = Idle /\ UNCHANGED <<group, queue>> /\ flush.stage = "write"
    BY <1>5 DEF FlushReturns, Notifying, Writing
  <2>2. flush.group = queue[1]
    BY <2>1 DEF Order, WritesFirst
  <2>3. ~Ready(group[flush.group])
    <3>1. CASE Notifying
      BY <3>1 DEF Notifying, Ready
    <3>2. CASE ~MayWrite /\ group[flush.group].retain > 0
      BY <3>2 DEF MayWrite, FirstSegment, Ready
    <3> QED BY <1>5, <3>1, <3>2 DEF FlushReturns
  <2> QED BY <2>1, <2>2, <2>3 DEF Unstranded, NoReadyGroupWaits, Idle
<1>6. CASE FlushFinishes
  <2>1. ~Draining /\ UNCHANGED <<slot, deciding, pending, inline>> /\ flush'.stage = "drain"
    BY <1>0, <1>6 DEF FlushFinishes, Writing, FlushType
  <2> QED BY <2>1 DEF Draining, Unstranded, NoReadyGroupWaits
<1>7. CASE FlushGoesOn
  <2>1. CASE ClosesNow(group[flush.group]) /\ CloseSocket(group, Idle)
    <3>1. queue = <<>>
      BY <1>7, <2>1 DEF Deferring, ClosesNow, FlushGoesOn
    <3>2. CASE ~ConnectionEnds(group)
      BY <2>1, <3>1, <3>2 DEF CloseSocket, Unstranded, NoReadyGroupWaits, Idle
    <3> QED BY <1>1, <3>2
  <2>2. CASE flush' = StartFlush(group, queue) /\ UNCHANGED <<group, queue>>
    BY <2>2 DEF StartFlush, Idle, Unstranded, NoReadyGroupWaits
  <2> QED BY <1>7, <2>1, <2>2 DEF FlushGoesOn
<1> QED BY <1>3, <1>4, <1>5, <1>6, <1>7

LEMMA UnstrandedRecords ==
  ASSUME TypesOK, Order, Unstranded, PublishRecord \/ PublicationCompletes
  PROVE  Unstranded'
<1>0. /\ group \in Seq(Group) /\ SameFront(group, group)
      /\ UNCHANGED <<deciding, pending, inline>>
  BY FieldsSameFront DEF PublishRecord, PublicationCompletes, TypesOK, MainOK
<1>1. CASE UNCHANGED <<conn, op, tx, group, queue, flush, slot>>
  BY <1>0, <1>1, UnstrandedSame
<1>2. ASSUME NEW r, Published(r)
      PROVE  Unstranded'
  <2>1. PICK gs : /\ gs = IF r.group = 0 THEN group ELSE [group EXCEPT ![r.group].records = @ - 1]
                  /\ \/ CloseSocket(gs, flush)
                     \/ group' = gs /\ UNCHANGED <<conn, op, tx, queue, flush, slot>>
    BY <1>2 DEF Published
  <2>2. SameFront(gs, group)
    <3>1. gs = group \/ gs = [group EXCEPT ![r.group].records = group[r.group].records - 1]
      BY <2>1
    <3>2. \A n : SameFront([group EXCEPT ![r.group].records = n], group)
      BY <1>0, FieldsSameFront
    <3> QED BY <1>0, <3>1, <3>2
  <2>3. ConnectionEnds(gs) \/ (group' = gs /\ UNCHANGED <<queue, flush, slot>>)
    BY <2>1 DEF CloseSocket
  <2>4. CASE ConnectionEnds(gs)
    BY <2>4, UnstrandedEnds
  <2>5. CASE group' = gs /\ UNCHANGED <<queue, flush, slot>>
    BY <1>0, <2>2, <2>5, UnstrandedSame
  <2> QED BY <2>3, <2>4, <2>5
<1> QED BY <1>1, <1>2 DEF PublishRecord, PublicationCompletes

LEMMA UnstrandedStep ==
  IInv /\ Kept /\ Deferring /\ Unstranded /\ [Next]_vars => Unstranded'
<1> SUFFICES ASSUME IInv, Kept, Deferring, Unstranded, [Next]_vars PROVE Unstranded'
  OBVIOUS
<1>1. TypesOK /\ Order /\ Owned /\ Holding /\ Direct
  BY TypeParts DEF IInv, TypesOK, Kept
<1>2. CASE Next
  <2>1. CASE DrainSend \/ Decide \/ \E o \in Op, t \in Tx : SendRaw(o, t) \/ Send(o, t)
    <3>1. PICK o \in Op, t \in Tx : Takes(o, t)
      BY <1>1, <2>1, SendsTake
    <3>2. flush.stage \in {"idle", "write"}
      <4>1. CASE DrainSend
        <5>1. Draining /\ flush \in FlushType
          BY <1>1, <4>1 DEF DrainSend, TypesOK, MainOK
        <5> QED BY <1>1, <5>1 DEF Direct, Unstranded, FlushType
      <4>2. CASE Decide \/ \E p \in Op, u \in Tx : SendRaw(p, u) \/ Send(p, u)
        BY <4>2, QuietNotDirect DEF Decide, EventLoop, SendRaw, Send, CanAct
      <4> QED BY <2>1, <4>1, <4>2
    <3> QED BY <1>1, <3>1, <3>2, UnstrandedTakes
  <2>2. CASE \/ NotificationCompletes \/ NotificationEnds \/ InlineEnds
             \/ RemoteClose \/ SocketDrains \/ Connect \/ Disconnect
    BY <1>1, <2>2, UnstrandedConnection
  <2>3. CASE \/ WriteDirect \/ FlushWrite
             \/ FlushPop \/ FlushReturns \/ FlushFinishes \/ FlushGoesOn
    BY <1>1, <2>3, UnstrandedFlush
  <2>4. CASE PublishRecord \/ PublicationCompletes
    BY <1>1, <2>4, UnstrandedRecords
  <2>5. CASE \E o \in Op : Begin(o) \/ End(o)
    BY <1>1, <2>5, UnstrandedCallbacks
  <2> QED BY <1>2, <2>1, <2>2, <2>3, <2>4, <2>5 DEF Next, Working
<1>3. CASE UNCHANGED vars
  <2>1. UNCHANGED <<group, queue, flush, inline, slot, deciding, pending>>
    BY <1>3 DEF vars
  <2>2. SameFront(group', group)
    BY <1>1, <2>1, FieldsSameFront DEF TypesOK, MainOK
  <2> QED BY <1>1, <2>1, <2>2, UnstrandedSame
<1> QED BY <1>2, <1>3

(* A group that may be written never waits for another event: whatever     *)
(* makes the first group of the queue ready (the end of a scope, of a      *)
(* notification, of the group before it, a command that seals a segment)   *)
(* flushes it in the same call, for any callbacks, sends and connections.  *)
THEOREM NoGroupIsStranded == Spec => []NoReadyGroupWaits
<1>1. Init => Unstranded
  BY DEF Init, Idle, Unstranded, NoReadyGroupWaits
<1>2. IInv /\ Kept /\ Deferring /\ Unstranded /\ [Next]_vars => Unstranded'
  BY UnstrandedStep
<1>3. Unstranded => NoReadyGroupWaits
  BY DEF Unstranded
<1> QED BY <1>1, <1>2, <1>3, DeferringAlways, PTL DEF Spec

-----------------------------------------------------------------------------
(* A disconnect waits for the last group.  A record of packet debugging     *)
(* names its group, but not the connection of it: one that outlives its     *)
(* connection is late, and may end the next one.                            *)

Outstanding(g) == \/ \E i \in 1..Len(records) : records[i].group = g
                  \/ publishing # None /\ publishing.group = g

LateRecord == conn.phase = "connected" /\ \E g \in 1..Len(group) : group[g].closes /\ Outstanding(g)

\* No record is made of a group that is finished.
NoNewRecords == \A g \in 1..Len(group) : group[g].finished /\ Outstanding(g)' => Outstanding(g)

ClosingGroup(g) ==
  group[g].closes =>
    /\ Outstanding(g) /\ group[g].finished /\ conn.phase = "closing" => queue = <<>>
    /\ conn.epoch = 1 => conn.phase # "connected"

Shutting ==
  /\ conn.sock = "draining" => conn.phase = "closing"
  /\ conn.epoch >= 1 /\ (conn.phase = "down" => conn.epoch >= 2)
  /\ conn.phase # "down" => conn.epoch <= MaxEpoch
  /\ \A g \in 1..Len(group) : ClosingGroup(g)
  /\ ClosesAfterFlush

\* What is recorded is a write of the group under way, and publishing moves records only.
LEMMA NoNewRecord ==
  ASSUME TypesOK, Order, Holding, [Next]_vars
  PROVE  NoNewRecords
<1> SUFFICES ASSUME NEW g \in 1..Len(group), group[g].finished, Outstanding(g)'
             PROVE  Outstanding(g)
  BY DEF NoNewRecords
<1>0. /\ records \in Seq(Record) /\ publishing \in Record \cup {None}
      /\ queue \in Seq(Nat) /\ Len(records) \in Nat /\ g # 0
  BY DEF TypesOK, MainOK, RestOK
<1>1. CASE records' = records /\ (publishing' = publishing \/ publishing' = None)
  BY <1>1 DEF Outstanding
<1>2. CASE PublishRecord
  <2>1. /\ records # <<>> /\ records' = Tail(records)
        /\ publishing' = publishing \/ publishing' = Head(records)
    BY <1>2 DEF PublishRecord, Drainable
  <2>2. 1 \in 1..Len(records) /\ records[1] = Head(records)
    BY <1>0, <2>1
  <2>3. \A i \in 1..Len(records') : records'[i] = records[i + 1] /\ i + 1 \in 1..Len(records)
    BY <1>0, <2>1
  <2>4. CASE \E i \in 1..Len(records') : records'[i].group = g
    BY <2>3, <2>4 DEF Outstanding
  <2>5. CASE publishing' # None /\ publishing'.group = g
    BY <2>1, <2>2, <2>5 DEF Outstanding
  <2> QED BY <2>4, <2>5 DEF Outstanding
<1>3. ASSUME NEW h, NEW t, h # g, publishing' = publishing,
             records' = Append(records, [tx |-> t, group |-> h])
      PROVE  Outstanding(g)
  <2>1. /\ Len(records') = Len(records) + 1 /\ records'[Len(records) + 1].group = h
        /\ \A i \in 1..Len(records) : records'[i] = records[i]
    BY <1>0, <1>3
  <2>2. \A i \in 1..Len(records') : i \in 1..Len(records) \/ i = Len(records) + 1
    BY <1>0, <2>1
  <2> QED BY <1>3, <2>1, <2>2 DEF Outstanding
<1>4. CASE WriteDirect \/ FlushWrite
  <2>1. publishing' = publishing
    BY <1>4 DEF WriteDirect, FlushWrite
  <2>2. \/ records' = records
        \/ \E t : records' = Append(records, [tx |-> t, group |-> 0])
        \/ /\ flush.stage = "write"
           /\ \E t : records' = Append(records, [tx |-> t, group |-> flush.group])
    BY <1>4 DEF WriteDirect, FlushWrite, Writing, Accepted, Failed, TelnetFails
  <2>3. CASE records' = records
    BY <1>1, <2>1, <2>3
  <2>4. CASE \E t : records' = Append(records, [tx |-> t, group |-> 0])
    BY <1>0, <1>3, <2>1, <2>4
  <2>5. CASE /\ flush.stage = "write"
             /\ \E t : records' = Append(records, [tx |-> t, group |-> flush.group])
    <3>1. queue # <<>> /\ flush.group = queue[1]
      BY <2>5 DEF Order, WritesFirst
    <3>2. 1 \in 1..Len(queue)
      BY <1>0, <3>1
    <3>3. flush.group # g
      BY <3>1, <3>2 DEF Holding
    <3> QED BY <1>3, <2>1, <2>5, <3>3
  <2> QED BY <2>2, <2>3, <2>4, <2>5
<1>5. \/ records' = records /\ (publishing' = publishing \/ publishing' = None)
      \/ PublishRecord \/ WriteDirect \/ FlushWrite
  BY DEF Next, Working, DrainSend, NotificationCompletes, InlineEnds, NotificationEnds, Decide,
         FlushPop, FlushReturns, FlushFinishes, FlushGoesOn, RemoteClose, SocketDrains, Connect,
         Disconnect, Begin, End, SendRaw, Send, PublicationCompletes, vars
<1> QED BY <1>1, <1>2, <1>4, <1>5

LEMMA ShuttingCalm ==
  ASSUME Shutting, Calmly, NoNewRecords
  PROVE  Shutting'
<1>1. /\ Len(group') = Len(group)
      /\ \A i \in 1..Len(group) : group'[i].closes = group[i].closes /\ group'[i].finished = group[i].finished
  BY DEF Calmly, SameClosing
<1>2. \A g \in 1..Len(group') : ClosingGroup(g)'
  BY <1>1 DEF Shutting, ClosingGroup, NoNewRecords, Calmly
<1>3. ClosesAfterFlush'
  BY DEF Shutting, ClosesAfterFlush, NoneStaged, Staged, Calmly
<1> QED BY <1>2, <1>3 DEF Shutting, Calmly

LEMMA ShuttingEnds ==
  ASSUME MainOK, Holding, Shutting, NEW gs \in Seq(Group), Len(gs) = Len(group), ConnectionEnds(gs)
  PROVE  Shutting'
<1>1. conn' = [phase |-> "down", sock |-> "closed", epoch |-> conn.epoch + 1, buffer |-> <<>>]
  BY DEF ConnectionEnds
<1>2. conn.epoch \in Nat
  BY GroupTypes
<1>3. conn'.phase = "down" /\ conn'.sock = "closed" /\ conn'.epoch >= 2 /\ conn'.epoch >= 1
  BY <1>1, <1>2 DEF Shutting
<1>4. \A g \in 1..Len(group') : ClosingGroup(g)'
  BY <1>3 DEF ClosingGroup
<1> QED BY <1>3, <1>4 DEF Shutting, ClosesAfterFlush

\* The socket is told to close when every group has been finished.
LEMMA ShuttingCloses ==
  ASSUME MainOK, Kept, Shutting, NEW gs \in Seq(Group), NEW next, SameClosing(gs, group),
         CloseSocket(gs, next), queue = <<>>, flush.stage # "direct", conn.phase # "down"
  PROVE  Shutting'
<1>1. CASE ConnectionEnds(gs)
  <2>1. Len(gs) = Len(group) /\ Holding
    BY DEF SameClosing, Kept
  <2> QED BY <1>1, <2>1, ShuttingEnds
<1>2. CASE /\ conn' = [conn EXCEPT !.phase = "closing", !.sock = "draining"]
           /\ group' = gs /\ flush' = next
           /\ UNCHANGED <<op, tx, queue, slot>>
  <2>1. conn'.phase = "closing" /\ conn'.epoch = conn.epoch
    BY <1>2 DEF MainOK, ConnType
  <2>2. \A t \in Tx : ~Staged(t)
    BY AllFlushed
  <2>3. \A g \in 1..Len(group') : ClosingGroup(g)'
    BY <1>2, <2>1 DEF ClosingGroup
  <2>4. ClosesAfterFlush'
    BY <1>2, <2>2 DEF ClosesAfterFlush, Staged
  <2> QED BY <2>1, <2>3, <2>4 DEF Shutting
<1> QED BY <1>1, <1>2 DEF CloseSocket

LEMMA ShuttingTakes ==
  ASSUME TypesOK, Order, Holding, Deferring, Shutting, NoNewRecords,
         NEW o \in Op, NEW t \in Tx, Takes(o, t)
  PROVE  Shutting'
<1>1. conn' = conn /\ MainOK
  BY DEF Takes, TypesOK
<1>2. CASE Rejects(o, t) \/ Parks(o, t)
  <2>1. NoneStaged /\ UNCHANGED <<group, queue, flush>>
    BY <1>2 DEF Rejects, Parks, OneChanges, NoneStaged, Staged
  <2>2. SameClosing(group', group)
    BY <1>1, <2>1, FieldsSameClosing DEF MainOK
  <2>3. Calmly
    BY <1>1, <2>1, <2>2 DEF Calmly
  <2> QED BY <2>3, ShuttingCalm
<1>3. CASE Stages(o, t)
  <2>1. PICK g \in Nat : TransmitEffect(OpsFor(o, t), o, t, g)
    BY <1>1, <1>3, StagesEffect
  <2>2. conn.phase = "connected" /\ Len(group) \in Nat
    BY <1>1, <1>3 DEF Stages, MainOK
  <2>3. \A i \in 1..Len(group) : group[i].closes => group[i].finished /\ conn.epoch # 1
    BY <2>2 DEF Deferring, Shutting, ClosingGroup
  <2>4. \A i \in 1..Len(group') : group'[i].closes => conn.epoch # 1
    <3>1. CASE g = 0
      BY <2>1, <2>3, <3>1 DEF TransmitEffect
    <3>2. CASE g # 0
      <4>1. StagesInto(o, t, g)
        BY <2>1, <3>2 DEF TransmitEffect
      <4>2. ASSUME NEW i \in 1..Len(group'), group'[i].closes
            PROVE  conn.epoch # 1
        <5>1. CASE i = g
          BY <2>3, <4>1, <4>2, <5>1 DEF StagesInto
        <5>2. CASE i # g
          <6>1. i \in 1..Len(group) /\ group'[i] = group[i]
            BY <2>2, <4>1, <5>2 DEF StagesInto
          <6> QED BY <2>3, <4>2, <6>1
        <5> QED BY <5>1, <5>2
      <4> QED BY <4>2
    <3> QED BY <3>1, <3>2
  <2>5. \A i \in 1..Len(group') : ClosingGroup(i)'
    BY <1>1, <2>2, <2>4 DEF ClosingGroup
  <2>6. conn.sock # "draining"
    BY <2>2 DEF Shutting
  <2> QED BY <1>1, <2>5, <2>6 DEF Shutting, ClosesAfterFlush
<1> QED BY <1>2, <1>3 DEF Takes

LEMMA ShuttingConnect ==
  ASSUME TypesOK, Shutting, Connect
  PROVE  Shutting'
<1>1. /\ conn.phase = "down" /\ conn.epoch <= MaxEpoch /\ UNCHANGED <<op, tx, group, queue, flush>>
      /\ conn'.phase = "connected" /\ conn'.sock = "open" /\ conn'.epoch = conn.epoch
      /\ conn.epoch \in Nat
  BY DEF Connect, TypesOK, MainOK, ConnType
<1>2. conn.epoch # 1
  BY <1>1 DEF Shutting
<1>3. \A i \in 1..Len(group') : ClosingGroup(i)'
  BY <1>1, <1>2 DEF ClosingGroup
<1> QED BY <1>1, <1>3 DEF Shutting, ClosesAfterFlush

LEMMA ShuttingDisconnect ==
  ASSUME TypesOK, Order, Kept, Deferring, Shutting, NoNewRecords, ~LateRecord, Disconnect
  PROVE  Shutting'
<1>0. /\ MainOK /\ group \in Seq(Group) /\ SameClosing(group, group) /\ queue \in Seq(Nat) /\ Holding
      /\ \A i \in 1..Len(group) : group[i] \in Group
  BY FieldsSameClosing DEF TypesOK, MainOK, Kept
<1>1. conn.phase = "connected" /\ flush.stage \in {"idle", "write"}
  BY DisconnectEffect
<1>2. CASE queue = <<>> /\ CloseSocket(group, flush)
  BY <1>0, <1>1, <1>2, ShuttingCloses
<1>3. CASE queue # <<>>
  <2>1. PICK last \in 1..Len(group) :
          /\ last = queue[Len(queue)] /\ Len(group') = Len(group)
          /\ group'[last] = [group[last] EXCEPT !.closes = TRUE]
          /\ \A i \in 1..Len(group) : i # last => group'[i] = group[i]
    BY <1>3, DisconnectEffect
  <2>2. /\ UNCHANGED <<op, tx, queue, flush, slot>> /\ conn'.phase = "closing"
        /\ conn'.sock = conn.sock /\ conn'.epoch = conn.epoch
    BY <1>3, DisconnectEffect
  <2>3. ~group'[last].finished
    <3>1. Len(queue) \in 1..Len(queue)
      BY <1>0, <1>3
    <3>2. ~group[last].finished
      BY <2>1, <3>1 DEF Kept, Holding
    <3>3. group[last] \in Group
      BY <1>0
    <3> QED BY <2>1, <3>2, <3>3 DEF Group
  <2>4. \A i \in 1..Len(group) : group[i].closes => group[i].finished /\ ~Outstanding(i)
    BY <1>1 DEF Deferring, LateRecord
  <2>5. \A i \in 1..Len(group') : ClosingGroup(i)'
    BY <2>1, <2>2, <2>3, <2>4 DEF ClosingGroup, NoNewRecords
  <2>6. conn.sock # "draining"
    BY <1>1 DEF Shutting
  <2> QED BY <1>0, <1>1, <2>2, <2>5, <2>6 DEF Shutting, ClosesAfterFlush
<1> QED BY <1>2, <1>3, DisconnectEffect

LEMMA ShuttingFlush ==
  ASSUME TypesOK, Order, Kept, Deferring, Shutting, NoNewRecords,
         FlushPop \/ FlushReturns \/ FlushFinishes \/ FlushGoesOn
  PROVE  Shutting'
<1>0. MainOK /\ group \in Seq(Group) /\ SameClosing(group, group) /\ Holding /\ flush \in FlushType
  BY FieldsSameClosing DEF TypesOK, MainOK, Kept
<1>1. CASE Calmly
  BY <1>1, ShuttingCalm
<1>2. CASE flush.stage = "drain" /\ ClosesNow(group[flush.group]) /\ CloseSocket(group, Idle)
  <2>1. queue = <<>> /\ conn.phase = "closing"
    BY <1>2 DEF Deferring, ClosesNow
  <2> QED BY <1>0, <1>2, <2>1, ShuttingCloses
<1>3. CASE FlushFinishes
  <2>1. /\ UNCHANGED <<conn, op, tx>> /\ flush.stage = "write"
        /\ flush'.stage = "drain" /\ flush'.group = flush.group
    BY <1>0, <1>3 DEF FlushFinishes, Writing, FlushType
  <2>2. queue # <<>>
    BY <2>1 DEF Order, WritesFirst
  <2>3. /\ Deferring' /\ Len(group') = Len(group)
        /\ \A i \in 1..Len(group) : /\ group'[i].closes = group[i].closes
                                    /\ group'[i].finished => group[i].finished \/ i = flush.group
    BY <1>0, <1>3, DeferringFinishes
  <2>4. ASSUME NEW h \in 1..Len(group), group'[h].closes
        PROVE  /\ Outstanding(h)' /\ group'[h].finished /\ conn.phase = "closing" => queue' = <<>>
               /\ conn.epoch = 1 => conn.phase # "connected"
    <3>1. ClosingGroup(h) /\ group[h].closes
      BY <2>3, <2>4 DEF Shutting
    <3>2. CASE h = flush.group
      BY <2>1, <2>3, <2>4, <3>1, <3>2 DEF Deferring, ClosingGroup
    <3>3. CASE h # flush.group
      BY <2>2, <2>3, <3>1, <3>3 DEF ClosingGroup, NoNewRecords
    <3> QED BY <3>2, <3>3
  <2>5. \A h \in 1..Len(group') : ClosingGroup(h)'
    BY <2>1, <2>3, <2>4 DEF ClosingGroup
  <2> QED BY <2>1, <2>5 DEF Shutting, ClosesAfterFlush, Staged
<1> QED BY <1>1, <1>2, <1>3, CalmFlush

LEMMA ShuttingRecords ==
  ASSUME TypesOK, Order, Kept, Shutting, Recorded, NoNewRecords,
         PublishRecord \/ PublicationCompletes
  PROVE  Shutting'
<1>0. MainOK
  BY DEF TypesOK
<1>1. CASE UNCHANGED <<conn, op, tx, group, queue, flush, slot>>
  BY <1>1, StillCalm, ShuttingCalm
<1>2. ASSUME NEW r \in Record, Published(r), r.group <= Len(group), Outstanding(r.group)
      PROVE  Shutting'
  <2>1. CASE Calmly
    BY <2>1, ShuttingCalm
  <2>2. ASSUME NEW gs \in Seq(Group), SameClosing(gs, group), CloseSocket(gs, flush),
               r.group \in 1..Len(group), group[r.group].finished, group[r.group].closes,
               conn.phase = "closing"
        PROVE  Shutting'
    <3>1. queue = <<>>
      BY <1>2, <2>2 DEF Shutting, ClosingGroup
    <3>2. flush.stage # "direct"
      BY <2>2 DEF Kept, Direct
    <3> QED BY <1>0, <2>2, <3>1, <3>2, ShuttingCloses
  <2> QED BY <1>2, <2>1, <2>2, PublishedEffect
<1>3. PublishRecord => /\ 1 \in 1..Len(records) /\ records[1] = Head(records) /\ Head(records) \in Record
  BY DEF PublishRecord, Drainable, TypesOK, RestOK
<1>4. PublishRecord => Head(records).group <= Len(group) /\ Outstanding(Head(records).group)
  BY <1>3 DEF Recorded, Outstanding
<1>5. PublicationCompletes => /\ publishing \in Record /\ publishing.group <= Len(group)
                              /\ Outstanding(publishing.group)
  BY DEF PublicationCompletes, TypesOK, RestOK, Recorded, Outstanding
<1> QED BY <1>1, <1>2, <1>3, <1>4, <1>5 DEF PublishRecord, PublicationCompletes

LEMMA ShuttingStep ==
  IInv /\ Kept /\ Deferring /\ Recorded /\ Shutting /\ ~LateRecord /\ [Next]_vars => Shutting'
<1> SUFFICES ASSUME IInv, Kept, Deferring, Recorded, Shutting, ~LateRecord, [Next]_vars
             PROVE  Shutting'
  OBVIOUS
<1>1. TypesOK /\ Order /\ Owned /\ Holding /\ MainOK
  BY TypeParts DEF IInv, TypesOK, Kept
<1>2. NoNewRecords
  BY <1>1, NoNewRecord
<1>3. CASE Next
  <2>1. CASE DrainSend \/ Decide \/ \E o \in Op, t \in Tx : SendRaw(o, t) \/ Send(o, t)
    BY <1>1, <1>2, <2>1, SendsTake, ShuttingTakes
  <2>2. CASE SocketDrains \/ InlineEnds \/ RemoteClose \/ WriteDirect \/ FlushWrite
    <3>1. Calmly \/ ConnectionEnds(group)
      BY <1>1, <2>2, CalmConnection, CalmWrites DEF RemoteClose
    <3>2. group \in Seq(Group)
      BY <1>1 DEF MainOK
    <3> QED BY <1>1, <1>2, <3>1, <3>2, ShuttingCalm, ShuttingEnds
  <2>3. CASE NotificationCompletes \/ NotificationEnds \/ \E o \in Op : Begin(o) \/ End(o)
    BY <1>1, <1>2, <2>3, CalmCallbacks, ShuttingCalm
  <2>4. CASE Connect \/ Disconnect
    BY <1>1, <1>2, <2>4, ShuttingConnect, ShuttingDisconnect
  <2>5. CASE FlushPop \/ FlushReturns \/ FlushFinishes \/ FlushGoesOn
    BY <1>1, <1>2, <2>5, ShuttingFlush
  <2>6. CASE PublishRecord \/ PublicationCompletes
    BY <1>1, <1>2, <2>6, ShuttingRecords
  <2> QED BY <1>3, <2>1, <2>2, <2>3, <2>4, <2>5, <2>6 DEF Next, Working
<1>4. CASE UNCHANGED vars
  <2>1. UNCHANGED <<conn, op, tx, group, queue, flush>>
    BY <1>4 DEF vars
  <2> QED BY <1>1, <1>2, <2>1, StillCalm, ShuttingCalm
<1> QED BY <1>3, <1>4

LEMMA ShuttingInit == Init => Shutting
<1> SUFFICES ASSUME Init PROVE Shutting
  OBVIOUS
<1>1. conn.phase = "connected" /\ conn.sock = "open" /\ conn.epoch = 1 /\ Len(group) = 0
  BY DEF Init
<1>2. \A n \in 1..0 : FALSE
  OBVIOUS
<1>3. conn.epoch <= MaxEpoch
  BY <1>1, OutboundAssumption
<1> QED BY <1>1, <1>2, <1>3 DEF Shutting, ClosesAfterFlush

(* The last group of the queue carries the disconnect, nothing is staged   *)
(* after it, and every group is finished when the socket is told to close: *)
(* as long as no record of a group that carried the disconnect of an ended *)
(* connection is left when the world is connected again.                   *)
THEOREM ClosesUnlessLate == Spec /\ []~LateRecord => []ClosesAfterFlush
<1>1. Init => Shutting
  BY ShuttingInit
<1>2. IInv /\ Kept /\ Deferring /\ Recorded /\ Shutting /\ ~LateRecord /\ [Next]_vars => Shutting'
  BY ShuttingStep
<1>3. Shutting => ClosesAfterFlush
  BY DEF Shutting
<1> QED BY <1>1, <1>2, <1>3, DeferringAlways, PTL DEF Spec

\* There is none without packet debugging, nor on the first connection.
LEMMA NeverLate ==
  ASSUME PacketDebug => MaxEpoch = 1, MainOK, Shutting, Recorded
  PROVE  ~LateRecord
<1> SUFFICES ASSUME LateRecord PROVE FALSE
  OBVIOUS
<1>1. PICK g \in 1..Len(group) : group[g].closes /\ Outstanding(g) /\ conn.phase = "connected"
  BY DEF LateRecord
<1>2. PacketDebug
  <2>1. ASSUME ~PacketDebug PROVE FALSE
    <3>1. records = <<>> /\ publishing = None
      BY <2>1 DEF Recorded
    <3>2. Len(records) = 0
      BY <3>1
    <3> QED BY <1>1, <3>1, <3>2 DEF Outstanding
  <2> QED BY <2>1
<1>3. conn.epoch \in Nat
  BY GroupTypes
<1>4. conn.epoch = 1
  BY <1>1, <1>2, <1>3 DEF Shutting
<1> QED BY <1>1, <1>4 DEF Shutting, ClosingGroup

(* So it holds without packet debugging, for any callbacks, sends and      *)
(* connections, and with it for the first connection.                      *)
THEOREM CloseWaitsForAll ==
  ASSUME PacketDebug => MaxEpoch = 1
  PROVE  Spec => []ClosesAfterFlush
<1>1. Init => Shutting
  BY ShuttingInit
<1>2. IInv /\ Kept /\ Deferring /\ Recorded /\ Shutting /\ [Next]_vars => Shutting'
  <2>1. IInv => MainOK
    BY TypeParts DEF IInv
  <2> QED BY <2>1, NeverLate, ShuttingStep
<1>3. Shutting => ClosesAfterFlush
  BY DEF Shutting
<1> QED BY <1>1, <1>2, <1>3, DeferringAlways, PTL DEF Spec

=============================================================================
