--------------------------- MODULE RawIngressProofs ---------------------------
(***************************************************************************)
(* Proofs about RawIngress, for any number of payloads, connections,        *)
(* playbacks, mutations and nested frames, whether or not scripts that      *)
(* simulate belong to a connection.                                         *)
(***************************************************************************)
EXTENDS RawIngress, FiniteSetTheorems, TLAPS

PlaybackTable == [Playbacks -> PlaybackRecords]

\* The frames that execute the operation, and those of completed ones.
ExecutesIn(s)  == {i \in DOMAIN s : s[i].kind \in {"process", "parse"}}
CompletedIn(s) == {i \in DOMAIN s : s[i].kind = "completed"}

\* Only the processed operation executes, in one frame, and it has a
\* continuation only when it does not.
Threaded == /\ \A i, j \in ExecutesIn(stack) : i = j
            /\ ExecutesIn(stack) # {} => executing
            /\ executing => active # NoOperation
            /\ resolved \subseteq continuations
            /\ \A o \in continuations : o = active /\ ~executing

\* Operations are numbered when they are queued.
Numbered == /\ active <= arrived
            /\ \A o \in pending : o <= arrived

Drained == pending # {} /\ active = NoOperation =>
             drainQueued \/ draining \/ CompletedIn(stack) # {}

IInv == TypeOK /\ Threaded /\ Numbered /\ Drained
        /\ NoStalePending /\ EndedConnectionIsLeft

-----------------------------------------------------------------------------
(* What the operators of the model are built from returns. *)

LEMMA FrameTypes ==
  ASSUME NEW p \in Holders
  PROVE  /\ Frame("drain", NoOperation, p) \in Frames
         /\ Frame("completed", NoOperation, p) \in Frames
         /\ p \in Playbacks => Frame("apply", NoOperation, p) \in Frames
         /\ \A o \in Operations : /\ Frame("process", o, p) \in Frames
                                 /\ Frame("parse", o, p) \in Frames
BY DEF Frame, Frames

LEMMA PopFacts ==
  ASSUME TypeOK, stack # <<>>
  PROVE  /\ Pop \in Seq(Frames) /\ Top \in Frames
         /\ Len(stack) \in Nat \ {0} /\ DOMAIN stack = 1..Len(stack)
         /\ DOMAIN Pop = 1..(Len(stack) - 1)
         /\ \A i \in DOMAIN Pop : i \in DOMAIN stack /\ Pop[i] = stack[i]
         /\ \A i \in DOMAIN stack : i # Len(stack) => i \in DOMAIN Pop
BY DEF TypeOK, Pop, Top

LEMMA AppendFacts ==
  ASSUME NEW s \in Seq(Frames), NEW f \in Frames
  PROVE  /\ Append(s, f) \in Seq(Frames)
         /\ Len(s) \in Nat /\ DOMAIN s = 1..Len(s)
         /\ DOMAIN Append(s, f) = DOMAIN s \cup {Len(s) + 1}
         /\ \A i \in DOMAIN s : Append(s, f)[i] = s[i]
         /\ Append(s, f)[Len(s) + 1] = f
OBVIOUS

LEMMA HolderTypes ==
  ASSUME TypeOK
  PROVE  ActivePlayback \in Holders /\ Retainable \in Holders
<1>1. \A f \in Frames : f.playback \in Holders
  BY DEF Frames, Holders
<1>2. stack # <<>> => Top.playback \in Holders
  BY <1>1, PopFacts
<1> QED BY <1>2 DEF ActivePlayback, Retainable, Holders

LEMMA EditTypes ==
  ASSUME NEW pbs \in PlaybackTable, NEW p \in Playbacks
  PROVE  /\ Retained(pbs, p) \in PlaybackTable
         /\ Released(pbs, p) \in PlaybackTable
         /\ Applying(pbs, p) \in PlaybackTable
         /\ [pbs EXCEPT ![p].applying = FALSE] \in PlaybackTable
         /\ [pbs EXCEPT ![p].applying = FALSE, ![p].status = "completed"] \in PlaybackTable
         /\ pbs[p].left > 0 => [pbs EXCEPT ![p].left = @ - 1] \in PlaybackTable
<1>1. pbs[p] \in PlaybackRecords
  BY DEF PlaybackTable
<1>2. pbs[p].retained \in Nat /\ pbs[p].left \in 0..MaxMutations /\ MaxMutations \in Nat
  BY <1>1, IngressAssumption DEF PlaybackRecords
<1>3. \A r \in PlaybackRecords :
        /\ \A n \in Nat : [r EXCEPT !.retained = n] \in PlaybackRecords
        /\ \A b \in BOOLEAN : [r EXCEPT !.applying = b] \in PlaybackRecords
        /\ [r EXCEPT !.applying = FALSE, !.status = "completed"] \in PlaybackRecords
        /\ \A n \in 0..MaxMutations : [r EXCEPT !.left = n] \in PlaybackRecords
  BY DEF PlaybackRecords
<1>4. \A r \in PlaybackRecords : [pbs EXCEPT ![p] = r] \in PlaybackTable
  BY DEF PlaybackTable
<1>5. Retained(pbs, p) = [pbs EXCEPT ![p] = [pbs[p] EXCEPT !.retained = pbs[p].retained + 1]]
  BY DEF Retained
<1>6. Released(pbs, p) = [pbs EXCEPT ![p] = [pbs[p] EXCEPT !.retained =
                            IF pbs[p].retained > 0 THEN pbs[p].retained - 1 ELSE 0]]
  BY DEF Released
<1>7. Applying(pbs, p) = [pbs EXCEPT ![p] = [pbs[p] EXCEPT !.applying = TRUE]]
  BY DEF Applying
<1>8. [pbs EXCEPT ![p].left = @ - 1]
        = [pbs EXCEPT ![p] = [pbs[p] EXCEPT !.left = pbs[p].left - 1]]
  OBVIOUS
<1>9. [pbs EXCEPT ![p].applying = FALSE, ![p].status = "completed"]
        = [pbs EXCEPT ![p] = [pbs[p] EXCEPT !.applying = FALSE, !.status = "completed"]]
  BY <1>1 DEF PlaybackTable
<1>10. [pbs EXCEPT ![p].applying = FALSE]
        = [pbs EXCEPT ![p] = [pbs[p] EXCEPT !.applying = FALSE]]
  OBVIOUS
<1>r. Retained(pbs, p) \in PlaybackTable
  <2>1. pbs[p].retained + 1 \in Nat
    BY <1>2
  <2>2. [pbs[p] EXCEPT !.retained = pbs[p].retained + 1] \in PlaybackRecords
    BY <1>1, <1>3, <2>1
  <2> QED BY <1>4, <1>5, <2>2
<1>s. Released(pbs, p) \in PlaybackTable
  <2> DEFINE n == IF pbs[p].retained > 0 THEN pbs[p].retained - 1 ELSE 0
  <2>1. n \in Nat
    BY <1>2
  <2> HIDE DEF n
  <2>2. [pbs[p] EXCEPT !.retained = n] \in PlaybackRecords
    BY <1>1, <1>3, <2>1
  <2> QED BY <1>4, <1>6, <2>2 DEF n
<1>t. ASSUME pbs[p].left > 0
      PROVE  [pbs EXCEPT ![p].left = @ - 1] \in PlaybackTable
  <2>1. pbs[p].left - 1 \in 0..MaxMutations
    BY <1>2, <1>t
  <2>2. [pbs[p] EXCEPT !.left = pbs[p].left - 1] \in PlaybackRecords
    BY <1>1, <1>3, <2>1
  <2> QED BY <1>4, <1>8, <2>2
<1> QED BY <1>1, <1>3, <1>4, <1>7, <1>9, <1>10, <1>r, <1>s, <1>t

LEMMA RetainType ==
  ASSUME NEW pbs \in PlaybackTable, NEW p
  PROVE  Retain(pbs, p) \in PlaybackTable
BY EditTypes DEF Retain

LEMMA BegunType ==
  ASSUME TypeOK, NEW p \in Playbacks, NEW s \in States, NEW n \in 1..MaxMutations
  PROVE  Begun(p, s, n) \in PlaybackTable
<1>1. [status |-> "live", state |-> s, parent |-> Retainable,
       retained |-> 0, left |-> n, applying |-> ~Cancelled(s)] \in PlaybackRecords
  BY HolderTypes, IngressAssumption DEF PlaybackRecords
<1>2. Retain(playback, Retainable) \in PlaybackTable
  BY RetainType DEF TypeOK, PlaybackTable
<1> QED BY <1>1, <1>2 DEF Begun, PlaybackTable

LEMMA CancelType ==
  ASSUME NEW pbs \in PlaybackTable, NEW ps
  PROVE  Cancel(pbs, ps) \in PlaybackTable
<1> DEFINE doomed == {q \in WithParents(ps \cap Playbacks) : pbs[q].status = "live"}
           Fate(q) == IF q \in doomed THEN [pbs[q] EXCEPT !.status = "cancelled", !.left = 0]
                                      ELSE pbs[q]
<1>1. \A q \in Playbacks : pbs[q] \in PlaybackRecords
  BY DEF PlaybackTable
<1>2. \A q \in Playbacks : [pbs[q] EXCEPT !.status = "cancelled", !.left = 0] \in PlaybackRecords
  <2>1. 0 \in 0..MaxMutations
    BY IngressAssumption
  <2>2. \A r \in PlaybackRecords :
          [r EXCEPT !.status = "cancelled", !.left = 0] \in PlaybackRecords
    BY <2>1 DEF PlaybackRecords
  <2> QED BY <1>1, <2>2
<1>3. \A q \in Playbacks : Fate(q) \in PlaybackRecords
  BY <1>1, <1>2
<1>4. Cancel(pbs, ps) = [q \in Playbacks |-> Fate(q)]
  BY DEF Cancel
<1> HIDE DEF Fate
<1> QED BY <1>3, <1>4 DEF PlaybackTable

LEMMA ReleaseFacts ==
  ASSUME NEW pbs \in PlaybackTable, NEW p \in Holders, NEW base, Release(pbs, p, base)
  PROVE  /\ playback' \in PlaybackTable
         /\ \/ stack' = base
            \/ p \in Playbacks /\ stack' = Append(base, Frame("apply", NoOperation, p))
<1>1. CASE p \notin Playbacks \/ (p \in Playbacks /\ pbs[p].status # "live")
  BY <1>1 DEF Release
<1>2. CASE p \in Playbacks /\ pbs[p].status = "live"
  <2>1. /\ Released(pbs, p) \in PlaybackTable
        /\ Applying(Released(pbs, p), p) \in PlaybackTable
        /\ Cancel(Released(pbs, p), {p}) \in PlaybackTable
    BY <1>2, EditTypes, CancelType
  <2> QED BY <1>2, <2>1 DEF Release
<1> QED BY <1>1, <1>2

LEMMA DrainFromFacts ==
  ASSUME TypeOK, NEW base, DrainFrom(base)
  PROVE  /\ draining' \in BOOLEAN
         /\ \/ stack' = base
            \/ stack' = Append(base, Frame("drain", NoOperation, ActivePlayback))
BY DEF DrainFrom, MayDrain, TypeOK

-----------------------------------------------------------------------------
(* Type correctness. *)

LEMMA WaiterTypes ==
  ASSUME TypeOK, NEW o
  PROVE  [waiter EXCEPT ![o] = NoPlayback] \in [Operations -> Holders]
BY DEF TypeOK, Holders

LEMMA CancelActiveTypes ==
  ASSUME TypeOK, NEW base \in Seq(Frames), NEW held,
         CancelActive(base, held), generation' \in Generations
  PROVE  TypeOK'
<1>1. playback' \in PlaybackTable /\ stack' \in Seq(Frames)
  BY CancelType DEF CancelActive, TypeOK, PlaybackTable
<1> QED BY <1>1, WaiterTypes DEF CancelActive, TypeOK, PlaybackTable

LEMMA EnqueueTypes ==
  ASSUME TypeOK, NEW source \in {"network", "simulation"}, NEW state \in States,
         NEW holder \in Holders, NEW pbs \in PlaybackTable,
         Enqueue(source, state, holder, pbs)
  PROVE  TypeOK'
<1>1. stack' \in Seq(Frames) /\ draining' \in BOOLEAN
  <2>1. ActivePlayback \in Holders
    BY HolderTypes
  <2>2. Frame("drain", NoOperation, ActivePlayback) \in Frames
    BY <2>1, FrameTypes
  <2> QED BY <2>2, DrainFromFacts, AppendFacts DEF Enqueue, TypeOK
<1>2. playback' \in PlaybackTable
  BY RetainType DEF Enqueue
<1>3. arrived + 1 \in Operations /\ arrived' \in 0..MaxOperations
  BY IngressAssumption DEF Enqueue, TypeOK, Operations
<1>4. payload' \in [Operations -> Payloads] /\ pending' \in SUBSET Operations
  BY <1>3 DEF Enqueue, TypeOK, Payloads
<1> QED BY <1>1, <1>2, <1>3, <1>4 DEF Enqueue, TypeOK, PlaybackTable, activeVars, resultVars

LEMMA InvalidateTypes ==
  ASSUME TypeOK, NEW pbs \in PlaybackTable, Invalidate(pbs)
  PROVE  TypeOK'
<1>1. playback' \in PlaybackTable
  BY CancelType DEF Invalidate
<1>2. generation' \in Generations
  BY IngressAssumption DEF Invalidate, TypeOK, Generations
<1>3. pending' \in SUBSET Operations
  BY DEF Invalidate, TypeOK, Survivors
<1>4. /\ active' \in {NoOperation} \cup Operations /\ cancelling' \in BOOLEAN
      /\ drainQueued' \in BOOLEAN
      /\ continuations' \in SUBSET Operations /\ resolved' \in SUBSET Operations
      /\ waiter' \in [Operations -> Holders]
  BY WaiterTypes DEF Invalidate, TypeOK
<1> QED BY <1>1, <1>2, <1>3, <1>4 DEF Invalidate, TypeOK, PlaybackTable

LEMMA InitTypes == Init => TypeOK
<1> SUFFICES ASSUME Init PROVE TypeOK
  OBVIOUS
<1>1. 1 \in Generations /\ 0 \in 0..MaxOperations /\ 0 \in 0..MaxMutations
  BY IngressAssumption DEF Generations
<1>2. payload \in [Operations -> Payloads]
  BY DEF Init, Payloads, States, Holders
<1>3. playback \in [Playbacks -> PlaybackRecords]
  BY <1>1 DEF Init, PlaybackRecords, States, Holders
<1>4. stack \in Seq(Frames) /\ waiter \in [Operations -> Holders] /\ parsed \in Seq(Operations)
  BY DEF Init, Holders
<1>5. draining = FALSE /\ drainQueued = FALSE /\ continuations = {} /\ resolved = {}
  BY DEF Init
<1>6. /\ generation \in Generations /\ arrived \in 0..MaxOperations /\ pending = {}
      /\ active = NoOperation /\ executing = FALSE /\ cancelling = FALSE
  BY <1>1 DEF Init
<1> QED BY <1>2, <1>3, <1>4, <1>5, <1>6 DEF TypeOK

\* Every action keeps the types.
LEMMA TypeStep == TypeOK /\ Threaded /\ [Next]_vars => TypeOK'
<1> SUFFICES ASSUME TypeOK, Threaded, [Next]_vars PROVE TypeOK'
  OBVIOUS
<1> USE DEF PlaybackTable
<1>g. generation \in Generations /\ generation \in States /\ NoState \in States
  BY DEF TypeOK, States
<1>h. ActivePlayback \in Holders /\ Retainable \in Holders /\ NoPlayback \in Holders
  BY HolderTypes DEF Holders
<1>p. stack # <<>> => Pop \in Seq(Frames) /\ Top \in Frames
  BY PopFacts
<1>f. /\ \A p \in Playbacks : Frame("apply", NoOperation, p) \in Frames
      /\ Frame("drain", NoOperation, ActivePlayback) \in Frames
      /\ Frame("drain", NoOperation, NoPlayback) \in Frames
      /\ Frame("completed", NoOperation, ActivePlayback) \in Frames
      /\ \A o \in Operations, p \in Holders :
           Frame("process", o, p) \in Frames /\ Frame("parse", o, p) \in Frames
  BY <1>h, FrameTypes DEF Holders
<1>m. ASSUME NEW p \in Playbacks, MayMutate(p)
      PROVE  OneLess(p) \in PlaybackTable
  BY <1>m, EditTypes DEF OneLess, MayMutate, TypeOK
<1>1. ASSUME NEW p \in Playbacks, StartPlayback(p) PROVE TypeOK'
  <2>1. playback' \in PlaybackTable
    <3>1. \A s \in States, n \in 1..MaxMutations : Begun(p, s, n) \in PlaybackTable
      BY <1>1, BegunType
    <3>2. {NoState, generation} \subseteq States /\ 1..(generation - 1) \subseteq States
      BY <1>g, IngressAssumption DEF States, Generations
    <3> QED BY <1>1, <3>1, <3>2, CancelType DEF StartPlayback
  <2>2. stack' \in Seq(Frames)
    BY <1>1, <1>f, AppendFacts DEF StartPlayback, TypeOK
  <2> QED BY <1>1, <2>1, <2>2 DEF StartPlayback, TypeOK, activeVars, resultVars
<1>2. ASSUME NEW p \in Playbacks, MutatePlain(p) PROVE TypeOK'
  BY <1>2, <1>m DEF MutatePlain, TypeOK, activeVars, resultVars
<1>3. CASE SegmentEnds
  <2> DEFINE p == Top.playback
  <2>1. Pop \in Seq(Frames) /\ p \in Playbacks
    BY <1>3, <1>p DEF SegmentEnds, TopIs, Frames
  <2>2. playback' \in PlaybackTable /\ stack' \in Seq(Frames)
    <3>1. playback[p].parent \in Holders
      BY <2>1 DEF TypeOK, PlaybackRecords
    <3>2. /\ [playback EXCEPT ![p].applying = FALSE] \in PlaybackTable
          /\ [playback EXCEPT ![p].applying = FALSE, ![p].status = "completed"]
               \in PlaybackTable
      BY <2>1, EditTypes DEF TypeOK
    <3>3. CASE playback[p].status = "live" /\ playback[p].retained = 0
      <4>1. Release([playback EXCEPT ![p].applying = FALSE, ![p].status = "completed"],
                    playback[p].parent, Pop)
        BY <1>3, <3>3 DEF SegmentEnds
      <4>2. playback' \in PlaybackTable
        BY <4>1, <3>1, <3>2, ReleaseFacts
      <4>3. \/ stack' = Pop
            \/ /\ playback[p].parent \in Playbacks
               /\ stack' = Append(Pop, Frame("apply", NoOperation, playback[p].parent))
        BY <4>1, <3>1, <3>2, ReleaseFacts
      <4> QED BY <4>2, <4>3, <2>1, <1>f, AppendFacts
    <3>4. CASE ~(playback[p].status = "live" /\ playback[p].retained = 0)
      BY <1>3, <3>2, <3>4, <2>1 DEF SegmentEnds
    <3> QED BY <3>3, <3>4
  <2> QED BY <1>3, <2>2 DEF SegmentEnds, TypeOK, activeVars, resultVars
<1>4. CASE Receive
  BY <1>4, <1>g, <1>h, EnqueueTypes DEF Receive, TypeOK
<1>5. CASE SimulateDirect
  BY <1>5, <1>g, <1>h, EnqueueTypes DEF SimulateDirect, TypeOK
<1>6. ASSUME NEW p \in Playbacks, MutateSimulate(p) PROVE TypeOK'
  <2>1. OneLess(p) \in PlaybackTable /\ p \in Holders
    BY <1>6, <1>m DEF MutateSimulate, Holders
  <2> QED BY <1>6, <2>1, <1>g, EnqueueTypes DEF MutateSimulate
<1>7. CASE Dequeue
  <2>1. PICK o \in pending : /\ active' = o /\ pending' = pending \ {o}
                             /\ stack' = Append(stack, Frame("process", o, ActivePlayback))
    BY <1>7 DEF Dequeue
  <2>2. o \in Operations
    BY DEF TypeOK
  <2>3. stack' \in Seq(Frames)
    BY <2>1, <2>2, <1>h, <1>f, AppendFacts DEF TypeOK
  <2> QED BY <1>7, <2>1, <2>2, <2>3 DEF Dequeue, TypeOK, resultVars
<1>8. CASE DrainEnds
  BY <1>8, <1>p DEF DrainEnds, TopIs, TypeOK, activeVars, resultVars
<1>9. CASE DrainEvent
  <2>1. <<Frame("drain", NoOperation, NoPlayback)>> \in Seq(Frames)
    BY <1>f
  <2>2. stack' \in Seq(Frames) /\ draining' \in BOOLEAN
    BY <1>9, <2>1 DEF DrainEvent, TypeOK
  <2> QED BY <1>9, <2>2 DEF DrainEvent, TypeOK, activeVars, resultVars
<1>s. ASSUME Suspend, stack # <<>>, active \in Operations PROVE TypeOK'
  <2>1. CASE cancelling
    BY <1>s, <2>1, <1>p, CancelActiveTypes DEF Suspend, TypeOK
  <2>2. CASE ~cancelling
    <3>1. playback' \in PlaybackTable
      BY <1>s, <2>2, RetainType DEF Suspend, TypeOK
    <3> QED BY <1>s, <2>2, <3>1, <1>h, <1>p DEF Suspend, Suspended, TypeOK
  <2> QED BY <2>1, <2>2
<1>a. TopIs("process") \/ TopIs("parse") => active \in Operations /\ stack # <<>>
  <2>1. TopIs("process") \/ TopIs("parse") => Len(stack) \in ExecutesIn(stack)
    BY PopFacts DEF TopIs, Top, ExecutesIn
  <2> QED BY <2>1 DEF Threaded, TypeOK, TopIs
<1>10. CASE AskPlugins
  BY <1>10, <1>a, <1>s DEF AskPlugins
<1>11. CASE AwaitCallback
  BY <1>11, <1>a, <1>s DEF AwaitCallback
<1>12. CASE BeginParsing
  <2>1. CASE cancelling
    BY <1>12, <2>1, <1>a, <1>p, CancelActiveTypes DEF BeginParsing, Unwind, TypeOK
  <2>2. CASE ~cancelling /\ Stale(active)
    BY <1>12, <2>2, <1>a, <1>p DEF BeginParsing, Unwind, TypeOK, resultVars
  <2>3. CASE ~cancelling /\ ~Stale(active)
    <3>1. stack' = Append(Pop, Frame("parse", active, ActivePlayback))
      BY <1>12, <2>3 DEF BeginParsing
    <3>2. Frame("parse", active, ActivePlayback) \in Frames
      BY <1>12, <1>a, <1>f, <1>h DEF BeginParsing
    <3>3. stack' \in Seq(Frames)
      BY <1>12, <3>1, <3>2, <1>a, <1>p, AppendFacts DEF BeginParsing
    <3> QED BY <1>12, <2>3, <3>3 DEF BeginParsing, TypeOK, activeVars, resultVars
  <2> QED BY <2>1, <2>2, <2>3
<1>13. CASE Parsed
  <2>1. Pop \in Seq(Frames) /\ active \in Operations
    BY <1>13, <1>a, <1>p DEF Parsed
  <2>2. CASE cancelling \/ Stale(active)
    BY <1>13, <2>2, <2>1, CancelActiveTypes DEF Parsed, TypeOK
  <2>3. CASE ~(cancelling \/ Stale(active))
    <3> DEFINE base == Append(Pop, Frame("completed", NoOperation, ActivePlayback))
               p == payload[active].playback
    <3>1. base \in Seq(Frames) /\ p \in Holders
      BY <2>1, <1>f, AppendFacts DEF TypeOK, Payloads
    <3>2. Release(playback, p, base)
      BY <1>13, <2>3 DEF Parsed
    <3> HIDE DEF base, p
    <3>3. playback \in PlaybackTable
      BY DEF TypeOK, PlaybackTable
    <3>4. playback' \in PlaybackTable /\ stack' \in Seq(Frames)
      <4>1. /\ playback' \in PlaybackTable
            /\ \/ stack' = base
               \/ p \in Playbacks /\ stack' = Append(base, Frame("apply", NoOperation, p))
        BY <3>1, <3>2, <3>3, ReleaseFacts
      <4> QED BY <3>1, <4>1, FrameTypes, AppendFacts
    <3>5. parsed' \in Seq(Operations)
      <4>1. parsed' = Append(parsed, active)
        BY <1>13, <2>3 DEF Parsed
      <4>2. parsed \in Seq(Operations)
        BY DEF TypeOK
      <4> QED BY <2>1, <4>1, <4>2
    <3>6. /\ active' = NoOperation /\ executing' = FALSE
          /\ UNCHANGED <<generation, arrived, payload, pending, cancelling, draining, drainQueued>>
          /\ UNCHANGED <<continuations, resolved, waiter>>
      BY <1>13, <2>3 DEF Parsed
    <3> QED BY <3>4, <3>5, <3>6 DEF TypeOK, PlaybackTable
  <2> QED BY <2>2, <2>3
<1>14. CASE CompletedDrains
  <2>1. stack' \in Seq(Frames) /\ draining' \in BOOLEAN
    BY <1>14, <1>p, <1>f, DrainFromFacts, AppendFacts DEF CompletedDrains, TopIs
  <2> QED BY <1>14, <2>1 DEF CompletedDrains, TypeOK, activeVars, resultVars
<1>15. ASSUME NEW o \in Operations, Resolve(o) PROVE TypeOK'
  BY <1>15 DEF Resolve, TypeOK, activeVars
<1>16. ASSUME NEW o \in Operations, Resume(o) PROVE TypeOK'
  <2>1. CASE Stale(o)
    BY <1>16, <2>1, CancelActiveTypes DEF Resume, TypeOK
  <2>2. CASE ~Stale(o)
    <3> DEFINE p == waiter[o]
               freed == Released(playback, p)
    <3>1. p \in Holders
      BY DEF TypeOK
    <3>2. WaiterLives(o) => /\ p \in Playbacks /\ freed \in PlaybackTable
                            /\ Applying(freed, p) \in PlaybackTable
                            /\ Cancel(freed, {p}) \in PlaybackTable
      BY EditTypes, CancelType DEF WaiterLives, TypeOK
    <3>3. \A h \in Holders : Append(stack, Frame("parse", o, h)) \in Seq(Frames)
      BY <1>f, AppendFacts DEF TypeOK
    <3>4. ASSUME WaiterLives(o)
          PROVE  Append(Append(stack, Frame("apply", NoOperation, p)), Frame("parse", o, p))
                   \in Seq(Frames)
      <4>1. Append(stack, Frame("apply", NoOperation, p)) \in Seq(Frames)
        BY <3>2, <3>4, <1>f, AppendFacts DEF TypeOK
      <4> QED BY <4>1, <3>1, <1>f, AppendFacts
    <3>5. playback' \in PlaybackTable /\ stack' \in Seq(Frames)
      <4> HIDE DEF freed
      <4>1. CASE ~WaiterLives(o)
        BY <1>16, <2>2, <4>1, <1>h, <3>3 DEF Resume, Reenter, TypeOK
      <4>2. CASE WaiterLives(o)
        BY <1>16, <2>2, <4>2, <3>1, <3>2, <3>3, <3>4 DEF Resume, Reenter, TypeOK, freed
      <4> QED BY <4>1, <4>2
    <3>6. active' = active /\ cancelling' = cancelling /\ drainQueued' = drainQueued
          /\ executing' \in BOOLEAN
      BY <1>16, <2>2 DEF Resume, Reenter, activeVars, TypeOK
    <3>7. waiter' \in [Operations -> Holders]
      BY <1>16, <2>2, WaiterTypes DEF Resume
    <3> QED BY <1>16, <2>2, <3>5, <3>6, <3>7 DEF Resume, TypeOK
  <2> QED BY <2>1, <2>2
<1>17. CASE Disconnect
  BY <1>17, InvalidateTypes DEF Disconnect, TypeOK
<1>18. ASSUME NEW p \in Playbacks, MutateDisconnect(p) PROVE TypeOK'
  BY <1>18, <1>m, InvalidateTypes DEF MutateDisconnect
<1>19. CASE UNCHANGED vars
  BY <1>19 DEF vars, activeVars, resultVars, TypeOK
<1> QED BY <1>1, <1>2, <1>3, <1>4, <1>5, <1>6, <1>7, <1>8, <1>9, <1>10, <1>11, <1>12,
           <1>13, <1>14, <1>15, <1>16, <1>17, <1>18, <1>19 DEF Next, Internal

-----------------------------------------------------------------------------
(* What a step does to the frames of the thread. *)

LEMMA AppendFrames ==
  ASSUME NEW s \in Seq(Frames), NEW f \in Frames
  PROVE  /\ f.kind \notin {"process", "parse"} => ExecutesIn(Append(s, f)) = ExecutesIn(s)
         /\ ExecutesIn(Append(s, f)) \subseteq ExecutesIn(s) \cup {Len(s) + 1}
         /\ CompletedIn(s) \subseteq CompletedIn(Append(s, f))
         /\ f.kind = "completed" => CompletedIn(Append(s, f)) # {}
BY AppendFacts DEF ExecutesIn, CompletedIn

LEMMA PopFrames ==
  ASSUME TypeOK, stack # <<>>
  PROVE  /\ ExecutesIn(Pop) = ExecutesIn(stack) \ {Len(stack)}
         /\ CompletedIn(Pop) = CompletedIn(stack) \ {Len(stack)}
         /\ Len(stack) \in ExecutesIn(stack) <=> Top.kind \in {"process", "parse"}
         /\ Len(stack) \in CompletedIn(stack) <=> Top.kind = "completed"
BY PopFacts DEF ExecutesIn, CompletedIn, Top

\* The operation's frame is the only one that executes it.
LEMMA ExecutingFrame ==
  ASSUME TypeOK, Threaded, TopIs("process") \/ TopIs("parse")
  PROVE  /\ stack # <<>> /\ executing /\ active \in Operations
         /\ Pop \in Seq(Frames) /\ ExecutesIn(Pop) = {} /\ continuations = {}
         /\ CompletedIn(Pop) = CompletedIn(stack)
<1>1. stack # <<>> /\ Len(stack) \in ExecutesIn(stack) /\ Top.kind # "completed"
  BY PopFrames DEF TopIs
<1>2. executing /\ active \in Operations /\ continuations = {}
  BY <1>1 DEF Threaded, TypeOK
<1>3. ExecutesIn(Pop) = {} /\ CompletedIn(Pop) = CompletedIn(stack)
  BY <1>1, PopFrames DEF Threaded
<1> QED BY <1>1, <1>2, <1>3, PopFacts

\* The four parts of the invariant that are not types.
Kept == Threaded /\ Numbered /\ NoStalePending /\ EndedConnectionIsLeft

LEMMA QuietKeeps ==
  ASSUME IInv, UNCHANGED <<generation, arrived, payload, pending, activeVars>>,
         continuations' = continuations, resolved' \subseteq continuations',
         ExecutesIn(stack') = ExecutesIn(stack)
  PROVE  Kept'
<1>1. Threaded'
  BY DEF IInv, Threaded, activeVars
<1>2. Numbered'
  BY DEF IInv, Numbered, activeVars
<1>3. \A o : Stale(o)' <=> Stale(o)
  BY DEF Stale, Cancelled
<1>4. NoStalePending' /\ EndedConnectionIsLeft'
  BY <1>3 DEF IInv, NoStalePending, EndedConnectionIsLeft, activeVars, Stale, Cancelled
<1> QED BY <1>1, <1>2, <1>4 DEF Kept

LEMMA CancelActiveKeeps ==
  ASSUME IInv, NEW base \in Seq(Frames), NEW held, ExecutesIn(base) = {},
         CancelActive(base, held), generation' = generation
  PROVE  Kept' /\ Drained'
<1>1. active' = NoOperation /\ executing' = FALSE /\ cancelling' = FALSE /\ drainQueued'
      /\ stack' = base /\ pending' = pending /\ arrived' = arrived /\ payload' = payload
      /\ continuations' = continuations \ {active} /\ resolved' = resolved \ {active}
  BY DEF CancelActive
<1>2. Threaded'
  BY <1>1 DEF IInv, Threaded
<1>3. Numbered'
  BY <1>1, IngressAssumption DEF IInv, Numbered, TypeOK, NoOperation
<1>4. NoStalePending' /\ EndedConnectionIsLeft'
  BY <1>1 DEF IInv, NoStalePending, EndedConnectionIsLeft, Stale, Cancelled
<1> QED BY <1>1, <1>2, <1>3, <1>4 DEF Kept, Drained

LEMMA DrainFromKeeps ==
  ASSUME TypeOK, NEW base \in Seq(Frames), DrainFrom(base), drainQueued' = drainQueued
  PROVE  /\ ExecutesIn(stack') = ExecutesIn(base)
         /\ draining' \/ drainQueued' \/ active # NoOperation
<1>1. Frame("drain", NoOperation, ActivePlayback) \in Frames
      /\ Frame("drain", NoOperation, ActivePlayback).kind = "drain"
  BY HolderTypes, FrameTypes DEF Frame
<1>2. ExecutesIn(stack') = ExecutesIn(base)
  BY <1>1, DrainFromFacts, AppendFrames
<1> QED BY <1>2 DEF DrainFrom, MayDrain, TypeOK

LEMMA EnqueueKeeps ==
  ASSUME IInv, NEW source \in {"network", "simulation"},
         NEW state \in {NoState, generation}, NEW holder, NEW pbs,
         Enqueue(source, state, holder, pbs)
  PROVE  Kept' /\ Drained'
<1>1. /\ ExecutesIn(stack') = ExecutesIn(stack)
      /\ draining' \/ drainQueued' \/ active # NoOperation
  BY DrainFromKeeps DEF Enqueue, IInv, TypeOK
<1>2. Drained'
  BY <1>1 DEF Enqueue, Drained, activeVars
<1>3. Threaded'
  BY <1>1 DEF Enqueue, IInv, Threaded, activeVars, resultVars
<1>4. arrived \in Nat /\ pending \subseteq Nat /\ active \in Nat /\ MaxOperations \in Nat
  BY IngressAssumption DEF IInv, TypeOK, Operations, NoOperation
<1>5. Numbered'
  BY <1>4 DEF Enqueue, IInv, Numbered, activeVars
<1>6. arrived + 1 \in Operations
  BY <1>4 DEF Enqueue, Operations
<1>7. /\ payload'[arrived + 1].state = state
      /\ \A o \in Operations : o # arrived + 1 => payload'[o] = payload[o]
  BY <1>6 DEF Enqueue, IInv, TypeOK
<1>8. NoStalePending'
  BY <1>4, <1>6, <1>7 DEF Enqueue, IInv, TypeOK, NoStalePending, Stale, Cancelled
<1>9. active # NoOperation => active \in Operations /\ active # arrived + 1
  BY <1>4 DEF IInv, TypeOK, Numbered
<1>10. EndedConnectionIsLeft'
  BY <1>7, <1>9 DEF Enqueue, IInv, EndedConnectionIsLeft, Stale, Cancelled, activeVars
<1> QED BY <1>2, <1>3, <1>5, <1>8, <1>10 DEF Kept

LEMMA InvalidateKeeps ==
  ASSUME IInv, NEW pbs, Invalidate(pbs)
  PROVE  Kept' /\ Drained'
<1> DEFINE ends == active # NoOperation /\ payload[active].state # NoState
           now  == ends /\ ~executing
<1>1. /\ generation' = generation + 1 /\ pending' = Survivors(generation + 1)
      /\ active' = (IF now THEN NoOperation ELSE active)
      /\ cancelling' = (IF now THEN FALSE ELSE (cancelling \/ ends))
      /\ drainQueued' = (drainQueued \/ now)
      /\ continuations' = (IF now THEN continuations \ {active} ELSE continuations)
      /\ resolved' = (IF now THEN resolved \ {active} ELSE resolved)
      /\ UNCHANGED <<arrived, payload, executing, draining, stack>>
  BY DEF Invalidate
<1>2. Threaded'
  BY <1>1 DEF IInv, Threaded
<1>3. arrived \in Nat
  BY DEF IInv, TypeOK
<1>4. Numbered'
  BY <1>1, <1>3 DEF IInv, Numbered, Survivors, NoOperation
<1>5. NoStalePending'
  BY <1>1 DEF NoStalePending, Survivors, Stale, Cancelled
<1>6. ASSUME active' # NoOperation, cancelling' \/ Stale(active)'
      PROVE  executing' /\ cancelling'
  <2>1. ~now /\ active' = active /\ executing' = executing /\ active # NoOperation
    BY <1>1, <1>6
  <2>2. CASE ends
    <3>1. executing
      BY <2>1, <2>2
    <3>2. cancelling' = (cancelling \/ ends)
      BY <1>1, <2>1
    <3> HIDE DEF ends
    <3>3. cancelling'
      BY <3>2, <2>2, Zenon
    <3> QED BY <3>1, <3>3, <2>1
  <2>3. CASE ~ends
    <3>1. payload'[active'].state = NoState
      BY <1>1, <2>1, <2>3
    <3>2. ~Stale(active)' /\ cancelling' = cancelling
      BY <1>1, <2>1, <2>3, <3>1 DEF Stale, Cancelled, IInv, TypeOK
    <3> QED BY <1>6, <3>2, <2>1 DEF IInv, EndedConnectionIsLeft
  <2> QED BY <2>2, <2>3
<1>7. EndedConnectionIsLeft'
  BY <1>6 DEF EndedConnectionIsLeft
<1>8. Drained'
  BY <1>1 DEF IInv, Drained, Survivors
<1> QED BY <1>2, <1>4, <1>5, <1>7, <1>8 DEF Kept

\* Suspension: the frame returns with a continuation, or cancels both.
LEMMA SuspendKeeps ==
  ASSUME IInv, TopIs("process") \/ TopIs("parse"), Suspend
  PROVE  Kept' /\ Drained'
<1>1. /\ executing /\ active \in Operations /\ Pop \in Seq(Frames)
      /\ ExecutesIn(Pop) = {} /\ continuations = {}
  BY ExecutingFrame DEF IInv
<1>2. CASE cancelling
  BY <1>1, <1>2, CancelActiveKeeps DEF Suspend
<1>3. CASE ~cancelling
  <2>1. /\ continuations' = {active} /\ resolved' = resolved /\ executing' = FALSE
        /\ stack' = Pop
        /\ UNCHANGED <<generation, arrived, payload, pending, active, cancelling>>
    BY <1>1, <1>3 DEF Suspend, Suspended
  <2>2. ~Stale(active)
    BY <1>1, <1>3 DEF IInv, EndedConnectionIsLeft, Operations, NoOperation
  <2>3. Threaded'
    BY <1>1, <2>1 DEF IInv, Threaded
  <2>4. Numbered' /\ NoStalePending'
    BY <2>1 DEF IInv, Numbered, NoStalePending, Stale, Cancelled
  <2>5. EndedConnectionIsLeft'
    BY <1>3, <2>1, <2>2 DEF EndedConnectionIsLeft, Stale, Cancelled
  <2>6. Drained'
    BY <1>1, <2>1 DEF Drained, Operations, NoOperation
  <2> QED BY <2>3, <2>4, <2>5, <2>6 DEF Kept
<1> QED BY <1>2, <1>3

\* The lane's resumption: a continuation is there only while nothing executes.
LEMMA ResumeKeeps ==
  ASSUME IInv, NEW o \in Operations, Resume(o)
  PROVE  Kept' /\ Drained'
<1>1. o \in resolved /\ o \in continuations /\ o = active /\ ~executing
  BY DEF Resume, IInv, Threaded
<1>2. ExecutesIn(stack) = {} /\ stack \in Seq(Frames) /\ active # NoOperation
  BY <1>1 DEF IInv, Threaded, TypeOK, Operations, NoOperation
<1>3. CASE Stale(o)
  BY <1>2, <1>3, CancelActiveKeeps DEF Resume
<1>4. CASE ~Stale(o)
  <2>1. /\ continuations' = continuations \ {o} /\ resolved' = resolved \ {o}
        /\ UNCHANGED <<generation, arrived, payload, pending, draining>>
        /\ UNCHANGED <<active, cancelling, drainQueued>>
    BY <1>4 DEF Resume, Reenter, activeVars
  <2>2. ~cancelling /\ continuations' = {} /\ resolved' = {}
    BY <1>1, <1>2, <2>1 DEF IInv, EndedConnectionIsLeft, Threaded
  <2>3. /\ \A i, j \in ExecutesIn(stack') : i = j
        /\ ExecutesIn(stack') # {} => executing'
    <3> DEFINE p == waiter[o]
               base == Append(stack, Frame("apply", NoOperation, p))
    <3>1. \A h \in Holders : Frame("parse", o, h) \in Frames
      BY FrameTypes
    <3>2. \A s \in Seq(Frames), h \in Holders :
            ExecutesIn(s) = {} => ExecutesIn(Append(s, Frame("parse", o, h))) \subseteq {Len(s) + 1}
      BY <3>1, AppendFrames
    <3>3. ActivePlayback \in Holders /\ p \in Holders
      BY HolderTypes DEF IInv, TypeOK
    <3>4. CASE executing' = executing /\ stack' = stack
      BY <1>1, <1>2, <3>4
    <3>5. CASE Reenter(o, stack, ActivePlayback) \/ Reenter(o, stack, p)
      <4>1. PICK h \in Holders : stack' = Append(stack, Frame("parse", o, h))
        BY <3>3, <3>5 DEF Reenter
      <4>2. executing' = TRUE
        BY <3>5 DEF Reenter
      <4>3. ExecutesIn(stack') \subseteq {Len(stack) + 1}
        BY <1>2, <3>2, <4>1
      <4> QED BY <4>2, <4>3
    <3>6. CASE Reenter(o, base, p) /\ WaiterLives(o)
      <4>1. /\ Frame("apply", NoOperation, p) \in Frames
            /\ Frame("apply", NoOperation, p).kind = "apply"
        BY <3>3, <3>6, FrameTypes DEF WaiterLives, Frame
      <4>2. base \in Seq(Frames) /\ ExecutesIn(base) = {}
        BY <1>2, <4>1, AppendFacts, AppendFrames
      <4> HIDE DEF base
      <4> QED BY <3>2, <3>3, <3>6, <4>2 DEF Reenter
    <3>7. \/ executing' = executing /\ stack' = stack
          \/ Reenter(o, stack, ActivePlayback) \/ Reenter(o, stack, p)
          \/ Reenter(o, base, p) /\ WaiterLives(o)
      BY <1>4 DEF Resume, activeVars
    <3> QED BY <3>4, <3>5, <3>6, <3>7
  <2>4. Threaded'
    BY <1>2, <2>1, <2>2, <2>3 DEF Threaded
  <2>5. Numbered' /\ NoStalePending'
    BY <2>1 DEF IInv, Numbered, NoStalePending, Stale, Cancelled
  <2>6. EndedConnectionIsLeft'
    BY <1>1, <1>4, <2>1, <2>2 DEF EndedConnectionIsLeft, Stale, Cancelled
  <2>7. Drained'
    BY <1>2, <2>1 DEF Drained
  <2> QED BY <2>4, <2>5, <2>6, <2>7 DEF Kept
<1> QED BY <1>3, <1>4

\* Completion: the operation is left, and its frame still drains.
LEMMA ParsedKeeps ==
  ASSUME IInv, Parsed
  PROVE  Kept' /\ Drained'
<1>1. /\ Pop \in Seq(Frames) /\ ExecutesIn(Pop) = {} /\ active \in Operations
      /\ continuations = {}
  BY ExecutingFrame DEF IInv, Parsed
<1>2. CASE cancelling \/ Stale(active)
  BY <1>1, <1>2, CancelActiveKeeps DEF Parsed
<1>3. CASE ~(cancelling \/ Stale(active))
  <2> DEFINE base == Append(Pop, Frame("completed", NoOperation, ActivePlayback))
             p == payload[active].playback
  <2>1. /\ active' = NoOperation /\ executing' = FALSE /\ Release(playback, p, base)
        /\ UNCHANGED <<generation, arrived, payload, pending, cancelling>>
        /\ UNCHANGED <<continuations, resolved>>
    BY <1>3 DEF Parsed, resultVars
  <2>2. p \in Holders
    BY <1>1 DEF IInv, TypeOK, Payloads
  <2>3. base \in Seq(Frames) /\ ExecutesIn(base) = {} /\ CompletedIn(base) # {}
    <3>1. /\ Frame("completed", NoOperation, ActivePlayback) \in Frames
          /\ Frame("completed", NoOperation, ActivePlayback).kind = "completed"
      BY HolderTypes, FrameTypes DEF Frame, IInv
    <3> QED BY <1>1, <3>1, AppendFacts, AppendFrames
  <2> HIDE DEF base, p
  <2>4. ExecutesIn(stack') = {} /\ CompletedIn(stack') # {}
    <3>1. playback \in PlaybackTable
      BY DEF IInv, TypeOK, PlaybackTable
    <3>2. CASE stack' = base
      BY <2>3, <3>2
    <3>3. CASE p \in Playbacks /\ stack' = Append(base, Frame("apply", NoOperation, p))
      <4>1. /\ Frame("apply", NoOperation, p) \in Frames
            /\ Frame("apply", NoOperation, p).kind = "apply"
        BY <2>2, <3>3, FrameTypes DEF Frame
      <4> QED BY <2>3, <3>3, <4>1, AppendFrames
    <3> QED BY <2>1, <2>2, <3>1, <3>2, <3>3, ReleaseFacts
  <2>5. Threaded'
    BY <1>1, <2>1, <2>4 DEF IInv, Threaded
  <2>6. Numbered'
    BY <2>1 DEF IInv, Numbered, TypeOK, NoOperation
  <2>7. NoStalePending' /\ EndedConnectionIsLeft'
    BY <2>1 DEF IInv, NoStalePending, EndedConnectionIsLeft, Stale, Cancelled
  <2> QED BY <2>4, <2>5, <2>6, <2>7 DEF Kept, Drained
<1> QED BY <1>2, <1>3

LEMMA DequeueKeeps ==
  ASSUME IInv, Dequeue
  PROVE  Kept' /\ Drained'
<1>1. PICK o \in pending : /\ active' = o /\ pending' = pending \ {o}
                           /\ stack' = Append(stack, Frame("process", o, ActivePlayback))
  BY DEF Dequeue
<1>2. /\ active = NoOperation /\ executing' = TRUE /\ cancelling' = FALSE
      /\ UNCHANGED <<generation, arrived, payload, draining, drainQueued>>
      /\ UNCHANGED <<continuations, resolved>>
  BY DEF Dequeue, resultVars
<1>3. o \in Operations /\ o # NoOperation /\ ~Stale(o) /\ o <= arrived
  BY <1>1 DEF IInv, TypeOK, NoStalePending, Numbered, Operations, NoOperation
<1>4. ~executing /\ ExecutesIn(stack) = {} /\ continuations = {}
  BY <1>2 DEF IInv, TypeOK, Threaded, Operations, NoOperation
<1>5. ExecutesIn(stack') \subseteq {Len(stack) + 1}
  <2>1. Frame("process", o, ActivePlayback) \in Frames
    BY <1>3, HolderTypes, FrameTypes DEF IInv
  <2> QED BY <1>1, <1>4, <2>1, AppendFrames DEF IInv, TypeOK
<1>6. Threaded'
  BY <1>1, <1>2, <1>3, <1>4, <1>5 DEF IInv, Threaded
<1>7. Numbered' /\ NoStalePending'
  BY <1>1, <1>2, <1>3 DEF IInv, Numbered, NoStalePending, Stale, Cancelled
<1>8. EndedConnectionIsLeft' /\ Drained'
  BY <1>1, <1>2, <1>3 DEF EndedConnectionIsLeft, Drained, Stale, Cancelled
<1> QED BY <1>6, <1>7, <1>8 DEF Kept

LEMMA BeginParsingKeeps ==
  ASSUME IInv, BeginParsing
  PROVE  Kept' /\ Drained'
<1>1. /\ Pop \in Seq(Frames) /\ ExecutesIn(Pop) = {} /\ active \in Operations
      /\ continuations = {} /\ executing /\ active # NoOperation
  BY ExecutingFrame DEF IInv, BeginParsing, Operations, NoOperation
<1>2. CASE cancelling
  BY <1>1, <1>2, CancelActiveKeeps DEF BeginParsing, Unwind
<1>3. CASE ~cancelling
  <2>1. ~Stale(active)
    BY <1>1, <1>3 DEF IInv, EndedConnectionIsLeft
  <2>2. /\ stack' = Append(Pop, Frame("parse", active, ActivePlayback))
        /\ UNCHANGED <<generation, arrived, payload, pending, active, executing, cancelling>>
        /\ UNCHANGED <<continuations, resolved>>
    BY <1>3, <2>1 DEF BeginParsing, activeVars, resultVars
  <2>3. Frame("parse", active, ActivePlayback) \in Frames
    BY <1>1, HolderTypes, FrameTypes DEF IInv
  <2>4. ExecutesIn(stack') \subseteq {Len(Pop) + 1}
    BY <1>1, <2>2, <2>3, AppendFrames
  <2>5. Threaded'
    BY <1>1, <2>2, <2>4 DEF IInv, Threaded
  <2>6. Numbered' /\ NoStalePending'
    BY <2>2 DEF IInv, Numbered, NoStalePending, Stale, Cancelled
  <2>7. EndedConnectionIsLeft' /\ Drained'
    BY <1>1, <1>3, <2>1, <2>2 DEF EndedConnectionIsLeft, Drained, Stale, Cancelled
  <2> QED BY <2>5, <2>6, <2>7 DEF Kept
<1> QED BY <1>2, <1>3

\* A segment of a playback ends: frames of playbacks come and go.
LEMMA SegmentEndsKeeps ==
  ASSUME IInv, SegmentEnds
  PROVE  Kept' /\ Drained'
<1> DEFINE p == Top.playback
           done == [playback EXCEPT ![p].applying = FALSE, ![p].status = "completed"]
<1>1. /\ stack # <<>> /\ Top.kind = "apply" /\ Top \in Frames /\ Pop \in Seq(Frames)
      /\ p \in Playbacks
  BY PopFacts DEF SegmentEnds, TopIs, IInv, Frames
<1>2. ExecutesIn(Pop) = ExecutesIn(stack) /\ CompletedIn(Pop) = CompletedIn(stack)
  BY <1>1, PopFrames DEF IInv
<1>3. ExecutesIn(stack') = ExecutesIn(Pop) /\ CompletedIn(Pop) \subseteq CompletedIn(stack')
  <2>1. CASE stack' = Pop
    BY <2>1
  <2>2. CASE Release(done, playback[p].parent, Pop)
    <3>1. done \in PlaybackTable /\ playback[p].parent \in Holders
      BY <1>1, EditTypes DEF IInv, TypeOK, PlaybackTable, PlaybackRecords
    <3> HIDE DEF done
    <3>2. \/ stack' = Pop
          \/ /\ playback[p].parent \in Playbacks
             /\ stack' = Append(Pop, Frame("apply", NoOperation, playback[p].parent))
      BY <2>2, <3>1, ReleaseFacts
    <3>3. playback[p].parent \in Playbacks =>
            /\ Frame("apply", NoOperation, playback[p].parent) \in Frames
            /\ Frame("apply", NoOperation, playback[p].parent).kind = "apply"
      BY <3>1, FrameTypes DEF Frame
    <3> QED BY <1>1, <3>2, <3>3, AppendFrames
  <2> QED BY <2>1, <2>2 DEF SegmentEnds
<1>4. UNCHANGED <<generation, arrived, payload, pending, activeVars, draining, drainQueued,
                  resultVars>>
  BY DEF SegmentEnds
<1>5. Kept'
  BY <1>2, <1>3, <1>4, QuietKeeps DEF IInv, Threaded, resultVars
<1>6. Drained'
  BY <1>2, <1>3, <1>4 DEF IInv, Drained, activeVars
<1> QED BY <1>5, <1>6

-----------------------------------------------------------------------------
(* The invariant. *)

LEMMA InitIInv == Init => IInv
<1> SUFFICES ASSUME Init PROVE IInv
  OBVIOUS
<1>1. ExecutesIn(stack) = {}
  BY DEF Init, ExecutesIn
<1> QED BY <1>1, InitTypes DEF Init, IInv, Threaded, Numbered, Drained, NoStalePending,
           EndedConnectionIsLeft, NoOperation

LEMMA IInvStep == IInv /\ [Next]_vars => IInv'
<1> SUFFICES ASSUME IInv, [Next]_vars PROVE IInv'
  OBVIOUS
<1>t. TypeOK'
  BY TypeStep DEF IInv
<1> SUFFICES Kept' /\ Drained'
  BY <1>t DEF IInv, Kept
<1>q. ASSUME UNCHANGED <<generation, arrived, payload, pending, activeVars>>,
             continuations' = continuations, resolved' = resolved,
             ExecutesIn(stack') = ExecutesIn(stack)
      PROVE  Kept'
  BY <1>q, QuietKeeps DEF IInv, Threaded
<1>1. ASSUME NEW p \in Playbacks, StartPlayback(p) PROVE Kept' /\ Drained'
  <2>1. /\ Frame("apply", NoOperation, p) \in Frames
        /\ Frame("apply", NoOperation, p).kind = "apply"
    BY FrameTypes DEF Frame, Holders
  <2>2. /\ ExecutesIn(stack') = ExecutesIn(stack)
        /\ CompletedIn(stack) \subseteq CompletedIn(stack')
    <3>1. CASE stack' = Append(stack, Frame("apply", NoOperation, p))
      BY <2>1, <3>1, AppendFrames DEF IInv, TypeOK
    <3>2. CASE stack' = stack
      BY <3>2
    <3> QED BY <1>1, <3>1, <3>2 DEF StartPlayback
  <2>3. Drained'
    BY <1>1, <2>2 DEF StartPlayback, IInv, Drained, activeVars
  <2> QED BY <1>1, <1>q, <2>2, <2>3 DEF StartPlayback, resultVars
<1>2. ASSUME NEW p \in Playbacks, MutatePlain(p) PROVE Kept' /\ Drained'
  <2>1. Drained'
    BY <1>2 DEF MutatePlain, IInv, Drained, activeVars
  <2> QED BY <1>2, <1>q, <2>1 DEF MutatePlain, resultVars
<1>3. CASE SegmentEnds
  BY <1>3, SegmentEndsKeeps
<1>4. CASE Receive \/ SimulateDirect
  BY <1>4, EnqueueKeeps DEF Receive, SimulateDirect
<1>5. ASSUME NEW p \in Playbacks, MutateSimulate(p) PROVE Kept' /\ Drained'
  BY <1>5, EnqueueKeeps DEF MutateSimulate
<1>6. CASE Dequeue
  BY <1>6, DequeueKeeps
<1>7. CASE DrainEnds
  <2>1. ExecutesIn(stack') = ExecutesIn(stack)
    BY <1>7, PopFrames DEF DrainEnds, TopIs, IInv
  <2>2. Drained'
    BY <1>7 DEF DrainEnds, Drained, activeVars
  <2> QED BY <1>7, <1>q, <2>1, <2>2 DEF DrainEnds, resultVars
<1>8. CASE DrainEvent
  <2>1. ExecutesIn(stack') = ExecutesIn(stack)
    <3>1. Frame("drain", NoOperation, NoPlayback).kind = "drain"
      BY DEF Frame
    <3> QED BY <1>8, <3>1 DEF DrainEvent, ExecutesIn
  <2>2. Drained'
    BY <1>8 DEF DrainEvent, Drained, activeVars
  <2> QED BY <1>8, <1>q, <2>1, <2>2 DEF DrainEvent, resultVars
<1>9. CASE AskPlugins \/ AwaitCallback
  BY <1>9, SuspendKeeps DEF AskPlugins, AwaitCallback
<1>10. CASE BeginParsing
  BY <1>10, BeginParsingKeeps
<1>11. CASE Parsed
  BY <1>11, ParsedKeeps
<1>12. CASE CompletedDrains
  <2>1. stack # <<>> /\ Pop \in Seq(Frames) /\ ExecutesIn(Pop) = ExecutesIn(stack)
    BY <1>12, PopFacts, PopFrames DEF CompletedDrains, TopIs, IInv
  <2>2. /\ ExecutesIn(stack') = ExecutesIn(stack)
        /\ draining' \/ drainQueued' \/ active # NoOperation
    BY <1>12, <2>1, DrainFromKeeps DEF CompletedDrains, IInv
  <2>3. Drained'
    BY <1>12, <2>2 DEF CompletedDrains, Drained, activeVars
  <2> QED BY <1>12, <1>q, <2>2, <2>3 DEF CompletedDrains, resultVars
<1>13. ASSUME NEW o \in Operations, Resolve(o) PROVE Kept' /\ Drained'
  <2>1. resolved' \subseteq continuations'
    BY <1>13 DEF Resolve, IInv, Threaded
  <2>2. Drained'
    BY <1>13 DEF Resolve, IInv, Drained, activeVars
  <2> QED BY <1>13, <2>1, <2>2, QuietKeeps DEF Resolve
<1>14. ASSUME NEW o \in Operations, Resume(o) PROVE Kept' /\ Drained'
  BY <1>14, ResumeKeeps
<1>15. CASE Disconnect
  BY <1>15, InvalidateKeeps DEF Disconnect
<1>16. ASSUME NEW p \in Playbacks, MutateDisconnect(p) PROVE Kept' /\ Drained'
  BY <1>16, InvalidateKeeps DEF MutateDisconnect
<1>17. CASE UNCHANGED vars
  <2>1. Drained'
    BY <1>17 DEF vars, activeVars, IInv, Drained
  <2> QED BY <1>17, <1>q, <2>1 DEF vars, resultVars
<1> QED
  BY <1>1, <1>2, <1>3, <1>4, <1>5, <1>6, <1>7, <1>8, <1>9, <1>10, <1>11, <1>12, <1>13,
     <1>14, <1>15, <1>16, <1>17 DEF Next, Internal

\* The invariant holds in every reachable state: the thread executes the processed
\* operation in one frame at most (beginRawIngressExecution), and what waits has a
\* drain to come.
THEOREM IngressInvariant == Spec => []IInv
<1>1. Init => IInv
  BY InitIInv
<1>2. IInv /\ [Next]_vars => IInv'
  BY IInvStep
<1> QED BY <1>1, <1>2, PTL DEF Spec

\* Every variable of the raw ingress keeps its type.
THEOREM TypeCorrect == Spec => []TypeOK
<1>1. IInv => TypeOK
  BY DEF IInv
<1> QED BY <1>1, IngressInvariant, PTL

\* Queued input is never stranded: while no operation is processed, a posted event,
\* a running drain or a completion will take it (drainPendingRawIngressPayloads).
THEOREM QueueIsDrained == Spec => []QueueHasDrainer
<1>1. IInv => QueueHasDrainer
  BY DEF IInv, Drained, QueueHasDrainer, CompletedIn
<1> QED BY <1>1, IngressInvariant, PTL

\* After a disconnect no suspended operation of the old connection stays in the way
\* (cancelStaleConnectionRawIngressOperations).
THEOREM EndedConnectionsLeave == Spec => []EndedConnectionIsLeft
<1>1. IInv => EndedConnectionIsLeft
  BY DEF IInv
<1> QED BY <1>1, IngressInvariant, PTL

\* No byte of an ended connection is queued for the parser of the next one
\* (cancelStaleConnectionRawIngressOperations).
THEOREM NoStaleInput == Spec => []NoStalePending
<1>1. IInv => NoStalePending
  BY DEF IInv
<1> QED BY <1>1, IngressInvariant, PTL

-----------------------------------------------------------------------------
(* What a playback is held by: the payloads it simulated, the continuations  *)
(* that resume through it, and the playbacks nested in it.                   *)

Inputs(p) == {o \in pending \cup ({active} \ {NoOperation}) : payload[o].playback = p}
Waits(p)  == {o \in continuations : waiter[o] = p}
Nested(p) == {q \in Playbacks : playback[q].parent = p /\ playback[q].status = "live"}

\* A playback that has not begun holds nothing back.
Fresh == \A p \in Playbacks : playback[p].status = "new" =>
           Inputs(p) = {} /\ Waits(p) = {} /\ Nested(p) = {}

Held == RetainsMatch /\ Fresh

\* Playbacks are cancelled only together with those that wait for them.
Settles == \A q \in Playbacks :
  /\ playback'[q].parent = playback[q].parent
  /\ \/ playback'[q].status = playback[q].status
     \/ /\ playback[q].status = "live" /\ playback'[q].status = "cancelled"
        /\ \A p \in Playbacks : playback[q].parent = p => playback'[p].status # "live"

LEMMA HolderSets ==
  ASSUME TypeOK, NEW p \in Playbacks
  PROVE  /\ IsFiniteSet(Inputs(p)) /\ IsFiniteSet(Waits(p)) /\ IsFiniteSet(Nested(p))
         /\ Cardinality(Inputs(p)) \in Nat /\ Cardinality(Waits(p)) \in Nat
         /\ Cardinality(Nested(p)) \in Nat
         /\ HeldBy(p) = Cardinality(Inputs(p)) + Cardinality(Waits(p)) + Cardinality(Nested(p))
<1>1. IsFiniteSet(Operations)
  BY IngressAssumption, FS_Interval DEF Operations
<1>2. /\ Inputs(p) \in SUBSET Operations /\ Waits(p) \in SUBSET Operations
      /\ Nested(p) \in SUBSET Playbacks
  BY DEF TypeOK, Inputs, Waits, Nested, NoOperation
<1>3. IsFiniteSet(Inputs(p)) /\ IsFiniteSet(Waits(p)) /\ IsFiniteSet(Nested(p))
  BY <1>1, <1>2, FS_Subset, IngressAssumption
<1> QED BY <1>3, FS_CardinalityType DEF HeldBy, Inputs, Waits, Nested

LEMMA SettledNested ==
  ASSUME Settles, NEW p \in Playbacks
  PROVE  /\ playback'[p].status = "live" => playback[p].status = "live" /\ Nested(p)' = Nested(p)
         /\ playback'[p].status = "new" => playback[p].status = "new" /\ Nested(p)' \subseteq Nested(p)
BY DEF Settles, Nested

LEMMA HeldSame ==
  ASSUME TypeOK, TypeOK', Held, Settles,
         \A p \in Playbacks : playback'[p].status = "live" =>
           /\ playback'[p].retained = playback[p].retained
           /\ Inputs(p)' = Inputs(p) /\ Waits(p)' = Waits(p),
         \A p \in Playbacks : playback'[p].status = "new" =>
           Inputs(p)' \subseteq Inputs(p) /\ Waits(p)' \subseteq Waits(p)
  PROVE  Held'
<1>1. ASSUME NEW p \in Playbacks, playback'[p].status = "live"
      PROVE  playback'[p].retained = HeldBy(p)'
  <2>1. playback[p].status = "live" /\ Nested(p)' = Nested(p)
    BY <1>1, SettledNested
  <2>2. HeldBy(p) = Cardinality(Inputs(p)) + Cardinality(Waits(p)) + Cardinality(Nested(p))
    BY HolderSets
  <2>3. HeldBy(p)' = Cardinality(Inputs(p)') + Cardinality(Waits(p)') + Cardinality(Nested(p)')
    BY DEF HeldBy, Inputs, Waits, Nested
  <2>4. playback[p].retained = HeldBy(p)
    BY <2>1 DEF Held, RetainsMatch
  <2> QED BY <1>1, <2>1, <2>2, <2>3, <2>4
<1>2. Fresh'
  BY SettledNested DEF Held, Fresh
<1> QED BY <1>1, <1>2 DEF Held, RetainsMatch

\* One more holds h: an input or a continuation.
LEMMA HeldAdds ==
  ASSUME TypeOK, TypeOK', Held, Settles, NEW h \in Holders, NEW x,
         h \in Playbacks => playback[h].status = "live",
         \A p \in Playbacks : playback'[p].status = "live" =>
           playback'[p].retained = playback[p].retained + (IF p = h THEN 1 ELSE 0),
         \/ \A p \in Playbacks : /\ x \notin Inputs(p) /\ Waits(p)' = Waits(p)
                                 /\ Inputs(p)' = Inputs(p) \cup (IF p = h THEN {x} ELSE {})
         \/ \A p \in Playbacks : /\ x \notin Waits(p) /\ Inputs(p)' = Inputs(p)
                                 /\ Waits(p)' = Waits(p) \cup (IF p = h THEN {x} ELSE {})
  PROVE  Held'
<1>1. ASSUME NEW p \in Playbacks, playback'[p].status = "live"
      PROVE  playback'[p].retained = HeldBy(p)'
  <2>1. playback[p].status = "live" /\ Nested(p)' = Nested(p)
    BY <1>1, SettledNested
  <2>2. HeldBy(p)' = Cardinality(Inputs(p)') + Cardinality(Waits(p)') + Cardinality(Nested(p)')
    BY DEF HeldBy, Inputs, Waits, Nested
  <2>3. playback[p].retained = HeldBy(p)
    BY <2>1 DEF Held, RetainsMatch
  <2>4. /\ x \notin Inputs(p) => Cardinality(Inputs(p) \cup {x}) = Cardinality(Inputs(p)) + 1
        /\ x \notin Waits(p) => Cardinality(Waits(p) \cup {x}) = Cardinality(Waits(p)) + 1
    BY HolderSets, FS_AddElement
  <2>n. /\ Cardinality(Inputs(p)) \in Nat /\ Cardinality(Waits(p)) \in Nat
        /\ Cardinality(Nested(p)) \in Nat
        /\ HeldBy(p) = Cardinality(Inputs(p)) + Cardinality(Waits(p)) + Cardinality(Nested(p))
    BY HolderSets
  <2>5. CASE p = h
    <3>1. \/ /\ x \notin Inputs(p) /\ Waits(p)' = Waits(p) /\ Inputs(p)' = Inputs(p) \cup {x}
          \/ /\ x \notin Waits(p) /\ Inputs(p)' = Inputs(p) /\ Waits(p)' = Waits(p) \cup {x}
      BY <2>5
    <3>2. CASE Waits(p)' = Waits(p) /\ Cardinality(Inputs(p)') = Cardinality(Inputs(p)) + 1
      BY <1>1, <2>1, <2>2, <2>3, <2>5, <2>n, <3>2
    <3>3. CASE Inputs(p)' = Inputs(p) /\ Cardinality(Waits(p)') = Cardinality(Waits(p)) + 1
      BY <1>1, <2>1, <2>2, <2>3, <2>5, <2>n, <3>3
    <3> QED BY <2>4, <3>1, <3>2, <3>3
  <2>6. CASE p # h
    <3>1. Inputs(p)' = Inputs(p) /\ Waits(p)' = Waits(p)
      BY <2>6
    <3>2. HeldBy(p)' = HeldBy(p) /\ HeldBy(p) \in Nat
      BY <2>1, <2>2, <3>1, HolderSets
    <3> QED BY <1>1, <2>3, <2>6, <3>2
  <2> QED BY <2>5, <2>6
<1>2. ASSUME NEW p \in Playbacks, playback'[p].status = "new"
      PROVE  Inputs(p)' = {} /\ Waits(p)' = {} /\ Nested(p)' = {}
  <2>1. playback[p].status = "new" /\ Nested(p)' \subseteq Nested(p)
    BY <1>2, SettledNested
  <2>2. Inputs(p)' = Inputs(p) /\ Waits(p)' = Waits(p)
    BY <2>1
  <2> QED BY <2>1, <2>2 DEF Held, Fresh
<1> QED BY <1>1, <1>2 DEF Held, RetainsMatch, Fresh

\* One of those that held h is gone, an input or a continuation.
LEMMA HeldDrops ==
  ASSUME TypeOK, TypeOK', Held, Settles, NEW h \in Holders, NEW x,
         \A p \in Playbacks : playback'[p].status = "live" =>
           playback'[p].retained = IF p = h THEN IF playback[p].retained > 0
                                                 THEN playback[p].retained - 1 ELSE 0
                                            ELSE playback[p].retained,
         \/ \A p \in Playbacks : /\ p = h => x \in Inputs(p)
                                 /\ Waits(p)' = Waits(p)
                                 /\ Inputs(p)' = Inputs(p) \ (IF p = h THEN {x} ELSE {})
         \/ \A p \in Playbacks : /\ p = h => x \in Waits(p)
                                 /\ Inputs(p)' = Inputs(p)
                                 /\ Waits(p)' = Waits(p) \ (IF p = h THEN {x} ELSE {})
  PROVE  Held'
<1>1. ASSUME NEW p \in Playbacks, playback'[p].status = "live"
      PROVE  playback'[p].retained = HeldBy(p)'
  <2>1. playback[p].status = "live" /\ Nested(p)' = Nested(p)
    BY <1>1, SettledNested
  <2>2. HeldBy(p)' = Cardinality(Inputs(p)') + Cardinality(Waits(p)') + Cardinality(Nested(p)')
    BY DEF HeldBy, Inputs, Waits, Nested
  <2>3. playback[p].retained = HeldBy(p)
    BY <2>1 DEF Held, RetainsMatch
  <2>4. CASE p = h
    <3>1. /\ x \in Inputs(p) => Cardinality(Inputs(p) \ {x}) = Cardinality(Inputs(p)) - 1
          /\ x \in Waits(p) => Cardinality(Waits(p) \ {x}) = Cardinality(Waits(p)) - 1
      BY HolderSets, FS_RemoveElement
    <3>2. /\ x \in Inputs(p) => Cardinality(Inputs(p)) > 0
          /\ x \in Waits(p) => Cardinality(Waits(p)) > 0
      BY HolderSets, FS_EmptySet
    <3>3. \/ /\ x \in Inputs(p) /\ Waits(p)' = Waits(p) /\ Inputs(p)' = Inputs(p) \ {x}
          \/ /\ x \in Waits(p) /\ Inputs(p)' = Inputs(p) /\ Waits(p)' = Waits(p) \ {x}
      BY <2>4
    <3>n. /\ Cardinality(Inputs(p)) \in Nat /\ Cardinality(Waits(p)) \in Nat
          /\ Cardinality(Nested(p)) \in Nat
          /\ HeldBy(p) = Cardinality(Inputs(p)) + Cardinality(Waits(p)) + Cardinality(Nested(p))
      BY HolderSets
    <3>4. HeldBy(p) \in Nat /\ HeldBy(p) > 0 /\ HeldBy(p)' = HeldBy(p) - 1
      <4>1. CASE /\ Waits(p)' = Waits(p) /\ Cardinality(Inputs(p)) > 0
                 /\ Cardinality(Inputs(p)') = Cardinality(Inputs(p)) - 1
        BY <2>1, <2>2, <3>n, <4>1
      <4>2. CASE /\ Inputs(p)' = Inputs(p) /\ Cardinality(Waits(p)) > 0
                 /\ Cardinality(Waits(p)') = Cardinality(Waits(p)) - 1
        BY <2>1, <2>2, <3>n, <4>2
      <4> QED BY <3>1, <3>2, <3>3, <4>1, <4>2
    <3> QED BY <1>1, <2>3, <2>4, <3>4
  <2>5. CASE p # h
    <3>1. Inputs(p)' = Inputs(p) /\ Waits(p)' = Waits(p)
      BY <2>5
    <3>2. HeldBy(p)' = HeldBy(p) /\ HeldBy(p) \in Nat
      BY <2>1, <2>2, <3>1, HolderSets
    <3> QED BY <1>1, <2>3, <2>5, <3>2
  <2> QED BY <2>4, <2>5
<1>2. ASSUME NEW p \in Playbacks, playback'[p].status = "new"
      PROVE  Inputs(p)' = {} /\ Waits(p)' = {} /\ Nested(p)' = {}
  <2>1. playback[p].status = "new" /\ Nested(p)' \subseteq Nested(p)
    BY <1>2, SettledNested
  <2>2. Inputs(p)' \subseteq Inputs(p) /\ Waits(p)' \subseteq Waits(p)
    BY <2>1
  <2> QED BY <2>1, <2>2 DEF Held, Fresh
<1> QED BY <1>1, <1>2 DEF Held, RetainsMatch, Fresh

-----------------------------------------------------------------------------
(* What the edits of the playbacks do to the fields the counts rest on. *)

\* Status and parent are those of playback.
Alike(pbs) == \A q \in Playbacks : /\ pbs[q].status = playback[q].status
                                   /\ pbs[q].parent = playback[q].parent

LEMMA RecordEdits ==
  ASSUME NEW r \in PlaybackRecords, NEW n
  PROVE  /\ [r EXCEPT !.retained = n].status = r.status
         /\ [r EXCEPT !.retained = n].parent = r.parent
         /\ [r EXCEPT !.retained = n].retained = n
         /\ [r EXCEPT !.applying = n].status = r.status
         /\ [r EXCEPT !.applying = n].parent = r.parent
         /\ [r EXCEPT !.applying = n].retained = r.retained
         /\ [r EXCEPT !.left = n].status = r.status
         /\ [r EXCEPT !.left = n].parent = r.parent
         /\ [r EXCEPT !.left = n].retained = r.retained
         /\ [r EXCEPT !.applying = n, !.status = "completed"].status = "completed"
         /\ [r EXCEPT !.applying = n, !.status = "completed"].parent = r.parent
         /\ [r EXCEPT !.applying = n, !.status = "completed"].retained = r.retained
         /\ [r EXCEPT !.status = "cancelled", !.left = n].status = "cancelled"
         /\ [r EXCEPT !.status = "cancelled", !.left = n].parent = r.parent
         /\ [r EXCEPT !.status = "cancelled", !.left = n].retained = r.retained
BY DEF PlaybackRecords

LEMMA EditFields ==
  ASSUME NEW pbs \in PlaybackTable, NEW p \in Playbacks, NEW q \in Playbacks
  PROVE  /\ Retained(pbs, p)[q].status = pbs[q].status
         /\ Retained(pbs, p)[q].parent = pbs[q].parent
         /\ Retained(pbs, p)[q].retained = pbs[q].retained + (IF q = p THEN 1 ELSE 0)
         /\ Released(pbs, p)[q].status = pbs[q].status
         /\ Released(pbs, p)[q].parent = pbs[q].parent
         /\ Released(pbs, p)[q].retained =
              IF q = p THEN IF pbs[q].retained > 0 THEN pbs[q].retained - 1 ELSE 0
                       ELSE pbs[q].retained
         /\ Applying(pbs, p)[q].status = pbs[q].status
         /\ Applying(pbs, p)[q].parent = pbs[q].parent
         /\ Applying(pbs, p)[q].retained = pbs[q].retained
         /\ [pbs EXCEPT ![p].left = @ - 1][q].status = pbs[q].status
         /\ [pbs EXCEPT ![p].left = @ - 1][q].parent = pbs[q].parent
         /\ [pbs EXCEPT ![p].left = @ - 1][q].retained = pbs[q].retained
         /\ [pbs EXCEPT ![p].applying = FALSE][q].status = pbs[q].status
         /\ [pbs EXCEPT ![p].applying = FALSE][q].parent = pbs[q].parent
         /\ [pbs EXCEPT ![p].applying = FALSE][q].retained = pbs[q].retained
<1>1. pbs[p] \in PlaybackRecords /\ pbs[q] \in PlaybackRecords /\ pbs[q].retained \in Nat
  BY DEF PlaybackTable, PlaybackRecords
<1>2. \A r : [pbs EXCEPT ![p] = r][q] = IF q = p THEN r ELSE pbs[q]
  BY DEF PlaybackTable
<1>3. Retained(pbs, p) = [pbs EXCEPT ![p] = [pbs[p] EXCEPT !.retained = pbs[p].retained + 1]]
  BY DEF Retained
<1>4. Released(pbs, p) = [pbs EXCEPT ![p] = [pbs[p] EXCEPT !.retained =
                            IF pbs[p].retained > 0 THEN pbs[p].retained - 1 ELSE 0]]
  BY DEF Released
<1>5. Applying(pbs, p) = [pbs EXCEPT ![p] = [pbs[p] EXCEPT !.applying = TRUE]]
  BY DEF Applying
<1>6. [pbs EXCEPT ![p].left = @ - 1]
        = [pbs EXCEPT ![p] = [pbs[p] EXCEPT !.left = pbs[p].left - 1]]
  OBVIOUS
<1>7. [pbs EXCEPT ![p].applying = FALSE]
        = [pbs EXCEPT ![p] = [pbs[p] EXCEPT !.applying = FALSE]]
  OBVIOUS
<1>8. CASE q = p
  BY <1>1, <1>2, <1>3, <1>4, <1>5, <1>6, <1>7, <1>8, RecordEdits
<1>9. CASE q # p
  BY <1>1, <1>2, <1>3, <1>4, <1>5, <1>6, <1>7, <1>9
<1> QED BY <1>8, <1>9

LEMMA CancelFate ==
  ASSUME TypeOK, NEW pbs \in PlaybackTable, NEW ps, NEW q \in Playbacks
  PROVE  /\ Cancel(pbs, ps)[q].parent = pbs[q].parent
         /\ Cancel(pbs, ps)[q].retained = pbs[q].retained
         /\ q \in ps => Cancel(pbs, ps)[q].status # "live"
         /\ \/ Cancel(pbs, ps)[q].status = pbs[q].status
            \/ /\ pbs[q].status = "live" /\ Cancel(pbs, ps)[q].status = "cancelled"
               /\ \A p \in Playbacks : playback[q].parent = p => Cancel(pbs, ps)[p].status # "live"
<1> DEFINE up == WithParents(ps \cap Playbacks)
           closed(qs) == \A r \in qs : playback[r].parent \in qs \cup {NoPlayback}
           Fate(r) == IF r \in up /\ pbs[r].status = "live"
                      THEN [pbs[r] EXCEPT !.status = "cancelled", !.left = 0] ELSE pbs[r]
<1>1. \A r \in Playbacks : Cancel(pbs, ps)[r] = Fate(r)
  BY DEF Cancel
<1>2. \A r \in Playbacks : pbs[r] \in PlaybackRecords /\ playback[r].parent \in Holders
  BY DEF PlaybackTable, TypeOK, PlaybackRecords
<1>3. \A r \in Playbacks :
        /\ r \in up /\ pbs[r].status = "live" =>
             /\ Fate(r).status = "cancelled" /\ Fate(r).parent = pbs[r].parent
             /\ Fate(r).retained = pbs[r].retained
        /\ ~(r \in up /\ pbs[r].status = "live") => Fate(r) = pbs[r]
  BY <1>2, RecordEdits
<1>4. /\ up \subseteq Playbacks /\ ps \cap Playbacks \subseteq up
      /\ \A r \in Playbacks : r \in up <=>
           \A qs \in SUBSET Playbacks : ps \cap Playbacks \subseteq qs /\ closed(qs) => r \in qs
  BY DEF WithParents
<1>5. ASSUME NEW p \in Playbacks, q \in up, playback[q].parent = p
      PROVE  p \in up
  <2>1. ASSUME NEW qs \in SUBSET Playbacks, ps \cap Playbacks \subseteq qs, closed(qs)
        PROVE  p \in qs
    <3>1. q \in qs
      BY <1>4, <1>5, <2>1
    <3>2. p # NoPlayback
      BY IngressAssumption
    <3> QED BY <1>5, <2>1, <3>1, <3>2
  <2> HIDE DEF up, closed
  <2> QED BY <1>4, <2>1
<1> HIDE DEF Fate, up
<1>6. \A r \in Playbacks : r \in up => Fate(r).status # "live"
  BY <1>3
<1> QED BY <1>1, <1>3, <1>4, <1>5, <1>6

LEMMA CancelEffect ==
  ASSUME TypeOK, NEW pbs \in PlaybackTable, NEW ps, NEW q \in Playbacks,
         \A p \in Playbacks : pbs[p].parent = playback[p].parent
  PROVE  /\ Cancel(pbs, ps)[q].parent = pbs[q].parent
         /\ Cancel(pbs, ps)[q].retained = pbs[q].retained
         /\ q \in ps => Cancel(pbs, ps)[q].status # "live"
         /\ \/ Cancel(pbs, ps)[q].status = pbs[q].status
            \/ /\ pbs[q].status = "live" /\ Cancel(pbs, ps)[q].status = "cancelled"
               /\ \A p \in Playbacks : pbs[q].parent = p => Cancel(pbs, ps)[p].status # "live"
<1>1. pbs[q].parent = playback[q].parent
  OBVIOUS
<1> QED BY <1>1, CancelFate

\* What is cancelled lets go of what it held.
LEMMA HeldCancels ==
  ASSUME TypeOK, TypeOK', Held, NEW pbs \in PlaybackTable, Alike(pbs), NEW ps,
         \A p \in Playbacks : pbs[p].retained = playback[p].retained,
         playback' = Cancel(pbs, ps),
         \A p \in Playbacks \ ps : Inputs(p)' = Inputs(p) /\ Waits(p)' = Waits(p),
         \A p \in Playbacks : Inputs(p)' \subseteq Inputs(p) /\ Waits(p)' \subseteq Waits(p)
  PROVE  Held'
<1>1. \A q \in Playbacks : /\ pbs[q].status = playback[q].status
                           /\ pbs[q].parent = playback[q].parent
  BY DEF Alike
<1>2. \A q \in Playbacks :
        /\ playback'[q].parent = playback[q].parent
        /\ playback'[q].retained = playback[q].retained
        /\ q \in ps => playback'[q].status # "live"
        /\ \/ playback'[q].status = playback[q].status
           \/ /\ playback[q].status = "live" /\ playback'[q].status = "cancelled"
              /\ \A p \in Playbacks : playback[q].parent = p => playback'[p].status # "live"
  BY <1>1, CancelEffect
<1>3. Settles
  BY <1>2 DEF Settles
<1> QED BY <1>2, <1>3, HeldSame

LEMMA CancelActiveHeld ==
  ASSUME TypeOK, TypeOK', Held, Threaded, NEW base, NEW held, CancelActive(base, held)
  PROVE  Held'
<1> DEFINE ps == held \cup {payload[active].playback}
                      \cup {waiter[o] : o \in continuations \cap {active}}
<1>1. /\ active' = NoOperation /\ continuations' = continuations \ {active}
      /\ waiter' = [waiter EXCEPT ![active] = NoPlayback]
      /\ playback' = Cancel(playback, ps)
      /\ UNCHANGED <<payload, pending>>
  BY DEF CancelActive
<1>2. \A p \in Playbacks : Inputs(p)' \subseteq Inputs(p) /\ Waits(p)' \subseteq Waits(p)
  BY <1>1 DEF Inputs, Waits
<1>3. \A p \in Playbacks \ ps : Inputs(p)' = Inputs(p) /\ Waits(p)' = Waits(p)
  BY <1>1 DEF Inputs, Waits
<1>4. playback \in PlaybackTable /\ Alike(playback)
  BY DEF TypeOK, PlaybackTable, Alike
<1> HIDE DEF ps
<1> QED BY <1>1, <1>2, <1>3, <1>4, HeldCancels

LEMMA InvalidateHeld ==
  ASSUME TypeOK, TypeOK', Held, Threaded, NEW pbs \in PlaybackTable, Alike(pbs),
         \A p \in Playbacks : pbs[p].retained = playback[p].retained, Invalidate(pbs)
  PROVE  Held'
<1> DEFINE ends == active # NoOperation /\ payload[active].state # NoState
           now  == ends /\ ~executing
           held == IF now THEN {payload[active].playback}
                                 \cup {waiter[o] : o \in continuations \cap {active}}
                          ELSE {}
           ps   == held \cup Dropped(generation + 1)
<1>1. /\ pending' = Survivors(generation + 1)
      /\ active' = (IF now THEN NoOperation ELSE active)
      /\ continuations' = (IF now THEN continuations \ {active} ELSE continuations)
      /\ waiter' = (IF now THEN [waiter EXCEPT ![active] = NoPlayback] ELSE waiter)
      /\ playback' = Cancel(pbs, ps)
      /\ UNCHANGED payload
  BY DEF Invalidate
<1>2. Survivors(generation + 1) \subseteq pending
  BY DEF Survivors
<1>3. \A o \in pending \ Survivors(generation + 1) : payload[o].playback \in ps
  BY DEF Dropped
<1>4. /\ now => /\ payload[active].playback \in ps
                /\ \A o \in continuations \cap {active} : waiter[o] \in ps
  OBVIOUS
<1> HIDE DEF ps, now
<1>5. \A p \in Playbacks : Inputs(p)' \subseteq Inputs(p) /\ Waits(p)' \subseteq Waits(p)
  BY <1>1, <1>2 DEF Inputs, Waits
<1>6. \A p \in Playbacks \ ps : Inputs(p)' = Inputs(p) /\ Waits(p)' = Waits(p)
  <2> SUFFICES ASSUME NEW p \in Playbacks \ ps
               PROVE  Inputs(p)' = Inputs(p) /\ Waits(p)' = Waits(p)
    OBVIOUS
  <2>1. Inputs(p) \subseteq Inputs(p)'
    BY <1>1, <1>2, <1>3, <1>4 DEF Inputs
  <2>2. Waits(p) \subseteq Waits(p)'
    BY <1>1, <1>4 DEF Waits
  <2> QED BY <1>5, <2>1, <2>2
<1> QED BY <1>1, <1>5, <1>6, HeldCancels

LEMMA RetainableLives ==
  Retainable \in Playbacks => playback[Retainable].status = "live"
BY IngressAssumption DEF Retainable

LEMMA OneLessFields ==
  ASSUME TypeOK, NEW p \in Playbacks, MayMutate(p)
  PROVE  /\ OneLess(p) \in PlaybackTable /\ Alike(OneLess(p))
         /\ \A q \in Playbacks : OneLess(p)[q].retained = playback[q].retained
<1>1. playback \in PlaybackTable /\ playback[p].left > 0
  BY DEF TypeOK, PlaybackTable, MayMutate
<1>2. OneLess(p) \in PlaybackTable
  BY <1>1, EditTypes DEF OneLess
<1>3. ASSUME NEW q \in Playbacks
      PROVE  /\ OneLess(p)[q].status = playback[q].status
             /\ OneLess(p)[q].parent = playback[q].parent
             /\ OneLess(p)[q].retained = playback[q].retained
  BY <1>1, EditFields DEF OneLess
<1> QED BY <1>2, <1>3 DEF Alike

LEMMA RetainFields ==
  ASSUME NEW pbs \in PlaybackTable, NEW h, NEW q \in Playbacks
  PROVE  /\ Retain(pbs, h)[q].status = pbs[q].status
         /\ Retain(pbs, h)[q].parent = pbs[q].parent
         /\ Retain(pbs, h)[q].retained = pbs[q].retained + (IF q = h THEN 1 ELSE 0)
<1>1. pbs[q].retained \in Nat
  BY DEF PlaybackTable, PlaybackRecords
<1>2. CASE h \in Playbacks
  BY <1>2, EditFields DEF Retain
<1>3. CASE h \notin Playbacks
  BY <1>1, <1>3 DEF Retain
<1> QED BY <1>2, <1>3

LEMMA EnqueueHeld ==
  ASSUME TypeOK, TypeOK', Held, Numbered, NEW source, NEW state, NEW h \in Holders,
         NEW pbs \in PlaybackTable, Alike(pbs),
         \A p \in Playbacks : pbs[p].retained = playback[p].retained,
         h \in Playbacks => playback[h].status = "live",
         Enqueue(source, state, h, pbs)
  PROVE  Held'
<1> DEFINE x == arrived + 1
<1>1. /\ x \in Operations /\ active' = active /\ continuations' = continuations
      /\ waiter' = waiter /\ pending' = pending \cup {x} /\ playback' = Retain(pbs, h)
  BY IngressAssumption DEF Enqueue, activeVars, resultVars, TypeOK, Operations
<1>2. /\ payload'[x].playback = h
      /\ \A o \in Operations : o # x => payload'[o] = payload[o]
  BY <1>1 DEF Enqueue, TypeOK
<1>3. x \notin pending /\ x # active
  BY DEF Numbered, TypeOK, Operations, NoOperation
<1>4. pending \cup ({active} \ {NoOperation}) \subseteq Operations \ {x} /\ x # NoOperation
  BY <1>1, <1>3 DEF TypeOK, Operations, NoOperation
<1> HIDE DEF x
<1>5. \A p \in Playbacks : /\ x \notin Inputs(p) /\ Waits(p)' = Waits(p)
                           /\ Inputs(p)' = Inputs(p) \cup (IF p = h THEN {x} ELSE {})
  BY <1>1, <1>2, <1>4 DEF Inputs, Waits
<1>6. \A p \in Playbacks :
        /\ playback'[p].status = playback[p].status
        /\ playback'[p].parent = playback[p].parent
        /\ playback'[p].retained = playback[p].retained + (IF p = h THEN 1 ELSE 0)
  BY <1>1, RetainFields DEF Alike
<1>7. Settles
  BY <1>6 DEF Settles
<1> QED BY <1>5, <1>6, <1>7, HeldAdds

LEMMA SuspendHeld ==
  ASSUME TypeOK, TypeOK', Held, Threaded, TopIs("process") \/ TopIs("parse"), Suspend
  PROVE  Held'
<1>1. active \in Operations /\ continuations = {}
  BY ExecutingFrame
<1>2. CASE cancelling
  BY <1>2, CancelActiveHeld DEF Suspend
<1>3. CASE ~cancelling
  <2> DEFINE h == Retainable
  <2>1. /\ continuations' = {active} /\ waiter' = [waiter EXCEPT ![active] = h]
        /\ playback' = Retain(playback, h)
        /\ UNCHANGED <<payload, pending, active>>
    BY <1>1, <1>3 DEF Suspend, Suspended
  <2>2. waiter'[active] = h
    BY <1>1, <2>1 DEF TypeOK
  <2>3. h \in Holders /\ (h \in Playbacks => playback[h].status = "live")
    BY HolderTypes, RetainableLives
  <2> HIDE DEF h
  <2>4. \A p \in Playbacks : /\ active \notin Waits(p) /\ Inputs(p)' = Inputs(p)
                             /\ Waits(p)' = Waits(p) \cup (IF p = h THEN {active} ELSE {})
    BY <1>1, <2>1, <2>2 DEF Inputs, Waits
  <2>5. \A p \in Playbacks :
          /\ playback'[p].status = playback[p].status
          /\ playback'[p].parent = playback[p].parent
          /\ playback'[p].retained = playback[p].retained + (IF p = h THEN 1 ELSE 0)
    BY <2>1, RetainFields DEF TypeOK, PlaybackTable
  <2>6. Settles
    BY <2>5 DEF Settles
  <2> QED BY <2>3, <2>4, <2>5, <2>6, HeldAdds
<1> QED BY <1>2, <1>3

\* What releaseLuaDeferredRuntimeMutationPlayback does to the playbacks.
LEMMA ReleaseEffect ==
  ASSUME TypeOK, NEW pbs \in PlaybackTable, NEW p \in Holders, NEW base,
         Release(pbs, p, base), NEW q \in Playbacks,
         \A r \in Playbacks : pbs[r].parent = playback[r].parent
  PROVE  /\ playback'[q].parent = pbs[q].parent
         /\ playback'[q].status = "live" =>
              playback'[q].retained = IF q = p THEN IF pbs[q].retained > 0
                                                    THEN pbs[q].retained - 1 ELSE 0
                                               ELSE pbs[q].retained
         /\ \/ playback'[q].status = pbs[q].status
            \/ /\ pbs[q].status = "live" /\ playback'[q].status = "cancelled"
               /\ \A r \in Playbacks : pbs[q].parent = r => playback'[r].status # "live"
<1>1. CASE p \notin Playbacks \/ (p \in Playbacks /\ pbs[p].status # "live")
  BY <1>1 DEF Release
<1>2. CASE p \in Playbacks /\ pbs[p].status = "live"
  <2> DEFINE freed == Released(pbs, p)
  <2>1. freed \in PlaybackTable
    BY <1>2, EditTypes
  <2>2. \A r \in Playbacks :
          /\ freed[r].status = pbs[r].status /\ freed[r].parent = pbs[r].parent
          /\ freed[r].retained = IF r = p THEN IF pbs[r].retained > 0
                                               THEN pbs[r].retained - 1 ELSE 0
                                          ELSE pbs[r].retained
    BY <1>2, EditFields
  <2>3. playback' \in {freed, Cancel(freed, {p}), Applying(freed, p)}
    BY <1>2 DEF Release
  <2> HIDE DEF freed
  <2>4. CASE playback' = freed
    BY <2>2, <2>4
  <2>5. CASE playback' = Applying(freed, p)
    BY <1>2, <2>1, <2>2, <2>5, EditFields
  <2>6. CASE playback' = Cancel(freed, {p})
    <3>1. \A r \in Playbacks : freed[r].parent = playback[r].parent
      BY <2>2
    <3>2. /\ Cancel(freed, {p})[q].parent = freed[q].parent
          /\ Cancel(freed, {p})[q].retained = freed[q].retained
          /\ \/ Cancel(freed, {p})[q].status = freed[q].status
             \/ /\ freed[q].status = "live" /\ Cancel(freed, {p})[q].status = "cancelled"
                /\ \A r \in Playbacks : freed[q].parent = r => Cancel(freed, {p})[r].status # "live"
      <4>1. \A ps :
              /\ Cancel(freed, ps)[q].parent = freed[q].parent
              /\ Cancel(freed, ps)[q].retained = freed[q].retained
              /\ \/ Cancel(freed, ps)[q].status = freed[q].status
                 \/ /\ freed[q].status = "live" /\ Cancel(freed, ps)[q].status = "cancelled"
                    /\ \A r \in Playbacks : freed[q].parent = r => Cancel(freed, ps)[r].status # "live"
        BY <2>1, <3>1, CancelEffect
      <4> QED BY <4>1
    <3> QED BY <2>2, <2>6, <3>2
  <2> QED BY <2>3, <2>4, <2>5, <2>6
<1> QED BY <1>1, <1>2

LEMMA ParsedHeld ==
  ASSUME TypeOK, TypeOK', Held, Threaded, active \notin pending, Parsed
  PROVE  Held'
<1>1. active \in Operations /\ continuations = {}
  BY ExecutingFrame DEF Parsed
<1>2. CASE cancelling \/ Stale(active)
  BY <1>2, CancelActiveHeld DEF Parsed
<1>3. CASE ~(cancelling \/ Stale(active))
  <2> DEFINE base == Append(Pop, Frame("completed", NoOperation, ActivePlayback))
             h == payload[active].playback
  <2>1. /\ active' = NoOperation /\ Release(playback, h, base)
        /\ UNCHANGED <<payload, pending, continuations, waiter>>
    BY <1>3 DEF Parsed, resultVars
  <2>2. h \in Holders
    BY <1>1 DEF TypeOK, Payloads
  <2>3. active \notin pending => \A p \in Playbacks :
          /\ p = h => active \in Inputs(p)
          /\ Waits(p)' = Waits(p)
          /\ Inputs(p)' = Inputs(p) \ (IF p = h THEN {active} ELSE {})
    BY <1>1, <2>1 DEF Inputs, Waits, Operations, NoOperation
  <2> HIDE DEF base, h
  <2>4. \A q \in Playbacks :
         /\ playback'[q].parent = playback[q].parent
         /\ playback'[q].status = "live" =>
              playback'[q].retained = IF q = h THEN IF playback[q].retained > 0
                                                    THEN playback[q].retained - 1 ELSE 0
                                               ELSE playback[q].retained
         /\ \/ playback'[q].status = playback[q].status
            \/ /\ playback[q].status = "live" /\ playback'[q].status = "cancelled"
               /\ \A r \in Playbacks : playback[q].parent = r => playback'[r].status # "live"
    <3>1. playback \in PlaybackTable
      BY DEF TypeOK, PlaybackTable
    <3> QED BY <2>1, <2>2, <3>1, ReleaseEffect
  <2>5. Settles
    BY <2>4 DEF Settles
  <2>6. active \notin pending
    OBVIOUS
  <2> QED BY <2>2, <2>3, <2>4, <2>5, <2>6, HeldDrops
<1> QED BY <1>2, <1>3

LEMMA ResumeHeld ==
  ASSUME TypeOK, TypeOK', Held, Threaded, NEW o \in Operations, Resume(o)
  PROVE  Held'
<1>1. o \in continuations /\ o = active
  BY DEF Resume, Threaded
<1>2. CASE Stale(o)
  BY <1>2, CancelActiveHeld DEF Resume
<1>3. CASE ~Stale(o)
  <2> DEFINE h == waiter[o]
             freed == Released(playback, h)
  <2>1. /\ continuations' = continuations \ {o} /\ active' = active
        /\ waiter' = [waiter EXCEPT ![o] = NoPlayback]
        /\ UNCHANGED <<payload, pending>>
    BY <1>3 DEF Resume, Reenter, activeVars
  <2>2. h \in Holders
    BY DEF TypeOK
  <2>3. \A p \in Playbacks : /\ p = h => o \in Waits(p)
                             /\ Inputs(p)' = Inputs(p)
                             /\ Waits(p)' = Waits(p) \ (IF p = h THEN {o} ELSE {})
    BY <1>1, <2>1 DEF Inputs, Waits
  <2>4. \/ ~WaiterLives(o) /\ playback' = playback
        \/ WaiterLives(o) /\ playback' \in {freed, Applying(freed, h), Cancel(freed, {h})}
    BY <1>3 DEF Resume
  <2>w. WaiterLives(o) <=> h \in Playbacks /\ playback[h].status = "live"
    BY DEF WaiterLives
  <2> HIDE DEF h
  <2>5. CASE ~WaiterLives(o) /\ playback' = playback
    <3>1. Settles
      BY <2>5 DEF Settles
    <3>2. \A p \in Playbacks : playback'[p].status = "live" => p # h
      BY <2>5, <2>w
    <3> QED BY <2>3, <2>5, <3>1, <3>2, HeldSame
  <2>6. CASE WaiterLives(o) /\ playback' \in {freed, Applying(freed, h), Cancel(freed, {h})}
    <3>1. playback \in PlaybackTable /\ h \in Playbacks
      BY <2>6, <2>w DEF TypeOK, PlaybackTable
    <3>2. freed \in PlaybackTable
      BY <3>1, EditTypes
    <3>3. \A r \in Playbacks :
          /\ freed[r].status = playback[r].status /\ freed[r].parent = playback[r].parent
          /\ freed[r].retained = IF r = h THEN IF playback[r].retained > 0
                                               THEN playback[r].retained - 1 ELSE 0
                                          ELSE playback[r].retained
      BY <3>1, EditFields
    <3> HIDE DEF freed
    <3>4. \A ps, q : q \in Playbacks =>
            /\ Cancel(freed, ps)[q].parent = freed[q].parent
            /\ Cancel(freed, ps)[q].retained = freed[q].retained
            /\ \/ Cancel(freed, ps)[q].status = freed[q].status
               \/ /\ freed[q].status = "live" /\ Cancel(freed, ps)[q].status = "cancelled"
                  /\ \A r \in Playbacks : freed[q].parent = r => Cancel(freed, ps)[r].status # "live"
      BY <3>2, <3>3, CancelEffect
    <3>5. \A q \in Playbacks : /\ Applying(freed, h)[q].status = freed[q].status
                               /\ Applying(freed, h)[q].parent = freed[q].parent
                               /\ Applying(freed, h)[q].retained = freed[q].retained
      BY <3>1, <3>2, EditFields
    <3>6. \A q \in Playbacks :
            /\ playback'[q].parent = freed[q].parent
            /\ playback'[q].retained = freed[q].retained
            /\ \/ playback'[q].status = freed[q].status
               \/ /\ freed[q].status = "live" /\ playback'[q].status = "cancelled"
                  /\ \A r \in Playbacks : freed[q].parent = r => playback'[r].status # "live"
      <4>1. CASE playback' = freed
        BY <4>1
      <4>2. CASE playback' = Applying(freed, h)
        BY <3>5, <4>2
      <4>3. CASE playback' = Cancel(freed, {h})
        BY <3>4, <4>3
      <4> QED BY <2>6, <4>1, <4>2, <4>3
    <3>7. Settles
      BY <3>3, <3>6 DEF Settles
    <3>8. \A p \in Playbacks : playback'[p].status = "live" =>
            playback'[p].retained = IF p = h THEN IF playback[p].retained > 0
                                                  THEN playback[p].retained - 1 ELSE 0
                                             ELSE playback[p].retained
      BY <3>3, <3>6
    <3> QED BY <2>2, <2>3, <3>7, <3>8, HeldDrops
  <2> QED BY <2>4, <2>5, <2>6
<1> QED BY <1>2, <1>3

LEMMA BegunFields ==
  ASSUME TypeOK, NEW p \in Playbacks, playback[p].status = "new", NEW s \in States,
         NEW n \in 1..MaxMutations, NEW q \in Playbacks
  PROVE  /\ q = p => /\ Begun(p, s, n)[q].status = "live"
                     /\ Begun(p, s, n)[q].parent = Retainable
                     /\ Begun(p, s, n)[q].retained = 0
         /\ q # p =>
              /\ Begun(p, s, n)[q].status = playback[q].status
              /\ Begun(p, s, n)[q].parent = playback[q].parent
              /\ Begun(p, s, n)[q].retained
                   = playback[q].retained + (IF q = Retainable THEN 1 ELSE 0)
<1> DEFINE kept == Retain(playback, Retainable)
           first == [status |-> "live", state |-> s, parent |-> Retainable,
                     retained |-> 0, left |-> n, applying |-> ~Cancelled(s)]
<1>1. playback \in PlaybackTable /\ kept \in PlaybackTable
  BY RetainType DEF TypeOK, PlaybackTable
<1>2. /\ kept[q].status = playback[q].status /\ kept[q].parent = playback[q].parent
      /\ kept[q].retained = playback[q].retained + (IF q = Retainable THEN 1 ELSE 0)
  BY <1>1, RetainFields
<1>3. Begun(p, s, n) = [kept EXCEPT ![p] = first]
  BY DEF Begun
<1> HIDE DEF kept
<1>4. /\ q = p => Begun(p, s, n)[q] = first
      /\ q # p => Begun(p, s, n)[q] = kept[q]
  BY <1>1, <1>3 DEF PlaybackTable
<1> QED BY <1>2, <1>4

\* A playback whose connection has ended takes those that wait for it with it.
LEMMA StartCancelledHeld ==
  ASSUME TypeOK, TypeOK', Held, NEW p \in Playbacks, playback[p].status = "new",
         NEW s \in States, NEW n \in 1..MaxMutations,
         playback' = Cancel(Begun(p, s, n), {p, Retainable}),
         UNCHANGED <<payload, pending, active, continuations, waiter>>
  PROVE  Held'
<1> DEFINE pbs == Begun(p, s, n)
           gone == {p, Retainable}
<1>0. pbs \in PlaybackTable
  BY BegunType
<1>1. /\ pbs[p].status = "live"
      /\ \A q \in Playbacks : q # p =>
           /\ pbs[q].status = playback[q].status /\ pbs[q].parent = playback[q].parent
           /\ pbs[q].retained = playback[q].retained + (IF q = Retainable THEN 1 ELSE 0)
  BY <1>0, BegunFields
<1> HIDE DEF pbs
<1>2. \A q \in Playbacks :
        /\ playback'[q].parent = pbs[q].parent /\ playback'[q].retained = pbs[q].retained
        /\ q = p \/ q = Retainable => playback'[q].status # "live"
        /\ \/ playback'[q].status = pbs[q].status
           \/ /\ pbs[q].status = "live" /\ playback'[q].status = "cancelled"
              /\ \A r \in Playbacks : playback[q].parent = r => playback'[r].status # "live"
  <2>1. playback' = Cancel(pbs, gone)
    BY DEF pbs
  <2>2. p \in gone /\ Retainable \in gone
    OBVIOUS
  <2> HIDE DEF gone
  <2>3. \A q \in Playbacks :
          /\ Cancel(pbs, gone)[q].parent = pbs[q].parent
          /\ Cancel(pbs, gone)[q].retained = pbs[q].retained
          /\ q \in gone => Cancel(pbs, gone)[q].status # "live"
          /\ \/ Cancel(pbs, gone)[q].status = pbs[q].status
             \/ /\ pbs[q].status = "live" /\ Cancel(pbs, gone)[q].status = "cancelled"
                /\ \A r \in Playbacks : playback[q].parent = r => Cancel(pbs, gone)[r].status # "live"
    BY <1>0, CancelFate
  <2> QED BY <2>1, <2>2, <2>3
<1>3. playback'[p].status = "cancelled"
  BY <1>1, <1>2
<1>4. \A q \in Playbacks : q # p =>
        /\ playback'[q].parent = playback[q].parent
        /\ playback'[q].status = "live" => playback'[q].retained = playback[q].retained
        /\ \/ playback'[q].status = playback[q].status
           \/ /\ playback[q].status = "live" /\ playback'[q].status = "cancelled"
              /\ \A r \in Playbacks : playback[q].parent = r => playback'[r].status # "live"
  <2> SUFFICES ASSUME NEW q \in Playbacks, q # p
               PROVE  /\ playback'[q].parent = playback[q].parent
                      /\ playback'[q].status = "live" => playback'[q].retained = playback[q].retained
                      /\ \/ playback'[q].status = playback[q].status
                         \/ /\ playback[q].status = "live" /\ playback'[q].status = "cancelled"
                            /\ \A r \in Playbacks : playback[q].parent = r => playback'[r].status # "live"
    OBVIOUS
  <2>1. playback[q].retained \in Nat
    BY DEF TypeOK, PlaybackRecords
  <2>2. q # Retainable => pbs[q].retained = playback[q].retained
    BY <1>1, <2>1
  <2> QED BY <1>1, <1>2, <2>2
<1>5. \A q \in Playbacks : Inputs(q)' = Inputs(q) /\ Waits(q)' = Waits(q)
  BY DEF Inputs, Waits
<1>6. \A q \in Playbacks : Nested(q)' \subseteq Nested(q)
  BY <1>3, <1>4 DEF Nested
<1>7. ASSUME NEW q \in Playbacks, playback'[q].status = "live"
      PROVE  playback'[q].retained = HeldBy(q)'
  <2>1. q # p /\ playback[q].status = "live" /\ playback'[q].retained = playback[q].retained
    BY <1>3, <1>4, <1>7
  <2>2. Nested(q)' = Nested(q)
    <3>1. ASSUME NEW r \in Nested(q) PROVE r \in Nested(q)'
      <4>1. r \in Playbacks /\ playback[r].parent = q /\ playback[r].status = "live" /\ r # p
        BY <3>1 DEF Nested
      <4>2. playback'[r].parent = q /\ playback'[r].status = "live"
        BY <1>4, <1>7, <4>1
      <4> QED BY <4>1, <4>2 DEF Nested
    <3> QED BY <1>6, <3>1
  <2>3. playback[q].retained = HeldBy(q)
    BY <2>1 DEF Held, RetainsMatch
  <2>4. HeldBy(q)' = Cardinality(Inputs(q)') + Cardinality(Waits(q)') + Cardinality(Nested(q)')
    BY DEF HeldBy, Inputs, Waits, Nested
  <2>5. HeldBy(q) = Cardinality(Inputs(q)) + Cardinality(Waits(q)) + Cardinality(Nested(q))
    BY HolderSets
  <2> QED BY <1>5, <2>1, <2>2, <2>3, <2>4, <2>5
<1>8. ASSUME NEW q \in Playbacks, playback'[q].status = "new"
      PROVE  Inputs(q)' = {} /\ Waits(q)' = {} /\ Nested(q)' = {}
  <2>1. playback[q].status = "new"
    BY <1>3, <1>4, <1>8
  <2> QED BY <1>5, <1>6, <2>1 DEF Held, Fresh
<1> QED BY <1>7, <1>8 DEF Held, RetainsMatch, Fresh

\* A playback begins: the one it is started from waits for it.
LEMMA StartLiveHeld ==
  ASSUME TypeOK, TypeOK', Held, NEW p \in Playbacks, playback[p].status = "new",
         NEW s \in States, NEW n \in 1..MaxMutations, playback' = Begun(p, s, n),
         UNCHANGED <<payload, pending, active, continuations, waiter>>
  PROVE  Held'
<1> DEFINE h == Retainable
<1>2. h \in Playbacks => playback[h].status = "live" /\ h # p
  BY RetainableLives
<1>3. playback'[p].status = "live" /\ playback'[p].parent = h /\ playback'[p].retained = 0
  BY BegunFields
<1>5. \A q \in Playbacks : q # p =>
        /\ playback'[q].status = playback[q].status /\ playback'[q].parent = playback[q].parent
        /\ playback'[q].retained = playback[q].retained + (IF q = h THEN 1 ELSE 0)
  BY BegunFields
<1> HIDE DEF h
<1>6. \A q \in Playbacks : /\ Inputs(q)' = Inputs(q) /\ Waits(q)' = Waits(q)
                           /\ p \notin Nested(q)
                           /\ Nested(q)' = Nested(q) \cup (IF q = h THEN {p} ELSE {})
  BY <1>3, <1>5 DEF Inputs, Waits, Nested
<1>7. Inputs(p) = {} /\ Waits(p) = {} /\ Nested(p) = {}
  BY DEF Held, Fresh
<1>8. ASSUME NEW q \in Playbacks, playback'[q].status = "live"
      PROVE  playback'[q].retained = HeldBy(q)'
  <2>1. HeldBy(q)' = Cardinality(Inputs(q)') + Cardinality(Waits(q)') + Cardinality(Nested(q)')
    BY DEF HeldBy, Inputs, Waits, Nested
  <2>2. CASE q = p
    <3>1. Inputs(q)' = {} /\ Waits(q)' = {} /\ Nested(q)' = {}
      BY <1>2, <1>6, <1>7, <2>2
    <3> QED BY <1>3, <2>1, <2>2, <3>1, FS_EmptySet
  <2>3. CASE q # p
    <3>1. playback[q].retained = HeldBy(q)
      BY <1>5, <1>8, <2>3 DEF Held, RetainsMatch
    <3>2. /\ HeldBy(q) = Cardinality(Inputs(q)) + Cardinality(Waits(q)) + Cardinality(Nested(q))
          /\ Cardinality(Inputs(q)) \in Nat /\ Cardinality(Waits(q)) \in Nat
          /\ Cardinality(Nested(q)) \in Nat
          /\ Cardinality(Nested(q) \cup {p}) = Cardinality(Nested(q)) + 1
      BY <1>6, HolderSets, FS_AddElement
    <3>3. /\ Inputs(q)' = Inputs(q) /\ Waits(q)' = Waits(q)
          /\ Nested(q)' = IF q = h THEN Nested(q) \cup {p} ELSE Nested(q)
      BY <1>6
    <3>4. CASE q = h
      BY <1>5, <2>1, <2>3, <3>1, <3>2, <3>3, <3>4
    <3>5. CASE q # h
      BY <1>5, <2>1, <2>3, <3>1, <3>2, <3>3, <3>5
    <3> QED BY <3>4, <3>5
  <2> QED BY <2>2, <2>3
<1>9. ASSUME NEW q \in Playbacks, playback'[q].status = "new"
      PROVE  Inputs(q)' = {} /\ Waits(q)' = {} /\ Nested(q)' = {}
  <2>1. playback[q].status = "new" /\ q # h
    BY <1>2, <1>3, <1>5, <1>9
  <2> QED BY <1>6, <2>1 DEF Held, Fresh
<1> QED BY <1>8, <1>9 DEF Held, RetainsMatch, Fresh

LEMMA StartHeld ==
  ASSUME TypeOK, TypeOK', Held, NEW p \in Playbacks, StartPlayback(p)
  PROVE  Held'
<1>1. /\ playback[p].status = "new"
      /\ UNCHANGED <<payload, pending, active, continuations, waiter>>
  BY DEF StartPlayback, activeVars, resultVars
<1>2. {NoState, generation} \subseteq States /\ 1..(generation - 1) \subseteq States
  BY IngressAssumption DEF TypeOK, States, Generations
<1>3. \/ \E s \in States, n \in 1..MaxMutations : playback' = Begun(p, s, n)
      \/ \E s \in States, n \in 1..MaxMutations :
           playback' = Cancel(Begun(p, s, n), {p, Retainable})
  BY <1>2 DEF StartPlayback
<1>4. CASE \E s \in States, n \in 1..MaxMutations : playback' = Begun(p, s, n)
  BY <1>1, <1>4, StartLiveHeld
<1>5. CASE \E s \in States, n \in 1..MaxMutations :
             playback' = Cancel(Begun(p, s, n), {p, Retainable})
  BY <1>1, <1>5, StartCancelledHeld
<1> QED BY <1>3, <1>4, <1>5

\* A playback that completes lets the one that waits for it go.
LEMMA SegmentEndsHeld ==
  ASSUME TypeOK, TypeOK', Held, SegmentEnds
  PROVE  Held'
<1> DEFINE p == Top.playback
           done == [playback EXCEPT ![p].applying = FALSE, ![p].status = "completed"]
           h == playback[p].parent
<1>1. p \in Playbacks /\ playback \in PlaybackTable /\ h \in Holders
  BY PopFacts DEF SegmentEnds, TopIs, Frames, TypeOK, PlaybackTable, PlaybackRecords
<1>2. UNCHANGED <<payload, pending, active, continuations, waiter>>
  BY DEF SegmentEnds, activeVars, resultVars
<1>3. \A q \in Playbacks : Inputs(q)' = Inputs(q) /\ Waits(q)' = Waits(q)
  BY <1>2 DEF Inputs, Waits
<1>4. \/ /\ playback[p].status = "live" /\ Release(done, h, Pop)
      \/ playback' = [playback EXCEPT ![p].applying = FALSE]
  BY DEF SegmentEnds
<1>5. CASE playback' = [playback EXCEPT ![p].applying = FALSE]
  <2> HIDE DEF p
  <2>1. \A q \in Playbacks : /\ playback'[q].status = playback[q].status
                             /\ playback'[q].parent = playback[q].parent
                             /\ playback'[q].retained = playback[q].retained
    BY <1>1, <1>5, EditFields
  <2>2. Settles
    BY <2>1 DEF Settles
  <2> QED BY <1>3, <2>1, <2>2, HeldSame
<1>6. CASE playback[p].status = "live" /\ Release(done, h, Pop)
  <2>1. done \in PlaybackTable
    BY <1>1, EditTypes
  <2>2. \A q \in Playbacks :
          /\ done[q].parent = playback[q].parent /\ done[q].retained = playback[q].retained
          /\ done[q].status = IF q = p THEN "completed" ELSE playback[q].status
    <3>1. \A q \in Playbacks : playback[q] \in PlaybackRecords
      BY <1>1 DEF PlaybackTable
    <3>2. done = [playback EXCEPT ![p] = [playback[p] EXCEPT !.applying = FALSE, !.status = "completed"]]
      BY <1>1, <3>1 DEF PlaybackTable
    <3> HIDE DEF p
    <3>3. \A r : [playback EXCEPT ![p] = r][p] = r
                 /\ \A q \in Playbacks : q # p => [playback EXCEPT ![p] = r][q] = playback[q]
      BY <1>1 DEF PlaybackTable
    <3> HIDE DEF done
    <3>4. done[p] = [playback[p] EXCEPT !.applying = FALSE, !.status = "completed"]
          /\ \A q \in Playbacks : q # p => done[q] = playback[q]
      BY <3>2, <3>3
    <3>5. /\ done[p].status = "completed" /\ done[p].parent = playback[p].parent
          /\ done[p].retained = playback[p].retained
      BY <1>1, <3>1, <3>4, RecordEdits
    <3> QED BY <3>4, <3>5
  <2> HIDE DEF p, done, h
  <2>3. \A q \in Playbacks :
         /\ playback'[q].parent = done[q].parent
         /\ playback'[q].status = "live" =>
              playback'[q].retained = IF q = h THEN IF done[q].retained > 0
                                                    THEN done[q].retained - 1 ELSE 0
                                               ELSE done[q].retained
         /\ \/ playback'[q].status = done[q].status
            \/ /\ done[q].status = "live" /\ playback'[q].status = "cancelled"
               /\ \A r \in Playbacks : done[q].parent = r => playback'[r].status # "live"
    BY <1>1, <1>6, <2>1, <2>2, ReleaseEffect
  <2>4. ASSUME NEW q \in Playbacks
        PROVE  /\ playback'[q].status = "live" =>
                    /\ playback[q].status = "live"
                    /\ Nested(q)' = Nested(q) \ (IF q = h THEN {p} ELSE {})
               /\ playback'[q].status = "new" =>
                    playback[q].status = "new" /\ Nested(q)' \subseteq Nested(q)
    <3>1. /\ playback'[q].status = "live" => playback[q].status = "live" /\ q # p
          /\ playback'[q].status = "new" => playback[q].status = "new"
      BY <2>2, <2>3
    <3>2. Nested(q)' \subseteq Nested(q) \ {p}
      BY <2>2, <2>3 DEF Nested
    <3>3. playback'[q].status = "live" => Nested(q) \ {p} \subseteq Nested(q)'
      BY <2>2, <2>3 DEF Nested
    <3>4. q # h => p \notin Nested(q)
      BY DEF Nested, h
    <3> QED BY <3>1, <3>2, <3>3, <3>4
  <2>5. h \in Playbacks => p \in Nested(h)
    BY <1>1, <1>6 DEF Nested, h
  <2>6. ASSUME NEW q \in Playbacks, playback'[q].status = "live"
        PROVE  playback'[q].retained = HeldBy(q)'
    <3>1. HeldBy(q)' = Cardinality(Inputs(q)') + Cardinality(Waits(q)') + Cardinality(Nested(q)')
      BY DEF HeldBy, Inputs, Waits, Nested
    <3>2. playback[q].retained = HeldBy(q)
      BY <2>4, <2>6 DEF Held, RetainsMatch
    <3>3. /\ HeldBy(q) = Cardinality(Inputs(q)) + Cardinality(Waits(q)) + Cardinality(Nested(q))
          /\ Cardinality(Inputs(q)) \in Nat /\ Cardinality(Waits(q)) \in Nat
          /\ Cardinality(Nested(q)) \in Nat
          /\ p \in Nested(q) => /\ Cardinality(Nested(q) \ {p}) = Cardinality(Nested(q)) - 1
                                /\ Cardinality(Nested(q)) # 0
      BY HolderSets, FS_RemoveElement, FS_EmptySet
    <3>4. playback'[q].retained = IF q = h THEN IF playback[q].retained > 0
                                                THEN playback[q].retained - 1 ELSE 0
                                           ELSE playback[q].retained
      BY <2>2, <2>3, <2>6
    <3>5. CASE q = h
      <4>1. Nested(q)' = Nested(q) \ {p} /\ p \in Nested(q)
        BY <2>4, <2>5, <2>6, <3>5
      <4> QED BY <1>3, <3>1, <3>2, <3>3, <3>4, <3>5, <4>1
    <3>6. CASE q # h
      <4>1. Nested(q)' = Nested(q)
        BY <2>4, <2>6, <3>6
      <4> QED BY <1>3, <3>1, <3>2, <3>3, <3>4, <3>6, <4>1
    <3> QED BY <3>5, <3>6
  <2>7. Fresh'
    BY <1>3, <2>4 DEF Held, Fresh
  <2> QED BY <2>6, <2>7 DEF Held, RetainsMatch
<1> QED BY <1>4, <1>5, <1>6

-----------------------------------------------------------------------------
(* Every action keeps it. *)

\* What is processed does not wait any more.
Taken == active \notin pending

LEMMA TakenStep ==
  ASSUME TypeOK, Numbered, Taken, [Next]_vars
  PROVE  Taken'
<1>0. NoOperation \notin Operations /\ pending \subseteq Operations
  BY DEF TypeOK, NoOperation, Operations
<1>1. CASE /\ active' \in {active, NoOperation} /\ pending' \subseteq pending
  BY <1>0, <1>1 DEF Taken
<1>2. CASE Dequeue
  BY <1>2 DEF Dequeue, Taken
<1>3. ASSUME NEW source, NEW state, NEW h, NEW pbs, Enqueue(source, state, h, pbs)
      PROVE  Taken'
  <2>1. arrived + 1 # active
    BY DEF TypeOK, Numbered, Operations, NoOperation
  <2> QED BY <1>3, <2>1 DEF Enqueue, activeVars, Taken
<1>4. CASE Receive \/ SimulateDirect \/ \E p \in Playbacks : MutateSimulate(p)
  BY <1>3, <1>4 DEF Receive, SimulateDirect, MutateSimulate
<1>5. \A base, held : CancelActive(base, held) => active' = NoOperation /\ pending' = pending
  BY DEF CancelActive
<1>6. ASSUME NEW pbs, Invalidate(pbs)
      PROVE  active' \in {active, NoOperation} /\ pending' \subseteq pending
  BY <1>6 DEF Invalidate, Survivors
<1>7. CASE Disconnect \/ \E p \in Playbacks : MutateDisconnect(p)
  BY <1>1, <1>6, <1>7 DEF Disconnect, MutateDisconnect
<1>8. CASE AskPlugins \/ AwaitCallback
  BY <1>1, <1>5, <1>8 DEF AskPlugins, AwaitCallback, Suspend, Suspended
<1>9. CASE BeginParsing \/ Parsed
  BY <1>1, <1>5, <1>9 DEF BeginParsing, Unwind, Parsed, activeVars
<1>10. CASE \E o \in Operations : Resume(o)
  BY <1>1, <1>5, <1>10 DEF Resume, Reenter, activeVars
<1>11. CASE \/ UNCHANGED vars \/ SegmentEnds \/ DrainEnds \/ DrainEvent \/ CompletedDrains
            \/ \E p \in Playbacks : MutatePlain(p) \/ StartPlayback(p)
            \/ \E o \in Operations : Resolve(o)
  BY <1>1, <1>11 DEF vars, SegmentEnds, DrainEnds, DrainEvent, CompletedDrains, MutatePlain,
     StartPlayback, Resolve, activeVars
<1> QED BY <1>2, <1>4, <1>7, <1>8, <1>9, <1>10, <1>11 DEF Next, Internal

LEMMA InitHeld == Init => Held /\ Taken
<1> SUFFICES ASSUME Init PROVE Held /\ Taken
  OBVIOUS
<1>1. \A p \in Playbacks : playback[p].status = "new"
  BY DEF Init
<1>2. \A p \in Playbacks : Inputs(p) = {} /\ Waits(p) = {} /\ Nested(p) = {}
  BY <1>1 DEF Init, Inputs, Waits, Nested
<1> QED BY <1>1, <1>2 DEF Init, Held, RetainsMatch, Fresh, Taken

LEMMA HeldStep == IInv /\ IInv' /\ Held /\ Taken /\ [Next]_vars => Held'
<1> SUFFICES ASSUME IInv, IInv', Held, Taken, [Next]_vars PROVE Held'
  OBVIOUS
<1>t. TypeOK /\ TypeOK' /\ Threaded /\ Numbered
  BY DEF IInv
<1>0. playback \in PlaybackTable /\ Alike(playback) /\ NoPlayback \in Holders
      /\ Playbacks \subseteq Holders /\ NoPlayback \notin Playbacks
  BY <1>t, IngressAssumption DEF TypeOK, PlaybackTable, Alike, Holders
<1>q. ASSUME playback' = playback, UNCHANGED <<payload, continuations, waiter>>,
             pending' \cup ({active'} \ {NoOperation}) = pending \cup ({active} \ {NoOperation})
      PROVE  Held'
  <2>1. \A p \in Playbacks : Inputs(p)' = Inputs(p) /\ Waits(p)' = Waits(p)
    BY <1>q DEF Inputs, Waits
  <2>2. Settles
    BY <1>q DEF Settles
  <2> QED BY <1>t, <1>q, <2>1, <2>2, HeldSame
<1>1. ASSUME NEW p \in Playbacks, StartPlayback(p) PROVE Held'
  BY <1>1, <1>t, StartHeld
<1>2. ASSUME NEW p \in Playbacks, MutatePlain(p) PROVE Held'
  <2>1. /\ playback' = OneLess(p) /\ MayMutate(p)
        /\ UNCHANGED <<payload, pending, active, continuations, waiter>>
    BY <1>2 DEF MutatePlain, activeVars, resultVars
  <2>2. \A q \in Playbacks : /\ playback'[q].status = playback[q].status
                             /\ playback'[q].parent = playback[q].parent
                             /\ playback'[q].retained = playback[q].retained
    BY <1>t, <2>1, OneLessFields DEF Alike
  <2>3. \A q \in Playbacks : Inputs(q)' = Inputs(q) /\ Waits(q)' = Waits(q)
    BY <2>1 DEF Inputs, Waits
  <2>4. Settles
    BY <2>2 DEF Settles
  <2> QED BY <1>t, <2>2, <2>3, <2>4, HeldSame
<1>3. CASE SegmentEnds
  BY <1>3, <1>t, SegmentEndsHeld
<1>4. CASE Receive \/ SimulateDirect
  BY <1>4, <1>t, <1>0, EnqueueHeld DEF Receive, SimulateDirect
<1>5. ASSUME NEW p \in Playbacks, MutateSimulate(p) PROVE Held'
  <2>1. /\ OneLess(p) \in PlaybackTable /\ Alike(OneLess(p))
        /\ \A q \in Playbacks : OneLess(p)[q].retained = playback[q].retained
        /\ playback[p].status = "live"
    BY <1>5, <1>t, OneLessFields DEF MutateSimulate, MayMutate
  <2> QED BY <1>5, <1>t, <1>0, <2>1, EnqueueHeld DEF MutateSimulate
<1>6. CASE Dequeue
  <2>1. PICK o \in pending : active' = o /\ pending' = pending \ {o}
    BY <1>6 DEF Dequeue
  <2>2. active = NoOperation /\ o # NoOperation
    BY <1>6, <1>t DEF Dequeue, TypeOK, Operations, NoOperation
  <2> QED BY <1>6, <1>q, <2>1, <2>2 DEF Dequeue, resultVars
<1>7. CASE DrainEnds \/ DrainEvent \/ CompletedDrains
  BY <1>7, <1>q DEF DrainEnds, DrainEvent, CompletedDrains, activeVars, resultVars
<1>8. CASE AskPlugins \/ AwaitCallback
  BY <1>8, <1>t, SuspendHeld DEF AskPlugins, AwaitCallback
<1>9. CASE BeginParsing
  <2>1. CASE \E base, held : CancelActive(base, held)
    BY <1>t, <2>1, CancelActiveHeld
  <2>2. CASE /\ playback' = playback
             /\ UNCHANGED <<payload, continuations, waiter, pending, active>>
    BY <1>q, <2>2
  <2> QED BY <1>9, <2>1, <2>2 DEF BeginParsing, Unwind, activeVars, resultVars
<1>10. CASE Parsed
  BY <1>10, <1>t, ParsedHeld DEF Taken
<1>11. ASSUME NEW o \in Operations, Resolve(o) PROVE Held'
  BY <1>11, <1>q DEF Resolve, activeVars
<1>12. ASSUME NEW o \in Operations, Resume(o) PROVE Held'
  BY <1>12, <1>t, ResumeHeld
<1>13. CASE Disconnect
  BY <1>13, <1>t, <1>0, InvalidateHeld DEF Disconnect
<1>14. ASSUME NEW p \in Playbacks, MutateDisconnect(p) PROVE Held'
  <2>1. /\ OneLess(p) \in PlaybackTable /\ Alike(OneLess(p))
        /\ \A q \in Playbacks : OneLess(p)[q].retained = playback[q].retained
    BY <1>14, <1>t, OneLessFields DEF MutateDisconnect
  <2> QED BY <1>14, <1>t, <2>1, InvalidateHeld DEF MutateDisconnect
<1>15. CASE UNCHANGED vars
  BY <1>15, <1>q DEF vars, activeVars, resultVars
<1> QED BY <1>1, <1>2, <1>3, <1>4, <1>5, <1>6, <1>7, <1>8, <1>9, <1>10, <1>11, <1>12, <1>13,
           <1>14, <1>15 DEF Next, Internal

\* A playback waits for exactly the payloads it simulated, the operations suspended under
\* it and the playbacks nested in it, as releaseLuaDeferredRuntimeMutationPlayback counts
\* them: its journal neither runs ahead of what it started nor waits for what is gone.
THEOREM PlaybacksCountTheirHolders == Spec => []RetainsMatch
<1>1. Init => Held /\ Taken
  BY InitHeld
<1>2. IInv /\ IInv' /\ Held /\ Taken /\ [Next]_vars => Held' /\ Taken'
  BY HeldStep, TakenStep DEF IInv
<1>3. Held => RetainsMatch
  BY DEF Held
<1> QED BY <1>1, <1>2, <1>3, IngressInvariant, PTL DEF Spec

-----------------------------------------------------------------------------
(* The ingress implements InputOrder. *)

\* Nothing belongs to a connection to come, and what is to be cancelled is of an ended one.
Dated  == \A o \in Operations : payload[o].state <= generation
Doomed == cancelling => active # NoOperation /\ Stale(active)
Bound  == Dated /\ Doomed

\* The steps InputOrder does not see.
Unseen == UNCHANGED <<generation, arrived, payload, pending, active, cancelling, parsed>>

LEMMA StateTypes ==
  ASSUME TypeOK
  PROVE  /\ generation \in Nat \ {0} /\ MaxGenerations \in Nat
         /\ \A o \in Operations : payload[o].state \in Nat /\ o \in Nat \ {0}
<1>1. \A n \in Generations : n \in Nat \ {0}
  BY IngressAssumption DEF Generations
<1>2. \A o \in Operations : payload[o] \in Payloads /\ o \in Nat \ {0}
  BY IngressAssumption DEF TypeOK, Operations
<1>3. \A r \in Payloads : r.state \in Nat
  BY <1>1 DEF Payloads, States, NoState
<1> QED BY <1>1, <1>2, <1>3, IngressAssumption DEF TypeOK

LEMMA StaleStates ==
  ASSUME NEW o \in Operations
  PROVE  /\ Stale(o) <=> payload[o].state # 0 /\ payload[o].state # generation
         /\ Input!Ended(o) <=> Stale(o)
BY DEF Stale, Cancelled, NoState, Input!Ended

LEMMA UnseenSteps ==
  ASSUME Bound, Unseen
  PROVE  Bound' /\ UNCHANGED Input!vars
<1>1. Bound'
  BY DEF Unseen, Bound, Dated, Doomed, Stale, Cancelled
<1>2. UNCHANGED Input!vars
  BY DEF Unseen, Input!vars
<1> QED BY <1>1, <1>2

\* The cancellation of an operation gives it up.
LEMMA CancelActiveImplements ==
  ASSUME Bound, active \in Operations, Stale(active), active # NoOperation,
         NEW base, NEW held, CancelActive(base, held), generation' = generation
  PROVE  Bound' /\ Input!Next
<1>1. /\ active' = NoOperation /\ cancelling' = FALSE
      /\ UNCHANGED <<generation, arrived, payload, pending, parsed>>
  BY DEF CancelActive
<1>2. Bound'
  BY <1>1 DEF Bound, Dated, Doomed
<1>3. Input!Ended(active)
  BY StaleStates
<1>4. Input!GiveUp
  BY <1>1, <1>3 DEF Input!GiveUp, NoOperation
<1> QED BY <1>2, <1>4 DEF Input!Next

\* A payload is numbered when it is queued, and belongs to this connection or to none.
LEMMA EnqueueImplements ==
  ASSUME IInv, Bound, NEW source, NEW state \in {NoState, generation},
         NEW holder \in Holders, NEW pbs, Enqueue(source, state, holder, pbs)
  PROVE  Bound' /\ Input!Next
<1>1. arrived + 1 \in Operations /\ arrived \in Nat
  BY IngressAssumption DEF Enqueue, IInv, TypeOK, Operations
<1>2. PICK o \in Operations : o = arrived + 1
  BY <1>1
<1>3. /\ arrived' = o /\ pending' = pending \cup {o}
      /\ payload' = [payload EXCEPT ![o] =
                       [source |-> source, state |-> state, playback |-> holder]]
      /\ UNCHANGED <<generation, active, cancelling, parsed>>
  BY <1>2 DEF Enqueue, activeVars, resultVars
<1>4. \A r \in Operations : payload'[r].state = IF r = o THEN state ELSE payload[r].state
  BY <1>3 DEF IInv, TypeOK
<1>5. /\ generation \in Nat \ {0} /\ state <= generation
  BY StateTypes DEF IInv, NoState
<1>6. Dated'
  BY <1>3, <1>4, <1>5 DEF Bound, Dated
<1>7. Doomed'
  <2>1. CASE cancelling
    <3>1. active # NoOperation /\ Stale(active) /\ active \in Operations
      BY <2>1 DEF IInv, Bound, Doomed, TypeOK
    <3>2. active # o
      BY <1>1, <1>2, <3>1, StateTypes DEF IInv, Numbered
    <3>3. Stale(active)'
      BY <1>3, <1>4, <3>1, <3>2 DEF Stale, Cancelled
    <3> QED BY <1>3, <3>1, <3>3 DEF Doomed
  <2>2. CASE ~cancelling
    BY <1>3, <2>2 DEF Doomed
  <2> QED BY <2>1, <2>2
<1>8. [r \in Operations |-> payload'[r].state]
        = [[r \in Operations |-> payload[r].state] EXCEPT ![o] = state]
  BY <1>4
<1>9. Input!Arrive(o)
  BY <1>2, <1>3, <1>8 DEF Input!Arrive, NoState
<1> QED BY <1>6, <1>7, <1>9 DEF Input!Next, Bound

\* What begins is the oldest payload, when nothing is processed.
LEMMA DequeueImplements ==
  ASSUME IInv, Bound, Dequeue
  PROVE  Bound' /\ Input!Next
<1>1. PICK o \in pending : /\ \A other \in pending : o <= other
                           /\ active' = o /\ pending' = pending \ {o}
  BY DEF Dequeue
<1>2. /\ active = NoOperation /\ cancelling' = FALSE
      /\ UNCHANGED <<generation, arrived, payload, parsed>>
  BY DEF Dequeue, resultVars
<1>3. Input!Begin(o)
  BY <1>1, <1>2 DEF Input!Begin, NoOperation
<1>4. Bound'
  BY <1>2 DEF Bound, Dated, Doomed
<1>5. o \in Operations
  BY DEF IInv, TypeOK
<1> QED BY <1>3, <1>4, <1>5 DEF Input!Next

\* An operation that runs knows whether its connection ended.
LEMMA RunningEnds ==
  ASSUME IInv, Bound, TopIs("process") \/ TopIs("parse")
  PROVE  /\ active \in Operations /\ active # NoOperation
         /\ cancelling => Stale(active)
         /\ ~cancelling => ~Stale(active)
<1>1. active \in Operations /\ active # NoOperation
  BY ExecutingFrame, StateTypes DEF IInv, NoOperation
<1> QED BY <1>1 DEF IInv, EndedConnectionIsLeft, Bound, Doomed

LEMMA RunningImplements ==
  ASSUME IInv, Bound, AskPlugins \/ AwaitCallback \/ BeginParsing \/ Parsed
  PROVE  Bound' /\ [Input!Next]_(Input!vars)
<1>1. /\ active \in Operations /\ active # NoOperation
      /\ cancelling => Stale(active)
      /\ ~cancelling => ~Stale(active)
      /\ generation' = generation
  BY RunningEnds DEF AskPlugins, AwaitCallback, Suspend, BeginParsing, Parsed
<1>2. CASE cancelling
  <2>1. \E base, held : CancelActive(base, held)
    BY <1>1, <1>2 DEF AskPlugins, AwaitCallback, Suspend, BeginParsing, Unwind, Parsed
  <2> QED BY <1>1, <1>2, <2>1, CancelActiveImplements
<1>3. CASE ~cancelling /\ (AskPlugins \/ AwaitCallback \/ BeginParsing)
  <2>1. Unseen
    BY <1>1, <1>3
       DEF AskPlugins, AwaitCallback, Suspend, Suspended, BeginParsing, Unwind, Unseen,
           activeVars, resultVars
  <2> QED BY <2>1, UnseenSteps
<1>4. CASE ~cancelling /\ Parsed
  <2>0. ~(cancelling \/ Stale(active))
    <3>1. ~cancelling /\ ~Stale(active)
      BY <1>1, <1>4
    <3> QED BY <3>1, Zenon
  <2>1. /\ active' = NoOperation /\ parsed' = Append(parsed, active)
        /\ UNCHANGED <<generation, arrived, payload, pending, cancelling>>
    <3>1. Parsed
      BY <1>4
    <3> QED BY <1>1, <2>0, <3>1 DEF Parsed
  <2>2. ~Input!Ended(active)
    BY <1>1, <2>0, StaleStates
  <2>3. Input!Complete
    BY <1>1, <2>1, <2>2 DEF Input!Complete, NoOperation
  <2>4. Bound'
    BY <1>4, <2>1 DEF Bound, Dated, Doomed
  <2> QED BY <2>3, <2>4 DEF Input!Next
<1> QED BY <1>2, <1>3, <1>4

\* The lane's resumption enters the operation again, or gives it up with its connection.
LEMMA ResumeImplements ==
  ASSUME IInv, Bound, NEW o \in Operations, Resume(o)
  PROVE  Bound' /\ [Input!Next]_(Input!vars)
<1>1. o = active /\ o # NoOperation /\ generation' = generation
  BY StateTypes DEF Resume, IInv, NoOperation
<1>2. CASE Stale(o)
  <2>1. CancelActive(stack, {})
    BY <1>2 DEF Resume
  <2> QED BY <1>1, <1>2, <2>1, CancelActiveImplements
<1>3. CASE ~Stale(o)
  <2>1. Unseen
    BY <1>1, <1>3 DEF Resume, Reenter, Unseen, activeVars
  <2> QED BY <2>1, UnseenSteps
<1> QED BY <1>2, <1>3

\* The end of a connection drops what waits of it; what is processed may have to leave first.
LEMMA InvalidateImplements ==
  ASSUME IInv, Bound, NEW pbs, Invalidate(pbs)
  PROVE  Bound' /\ Input!Next
<1>1. /\ generation' = generation + 1 /\ generation' \in Generations
      /\ UNCHANGED <<arrived, payload, parsed>>
  BY IngressAssumption DEF Invalidate, IInv, TypeOK, Generations
<1>2. /\ generation \in Nat
      /\ \A o \in Operations : payload[o].state \in Nat /\ payload[o].state <= generation
      /\ pending \subseteq Operations
  BY StateTypes DEF IInv, TypeOK, Bound, Dated
<1>3. pending' = {o \in pending : payload[o].state = 0}
  BY <1>1, <1>2 DEF Invalidate, Survivors, NoState
<1>4. \/ active' = active
         /\ (cancelling' => cancelling \/ (active # NoOperation /\ payload[active].state # NoState))
      \/ /\ active # NoOperation /\ payload[active].state # NoState
         /\ active' = NoOperation /\ cancelling' = FALSE
  BY DEF Invalidate
<1>5. active # NoOperation => active \in Operations
  BY DEF IInv, TypeOK
<1>6. Dated'
  BY <1>1, <1>2 DEF Dated
<1>7. Doomed'
  <2>1. CASE active' = active /\ cancelling'
    <3>1. active # NoOperation /\ active \in Operations /\ payload[active].state # NoState
      BY <1>4, <1>5, <2>1 DEF Bound, Doomed, Stale, Cancelled
    <3>2. payload[active].state # generation + 1
      BY <1>2, <3>1
    <3> QED BY <1>1, <2>1, <3>1, <3>2 DEF Doomed, Stale, Cancelled
  <2>2. CASE ~cancelling'
    BY <2>2 DEF Doomed
  <2> QED BY <1>4, <2>1, <2>2
<1>8. {o \in pending : [r \in Operations |-> payload[r].state][o] = 0} = pending'
  BY <1>2, <1>3
<1>9. active' = active \/ (active # 0 /\ [r \in Operations |-> payload[r].state][active] # 0 /\ active' = 0)
  BY <1>4, <1>5 DEF NoOperation, NoState
<1>10. Input!EndConnection
  BY <1>1, <1>8, <1>9 DEF Input!EndConnection
<1> QED BY <1>6, <1>7, <1>10 DEF Input!Next, Bound

LEMMA InputStep ==
  ASSUME IInv, Bound, [Next]_vars
  PROVE  Bound' /\ [Input!Next]_(Input!vars)
<1>1. CASE Receive \/ SimulateDirect \/ \E p \in Playbacks : MutateSimulate(p)
  <2>1. NoPlayback \in Holders /\ Playbacks \subseteq Holders
    BY DEF Holders
  <2>2. CASE Receive
    BY <2>1, <2>2, EnqueueImplements DEF Receive
  <2>3. CASE SimulateDirect
    BY <2>1, <2>3, EnqueueImplements DEF SimulateDirect
  <2>4. ASSUME NEW p \in Playbacks, MutateSimulate(p)
        PROVE  Bound' /\ Input!Next
    BY <2>1, <2>4, EnqueueImplements DEF MutateSimulate
  <2> QED BY <1>1, <2>2, <2>3, <2>4
<1>2. CASE Dequeue
  BY <1>2, DequeueImplements
<1>3. CASE AskPlugins \/ AwaitCallback \/ BeginParsing \/ Parsed
  BY <1>3, RunningImplements
<1>4. CASE \E o \in Operations : Resume(o)
  BY <1>4, ResumeImplements
<1>5. CASE Disconnect \/ \E p \in Playbacks : MutateDisconnect(p)
  BY <1>5, InvalidateImplements DEF Disconnect, MutateDisconnect
<1>6. CASE \/ UNCHANGED vars \/ SegmentEnds \/ DrainEnds \/ DrainEvent \/ CompletedDrains
           \/ \E p \in Playbacks : MutatePlain(p) \/ StartPlayback(p)
           \/ \E o \in Operations : Resolve(o)
  <2>1. Unseen
    BY <1>6 DEF vars, SegmentEnds, DrainEnds, DrainEvent, CompletedDrains, MutatePlain,
       StartPlayback, Resolve, activeVars, resultVars, Unseen
  <2> QED BY <2>1, UnseenSteps
<1> QED BY <1>1, <1>2, <1>3, <1>4, <1>5, <1>6 DEF Next, Internal

\* The ingress refines InputOrder: whatever suspends, nests and ends under the parser,
\* drainPendingRawIngressPayloads completes input in the order it came in, nothing of an
\* ended connection, and gives up nothing else.
THEOREM IngressImplementsInputOrder == Spec => ImplementsInputOrder
<1>1. Init => Input!Init /\ Bound
  <2> SUFFICES ASSUME Init PROVE Input!Init /\ Bound
    OBVIOUS
  <2>1. \A o \in Operations : payload[o].state = 0
    BY DEF Init, NoState
  <2>2. Input!Init
    BY <2>1 DEF Init, Input!Init, NoOperation
  <2>3. Bound
    BY <2>1 DEF Init, Bound, Dated, Doomed
  <2> QED BY <2>2, <2>3
<1>2. IInv /\ Bound /\ [Next]_vars => Bound' /\ [Input!Next]_(Input!vars)
  BY InputStep
<1> QED BY <1>1, <1>2, IngressInvariant, PTL DEF Spec, ImplementsInputOrder, Input!Spec
=============================================================================
