-------------------------- MODULE ConnectionProofs --------------------------
(***************************************************************************)
(* Proofs about the two halves of a world's connection: the negotiation of *)
(* its options, TelnetNegotiation, for any buckets, limit, window and      *)
(* suppression; and its socket, WorldSocket, for any number of             *)
(* connections, chunks and nested drains.                                  *)
(***************************************************************************)
EXTENDS TelnetNegotiation, WorldSocket, FiniteSetTheorems, TLAPS

\* Without the protection nothing is awaited or dropped by it.
Unguarded == ~protect => \A b \in Buckets : bucket[b].left = Idle /\ ~bucket[b].awaiting

\* A suppression starts where the wait for an outcome ends.
Apart == \A b \in Buckets : bucket[b].left # Idle => ~bucket[b].awaiting

\* An option whose setting was switched off is not in effect.
Governed == \A o \in Options \cap {"MSP", "NAWS"} : flag[o] => setting[o]

IInv == TypeOK /\ Unguarded /\ Apart /\ Governed /\ SettledState /\ AwaitsOnlyAnAcceptance
-----------------------------------------------------------------------------
(* What the operators of the protection return. *)

LEMMA OptionsCover == \A b \in Buckets : b[2] \in Options
BY DEF Options

LEMMA UnansweredType ==
  Unanswered \in [verb : {"none", "positive", "negative"}, by : {"nobody", "enabled", "refused"}]
BY DEF Unanswered

LEMMA ClearType == Clear \in Bucket
BY GuardAssumption DEF Clear, Bucket, Old, Idle

LEMMA ReopenedFacts ==
  ASSUME NEW k \in Bucket, k.left <= 0
  PROVE  /\ Reopened(k) \in Bucket /\ Reopened(k).left = Idle
         /\ Reopened(k).awaiting => k.awaiting /\ Reopened(k) = k
BY ClearType, GuardAssumption DEF Reopened, Clear, Bucket, Idle

LEMMA SuffixType ==
  ASSUME NEW S, NEW s \in Seq(S), NEW n \in Nat \ {0}
  PROVE  SubSeq(s, n, Len(s)) \in Seq(S)
<1>1. \A i \in n..Len(s) : s[i] \in S
  OBVIOUS
<1>. QED BY <1>1

LEMMA RecentType ==
  ASSUME NEW s \in Seq(0..Old)
  PROVE  Recent(s) \in Seq(0..Old)
<1> DEFINE gone == {i \in 1..Len(s) : \A j \in 1..i : s[j] = Old}
<1>1. IsFiniteSet(gone)
  <2>1. IsFiniteSet(1..Len(s))
    BY FS_Interval
  <2>. QED BY <2>1, FS_Subset
<1>2. Cardinality(gone) \in Nat
  BY <1>1, FS_CardinalityType
<1>. HIDE DEF gone
<1>3. \A n \in Nat \ {0} : SubSeq(s, n, Len(s)) \in Seq(0..Old)
  BY SuffixType
<1>4. SubSeq(s, Cardinality(gone) + 1, Len(s)) \in Seq(0..Old)
  BY <1>2, <1>3
<1>. QED BY <1>4 DEF Recent, gone

LEMMA RecordedFacts ==
  ASSUME NEW k \in Bucket
  PROVE  /\ Recorded(k) \in Bucket
         /\ Recorded(k).left = k.left
         /\ k.awaiting => Recorded(k) = k
<1>1. CASE k.awaiting
  BY <1>1 DEF Recorded
<1>2. CASE ~k.awaiting
  <2>1. Recent(k.attempts) \in Seq(0..Old)
    BY RecentType DEF Bucket
  <2>2. Append(Recent(k.attempts), 0) \in Seq(0..Old)
    BY <2>1, GuardAssumption DEF Old
  <2>. DEFINE tried == Append(Recent(k.attempts), 0)
  <2>3. Recorded(k) = [k EXCEPT !.attempts = tried,
                      !.awaiting = Len(tried) >= Limit,
                      !.desired = IF k.age = Old THEN "unknown" ELSE k.desired,
                      !.age = IF k.age = Old THEN 0 ELSE k.age]
    BY <1>2 DEF Recorded
  <2>4. tried \in Seq(0..Old)
    BY <2>2
  <2>5. 0 \in 0..Old
    BY GuardAssumption DEF Old
  <2>. DEFINE reached == Len(tried) >= Limit
  <2>6. reached \in BOOLEAN
    OBVIOUS
  <2>7. Recorded(k) = [k EXCEPT !.attempts = tried, !.awaiting = reached,
                      !.desired = IF k.age = Old THEN "unknown" ELSE k.desired,
                      !.age = IF k.age = Old THEN 0 ELSE k.age]
    BY <2>3
  <2>. HIDE DEF tried, reached
  <2>8. /\ Recorded(k) = [attempts |-> tried, left |-> k.left, awaiting |-> reached,
                          desired |-> IF k.age = Old THEN "unknown" ELSE k.desired,
                          age |-> IF k.age = Old THEN 0 ELSE k.age]
    BY <2>7 DEF Bucket
  <2>9. (IF k.age = Old THEN "unknown" ELSE k.desired) \in {"unknown", "enabled", "refused"}
    BY DEF Bucket
  <2>10. (IF k.age = Old THEN 0 ELSE k.age) \in 0..Old
    BY <2>5 DEF Bucket
  <2>. QED BY <1>2, <2>4, <2>6, <2>8, <2>9, <2>10 DEF Bucket
<1>. QED BY <1>1, <1>2

LEMMA FinishedFacts ==
  ASSUME NEW k \in Bucket, NEW positive \in BOOLEAN, NEW enabled \in BOOLEAN, k.left = Idle
  PROVE  /\ Finished(k, positive, enabled) \in Bucket
         /\ Finished(k, positive, enabled).left # Idle =>
              /\ ~Finished(k, positive, enabled).awaiting
              /\ Finished(k, positive, enabled).desired = Outcome(enabled)
         /\ Finished(k, positive, enabled).awaiting =>
              /\ Finished(k, positive, enabled).left = Idle
              /\ Finished(k, positive, enabled).desired # Outcome(enabled)
              /\ Finished(k, positive, enabled).desired # "unknown"
              /\ ~positive
<1>1. /\ Desired(k, positive, enabled) \in Bucket
      /\ Desired(k, positive, enabled).left = Idle
      /\ Desired(k, positive, enabled).awaiting <=> k.awaiting
      /\ positive => Desired(k, positive, enabled).desired = Outcome(enabled)
      /\ k.awaiting => Desired(k, positive, enabled).desired # "unknown"
  <2>1. CASE positive \/ (k.awaiting /\ k.desired = "unknown")
    <3>1. Desired(k, positive, enabled) = [k EXCEPT !.desired = Outcome(enabled), !.age = 0]
      BY <2>1 DEF Desired
    <3>2. Outcome(enabled) \in {"enabled", "refused"} /\ 0 \in 0..Old
      BY GuardAssumption DEF Outcome, Old
    <3>. QED BY <3>1, <3>2 DEF Bucket
  <2>2. CASE ~(positive \/ (k.awaiting /\ k.desired = "unknown"))
    BY <2>2 DEF Desired
  <2>. QED BY <2>1, <2>2
<1>. DEFINE d == Desired(k, positive, enabled)
<1>. HIDE DEF d
<1>2. <<>> \in Seq(0..Old) /\ Suppression \in Idle..Suppression /\ Suppression # Idle
  BY GuardAssumption DEF Idle
<1>3. CASE d.awaiting /\ d.desired = Outcome(enabled)
  <2>1. Finished(k, positive, enabled)
          = [d EXCEPT !.attempts = <<>>, !.awaiting = FALSE, !.left = Suppression]
    BY <1>3 DEF Finished, d
  <2>. QED BY <1>1, <1>2, <1>3, <2>1 DEF Bucket, d
<1>4. CASE ~(d.awaiting /\ d.desired = Outcome(enabled))
  <2>1. Finished(k, positive, enabled) = d
    BY <1>4 DEF Finished, d
  <2>. QED BY <1>1, <1>4, <2>1 DEF d
<1>. QED BY <1>3, <1>4
-----------------------------------------------------------------------------
(* A verb that is answered. *)

\* What an answer makes of the buckets: others are kept or cleared, the bucket
\* itself is recorded and finished where the protection is on.
LEMMA AnswerBuckets ==
  ASSUME TypeOK, NEW b \in Buckets, NEW positive \in BOOLEAN, NEW enabled \in BOOLEAN,
         protect => bucket[b].left <= 0, Answer(b, positive, enabled)
  PROVE  /\ bucket' \in [Buckets -> Bucket]
         /\ \A c \in Buckets \ {b} : bucket'[c] = bucket[c] \/ bucket'[c] = Clear
         /\ ~protect => bucket'[b] = bucket[b]
         /\ protect =>
              /\ bucket'[b].left # Idle =>
                   ~bucket'[b].awaiting /\ bucket'[b].desired = Outcome(enabled)
              /\ bucket'[b].awaiting =>
                   /\ bucket'[b].left = Idle
                   /\ bucket'[b].desired # Outcome(enabled)
                   /\ bucket'[b].desired # "unknown"
                   /\ ~positive
<1>. DEFINE k == Reopened(bucket[b])
            r == Recorded(k)
            done == Finished(r, positive, enabled)
<1>1. bucket[b] \in Bucket
  BY DEF TypeOK
<1>2. ASSUME protect
      PROVE  /\ done \in Bucket
             /\ done.left # Idle => ~done.awaiting /\ done.desired = Outcome(enabled)
             /\ done.awaiting => /\ done.left = Idle
                                /\ done.desired # Outcome(enabled)
                                /\ done.desired # "unknown"
                                /\ ~positive
  <2>1. k \in Bucket /\ k.left = Idle
    BY <1>1, <1>2, ReopenedFacts
  <2>2. r \in Bucket /\ r.left = Idle
    BY <2>1, RecordedFacts
  <2>. HIDE DEF r
  <2>. QED BY <2>2, FinishedFacts
<1>3. /\ bucket' = [c \in Buckets |->
             IF c \in Obsoletes(b, enabled) THEN Clear
             ELSE IF c = b /\ protect THEN done ELSE bucket[c]]
  BY DEF Answer
<1>. HIDE DEF done
<1>4. b \notin Obsoletes(b, enabled)
  BY DEF Obsoletes
<1>5. bucket' \in [Buckets -> Bucket]
  BY <1>2, <1>3, ClearType DEF TypeOK
<1>7. \A c \in Buckets \ {b} : bucket'[c] = bucket[c] \/ bucket'[c] = Clear
  BY <1>3
<1>8. bucket'[b] = IF protect THEN done ELSE bucket[b]
  BY <1>3, <1>4
<1>. QED BY <1>2, <1>5, <1>7, <1>8

\* What an answer makes of the flags.
LEMMA AnswerFlags ==
  ASSUME TypeOK, NEW b \in Buckets, NEW positive \in BOOLEAN, NEW enabled \in BOOLEAN,
         Answer(b, positive, enabled)
  PROVE  /\ flag' \in [Options -> BOOLEAN]
         /\ \A o \in Options : o # b[2] => flag'[o] = flag[o]
         /\ b \in {<<"server", "ECHO">>, <<"server", "MSP">>, <<"client", "NAWS">>} =>
              /\ enabled => flag'[b[2]]
              /\ ~positive /\ (b[2] = "ECHO" => setting["ECHO"]) => ~flag'[b[2]]
         /\ b \notin {<<"server", "ECHO">>, <<"server", "MSP">>, <<"client", "NAWS">>} =>
              (flag'[b[2]] => flag[b[2]])
         /\ b \in {<<"server", "ECHO">>, <<"server", "MSP">>, <<"client", "NAWS">>} =>
              (enabled => setting[b[2]]) /\ (~enabled /\ positive => ~setting[b[2]])
         /\ flag'[b[2]] => flag[b[2]] \/ enabled
<1>1. flag' = FlagsAfter(b, positive, enabled) /\ enabled \in Outcomes(b, positive)
  BY DEF Answer
<1>2. b[2] \in Options /\ b \in {"server", "client"} \X Known
  BY OptionsCover, GuardAssumption
<1>3. flag' \in [Options -> BOOLEAN]
  BY <1>1 DEF FlagsAfter, TypeOK
<1>4. \A o \in Options : o # b[2] => flag'[o] = flag[o]
  BY <1>1 DEF FlagsAfter, Lights, Withdraws
<1>5. flag'[b[2]] = IF enabled /\ b[2] \in Lights(b) THEN TRUE
                    ELSE IF ~positive /\ b[2] \in Withdraws(b) THEN FALSE
                    ELSE flag[b[2]]
  BY <1>1, <1>2 DEF FlagsAfter
<1>6. ~positive => ~enabled
  BY <1>1 DEF Outcomes
<1>7. b \in {<<"server", "ECHO">>, <<"server", "MSP">>, <<"client", "NAWS">>} =>
        /\ b[2] \in Lights(b)
        /\ (b[2] = "ECHO" => setting["ECHO"]) => b[2] \in Withdraws(b)
  BY DEF Lights, Withdraws
<1>8. b \notin {<<"server", "ECHO">>, <<"server", "MSP">>, <<"client", "NAWS">>} =>
        b[2] \notin Lights(b)
  BY <1>2 DEF Lights
<1>9. ASSUME b \in {<<"server", "ECHO">>, <<"server", "MSP">>, <<"client", "NAWS">>}
      PROVE  (enabled => setting[b[2]]) /\ (~enabled /\ positive => ~setting[b[2]])
  <2>1. positive => enabled \in IF b[1] = "server" THEN WillOutcomes(b[2])
                                ELSE DoOutcomes(b[2])
    BY <1>1 DEF Outcomes
  <2>2. positive => (enabled <=> setting[b[2]])
    <3>1. CASE b \in {<<"server", "ECHO">>, <<"server", "MSP">>}
      <4>1. b[1] = "server" /\ b[2] \in {"ECHO", "MSP"}
        BY <3>1
      <4>. QED BY <4>1, <2>1 DEF WillOutcomes
    <3>2. CASE b = <<"client", "NAWS">>
      <4>1. b[1] = "client" /\ b[2] = "NAWS"
        BY <3>2
      <4>. QED BY <4>1, <2>1 DEF DoOutcomes
    <3>. QED BY <1>9, <3>1, <3>2
  <2>. QED BY <2>2, <1>6
<1>. QED BY <1>3, <1>4, <1>5, <1>6, <1>7, <1>8, <1>9

LEMMA AnswerStep ==
  ASSUME IInv, NEW b \in Buckets, NEW positive \in BOOLEAN, Negotiate(b, positive)
  PROVE  IInv'
<1>. USE DEF IInv
<1>1. PICK enabled \in BOOLEAN : Answer(b, positive, enabled)
  BY DEF Negotiate
<1>2. protect => bucket[b].left <= 0
  BY DEF Negotiate
<1>3. /\ bucket' \in [Buckets -> Bucket]
      /\ \A c \in Buckets \ {b} : bucket'[c] = bucket[c] \/ bucket'[c] = Clear
      /\ ~protect => bucket'[b] = bucket[b]
  BY <1>1, <1>2, AnswerBuckets
<1>4. ASSUME protect
      PROVE  /\ bucket'[b].left # Idle =>
                   ~bucket'[b].awaiting /\ bucket'[b].desired = Outcome(enabled)
             /\ bucket'[b].awaiting =>
                   /\ bucket'[b].left = Idle
                   /\ bucket'[b].desired # Outcome(enabled)
                   /\ bucket'[b].desired # "unknown"
                   /\ ~positive
  BY <1>1, <1>2, <1>4, AnswerBuckets
<1>5. /\ flag' \in [Options -> BOOLEAN]
      /\ \A o \in Options : o # b[2] => flag'[o] = flag[o]
      /\ flag'[b[2]] => flag[b[2]] \/ enabled
      /\ b \notin {<<"server", "ECHO">>, <<"server", "MSP">>, <<"client", "NAWS">>} =>
              (flag'[b[2]] => flag[b[2]])
  BY <1>1, AnswerFlags
<1>6. ASSUME b \in {<<"server", "ECHO">>, <<"server", "MSP">>, <<"client", "NAWS">>}
      PROVE  /\ enabled => flag'[b[2]] /\ setting[b[2]]
             /\ ~positive /\ (b[2] = "ECHO" => setting["ECHO"]) => ~flag'[b[2]]
             /\ ~enabled /\ positive => ~setting[b[2]]
  BY <1>1, <1>6, AnswerFlags
<1>7. /\ UNCHANGED <<protect, once, setting>>
      /\ mccp2' \in BOOLEAN
      /\ seen' = seen \cup {b}
      /\ last' = [last EXCEPT ![b] = [verb |-> Verb(positive), by |-> Outcome(enabled)]]
  BY <1>1 DEF Answer
<1>8. TypeOK'
  <2>1. Verb(positive) \in {"none", "positive", "negative"}
        /\ Outcome(enabled) \in {"nobody", "enabled", "refused"}
    BY DEF Verb, Outcome
  <2>. QED BY <1>3, <1>5, <1>7, <2>1 DEF TypeOK
<1>9. Clear.left = Idle /\ ~Clear.awaiting
  BY DEF Clear
<1>10. Unguarded'
  BY <1>3, <1>7, <1>9 DEF Unguarded
<1>11. Apart'
  BY <1>3, <1>4, <1>9 DEF Apart
<1>12. Governed'
  <2>1. SUFFICES ASSUME NEW o \in Options \cap {"MSP", "NAWS"}, flag'[o] PROVE setting[o]
    BY <1>7 DEF Governed
  <2>2. CASE flag[o]
    BY <2>2 DEF Governed
  <2>3. CASE ~flag[o]
    <3>1. o = b[2] /\ enabled
      BY <2>1, <2>3, <1>5
    <3>2. b \in {<<"server", "ECHO">>, <<"server", "MSP">>, <<"client", "NAWS">>}
      BY <2>1, <2>3, <3>1, <1>5
    <3>. QED BY <3>1, <3>2, <1>6
  <2>. QED BY <2>2, <2>3
<1>13. AwaitsOnlyAnAcceptance'
  <2>1. SUFFICES ASSUME NEW c \in Buckets, bucket'[c].awaiting
                 PROVE  /\ bucket'[c].desired = "enabled"
                        /\ last'[c] = [verb |-> "negative", by |-> "refused"]
    BY DEF AwaitsOnlyAnAcceptance
  <2>2. CASE c # b
    <3>1. bucket'[c] = bucket[c] /\ last'[c] = last[c]
      BY <2>1, <2>2, <1>3, <1>7, <1>9 DEF TypeOK
    <3>. QED BY <2>1, <3>1 DEF AwaitsOnlyAnAcceptance
  <2>3. CASE c = b
    <3>1. protect
      BY <2>1, <2>3, <1>3 DEF Unguarded
    <3>2. /\ bucket'[b].desired # Outcome(enabled)
          /\ bucket'[b].desired # "unknown" /\ ~positive
      BY <2>1, <2>3, <3>1, <1>4
    <3>3. ~enabled
      <4>1. enabled \in Outcomes(b, positive)
        BY <1>1 DEF Answer
      <4>. QED BY <3>2, <4>1 DEF Outcomes
    <3>4. bucket'[b].desired = "enabled"
      BY <3>2, <3>3, <1>3 DEF Outcome, Bucket
    <3>5. last'[b] = [verb |-> "negative", by |-> "refused"]
      BY <3>2, <3>3, <1>7 DEF TypeOK, Verb, Outcome
    <3>. QED BY <2>3, <3>4, <3>5
  <2>. QED BY <2>2, <2>3
<1>14. SettledState'
  <2>1. SUFFICES ASSUME NEW c \in {<<"server", "ECHO">>, <<"server", "MSP">>, <<"client", "NAWS">>},
                        c \in Buckets, bucket'[c].left # Idle
                 PROVE  /\ c[2] # "NAWS" /\ bucket'[c].desired = "enabled" => flag'[c[2]]
                        /\ bucket'[c].desired = "refused" /\ (c[2] = "ECHO" => setting["ECHO"])
                             => ~flag'[c[2]]
    BY <1>7 DEF SettledState, Suppressed
  <2>2. CASE c # b
    <3>1. bucket'[c] = bucket[c]
      BY <2>1, <2>2, <1>3, <1>9
    <3>2. c[2] # "NAWS" => flag'[c[2]] = flag[c[2]]
      <4>1. CASE b[2] # c[2]
        BY <4>1, <1>5, OptionsCover, <2>1
      <4>2. CASE b[2] = c[2] /\ c[2] # "NAWS"
        <5>1. b[1] # "server"
          BY <4>2, <2>1, <2>2, GuardAssumption
        <5>2. flag' = FlagsAfter(b, positive, enabled) /\ b[2] \in Options
          BY <1>1, OptionsCover DEF Answer
        <5>3. b[2] \notin Lights(b) /\ b[2] \notin Withdraws(b)
          BY <4>2, <5>1, <2>1 DEF Lights, Withdraws
        <5>. QED BY <4>2, <5>2, <5>3 DEF FlagsAfter
      <4>. QED BY <4>1, <4>2
    <3>3. flag'[c[2]] => flag[c[2]]
      <4>1. CASE b[2] # c[2]
        BY <4>1, <1>5, OptionsCover, <2>1
      <4>2. CASE b[2] = c[2]
        <5>1. b \notin {<<"server", "ECHO">>, <<"server", "MSP">>, <<"client", "NAWS">>}
          BY <4>2, <2>1, <2>2
        <5>. QED BY <4>2, <5>1, <1>5
      <4>. QED BY <4>1, <4>2
    <3>4. /\ c[2] # "NAWS" /\ bucket[c].desired = "enabled" => flag[c[2]]
          /\ bucket[c].desired = "refused" /\ (c[2] = "ECHO" => setting["ECHO"]) => ~flag[c[2]]
      BY <2>1, <3>1 DEF SettledState, Suppressed
    <3>. QED BY <3>1, <3>2, <3>3, <3>4
  <2>3. CASE c = b
    <3>1. protect
      BY <2>1, <2>3, <1>3 DEF Unguarded
    <3>2. bucket'[b].desired = Outcome(enabled)
      BY <2>1, <2>3, <3>1, <1>4
    <3>3. CASE enabled
      BY <2>1, <2>3, <3>2, <3>3, <1>6 DEF Outcome
    <3>4. CASE ~enabled
      <4>1. bucket'[b].desired = "refused"
        BY <3>2, <3>4 DEF Outcome
      <4>2. ASSUME c[2] = "ECHO" => setting["ECHO"] PROVE ~flag'[b[2]]
        <5>1. CASE ~positive
          BY <5>1, <4>2, <2>1, <2>3, <1>6
        <5>2. CASE positive
          <6>1. ~setting[b[2]]
            BY <5>2, <3>4, <2>1, <2>3, <1>6
          <6>2. b[2] \in Options \cap {"MSP", "NAWS"}
            BY <6>1, <4>2, <2>1, <2>3, OptionsCover
          <6>. QED BY <6>1, <6>2, <1>7, <1>12 DEF Governed
        <5>. QED BY <5>1, <5>2
      <4>. QED BY <2>3, <4>1, <4>2
    <3>. QED BY <3>3, <3>4
  <2>. QED BY <2>2, <2>3
<1>. QED BY <1>8, <1>10, <1>11, <1>12, <1>13, <1>14
-----------------------------------------------------------------------------
(* The other steps. *)

LEMMA DropStep ==
  ASSUME IInv, NEW b \in Buckets, NEW positive \in BOOLEAN, Drop(b, positive)
  PROVE  IInv'
<1>. USE DEF IInv
<1>1. /\ UNCHANGED <<protect, once, seen, setting, mccp2, bucket, flag>>
      /\ last' = [last EXCEPT ![b] = [verb |-> Verb(positive), by |-> "nobody"]]
  BY DEF Drop
<1>2. ~bucket[b].awaiting
  BY GuardAssumption DEF Drop, Apart, Unguarded, Idle
<1>3. TypeOK'
  <2>1. Verb(positive) \in {"none", "positive", "negative"}
    BY DEF Verb
  <2>. QED BY <1>1, <2>1 DEF TypeOK
<1>4. Unguarded' /\ Apart' /\ Governed'
  BY <1>1 DEF Unguarded, Apart, Governed
<1>5. SettledState'
  BY <1>1 DEF SettledState, Suppressed
<1>6. AwaitsOnlyAnAcceptance'
  BY <1>1, <1>2 DEF AwaitsOnlyAnAcceptance, TypeOK
<1>. QED BY <1>3, <1>4, <1>5, <1>6

LEMMA FunctionIsSequence ==
  ASSUME NEW S, NEW n \in Nat, NEW f \in [1..n -> S]
  PROVE  f \in Seq(S)
OBVIOUS

LEMMA TickStep ==
  ASSUME IInv, Tick
  PROVE  IInv'
<1>. USE DEF IInv
<1>1. UNCHANGED <<protect, once, seen, setting, mccp2, flag, last>>
  BY DEF Tick
<1>2. ASSUME NEW b \in Buckets
      PROVE  /\ bucket'[b] \in Bucket
             /\ bucket'[b].left # Idle <=> bucket[b].left # Idle
             /\ bucket'[b].awaiting <=> bucket[b].awaiting
             /\ bucket'[b].desired = bucket[b].desired
  <2>1. bucket[b] \in Bucket
    BY DEF TypeOK
  <2>. DEFINE older == [i \in DOMAIN bucket[b].attempts |->
                 IF bucket[b].attempts[i] < Old THEN bucket[b].attempts[i] + 1 ELSE Old]
              left == IF bucket[b].left > 0 THEN bucket[b].left - 1 ELSE bucket[b].left
              age == IF bucket[b].age < Old /\ bucket[b].desired # "unknown"
                     THEN bucket[b].age + 1 ELSE bucket[b].age
  <2>2. bucket'[b] = [bucket[b] EXCEPT !.attempts = older, !.left = left, !.age = age]
    BY DEF Tick
  <2>3. older \in Seq(0..Old)
    <3>1. bucket[b].attempts \in Seq(0..Old) /\ Old \in Nat
      BY <2>1, GuardAssumption DEF Bucket, Old
    <3>2. \A i \in DOMAIN bucket[b].attempts : older[i] \in 0..Old
      BY <3>1
    <3>3. DOMAIN bucket[b].attempts = 1..Len(bucket[b].attempts) /\ Len(bucket[b].attempts) \in Nat
      BY <3>1
    <3>4. older \in [1..Len(bucket[b].attempts) -> 0..Old]
      BY <3>2, <3>3
    <3>. HIDE DEF older
    <3>. QED BY <3>3, <3>4, FunctionIsSequence
  <2>4. left \in Idle..Suppression /\ (left # Idle <=> bucket[b].left # Idle)
    BY <2>1, GuardAssumption DEF Bucket, Idle
  <2>5. age \in 0..Old
    BY <2>1, GuardAssumption DEF Bucket, Old
  <2>. HIDE DEF older, left, age
  <2>. QED BY <2>1, <2>2, <2>3, <2>4, <2>5 DEF Bucket
<1>3. bucket' \in [Buckets -> Bucket]
  <2>1. DOMAIN bucket' = Buckets /\ bucket' = [b \in Buckets |-> bucket'[b]]
    BY DEF Tick
  <2>. QED BY <2>1, <1>2
<1>4. TypeOK'
  BY <1>1, <1>3 DEF TypeOK
<1>5. Unguarded' /\ Apart' /\ Governed'
  BY <1>1, <1>2 DEF Unguarded, Apart, Governed
<1>6. SettledState'
  BY <1>1, <1>2 DEF SettledState, Suppressed
<1>7. AwaitsOnlyAnAcceptance'
  BY <1>1, <1>2 DEF AwaitsOnlyAnAcceptance
<1>. QED BY <1>4, <1>5, <1>6, <1>7

\* What clearing buckets leaves of them.
LEMMA Cleared ==
  ASSUME TypeOK, NEW bs, ClearBuckets(bs)
  PROVE  /\ bucket' \in [Buckets -> Bucket]
         /\ \A b \in Buckets : bucket'[b] = IF b \in bs THEN Clear ELSE bucket[b]
         /\ \A b \in Buckets : /\ bucket'[b].left # Idle => b \notin bs /\ bucket'[b] = bucket[b]
                               /\ bucket'[b].awaiting => b \notin bs /\ bucket'[b] = bucket[b]
BY ClearType, GuardAssumption DEF ClearBuckets, TypeOK, Clear

LEMMA ChangeSettingStep ==
  ASSUME IInv, NEW o \in Options, ChangeSetting(o)
  PROVE  IInv'
<1>. USE DEF IInv
<1>1. ClearBuckets(GovernedBy(o))
  BY DEF ChangeSetting
<1>2. /\ bucket' \in [Buckets -> Bucket]
      /\ \A b \in Buckets : /\ bucket'[b].left # Idle => b \notin GovernedBy(o) /\ bucket'[b] = bucket[b]
                            /\ bucket'[b].awaiting => bucket'[b] = bucket[b]
      /\ \A b \in Buckets : bucket'[b] = Clear \/ bucket'[b] = bucket[b]
  BY <1>1, Cleared
<1>3. /\ UNCHANGED <<protect, once, seen, mccp2, last>>
      /\ setting' = [setting EXCEPT ![o] = ~setting[o]]
      /\ flag' = [flag EXCEPT ![o] = IF o \in {"MSP", "NAWS"} THEN flag[o] /\ ~setting[o] ELSE flag[o]]
  BY DEF ChangeSetting
<1>4. setting' \in [Options -> BOOLEAN] /\ flag' \in [Options -> BOOLEAN]
  BY <1>3 DEF TypeOK
<1>5. TypeOK'
  BY <1>2, <1>3, <1>4 DEF TypeOK
<1>6. Unguarded' /\ Apart'
  BY <1>2, <1>3 DEF Unguarded, Apart, Clear
<1>7. \A p \in Options : /\ p # o => flag'[p] = flag[p] /\ (setting'[p] <=> setting[p])
                         /\ flag'[p] => flag[p]
                         /\ p = o /\ o \in {"MSP", "NAWS"} => (flag'[p] => ~setting[p])
                         /\ p = o => (setting'[p] <=> ~setting[p])
  BY <1>3 DEF TypeOK
<1>8. Governed'
  BY <1>7 DEF Governed
<1>9. AwaitsOnlyAnAcceptance'
  BY <1>2, <1>3 DEF AwaitsOnlyAnAcceptance
<1>10. SettledState'
  <2>1. SUFFICES ASSUME NEW c \in {<<"server", "ECHO">>, <<"server", "MSP">>, <<"client", "NAWS">>},
                        c \in Buckets, bucket'[c].left # Idle
                 PROVE  /\ c[2] # "NAWS" /\ bucket'[c].desired = "enabled" => flag'[c[2]]
                        /\ bucket'[c].desired = "refused" /\ (c[2] = "ECHO" => setting'["ECHO"])
                             => ~flag'[c[2]]
    BY DEF SettledState, Suppressed
  <2>2. bucket'[c] = bucket[c] /\ c \notin GovernedBy(o)
    BY <2>1, <1>2
  <2>3. c[2] # o
    BY <2>1, <2>2 DEF GovernedBy
  <2>4. flag'[c[2]] = flag[c[2]] /\ (setting'[c[2]] <=> setting[c[2]])
    BY <2>1, <2>3, <1>7, OptionsCover
  <2>5. /\ c[2] # "NAWS" /\ bucket[c].desired = "enabled" => flag[c[2]]
        /\ bucket[c].desired = "refused" /\ (c[2] = "ECHO" => setting["ECHO"]) => ~flag[c[2]]
    BY <2>1, <2>2 DEF SettledState, Suppressed
  <2>. QED BY <2>2, <2>4, <2>5
<1>. QED BY <1>5, <1>6, <1>8, <1>9, <1>10

\* Steps that clear every bucket leave nothing suppressed or awaited.
LEMMA ClearStep ==
  ASSUME IInv, ChangeProtection \/ ResetConnection
  PROVE  IInv'
<1>. USE DEF IInv
<1>1. ClearBuckets(Buckets)
  BY DEF ChangeProtection, ResetConnection
<1>2. /\ bucket' \in [Buckets -> Bucket]
      /\ \A b \in Buckets : bucket'[b] = Clear
  BY <1>1, Cleared
<1>3. TypeOK'
  <2>1. CASE ChangeProtection
    BY <1>2, <2>1 DEF TypeOK, ChangeProtection
  <2>2. CASE ResetConnection
    BY <1>2, <2>2, UnansweredType DEF TypeOK, ResetConnection
  <2>. QED BY <2>1, <2>2
<1>4. Unguarded' /\ Apart' /\ AwaitsOnlyAnAcceptance' /\ SettledState'
  BY <1>2 DEF Unguarded, Apart, AwaitsOnlyAnAcceptance, SettledState, Suppressed, Clear
<1>5. Governed'
  BY DEF Governed, ChangeProtection, ResetConnection
<1>. QED BY <1>3, <1>4, <1>5

LEMMA RestoreStep ==
  ASSUME IInv, NEW o \in Options, Restore(o)
  PROVE  IInv'
<1>. USE DEF IInv
<1>1. /\ UNCHANGED <<protect, once, seen, setting, mccp2, bucket, last>>
      /\ setting[o] /\ \A b \in Buckets : bucket[b] = Clear
      /\ flag' = [flag EXCEPT ![o] = TRUE]
  BY DEF Restore
<1>2. TypeOK'
  BY <1>1 DEF TypeOK
<1>3. Unguarded' /\ Apart' /\ AwaitsOnlyAnAcceptance' /\ SettledState'
  BY <1>1 DEF Unguarded, Apart, AwaitsOnlyAnAcceptance, SettledState, Suppressed, Clear
<1>4. Governed'
  BY <1>1 DEF Governed, TypeOK
<1>. QED BY <1>2, <1>3, <1>4
-----------------------------------------------------------------------------
THEOREM InitInductive == Init => IInv
<1>. SUFFICES ASSUME Init PROVE IInv
  OBVIOUS
<1>1. TypeOK
  <2>1. bucket \in [Buckets -> Bucket]
    BY ClearType DEF Init
  <2>2. last \in [Buckets -> [verb : {"none", "positive", "negative"},
                             by : {"nobody", "enabled", "refused"}]]
    <3>. HIDE DEF Unanswered
    <3>. QED BY UnansweredType DEF Init
  <2>4. /\ protect \in BOOLEAN /\ once \in BOOLEAN /\ mccp2 \in BOOLEAN
        /\ seen \subseteq Buckets
        /\ setting \in [Options -> BOOLEAN] /\ flag \in [Options -> BOOLEAN]
    BY DEF Init
  <2>. QED BY <2>1, <2>2, <2>4 DEF TypeOK
<1>2. Unguarded /\ Apart /\ AwaitsOnlyAnAcceptance /\ SettledState /\ Governed
  BY DEF Init, Unguarded, Apart, AwaitsOnlyAnAcceptance, SettledState, Suppressed, Governed, Clear
<1>. QED BY <1>1, <1>2 DEF IInv

THEOREM NextInductive == IInv /\ [Next]_vars => IInv'
<1>. SUFFICES ASSUME IInv, [Next]_vars PROVE IInv'
  OBVIOUS
<1>1. CASE \E b \in Buckets : Peer(b)
  BY <1>1, AnswerStep, DropStep DEF Peer
<1>2. CASE Tick
  BY <1>2, TickStep
<1>3. CASE \E o \in Options : ChangeSetting(o) \/ Restore(o)
  BY <1>3, ChangeSettingStep, RestoreStep
<1>4. CASE ChangeProtection \/ ResetConnection
  BY <1>4, ClearStep
<1>5. CASE ChangeOnce
  <2>1. TypeOK'
    BY <1>5 DEF ChangeOnce, IInv, TypeOK
  <2>2. Unguarded' /\ Apart' /\ AwaitsOnlyAnAcceptance' /\ SettledState' /\ Governed'
    BY <1>5 DEF ChangeOnce, IInv, Unguarded, Apart, AwaitsOnlyAnAcceptance, SettledState,
                Suppressed, Governed
  <2>. QED BY <2>1, <2>2 DEF IInv
<1>6. CASE UNCHANGED vars
  <2>1. TypeOK'
    BY <1>6 DEF vars, IInv, TypeOK
  <2>2. Unguarded' /\ Apart' /\ AwaitsOnlyAnAcceptance' /\ SettledState' /\ Governed'
    BY <1>6 DEF vars, IInv, Unguarded, Apart, AwaitsOnlyAnAcceptance, SettledState,
                Suppressed, Governed
  <2>. QED BY <2>1, <2>2 DEF IInv
<1>. QED BY <1>1, <1>2, <1>3, <1>4, <1>5, <1>6 DEF Next

\* The inductive invariant holds: the state of the protection has its type,
\* and a suppression and a wait for an outcome exclude each other.
THEOREM Invariant == Spec => []IInv
BY InitInductive, NextInductive, PTL DEF Spec

\* While the protection drops an option's verbs, the option is as the last
\* positive verb left it: recordNegotiationAttempt suppresses nothing before
\* finishNegotiationAttempt saw the outcome that was asked for.
THEOREM SuppressionIsSettled == Spec => []SettledState
<1>1. IInv => SettledState
  BY DEF IInv
<1>. QED BY <1>1, Invariant, PTL

\* A bucket beyond the limit is answered only while its option was withdrawn
\* after it had been taken: every other outcome settles it at once.
THEOREM OnlyAcceptancesAwaited == Spec => []AwaitsOnlyAnAcceptance
<1>1. IInv => AwaitsOnlyAnAcceptance
  BY DEF IInv
<1>. QED BY <1>1, Invariant, PTL

-----------------------------------------------------------------------------
(* The socket, for any number of connections, chunks and nested drains.     *)

\* The bounds hold throughout.
USE SocketAssumption

Live == sock \in {"open", "closing"}

\* Chunks of this connection that were handed over, or dropped when it ended.
Got == arrived[line] - Len(inbound)

\* What only a connection that lives can have.
SocketShape ==
  /\ line = 0 => sock = "none" /\ mode = "plain" /\ timers = {}
  /\ ~Live => inbound = <<>> /\ ingress = <<>> /\ ~ready /\ tls = "plain"
  /\ \A l \in Lines : l > line \/ (l = line /\ sock = "connecting") => arrived[l] = 0
  /\ Live => home[line] = epoch

\* What waits are the last chunks of this connection; they follow those handed over.
InboundNumbered ==
  \A j \in DOMAIN inbound :
    inbound[j].line = line /\ inbound[j].n = arrived[line] - Len(inbound) + j
HandedNumbered ==
  /\ \A i \in DOMAIN handed :
       handed[i].line <= line /\ (handed[i].line = line => handed[i].n <= Got)
  /\ Live /\ Got > 0 =>
       handed # <<>> /\ handed[Len(handed)] = [line |-> line, n |-> Got, epoch |-> epoch]

\* A timer whose generation is current was armed for this connection.
TimerShape ==
  \A t \in timers : t.current =>
    t.line = line /\ tls = "plain" /\ mode = "start" /\ sock # "connecting"

SocketInv == /\ SocketTypeOK /\ SocketShape /\ InboundNumbered /\ HandedNumbered
             /\ TimerShape /\ InOrder /\ PlainIsDue

LEMMA LineTypes ==
  ASSUME SocketTypeOK, SocketShape
  PROVE  /\ MaxLines \in Nat /\ MaxChunks \in Nat /\ MaxDepth \in Nat
         /\ line \in Nat /\ line \in 0..MaxLines
         /\ sock # "none" => line \in Lines
         /\ \A l \in Lines : l \in Nat /\ arrived[l] \in 0..MaxChunks /\ home[l] \in Nat
         /\ inbound # <<>> => Live /\ line \in Lines
         /\ Live => line \in Lines
BY DEF SocketAssumption, SocketTypeOK, Lines, SocketShape, Live

LEMMA ElementType == ASSUME NEW S, NEW s \in Seq(S), NEW i \in DOMAIN s PROVE s[i] \in S
OBVIOUS

LEMMA HandedTypes ==
  ASSUME SocketTypeOK, NEW i \in DOMAIN handed
  PROVE  /\ handed[i] \in [line : Lines, n : 1..MaxChunks, epoch : Nat]
         /\ handed[i].line \in Lines /\ handed[i].n \in 1..MaxChunks /\ handed[i].n \in Nat
<1> DEFINE HandedType == [line : Lines, n : 1..MaxChunks, epoch : Nat]
<1>1. handed \in Seq(HandedType) /\ MaxChunks \in Nat
  BY DEF SocketTypeOK, SocketAssumption
<1>2. \A f \in HandedType : f.line \in Lines /\ f.n \in 1..MaxChunks /\ f.n \in Nat
  BY <1>1
<1> HIDE DEF HandedType
<1>3. handed[i] \in HandedType
  BY <1>1, ElementType
<1> QED BY <1>2, <1>3 DEF HandedType

LEMMA TimerTypes ==
  ASSUME SocketTypeOK
  PROVE  /\ Cancelled \subseteq [line : Lines, current : BOOLEAN]
         /\ \A t \in Cancelled : ~t.current
         /\ line \in Lines => Armed \subseteq [line : Lines, current : BOOLEAN]
         /\ \A t \in Armed : t.current => t.line = line
         /\ timers = {} => Cancelled = {}
<1>1. \A t \in timers : t \in [line : Lines, current : BOOLEAN]
  BY DEF SocketTypeOK
<1>2. \A t \in Cancelled : t \in [line : Lines, current : BOOLEAN] /\ ~t.current
  BY <1>1 DEF Cancelled
<1> DEFINE R == [line : Lines, current : BOOLEAN]
           armed == [line |-> line, current |-> TRUE]
<1>3. armed.line = line /\ (line \in Lines => armed \in R)
  OBVIOUS
<1>4. timers = {} => Cancelled = {}
  BY DEF Cancelled
<1>5. \A t \in Armed : t \in Cancelled \/ t = armed
  BY DEF Armed
<1>6. Cancelled \subseteq R /\ \A t \in Cancelled : ~t.current
  BY <1>2
<1> HIDE DEF R, armed
<1>7. line \in Lines => Armed \subseteq R
  BY <1>3, <1>5, <1>6
<1>8. \A t \in Armed : t.current => t.line = line
  BY <1>3, <1>5, <1>6
<1> USE DEF R
<1> QED BY <1>4, <1>6, <1>7, <1>8

\* Handing over the head of q, which continues what was handed over.
LEMMA HandedOver ==
  ASSUME SocketInv, Live,
         NEW q \in Seq(Chunk), q # <<>>, NEW a \in 0..MaxChunks,
         a - Len(q) = Got,
         \A j \in DOMAIN q : q[j].line = line /\ q[j].n = a - Len(q) + j,
         arrived' = [arrived EXCEPT ![line] = a],
         HandOver(q), UNCHANGED <<sock, line, home, epoch>>
  PROVE  /\ inbound' \in Seq(Chunk) /\ ingress' \in Seq(Chunk)
         /\ handed' \in Seq([line : Lines, n : 1..MaxChunks, epoch : Nat])
         /\ InboundNumbered' /\ HandedNumbered' /\ InOrder'
<1> DEFINE HandedType == [line : Lines, n : 1..MaxChunks, epoch : Nat]
           c == Head(q)
           h == [line |-> line, n |-> c.n, epoch |-> epoch]
<1>1. /\ line \in Lines /\ line \in Nat /\ MaxChunks \in Nat /\ home[line] = epoch
      /\ arrived \in [Lines -> 0..MaxChunks] /\ epoch \in Nat
      /\ inbound \in Seq(Chunk) /\ ingress \in Seq(Chunk) /\ handed \in Seq(HandedType)
  BY LineTypes DEF SocketInv, SocketTypeOK, SocketShape
<1>2. c \in Chunk /\ c.line = line /\ c.n = Got + 1 /\ Len(q) \in Nat \ {0}
  BY <1>1
<1>3. c.n \in 1..MaxChunks /\ Got \in Int
  BY <1>1, <1>2 DEF Chunk
<1>4. h \in HandedType
  BY <1>1, <1>3
<1>5. /\ inbound' = Tail(q) /\ ingress' = Append(ingress, c) /\ handed' = Append(handed, h)
  BY <1>2 DEF HandOver
<1>6. inbound' \in Seq(Chunk) /\ Len(inbound') = Len(q) - 1
      /\ \A j \in DOMAIN inbound' : j + 1 \in DOMAIN q /\ inbound'[j] = q[j + 1]
  BY <1>5
<1>7. /\ handed' \in Seq(HandedType) /\ Len(handed') = Len(handed) + 1 /\ Len(handed) \in Nat
      /\ DOMAIN handed' = 1..(Len(handed) + 1) /\ DOMAIN handed = 1..Len(handed)
      /\ \A i \in DOMAIN handed : handed'[i] = handed[i]
      /\ handed'[Len(handed) + 1] = h
  <2> HIDE DEF HandedType, h
  <2> QED BY <1>1, <1>4, <1>5
<1>8. arrived'[line] = a
  BY <1>1
<1>9. InboundNumbered'
  <2> SUFFICES ASSUME NEW j \in DOMAIN inbound'
               PROVE  inbound'[j].line = line /\ inbound'[j].n = a - Len(inbound') + j
    BY <1>8 DEF InboundNumbered
  <2>1. j \in Nat
    BY <1>6
  <2> QED BY <1>2, <1>6, <2>1
<1>10. Got' = Got + 1
  BY <1>2, <1>6, <1>8 DEF Got
<1>11. HandedNumbered'
  <2>1. \A i \in DOMAIN handed : handed'[i].line <= line
                                /\ (handed'[i].line = line => handed'[i].n <= Got)
    BY <1>7 DEF HandedNumbered, SocketInv
  <2>a. \A f \in HandedType : f.n \in Int
    BY <1>1
  <2>b. \A i \in DOMAIN handed : handed[i] \in HandedType
    BY HandedTypes DEF SocketInv
  <2>2. \A i \in DOMAIN handed : handed'[i] \in HandedType /\ handed'[i].n \in Int
    BY <1>1, <1>7, <2>a, <2>b
  <2>3. \A i \in DOMAIN handed' : i \in DOMAIN handed \/ i = Len(handed) + 1
    BY <1>7
  <2>4. h.line = line /\ h.n = Got' /\ h = [line |-> line, n |-> Got', epoch |-> epoch]
    BY <1>2, <1>10
  <2>5. handed' # <<>> /\ handed'[Len(handed')] = h
    BY <1>7
  <2> HIDE DEF h, HandedType
  <2>6. \A i \in DOMAIN handed' : handed'[i].line <= line /\ (handed'[i].line = line => handed'[i].n <= Got')
    BY <1>1, <1>3, <1>7, <1>10, <2>1, <2>2, <2>3, <2>4
  <2> QED BY <2>4, <2>5, <2>6 DEF HandedNumbered
<1>12. \A i \in DOMAIN handed : handed[i] # h
  <2> SUFFICES ASSUME NEW i \in DOMAIN handed, handed[i] = h
               PROVE  FALSE
    OBVIOUS
  <2>1. handed[i].line = line /\ handed[i].n = Got + 1
    BY <1>2
  <2>2. handed[i].n <= Got
    BY <2>1 DEF HandedNumbered, SocketInv
  <2> QED BY <1>3, <2>1, <2>2
<1>13. h.n > 1 => handed # <<>> /\ handed[Len(handed)] = [h EXCEPT !.n = @ - 1]
  <2>1. h.n = Got + 1 /\ Got \in Int
    BY <1>2, <1>3
  <2>2. h.n > 1 => Got > 0
    <3> HIDE DEF h
    <3> QED BY <2>1
  <2>3. [h EXCEPT !.n = @ - 1] = [line |-> line, n |-> Got, epoch |-> epoch]
    <3>1. [h EXCEPT !.n = @ - 1] = [line |-> line, n |-> c.n - 1, epoch |-> epoch]
      <4> HIDE DEF c
      <4> QED OBVIOUS
    <3>2. c.n = Got + 1
      BY <1>2
    <3>3. c.n - 1 = Got
      <4> HIDE DEF c
      <4> QED BY <2>1, <3>2
    <3> QED BY <3>1, <3>3
  <2> QED BY <2>2, <2>3 DEF HandedNumbered, SocketInv
<1>14. InOrder'
  <2> SUFFICES ASSUME NEW i \in DOMAIN handed'
               PROVE  /\ handed'[i].epoch = home[handed'[i].line]
                      /\ handed'[i].n > 1 => i > 1 /\ handed'[i - 1] = [handed'[i] EXCEPT !.n = @ - 1]
                      /\ \A j \in 1..(i - 1) : handed'[j] # handed'[i]
    BY DEF InOrder
  <2> HIDE DEF h, HandedType
  <2>0. i \in Nat /\ i \in 1..(Len(handed) + 1)
    BY <1>7
  <2>1. CASE i \in DOMAIN handed
    <3>1. \A j \in 1..(i - 1) : j \in DOMAIN handed
      BY <1>7, <2>0, <2>1
    <3>2. i > 1 => i - 1 \in DOMAIN handed
      BY <1>7, <2>0, <2>1
    <3> QED BY <1>7, <2>0, <2>1, <3>1, <3>2 DEF SocketInv, InOrder
  <2>2. CASE i = Len(handed) + 1
    <3>1. handed'[i] = h /\ \A j \in 1..(i - 1) : j \in DOMAIN handed
      BY <1>7, <2>0, <2>2
    <3>2. handed # <<>> => i > 1 /\ handed'[i - 1] = handed[Len(handed)]
      BY <1>7, <2>0, <2>2
    <3>3. \A j \in 1..(i - 1) : handed'[j] # handed'[i]
      BY <1>7, <1>12, <3>1
    <3>4. h.epoch = home[h.line]
      BY <1>1 DEF h
    <3> QED BY <1>13, <3>1, <3>2, <3>3, <3>4
  <2> QED BY <1>7, <2>1, <2>2
<1>15. ingress' \in Seq(Chunk)
  BY <1>1, <1>2, <1>5
<1> QED BY <1>6, <1>7, <1>9, <1>11, <1>14, <1>15

LEMMA SocketStarts == SocketInit => SocketInv
<1> SUFFICES ASSUME SocketInit PROVE SocketInv
  OBVIOUS
<1>1. MaxLines \in Nat /\ MaxChunks \in Nat /\ MaxDepth \in Nat
  BY DEF SocketAssumption
<1>a. <<>> \in Seq(Chunk) /\ <<>> \in Seq([line : Lines, n : 1..MaxChunks, epoch : Nat])
  OBVIOUS
<1>b. arrived \in [Lines -> 0..MaxChunks] /\ home \in [Lines -> Nat]
  BY <1>1 DEF SocketInit
<1>c. 0 \in 0..MaxDepth /\ 0 \in 0..MaxLines /\ {} \subseteq [line : Lines, current : BOOLEAN]
  BY <1>1
<1>2. SocketTypeOK
  BY <1>1, <1>a, <1>b, <1>c DEF SocketInit, SocketTypeOK
<1>3. SocketShape
  BY <1>1 DEF SocketInit, SocketShape, Live, Lines
<1>4. InboundNumbered /\ HandedNumbered /\ TimerShape /\ InOrder /\ PlainIsDue
  BY DEF SocketInit, InboundNumbered, HandedNumbered, TimerShape, Live, InOrder, PlainIsDue
<1> QED BY <1>2, <1>3, <1>4 DEF SocketInv

\* A connection that has received nothing has handed over nothing.
LEMMA NothingOfThisLine ==
  ASSUME SocketInv, NEW l \in Lines, arrived[l] = 0,
         l > line \/ (l = line /\ ~Live)
  PROVE  \A i \in DOMAIN handed : handed[i].line \in Lines /\ handed[i].line # l
<1> SUFFICES ASSUME NEW i \in DOMAIN handed PROVE handed[i].line \in Lines /\ handed[i].line # l
  OBVIOUS
<1>2. handed[i].line \in Lines /\ handed[i].n \in 1..MaxChunks /\ MaxChunks \in Nat
  BY HandedTypes DEF SocketInv, SocketAssumption
<1>3. line \in Nat /\ l \in Nat /\ handed[i].line <= line
  BY LineTypes DEF SocketInv, HandedNumbered
<1>4. l = line => handed[i].line # line
  <2> SUFFICES ASSUME l = line, handed[i].line = line PROVE FALSE
    OBVIOUS
  <2>1. ~Live
    BY <1>3
  <2>2. inbound = <<>> /\ Len(inbound) = 0
    BY <2>1 DEF SocketInv, SocketShape
  <2>3. Got = 0
    BY <2>2 DEF Got
  <2> QED BY <1>2, <2>3 DEF SocketInv, HandedNumbered
<1> QED BY <1>2, <1>3, <1>4

\* The numbers stay what they are while nothing arrives, is handed over or is dropped.
LEMMA NumbersStay ==
  ASSUME SocketInv, UNCHANGED <<line, arrived, handed>>,
         UNCHANGED <<sock, epoch, inbound, home>> \/ (inbound' = <<>> /\ ~Live'),
         \A i \in DOMAIN handed : home'[handed[i].line] = home[handed[i].line]
  PROVE  InboundNumbered' /\ HandedNumbered' /\ InOrder'
<1>1. InOrder'
  BY DEF InOrder, SocketInv
<1>2. CASE UNCHANGED <<sock, epoch, inbound, home>>
  BY <1>1, <1>2 DEF SocketInv, InboundNumbered, HandedNumbered, Got, Live
<1>3. CASE inbound' = <<>> /\ ~Live'
  <2>1. InboundNumbered'
    BY <1>3 DEF InboundNumbered
  <2>2. \A i \in DOMAIN handed :
          handed[i].line <= line /\ (handed[i].line = line => handed[i].n <= arrived[line])
    <3> SUFFICES ASSUME NEW i \in DOMAIN handed
                 PROVE  handed[i].line <= line /\ (handed[i].line = line => handed[i].n <= arrived[line])
      OBVIOUS
    <3>2. handed[i].line \in Lines /\ handed[i].n \in Int
      BY HandedTypes DEF SocketInv
    <3>3. handed[i].line = line => arrived[line] \in 0..MaxChunks
      BY <3>2 DEF SocketInv, SocketTypeOK
    <3>4. Len(inbound) \in Nat
      BY DEF SocketInv, SocketTypeOK
    <3> QED BY <3>2, <3>3, <3>4 DEF SocketInv, HandedNumbered, Got, SocketAssumption
  <2>3. Len(inbound') = 0
    BY <1>3
  <2>4. ASSUME NEW i \in DOMAIN handed, handed[i].line = line
        PROVE  arrived[line] \in Nat
    BY <2>4, HandedTypes DEF SocketInv, SocketTypeOK, SocketAssumption
  <2> QED BY <1>1, <1>3, <2>1, <2>2, <2>3, <2>4 DEF HandedNumbered, Got
<1> QED BY <1>2, <1>3

\* The connection ends, in epoch e.
LEMMA LineEndsStep ==
  ASSUME SocketInv, sock # "none", NEW e \in Nat, LineEnds(e),
         UNCHANGED <<line, arrived, handed>>, offered' \in BOOLEAN,
         grounds' \in {"none", "denied", "silence"}, home' \in [Lines -> Nat],
         \A i \in DOMAIN handed : home'[handed[i].line] = home[handed[i].line]
  PROVE  SocketInv'
<1>1. /\ sock' = "none" /\ tls' = "plain" /\ inbound' = <<>> /\ ingress' = <<>>
      /\ draining' = FALSE /\ epoch' = e + 1 /\ phase' = "down" /\ ready' = FALSE
      /\ timers' = Cancelled /\ upgrading' = FALSE /\ UNCHANGED <<depth, posted, mode>>
  BY DEF LineEnds, SocketEnds, WorldEnds
<1>a. <<>> \in Seq(Chunk)
  OBVIOUS
<1>b. timers' \subseteq [line : Lines, current : BOOLEAN]
  BY <1>1, TimerTypes DEF SocketInv
<1>c. e + 1 \in Nat
  OBVIOUS
<1>2. SocketTypeOK'
  BY <1>1, <1>a, <1>b, <1>c DEF SocketInv, SocketTypeOK
<1>3. ~Live' /\ line # 0
  BY <1>1 DEF Live, SocketInv, SocketShape
<1>4. SocketShape'
  BY <1>1, <1>3 DEF SocketShape, SocketInv
<1>5. TimerShape'
  BY <1>1, TimerTypes DEF TimerShape, SocketInv
<1>6. InboundNumbered' /\ HandedNumbered' /\ InOrder'
  BY <1>1, <1>3, NumbersStay
<1> QED BY <1>1, <1>2, <1>4, <1>5, <1>6 DEF SocketInv, PlainIsDue

\* The session begins, or its negotiation cannot be sent.
LEMMA FinalizeStep ==
  ASSUME SocketInv, Live,
         NEW ts \in SUBSET [line : Lines, current : BOOLEAN],
         NEW t \in {"plain", "handshake", "encrypted"}, NEW q \in Seq(Chunk),
         \A u \in ts : u.current => u \in timers /\ t = tls,
         mode = "start" /\ t # "encrypted" => grounds' \in {"denied", "silence"},
         Finalize(ts, t, q), UNCHANGED <<line, arrived, home, handed>>,
         offered' \in BOOLEAN, grounds' \in {"none", "denied", "silence"}
  PROVE  SocketInv'
<1>1. CASE LineEnds(epoch)
  <2>1. sock # "none" /\ epoch \in Nat /\ home' \in [Lines -> Nat]
    BY DEF Live, SocketInv, SocketTypeOK
  <2> QED BY <1>1, <2>1, LineEndsStep
<1>2. CASE /\ phase' = (IF ready THEN phase ELSE "up") /\ ready' = TRUE
           /\ timers' = ts /\ upgrading' = FALSE /\ tls' = t /\ ingress' = q
           /\ UNCHANGED <<sock, inbound, draining, depth, posted, mode, epoch>>
  <2>1. SocketTypeOK'
    BY <1>2 DEF SocketInv, SocketTypeOK
  <2>2. SocketShape'
    BY <1>2 DEF Live, SocketInv, SocketShape
  <2>3. TimerShape'
    BY <1>2 DEF SocketInv, TimerShape
  <2>4. InboundNumbered' /\ HandedNumbered' /\ InOrder'
    BY <1>2, NumbersStay
  <2> QED BY <1>2, <2>1, <2>2, <2>3, <2>4 DEF SocketInv, PlainIsDue
<1> QED BY <1>1, <1>2 DEF Finalize, drainVars

-----------------------------------------------------------------------------
(* Every action of the socket keeps the invariant.                          *)

LEMMA ReceiveStep ==
  ASSUME SocketInv, NEW kind \in Kinds, Receive(kind)
  PROVE  SocketInv'
<1> DEFINE c == [line |-> line, n |-> arrived[line] + 1, kind |-> kind]
           q == Append(inbound, c)
           a == arrived[line] + 1
<1>1. /\ sock = "open" /\ arrived[line] < MaxChunks /\ arrived' = [arrived EXCEPT ![line] = a]
      /\ UNCHANGED <<sock, tls, posted, mode, offered, upgrading, timers, phase, ready, epoch, line, home, grounds>>
  BY DEF Receive, socketVars, tlsVars
<1>2. /\ Live /\ Live' /\ line \in Lines /\ line \in Nat /\ arrived[line] \in 0..MaxChunks
      /\ MaxChunks \in Nat /\ inbound \in Seq(Chunk) /\ Len(inbound) \in Nat
  BY <1>1, LineTypes DEF Live, SocketInv, SocketTypeOK
<1>3. a \in 0..MaxChunks /\ a \in 1..MaxChunks /\ arrived'[line] = a
  BY <1>1, <1>2 DEF SocketInv, SocketTypeOK
<1>4. c \in Chunk
  BY <1>2, <1>3 DEF Chunk
<1> HIDE DEF c
<1>5. q \in Seq(Chunk) /\ q # <<>> /\ Len(q) = Len(inbound) + 1
  BY <1>2, <1>4
<1>6. a - Len(q) = Got
  BY <1>2, <1>5 DEF Got
<1>7. \A j \in DOMAIN q : q[j].line = line /\ q[j].n = a - Len(q) + j
  <2> SUFFICES ASSUME NEW j \in DOMAIN q PROVE q[j].line = line /\ q[j].n = a - Len(q) + j
    OBVIOUS
  <2>1. CASE j \in DOMAIN inbound
    <3>1. q[j] = inbound[j] /\ j \in Nat
      BY <1>2, <1>4, <2>1
    <3> QED BY <1>2, <1>5, <2>1, <3>1 DEF SocketInv, InboundNumbered
  <2>2. CASE j = Len(inbound) + 1
    <3>1. q[j] = c
      BY <1>2, <1>4, <2>2
    <3> QED BY <1>2, <1>5, <2>2, <3>1 DEF c
  <2> QED BY <1>2, <1>5, <2>1, <2>2
<1> HIDE DEF q, a
<1>8. /\ inbound' \in Seq(Chunk) /\ ingress' \in Seq(Chunk)
      /\ handed' \in Seq([line : Lines, n : 1..MaxChunks, epoch : Nat])
      /\ InboundNumbered' /\ HandedNumbered' /\ InOrder'
      /\ draining' \in BOOLEAN /\ depth' \in 0..MaxDepth
  <2>1. CASE draining
    <3>1. inbound' = q /\ UNCHANGED <<draining, depth, handed, ingress>>
      BY <2>1 DEF Receive, q, c, a
    <3>2. Got' = Got
      BY <1>1, <1>3, <1>6, <3>1 DEF Got
    <3>3. InboundNumbered'
      BY <1>1, <1>3, <1>7, <3>1 DEF InboundNumbered
    <3>4. HandedNumbered'
      BY <1>1, <3>1, <3>2 DEF HandedNumbered, SocketInv, Live
    <3>5. InOrder'
      BY <1>1, <3>1 DEF SocketInv, InOrder
    <3>6. SocketTypeOK
      BY DEF SocketInv
    <3> QED BY <1>5, <3>1, <3>3, <3>4, <3>5, <3>6 DEF SocketTypeOK
  <2>2. CASE ~draining
    <3>1. depth < MaxDepth /\ draining' = TRUE /\ depth' = depth + 1 /\ HandOver(q)
      BY <2>2 DEF Receive, StartDrain, q, c, a
    <3>2. depth' \in 0..MaxDepth
      BY <3>1, LineTypes DEF SocketInv, SocketTypeOK
    <3> QED BY <1>1, <1>2, <1>3, <1>5, <1>6, <1>7, <3>1, <3>2, HandedOver
  <2> QED BY <2>1, <2>2
<1>9. SocketTypeOK'
  <2>1. arrived' \in [Lines -> 0..MaxChunks]
    BY <1>1, <1>3 DEF SocketInv, SocketTypeOK
  <2> QED BY <1>1, <1>8, <2>1 DEF SocketInv, SocketTypeOK
<1>10. SocketShape'
  BY <1>1, <1>2 DEF SocketInv, SocketShape, Live
<1>11. TimerShape' /\ PlainIsDue'
  BY <1>1 DEF SocketInv, TimerShape, PlainIsDue
<1> QED BY <1>8, <1>9, <1>10, <1>11 DEF SocketInv

LEMMA HandOverWaiting ==
  ASSUME SocketInv, inbound # <<>>, HandOver(inbound),
         draining' \in BOOLEAN, depth' \in 0..MaxDepth, posted' \in Nat,
         UNCHANGED <<sock, tls, mode, offered, upgrading, timers, phase, ready, epoch,
                     line, arrived, home, grounds>>
  PROVE  SocketInv'
<1>1. /\ Live /\ line \in Lines /\ arrived[line] \in 0..MaxChunks
      /\ inbound \in Seq(Chunk)
  BY LineTypes DEF SocketInv, SocketTypeOK
<1>2. arrived' = [arrived EXCEPT ![line] = arrived[line]]
  BY <1>1 DEF SocketInv, SocketTypeOK
<1>3. arrived[line] - Len(inbound) = Got
  BY DEF Got
<1>4. \A j \in DOMAIN inbound :
        inbound[j].line = line /\ inbound[j].n = arrived[line] - Len(inbound) + j
  BY DEF SocketInv, InboundNumbered
<1>5. /\ inbound' \in Seq(Chunk) /\ ingress' \in Seq(Chunk)
      /\ handed' \in Seq([line : Lines, n : 1..MaxChunks, epoch : Nat])
      /\ InboundNumbered' /\ HandedNumbered' /\ InOrder'
  BY <1>1, <1>2, <1>3, <1>4, HandedOver
<1>6. SocketTypeOK'
  BY <1>5 DEF SocketInv, SocketTypeOK
<1>7. SocketShape' /\ TimerShape' /\ PlainIsDue'
  BY <1>1 DEF SocketInv, SocketShape, Live, TimerShape, PlainIsDue
<1> QED BY <1>5, <1>6, <1>7 DEF SocketInv

LEMMA DrainStep ==
  ASSUME SocketInv,
         QueuedDrain \/ NextChunk \/ DrainEnds
  PROVE  SocketInv'
<1>1. /\ Len(inbound) \in Nat /\ depth \in 0..MaxDepth /\ posted \in Nat /\ MaxDepth \in Nat
      /\ draining \in BOOLEAN
  BY LineTypes DEF SocketInv, SocketTypeOK
\* A step of the loop alone.
<1>2. ASSUME draining' \in BOOLEAN, depth' \in 0..MaxDepth, posted' \in Nat,
             UNCHANGED <<inbound, handed, ingress>>,
             UNCHANGED <<sock, tls, mode, offered, upgrading, timers, phase, ready, epoch,
                         line, arrived, home, grounds>>
      PROVE  SocketInv'
  <2>1. SocketTypeOK'
    BY <1>2 DEF SocketInv, SocketTypeOK
  <2>2. InboundNumbered' /\ HandedNumbered' /\ InOrder'
    BY <1>2, NumbersStay
  <2>3. SocketShape' /\ TimerShape' /\ PlainIsDue'
    BY <1>2 DEF SocketInv, SocketShape, Live, TimerShape, PlainIsDue
  <2> QED BY <2>1, <2>2, <2>3 DEF SocketInv
<1>3. CASE QueuedDrain
  <2>1. /\ posted' \in Nat
        /\ UNCHANGED <<sock, tls, mode, offered, upgrading, timers, phase, ready, epoch,
                       line, arrived, home, grounds>>
    BY <1>1, <1>3 DEF QueuedDrain, socketVars, tlsVars
  <2>2. CASE draining \/ inbound = <<>>
    BY <1>1, <1>2, <1>3, <2>1, <2>2 DEF QueuedDrain
  <2>3. CASE ~(draining \/ inbound = <<>>)
    <3>1. inbound # <<>> /\ depth < MaxDepth /\ draining' = TRUE /\ depth' = depth + 1
          /\ HandOver(inbound)
      BY <1>3, <2>3 DEF QueuedDrain, StartDrain
    <3> QED BY <1>1, <2>1, <3>1, HandOverWaiting
  <2> QED BY <2>2, <2>3
<1>4. CASE NextChunk
  <2>1. /\ inbound # <<>> /\ HandOver(inbound)
        /\ UNCHANGED <<draining, depth, posted>>
        /\ UNCHANGED <<sock, tls, mode, offered, upgrading, timers, phase, ready, epoch,
                       line, arrived, home, grounds>>
    BY <1>4 DEF NextChunk, socketVars, tlsVars
  <2>2. draining' \in BOOLEAN /\ depth' \in 0..MaxDepth /\ posted' \in Nat
    BY <1>1, <2>1
  <2> QED BY <2>1, <2>2, HandOverWaiting
<1>5. CASE DrainEnds
  <2>1. /\ depth > 0 /\ draining' = FALSE /\ depth' = depth - 1
        /\ posted' = (IF inbound # <<>> THEN posted + 1 ELSE posted)
        /\ UNCHANGED <<inbound, handed, ingress>>
        /\ UNCHANGED <<sock, tls, mode, offered, upgrading, timers, phase, ready, epoch,
                       line, arrived, home, grounds>>
    BY <1>5 DEF DrainEnds, socketVars, tlsVars, worldVars, historyVars
  <2>2. depth' \in 0..MaxDepth
    BY <1>1, <2>1
  <2>3. posted' \in Nat
    BY <1>1, <2>1
  <2> QED BY <1>2, <2>1, <2>2, <2>3
<1> QED BY <1>3, <1>4, <1>5

LEMMA ConnectStep ==
  ASSUME SocketInv, NEW m \in {"plain", "direct", "start"},
         Connect(m)
  PROVE  SocketInv'
<1>1. /\ line < MaxLines /\ line' = line + 1 /\ sock' = "connecting" /\ tls' = "plain"
      /\ phase' = "connecting" /\ ready' = FALSE /\ mode' = m /\ offered' = (m = "start")
      /\ upgrading' = FALSE /\ timers' = Cancelled
      /\ UNCHANGED <<depth, posted, arrived, home, handed, grounds>>
  BY DEF Connect
<1>2. /\ Live => inbound' = <<>> /\ draining' = FALSE /\ epoch' = epoch + 1 /\ ingress' = <<>>
      /\ ~Live => UNCHANGED <<inbound, draining, epoch, ingress>>
  BY DEF Connect, Live
<1>3. line \in Nat /\ line' \in 0..MaxLines /\ line' \in Lines /\ ~Live'
  BY <1>1, LineTypes DEF SocketInv, Lines, Live
<1>4. inbound' = <<>> /\ ingress' = <<>> /\ draining' \in BOOLEAN /\ epoch' \in Nat
  <2>1. epoch \in Nat /\ draining \in BOOLEAN /\ (~Live => inbound = <<>> /\ ingress = <<>>)
    BY DEF SocketInv, SocketShape, SocketTypeOK
  <2>a. epoch + 1 \in Nat
    BY <2>1
  <2>2. CASE Live
    <3>1. inbound' = <<>> /\ draining' = FALSE /\ epoch' = epoch + 1 /\ ingress' = <<>>
      BY <1>2, <2>2
    <3> QED BY <2>a, <3>1
  <2>3. CASE ~Live
    BY <1>2, <2>1, <2>3
  <2> QED BY <2>2, <2>3
<1>5. SocketTypeOK'
  <2>1. <<>> \in Seq(Chunk)
    OBVIOUS
  <2>2. timers' \subseteq [line : Lines, current : BOOLEAN]
    BY <1>1, TimerTypes DEF SocketInv
  <2> QED BY <1>1, <1>3, <1>4, <2>1, <2>2 DEF SocketInv, SocketTypeOK
<1>6. arrived'[line'] = 0
  BY <1>1, <1>3 DEF SocketInv, SocketShape
<1>7. SocketShape'
  <2>1. \A l \in Lines : l > line' => l > line
    BY <1>1, <1>3, LineTypes DEF SocketInv
  <2> QED BY <1>1, <1>3, <1>4, <1>6, <2>1 DEF SocketInv, SocketShape
<1>8. InboundNumbered'
  BY <1>4 DEF InboundNumbered
<1>9. HandedNumbered'
  <2>1. ASSUME NEW i \in DOMAIN handed
        PROVE  handed[i].line <= line' /\ handed[i].line # line'
    <3>1. handed[i].line \in Nat /\ handed[i].line <= line
      BY HandedTypes, LineTypes DEF SocketInv, HandedNumbered
    <3> QED BY <1>1, <1>3, <3>1
  <2> QED BY <1>1, <1>3, <2>1 DEF HandedNumbered
<1>10. InOrder'
  BY <1>1 DEF SocketInv, InOrder
<1>11. TimerShape'
  BY <1>1, TimerTypes DEF SocketInv, TimerShape
<1> QED BY <1>1, <1>5, <1>7, <1>8, <1>9, <1>10, <1>11 DEF SocketInv, PlainIsDue

\* The socket fails before it is connected, or is closed, without a word.
LEMMA QuietEnd ==
  ASSUME SocketInv, sock # "none",
         (sock = "connecting" /\ sock' = "none") \/ (sock = "open" /\ sock' \in {"open", "closing"}),
         phase' \in {"down", "connecting", "up", "closing"},
         timers' = timers \/ timers' = Cancelled,
         UNCHANGED <<tls, inbound, draining, depth, posted, mode, offered, upgrading, ready,
                     epoch, ingress, line, arrived, home, handed, grounds>>
  PROVE  SocketInv'
<1>1. timers' \subseteq [line : Lines, current : BOOLEAN]
  BY TimerTypes DEF SocketInv, SocketTypeOK
<1>2. SocketTypeOK'
  BY <1>1 DEF SocketInv, SocketTypeOK
<1>3. line # 0 /\ (Live' <=> Live) /\ sock' # "connecting"
  BY DEF SocketInv, SocketShape, Live
<1>4. SocketShape'
  BY <1>3 DEF SocketInv, SocketShape
<1>5. TimerShape'
  <2>1. \A t \in timers' : t.current => t \in timers
    BY TimerTypes DEF SocketInv
  <2> QED BY <1>3, <2>1 DEF SocketInv, TimerShape
<1>6. InboundNumbered' /\ HandedNumbered' /\ InOrder' /\ PlainIsDue'
  BY <1>3 DEF SocketInv, InboundNumbered, HandedNumbered, Got, InOrder, PlainIsDue
<1> QED BY <1>2, <1>4, <1>5, <1>6 DEF SocketInv

\* A connection begins, by itself or taken over from before a reload.
LEMMA LineBegins ==
  ASSUME SocketInv, sock # "open", line' \in 1..MaxLines,
         \/ sock = "connecting" /\ line' = line
         \/ line = 0 /\ line' = 1,
         sock' = "open", epoch' = epoch + 1, home' = [home EXCEPT ![line'] = epoch + 1],
         tls' \in {"plain", "handshake", "encrypted"}, phase' \in {"down", "connecting", "up", "closing"},
         ready' \in BOOLEAN, grounds' \in {"none", "denied", "silence"},
         timers' = timers \/ (timers' = Armed /\ tls' = "plain" /\ mode = "start"),
         ready' /\ mode = "start" => tls' = "encrypted",
         ingress' = <<>>,
         UNCHANGED <<inbound, draining, depth, posted, mode, offered, upgrading, arrived, handed>>
  PROVE  SocketInv'
<1>1. ~Live /\ Live' /\ line' \in Lines /\ (line = 0 => sock = "none")
  BY DEF SocketInv, SocketShape, Live, Lines
<1>2. inbound = <<>> /\ Len(inbound) = 0 /\ arrived[line'] = 0
  <2>1. inbound = <<>>
    BY <1>1 DEF SocketInv, SocketShape
  <2> QED BY <1>1, <2>1, LineTypes DEF SocketInv, SocketShape
<1>3. SocketTypeOK'
  <2>1. timers' \subseteq [line : Lines, current : BOOLEAN]
    <3>1. line \in Lines \/ line = 0
      BY <1>1
    <3>2. line = 0 => mode = "plain"
      BY DEF SocketInv, SocketShape
    <3> QED BY <3>1, <3>2, TimerTypes DEF SocketInv, SocketTypeOK
  <2>2. home' \in [Lines -> Nat] /\ epoch' \in Nat
    BY <1>1 DEF SocketInv, SocketTypeOK
  <2>3. <<>> \in Seq(Chunk) /\ line' \in 0..MaxLines
    BY LineTypes DEF SocketInv
  <2> QED BY <2>1, <2>2, <2>3 DEF SocketInv, SocketTypeOK
<1>4. SocketShape'
  <2>1. home'[line'] = epoch' /\ line' # 0
    BY <1>1 DEF SocketInv, SocketTypeOK
  <2>2. \A l \in Lines : l > line' => l > line
    BY <1>1, LineTypes DEF SocketInv
  <2>3. \A l \in Lines : l > line' => arrived[l] = 0
    BY <2>2 DEF SocketInv, SocketShape
  <2> QED BY <1>1, <2>1, <2>3 DEF SocketShape
<1>5. \A i \in DOMAIN handed : handed[i].line \in Lines /\ handed[i].line # line'
  <2>1. line' > line \/ (line' = line /\ ~Live)
    BY <1>1
  <2> QED BY <1>1, <1>2, <2>1, NothingOfThisLine
<1>6. InboundNumbered'
  BY <1>2 DEF InboundNumbered
<1>7. HandedNumbered'
  <2>0. Len(inbound') = 0 /\ arrived'[line'] = 0
    BY <1>2
  <2>1. Got' = 0
    BY <2>0 DEF Got
  <2>2. \A i \in DOMAIN handed : handed[i].line <= line'
    <3>1. \A i \in DOMAIN handed : handed[i].line <= line /\ handed[i].line \in Nat
      BY <1>5, LineTypes DEF SocketInv, HandedNumbered
    <3>2. line <= line' /\ line \in Nat /\ line' \in Nat
      BY <1>1, LineTypes DEF SocketInv
    <3> QED BY <3>1, <3>2
  <2> QED BY <1>5, <2>1, <2>2 DEF HandedNumbered
<1>8. InOrder'
  <2>1. \A i \in DOMAIN handed : home'[handed[i].line] = home[handed[i].line]
    BY <1>5 DEF SocketInv, SocketTypeOK
  <2> QED BY <2>1 DEF SocketInv, InOrder
<1>9. TimerShape'
  <2>1. CASE timers' = timers
    <3>1. \A t \in timers : ~t.current
      <4>1. line = 0 => timers = {}
        BY DEF SocketInv, SocketShape
      <4>2. sock = "connecting" => \A t \in timers : ~t.current
        BY DEF SocketInv, TimerShape
      <4> QED BY <4>1, <4>2
    <3> QED BY <2>1, <3>1 DEF TimerShape
  <2>2. CASE timers' = Armed /\ tls' = "plain" /\ mode = "start"
    <3>1. line' = line
      BY <2>2 DEF SocketInv, SocketShape
    <3> QED BY <2>2, <3>1, TimerTypes DEF SocketInv, TimerShape
  <2> QED BY <2>1, <2>2
<1>10. PlainIsDue'
  BY DEF PlainIsDue
<1> QED BY <1>3, <1>4, <1>6, <1>7, <1>8, <1>9, <1>10 DEF SocketInv

LEMMA ConnectedStep ==
  ASSUME SocketInv, Connected \/ ConnectedInVain \/ Adopt
  PROVE  SocketInv'
<1>2. CASE Connected
  <2>1. /\ sock = "connecting" /\ sock' = "open" /\ epoch' = epoch + 1 /\ ingress' = <<>>
        /\ home' = [home EXCEPT ![line] = epoch + 1] /\ grounds' = "none"
        /\ UNCHANGED <<inbound, draining, depth, posted, mode, offered, upgrading, line, arrived, handed>>
    BY <1>2 DEF Connected, drainVars
  <2>2. line' \in 1..MaxLines /\ ~ready /\ phase \in {"down", "connecting", "up", "closing"}
        /\ tls \in {"plain", "handshake", "encrypted"}
    BY <2>1, LineTypes DEF SocketInv, Lines, SocketShape, Live, SocketTypeOK
  <2>3. CASE mode = "start"
    <3>1. timers' = Armed /\ UNCHANGED <<phase, ready, tls>>
      BY <1>2, <2>3 DEF Connected
    <3>2. tls = "plain"
      BY <2>1 DEF SocketInv, SocketShape, Live
    <3>3. /\ sock # "open" /\ ready' = FALSE /\ tls' = "plain" /\ ready' \in BOOLEAN
          /\ phase' \in {"down", "connecting", "up", "closing"}
      BY <2>1, <2>2, <3>1, <3>2 DEF SocketInv, SocketTypeOK
    <3> QED BY <2>1, <2>2, <2>3, <3>1, <3>3, LineBegins
  <2>4. CASE mode # "start"
    <3>1. /\ phase' = "up" /\ ready' = TRUE /\ UNCHANGED timers
          /\ tls' \in {"plain", "handshake"}
      BY <1>2, <2>4 DEF Connected
    <3> QED BY <2>1, <2>2, <2>4, <3>1, LineBegins
  <2> QED BY <2>3, <2>4
<1>3. CASE ConnectedInVain
  <2>1. /\ sock = "connecting" /\ LineEnds(epoch + 1)
        /\ home' = [home EXCEPT ![line] = epoch + 1] /\ grounds' = "none"
        /\ UNCHANGED <<offered, line, arrived, handed>>
    BY <1>3 DEF ConnectedInVain
  <2>2. /\ line \in Lines /\ ~Live /\ arrived[line] = 0
        /\ epoch + 1 \in Nat /\ offered \in BOOLEAN
    BY <2>1, LineTypes DEF SocketInv, SocketShape, Live, SocketTypeOK
  <2>3. \A i \in DOMAIN handed : handed[i].line \in Lines /\ handed[i].line # line
    BY <2>2, NothingOfThisLine
  <2>4. /\ \A i \in DOMAIN handed : home'[handed[i].line] = home[handed[i].line]
        /\ home' \in [Lines -> Nat]
    BY <2>1, <2>2, <2>3 DEF SocketInv, SocketTypeOK
  <2> QED BY <2>1, <2>2, <2>4, LineEndsStep
<1>4. CASE Adopt
  <2>1. /\ line = 0 /\ MaxLines > 0 /\ line' = 1 /\ sock' = "open" /\ phase' = "up" /\ ready' = TRUE
        /\ epoch' = epoch + 1 /\ home' = [home EXCEPT ![1] = epoch + 1]
        /\ UNCHANGED <<tls, inbound, draining, depth, posted, mode, offered, upgrading, timers,
                       ingress, arrived, handed, grounds>>
    BY <1>4 DEF Adopt, drainVars, tlsVars
  <2>2. /\ sock = "none" /\ mode = "plain" /\ ingress = <<>> /\ 1 \in 1..MaxLines
        /\ tls \in {"plain", "handshake", "encrypted"} /\ grounds \in {"none", "denied", "silence"}
    BY <2>1, LineTypes DEF SocketInv, SocketShape, Live, SocketTypeOK
  <2> QED BY <2>1, <2>2, LineBegins
<1> QED BY <1>2, <1>3, <1>4

LEMMA CloseStep ==
  ASSUME SocketInv, CloseSocket, UNCHANGED <<offered>>,
         UNCHANGED historyVars
  PROVE  SocketInv'
<1>1. UNCHANGED <<line, arrived, home, handed, grounds>> /\ SocketTypeOK
  BY DEF historyVars, SocketInv
<1>2. CASE sock \in {"open", "closing"} /\ LineEnds(epoch)
  BY <1>1, <1>2, LineEndsStep DEF SocketTypeOK
<1>3. CASE /\ sock \in {"open", "connecting"}
           /\ sock' = IF sock = "open" THEN "closing" ELSE "none"
           /\ phase' = "closing" /\ timers' = Cancelled
           /\ UNCHANGED <<tls, drainVars, mode, upgrading, ready, epoch, ingress>>
  <2>1. /\ UNCHANGED <<tls, inbound, draining, depth, posted, mode, offered, upgrading, ready,
                       epoch, ingress, line, arrived, home, handed, grounds>>
        /\ (sock = "connecting" /\ sock' = "none") \/ (sock = "open" /\ sock' \in {"open", "closing"})
        /\ sock # "none" /\ phase' \in {"down", "connecting", "up", "closing"}
        /\ timers' = timers \/ timers' = Cancelled
    BY <1>1, <1>3 DEF drainVars
  <2> QED BY <2>1, QuietEnd
<1> QED BY <1>2, <1>3 DEF CloseSocket

LEMMA DisconnectStep ==
  ASSUME SocketInv,
         \/ ConnectFails \/ Disconnect
         \/ DeferredDisconnect \/ Disconnected
  PROVE  SocketInv'
<1>1. CASE ConnectFails
  <2>1. /\ sock = "connecting" /\ sock' = "none"
        /\ phase' \in {"down", "connecting", "up", "closing"} /\ timers' = timers
        /\ UNCHANGED <<tls, inbound, draining, depth, posted, mode, offered, upgrading, ready,
                       epoch, ingress, line, arrived, home, handed, grounds>>
    BY <1>1 DEF ConnectFails, drainVars, tlsVars, historyVars
  <2> QED BY <2>1, QuietEnd
<1>2. CASE Disconnect
  <2>1. offered' = offered /\ UNCHANGED historyVars
    BY <1>2 DEF Disconnect
  <2>2. CASE CloseSocket
    BY <2>1, <2>2, CloseStep
  <2>3. CASE /\ sock = "open" /\ phase' = "closing" /\ timers' = Cancelled
             /\ UNCHANGED <<socketVars, drainVars, mode, upgrading, ready, epoch, ingress>>
    <3>1. /\ sock = "open" /\ sock' \in {"open", "closing"}
          /\ phase' \in {"down", "connecting", "up", "closing"} /\ timers' = Cancelled
          /\ UNCHANGED <<tls, inbound, draining, depth, posted, mode, offered, upgrading, ready,
                         epoch, ingress, line, arrived, home, handed, grounds>>
      BY <2>1, <2>3 DEF socketVars, drainVars, historyVars
    <3> QED BY <3>1, QuietEnd
  <2> QED BY <1>2, <2>2, <2>3 DEF Disconnect
<1>3. CASE DeferredDisconnect
  BY <1>3, CloseStep DEF DeferredDisconnect
<1>4. CASE Disconnected
  <2>1. /\ sock # "none" /\ LineEnds(epoch)
        /\ UNCHANGED <<offered, line, arrived, home, handed, grounds>>
    BY <1>4 DEF Disconnected, historyVars
  <2>2. SocketTypeOK
    BY DEF SocketInv
  <2> QED BY <2>1, <2>2, LineEndsStep DEF SocketTypeOK
<1> QED BY <1>1, <1>2, <1>3, <1>4

LEMMA TimerStep ==
  ASSUME SocketInv, NEW t \in timers, TimerFires(t)
  PROVE  SocketInv'
<1>1. timers \ {t} \in SUBSET [line : Lines, current : BOOLEAN]
  BY DEF SocketInv, SocketTypeOK
<1>2. UNCHANGED <<line, arrived, home, handed>> /\ SocketTypeOK
  BY DEF TimerFires, SocketInv
<1>3. CASE Due(t)
  <2>1. /\ Finalize(timers \ {t}, tls, ingress) /\ offered' = FALSE
        /\ grounds' = IF t.line = line /\ tls = "plain" THEN "silence" ELSE grounds
    BY <1>3 DEF TimerFires
  <2>2. Live /\ t.line = line /\ tls = "plain"
    BY <1>3 DEF Due, Live, SocketInv, TimerShape
  <2>3. grounds' = "silence"
    BY <2>1, <2>2
  <2>4. \A u \in timers \ {t} : u.current => u \in timers /\ tls = tls
    OBVIOUS
  <2>5. tls \in {"plain", "handshake", "encrypted"} /\ ingress \in Seq(Chunk)
    BY <1>2 DEF SocketTypeOK
  <2> QED BY <1>1, <1>2, <2>1, <2>2, <2>3, <2>4, <2>5, FinalizeStep
<1>4. CASE ~Due(t)
  <2>1. /\ timers' = timers \ {t}
        /\ UNCHANGED <<sock, tls, inbound, draining, depth, posted, mode, offered, upgrading,
                       phase, ready, epoch, ingress, grounds>>
    BY <1>4 DEF TimerFires, socketVars, drainVars, worldVars
  <2>2. SocketTypeOK'
    BY <1>1, <1>2, <2>1 DEF SocketTypeOK
  <2>3. InboundNumbered' /\ HandedNumbered' /\ InOrder'
    BY <1>2, <2>1, NumbersStay
  <2>4. SocketShape' /\ TimerShape' /\ PlainIsDue'
    BY <1>2, <2>1 DEF SocketInv, SocketShape, Live, TimerShape, PlainIsDue
  <2> QED BY <2>2, <2>3, <2>4 DEF SocketInv
<1> QED BY <1>3, <1>4

LEMMA ProcessStep ==
  ASSUME SocketInv, Process
  PROVE  SocketInv'
<1>1. ingress # <<>> /\ Live /\ SocketTypeOK /\ sock # "connecting"
  BY DEF Process, SocketInv, SocketShape, Live
<1>2. Tail(ingress) \in Seq(Chunk)
  BY <1>1 DEF SocketTypeOK
<1>3. CASE Denied
  <2>1. /\ Finalize(Cancelled, tls, Tail(ingress)) /\ offered' = FALSE
        /\ grounds' = "denied" /\ UNCHANGED <<line, arrived, home, handed>>
    BY <1>3 DEF Denied
  <2>2. /\ Cancelled \in SUBSET [line : Lines, current : BOOLEAN]
        /\ \A u \in Cancelled : u.current => u \in timers /\ tls = tls
    BY <1>1, TimerTypes
  <2>3. tls \in {"plain", "handshake", "encrypted"}
    BY <1>1 DEF SocketTypeOK
  <2> QED BY <1>1, <1>2, <2>1, <2>2, <2>3, FinalizeStep
<1>4. CASE Accepted
  <2>1. /\ tls # "encrypted" /\ upgrading' = TRUE /\ timers' = Cancelled
        /\ tls' = "handshake" /\ ingress' = Tail(ingress)
        /\ UNCHANGED <<sock, inbound, draining, depth, posted, mode, offered, phase, ready, epoch,
                       line, arrived, home, handed, grounds>>
    BY <1>4 DEF Accepted, Answers, drainVars, historyVars
  <2>2. SocketTypeOK'
    BY <1>1, <1>2, <2>1, TimerTypes DEF SocketTypeOK
  <2>3. InboundNumbered' /\ HandedNumbered' /\ InOrder'
    BY <2>1, NumbersStay
  <2>4. TimerShape'
    BY <1>1, <2>1, TimerTypes DEF TimerShape
  <2>5. SocketShape' /\ PlainIsDue'
    BY <1>1, <2>1 DEF SocketInv, SocketShape, Live, PlainIsDue
  <2> QED BY <2>2, <2>3, <2>4, <2>5 DEF SocketInv
<1>5. CASE ingress' = Tail(ingress)
           /\ UNCHANGED <<socketVars, drainVars, tlsVars, phase, ready, epoch,
                          historyVars>>
  <2>1. UNCHANGED <<sock, tls, inbound, draining, depth, posted, mode, offered, upgrading, timers,
                    phase, ready, epoch, line, arrived, home, handed, grounds>>
    BY <1>5 DEF socketVars, drainVars, tlsVars, historyVars
  <2>2. SocketTypeOK'
    BY <1>1, <1>2, <1>5, <2>1 DEF SocketTypeOK
  <2>3. InboundNumbered' /\ HandedNumbered' /\ InOrder'
    BY <2>1, NumbersStay
  <2>4. SocketShape' /\ TimerShape' /\ PlainIsDue'
    BY <1>1, <2>1 DEF SocketInv, SocketShape, Live, TimerShape, PlainIsDue
  <2> QED BY <2>2, <2>3, <2>4 DEF SocketInv
<1> QED BY <1>3, <1>4, <1>5 DEF Process

LEMMA EncryptedStep ==
  ASSUME SocketInv, Encrypted
  PROVE  SocketInv'
<1>1. /\ Live /\ Finalize(Cancelled, "encrypted", ingress) /\ SocketTypeOK
      /\ UNCHANGED <<offered, line, arrived, home, handed, grounds>>
  BY DEF Encrypted, Live, historyVars, SocketInv
<1>2. /\ Cancelled \in SUBSET [line : Lines, current : BOOLEAN]
      /\ \A u \in Cancelled : ~u.current
  BY <1>1, TimerTypes
<1>3. /\ ingress \in Seq(Chunk) /\ offered' \in BOOLEAN
      /\ grounds' \in {"none", "denied", "silence"}
  BY <1>1 DEF SocketTypeOK
<1> QED BY <1>1, <1>2, <1>3, FinalizeStep

LEMMA SocketSteps == SocketInv /\ [SocketNext]_(connectionVars) => SocketInv'
<1> SUFFICES ASSUME SocketInv, [SocketNext]_(connectionVars) PROVE SocketInv'
  OBVIOUS
<1>1. CASE UNCHANGED connectionVars
  <2>1. UNCHANGED <<sock, tls, inbound, draining, depth, posted, mode, offered, upgrading, timers,
                    phase, ready, epoch, ingress, line, arrived, home, handed, grounds>>
    BY <1>1 DEF connectionVars, socketVars, drainVars, tlsVars,
       worldVars, historyVars
  <2>2. SocketTypeOK'
    BY <2>1 DEF SocketTypeOK, SocketInv
  <2>3. InboundNumbered' /\ HandedNumbered' /\ InOrder'
    BY <2>1, NumbersStay
  <2>4. SocketShape' /\ TimerShape' /\ PlainIsDue'
    BY <2>1 DEF SocketInv, SocketShape, Live, TimerShape, PlainIsDue
  <2> QED BY <2>2, <2>3, <2>4 DEF SocketInv
<1>2. CASE SocketNext
  <2>1. ASSUME NEW kind \in Kinds, Receive(kind) PROVE SocketInv'
    BY <2>1, ReceiveStep
  <2>2. ASSUME NEW m \in {"plain", "direct", "start"}, Connect(m) PROVE SocketInv'
    BY <2>2, ConnectStep
  <2>3. ASSUME NEW t \in timers, TimerFires(t) PROVE SocketInv'
    BY <2>3, TimerStep
  <2> QED BY <1>2, <2>1, <2>2, <2>3, DrainStep, ConnectedStep, DisconnectStep, ProcessStep,
             EncryptedStep DEF SocketNext
<1> QED BY <1>1, <1>2

-----------------------------------------------------------------------------
(* The inductive invariant of the socket, with its types.                   *)
THEOREM SocketInvariant == SocketSpec => []SocketInv
<1>1. SocketInit => SocketInv
  BY SocketStarts
<1>2. SocketInv /\ [SocketNext]_(connectionVars) => SocketInv'
  BY SocketSteps
<1> QED BY <1>1, <1>2, PTL DEF SocketSpec

\* What a connection received is handed over in order, without a gap, and under the
\* epoch of that connection, however drains nest and end under each other's handlers
\* (WorldSocket.cpp, drainPendingReads and onDisconnected).
THEOREM HandedOverInOrder == SocketSpec => []InOrder
<1>1. SocketInv => InOrder
  BY DEF SocketInv
<1> QED BY <1>1, SocketInvariant, PTL

\* A START-TLS world goes on in the clear only when this connection's server refused or
\* let its time pass (WorldRuntime.cpp, startStartTlsFallbackTimer).
THEOREM PlainOnlyWithGrounds == SocketSpec => []PlainIsDue
<1>1. SocketInv => PlainIsDue
  BY DEF SocketInv
<1> QED BY <1>1, SocketInvariant, PTL
=============================================================================
