-------------------------- MODULE TelnetNegotiation --------------------------
(***************************************************************************)
(* The option negotiation of src/src/TelnetProcessor.cpp and its automatic *)
(* protection from renegotiation loops.  A peer may send any verb for any  *)
(* option at any time.  A loop of replies is broken in two steps: at Limit *)
(* attempts within Window the bucket of the option awaits the outcome that *)
(* the last positive verb reached ("settlement"), then every verb is       *)
(* dropped for Suppression.                                                *)
(*                                                                         *)
(* A time stamp t is modelled by its age, now - t, up to the age at which  *)
(* the code stops telling ages apart; the end of a suppression by the time *)
(* that is left to it.                                                     *)
(***************************************************************************)
EXTENDS Integers, Sequences, FiniteSets

CONSTANTS Buckets,       \* the directions and options the peer negotiates
          Limit,         \* kRenegotiationAttemptLimit
          Window,        \* kRenegotiationWindowMilliseconds, in ticks
          Suppression    \* kRenegotiationSuppressionMilliseconds, in ticks

\* Options that differ in what decides about them.  SGA stands for those that
\* are always taken, PLUGIN for those about which only plugins are asked.
Known == {"SGA", "ECHO", "MSP", "NAWS", "MXP", "EOR", "COMPRESS", "COMPRESS2", "PLUGIN"}

ASSUME GuardAssumption ==
    /\ Buckets \subseteq {"server", "client"} \X Known
    /\ Limit \in Nat \ {0} /\ Window \in Nat \ {0} /\ Suppression \in Nat \ {0}

Options == {b[2] : b \in Buckets} \cup {"COMPRESS2"}   \* disable_compression is for all
Old == Window + 1              \* an age that is beyond the window
Idle == -1                     \* no suppression

VARIABLES
    protect,     \* m_automaticRenegotiationLoopProtection
    once,        \* m_negotiateOptionsOnce
    seen,        \* m_seenWillWontOption, m_seenDoDontOption
    setting,     \* the settings that let an option be taken
    mccp2,       \* m_supportsMccp2
    bucket,      \* m_negotiation...: what the protection keeps of each bucket
    flag,        \* m_noEcho, m_mspNegotiated, m_nawsWanted
    last         \* history: how the bucket's last verb was dealt with

vars == <<protect, once, seen, setting, mccp2, bucket, flag, last>>

Clear == [attempts |-> <<>>, left |-> Idle, awaiting |-> FALSE, desired |-> "unknown", age |-> 0]
Bucket == [attempts : Seq(0..Old), left : Idle..Suppression, awaiting : BOOLEAN,
           desired : {"unknown", "enabled", "refused"}, age : 0..Old]

Outcome(enabled) == IF enabled THEN "enabled" ELSE "refused"
-----------------------------------------------------------------------------
(* What a verb does to the option. *)

\* Whether a WILL for option o is taken; of the others a plugin decides.
WillOutcomes(o) ==
    {e \in BOOLEAN :
        /\ o = "SGA" => e
        /\ o \in {"ECHO", "MSP", "MXP", "EOR", "COMPRESS2"} => (e <=> setting[o])
        /\ o = "COMPRESS" => (e <=> setting["COMPRESS2"] /\ ~mccp2)}

\* Whether a DO for option o is taken; of the others a plugin decides.
DoOutcomes(o) ==
    {e \in BOOLEAN :
        /\ o \in {"SGA", "ECHO"} => e
        /\ o \in {"NAWS", "MXP"} => (e <=> setting[o])
        /\ o = "MSP" => ~e}

\* Outcomes of a verb in a direction; a negative one takes nothing.
Outcomes(b, positive) ==
    IF ~positive THEN {FALSE}
    ELSE IF b[1] = "server" THEN WillOutcomes(b[2]) ELSE DoOutcomes(b[2])

\* The options whose flag a negative verb puts out.
Withdraws(b) ==
    {o \in {"ECHO", "MSP", "NAWS"} :
        /\ b[2] = o
        /\ o # "NAWS" => b[1] = "server"
        /\ o = "ECHO" => setting["ECHO"]}

\* The options whose flag a verb that is taken lights.
Lights(b) == {b[2]} \cap IF b[1] = "server" THEN {"ECHO", "MSP"} ELSE {"NAWS"}

\* The flags after a verb was handled.
FlagsAfter(b, positive, enabled) ==
    [o \in Options |-> IF enabled /\ o \in Lights(b) THEN TRUE
                       ELSE IF ~positive /\ o \in Withdraws(b) THEN FALSE
                       ELSE flag[o]]

\* The buckets a handler clears: the first WILL COMPRESS2 makes COMPRESS obsolete.
Obsoletes(b, enabled) ==
    IF b = <<"server", "COMPRESS2">> /\ enabled /\ ~mccp2
    THEN {<<"server", "COMPRESS">>} \cap Buckets ELSE {}
-----------------------------------------------------------------------------
(* The protection. *)

\* A bucket as an attempt finds it: a suppression that is over is forgotten.
Reopened(k) == IF k.left = 0 THEN Clear ELSE k

\* The leading attempts that are beyond the window are dropped.
Recent(s) ==
    SubSeq(s, Cardinality({i \in 1..Len(s) : \A j \in 1..i : s[j] = Old}) + 1, Len(s))

\* recordNegotiationAttempt of a bucket that is not suppressed.
Recorded(k) ==
    IF k.awaiting THEN k
    ELSE LET tried == Append(Recent(k.attempts), 0)
         IN [k EXCEPT !.attempts = tried,
                      !.awaiting = Len(tried) >= Limit,
                      !.desired = IF k.age = Old THEN "unknown" ELSE k.desired,
                      !.age = IF k.age = Old THEN 0 ELSE k.age]

\* Mutant: an outcome is recorded of positive verbs only, so one that is never
\* asked for is awaited for ever.
Desired_PositiveOnly(k, positive, enabled) ==
    IF positive THEN [k EXCEPT !.desired = Outcome(enabled), !.age = 0] ELSE k

\* The outcome the bucket settles on: that of a positive verb, or the first one.
Desired(k, positive, enabled) ==
    IF positive \/ (k.awaiting /\ k.desired = "unknown")
    THEN [k EXCEPT !.desired = Outcome(enabled), !.age = 0] ELSE k

\* Mutant: the protection settles at the limit, whatever the outcome is.
Finished_AtLimit(k, positive, enabled) ==
    LET d == Desired(k, positive, enabled)
    IN IF d.awaiting
       THEN [d EXCEPT !.attempts = <<>>, !.awaiting = FALSE, !.left = Suppression]
       ELSE d

\* finishNegotiationAttempt: a bucket that awaits its outcome and has it is suppressed.
Finished(k, positive, enabled) ==
    LET d == Desired(k, positive, enabled)
    IN IF d.awaiting /\ d.desired = Outcome(enabled)
       THEN [d EXCEPT !.attempts = <<>>, !.awaiting = FALSE, !.left = Suppression]
       ELSE d
-----------------------------------------------------------------------------
Unanswered == [verb |-> "none", by |-> "nobody"]
Verb(positive) == IF positive THEN "positive" ELSE "negative"

Init ==
    /\ protect \in BOOLEAN /\ once \in BOOLEAN
    /\ seen = {}
    /\ setting \in [Options -> BOOLEAN]
    /\ mccp2 = FALSE
    /\ bucket = [b \in Buckets |-> Clear]
    /\ flag = [o \in Options |-> FALSE]
    /\ last = [b \in Buckets |-> Unanswered]

\* A verb that is answered: recorded and finished where the protection is on.
Answer(b, positive, enabled) ==
    LET done == Finished(Recorded(Reopened(bucket[b])), positive, enabled)
    IN /\ enabled \in Outcomes(b, positive)
       /\ ~protect => ~(once /\ b \in seen)
       /\ bucket' = [c \in Buckets |->
             IF c \in Obsoletes(b, enabled) THEN Clear
             ELSE IF c = b /\ protect THEN done ELSE bucket[c]]
       /\ flag' = FlagsAfter(b, positive, enabled)
       /\ mccp2' = (mccp2 \/ (b = <<"server", "COMPRESS2">> /\ enabled))
       /\ seen' = seen \cup {b}
       /\ last' = [last EXCEPT ![b] = [verb |-> Verb(positive), by |-> Outcome(enabled)]]
       /\ UNCHANGED <<protect, once, setting>>

\* HAVE_WILL, HAVE_WONT, HAVE_DO, HAVE_DONT of a bucket that is not suppressed.
Negotiate(b, positive) ==
    /\ protect => bucket[b].left <= 0
    /\ \E enabled \in BOOLEAN : Answer(b, positive, enabled)

\* Mutant: a verb that is dropped prolongs the suppression.
Drop_Prolongs(b, positive) ==
    /\ \/ protect /\ bucket[b].left > 0
       \/ ~protect /\ once /\ b \in seen
    /\ last' = [last EXCEPT ![b] = [verb |-> Verb(positive), by |-> "nobody"]]
    /\ bucket' = [bucket EXCEPT ![b].left = IF protect THEN Suppression ELSE @]
    /\ UNCHANGED <<protect, once, seen, setting, mccp2, flag>>

\* A verb that is dropped, as one too many or because it was seen before.
Drop(b, positive) ==
    /\ \/ protect /\ bucket[b].left > 0
       \/ ~protect /\ once /\ b \in seen
    /\ last' = [last EXCEPT ![b] = [verb |-> Verb(positive), by |-> "nobody"]]
    /\ UNCHANGED <<protect, once, seen, setting, mccp2, bucket, flag>>

\* m_negotiationClock goes on.
Tick ==
    /\ bucket' = [b \in Buckets |->
          [bucket[b] EXCEPT
             !.attempts = [i \in DOMAIN @ |-> IF @[i] < Old THEN @[i] + 1 ELSE Old],
             !.left = IF @ > 0 THEN @ - 1 ELSE @,
             !.age = IF @ < Old /\ bucket[b].desired # "unknown" THEN @ + 1 ELSE @]]
    /\ UNCHANGED <<protect, once, seen, setting, mccp2, flag, last>>
-----------------------------------------------------------------------------
(* Settings, and the end of a connection. *)

\* The buckets a setting clears when it changes.
GovernedBy(o) ==
    {b \in Buckets : \/ b = <<"server", o>> /\ o # "NAWS"
                     \/ b = <<"client", o>> /\ o \in {"NAWS", "MXP"}
                     \/ b = <<"server", "COMPRESS">> /\ o = "COMPRESS2"}

ClearBuckets(bs) ==
    bucket' = [b \in Buckets |-> IF b \in bs THEN Clear ELSE bucket[b]]

\* setNoEchoOff, setConvertGAtoNewline, setMspAvailable, setNawsEnabled, setUseMxp,
\* setDisableCompression; MSP and NAWS are also given up when they are switched off.
ChangeSetting(o) ==
    /\ o \in Options \cap {"ECHO", "EOR", "MSP", "NAWS", "MXP", "COMPRESS2"}
    /\ setting' = [setting EXCEPT ![o] = ~@]
    /\ ClearBuckets(GovernedBy(o))
    /\ flag' = [flag EXCEPT ![o] = IF o \in {"MSP", "NAWS"} THEN @ /\ ~setting[o] ELSE @]
    /\ UNCHANGED <<protect, once, seen, mccp2, last>>

\* setAutomaticRenegotiationLoopProtection, to the other value.
ChangeProtection ==
    /\ protect' = ~protect
    /\ seen' = {}
    /\ ClearBuckets(Buckets)
    /\ UNCHANGED <<once, setting, mccp2, flag, last>>

\* setNegotiateOptionsOnce, to the other value.
ChangeOnce ==
    /\ once' = ~once
    /\ seen' = {}
    /\ UNCHANGED <<protect, setting, mccp2, bucket, flag, last>>

\* resetConnectionState.
ResetConnection ==
    /\ seen' = {}
    /\ mccp2' = FALSE
    /\ ClearBuckets(Buckets)
    /\ flag' = [o \in Options |-> FALSE]
    /\ last' = [b \in Buckets |-> Unanswered]
    /\ UNCHANGED <<protect, once, setting>>

\* restoreNawsNegotiatedState, restoreMspNegotiatedState of a connection that is
\* adopted: right after it was reset.
Restore(o) ==
    /\ o \in Options \cap {"MSP", "NAWS"}
    /\ setting[o]
    /\ \A b \in Buckets : bucket[b] = Clear
    /\ flag' = [flag EXCEPT ![o] = TRUE]
    /\ UNCHANGED <<protect, once, seen, setting, mccp2, bucket, last>>

Peer(b) == \E positive \in BOOLEAN : Negotiate(b, positive) \/ Drop(b, positive)

Next ==
    \/ \E b \in Buckets : Peer(b)
    \/ Tick
    \/ \E o \in Options : ChangeSetting(o) \/ Restore(o)
    \/ ChangeProtection \/ ChangeOnce \/ ResetConnection

Spec == Init /\ [][Next]_vars
-----------------------------------------------------------------------------
TypeOK ==
    /\ protect \in BOOLEAN /\ once \in BOOLEAN /\ mccp2 \in BOOLEAN
    /\ seen \subseteq Buckets
    /\ setting \in [Options -> BOOLEAN]
    /\ flag \in [Options -> BOOLEAN]
    /\ bucket \in [Buckets -> Bucket]
    /\ last \in [Buckets -> [verb : {"none", "positive", "negative"},
                             by : {"nobody", "enabled", "refused"}]]

Suppressed(b) == bucket[b].left # Idle

\* While verbs are dropped, the option is as the last positive verb left it: an
\* option that settled as taken is in effect, one that settled as refused is not.
\* (With ECHO ignored, the flag stays as it was when the setting changed; NAWS is
\* also withdrawn by a WONT, which has a bucket of its own.)
SettledState ==
    \A b \in Buckets : Suppressed(b) =>
        /\ (b \in {<<"server", "ECHO">>, <<"server", "MSP">>} /\ bucket[b].desired = "enabled")
              => flag[b[2]]
        /\ (b \in {<<"server", "ECHO">>, <<"server", "MSP">>, <<"client", "NAWS">>}
              /\ bucket[b].desired = "refused" /\ (b[2] = "ECHO" => setting["ECHO"]))
              => ~flag[b[2]]

\* A bucket that reached the limit goes on being answered for one reason only:
\* the option was taken last, and the verb just answered withdrew it.
AwaitsOnlyAnAcceptance ==
    \A b \in Buckets : bucket[b].awaiting =>
        /\ bucket[b].desired = "enabled"
        /\ last[b] = [verb |-> "negative", by |-> "refused"]

\* A peer that keeps asking is answered again, however often it asks while its
\* verbs are dropped.
PeerIsHeardAgain == \A b \in Buckets : []<>(~protect \/ last[b].by # "nobody")

\* The clock goes on, and the peer of this claim keeps sending.
FairSpec == Spec /\ WF_vars(Tick) /\ \A b \in Buckets : WF_vars(Peer(b))
=============================================================================
