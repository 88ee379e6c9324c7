------------------------- MODULE CompletionSequencer -------------------------
(***************************************************************************)
(* LuaExecutorWorker's CompletionDeliverySequencer and the delivery attempt *)
(* of LuaCompletionDeliveryUtils it drives.                                 *)
(*                                                                          *)
(* dispatchBatchAsync reserves a ticket; the result resolves it, from any   *)
(* thread and in any order.  Completions run on their targets' threads in   *)
(* ticket order, one at a time: deliverNext posts one and then either it or *)
(* the callback that ends the attempt goes on with the next ticket,         *)
(* whichever of the two comes second.                                       *)
(*                                                                          *)
(* Tickets are numbered in the order of reservation, so the queue           *)
(* `pending' is always the interval first..last.                            *)
(***************************************************************************)
EXTENDS Naturals, Sequences

CONSTANT MaxTickets  \* bound: tickets ever reserved
ASSUME TicketsAssumption == MaxTickets \in Nat

Tickets == 1..MaxTickets

VARIABLES
  first, last,      \* the queue of tickets: first is its head, last its tail
  status,           \* the ticket: free, reserved, resolved or skipped
  deliveryActive,
  atTop,            \* calls of deliverNext that are at the top of their loop
  post,             \* the call of qmudDeliverLuaCompletion for the ticket
  job,              \* what became of the delivery attempt it made
  callReturned,     \* DeliveryContinuation::deliveryCallReturned
  finished,         \* DeliveryContinuation::deliveryFinished
  outcome,          \* what became of the result
  started           \* the sequenced completions that began to run, in order

vars == <<first, last, status, deliveryActive, atTop, post, job, callReturned,
          finished, outcome, started>>
queueVars == <<first, last, status, deliveryActive>>

Init ==
  /\ first = 1 /\ last = 0
  /\ status = [k \in Tickets |-> "free"]
  /\ deliveryActive = FALSE /\ atTop = 0
  /\ post = [k \in Tickets |-> "none"]
  /\ job = [k \in Tickets |-> "none"]
  /\ callReturned = [k \in Tickets |-> FALSE]
  /\ finished = [k \in Tickets |-> FALSE]
  /\ outcome = [k \in Tickets |-> "none"]
  /\ started = <<>>

-----------------------------------------------------------------------------
(* Reserving and resolving tickets. *)

Reserve ==
  /\ last < MaxTickets
  /\ last' = last + 1
  /\ status' = [status EXCEPT ![last'] = "reserved"]
  /\ UNCHANGED <<first, deliveryActive, atTop, post, job, callReturned, finished,
                 outcome, started>>

HeadIs(st, S)    == first <= last /\ st[first] \in S
HeadResolved(st) == HeadIs(st, {"resolved", "skipped"})

\* Mutant: resolving starts a delivery although one is under way.
AlwaysIdle    == TRUE
SequencerIdle == ~deliveryActive

\* resolve and skip: whoever completes the head of an idle queue starts deliverNext.
Settle(k, to) ==
  /\ status[k] = "reserved"
  /\ status' = [status EXCEPT ![k] = to]
  /\ LET start == SequencerIdle /\ HeadResolved(status')
     IN /\ deliveryActive' = (deliveryActive \/ start)
        /\ atTop' = IF start THEN atTop + 1 ELSE atTop
  /\ UNCHANGED <<first, last, post, job, callReturned, finished, started>>

Resolve(k) == outcome[k] = "none" /\ Settle(k, "resolved") /\ UNCHANGED outcome

\* deliverCompletion without a target object calls the completion on the spot,
\* out of sequence; a completion that throws has its mutations recovered.
DeliverDirect(k) ==
  /\ status[k] = "reserved" /\ outcome[k] = "none"
  /\ \E o \in {"executed", "recovered"} : outcome' = [outcome EXCEPT ![k] = o]
  /\ UNCHANGED <<queueVars, atTop, post, job, callReturned, finished, started>>

\* ... and the scope guard skips its ticket, as it does when sequencing failed.
Skip(k) ==
  /\ Settle(k, "skipped")
  /\ outcome' = [outcome EXCEPT ![k] = IF @ = "none" THEN "abandoned" ELSE @]

-----------------------------------------------------------------------------
(* deliverNext. *)

NothingToDeliver == ~HeadResolved(status)

GoIdle ==
  /\ atTop > 0
  /\ NothingToDeliver
  /\ deliveryActive' = FALSE
  /\ atTop' = atTop - 1
  /\ UNCHANGED <<first, last, status, post, job, callReturned, finished, outcome, started>>

DropSkipped ==
  /\ atTop > 0 /\ ~NothingToDeliver
  /\ HeadIs(status, {"skipped"})
  /\ first' = first + 1
  /\ UNCHANGED <<last, status, deliveryActive, atTop, post, job, callReturned,
                 finished, outcome, started>>

DequeueResolved ==
  /\ atTop > 0 /\ ~NothingToDeliver
  /\ HeadIs(status, {"resolved"})
  /\ first' = first + 1
  /\ atTop' = atTop - 1
  /\ post' = [post EXCEPT ![first] = "calling"]
  /\ UNCHANGED <<last, status, deliveryActive, job, callReturned, finished, outcome, started>>

\* qmudDeliverLuaCompletion: the target is gone and the attempt ends at once, or
\* the completion is queued on its thread, or the bridge refuses the post.
Post(k) ==
  /\ post[k] = "calling"
  /\ post' = [post EXCEPT ![k] = "posted"]
  /\ \E to \in {"ending", "queued", "canceled"} : job' = [job EXCEPT ![k] = to]
  /\ UNCHANGED <<queueVars, atTop, callReturned, finished, outcome, started>>

\* Mutant: the caller goes on whether or not the attempt has ended.
AlwaysContinue(k) == TRUE
\* Mutant: the caller leaves the next ticket to the callback in any case.
NeverContinue(k) == FALSE
ContinueSynchronously(k) == finished[k]

ReturnFromPost(k) ==
  /\ post[k] = "posted" /\ ~callReturned[k]
  /\ callReturned' = [callReturned EXCEPT ![k] = TRUE]
  /\ atTop' = IF ContinueSynchronously(k) THEN atTop + 1 ELSE atTop
  /\ UNCHANGED <<queueVars, post, job, finished, outcome, started>>

-----------------------------------------------------------------------------
(* The attempt on the target's thread. *)

\* executeCompletion finds the target alive and calls the completion, or not.
Execute(k) ==
  /\ job[k] = "queued"
  /\ \/ /\ job' = [job EXCEPT ![k] = "running"]
        /\ started' = Append(started, k)
     \/ job' = [job EXCEPT ![k] = "ending"] /\ UNCHANGED started
  /\ UNCHANGED <<queueVars, atTop, post, callReturned, finished, outcome>>

\* The completion returns, or throws and counts as not executed.
CompletionEnds(k) ==
  /\ job[k] = "running"
  /\ \E o \in {"none", "executed"} : outcome' = [outcome EXCEPT ![k] = o]
  /\ job' = [job EXCEPT ![k] = "ending"]
  /\ UNCHANGED <<queueVars, atTop, post, callReturned, finished, started>>

\* The target's thread ends before it ran the posted completion.
Cancel(k) ==
  /\ job[k] = "queued"
  /\ job' = [job EXCEPT ![k] = "canceled"]
  /\ UNCHANGED <<queueVars, atTop, post, callReturned, finished, outcome, started>>

\* finishCanceledDelivery, here or on the application's thread.
FinishCanceled(k) ==
  /\ job[k] = "canceled"
  /\ job' = [job EXCEPT ![k] = "ending"]
  /\ UNCHANGED <<queueVars, atTop, post, callReturned, finished, outcome, started>>

RecoverUnlessExecuted(k) == IF outcome[k] = "executed" THEN "executed" ELSE "recovered"

\* The attempt's callback recovers the mutations of a completion that did not run,
RecoverUndelivered(k) ==
  /\ job[k] = "ending"
  /\ outcome' = [outcome EXCEPT ![k] = RecoverUnlessExecuted(k)]
  /\ job' = [job EXCEPT ![k] = "ended"]
  /\ UNCHANGED <<queueVars, atTop, post, callReturned, finished, started>>

\* Mutant: the callback never goes on.
LeaveToCaller(k) == FALSE
ContinueAsynchronously(k) == callReturned[k]

\* and then goes on with the next ticket if deliverNext has already left.
FinishAttempt(k) ==
  /\ job[k] = "ended" /\ ~finished[k]
  /\ finished' = [finished EXCEPT ![k] = TRUE]
  /\ atTop' = IF ContinueAsynchronously(k) THEN atTop + 1 ELSE atTop
  /\ UNCHANGED <<queueVars, post, job, callReturned, outcome, started>>

-----------------------------------------------------------------------------
Caller(k)  == Resolve(k) \/ DeliverDirect(k) \/ Skip(k)
Attempt(k) == Execute(k) \/ CompletionEnds(k) \/ Cancel(k) \/ FinishCanceled(k)
              \/ RecoverUndelivered(k) \/ FinishAttempt(k)
Loop == GoIdle \/ DropSkipped \/ DequeueResolved

Next == Reserve \/ Loop
        \/ \E k \in Tickets : Caller(k) \/ Post(k) \/ ReturnFromPost(k) \/ Attempt(k)

Spec == Init /\ [][Next]_vars

\* deliverNext runs on, and the bridge either runs or cancels what is posted.
\* Nothing obliges a dispatch to be made or its result to arrive.
Fairness == WF_vars(Loop) /\ \A k \in Tickets :
  WF_vars(Post(k)) /\ WF_vars(ReturnFromPost(k)) /\ WF_vars(Attempt(k))
FairSpec == Spec /\ Fairness

-----------------------------------------------------------------------------
(* Properties *)

\* Types; the queue is an interval, and no two calls are at the top of deliverNext.
TypeOK ==
  /\ first \in Nat \ {0} /\ last \in Nat
  /\ first <= last + 1 /\ last <= MaxTickets
  /\ status \in [Tickets -> {"free", "reserved", "resolved", "skipped"}]
  /\ deliveryActive \in BOOLEAN /\ atTop \in {0, 1}
  /\ post \in [Tickets -> {"none", "calling", "posted"}]
  /\ job \in [Tickets -> {"none", "queued", "running", "canceled", "ending", "ended"}]
  /\ callReturned \in [Tickets -> BOOLEAN] /\ finished \in [Tickets -> BOOLEAN]
  /\ outcome \in [Tickets -> {"none", "executed", "recovered", "abandoned"}]
  /\ started \in Seq(Tickets)

\* The delivery of k is under way: one of the two parties has not signed off yet.
InFlight(k) == post[k] # "none" /\ ~(callReturned[k] /\ finished[k])

\* The handshake passes one token on: while the sequencer is active exactly one
\* party, the loop or one ticket's delivery, is bound to go on; otherwise none.
OneDriver ==
  /\ atTop = 1 => \A k \in Tickets : ~InFlight(k)
  /\ \A j, k \in Tickets : InFlight(j) /\ InFlight(k) => j = k
  /\ deliveryActive <=> (atTop = 1 \/ \E k \in Tickets : InFlight(k))

\* Completions begin in the order in which their dispatches were accepted, each
\* at most once, even when results arrive out of order or targets die.
StartedInOrder == \A i, j \in DOMAIN started : i < j => started[i] < started[j]

\* A completion runs to its end before the next one begins.
OneCompletionAtATime ==
  \A j, k \in Tickets : job[j] = "running" /\ job[k] # "none" => k <= j

\* A resolution is never overlooked: an idle sequencer has nothing to deliver.
NoLostStart == ~deliveryActive => ~HeadResolved(status)

\* A sequenced result whose attempt ended was seen by its completion or had its
\* mutations recovered, and not by the wrong one of the two.
EndedIsSettled == \A k \in Tickets : finished[k] =>
  \/ outcome[k] = "executed" /\ \E i \in DOMAIN started : started[i] = k
  \/ outcome[k] = "recovered"

\* The queue never stalls: once every ticket up to k is resolved or skipped,
\* k's delivery comes to its end.
ResolvedIsDelivered == \A k \in Tickets :
  (\A j \in 1..k : status[j] \in {"resolved", "skipped"})
    ~> (outcome[k] # "none" /\ (status[k] = "resolved" => finished[k]))

\* A result is settled when its ticket has been skipped or its delivery has ended.
Result(k) == IF status[k] = "skipped" \/ finished[k] THEN outcome[k] ELSE "open"

Order == INSTANCE CompletionOrder WITH
  accepted <- 1..last, result <- [k \in Tickets |-> Result(k)], started <- started
\* The sequencer keeps the promise CompletionOrder states: no completion begins
\* before everything accepted earlier is settled, and no outcome is revised.
ImplementsOrder == Order!Spec
=============================================================================
