---------------------------- MODULE SingleInstance ----------------------------
(***************************************************************************)
(* One QMud for each user: a process that is launched hands its file to    *)
(* the instance that runs, or becomes the instance.  A lock file covers    *)
(* the probe of the endpoint, the removal of a stale one and listen; the   *)
(* image of a reload does not probe, it takes the endpoint over.  A process *)
(* that exits closes its socket and then removes the file at its           *)
(* endpoint's path, without the lock.  An instance keeps the requests it   *)
(* acknowledges until its start-up is over.                                *)
(*                                                                         *)
(* A process launches once, with one request, its file.  Requests without  *)
(* a file only raise the window and are left out, as are processes that    *)
(* allow several instances.                                                *)
(***************************************************************************)
EXTENDS Naturals, Sequences, FiniteSets

CONSTANTS Proc,          \* processes that are ever launched
          None,          \* no process
          MaxReloads     \* bound: reloads of a behaviour

ASSUME ProcessAssumption == None \notin Proc /\ MaxReloads \in Nat

VARIABLES
    state,       \* where each process is
    takeover,    \* its image was started by a reload: no request to forward
    lock,        \* the process that holds the start-up lock
    endpoint,    \* the process whose listen made the endpoint's file
    wire,        \* the connection of each launcher: the instance, and how far it is
    pending,     \* m_pendingFileAssociationRequests of each instance
    batch,       \* pendingRequests that enableFileAssociationDispatch goes through
    opened,      \* history: requests an instance dispatched
    taken,       \* history: requests an instance took, in that order
    reloads,     \* reloads so far
    contested    \* history: a takeover or an exit removed the endpoint of another instance

vars == <<state, takeover, lock, endpoint, wire, pending, batch, opened, taken,
          reloads, contested>>
filesVars == <<pending, batch, opened, taken>>

Starting  == {"locking", "probing", "sending", "waiting", "claiming"}
Instances == {"starting", "draining", "ready"}
Ended     == {"forwarded", "failed", "exiting", "gone"}
Instance(p) == state[p] \in Instances

NotConnected == [server |-> None, stage |-> "none"]

Init ==
    /\ state = [p \in Proc |-> "new"]
    /\ takeover = [p \in Proc |-> FALSE]
    /\ lock = None /\ endpoint = None
    /\ wire = [p \in Proc |-> NotConnected]
    /\ pending = [p \in Proc |-> <<>>] /\ batch = [p \in Proc |-> <<>>]
    /\ opened = [p \in Proc |-> <<>>] /\ taken = [p \in Proc |-> <<>>]
    /\ reloads = 0 /\ contested = FALSE

\* Somebody listens on the endpoint.
Answered == endpoint # None /\ Instance(endpoint)

Goes(p, s) == state' = [state EXCEPT ![p] = s]
Unlock(p)  == lock' = IF lock = p THEN None ELSE lock

-----------------------------------------------------------------------------
(* startServerOrForward *)

Launch(p) ==
    /\ state[p] = "new"
    /\ Goes(p, "locking")
    /\ UNCHANGED <<takeover, lock, endpoint, wire, filesVars, reloads, contested>>

TryLock(p) ==
    /\ state[p] = "locking" /\ lock = None
    /\ lock' = p
    /\ Goes(p, IF takeover[p] THEN "claiming" ELSE "probing")
    /\ UNCHANGED <<takeover, endpoint, wire, filesVars, reloads, contested>>

LockTimesOut(p) ==
    /\ state[p] = "locking" /\ lock # None
    /\ Goes(p, "failed")
    /\ UNCHANGED <<takeover, lock, endpoint, wire, filesVars, reloads, contested>>

\* sendRequest connects; an instance need not run its event loop for that.
Connect(p) ==
    /\ state[p] = "probing" /\ Answered
    /\ Goes(p, "sending")
    /\ wire' = [wire EXCEPT ![p] = [server |-> endpoint, stage |-> "open"]]
    /\ UNCHANGED <<takeover, lock, endpoint, filesVars, reloads, contested>>

\* No endpoint, or a stale one: ServerUnavailable.
Unavailable(p) ==
    /\ state[p] = "probing" /\ ~Answered
    /\ Goes(p, "claiming")
    /\ UNCHANGED <<takeover, lock, endpoint, wire, filesVars, reloads, contested>>

Write(p) ==
    /\ state[p] = "sending" /\ wire[p].stage = "open"
    /\ Goes(p, "waiting")
    /\ wire' = [wire EXCEPT ![p].stage = "written"]
    /\ UNCHANGED <<takeover, lock, endpoint, filesVars, reloads, contested>>

\* The acknowledgement is there: Delivered.
Forwarded(p) ==
    /\ state[p] = "waiting" /\ wire[p].stage = "taken"
    /\ Goes(p, "forwarded") /\ Unlock(p)
    /\ UNCHANGED <<takeover, endpoint, wire, filesVars, reloads, contested>>

\* Mutant: a server that does not answer counts as one that is not there.
SendFails_Unavailable(p) ==
    /\ state[p] \in {"probing", "sending", "waiting"}
    /\ Goes(p, "claiming")
    /\ UNCHANGED <<takeover, lock, endpoint, wire, filesVars, reloads, contested>>

\* Any other error, or a deadline, also one that races with the acknowledgement.
SendFails(p) ==
    /\ state[p] \in {"probing", "sending", "waiting"}
    /\ Goes(p, "failed") /\ Unlock(p)
    /\ UNCHANGED <<takeover, endpoint, wire, filesVars, reloads, contested>>

\* p removes the endpoint's file.  A launcher has probed it under the lock; a takeover and
\* an exit have not.
Unprobed(p) == takeover[p] \/ state[p] = "exiting"

Removes(p) ==
    contested' = (contested \/ (Unprobed(p) /\ \E q \in Proc \ {p} : Instance(q)))

Listen(p) ==
    /\ state[p] = "claiming"
    /\ Goes(p, "starting") /\ Unlock(p)
    /\ endpoint' = p
    /\ Removes(p)
    /\ UNCHANGED <<takeover, wire, filesVars, reloads>>

ListenFails(p) ==
    /\ state[p] = "claiming"
    /\ Goes(p, "failed") /\ Unlock(p)
    /\ endpoint' = None
    /\ Removes(p)
    /\ UNCHANGED <<takeover, wire, filesVars, reloads>>

-----------------------------------------------------------------------------
(* The instance *)

\* handleFileAssociationRequest of instance q, for the file of p.
Handle(q, p) ==
    /\ taken' = [taken EXCEPT ![q] = Append(@, p)]
    /\ IF state[q] = "ready"
         THEN opened' = [opened EXCEPT ![q] = Append(@, p)] /\ UNCHANGED pending
         ELSE pending' = [pending EXCEPT ![q] = Append(@, p)] /\ UNCHANGED opened
    /\ UNCHANGED batch

\* Mutant: the frame is looked at again when its sender disconnects.
Take_Again(q, p) ==
    /\ Instance(q) /\ wire[p].server = q
    /\ wire[p].stage = "written" \/ (wire[p].stage = "taken" /\ state[p] \in Ended)
    /\ wire' = [wire EXCEPT ![p].stage = IF @ = "taken" THEN "closed" ELSE "taken"]
    /\ Handle(q, p)
    /\ UNCHANGED <<state, takeover, lock, endpoint, reloads, contested>>

\* RequestReceiver has a complete frame, whose sender may be gone: it acknowledges it
\* where there is somebody left, and handles it.
Take(q, p) ==
    /\ Instance(q) /\ wire[p].server = q /\ wire[p].stage = "written"
    /\ wire' = [wire EXCEPT ![p].stage = "taken"]
    /\ Handle(q, p)
    /\ UNCHANGED <<state, takeover, lock, endpoint, reloads, contested>>

\* setupStartupBehavior: the file of its own command line.
OwnFile(q) ==
    /\ state[q] = "starting"
    /\ \A i \in 1..Len(taken[q]) : taken[q][i] # q
    /\ Handle(q, q)
    /\ UNCHANGED <<state, takeover, lock, endpoint, wire, reloads, contested>>

Exchange(q) ==
    /\ batch' = [batch EXCEPT ![q] = pending[q]]
    /\ pending' = [pending EXCEPT ![q] = <<>>]
    /\ UNCHANGED <<opened, taken>>

\* enableFileAssociationDispatch begins.
BeginDispatch(q) ==
    /\ state[q] = "starting"
    /\ Goes(q, "draining")
    /\ Exchange(q)
    /\ UNCHANGED <<takeover, lock, endpoint, wire, reloads, contested>>

\* The next request of the batch is dispatched; more may be taken inside its dialogs.
DispatchNext(q) ==
    /\ state[q] = "draining" /\ batch[q] # <<>>
    /\ batch' = [batch EXCEPT ![q] = Tail(@)]
    /\ opened' = [opened EXCEPT ![q] = Append(@, Head(batch[q]))]
    /\ UNCHANGED <<state, takeover, lock, endpoint, wire, pending, taken, reloads, contested>>

\* Mutant: what was taken inside the dialogs of the batch is not looked at.
BatchEnds_Once(q) ==
    /\ state[q] = "draining" /\ batch[q] = <<>>
    /\ Goes(q, "ready") /\ UNCHANGED filesVars
    /\ UNCHANGED <<takeover, lock, endpoint, wire, reloads, contested>>

\* What was taken meanwhile is the next batch, until there is none.
BatchEnds(q) ==
    /\ state[q] = "draining" /\ batch[q] = <<>>
    /\ IF pending[q] # <<>> THEN Exchange(q) /\ UNCHANGED state
                            ELSE Goes(q, "ready") /\ UNCHANGED filesVars
    /\ UNCHANGED <<takeover, lock, endpoint, wire, reloads, contested>>

-----------------------------------------------------------------------------
(* The end of an image *)

\* The system closes the sockets of q; what was not taken is lost.
Hangs(q) ==
    [p \in Proc |-> IF wire[p].server = q /\ wire[p].stage \in {"open", "written"}
                    THEN [wire[p] EXCEPT !.stage = "closed"] ELSE wire[p]]

\* main returns, and ~QLocalServer closes the socket that listens: the endpoint's file is
\* stale from now on.
Exit(q) ==
    /\ Instance(q)
    /\ Goes(q, "exiting")
    /\ wire' = Hangs(q)
    /\ UNCHANGED <<takeover, lock, endpoint, filesVars, reloads, contested>>

\* Then it removes the file at the endpoint's path, whoever made it, without the lock.
Unlink(q) ==
    /\ state[q] = "exiting"
    /\ Goes(q, "gone")
    /\ endpoint' = None
    /\ Removes(q)
    /\ UNCHANGED <<takeover, lock, wire, filesVars, reloads>>

\* The process dies: the endpoint's file stays, and the lock is found stale.
Crash(q) ==
    /\ state[q] \in Starting \cup Instances \cup {"exiting"}
    /\ Goes(q, "gone") /\ Unlock(q)
    /\ wire' = Hangs(q)
    /\ UNCHANGED <<takeover, endpoint, filesVars, reloads, contested>>

\* execv of a reload: the same process with a new image, its endpoint is stale.
Reload(q) ==
    /\ Instance(q) /\ reloads < MaxReloads
    /\ reloads' = reloads + 1
    /\ Goes(q, "locking")
    /\ takeover' = [takeover EXCEPT ![q] = TRUE]
    /\ wire' = Hangs(q)
    /\ pending' = [pending EXCEPT ![q] = <<>>] /\ batch' = [batch EXCEPT ![q] = <<>>]
    /\ opened' = [opened EXCEPT ![q] = <<>>] /\ taken' = [taken EXCEPT ![q] = <<>>]
    /\ UNCHANGED <<lock, endpoint, contested>>

-----------------------------------------------------------------------------
Dispatch(q) == BeginDispatch(q) \/ DispatchNext(q) \/ BatchEnds(q)

Startup(p) ==
    \/ Launch(p) \/ TryLock(p) \/ LockTimesOut(p)
    \/ Connect(p) \/ Unavailable(p) \/ Write(p) \/ Forwarded(p) \/ SendFails(p)
    \/ Listen(p) \/ ListenFails(p)

Next ==
    \E p \in Proc :
      \/ Startup(p) \/ OwnFile(p) \/ Dispatch(p)
      \/ Exit(p) \/ Unlink(p) \/ Crash(p) \/ Reload(p)
      \/ \E q \in Proc : Take(q, p)

Spec == Init /\ [][Next]_vars

\* The start-up of an instance goes on.
FairSpec == Spec /\ \A q \in Proc : WF_vars(Dispatch(q))

-----------------------------------------------------------------------------
TypeOK ==
    /\ state \in [Proc -> {"new"} \cup Starting \cup Instances \cup Ended]
    /\ takeover \in [Proc -> BOOLEAN]
    /\ lock \in Proc \cup {None} /\ endpoint \in Proc \cup {None}
    /\ wire \in [Proc -> [server : Proc \cup {None},
                          stage : {"none", "open", "written", "taken", "closed"}]]
    /\ pending \in [Proc -> Seq(Proc)] /\ batch \in [Proc -> Seq(Proc)]
    /\ opened \in [Proc -> Seq(Proc)] /\ taken \in [Proc -> Seq(Proc)]
    /\ reloads \in 0..MaxReloads /\ contested \in BOOLEAN

\* There is one instance, and it is the one that a launch finds, whatever crashes, times
\* out or hangs.  Two things break it, and nothing else does: the image of a reload that
\* comes back to an endpoint a launch found stale in the meantime, and an exit whose unlink
\* comes after such a launch has listened.
OneInstance ==
    ~contested => \A p \in Proc : Instance(p) => endpoint = p

\* An instance opens each file it was sent once, in the order it took them, though it
\* takes them before it is ready and inside the dialogs of those it opens.
OpenedOnceInOrder ==
    \A q \in Proc :
        /\ Instance(q) => taken[q] = opened[q] \o batch[q] \o pending[q]
        /\ \A i, j \in 1..Len(taken[q]) : taken[q][i] = taken[q][j] => i = j

\* A file that an instance has taken is opened, unless the instance ends.
TakenIsOpened ==
    \A p, q \in Proc :
        (Instance(q) /\ \E i \in 1..Len(taken[q]) : taken[q][i] = p)
          ~> (~Instance(q) \/ \E i \in 1..Len(opened[q]) : opened[q][i] = p)
=============================================================================
