--------------------------- MODULE PluginStateStore ---------------------------
(***************************************************************************)
(* What QMud promises about the saved state of plugins: of each file newer  *)
(* and newer snapshots are accepted, some are tried, in that order, and the *)
(* file holds the last one that was written.  Who waits for files goes on   *)
(* when the newest snapshot of each has been tried, and who leaves waits    *)
(* for all.  The writer's thread, its rate limit, and saves that overtake   *)
(* each other are PluginStatePersistence's business.                        *)
(***************************************************************************)
EXTENDS Naturals

CONSTANTS Files,      \* destinations
          Revisions   \* the numbers of snapshots

VARIABLES accepted,   \* the newest snapshot of each file, or 0
          tried,      \* the last one whose write has ended
          stored,     \* the one the file holds
          client,     \* who saves: "active", "waiting", "leaving" or "gone"
          awaited     \* the files it waits for
vars == <<accepted, tried, stored, client, awaited>>

Init ==
  /\ accepted = [f \in Files |-> 0] /\ tried = [f \in Files |-> 0]
  /\ stored = [f \in Files |-> 0]
  /\ client = "active" /\ awaited = {}

Accept(f, r) ==
  /\ client = "active" /\ r > accepted[f]
  /\ accepted' = [accepted EXCEPT ![f] = r]
  /\ UNCHANGED <<tried, stored, client, awaited>>

\* A write ends; what is older than it is never tried again.
Try(f, r) ==
  /\ tried[f] < r /\ r <= accepted[f]
  /\ tried' = [tried EXCEPT ![f] = r]
  /\ stored' = [stored EXCEPT ![f] = r] \/ stored' = stored
  /\ UNCHANGED <<accepted, client, awaited>>

Wait(F) ==
  /\ client = "active"
  /\ client' = "waiting" \/ (client' = "leaving" /\ F = Files)
  /\ awaited' = {f \in F : accepted[f] > 0}
  /\ UNCHANGED <<accepted, tried, stored>>

GoOn ==
  /\ \A f \in awaited : tried[f] = accepted[f]
  /\ \/ client = "waiting" /\ client' = "active" /\ awaited' = {}
     \/ client = "leaving" /\ client' = "gone" /\ UNCHANGED awaited
  /\ UNCHANGED <<accepted, tried, stored>>

Next == \/ \E f \in Files, r \in Revisions : Accept(f, r) \/ Try(f, r)
        \/ \E F \in SUBSET Files : Wait(F)
        \/ GoOn
Spec == Init /\ [][Next]_vars
=============================================================================
