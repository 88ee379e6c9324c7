--------------------------- MODULE MutationJournal ---------------------------
(***************************************************************************)
(* What QMud promises about the mutation journals that asynchronous Lua    *)
(* dispatches leave behind: every batch is numbered when it is retained,   *)
(* and is settled (handed to a consumer that applies it, or deliberately   *)
(* discarded) exactly once, oldest batch first.  How the worker, the       *)
(* completion consumers and the shutdown path compete for a batch is       *)
(* MutationDelivery's business.                                            *)
(***************************************************************************)
EXTENDS Naturals, Sequences

CONSTANT BatchIds  \* the numbers there are

VARIABLES journaled,  \* numbers of the batches retained so far
          log         \* the vectors of batches handed over, in that order
vars == <<journaled, log>>

Outcomes == {"applied", "discarded"}
Entry    == [outcome : Outcomes, ids : SUBSET BatchIds]

\* The batches some logged hand-over contains.
SettledBy(entries) == UNION {entries[i].ids : i \in DOMAIN entries}

Outstanding == journaled \ SettledBy(log)

Init == journaled = {} /\ log = <<>>

\* A result's batch is numbered after every batch there is.
Journal == \E b \in BatchIds :
  /\ \A j \in journaled : j < b
  /\ journaled' = journaled \cup {b}
  /\ UNCHANGED log

\* The oldest outstanding batches, as many as the hand-over takes, leave together.
Settle == \E S \in SUBSET Outstanding, outcome \in Outcomes :
  /\ S # {}
  /\ \A s \in S, o \in Outstanding : o < s => o \in S
  /\ log' = Append(log, [outcome |-> outcome, ids |-> S])
  /\ UNCHANGED journaled

Next == Journal \/ Settle
Spec == Init /\ [][Next]_vars
=============================================================================
