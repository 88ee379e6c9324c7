------------------------------ MODULE InputOrder ------------------------------
(***************************************************************************)
(* What QMud promises about input: payloads are processed one at a time in  *)
(* the order of their arrival; those of a connection that ends are dropped, *)
(* and none of them is completed after it, the one under way included;      *)
(* nothing else is lost or completed twice.  How a payload is suspended by  *)
(* callbacks, nested in others and resumed is RawIngress's business.        *)
(***************************************************************************)
EXTENDS Naturals, Sequences

CONSTANTS Operations,   \* the numbers of payloads
          Connections   \* the numbers of connections

VARIABLES connection,   \* the one there is
          arrived,      \* payloads so far
          belongs,      \* the connection of each payload, or 0
          waiting,      \* those not yet begun
          current,      \* the one under way, or 0
          parsed        \* those completed, in that order
vars == <<connection, arrived, belongs, waiting, current, parsed>>

Ended(o) == belongs[o] \notin {0, connection}

Init ==
  /\ connection = 1
  /\ arrived = 0 /\ belongs = [o \in Operations |-> 0]
  /\ waiting = {} /\ current = 0 /\ parsed = <<>>

\* What is simulated belongs to no connection.
Arrive(o) ==
  /\ o = arrived + 1 /\ arrived' = o
  /\ \E c \in {0, connection} : belongs' = [belongs EXCEPT ![o] = c]
  /\ waiting' = waiting \cup {o}
  /\ UNCHANGED <<connection, current, parsed>>

Begin(o) ==
  /\ current = 0 /\ o \in waiting /\ \A other \in waiting : o <= other
  /\ current' = o /\ waiting' = waiting \ {o}
  /\ UNCHANGED <<connection, arrived, belongs, parsed>>

Complete ==
  /\ current # 0 /\ ~Ended(current)
  /\ current' = 0 /\ parsed' = Append(parsed, current)
  /\ UNCHANGED <<connection, arrived, belongs, waiting>>

GiveUp ==
  /\ current # 0 /\ Ended(current)
  /\ current' = 0
  /\ UNCHANGED <<connection, arrived, belongs, waiting, parsed>>

\* The current payload of the connection may have frames to leave first.
EndConnection ==
  /\ connection' = connection + 1 /\ connection' \in Connections
  /\ waiting' = {o \in waiting : belongs[o] = 0}
  /\ current' = current \/ (current # 0 /\ belongs[current] # 0 /\ current' = 0)
  /\ UNCHANGED <<arrived, belongs, parsed>>

Next == \/ \E o \in Operations : Arrive(o) \/ Begin(o)
        \/ Complete \/ GiveUp \/ EndConnection
Spec == Init /\ [][Next]_vars
=============================================================================
