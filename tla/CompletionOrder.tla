--------------------------- MODULE CompletionOrder ---------------------------
(***************************************************************************)
(* What QMud promises about the completions of asynchronous dispatches:    *)
(* the completion of a dispatch begins only when every dispatch accepted   *)
(* before it has been settled, once, and what became of a result is        *)
(* decided once.  In which order the results arrive, on which threads the  *)
(* completions run, and who starts the next one is CompletionSequencer's   *)
(* business.                                                               *)
(***************************************************************************)
EXTENDS Naturals, Sequences

CONSTANT Tickets  \* the numbers there are

VARIABLES accepted,  \* the dispatches so far
          result,    \* what became of the result of each, or "open"
          started    \* the completions that began, in that order
vars == <<accepted, result, started>>

Outcomes == {"executed", "recovered", "abandoned"}
Begun    == {started[i] : i \in DOMAIN started}
Open     == {t \in accepted : result[t] = "open"}

Init ==
  /\ accepted = {} /\ result = [t \in Tickets |-> "open"]
  /\ started = <<>>

\* A dispatch is numbered after every dispatch there is.
Accept == \E t \in Tickets :
  /\ \A s \in accepted : s < t
  /\ accepted' = accepted \cup {t}
  /\ UNCHANGED <<result, started>>

\* The turn of the oldest dispatch that is not settled.
Begin == \E t \in Open :
  /\ t \notin Begun /\ \A s \in Open : t <= s
  /\ started' = Append(started, t)
  /\ UNCHANGED <<accepted, result>>

\* The completion has seen the result, or its mutations were recovered; what no
\* completion was begun for may be given up in any order.
Settle == \E t \in Open, o \in Outcomes :
  /\ t \in Begun => o # "abandoned"
  /\ result' = [result EXCEPT ![t] = o]
  /\ UNCHANGED <<accepted, started>>

Next == Accept \/ Begin \/ Settle
Spec == Init /\ [][Next]_vars
=============================================================================
