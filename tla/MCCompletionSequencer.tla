------------------------ MODULE MCCompletionSequencer ------------------------
(* CompletionSequencer on a few tickets.                                     *)
EXTENDS CompletionSequencer
=============================================================================
