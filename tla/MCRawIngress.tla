----------------------------- MODULE MCRawIngress -----------------------------
(* TLC instances of RawIngress: two playbacks. *)
EXTENDS RawIngress

CONSTANTS p1, p2
=============================================================================
