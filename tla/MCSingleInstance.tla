--------------------------- MODULE MCSingleInstance ---------------------------
(* TLC instances of SingleInstance. *)
EXTENDS SingleInstance

CONSTANTS a, b, c
=============================================================================
