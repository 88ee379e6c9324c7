---------------------------- MODULE MCWorldSocket ----------------------------
(* The TLC instance of WorldSocket: two connections, two drains deep. *)
EXTENDS WorldSocket
=============================================================================
