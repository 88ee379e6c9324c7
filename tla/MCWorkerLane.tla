---------------------------- MODULE MCWorkerLane ----------------------------
(* WorkerLane on a few dispatches.                                           *)
EXTENDS WorkerLane
=============================================================================
