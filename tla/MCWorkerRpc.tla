----------------------------- MODULE MCWorkerRpc -----------------------------
(* Instances of WorkerRpc for TLC. *)
EXTENDS WorkerRpc
=============================================================================
