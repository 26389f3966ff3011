---------------------------- MODULE MCThreadPool ----------------------------
(* Instances of ThreadPool over its backends, for TLC. *)
EXTENDS NodeBackend
=============================================================================
