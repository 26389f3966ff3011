------------------------ MODULE MCCreateTransaction ------------------------
(* Instances of CreateTransaction for TLC. *)
EXTENDS CreateTransaction
=============================================================================
