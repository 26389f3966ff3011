------------------------ MODULE MCTransactionStatus ------------------------
(* Instances of TransactionStatus for TLC. *)
EXTENDS TransactionStatus
=============================================================================
