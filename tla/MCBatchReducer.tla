--------------------------- MODULE MCBatchReducer ---------------------------
(* Instances of BatchReducer for TLC: updates of one action and of two.      *)
EXTENDS BatchReducer

MCUpdates == {<<"x">>, <<"y", "x">>}
=============================================================================
