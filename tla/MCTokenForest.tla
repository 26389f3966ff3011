--------------------------- MODULE MCTokenForest ----------------------------
(* Instances of AccountUpdateLayout and TokenForest for TLC. *)
EXTENDS TokenForest, TLC

\* Every operation treats all account updates alike.
UpdateSymmetry == Permutations(Updates)
=============================================================================
