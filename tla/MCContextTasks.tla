--------------------------- MODULE MCContextTasks ---------------------------
(* Instances of ContextTasks for TLC. *)
EXTENDS ContextTasks, TLC
WithDefault == << <<"default", 0>> >>

\* Chains are interchangeable in every action and property.
ChainSymmetry == Permutations(Chains)
=============================================================================
