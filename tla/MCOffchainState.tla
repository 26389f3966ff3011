-------------------------- MODULE MCOffchainState ---------------------------
(* Instances of OffchainState for TLC: two keys; actions that overwrite a     *)
(* value, change one that must be there, or create one; account updates of    *)
(* which some fail at their first action and some at their second.            *)
EXTENDS OffchainState

Action(key, value, uses, previous) ==
  [key |-> key, value |-> value, uses |-> uses, previous |-> previous]
Write  == Action("k", 1, FALSE, 0)
Change == Action("k", 2, TRUE, 1)
Create == Action("j", 1, TRUE, 0)

MCUpdates == {<<Write>>, <<Write, Change>>, <<Create, Change>>}
=============================================================================
