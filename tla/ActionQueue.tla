----------------------------- MODULE ActionQueue ----------------------------
(***************************************************************************)
(* What a batch reducer promises the author of a contract: the actions of  *)
(* all account updates are handled once each and in the order in which     *)
(* they were dispatched, a few whole updates at a time.  BatchReducer      *)
(* implements it.                                                          *)
(***************************************************************************)
EXTENDS Folding

CONSTANTS Updates,    \* lists of actions that one account update may dispatch
          BatchSize   \* the number of actions that are handled at a time

VARIABLES dispatched,  \* the account updates with actions, one after the other
          handled      \* the actions that were handled

vars == <<dispatched, handled>>

Init == dispatched = <<>> /\ handled = <<>>

Dispatch(update) == dispatched' = Append(dispatched, update) /\ UNCHANGED handled

\* Actions of one account update are handled together.
Handle ==
  \E n \in 0..Len(dispatched) :
    /\ handled' = Flattened(SubSeq(dispatched, 1, n))
    /\ Len(handled') - Len(handled) \in 1..BatchSize
    /\ UNCHANGED dispatched

Next == Handle \/ \E update \in Updates : Dispatch(update)

Spec == Init /\ [][Next]_vars
=============================================================================
