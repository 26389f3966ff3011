---------------------------- MODULE MCFetchCache ----------------------------
(* Instances of FetchCache for TLC: a contract c with two ranges of actions  *)
(* and an account a.                                                         *)
EXTENDS FetchCache

CONSTANTS a, c, early, late

Account(key) == [key |-> key, range |-> Whole]
Actions(key, r) == [key |-> key, range |-> [whole |-> FALSE, range |-> r]]

MCCallbacks ==
  {<<Account(a), Actions(c, late)>>, <<Actions(c, early)>>,
   <<Actions(c, early), Actions(c, late)>>}
=============================================================================
