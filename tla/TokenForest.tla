---------------------------- MODULE TokenForest -----------------------------
(***************************************************************************)
(* A token contract that approves the forest built in AccountUpdateLayout: *)
(* forEachUpdate of token-contract.ts, with the TokenAccountUpdateIterator *)
(* of forest-iterator.ts that walks the forest in a fixed number of steps  *)
(* and skips the subtrees that cannot use the token.                       *)
(***************************************************************************)
EXTENDS AccountUpdateLayout

CONSTANT MaxUpdates  \* MAX_ACCOUNT_UPDATES of the contract

ASSUME MaxUpdatesAssumption == MaxUpdates \in Nat

VARIABLES
  kind,          \* per update, what it says of the token
  currentLayer,  \* the rest of the layer being visited, and what it must say
  unfinished,    \* unfinishedParentLayers, the innermost one first
  step,          \* the i of the loop in forEachUpdate
  visited,       \* the updates the callback was called for, without dummies
  verdict        \* of the contract, "none" before it is asked

tokenVars == <<kind, currentLayer, unfinished, step, visited, verdict>>
allVars == <<layoutVars, tokenVars>>

\* mayUseToken is ParentsOwnToken, InheritFromParent or No; "self" is an update of
\* the account that owns the token, whose children are its own business.
Kinds == {"own", "inherit", "no", "self"}
Layer(forest, mayUseToken) == [rest |-> forest, mayUse |-> mayUseToken]

TokenInit ==
  /\ LayoutInit
  /\ kind = [u \in Updates |-> "no"]
  /\ currentLayer = Layer(<<>>, "no") /\ unfinished = <<>>
  /\ step = 0 /\ visited = <<>> /\ verdict = "none"

\* forEachUpdate: an iterator is created for the forest.  The steps of an iterator
\* over data that does not belong to the hash would fail.
ForEachUpdate ==
  /\ status = "final" /\ verdict = "none" /\ calls.hash = calls.content
  /\ kind' \in [Updates -> Kinds]
  /\ currentLayer' = Layer(calls.hash, "own") /\ verdict' = "iterating"
  /\ UNCHANGED <<layoutVars, unfinished, step, visited>>

\* Mutant: the children of an update that has no access are visited too.
SkipsSelfOnly(u, mayUse) == kind[u] = "self"
Skips(u, mayUse) == kind[u] # mayUse \/ kind[u] = "self"

\* Mutant: the layer is kept only if the children are visited.
PushUnlessAbove(layer, child) ==
  IF layer.rest # <<>> /\ child # <<>> THEN <<layer>> \o unfinished ELSE unfinished
PushUnfinished(layer, child) ==
  IF layer.rest # <<>> THEN <<layer>> \o unfinished ELSE unfinished

\* next(): past the last update it returns dummies, which have no children
IteratorNext ==
  LET dummy  == currentLayer.rest = <<>>
      e      == Head(currentLayer.rest)
      layer  == [currentLayer EXCEPT !.rest = IF dummy THEN <<>> ELSE Tail(@)]
      child  == IF dummy \/ Skips(e[1], layer.mayUse) THEN <<>> ELSE e[2]
      pushed == PushUnfinished(layer, child)
  IN  /\ verdict = "iterating" /\ step < MaxUpdates
      /\ step' = step + 1
      /\ visited' = IF dummy THEN visited ELSE Append(visited, e[1])
      /\ \/ /\ child # <<>>
            /\ currentLayer' = Layer(child, "inherit") /\ unfinished' = pushed
         \/ /\ child = <<>> /\ pushed # <<>>
            /\ currentLayer' = Head(pushed) /\ unfinished' = Tail(pushed)
         \/ /\ child = <<>> /\ pushed = <<>>
            /\ currentLayer' = Layer(<<>>, "no") /\ unfinished' = <<>>
      /\ UNCHANGED <<layoutVars, kind, verdict>>

\* assertFinished, after MAX_ACCOUNT_UPDATES steps
AssertFinished ==
  /\ verdict = "iterating" /\ step = MaxUpdates
  /\ verdict' = IF currentLayer.rest = <<>> THEN "approved" ELSE "exceeded"
  /\ UNCHANGED <<layoutVars, kind, currentLayer, unfinished, step, visited>>

TokenNext ==
  \/ LayoutNext /\ UNCHANGED tokenVars
  \/ ForEachUpdate \/ IteratorNext \/ AssertFinished

TokenSpec == TokenInit /\ [][TokenNext]_allVars

-----------------------------------------------------------------------------
\* The updates a token contract must see, in the order of the transaction: those
\* of the top level, and those below an update that hands the access on.
Visits(kinds, forest, mayUse) ==
  LET visits[n \in 0..MaxLevels] ==
        [m \in Kinds |-> [f \in ForestsUpTo[n] |->
           Flattened([k \in DOMAIN f |->
             <<f[k][1]>> \o IF kinds[f[k][1]] = m THEN visits[n - 1]["inherit"][f[k][2]] ELSE <<>>])]]
  IN  visits[MaxLevels][mayUse][forest]

\* The contract sees each update that may use its token exactly once, in their
\* order, and approves the forest unless there are more than it can look at.
ApprovesWhatItSaw ==
  LET all == Visits(kind, calls.hash, "own")
  IN  /\ verdict = "iterating" => IsPrefix(visited, all)
      /\ verdict = "approved" => visited = all
      /\ verdict = "exceeded" => Len(all) > MaxUpdates
=============================================================================
