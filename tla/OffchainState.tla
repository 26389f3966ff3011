--------------------------- MODULE OffchainState ----------------------------
(***************************************************************************)
(* The offchain state of lib/mina/v1/actions: contract calls dispatch      *)
(* actions that write to a map, and clients prove to the contract what the *)
(* map is after the actions so far.  Each client keeps a copy of the map,  *)
(* rebuilt from the actions it fetches; the contract stores a commitment.  *)
(*                                                                         *)
(* An IndexedMerkleMap is a sequence of pairs in the order in which their  *)
(* keys were first set: its root and length depend on that order.          *)
(***************************************************************************)
EXTENDS Folding

CONSTANTS Clients,       \* OffchainStateInstances, of one contract
          Keys, Values,  \* what the offchain state maps from and to
          Updates,       \* lists of actions that one account update may dispatch
          MaxUpdates,    \* bound on the account updates that dispatch actions
          MaxPerUpdate,  \* maxActionsPerUpdate
          MaxPerProof    \* maxActionsPerProof

\* An action that uses the previous value names it, 0 if there should be none.
Actions == [key : Keys, value : Values, uses : BOOLEAN, previous : Values \cup {0}]
Maps == Seq(Keys \X Values)

\* The actions of one account update fit in a proof, and contracts keep to the
\* maximum per update: a method must not call update() or overwrite() more often
\* (offchain-state.ts:174-178).  A method that did could never be settled, since
\* every proof of its actions fails the circuit's assertion on their number.
ASSUME SizeAssumption ==
  /\ MaxUpdates \in Nat /\ MaxPerProof \in Nat /\ MaxPerUpdate \in Nat
  /\ Updates \subseteq Seq(Actions)
  /\ \A u \in Updates : Len(u) \in 1..MaxPerProof /\ Len(u) <= MaxPerUpdate

VARIABLES
  history,    \* the actions of the contract, a list for each account update
  onchain,    \* offchainStateCommitments: the map, and how much of the history it has
  maps,       \* per client, internal.merkleMap
  stage,      \* per client, what it is doing
  from,       \* per client, the action state it read last
  proof,      \* per client, the settlement proof it made last
  overtaken   \* history: others acted between a client's proof or map and its settlement

clientVars == <<maps, stage, from, proof>>
vars == <<history, onchain, clientVars, overtaken>>

Empty == <<>>
Prefix(n) == SubSeq(history, 1, n)
Suffix(n) == SubSeq(history, n + 1, Len(history))

Init ==
  /\ history = <<>> /\ onchain = [map |-> Empty, at |-> 0]
  /\ maps = [c \in Clients |-> Empty] /\ stage = [c \in Clients |-> "idle"]
  /\ from = [c \in Clients |-> 0] /\ overtaken = [c \in Clients |-> FALSE]
  /\ proof = [c \in Clients |-> [input |-> [map |-> Empty, at |-> 0],
                                 output |-> [map |-> Empty, at |-> 0]]]

-----------------------------------------------------------------------------
(* IndexedMerkleMap *)

IndexOf(m, key) == CHOOSE i \in DOMAIN m : m[i][1] = key
HasKey(m, key) == \E i \in DOMAIN m : m[i][1] = key

GetOption(m, key) == IF HasKey(m, key) THEN m[IndexOf(m, key)][2] ELSE 0

Set(m, key, value) ==
  IF HasKey(m, key) THEN [m EXCEPT ![IndexOf(m, key)] = <<key, value>>]
  ELSE Append(m, <<key, value>>)

IsValidAction(m, a) == a.uses => GetOption(m, a.key) = a.previous
SetAction(m, a) == Set(m, a.key, a.value)

-----------------------------------------------------------------------------
(* merkleUpdateBatch: the circuit that makes one proof *)

\* The actions of a batch one after the other, the last of each update marked.
Elements == [action : Actions, isCheckPoint : BOOLEAN]
Marked(update) ==
  [k \in DOMAIN update |-> [action |-> update[k], isCheckPoint |-> k = Len(update)]]
LinearizeUpdate == [list \in Seq(Elements) |-> [update \in Updates |-> list \o Marked(update)]]
Linearized(batch) == Folded(LinearizeUpdate, <<>>, batch)

\* Mutant: the flag is not set back after an invalid update.
KeepsFlag(s) == LET tree == IF s.isValid THEN s.intermediate ELSE s.tree
                IN  [s EXCEPT !.tree = tree, !.intermediate = tree]

\* At a checkpoint the update is taken over if it was valid, else rolled back.
CheckPoint(s) == LET tree == IF s.isValid THEN s.intermediate ELSE s.tree
                 IN  [tree |-> tree, intermediate |-> tree, isValid |-> TRUE]

\* The action is carried out in any case: only the flag knows whether it counts.
CarryOut(s, a) == [s EXCEPT !.intermediate = SetAction(@, a),
                            !.isValid = @ /\ IsValidAction(s.intermediate, a)]

CircuitStates == [tree : Maps, intermediate : Maps, isValid : BOOLEAN]
CircuitStep == [s \in CircuitStates |-> [element \in Elements |->
  LET t == CarryOut(s, element.action) IN IF element.isCheckPoint THEN CheckPoint(t) ELSE t]]

Starts(tree) == [tree |-> tree, intermediate |-> tree, isValid |-> TRUE]
MerkleUpdateBatch(tree, batch) == Folded(CircuitStep, Starts(tree), Linearized(batch)).tree

\* sliceActions: whole updates, as long as their actions fit in one proof
AddSize == [size \in Nat |-> [update \in Updates |-> size + Len(update)]]
Size(updates) == Folded(AddSize, 0, updates)
SliceLength(updates) ==
  CHOOSE n \in 0..Len(updates) :
    /\ Size(SubSeq(updates, 1, n)) <= MaxPerProof
    /\ n < Len(updates) => Size(SubSeq(updates, 1, n + 1)) > MaxPerProof

\* prove: one batch after the other, each on the tree that the last one left
ProveBatch(s) ==
  LET n == SliceLength(s.updates)
  IN  [tree    |-> MerkleUpdateBatch(s.tree, SubSeq(s.updates, 1, n)),
       updates |-> SubSeq(s.updates, n + 1, Len(s.updates))]

\* Each round takes an update at least, if there is one left.
Prove(tree, updates) ==
  LET after[round \in 0..Len(updates)] ==
        IF round = 0 THEN [tree |-> tree, updates |-> updates] ELSE ProveBatch(after[round - 1])
  IN  after[Len(updates)].tree

-----------------------------------------------------------------------------
(* updateMerkleMap: the map that clients rebuild outside of any circuit *)

\* The first invalid action ends the update, which is rolled back.
LeafStates == [intermediate : Maps, isValid : BOOLEAN]
ApplyLeaf == [s \in LeafStates |-> [a \in Actions |->
  IF ~s.isValid THEN s
  ELSE IF IsValidAction(s.intermediate, a)
       THEN [s EXCEPT !.intermediate = SetAction(@, a)]
       ELSE [s EXCEPT !.isValid = FALSE]]]

ApplyUpdate == [tree \in Maps |-> [leaves \in Updates |->
  LET s == Folded(ApplyLeaf, [intermediate |-> tree, isValid |-> TRUE], leaves)
  IN  IF s.isValid THEN s.intermediate ELSE tree]]

UpdateMerkleMap(tree, updates) == Folded(ApplyUpdate, tree, updates)

\* fetchMerkleMap up to an action state
FetchMerkleMap(n) == UpdateMerkleMap(Empty, Prefix(n))

-----------------------------------------------------------------------------
(* The contract *)

\* A method of the contract writes to the offchain state.
Dispatch(update) ==
  /\ Len(history) < MaxUpdates
  /\ history' = Append(history, update)
  /\ overtaken' = [c \in Clients |-> overtaken[c] \/ stage[c] \in {"rebuilding", "proved"}]
  /\ UNCHANGED <<onchain, clientVars>>

\* Mutant: the state that the proof starts from is not compared.
AcceptsAnyInput(p, older) == older \/ p.output.at = Len(history)

\* settle: the proof starts from the state of the contract and ends at an action
\* state of the account.  The account remembers some of its earlier ones,
\* depending on when they were reached: older says whether this one.
Accepts(p, older) == p.input = onchain /\ AcceptsAnyInput(p, older)

HasBegun(c) == maps[c] # Empty \/ stage[c] # "idle"

Settle(c) ==
  /\ stage[c] = "proved"
  /\ stage' = [stage EXCEPT ![c] = "idle"]
  /\ \E older \in BOOLEAN :
       IF Accepts(proof[c], older)
       THEN /\ onchain' = proof[c].output
            /\ overtaken' = [d \in Clients |-> overtaken[d] \/ (d # c /\ HasBegun(d))]
       ELSE UNCHANGED <<onchain, overtaken>>
  /\ UNCHANGED <<history, maps, from, proof>>

-----------------------------------------------------------------------------
(* The client.  Each step ends with the await of a request. *)

Goes(c, s, t) == stage[c] = s /\ stage' = [stage EXCEPT ![c] = t]

\* merkleMaps: if there is no map yet the action state of the contract is read ...
ReadForMap(c) ==
  /\ Goes(c, "idle", IF maps[c] = Empty THEN "fetching" ELSE "mapped")
  /\ onchain.at < Len(history)
  /\ from' = [from EXCEPT ![c] = onchain.at]
  /\ UNCHANGED <<history, onchain, maps, proof, overtaken>>

\* ... and the map is rebuilt from the actions up to there.
FetchMap(c) ==
  /\ Goes(c, "fetching", "mapped")
  /\ maps' = [maps EXCEPT ![c] = FetchMerkleMap(from[c])]
  /\ UNCHANGED <<history, onchain, from, proof, overtaken>>

\* A get ends here: it throws if the map is not the one of the contract.
GetEnds(c) == Goes(c, "mapped", "idle") /\ UNCHANGED <<history, onchain, maps, from, proof, overtaken>>

\* createSettlementProof: the action state is read again
ReadForProof(c) ==
  /\ Goes(c, "mapped", "reading")
  /\ from' = [from EXCEPT ![c] = onchain.at]
  /\ UNCHANGED <<history, onchain, maps, proof, overtaken>>

\* fetchMerkleLeaves from there, and rollup.prove with the map as it is
ProveActions(c) ==
  /\ Goes(c, "reading", "rebuilding")
  /\ proof' = [proof EXCEPT ![c] =
       [input  |-> [map |-> maps[c], at |-> from[c]],
        output |-> [map |-> Prove(maps[c], Suffix(from[c])), at |-> Len(history)]]]
  /\ UNCHANGED <<history, onchain, maps, from, overtaken>>

\* Mutant: the map stays the one from before the proof.
StaleMap(c) == maps[c]

\* fetchMerkleMap without an end: all actions there are by now
RebuiltMap(c) == FetchMerkleMap(Len(history))

Rebuild(c) ==
  /\ Goes(c, "rebuilding", "proved")
  /\ maps' = [maps EXCEPT ![c] = RebuiltMap(c)]
  /\ UNCHANGED <<history, onchain, from, proof, overtaken>>

Step(c) ==
  \/ ReadForMap(c) \/ FetchMap(c) \/ ReadForProof(c) \/ ProveActions(c) \/ Rebuild(c)
  \/ Settle(c)

Next ==
  \/ \E update \in Updates : Dispatch(update)
  \/ \E c \in Clients : Step(c) \/ GetEnds(c)

Spec == Init /\ [][Next]_vars

\* Step(c) as seen from the stage alone, which each step of a client changes.
Onward == [idle |-> {"fetching", "mapped"}, fetching |-> {"mapped"}, mapped |-> {"reading"},
           reading |-> {"rebuilding"}, rebuilding |-> {"proved"}, proved |-> {"idle"}]
Moves(c) == /\ stage[c] = "idle" => onchain.at < Len(history)
            /\ \E t \in Onward[stage[c]] : Goes(c, stage[c], t)

\* Requests are answered, and clients go on until everything is settled: each
\* makes its next step, and does not end with a get for ever.
FairSpec == Spec /\ \A c \in Clients : WF_stage(Moves(c)) /\ SF_stage(Goes(c, "mapped", "reading"))

-----------------------------------------------------------------------------
\* What the actions mean: an update counts as a whole, and only if each of its
\* actions finds the previous value it asks for after those before it.
WriteAction == [m \in Maps |-> [a \in Actions |-> SetAction(m, a)]]
MapAfter(update, m, k) == Folded(WriteAction, m, SubSeq(update, 1, k))
Meaning == [m \in Maps |-> [update \in Updates |->
  IF \A k \in DOMAIN update : IsValidAction(MapAfter(update, m, k - 1), update[k])
  THEN MapAfter(update, m, Len(update)) ELSE m]]

\* Whatever copies of the map the clients work with, and whoever settles first,
\* the contract commits to what its actions mean, each counted once.
ChainIsHistory == onchain.map = Folded(Meaning, Empty, Prefix(onchain.at))

\* The circuit, which goes on after an invalid action, and the clients, which stop
\* there, agree on every list of actions, wherever the settlements and the proofs
\* cut it.
RollupMatchesRebuild ==
  \A n \in 0..Len(history) : Prove(FetchMerkleMap(n), Suffix(n)) = FetchMerkleMap(Len(history))

\* In the end all actions are settled, unless every client was overtaken, by an
\* action after its proof or by a settlement after its map: its map is then ahead
\* of the contract or behind it, and is never fetched again up to the contract.
SettlesUnlessOvertaken ==
  <>[](onchain.at = Len(history)) \/ <>[](\A c \in Clients : overtaken[c])
=============================================================================
