---------------------------- MODULE BatchReducer ----------------------------
(***************************************************************************)
(* The batch reducer of lib/mina/v1/actions/batch-reducer.ts.  Users       *)
(* dispatch actions; whoever settles them prepares batches from the        *)
(* actions that are pending and sends a transaction for each, while more   *)
(* actions are dispatched and others settle too.  The contract does not    *)
(* see the list of pending actions, only hashes of it: that of the actions *)
(* processed so far, and that of a stack of those that follow.             *)
(*                                                                         *)
(* The hash of a list is the list: an action state is the sequence of      *)
(* updates it was computed from, a stack has its top at the end.           *)
(***************************************************************************)
EXTENDS Folding, SequencesExt

CONSTANTS Settlers,         \* those who prepare and send batches
          Actions,          \* what can be dispatched
          Updates,          \* lists of actions that one account update may dispatch
          BatchSize,        \* batchSize
          MaxFinal,         \* maxUpdatesFinalProof
          MaxPerProof,      \* maxUpdatesPerProof
          MaxPerUpdate,     \* maxActionsPerUpdate
          MaxUpdates,       \* bound on the account updates that dispatch actions
          MaxPending,       \* bound on the transactions a settler has sent at a time
          MaxCrashes        \* bound on the settlers that lose their batches

\* The constructor asserts that an update fits in a batch; the methods of the
\* contract dispatch no more than they declare.
ASSUME SizeAssumption ==
  /\ BatchSize \in Nat /\ MaxPerUpdate \in 1..BatchSize
  /\ Updates \subseteq Seq(Actions) /\ \A u \in Updates : Len(u) \in 1..MaxPerUpdate
  /\ MaxFinal \in Nat /\ {MaxPerProof, MaxPending} \subseteq Nat \ {0}
  /\ {MaxUpdates, MaxCrashes} \subseteq Nat

VARIABLES
  history,  \* the updates of the contract's account that dispatched actions
  chain,    \* the fields actionState and actionStack of the contract
  handled,  \* the actions that callbacks of applied transactions were given
  pc,       \* per settler, "idle" or in prepareBatches, at the await of fetchActions
  from,     \* per settler, the action state prepareBatches starts from
  batches,  \* per settler, what prepareBatches returned and is still to be sent
  sent,     \* per settler, its transactions that are not applied yet, in order
  crashes

settlerVars == <<pc, from, batches>>
vars == <<history, chain, handled, settlerVars, sent, crashes>>

Init ==
  /\ history = <<>> /\ chain = [actionState |-> <<>>, actionStack |-> <<>>] /\ handled = <<>>
  /\ pc = [s \in Settlers |-> "idle"] /\ from = [s \in Settlers |-> <<>>]
  /\ batches = [s \in Settlers |-> <<>>] /\ sent = [s \in Settlers |-> <<>>]
  /\ crashes = 0

First(seq, n) == SubSeq(seq, 1, IF n <= Len(seq) THEN n ELSE Len(seq))
Rest(seq, n) == SubSeq(seq, n + 1, Len(seq))

-----------------------------------------------------------------------------
(* The circuit that turns a list of actions around *)

\* One step of the circuit: takes the last update off the action state, if there
\* is a witness for it, and pushes it to the stack.
ActionStates == Seq(Updates)
ActionWitnesses == [hash : Updates, stateBefore : ActionStates]
ActionStackStates == [actions : ActionStates, stack : ActionStates, ok : BOOLEAN]
Pop == [state \in ActionStackStates |-> [witness \in ActionWitnesses |->
  [actions |-> witness.stateBefore, stack |-> Append(state.stack, witness.hash),
   ok |-> state.ok /\ Append(witness.stateBefore, witness.hash) = state.actions]]]

\* Mutant: takes the first witness first.
ChunkForward(n, start, witnesses) == Folded(Pop, start, First(witnesses, n))

\* A chunk has n places; those without a witness change nothing.
ActionStackChunk(n, start, witnesses) == Folded(Pop, start, Reverse(First(witnesses, n)))

EmptyStackAt(state) == [actions |-> state, stack |-> <<>>, ok |-> TRUE]

\* The chunks of a list of witnesses, the last one as long as what is left.
Chunks(witnesses) ==
  [i \in 1..((Len(witnesses) + MaxPerProof - 1) \div MaxPerProof) |->
    First(Rest(witnesses, (i - 1) * MaxPerProof), MaxPerProof)]

\* Proofs are made from the last chunk to the first, each continues the one before.
ProveChunk == [state \in ActionStackStates |-> [chunk \in Seq(ActionWitnesses) |->
  ActionStackChunk(MaxPerProof, state, chunk)]]
ProveActionStack(end, witnesses) ==
  [input |-> end, output |-> Folded(ProveChunk, EmptyStackAt(end), Reverse(Chunks(witnesses)))]

-----------------------------------------------------------------------------
(* prepareBatches *)

Witnesses(state, pending) ==
  [i \in DOMAIN pending |->
    [hash |-> pending[i], stateBefore |-> state \o SubSeq(pending, 1, i - 1)]]

Size(updates) == Len(Flattened(updates))

\* Mutant: stops at the update that makes the batch too long instead of before it.
FittingAndOne(updates) ==
  CHOOSE n \in 0..Len(updates) :
    /\ n < Len(updates) => Size(First(updates, n)) >= BatchSize
    /\ 0 < n => Size(First(updates, n - 1)) < BatchSize

\* The number of updates, from the first one, that fit in a batch.
Fitting(updates) ==
  CHOOSE n \in 0..Len(updates) :
    /\ Size(First(updates, n)) <= BatchSize
    /\ n < Len(updates) => Size(First(updates, n + 1)) > BatchSize

\* Mutant: the stack of all batches is one object, which the loop empties.
StackIsShared(updates) == <<>>

\* The stack of pending updates, with the first one on top.
StackOf(updates) == Reverse(updates)

\* What all batches have in common: how to compute the stack from what is pending.
HintFor(state, pending) ==
  [onchainActionState |-> state \o pending, isRecursive |-> Len(pending) > MaxFinal,
   witnesses |-> First(Witnesses(state, pending), MaxFinal),
   proof |-> ProveActionStack(state \o pending, Rest(Witnesses(state, pending), MaxFinal))]

\* The batch that begins after n of the pending updates.  Only the first one needs
\* the stack to be computed, the others find it on chain.
BatchAt(hint, state, pending, n) ==
  [hint |-> hint, useOnchainStack |-> n > 0,
   processedActionState |-> state \o First(pending, n),
   onchainStack |-> IF n > 0 THEN StackOf(Rest(pending, n)) ELSE <<"0">>,
   stack |-> StackOf(Rest(pending, n))]

\* Adds a batch, as long as the stack is not empty.
AddBatch(s, state, pending) ==
  IF s.popped >= Len(pending) THEN s
  ELSE [popped |-> s.popped + Fitting(Rest(pending, s.popped)),
        list |-> Append(s.list, BatchAt(HintFor(state, pending), state, pending, s.popped))]

\* The batches that take all pending updates off the stack.
BatchesOf(state, pending) ==
  LET after[round \in 0..Len(pending)] ==
        IF round = 0 THEN [popped |-> 0, list |-> <<>>]
        ELSE AddBatch(after[round - 1], state, pending)
  IN  after[Len(pending)].list

-----------------------------------------------------------------------------
(* The contract *)

\* Mutant: the contract stores the stack from before the updates were popped.
StackBefore(updates, taken) == StackOf(updates)

StackAfter(updates, taken) == StackOf(Rest(updates, Len(taken)))

\* processBatch, as a method builds its transaction: what it asserts, what it
\* requires of the chain, the actions its callback is given, and the new fields.
ProcessBatch(b) ==
  LET start == IF b.hint.isRecursive THEN b.hint.proof.output
               ELSE EmptyStackAt(b.hint.onchainActionState)
      stacking == ActionStackChunk(MaxFinal, start, b.hint.witnesses)
      updates == Reverse(b.stack)
      taken == First(updates, Fitting(updates))
      actions == Flattened(taken)
  IN  [ok |-> /\ stacking.ok
              /\ b.hint.isRecursive => b.hint.proof.input = b.hint.onchainActionState
              /\ b.useOnchainStack \/ stacking.actions = b.processedActionState
              /\ b.stack = IF b.useOnchainStack THEN b.onchainStack ELSE stacking.stack
              /\ Len(actions) <= BatchSize /\ \A i \in DOMAIN taken : Len(taken[i]) <= MaxPerUpdate,
       actionState |-> b.processedActionState,
       actionStack |-> b.onchainStack, useOnchainStack |-> b.useOnchainStack,
       onchainActionState |-> b.hint.onchainActionState,
       actions |-> actions,
       fields |-> [actionState |-> b.processedActionState \o taken,
                   actionStack |-> StackAfter(updates, taken)]]

\* Mutant: the action state of the contract is not required.
AcceptsAnyState(tx, older) ==
  /\ tx.useOnchainStack => chain.actionStack = tx.actionStack
  /\ tx.useOnchainStack \/ tx.onchainActionState = history \/ older

\* The preconditions hold.  An account remembers some of its earlier action
\* states, depending on when they were reached: older says whether this one.
Accepts(tx, older) ==
  /\ chain.actionState = tx.actionState
  /\ AcceptsAnyState(tx, older)

Dispatch(update) ==
  /\ Len(history) < MaxUpdates
  /\ history' = Append(history, update)
  /\ UNCHANGED <<chain, handled, settlerVars, sent, crashes>>

\* A transaction whose preconditions fail has no effect; its sender starts again.
Apply(s) ==
  /\ sent[s] # <<>>
  /\ sent' = [sent EXCEPT ![s] = Tail(@)]
  /\ \E older \in BOOLEAN :
       IF Accepts(Head(sent[s]), older)
       THEN /\ chain' = Head(sent[s]).fields
            /\ handled' = handled \o Head(sent[s]).actions
            /\ UNCHANGED batches
       ELSE /\ batches' = [batches EXCEPT ![s] = <<>>]
            /\ UNCHANGED <<chain, handled>>
  /\ UNCHANGED <<history, pc, from, crashes>>

-----------------------------------------------------------------------------
(* Those who settle *)

\* prepareBatches up to its second await: the action state of the contract is read.
FetchActionState(s) ==
  /\ pc[s] = "idle" /\ batches[s] = <<>>
  /\ pc' = [pc EXCEPT ![s] = "fetching"]
  /\ from' = [from EXCEPT ![s] = chain.actionState]
  /\ UNCHANGED <<history, chain, handled, batches, sent, crashes>>

\* Then the actions since then are there, and are made into batches.
FetchActions(s) ==
  /\ pc[s] = "fetching"
  /\ pc' = [pc EXCEPT ![s] = "idle"]
  /\ batches' = [batches EXCEPT ![s] = BatchesOf(from[s], Rest(history, Len(from[s])))]
  /\ UNCHANGED <<history, chain, handled, from, sent, crashes>>

\* The next batch becomes a transaction.  An assertion that fails throws, and the
\* settler prepares new batches.
Send(s) ==
  /\ batches[s] # <<>> /\ Len(sent[s]) < MaxPending
  /\ LET tx == ProcessBatch(Head(batches[s]))
     IN  IF tx.ok
         THEN /\ sent' = [sent EXCEPT ![s] = Append(@, tx)]
              /\ batches' = [batches EXCEPT ![s] = Tail(@)]
         ELSE /\ batches' = [batches EXCEPT ![s] = <<>>]
              /\ UNCHANGED sent
  /\ UNCHANGED <<history, chain, handled, pc, from, crashes>>

\* The program of a settler ends; what it sent may still arrive.
Crash(s) ==
  /\ crashes < MaxCrashes /\ (pc[s] # "idle" \/ batches[s] # <<>> \/ sent[s] # <<>>)
  /\ crashes' = crashes + 1
  /\ pc' = [pc EXCEPT ![s] = "idle"] /\ batches' = [batches EXCEPT ![s] = <<>>]
  /\ sent' \in {sent, [sent EXCEPT ![s] = <<>>]}
  /\ UNCHANGED <<history, chain, handled, from>>

Settle(s) == FetchActionState(s) \/ FetchActions(s) \/ Send(s)

Next ==
  \/ \E update \in Updates : Dispatch(update)
  \/ \E s \in Settlers : Settle(s) \/ Apply(s) \/ Crash(s)

Spec == Init /\ [][Next]_vars

\* The steps of a settler and of its transactions as seen from one variable, which
\* is enough to tell them from the others.
Prepares(s) ==
  \/ pc[s] = "idle" /\ batches[s] = <<>> /\ pc' = [pc EXCEPT ![s] = "fetching"]
  \/ pc[s] = "fetching" /\ pc' = [pc EXCEPT ![s] = "idle"]
Sends(s) ==
  /\ batches[s] # <<>> /\ Len(sent[s]) < MaxPending
  /\ batches' \in {[batches EXCEPT ![s] = rest] : rest \in {Tail(batches[s]), <<>>}}
Arrives(s) == sent[s] # <<>> /\ sent' = [sent EXCEPT ![s] = Tail(@)]

\* Requests are answered, transactions are included, and settlers go on.
FairSpec ==
  Spec /\ \A s \in Settlers : WF_pc(Prepares(s)) /\ WF_batches(Sends(s)) /\ WF_sent(Arrives(s))

-----------------------------------------------------------------------------
\* "Otherwise, the onchain stack is known to be valid" (batch-reducer.ts:266):
\* whichever batches were applied, dropped or sent twice, the stack the contract
\* stores holds the updates that follow its action state.
StackIsPending ==
  /\ IsPrefix(chain.actionState, history)
  /\ chain.actionStack =
       Reverse(First(Rest(history, Len(chain.actionState)), Len(chain.actionStack)))

\* However settlers interleave, and however often a batch is prepared, every
\* action is given to a callback at most once, in order, and never without those
\* of its update.
Queue == INSTANCE ActionQueue WITH dispatched <- history
ImplementsQueue == Queue!Spec

\* All actions are handled in the end: the batches of settlers that are overtaken
\* or die never leave the contract in a state that no new batches fit.
AllIsHandled == <>[](handled = Flattened(history))
=============================================================================
