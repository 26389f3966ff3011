------------------------- MODULE BatchReducerProofs -------------------------
(***************************************************************************)
(* Proofs about BatchReducer for all settlers, actions and sizes: the      *)
(* stack of the contract is what is pending, and the batch reducer         *)
(* implements ActionQueue.                                                 *)
(***************************************************************************)
EXTENDS BatchReducer, InductionLemmas

-----------------------------------------------------------------------------
(* Sequences that are turned around or cut in two *)

LEMMA ReverseTyped ==
  ASSUME NEW T, NEW s \in Seq(T)
  PROVE  Reverse(s) \in Seq(T) /\ Len(Reverse(s)) = Len(s)
BY DEF Reverse

LEMMA ReverseEmpty == Reverse(<<>>) = <<>>
BY DEF Reverse

LEMMA ReverseTwice ==
  ASSUME NEW T, NEW s \in Seq(T)
  PROVE  Reverse(Reverse(s)) = s
<1>1. /\ Reverse(s) \in Seq(T) /\ Len(Reverse(s)) = Len(s)
      /\ Reverse(Reverse(s)) \in Seq(T) /\ Len(Reverse(Reverse(s))) = Len(s)
  BY ReverseTyped
<1>2. ASSUME NEW i \in 1..Len(s) PROVE Reverse(Reverse(s))[i] = s[i]
  <2>1. (Len(s) - i) + 1 \in 1..Len(s) /\ (Len(s) - ((Len(s) - i) + 1)) + 1 = i
    OBVIOUS
  <2>2. \A k \in 1..Len(s) : Reverse(s)[k] = s[(Len(s) - k) + 1]
    BY DEF Reverse
  <2>3. Reverse(Reverse(s))[i] = Reverse(s)[(Len(s) - i) + 1]
    BY <1>1 DEF Reverse
  <2> QED BY <2>1, <2>2, <2>3
<1> QED BY <1>1, <1>2, SeqEqual

\* Of a stack and what is pushed to it, the latter comes first.
LEMMA ReverseAppend ==
  ASSUME NEW T, NEW s \in Seq(T), NEW e \in T, NEW start \in Seq(T)
  PROVE  start \o Reverse(Append(s, e)) = Append(start, e) \o Reverse(s)
<1> DEFINE left == start \o Reverse(Append(s, e))
           right == Append(start, e) \o Reverse(s)
<1>1. /\ Reverse(s) \in Seq(T) /\ Len(Reverse(s)) = Len(s) /\ Append(s, e) \in Seq(T)
      /\ Reverse(Append(s, e)) \in Seq(T) /\ Len(Reverse(Append(s, e))) = Len(s) + 1
      /\ Len(s) \in Nat /\ Len(start) \in Nat
      /\ Append(start, e) \in Seq(T) /\ Len(Append(start, e)) = Len(start) + 1
  <2>1. /\ Append(s, e) \in Seq(T) /\ Len(Append(s, e)) = Len(s) + 1
        /\ Len(s) \in Nat /\ Len(start) \in Nat
        /\ Append(start, e) \in Seq(T) /\ Len(Append(start, e)) = Len(start) + 1
    OBVIOUS
  <2>2. Reverse(Append(s, e)) \in Seq(T) /\ Len(Reverse(Append(s, e))) = Len(Append(s, e))
    BY <2>1, ReverseTyped
  <2>3. Reverse(s) \in Seq(T) /\ Len(Reverse(s)) = Len(s)
    BY ReverseTyped
  <2> QED BY <2>1, <2>2, <2>3
<1>2. \A i \in 1..Len(s) : Reverse(s)[i] = s[(Len(s) - i) + 1]
  BY DEF Reverse
<1>3. \A i \in 1..Len(s) + 1 : Reverse(Append(s, e))[i] = Append(s, e)[(Len(s) + 1 - i) + 1]
  BY <1>1 DEF Reverse
<1>4. /\ left \in Seq(T) /\ right \in Seq(T)
      /\ Len(left) = Len(start) + Len(s) + 1 /\ Len(right) = Len(left)
  <2>1. left \in Seq(T) /\ Len(left) = Len(start) + Len(Reverse(Append(s, e)))
    BY <1>1, ConcatProperties
  <2>2. right \in Seq(T) /\ Len(right) = Len(Append(start, e)) + Len(Reverse(s))
    BY <1>1, ConcatProperties
  <2> QED BY <1>1, <2>1, <2>2
<1>5. ASSUME NEW i \in 1..Len(left) PROVE left[i] = right[i]
  <2>1. CASE i <= Len(start)
    BY <1>1, <1>4, <2>1
  <2>2. CASE i = Len(start) + 1
    <3>1. left[i] = Reverse(Append(s, e))[1]
      BY <1>1, <1>4, <2>2
    <3>2. Reverse(Append(s, e))[1] = e
      BY <1>3
    <3>3. right[i] = e
      BY <1>1, <1>4, <2>2
    <3> QED BY <3>1, <3>2, <3>3
  <2>3. CASE i > Len(start) + 1
    <3> DEFINE k == i - (Len(start) + 1)
    <3>1. k \in 1..Len(s) /\ k + 1 \in 1..Len(s) + 1 /\ i - Len(start) = k + 1
      BY <1>4, <2>3
    <3>2. left[i] = Reverse(Append(s, e))[k + 1]
      BY <1>1, <1>4, <2>3, <3>1
    <3>3. right[i] = Reverse(s)[k]
      BY <1>1, <1>4, <2>3
    <3>4. Reverse(Append(s, e))[k + 1] = s[(Len(s) - k) + 1]
      BY <1>3, <3>1
    <3> QED BY <1>2, <3>1, <3>2, <3>3, <3>4
  <2> QED BY <1>4, <2>1, <2>2, <2>3
<1> HIDE DEF left, right
<1>6. left = right
  BY <1>4, <1>5, SeqEqual
<1> QED BY <1>6 DEF left, right

LEMMA FirstAndRest ==
  ASSUME NEW T, NEW seq \in Seq(T), NEW n \in Nat
  PROVE  /\ First(seq, n) \in Seq(T) /\ Rest(seq, n) \in Seq(T)
         /\ First(seq, n) \o Rest(seq, n) = seq
         /\ n <= Len(seq) => Len(First(seq, n)) = n /\ Len(Rest(seq, n)) = Len(seq) - n
<1>1. Len(seq) \in Nat /\ 1 \in 1..Len(seq) + 1
  BY LenProperties
<1>2. CASE n <= Len(seq)
  <2>1. First(seq, n) = SubSeq(seq, 1, n) /\ Rest(seq, n) = SubSeq(seq, n + 1, Len(seq))
    BY <1>2 DEF First, Rest
  <2>2. n \in 1 - 1..Len(seq) /\ Len(seq) \in n..Len(seq)
    BY <1>1, <1>2
  <2>3. SubSeq(seq, 1, n) \o SubSeq(seq, n + 1, Len(seq)) = SubSeq(seq, 1, Len(seq))
    BY <1>1, <2>2, ConcatAdjacentSubSeq
  <2>4. SubSeq(seq, 1, Len(seq)) = seq
    BY SubSeqFull
  <2>5. /\ SubSeq(seq, 1, n) \in Seq(T) /\ SubSeq(seq, n + 1, Len(seq)) \in Seq(T)
        /\ Len(SubSeq(seq, 1, n)) = n /\ Len(SubSeq(seq, n + 1, Len(seq))) = Len(seq) - n
    BY <1>2
  <2> QED BY <2>1, <2>3, <2>4, <2>5
<1>3. CASE ~(n <= Len(seq))
  <2>1. First(seq, n) = seq /\ Rest(seq, n) = <<>>
    BY <1>1, <1>3, SubSeqFull, SubSeqEmpty DEF First, Rest
  <2> QED BY <1>3, <2>1, ConcatEmptySeq, EmptySeq
<1> QED BY <1>2, <1>3

-----------------------------------------------------------------------------
(* The circuit *)

\* The states in which the circuit, if none of its assertions failed, has what
\* was taken off the action state end on its stack, in order.
StacksOf(end) == {state \in ActionStackStates : state.ok => state.actions \o Reverse(state.stack) = end}

LEMMA EmptyStack ==
  ASSUME NEW end \in ActionStates
  PROVE  EmptyStackAt(end) \in StacksOf(end)
<1>1. /\ EmptyStackAt(end) \in ActionStackStates
      /\ EmptyStackAt(end).actions = end /\ EmptyStackAt(end).stack = <<>>
  BY EmptySeq DEF EmptyStackAt, ActionStackStates, ActionStates
<1>2. end \o <<>> = end
  BY ConcatEmptySeq DEF ActionStates
<1> QED BY <1>1, <1>2, ReverseEmpty DEF StacksOf

LEMMA PopTyped == Pop \in [ActionStackStates -> [ActionWitnesses -> ActionStackStates]]
BY DEF Pop, ActionStackStates, ActionWitnesses, ActionStates

LEMMA PopStays ==
  ASSUME NEW end \in ActionStates, NEW state \in StacksOf(end), NEW witness \in ActionWitnesses
  PROVE  Pop[state][witness] \in StacksOf(end)
<1>1. /\ state \in ActionStackStates /\ state.stack \in Seq(Updates) /\ state.actions \in Seq(Updates)
      /\ state.ok => state.actions \o Reverse(state.stack) = end
      /\ witness.hash \in Updates /\ witness.stateBefore \in Seq(Updates)
  BY DEF StacksOf, ActionStackStates, ActionWitnesses, ActionStates
<1> DEFINE popped == Pop[state][witness]
<1>2. /\ popped.actions = witness.stateBefore /\ popped.stack = Append(state.stack, witness.hash)
      /\ popped.ok = (state.ok /\ Append(witness.stateBefore, witness.hash) = state.actions)
  BY <1>1 DEF Pop
<1>3. popped \in ActionStackStates
  BY <1>1, PopTyped
<1> HIDE DEF popped
<1>4. witness.stateBefore \o Reverse(Append(state.stack, witness.hash))
        = Append(witness.stateBefore, witness.hash) \o Reverse(state.stack)
  BY <1>1, ReverseAppend
<1>5. popped.ok => popped.actions \o Reverse(popped.stack) = end
  BY <1>1, <1>2, <1>4
<1> QED BY <1>3, <1>5 DEF StacksOf, popped

LEMMA ChunkStays ==
  ASSUME NEW end \in ActionStates, NEW state \in StacksOf(end),
         NEW n \in Nat, NEW witnesses \in Seq(ActionWitnesses)
  PROVE  ActionStackChunk(n, state, witnesses) \in StacksOf(end)
<1> DEFINE W == Reverse(First(witnesses, n))
<1>1. W \in Seq(ActionWitnesses)
  <2>1. First(witnesses, n) \in Seq(ActionWitnesses)
    BY FirstAndRest
  <2> QED BY <2>1, ReverseTyped
<1>2. StacksOf(end) \subseteq ActionStackStates
  BY DEF StacksOf
<1> HIDE DEF W
<1>3. Folded(Pop, state, W) \in StacksOf(end)
  BY <1>1, <1>2, PopTyped, PopStays, FoldedStays
<1> QED BY <1>3 DEF W, ActionStackChunk

LEMMA ChunkTyped ==
  ASSUME NEW state \in ActionStackStates, NEW n \in Nat, NEW witnesses \in Seq(ActionWitnesses)
  PROVE  ActionStackChunk(n, state, witnesses) \in ActionStackStates
<1> DEFINE W == Reverse(First(witnesses, n))
<1>1. W \in Seq(ActionWitnesses)
  <2>1. First(witnesses, n) \in Seq(ActionWitnesses)
    BY FirstAndRest
  <2> QED BY <2>1, ReverseTyped
<1> HIDE DEF W
<1>2. Folded(Pop, state, W) \in ActionStackStates
  BY <1>1, PopTyped, FoldedTyped
<1> QED BY <1>2 DEF W, ActionStackChunk

LEMMA ChunksTyped ==
  ASSUME NEW witnesses \in Seq(ActionWitnesses)
  PROVE  Chunks(witnesses) \in Seq(Seq(ActionWitnesses))
<1> DEFINE n == (Len(witnesses) + MaxPerProof - 1) \div MaxPerProof
<1>1. MaxPerProof \in Nat \ {0} /\ Len(witnesses) \in Nat
  BY SizeAssumption, LenProperties
<1>2. n \in Nat
  BY <1>1
<1>3. ASSUME NEW i \in 1..n
      PROVE  First(Rest(witnesses, (i - 1) * MaxPerProof), MaxPerProof) \in Seq(ActionWitnesses)
  <2> DEFINE k == (i - 1) * MaxPerProof
  <2>1. k \in Nat
    BY <1>1
  <2> HIDE DEF k
  <2>2. Rest(witnesses, k) \in Seq(ActionWitnesses)
    BY <2>1, FirstAndRest
  <2>3. First(Rest(witnesses, k), MaxPerProof) \in Seq(ActionWitnesses)
    BY <1>1, <2>2, FirstAndRest
  <2> QED BY <2>3 DEF k
<1> HIDE DEF n
<1>4. [i \in 1..n |-> First(Rest(witnesses, (i - 1) * MaxPerProof), MaxPerProof)] \in Seq(Seq(ActionWitnesses))
  BY <1>2, <1>3
<1> QED BY <1>4 DEF Chunks, n

\* A proof of the circuit has the same meaning, however the witnesses are cut into
\* chunks, and whatever they are.
LEMMA ProofStays ==
  ASSUME NEW end \in ActionStates, NEW witnesses \in Seq(ActionWitnesses)
  PROVE  /\ ProveActionStack(end, witnesses).input = end
         /\ ProveActionStack(end, witnesses).output \in StacksOf(end)
         /\ ProveActionStack(end, witnesses) \in [input : ActionStates, output : ActionStackStates]
<1> DEFINE C == Reverse(Chunks(witnesses))
           start == EmptyStackAt(end)
           T == Seq(ActionWitnesses)
<1>1. C \in Seq(T)
  BY ChunksTyped, ReverseTyped
<1>2. start \in StacksOf(end) /\ StacksOf(end) \subseteq ActionStackStates
  BY EmptyStack DEF StacksOf
<1>3. MaxPerProof \in Nat
  BY SizeAssumption
<1>4. ProveChunk \in [ActionStackStates -> [T -> ActionStackStates]]
  BY <1>3, ChunkTyped DEF ProveChunk
<1>5. ASSUME NEW state \in StacksOf(end), NEW chunk \in T PROVE ProveChunk[state][chunk] \in StacksOf(end)
  <2>1. ProveChunk[state][chunk] = ActionStackChunk(MaxPerProof, state, chunk)
    BY <1>2 DEF ProveChunk
  <2> QED BY <1>3, <2>1, ChunkStays
<1> HIDE DEF C, start, T
<1>6. Folded(ProveChunk, start, C) \in StacksOf(end)
  BY <1>1, <1>2, <1>4, <1>5, FoldedStays
<1> QED BY <1>2, <1>6 DEF ProveActionStack, C, start

-----------------------------------------------------------------------------
(* Batches *)

LEMMA UpdatesCut ==
  ASSUME NEW updates \in ActionStates, NEW n \in 0..Len(updates)
  PROVE  /\ First(updates, n) \in ActionStates /\ Rest(updates, n) \in ActionStates
         /\ First(updates, n) \o Rest(updates, n) = updates
         /\ Len(First(updates, n)) = n /\ Len(Rest(updates, n)) = Len(updates) - n
<1>1. updates \in Seq(Updates) /\ n \in Nat /\ n <= Len(updates)
  BY LenProperties DEF ActionStates
<1>2. /\ First(updates, n) \in Seq(Updates) /\ Rest(updates, n) \in Seq(Updates)
      /\ First(updates, n) \o Rest(updates, n) = updates
      /\ n <= Len(updates) => Len(First(updates, n)) = n /\ Len(Rest(updates, n)) = Len(updates) - n
  BY <1>1, FirstAndRest
<1> QED BY <1>1, <1>2 DEF ActionStates

LEMMA SizeTyped ==
  ASSUME NEW updates \in ActionStates
  PROVE  /\ Flattened(updates) \in Seq(Actions) /\ Size(updates) \in Nat
         /\ updates = <<>> => Size(updates) = 0
<1>1. updates \in Seq(Seq(Actions))
  BY SizeAssumption, SeqMonotonic DEF ActionStates
<1>2. Flattened(updates) \in Seq(Actions)
  BY <1>1, FlattenedSteps
<1>3. Flattened(<<>>) = <<>>
  BY <1>1, FlattenedSteps
<1> QED BY <1>2, <1>3, EmptySeq, LenProperties DEF Size

\* Any list of updates has a longest part that fits in a batch.
LEMMA FittingFits ==
  ASSUME NEW updates \in ActionStates
  PROVE  /\ Fitting(updates) \in 0..Len(updates)
         /\ Size(First(updates, Fitting(updates))) <= BatchSize
<1> DEFINE N == Len(updates)
           S == {n \in 0..N : n < N => Size(First(updates, n + 1)) > BatchSize}
           fits(n) == /\ Size(First(updates, n)) <= BatchSize
                      /\ n < N => Size(First(updates, n + 1)) > BatchSize
<1>1. N \in Nat /\ N \in S /\ S \subseteq Nat
  BY DEF ActionStates
<1> HIDE DEF S
<1>2. PICK n \in S : \A m \in S : n <= m
  BY <1>1, LeastNat
<1>3. BatchSize \in Nat
  BY SizeAssumption
<1>4. \A m \in 0..N : First(updates, m) \in ActionStates /\ Size(First(updates, m)) \in Nat
  BY FirstAndRest, SizeTyped DEF ActionStates
<1>5. n \in 0..N /\ (n < N => Size(First(updates, n + 1)) > BatchSize)
  BY <1>2 DEF S
<1>6. Size(First(updates, n)) <= BatchSize
  <2>1. CASE n = 0
    <3>1. First(updates, 0) = <<>>
      BY <1>1 DEF First
    <3>2. <<>> \in ActionStates /\ Size(<<>>) = 0
      BY EmptySeq, SizeTyped DEF ActionStates
    <3> QED BY <1>3, <2>1, <3>1, <3>2
  <2>2. CASE n # 0
    <3>1. n - 1 \in 0..N /\ n - 1 < N /\ (n - 1) + 1 = n
      BY <1>1, <1>5, <2>2
    <3>2. n - 1 \notin S
      BY <1>2, <1>5, <2>2, <3>1
    <3>3. ~(Size(First(updates, (n - 1) + 1)) > BatchSize)
      BY <3>1, <3>2 DEF S
    <3> QED BY <1>3, <1>4, <1>5, <3>1, <3>3
  <2> QED BY <2>1, <2>2
<1>7. \E m \in 0..N : fits(m)
  BY <1>5, <1>6
<1>8. Fitting(updates) = CHOOSE m \in 0..N : fits(m)
  BY DEF Fitting
<1> QED BY <1>7, <1>8

Hints ==
  [onchainActionState : ActionStates, isRecursive : BOOLEAN, witnesses : Seq(ActionWitnesses),
   proof : [input : ActionStates, output : ActionStackStates]]
Batches ==
  [hint : Hints, useOnchainStack : BOOLEAN, processedActionState : ActionStates,
   onchainStack : ActionStates \union {<<"0">>}, stack : ActionStates]

\* The batches with a proof that was made by the circuit, and a hint for end.
BatchesTo(end) ==
  {b \in Batches : /\ b.hint.onchainActionState = end
                   /\ b.hint.proof.output \in StacksOf(b.hint.proof.input)}

LEMMA WitnessesTyped ==
  ASSUME NEW state \in ActionStates, NEW pending \in ActionStates
  PROVE  Witnesses(state, pending) \in Seq(ActionWitnesses)
<1>1. ASSUME NEW i \in DOMAIN pending
      PROVE  [hash |-> pending[i], stateBefore |-> state \o SubSeq(pending, 1, i - 1)] \in ActionWitnesses
  <2>1. pending[i] \in Updates /\ SubSeq(pending, 1, i - 1) \in Seq(Updates)
    BY DEF ActionStates
  <2>2. state \o SubSeq(pending, 1, i - 1) \in Seq(Updates)
    BY <2>1, ConcatProperties DEF ActionStates
  <2> QED BY <2>1, <2>2 DEF ActionWitnesses, ActionStates
<1>2. DOMAIN pending = 1..Len(pending) /\ Len(pending) \in Nat
  BY DEF ActionStates
<1> DEFINE at(i) == [hash |-> pending[i], stateBefore |-> state \o SubSeq(pending, 1, i - 1)]
<1>3. Witnesses(state, pending) = [i \in 1..Len(pending) |-> at(i)]
  BY <1>2 DEF Witnesses
<1> HIDE DEF at
<1>4. \A i \in 1..Len(pending) : at(i) \in ActionWitnesses
  BY <1>1, <1>2 DEF at
<1>5. [i \in 1..Len(pending) |-> at(i)] \in Seq(ActionWitnesses)
  BY <1>2, <1>4
<1> QED BY <1>3, <1>5

LEMMA HintTyped ==
  ASSUME NEW state \in ActionStates, NEW pending \in ActionStates
  PROVE  /\ HintFor(state, pending) \in Hints
         /\ HintFor(state, pending).onchainActionState = state \o pending
         /\ HintFor(state, pending).proof.output \in StacksOf(HintFor(state, pending).proof.input)
<1> DEFINE W == Witnesses(state, pending)
           end == state \o pending
           proof == ProveActionStack(end, Rest(W, MaxFinal))
<1>1. end \in ActionStates /\ Len(pending) \in Nat /\ MaxFinal \in Nat
  BY SizeAssumption DEF ActionStates
<1>2. W \in Seq(ActionWitnesses)
  BY WitnessesTyped
<1> HIDE DEF W, end
<1>3. First(W, MaxFinal) \in Seq(ActionWitnesses) /\ Rest(W, MaxFinal) \in Seq(ActionWitnesses)
  BY <1>1, <1>2, FirstAndRest
<1>4. /\ proof.input = end /\ proof.output \in StacksOf(end)
      /\ proof \in [input : ActionStates, output : ActionStackStates]
  BY <1>1, <1>3, ProofStays
<1> HIDE DEF proof
<1>5. HintFor(state, pending) =
        [onchainActionState |-> end, isRecursive |-> Len(pending) > MaxFinal,
         witnesses |-> First(W, MaxFinal), proof |-> proof]
  BY DEF HintFor, W, end, proof
<1> DEFINE recursive == Len(pending) > MaxFinal
<1>6. recursive \in BOOLEAN
  OBVIOUS
<1> HIDE DEF recursive
<1>7. [onchainActionState |-> end, isRecursive |-> recursive, witnesses |-> First(W, MaxFinal),
       proof |-> proof] \in Hints
  BY <1>1, <1>3, <1>4, <1>6 DEF Hints
<1>8. HintFor(state, pending) \in Hints
  BY <1>5, <1>7 DEF recursive
<1>9. HintFor(state, pending).onchainActionState = end /\ HintFor(state, pending).proof = proof
  BY <1>5
<1> QED BY <1>4, <1>8, <1>9 DEF end

LEMMA BatchTyped ==
  ASSUME NEW state \in ActionStates, NEW pending \in ActionStates, NEW n \in 0..Len(pending)
  PROVE  BatchAt(HintFor(state, pending), state, pending, n) \in BatchesTo(state \o pending)
<1> DEFINE hint == HintFor(state, pending)
           b == BatchAt(hint, state, pending, n)
<1>1. /\ hint \in Hints /\ hint.onchainActionState = state \o pending
      /\ hint.proof.output \in StacksOf(hint.proof.input)
  BY HintTyped
<1> HIDE DEF hint
<1>2. n \in Nat /\ First(pending, n) \in ActionStates /\ Rest(pending, n) \in ActionStates
  BY UpdatesCut
<1>3. state \o First(pending, n) \in ActionStates /\ StackOf(Rest(pending, n)) \in ActionStates
  BY <1>2, ReverseTyped DEF ActionStates, StackOf
<1>4. b \in Batches
  BY <1>1, <1>2, <1>3 DEF BatchAt, Batches
<1>5. b.hint = hint
  BY DEF BatchAt
<1> HIDE DEF b
<1>6. b \in BatchesTo(state \o pending)
  BY <1>1, <1>4, <1>5 DEF BatchesTo
<1> QED BY <1>6 DEF b, hint

Rounds(state, pending) == [popped : 0..Len(pending), list : Seq(BatchesTo(state \o pending))]

LEMMA AddBatchTyped ==
  ASSUME NEW state \in ActionStates, NEW pending \in ActionStates, NEW s \in Rounds(state, pending)
  PROVE  AddBatch(s, state, pending) \in Rounds(state, pending)
<1> DEFINE B == BatchesTo(state \o pending)
           b == BatchAt(HintFor(state, pending), state, pending, s.popped)
           n == Fitting(Rest(pending, s.popped))
<1>1. s.popped \in 0..Len(pending) /\ s.list \in Seq(B) /\ Len(pending) \in Nat
  BY DEF Rounds, ActionStates
<1>2. b \in B
  BY <1>1, BatchTyped
<1>3. s.popped + n \in 0..Len(pending)
  <2>1. Rest(pending, s.popped) \in ActionStates /\ Len(Rest(pending, s.popped)) = Len(pending) - s.popped
    BY <1>1, UpdatesCut
  <2>2. n \in 0..Len(Rest(pending, s.popped))
    BY <2>1, FittingFits
  <2> QED BY <1>1, <2>1, <2>2
<1> HIDE DEF B, b, n
<1>4. [popped |-> s.popped + n, list |-> Append(s.list, b)] \in [popped : 0..Len(pending), list : Seq(B)]
  BY <1>1, <1>2, <1>3
<1>5. AddBatch(s, state, pending) =
        IF s.popped >= Len(pending) THEN s ELSE [popped |-> s.popped + n, list |-> Append(s.list, b)]
  BY DEF AddBatch, b, n
<1> QED BY <1>4, <1>5 DEF Rounds, B

\* Whatever prepareBatches makes of what is pending after state ends where that ends.
LEMMA BatchesTyped ==
  ASSUME NEW state \in ActionStates, NEW pending \in ActionStates
  PROVE  BatchesOf(state, pending) \in Seq(BatchesTo(state \o pending))
<1> DEFINE N == Len(pending)
           base == [popped |-> 0, list |-> <<>>]
           S == Rounds(state, pending)
           Add(s) == AddBatch(s, state, pending)
           G == [k \in 1..N |-> [s \in S |-> Add(s)]]
           Body(g) == [k \in 0..N |-> IF k = 0 THEN base ELSE Add(g[k - 1])]
           f == CHOOSE g : g = Body(g)
<1>1. N \in Nat /\ base \in S
  BY EmptySeq DEF Rounds, ActionStates
<1>2. BatchesOf(state, pending) = f[N].list
  BY DEF BatchesOf
<1>3. \A s \in S : Add(s) \in S
  BY AddBatchTyped
<1> HIDE DEF N, base, S, Add
<1>4. G \in [1..N -> [S -> S]]
  BY <1>3
<1>5. \A k \in 1..N, s \in S : G[k][s] = Add(s)
  OBVIOUS
<1> HIDE DEF G
<1>6. PICK h : h \in Iterations(S, base, N, G)
  BY <1>1, <1>4, Iteration
<1>7. h = Body(h)
  BY <1>1, <1>5, <1>6 DEF Iterations
<1> HIDE DEF Body
<1>8. f = Body(f)
  BY <1>7
<1> HIDE DEF f
<1> USE DEF Body
<1>9. f[0] = base /\ \A k \in 1..N : f[k] = Add(f[k - 1])
  BY <1>1, <1>8
<1> DEFINE typed == {k \in 0..N : f[k] \in S}
<1>10. 0 \in typed
  BY <1>1, <1>9
<1>11. ASSUME NEW n \in 0..N - 1, n \in typed PROVE n + 1 \in typed
  <2>1. n + 1 \in 1..N /\ (n + 1) - 1 = n
    BY <1>1
  <2> QED BY <1>1, <1>3, <1>9, <1>11, <2>1
<1> HIDE DEF typed
<1>12. 0..N \subseteq typed
  BY <1>1, <1>10, <1>11, IntervalInduction
<1>13. f[N] \in S
  BY <1>1, <1>12 DEF typed
<1> QED BY <1>2, <1>13 DEF S, Rounds

\* A transaction is one for updates that were taken and updates that were left: it
\* gives the callback the former and leaves the latter on the stack.  Those it found
\* either on the stack that it requires, or the circuit vouches that with them the
\* action state becomes one that the account had.
Reached(state, past) == \E n \in 0..Len(past) : state = SubSeq(past, 1, n)

Fields == [actionState : ActionStates, actionStack : ActionStates]

TakesAndLeaves(tx, taken, left) ==
  /\ tx.actions = Flattened(taken) /\ Len(tx.actions) <= BatchSize
  /\ tx.fields = [actionState |-> tx.actionState \o taken, actionStack |-> Reverse(left)]

Grounded(tx, updates, past) ==
  IF tx.useOnchainStack THEN tx.actionStack = Reverse(updates)
  ELSE Reached(tx.actionState \o updates, past)

GoodTransaction(tx, past) ==
  /\ tx.actionState \in ActionStates
  /\ \E taken, left \in ActionStates :
       TakesAndLeaves(tx, taken, left) /\ Grounded(tx, taken \o left, past)

GoodBatches(past) ==
  {b \in Batches : /\ Reached(b.hint.onchainActionState, past)
                   /\ b.hint.proof.output \in StacksOf(b.hint.proof.input)}

\* What the circuit proves of a batch that was prepared at any time before is what
\* its transaction needs.
LEMMA BatchIsProcessed ==
  ASSUME NEW past \in ActionStates, NEW b \in GoodBatches(past), ProcessBatch(b).ok
  PROVE  GoodTransaction(ProcessBatch(b), past)
<1> DEFINE end == b.hint.onchainActionState
           start == IF b.hint.isRecursive THEN b.hint.proof.output ELSE EmptyStackAt(end)
           stacking == ActionStackChunk(MaxFinal, start, b.hint.witnesses)
           updates == Reverse(b.stack)
           n == Fitting(updates)
           taken == First(updates, n)
           left == Rest(updates, n)
           tx == ProcessBatch(b)
<1>1. /\ b \in Batches /\ b.hint \in Hints /\ b.hint.proof.output \in StacksOf(b.hint.proof.input)
      /\ Reached(end, past) /\ b.hint.proof.input \in ActionStates /\ end \in ActionStates
      /\ b.hint.witnesses \in Seq(ActionWitnesses)
      /\ b.stack \in ActionStates /\ b.processedActionState \in ActionStates
  BY DEF GoodBatches, Batches, Hints
<1>2. updates \in ActionStates /\ Reverse(updates) = b.stack
  BY <1>1, ReverseTyped, ReverseTwice DEF ActionStates
<1>3. /\ stacking.ok
      /\ b.hint.isRecursive => b.hint.proof.input = end
      /\ b.useOnchainStack \/ stacking.actions = b.processedActionState
      /\ b.stack = IF b.useOnchainStack THEN b.onchainStack ELSE stacking.stack
      /\ Len(Flattened(taken)) <= BatchSize
  BY DEF ProcessBatch
<1>4. /\ tx.actionState = b.processedActionState /\ tx.actionStack = b.onchainStack
      /\ tx.useOnchainStack = b.useOnchainStack /\ tx.actions = Flattened(taken)
      /\ tx.fields = [actionState |-> b.processedActionState \o taken,
                      actionStack |-> StackAfter(updates, taken)]
  BY DEF ProcessBatch
<1> HIDE DEF end, updates, tx
<1>5. n \in 0..Len(updates) /\ n \in Nat
  BY <1>2, FittingFits DEF ActionStates
<1> HIDE DEF n
<1>6. taken \in ActionStates /\ left \in ActionStates /\ taken \o left = updates /\ Len(taken) = n
  BY <1>2, <1>5, UpdatesCut
<1>7. StackAfter(updates, taken) = Reverse(left)
  BY <1>6 DEF StackAfter, StackOf
<1>8. TakesAndLeaves(tx, taken, left)
  BY <1>3, <1>4, <1>7 DEF TakesAndLeaves
<1>9. Grounded(tx, updates, past)
  <2>1. CASE b.useOnchainStack
    BY <1>2, <1>3, <1>4, <2>1 DEF Grounded
  <2>2. CASE ~b.useOnchainStack
    <3>1. start \in StacksOf(end)
      BY <1>1, <1>3, EmptyStack
    <3> HIDE DEF start
    <3>2. stacking \in StacksOf(end)
      BY <1>1, <3>1, SizeAssumption, ChunkStays
    <3>3. stacking.actions \o Reverse(stacking.stack) = end
      BY <1>3, <3>2 DEF StacksOf
    <3>4. stacking.actions = tx.actionState /\ Reverse(stacking.stack) = updates
      BY <1>3, <1>4, <2>2 DEF updates
    <3> QED BY <1>1, <1>4, <2>2, <3>3, <3>4 DEF Grounded
  <2> QED BY <2>1, <2>2
<1> HIDE DEF taken, left
<1>10. GoodTransaction(tx, past)
  BY <1>1, <1>4, <1>6, <1>8, <1>9 DEF GoodTransaction
<1> QED BY <1>10 DEF tx

-----------------------------------------------------------------------------
(* The contract *)

LEMMA ReachedLater ==
  ASSUME NEW past \in ActionStates, NEW update \in Updates, NEW state, Reached(state, past)
  PROVE  Reached(state, Append(past, update))
<1>1. PICK n \in 0..Len(past) : state = SubSeq(past, 1, n)
  BY DEF Reached
<1>2. n \in 0..Len(Append(past, update)) /\ SubSeq(Append(past, update), 1, n) = SubSeq(past, 1, n)
  BY DEF ActionStates
<1> QED BY <1>1, <1>2 DEF Reached

\* An action state that was reached is what was dispatched up to there, and the
\* states before it were reached too.
LEMMA ReachedSplits ==
  ASSUME NEW past \in ActionStates, NEW s \in ActionStates, NEW t \in ActionStates, Reached(s \o t, past)
  PROVE  /\ Len(s) \in 0..Len(past) /\ Len(s) + Len(t) <= Len(past)
         /\ s = SubSeq(past, 1, Len(s)) /\ Reached(s, past)
         /\ t = SubSeq(past, Len(s) + 1, Len(s) + Len(t))
<1>1. PICK n \in 0..Len(past) : s \o t = SubSeq(past, 1, n)
  BY DEF Reached
<1>2. /\ Len(past) \in Nat /\ Len(s) \in Nat /\ Len(t) \in Nat
      /\ s \in Seq(Updates) /\ t \in Seq(Updates) /\ past \in Seq(Updates)
  BY DEF ActionStates
<1>3. Len(SubSeq(past, 1, n)) = n /\ \A i \in 1..n : SubSeq(past, 1, n)[i] = past[i]
  BY <1>2
<1>4. /\ Len(s \o t) = Len(s) + Len(t)
      /\ \A i \in 1..Len(s) : (s \o t)[i] = s[i]
      /\ \A i \in 1..Len(t) : (s \o t)[Len(s) + i] = t[i]
  BY <1>2
<1>5. n = Len(s) + Len(t)
  BY <1>1, <1>3, <1>4
<1>6. s = SubSeq(past, 1, Len(s))
  <2> DEFINE u == SubSeq(past, 1, Len(s))
  <2>1. u \in Seq(Updates) /\ Len(u) = Len(s) /\ \A i \in 1..Len(s) : u[i] = past[i]
    BY <1>2, <1>5
  <2>2. \A i \in 1..Len(s) : s[i] = past[i]
    BY <1>1, <1>2, <1>3, <1>4, <1>5
  <2> HIDE DEF u
  <2>3. s = u
    BY <1>2, <2>1, <2>2, SeqEqual
  <2> QED BY <2>3 DEF u
<1>7. t = SubSeq(past, Len(s) + 1, Len(s) + Len(t))
  <2> DEFINE u == SubSeq(past, Len(s) + 1, Len(s) + Len(t))
  <2>1. u \in Seq(Updates) /\ Len(u) = Len(t) /\ \A i \in 1..Len(t) : u[i] = past[Len(s) + i]
    BY <1>2, <1>5
  <2>2. \A i \in 1..Len(t) : t[i] = past[Len(s) + i]
    BY <1>1, <1>2, <1>3, <1>4, <1>5
  <2> HIDE DEF u
  <2>3. t = u
    BY <1>2, <2>1, <2>2, SeqEqual
  <2> QED BY <2>3 DEF u
<1>8. Len(s) \in 0..Len(past) /\ Len(s) + Len(t) <= Len(past)
  BY <1>2, <1>5
<1> QED BY <1>6, <1>7, <1>8 DEF Reached

Transactions(past) ==
  {tx \in [ok : BOOLEAN, actionState : ActionStates, actionStack : ActionStates \union {<<"0">>},
           useOnchainStack : BOOLEAN, onchainActionState : ActionStates,
           actions : Seq(Actions), fields : Fields] : GoodTransaction(tx, past)}

BatchInv ==
  /\ history \in ActionStates
  /\ chain \in Fields /\ Reached(chain.actionState \o Reverse(chain.actionStack), history)
  /\ handled = Flattened(chain.actionState)
  /\ pc \in [Settlers -> {"idle", "fetching"}]
  /\ from \in [Settlers -> ActionStates] /\ \A s \in Settlers : Reached(from[s], history)
  /\ batches \in [Settlers -> Seq(GoodBatches(history))]
  /\ sent \in [Settlers -> Seq(Transactions(history))]
  /\ crashes \in 0..MaxCrashes

LEMMA BatchesKept ==
  ASSUME NEW past \in ActionStates, NEW update \in Updates
  PROVE  /\ Seq(GoodBatches(past)) \subseteq Seq(GoodBatches(Append(past, update)))
         /\ Seq(Transactions(past)) \subseteq Seq(Transactions(Append(past, update)))
<1>1. GoodBatches(past) \subseteq GoodBatches(Append(past, update))
  BY ReachedLater DEF GoodBatches
<1>2. ASSUME NEW tx, GoodTransaction(tx, past) PROVE GoodTransaction(tx, Append(past, update))
  <2>1. PICK taken, left \in ActionStates :
          TakesAndLeaves(tx, taken, left) /\ Grounded(tx, taken \o left, past)
    BY <1>2 DEF GoodTransaction
  <2>2. Grounded(tx, taken \o left, Append(past, update))
    BY <2>1, ReachedLater DEF Grounded
  <2> QED BY <1>2, <2>1, <2>2 DEF GoodTransaction
<1>3. Transactions(past) \subseteq Transactions(Append(past, update))
  BY <1>2 DEF Transactions
<1> QED BY <1>1, <1>3, SeqMonotonic

\* What a transaction that is accepted does to the contract.
LEMMA TransactionApplies ==
  ASSUME BatchInv, NEW tx \in Transactions(history), NEW older \in BOOLEAN, Accepts(tx, older)
  PROVE  /\ tx.fields \in Fields
         /\ Reached(tx.fields.actionState \o Reverse(tx.fields.actionStack), history)
         /\ handled \o tx.actions = Flattened(tx.fields.actionState)
         /\ tx.actions \in Seq(Actions) /\ Len(tx.actions) <= BatchSize
<1>1. /\ tx.actionState \in ActionStates /\ tx.actions \in Seq(Actions) /\ tx.fields \in Fields
      /\ tx.useOnchainStack \in BOOLEAN
  BY DEF Transactions
<1>2. PICK taken, left \in ActionStates :
        TakesAndLeaves(tx, taken, left) /\ Grounded(tx, taken \o left, history)
  BY DEF Transactions, GoodTransaction
<1>3. /\ chain.actionState = tx.actionState
      /\ tx.useOnchainStack => chain.actionStack = tx.actionStack
  BY DEF Accepts, AcceptsAnyState
<1>4. taken \o left \in ActionStates
  BY ConcatProperties DEF ActionStates
<1>5. Reached(tx.actionState \o (taken \o left), history)
  <2>1. CASE tx.useOnchainStack
    <3>1. Reverse(chain.actionStack) = taken \o left
      <4>1. chain.actionStack = Reverse(taken \o left)
        BY <1>2, <1>3, <2>1 DEF Grounded
      <4>2. Reverse(Reverse(taken \o left)) = taken \o left
        BY <1>4, ReverseTwice DEF ActionStates
      <4> QED BY <4>1, <4>2
    <3> QED BY <1>3, <3>1 DEF BatchInv
  <2>2. CASE ~tx.useOnchainStack
    BY <1>2, <2>2 DEF Grounded
  <2> QED BY <2>1, <2>2
<1>6. /\ tx.fields.actionState = tx.actionState \o taken /\ tx.fields.actionStack = Reverse(left)
      /\ tx.actions = Flattened(taken) /\ Len(tx.actions) <= BatchSize
  BY <1>2 DEF TakesAndLeaves
<1>7. Reverse(tx.fields.actionStack) = left
  BY <1>6, ReverseTwice DEF ActionStates
<1>8. (tx.actionState \o taken) \o left = tx.actionState \o (taken \o left)
  <2>1. tx.actionState \in Seq(Updates) /\ taken \in Seq(Updates) /\ left \in Seq(Updates)
    BY <1>1 DEF ActionStates
  <2> DEFINE state == tx.actionState
  <2> HIDE DEF state
  <2>2. state \in Seq(Updates)
    BY <2>1 DEF state
  <2>3. (state \o taken) \o left = state \o (taken \o left)
    BY <2>1, <2>2, ConcatAssociative
  <2> QED BY <2>3 DEF state
<1>9. Flattened(tx.actionState \o taken) = Flattened(tx.actionState) \o Flattened(taken)
  <2>1. tx.actionState \in Seq(Seq(Actions)) /\ taken \in Seq(Seq(Actions))
    BY <1>1, SizeAssumption, SeqMonotonic DEF ActionStates
  <2>2. FlattensConcat(tx.actionState, taken)
    BY <2>1, FlattenedConcat
  <2> QED BY <2>2 DEF FlattensConcat
<1>10. handled \o tx.actions = Flattened(tx.fields.actionState)
  BY <1>3, <1>6, <1>9 DEF BatchInv
<1>11. Reached(tx.fields.actionState \o Reverse(tx.fields.actionStack), history)
  BY <1>5, <1>6, <1>7, <1>8
<1> QED BY <1>1, <1>6, <1>10, <1>11

LEMMA ProcessedTyped ==
  ASSUME NEW past \in ActionStates, NEW b \in GoodBatches(past), ProcessBatch(b).ok
  PROVE  ProcessBatch(b) \in Transactions(past)
<1> DEFINE tx == ProcessBatch(b)
<1>1. GoodTransaction(tx, past)
  BY BatchIsProcessed
<1>2. /\ DOMAIN tx = {"ok", "actionState", "actionStack", "useOnchainStack", "onchainActionState", "actions", "fields"}
      /\ tx = [ok |-> tx.ok, actionState |-> tx.actionState, actionStack |-> tx.actionStack,
               useOnchainStack |-> tx.useOnchainStack, onchainActionState |-> tx.onchainActionState,
               actions |-> tx.actions, fields |-> tx.fields]
  BY DEF ProcessBatch
<1>3. /\ tx.actionStack = b.onchainStack /\ tx.useOnchainStack = b.useOnchainStack
      /\ tx.onchainActionState = b.hint.onchainActionState /\ tx.ok = TRUE
  BY DEF ProcessBatch
<1> HIDE DEF tx
<1>4. PICK taken, left \in ActionStates : TakesAndLeaves(tx, taken, left)
  BY <1>1 DEF GoodTransaction
<1>5. tx.actions \in Seq(Actions)
  BY <1>4, SizeTyped DEF TakesAndLeaves
<1>6. tx.fields \in Fields
  <2>1. tx.actionState \in ActionStates
    BY <1>1 DEF GoodTransaction
  <2>2. tx.actionState \o taken \in ActionStates /\ Reverse(left) \in ActionStates
    BY <2>1, ConcatProperties, ReverseTyped DEF ActionStates
  <2> QED BY <1>4, <2>2 DEF TakesAndLeaves, Fields
<1>7. tx.actionState \in ActionStates
  BY <1>1 DEF GoodTransaction
<1>8. /\ tx.actionStack \in ActionStates \union {<<"0">>} /\ tx.useOnchainStack \in BOOLEAN
      /\ tx.onchainActionState \in ActionStates /\ tx.ok \in BOOLEAN
  BY <1>3 DEF GoodBatches, Batches, Hints
<1>9. tx \in [ok : BOOLEAN, actionState : ActionStates, actionStack : ActionStates \union {<<"0">>},
              useOnchainStack : BOOLEAN, onchainActionState : ActionStates,
              actions : Seq(Actions), fields : Fields]
  BY <1>2, <1>5, <1>6, <1>7, <1>8
<1> QED BY <1>1, <1>9 DEF Transactions, tx

LEMMA BatchInvInit ==
  ASSUME Init
  PROVE  BatchInv
<1>1. <<>> \in ActionStates /\ Len(<<>>) = 0
  BY EmptySeq DEF ActionStates
<1>2. <<>> \o Reverse(<<>>) = <<>> /\ SubSeq(<<>>, 1, 0) = <<>>
  BY <1>1, ReverseEmpty, ConcatEmptySeq, SubSeqEmpty DEF ActionStates
<1>3. Reached(<<>>, <<>>)
  BY <1>1, <1>2 DEF Reached
<1>4. Flattened(<<>>) = <<>>
  BY EmptySeq, FlattenedSteps
<1>5. history = <<>> /\ chain = [actionState |-> <<>>, actionStack |-> <<>>] /\ handled = <<>>
  BY DEF Init
<1>6. /\ chain \in Fields /\ Reached(chain.actionState \o Reverse(chain.actionStack), history)
      /\ handled = Flattened(chain.actionState) /\ history \in ActionStates
  BY <1>1, <1>2, <1>3, <1>4, <1>5 DEF Fields
<1>7. /\ pc \in [Settlers -> {"idle", "fetching"}]
      /\ from \in [Settlers -> ActionStates] /\ \A s \in Settlers : Reached(from[s], history)
  BY <1>1, <1>3 DEF Init
<1>8. /\ batches \in [Settlers -> Seq(GoodBatches(history))]
      /\ sent \in [Settlers -> Seq(Transactions(history))]
  BY EmptySeq DEF Init
<1>9. crashes \in 0..MaxCrashes
  BY SizeAssumption DEF Init
<1> QED BY <1>6, <1>7, <1>8, <1>9 DEF BatchInv

LEMMA BatchInvStep ==
  ASSUME BatchInv, [Next]_vars
  PROVE  BatchInv'
<1> DEFINE Good == GoodBatches(history)
           Txs == Transactions(history)
<1>1. /\ history \in ActionStates
      /\ chain \in Fields /\ Reached(chain.actionState \o Reverse(chain.actionStack), history)
      /\ handled = Flattened(chain.actionState)
      /\ pc \in [Settlers -> {"idle", "fetching"}]
      /\ from \in [Settlers -> ActionStates] /\ \A s \in Settlers : Reached(from[s], history)
      /\ batches \in [Settlers -> Seq(Good)] /\ sent \in [Settlers -> Seq(Txs)]
      /\ crashes \in 0..MaxCrashes
  BY DEF BatchInv
<1> HIDE DEF Good, Txs
<1>2. ASSUME NEW update \in Updates, Dispatch(update) PROVE BatchInv'
  <2>1. history' = Append(history, update) /\ UNCHANGED <<chain, handled, pc, from, batches, sent, crashes>>
    BY <1>2 DEF Dispatch, settlerVars
  <2>2. history' \in ActionStates
    BY <1>1, <2>1 DEF ActionStates
  <2>3. /\ Reached(chain'.actionState \o Reverse(chain'.actionStack), history')
        /\ \A s \in Settlers : Reached(from'[s], history')
    BY <1>1, <2>1, ReachedLater
  <2>4. batches' \in [Settlers -> Seq(GoodBatches(history'))] /\ sent' \in [Settlers -> Seq(Transactions(history'))]
    <3>1. /\ Seq(Good) \subseteq Seq(GoodBatches(Append(history, update)))
          /\ Seq(Txs) \subseteq Seq(Transactions(Append(history, update)))
      BY <1>1, BatchesKept DEF Good, Txs
    <3> QED BY <1>1, <2>1, <3>1
  <2> QED BY <1>1, <2>1, <2>2, <2>3, <2>4 DEF BatchInv
<1>3. ASSUME NEW s \in Settlers, FetchActionState(s) PROVE BatchInv'
  <2>1. chain.actionState \in ActionStates /\ Reached(chain.actionState, history)
    <3>1. chain.actionState \in ActionStates /\ Reverse(chain.actionStack) \in ActionStates
      BY <1>1, ReverseTyped DEF Fields, ActionStates
    <3> QED BY <1>1, <3>1, ReachedSplits
  <2>2. /\ pc' = [pc EXCEPT ![s] = "fetching"] /\ from' = [from EXCEPT ![s] = chain.actionState]
        /\ UNCHANGED <<history, chain, handled, batches, sent, crashes>>
    BY <1>3 DEF FetchActionState
  <2>3. /\ pc' \in [Settlers -> {"idle", "fetching"}]
        /\ from' \in [Settlers -> ActionStates] /\ \A t \in Settlers : Reached(from'[t], history)
    BY <1>1, <2>1, <2>2
  <2> QED BY <1>1, <2>2, <2>3 DEF BatchInv, Good, Txs
<1>4. ASSUME NEW s \in Settlers, FetchActions(s) PROVE BatchInv'
  <2> DEFINE n == Len(from[s])
             pending == Rest(history, n)
             made == BatchesOf(from[s], pending)
  <2>1. from[s] \in ActionStates /\ n \in 0..Len(history) /\ from[s] = First(history, n)
    <3>1. from[s] \in ActionStates /\ Reached(from[s], history)
      BY <1>1
    <3>2. PICK k \in 0..Len(history) : from[s] = SubSeq(history, 1, k)
      BY <3>1 DEF Reached
    <3>3. k = n
      BY <1>1, <3>2 DEF ActionStates
    <3> QED BY <3>1, <3>2, <3>3 DEF First
  <2> HIDE DEF n
  <2>2. pending \in ActionStates /\ from[s] \o pending = history
    BY <1>1, <2>1, UpdatesCut
  <2> HIDE DEF pending
  <2>3. made \in Seq(BatchesTo(history))
    BY <2>1, <2>2, BatchesTyped
  <2>4. BatchesTo(history) \subseteq Good
    <3>1. Len(history) \in 0..Len(history) /\ history = SubSeq(history, 1, Len(history))
      BY <1>1, SubSeqFull, LenProperties DEF ActionStates
    <3>2. Reached(history, history)
      BY <3>1 DEF Reached
    <3> QED BY <3>2 DEF BatchesTo, GoodBatches, Good
  <2> HIDE DEF made
  <2>5. made \in Seq(Good)
    BY <2>3, <2>4, SeqMonotonic
  <2>6. /\ pc' = [pc EXCEPT ![s] = "idle"] /\ batches' = [batches EXCEPT ![s] = made]
        /\ UNCHANGED <<history, chain, handled, from, sent, crashes>>
    BY <1>4 DEF FetchActions, made, pending, n
  <2>7. pc' \in [Settlers -> {"idle", "fetching"}] /\ batches' \in [Settlers -> Seq(Good)]
    BY <1>1, <2>5, <2>6
  <2> QED BY <1>1, <2>6, <2>7 DEF BatchInv, Good, Txs
<1>5. ASSUME NEW s \in Settlers, Send(s) PROVE BatchInv'
  <2> DEFINE b == Head(batches[s])
             tx == ProcessBatch(b)
  <2>1. batches[s] \in Seq(Good) /\ batches[s] # <<>> /\ sent[s] \in Seq(Txs)
    BY <1>1, <1>5 DEF Send
  <2>2. b \in Good /\ Tail(batches[s]) \in Seq(Good) /\ <<>> \in Seq(Good)
    BY <2>1, HeadTailProperties, EmptySeq
  <2>3. UNCHANGED <<history, chain, handled, pc, from, crashes>>
    BY <1>5 DEF Send
  <2>4. CASE tx.ok
    <3>1. tx \in Txs
      BY <1>1, <2>2, <2>4, ProcessedTyped DEF Good, Txs
    <3>2. sent' = [sent EXCEPT ![s] = Append(@, tx)] /\ batches' = [batches EXCEPT ![s] = Tail(@)]
      BY <1>5, <2>4 DEF Send
    <3> HIDE DEF tx, b
    <3>3. Append(sent[s], tx) \in Seq(Txs)
      BY <2>1, <3>1
    <3>4. sent' \in [Settlers -> Seq(Txs)] /\ batches' \in [Settlers -> Seq(Good)]
      BY <1>1, <2>2, <3>2, <3>3
    <3> QED BY <1>1, <2>3, <3>4 DEF BatchInv, Good, Txs
  <2>5. CASE ~tx.ok
    <3>1. batches' = [batches EXCEPT ![s] = <<>>] /\ UNCHANGED sent
      BY <1>5, <2>5 DEF Send
    <3>2. batches' \in [Settlers -> Seq(Good)]
      BY <1>1, <2>2, <3>1
    <3> QED BY <1>1, <2>3, <3>1, <3>2 DEF BatchInv, Good, Txs
  <2> QED BY <2>4, <2>5
<1>6. ASSUME NEW s \in Settlers, Apply(s) PROVE BatchInv'
  <2> DEFINE tx == Head(sent[s])
  <2>1. sent[s] \in Seq(Txs) /\ sent[s] # <<>>
    BY <1>1, <1>6 DEF Apply
  <2>2. tx \in Txs /\ Tail(sent[s]) \in Seq(Txs) /\ <<>> \in Seq(Good)
    BY <2>1, HeadTailProperties, EmptySeq
  <2>3. sent' = [sent EXCEPT ![s] = Tail(@)] /\ UNCHANGED <<history, pc, from, crashes>>
    BY <1>6 DEF Apply
  <2>4. sent' \in [Settlers -> Seq(Txs)]
    BY <1>1, <2>2, <2>3
  <2>5. PICK older \in BOOLEAN :
          IF Accepts(tx, older)
          THEN chain' = tx.fields /\ handled' = handled \o tx.actions /\ UNCHANGED batches
          ELSE batches' = [batches EXCEPT ![s] = <<>>] /\ UNCHANGED <<chain, handled>>
    BY <1>6 DEF Apply
  <2>6. CASE Accepts(tx, older)
    <3>1. /\ tx.fields \in Fields
          /\ Reached(tx.fields.actionState \o Reverse(tx.fields.actionStack), history)
          /\ handled \o tx.actions = Flattened(tx.fields.actionState)
      BY <2>2, <2>6, TransactionApplies DEF Txs
    <3> HIDE DEF tx
    <3>2. chain' = tx.fields /\ handled' = handled \o tx.actions /\ UNCHANGED batches
      BY <2>5, <2>6
    <3>3. /\ chain' \in Fields /\ handled' = Flattened(chain'.actionState)
          /\ Reached(chain'.actionState \o Reverse(chain'.actionStack), history)
      BY <3>1, <3>2
    <3> QED BY <1>1, <2>3, <2>4, <3>2, <3>3 DEF BatchInv, Good, Txs
  <2>7. CASE ~Accepts(tx, older)
    <3>1. batches' = [batches EXCEPT ![s] = <<>>] /\ UNCHANGED <<chain, handled>>
      BY <2>5, <2>7
    <3>2. batches' \in [Settlers -> Seq(Good)]
      BY <1>1, <2>2, <3>1
    <3> QED BY <1>1, <2>3, <2>4, <3>1, <3>2 DEF BatchInv, Good, Txs
  <2> QED BY <2>6, <2>7
<1>7. ASSUME NEW s \in Settlers, Crash(s) PROVE BatchInv'
  <2>1. /\ crashes < MaxCrashes /\ crashes' = crashes + 1
        /\ pc' = [pc EXCEPT ![s] = "idle"] /\ batches' = [batches EXCEPT ![s] = <<>>]
        /\ sent' \in {sent, [sent EXCEPT ![s] = <<>>]}
        /\ UNCHANGED <<history, chain, handled, from>>
    BY <1>7 DEF Crash
  <2>2. <<>> \in Seq(Good) /\ <<>> \in Seq(Txs) /\ MaxCrashes \in Nat
    BY EmptySeq, SizeAssumption
  <2>3. /\ pc' \in [Settlers -> {"idle", "fetching"}] /\ crashes' \in 0..MaxCrashes
        /\ batches' \in [Settlers -> Seq(Good)]
    BY <1>1, <2>1, <2>2
  <2>4. sent' \in [Settlers -> Seq(Txs)]
    <3>1. sent \in [Settlers -> Seq(Txs)] /\ [sent EXCEPT ![s] = <<>>] \in [Settlers -> Seq(Txs)]
      BY <1>1, <2>2
    <3> QED BY <2>1, <3>1
  <2> QED BY <1>1, <2>1, <2>3, <2>4 DEF BatchInv, Good, Txs
<1>8. CASE UNCHANGED vars
  BY <1>1, <1>8 DEF BatchInv, Good, Txs, vars, settlerVars
<1> QED BY <1>2, <1>3, <1>4, <1>5, <1>6, <1>7, <1>8 DEF Next, Settle

\* Every reachable state satisfies the invariant.
THEOREM BatchInvHolds == Spec => []BatchInv
<1>1. Init => BatchInv
  BY BatchInvInit
<1>2. BatchInv /\ [Next]_vars => BatchInv'
  BY BatchInvStep
<1> QED BY <1>1, <1>2, PTL DEF Spec

LEMMA StackIsPendingFollows ==
  ASSUME BatchInv
  PROVE  StackIsPending
<1> DEFINE state == chain.actionState
           stack == chain.actionStack
           left == Reverse(stack)
           n == Len(state)
           after == Rest(history, n)
<1>1. history \in ActionStates /\ state \in ActionStates /\ stack \in ActionStates /\ Reached(state \o left, history)
  BY DEF BatchInv, Fields
<1>2. left \in ActionStates /\ Len(left) = Len(stack) /\ Reverse(left) = stack
  BY <1>1, ReverseTyped, ReverseTwice DEF ActionStates
<1> HIDE DEF state, stack, left
<1>3. /\ n + Len(left) <= Len(history) /\ state = SubSeq(history, 1, n)
      /\ left = SubSeq(history, n + 1, n + Len(left))
  BY <1>1, <1>2, ReachedSplits
<1>4. n \in Nat /\ Len(stack) \in Nat /\ Len(history) \in Nat
  BY <1>1 DEF ActionStates
<1>5. IsPrefix(state, history)
  <2>1. SubSeq(state, 1, n) = state
    BY <1>1, SubSeqFull DEF ActionStates
  <2> QED BY <1>2, <1>3, <1>4, <2>1 DEF IsPrefix
<1>6. First(after, Len(stack)) = left
  <2> DEFINE m == Len(stack)
             u == SubSeq(after, 1, m)
             v == SubSeq(history, n + 1, n + m)
  <2>1. n \in 0..Len(history) /\ m \in Nat /\ n + m <= Len(history)
    BY <1>2, <1>3, <1>4
  <2>2. after \in Seq(Updates) /\ Len(after) = Len(history) - n
    BY <1>1, <2>1, UpdatesCut DEF ActionStates
  <2>3. \A i \in 1..Len(after) : after[i] = history[n + i]
    BY <1>1, <1>4, <2>1 DEF Rest, ActionStates
  <2> HIDE DEF after, m, n
  <2>4. First(after, m) = u
    BY <1>4, <2>1, <2>2 DEF First
  <2>5. u \in Seq(Updates) /\ Len(u) = m /\ \A i \in 1..m : u[i] = after[i]
    BY <1>4, <2>1, <2>2
  <2>6. v \in Seq(Updates) /\ Len(v) = m /\ \A i \in 1..m : v[i] = history[n + i]
    BY <1>1, <1>4, <2>1 DEF ActionStates
  <2>7. \A i \in 1..m : i \in 1..Len(after)
    BY <1>4, <2>1, <2>2
  <2> HIDE DEF u, v
  <2>8. u = v
    BY <2>3, <2>5, <2>6, <2>7, SeqEqual
  <2> QED BY <1>2, <1>3, <2>4, <2>8 DEF m, n, v
<1> QED BY <1>2, <1>5, <1>6 DEF StackIsPending, state, stack, after, n

\* "Otherwise, the onchain stack is known to be valid" (batch-reducer.ts:266): for
\* any number of settlers, and whatever they send, the stack that the contract
\* stores holds the updates that follow its action state, in order.
THEOREM StackHoldsPending == Spec => []StackIsPending
<1>1. BatchInv => StackIsPending
  BY StackIsPendingFollows
<1> QED BY <1>1, BatchInvHolds, PTL

LEMMA QueueSteps ==
  ASSUME BatchInv, BatchInv', [Next]_vars
  PROVE  [Queue!Next]_(Queue!vars)
<1>1. ASSUME NEW update \in Updates, Dispatch(update) PROVE Queue!Next
  <2>1. Queue!Dispatch(update)
    BY <1>1 DEF Dispatch, Queue!Dispatch
  <2> QED BY <2>1 DEF Queue!Next
<1>2. ASSUME NEW s \in Settlers, Apply(s) PROVE [Queue!Next]_(Queue!vars)
  <2> DEFINE tx == Head(sent[s])
  <2>1. tx \in Transactions(history)
    <3>1. sent[s] \in Seq(Transactions(history)) /\ sent[s] # <<>>
      BY <1>2 DEF BatchInv, Apply
    <3> QED BY <3>1, HeadTailProperties
  <2>2. UNCHANGED history
    BY <1>2 DEF Apply
  <2>3. PICK older \in BOOLEAN :
          IF Accepts(tx, older)
          THEN chain' = tx.fields /\ handled' = handled \o tx.actions /\ UNCHANGED batches
          ELSE batches' = [batches EXCEPT ![s] = <<>>] /\ UNCHANGED <<chain, handled>>
    BY <1>2 DEF Apply
  <2>4. CASE Accepts(tx, older)
    <3>1. tx.actions \in Seq(Actions) /\ Len(tx.actions) <= BatchSize
      BY <2>1, <2>4, TransactionApplies
    <3>2. handled' = handled \o tx.actions
      BY <2>3, <2>4
    <3> HIDE DEF tx
    <3>3. handled \in Seq(Actions)
      <4>1. chain.actionState \in ActionStates /\ handled = Flattened(chain.actionState)
        BY DEF BatchInv, Fields
      <4> QED BY <4>1, SizeTyped
    <3>4. CASE tx.actions = <<>>
      <4>1. handled' = handled
        BY <3>2, <3>3, <3>4, ConcatEmptySeq
      <4> QED BY <2>2, <4>1 DEF Queue!vars
    <3>5. CASE tx.actions # <<>>
      <4> DEFINE n == Len(chain'.actionState)
      <4>1. /\ chain'.actionState \in ActionStates /\ chain'.actionStack \in ActionStates
            /\ Reached(chain'.actionState \o Reverse(chain'.actionStack), history)
            /\ handled' = Flattened(chain'.actionState) /\ history \in ActionStates
        BY <2>2 DEF BatchInv, Fields
      <4>2. Reverse(chain'.actionStack) \in ActionStates
        BY <4>1, ReverseTyped DEF ActionStates
      <4>3. chain'.actionState = SubSeq(history, 1, n) /\ n \in 0..Len(history)
        BY <4>1, <4>2, ReachedSplits
      <4>4. Len(handled') - Len(handled) \in 1..BatchSize
        <5>1. Len(tx.actions) \in 1..BatchSize
          BY <3>1, <3>5, EmptySeq, SizeAssumption
        <5>2. Len(handled') = Len(handled) + Len(tx.actions) /\ Len(handled) \in Nat
          BY <3>1, <3>2, <3>3
        <5> QED BY <5>1, <5>2
      <4> HIDE DEF n
      <4>5. handled' = Flattened(SubSeq(history, 1, n))
        BY <4>1, <4>3
      <4>6. Flattened(SubSeq(history, 1, n)) = Queue!Flattened(SubSeq(history, 1, n))
        BY DEF Flattened, Queue!Flattened
      <4>7. Queue!Handle
        BY <2>2, <4>3, <4>4, <4>5, <4>6 DEF Queue!Handle
      <4> QED BY <4>7 DEF Queue!Next
    <3> QED BY <3>4, <3>5
  <2>5. CASE ~Accepts(tx, older)
    BY <2>2, <2>3, <2>5 DEF Queue!vars
  <2> QED BY <2>4, <2>5
<1>3. ASSUME NEW s \in Settlers, Settle(s) \/ Crash(s) PROVE UNCHANGED Queue!vars
  BY <1>3 DEF Settle, FetchActionState, FetchActions, Send, Crash, Queue!vars
<1>4. CASE UNCHANGED vars
  BY <1>4 DEF vars, Queue!vars
<1> QED BY <1>1, <1>2, <1>3, <1>4 DEF Next

\* The batch reducer implements the queue of ActionQueue: however batches are
\* prepared, sent, refused and prepared again, every action is handled at most once,
\* in the order in which it was dispatched, and together with those of its update.
THEOREM HandlesInOrder == Spec => ImplementsQueue
<1>1. Init => Queue!Init
  BY DEF Init, Queue!Init
<1>2. BatchInv /\ BatchInv' /\ [Next]_vars => [Queue!Next]_(Queue!vars)
  BY QueueSteps
<1> QED BY <1>1, <1>2, BatchInvHolds, PTL DEF Spec, ImplementsQueue, Queue!Spec
=============================================================================
