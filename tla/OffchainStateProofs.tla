------------------------- MODULE OffchainStateProofs -------------------------
(***************************************************************************)
(* The circuit that makes settlement proofs, in batches and on a flat list *)
(* of actions, computes the map that the clients rebuild, and both compute *)
(* what the actions mean; what the contract commits to is therefore what   *)
(* its actions mean.                                                       *)
(***************************************************************************)
EXTENDS OffchainState, InductionLemmas

-----------------------------------------------------------------------------
(* Typing of the steps that are folded *)

LEMMA SetTyped ==
  ASSUME NEW m \in Maps, NEW key \in Keys, NEW value \in Values
  PROVE  Set(m, key, value) \in Maps
<1>1. <<key, value>> \in Keys \X Values
  OBVIOUS
<1>2. CASE HasKey(m, key)
  <2>1. IndexOf(m, key) \in DOMAIN m
    BY <1>2 DEF HasKey, IndexOf
  <2> QED BY <1>1, <1>2, <2>1 DEF Set, Maps
<1>3. CASE ~HasKey(m, key)
  BY <1>1, <1>3 DEF Set, Maps
<1> QED BY <1>2, <1>3

LEMMA ActionTyped ==
  ASSUME NEW m \in Maps, NEW a \in Actions
  PROVE  SetAction(m, a) \in Maps /\ IsValidAction(m, a) \in BOOLEAN
<1>1. a.key \in Keys /\ a.value \in Values
  BY DEF Actions
<1> QED BY <1>1, SetTyped DEF SetAction, IsValidAction

LEMMA WriteActionTyped == WriteAction \in [Maps -> [Actions -> Maps]]
BY ActionTyped DEF WriteAction

LEMMA ApplyLeafTyped == ApplyLeaf \in [LeafStates -> [Actions -> LeafStates]]
<1> SUFFICES ASSUME NEW s \in LeafStates, NEW a \in Actions
             PROVE  (IF ~s.isValid THEN s
                     ELSE IF IsValidAction(s.intermediate, a)
                          THEN [s EXCEPT !.intermediate = SetAction(@, a)]
                          ELSE [s EXCEPT !.isValid = FALSE]) \in LeafStates
  BY DEF ApplyLeaf
<1>1. s.intermediate \in Maps
  BY DEF LeafStates
<1>2. SetAction(s.intermediate, a) \in Maps
  BY <1>1, ActionTyped
<1> QED BY <1>2 DEF LeafStates

LEMMA CarryOutTyped ==
  ASSUME NEW s \in CircuitStates, NEW a \in Actions
  PROVE  CarryOut(s, a) \in CircuitStates
<1>1. s.intermediate \in Maps /\ s.isValid \in BOOLEAN
  BY DEF CircuitStates
<1>2. SetAction(s.intermediate, a) \in Maps /\ IsValidAction(s.intermediate, a) \in BOOLEAN
  BY <1>1, ActionTyped
<1>3. (s.isValid /\ IsValidAction(s.intermediate, a)) \in BOOLEAN
  BY <1>1, <1>2
<1> QED BY <1>2, <1>3 DEF CarryOut, CircuitStates

LEMMA CircuitStepTyped == CircuitStep \in [CircuitStates -> [Elements -> CircuitStates]]
<1> SUFFICES ASSUME NEW s \in CircuitStates, NEW element \in Elements
             PROVE  (IF element.isCheckPoint THEN CheckPoint(CarryOut(s, element.action))
                     ELSE CarryOut(s, element.action)) \in CircuitStates
  BY DEF CircuitStep
<1>1. element.action \in Actions
  BY DEF Elements
<1>2. CarryOut(s, element.action) \in CircuitStates
  BY <1>1, CarryOutTyped
<1>3. ASSUME NEW t \in CircuitStates PROVE CheckPoint(t) \in CircuitStates
  BY DEF CheckPoint, CircuitStates
<1> QED BY <1>2, <1>3

LEMMA UpdateTyped ==
  ASSUME NEW u \in Updates
  PROVE  /\ u \in Seq(Actions) /\ Len(u) \in Nat /\ 1 <= Len(u) /\ Len(u) <= MaxPerProof
         /\ Marked(u) \in Seq(Elements) /\ Len(Marked(u)) = Len(u)
<1>1. u \in Seq(Actions) /\ Len(u) \in Nat /\ 1 <= Len(u) /\ Len(u) <= MaxPerProof
  BY SizeAssumption
<1>2. Marked(u) \in [1..Len(u) -> Elements]
  BY <1>1 DEF Marked, Elements
<1>3. Marked(u) \in Seq(Elements) /\ DOMAIN Marked(u) = 1..Len(u)
  BY <1>1, <1>2
<1> QED BY <1>1, <1>3

LEMMA StartsTyped == ASSUME NEW m \in Maps PROVE Starts(m) \in CircuitStates
BY DEF Starts, CircuitStates

-----------------------------------------------------------------------------
(* One update *)

\* The maps that the actions of an update lead through, and whether they were
\* valid so far.
ValidTo(m, u, n) == \A k \in 1..n : IsValidAction(MapAfter(u, m, k - 1), u[k])
MapsThrough(m, u) ==
  /\ MapAfter(u, m, 0) = m
  /\ \A k \in 0..Len(u) : MapAfter(u, m, k) \in Maps
  /\ \A k \in 1..Len(u) : MapAfter(u, m, k) = SetAction(MapAfter(u, m, k - 1), u[k])

LEMMA UpdateMaps ==
  ASSUME NEW m \in Maps, NEW u \in Updates
  PROVE  MapsThrough(m, u)
<1>1. u \in Seq(Actions) /\ Len(u) \in Nat
  BY UpdateTyped
<1>2. PrefixFolds(Maps, WriteAction, m, u)
  BY <1>1, WriteActionTyped, FoldedPrefixes
<1>3. MapAfter(u, m, 0) = m /\ \A k \in 0..Len(u) : MapAfter(u, m, k) \in Maps
  BY <1>2 DEF PrefixFolds, MapAfter
<1>4. ASSUME NEW k \in 1..Len(u)
      PROVE  MapAfter(u, m, k) = SetAction(MapAfter(u, m, k - 1), u[k])
  <2>1. MapAfter(u, m, k) = WriteAction[MapAfter(u, m, k - 1)][u[k]]
    BY <1>2 DEF PrefixFolds, MapAfter
  <2>2. MapAfter(u, m, k - 1) \in Maps /\ u[k] \in Actions
    <3>1. k - 1 \in 0..Len(u)
      BY <1>1
    <3> QED BY <1>1, <1>3, <3>1
  <2> QED BY <2>1, <2>2 DEF WriteAction
<1> QED BY <1>3, <1>4 DEF MapsThrough

LEMMA ValidOnward ==
  ASSUME NEW m, NEW u, NEW n \in Nat
  PROVE  /\ ValidTo(m, u, 0)
         /\ ValidTo(m, u, n + 1) <=> ValidTo(m, u, n) /\ IsValidAction(MapAfter(u, m, n), u[n + 1])
<1>1. (n + 1) - 1 = n /\ n + 1 \in 1..n + 1 /\ \A k \in 1..n + 1 : k \in 1..n \/ k = n + 1
  OBVIOUS
<1>2. \A k \in 1..n : k \in 1..n + 1
  OBVIOUS
<1> QED BY <1>1, <1>2 DEF ValidTo

LEMMA MeaningIs ==
  ASSUME NEW m \in Maps, NEW u \in Updates
  PROVE  /\ Meaning[m][u] = IF ValidTo(m, u, Len(u)) THEN MapAfter(u, m, Len(u)) ELSE m
         /\ Meaning[m][u] \in Maps
<1>1. DOMAIN u = 1..Len(u) /\ Len(u) \in 0..Len(u)
  BY UpdateTyped
<1>2. MapAfter(u, m, Len(u)) \in Maps
  BY <1>1, UpdateMaps DEF MapsThrough
<1> QED BY <1>1, <1>2 DEF Meaning, ValidTo

\* What clients rebuild, and stop at the first invalid action of an update for, is
\* what its actions mean.
THEOREM ApplyUpdateIsMeaning == ApplyUpdate = Meaning
<1> SUFFICES ASSUME NEW m \in Maps, NEW u \in Updates
             PROVE  ApplyUpdate[m][u] = Meaning[m][u]
  BY DEF ApplyUpdate, Meaning
<1> DEFINE N == Len(u)
           start == [intermediate |-> m, isValid |-> TRUE]
           L(k) == Folded(ApplyLeaf, start, SubSeq(u, 1, k))
           same == {k \in 0..N : /\ L(k).isValid <=> ValidTo(m, u, k)
                                 /\ L(k).isValid => L(k).intermediate = MapAfter(u, m, k)}
<1>1. u \in Seq(Actions) /\ N \in Nat /\ start \in LeafStates
  BY UpdateTyped DEF LeafStates
<1>2. PrefixFolds(LeafStates, ApplyLeaf, start, u)
  BY <1>1, ApplyLeafTyped, FoldedPrefixes
<1>3. MapsThrough(m, u)
  BY UpdateMaps
<1>4. 0 \in same
  <2>1. L(0) = start
    BY <1>2 DEF PrefixFolds
  <2>2. ValidTo(m, u, 0) /\ MapAfter(u, m, 0) = m
    BY <1>3, ValidOnward DEF MapsThrough
  <2> QED BY <1>1, <2>1, <2>2
<1>5. ASSUME NEW n \in 0..N - 1, n \in same PROVE n + 1 \in same
  <2> DEFINE s == L(n)
             a == u[n + 1]
             M == MapAfter(u, m, n)
  <2>1. n + 1 \in 1..N /\ n + 1 \in 0..N /\ (n + 1) - 1 = n /\ n \in Nat /\ n \in 0..N
    BY <1>1
  <2>2. s \in LeafStates /\ L(n + 1) = ApplyLeaf[s][a]
    BY <1>2, <2>1 DEF PrefixFolds
  <2>3. a \in Actions
    BY <1>1, <2>1
  <2>4. MapAfter(u, m, n + 1) = SetAction(M, a)
    BY <1>3, <2>1 DEF MapsThrough
  <2>5. ValidTo(m, u, n + 1) <=> ValidTo(m, u, n) /\ IsValidAction(M, a)
    BY <2>1, ValidOnward
  <2>6. /\ s.isValid <=> ValidTo(m, u, n)
        /\ s.isValid => s.intermediate = M
    BY <1>5
  <2>7. L(n + 1) = IF ~s.isValid THEN s
                   ELSE IF IsValidAction(s.intermediate, a)
                        THEN [s EXCEPT !.intermediate = SetAction(@, a)]
                        ELSE [s EXCEPT !.isValid = FALSE]
    BY <2>2, <2>3 DEF ApplyLeaf
  <2> DEFINE r == L(n + 1)
  <2> HIDE DEF L, s, a, M, r
  <2>8. /\ r.isValid <=> ValidTo(m, u, n + 1)
        /\ r.isValid => r.intermediate = MapAfter(u, m, n + 1)
    <3>1. r = IF ~s.isValid THEN s
              ELSE IF IsValidAction(s.intermediate, a)
                   THEN [s EXCEPT !.intermediate = SetAction(@, a)]
                   ELSE [s EXCEPT !.isValid = FALSE]
      BY <2>7 DEF r
    <3>2. CASE ~s.isValid
      BY <2>5, <2>6, <3>1, <3>2
    <3>3. CASE s.isValid /\ IsValidAction(s.intermediate, a)
      <4>1. r = [s EXCEPT !.intermediate = SetAction(@, a)]
        BY <3>1, <3>3
      <4>2. r.isValid = s.isValid /\ r.intermediate = SetAction(s.intermediate, a)
        BY <2>2, <4>1 DEF LeafStates
      <4> QED BY <2>4, <2>5, <2>6, <3>3, <4>2
    <3>4. CASE s.isValid /\ ~IsValidAction(s.intermediate, a)
      <4>1. r = [s EXCEPT !.isValid = FALSE]
        BY <3>1, <3>4
      <4>2. r.isValid = FALSE
        BY <2>2, <4>1 DEF LeafStates
      <4> QED BY <2>5, <2>6, <3>4, <4>2
    <3> QED BY <3>2, <3>3, <3>4
  <2> QED BY <2>1, <2>8 DEF r
<1> HIDE DEF same, N
<1>6. 0..N \subseteq same
  BY <1>1, <1>4, <1>5, IntervalInduction
<1>7. /\ L(N).isValid <=> ValidTo(m, u, N)
      /\ L(N).isValid => L(N).intermediate = MapAfter(u, m, N)
  <2>1. N \in same
    BY <1>1, <1>6
  <2> HIDE DEF L
  <2> QED BY <2>1 DEF same
<1>8. L(N) = Folded(ApplyLeaf, start, u)
  BY <1>2 DEF PrefixFolds, N
<1> QED BY <1>7, <1>8, MeaningIs DEF ApplyUpdate, N

\* The circuit carries out every action of an update, but ends it with the same
\* map.
LEMMA CircuitOfUpdate ==
  ASSUME NEW m \in Maps, NEW u \in Updates
  PROVE  Folded(CircuitStep, Starts(m), Marked(u)) = Starts(Meaning[m][u])
<1> DEFINE N == Len(u)
           C(k) == Folded(CircuitStep, Starts(m), SubSeq(Marked(u), 1, k))
           Before(k) == /\ C(k).tree = m
                        /\ C(k).intermediate = MapAfter(u, m, k)
                        /\ C(k).isValid <=> ValidTo(m, u, k)
           same == {k \in 0..N - 1 : Before(k)}
<1>1. /\ u \in Seq(Actions) /\ N \in Nat /\ 1 <= N
      /\ Marked(u) \in Seq(Elements) /\ Len(Marked(u)) = N
  BY UpdateTyped
<1>2. PrefixFolds(CircuitStates, CircuitStep, Starts(m), Marked(u))
  BY <1>1, CircuitStepTyped, StartsTyped, FoldedPrefixes
<1>3. MapsThrough(m, u)
  BY UpdateMaps
<1>4. ASSUME NEW n \in 0..N - 1, n \in same
      PROVE  LET t == CarryOut(C(n), u[n + 1])
             IN  /\ t \in CircuitStates /\ t.tree = m
                 /\ t.intermediate = MapAfter(u, m, n + 1)
                 /\ t.isValid <=> ValidTo(m, u, n + 1)
                 /\ C(n + 1) = IF n + 1 = N THEN CheckPoint(t) ELSE t
  <2> DEFINE s == C(n)
             a == u[n + 1]
             t == CarryOut(s, a)
             mark == Marked(u)[n + 1]
  <2>1. n + 1 \in 1..N /\ (n + 1) - 1 = n /\ n \in Nat /\ n \in 0..N
    BY <1>1
  <2>2. s \in CircuitStates /\ C(n + 1) = CircuitStep[s][mark]
    BY <1>1, <1>2, <2>1 DEF PrefixFolds
  <2>3. mark \in Elements /\ mark.action = a /\ mark.isCheckPoint = (n + 1 = N) /\ a \in Actions
    <3>1. mark \in Elements /\ a \in Actions
      BY <1>1, <2>1
    <3>2. n + 1 \in DOMAIN u
      BY <1>1, <2>1
    <3>3. mark = [action |-> u[n + 1], isCheckPoint |-> n + 1 = Len(u)]
      BY <3>2 DEF Marked
    <3> QED BY <3>1, <3>3
  <2>4. MapAfter(u, m, n + 1) = SetAction(MapAfter(u, m, n), a)
    BY <1>3, <2>1 DEF MapsThrough
  <2>5. ValidTo(m, u, n + 1) <=> ValidTo(m, u, n) /\ IsValidAction(MapAfter(u, m, n), a)
    BY <2>1, ValidOnward
  <2>6. s.tree = m /\ s.intermediate = MapAfter(u, m, n) /\ (s.isValid <=> ValidTo(m, u, n))
    BY <1>4
  <2>7. C(n + 1) = IF mark.isCheckPoint THEN CheckPoint(t) ELSE t
    BY <2>2, <2>3 DEF CircuitStep
  <2> HIDE DEF C, s, a, mark
  <2>8. t \in CircuitStates
    BY <2>2, <2>3, CarryOutTyped
  <2>9. /\ t.tree = s.tree /\ t.intermediate = SetAction(s.intermediate, a)
        /\ t.isValid = (s.isValid /\ IsValidAction(s.intermediate, a))
    BY <2>2 DEF CarryOut, CircuitStates
  <2> HIDE DEF t
  <2>10. /\ t \in CircuitStates /\ t.tree = m
         /\ t.intermediate = MapAfter(u, m, n + 1)
         /\ t.isValid <=> ValidTo(m, u, n + 1)
         /\ C(n + 1) = IF n + 1 = N THEN CheckPoint(t) ELSE t
    BY <2>3, <2>4, <2>5, <2>6, <2>7, <2>8, <2>9
  <2> QED BY <2>10 DEF t, s, a
<1>5. 0 \in same
  <2>1. C(0) = Starts(m)
    BY <1>2 DEF PrefixFolds
  <2>2. ValidTo(m, u, 0) /\ MapAfter(u, m, 0) = m
    BY <1>3, ValidOnward DEF MapsThrough
  <2> QED BY <1>1, <2>1, <2>2 DEF Starts
<1>6. ASSUME NEW n \in 0..(N - 1) - 1, n \in same PROVE n + 1 \in same
  <2>1. n \in 0..N - 1 /\ n + 1 \in 0..N - 1 /\ n + 1 # N
    BY <1>1
  <2> QED BY <1>4, <1>6, <2>1
<1>7. N - 1 \in same
  <2>1. N - 1 \in Nat
    BY <1>1
  <2> HIDE DEF same, N
  <2>2. 0..N - 1 \subseteq same
    BY <2>1, <1>5, <1>6, IntervalInduction
  <2> QED BY <2>1, <2>2
<1>8. C(N) = Starts(Meaning[m][u])
  <2>1. N - 1 \in 0..N - 1 /\ (N - 1) + 1 = N
    BY <1>1
  <2> DEFINE t == CarryOut(C(N - 1), u[N])
  <2>2. /\ t.tree = m
        /\ t.intermediate = MapAfter(u, m, N)
        /\ t.isValid <=> ValidTo(m, u, N)
        /\ C(N) = CheckPoint(t)
    BY <1>4, <1>7, <2>1
  <2> HIDE DEF C, t
  <2>3. Meaning[m][u] = IF ValidTo(m, u, N) THEN MapAfter(u, m, N) ELSE m
    BY MeaningIs
  <2> QED BY <2>2, <2>3 DEF CheckPoint, Starts
<1>9. C(N) = Folded(CircuitStep, Starts(m), Marked(u))
  BY <1>1, <1>2 DEF PrefixFolds
<1> QED BY <1>8, <1>9

-----------------------------------------------------------------------------
(* Batches *)

LEMMA ApplyUpdateTyped == ApplyUpdate \in [Maps -> [Updates -> Maps]]
<1>1. Meaning \in [Maps -> [Updates -> Maps]]
  BY MeaningIs DEF Meaning
<1> QED BY <1>1, ApplyUpdateIsMeaning

LEMMA RebuildTyped ==
  ASSUME NEW m \in Maps, NEW updates \in Seq(Updates)
  PROVE  UpdateMerkleMap(m, updates) \in Maps
BY ApplyUpdateTyped, FoldedTyped DEF UpdateMerkleMap

\* Rebuilding may stop anywhere and go on from the map it has then.
LEMMA RebuildConcat ==
  ASSUME NEW m \in Maps, NEW s \in Seq(Updates), NEW t \in Seq(Updates)
  PROVE  UpdateMerkleMap(m, s \o t) = UpdateMerkleMap(UpdateMerkleMap(m, s), t)
<1>1. ConcatFolds(ApplyUpdate, m, s, t)
  BY ApplyUpdateTyped, FoldedConcat
<1> QED BY <1>1 DEF ConcatFolds, UpdateMerkleMap

LEMMA LinearizeTyped == LinearizeUpdate \in [Seq(Elements) -> [Updates -> Seq(Elements)]]
<1>1. ASSUME NEW list \in Seq(Elements), NEW u \in Updates
      PROVE  list \o Marked(u) \in Seq(Elements)
  BY UpdateTyped
<1> QED BY <1>1 DEF LinearizeUpdate

LEMMA LinearizedSteps ==
  ASSUME NEW batch \in Seq(Updates), NEW u \in Updates
  PROVE  /\ Linearized(batch) \in Seq(Elements) /\ Linearized(<<>>) = <<>>
         /\ Linearized(Append(batch, u)) = Linearized(batch) \o Marked(u)
<1>1. <<>> \in Seq(Elements)
  BY EmptySeq
<1>2. Linearized(batch) \in Seq(Elements)
  BY <1>1, LinearizeTyped, FoldedTyped DEF Linearized
<1>3. Linearized(<<>>) = <<>>
  BY <1>1, LinearizeTyped, FoldedEmpty DEF Linearized
<1>4. FoldsNext(LinearizeUpdate, <<>>, batch, u)
  BY <1>1, LinearizeTyped, FoldedAppend
<1>5. Linearized(Append(batch, u)) = LinearizeUpdate[Linearized(batch)][u]
  BY <1>4 DEF FoldsNext, Linearized
<1>6. LinearizeUpdate[Linearized(batch)][u] = Linearized(batch) \o Marked(u)
  BY <1>2 DEF LinearizeUpdate
<1> QED BY <1>2, <1>3, <1>5, <1>6

\* The circuit of one batch, on the flat list of its actions, takes one update
\* after the other.
LEMMA CircuitOfBatch ==
  ASSUME NEW m \in Maps, NEW batch \in Seq(Updates)
  PROVE  MerkleUpdateBatch(m, batch) = UpdateMerkleMap(m, batch)
<1> DEFINE S == {q \in Seq(Updates) :
                   Folded(CircuitStep, Starts(m), Linearized(q)) = Starts(UpdateMerkleMap(m, q))}
<1>1. Starts(m) \in CircuitStates
  BY StartsTyped
<1>2. <<>> \in S
  <2>1. <<>> \in Seq(Updates)
    BY EmptySeq
  <2>2. UpdateMerkleMap(m, <<>>) = m
    BY ApplyUpdateTyped, FoldedEmpty DEF UpdateMerkleMap
  <2>3. Linearized(<<>>) = <<>>
    <3>1. <<>> \in Seq(Elements)
      BY EmptySeq
    <3> QED BY <3>1, LinearizeTyped, FoldedEmpty DEF Linearized
  <2>4. Folded(CircuitStep, Starts(m), <<>>) = Starts(m)
    BY <1>1, CircuitStepTyped, FoldedEmpty
  <2> QED BY <2>1, <2>2, <2>3, <2>4
<1>3. ASSUME NEW q \in Seq(Updates), q \in S, NEW u \in Updates PROVE Append(q, u) \in S
  <2> DEFINE M == UpdateMerkleMap(m, q)
             list == Linearized(q)
  <2>1. M \in Maps
    BY RebuildTyped
  <2>2. list \in Seq(Elements) /\ Linearized(Append(q, u)) = list \o Marked(u)
    BY LinearizedSteps
  <2>3. Marked(u) \in Seq(Elements)
    BY UpdateTyped
  <2>4. Folded(CircuitStep, Starts(m), list) = Starts(M)
    BY <1>3
  <2>5. UpdateMerkleMap(m, Append(q, u)) = Meaning[M][u]
    <3>1. FoldsNext(ApplyUpdate, m, q, u)
      BY ApplyUpdateTyped, FoldedAppend
    <3> QED BY <3>1, ApplyUpdateIsMeaning DEF FoldsNext, UpdateMerkleMap
  <2> HIDE DEF M, list
  <2>6. ConcatFolds(CircuitStep, Starts(m), list, Marked(u))
    BY <1>1, <2>2, <2>3, CircuitStepTyped, FoldedConcat
  <2>7. Folded(CircuitStep, Starts(M), Marked(u)) = Starts(Meaning[M][u])
    BY <2>1, CircuitOfUpdate
  <2>8. Folded(CircuitStep, Starts(m), Linearized(Append(q, u))) = Starts(Meaning[M][u])
    BY <2>2, <2>4, <2>6, <2>7 DEF ConcatFolds
  <2>9. Append(q, u) \in Seq(Updates)
    OBVIOUS
  <2> QED BY <2>5, <2>8, <2>9
<1> HIDE DEF S
<1>4. Seq(Updates) \subseteq S
  BY <1>2, <1>3, SeqInduction
<1>5. Folded(CircuitStep, Starts(m), Linearized(batch)) = Starts(UpdateMerkleMap(m, batch))
  BY <1>4 DEF S
<1> QED BY <1>5 DEF MerkleUpdateBatch, Starts

LEMMA AddSizeTyped == AddSize \in [Nat -> [Updates -> Nat]]
BY UpdateTyped DEF AddSize

LEMMA SizeSteps ==
  ASSUME NEW updates \in Seq(Updates)
  PROVE  /\ \A n \in 0..Len(updates) : Size(SubSeq(updates, 1, n)) \in Nat
         /\ Size(SubSeq(updates, 1, 0)) = 0
         /\ 0 < Len(updates) => Size(SubSeq(updates, 1, 1)) = Len(updates[1])
<1>1. PrefixFolds(Nat, AddSize, 0, updates)
  BY AddSizeTyped, FoldedPrefixes
<1>2. /\ \A n \in 0..Len(updates) : Size(SubSeq(updates, 1, n)) \in Nat
      /\ Size(SubSeq(updates, 1, 0)) = 0
  BY <1>1 DEF PrefixFolds, Size
<1>3. ASSUME 0 < Len(updates) PROVE Size(SubSeq(updates, 1, 1)) = Len(updates[1])
  <2>1. 1 \in 1..Len(updates) /\ updates[1] \in Updates
    BY <1>3
  <2>2. Size(SubSeq(updates, 1, 1)) = AddSize[Size(SubSeq(updates, 1, 0))][updates[1]]
    BY <1>1, <2>1 DEF PrefixFolds, Size
  <2>3. AddSize[0][updates[1]] = 0 + Len(updates[1])
    BY <2>1 DEF AddSize
  <2>4. Len(updates[1]) \in Nat
    BY <2>1, UpdateTyped
  <2> QED BY <1>2, <2>2, <2>3, <2>4
<1> QED BY <1>2, <1>3

\* A slice never exceeds the updates there are, and takes one at least.
LEMMA SliceFits ==
  ASSUME NEW updates \in Seq(Updates)
  PROVE  /\ SliceLength(updates) \in 0..Len(updates)
         /\ 0 < Len(updates) => 0 < SliceLength(updates)
         /\ Size(SubSeq(updates, 1, SliceLength(updates))) <= MaxPerProof
<1> DEFINE N == Len(updates)
           size(n) == Size(SubSeq(updates, 1, n))
           Fits(n) == size(n) <= MaxPerProof /\ (n < N => size(n + 1) > MaxPerProof)
           over == {n \in 1..N : size(n) > MaxPerProof}
<1>1. N \in Nat /\ MaxPerProof \in Nat
  BY SizeAssumption
<1>2. /\ \A n \in 0..N : size(n) \in Nat
      /\ size(0) = 0
      /\ 0 < N => size(1) = Len(updates[1])
  BY SizeSteps
<1>3. 0 < N => size(1) <= MaxPerProof
  <2>1. ASSUME 0 < N PROVE updates[1] \in Updates
    BY <2>1
  <2> QED BY <1>2, <2>1, UpdateTyped
<1> HIDE DEF size, N
<1>4. \E n \in 0..N : Fits(n)
  <2>1. CASE over = {}
    <3>1. size(N) <= MaxPerProof
      BY <1>1, <1>2, <2>1
    <3>2. Fits(N) /\ N \in 0..N
      BY <1>1, <3>1
    <3> QED BY <3>2
  <2>2. CASE over # {}
    <3>1. over \subseteq Nat
      BY <1>1
    <3>2. PICK n \in over : \A k \in over : n <= k
      BY <2>2, <3>1, LeastNat
    <3>3. n \in 1..N /\ size(n) > MaxPerProof
      BY <3>2
    <3>4. n - 1 \in 0..N /\ (n - 1) + 1 = n /\ size(n - 1) \in Nat
      BY <1>1, <1>2, <3>3
    <3>5. size(n - 1) <= MaxPerProof
      <4>1. CASE n = 1
        BY <1>1, <1>2, <4>1
      <4>2. CASE n # 1
        <5>1. n - 1 \in 1..N /\ ~(n <= n - 1)
          BY <1>1, <3>3, <4>2
        <5>2. n - 1 \notin over
          BY <3>2, <5>1
        <5> QED BY <1>1, <3>4, <5>1, <5>2
      <4> QED BY <4>1, <4>2
    <3> QED BY <3>3, <3>4, <3>5
  <2> QED BY <2>1, <2>2
<1>5. SliceLength(updates) = CHOOSE n \in 0..N : Fits(n)
  BY DEF SliceLength, size, N
<1>6. SliceLength(updates) \in 0..N /\ Fits(SliceLength(updates))
  BY <1>4, <1>5
<1>7. 0 < N => 0 < SliceLength(updates)
  BY <1>1, <1>2, <1>3, <1>6
<1> QED BY <1>6, <1>7 DEF size, N

-----------------------------------------------------------------------------
(* All batches *)

ProofStates == [tree : Maps, updates : Seq(Updates)]
ProvesBy(f, tree, updates) ==
  /\ f \in [0..Len(updates) -> ProofStates] /\ f[0] = [tree |-> tree, updates |-> updates]
  /\ \A k \in 1..Len(updates) : f[k] = ProveBatch(f[k - 1])
  /\ Prove(tree, updates) = f[Len(updates)].tree

LEMMA SplitAt ==
  ASSUME NEW T, NEW seq \in Seq(T), NEW n \in 0..Len(seq)
  PROVE  /\ SubSeq(seq, 1, n) \in Seq(T) /\ SubSeq(seq, n + 1, Len(seq)) \in Seq(T)
         /\ Len(SubSeq(seq, n + 1, Len(seq))) = Len(seq) - n
         /\ SubSeq(seq, 1, n) \o SubSeq(seq, n + 1, Len(seq)) = seq
<1>1. Len(seq) \in Nat /\ 1 \in 1..Len(seq) + 1 /\ n \in 1 - 1..Len(seq) /\ Len(seq) \in n..Len(seq)
  BY LenProperties
<1>2. SubSeq(seq, 1, n) \o SubSeq(seq, n + 1, Len(seq)) = SubSeq(seq, 1, Len(seq))
  BY <1>1, ConcatAdjacentSubSeq
<1>3. SubSeq(seq, 1, Len(seq)) = seq
  BY SubSeqFull
<1>4. /\ SubSeq(seq, 1, n) \in Seq(T) /\ SubSeq(seq, n + 1, Len(seq)) \in Seq(T)
      /\ Len(SubSeq(seq, n + 1, Len(seq))) = Len(seq) - n
  OBVIOUS
<1> QED BY <1>2, <1>3, <1>4

LEMMA ProveBatchFields ==
  ASSUME NEW s, NEW n, n = SliceLength(s.updates)
  PROVE  /\ ProveBatch(s).tree = MerkleUpdateBatch(s.tree, SubSeq(s.updates, 1, n))
         /\ ProveBatch(s).updates = SubSeq(s.updates, n + 1, Len(s.updates))
BY DEF ProveBatch

LEMMA ProveBatchTyped ==
  ASSUME NEW s \in ProofStates
  PROVE  ProveBatch(s) \in ProofStates
<1>1. s.tree \in Maps /\ s.updates \in Seq(Updates)
  BY DEF ProofStates
<1> DEFINE n == SliceLength(s.updates)
<1>2. n \in 0..Len(s.updates)
  BY <1>1, SliceFits
<1> HIDE DEF n
<1>3. /\ SubSeq(s.updates, 1, n) \in Seq(Updates)
      /\ SubSeq(s.updates, n + 1, Len(s.updates)) \in Seq(Updates)
  BY <1>1, <1>2, SplitAt
<1>4. MerkleUpdateBatch(s.tree, SubSeq(s.updates, 1, n)) \in Maps
  BY <1>1, <1>3, CircuitOfBatch, RebuildTyped
<1> QED BY <1>3, <1>4 DEF ProveBatch, ProofStates, n

LEMMA ProveUnfolds ==
  ASSUME NEW tree \in Maps, NEW updates \in Seq(Updates)
  PROVE  \E f : ProvesBy(f, tree, updates)
<1> DEFINE N == Len(updates)
           base == [tree |-> tree, updates |-> updates]
           G == [k \in 1..N |-> [s \in ProofStates |-> ProveBatch(s)]]
           Body(g) == [k \in 0..N |-> IF k = 0 THEN base ELSE ProveBatch(g[k - 1])]
           f == CHOOSE g : g = Body(g)
<1>1. N \in Nat /\ base \in ProofStates
  BY DEF ProofStates
<1>2. Prove(tree, updates) = f[N].tree
  BY DEF Prove
<1> HIDE DEF N, base
<1>3. G \in [1..N -> [ProofStates -> ProofStates]]
  BY ProveBatchTyped
<1>4. \A k \in 1..N, s \in ProofStates : G[k][s] = ProveBatch(s)
  OBVIOUS
<1> HIDE DEF G
<1>5. PICK h : h \in Iterations(ProofStates, base, N, G)
  BY <1>1, <1>3, Iteration
<1>6. h = Body(h)
  BY <1>1, <1>4, <1>5 DEF Iterations
<1> HIDE DEF Body
<1>7. f = Body(f)
  BY <1>6
<1> HIDE DEF f
<1> USE DEF Body
<1>8. f[0] = base /\ \A k \in 1..N : f[k] = ProveBatch(f[k - 1])
  BY <1>1, <1>7
<1>9. f \in [0..N -> ProofStates]
  <2> DEFINE typed == {k \in 0..N : f[k] \in ProofStates}
  <2>1. 0 \in typed
    BY <1>1, <1>8
  <2>2. ASSUME NEW n \in 0..N - 1, n \in typed PROVE n + 1 \in typed
    <3>1. n + 1 \in 1..N /\ (n + 1) - 1 = n
      BY <1>1
    <3> QED BY <1>1, <1>8, <2>2, <3>1, ProveBatchTyped
  <2> HIDE DEF typed
  <2>3. 0..N \subseteq typed
    BY <1>1, <2>1, <2>2, IntervalInduction
  <2> QED BY <1>7, <2>3 DEF typed
<1>10. ProvesBy(f, tree, updates)
  BY <1>2, <1>8, <1>9 DEF N, base, ProvesBy
<1> QED BY <1>10

\* Proving leads from a map to the one that is rebuilt from it, wherever the actions
\* are cut into batches.
THEOREM ProveIsRebuild ==
  ASSUME NEW tree \in Maps, NEW updates \in Seq(Updates)
  PROVE  Prove(tree, updates) = UpdateMerkleMap(tree, updates)
<1> DEFINE N == Len(updates)
           goal == UpdateMerkleMap(tree, updates)
<1>1. PICK f : ProvesBy(f, tree, updates)
  BY ProveUnfolds
<1>2. N \in Nat
  OBVIOUS
<1> DEFINE same == {k \in 0..N : /\ UpdateMerkleMap(f[k].tree, f[k].updates) = goal
                                 /\ Len(f[k].updates) <= N - k}
<1>3. 0 \in same
  BY <1>1, <1>2 DEF ProvesBy
<1>4. ASSUME NEW k \in 0..N - 1, k \in same PROVE k + 1 \in same
  <2> DEFINE s == f[k]
             q == s.updates
             n == SliceLength(q)
             first == SubSeq(q, 1, n)
             rest == SubSeq(q, n + 1, Len(q))
  <2>1. k + 1 \in 1..N /\ k + 1 \in 0..N /\ (k + 1) - 1 = k /\ k \in 0..N
    BY <1>2
  <2>2. s \in ProofStates /\ f[k + 1] = ProveBatch(s)
    BY <1>1, <2>1 DEF ProvesBy
  <2>3. s.tree \in Maps /\ q \in Seq(Updates)
    BY <2>2 DEF ProofStates
  <2>4. n \in 0..Len(q) /\ (0 < Len(q) => 0 < n) /\ Len(q) \in Nat
    BY <2>3, SliceFits
  <2>5. UpdateMerkleMap(s.tree, q) = goal /\ Len(q) <= N - k
    BY <1>4
  <2>6. f[k + 1].tree = MerkleUpdateBatch(s.tree, first) /\ f[k + 1].updates = rest
    BY <2>2, ProveBatchFields
  <2> HIDE DEF n, q, s
  <2>7. /\ first \in Seq(Updates) /\ rest \in Seq(Updates)
        /\ Len(rest) = Len(q) - n /\ first \o rest = q
    BY <2>3, <2>4, SplitAt
  <2> HIDE DEF first, rest, goal
  <2>8. MerkleUpdateBatch(s.tree, first) = UpdateMerkleMap(s.tree, first)
    BY <2>3, <2>7, CircuitOfBatch
  <2>9. UpdateMerkleMap(s.tree, first \o rest) = UpdateMerkleMap(UpdateMerkleMap(s.tree, first), rest)
    BY <2>3, <2>7, RebuildConcat
  <2>10. UpdateMerkleMap(f[k + 1].tree, f[k + 1].updates) = goal
    BY <2>5, <2>6, <2>7, <2>8, <2>9
  <2>11. Len(f[k + 1].updates) <= N - (k + 1)
    <3>1. Len(rest) <= N - (k + 1)
      BY <1>2, <2>1, <2>4, <2>5, <2>7
    <3> QED BY <2>6, <3>1
  <2> QED BY <2>1, <2>10, <2>11
<1>5. N \in same
  <2> HIDE DEF same, N
  <2>1. 0..N \subseteq same
    BY <1>2, <1>3, <1>4, IntervalInduction
  <2> QED BY <1>2, <2>1
<1>6. f[N] \in ProofStates /\ Prove(tree, updates) = f[N].tree
  BY <1>1, <1>2 DEF ProvesBy
<1>7. f[N].tree \in Maps /\ f[N].updates \in Seq(Updates)
  BY <1>6 DEF ProofStates
<1>8. UpdateMerkleMap(f[N].tree, f[N].updates) = goal /\ f[N].updates = <<>>
  <2>1. UpdateMerkleMap(f[N].tree, f[N].updates) = goal /\ Len(f[N].updates) <= N - N
    BY <1>5
  <2>2. Len(f[N].updates) = 0
    BY <1>2, <1>7, <2>1
  <2> QED BY <1>7, <2>1, <2>2, EmptySeq
<1>9. UpdateMerkleMap(f[N].tree, <<>>) = f[N].tree
  BY <1>7, ApplyUpdateTyped, FoldedEmpty DEF UpdateMerkleMap
<1> QED BY <1>6, <1>8, <1>9
-----------------------------------------------------------------------------
(* Settlements *)

\* A proof says that its output follows from its input: if the input is what the
\* actions up to there make of the empty map, so is the output.
ActionsUpTo(n) == UpdateMerkleMap(Empty, Prefix(n))
Commitments == [map : Maps, at : 0..Len(history)]
Leads(p) == p.input.map = ActionsUpTo(p.input.at) => p.output.map = ActionsUpTo(p.output.at)

OffchainInv ==
  /\ history \in Seq(Updates)
  /\ onchain \in Commitments /\ onchain.map = ActionsUpTo(onchain.at)
  /\ maps \in [Clients -> Maps] /\ from \in [Clients -> 0..Len(history)]
  /\ proof \in [Clients -> [input : Commitments, output : Commitments]]
  /\ \A c \in Clients : Leads(proof[c])

LEMMA EmptyTyped == Empty \in Maps
BY EmptySeq DEF Empty, Maps

LEMMA InitOffchainInv == Init => OffchainInv
<1> SUFFICES ASSUME Init PROVE OffchainInv
  OBVIOUS
<1>1. history = <<>> /\ history \in Seq(Updates) /\ Len(history) = 0 /\ 0 \in 0..Len(history)
  BY EmptySeq DEF Init
<1>2. Prefix(0) = <<>>
  BY <1>1, EmptySeq DEF Prefix
<1>3. ActionsUpTo(0) = Empty
  BY <1>2, EmptyTyped, ApplyUpdateTyped, FoldedEmpty DEF ActionsUpTo, UpdateMerkleMap
<1> DEFINE begun == [map |-> Empty, at |-> 0]
<1>4. begun \in Commitments
  BY <1>1, EmptyTyped DEF Commitments
<1>5. onchain = begun /\ proof = [c \in Clients |-> [input |-> begun, output |-> begun]]
  BY DEF Init
<1>6. ASSUME NEW c \in Clients PROVE Leads(proof[c])
  <2>1. proof[c].output = begun
    BY <1>5
  <2> QED BY <1>3, <2>1 DEF Leads
<1>7. onchain.map = ActionsUpTo(onchain.at)
  BY <1>3, <1>5
<1>8. maps \in [Clients -> Maps] /\ from \in [Clients -> 0..Len(history)]
  BY <1>1, EmptyTyped DEF Init
<1> HIDE DEF begun
<1>9. proof \in [Clients -> [input : Commitments, output : Commitments]]
  BY <1>4, <1>5
<1> QED BY <1>1, <1>4, <1>5, <1>6, <1>7, <1>8, <1>9 DEF OffchainInv

\* What was dispatched stays: longer histories have the same prefixes.
LEMMA PrefixesStay ==
  ASSUME history \in Seq(Updates), NEW u \in Updates, history' = Append(history, u)
  PROVE  /\ history' \in Seq(Updates) /\ 0..Len(history) \subseteq 0..Len(history')
         /\ \A n \in 0..Len(history) : ActionsUpTo(n)' = ActionsUpTo(n)
<1>1. history' \in Seq(Updates) /\ Len(history') = Len(history) + 1 /\ Len(history) \in Nat
  OBVIOUS
<1>2. ASSUME NEW n \in 0..Len(history) PROVE ActionsUpTo(n)' = ActionsUpTo(n)
  <2>1. SubSeq(history', 1, n) = SubSeq(history, 1, n)
    OBVIOUS
  <2> QED BY <2>1 DEF ActionsUpTo, Prefix
<1> QED BY <1>1, <1>2

LEMMA DispatchInv ==
  ASSUME OffchainInv, NEW u \in Updates, Dispatch(u)
  PROVE  OffchainInv'
<1>1. /\ history' = Append(history, u)
      /\ onchain' = onchain /\ maps' = maps /\ from' = from /\ proof' = proof
  BY DEF Dispatch, clientVars
<1>2. /\ history' \in Seq(Updates) /\ 0..Len(history) \subseteq 0..Len(history')
      /\ \A n \in 0..Len(history) : ActionsUpTo(n)' = ActionsUpTo(n)
  BY <1>1, PrefixesStay DEF OffchainInv
<1>3. ASSUME NEW x \in Commitments
      PROVE  x \in Commitments' /\ x.at \in 0..Len(history) /\ ActionsUpTo(x.at)' = ActionsUpTo(x.at)
  <2>1. x.at \in 0..Len(history)
    BY DEF Commitments
  <2> QED BY <1>2, <2>1 DEF Commitments
<1>4. onchain' \in Commitments' /\ (onchain.map = ActionsUpTo(onchain.at))'
  <2>1. onchain \in Commitments /\ onchain.map = ActionsUpTo(onchain.at)
    BY DEF OffchainInv
  <2>2. ActionsUpTo(onchain.at)' = ActionsUpTo(onchain.at)
    BY <1>1, <1>3, <2>1
  <2> QED BY <1>1, <1>3, <2>1, <2>2
<1>5. maps' \in [Clients -> Maps] /\ from' \in [Clients -> 0..Len(history')]
  BY <1>1, <1>2 DEF OffchainInv
<1>6. proof' \in [Clients -> [input : Commitments', output : Commitments']]
  <2>1. proof \in [Clients -> [input : Commitments, output : Commitments]]
    BY DEF OffchainInv
  <2>2. Commitments \subseteq Commitments'
    BY <1>3
  <2> QED BY <1>1, <2>1, <2>2
<1>7. ASSUME NEW c \in Clients PROVE Leads(proof[c])'
  <2>1. proof[c].input \in Commitments /\ proof[c].output \in Commitments /\ Leads(proof[c])
    BY DEF OffchainInv
  <2>2. /\ ActionsUpTo(proof[c].input.at)' = ActionsUpTo(proof[c].input.at)
        /\ ActionsUpTo(proof[c].output.at)' = ActionsUpTo(proof[c].output.at)
    BY <1>1, <1>3, <2>1
  <2> QED BY <1>1, <2>1, <2>2 DEF Leads
<1> QED BY <1>2, <1>4, <1>5, <1>6, <1>7 DEF OffchainInv

LEMMA SplitHistory ==
  ASSUME OffchainInv, NEW n \in 0..Len(history)
  PROVE  /\ Prefix(n) \in Seq(Updates) /\ Suffix(n) \in Seq(Updates)
         /\ Prefix(n) \o Suffix(n) = Prefix(Len(history)) /\ ActionsUpTo(n) \in Maps
<1>1. history \in Seq(Updates)
  BY DEF OffchainInv
<1>2. /\ SubSeq(history, 1, n) \in Seq(Updates)
      /\ SubSeq(history, n + 1, Len(history)) \in Seq(Updates)
      /\ SubSeq(history, 1, n) \o SubSeq(history, n + 1, Len(history)) = history
  BY <1>1, SplitAt
<1>3. SubSeq(history, 1, Len(history)) = history
  BY <1>1, SubSeqFull
<1> QED BY <1>2, <1>3, EmptyTyped, RebuildTyped DEF Prefix, Suffix, ActionsUpTo

\* From the map of a prefix, proving what follows leads to the map of all.
LEMMA ProveGoesOn ==
  ASSUME OffchainInv, NEW n \in 0..Len(history)
  PROVE  Prove(ActionsUpTo(n), Suffix(n)) = ActionsUpTo(Len(history))
<1>1. /\ Prefix(n) \in Seq(Updates) /\ Suffix(n) \in Seq(Updates)
      /\ Prefix(n) \o Suffix(n) = Prefix(Len(history)) /\ ActionsUpTo(n) \in Maps
  BY SplitHistory
<1>2. Prove(ActionsUpTo(n), Suffix(n)) = UpdateMerkleMap(ActionsUpTo(n), Suffix(n))
  BY <1>1, ProveIsRebuild
<1>3. UpdateMerkleMap(Empty, Prefix(n) \o Suffix(n)) = UpdateMerkleMap(UpdateMerkleMap(Empty, Prefix(n)), Suffix(n))
  BY <1>1, EmptyTyped, RebuildConcat
<1> QED BY <1>1, <1>2, <1>3 DEF ActionsUpTo

\* A step that leaves the history and the commitment alone, and changes of the
\* client's state only what is typed.
LEMMA ClientInv ==
  ASSUME OffchainInv, UNCHANGED <<history, onchain>>,
         maps' \in [Clients -> Maps], from' \in [Clients -> 0..Len(history)],
         proof' \in [Clients -> [input : Commitments, output : Commitments]],
         \A c \in Clients : Leads(proof'[c])
  PROVE  OffchainInv'
<1>1. Commitments' = Commitments /\ \A n : ActionsUpTo(n)' = ActionsUpTo(n)
  BY DEF Commitments, ActionsUpTo, Prefix
<1>2. ASSUME NEW c \in Clients PROVE Leads(proof[c])'
  BY <1>1 DEF Leads
<1> QED BY <1>1, <1>2 DEF OffchainInv

LEMMA StepInv ==
  ASSUME OffchainInv, NEW c \in Clients, Step(c) \/ GetEnds(c)
  PROVE  OffchainInv'
<1>1. /\ maps \in [Clients -> Maps] /\ from \in [Clients -> 0..Len(history)]
      /\ proof \in [Clients -> [input : Commitments, output : Commitments]]
      /\ \A d \in Clients : Leads(proof[d])
      /\ onchain \in Commitments /\ history \in Seq(Updates)
  BY DEF OffchainInv
<1>2. onchain.at \in 0..Len(history) /\ Len(history) \in 0..Len(history)
  BY <1>1 DEF Commitments
<1>3. CASE ReadForMap(c) \/ ReadForProof(c)
  <2>1. /\ UNCHANGED <<history, onchain>> /\ maps' = maps /\ proof' = proof
        /\ from' = [from EXCEPT ![c] = onchain.at]
    BY <1>3 DEF ReadForMap, ReadForProof
  <2>2. from' \in [Clients -> 0..Len(history)]
    BY <1>1, <1>2, <2>1
  <2> QED BY <1>1, <2>1, <2>2, ClientInv
<1>4. CASE FetchMap(c)
  <2>1. /\ UNCHANGED <<history, onchain>> /\ from' = from /\ proof' = proof
        /\ maps' = [maps EXCEPT ![c] = ActionsUpTo(from[c])]
    BY <1>4 DEF FetchMap, FetchMerkleMap, ActionsUpTo
  <2>2. ActionsUpTo(from[c]) \in Maps
    BY <1>1, SplitHistory
  <2>3. maps' \in [Clients -> Maps]
    BY <1>1, <2>1, <2>2
  <2> QED BY <1>1, <2>1, <2>3, ClientInv
<1>5. CASE GetEnds(c)
  <2>1. UNCHANGED <<history, onchain>> /\ maps' = maps /\ from' = from /\ proof' = proof
    BY <1>5 DEF GetEnds
  <2> QED BY <1>1, <2>1, ClientInv
<1>6. CASE ProveActions(c)
  <2> DEFINE n == from[c]
             result == Prove(maps[c], Suffix(n))
             p == [input |-> [map |-> maps[c], at |-> n],
                   output |-> [map |-> result, at |-> Len(history)]]
  <2>1. /\ UNCHANGED <<history, onchain>> /\ maps' = maps /\ from' = from
        /\ proof' = [proof EXCEPT ![c] = p]
    BY <1>6 DEF ProveActions
  <2>2. maps[c] \in Maps /\ n \in 0..Len(history)
    BY <1>1
  <2>3. Suffix(n) \in Seq(Updates)
    BY <2>2, SplitHistory
  <2>4. result \in Maps
    BY <2>2, <2>3, ProveIsRebuild, RebuildTyped
  <2>5. maps[c] = ActionsUpTo(n) => result = ActionsUpTo(Len(history))
    BY <2>2, ProveGoesOn
  <2> HIDE DEF n, result
  <2>6. p \in [input : Commitments, output : Commitments]
    BY <1>2, <2>2, <2>4 DEF Commitments
  <2>7. Leads(p)
    BY <2>5 DEF Leads
  <2> HIDE DEF p
  <2>8. proof' \in [Clients -> [input : Commitments, output : Commitments]]
    BY <1>1, <2>1, <2>6
  <2>9. \A d \in Clients : Leads(proof'[d])
    BY <1>1, <2>1, <2>7
  <2> QED BY <1>1, <2>1, <2>8, <2>9, ClientInv
<1>7. CASE Rebuild(c)
  <2>1. /\ UNCHANGED <<history, onchain>> /\ from' = from /\ proof' = proof
        /\ maps' = [maps EXCEPT ![c] = ActionsUpTo(Len(history))]
    BY <1>7 DEF Rebuild, RebuiltMap, FetchMerkleMap, ActionsUpTo
  <2>2. ActionsUpTo(Len(history)) \in Maps
    BY <1>2, SplitHistory
  <2>3. maps' \in [Clients -> Maps]
    BY <1>1, <2>1, <2>2
  <2> QED BY <1>1, <2>1, <2>3, ClientInv
<1>8. CASE Settle(c)
  <2>1. history' = history /\ maps' = maps /\ from' = from /\ proof' = proof
    BY <1>8 DEF Settle
  <2>2. Commitments' = Commitments /\ \A n : ActionsUpTo(n)' = ActionsUpTo(n)
    BY <2>1 DEF Commitments, ActionsUpTo, Prefix
  <2>3. ASSUME NEW d \in Clients PROVE Leads(proof[d])'
    BY <1>1, <2>1, <2>2 DEF Leads
  <2>4. onchain' = onchain \/ (proof[c].input = onchain /\ onchain' = proof[c].output)
    BY <1>8 DEF Settle, Accepts
  <2>5. proof[c].output \in Commitments /\ Leads(proof[c])
    BY <1>1
  <2>6. onchain.map = ActionsUpTo(onchain.at)
    BY DEF OffchainInv
  <2>7. onchain' \in Commitments /\ onchain'.map = ActionsUpTo(onchain'.at)
    BY <1>1, <2>4, <2>5, <2>6 DEF Leads
  <2> QED BY <1>1, <2>1, <2>2, <2>3, <2>7 DEF OffchainInv
<1> QED BY <1>3, <1>4, <1>5, <1>6, <1>7, <1>8 DEF Step

\* Every client's proof leads from one point of the history to a later one if its map
\* was the right one, and the contract only stands at right ones.
THEOREM OffchainInvHolds == Spec => []OffchainInv
<1>1. Init => OffchainInv
  BY InitOffchainInv
<1>2. OffchainInv /\ [Next]_vars => OffchainInv'
  <2> SUFFICES ASSUME OffchainInv, [Next]_vars PROVE OffchainInv'
    OBVIOUS
  <2>1. CASE \E update \in Updates : Dispatch(update)
    BY <2>1, DispatchInv
  <2>2. CASE \E c \in Clients : Step(c) \/ GetEnds(c)
    BY <2>2, StepInv
  <2>3. CASE UNCHANGED vars
    <3>1. UNCHANGED <<history, onchain>> /\ maps' = maps /\ from' = from /\ proof' = proof
      BY <2>3 DEF vars, clientVars
    <3> QED BY <3>1, ClientInv DEF OffchainInv
  <2> QED BY <2>1, <2>2, <2>3 DEF Next
<1> QED BY <1>1, <1>2, PTL DEF Spec

\* Whatever copies of the map the clients work with, and whoever settles first
\* (settle, createSettlementProof), the contract commits to what the actions up to its
\* action state mean, each counted once.
THEOREM ChainStandsForHistory == Spec => []ChainIsHistory
<1>1. OffchainInv => ChainIsHistory
  BY ApplyUpdateIsMeaning DEF OffchainInv, ChainIsHistory, ActionsUpTo, UpdateMerkleMap
<1> QED BY <1>1, OffchainInvHolds, PTL

\* The circuit (merkleUpdateBatch), run on batch after batch (prove, sliceActions),
\* ends with the map that clients rebuild (updateMerkleMap), from every point of every
\* history.
THEOREM CircuitAgreesWithRebuild == Spec => []RollupMatchesRebuild
<1>1. OffchainInv => RollupMatchesRebuild
  BY ProveGoesOn DEF RollupMatchesRebuild, FetchMerkleMap, ActionsUpTo
<1> QED BY <1>1, OffchainInvHolds, PTL
=============================================================================
