--------------------------- MODULE InductionLemmas ---------------------------
(***************************************************************************)
(* Induction over the natural numbers for sets rather than for predicates, *)
(* and what it is used for: a recursive function that is given step by     *)
(* step exists, and equals the function that TLA+ chooses.                 *)
(***************************************************************************)
EXTENDS Selection, Folding, SequenceTheorems, WellFoundedInduction, TLAPS

LEMMA LeastNat ==
  ASSUME NEW S, S \subseteq Nat, S # {}
  PROVE  \E n \in S : \A m \in S : n <= m
<1> DEFINE R == OpToRel(<, Nat)
<1>1. IsWellFoundedOn(R, Nat)
  BY NatLessThanWellFounded
<1>2. \A x, y \in Nat : x < y => <<x, y>> \in R
  BY DEF OpToRel
<1> HIDE DEF R
<1>3. PICK x \in S : \A y \in S : ~(<<y, x>> \in R)
  BY <1>1, WFMin
<1>4. ASSUME NEW y \in S PROVE x <= y
  <2>1. x \in Nat /\ y \in Nat /\ ~(<<y, x>> \in R)
    BY <1>3
  <2> QED BY <2>1, <1>2
<1> QED BY <1>4

\* What holds of 0 and of the successor of every number below N it holds of,
\* holds up to N.
LEMMA IntervalInduction ==
  ASSUME NEW N \in Nat, NEW S, 0 \in S, \A n \in 0..N - 1 : n \in S => n + 1 \in S
  PROVE  0..N \subseteq S
<1> DEFINE T == 0..N \ S
<1> SUFFICES ASSUME T # {} PROVE FALSE
  OBVIOUS
<1>1. T \subseteq Nat
  OBVIOUS
<1> HIDE DEF T
<1>2. PICK n \in T : \A m \in T : n <= m
  BY <1>1, LeastNat
<1> USE DEF T
<1>3. n - 1 \in 0..N - 1
  BY <1>2
<1>4. n - 1 \in S
  BY <1>2, <1>3
<1> QED BY <1>2, <1>3, <1>4

LEMMA NatSetInduction ==
  ASSUME NEW S, 0 \in S, \A n \in Nat : n \in S => n + 1 \in S
  PROVE  Nat \subseteq S
<1> SUFFICES ASSUME NEW N \in Nat PROVE N \in S
  OBVIOUS
<1>1. 0..N \subseteq S
  BY IntervalInduction
<1> QED BY <1>1

\* The states that N steps G[1], ..., G[N] within S lead through from x on.
Iterations(S, x, N, G) ==
  {h \in [0..N -> S] : h[0] = x /\ \A k \in 1..N : h[k] = G[k][h[k - 1]]}

LEMMA Iteration ==
  ASSUME NEW S, NEW x \in S, NEW N \in Nat, NEW G \in [1..N -> [S -> S]]
  PROVE  \E h : h \in Iterations(S, x, N, G)
<1> DEFINE Good(n) == \E h \in [0..n -> S] : h[0] = x /\ \A k \in 1..n : h[k] = G[k][h[k - 1]]
           T == {n \in 0..N : Good(n)}
<1>1. 0 \in T
  <2> DEFINE h0 == [i \in 0..0 |-> x]
  <2>1. h0 \in [0..0 -> S] /\ h0[0] = x
    OBVIOUS
  <2>2. \A k \in 1..0 : h0[k] = G[k][h0[k - 1]]
    OBVIOUS
  <2>3. Good(0)
    BY <2>1, <2>2
  <2> QED BY <2>3
<1>2. ASSUME NEW n \in 0..N - 1, n \in T PROVE n + 1 \in T
  <2>1. PICK h \in [0..n -> S] : h[0] = x /\ \A k \in 1..n : h[k] = G[k][h[k - 1]]
    BY <1>2
  <2> DEFINE g == [i \in 0..n + 1 |-> IF i = n + 1 THEN G[n + 1][h[n]] ELSE h[i]]
  <2>2. h[n] \in S /\ G[n + 1][h[n]] \in S
    OBVIOUS
  <2>3. g \in [0..n + 1 -> S]
    BY <2>2
  <2>4. g[0] = x
    BY <2>1
  <2>5. \A k \in 1..n + 1 : g[k] = G[k][g[k - 1]]
    BY <2>1
  <2>6. Good(n + 1)
    BY <2>3, <2>4, <2>5
  <2> QED BY <2>6
<1>3. 0..N \subseteq T
  BY <1>1, <1>2, IntervalInduction
<1> QED BY <1>3 DEF Iterations

\* What holds of the empty sequence and of every sequence it holds of with an
\* element appended, holds of all sequences.
LEMMA SeqInduction ==
  ASSUME NEW T, NEW S, <<>> \in S,
         \A seq \in Seq(T) : seq \in S => \A e \in T : Append(seq, e) \in S
  PROVE  Seq(T) \subseteq S
<1> DEFINE L == {n \in Nat : \A seq \in Seq(T) : Len(seq) = n => seq \in S}
<1>1. 0 \in L
  BY EmptySeq
<1>2. ASSUME NEW n \in Nat, n \in L PROVE n + 1 \in L
  <2> SUFFICES ASSUME NEW seq \in Seq(T), Len(seq) = n + 1 PROVE seq \in S
    OBVIOUS
  <2>1. seq # <<>>
    BY EmptySeq
  <2>2. PICK front \in Seq(T), e \in T : seq = Append(front, e)
    BY <2>1, SequenceEmptyOrAppend
  <2>3. Len(front) = n
    BY <2>2
  <2> QED BY <1>2, <2>2, <2>3
<1> HIDE DEF L
<1>3. Nat \subseteq L
  BY <1>1, <1>2, NatSetInduction
<1> QED BY <1>3, LenProperties DEF L

LEMMA AppendToConcat ==
  ASSUME NEW T, NEW s \in Seq(T), NEW t \in Seq(T), NEW e \in T
  PROVE  s \o Append(t, e) = Append(s \o t, e)
OBVIOUS

-----------------------------------------------------------------------------
(* Selected, step by step *)

Selects(f, S, at, seq) ==
  /\ f \in [0..Len(seq) -> S] /\ f[0] = <<>>
  /\ \A k \in 1..Len(seq) : f[k] = (IF k \in at THEN Append(f[k - 1], seq[k]) ELSE f[k - 1])
  /\ Selected(at, seq) = f[Len(seq)]

LEMMA SelectedUnfolds ==
  ASSUME NEW T, NEW at, NEW seq \in Seq(T)
  PROVE  \E f : Selects(f, Seq(T), at, seq)
<1> DEFINE N == Len(seq)
           S == Seq(T)
           base == <<>>
           E(x, k) == (IF k \in at THEN Append(x, seq[k]) ELSE x)
           G == [k \in 1..N |-> [x \in S |-> E(x, k)]]
           Body(g) == [k \in 0..N |-> IF k = 0 THEN base ELSE E(g[k - 1], k)]
           f == CHOOSE g : g = Body(g)
<1>1. N \in Nat /\ base \in S
  OBVIOUS
<1>2. \A k \in 1..N, x \in S : E(x, k) \in S
  OBVIOUS
<1>3. Selected(at, seq) = f[N]
  BY DEF Selected
<1>4. \A x, k : E(x, k) = (IF k \in at THEN Append(x, seq[k]) ELSE x)
  OBVIOUS
<1> HIDE DEF N, S, base, E
<1>5. G \in [1..N -> [S -> S]]
  BY <1>2
<1>6. \A k \in 1..N, x \in S : G[k][x] = E(x, k)
  OBVIOUS
<1> HIDE DEF G
<1>7. PICK h : h \in Iterations(S, base, N, G)
  BY <1>1, <1>5, Iteration
<1>8. h = Body(h)
  BY <1>1, <1>6, <1>7 DEF Iterations
<1> HIDE DEF Body
<1>9. f = Body(f)
  BY <1>8
<1> HIDE DEF f
<1> USE DEF Body
<1>10. f[0] = base /\ \A k \in 1..N : f[k] = E(f[k - 1], k)
  BY <1>1, <1>9
<1>11. f \in [0..N -> S]
  <2> DEFINE typed == {k \in 0..N : f[k] \in S}
  <2>1. 0 \in typed
    BY <1>1, <1>10
  <2>2. ASSUME NEW n \in 0..N - 1, n \in typed PROVE n + 1 \in typed
    <3>1. n + 1 \in 1..N /\ (n + 1) - 1 = n
      BY <1>1
    <3> QED BY <1>1, <1>2, <1>10, <2>2, <3>1
  <2> HIDE DEF typed
  <2>3. 0..N \subseteq typed
    BY <1>1, <2>1, <2>2, IntervalInduction
  <2> QED BY <1>9, <2>3 DEF typed
<1>12. Selects(f, Seq(T), at, seq)
  BY <1>3, <1>4, <1>10, <1>11 DEF N, S, base, Selects
<1> QED BY <1>12

LEMMA SelectedSteps ==
  ASSUME NEW T, NEW at, NEW seq \in Seq(T)
  PROVE  /\ Selected(at, seq) \in Seq(T)
         /\ Selected(at, <<>>) = <<>>
         /\ \A e \in T :
            Selected(at, Append(seq,
              e)) = (IF Len(seq) + 1 \in at THEN Append(Selected(at, seq), e)
                ELSE Selected(at, seq))
<1>1. PICK f : Selects(f, Seq(T), at, seq)
  BY SelectedUnfolds
<1>2. PICK f0 : Selects(f0, Seq(T), at, <<>>)
  BY SelectedUnfolds, EmptySeq
<1>3. Selected(at, seq) \in Seq(T) /\ Selected(at, <<>>) = <<>>
  BY <1>1, <1>2, EmptySeq, LenProperties DEF Selects
<1>4. ASSUME NEW e \in T
      PROVE  Selected(at,
             Append(seq, e)) = (IF Len(seq) + 1 \in at THEN Append(Selected(at, seq), e)
               ELSE Selected(at, seq))
  <2> DEFINE more == Append(seq, e)
             N == Len(seq)
  <2>1. /\ more \in Seq(T) /\ N \in Nat /\ Len(more) = N + 1
        /\ more[N + 1] = e /\ \A k \in 1..N : more[k] = seq[k]
    OBVIOUS
  <2> HIDE DEF more
  <2>2. PICK g : Selects(g, Seq(T), at, more)
    BY <2>1, SelectedUnfolds
  <2> DEFINE same == {k \in 0..N : f[k] = g[k]}
  <2>3. 0 \in same
    BY <1>1, <2>1, <2>2 DEF Selects
  <2>4. ASSUME NEW n \in 0..N - 1, n \in same PROVE n + 1 \in same
    <3>1. n + 1 \in 1..N /\ n + 1 \in 1..N + 1 /\ (n + 1) - 1 = n
      BY <2>1
    <3>2. f[n + 1] = (IF n + 1 \in at THEN Append(f[n], seq[n + 1]) ELSE f[n])
      BY <1>1, <3>1 DEF Selects
    <3>3. g[n + 1] = (IF n + 1 \in at THEN Append(g[n], more[n + 1]) ELSE g[n])
      BY <2>1, <2>2, <3>1 DEF Selects
    <3> QED BY <2>1, <2>4, <3>1, <3>2, <3>3
  <2> HIDE DEF N, same
  <2>5. 0..N \subseteq same
    BY <2>1, <2>3, <2>4, IntervalInduction
  <2>6. f[N] = g[N]
    BY <2>1, <2>5 DEF same
  <2>7. g[N + 1] = (IF N + 1 \in at THEN Append(g[N], more[N + 1]) ELSE g[N])
    <3>1. N + 1 \in 1..Len(more) /\ (N + 1) - 1 = N
      BY <2>1
    <3> QED BY <2>2, <3>1 DEF Selects
  <2> QED BY <1>1, <2>1, <2>2, <2>6, <2>7 DEF Selects, N, more
<1> QED BY <1>3, <1>4

\* What is selected from a sequence is one of its elements, at a selected position.
SelectedElements(at, seq) ==
  \A i \in 1..Len(Selected(at, seq)) :
    \E k \in 1..Len(seq) : k \in at /\ Selected(at, seq)[i] = seq[k]

LEMMA SelectedFrom ==
  ASSUME NEW T, NEW at, NEW seq \in Seq(T)
  PROVE  SelectedElements(at, seq) /\ Selected(at, seq) \in Seq(T)
<1> DEFINE S == {q \in Seq(T) : SelectedElements(at, q)}
<1>1. <<>> \in S
  <2>1. Selected(at, <<>>) = <<>> /\ Len(<<>>) = 0
    BY SelectedSteps, EmptySeq
  <2> QED BY <2>1, EmptySeq DEF SelectedElements
<1>2. ASSUME NEW q \in Seq(T), q \in S, NEW e \in T PROVE Append(q, e) \in S
  <2> DEFINE more == Append(q, e)
             was == Selected(at, q)
             is == Selected(at, more)
             n == Len(q) + 1
  <2>1. /\ was \in Seq(T) /\ is = IF n \in at THEN Append(was, e) ELSE was
    BY SelectedSteps
  <2>2. /\ more \in Seq(T) /\ Len(more) = n /\ Len(q) \in Nat /\ more[n] = e
        /\ \A k \in 1..Len(q) : more[k] = q[k] /\ k \in 1..Len(more)
    OBVIOUS
  <2>3. \A i \in 1..Len(was) : \E k \in 1..Len(q) : k \in at /\ was[i] = q[k]
    BY <1>2 DEF SelectedElements
  <2> HIDE DEF was, is, more
  <2>4. ASSUME NEW i \in 1..Len(is) PROVE \E k \in 1..Len(more) : k \in at /\ is[i] = more[k]
    <3>1. CASE n \notin at
      BY <2>1, <2>2, <2>3, <3>1
    <3>2. CASE n \in at /\ i = Len(was) + 1
      <4>1. is[i] = e /\ n \in 1..Len(more)
        BY <2>1, <2>2, <3>2
      <4> QED BY <2>2, <3>2, <4>1
    <3>3. CASE n \in at /\ i # Len(was) + 1
      <4>1. i \in 1..Len(was) /\ is[i] = was[i]
        BY <2>1, <3>3
      <4> QED BY <2>2, <2>3, <4>1
    <3> QED BY <3>1, <3>2, <3>3
  <2> QED BY <2>2, <2>4 DEF SelectedElements, is, more
<1> HIDE DEF S
<1>3. Seq(T) \subseteq S
  BY <1>1, <1>2, SeqInduction
<1> QED BY <1>3, SelectedSteps DEF S

\* Only the positions of a sequence matter for what is selected from it.
LEMMA SelectedAgrees ==
  ASSUME NEW T, NEW at, NEW was, NEW seq \in Seq(T),
         \A i \in 1..Len(seq) : i \in at <=> i \in was
  PROVE  Selected(at, seq) = Selected(was, seq)
<1> DEFINE S == {q \in Seq(T) : (\A i \in 1..Len(q) : i \in at <=> i \in was) =>
                                  Selected(at, q) = Selected(was, q)}
<1>1. <<>> \in S
  BY EmptySeq, SelectedSteps
<1>2. ASSUME NEW q \in Seq(T), q \in S, NEW e \in T PROVE Append(q, e) \in S
  <2> SUFFICES ASSUME \A i \in 1..Len(Append(q, e)) : i \in at <=> i \in was
               PROVE  Selected(at, Append(q, e)) = Selected(was, Append(q, e))
    BY AppendProperties
  <2>1. /\ Len(q) \in Nat /\ Len(q) + 1 \in 1..Len(Append(q, e))
        /\ \A i \in 1..Len(q) : i \in 1..Len(Append(q, e))
    BY AppendProperties, LenProperties
  <2>2. Selected(at, q) = Selected(was, q) /\ (Len(q) + 1 \in at <=> Len(q) + 1 \in was)
    BY <1>2, <2>1
  <2>3. \A x : Selected(x, Append(q, e)) =
                IF Len(q) + 1 \in x THEN Append(Selected(x, q), e) ELSE Selected(x, q)
    BY SelectedSteps
  <2> QED BY <2>2, <2>3
<1> HIDE DEF S
<1>3. Seq(T) \subseteq S
  BY <1>1, <1>2, SeqInduction
<1> QED BY <1>3 DEF S

\* What is selected from a sequence and what was appended to it: all or nothing
\* of the latter, and of the former what was selected before.
AddsAll(at, was, old, new) == Selected(at, old \o new) = Selected(was, old) \o new

LEMMA SelectedAll ==
  ASSUME NEW T, NEW at, NEW was, NEW old \in Seq(T), NEW new \in Seq(T),
         \A i \in 1..Len(old) : i \in at <=> i \in was,
         \A i \in 1..Len(new) : Len(old) + i \in at
  PROVE  AddsAll(at, was, old, new)
<1> DEFINE S == {q \in Seq(T) : (\A i \in 1..Len(q) : Len(old) + i \in at) =>
                                  Selected(at, old \o q) = Selected(was, old) \o q}
<1>1. Selected(was, old) \in Seq(T) /\ Selected(at, old) = Selected(was, old)
  BY SelectedSteps, SelectedAgrees
<1>2. <<>> \in S
  <2>1. old \o <<>> = old /\ Selected(was, old) \o <<>> = Selected(was, old)
    BY <1>1, ConcatEmptySeq
  <2> QED BY <1>1, <2>1, EmptySeq
<1>3. ASSUME NEW q \in Seq(T), q \in S, NEW e \in T PROVE Append(q, e) \in S
  <2> SUFFICES ASSUME \A i \in 1..Len(Append(q, e)) : Len(old) + i \in at
               PROVE  Selected(at, old \o Append(q, e)) = Selected(was, old) \o Append(q, e)
    BY AppendProperties
  <2>1. /\ Len(q) \in Nat /\ Len(old) \in Nat /\ Len(Append(q, e)) = Len(q) + 1
        /\ Len(old \o q) + 1 = Len(old) + (Len(q) + 1) /\ old \o q \in Seq(T)
    BY AppendProperties, LenProperties, ConcatProperties
  <2>2. Len(old \o q) + 1 \in at
    <3>1. Len(q) + 1 \in 1..Len(Append(q, e))
      BY <2>1
    <3> QED BY <2>1, <3>1
  <2>3. Selected(at, old \o q) = Selected(was, old) \o q
    <3>1. \A i \in 1..Len(q) : i \in 1..Len(Append(q, e))
      BY <2>1
    <3> QED BY <1>3, <3>1
  <2>4. /\ old \o Append(q, e) = Append(old \o q, e)
        /\ Selected(was, old) \o Append(q, e) = Append(Selected(was, old) \o q, e)
    BY <1>1
  <2>5. Selected(at, Append(old \o q, e)) =
          IF Len(old \o q) + 1 \in at
          THEN Append(Selected(at, old \o q), e) ELSE Selected(at, old \o q)
    <3> DEFINE both == old \o q
    <3>1. both \in Seq(T)
      BY <2>1
    <3> HIDE DEF both
    <3>2. Selected(at, Append(both, e)) =
            IF Len(both) + 1 \in at THEN Append(Selected(at, both), e) ELSE Selected(at, both)
      BY <3>1, SelectedSteps
    <3> QED BY <3>2 DEF both
  <2> QED BY <2>2, <2>3, <2>4, <2>5
<1> HIDE DEF S
<1>4. Seq(T) \subseteq S
  BY <1>2, <1>3, SeqInduction
<1> QED BY <1>4 DEF S, AddsAll

LEMMA SelectedNothing ==
  ASSUME NEW T, NEW at, NEW was, NEW old \in Seq(T), NEW new \in Seq(T),
         \A i \in 1..Len(old) : i \in at <=> i \in was,
         \A i \in 1..Len(new) : Len(old) + i \notin at
  PROVE  Selected(at, old \o new) = Selected(was, old)
<1> DEFINE S == {q \in Seq(T) : (\A i \in 1..Len(q) : Len(old) + i \notin at) =>
                                  Selected(at, old \o q) = Selected(was, old)}
<1>1. Selected(was, old) \in Seq(T) /\ Selected(at, old) = Selected(was, old)
  BY SelectedSteps, SelectedAgrees
<1>2. <<>> \in S
  BY <1>1, ConcatEmptySeq, EmptySeq
<1>3. ASSUME NEW q \in Seq(T), q \in S, NEW e \in T PROVE Append(q, e) \in S
  <2> SUFFICES ASSUME \A i \in 1..Len(Append(q, e)) : Len(old) + i \notin at
               PROVE  Selected(at, old \o Append(q, e)) = Selected(was, old)
    BY AppendProperties
  <2>1. /\ Len(q) \in Nat /\ Len(old) \in Nat /\ Len(Append(q, e)) = Len(q) + 1
        /\ Len(old \o q) + 1 = Len(old) + (Len(q) + 1) /\ old \o q \in Seq(T)
    BY AppendProperties, LenProperties, ConcatProperties
  <2>2. Len(old \o q) + 1 \notin at
    <3>1. Len(q) + 1 \in 1..Len(Append(q, e))
      BY <2>1
    <3> QED BY <2>1, <3>1
  <2>3. Selected(at, old \o q) = Selected(was, old)
    <3>1. \A i \in 1..Len(q) : i \in 1..Len(Append(q, e))
      BY <2>1
    <3> QED BY <1>3, <3>1
  <2>4. old \o Append(q, e) = Append(old \o q, e)
    OBVIOUS
  <2>5. Selected(at, Append(old \o q, e)) =
          IF Len(old \o q) + 1 \in at
          THEN Append(Selected(at, old \o q), e) ELSE Selected(at, old \o q)
    <3> DEFINE both == old \o q
    <3>1. both \in Seq(T)
      BY <2>1
    <3> HIDE DEF both
    <3>2. Selected(at, Append(both, e)) =
            IF Len(both) + 1 \in at THEN Append(Selected(at, both), e) ELSE Selected(at, both)
      BY <3>1, SelectedSteps
    <3> QED BY <3>2 DEF both
  <2> QED BY <2>2, <2>3, <2>4, <2>5
<1> HIDE DEF S
<1>4. Seq(T) \subseteq S
  BY <1>2, <1>3, SeqInduction
<1> QED BY <1>4 DEF S
-----------------------------------------------------------------------------
(* Folded, step by step *)

FoldsBy(f, S, step, start, seq) ==
  /\ f \in [0..Len(seq) -> S] /\ f[0] = start
  /\ \A k \in 1..Len(seq) : f[k] = step[f[k - 1]][seq[k]]
  /\ Folded(step, start, seq) = f[Len(seq)]

LEMMA FoldedUnfolds ==
  ASSUME NEW D, NEW T, NEW step \in [D -> [T -> D]], NEW start \in D, NEW seq \in Seq(T)
  PROVE  \E f : FoldsBy(f, D, step, start, seq)
<1> DEFINE N == Len(seq)
           S == D
           base == start
           E(x, k) == step[x][seq[k]]
           G == [k \in 1..N |-> [x \in S |-> E(x, k)]]
           Body(g) == [k \in 0..N |-> IF k = 0 THEN base ELSE E(g[k - 1], k)]
           f == CHOOSE g : g = Body(g)
<1>1. N \in Nat /\ base \in S
  OBVIOUS
<1>2. \A k \in 1..N, x \in S : E(x, k) \in S
  OBVIOUS
<1>3. Folded(step, start, seq) = f[N]
  BY DEF Folded
<1>4. \A x, k : E(x, k) = step[x][seq[k]]
  OBVIOUS
<1> HIDE DEF N, S, base, E
<1>5. G \in [1..N -> [S -> S]]
  BY <1>2
<1>6. \A k \in 1..N, x \in S : G[k][x] = E(x, k)
  OBVIOUS
<1> HIDE DEF G
<1>7. PICK h : h \in Iterations(S, base, N, G)
  BY <1>1, <1>5, Iteration
<1>8. h = Body(h)
  BY <1>1, <1>6, <1>7 DEF Iterations
<1> HIDE DEF Body
<1>9. f = Body(f)
  BY <1>8
<1> HIDE DEF f
<1> USE DEF Body
<1>10. f[0] = base /\ \A k \in 1..N : f[k] = E(f[k - 1], k)
  BY <1>1, <1>9
<1>11. f \in [0..N -> S]
  <2> DEFINE typed == {k \in 0..N : f[k] \in S}
  <2>1. 0 \in typed
    BY <1>1, <1>10
  <2>2. ASSUME NEW n \in 0..N - 1, n \in typed PROVE n + 1 \in typed
    <3>1. n + 1 \in 1..N /\ (n + 1) - 1 = n
      BY <1>1
    <3> QED BY <1>1, <1>2, <1>10, <2>2, <3>1
  <2> HIDE DEF typed
  <2>3. 0..N \subseteq typed
    BY <1>1, <2>1, <2>2, IntervalInduction
  <2> QED BY <1>9, <2>3 DEF typed
<1>12. FoldsBy(f, D, step, start, seq)
  BY <1>3, <1>4, <1>10, <1>11 DEF N, S, base, FoldsBy
<1> QED BY <1>12

LEMMA FoldedEmpty ==
  ASSUME NEW D, NEW T, NEW step \in [D -> [T -> D]], NEW start \in D
  PROVE  Folded(step, start, <<>>) = start
<1>1. <<>> \in Seq(T) /\ Len(<<>>) = 0
  BY EmptySeq
<1>2. PICK f : FoldsBy(f, D, step, start, <<>>)
  BY <1>1, FoldedUnfolds
<1> QED BY <1>1, <1>2 DEF FoldsBy

LEMMA FoldedTyped ==
  ASSUME NEW D, NEW T, NEW step \in [D -> [T -> D]], NEW start \in D, NEW seq \in Seq(T)
  PROVE  Folded(step, start, seq) \in D
<1>1. PICK f : FoldsBy(f, D, step, start, seq)
  BY FoldedUnfolds
<1>2. Len(seq) \in 0..Len(seq)
  BY LenProperties
<1> QED BY <1>1, <1>2 DEF FoldsBy

FoldsNext(step, start, seq, e) ==
  Folded(step, start, Append(seq, e)) = step[Folded(step, start, seq)][e]

LEMMA FoldedAppend ==
  ASSUME NEW D, NEW T, NEW step \in [D -> [T -> D]], NEW start \in D, NEW seq \in Seq(T),
         NEW e \in T
  PROVE  FoldsNext(step, start, seq, e)
<1> DEFINE more == Append(seq, e)
           N == Len(seq)
<1>1. PICK f : FoldsBy(f, D, step, start, seq)
  BY FoldedUnfolds
<1>2. /\ more \in Seq(T) /\ N \in Nat /\ Len(more) = N + 1
      /\ more[N + 1] = e /\ \A k \in 1..N : more[k] = seq[k]
  OBVIOUS
<1> HIDE DEF more
<1>3. PICK g : FoldsBy(g, D, step, start, more)
  BY <1>2, FoldedUnfolds
<1> DEFINE same == {k \in 0..N : f[k] = g[k]}
<1>4. 0 \in same
  BY <1>1, <1>2, <1>3 DEF FoldsBy
<1>5. ASSUME NEW n \in 0..N - 1, n \in same PROVE n + 1 \in same
  <2>1. n + 1 \in 1..N /\ n + 1 \in 1..N + 1 /\ (n + 1) - 1 = n
    BY <1>2
  <2>2. f[n + 1] = step[f[n]][seq[n + 1]]
    BY <1>1, <2>1 DEF FoldsBy
  <2>3. g[n + 1] = step[g[n]][more[n + 1]]
    BY <1>2, <1>3, <2>1 DEF FoldsBy
  <2>4. f[n] = g[n] /\ seq[n + 1] = more[n + 1]
    BY <1>2, <1>5, <2>1
  <2>5. f[n + 1] = g[n + 1]
    BY ONLY <2>2, <2>3, <2>4
  <2> QED BY <1>2, <2>1, <2>5
<1> HIDE DEF N, same
<1>6. 0..N \subseteq same
  BY <1>2, <1>4, <1>5, IntervalInduction
<1>7. f[N] = g[N]
  BY <1>2, <1>6 DEF same
<1>8. g[N + 1] = step[g[N]][more[N + 1]]
  <2>1. N + 1 \in 1..Len(more) /\ (N + 1) - 1 = N
    BY <1>2
  <2> QED BY <1>3, <2>1 DEF FoldsBy
<1>9. Folded(step, start, seq) = f[N] /\ Folded(step, start, more) = g[N + 1]
  BY <1>1, <1>2, <1>3 DEF FoldsBy, N
<1> QED BY <1>2, <1>7, <1>8, <1>9 DEF more, FoldsNext

\* A fold over two sequences goes on with the second where the first one left.
ConcatFolds(step, start, s, t) ==
  Folded(step, start, s \o t) = Folded(step, Folded(step, start, s), t)

LEMMA FoldedConcat ==
  ASSUME NEW D, NEW T, NEW step \in [D -> [T -> D]], NEW start \in D, NEW s \in Seq(T),
         NEW t \in Seq(T)
  PROVE  ConcatFolds(step, start, s, t)
<1> DEFINE S == {q \in Seq(T) :
    Folded(step, start, s \o q) = Folded(step, Folded(step, start, s), q)}
<1>1. Folded(step, start, s) \in D
  BY FoldedTyped
<1>2. <<>> \in S
  <2>1. s \o <<>> = s
    BY ConcatEmptySeq
  <2>2. Folded(step, Folded(step, start, s), <<>>) = Folded(step, start, s)
    BY <1>1, FoldedEmpty
  <2> QED BY <2>1, <2>2, EmptySeq
<1>3. ASSUME NEW q \in Seq(T), q \in S, NEW e \in T PROVE Append(q, e) \in S
  <2> DEFINE both == s \o q
             middle == Folded(step, start, s)
  <2>1. s \o Append(q, e) = Append(both, e) /\ both \in Seq(T) /\ Append(q, e) \in Seq(T)
    OBVIOUS
  <2>2. Folded(step, start, both) = Folded(step, middle, q)
    BY <1>3
  <2>3. middle \in D
    BY <1>1
  <2> HIDE DEF both, middle
  <2>4. Folded(step, start, Append(both, e)) = step[Folded(step, start, both)][e]
    <3>1. FoldsNext(step, start, both, e)
      BY <2>1, FoldedAppend
    <3> QED BY <3>1 DEF FoldsNext
  <2>5. Folded(step, middle, Append(q, e)) = step[Folded(step, middle, q)][e]
    <3>1. FoldsNext(step, middle, q, e)
      BY <2>3, FoldedAppend
    <3> QED BY <3>1 DEF FoldsNext
  <2>6. Folded(step, start, s \o Append(q, e)) = Folded(step, middle, Append(q, e))
    BY <2>1, <2>2, <2>4, <2>5
  <2> QED BY <2>1, <2>6 DEF middle
<1> HIDE DEF S
<1>4. Seq(T) \subseteq S
  BY <1>2, <1>3, SeqInduction
<1> QED BY <1>4 DEF S, ConcatFolds

\* A fold over a sequence, prefix by prefix.
PrefixFolds(D, step, start, seq) ==
  /\ Folded(step, start, SubSeq(seq, 1, 0)) = start
  /\ Folded(step, start, SubSeq(seq, 1, Len(seq))) = Folded(step, start, seq)
  /\ \A k \in 0..Len(seq) : Folded(step, start, SubSeq(seq, 1, k)) \in D
  /\ \A k \in 1..Len(seq) : Folded(step, start, SubSeq(seq, 1, k)) =
                              step[Folded(step, start, SubSeq(seq, 1, k - 1))][seq[k]]

LEMMA FoldedPrefixes ==
  ASSUME NEW D, NEW T, NEW step \in [D -> [T -> D]], NEW start \in D, NEW seq \in Seq(T)
  PROVE  PrefixFolds(D, step, start, seq)
<1>1. SubSeq(seq, 1, 0) = <<>> /\ SubSeq(seq, 1, Len(seq)) = seq
  BY EmptySeq
<1>2. ASSUME NEW k \in 0..Len(seq) PROVE SubSeq(seq, 1, k) \in Seq(T)
  OBVIOUS
<1>3. ASSUME NEW k \in 1..Len(seq)
      PROVE  /\ SubSeq(seq, 1, k) = Append(SubSeq(seq, 1, k - 1), seq[k])
             /\ SubSeq(seq, 1, k - 1) \in Seq(T) /\ seq[k] \in T
  OBVIOUS
<1>4. ASSUME NEW k \in 1..Len(seq)
      PROVE  Folded(step, start, SubSeq(seq, 1, k)) =
               step[Folded(step, start, SubSeq(seq, 1, k - 1))][seq[k]]
  <2>1. FoldsNext(step, start, SubSeq(seq, 1, k - 1), seq[k])
    BY <1>3, FoldedAppend
  <2> QED BY <1>3, <2>1 DEF FoldsNext
<1>5. Folded(step, start, <<>>) = start
  BY FoldedEmpty
<1>6. \A k \in 0..Len(seq) : Folded(step, start, SubSeq(seq, 1, k)) \in D
  BY <1>2, FoldedTyped
<1> QED BY <1>1, <1>4, <1>5, <1>6 DEF PrefixFolds

\* What a step keeps, a fold keeps.
LEMMA FoldedStays ==
  ASSUME NEW D, NEW T, NEW step \in [D -> [T -> D]], NEW I, I \subseteq D,
         NEW start \in I, NEW seq \in Seq(T), \A x \in I, e \in T : step[x][e] \in I
  PROVE  Folded(step, start, seq) \in I
<1> DEFINE N == Len(seq)
<1>1. PICK f : FoldsBy(f, D, step, start, seq)
  BY FoldedUnfolds
<1> DEFINE kept == {k \in 0..N : f[k] \in I}
<1>2. N \in Nat /\ \A k \in 1..N : seq[k] \in T
  OBVIOUS
<1>3. 0 \in kept
  BY <1>1, <1>2 DEF FoldsBy
<1>4. ASSUME NEW n \in 0..N - 1, n \in kept PROVE n + 1 \in kept
  <2>1. n + 1 \in 1..N /\ (n + 1) - 1 = n
    BY <1>2
  <2>2. f[n + 1] = step[f[n]][seq[n + 1]]
    BY <1>1, <2>1 DEF FoldsBy
  <2>3. f[n] \in I /\ seq[n + 1] \in T
    BY <1>2, <1>4, <2>1
  <2> QED BY <2>1, <2>2, <2>3
<1> HIDE DEF N, kept
<1>5. 0..N \subseteq kept
  BY <1>2, <1>3, <1>4, IntervalInduction
<1>6. f[N] \in I
  BY <1>2, <1>5 DEF kept
<1> QED BY <1>1, <1>6 DEF FoldsBy, N

-----------------------------------------------------------------------------
(* Flattened, step by step *)

Flattens(f, S, seqs) ==
  /\ f \in [0..Len(seqs) -> S] /\ f[0] = <<>>
  /\ \A k \in 1..Len(seqs) : f[k] = f[k - 1] \o seqs[k]
  /\ Flattened(seqs) = f[Len(seqs)]

LEMMA FlattenedUnfolds ==
  ASSUME NEW T, NEW seqs \in Seq(Seq(T))
  PROVE  \E f : Flattens(f, Seq(T), seqs)
<1> DEFINE N == Len(seqs)
           S == Seq(T)
           base == <<>>
           E(x, k) == x \o seqs[k]
           G == [k \in 1..N |-> [x \in S |-> E(x, k)]]
           Body(g) == [k \in 0..N |-> IF k = 0 THEN base ELSE E(g[k - 1], k)]
           f == CHOOSE g : g = Body(g)
<1>1. N \in Nat /\ base \in S
  OBVIOUS
<1>2. \A k \in 1..N, x \in S : E(x, k) \in S
  OBVIOUS
<1>3. Flattened(seqs) = f[N]
  BY DEF Flattened
<1>4. \A x, k : E(x, k) = x \o seqs[k]
  OBVIOUS
<1> HIDE DEF N, S, base, E
<1>5. G \in [1..N -> [S -> S]]
  BY <1>2
<1>6. \A k \in 1..N, x \in S : G[k][x] = E(x, k)
  OBVIOUS
<1> HIDE DEF G
<1>7. PICK h : h \in Iterations(S, base, N, G)
  BY <1>1, <1>5, Iteration
<1>8. h = Body(h)
  BY <1>1, <1>6, <1>7 DEF Iterations
<1> HIDE DEF Body
<1>9. f = Body(f)
  BY <1>8
<1> HIDE DEF f
<1> USE DEF Body
<1>10. f[0] = base /\ \A k \in 1..N : f[k] = E(f[k - 1], k)
  BY <1>1, <1>9
<1>11. f \in [0..N -> S]
  <2> DEFINE typed == {k \in 0..N : f[k] \in S}
  <2>1. 0 \in typed
    BY <1>1, <1>10
  <2>2. ASSUME NEW n \in 0..N - 1, n \in typed PROVE n + 1 \in typed
    <3>1. n + 1 \in 1..N /\ (n + 1) - 1 = n
      BY <1>1
    <3> QED BY <1>1, <1>2, <1>10, <2>2, <3>1
  <2> HIDE DEF typed
  <2>3. 0..N \subseteq typed
    BY <1>1, <2>1, <2>2, IntervalInduction
  <2> QED BY <1>9, <2>3 DEF typed
<1>12. Flattens(f, Seq(T), seqs)
  BY <1>3, <1>4, <1>10, <1>11 DEF N, S, base, Flattens
<1> QED BY <1>12

LEMMA FlattenedSteps ==
  ASSUME NEW T, NEW seqs \in Seq(Seq(T))
  PROVE  /\ Flattened(seqs) \in Seq(T)
         /\ Flattened(<<>>) = <<>>
         /\ \A e \in Seq(T) : Flattened(Append(seqs, e)) = Flattened(seqs) \o e
<1>1. PICK f : Flattens(f, Seq(T), seqs)
  BY FlattenedUnfolds
<1>2. PICK f0 : Flattens(f0, Seq(T), <<>>)
  BY FlattenedUnfolds, EmptySeq
<1>3. Flattened(seqs) \in Seq(T) /\ Flattened(<<>>) = <<>>
  BY <1>1, <1>2, EmptySeq, LenProperties DEF Flattens
<1>4. ASSUME NEW e \in Seq(T)
      PROVE  Flattened(Append(seqs, e)) = Flattened(seqs) \o e
  <2> DEFINE more == Append(seqs, e)
             N == Len(seqs)
  <2>1. /\ more \in Seq(Seq(T)) /\ N \in Nat /\ Len(more) = N + 1
        /\ more[N + 1] = e /\ \A k \in 1..N : more[k] = seqs[k]
    OBVIOUS
  <2> HIDE DEF more
  <2>2. PICK g : Flattens(g, Seq(T), more)
    BY <2>1, FlattenedUnfolds
  <2> DEFINE same == {k \in 0..N : f[k] = g[k]}
  <2>3. 0 \in same
    BY <1>1, <2>1, <2>2 DEF Flattens
  <2>4. ASSUME NEW n \in 0..N - 1, n \in same PROVE n + 1 \in same
    <3>1. n + 1 \in 1..N /\ n + 1 \in 1..N + 1 /\ (n + 1) - 1 = n
      BY <2>1
    <3>2. f[n + 1] = f[n] \o seqs[n + 1]
      BY <1>1, <3>1 DEF Flattens
    <3>3. g[n + 1] = g[n] \o more[n + 1]
      BY <2>1, <2>2, <3>1 DEF Flattens
    <3>4. f[n] = g[n] /\ seqs[n + 1] = more[n + 1]
      BY <2>1, <2>4, <3>1
    <3>5. f[n + 1] = g[n + 1]
      BY ONLY <3>2, <3>3, <3>4
    <3> QED BY <2>1, <3>1, <3>5
  <2> HIDE DEF N, same
  <2>5. 0..N \subseteq same
    BY <2>1, <2>3, <2>4, IntervalInduction
  <2>6. f[N] = g[N]
    BY <2>1, <2>5 DEF same
  <2>7. g[N + 1] = g[N] \o more[N + 1]
    <3>1. N + 1 \in 1..Len(more) /\ (N + 1) - 1 = N
      BY <2>1
    <3> QED BY <2>2, <3>1 DEF Flattens
  <2> QED BY <1>1, <2>1, <2>2, <2>6, <2>7 DEF Flattens, N, more
<1> QED BY <1>3, <1>4

FlattensConcat(s, t) == Flattened(s \o t) = Flattened(s) \o Flattened(t)

LEMMA FlattenedConcat ==
  ASSUME NEW T, NEW s \in Seq(Seq(T)), NEW t \in Seq(Seq(T))
  PROVE  FlattensConcat(s, t)
<1> DEFINE S == {q \in Seq(Seq(T)) : Flattened(s \o q) = Flattened(s) \o Flattened(q)}
<1>1. Flattened(s) \in Seq(T)
  BY FlattenedSteps
<1>2. <<>> \in S
  <2>1. s \o <<>> = s /\ Flattened(s) \o <<>> = Flattened(s)
    BY <1>1, ConcatEmptySeq
  <2>2. Flattened(<<>>) = <<>>
    BY EmptySeq, FlattenedSteps
  <2> QED BY <2>1, <2>2, EmptySeq
<1>3. ASSUME NEW q \in Seq(Seq(T)), q \in S, NEW e \in Seq(T) PROVE Append(q, e) \in S
  <2> DEFINE both == s \o q
  <2>1. s \o Append(q, e) = Append(both, e) /\ both \in Seq(Seq(T)) /\ Append(q, e) \in Seq(Seq(T))
    OBVIOUS
  <2>2. Flattened(both) = Flattened(s) \o Flattened(q)
    BY <1>3
  <2> HIDE DEF both
  <2>3. Flattened(Append(both, e)) = Flattened(both) \o e
    BY <2>1, FlattenedSteps
  <2>4. Flattened(Append(q, e)) = Flattened(q) \o e /\ Flattened(q) \in Seq(T)
    BY FlattenedSteps
  <2>5. (Flattened(s) \o Flattened(q)) \o e = Flattened(s) \o (Flattened(q) \o e)
    BY <1>1, <2>4, ConcatAssociative
  <2> QED BY <2>1, <2>2, <2>3, <2>4, <2>5
<1> HIDE DEF S
<1>4. Seq(Seq(T)) \subseteq S
  BY <1>2, <1>3, SeqInduction
<1> QED BY <1>4 DEF S, FlattensConcat

-----------------------------------------------------------------------------
(* Elements that a sequence has once *)

AtMostOnce(x, seq) == \A j, k \in 1..Len(seq) : seq[j] = x /\ seq[k] = x => j = k
NoRepeats(seq) == \A j, k \in 1..Len(seq) : seq[j] = seq[k] => j = k
IsIn(x, seq) == \E k \in 1..Len(seq) : seq[k] = x

\* A sequence has no repeats after another element was appended to it, or elements
\* were selected from it.
LEMMA AppendNoRepeats ==
  ASSUME NEW T, NEW seq \in Seq(T), NEW e \in T
  PROVE  NoRepeats(Append(seq, e)) <=> NoRepeats(seq) /\ ~IsIn(e, seq)
<1> DEFINE more == Append(seq, e)
           n == Len(seq)
<1>1. /\ n \in Nat /\ Len(more) = n + 1 /\ more[n + 1] = e
      /\ \A k \in 1..n : more[k] = seq[k] /\ k \in 1..n + 1 /\ k # n + 1
      /\ \A k \in 1..n + 1 : k \in 1..n \/ k = n + 1
  OBVIOUS
<1>2. n + 1 \in 1..n + 1
  BY <1>1
<1> HIDE DEF more, n
<1>3. ASSUME NoRepeats(more) PROVE NoRepeats(seq) /\ ~IsIn(e, seq)
  <2>1. NoRepeats(seq)
    BY <1>1, <1>3 DEF NoRepeats, n
  <2>2. ASSUME NEW k \in 1..n, seq[k] = e PROVE FALSE
    BY <1>1, <1>2, <1>3, <2>2 DEF NoRepeats
  <2> QED BY <2>1, <2>2 DEF IsIn, n
<1>4. ASSUME NoRepeats(seq), ~IsIn(e, seq) PROVE NoRepeats(more)
  <2> SUFFICES ASSUME NEW j \in 1..n + 1, NEW k \in 1..n + 1, more[j] = more[k] PROVE j = k
    BY <1>1 DEF NoRepeats
  <2>1. \A i \in 1..n : seq[i] # e
    BY <1>4 DEF IsIn, n
  <2>2. \A i, m \in 1..n : seq[i] = seq[m] => i = m
    BY <1>4 DEF NoRepeats, n
  <2> QED BY <1>1, <2>1, <2>2
<1> QED BY <1>3, <1>4 DEF more

LEMMA SelectedNoRepeats ==
  ASSUME NEW T, NEW at, NEW seq \in Seq(T), NoRepeats(seq)
  PROVE  NoRepeats(Selected(at, seq))
<1> DEFINE S == {q \in Seq(T) : NoRepeats(q) => NoRepeats(Selected(at, q))}
<1>1. <<>> \in S
  BY SelectedSteps, EmptySeq
<1>2. ASSUME NEW q \in Seq(T), q \in S, NEW e \in T PROVE Append(q, e) \in S
  <2> DEFINE more == Append(q, e)
             was == Selected(at, q)
  <2>1. was \in Seq(T) /\ Selected(at, more) = IF Len(q) + 1 \in at THEN Append(was, e) ELSE was
    BY SelectedSteps
  <2>2. more \in Seq(T) /\ SelectedElements(at, q)
    <3>1. more \in Seq(T)
      OBVIOUS
    <3> QED BY <3>1, SelectedFrom
  <2>3. ASSUME NoRepeats(more) PROVE NoRepeats(Selected(at, more))
    <3>1. NoRepeats(q) /\ ~IsIn(e, q)
      BY <2>3, AppendNoRepeats
    <3>2. NoRepeats(was)
      BY <1>2, <3>1
    <3>3. ~IsIn(e, was)
      <4> HIDE DEF was
      <4>1. \A i \in 1..Len(was) : \E k \in 1..Len(q) : was[i] = q[k]
        BY <2>2 DEF SelectedElements, was
      <4> QED BY <3>1, <4>1 DEF IsIn
    <3> HIDE DEF was
    <3>4. NoRepeats(Append(was, e))
      BY <2>1, <3>2, <3>3, AppendNoRepeats
    <3> HIDE DEF more
    <3> QED BY <2>1, <3>2, <3>4
  <2> QED BY <2>2, <2>3
<1> HIDE DEF S
<1>3. Seq(T) \subseteq S
  BY <1>1, <1>2, SeqInduction
<1> QED BY <1>3 DEF S

\* What is in one of two sequences at most once, and not in the other, is in their
\* concatenation at most once.
LEMMA ConcatOnce ==
  ASSUME NEW T, NEW s \in Seq(T), NEW t \in Seq(T), NEW x
  PROVE  /\ IsIn(x, s \o t) <=> IsIn(x, s) \/ IsIn(x, t)
         /\ AtMostOnce(x, s) /\ AtMostOnce(x, t) /\ ~(IsIn(x, s) /\ IsIn(x, t))
            => AtMostOnce(x, s \o t)
<1> DEFINE m == Len(s)
           n == Len(t)
           both == s \o t
<1>1. /\ m \in Nat /\ n \in Nat /\ Len(both) = m + n
      /\ \A k \in 1..m : both[k] = s[k]
      /\ \A k \in 1..n : both[m + k] = t[k]
  OBVIOUS
<1>2. ASSUME NEW k \in 1..m + n PROVE k \in 1..m \/ (k - m \in 1..n /\ both[k] = t[k - m])
  <2>1. CASE k <= m
    BY <1>1, <2>1
  <2>2. CASE ~(k <= m)
    <3>1. k - m \in 1..n /\ m + (k - m) = k
      BY <1>1, <2>2
    <3> HIDE DEF both, m, n
    <3> QED BY <1>1, <3>1
  <2> QED BY <2>1, <2>2
<1>3. /\ \A k \in 1..m : k \in 1..m + n
      /\ \A k \in 1..n : m + k \in 1..m + n
      /\ \A j, k \in 1..m + n : j - m = k - m => j = k
  BY <1>1
<1> HIDE DEF both, m, n
<1>4. IsIn(x, both) <=> IsIn(x, s) \/ IsIn(x, t)
  <2>1. ASSUME NEW k \in 1..m + n, both[k] = x PROVE IsIn(x, s) \/ IsIn(x, t)
    BY <1>1, <1>2, <2>1 DEF IsIn, m, n
  <2>2. ASSUME NEW k \in 1..m, s[k] = x PROVE IsIn(x, both)
    BY <1>1, <1>3, <2>2 DEF IsIn
  <2>3. ASSUME NEW k \in 1..n, t[k] = x PROVE IsIn(x, both)
    BY <1>1, <1>3, <2>3 DEF IsIn
  <2>4. IsIn(x, both) => \E k \in 1..m + n : both[k] = x
    BY <1>1 DEF IsIn
  <2>5. /\ IsIn(x, s) => \E k \in 1..m : s[k] = x
        /\ IsIn(x, t) => \E k \in 1..n : t[k] = x
    BY DEF IsIn, m, n
  <2> QED BY <2>1, <2>2, <2>3, <2>4, <2>5
<1>5. ASSUME AtMostOnce(x, s), AtMostOnce(x, t), ~(IsIn(x, s) /\ IsIn(x, t))
      PROVE  AtMostOnce(x, both)
  <2> SUFFICES ASSUME NEW j \in 1..m + n, NEW k \in 1..m + n, both[j] = x, both[k] = x PROVE j = k
    BY <1>1 DEF AtMostOnce
  <2>1. \A i, l \in 1..m : s[i] = x /\ s[l] = x => i = l
    BY <1>5 DEF AtMostOnce, m
  <2>2. \A i, l \in 1..n : t[i] = x /\ t[l] = x => i = l
    BY <1>5 DEF AtMostOnce, n
  <2>3. \A i \in 1..m, l \in 1..n : ~(s[i] = x /\ t[l] = x)
    BY <1>5 DEF IsIn, m, n
  <2>4. /\ (j \in 1..m /\ s[j] = x) \/ (j - m \in 1..n /\ t[j - m] = x)
        /\ (k \in 1..m /\ s[k] = x) \/ (k - m \in 1..n /\ t[k - m] = x)
    BY <1>1, <1>2
  <2> QED BY <1>3, <2>1, <2>2, <2>3, <2>4
<1> QED BY <1>4, <1>5 DEF both

\* The same for any number of sequences.
OncePerPart(x, seqs) ==
  /\ \A k \in 1..Len(seqs) : AtMostOnce(x, seqs[k])
  /\ \A j, k \in 1..Len(seqs) : IsIn(x, seqs[j]) /\ IsIn(x, seqs[k]) => j = k

LEMMA FlattenedOnce ==
  ASSUME NEW T, NEW x, NEW seqs \in Seq(Seq(T))
  PROVE  /\ IsIn(x, Flattened(seqs)) <=> \E k \in 1..Len(seqs) : IsIn(x, seqs[k])
         /\ OncePerPart(x, seqs) => AtMostOnce(x, Flattened(seqs))
<1> DEFINE Somewhere(q) == \E k \in 1..Len(q) : IsIn(x, q[k])
           S == {q \in Seq(Seq(T)) : /\ IsIn(x, Flattened(q)) <=> Somewhere(q)
                                     /\ OncePerPart(x, q) => AtMostOnce(x, Flattened(q))}
<1>1. <<>> \in S
  <2>1. <<>> \in Seq(Seq(T)) /\ Len(<<>>) = 0
    BY EmptySeq
  <2>2. Flattened(<<>>) = <<>>
    BY <2>1, FlattenedSteps
  <2>3. \A k : k \notin 1..Len(<<>>)
    BY <2>1
  <2> QED BY <2>1, <2>2, <2>3 DEF IsIn, AtMostOnce
<1>2. ASSUME NEW q \in Seq(Seq(T)), q \in S, NEW e \in Seq(T) PROVE Append(q, e) \in S
  <2> DEFINE more == Append(q, e)
             n == Len(q)
             f == Flattened(q)
  <2>1. /\ more \in Seq(Seq(T)) /\ n \in Nat /\ Len(more) = n + 1 /\ more[n + 1] = e
        /\ \A k \in 1..n : more[k] = q[k] /\ k \in 1..n + 1 /\ k # n + 1
        /\ \A k \in 1..n + 1 : k \in 1..n \/ k = n + 1
    OBVIOUS
  <2>2. n + 1 \in 1..n + 1
    BY <2>1
  <2>3. Flattened(more) = f \o e /\ f \in Seq(T)
    BY FlattenedSteps
  <2> HIDE DEF more, f
  <2>4. IsIn(x, f) <=> \E k \in 1..n : IsIn(x, q[k])
    BY <1>2 DEF f
  <2> HIDE DEF n
  <2>5. IsIn(x, f \o e) <=> IsIn(x, f) \/ IsIn(x, e)
    BY <2>3, ConcatOnce
  <2>6. Somewhere(more) <=> (\E k \in 1..n : IsIn(x, q[k])) \/ IsIn(x, e)
    <3> HIDE DEF IsIn
    <3>1. Somewhere(more) <=> \E k \in 1..n + 1 : IsIn(x, more[k])
      BY <2>1
    <3> HIDE DEF Somewhere
    <3>2. (\E k \in 1..n + 1 : IsIn(x, more[k])) => (\E k \in 1..n : IsIn(x, q[k])) \/ IsIn(x, e)
      BY <2>1
    <3>3. ASSUME NEW k \in 1..n, IsIn(x, q[k]) PROVE \E i \in 1..n + 1 : IsIn(x, more[i])
      <4>1. k \in 1..n + 1 /\ more[k] = q[k]
        BY <2>1
      <4> QED BY <3>3, <4>1
    <3>4. IsIn(x, e) => \E i \in 1..n + 1 : IsIn(x, more[i])
      BY <2>1, <2>2
    <3> QED BY <3>1, <3>2, <3>3, <3>4
  <2>7. ASSUME OncePerPart(x, more) PROVE AtMostOnce(x, f \o e)
    <3>1. /\ \A k \in 1..n + 1 : AtMostOnce(x, more[k])
          /\ \A j, k \in 1..n + 1 : IsIn(x, more[j]) /\ IsIn(x, more[k]) => j = k
      BY <2>1, <2>7 DEF OncePerPart
    <3>2. /\ \A k \in 1..n : AtMostOnce(x, q[k])
          /\ \A j, k \in 1..n : IsIn(x, q[j]) /\ IsIn(x, q[k]) => j = k
      <4> HIDE DEF AtMostOnce, IsIn
      <4>1. \A k \in 1..n : more[k] = q[k] /\ k \in 1..n + 1
        BY <2>1
      <4> QED BY <3>1, <4>1
    <3>3. OncePerPart(x, q)
      BY <3>2 DEF OncePerPart, n
    <3>4. AtMostOnce(x, f)
      BY <1>2, <3>3 DEF f
    <3>5. AtMostOnce(x, e)
      BY <2>1, <2>2, <3>1
    <3>6. ASSUME NEW k \in 1..n, IsIn(x, q[k]), IsIn(x, e) PROVE FALSE
      <4>1. k \in 1..n + 1 /\ more[k] = q[k] /\ more[n + 1] = e /\ k # n + 1
        BY <2>1
      <4> HIDE DEF IsIn
      <4> QED BY <2>2, <3>1, <3>6, <4>1
    <3> QED BY <2>3, <2>4, <3>4, <3>5, <3>6, ConcatOnce
  <2> HIDE DEF Somewhere
  <2> QED BY <2>1, <2>3, <2>4, <2>5, <2>6, <2>7 DEF more
<1> HIDE DEF S
<1>3. Seq(Seq(T)) \subseteq S
  BY <1>1, <1>2, SeqInduction
<1> QED BY <1>3 DEF S
=============================================================================
