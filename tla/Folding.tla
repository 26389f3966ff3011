------------------------------- MODULE Folding -------------------------------
(***************************************************************************)
(* Folds over a sequence from the left as recursive functions, which       *)
(* proofs can reason about: one whose step is a function, so that lemmas   *)
(* about it need no operator as a parameter, and the concatenation of a    *)
(* sequence of sequences.                                                  *)
(***************************************************************************)
EXTENDS Integers, Sequences

Folded(step, base, seq) ==
  LET upTo[k \in 0..Len(seq)] == IF k = 0 THEN base ELSE step[upTo[k - 1]][seq[k]]
  IN  upTo[Len(seq)]

Flattened(seqs) ==
  LET upTo[k \in 0..Len(seqs)] == IF k = 0 THEN <<>> ELSE upTo[k - 1] \o seqs[k]
  IN  upTo[Len(seqs)]
=============================================================================
