------------------------------ MODULE Selection ------------------------------
(***************************************************************************)
(* SelectSeq by positions: the elements of a sequence at the positions in  *)
(* a set, in order, as a recursive function that proofs can reason about.  *)
(***************************************************************************)
EXTENDS Integers, Sequences

Selected(at, seq) ==
  LET upTo[k \in 0..Len(seq)] ==
        IF k = 0 THEN <<>>
        ELSE IF k \in at THEN Append(upTo[k - 1], seq[k]) ELSE upTo[k - 1]
  IN  upTo[Len(seq)]
=============================================================================
