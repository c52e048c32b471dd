--------------------------- MODULE MCBlockingRCQ ---------------------------
(* BlockingRCQ for TLC: threads of one kernel are interchangeable.         *)
EXTENDS BlockingRCQ

(* PopRequests: single elements, and a sliding window of two.              *)
PopOne == {<<1, 1>>}
PopAndPeek == {<<1, 1>>, <<2, 1>>}

(* The permutations of S.  (Module TLC, which has them, extends Sequences,  *)
(* whose Head and Tail are this queue's indices.)                           *)
PermutationsOf(S) ==
  { [x \in S |-> f[x]] : f \in { g \in [S -> S] : { g[x] : x \in S } = S } }

Symmetry == PermutationsOf(Pushers) \cup PermutationsOf(Poppers)
=============================================================================
