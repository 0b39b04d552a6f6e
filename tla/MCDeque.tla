------------------------------ MODULE MCDeque ------------------------------
(* Deque on a small instance: with one item in the first chunk, the three  *)
(* indexes on either side span two chunks.                                 *)
EXTENDS Deque, TLC

\* Values are only stored, moved and returned, and no deque is special.
Symmetry == Permutations(Deques) \cup Permutations(Values)
=============================================================================
