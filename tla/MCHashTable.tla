---------------------------- MODULE MCHashTable ----------------------------
(***************************************************************************)
(* HashTable on a small instance: three keys that compete for two ideal    *)
(* slots of a four-slot table, one of them the last slot, so that probe    *)
(* sequences wrap around; in the eight-slot table they still collide.      *)
(***************************************************************************)
EXTENDS HashTable, TLC

CONSTANTS a, b, c

MCKeys == {a, b, c}
MCHash == (a :> 7) @@ (b :> 7) @@ (c :> 0)

\* The colliding pair starts at the first slot.
MCHashLow == (a :> 0) @@ (b :> 0) @@ (c :> 2)

\* Values are only stored, moved and returned.
ValueSymmetry == Permutations(Values)
=============================================================================
