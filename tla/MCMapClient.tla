---------------------------- MODULE MCMapClient ----------------------------
(* MapClient on an instance like MCHashTable's, with four keys so that the *)
(* four-slot table grows while it holds colliding elements.                *)
EXTENDS MapClient, TLC

CONSTANTS a, b, c, d

MCKeys == {a, b, c, d}
MCHash == (a :> 7) @@ (b :> 7) @@ (c :> 0) @@ (d :> 3)
=============================================================================
