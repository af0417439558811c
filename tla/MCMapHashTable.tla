--------------------------- MODULE MCMapHashTable ---------------------------
(***************************************************************************)
(* MapHashTable for TLC: four keys, three of which meet in tables of two   *)
(* and two in tables of four buckets.                                      *)
(***************************************************************************)
EXTENDS MapHashTable

CONSTANTS k1, k2, k3, k4

Hashes == (k1 :> 0) @@ (k2 :> 4) @@ (k3 :> 2) @@ (k4 :> 3)
Symmetry == Permutations(Objects)
=============================================================================
