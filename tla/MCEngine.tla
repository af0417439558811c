------------------------------- MODULE MCEngine -------------------------------
(***************************************************************************)
(* Engine for TLC: one class of the engine, and two plug-ins, the second   *)
(* of which derives its class from the first.                              *)
(***************************************************************************)
EXTENDS Engine, TLC

CONSTANTS map, base, derived

MCParent == (base :> None) @@ (derived :> base)
MCDepth == (map :> 2) @@ (base :> 2) @@ (derived :> 3)
Symmetry == Permutations(Threads) \cup Permutations(Objects)
=============================================================================
