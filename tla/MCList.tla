-------------------------------- MODULE MCList --------------------------------
(***************************************************************************)
(* List for TLC: two lists.                                                *)
(***************************************************************************)
EXTENDS List, TLC

CONSTANTS l1, l2

OneWay == {<<l1, l2>>}
Symmetry == Permutations(Cells) \cup Permutations(Objects)
=============================================================================
