------------------------------- MODULE MCHRG -------------------------------
(* HRG for TLC: the identities are interchangeable, the names are not       *)
(* used for anything but to tell relations apart.                           *)
EXTENDS HRGPointers, TLC

Symmetry ==
  Permutations(Items) \cup Permutations(Contents) \cup
  Permutations(Relations) \cup Permutations(Names)

=============================================================================
