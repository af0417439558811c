---------------------------- MODULE MCVoiceData ----------------------------
(***************************************************************************)
(* VoiceData for TLC: two voices that share a data file, one of which      *)
(* names it under two keys.                                                *)
(***************************************************************************)
EXTENDS VoiceData, TLC

CONSTANTS v1, v2, k1, k2, p1, p2

SharedConfig == (v1 :> (k1 :> p1 @@ k2 :> p2)) @@ (v2 :> (k1 :> p1 @@ k2 :> p1))
\* The data the second voice starts with is all the first one's.
OneFileConfig == (v1 :> (k1 :> p1 @@ k2 :> Null)) @@ (v2 :> (k1 :> p1 @@ k2 :> Null))

Symmetry == Permutations(Objects) \cup Permutations(Threads)
=============================================================================
