----------------------------- MODULE MapService -----------------------------
(***************************************************************************)
(* What a map of objects promises (engine/src/containers/map/map.h): a key *)
(* has the object last set under it until it is deleted or unlinked, the   *)
(* size of the table beneath never shows, and an object lives exactly as   *)
(* long as a key has it or it is in the hands of the application.          *)
(***************************************************************************)
CONSTANTS Keys, Objects, Null

VARIABLES
  dict,   \* dict[k]: what a look-up of k finds
  hand,   \* objects that belong to the application
  alive   \* objects that have not been destroyed

serviceVars == <<dict, hand, alive>>

Values(d) == {d[k] : k \in Keys} \ {Null}

Init ==
  /\ dict = [k \in Keys |-> Null]
  /\ hand = {} /\ alive = {}

Make(o) ==
  /\ o \notin alive
  /\ hand' = hand \cup {o}
  /\ UNCHANGED dict

Drop(o) ==
  /\ o \in hand
  /\ hand' = hand \ {o}
  /\ UNCHANGED dict

Put(k, o) ==
  /\ o \in alive
  /\ dict' = [dict EXCEPT ![k] = o]
  /\ hand' = hand \ {o}

Delete(k) ==
  /\ dict' = [dict EXCEPT ![k] = Null]
  /\ UNCHANGED hand

\* the last key that has an object hands it over
Take(k) ==
  /\ dict[k] # Null
  /\ dict' = [dict EXCEPT ![k] = Null]
  /\ hand' = hand \cup ({dict[k]} \ Values(dict'))

Next ==
  /\ \/ \E o \in Objects : Make(o) \/ Drop(o)
     \/ \E k \in Keys, o \in Objects : Put(k, o)
     \/ \E k \in Keys : Delete(k) \/ Take(k)
  /\ alive' = hand' \cup Values(dict')

Spec == Init /\ [][Next]_serviceVars

=============================================================================
