----------------------------- MODULE ListService -----------------------------
(***************************************************************************)
(* What a list promises (engine/src/containers/list/list.h): it is a       *)
(* sequence of objects, into which a call puts an object, from which it    *)
(* takes one, or which it turns round.                                     *)
(***************************************************************************)
EXTENDS SequencesExt

CONSTANTS Lists, Objects

VARIABLE seq   \* seq[l]: the objects of list l, in order

Init == seq = [l \in Lists |-> <<>>]

\* Append, prepend, insert before and after, and each object of a merge.
Insert(l, i, o) == seq' = [seq EXCEPT ![l] = InsertAt(@, i, o)]

\* Pop, unlink, and each object of a list that is destroyed.
Take(l, i) == seq' = [seq EXCEPT ![l] = RemoveAt(@, i)]

Turn(l) == seq' = [seq EXCEPT ![l] = Reverse(@)]

Next ==
  \E l \in Lists :
    \/ \E o \in Objects, i \in 1 .. Len(seq[l]) + 1 : Insert(l, i, o)
    \/ \E i \in 1 .. Len(seq[l]) : Take(l, i)
    \/ Turn(l)

Spec == Init /\ [][Next]_seq

=============================================================================
