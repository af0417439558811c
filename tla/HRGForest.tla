----------------------------- MODULE HRGForest -----------------------------
(***************************************************************************)
(* What a heterogeneous relation graph promises its users                  *)
(* (docs/source/topics/hrg_topic.rst): named relations, each an ordered    *)
(* forest of items; an item is put anywhere among the daughters of an item *)
(* or at the top level of a relation and moves no other; deleting an item  *)
(* deletes all below it and nothing else; an item has one content, which   *)
(* no other item of its relation has.                                      *)
(***************************************************************************)
EXTENDS Sequences, SequencesExt

CONSTANTS Items, Contents, Relations, Names, Null

VARIABLES
  named,   \* named[r]: the name of relation r, Null when there is none
  kids,    \* kids[p]: the daughters of item p, or the top level of relation p
  shares   \* shares[i]: the content of item i, Null when there is no such item

forestVars == <<named, kids, shares>>

Below == [p \in Relations \cup Items |->
  LET below[q \in Relations \cup Items] ==
        UNION {{k} \cup below[k] : k \in ToSet(kids[q])}
  IN  below[p]]

Init ==
  /\ named = [r \in Relations |-> Null]
  /\ kids = [p \in Relations \cup Items |-> <<>>]
  /\ shares = [i \in Items |-> Null]

Open(r, m) ==
  /\ named[r] = Null
  /\ \A q \in Relations : named[q] # m
  /\ named' = [named EXCEPT ![r] = m]
  /\ UNCHANGED <<kids, shares>>

\* item i with content c becomes the k-th below p, a part of relation r
Put(i, c, r, p, k) ==
  /\ named[r] # Null
  /\ p \in {r} \cup Below[r]
  /\ shares[i] = Null
  /\ \A j \in Below[r] : shares[j] # c
  /\ kids' = [kids EXCEPT ![p] = InsertAt(@, k, i)]
  /\ shares' = [shares EXCEPT ![i] = c]
  /\ UNCHANGED named

\* the items of D no longer exist
Vanish(D) ==
  /\ kids' = [p \in Relations \cup Items |->
       IF p \in D THEN <<>>
       ELSE SelectSeq(kids[p], LAMBDA j : j \notin D)]
  /\ shares' = [i \in Items |-> IF i \in D THEN Null ELSE shares[i]]

Cut(i) ==
  /\ shares[i] # Null
  /\ Vanish({i} \cup Below[i])
  /\ UNCHANGED named

Close(R) ==
  /\ Vanish(UNION {Below[r] : r \in R})
  /\ named' = [r \in Relations |-> IF r \in R THEN Null ELSE named[r]]

Next ==
  \/ \E r \in Relations, m \in Names : Open(r, m)
  \/ \E i \in Items, c \in Contents, r \in Relations, p \in Relations \cup Items :
       \E k \in 1 .. Len(kids[p]) + 1 : Put(i, c, r, p, k)
  \/ \E i \in Items : Cut(i)
  \/ \E R \in SUBSET Relations : Close(R)

Spec == Init /\ [][Next]_forestVars

=============================================================================
