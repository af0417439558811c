---------------------------- MODULE HRGPointers ----------------------------
(***************************************************************************)
(* The loops and recursions of item.c and relation.c, pointer by pointer,  *)
(* against what HRG says they do in one step, and the ordered forest that  *)
(* the pointers of HRG stand for.                                          *)
(***************************************************************************)
EXTENDS HRG, Sequences, FiniteSets

RECURSIVE Chain(_)
Chain(i) == IF i = Null THEN <<>> ELSE <<i>> \o Chain(next[i])

Forest == INSTANCE HRGForest WITH
  named <- name,
  shares <- content,
  kids <- [p \in Relations \cup Items |->
             Chain(IF p \in Relations THEN head[p] ELSE down[p])]

(* Every operation on pointers is an operation on ordered forests.         *)
ForestSpec == Forest!Spec

-----------------------------------------------------------------------------
(* Traversals.                                                              *)

RECURSIVE ItemParent(_)
ItemParent(x) == IF prev[x] = Null THEN up[x] ELSE ItemParent(prev[x])

RECURSIVE NthFrom(_, _)
\* Variant: counts from one.
NthFromOne(i, n) == IF i = Null \/ n <= 1 THEN i ELSE NthFrom(next[i], n - 1)

NthFrom(i, n) == IF i = Null \/ n = 0 THEN i ELSE NthFrom(next[i], n - 1)

ItemNthDaughter(x, n) == NthFrom(down[x], n)

RECURSIVE LastFrom(_)
LastFrom(i) == IF i = Null \/ next[i] = Null THEN i ELSE LastFrom(next[i])

ItemLastDaughter(x) == LastFrom(down[x])

-----------------------------------------------------------------------------
(* DestroyItem and DestroyRelation on a heap of objects.                    *)

Heap ==
  [relation |-> relation, content |-> content, next |-> next, prev |-> prev,
   up |-> up, down |-> down, head |-> head, tail |-> tail, entry |-> entry,
   contents |-> contents]

\* Variant: the next item does not inherit the up pointer.
UnlinkNextLow(h, x) ==
  IF h.next[x] = Null THEN h ELSE [h EXCEPT !.prev[h.next[x]] = h.prev[x]]

UnlinkNext(h, x) ==
  LET n == h.next[x]
  IN  IF n = Null THEN h
      ELSE [h EXCEPT !.prev[n] = h.prev[x], !.up[n] = h.up[x]]

UnlinkPrev(h, x) ==
  IF h.prev[x] = Null THEN h ELSE [h EXCEPT !.next[h.prev[x]] = h.next[x]]

UnlinkUp(h, x) ==
  IF h.up[x] = Null THEN h ELSE [h EXCEPT !.down[h.up[x]] = h.next[x]]

UnlinkEnds(h, x) ==
  LET r == h.relation[x]
  IN  [h EXCEPT !.head[r] = IF @ = x THEN h.next[x] ELSE @,
                !.tail[r] = IF @ = x THEN h.prev[x] ELSE @]

UnrefContent(h, x) ==
  LET c == h.content[x]
      e == [h.entry EXCEPT ![c][name[h.relation[x]]] = Null]
  IN  [h EXCEPT !.entry = e,
                !.contents = IF \A m \in Names : e[c][m] = Null
                             THEN @ \ {c} ELSE @]

Free(h, x) ==
  [h EXCEPT !.relation[x] = Null, !.content[x] = Null, !.next[x] = Null,
            !.prev[x] = Null, !.up[x] = Null, !.down[x] = Null]

RECURSIVE Destroy(_, _), DestroyChain(_, _)
Destroy(h, x) ==
  LET unlinked == UnlinkEnds(UnlinkUp(UnlinkPrev(UnlinkNext(h, x), x), x), x)
      childless == DestroyChain(unlinked, unlinked.down[x])
  IN  Free(UnrefContent(childless, x), x)

\* the next one is read before each is deleted
DestroyChain(h, i) ==
  IF i = Null THEN h ELSE DestroyChain(Destroy(h, i), h.next[i])

-----------------------------------------------------------------------------
(* The recursion through daughters and their daughters, which unlinks and  *)
(* frees item after item, ends in the heap that HRG's DestroyItem states:  *)
(* the subtree gone, the rest of the relation closed up around it.         *)
DestroysSubtree ==
  \A x \in Live :
    LET D == Subtree(x)
    IN  Destroy(Heap, x) =
          [relation |-> Without(relation, D), content |-> Without(content, D),
           next |-> Without(NextAfter(x), D), prev |-> Without(PrevAfter(x), D),
           up |-> Without(UpAfter(x), D), down |-> Without(DownAfter(x), D),
           head |-> HeadAfter(x), tail |-> TailAfter(x),
           entry |-> EntryWithout(D), contents |-> contents \ Unreferenced(D)]

(* DestroyRelation's loop over the top level leaves nothing of the         *)
(* relation behind and everything else as it was.                          *)
DestroysTree ==
  \A r \in LiveRelations :
    LET D == Tree(r)
    IN  DestroyChain(Heap, head[r]) =
          [relation |-> Without(relation, D), content |-> Without(content, D),
           next |-> Without(next, D), prev |-> Without(prev, D),
           up |-> Without(up, D), down |-> Without(down, D),
           head |-> [head EXCEPT ![r] = Null], tail |-> [tail EXCEPT ![r] = Null],
           entry |-> EntryWithout(D), contents |-> contents \ Unreferenced(D)]

(* Both deletions, run on the graph as it is, end where HRG says.          *)
DeletionsAgree == DestroysSubtree /\ DestroysTree

(* SItemParent finds the item one is below, from any of its daughters, and *)
(* SItemNthDaughter the daughter with n before it, Null past the last one. *)
WalksAgree ==
  \A x \in Live :
    LET daughters == Reach(NonNull({down[x]}), Siblings)
        Before(d) == {e \in daughters : d \in Reach({e}, Siblings)}
    IN  /\ \A d \in Live : ItemParent(d) = x <=> d \in daughters
        /\ \A n \in 0 .. Cardinality(Items) :
             IF n < Cardinality(daughters)
             THEN Cardinality(Before(ItemNthDaughter(x, n))) = n + 1
             ELSE ItemNthDaughter(x, n) = Null
        /\ \A d \in Live : LastDaughter(x, d) <=> d = ItemLastDaughter(x)

=============================================================================
