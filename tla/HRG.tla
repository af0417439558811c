-------------------------------- MODULE HRG --------------------------------
(***************************************************************************)
(* The heterogeneous relation graph of one utterance:                      *)
(* engine/src/hrg/{item,item_content,relation,utterance}.c.                *)
(*                                                                         *)
(* An utterance maps names to relations.  A relation is an ordered forest  *)
(* of items threaded by next, prev, up and down pointers.  Items of        *)
(* different relations may share one content, which maps the name of each  *)
(* relation it is in back to the item there.  Every operation runs to its  *)
(* end under the relation's or the utterance's mutex, so each is one step. *)
(***************************************************************************)
EXTENDS Integers

CONSTANTS
  Items,      \* identities of SItem objects (a bound on live items)
  Contents,   \* identities of SItmContent objects
  Relations,  \* identities of SRelation objects
  Names,      \* relation names
  Null,
  MaxId,      \* bound: ids an utterance hands out
  ShareOnce,  \* callers never put a content twice into relations of one name
  FreshNames  \* callers create a relation only under a name not in use

ASSUME NullAssumption == Null \notin Items \cup Contents \cup Relations \cup Names
ASSUME MaxIdAssumption == MaxId \in Nat
ASSUME UsageAssumption == ShareOnce \in BOOLEAN /\ FreshNames \in BOOLEAN

VARIABLES
  utt,        \* the utterance exists
  relations,  \* SUtterance.relations
  lastId,     \* the "_id" feature of the utterance
  name, head, tail,                            \* SRelation
  relation, content, next, prev, up, down,     \* SItem
  contents,   \* the SItmContent objects that exist
  entry,      \* SItmContent.relations
  id          \* the "_id" feature of a content, 0 when absent

itemVars == <<relation, content, next, prev, up, down>>
contentVars == <<contents, entry, id>>
vars == <<utt, relations, lastId, name, head, tail, itemVars, contentVars>>

OrNull(S) == S \cup {Null}
NonNull(S) == S \ {Null}

Live == {i \in Items : relation[i] # Null}
LiveRelations == {r \in Relations : name[r] # Null}

TypeOK ==
  /\ utt \in BOOLEAN
  /\ relations \in [Names -> OrNull(Relations)]
  /\ lastId \in Nat
  /\ name \in [Relations -> OrNull(Names)]
  /\ head \in [Relations -> OrNull(Items)]
  /\ tail \in [Relations -> OrNull(Items)]
  /\ relation \in [Items -> OrNull(Relations)]
  /\ content \in [Items -> OrNull(Contents)]
  /\ next \in [Items -> OrNull(Items)]
  /\ prev \in [Items -> OrNull(Items)]
  /\ up \in [Items -> OrNull(Items)]
  /\ down \in [Items -> OrNull(Items)]
  /\ contents \in SUBSET Contents
  /\ entry \in [Contents -> [Names -> OrNull(Items)]]
  /\ id \in [Contents -> Nat]

-----------------------------------------------------------------------------
(* Walks over the graph. E[i] is the set of items a walk goes to from i.   *)

Closed(S, E) == \A i \in S : E[i] \subseteq S

\* what a walk from the items of A meets: the least closed set with A in it
Reach(A, E) ==
  {i \in Items : \A S \in SUBSET Items : A \subseteq S /\ Closed(S, E) => i \in S}

Siblings == [i \in Items |-> NonNull({next[i]})]
Links == [i \in Items |-> NonNull({next[i], down[i]})]

\* Variant: the daughters stay when their parent is deleted.
SubtreeAlone(x) == {x}

\* the items that are deleted with x: DestroyItem deletes all its daughters
Subtree(x) == {x} \cup Reach(NonNull({down[x]}), Links)

\* the items DestroyRelation meets
Tree(r) == Reach(NonNull({head[r]}), Links)

-----------------------------------------------------------------------------
(* Creating items.                                                          *)

\* Variant: a shared content gets a new id.
AssignIdAlways(c) ==
  /\ lastId' = lastId + 1
  /\ id' = [id EXCEPT ![c] = lastId + 1]

\* ids come from the utterance, one per content, and stay
AssignId(c) ==
  \/ /\ id[c] # 0
     /\ UNCHANGED <<id, lastId>>
  \/ /\ id[c] = 0
     /\ lastId' = lastId + 1
     /\ id' = [id EXCEPT ![c] = lastId + 1]

\* SItemIn(toShare, name of r): the content of s is in a relation of that name
In(s, r) == entry[content[s]][name[r]] # Null

\* new item n of relation r, which takes the content of s or a new one
ItemInit(n, r, s) ==
  \E c \in Contents :
    /\ \/ s = Null /\ c \notin contents /\ lastId < MaxId
       \/ s # Null /\ c = content[s] /\ (ShareOnce => ~In(s, r))
    /\ relation' = [relation EXCEPT ![n] = r]
    /\ content' = [content EXCEPT ![n] = c]
    /\ contents' = contents \cup {c}
    /\ entry' = [entry EXCEPT ![c][name[r]] = n]
    /\ AssignId(c)

RelationAppend(r, s, n) ==
  /\ ItemInit(n, r, s)
  /\ head' = IF head[r] = Null THEN [head EXCEPT ![r] = n] ELSE head
  /\ prev' = [prev EXCEPT ![n] = tail[r]]
  /\ next' = IF tail[r] = Null THEN next ELSE [next EXCEPT ![tail[r]] = n]
  /\ tail' = [tail EXCEPT ![r] = n]
  /\ UNCHANGED <<utt, relations, name, up, down>>

RelationPrepend(r, s, n) ==
  /\ ItemInit(n, r, s)
  /\ tail' = IF tail[r] = Null THEN [tail EXCEPT ![r] = n] ELSE tail
  /\ next' = [next EXCEPT ![n] = head[r]]
  /\ prev' = IF head[r] = Null THEN prev ELSE [prev EXCEPT ![head[r]] = n]
  /\ head' = [head EXCEPT ![r] = n]
  /\ UNCHANGED <<utt, relations, name, up, down>>

\* "toShare" item already in relation
Foreign(s, x) == s # Null => relation[s] # relation[x]

\* Variant: the tail of the relation is not moved.
ItemAppendShortTail(x, s, n) ==
  /\ Foreign(s, x)
  /\ ItemInit(n, relation[x], s)
  /\ next' = [next EXCEPT ![x] = n, ![n] = next[x]]
  /\ prev' = IF next[x] = Null THEN [prev EXCEPT ![n] = x]
             ELSE [prev EXCEPT ![n] = x, ![next[x]] = n]
  /\ UNCHANGED <<utt, relations, name, head, tail, up, down>>

ItemAppend(x, s, n) ==
  /\ Foreign(s, x)
  /\ ItemInit(n, relation[x], s)
  /\ next' = [next EXCEPT ![x] = n, ![n] = next[x]]
  /\ prev' = IF next[x] = Null THEN [prev EXCEPT ![n] = x]
             ELSE [prev EXCEPT ![n] = x, ![next[x]] = n]
  /\ tail' = IF tail[relation[x]] = x THEN [tail EXCEPT ![relation[x]] = n] ELSE tail
  /\ UNCHANGED <<utt, relations, name, head, up, down>>

\* Variant: the old first daughter keeps its up pointer.
ItemPrependKeepUp(x, s, n) ==
  /\ Foreign(s, x)
  /\ ItemInit(n, relation[x], s)
  /\ prev' = [prev EXCEPT ![x] = n, ![n] = prev[x]]
  /\ next' = IF prev[x] = Null THEN [next EXCEPT ![n] = x]
             ELSE [next EXCEPT ![n] = x, ![prev[x]] = n]
  /\ up' = [up EXCEPT ![n] = up[x]]
  /\ down' = IF up[x] = Null THEN down ELSE [down EXCEPT ![up[x]] = n]
  /\ head' = IF head[relation[x]] = x THEN [head EXCEPT ![relation[x]] = n] ELSE head
  /\ UNCHANGED <<utt, relations, name, tail>>

\* the first of some daughters hands its up pointer to the item before it
ItemPrepend(x, s, n) ==
  /\ Foreign(s, x)
  /\ ItemInit(n, relation[x], s)
  /\ prev' = [prev EXCEPT ![x] = n, ![n] = prev[x]]
  /\ next' = IF prev[x] = Null THEN [next EXCEPT ![n] = x]
             ELSE [next EXCEPT ![n] = x, ![prev[x]] = n]
  /\ up' = IF up[x] = Null THEN up ELSE [up EXCEPT ![n] = up[x], ![x] = Null]
  /\ down' = IF up[x] = Null THEN down ELSE [down EXCEPT ![up[x]] = n]
  /\ head' = IF head[relation[x]] = x THEN [head EXCEPT ![relation[x]] = n] ELSE head
  /\ UNCHANGED <<utt, relations, name, tail>>

\* ItemLastDaughter: where the walk over the daughters of x ends
LastDaughter(x, d) ==
  d \in Reach(NonNull({down[x]}), Siblings) /\ next[d] = Null

FirstDaughter(x, s, n) ==
  /\ down[x] = Null
  /\ Foreign(s, x)
  /\ ItemInit(n, relation[x], s)
  /\ up' = [up EXCEPT ![n] = x]
  /\ down' = [down EXCEPT ![x] = n]
  /\ UNCHANGED <<utt, relations, name, head, tail, next, prev>>

ItemAddDaughter(x, s, n) ==
  \/ FirstDaughter(x, s, n)
  \/ \E d \in Live : LastDaughter(x, d) /\ ItemAppend(d, s, n)

-----------------------------------------------------------------------------
(* Deleting items, relations and the utterance.                             *)

\* the names the items of D were filed under are removed from their contents
EntryWithout(D) ==
  [c \in Contents |-> [m \in Names |->
     IF \E d \in D : content[d] = c /\ name[relation[d]] = m
     THEN Null ELSE entry[c][m]]]

\* Variant: a content goes with any of its items.
UnreferencedEarly(D) == {content[d] : d \in D}

\* item_unref_content: a content that an item of D leaves with no entry goes
Unreferenced(D) ==
  {c \in Contents : /\ \E d \in D : content[d] = c
                    /\ \A m \in Names : EntryWithout(D)[c][m] = Null}

Without(f, D) == [i \in Items |-> IF i \in D THEN Null ELSE f[i]]

\* the items of D are freed, each after it has let go of its content
FreeItems(D) ==
  /\ relation' = Without(relation, D)
  /\ content' = Without(content, D)
  /\ entry' = EntryWithout(D)
  /\ contents' = contents \ Unreferenced(D)
  /\ id' = [c \in Contents |-> IF c \in Unreferenced(D) THEN 0 ELSE id[c]]

\* pointers once x is unlinked: next, prev, up and down of the items left
NextAfter(x) == [i \in Items |-> IF i = prev[x] THEN next[x] ELSE next[i]]
PrevAfter(x) == [i \in Items |-> IF i = next[x] THEN prev[x] ELSE prev[i]]
UpAfter(x) == [i \in Items |-> IF i = next[x] THEN up[x] ELSE up[i]]
\* Variant: the parent keeps pointing to a deleted first daughter.
DownAfterDangling(x) == down

DownAfter(x) == [i \in Items |-> IF i = up[x] THEN next[x] ELSE down[i]]
HeadAfter(x) == [r \in Relations |->
  IF r = relation[x] /\ head[r] = x THEN next[x] ELSE head[r]]
TailAfter(x) == [r \in Relations |->
  IF r = relation[x] /\ tail[r] = x THEN prev[x] ELSE tail[r]]

\* S_FORCE_DELETE(x)
DestroyItem(x) ==
  /\ FreeItems(Subtree(x))
  /\ next' = Without(NextAfter(x), Subtree(x))
  /\ prev' = Without(PrevAfter(x), Subtree(x))
  /\ up' = Without(UpAfter(x), Subtree(x))
  /\ down' = Without(DownAfter(x), Subtree(x))
  /\ head' = HeadAfter(x)
  /\ tail' = TailAfter(x)
  /\ UNCHANGED <<utt, relations, name, lastId>>

\* S_FORCE_DELETE of the relations in R, with all their items
DestroyRelations(R) ==
  LET D == UNION {Tree(r) : r \in R}
      Gone(f) == [r \in Relations |-> IF r \in R THEN Null ELSE f[r]]
  IN  /\ FreeItems(D)
      /\ next' = Without(next, D)
      /\ prev' = Without(prev, D)
      /\ up' = Without(up, D)
      /\ down' = Without(down, D)
      /\ head' = Gone(head)
      /\ tail' = Gone(tail)
      /\ name' = Gone(name)

UttDeleteRelation(m) ==
  /\ relations[m] # Null
  /\ DestroyRelations({relations[m]})
  /\ relations' = [relations EXCEPT ![m] = Null]
  /\ UNCHANGED <<utt, lastId>>

DestroyUtt ==
  /\ utt
  /\ DestroyRelations(NonNull({relations[m] : m \in Names}))
  /\ relations' = [m \in Names |-> Null]
  /\ utt' = FALSE
  /\ lastId' = 0

-----------------------------------------------------------------------------
InitUtterance ==
  /\ ~utt
  /\ utt' = TRUE
  /\ lastId' = 0
  /\ UNCHANGED <<relations, name, head, tail, itemVars, contentVars>>

\* a relation that already has the name stays, but is out of the map
UttSetRelation(r, m) == relations' = [relations EXCEPT ![m] = r]

UttNewRelation(r, m) ==
  /\ utt
  /\ name[r] = Null
  /\ FreshNames => relations[m] = Null
  /\ name' = [name EXCEPT ![r] = m]
  /\ UttSetRelation(r, m)
  /\ UNCHANGED <<utt, lastId, head, tail, itemVars, contentVars>>

Init ==
  /\ utt = FALSE
  /\ relations = [m \in Names |-> Null]
  /\ lastId = 0
  /\ name = [r \in Relations |-> Null]
  /\ head = [r \in Relations |-> Null]
  /\ tail = [r \in Relations |-> Null]
  /\ relation = [i \in Items |-> Null]
  /\ content = [i \in Items |-> Null]
  /\ next = [i \in Items |-> Null]
  /\ prev = [i \in Items |-> Null]
  /\ up = [i \in Items |-> Null]
  /\ down = [i \in Items |-> Null]
  /\ contents = {}
  /\ entry = [c \in Contents |-> [m \in Names |-> Null]]
  /\ id = [c \in Contents |-> 0]

Create(n, s) ==
  \/ \E r \in LiveRelations : RelationAppend(r, s, n) \/ RelationPrepend(r, s, n)
  \/ \E x \in Live : \/ ItemAppend(x, s, n)
                     \/ ItemPrepend(x, s, n)
                     \/ ItemAddDaughter(x, s, n)

Next ==
  \/ InitUtterance
  \/ DestroyUtt
  \/ \E r \in Relations, m \in Names : UttNewRelation(r, m)
  \/ \E m \in Names : UttDeleteRelation(m)
  \/ utt /\ \E n \in Items \ Live, s \in OrNull(Live) : Create(n, s)
  \/ \E x \in Live : DestroyItem(x)

Spec == Init /\ [][Next]_vars

-----------------------------------------------------------------------------
(* The next and prev pointers of the items of a relation are each other's  *)
(* inverse, and so are the up pointer of a first daughter and the down     *)
(* pointer of its parent; only the head of the relation has neither prev   *)
(* nor up.  A pointer followed by DestroyItem or a traversal never leads   *)
(* to a freed item.                                                        *)
Linked ==
  \A i \in Live :
    /\ next[i] # Null => /\ relation[next[i]] = relation[i]
                         /\ prev[next[i]] = i
    /\ prev[i] # Null => /\ relation[prev[i]] = relation[i]
                         /\ next[prev[i]] = i
                         /\ up[i] = Null
    /\ down[i] # Null => /\ relation[down[i]] = relation[i]
                         /\ up[down[i]] = i
    /\ up[i] # Null => /\ relation[up[i]] = relation[i]
                       /\ down[up[i]] = i
    /\ prev[i] = Null /\ up[i] = Null => head[relation[i]] = i

(* The tail that RelationAppend appends to is the last item of the top     *)
(* level: a walk over next from the head ends there.                       *)
Ends ==
  \A r \in Relations :
    /\ head[r] = Null <=> tail[r] = Null
    /\ head[r] # Null => /\ relation[head[r]] = r /\ relation[tail[r]] = r
                         /\ prev[head[r]] = Null /\ up[head[r]] = Null
                         /\ next[tail[r]] = Null
                         /\ tail[r] \in Reach({head[r]}, Siblings)

(* DestroyRelation, which walks from the head, meets every item of the     *)
(* relation: none is lost, and none outlives its relation.                 *)
Reached == \A i \in Live : name[relation[i]] # Null /\ i \in Tree(relation[i])

(* A content's map holds, under the name of each relation it is in, the    *)
(* one item there, so SItemAs finds it; the content lives exactly as long  *)
(* as some item does (item_unref_content).                                 *)
ContentAgrees ==
  /\ \A i \in Live : /\ content[i] \in contents
                     /\ entry[content[i]][name[relation[i]]] = i
  /\ \A c \in Contents, m \in Names :
       entry[c][m] # Null =>
         /\ entry[c][m] \in Live
         /\ content[entry[c][m]] = c /\ name[relation[entry[c][m]]] = m
  /\ \A c \in contents : \E m \in Names : entry[c][m] # Null

(* Sharing a content or deleting some of its items never changes the id,   *)
(* and a content made meanwhile never gets the id of another one.          *)
IdKept ==
  [][\A c \in contents \cap contents' :
       id'[c] = id[c] /\ \A d \in contents' \ {c} : id'[d] # id[c]]_vars

(* utterance.h: SUtteranceSetRelation deletes "a relation with the same    *)
(* name" that already exists, so every relation is in its utterance's map. *)
SameNameDeleted == \A r \in LiveRelations : relations[name[r]] = r

=============================================================================
