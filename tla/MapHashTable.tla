---------------------------- MODULE MapHashTable ----------------------------
(***************************************************************************)
(* SMapHashTable: the map of reference-counted objects on a chained hash   *)
(* table (engine/src/containers/map/map_hash_table.c on                    *)
(* base/containers/hashtable/hash_table.c), with one iterator on it        *)
(* (map_hash_table_iterator.c).                                            *)
(*                                                                         *)
(* A call on the map runs under the mutex of the container and is one      *)
(* step.  A call on the iterator does not take that mutex, and the search  *)
(* for the next nonempty bucket keeps its place in the table itself        *)
(* (apos), where every look-up writes too: SIteratorNext is several steps. *)
(* An element of the table is named by its key.                            *)
(***************************************************************************)
EXTENDS Integers, FiniteSets, SequencesExt

CONSTANTS
  Keys,
  Hash,         \* Hash[k]: the hash value of a key
  Objects,      \* addresses of the objects that are set (a bound)
  InitLogsize,  \* log2 of S_MAP_HASH_TABLE_INIT_SIZE
  MaxLogsize,   \* bound: log2 of the largest table
  Overlap,      \* another thread may look up a key during SIteratorNext
  Null,
  Freed         \* a pointer to an element that is no more

ASSUME HashAssumption == Hash \in [Keys -> Nat]
ASSUME NullAssumption == {Null, Freed} \cap (Keys \cup Objects) = {} /\ Null # Freed
ASSUME SizeAssumption == InitLogsize \in 0 .. MaxLogsize /\ MaxLogsize \in Nat
ASSUME OverlapAssumption == Overlap \in BOOLEAN

VARIABLES
  table,    \* the chain of elements in each bucket
  logsize,  \* log2 of the number of buckets
  count,    \* how many elements the table says it has
  apos,     \* the bucket the table is positioned on
  data,     \* data[k]: the object of the element of k
  alive,    \* addresses that hold an object
  ref,      \* S_OBJECT_REF of the objects
  hand,     \* objects the application owns
  itr,      \* the iterator; a map being destroyed is walked alike
  seen,     \* history: keys the iterator has been at
  due       \* history: keys it has still to come to

hashTable == <<table, logsize, count, apos>>
objects == <<alive, ref, hand>>
iterator == <<itr, seen, due>>
vars == <<hashTable, data, objects, iterator>>

Pointers == Keys \cup {Null, Freed}
Iterator == [at : {"none", "rest", "scan", "read", "destroy"},
             current : Pointers, next : Pointers]
NoIterator == [at |-> "none", current |-> Null, next |-> Null]

Size == 2^logsize
EmptyTable(n) == [b \in 0 .. 2^n - 1 |-> <<>>]

TypeOK ==
  /\ logsize \in 0 .. MaxLogsize
  /\ DOMAIN table = 0 .. Size - 1 /\ \A b \in DOMAIN table : table[b] \in Seq(Keys)
  /\ count \in Nat /\ apos \in 0 .. Size - 1
  /\ data \in [Keys -> Objects \cup {Null}]
  /\ hand \subseteq alive /\ alive \subseteq Objects /\ ref \in [Objects -> Nat]
  /\ itr \in Iterator /\ seen \subseteq Keys /\ due \subseteq Keys

Init ==
  /\ table = EmptyTable(InitLogsize)
  /\ logsize = InitLogsize /\ count = 0 /\ apos = 0
  /\ data = [k \in Keys |-> Null]
  /\ alive = {} /\ ref = [o \in Objects |-> 0] /\ hand = {}
  /\ itr = NoIterator /\ seen = {} /\ due = {}

(***************************************************************************)
(* The hash table.                                                         *)
(***************************************************************************)
Bucket(k) == Hash[k] % Size
Found(k) == k \in ToSet(table[Bucket(k)])
Elements == UNION {ToSet(table[b]) : b \in DOMAIN table}

\* _s_hash_table_n_bucket from bucket b: the next bucket that is not empty,
\* and whether it was found without wrapping around.
NextBucket(b) ==
  LET nonempty == {i \in DOMAIN table : table[i] # <<>>}
      later == {i \in nonempty : i > b}
      wrapped == {i \in nonempty : i <= b}
  IN  CASE later # {} -> [pos |-> Min(later), ahead |-> TRUE]
        [] later = {} /\ wrapped # {} -> [pos |-> Min(wrapped), ahead |-> FALSE]
        [] OTHER -> [pos |-> b, ahead |-> FALSE]

HeadOf(b) == IF table[b] = <<>> THEN Null ELSE Head(table[b])

First == HeadOf(NextBucket(Size - 1).pos)
FirstPos == NextBucket(Size - 1).pos

\* Where k is in its chain.
Place(k) == CHOOSE i \in DOMAIN table[Bucket(k)] : table[Bucket(k)][i] = k

\* The successor of k in its chain, Null at the end of the chain.
Successor(k) ==
  IF Place(k) < Len(table[Bucket(k)]) THEN table[Bucket(k)][Place(k) + 1] ELSE Null

\* s_hash_element_next when nothing else runs: the element after k, and the
\* bucket the table is left at.
After(k) ==
  LET search == NextBucket(Bucket(k))
  IN  IF Successor(k) # Null THEN [element |-> Successor(k), pos |-> Bucket(k)]
      ELSE [element |-> IF search.ahead THEN HeadOf(search.pos) ELSE Null,
            pos |-> search.pos]

\* The elements as a resize comes to them: the buckets from the last to the first.
Order == FlattenSeq([i \in 1 .. Size |-> table[Size - i]])

\* The table after _s_hash_table_resize to 2^n buckets: each element in turn
\* becomes the head of its new bucket.
Rehashed(n) ==
  LET order == Order
      moved[i \in 0 .. Len(order)] ==
        IF i = 0 THEN EmptyTable(n)
        ELSE [moved[i - 1] EXCEPT ![Hash[order[i]] % 2^n] = <<order[i]>> \o @]
  IN  moved[Len(order)]

\* s_hash_table_add of a key that is not there.
Push(k) ==
  LET n == IF count + 1 > Size THEN logsize + 1 ELSE logsize
      b == Hash[k] % 2^n
      room == IF n = logsize THEN table ELSE Rehashed(n)
  IN  /\ n <= MaxLogsize
      /\ count' = count + 1
      /\ logsize' = n
      /\ table' = [room EXCEPT ![b] = <<k>> \o @]
      /\ apos' = b

\* s_hash_element_unlink and s_hash_element_delete, but for the object.
Cut(k) ==
  /\ table' = [table EXCEPT ![Bucket(k)] = RemoveAt(@, Place(k))]
  /\ count' = count - 1
  /\ apos' = Bucket(k)
  /\ data' = [data EXCEPT ![k] = Null]
  /\ UNCHANGED logsize

\* Resizing visits the first element at the end.
Rebuild(n) ==
  /\ n <= MaxLogsize
  /\ table' = Rehashed(n)
  /\ logsize' = n
  /\ apos' = LET nonempty == {b \in 0 .. 2^n - 1 : table'[b] # <<>>}
             IN  IF nonempty = {} THEN 2^n - 1 ELSE Min(nonempty)
  /\ UNCHANGED count

(***************************************************************************)
(* The objects: SObjectIncRef, SObjectDecRef and S_DELETE, as functions of *)
(* the reference counts r and the live objects l.                          *)
(***************************************************************************)
Dec(r, o) == [r EXCEPT ![o] = IF @ = 0 THEN 0 ELSE @ - 1]
Inc(r, o) == [r EXCEPT ![o] = @ + 1]
Survivors(l, o) == IF Dec(ref, o)[o] = 0 THEN l \ {o} ELSE l

(***************************************************************************)
(* What the application may ask.  It calls nothing that writes while an    *)
(* iterator looks for its next element; between two steps of the iterator  *)
(* it neither rebuilds the table nor removes the element that comes next.  *)
(***************************************************************************)
Calm == itr.at \in {"none", "rest"}
Walking == itr.at = "rest"
Removable(k) == Found(k) /\ Calm /\ itr.next # k

\* The iterator when k is removed behind its back.
Passed(k) == IF itr.current = k THEN [itr EXCEPT !.current = Freed] ELSE itr

New(o) ==
  /\ Calm /\ o \notin alive
  /\ alive' = alive \cup {o}
  /\ hand' = hand \cup {o}
  /\ ref' = [ref EXCEPT ![o] = 0]
  /\ UNCHANGED <<hashTable, data, iterator>>

Drop(o) ==
  /\ Calm /\ o \in hand
  /\ ref' = Dec(ref, o)
  /\ alive' = Survivors(alive, o)
  /\ hand' = hand \ {o}
  /\ UNCHANGED <<hashTable, data, iterator>>

Find(k) ==
  /\ Calm \/ (Overlap /\ itr.at \in {"scan", "read"})
  /\ Found(k)
  /\ apos' = Bucket(k)
  /\ UNCHANGED <<table, logsize, count, data, objects, iterator>>

(***************************************************************************)
(* MapHashTableValSet.  The object is the application's, or one it got     *)
(* from this map; setting the object the key already has would destroy it  *)
(* first, see the README.                                                  *)
(***************************************************************************)
ValSetNew(k, o) ==
  /\ Calm /\ ~Found(k)
  /\ o \in hand \cup {data[j] : j \in Elements}
  /\ Walking => count < Size
  /\ Push(k)
  /\ data' = [data EXCEPT ![k] = o]
  /\ ref' = Inc(ref, o)
  /\ hand' = hand \ {o}
  /\ UNCHANGED <<alive, iterator>>

\* Variant: the old object is replaced, not deleted.
ValSetOldKept(k, o) ==
  /\ Calm /\ Found(k)
  /\ o \in (hand \cup {data[j] : j \in Elements}) \ {data[k]}
  /\ ref' = Inc(Dec(ref, data[k]), o)
  /\ UNCHANGED alive
  /\ data' = [data EXCEPT ![k] = o]
  /\ hand' = hand \ {o}
  /\ apos' = Bucket(k)
  /\ UNCHANGED <<table, logsize, count, iterator>>

ValSetOld(k, o) ==
  /\ Calm /\ Found(k)
  /\ o \in (hand \cup {data[j] : j \in Elements}) \ {data[k]}
  /\ ref' = Inc(Dec(ref, data[k]), o)
  /\ alive' = Survivors(alive, data[k])
  /\ data' = [data EXCEPT ![k] = o]
  /\ hand' = hand \ {o}
  /\ apos' = Bucket(k)
  /\ UNCHANGED <<table, logsize, count, iterator>>

ValDelete(k) ==
  /\ Removable(k)
  /\ Cut(k)
  /\ ref' = Dec(ref, data[k])
  /\ alive' = Survivors(alive, data[k])
  /\ itr' = Passed(k) /\ due' = due \ {k}
  /\ UNCHANGED <<hand, seen>>

\* Variant: the reference of the map is kept.
ReleaseCounted(k) ==
  /\ ref' = ref
  /\ hand' = IF ref[data[k]] = 0 THEN hand \cup {data[k]} ELSE hand
  /\ UNCHANGED alive

\* The map gives up its reference to the object it returns.
Release(k) ==
  /\ ref' = Dec(ref, data[k])
  /\ hand' = IF Dec(ref, data[k])[data[k]] = 0 THEN hand \cup {data[k]} ELSE hand
  /\ UNCHANGED alive

ValUnlink(k) ==
  /\ Removable(k)
  /\ Cut(k)
  /\ Release(k)
  /\ itr' = Passed(k) /\ due' = due \ {k}
  /\ UNCHANGED seen

(***************************************************************************)
(* Resizing, SMapHashTableResize.  A call that the code refuses (size 0,   *)
(* the present size, a table too small) changes nothing and is no step.    *)
(***************************************************************************)
Resize(n) ==
  /\ itr.at = "none"
  /\ n \notin {0, logsize}
  /\ IF count = 0
       THEN /\ table' = EmptyTable(n)
            /\ logsize' = n /\ apos' = 0 /\ UNCHANGED count
       ELSE 2^n >= count /\ Rebuild(n)
  /\ UNCHANGED <<data, objects, iterator>>

LogOf(n) == Min({i \in 0 .. n : 2^i >= n})

\* Size -1: the smallest table that holds the elements.  For one element its
\* log2 is 0, which _s_hash_table_resize takes as "one size larger"; for none
\* the code shifts by -1, see the README.
ResizeToFit ==
  /\ itr.at = "none"
  /\ count > 0
  /\ Rebuild(IF LogOf(count) = 0 THEN logsize + 1 ELSE LogOf(count))
  /\ UNCHANGED <<data, objects, iterator>>

(***************************************************************************)
(* The iterator: S_ITERATOR_GET, SIteratorNext, SIteratorUnlink.           *)
(***************************************************************************)
IteratorGet ==
  /\ itr.at = "none" /\ count > 0
  /\ itr' = [at |-> "rest", current |-> First, next |-> After(First).element]
  /\ apos' = After(First).pos
  /\ seen' = {First} /\ due' = Elements \ {First}
  /\ UNCHANGED <<table, logsize, count, data, objects>>

\* The iterator is deleted, by SIteratorNext at the end or by its owner.
IteratorDelete ==
  /\ itr.at = "rest"
  /\ itr' = NoIterator /\ seen' = {} /\ due' = {}
  /\ UNCHANGED <<hashTable, data, objects>>

\* SIteratorNext up to the search for another bucket.
IteratorNext ==
  LET k == itr.next
  IN  /\ itr.at = "rest" /\ k \in Keys
      /\ apos' = Bucket(k)
      /\ itr' = [at |-> IF Successor(k) = Null THEN "scan" ELSE "rest",
                 current |-> k, next |-> Successor(k)]
      /\ seen' = seen \cup {k} /\ due' = due \ {k}
      /\ UNCHANGED <<table, logsize, count, data, objects>>

\* Variant: a search that wraps around goes on with the bucket it found.
ScanWrapping ==
  /\ itr.at = "scan"
  /\ apos' = NextBucket(apos).pos
  /\ itr' = [itr EXCEPT !.at = "read"]
  /\ UNCHANGED <<table, logsize, count, data, objects, seen, due>>

Scan ==
  /\ itr.at = "scan"
  /\ apos' = NextBucket(apos).pos
  /\ itr' = [itr EXCEPT !.at = IF NextBucket(apos).ahead THEN "read" ELSE "rest"]
  /\ UNCHANGED <<table, logsize, count, data, objects, seen, due>>

Read ==
  /\ itr.at = "read"
  /\ itr' = [itr EXCEPT !.at = "rest", !.next = HeadOf(apos)]
  /\ UNCHANGED <<hashTable, data, objects, seen, due>>

IteratorUnlink ==
  /\ itr.at = "rest" /\ itr.current \in Keys
  /\ Cut(itr.current)
  /\ Release(itr.current)
  /\ itr' = [itr EXCEPT !.current = Null]
  /\ UNCHANGED <<seen, due>>

(***************************************************************************)
(* Destroying the map walks its table, taking the next element before it   *)
(* deletes one.  The application makes a new map.                          *)
(***************************************************************************)
Destroy ==
  /\ itr.at = "none"
  /\ itr' = [NoIterator EXCEPT !.at = "destroy", !.next = First]
  /\ apos' = FirstPos
  /\ UNCHANGED <<table, logsize, count, data, objects, seen, due>>

DestroyElement ==
  LET k == itr.next
  IN  /\ itr.at = "destroy" /\ k # Null
      /\ itr' = [itr EXCEPT !.next = After(k).element]
      /\ Cut(k)
      /\ ref' = Dec(ref, data[k])
      /\ alive' = Survivors(alive, data[k])
      /\ UNCHANGED <<hand, seen, due>>

Destroyed ==
  /\ itr.at = "destroy" /\ itr.next = Null
  /\ table' = EmptyTable(InitLogsize)
  /\ logsize' = InitLogsize /\ count' = 0 /\ apos' = 0
  /\ data' = [k \in Keys |-> Null]
  /\ itr' = NoIterator
  /\ UNCHANGED <<objects, seen, due>>

Next ==
  \/ \E o \in Objects : New(o) \/ Drop(o)
  \/ \E k \in Keys : Find(k) \/ ValDelete(k) \/ ValUnlink(k)
  \/ \E k \in Keys, o \in Objects : ValSetNew(k, o) \/ ValSetOld(k, o)
  \/ \E n \in 0 .. MaxLogsize : Resize(n)
  \/ ResizeToFit
  \/ IteratorGet \/ IteratorDelete \/ IteratorNext \/ Scan \/ Read \/ IteratorUnlink
  \/ Destroy \/ DestroyElement \/ Destroyed

Spec == Init /\ [][Next]_vars

(***************************************************************************)
(* Properties.                                                             *)
(***************************************************************************)

\* Every element is where a look-up of its key searches, once, however often
\* the table was grown, shrunk and cut; the table knows how many elements it
\* has and never has more of them than buckets (hash_table.c).
Placed ==
  /\ \A b \in DOMAIN table : \A i \in DOMAIN table[b] :
       /\ Bucket(table[b][i]) = b
       /\ \A j \in DOMAIN table[b] : table[b][i] = table[b][j] => i = j
  /\ count = Cardinality(Elements) /\ count <= Size

\* The references to an object are the elements that have it, and an object
\* some element has is not destroyed (ValSet, ValDelete, ValUnlink, and the
\* walk that destroys a map).
RefExact ==
  /\ \A o \in alive : ref[o] = Cardinality({k \in Elements : data[k] = o})
  /\ \A k \in Elements : data[k] \in alive

\* An iterator comes to every key that was there when it started and was not
\* removed before its turn, and to none twice, and the element it has looked up
\* in advance is still there (map_hash_table_iterator.c, SIteratorNext).
WalkExact ==
  itr.at = "rest" =>
    /\ itr.next \in (Elements \ seen) \cup {Null}
    /\ itr.next = Null => due = {}

\* Seen through look-ups, the table is a map: rebuilding it never shows.
Service == INSTANCE MapService WITH
  dict <- [k \in Keys |-> IF Found(k) THEN data[k] ELSE Null]

MapSpec == Service!Spec

=============================================================================
