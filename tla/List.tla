--------------------------------- MODULE List ---------------------------------
(***************************************************************************)
(* SListList: doubly linked lists of reference-counted objects             *)
(* (engine/src/base/containers/list/list.c and containers/list), with the  *)
(* mutex of each container and one iterator.                               *)
(*                                                                         *)
(* A call on one list runs under its mutex and is one step.  Merging and   *)
(* copying take the mutex of the list that grows and then the other one,   *)
(* and add one object at a time.  SListNth takes the mutex and then asks   *)
(* for the size of the list, which takes it too.  An iterator takes none.  *)
(*                                                                         *)
(* Deleting an object is two steps: its count is lowered under             *)
(* object_mutex, and then looked at without a mutex.  Orderly says that    *)
(* applications take no object out of a list between the two steps of      *)
(* another thread on that object.                                          *)
(*                                                                         *)
(* In a build without threads there is one thread, and a mutex is nothing. *)
(***************************************************************************)
EXTENDS Integers, FiniteSets, Sequences

CONSTANTS
  Lists,
  Cells,      \* addresses of list elements (a bound)
  Objects,    \* addresses of the objects (a bound)
  Threads,
  Main,       \* the thread of a build without threads
  Builds,     \* the values SPCT_USE_THREADS may have
  Merges,     \* pairs <<self, with>> that are merged or copied
  NthThreaded,\* SListNth is called in builds with threads
  Orderly,    \* nobody takes an object out that another thread is deleting
  Null

ASSUME NullAssumption == Null \notin Cells \cup Objects \cup Threads \cup Lists
ASSUME BuildAssumption == Builds \subseteq BOOLEAN /\ Main \in Threads
ASSUME CellsAssumption == IsFiniteSet(Cells)
ASSUME CallAssumption ==
  Merges \subseteq Lists \X Lists /\ {NthThreaded, Orderly} \subseteq BOOLEAN

VARIABLES
  first, last, size,       \* of each s_list
  next, prev, data, home,  \* of each s_list_element; home is its list
  alive, ref, hand,        \* objects, S_OBJECT_REF, the application's objects
  deleting,                \* the object whose count a thread has lowered and will look at
  threads,                 \* this build uses threads
  lock,                    \* the thread that holds the mutex of each list
  pc,                      \* the call each thread is in
  itr,                     \* the iterator, of the thread itr.owner
  due,                     \* history: elements the iterator has to come to
  late,                    \* history: those of them appended after it found no next one
  whole                    \* history: what the list of a merge should become

chains == <<first, last, size, next, prev, data, home>>
objects == <<alive, ref, hand, deleting>>
calls == <<lock, pc, whole>>
walk == <<itr, due, late>>
vars == <<chains, objects, calls, walk, threads>>

Idle == [op |-> "idle", self |-> Null, with |-> Null, at |-> Null]
NoIterator == [owner |-> Null, list |-> Null, current |-> Null, next |-> Null]

Links == Cells \cup {Null}

TypeOK ==
  /\ first \in [Lists -> Links] /\ last \in [Lists -> Links] /\ size \in [Lists -> Nat]
  /\ next \in [Cells -> Links] /\ prev \in [Cells -> Links]
  /\ data \in [Cells -> Objects \cup {Null}] /\ home \in [Cells -> Lists \cup {Null}]
  /\ hand \subseteq Objects /\ alive \subseteq Objects /\ ref \in [Objects -> Nat]
  /\ deleting \in [Threads -> Objects \cup {Null}]
  /\ threads \in BOOLEAN /\ lock \in [Lists -> Threads \cup {Null}]
  /\ pc \in [Threads -> [op : {"idle", "lock", "add", "nth", "destroy"},
                         self : Lists \cup {Null}, with : Lists \cup {Null},
                         at : Links]]
  /\ itr \in [owner : Threads \cup {Null}, list : Lists \cup {Null},
              current : Links, next : Links]
  /\ due \subseteq Cells /\ late \subseteq Cells
  /\ DOMAIN whole = Threads /\ \A t \in Threads : whole[t] \in Seq(Objects)

Init ==
  /\ first = [l \in Lists |-> Null] /\ last = [l \in Lists |-> Null]
  /\ size = [l \in Lists |-> 0]
  /\ next = [c \in Cells |-> Null] /\ prev = [c \in Cells |-> Null]
  /\ data = [c \in Cells |-> Null] /\ home = [c \in Cells |-> Null]
  /\ alive = {} /\ ref = [o \in Objects |-> 0] /\ hand = {}
  /\ deleting = [t \in Threads |-> Null]
  /\ threads \in Builds
  /\ lock = [l \in Lists |-> Null] /\ pc = [t \in Threads |-> Idle]
  /\ itr = NoIterator /\ due = {} /\ late = {}
  /\ whole = [t \in Threads |-> <<>>]

\* The elements of a list from the first, along next.
Chain(l) ==
  LET cell[i \in 1 .. size[l]] ==
        IF i = 1 THEN first[l]
        ELSE IF cell[i - 1] = Null THEN Null ELSE next[cell[i - 1]]
  IN  [i \in 1 .. size[l] |-> cell[i]]

Content(l) ==
  LET chain == Chain(l)
  IN  [i \in 1 .. size[l] |-> IF chain[i] = Null THEN Null ELSE data[chain[i]]]

(***************************************************************************)
(* The elements: s_list_insert_before, s_list_insert_after, and taking one *)
(* out.  Prepending and appending insert at an end, or into an empty list. *)
(***************************************************************************)
Unused(c) == home[c] = Null

\* A new element c with object o, between p and n in list l.
Link(c, o, l, p, n) ==
  /\ home' = [home EXCEPT ![c] = l] /\ data' = [data EXCEPT ![c] = o]
  /\ next' = [d \in Cells |-> CASE d = c -> n [] d = p /\ d # c -> c [] OTHER -> next[d]]
  /\ prev' = [d \in Cells |-> CASE d = c -> p [] d = n /\ d # c -> c [] OTHER -> prev[d]]
  /\ first' = IF p = Null THEN [first EXCEPT ![l] = c] ELSE first
  /\ last' = IF n = Null THEN [last EXCEPT ![l] = c] ELSE last
  /\ size' = [size EXCEPT ![l] = @ + 1]

\* s_list_element_unlink and s_list_element_delete
Cut(c) ==
  LET l == home[c]
  IN  /\ first' = IF prev[c] = Null THEN [first EXCEPT ![l] = next[c]] ELSE first
      /\ last' = IF next[c] = Null THEN [last EXCEPT ![l] = prev[c]] ELSE last
      /\ next' = [d \in Cells |-> CASE d = c -> Null
                                    [] d = prev[c] /\ d # c -> next[c]
                                    [] OTHER -> next[d]]
      /\ prev' = [d \in Cells |-> CASE d = c -> Null
                                    [] d = next[c] /\ d # c -> prev[c]
                                    [] OTHER -> prev[d]]
      /\ size' = [size EXCEPT ![l] = @ - 1]
      /\ home' = [home EXCEPT ![c] = Null] /\ data' = [data EXCEPT ![c] = Null]

(***************************************************************************)
(* Objects, as in module MapHashTable.                                     *)
(***************************************************************************)
Dec(o) == [ref EXCEPT ![o] = IF @ = 0 THEN 0 ELSE @ - 1]
Held == hand \cup {data[c] : c \in {d \in Cells : ~Unused(d)}}

\* The object o goes into a list.
Keep(o) ==
  /\ o \in Held
  /\ ref' = [ref EXCEPT ![o] = @ + 1] /\ hand' = hand \ {o}
  /\ UNCHANGED <<alive, deleting>>

Alone(o) == Orderly => \A t \in Threads : deleting[t] # o

\* Variant: the reference of the list is kept.
ReleaseNot(o) ==
  /\ Alone(o)
  /\ hand' = IF ref[o] = 0 THEN hand \cup {o} ELSE hand
  /\ UNCHANGED <<ref, alive, deleting>>

\* The list gives its reference up and the caller gets the object.
Release(o) ==
  /\ Alone(o)
  /\ ref' = Dec(o)
  /\ hand' = IF Dec(o)[o] = 0 THEN hand \cup {o} ELSE hand
  /\ UNCHANGED <<alive, deleting>>

\* S_DELETE counts down first.
Delete(t, o) ==
  /\ ref' = Dec(o) /\ deleting' = [deleting EXCEPT ![t] = o]
  /\ UNCHANGED alive

\* Then it looks at the count, whoever may have changed it meanwhile.
Test(t) ==
  LET o == deleting[t]
  IN  /\ o # Null
      /\ alive' = IF ref[o] = 0 THEN alive \ {o} ELSE alive
      /\ deleting' = [deleting EXCEPT ![t] = Null]
      /\ UNCHANGED <<ref, hand, chains, calls, walk, threads>>

Caller(t) == pc[t].op = "idle" /\ deleting[t] = Null /\ (threads \/ t = Main)

New(t, o) ==
  /\ Caller(t) /\ o \notin alive
  /\ alive' = alive \cup {o} /\ hand' = hand \cup {o}
  /\ ref' = [ref EXCEPT ![o] = 0]
  /\ UNCHANGED <<deleting, chains, calls, walk, threads>>

Drop(t, o) ==
  /\ Caller(t) /\ o \in hand
  /\ Delete(t, o) /\ hand' = hand \ {o}
  /\ UNCHANGED <<chains, calls, walk, threads>>

(***************************************************************************)
(* Calls on one list.  Whoever walks a list is the only one to change it.  *)
(***************************************************************************)
Open(l) == lock[l] = Null
Walked(l) == itr.list = l
Gone(l) == \E t \in Threads : pc[t].op = "destroy" /\ pc[t].self = l
May(t, l) == Caller(t) /\ Open(l) /\ ~Gone(l) /\ (Walked(l) => itr.owner = t)

\* SListAppend and SListPush.  An iterator at the last element has already
\* looked up that nothing follows, and does not come to what is appended then.
AppendTo(t, l, o, c) ==
  /\ May(t, l) /\ Unused(c)
  /\ Link(c, o, l, last[l], Null)
  /\ Keep(o)
  /\ due' = IF Walked(l) THEN due \cup {c} ELSE due
  /\ late' = IF Walked(l) /\ itr.next = Null THEN late \cup {c} ELSE late
  /\ UNCHANGED <<calls, itr, threads>>

Prepend(t, l, o, c) ==
  /\ May(t, l) /\ Unused(c)
  /\ Link(c, o, l, Null, first[l])
  /\ Keep(o)
  /\ UNCHANGED <<calls, walk, threads>>

\* SListPop
Pop(t, l) ==
  /\ May(t, l) /\ ~Walked(l) /\ last[l] # Null
  /\ Cut(last[l])
  /\ Release(data[last[l]])
  /\ UNCHANGED <<calls, walk, threads>>

\* Variant: the ends are not exchanged.
TurnInside(t, l) ==
  LET mine == {c \in Cells : home[c] = l}
  IN  /\ May(t, l) /\ ~Walked(l)
      /\ next' = [c \in Cells |-> IF c \in mine THEN prev[c] ELSE next[c]]
      /\ prev' = [c \in Cells |-> IF c \in mine THEN next[c] ELSE prev[c]]
      /\ UNCHANGED <<first, last, size, data, home, objects, calls, walk, threads>>

\* SListReverse
Turn(t, l) ==
  LET mine == {c \in Cells : home[c] = l}
  IN  /\ May(t, l) /\ ~Walked(l)
      /\ next' = [c \in Cells |-> IF c \in mine THEN prev[c] ELSE next[c]]
      /\ prev' = [c \in Cells |-> IF c \in mine THEN next[c] ELSE prev[c]]
      /\ first' = [first EXCEPT ![l] = last[l]]
      /\ last' = [last EXCEPT ![l] = first[l]]
      /\ UNCHANGED <<size, data, home, objects, calls, walk, threads>>

(***************************************************************************)
(* Destroying a list deletes its elements from the last to the first.  It  *)
(* takes no mutex: nobody else has the list.  The application makes a new  *)
(* one in its place.                                                       *)
(***************************************************************************)
Destroy(t, l) ==
  /\ May(t, l) /\ ~Walked(l) /\ \A u \in Threads : l \notin {pc[u].self, pc[u].with}
  /\ pc' = [pc EXCEPT ![t] = [Idle EXCEPT !.op = "destroy", !.self = l]]
  /\ UNCHANGED <<chains, objects, lock, whole, walk, threads>>

DestroyLast(t) ==
  LET c == last[pc[t].self]
  IN  /\ pc[t].op = "destroy" /\ deleting[t] = Null /\ c # Null
      /\ Cut(c)
      /\ Alone(data[c]) /\ Delete(t, data[c])
      /\ UNCHANGED <<hand, calls, walk, threads>>

Destroyed(t) ==
  /\ pc[t].op = "destroy" /\ deleting[t] = Null /\ last[pc[t].self] = Null
  /\ pc' = [pc EXCEPT ![t] = Idle]
  /\ UNCHANGED <<chains, objects, lock, whole, walk, threads>>

(***************************************************************************)
(* SListMerge(self, with) and SListCopy(self, with) into a list there is.  *)
(***************************************************************************)
Holder(t) == IF threads THEN t ELSE Null

Merge(t, l, m) ==
  /\ May(t, l) /\ ~Walked(l) /\ ~Walked(m) /\ ~Gone(m)
  /\ <<l, m>> \in Merges
  /\ lock' = [lock EXCEPT ![l] = Holder(t)]
  /\ pc' = [pc EXCEPT ![t] = [op |-> "lock", self |-> l, with |-> m, at |-> Null]]
  /\ UNCHANGED <<chains, objects, whole, walk, threads>>

\* Variant: the mutex of the other list is not taken.
MergeLockOne(t) ==
  LET l == pc[t].self  m == pc[t].with
  IN  /\ pc[t].op = "lock" /\ Open(m)
      /\ UNCHANGED lock
      /\ pc' = [pc EXCEPT ![t].op = "add", ![t].at = first[m]]
      /\ whole' = [whole EXCEPT ![t] = Content(l) \o Content(m)]
      /\ UNCHANGED <<chains, objects, walk, threads>>

MergeLock(t) ==
  LET l == pc[t].self  m == pc[t].with
  IN  /\ pc[t].op = "lock" /\ Open(m)
      /\ lock' = [lock EXCEPT ![m] = Holder(t)]
      /\ pc' = [pc EXCEPT ![t].op = "add", ![t].at = first[m]]
      /\ whole' = [whole EXCEPT ![t] = Content(l) \o Content(m)]
      /\ UNCHANGED <<chains, objects, walk, threads>>

MergeAdd(t, c) ==
  LET l == pc[t].self  o == data[pc[t].at]
  IN  /\ pc[t].op = "add" /\ pc[t].at # Null /\ Unused(c)
      /\ Link(c, o, l, last[l], Null)
      /\ Keep(o)
      /\ pc' = [pc EXCEPT ![t].at = next[@]]
      /\ UNCHANGED <<lock, whole, walk, threads>>

\* s_list_append fails when no memory is left for the element.
MergeFails(t) ==
  /\ pc[t].op = "add" /\ pc[t].at # Null /\ \A c \in Cells : ~Unused(c)
  /\ lock' = [lock EXCEPT ![pc[t].self] = Null, ![pc[t].with] = Null]
  /\ pc' = [pc EXCEPT ![t] = Idle]
  /\ whole' = [whole EXCEPT ![t] = <<>>]
  /\ UNCHANGED <<chains, objects, walk, threads>>

\* Variant: the mutex of the other list is not released.
MergeReturnsHolding(t) ==
  /\ pc[t].op = "add" /\ pc[t].at = Null
  /\ lock' = [lock EXCEPT ![pc[t].self] = Null]
  /\ pc' = [pc EXCEPT ![t] = Idle]
  /\ whole' = [whole EXCEPT ![t] = <<>>]
  /\ UNCHANGED <<chains, objects, walk, threads>>

MergeReturns(t) ==
  /\ pc[t].op = "add" /\ pc[t].at = Null
  /\ lock' = [lock EXCEPT ![pc[t].self] = Null, ![pc[t].with] = Null]
  /\ pc' = [pc EXCEPT ![t] = Idle]
  /\ whole' = [whole EXCEPT ![t] = <<>>]
  /\ UNCHANGED <<chains, objects, walk, threads>>

(***************************************************************************)
(* SListNth                                                                *)
(***************************************************************************)
Nth(t, l) ==
  /\ May(t, l) /\ (threads => NthThreaded)
  /\ lock' = [lock EXCEPT ![l] = Holder(t)]
  /\ pc' = [pc EXCEPT ![t] = [Idle EXCEPT !.op = "nth", !.self = l]]
  /\ UNCHANGED <<chains, objects, whole, walk, threads>>

\* SListSize, and the answer.
NthSize(t) ==
  /\ pc[t].op = "nth" /\ Open(pc[t].self)
  /\ pc' = [pc EXCEPT ![t] = Idle]
  /\ UNCHANGED <<chains, objects, lock, whole, walk, threads>>

(***************************************************************************)
(* The iterator: S_ITERATOR_GET, SIteratorNext, SIteratorUnlink, and       *)
(* inserting before and after its place.                                   *)
(***************************************************************************)
CellsOf(l) == {c \in Cells : home[c] = l}

IteratorGet(t, l) ==
  /\ May(t, l) /\ itr = NoIterator
  /\ \A u \in Threads : l \notin {pc[u].self, pc[u].with}
  /\ first[l] # Null
  /\ itr' = [owner |-> t, list |-> l, current |-> first[l], next |-> next[first[l]]]
  /\ due' = CellsOf(l) \ {first[l]} /\ late' = {}
  /\ UNCHANGED <<chains, objects, calls, threads>>

Walker == itr.owner # Null /\ Caller(itr.owner)

IteratorNext ==
  /\ Walker
  /\ IF itr.next = Null THEN itr' = NoIterator /\ due' = {}
     ELSE /\ itr' = [itr EXCEPT !.current = itr.next, !.next = next[itr.next]]
          /\ due' = due \ {itr.next}
  /\ late' = {}
  /\ UNCHANGED <<chains, objects, calls, threads>>

IteratorUnlink ==
  /\ Walker /\ itr.current # Null
  /\ Cut(itr.current)
  /\ Release(data[itr.current])
  /\ itr' = [itr EXCEPT !.current = Null]
  /\ UNCHANGED <<calls, due, late, threads>>

\* SListInsertBefore; after an unlink there is no place to insert at, and the
\* code counts a reference all the same, see the README.
InsertBefore(o, c) ==
  LET l == itr.list
  IN  /\ Walker /\ Open(l) /\ itr.current # Null /\ Unused(c)
      /\ Link(c, o, l, prev[itr.current], itr.current)
      /\ Keep(o)
      /\ UNCHANGED <<calls, walk, threads>>

\* Variant: the iterator goes on after the inserted element.
InsertAfterPassed(o, c) ==
  LET l == itr.list
  IN  /\ Walker /\ Open(l) /\ itr.current # Null /\ Unused(c)
      /\ Link(c, o, l, itr.current, next[itr.current])
      /\ Keep(o)
      /\ due' = due \cup {c} /\ late' = {}
      /\ UNCHANGED <<calls, itr, threads>>

\* SListInsertAfter: the inserted element comes next, and what it is linked to
\* after it.
InsertAfter(o, c) ==
  LET l == itr.list
  IN  /\ Walker /\ Open(l) /\ itr.current # Null /\ Unused(c)
      /\ Link(c, o, l, itr.current, next[itr.current])
      /\ Keep(o)
      /\ itr' = [itr EXCEPT !.next = c]
      /\ due' = due \cup {c} /\ late' = {}
      /\ UNCHANGED <<calls, threads>>

Progress(t) ==
  MergeLock(t) \/ (\E c \in Cells : MergeAdd(t, c)) \/ MergeFails(t) \/ MergeReturns(t)
  \/ NthSize(t) \/ DestroyLast(t) \/ Destroyed(t) \/ Test(t)

Next ==
  \/ \E t \in Threads, o \in Objects : New(t, o) \/ Drop(t, o)
  \/ \E t \in Threads, l \in Lists, o \in Objects, c \in Cells :
       AppendTo(t, l, o, c) \/ Prepend(t, l, o, c)
  \/ \E t \in Threads, l \in Lists :
       Pop(t, l) \/ Turn(t, l) \/ Destroy(t, l) \/ Nth(t, l) \/ IteratorGet(t, l)
  \/ \E t \in Threads, l, m \in Lists : Merge(t, l, m)
  \/ \E t \in Threads : Progress(t)
  \/ IteratorNext \/ IteratorUnlink
  \/ \E o \in Objects, c \in Cells : InsertBefore(o, c) \/ InsertAfter(o, c)

Spec == Init /\ [][Next]_vars

(***************************************************************************)
(* Properties.                                                             *)
(***************************************************************************)

\* The pointers of every list agree in both directions, with its ends and with
\* its size, whatever was inserted, taken out and turned round (base list.c).
Linked ==
  \A l \in Lists :
    /\ \A i \in 1 .. size[l] : Chain(l)[i] \in CellsOf(l)
    /\ Cardinality(CellsOf(l)) = size[l]
    /\ size[l] = 0 => first[l] = Null /\ last[l] = Null
    /\ size[l] > 0 => /\ prev[first[l]] = Null
                      /\ last[l] = Chain(l)[size[l]] /\ next[last[l]] = Null
    /\ \A i \in 2 .. size[l] : prev[Chain(l)[i]] = Chain(l)[i - 1]

\* The references to an object are the elements that have it, and an object that
\* some element has, or the application, or a thread that has yet to look at its
\* count, is not destroyed (list_list.c; object_macros.h, S_DELETE).
RefExact ==
  /\ \A o \in alive : ref[o] = Cardinality({c \in Cells : data[c] = o})
  /\ \A c \in Cells : ~Unused(c) => data[c] \in alive
  /\ hand \subseteq alive
  /\ \A t \in Threads : deleting[t] # Null => deleting[t] \in alive

\* The elements an iterator should still come to are those that follow its place
\* as it knows it, and those appended since it found that nothing follows, also
\* when it unlinks elements and inserts some (list_list_iterator.c).
WalkExact ==
  LET after == {Chain(itr.list)[i] : i \in {j \in 1 .. size[itr.list] :
                  \E k \in 1 .. j : Chain(itr.list)[k] = itr.next}}
  IN  itr # NoIterator => due = after \cup late

\* An iterator says that there are no more objects only when there are none
\* (containers/iterator.h, SIteratorNext).  It fails for those in late.
NothingMissed == itr # NoIterator /\ itr.next = Null => due = {}

\* When a merge is through, the list that grew holds what the two lists held
\* when it had both of their mutexes (list.c, SListMerge, SListCopy).
MergeWhole ==
  \A t \in Threads : pc[t].op = "add" /\ pc[t].at = Null => Content(pc[t].self) = whole[t]

\* Seen as the sequences of their objects, lists only ever have one object put
\* in or taken out, or are turned round.
Service == INSTANCE ListService WITH seq <- [l \in Lists |-> Content(l)]
ListSpec == Service!Spec

\* A mutex belongs to a call that is under way, and the calls that wait for one
\* do not wait for each other nor for themselves (list.c, the mutexes of one and
\* of two containers).
NobodyStuck ==
  LET awaited(t) == CASE pc[t].op = "lock" -> pc[t].with
                      [] pc[t].op = "nth" -> pc[t].self
                      [] OTHER -> Null
      waits == {t \in Threads : awaited(t) # Null /\ lock[awaited(t)] # Null}
  IN  /\ \A l \in Lists : lock[l] # Null =>
           /\ pc[lock[l]].op \in {"lock", "add", "nth"}
           /\ l \in {pc[lock[l]].self, pc[lock[l]].with}
      /\ \A some \in SUBSET waits :
           some # {} => \E t \in some : lock[awaited(t)] \notin some

=============================================================================
