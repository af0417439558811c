----------------------------- MODULE HRGProofs -----------------------------
(***************************************************************************)
(* For any numbers of items, contents and relations, and however the       *)
(* callers share contents and reuse names, the pointers of HRG form        *)
(* ordered forests, from which nothing is lost and in which nothing        *)
(* dangles; and as long as callers put no content twice into relations of  *)
(* one name, contents and items agree, and, if they reuse no name that is  *)
(* taken, contents keep ids of their own.                                  *)
(***************************************************************************)
EXTENDS HRG, TLAPS

(* A freed item points nowhere.                                            *)
Clean ==
  \A i \in Items : relation[i] = Null =>
    /\ content[i] = Null
    /\ next[i] = Null /\ prev[i] = Null /\ up[i] = Null /\ down[i] = Null

Structure == TypeOK /\ Clean /\ Linked /\ Ends /\ Reached

-----------------------------------------------------------------------------
(* Reach(A, E) is closed, has A in it, and is the least such set.          *)

LEMMA ReachClosed ==
  ASSUME NEW A \in SUBSET Items, NEW E \in [Items -> SUBSET Items]
  PROVE  /\ A \subseteq Reach(A, E)
         /\ Reach(A, E) \subseteq Items
         /\ Closed(Reach(A, E), E)
<1>1. A \subseteq Reach(A, E) /\ Reach(A, E) \subseteq Items
  BY DEF Reach
<1>2. ASSUME NEW i \in Reach(A, E), NEW j \in E[i]
      PROVE  j \in Reach(A, E)
  <2>1. i \in Items /\ j \in Items
    BY DEF Reach
  <2>2. SUFFICES ASSUME NEW S \in SUBSET Items, A \subseteq S, Closed(S, E)
                 PROVE  j \in S
    BY <2>1 DEF Reach
  <2>3. i \in S
    BY <2>2 DEF Reach
  <2> QED
    BY <2>2, <2>3 DEF Closed
<1> QED
  BY <1>1, <1>2 DEF Closed

LEMMA ReachLeast ==
  ASSUME NEW A, NEW E, NEW S \in SUBSET Items, A \subseteq S, Closed(S, E)
  PROVE  Reach(A, E) \subseteq S
BY DEF Reach

LEMMA WalkTypes ==
  ASSUME TypeOK
  PROVE  /\ Links \in [Items -> SUBSET Items]
         /\ Siblings \in [Items -> SUBSET Items]
         /\ \A p : NonNull({head[p]}) \subseteq {head[p]}
         /\ \A r \in Relations : NonNull({head[r]}) \in SUBSET Items
         /\ \A i \in Items : NonNull({down[i]}) \in SUBSET Items
BY DEF TypeOK, Links, Siblings, NonNull, OrNull

-----------------------------------------------------------------------------
(* Creating an item: what _SItemInit_no_lock assigns has its type, and     *)
(* the pointers keep every old path while the new item is put on one.      *)

LEMMA InitTypes ==
  ASSUME TypeOK, NEW n \in Items, NEW r \in Relations, name[r] \in Names,
         NEW s, ItemInit(n, r, s)
  PROVE  /\ relation' = [relation EXCEPT ![n] = r]
         /\ relation' \in [Items -> OrNull(Relations)]
         /\ content' \in [Items -> OrNull(Contents)]
         /\ contents' \in SUBSET Contents
         /\ entry' \in [Contents -> [Names -> OrNull(Items)]]
         /\ id' \in [Contents -> Nat]
         /\ lastId' \in Nat
         /\ \A i \in Items \ {n} : content'[i] = content[i]
<1>1. PICK c \in Contents :
        /\ relation' = [relation EXCEPT ![n] = r]
        /\ content' = [content EXCEPT ![n] = c]
        /\ contents' = contents \cup {c}
        /\ entry' = [entry EXCEPT ![c][name[r]] = n]
        /\ AssignId(c)
  BY DEF ItemInit
<1>2. id' \in [Contents -> Nat] /\ lastId' \in Nat
  BY <1>1 DEF TypeOK, AssignId
<1>3. entry' \in [Contents -> [Names -> OrNull(Items)]]
  BY <1>1 DEF TypeOK, OrNull
<1> QED
  BY <1>1, <1>2, <1>3 DEF TypeOK, OrNull

LEMMA CreateReached ==
  ASSUME Structure, TypeOK', UNCHANGED name,
         NEW r \in Relations, name[r] # Null, NEW n \in Items \ Live,
         relation' = [relation EXCEPT ![n] = r],
         \A S \in SUBSET Items : Closed(S, Links') =>
           /\ Closed(S, Links)
           /\ \A q \in Relations : head'[q] \in S => NonNull({head[q]}) \subseteq S,
         \A q \in Relations : head'[q] = Null => head[q] = Null,
         head'[r] = n \/ \E y \in Live : relation[y] = r /\ n \in Links'[y]
  PROVE  Reached'
<1> USE DEF OrNull, NonNull
<1>1. Links \in [Items -> SUBSET Items] /\ Links' \in [Items -> SUBSET Items]
  BY DEF Structure, TypeOK, Links
<1>2. ASSUME NEW i \in Items, NEW q \in Relations, relation'[i] = q,
             NEW S \in SUBSET Items, NonNull({head'[q]}) \subseteq S,
             Closed(S, Links')
      PROVE  i \in S
  <2>1. NonNull({head[q]}) \subseteq S /\ Closed(S, Links)
    BY <1>2
  <2>2. Tree(q) \subseteq S
    BY <2>1, ReachLeast DEF Tree
  <2>3. \A j \in Live : relation[j] = q => j \in S
    BY <2>2 DEF Structure, Reached
  <2>4. CASE i # n
    BY <1>2, <2>3, <2>4, NullAssumption DEF Structure, TypeOK, Live
  <2>5. CASE i = n
    <3>1. q = r
      BY <1>2, <2>5 DEF Structure, TypeOK
    <3>2. CASE head'[r] = n
      BY <1>2, <2>5, <3>1, <3>2, NullAssumption
    <3>3. CASE \E y \in Live : relation[y] = r /\ n \in Links'[y]
      BY <1>2, <2>3, <2>5, <3>1, <3>3 DEF Closed
    <3> QED
      BY <3>2, <3>3
  <2> QED
    BY <2>4, <2>5
<1>3. ASSUME NEW i \in Live'
      PROVE  name'[relation'[i]] # Null /\ i \in Tree(relation[i])'
  <2>1. i \in Items /\ relation'[i] \in Relations
    BY <1>3 DEF Live, TypeOK
  <2>2. name'[relation'[i]] # Null
    BY <1>3, <2>1 DEF Live, Structure, Reached, TypeOK
  <2>3. i \in Reach(NonNull({head'[relation'[i]]}), Links')
    BY <1>2, <2>1 DEF Reach
  <2> QED
    BY <2>2, <2>3 DEF Tree
<1> QED
  BY <1>3 DEF Reached

LEMMA CreateTails ==
  ASSUME Structure, TypeOK',
         NEW r \in Relations, NEW n \in Items,
         \A S \in SUBSET Items : Closed(S, Siblings') =>
           /\ Closed(S, Siblings)
           /\ \A q \in Relations : head'[q] \in S => NonNull({head[q]}) \subseteq S,
         \A q \in Relations : head'[q] = Null => head[q] = Null,
         \A q \in Relations : tail'[q] # tail[q] =>
           /\ tail'[q] = n
           /\ head'[q] = n \/ (tail[q] # Null /\ n \in Siblings'[tail[q]]),
         \A q \in Relations : head'[q] # head[q] /\ head[q] = Null => tail'[q] = head'[q]
  PROVE  \A q \in Relations : head'[q] # Null => tail'[q] \in Reach({head'[q]}, Siblings')
<1> USE DEF OrNull, NonNull
<1>0. ASSUME NEW q \in Relations, head'[q] # Null PROVE tail'[q] \in Items
  <2>1. head'[q] \in Items /\ tail[q] \in OrNull(Items)
    BY <1>0 DEF Structure, TypeOK
  <2>2. tail[q] = Null <=> head[q] = Null
    BY DEF Structure, Ends
  <2> QED
    BY <1>0, <2>1, <2>2
<1> SUFFICES ASSUME NEW q \in Relations, head'[q] # Null,
                    NEW S \in SUBSET Items, {head'[q]} \subseteq S, Closed(S, Siblings')
             PROVE  tail'[q] \in S
  BY <1>0 DEF Reach
<1>1. Closed(S, Siblings) /\ NonNull({head[q]}) \subseteq S
  OBVIOUS
<1>2. head[q] # Null => tail[q] \in S
  <2> SUFFICES ASSUME head[q] # Null PROVE tail[q] \in S
    OBVIOUS
  <2>1. tail[q] \in Reach({head[q]}, Siblings)
    BY DEF Structure, Ends
  <2>2. {head[q]} \subseteq S
    BY <1>1
  <2> QED
    BY <1>1, <2>1, <2>2, ReachLeast
<1>3. tail[q] # Null <=> head[q] # Null
  BY DEF Structure, Ends
<1>4. CASE tail'[q] = tail[q]
  BY <1>2, <1>3, <1>4
<1>5. CASE tail'[q] # tail[q]
  BY <1>2, <1>3, <1>5 DEF Closed
<1> QED
  BY <1>4, <1>5

LEMMA EndFacts ==
  ASSUME Structure, NEW q \in Relations
  PROVE  /\ head[q] = Null <=> tail[q] = Null
         /\ head[q] # Null =>
              /\ head[q] \in Live /\ relation[head[q]] = q
              /\ prev[head[q]] = Null /\ up[head[q]] = Null
              /\ tail[q] \in Live /\ relation[tail[q]] = q
              /\ next[tail[q]] = Null
<1>1. /\ head[q] = Null <=> tail[q] = Null
      /\ head[q] # Null => /\ relation[head[q]] = q /\ relation[tail[q]] = q
                           /\ prev[head[q]] = Null /\ up[head[q]] = Null
                           /\ next[tail[q]] = Null
  BY DEF Structure, Ends
<1>2. head[q] \in OrNull(Items) /\ tail[q] \in OrNull(Items) /\ q # Null
  BY NullAssumption DEF Structure, TypeOK
<1> QED
  BY <1>1, <1>2 DEF Live, OrNull

LEMMA TailReached ==
  ASSUME Structure, NEW q \in Relations, head[q] # Null,
         NEW S \in SUBSET Items, head[q] \in S, Closed(S, Siblings)
  PROVE  tail[q] \in S
<1>1. tail[q] \in Reach({head[q]}, Siblings)
  BY DEF Structure, Ends
<1> QED
  BY <1>1, ReachLeast

(* The pointers of an item lead to items of its relation.                  *)
LEMMA LinkFacts ==
  ASSUME Structure, NEW i \in Live
  PROVE  /\ i \in Items /\ relation[i] \in Relations /\ relation[i] # Null
         /\ next[i] # Null => /\ next[i] \in Live /\ relation[next[i]] = relation[i]
                              /\ prev[next[i]] = i
         /\ prev[i] # Null => /\ prev[i] \in Live /\ relation[prev[i]] = relation[i]
                              /\ next[prev[i]] = i /\ up[i] = Null
         /\ down[i] # Null => /\ down[i] \in Live /\ relation[down[i]] = relation[i]
                              /\ up[down[i]] = i /\ prev[down[i]] = Null
         /\ up[i] # Null => /\ up[i] \in Live /\ relation[up[i]] = relation[i]
                            /\ down[up[i]] = i /\ prev[i] = Null
         /\ prev[i] = Null /\ up[i] = Null => head[relation[i]] = i
<1>1. /\ i \in Items /\ relation[i] \in Relations /\ relation[i] # Null
      /\ \A f \in {next[i], prev[i], up[i], down[i]} : f \in OrNull(Items)
  BY DEF Live, Structure, TypeOK, OrNull
<1>2. /\ next[i] # Null => relation[next[i]] = relation[i] /\ prev[next[i]] = i
      /\ prev[i] # Null => relation[prev[i]] = relation[i] /\ next[prev[i]] = i /\ up[i] = Null
      /\ down[i] # Null => relation[down[i]] = relation[i] /\ up[down[i]] = i
      /\ up[i] # Null => relation[up[i]] = relation[i] /\ down[up[i]] = i
      /\ prev[i] = Null /\ up[i] = Null => head[relation[i]] = i
  BY DEF Structure, Linked
<1>3. down[i] # Null => down[i] \in Live /\ prev[down[i]] = Null
  <2> SUFFICES ASSUME down[i] # Null PROVE down[i] \in Live /\ prev[down[i]] = Null
    OBVIOUS
  <2>1. down[i] \in Live
    BY <1>1, <1>2 DEF Live, OrNull
  <2>2. prev[down[i]] # Null => up[down[i]] = Null
    BY <2>1 DEF Structure, Linked
  <2> QED
    BY <1>1, <1>2, <2>1, <2>2, NullAssumption
<1>4. up[i] # Null => prev[i] = Null
  BY <1>2
<1>5. /\ next[i] # Null => next[i] \in Live
      /\ prev[i] # Null => prev[i] \in Live
      /\ up[i] # Null => up[i] \in Live
  BY <1>1, <1>2 DEF Live, OrNull
<1> QED
  BY <1>1, <1>2, <1>3, <1>4, <1>5

LEMMA RelationAppendStep ==
  ASSUME Structure, NEW r \in LiveRelations, NEW n \in Items \ Live, NEW s,
         RelationAppend(r, s, n)
  PROVE  Structure'
<1> USE NullAssumption DEF OrNull, NonNull
<1>1. r \in Relations /\ name[r] # Null /\ name[r] \in Names
  BY DEF LiveRelations, Structure, TypeOK
<1>2. /\ relation' = [relation EXCEPT ![n] = r]
      /\ \A i \in Items \ {n} : content'[i] = content[i]
  BY <1>1, InitTypes DEF RelationAppend, Structure
<1>3. TypeOK'
  <2>1. /\ head' \in [Relations -> OrNull(Items)]
        /\ tail' \in [Relations -> OrNull(Items)]
        /\ next' \in [Items -> OrNull(Items)]
        /\ prev' \in [Items -> OrNull(Items)]
    BY <1>1 DEF RelationAppend, Structure, TypeOK
  <2> QED
    BY <1>1, <2>1, InitTypes DEF RelationAppend, Structure, TypeOK
<1>4. /\ Live' = Live \cup {n} /\ n \notin Live /\ relation[n] = Null
      /\ next[n] = Null /\ prev[n] = Null /\ up[n] = Null /\ down[n] = Null
  BY <1>1, <1>2 DEF Structure, TypeOK, Clean, Live
<1>5. /\ tail[r] # Null => /\ tail[r] \in Live /\ relation[tail[r]] = r
                           /\ next[tail[r]] = Null
      /\ tail[r] = Null <=> head[r] = Null
  BY <1>1, EndFacts
<1>6. Clean'
  BY <1>2, <1>3, <1>4, <1>5, <1>1 DEF RelationAppend, Structure, TypeOK, Clean, Live
<1>7. Linked'
  <2> SUFFICES ASSUME NEW i \in Live'
               PROVE  /\ next'[i] # Null => /\ relation'[next'[i]] = relation'[i]
                                            /\ prev'[next'[i]] = i
                      /\ prev'[i] # Null => /\ relation'[prev'[i]] = relation'[i]
                                            /\ next'[prev'[i]] = i
                                            /\ up'[i] = Null
                      /\ down'[i] # Null => /\ relation'[down'[i]] = relation'[i]
                                            /\ up'[down'[i]] = i
                      /\ up'[i] # Null => /\ relation'[up'[i]] = relation'[i]
                                          /\ down'[up'[i]] = i
                      /\ prev'[i] = Null /\ up'[i] = Null => head'[relation'[i]] = i
    BY DEF Linked
  <2>1. CASE i = n
    BY <1>1, <1>2, <1>4, <1>5, <2>1 DEF RelationAppend, Structure, TypeOK, Live
  <2>2. CASE i # n
    <3>1. i \in Live /\ relation'[i] = relation[i]
      BY <1>2, <1>4, <2>2 DEF Structure, TypeOK, Live
    <3>2. /\ next[i] # n /\ prev[i] # n /\ up[i] # n /\ down[i] # n
      BY <1>4, <3>1 DEF Structure, Linked, Live
    <3>3. up' = up /\ down' = down /\ prev'[i] = prev[i]
      BY <2>2, <3>1 DEF RelationAppend, Structure, TypeOK, Live
    <3>4. head[relation[i]] = i => head'[relation[i]] = i
      BY <1>1, <3>1 DEF RelationAppend, Structure, TypeOK, Live
    <3> QED
      BY <1>1, <1>2, <1>4, <1>5, <2>2, <3>1, <3>2, <3>3, <3>4
      DEF RelationAppend, Structure, TypeOK, Linked, Live
  <2> QED
    BY <2>1, <2>2
<1>8. \A S \in SUBSET Items :
        /\ Closed(S, Links') => Closed(S, Links)
        /\ Closed(S, Siblings') => Closed(S, Siblings)
  <2>1. \A i \in Items : /\ next[i] # Null => next'[i] = next[i]
                         /\ down'[i] = down[i]
    BY <1>1, <1>5 DEF RelationAppend, Structure, TypeOK
  <2>2. \A i \in Items : Links[i] \subseteq Links'[i] /\ Siblings[i] \subseteq Siblings'[i]
    BY <2>1 DEF Links, Siblings
  <2> QED
    BY <2>2 DEF Closed
<1>9. \A S \in SUBSET Items, q \in Relations :
        head'[q] \in S => NonNull({head[q]}) \subseteq S
  BY <1>1 DEF RelationAppend, Structure, TypeOK
<1>10. /\ \A q \in Relations : head'[q] = Null => head[q] = Null
       /\ \A q \in Relations : q # r => head'[q] = head[q] /\ tail'[q] = tail[q]
       /\ head'[r] # Null /\ tail'[r] = n
       /\ head[r] = Null => head'[r] = n
       /\ tail[r] # Null => n \in Siblings'[tail[r]] /\ n \in Links'[tail[r]]
  BY <1>1, <1>5 DEF RelationAppend, Structure, TypeOK, Links, Siblings, Live
<1>11. Reached'
  <2>1. head'[r] = n \/ \E y \in Live : relation[y] = r /\ n \in Links'[y]
    BY <1>5, <1>10
  <2>2. UNCHANGED name
    BY DEF RelationAppend
  <2> QED
    BY <1>1, <1>2, <1>3, <1>8, <1>9, <1>10, <2>1, <2>2, CreateReached
<1>12. \A q \in Relations : head'[q] # Null => tail'[q] \in Reach({head'[q]}, Siblings')
  <2>1. \A q \in Relations : tail'[q] # tail[q] =>
           /\ tail'[q] = n
           /\ head'[q] = n \/ (tail[q] # Null /\ n \in Siblings'[tail[q]])
    BY <1>5, <1>10
  <2>2. \A q \in Relations : head'[q] # head[q] /\ head[q] = Null => tail'[q] = head'[q]
    BY <1>10
  <2> QED
    BY <1>1, <1>3, <1>8, <1>9, <1>10, <2>1, <2>2, CreateTails
<1>13. Ends'
  <2> SUFFICES ASSUME NEW q \in Relations
               PROVE  /\ head'[q] = Null <=> tail'[q] = Null
                      /\ head'[q] # Null =>
                           /\ relation'[head'[q]] = q /\ relation'[tail'[q]] = q
                           /\ prev'[head'[q]] = Null /\ up'[head'[q]] = Null
                           /\ next'[tail'[q]] = Null
    BY <1>12 DEF Ends
  <2>1. CASE q = r
    <3>1. head[r] # Null => head[r] # n /\ prev[head[r]] = Null /\ relation[head[r]] = r
      BY <1>1, <1>4, EndFacts
    <3>2. tail'[r] = n /\ head'[r] = IF head[r] = Null THEN n ELSE head[r]
      BY <1>1 DEF RelationAppend, Structure, TypeOK
    <3>3. /\ relation'[n] = r /\ up' = up /\ next'[n] = Null
          /\ prev'[n] = tail[r] /\ \A i \in Items \ {n} : prev'[i] = prev[i]
      BY <1>1, <1>2, <1>4, <1>5 DEF RelationAppend, Structure, TypeOK, Live
    <3> QED
      BY <1>1, <1>2, <1>4, <1>5, <2>1, <3>1, <3>2, <3>3, EndFacts DEF Structure, TypeOK, Live
  <2>2. CASE q # r
    <3>1. head'[q] = head[q] /\ tail'[q] = tail[q]
      BY <1>10, <2>2
    <3>2. head[q] # Null => head[q] # n /\ tail[q] # n /\ tail[q] # tail[r]
      BY <1>1, <1>4, <1>5, <2>2, EndFacts
    <3> QED
      BY <1>1, <1>2, <1>5, <3>1, <3>2, EndFacts DEF RelationAppend, Structure, TypeOK, Live
  <2> QED
    BY <2>1, <2>2
<1> QED
  BY <1>3, <1>6, <1>7, <1>11, <1>13 DEF Structure

LEMMA RelationPrependStep ==
  ASSUME Structure, NEW r \in LiveRelations, NEW n \in Items \ Live, NEW s,
         RelationPrepend(r, s, n)
  PROVE  Structure'
<1> USE NullAssumption DEF OrNull, NonNull
<1>1. r \in Relations /\ name[r] # Null /\ name[r] \in Names
  BY DEF LiveRelations, Structure, TypeOK
<1>2. /\ relation' = [relation EXCEPT ![n] = r]
      /\ \A i \in Items \ {n} : content'[i] = content[i]
  BY <1>1, InitTypes DEF RelationPrepend, Structure
<1>3. TypeOK'
  <2>1. /\ head' \in [Relations -> OrNull(Items)]
        /\ tail' \in [Relations -> OrNull(Items)]
        /\ next' \in [Items -> OrNull(Items)]
        /\ prev' \in [Items -> OrNull(Items)]
    BY <1>1 DEF RelationPrepend, Structure, TypeOK
  <2> QED
    BY <1>1, <2>1, InitTypes DEF RelationPrepend, Structure, TypeOK
<1>4. /\ Live' = Live \cup {n} /\ n \notin Live /\ relation[n] = Null
      /\ next[n] = Null /\ prev[n] = Null /\ up[n] = Null /\ down[n] = Null
  BY <1>1, <1>2 DEF Structure, TypeOK, Clean, Live
<1>5. /\ head[r] # Null => /\ head[r] \in Live /\ relation[head[r]] = r
                           /\ prev[head[r]] = Null /\ up[head[r]] = Null
      /\ tail[r] = Null <=> head[r] = Null
  BY <1>1, EndFacts
<1>6. /\ up' = up /\ down' = down /\ name' = name
      /\ next'[n] = head[r] /\ prev'[n] = Null
      /\ \A i \in Items \ {n} : next'[i] = next[i]
      /\ \A i \in Items \ {n} : prev'[i] = IF i = head[r] THEN n ELSE prev[i]
      /\ head'[r] = n /\ tail'[r] = IF tail[r] = Null THEN n ELSE tail[r]
      /\ \A q \in Relations \ {r} : head'[q] = head[q] /\ tail'[q] = tail[q]
  BY <1>1, <1>4, <1>5 DEF RelationPrepend, Structure, TypeOK, Live
<1>7. Clean'
  BY <1>2, <1>4, <1>5, <1>6, <1>1 DEF Structure, TypeOK, Clean, Live
<1>8. Linked'
  <2> SUFFICES ASSUME NEW i \in Live'
               PROVE  /\ next'[i] # Null => /\ relation'[next'[i]] = relation'[i]
                                            /\ prev'[next'[i]] = i
                      /\ prev'[i] # Null => /\ relation'[prev'[i]] = relation'[i]
                                            /\ next'[prev'[i]] = i
                                            /\ up'[i] = Null
                      /\ down'[i] # Null => /\ relation'[down'[i]] = relation'[i]
                                            /\ up'[down'[i]] = i
                      /\ up'[i] # Null => /\ relation'[up'[i]] = relation'[i]
                                          /\ down'[up'[i]] = i
                      /\ prev'[i] = Null /\ up'[i] = Null => head'[relation'[i]] = i
    BY DEF Linked
  <2>1. CASE i = n
    BY <1>1, <1>2, <1>4, <1>5, <1>6, <2>1 DEF Structure, TypeOK, Live
  <2>2. CASE i # n
    <3>1. i \in Live /\ relation'[i] = relation[i]
      BY <1>2, <1>4, <2>2 DEF Structure, TypeOK, Live
    <3>2. \A j \in Live : j # n /\ j \in Items /\ relation'[j] = relation[j]
      BY <1>2, <1>4 DEF Structure, TypeOK, Live
    <3>3. prev[i] = Null /\ up[i] = Null /\ i # head[r] => head'[relation'[i]] = i
      BY <1>6, <3>1, LinkFacts
    <3>4. next[i] # Null => next[i] # head[r]
      BY <1>5, <3>1, LinkFacts
    <3> QED
      BY <1>1, <1>2, <1>4, <1>5, <1>6, <2>2, <3>1, <3>2, <3>3, <3>4, LinkFacts
      DEF Structure, TypeOK
  <2> QED
    BY <2>1, <2>2
<1>9. \A S \in SUBSET Items :
        /\ Closed(S, Links') => Closed(S, Links)
        /\ Closed(S, Siblings') => Closed(S, Siblings)
  <2>1. \A i \in Items : /\ next[i] # Null => next'[i] = next[i]
                         /\ down'[i] = down[i]
    BY <1>4, <1>6
  <2>2. \A i \in Items : Links[i] \subseteq Links'[i] /\ Siblings[i] \subseteq Siblings'[i]
    BY <2>1 DEF Links, Siblings
  <2> QED
    BY <2>2 DEF Closed
<1>10. \A S \in SUBSET Items, q \in Relations :
         (Closed(S, Links') \/ Closed(S, Siblings')) /\ head'[q] \in S =>
            NonNull({head[q]}) \subseteq S
  <2>1. head[r] # Null => head[r] \in Links'[n] /\ head[r] \in Siblings'[n]
    BY <1>6 DEF Links, Siblings
  <2> QED
    BY <1>6, <2>1 DEF Closed
<1>11. Reached'
  <2>1. \A q \in Relations : head'[q] = Null => head[q] = Null
    BY <1>6, <1>4
  <2> QED
    BY <1>1, <1>2, <1>3, <1>6, <1>9, <1>10, <2>1, CreateReached
<1>12. \A q \in Relations : head'[q] # Null => tail'[q] \in Reach({head'[q]}, Siblings')
  <2>1. \A q \in Relations : head'[q] = Null => head[q] = Null
    BY <1>6, <1>4
  <2>2. \A q \in Relations : tail'[q] # tail[q] => tail'[q] = n /\ head'[q] = n
    BY <1>6
  <2>3. \A q \in Relations : head'[q] # head[q] /\ head[q] = Null => tail'[q] = head'[q]
    BY <1>5, <1>6
  <2> QED
    BY <1>1, <1>3, <1>9, <1>10, <2>1, <2>2, <2>3, CreateTails
<1>13. Ends'
  <2> SUFFICES ASSUME NEW q \in Relations
               PROVE  /\ head'[q] = Null <=> tail'[q] = Null
                      /\ head'[q] # Null =>
                           /\ relation'[head'[q]] = q /\ relation'[tail'[q]] = q
                           /\ prev'[head'[q]] = Null /\ up'[head'[q]] = Null
                           /\ next'[tail'[q]] = Null
    BY <1>12 DEF Ends
  <2>1. /\ n # Null /\ relation'[n] = r
        /\ \A j \in Live : j # n /\ j \in Items /\ relation'[j] = relation[j]
    BY <1>1, <1>2, <1>4 DEF Structure, TypeOK, Live
  <2>2. CASE q = r
    BY <1>1, <1>4, <1>5, <1>6, <2>1, <2>2, EndFacts
  <2>3. CASE q # r
    <3>1. head[q] # Null => head[q] # head[r]
      BY <1>5, <2>3, EndFacts
    <3> QED
      BY <1>6, <2>1, <2>3, <3>1, EndFacts
  <2> QED
    BY <2>2, <2>3
<1> QED
  BY <1>3, <1>7, <1>8, <1>11, <1>13 DEF Structure

LEMMA ItemAppendStep ==
  ASSUME Structure, NEW x \in Live, NEW n \in Items \ Live, NEW s,
         ItemAppend(x, s, n)
  PROVE  Structure'
<1> USE NullAssumption DEF OrNull, NonNull
<1> DEFINE r == relation[x]
<1>1. /\ r \in Relations /\ name[r] # Null /\ name[r] \in Names
      /\ x \in Items /\ x # n /\ n # Null
  BY DEF Live, Structure, TypeOK, Reached
<1>2. /\ relation' = [relation EXCEPT ![n] = r]
      /\ \A i \in Items \ {n} : content'[i] = content[i]
  BY <1>1, InitTypes DEF ItemAppend, Structure
<1>3. up' = up /\ down' = down /\ name' = name /\ head' = head
  BY DEF ItemAppend
<1>4. TypeOK'
  <2>1. /\ tail' \in [Relations -> OrNull(Items)]
        /\ next' \in [Items -> OrNull(Items)]
        /\ prev' \in [Items -> OrNull(Items)]
    BY <1>1 DEF ItemAppend, Structure, TypeOK
  <2>2. TypeOK /\ ItemInit(n, r, s) /\ UNCHANGED <<utt, relations>>
    BY DEF ItemAppend, Structure
  <2>3. /\ relation' \in [Items -> OrNull(Relations)]
        /\ content' \in [Items -> OrNull(Contents)]
        /\ contents' \in SUBSET Contents
        /\ entry' \in [Contents -> [Names -> OrNull(Items)]]
        /\ id' \in [Contents -> Nat]
        /\ lastId' \in Nat
    BY <1>1, <2>2, InitTypes
  <2> QED
    BY <1>3, <2>1, <2>2, <2>3 DEF TypeOK
<1>5. /\ Live' = Live \cup {n} /\ n \notin Live /\ relation[n] = Null
      /\ next[n] = Null /\ prev[n] = Null /\ up[n] = Null /\ down[n] = Null
  BY <1>1, <1>2 DEF Structure, TypeOK, Clean, Live
<1>6. next[x] # Null => next[x] \in Live /\ relation[next[x]] = r /\ prev[next[x]] = x
  BY LinkFacts
<1>7. /\ next'[x] = n /\ next'[n] = next[x] /\ prev'[n] = x
      /\ \A i \in Items \ {n, x} : next'[i] = next[i]
      /\ \A i \in Items \ {n} : prev'[i] = IF i = next[x] THEN n ELSE prev[i]
      /\ tail'[r] = IF tail[r] = x THEN n ELSE tail[r]
      /\ \A q \in Relations \ {r} : tail'[q] = tail[q]
  BY <1>1, <1>5, <1>6 DEF ItemAppend, Structure, TypeOK, Live
<1> HIDE DEF r
<1>8. /\ relation'[n] = r /\ n # Null
      /\ \A j \in Live : j # n /\ j \in Items /\ relation'[j] = relation[j]
  BY <1>1, <1>2, <1>5 DEF Structure, TypeOK, Live
<1>9. Clean'
  BY <1>1, <1>2, <1>3, <1>5, <1>6, <1>7, <1>8 DEF Structure, TypeOK, Clean, Live
<1>10. Linked'
  <2> SUFFICES ASSUME NEW i \in Live'
               PROVE  /\ next'[i] # Null => /\ relation'[next'[i]] = relation'[i]
                                            /\ prev'[next'[i]] = i
                      /\ prev'[i] # Null => /\ relation'[prev'[i]] = relation'[i]
                                            /\ next'[prev'[i]] = i
                                            /\ up'[i] = Null
                      /\ down'[i] # Null => /\ relation'[down'[i]] = relation'[i]
                                            /\ up'[down'[i]] = i
                      /\ up'[i] # Null => /\ relation'[up'[i]] = relation'[i]
                                          /\ down'[up'[i]] = i
                      /\ prev'[i] = Null /\ up'[i] = Null => head'[relation'[i]] = i
    BY DEF Linked
  <2>1. r = relation[x]
    BY DEF r
  <2>2. CASE i = n
    BY <1>1, <1>3, <1>5, <1>6, <1>7, <1>8, <2>1, <2>2
  <2>3. CASE i = x
    BY <1>1, <1>3, <1>5, <1>6, <1>7, <1>8, <2>1, <2>3, LinkFacts
  <2>4. CASE i \notin {n, x}
    <3>1. i \in Live
      BY <1>5, <2>4
    <3>2. next[i] # Null => next[i] # next[x]
      BY <1>6, <2>4, <3>1, LinkFacts
    <3> QED
      BY <1>1, <1>3, <1>5, <1>6, <1>7, <1>8, <2>1, <2>4, <3>1, <3>2, LinkFacts
  <2> QED
    BY <2>2, <2>3, <2>4
<1>11. \A S \in SUBSET Items :
         /\ Closed(S, Links') => Closed(S, Links)
         /\ Closed(S, Siblings') => Closed(S, Siblings)
  <2>1. \A i \in Items \ {x} : Links[i] \subseteq Links'[i] /\ Siblings[i] \subseteq Siblings'[i]
    BY <1>3, <1>5, <1>7 DEF Links, Siblings
  <2>2. /\ Links[x] \subseteq Links'[x] \cup Links'[n] /\ n \in Links'[x]
        /\ Siblings[x] \subseteq Siblings'[x] \cup Siblings'[n] /\ n \in Siblings'[x]
    BY <1>1, <1>3, <1>7 DEF Links, Siblings
  <2> QED
    BY <1>1, <2>1, <2>2 DEF Closed
<1>12. Reached'
  <2>1. r = relation[x] /\ n \in Links'[x]
    BY <1>1, <1>7 DEF r, Links
  <2> QED
    BY <1>1, <1>2, <1>3, <1>4, <1>11, <2>1, CreateReached
<1>13. \A q \in Relations : head'[q] # Null => tail'[q] \in Reach({head'[q]}, Siblings')
  <2>1. n \in Siblings'[x] /\ x # Null
    BY <1>1, <1>7 DEF Siblings
  <2>2. \A q \in Relations : tail'[q] # tail[q] =>
           tail'[q] = n /\ tail[q] # Null /\ n \in Siblings'[tail[q]]
    BY <1>7, <2>1
  <2> QED
    BY <1>1, <1>3, <1>4, <1>11, <2>2, CreateTails
<1>14. Ends'
  <2> SUFFICES ASSUME NEW q \in Relations
               PROVE  /\ head'[q] = Null <=> tail'[q] = Null
                      /\ head'[q] # Null =>
                           /\ relation'[head'[q]] = q /\ relation'[tail'[q]] = q
                           /\ prev'[head'[q]] = Null /\ up'[head'[q]] = Null
                           /\ next'[tail'[q]] = Null
    BY <1>13 DEF Ends
  <2>1. head[q] # Null => head[q] # next[x]
    BY <1>1, <1>6, EndFacts
  <2>2. CASE q = r
    BY <1>1, <1>3, <1>5, <1>6, <1>7, <1>8, <2>1, <2>2, EndFacts
  <2>3. CASE q # r
    <3>1. tail[q] # Null => tail[q] # x
      BY <1>1, <2>3, EndFacts DEF r
    <3> QED
      BY <1>1, <1>3, <1>5, <1>6, <1>7, <1>8, <2>1, <2>3, <3>1, EndFacts
  <2> QED
    BY <2>2, <2>3
<1> QED
  BY <1>4, <1>9, <1>10, <1>12, <1>14 DEF Structure

LEMMA ItemPrependStep ==
  ASSUME Structure, NEW x \in Live, NEW n \in Items \ Live, NEW s,
         ItemPrepend(x, s, n)
  PROVE  Structure'
<1> USE NullAssumption DEF OrNull, NonNull
<1> DEFINE r == relation[x]
<1>1. /\ r \in Relations /\ name[r] # Null /\ name[r] \in Names
      /\ x \in Items /\ x # n /\ n # Null
  BY DEF Live, Structure, TypeOK, Reached
<1>2. /\ relation' = [relation EXCEPT ![n] = r]
      /\ \A i \in Items \ {n} : content'[i] = content[i]
  BY <1>1, InitTypes DEF ItemPrepend, Structure
<1>3. tail' = tail /\ name' = name
  BY DEF ItemPrepend
<1>4. TypeOK'
  <2>1. /\ head' \in [Relations -> OrNull(Items)]
        /\ next' \in [Items -> OrNull(Items)]
        /\ prev' \in [Items -> OrNull(Items)]
        /\ up' \in [Items -> OrNull(Items)]
        /\ down' \in [Items -> OrNull(Items)]
    BY <1>1 DEF ItemPrepend, Structure, TypeOK
  <2>2. TypeOK /\ ItemInit(n, r, s) /\ UNCHANGED <<utt, relations>>
    BY DEF ItemPrepend, Structure
  <2>3. /\ relation' \in [Items -> OrNull(Relations)]
        /\ content' \in [Items -> OrNull(Contents)]
        /\ contents' \in SUBSET Contents
        /\ entry' \in [Contents -> [Names -> OrNull(Items)]]
        /\ id' \in [Contents -> Nat]
        /\ lastId' \in Nat
    BY <1>1, <2>2, InitTypes
  <2> QED
    BY <1>3, <2>1, <2>2, <2>3 DEF TypeOK
<1>5. /\ Live' = Live \cup {n} /\ n \notin Live /\ relation[n] = Null
      /\ next[n] = Null /\ prev[n] = Null /\ up[n] = Null /\ down[n] = Null
  BY <1>1, <1>2 DEF Structure, TypeOK, Clean, Live
<1>6. /\ prev[x] # Null => /\ prev[x] \in Live /\ relation[prev[x]] = r
                           /\ next[prev[x]] = x /\ up[x] = Null
      /\ up[x] # Null => /\ up[x] \in Live /\ relation[up[x]] = r
                         /\ down[up[x]] = x /\ prev[x] = Null
      /\ prev[x] = Null /\ up[x] = Null => head[r] = x
  BY LinkFacts
<1>7. /\ prev'[x] = n /\ prev'[n] = prev[x] /\ next'[n] = x
      /\ \A i \in Items \ {n, x} : prev'[i] = prev[i]
      /\ \A i \in Items \ {n} : next'[i] = IF i = prev[x] THEN n ELSE next[i]
  BY <1>1, <1>5, <1>6 DEF ItemPrepend, Structure, TypeOK, Live
<1>8. /\ up'[n] = up[x] /\ up'[x] = Null
      /\ \A i \in Items \ {n, x} : up'[i] = up[i]
      /\ \A i \in Items : down'[i] = IF i = up[x] THEN n ELSE down[i]
      /\ head'[r] = IF head[r] = x THEN n ELSE head[r]
      /\ \A q \in Relations \ {r} : head'[q] = head[q]
  BY <1>1, <1>5, <1>6 DEF ItemPrepend, Structure, TypeOK, Live
<1> HIDE DEF r
<1>9. /\ relation'[n] = r /\ n # Null /\ r = relation[x]
      /\ \A j \in Live : j # n /\ j \in Items /\ relation'[j] = relation[j]
  BY <1>1, <1>2, <1>5 DEF Structure, TypeOK, Live, r
<1>10. Clean'
  BY <1>1, <1>2, <1>3, <1>5, <1>6, <1>7, <1>8, <1>9 DEF Structure, TypeOK, Clean, Live
<1>11. Linked'
  <2> SUFFICES ASSUME NEW i \in Live'
               PROVE  /\ next'[i] # Null => /\ relation'[next'[i]] = relation'[i]
                                            /\ prev'[next'[i]] = i
                      /\ prev'[i] # Null => /\ relation'[prev'[i]] = relation'[i]
                                            /\ next'[prev'[i]] = i
                                            /\ up'[i] = Null
                      /\ down'[i] # Null => /\ relation'[down'[i]] = relation'[i]
                                            /\ up'[down'[i]] = i
                      /\ up'[i] # Null => /\ relation'[up'[i]] = relation'[i]
                                          /\ down'[up'[i]] = i
                      /\ prev'[i] = Null /\ up'[i] = Null => head'[relation'[i]] = i
    BY DEF Linked
  <2>1. CASE i = n
    BY <1>1, <1>5, <1>6, <1>7, <1>8, <1>9, <2>1
  <2>2. CASE i = x
    BY <1>1, <1>5, <1>6, <1>7, <1>8, <1>9, <2>2, LinkFacts
  <2>3. CASE i \notin {n, x}
    <3>1. i \in Live
      BY <1>5, <2>3
    <3>2. /\ prev[i] # Null => prev[i] # prev[x]
          /\ up[i] # Null => up[i] # up[x]
      BY <1>6, <2>3, <3>1, LinkFacts
    <3>3. /\ next[i] = x <=> i = prev[x]
          /\ down[i] = x <=> i = up[x]
      BY <1>1, <1>6, <3>1, LinkFacts
    <3> QED
      BY <1>1, <1>5, <1>6, <1>7, <1>8, <1>9, <2>3, <3>1, <3>2, <3>3, LinkFacts
  <2> QED
    BY <2>1, <2>2, <2>3
<1>12. \A S \in SUBSET Items :
         /\ Closed(S, Links') => Closed(S, Links)
         /\ Closed(S, Siblings') => Closed(S, Siblings)
         /\ \A q \in Relations :
              (Closed(S, Links') \/ Closed(S, Siblings')) /\ head'[q] \in S =>
                NonNull({head[q]}) \subseteq S
  <2>1. \A i \in Items : /\ Links[i] \subseteq Links'[i] \cup (IF n \in Links'[i] THEN {x} ELSE {})
                         /\ Siblings[i] \subseteq Siblings'[i] \cup (IF n \in Siblings'[i] THEN {x} ELSE {})
    BY <1>1, <1>5, <1>6, <1>7, <1>8 DEF Links, Siblings
  <2>2. x \in Links'[n] /\ x \in Siblings'[n]
    BY <1>1, <1>7 DEF Links, Siblings
  <2> QED
    BY <1>8, <2>1, <2>2 DEF Closed
<1>13. \A q \in Relations : head'[q] # Null => tail'[q] \in Reach({head'[q]}, Siblings')
  <2>1. \A q \in Relations : (head'[q] = Null <=> head[q] = Null) /\ tail'[q] = tail[q]
    BY <1>1, <1>3, <1>8
  <2>2. \A q \in Relations : head[q] = Null => head'[q] = head[q]
    BY <1>1, <1>8
  <2> QED
    BY <1>1, <1>4, <1>12, <2>1, <2>2, CreateTails
<1>14. Reached'
  <2>1. head'[r] = n \/ \E y \in Live : relation[y] = r /\ n \in Links'[y]
    <3>1. CASE prev[x] # Null
      BY <1>1, <1>5, <1>6, <1>7, <3>1 DEF Links, Live
    <3>2. CASE up[x] # Null
      BY <1>1, <1>5, <1>6, <1>8, <3>2 DEF Links, Live
    <3>3. CASE prev[x] = Null /\ up[x] = Null
      BY <1>6, <1>8, <3>3
    <3> QED
      BY <3>1, <3>2, <3>3
  <2>2. \A q \in Relations : head'[q] = Null => head[q] = Null
    BY <1>1, <1>8
  <2> QED
    BY <1>1, <1>2, <1>3, <1>4, <1>12, <2>1, <2>2, CreateReached
<1>15. Ends'
  <2> SUFFICES ASSUME NEW q \in Relations
               PROVE  /\ head'[q] = Null <=> tail'[q] = Null
                      /\ head'[q] # Null =>
                           /\ relation'[head'[q]] = q /\ relation'[tail'[q]] = q
                           /\ prev'[head'[q]] = Null /\ up'[head'[q]] = Null
                           /\ next'[tail'[q]] = Null
    BY <1>13 DEF Ends
  <2>1. tail[q] # Null => tail[q] # prev[x]
    BY <1>1, <1>6, EndFacts
  <2>2. CASE q = r
    BY <1>1, <1>3, <1>5, <1>6, <1>7, <1>8, <1>9, <2>1, <2>2, EndFacts
  <2>3. CASE q # r
    <3>1. head[q] # Null => head[q] # x
      BY <1>9, <2>3, EndFacts
    <3> QED
      BY <1>1, <1>3, <1>5, <1>7, <1>8, <1>9, <2>1, <2>3, <3>1, EndFacts
  <2> QED
    BY <2>2, <2>3
<1> QED
  BY <1>4, <1>10, <1>11, <1>14, <1>15 DEF Structure

LEMMA FirstDaughterStep ==
  ASSUME Structure, NEW x \in Live, NEW n \in Items \ Live, NEW s,
         FirstDaughter(x, s, n)
  PROVE  Structure'
<1> USE NullAssumption DEF OrNull, NonNull
<1> DEFINE r == relation[x]
<1>1. /\ r \in Relations /\ name[r] # Null /\ name[r] \in Names
      /\ x \in Items /\ x # n /\ n # Null
  BY DEF Live, Structure, TypeOK, Reached
<1>2. /\ relation' = [relation EXCEPT ![n] = r]
      /\ \A i \in Items \ {n} : content'[i] = content[i]
  BY <1>1, InitTypes DEF FirstDaughter, Structure
<1>3. /\ head' = head /\ tail' = tail /\ name' = name /\ next' = next /\ prev' = prev
      /\ up' = [up EXCEPT ![n] = x] /\ down' = [down EXCEPT ![x] = n] /\ down[x] = Null
  BY DEF FirstDaughter
<1>4. TypeOK'
  <2>1. up' \in [Items -> OrNull(Items)] /\ down' \in [Items -> OrNull(Items)]
    BY <1>1, <1>3 DEF Structure, TypeOK
  <2>2. TypeOK /\ ItemInit(n, r, s) /\ UNCHANGED <<utt, relations>>
    BY DEF FirstDaughter, Structure
  <2>3. /\ relation' \in [Items -> OrNull(Relations)]
        /\ content' \in [Items -> OrNull(Contents)]
        /\ contents' \in SUBSET Contents
        /\ entry' \in [Contents -> [Names -> OrNull(Items)]]
        /\ id' \in [Contents -> Nat]
        /\ lastId' \in Nat
    BY <1>1, <2>2, InitTypes
  <2> QED
    BY <1>3, <2>1, <2>2, <2>3 DEF TypeOK
<1>5. /\ Live' = Live \cup {n} /\ n \notin Live /\ relation[n] = Null
      /\ next[n] = Null /\ prev[n] = Null /\ up[n] = Null /\ down[n] = Null
  BY <1>1, <1>2 DEF Structure, TypeOK, Clean, Live
<1>6. /\ up'[n] = x /\ \A i \in Items \ {n} : up'[i] = up[i]
      /\ down'[x] = n /\ \A i \in Items \ {x} : down'[i] = down[i]
  BY <1>1, <1>3 DEF Structure, TypeOK
<1> HIDE DEF r
<1>7. /\ relation'[n] = r /\ n # Null /\ r = relation[x]
      /\ \A j \in Live : j # n /\ j \in Items /\ relation'[j] = relation[j]
  BY <1>1, <1>2, <1>5 DEF Structure, TypeOK, Live, r
<1>8. Clean'
  BY <1>1, <1>2, <1>3, <1>5, <1>6, <1>7 DEF Structure, TypeOK, Clean, Live
<1>9. Linked'
  <2> SUFFICES ASSUME NEW i \in Live'
               PROVE  /\ next'[i] # Null => /\ relation'[next'[i]] = relation'[i]
                                            /\ prev'[next'[i]] = i
                      /\ prev'[i] # Null => /\ relation'[prev'[i]] = relation'[i]
                                            /\ next'[prev'[i]] = i
                                            /\ up'[i] = Null
                      /\ down'[i] # Null => /\ relation'[down'[i]] = relation'[i]
                                            /\ up'[down'[i]] = i
                      /\ up'[i] # Null => /\ relation'[up'[i]] = relation'[i]
                                          /\ down'[up'[i]] = i
                      /\ prev'[i] = Null /\ up'[i] = Null => head'[relation'[i]] = i
    BY DEF Linked
  <2>1. CASE i = n
    BY <1>1, <1>3, <1>5, <1>6, <1>7, <2>1
  <2>2. CASE i # n
    <3>1. i \in Live
      BY <1>5, <2>2
    <3>2. up[i] # Null => up[i] # x
      BY <1>3, <3>1, LinkFacts
    <3> QED
      BY <1>1, <1>3, <1>5, <1>6, <1>7, <2>2, <3>1, <3>2, LinkFacts
  <2> QED
    BY <2>1, <2>2
<1>10. \A S \in SUBSET Items : Closed(S, Links') => Closed(S, Links)
  <2>1. \A i \in Items : Links[i] \subseteq Links'[i]
    BY <1>3, <1>6 DEF Links
  <2> QED
    BY <2>1 DEF Closed
<1>11. Siblings' = Siblings
  BY <1>3 DEF Siblings
<1>12. Reached'
  <2>1. r = relation[x] /\ n \in Links'[x]
    BY <1>1, <1>6, <1>7 DEF Links
  <2> QED
    BY <1>1, <1>2, <1>3, <1>4, <1>10, <2>1, CreateReached
<1>13. \A q \in Relations : head'[q] # Null => tail'[q] \in Reach({head'[q]}, Siblings')
  BY <1>3, <1>11 DEF Structure, Ends
<1>14. Ends'
  <2> SUFFICES ASSUME NEW q \in Relations
               PROVE  /\ head'[q] = Null <=> tail'[q] = Null
                      /\ head'[q] # Null =>
                           /\ relation'[head'[q]] = q /\ relation'[tail'[q]] = q
                           /\ prev'[head'[q]] = Null /\ up'[head'[q]] = Null
                           /\ next'[tail'[q]] = Null
    BY <1>13 DEF Ends
  <2> QED
    BY <1>1, <1>3, <1>5, <1>6, <1>7, EndFacts
<1> QED
  BY <1>4, <1>8, <1>9, <1>12, <1>14 DEF Structure

LEMMA CreateStep ==
  ASSUME Structure, NEW n \in Items \ Live, NEW s, Create(n, s)
  PROVE  Structure'
<1>1. CASE \E r \in LiveRelations : RelationAppend(r, s, n)
  BY <1>1, RelationAppendStep
<1>2. CASE \E r \in LiveRelations : RelationPrepend(r, s, n)
  BY <1>2, RelationPrependStep
<1>3. CASE \E x \in Live : ItemAppend(x, s, n)
  BY <1>3, ItemAppendStep
<1>4. CASE \E x \in Live : ItemPrepend(x, s, n)
  BY <1>4, ItemPrependStep
<1>5. CASE \E x \in Live : ItemAddDaughter(x, s, n)
  BY <1>5, FirstDaughterStep, ItemAppendStep DEF ItemAddDaughter
<1> QED
  BY <1>1, <1>2, <1>3, <1>4, <1>5 DEF Create

-----------------------------------------------------------------------------
(* What is below an item is entered only through its first daughter: no    *)
(* pointer of another item leads into it, nor does one of its own out.     *)

LEMMA RelationClosed ==
  ASSUME Structure, NEW q \in Relations
  PROVE  Closed({i \in Live : relation[i] = q}, Links)
<1>1. ASSUME NEW i \in Live, relation[i] = q, NEW j \in Links[i]
      PROVE  j \in Live /\ relation[j] = q
  <2>1. j # Null /\ (j = next[i] \/ j = down[i])
    BY <1>1 DEF Links, Live, NonNull
  <2> QED
    BY <1>1, <2>1, LinkFacts
<1> QED
  BY <1>1, WalkTypes DEF Closed, Structure, Live

LEMMA BelowFacts ==
  ASSUME Structure, NEW x \in Live
  PROVE  LET B == Reach(NonNull({down[x]}), Links)
         IN  /\ \A y \in B : y \in Live /\ relation[y] = relation[x]
             /\ Closed(B, Links)
             /\ down[x] # Null => down[x] \in B
             /\ x \notin B
             /\ \A y \in Items \ B : /\ y # x => Links[y] \cap B = {}
                                     /\ next[y] \notin B
             /\ next[x] # x
             /\ \A q \in Relations : head[q] \notin B /\ tail[q] \notin B
<1> USE NullAssumption DEF OrNull, NonNull
<1> DEFINE B == Reach(NonNull({down[x]}), Links)
           r == relation[x]
<1>0. /\ x \in Items /\ r \in Relations
      /\ Links \in [Items -> SUBSET Items] /\ Siblings \in [Items -> SUBSET Items]
      /\ NonNull({down[x]}) \in SUBSET Items
  BY WalkTypes, LinkFacts DEF Structure
<1>1. \A y \in B : y \in Live /\ y \in Items /\ relation[y] = r
  <2>1. NonNull({down[x]}) \subseteq {i \in Live : relation[i] = r}
    BY LinkFacts
  <2>2. {i \in Live : relation[i] = r} \in SUBSET Items
    BY DEF Live
  <2> QED
    BY <1>0, <2>1, <2>2, RelationClosed, ReachLeast
<1>2. /\ Closed(B, Links) /\ B \in SUBSET Items
      /\ down[x] # Null => down[x] \in B
  BY <1>0, ReachClosed
<1>3. \A S \in SUBSET Items : NonNull({down[x]}) \subseteq S /\ Closed(S, Links) => B \subseteq S
  BY ReachLeast
<1> HIDE DEF B
<1>4. \A z \in B : \/ z = down[x]
                   \/ prev[z] \in B
                   \/ up[z] \in B
  <2> SUFFICES ASSUME NEW z \in B, z # down[x], prev[z] \notin B, up[z] \notin B
               PROVE  FALSE
    OBVIOUS
  <2>1. NonNull({down[x]}) \subseteq B \ {z}
    BY <1>2
  <2>2. ASSUME NEW y \in B \ {z}, NEW w \in Links[y]
        PROVE  w \in B \ {z}
    <3>1. w \in B
      BY <1>2, <2>2 DEF Closed
    <3>2. w # Null /\ (w = next[y] \/ w = down[y])
      BY <1>1, <2>2 DEF Links
    <3>3. prev[w] = y \/ up[w] = y
      BY <1>1, <2>2, <3>2, LinkFacts
    <3> QED
      BY <2>2, <3>1, <3>3
  <2>3. Closed(B \ {z}, Links)
    BY <2>2, <1>0, <1>1 DEF Closed
  <2> QED
    BY <1>2, <1>3, <2>1, <2>3
<1>5. \A y \in Live, z \in B : y # x /\ (next[y] = z \/ down[y] = z) => y \in B
  <2> SUFFICES ASSUME NEW y \in Live, NEW z \in B, y # x, next[y] = z \/ down[y] = z
               PROVE  y \in B
    OBVIOUS
  <2>1. z # Null /\ z \in Live
    BY <1>1 DEF Live
  <2>2. CASE next[y] = z
    BY <1>1, <1>4, <2>1, <2>2, LinkFacts
  <2>3. CASE down[y] = z
    BY <1>1, <1>4, <2>1, <2>3, LinkFacts
  <2> QED
    BY <2>2, <2>3
<1>6. \A z \in B : next[x] = z => x \in B
  BY <1>1, <1>4, LinkFacts
<1>7. \A q \in Relations : head[q] \notin B
  <2> SUFFICES ASSUME NEW q \in Relations, head[q] \in B PROVE FALSE
    OBVIOUS
  <2>1. head[q] # Null /\ prev[head[q]] = Null /\ up[head[q]] = Null
    BY <1>1, EndFacts
  <2>2. head[q] # down[x]
    BY <2>1, LinkFacts
  <2> QED
    BY <1>1, <1>4, <2>1, <2>2, LinkFacts
<1>8. \A y \in Items : relation[y] = Null => Links[y] = {} /\ Siblings[y] = {}
  BY DEF Structure, Clean, Links, Siblings
<1>9. x \notin B
  <2> SUFFICES ASSUME x \in B PROVE FALSE
    OBVIOUS
  <2>1. \A y \in Items \ B : Links[y] \subseteq Items \ B
    <3> SUFFICES ASSUME NEW y \in Items \ B, NEW w \in Links[y], w \in B
                 PROVE  FALSE
      BY <1>0
    <3>1. y \in Live /\ y # x
      BY <1>8 DEF Live
    <3>2. w = next[y] \/ w = down[y]
      BY DEF Links
    <3> QED
      BY <1>5, <3>1, <3>2
  <2>2. Closed(Items \ B, Links)
    BY <2>1 DEF Closed
  <2>3. NonNull({head[r]}) \subseteq Items \ B
    BY <1>0, <1>7, WalkTypes DEF Structure
  <2>4. Tree(r) \subseteq Items \ B
    BY <2>2, <2>3, ReachLeast DEF Tree
  <2> QED
    BY <2>4 DEF Structure, Reached
<1>10. \A y \in Items \ B : /\ y # x => Links[y] \cap B = {}
                            /\ next[y] \notin B
  <2> SUFFICES ASSUME NEW y \in Items \ B
               PROVE  (y # x => Links[y] \cap B = {}) /\ next[y] \notin B
    OBVIOUS
  <2>1. CASE y = x
    BY <1>6, <1>9, <2>1
  <2>2. CASE y \notin Live
    BY <1>1, <1>8, <2>2 DEF Live, Structure, Clean
  <2>3. CASE y \in Live /\ y # x
    BY <1>5, <2>3 DEF Links
  <2> QED
    BY <2>1, <2>2, <2>3
<1>11. next[x] # x
  <2> SUFFICES ASSUME next[x] = x PROVE FALSE
    OBVIOUS
  <2>1. x # Null /\ prev[x] = x /\ up[x] = Null
    BY LinkFacts
  <2>2. \A y \in Items \ {x} : Links[y] \subseteq Items \ {x}
    <3> SUFFICES ASSUME NEW y \in Items \ {x}, x \in Links[y]
                 PROVE  FALSE
      BY <1>0
    <3>1. y \in Live
      BY <1>8 DEF Live
    <3>2. x = next[y] \/ x = down[y]
      BY DEF Links
    <3> QED
      BY <2>1, <3>1, <3>2, LinkFacts
  <2>3. Closed(Items \ {x}, Links)
    BY <2>2 DEF Closed
  <2>4. NonNull({head[r]}) \subseteq Items \ {x}
    BY <1>0, <2>1, EndFacts, WalkTypes DEF Structure
  <2>5. Tree(r) \subseteq Items \ {x}
    BY <2>3, <2>4, ReachLeast DEF Tree
  <2> QED
    BY <2>5 DEF Structure, Reached
<1>12. \A q \in Relations : tail[q] \notin B
  <2> SUFFICES ASSUME NEW q \in Relations, tail[q] \in B PROVE FALSE
    OBVIOUS
  <2>1. head[q] # Null /\ tail[q] \in Reach({head[q]}, Siblings)
    BY <1>1, EndFacts DEF Structure, Ends, Live
  <2>2. Closed(Items \ B, Siblings)
    BY <1>0, <1>10 DEF Closed, Siblings
  <2>3. {head[q]} \subseteq Items \ B
    BY <1>7, <2>1, EndFacts DEF Live
  <2> QED
    BY <2>1, <2>2, <2>3, ReachLeast
<1> QED
  BY <1>1, <1>2, <1>7, <1>9, <1>10, <1>11, <1>12 DEF B

LEMMA NotBelowItself ==
  ASSUME Structure, NEW x \in Live, NEW z \in Live, down[z] = x
  PROVE  next[x] # z
<1> DEFINE B == Reach(NonNull({down[z]}), Links)
<1>1. x \in B /\ Closed(B, Links) /\ z \notin B
  BY BelowFacts, NullAssumption DEF Live
<1>2. next[x] = z => z \in Links[x]
  BY NullAssumption DEF Links, NonNull, Live
<1> QED
  BY <1>1, <1>2 DEF Closed

-----------------------------------------------------------------------------
(* Deleting.                                                                *)

LEMMA FreeTypes ==
  ASSUME TypeOK, NEW D \in SUBSET Items, FreeItems(D)
  PROVE  /\ relation' \in [Items -> OrNull(Relations)]
         /\ content' \in [Items -> OrNull(Contents)]
         /\ contents' \in SUBSET Contents
         /\ entry' \in [Contents -> [Names -> OrNull(Items)]]
         /\ id' \in [Contents -> Nat]
         /\ \A i \in Items : /\ i \in D => relation'[i] = Null /\ content'[i] = Null
                             /\ i \notin D => relation'[i] = relation[i] /\ content'[i] = content[i]
         /\ Live' = Live \ D
<1> USE DEF OrNull
<1>1. entry' \in [Contents -> [Names -> OrNull(Items)]]
  BY DEF FreeItems, EntryWithout, TypeOK
<1>2. id' \in [Contents -> Nat]
  BY DEF FreeItems, TypeOK
<1>3. /\ relation' = [i \in Items |-> IF i \in D THEN Null ELSE relation[i]]
      /\ content' = [i \in Items |-> IF i \in D THEN Null ELSE content[i]]
      /\ contents' \subseteq contents
  BY DEF FreeItems, Without
<1> QED
  BY <1>1, <1>2, <1>3 DEF TypeOK, Live

LEMMA DestroyItemStep ==
  ASSUME Structure, NEW x \in Live, DestroyItem(x)
  PROVE  Structure'
<1> USE NullAssumption DEF OrNull, NonNull
<1> DEFINE B == Reach(NonNull({down[x]}), Links)
           D == Subtree(x)
           r == relation[x]
<1>1. /\ \A y \in B : y \in Live /\ relation[y] = r
      /\ Closed(B, Links)
      /\ down[x] # Null => down[x] \in B
      /\ x \notin B
      /\ \A y \in Items \ B : /\ y # x => Links[y] \cap B = {}
                              /\ next[y] \notin B
      /\ next[x] # x
      /\ \A q \in Relations : head[q] \notin B /\ tail[q] \notin B
  BY BelowFacts
<1>2. D = {x} \cup B
  BY DEF Subtree
<1> HIDE DEF B, D, r
<1>3. /\ r \in Relations /\ r = relation[x] /\ x \in Items /\ x # Null
      /\ D \in SUBSET Items /\ Null \notin D
      /\ \A y \in D : y \in Live /\ relation[y] = r
  BY <1>1, <1>2 DEF r, Live, Structure, TypeOK
<1>4. FreeItems(D) /\ UNCHANGED <<utt, relations, name, lastId>>
  BY DEF DestroyItem, D
<1>5. /\ \A i \in Items \ D :
           /\ next'[i] = IF i = prev[x] THEN next[x] ELSE next[i]
           /\ prev'[i] = IF i = next[x] THEN prev[x] ELSE prev[i]
           /\ up'[i] = IF i = next[x] THEN up[x] ELSE up[i]
           /\ down'[i] = IF i = up[x] THEN next[x] ELSE down[i]
      /\ \A i \in D : next'[i] = Null /\ prev'[i] = Null /\ up'[i] = Null /\ down'[i] = Null
      /\ \A q \in Relations :
           /\ head'[q] = IF q = r /\ head[q] = x THEN next[x] ELSE head[q]
           /\ tail'[q] = IF q = r /\ tail[q] = x THEN prev[x] ELSE tail[q]
  BY <1>3 DEF DestroyItem, D, Without, NextAfter, PrevAfter, UpAfter, DownAfter, HeadAfter, TailAfter, r
<1>6. /\ Live' = Live \ D
      /\ \A i \in Items : /\ i \in D => relation'[i] = Null /\ content'[i] = Null
                          /\ i \notin D => relation'[i] = relation[i] /\ content'[i] = content[i]
  BY <1>3, <1>4, FreeTypes DEF Structure
<1>7. TypeOK'
  <2>1. /\ next' \in [Items -> OrNull(Items)] /\ prev' \in [Items -> OrNull(Items)]
        /\ up' \in [Items -> OrNull(Items)] /\ down' \in [Items -> OrNull(Items)]
    BY <1>3 DEF DestroyItem, D, Without, NextAfter, PrevAfter, UpAfter, DownAfter,
                Structure, TypeOK
  <2>2. head' \in [Relations -> OrNull(Items)] /\ tail' \in [Relations -> OrNull(Items)]
    BY <1>3 DEF DestroyItem, HeadAfter, TailAfter, Structure, TypeOK
  <2> QED
    BY <1>3, <1>4, <2>1, <2>2, FreeTypes DEF Structure, TypeOK
\* the pointers of the items left do not lead into D but to x itself
<1>8. \A i \in Live \ D :
        /\ i \in Items /\ relation[i] \in Relations
        /\ next[i] \in D => next[i] = x /\ i = prev[x]
        /\ down[i] \in D => down[i] = x /\ i = up[x]
        /\ prev[i] \in D => prev[i] = x /\ i = next[x]
        /\ up[i] \notin D
  <2> SUFFICES ASSUME NEW i \in Live \ D
               PROVE  /\ i \in Items /\ relation[i] \in Relations
                      /\ next[i] \in D => next[i] = x /\ i = prev[x]
                      /\ down[i] \in D => down[i] = x /\ i = up[x]
                      /\ prev[i] \in D => prev[i] = x /\ i = next[x]
                      /\ up[i] \notin D
    OBVIOUS
  <2>1. i \in Items \ B /\ i # x
    BY <1>2 DEF Live
  <2>2. Links[i] \cap B = {} /\ Links[i] = NonNull({next[i], down[i]})
    BY <1>1, <2>1 DEF Links
  <2>3. next[i] \notin B /\ down[i] \notin B
    BY <1>3, <1>2, <2>2
  <2>4. \A y \in B : next[y] # i /\ down[y] # i
    BY <1>1, <1>2, <1>3, <2>1 DEF Closed, Links
  <2>5. up[i] # x
    BY <1>1, <1>3, <2>1, LinkFacts
  <2> QED
    BY <1>2, <1>3, <2>1, <2>3, <2>4, <2>5, LinkFacts
<1>9. /\ next[x] # Null => next[x] \in Live \ D
      /\ prev[x] # Null => prev[x] \in Live \ D
      /\ up[x] # Null => up[x] \in Live \ D
  <2>1. next[x] \notin D
    BY <1>1, <1>2, <1>3
  <2>2. prev[x] # Null => prev[x] \notin D
    <3>1. prev[x] # Null => prev[x] # x
      BY <1>1, LinkFacts
    <3>2. prev[x] # Null => x \in Links[prev[x]]
      BY <1>3, LinkFacts DEF Links
    <3> QED
      BY <1>1, <1>2, <3>1, <3>2 DEF Closed
  <2>3. up[x] # Null => up[x] \notin D
    <3>1. up[x] # Null => up[x] # x
      BY <1>1, <1>3, LinkFacts
    <3>2. up[x] # Null => up[x] \notin B
      BY <1>1, <1>2, <1>3, LinkFacts DEF Closed, Links
    <3> QED
      BY <1>2, <3>1, <3>2
  <2> QED
    BY <2>1, <2>2, <2>3, LinkFacts
<1>10. Clean'
  BY <1>3, <1>5, <1>6, <1>9, <1>8 DEF Structure, Clean, Live
<1>11. Linked'
  <2> SUFFICES ASSUME NEW i \in Live'
               PROVE  /\ next'[i] # Null => /\ relation'[next'[i]] = relation'[i]
                                            /\ prev'[next'[i]] = i
                      /\ prev'[i] # Null => /\ relation'[prev'[i]] = relation'[i]
                                            /\ next'[prev'[i]] = i
                                            /\ up'[i] = Null
                      /\ down'[i] # Null => /\ relation'[down'[i]] = relation'[i]
                                            /\ up'[down'[i]] = i
                      /\ up'[i] # Null => /\ relation'[up'[i]] = relation'[i]
                                          /\ down'[up'[i]] = i
                      /\ prev'[i] = Null /\ up'[i] = Null => head'[relation'[i]] = i
    BY DEF Linked
  <2>1. i \in Live \ D /\ i \in Items /\ relation'[i] = relation[i]
    BY <1>6, <1>8
  <2>2. \A j \in Live \ D : relation'[j] = relation[j]
    BY <1>6 DEF Live
  <2>3. CASE i = prev[x]
    BY <1>3, <1>5, <1>8, <1>9, <2>1, <2>2, <2>3, LinkFacts
  <2>4. CASE i = next[x]
    BY <1>3, <1>5, <1>8, <1>9, <2>1, <2>2, <2>4, LinkFacts
  <2>5. CASE i = up[x]
    <3>1. /\ prev[x] = Null /\ i # Null /\ i \in Live /\ down[i] = x /\ i # x
          /\ down'[i] = next[x]
      BY <1>2, <1>3, <1>5, <2>1, <2>5, LinkFacts DEF Live
    <3>2. i # next[x] /\ i # prev[x]
      BY <1>3, <3>1, NotBelowItself
    <3>3. /\ next'[i] = next[i] /\ prev'[i] = prev[i] /\ up'[i] = up[i]
      BY <1>5, <2>1, <3>2
    <3>4. next[i] # Null => next[i] # next[x] /\ next[i] \notin D
      BY <1>3, <1>8, <2>1, <3>1, <3>2, LinkFacts
    <3>5. prev[i] # Null => prev[i] \notin D /\ prev[i] # prev[x]
      BY <1>8, <2>1, <3>1, <3>2
    <3>6. up[i] # Null => up[i] \notin D /\ up[i] # up[x]
      BY <1>8, <2>1, <2>5, <3>1, <1>3, LinkFacts
    <3>7. next[x] # Null => up'[next[x]] = i /\ relation'[next[x]] = relation[i]
      BY <1>5, <1>9, <2>2, <2>5, <3>1, LinkFacts DEF Live
    <3>8. head[relation[i]] = i => head'[relation[i]] = i
      BY <1>3, <1>5, <1>8, <2>1, <3>1
    <3> QED
      BY <1>5, <1>9, <2>1, <2>2, <3>1, <3>2, <3>3, <3>4, <3>5, <3>6, <3>7, <3>8, LinkFacts
  <2>6. CASE i \notin {prev[x], next[x], up[x]}
    <3>1. /\ next[i] \notin D /\ down[i] \notin D /\ prev[i] \notin D /\ up[i] \notin D
      BY <1>8, <2>1, <2>6
    <3>2. /\ next[i] # Null => next[i] # next[x]
          /\ prev[i] # Null => prev[i] # prev[x]
          /\ up[i] # Null => up[i] # up[x]
      BY <1>3, <2>1, <2>6, <3>1, <1>2, LinkFacts
    <3>3. down[i] # Null => down[i] # next[x]
      BY <2>1, <1>3, LinkFacts
    <3>4. head[relation[i]] = i => head'[relation[i]] = i
      BY <1>3, <1>2, <1>5, <1>8, <2>1
    <3> QED
      BY <1>3, <1>5, <1>8, <1>9, <2>1, <2>2, <2>6, <3>1, <3>2, <3>3, <3>4, LinkFacts
  <2> QED
    BY <2>3, <2>4, <2>5, <2>6
\* a walk that entered D entered it at x, and left it at next[x]
<1>12. ASSUME NEW S \in SUBSET Items, Closed(S, Links'),
              NEW q \in Relations, NonNull({head'[q]}) \subseteq S,
              NEW i \in Live \ D, relation[i] = q
       PROVE  i \in S
  <2> DEFINE K == prev[x] \in S \/ up[x] \in S \/ (r = q /\ head[q] = x)
             U == (S \ D) \cup (IF K THEN D ELSE {})
  <2>1. K => next[x] = Null \/ next[x] \in S
    <3>1. ASSUME prev[x] \in S, next[x] # Null PROVE next[x] \in S
      <4>1. next'[prev[x]] = next[x] /\ prev[x] \in Items
        BY <1>5, <1>9, <3>1 DEF Live
      <4>2. next[x] \in Links'[prev[x]]
        BY <3>1, <4>1 DEF Links
      <4> QED
        BY <1>12, <3>1, <4>2 DEF Closed
    <3>2. ASSUME up[x] \in S, next[x] # Null PROVE next[x] \in S
      <4>1. down'[up[x]] = next[x] /\ up[x] \in Items
        BY <1>5, <1>9, <3>2 DEF Live
      <4>2. next[x] \in Links'[up[x]]
        BY <3>2, <4>1 DEF Links
      <4> QED
        BY <1>12, <3>2, <4>2 DEF Closed
    <3>3. ASSUME r = q, head[q] = x, next[x] # Null PROVE next[x] \in S
      BY <1>5, <3>3, <1>12
    <3> QED
      BY <3>1, <3>2, <3>3
  <2>2. NonNull({head[q]}) \subseteq U
    <3> SUFFICES ASSUME head[q] # Null PROVE head[q] \in U
      OBVIOUS
    <3>1. CASE head[q] = x
      BY <1>2, <1>3, <3>1, EndFacts
    <3>2. CASE head[q] # x
      BY <1>1, <1>2, <1>5, <1>12, <3>2
    <3> QED
      BY <3>1, <3>2
  <2>3. ASSUME NEW y \in U, NEW w \in Links[y] PROVE w \in U
    <3>1. w # Null /\ (w = next[y] \/ w = down[y]) /\ y \in Items
      BY <1>3, <2>3 DEF Links
    <3>2. CASE y \in S \ D
      <4>1. y \in Live
        BY <3>1 DEF Live, Structure, Clean
      <4>2. CASE w \in D
        BY <1>2, <1>8, <3>1, <3>2, <4>1, <4>2
      <4>3. CASE w \notin D
        <5>1. w = next'[y] \/ w = down'[y]
          BY <1>2, <1>3, <1>5, <3>1, <3>2, <4>1, <4>3, LinkFacts
        <5>2. w \in Links'[y]
          BY <3>1, <5>1 DEF Links
        <5> QED
          BY <1>12, <3>2, <4>3, <5>2 DEF Closed
      <4> QED
        BY <4>2, <4>3
    <3>3. CASE y \in B /\ K
      BY <1>1, <1>2, <2>3, <3>3 DEF Closed
    <3>4. CASE y = x /\ K
      BY <1>1, <1>2, <1>9, <2>1, <3>1, <3>4
    <3> QED
      BY <1>2, <2>3, <3>2, <3>3, <3>4
  <2>4. Closed(U, Links) /\ U \in SUBSET Items
    <3>1. U \in SUBSET Items
      BY <1>3
    <3>2. \A y \in U : Links[y] \subseteq U
      BY <2>3
    <3> QED
      BY <3>1, <3>2 DEF Closed
  <2> HIDE DEF U
  <2>5. i \in U
    BY <1>12, <2>2, <2>4, ReachLeast DEF Structure, Reached, Tree
  <2> QED
    BY <1>12, <2>5 DEF U
<1>13. Reached'
  <2> SUFFICES ASSUME NEW i \in Live'
               PROVE  name'[relation'[i]] # Null /\ i \in Tree(relation[i])'
    BY DEF Reached
  <2>1. i \in Live \ D /\ i \in Items /\ relation'[i] = relation[i] /\ relation[i] \in Relations
    BY <1>6, <1>8
  <2>2. name'[relation'[i]] # Null
    BY <1>4, <2>1 DEF Structure, Reached
  <2>3. i \in Reach(NonNull({head'[relation'[i]]}), Links')
    BY <1>12, <2>1 DEF Reach
  <2> QED
    BY <2>2, <2>3 DEF Tree
\* the tail, if it is x, is not the only item of the top level
<1>14. /\ tail[r] = x /\ head[r] # x => prev[x] # Null
       /\ head[r] = x /\ next[x] = Null => tail[r] = x
  <2>1. ASSUME tail[r] = x, head[r] # x, prev[x] = Null PROVE FALSE
    <3>1. Closed(Items \ {x}, Siblings)
      <4> SUFFICES ASSUME NEW y \in Items \ {x}, next[y] = x PROVE FALSE
        BY WalkTypes DEF Closed, Siblings, Structure
      <4>1. y \in Live
        BY <1>3 DEF Structure, Clean, Live
      <4> QED
        BY <1>3, <2>1, <4>1, LinkFacts DEF Live
    <3>2. head[r] # Null /\ head[r] \in Items \ {x}
      BY <1>3, <2>1, EndFacts DEF Live
    <3> QED
      BY <1>3, <2>1, <3>1, <3>2, TailReached
  <2>2. ASSUME head[r] = x, next[x] = Null PROVE tail[r] = x
    <3>1. Closed({x}, Siblings)
      BY <1>3, <2>2 DEF Closed, Siblings
    <3> QED
      BY <1>3, <2>2, <3>1, TailReached
  <2> QED
    BY <2>1, <2>2
<1>15. ASSUME NEW q \in Relations, head'[q] # Null
       PROVE  /\ head[q] # Null /\ tail'[q] \in Items
              /\ tail[q] = x => q = r /\ head[q] # x /\ prev[x] # Null
              /\ head[q] = x => q = r
  <2>1. head[q] = x \/ tail[q] = x => q = r
    BY <1>3, EndFacts
  <2>2. head[q] # Null
    BY <1>3, <1>5, <1>15
  <2>3. tail[q] = x => head[q] # x
    BY <1>3, <1>5, <1>15, <2>1, <2>2, EndFacts
  <2>4. tail[q] = x => prev[x] # Null
    BY <1>14, <2>1, <2>3
  <2>5. tail'[q] \in Items
    BY <1>3, <1>5, <1>9, <2>2, <2>4, EndFacts DEF Live
  <2> QED
    BY <2>1, <2>2, <2>3, <2>4, <2>5
<1>16. ASSUME NEW q \in Relations, head'[q] # Null
       PROVE  tail'[q] \in Reach({head'[q]}, Siblings')
  <2> SUFFICES ASSUME NEW S \in SUBSET Items, head'[q] \in S, Closed(S, Siblings')
               PROVE  tail'[q] \in S
    BY <1>15, <1>16 DEF Reach
  <2> DEFINE K == prev[x] \in S \/ head[q] = x
             U == (S \ D) \cup (IF K THEN {x} ELSE {})
  <2>1. K => next[x] = Null \/ next[x] \in S
    <3>1. ASSUME prev[x] \in S, next[x] # Null PROVE next[x] \in S
      <4>1. next'[prev[x]] = next[x] /\ prev[x] \in Items
        BY <1>5, <1>9, <3>1 DEF Live
      <4>2. next[x] \in Siblings'[prev[x]]
        BY <3>1, <4>1 DEF Siblings
      <4> QED
        BY <3>1, <4>2 DEF Closed
    <3>2. ASSUME head[q] = x, next[x] # Null PROVE next[x] \in S
      BY <1>5, <1>15, <1>16, <3>2
    <3> QED
      BY <3>1, <3>2
  <2>2. head[q] \in U
    <3>1. CASE head[q] = x
      BY <3>1
    <3>2. CASE head[q] # x
      BY <1>1, <1>2, <1>5, <3>2
    <3> QED
      BY <3>1, <3>2
  <2>3. ASSUME NEW y \in U, NEW w \in Siblings[y] PROVE w \in U
    <3>1. w # Null /\ w = next[y] /\ y \in Items
      BY <1>3, <2>3 DEF Siblings
    <3>2. CASE y \in S \ D
      <4>1. y \in Live
        BY <3>1 DEF Live, Structure, Clean
      <4>2. CASE w \in D
        BY <1>2, <1>8, <3>1, <3>2, <4>1, <4>2
      <4>3. CASE w \notin D
        <5>1. w = next'[y]
          BY <1>2, <1>3, <1>5, <3>1, <3>2, <4>1, <4>3, LinkFacts
        <5>2. w \in Siblings'[y]
          BY <3>1, <5>1 DEF Siblings
        <5> QED
          BY <3>2, <4>3, <5>2 DEF Closed
      <4> QED
        BY <4>2, <4>3
    <3>3. CASE y = x /\ K
      BY <1>1, <1>2, <1>9, <2>1, <3>1, <3>3
    <3> QED
      BY <1>2, <2>3, <3>2, <3>3
  <2>4. Closed(U, Siblings) /\ U \in SUBSET Items
    <3>1. U \in SUBSET Items
      BY <1>3
    <3>2. \A y \in U : Siblings[y] \subseteq U
      BY <2>3
    <3> QED
      BY <3>1, <3>2 DEF Closed
  <2> HIDE DEF U
  <2>5. tail[q] \in U
    BY <1>15, <1>16, <2>2, <2>4, TailReached
  <2>6. CASE tail[q] = x
    BY <1>2, <1>5, <1>15, <1>16, <2>5, <2>6 DEF U
  <2>7. CASE tail[q] # x
    BY <1>5, <2>5, <2>7 DEF U
  <2> QED
    BY <2>6, <2>7
<1>17. Ends'
  <2> SUFFICES ASSUME NEW q \in Relations
               PROVE  /\ head'[q] = Null <=> tail'[q] = Null
                      /\ head'[q] # Null =>
                           /\ relation'[head'[q]] = q /\ relation'[tail'[q]] = q
                           /\ prev'[head'[q]] = Null /\ up'[head'[q]] = Null
                           /\ next'[tail'[q]] = Null
    BY <1>16 DEF Ends
  <2>1. CASE q = r /\ head[q] = x
    <3>1. head'[q] = next[x] /\ prev[x] = Null /\ up[x] = Null
      BY <1>3, <1>5, <2>1, EndFacts
    <3>2. CASE next[x] = Null
      BY <1>5, <1>14, <2>1, <3>1, <3>2
    <3>3. CASE next[x] # Null
      <4>1. tail[q] # x /\ tail[q] # Null /\ next[tail[q]] = Null /\ relation[tail[q]] = q
            /\ tail[q] \in Live
        BY <1>3, <2>1, <3>3, EndFacts
      <4>2. tail'[q] = tail[q] /\ tail[q] \in Items \ D
        BY <1>1, <1>2, <1>5, <4>1 DEF Live
      <4> QED
        BY <1>3, <1>5, <1>6, <1>9, <2>1, <3>1, <3>3, <4>1, <4>2, LinkFacts DEF Live
    <3> QED
      BY <3>2, <3>3
  <2>2. CASE head[q] = Null
    BY <1>3, <1>5, <2>2, EndFacts
  <2>3. CASE head[q] # Null /\ head[q] # x
    <3>1. /\ head'[q] = head[q] /\ head[q] \in Items \ D /\ relation[head[q]] = q
          /\ prev[head[q]] = Null /\ up[head[q]] = Null
      BY <1>1, <1>2, <1>5, <2>3, EndFacts DEF Live
    <3>2. head[q] # next[x]
      BY <1>3, <2>3, <3>1, LinkFacts
    <3>3. /\ relation'[head'[q]] = q /\ prev'[head'[q]] = Null /\ up'[head'[q]] = Null
      BY <1>5, <1>6, <3>1, <3>2
    <3>4. /\ tail[q] # Null /\ tail[q] \in Live /\ relation[tail[q]] = q
          /\ next[tail[q]] = Null /\ tail[q] \notin B
      BY <1>1, <2>3, EndFacts
    <3>5. CASE tail[q] = x
      <4>1. q = r /\ prev[x] # Null /\ tail'[q] = prev[x]
        BY <1>3, <1>5, <1>15, <2>3, <3>1, <3>5
      <4> QED
        BY <1>3, <1>5, <1>6, <1>9, <2>3, <3>1, <3>3, <3>4, <3>5, <4>1, LinkFacts DEF Live
    <3>6. CASE tail[q] # x
      <4>1. tail'[q] = tail[q] /\ tail[q] \in Items \ D /\ tail[q] # prev[x]
        BY <1>2, <1>3, <1>5, <3>4, <3>6, LinkFacts DEF Live
      <4> QED
        BY <1>5, <1>6, <2>3, <3>1, <3>3, <3>4, <4>1
    <3> QED
      BY <3>5, <3>6
  <2> QED
    BY <2>1, <2>2, <2>3, <1>3, EndFacts
<1> QED
  BY <1>7, <1>10, <1>11, <1>13, <1>17 DEF Structure

LEMMA TreeFacts ==
  ASSUME Structure, NEW q \in Relations
  PROVE  Tree(q) = {i \in Live : relation[i] = q}
<1>1. {i \in Live : relation[i] = q} \subseteq Tree(q)
  BY DEF Structure, Reached
<1>2. Tree(q) \subseteq {i \in Live : relation[i] = q}
  <2>1. NonNull({head[q]}) \subseteq {i \in Live : relation[i] = q}
    BY EndFacts DEF NonNull
  <2>2. {i \in Live : relation[i] = q} \in SUBSET Items
    BY DEF Live
  <2> QED
    BY <2>1, <2>2, RelationClosed, ReachLeast DEF Tree
<1> QED
  BY <1>1, <1>2

LEMMA DestroyRelationsStep ==
  ASSUME Structure, NEW R \in SUBSET Relations, DestroyRelations(R),
         utt' \in BOOLEAN, relations' \in [Names -> OrNull(Relations)], lastId' \in Nat
  PROVE  Structure'
<1> USE NullAssumption DEF OrNull, NonNull
<1> DEFINE D == UNION {Tree(r) : r \in R}
<1>1. D = {i \in Live : relation[i] \in R}
  BY TreeFacts
<1>2. /\ FreeItems(D)
      /\ next' = Without(next, D) /\ prev' = Without(prev, D)
      /\ up' = Without(up, D) /\ down' = Without(down, D)
      /\ head' = [r \in Relations |-> IF r \in R THEN Null ELSE head[r]]
      /\ tail' = [r \in Relations |-> IF r \in R THEN Null ELSE tail[r]]
      /\ name' = [r \in Relations |-> IF r \in R THEN Null ELSE name[r]]
  BY DEF DestroyRelations
<1> HIDE DEF D
<1>3. D \in SUBSET Items /\ Null \notin D
  BY <1>1 DEF Live
<1>4. /\ \A i \in Items : i \in D =>
           next'[i] = Null /\ prev'[i] = Null /\ up'[i] = Null /\ down'[i] = Null
      /\ \A i \in Items : i \notin D => /\ next'[i] = next[i] /\ prev'[i] = prev[i]
                                        /\ up'[i] = up[i] /\ down'[i] = down[i]
  BY <1>2 DEF Without
<1>5. /\ \A q \in R : head'[q] = Null /\ tail'[q] = Null
      /\ \A q \in Relations \ R : head'[q] = head[q] /\ tail'[q] = tail[q] /\ name'[q] = name[q]
  BY <1>2
<1>6. /\ Live' = Live \ D
      /\ \A i \in Items : /\ i \in D => relation'[i] = Null /\ content'[i] = Null
                          /\ i \notin D => relation'[i] = relation[i] /\ content'[i] = content[i]
  BY <1>2, <1>3, FreeTypes DEF Structure
<1>7. TypeOK'
  <2>1. /\ next' \in [Items -> OrNull(Items)] /\ prev' \in [Items -> OrNull(Items)]
        /\ up' \in [Items -> OrNull(Items)] /\ down' \in [Items -> OrNull(Items)]
    BY <1>2 DEF Without, Structure, TypeOK
  <2>2. /\ head' \in [Relations -> OrNull(Items)] /\ tail' \in [Relations -> OrNull(Items)]
        /\ name' \in [Relations -> OrNull(Names)]
    BY <1>2 DEF Structure, TypeOK
  <2> QED
    BY <1>2, <1>3, <2>1, <2>2, FreeTypes DEF Structure, TypeOK
<1>8. Clean'
  BY <1>4, <1>6 DEF Structure, Clean, Live
\* no pointer leads out of a relation
<1>9. \A i \in Live \ D :
        /\ i \in Items /\ relation[i] \in Relations \ R /\ relation'[i] = relation[i]
        /\ next'[i] = next[i] /\ prev'[i] = prev[i] /\ up'[i] = up[i] /\ down'[i] = down[i]
        /\ next[i] # Null => next[i] \in Live \ D
        /\ prev[i] # Null => prev[i] \in Live \ D
        /\ up[i] # Null => up[i] \in Live \ D
        /\ down[i] # Null => down[i] \in Live \ D
  BY <1>1, <1>4, <1>6, LinkFacts
<1>10. Linked'
  <2> SUFFICES ASSUME NEW i \in Live'
               PROVE  /\ next'[i] # Null => /\ relation'[next'[i]] = relation'[i]
                                            /\ prev'[next'[i]] = i
                      /\ prev'[i] # Null => /\ relation'[prev'[i]] = relation'[i]
                                            /\ next'[prev'[i]] = i
                                            /\ up'[i] = Null
                      /\ down'[i] # Null => /\ relation'[down'[i]] = relation'[i]
                                            /\ up'[down'[i]] = i
                      /\ up'[i] # Null => /\ relation'[up'[i]] = relation'[i]
                                          /\ down'[up'[i]] = i
                      /\ prev'[i] = Null /\ up'[i] = Null => head'[relation'[i]] = i
    BY DEF Linked
  <2>1. i \in Live \ D /\ i \in Live
    BY <1>6
  <2>2. head'[relation'[i]] = head[relation[i]]
    BY <1>5, <1>9, <2>1
  <2> QED
    BY <1>9, <2>1, <2>2, LinkFacts
<1>11. Links \in [Items -> SUBSET Items] /\ Siblings \in [Items -> SUBSET Items]
  BY WalkTypes DEF Structure
<1>12. \A i \in Items : i \notin D => Links'[i] = Links[i] /\ Siblings'[i] = Siblings[i]
  BY <1>4 DEF Links, Siblings
\* a set closed under the pointers left is closed under the old ones but for D
<1>13. ASSUME NEW S \in SUBSET Items
       PROVE  /\ Closed(S, Links') => Closed(S \cup D, Links)
              /\ Closed(S, Siblings') => Closed(S \cup D, Siblings)
  <2>1. ASSUME NEW y \in D PROVE Links[y] \subseteq D /\ Siblings[y] \subseteq D
    <3>1. y \in Live /\ relation[y] \in R /\ y \in Items
      BY <1>1 DEF Live
    <3>2. /\ next[y] # Null => next[y] \in Live /\ relation[next[y]] \in R
          /\ down[y] # Null => down[y] \in Live /\ relation[down[y]] \in R
      BY <3>1, LinkFacts
    <3> QED
      BY <1>1, <3>1, <3>2 DEF Links, Siblings
  <2>2. Closed(S, Links') => \A y \in S \ D : Links[y] \subseteq S
    BY <1>12 DEF Closed
  <2>3. Closed(S, Siblings') => \A y \in S \ D : Siblings[y] \subseteq S
    BY <1>12 DEF Closed
  <2> QED
    BY <2>1, <2>2, <2>3 DEF Closed
<1>14. Reached'
  <2> SUFFICES ASSUME NEW i \in Live'
               PROVE  name'[relation'[i]] # Null /\ i \in Tree(relation[i])'
    BY DEF Reached
  <2>1. i \in Live \ D /\ i \in Live
    BY <1>6
  <2> DEFINE q == relation[i]
  <2>2. q \in Relations \ R /\ relation'[i] = q /\ i \in Items
    BY <1>9, <2>1
  <2>3. name'[q] # Null /\ head'[q] = head[q]
    BY <1>5, <2>1, <2>2 DEF Structure, Reached
  <2>4. ASSUME NEW S \in SUBSET Items, NonNull({head'[q]}) \subseteq S, Closed(S, Links')
        PROVE  i \in S
    <3>1. Closed(S \cup D, Links) /\ S \cup D \in SUBSET Items
      BY <1>3, <1>13, <2>4
    <3>2. NonNull({head[q]}) \subseteq S \cup D
      BY <2>3, <2>4
    <3>3. Tree(q) \subseteq S \cup D
      BY <3>1, <3>2, ReachLeast DEF Tree
    <3> QED
      BY <2>1, <3>3 DEF Structure, Reached
  <2>5. i \in Reach(NonNull({head'[q]}), Links')
    BY <2>2, <2>4 DEF Reach
  <2> QED
    BY <2>2, <2>3, <2>5 DEF Tree
<1>15. ASSUME NEW q \in Relations, head'[q] # Null
       PROVE  /\ q \notin R /\ head'[q] = head[q] /\ tail'[q] = tail[q] /\ head[q] # Null
              /\ head[q] \in Live \ D /\ tail[q] \in Live \ D
              /\ relation[head[q]] = q /\ prev[head[q]] = Null /\ up[head[q]] = Null
              /\ relation[tail[q]] = q /\ next[tail[q]] = Null
  <2>1. q \notin R /\ head'[q] = head[q] /\ tail'[q] = tail[q] /\ head[q] # Null
    BY <1>5, <1>15
  <2> QED
    BY <1>1, <2>1, EndFacts
<1>16. ASSUME NEW q \in Relations, head'[q] # Null
       PROVE  tail'[q] \in Reach({head'[q]}, Siblings')
  <2> SUFFICES ASSUME NEW S \in SUBSET Items, {head'[q]} \subseteq S, Closed(S, Siblings')
               PROVE  tail'[q] \in S
    BY <1>15, <1>16 DEF Reach, Live
  <2>1. Closed(S \cup D, Siblings) /\ S \cup D \in SUBSET Items
    BY <1>3, <1>13
  <2>2. head[q] \in S \cup D
    BY <1>15, <1>16
  <2>3. tail[q] \in S \cup D
    BY <1>15, <1>16, <2>1, <2>2, TailReached
  <2> QED
    BY <1>15, <1>16, <2>3
<1>17. Ends'
  <2> SUFFICES ASSUME NEW q \in Relations
               PROVE  /\ head'[q] = Null <=> tail'[q] = Null
                      /\ head'[q] # Null =>
                           /\ relation'[head'[q]] = q /\ relation'[tail'[q]] = q
                           /\ prev'[head'[q]] = Null /\ up'[head'[q]] = Null
                           /\ next'[tail'[q]] = Null
    BY <1>16 DEF Ends
  <2>1. head'[q] = Null <=> tail'[q] = Null
    BY <1>5, EndFacts
  <2> QED
    BY <1>9, <1>15, <2>1
<1> QED
  BY <1>7, <1>8, <1>10, <1>14, <1>17 DEF Structure

-----------------------------------------------------------------------------
(* The structure is inductive.                                              *)

LEMMA StructureInit == Init => Structure
<1> SUFFICES ASSUME Init PROVE Structure
  OBVIOUS
<1>1. Live = {} /\ TypeOK
  BY NullAssumption DEF Init, TypeOK, Live, OrNull
<1>2. Clean
  BY DEF Init, Clean
<1>3. Linked /\ Reached
  BY <1>1 DEF Linked, Reached
<1>4. Ends
  BY DEF Init, Ends
<1> QED
  BY <1>1, <1>2, <1>3, <1>4 DEF Structure

(* Names and bookkeeping of the utterance do not touch the pointers, and   *)
(* a relation that takes its name had no items.                            *)
LEMMA SamePointers ==
  ASSUME Structure, UNCHANGED <<head, tail, itemVars, contentVars>>,
         utt' \in BOOLEAN, relations' \in [Names -> OrNull(Relations)], lastId' \in Nat,
         name' \in [Relations -> OrNull(Names)],
         \A r \in Relations : name[r] # Null => name'[r] # Null
  PROVE  Structure'
<1>1. /\ relation' = relation /\ content' = content /\ next' = next /\ prev' = prev
      /\ up' = up /\ down' = down /\ head' = head /\ tail' = tail
      /\ contents' = contents /\ entry' = entry /\ id' = id
  BY DEF itemVars, contentVars
<1>2. TypeOK' /\ Clean'
  BY <1>1 DEF Structure, TypeOK, Clean
<1>3. Live' = Live /\ Links' = Links /\ Siblings' = Siblings
  BY <1>1 DEF Live, Links, Siblings
<1>4. Linked'
  BY <1>1, <1>3 DEF Structure, Linked
<1>5. Ends'
  BY <1>1, <1>3 DEF Structure, Ends, Reach
<1>6. Reached'
  <2> SUFFICES ASSUME NEW i \in Live PROVE name'[relation[i]] # Null /\ i \in Tree(relation[i])'
    BY <1>1, <1>3 DEF Reached
  <2>1. name[relation[i]] # Null /\ i \in Tree(relation[i]) /\ relation[i] \in Relations
    BY LinkFacts DEF Structure, Reached
  <2> QED
    BY <1>1, <1>3, <2>1 DEF Tree, Reach
<1> QED
  BY <1>2, <1>4, <1>5, <1>6 DEF Structure

LEMMA StructureNext == Structure /\ [Next]_vars => Structure'
<1> SUFFICES ASSUME Structure, [Next]_vars PROVE Structure'
  OBVIOUS
<1>1. CASE InitUtterance
  BY <1>1, SamePointers DEF InitUtterance, Structure, TypeOK
<1>2. CASE DestroyUtt
  <2>1. NonNull({relations[m] : m \in Names}) \in SUBSET Relations
    BY DEF Structure, TypeOK, NonNull, OrNull
  <2>2. /\ utt' \in BOOLEAN /\ relations' \in [Names -> OrNull(Relations)] /\ lastId' \in Nat
        /\ DestroyRelations(NonNull({relations[m] : m \in Names}))
    BY <1>2 DEF DestroyUtt, OrNull
  <2> QED
    BY <2>1, <2>2, DestroyRelationsStep
<1>3. ASSUME NEW r \in Relations, NEW m \in Names, UttNewRelation(r, m)
      PROVE  Structure'
  <2>1. relations' \in [Names -> OrNull(Relations)]
    BY <1>3 DEF UttNewRelation, UttSetRelation, Structure, TypeOK, OrNull
  <2>2. /\ name' \in [Relations -> OrNull(Names)]
        /\ \A q \in Relations : name[q] # Null => name'[q] # Null
    BY <1>3 DEF UttNewRelation, Structure, TypeOK, OrNull
  <2>3. utt' \in BOOLEAN /\ lastId' \in Nat
    BY <1>3 DEF UttNewRelation, Structure, TypeOK
  <2> QED
    BY <1>3, <2>1, <2>2, <2>3, SamePointers DEF UttNewRelation
<1>4. ASSUME NEW m \in Names, UttDeleteRelation(m)
      PROVE  Structure'
  <2>1. {relations[m]} \in SUBSET Relations
    BY <1>4 DEF UttDeleteRelation, Structure, TypeOK, OrNull
  <2>2. /\ utt' \in BOOLEAN /\ relations' \in [Names -> OrNull(Relations)] /\ lastId' \in Nat
        /\ DestroyRelations({relations[m]})
    BY <1>4 DEF UttDeleteRelation, Structure, TypeOK, OrNull
  <2> QED
    BY <2>1, <2>2, DestroyRelationsStep
<1>5. ASSUME NEW n \in Items \ Live, NEW s \in OrNull(Live), Create(n, s)
      PROVE  Structure'
  BY <1>5, CreateStep
<1>6. ASSUME NEW x \in Live, DestroyItem(x)
      PROVE  Structure'
  BY <1>6, DestroyItemStep
<1>7. CASE UNCHANGED vars
  BY <1>7, SamePointers DEF vars, Structure, TypeOK
<1> QED
  BY <1>1, <1>2, <1>3, <1>4, <1>5, <1>6, <1>7 DEF Next

LEMMA StructureAlways == Spec => []Structure
BY StructureInit, StructureNext, PTL DEF Spec

(* The variables keep their types, for any utterance.                      *)
THEOREM HRGTypeCorrect == Spec => []TypeOK
<1>1. Structure => TypeOK
  BY DEF Structure
<1> QED
  BY <1>1, StructureAlways, PTL

(* item.c: creating and deleting items keeps the four pointers of every    *)
(* item consistent, whatever contents and names the callers reuse.         *)
THEOREM PointersConsistent == Spec => []Linked
<1>1. Structure => Linked
  BY DEF Structure
<1> QED
  BY <1>1, StructureAlways, PTL

(* relation.c: head and tail are the ends of the top level.                *)
THEOREM EndsCorrect == Spec => []Ends
<1>1. Structure => Ends
  BY DEF Structure
<1> QED
  BY <1>1, StructureAlways, PTL

(* relation.c: deleting a relation meets all its items.                    *)
THEOREM NothingLost == Spec => []Reached
<1>1. Structure => Reached
  BY DEF Structure
<1> QED
  BY <1>1, StructureAlways, PTL

-----------------------------------------------------------------------------
(* Contents and items, when no content is put twice under one name.        *)

LEMMA InitAgrees ==
  ASSUME Structure, ContentAgrees, ShareOnce, UNCHANGED name,
         NEW n \in Items \ Live, NEW r \in LiveRelations, NEW s \in OrNull(Live),
         ItemInit(n, r, s)
  PROVE  ContentAgrees'
<1> USE NullAssumption DEF OrNull, NonNull
<1>1. PICK c \in Contents :
        /\ \/ s = Null /\ c \notin contents
           \/ s # Null /\ c = content[s] /\ ~In(s, r)
        /\ relation' = [relation EXCEPT ![n] = r]
        /\ content' = [content EXCEPT ![n] = c]
        /\ contents' = contents \cup {c}
        /\ entry' = [entry EXCEPT ![c][name[r]] = n]
  BY DEF ItemInit
<1>2. /\ r \in Relations /\ name[r] \in Names /\ n \in Items /\ n # Null /\ r # Null
      /\ relation[n] = Null
  BY DEF LiveRelations, Structure, TypeOK, Live
<1>3. \A i \in Live : /\ i \in Items /\ i # n /\ relation[i] \in Relations
                      /\ content[i] \in contents /\ content[i] \in Contents
                      /\ name[relation[i]] \in Names
                      /\ entry[content[i]][name[relation[i]]] = i
  BY <1>2, LinkFacts DEF ContentAgrees, Structure, TypeOK, Reached, Live
<1>4. \A d \in Contents, m \in Names : entry[d][m] # Null =>
        entry[d][m] \in Live /\ content[entry[d][m]] = d /\ name[relation[entry[d][m]]] = m
  BY DEF ContentAgrees
\* the place of the new item was free
<1>5. entry[c][name[r]] = Null
  <2>1. CASE s = Null /\ c \notin contents
    BY <1>2, <1>3, <1>4, <2>1
  <2>2. CASE s # Null /\ c = content[s] /\ ~In(s, r)
    BY <2>2 DEF In
  <2> QED
    BY <1>1, <2>1, <2>2
<1>6. /\ entry'[c][name[r]] = n
      /\ \A d \in Contents, m \in Names :
           d # c \/ m # name[r] => entry'[d][m] = entry[d][m]
  BY <1>1, <1>2 DEF Structure, TypeOK
<1>7. /\ Live' = Live \cup {n} /\ relation'[n] = r /\ content'[n] = c
      /\ \A i \in Live : relation'[i] = relation[i] /\ content'[i] = content[i]
  BY <1>1, <1>2, <1>3 DEF Structure, TypeOK, Live
<1>8. ASSUME NEW i \in Live'
      PROVE  content'[i] \in contents' /\ entry'[content'[i]][name[relation'[i]]] = i
  <2>1. CASE i = n
    BY <1>1, <1>6, <1>7, <2>1
  <2>2. CASE i # n
    <3>1. i \in Live /\ relation'[i] = relation[i] /\ content'[i] = content[i]
      BY <1>7, <1>8, <2>2
    <3>2. content[i] # c \/ name[relation[i]] # name[r]
      BY <1>3, <1>5, <3>1 DEF Live
    <3> QED
      BY <1>1, <1>3, <1>6, <3>1, <3>2
  <2> QED
    BY <2>1, <2>2
<1>9. ASSUME NEW d \in Contents, NEW m \in Names, entry'[d][m] # Null
      PROVE  /\ entry'[d][m] \in Live' /\ content'[entry'[d][m]] = d
             /\ name[relation'[entry'[d][m]]] = m
  <2>1. CASE d = c /\ m = name[r]
    BY <1>6, <1>7, <2>1
  <2>2. CASE d # c \/ m # name[r]
    BY <1>4, <1>6, <1>7, <1>9, <2>2
  <2> QED
    BY <2>1, <2>2
<1>10. ASSUME NEW d \in contents'
       PROVE  \E m \in Names : entry'[d][m] # Null
  <2>1. CASE d = c
    BY <1>2, <1>6, <2>1
  <2>2. CASE d # c
    <3>1. d \in contents /\ d \in Contents
      BY <1>1, <1>10, <2>2 DEF Structure, TypeOK
    <3>2. PICK m \in Names : entry[d][m] # Null
      BY <3>1 DEF ContentAgrees
    <3> QED
      BY <1>6, <2>2, <3>1, <3>2
  <2> QED
    BY <2>1, <2>2
<1> QED
  BY <1>8, <1>9, <1>10 DEF ContentAgrees

LEMMA FreeAgrees ==
  ASSUME Structure, ContentAgrees, NEW D \in SUBSET Live, FreeItems(D),
         \A i \in Live \ D : name'[relation[i]] = name[relation[i]]
  PROVE  ContentAgrees'
<1> USE NullAssumption DEF OrNull, NonNull
<1>1. D \in SUBSET Items
  BY DEF Live
<1>2. /\ Live' = Live \ D
      /\ \A i \in Live \ D : relation'[i] = relation[i] /\ content'[i] = content[i]
  BY <1>1, FreeTypes DEF Structure, Live
<1>3. /\ entry' = EntryWithout(D)
      /\ contents' = contents \ Unreferenced(D)
  BY DEF FreeItems
<1>4. \A i \in Live : /\ i # Null
                      /\ content[i] \in contents /\ content[i] \in Contents
                      /\ name[relation[i]] \in Names
                      /\ entry[content[i]][name[relation[i]]] = i
  BY LinkFacts DEF ContentAgrees, Structure, TypeOK, Reached, Live
<1>5. \A c \in Contents, m \in Names :
        entry'[c][m] = IF \E d \in D : content[d] = c /\ name[relation[d]] = m
                       THEN Null ELSE entry[c][m]
  BY <1>3 DEF EntryWithout
<1>6. \A i \in Live \ D : entry'[content[i]][name[relation[i]]] = i
  BY <1>4, <1>5
<1>7. ASSUME NEW i \in Live'
      PROVE  content'[i] \in contents' /\ entry'[content'[i]][name'[relation'[i]]] = i
  <2>1. i \in Live \ D /\ i \in Live
    BY <1>2, <1>7
  <2>2. content[i] \notin Unreferenced(D)
    BY <1>3, <1>4, <1>6, <2>1 DEF Unreferenced
  <2> QED
    BY <1>2, <1>3, <1>4, <1>6, <2>1, <2>2
<1>8. ASSUME NEW c \in Contents, NEW m \in Names, entry'[c][m] # Null
      PROVE  /\ entry'[c][m] \in Live' /\ content'[entry'[c][m]] = c
             /\ name'[relation'[entry'[c][m]]] = m
  <2>1. /\ entry'[c][m] = entry[c][m]
        /\ ~ \E d \in D : content[d] = c /\ name[relation[d]] = m
    BY <1>5, <1>8
  <2>2. /\ entry[c][m] \in Live /\ content[entry[c][m]] = c
        /\ name[relation[entry[c][m]]] = m
    BY <1>8, <2>1 DEF ContentAgrees
  <2> QED
    BY <1>2, <2>1, <2>2
<1>9. ASSUME NEW c \in contents'
      PROVE  \E m \in Names : entry'[c][m] # Null
  <2>1. c \in contents /\ c \in Contents /\ c \notin Unreferenced(D)
    BY <1>3, <1>9 DEF Structure, TypeOK
  <2>2. CASE \E d \in D : content[d] = c
    BY <1>3, <2>1, <2>2 DEF Unreferenced
  <2>3. CASE ~ \E d \in D : content[d] = c
    BY <1>5, <2>1, <2>3 DEF ContentAgrees
  <2> QED
    BY <2>2, <2>3
<1> QED
  BY <1>7, <1>8, <1>9 DEF ContentAgrees

LEMMA AgreesInit == Init => ContentAgrees
BY DEF Init, ContentAgrees, Live

LEMMA AgreesNext ==
  ASSUME ShareOnce, Structure, ContentAgrees, [Next]_vars
  PROVE  ContentAgrees'
<1>1. ASSUME UNCHANGED <<itemVars, contentVars>>,
             \A r \in Relations : name[r] # Null => name'[r] = name[r]
      PROVE  ContentAgrees'
  <2>1. /\ relation' = relation /\ content' = content /\ contents' = contents
        /\ entry' = entry
    BY <1>1 DEF itemVars, contentVars
  <2>2. \A i \in Live : name'[relation[i]] = name[relation[i]]
    BY <1>1, LinkFacts DEF Structure, Reached
  <2> QED
    BY <2>1, <2>2 DEF ContentAgrees, Live
<1>2. ASSUME NEW R \in SUBSET Relations, DestroyRelations(R)
      PROVE  ContentAgrees'
  <2> DEFINE D == UNION {Tree(r) : r \in R}
  <2>1. D = {i \in Live : relation[i] \in R}
    BY TreeFacts
  <2>2. /\ FreeItems(D)
        /\ name' = [r \in Relations |-> IF r \in R THEN Null ELSE name[r]]
    BY <1>2 DEF DestroyRelations
  <2> HIDE DEF D
  <2>3. \A i \in Live \ D : name'[relation[i]] = name[relation[i]]
    BY <2>1, <2>2, LinkFacts
  <2>4. D \in SUBSET Live
    BY <2>1
  <2> QED
    BY <2>2, <2>3, <2>4, FreeAgrees
<1>3. CASE InitUtterance
  BY <1>1, <1>3 DEF InitUtterance
<1>4. CASE DestroyUtt
  <2>1. NonNull({relations[m] : m \in Names}) \in SUBSET Relations
    BY DEF Structure, TypeOK, NonNull, OrNull
  <2> QED
    BY <1>2, <1>4, <2>1 DEF DestroyUtt
<1>5. ASSUME NEW r \in Relations, NEW m \in Names, UttNewRelation(r, m)
      PROVE  ContentAgrees'
  <2>1. \A q \in Relations : name[q] # Null => name'[q] = name[q]
    BY <1>5 DEF UttNewRelation, Structure, TypeOK
  <2> QED
    BY <1>1, <1>5, <2>1 DEF UttNewRelation
<1>6. ASSUME NEW m \in Names, UttDeleteRelation(m)
      PROVE  ContentAgrees'
  <2>1. {relations[m]} \in SUBSET Relations
    BY <1>6 DEF UttDeleteRelation, Structure, TypeOK, OrNull
  <2> QED
    BY <1>2, <1>6, <2>1 DEF UttDeleteRelation
<1>7. ASSUME NEW n \in Items \ Live, NEW s \in OrNull(Live), Create(n, s)
      PROVE  ContentAgrees'
  <2>1. \A x \in Live : relation[x] \in LiveRelations
    BY LinkFacts DEF Structure, Reached, LiveRelations
  <2>2. \E r \in LiveRelations : ItemInit(n, r, s) /\ UNCHANGED name
    BY <1>7, <2>1 DEF Create, RelationAppend, RelationPrepend, ItemAppend, ItemPrepend,
                      ItemAddDaughter, FirstDaughter
  <2> QED
    BY <2>2, InitAgrees
<1>8. ASSUME NEW x \in Live, DestroyItem(x)
      PROVE  ContentAgrees'
  <2>1. Subtree(x) \in SUBSET Live
    BY BelowFacts DEF Subtree
  <2>2. FreeItems(Subtree(x)) /\ UNCHANGED name
    BY <1>8 DEF DestroyItem
  <2> QED
    BY <2>1, <2>2, FreeAgrees
<1>9. CASE UNCHANGED vars
  BY <1>1, <1>9 DEF vars
<1> QED
  BY <1>3, <1>4, <1>5, <1>6, <1>7, <1>8, <1>9 DEF Next

(* item.c, item_content.c: if callers share a content at most once under   *)
(* each name, SItemAs finds an item whenever there is one, no item is left *)
(* with a freed content, and no content is leaked.                         *)
THEOREM ContentsAgree ==
  ASSUME ShareOnce
  PROVE  Spec => []ContentAgrees
<1>1. Init => Structure /\ ContentAgrees
  BY StructureInit, AgreesInit
<1>2. Structure /\ ContentAgrees /\ [Next]_vars => Structure' /\ ContentAgrees'
  BY StructureNext, AgreesNext
<1> QED
  BY <1>1, <1>2, PTL DEF Spec

-----------------------------------------------------------------------------
(* Ids, when every relation is in the map of its utterance as well.        *)

InMap ==
  /\ SameNameDeleted
  /\ ~utt => \A m \in Names : relations[m] = Null

IdInv ==
  /\ \A c \in Contents : IF c \in contents THEN id[c] >= 1 /\ id[c] <= lastId ELSE id[c] = 0
  /\ \A c, d \in contents : id[c] = id[d] => c = d

LEMMA InMapNext ==
  ASSUME FreshNames, Structure, InMap, [Next]_vars
  PROVE  InMap'
<1> USE NullAssumption DEF OrNull
<1>1. /\ name \in [Relations -> OrNull(Names)] /\ relations \in [Names -> OrNull(Relations)]
      /\ Null \notin Names /\ Null \notin Relations
  BY DEF Structure, TypeOK
<1>2. \A r \in Relations : name[r] # Null => relations[name[r]] = r
  BY DEF InMap, SameNameDeleted, LiveRelations
<1>3. ASSUME UNCHANGED <<utt, relations, name>> PROVE InMap'
  BY <1>3 DEF InMap, SameNameDeleted, LiveRelations
<1>4. CASE InitUtterance
  BY <1>4 DEF InitUtterance, InMap, SameNameDeleted, LiveRelations
<1>5. CASE DestroyUtt
  <2> DEFINE R == NonNull({relations[m] : m \in Names})
  <2>1. /\ name' = [r \in Relations |-> IF r \in R THEN Null ELSE name[r]]
        /\ relations' = [m \in Names |-> Null]
    BY <1>5 DEF DestroyUtt, DestroyRelations
  <2>2. \A r \in Relations : name[r] # Null => name[r] \in Names /\ r \in R
    BY <1>1, <1>2 DEF NonNull
  <2> HIDE DEF R
  <2>3. \A r \in Relations : name'[r] = Null
    BY <1>1, <2>1, <2>2
  <2> QED
    BY <2>1, <2>3 DEF InMap, SameNameDeleted, LiveRelations
<1>6. ASSUME NEW r \in Relations, NEW m \in Names, UttNewRelation(r, m) PROVE InMap'
  <2>1. /\ name' = [name EXCEPT ![r] = m] /\ relations' = [relations EXCEPT ![m] = r]
        /\ relations[m] = Null /\ utt /\ utt' = utt
    BY <1>6 DEF UttNewRelation, UttSetRelation
  <2>2. ASSUME NEW q \in Relations, name'[q] # Null PROVE relations'[name'[q]] = q
    <3>1. CASE q = r
      BY <1>1, <2>1, <3>1
    <3>2. CASE q # r
      <4>1. name'[q] = name[q] /\ name[q] \in Names /\ relations[name[q]] = q
        BY <1>1, <1>2, <2>1, <2>2, <3>2
      <4> QED
        BY <1>1, <2>1, <4>1
    <3> QED
      BY <3>1, <3>2
  <2> QED
    BY <2>1, <2>2 DEF InMap, SameNameDeleted, LiveRelations
<1>7. ASSUME NEW m \in Names, UttDeleteRelation(m) PROVE InMap'
  <2>1. /\ name' = [r \in Relations |-> IF r \in {relations[m]} THEN Null ELSE name[r]]
        /\ relations' = [relations EXCEPT ![m] = Null] /\ utt' = utt
    BY <1>7 DEF UttDeleteRelation, DestroyRelations
  <2>2. ASSUME NEW q \in Relations, name'[q] # Null PROVE relations'[name'[q]] = q
    <3>1. name'[q] = name[q] /\ q # relations[m] /\ name[q] \in Names /\ relations[name[q]] = q
      BY <1>1, <1>2, <2>1, <2>2
    <3> QED
      BY <1>1, <2>1, <3>1
  <2>3. ~utt' => \A k \in Names : relations'[k] = Null
    BY <1>1, <2>1 DEF InMap
  <2> QED
    BY <2>2, <2>3 DEF InMap, SameNameDeleted, LiveRelations
<1>8. ASSUME NEW n \in Items \ Live, NEW s \in OrNull(Live), Create(n, s) PROVE InMap'
  <2>1. UNCHANGED <<utt, relations, name>>
    BY <1>8 DEF Create, RelationAppend, RelationPrepend, ItemAppend, ItemPrepend,
                ItemAddDaughter, FirstDaughter
  <2> QED
    BY <1>3, <2>1
<1>9. ASSUME NEW x \in Live, DestroyItem(x) PROVE InMap'
  BY <1>3, <1>9 DEF DestroyItem
<1>10. CASE UNCHANGED vars
  BY <1>3, <1>10 DEF vars
<1> QED
  BY <1>4, <1>5, <1>6, <1>7, <1>8, <1>9, <1>10 DEF Next

(* Without an utterance there is no content.                               *)
LEMMA NoContents ==
  Structure /\ ContentAgrees /\ InMap /\ ~utt => contents = {}
<1> SUFFICES ASSUME Structure, ContentAgrees, InMap, ~utt, NEW c \in contents PROVE FALSE
  OBVIOUS
<1> USE NullAssumption
<1>1. c \in Contents
  BY DEF Structure, TypeOK
<1>2. PICK m \in Names : entry[c][m] # Null
  BY DEF ContentAgrees
<1>3. PICK i : i \in Live /\ i = entry[c][m]
  BY <1>1, <1>2 DEF ContentAgrees
<1>4. relation[i] \in Relations /\ name[relation[i]] # Null /\ name[relation[i]] \in Names
  BY <1>3, LinkFacts DEF Structure, Reached, TypeOK, OrNull
<1>5. relations[name[relation[i]]] = relation[i]
  BY <1>4 DEF InMap, SameNameDeleted, LiveRelations
<1>6. relation[i] # Null
  BY <1>4
<1> QED
  BY <1>4, <1>5, <1>6 DEF InMap

(* What a step does to the ids: a content that stays keeps its own.        *)
IdsStay == \A c \in contents \cap contents' : id'[c] = id[c]

LEMMA FreeIds ==
  ASSUME TypeOK, IdInv, NEW D, FreeItems(D), lastId' = lastId
  PROVE  IdInv' /\ IdsStay
<1>1. /\ contents' = contents \ Unreferenced(D)
      /\ id' = [c \in Contents |-> IF c \in Unreferenced(D) THEN 0 ELSE id[c]]
  BY DEF FreeItems
<1>2. contents \in SUBSET Contents /\ id \in [Contents -> Nat]
  BY DEF TypeOK
<1> QED
  BY <1>1, <1>2 DEF IdInv, IdsStay

LEMMA CreateIds ==
  ASSUME TypeOK, ContentAgrees, IdInv, NEW n, NEW r, NEW s \in OrNull(Live), ItemInit(n, r, s)
  PROVE  IdInv' /\ IdsStay
<1>1. PICK c \in Contents :
        /\ \/ c \notin contents
           \/ s # Null /\ c = content[s]
        /\ contents' = contents \cup {c}
        /\ AssignId(c)
  BY DEF ItemInit
<1>2. contents \in SUBSET Contents /\ id \in [Contents -> Nat] /\ lastId \in Nat
  BY DEF TypeOK
<1>3. CASE c \in contents
  <2>1. id[c] # 0
    BY <1>2, <1>3 DEF IdInv
  <2>2. UNCHANGED <<id, lastId>> /\ contents' = contents
    BY <1>1, <1>3, <2>1 DEF AssignId
  <2> QED
    BY <2>2 DEF IdInv, IdsStay
<1>4. CASE c \notin contents
  <2>1. id[c] = 0
    BY <1>4 DEF IdInv
  <2>2. lastId' = lastId + 1 /\ id' = [id EXCEPT ![c] = lastId + 1]
    BY <1>1, <2>1 DEF AssignId
  <2> QED
    BY <1>1, <1>2, <1>4, <2>2 DEF IdInv, IdsStay
<1> QED
  BY <1>3, <1>4

LEMMA IdsNext ==
  ASSUME Structure, ContentAgrees, InMap, IdInv, [Next]_vars,
         ~utt' => contents' = {}
  PROVE  IdInv' /\ IdsStay
<1>1. TypeOK
  BY DEF Structure
<1>2. ASSUME UNCHANGED <<lastId, contentVars>> PROVE IdInv' /\ IdsStay
  BY <1>2 DEF IdInv, IdsStay, contentVars
<1>3. CASE InitUtterance
  <2>1. contents = {}
    BY <1>3, NoContents DEF InitUtterance
  <2>2. UNCHANGED contentVars
    BY <1>3 DEF InitUtterance
  <2> QED
    BY <2>1, <2>2 DEF IdInv, IdsStay, contentVars
<1>4. CASE DestroyUtt
  <2>1. contents' = {}
    BY <1>4 DEF DestroyUtt
  <2>2. PICK D : FreeItems(D)
    BY <1>4 DEF DestroyUtt, DestroyRelations
  <2>3. \A c \in Contents : c \notin contents' => id'[c] = 0
    BY <1>1, <2>2 DEF FreeItems, IdInv, TypeOK
  <2> QED
    BY <2>1, <2>3 DEF IdInv, IdsStay
<1>5. ASSUME NEW r \in Relations, NEW m \in Names, UttNewRelation(r, m) PROVE IdInv' /\ IdsStay
  BY <1>2, <1>5 DEF UttNewRelation
<1>6. ASSUME NEW m \in Names, UttDeleteRelation(m) PROVE IdInv' /\ IdsStay
  <2>1. PICK D : FreeItems(D)
    BY <1>6 DEF UttDeleteRelation, DestroyRelations
  <2> QED
    BY <1>1, <1>6, <2>1, FreeIds DEF UttDeleteRelation
<1>7. ASSUME NEW n \in Items \ Live, NEW s \in OrNull(Live), Create(n, s) PROVE IdInv' /\ IdsStay
  <2>1. \E r : ItemInit(n, r, s)
    BY <1>7 DEF Create, RelationAppend, RelationPrepend, ItemAppend, ItemPrepend,
                ItemAddDaughter, FirstDaughter
  <2> QED
    BY <1>1, <2>1, CreateIds
<1>8. ASSUME NEW x \in Live, DestroyItem(x) PROVE IdInv' /\ IdsStay
  BY <1>1, <1>8, FreeIds DEF DestroyItem
<1>9. CASE UNCHANGED vars
  BY <1>2, <1>9 DEF vars
<1> QED
  BY <1>3, <1>4, <1>5, <1>6, <1>7, <1>8, <1>9 DEF Next

(* item_content.c, utterance.c: sharing a content or deleting some of its  *)
(* items never changes its id, and no other content gets it, also when     *)
(* utterances come and go, if callers share a content at most once under   *)
(* each name and create no relation under a name in use.                   *)
THEOREM IdsStayUnique ==
  ASSUME ShareOnce, FreshNames
  PROVE  Spec => IdKept
<1> DEFINE Inv == Structure /\ ContentAgrees /\ InMap /\ IdInv
           Kept == \A c \in contents \cap contents' :
                     id'[c] = id[c] /\ \A d \in contents' \ {c} : id'[d] # id[c]
<1>1. Init => Inv
  <2> SUFFICES ASSUME Init PROVE InMap /\ IdInv
    BY StructureInit, AgreesInit
  <2> QED
    BY DEF Init, InMap, SameNameDeleted, LiveRelations, IdInv
<1>2. Inv /\ [Next]_vars => Inv' /\ [Kept]_vars
  <2> SUFFICES ASSUME Inv, [Next]_vars PROVE Inv' /\ Kept
    OBVIOUS
  <2>1. Structure' /\ ContentAgrees' /\ InMap'
    BY StructureNext, AgreesNext, InMapNext
  <2>2. ~utt' => contents' = {}
    <3>1. (Structure /\ ContentAgrees /\ InMap /\ ~utt => contents = {})'
      BY NoContents, PTL
    <3> QED
      BY <2>1, <3>1
  <2>3. IdInv' /\ IdsStay
    BY <2>2, IdsNext
  <2>4. Kept
    BY <2>3 DEF IdInv, IdsStay
  <2> QED
    BY <2>1, <2>3, <2>4
<1>3. IdKept <=> [][Kept]_vars
  BY DEF IdKept
<1> HIDE DEF Inv, Kept
<1> QED
  BY <1>1, <1>2, <1>3, PTL DEF Spec

=============================================================================
