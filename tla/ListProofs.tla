------------------------------ MODULE ListProofs ------------------------------
(***************************************************************************)
(* Proofs about List, for any lists, elements, objects and threads, in     *)
(* builds with threads and without.                                        *)
(***************************************************************************)
EXTENDS List, Counts, FiniteSetTheorems, SequenceTheorems, TLAPS

\* s has the elements of list l, in order, and every pointer agrees with it.
IsChain(l, s) ==
  /\ s \in [1 .. size[l] -> Cells]
  /\ \A i \in 1 .. size[l] : home[s[i]] = l
  /\ \A i, j \in 1 .. size[l] : s[i] = s[j] => i = j
  /\ \A c \in Cells : home[c] = l => \E i \in 1 .. size[l] : s[i] = c
  /\ first[l] = IF size[l] = 0 THEN Null ELSE s[1]
  /\ last[l] = IF size[l] = 0 THEN Null ELSE s[size[l]]
  /\ \A i \in 1 .. size[l] : next[s[i]] = IF i = size[l] THEN Null ELSE s[i + 1]
  /\ \A i \in 1 .. size[l] : prev[s[i]] = IF i = 1 THEN Null ELSE s[i - 1]

\* Chain is that sequence: it is defined along next, by recursion.
LEMMA ChainIs ==
  ASSUME NEW l \in Lists, NEW s, size[l] \in Nat, IsChain(l, s)
  PROVE  Chain(l) = s
<1> DEFINE n == size[l]
           F(f) == [i \in 1 .. n |-> IF i = 1 THEN first[l]
                                     ELSE IF f[i - 1] = Null THEN Null ELSE next[f[i - 1]]]
           cell == CHOOSE f : f = F(f)
<1>1. Chain(l) = [i \in 1 .. n |-> cell[i]]
  BY DEF Chain
<1>2. s = F(s)
  <2>1. \A i \in 1 .. n : s[i] = IF i = 1 THEN first[l]
                                 ELSE IF s[i - 1] = Null THEN Null ELSE next[s[i - 1]]
    <3> SUFFICES ASSUME NEW i \in 1 .. n, i # 1
                 PROVE  s[i - 1] # Null /\ next[s[i - 1]] = s[i]
      BY DEF IsChain
    <3>1. i - 1 \in 1 .. n /\ i - 1 # n /\ (i - 1) + 1 = i
      OBVIOUS
    <3> QED BY <3>1, NullAssumption DEF IsChain
  <2>2. s = [i \in 1 .. n |-> s[i]]
    BY DEF IsChain
  <2> QED BY <2>1, <2>2
<1>3. cell = F(cell)
  BY <1>2
<1> HIDE DEF cell
<1>4. \A i \in 1 .. n : cell[i] = s[i]
  <2> DEFINE G == {k \in Nat : k + 1 \in 1 .. n => cell[k + 1] = s[k + 1]}
  <2>1. 0 \in G
    BY <1>3 DEF IsChain
  <2>2. ASSUME NEW k \in G PROVE k + 1 \in G
    <3> SUFFICES ASSUME (k + 1) + 1 \in 1 .. n PROVE cell[(k + 1) + 1] = s[(k + 1) + 1]
      BY <2>2
    <3>1. k + 1 \in 1 .. n /\ k + 1 # n /\ ((k + 1) + 1) - 1 = k + 1 /\ (k + 1) + 1 # 1
      OBVIOUS
    <3>2. cell[k + 1] = s[k + 1]
      BY <2>2, <3>1
    <3>3. s[k + 1] # Null /\ next[s[k + 1]] = s[(k + 1) + 1]
      BY <3>1, NullAssumption DEF IsChain
    <3> QED BY <1>3, <3>1, <3>2, <3>3
  <2>3. G = Nat
    <3>1. G \in SUBSET Nat
      OBVIOUS
    <3> HIDE DEF G
    <3> QED BY <2>1, <2>2, <3>1, NatSetInduction
  <2> QED
    <3> TAKE i \in 1 .. n
    <3>1. i - 1 \in Nat /\ (i - 1) + 1 = i
      OBVIOUS
    <3>2. i - 1 \in G
      BY <2>3, <3>1
    <3> QED BY <3>1, <3>2
<1> QED BY <1>1, <1>4 DEF IsChain

-----------------------------------------------------------------------------
(* One element more, one less, and the other way round.                        *)

Put(s, n, k, c) == [i \in 1 .. n + 1 |-> IF i < k THEN s[i] ELSE IF i = k THEN c ELSE s[i - 1]]
Out(s, n, k) == [i \in 1 .. n - 1 |-> IF i < k THEN s[i] ELSE s[i + 1]]
Turned(s, n) == [i \in 1 .. n |-> s[n + 1 - i]]

\* The pointers have their types.
ChainTypes ==
  /\ first \in [Lists -> Links] /\ last \in [Lists -> Links] /\ size \in [Lists -> Nat]
  /\ next \in [Cells -> Links] /\ prev \in [Cells -> Links]
  /\ data \in [Cells -> Objects \cup {Null}] /\ home \in [Cells -> Lists \cup {Null}]

\* What Link and Cut do to each pointer.
LEMMA LinkEffect ==
  ASSUME ChainTypes, NEW c \in Cells, NEW o \in Objects, NEW l \in Lists,
         NEW p \in Links, NEW m \in Links, Link(c, o, l, p, m)
  PROVE  /\ ChainTypes'
         /\ \A d \in Cells : /\ home'[d] = IF d = c THEN l ELSE home[d]
                             /\ data'[d] = IF d = c THEN o ELSE data[d]
                             /\ next'[d] = IF d = c THEN m ELSE IF d = p THEN c ELSE next[d]
                             /\ prev'[d] = IF d = c THEN p ELSE IF d = m THEN c ELSE prev[d]
         /\ \A h \in Lists : /\ first'[h] = IF h = l /\ p = Null THEN c ELSE first[h]
                             /\ last'[h] = IF h = l /\ m = Null THEN c ELSE last[h]
                             /\ size'[h] = IF h = l THEN size[h] + 1 ELSE size[h]
<1> USE DEF ChainTypes, Links
<1>1. /\ home' = [home EXCEPT ![c] = l] /\ data' = [data EXCEPT ![c] = o]
      /\ first' = IF p = Null THEN [first EXCEPT ![l] = c] ELSE first
      /\ last' = IF m = Null THEN [last EXCEPT ![l] = c] ELSE last
      /\ size' = [size EXCEPT ![l] = @ + 1]
  BY DEF Link
<1>2. /\ next' = [d \in Cells |-> IF d = c THEN m ELSE IF d = p THEN c ELSE next[d]]
      /\ prev' = [d \in Cells |-> IF d = c THEN p ELSE IF d = m THEN c ELSE prev[d]]
  BY DEF Link
<1>3. /\ home' \in [Cells -> Lists \cup {Null}] /\ data' \in [Cells -> Objects \cup {Null}]
      /\ size' \in [Lists -> Nat]
  BY <1>1
<1>4. first' \in [Lists -> Links] /\ last' \in [Lists -> Links]
  BY <1>1
<1>5. next' \in [Cells -> Links] /\ prev' \in [Cells -> Links]
  BY <1>2
<1>6. \A d \in Cells : /\ home'[d] = IF d = c THEN l ELSE home[d]
                       /\ data'[d] = IF d = c THEN o ELSE data[d]
  BY <1>1
<1>7. \A h \in Lists : /\ first'[h] = IF h = l /\ p = Null THEN c ELSE first[h]
                       /\ last'[h] = IF h = l /\ m = Null THEN c ELSE last[h]
                       /\ size'[h] = IF h = l THEN size[h] + 1 ELSE size[h]
  BY <1>1
<1> QED BY <1>2, <1>3, <1>4, <1>5, <1>6, <1>7

\* An element put at place k of a chain, and the chains of the other lists.
LEMMA LinkChain ==
  ASSUME ChainTypes, NEW l \in Lists, NEW n \in Nat, n = size[l], NEW s, IsChain(l, s),
         NEW c \in Cells, Unused(c), NEW o \in Objects, NEW k \in 1 .. n + 1,
         Link(c, o, l, IF k = 1 THEN Null ELSE s[k - 1], IF k = n + 1 THEN Null ELSE s[k])
  PROVE  /\ IsChain(l, Put(s, n, k, c))'
         /\ \A h \in Lists : \A q : h # l /\ IsChain(h, q) => IsChain(h, q)'
<1> DEFINE p == IF k = 1 THEN Null ELSE s[k - 1]
           m == IF k = n + 1 THEN Null ELSE s[k]
<1>1. p \in Links /\ m \in Links
  BY DEF IsChain, Links
<1>2. /\ \A i \in 1 .. n : s[i] \in Cells /\ s[i] # Null /\ s[i] # c /\ home[s[i]] = l
      /\ \A i, j \in 1 .. n : s[i] = s[j] => i = j
      /\ l # Null /\ c # Null
      /\ \A i \in 1 .. n : /\ next[s[i]] = IF i = n THEN Null ELSE s[i + 1]
                           /\ prev[s[i]] = IF i = 1 THEN Null ELSE s[i - 1]
  BY NullAssumption DEF IsChain, Unused
<1>3. /\ ChainTypes'
      /\ \A d \in Cells : /\ home'[d] = IF d = c THEN l ELSE home[d]
                          /\ next'[d] = IF d = c THEN m ELSE IF d = p THEN c ELSE next[d]
                          /\ prev'[d] = IF d = c THEN p ELSE IF d = m THEN c ELSE prev[d]
      /\ \A h \in Lists : /\ first'[h] = IF h = l /\ p = Null THEN c ELSE first[h]
                          /\ last'[h] = IF h = l /\ m = Null THEN c ELSE last[h]
                          /\ size'[h] = IF h = l THEN size[h] + 1 ELSE size[h]
  BY <1>1, LinkEffect
<1>4. /\ p = Null <=> k = 1
      /\ m = Null <=> k = n + 1
      /\ \A i \in 1 .. n : (s[i] = p <=> i = k - 1) /\ (s[i] = m <=> i = k)
  BY <1>2
<1>5. PICK r : r = Put(s, n, k, c)
  OBVIOUS
<1>6. /\ r \in [1 .. n + 1 -> Cells]
      /\ \A i \in 1 .. n + 1 : r[i] = IF i < k THEN s[i] ELSE IF i = k THEN c ELSE s[i - 1]
  <2>1. \A i \in 1 .. n + 1 : (i < k => i \in 1 .. n) /\ (i > k => i - 1 \in 1 .. n)
    OBVIOUS
  <2> QED BY <1>2, <1>5, <2>1 DEF Put
<1>7. size'[l] = n + 1
  BY <1>3
<1>8. IsChain(l, r)'
  <2>1. \A i \in 1 .. n + 1 : home'[r[i]] = l
    BY <1>2, <1>3, <1>6, SMTT(30)
  <2>2. \A i, j \in 1 .. n + 1 : r[i] = r[j] => i = j
    <3> SUFFICES ASSUME NEW i \in 1 .. n + 1, NEW j \in 1 .. n + 1, r[i] = r[j] PROVE i = j
      OBVIOUS
    <3>1. /\ i < k => i \in 1 .. n
          /\ j < k => j \in 1 .. n
          /\ i > k => i - 1 \in 1 .. n
          /\ j > k => j - 1 \in 1 .. n
      OBVIOUS
    <3> QED BY <1>2, <1>6, <3>1
  <2>3. ASSUME NEW d \in Cells, home'[d] = l PROVE \E i \in 1 .. n + 1 : r[i] = d
    <3>1. CASE d = c
      BY <1>6, <3>1
    <3>2. CASE d # c
      <4>1. PICK i \in 1 .. n : s[i] = d
        BY <1>3, <2>3, <3>2 DEF IsChain
      <4>2. IF i < k THEN r[i] = d ELSE r[i + 1] = d
        BY <1>6, <4>1
      <4> QED BY <4>2
    <3> QED BY <3>1, <3>2
  <2>4. first'[l] = r[1]
    BY <1>3, <1>4, <1>6 DEF IsChain
  <2>5. last'[l] = r[n + 1]
    BY <1>3, <1>4, <1>6 DEF IsChain
  <2>6. ASSUME NEW i \in 1 .. n + 1 PROVE next'[r[i]] = IF i = n + 1 THEN Null ELSE r[i + 1]
    <3>1. CASE i < k
      <4>1. i \in 1 .. n /\ r[i] = s[i] /\ next[s[i]] = IF i = n THEN Null ELSE s[i + 1]
        BY <1>2, <1>6, <3>1
      <4>2. next'[r[i]] = IF i = k - 1 THEN c ELSE next[s[i]]
        BY <1>2, <1>3, <1>4, <4>1
      <4> QED BY <1>6, <3>1, <4>1, <4>2
    <3>2. CASE i = k
      <4>1. r[i] = c /\ next'[c] = m
        BY <1>3, <1>6, <3>2
      <4>2. i # n + 1 => r[i + 1] = s[i]
        <5>1. i # n + 1 => i + 1 \in 1 .. n + 1 /\ ~(i + 1 < k) /\ i + 1 # k /\ (i + 1) - 1 = i
          BY <3>2
        <5> QED BY <1>6, <5>1
      <4> QED BY <3>2, <4>1, <4>2
    <3>3. CASE i > k
      <4>1. /\ i - 1 \in 1 .. n /\ r[i] = s[i - 1]
            /\ next[s[i - 1]] = IF i - 1 = n THEN Null ELSE s[(i - 1) + 1]
        <5>1. i - 1 \in 1 .. n /\ i # k /\ ~(i < k)
          BY <3>3
        <5>2. r[i] = s[i - 1]
          BY <1>6, <5>1
        <5>3. next[s[i - 1]] = IF i - 1 = n THEN Null ELSE s[(i - 1) + 1]
          BY <1>2, <5>1
        <5> QED BY <5>1, <5>2, <5>3
      <4>2. next'[r[i]] = next[s[i - 1]]
        BY <1>2, <1>3, <1>4, <3>3, <4>1
      <4> QED BY <1>6, <3>3, <4>1, <4>2
    <3> QED BY <3>1, <3>2, <3>3
  <2>7. ASSUME NEW i \in 1 .. n + 1 PROVE prev'[r[i]] = IF i = 1 THEN Null ELSE r[i - 1]
    <3>1. CASE i < k
      <4>1. i \in 1 .. n /\ r[i] = s[i] /\ prev[s[i]] = IF i = 1 THEN Null ELSE s[i - 1]
        BY <1>2, <1>6, <3>1
      <4>2. prev'[r[i]] = prev[s[i]]
        BY <1>2, <1>3, <1>4, <3>1, <4>1
      <4> QED BY <1>6, <3>1, <4>1, <4>2
    <3>2. CASE i = k
      BY <1>3, <1>6, <3>2
    <3>3. CASE i > k
      <4>1. /\ i - 1 \in 1 .. n /\ r[i] = s[i - 1]
            /\ prev[s[i - 1]] = IF i - 1 = 1 THEN Null ELSE s[(i - 1) - 1]
        <5>1. i - 1 \in 1 .. n
          BY <3>3
        <5> QED BY <1>2, <1>6, <3>3, <5>1
      <4>2. prev'[r[i]] = IF i - 1 = k THEN c ELSE prev[s[i - 1]]
        BY <1>2, <1>3, <1>4, <4>1
      <4> QED BY <1>6, <3>3, <4>1, <4>2
    <3> QED BY <3>1, <3>2, <3>3
  <2> QED BY <1>6, <1>7, <2>1, <2>2, <2>3, <2>4, <2>5, <2>6, <2>7 DEF IsChain
<1>9. ASSUME NEW h \in Lists, NEW q, h # l, IsChain(h, q) PROVE IsChain(h, q)'
  <2>1. size'[h] = size[h] /\ first'[h] = first[h] /\ last'[h] = last[h]
    BY <1>3, <1>9
  <2>2. \A i \in 1 .. size[h] : q[i] \in Cells /\ q[i] # c /\ q[i] # p /\ q[i] # m
    BY <1>2, <1>9, NullAssumption DEF IsChain, Unused
  <2>3. \A i \in 1 .. size[h] : home'[q[i]] = home[q[i]] /\ next'[q[i]] = next[q[i]]
                                /\ prev'[q[i]] = prev[q[i]]
    BY <1>3, <2>2
  <2>4. \A d \in Cells : home'[d] = h => home[d] = h
    BY <1>3, <1>9
  <2> QED BY <1>9, <2>1, <2>3, <2>4 DEF IsChain
<1> QED BY <1>5, <1>8, <1>9

LEMMA CutEffect ==
  ASSUME ChainTypes, NEW c \in Cells, NEW l \in Lists, home[c] = l, size[l] > 0, Cut(c)
  PROVE  /\ ChainTypes'
         /\ \A d \in Cells :
              /\ home'[d] = IF d = c THEN Null ELSE home[d]
              /\ data'[d] = IF d = c THEN Null ELSE data[d]
              /\ next'[d] = IF d = c THEN Null ELSE IF d = prev[c] THEN next[c] ELSE next[d]
              /\ prev'[d] = IF d = c THEN Null ELSE IF d = next[c] THEN prev[c] ELSE prev[d]
         /\ \A h \in Lists :
              /\ first'[h] = IF h = l /\ prev[c] = Null THEN next[c] ELSE first[h]
              /\ last'[h] = IF h = l /\ next[c] = Null THEN prev[c] ELSE last[h]
              /\ size'[h] = IF h = l THEN size[h] - 1 ELSE size[h]
<1> USE DEF ChainTypes, Links
<1>1. /\ home' = [home EXCEPT ![c] = Null] /\ data' = [data EXCEPT ![c] = Null]
      /\ first' = IF prev[c] = Null THEN [first EXCEPT ![l] = next[c]] ELSE first
      /\ last' = IF next[c] = Null THEN [last EXCEPT ![l] = prev[c]] ELSE last
      /\ size' = [size EXCEPT ![l] = @ - 1]
  BY DEF Cut
<1>2. /\ next' = [d \in Cells |-> IF d = c THEN Null ELSE IF d = prev[c] THEN next[c] ELSE next[d]]
      /\ prev' = [d \in Cells |-> IF d = c THEN Null ELSE IF d = next[c] THEN prev[c] ELSE prev[d]]
  BY DEF Cut
<1>3. /\ home' \in [Cells -> Lists \cup {Null}] /\ data' \in [Cells -> Objects \cup {Null}]
      /\ size' \in [Lists -> Nat]
  BY <1>1
<1>4. first' \in [Lists -> Links] /\ last' \in [Lists -> Links]
  BY <1>1
<1>5. next' \in [Cells -> Links] /\ prev' \in [Cells -> Links]
  BY <1>2
<1>6. \A d \in Cells : /\ home'[d] = IF d = c THEN Null ELSE home[d]
                       /\ data'[d] = IF d = c THEN Null ELSE data[d]
  BY <1>1
<1>7. \A h \in Lists : /\ first'[h] = IF h = l /\ prev[c] = Null THEN next[c] ELSE first[h]
                       /\ last'[h] = IF h = l /\ next[c] = Null THEN prev[c] ELSE last[h]
                       /\ size'[h] = IF h = l THEN size[h] - 1 ELSE size[h]
  BY <1>1
<1> QED BY <1>2, <1>3, <1>4, <1>5, <1>6, <1>7

\* The element at place k taken out of a chain.
LEMMA CutChain ==
  ASSUME ChainTypes, NEW l \in Lists, NEW n \in Nat, n = size[l], NEW s, IsChain(l, s),
         NEW k \in 1 .. n, NEW c \in Cells, c = s[k], Cut(c)
  PROVE  /\ ChainTypes' /\ IsChain(l, Out(s, n, k))'
         /\ \A h \in Lists : \A q : h # l /\ IsChain(h, q) => IsChain(h, q)'
<1>1. /\ \A i \in 1 .. n : s[i] \in Cells /\ s[i] # Null /\ home[s[i]] = l
      /\ \A i, j \in 1 .. n : s[i] = s[j] => i = j
      /\ l # Null /\ c # Null
      /\ \A i \in 1 .. n : /\ next[s[i]] = IF i = n THEN Null ELSE s[i + 1]
                           /\ prev[s[i]] = IF i = 1 THEN Null ELSE s[i - 1]
  BY NullAssumption DEF IsChain
<1>2. PICK p \in Links, m \in Links :
        /\ p = prev[c] /\ p = IF k = 1 THEN Null ELSE s[k - 1]
        /\ m = next[c] /\ m = IF k = n THEN Null ELSE s[k + 1]
  BY <1>1 DEF ChainTypes
<1>3. /\ ChainTypes'
      /\ \A d \in Cells : /\ home'[d] = IF d = c THEN Null ELSE home[d]
                          /\ next'[d] = IF d = c THEN Null ELSE IF d = p THEN m ELSE next[d]
                          /\ prev'[d] = IF d = c THEN Null ELSE IF d = m THEN p ELSE prev[d]
      /\ \A h \in Lists : /\ first'[h] = IF h = l /\ p = Null THEN m ELSE first[h]
                          /\ last'[h] = IF h = l /\ m = Null THEN p ELSE last[h]
                          /\ size'[h] = IF h = l THEN size[h] - 1 ELSE size[h]
  <2>1. home[c] = l /\ size[l] > 0
    BY <1>1
  <2>2. p = prev[c] /\ m = next[c]
    BY <1>2
  <2>3. ChainTypes'
    BY <2>1, CutEffect
  <2>4. \A d \in Cells :
          /\ home'[d] = IF d = c THEN Null ELSE home[d]
          /\ next'[d] = IF d = c THEN Null ELSE IF d = prev[c] THEN next[c] ELSE next[d]
          /\ prev'[d] = IF d = c THEN Null ELSE IF d = next[c] THEN prev[c] ELSE prev[d]
    BY <2>1, CutEffect
  <2>5. \A h \in Lists : /\ first'[h] = IF h = l /\ prev[c] = Null THEN next[c] ELSE first[h]
                         /\ last'[h] = IF h = l /\ next[c] = Null THEN prev[c] ELSE last[h]
                         /\ size'[h] = IF h = l THEN size[h] - 1 ELSE size[h]
    BY <2>1, CutEffect
  <2> QED BY <2>2, <2>3, <2>4, <2>5
<1>4. /\ p = Null <=> k = 1
      /\ m = Null <=> k = n
      /\ \A i \in 1 .. n : /\ s[i] = c <=> i = k
                           /\ s[i] = p <=> i = k - 1
                           /\ s[i] = m <=> i = k + 1
  BY <1>1, <1>2
<1>5. PICK r : r = Out(s, n, k)
  OBVIOUS
<1>6. /\ r \in [1 .. n - 1 -> Cells]
      /\ \A i \in 1 .. n - 1 : r[i] = IF i < k THEN s[i] ELSE s[i + 1]
  <2>1. \A i \in 1 .. n - 1 : i \in 1 .. n /\ i + 1 \in 1 .. n
    OBVIOUS
  <2> QED BY <1>1, <1>5, <2>1 DEF Out
<1>7. size'[l] = n - 1
  BY <1>3
<1>8. IsChain(l, r)'
  <2>1. \A i \in 1 .. n - 1 : r[i] \in Cells /\ home'[r[i]] = l
    <3> SUFFICES ASSUME NEW i \in 1 .. n - 1 PROVE r[i] \in Cells /\ home'[r[i]] = l
      OBVIOUS
    <3>1. i \in 1 .. n /\ i + 1 \in 1 .. n
      OBVIOUS
    <3> QED BY <1>1, <1>3, <1>4, <1>6, <3>1
  <2>2. \A i, j \in 1 .. n - 1 : r[i] = r[j] => i = j
    <3> SUFFICES ASSUME NEW i \in 1 .. n - 1, NEW j \in 1 .. n - 1, r[i] = r[j] PROVE i = j
      OBVIOUS
    <3>1. i \in 1 .. n /\ j \in 1 .. n /\ i + 1 \in 1 .. n /\ j + 1 \in 1 .. n
      OBVIOUS
    <3> QED BY <1>1, <1>6, <3>1
  <2>3. ASSUME NEW d \in Cells, home'[d] = l PROVE \E i \in 1 .. n - 1 : r[i] = d
    <3>1. d # c /\ home[d] = l
      BY <1>1, <1>3, <2>3
    <3>2. PICK i \in 1 .. n : s[i] = d
      BY <3>1 DEF IsChain
    <3>3. i # k
      BY <3>1, <3>2
    <3>4. CASE i < k
      BY <1>6, <3>2, <3>4
    <3>5. CASE i > k
      <4>1. i - 1 \in 1 .. n - 1 /\ (i - 1) + 1 = i
        BY <3>5
      <4>2. r[i - 1] = d
        BY <1>6, <3>2, <3>5, <4>1
      <4> QED BY <4>1, <4>2
    <3> QED BY <3>3, <3>4, <3>5
  <2>4. first'[l] = IF n - 1 = 0 THEN Null ELSE r[1]
    <3>1. first[l] = s[1]
      BY DEF IsChain
    <3> QED BY <1>2, <1>3, <1>4, <1>6, <3>1
  <2>5. last'[l] = IF n - 1 = 0 THEN Null ELSE r[n - 1]
    <3>1. last[l] = s[n]
      BY DEF IsChain
    <3> QED BY <1>2, <1>3, <1>4, <1>6, <3>1
  <2>6. ASSUME NEW i \in 1 .. n - 1 PROVE next'[r[i]] = IF i = n - 1 THEN Null ELSE r[i + 1]
    <3>0. i \in 1 .. n /\ i + 1 \in 1 .. n
      OBVIOUS
    <3>1. CASE i < k
      <4>1. r[i] = s[i] /\ next[s[i]] = s[i + 1] /\ s[i] # c
        BY <1>1, <1>4, <1>6, <3>0, <3>1
      <4>2. next'[r[i]] = IF i = k - 1 THEN m ELSE s[i + 1]
        BY <1>1, <1>3, <1>4, <3>0, <4>1
      <4> QED BY <1>2, <1>6, <3>0, <3>1, <4>2
    <3>2. CASE i >= k
      <4>1. /\ r[i] = s[i + 1] /\ s[i + 1] # c /\ s[i + 1] # p
            /\ next[s[i + 1]] = IF i + 1 = n THEN Null ELSE s[(i + 1) + 1]
        BY <1>1, <1>4, <1>6, <3>0, <3>2
      <4>2. next'[r[i]] = next[s[i + 1]]
        BY <1>1, <1>3, <3>0, <4>1
      <4> QED BY <1>6, <3>0, <3>2, <4>1, <4>2
    <3> QED BY <3>1, <3>2
  <2>7. ASSUME NEW i \in 1 .. n - 1 PROVE prev'[r[i]] = IF i = 1 THEN Null ELSE r[i - 1]
    <3>0. i \in 1 .. n /\ i + 1 \in 1 .. n
      OBVIOUS
    <3>1. CASE i < k
      <4>1. r[i] = s[i] /\ prev[s[i]] = IF i = 1 THEN Null ELSE s[i - 1]
        BY <1>1, <1>6, <3>0, <3>1
      <4>2. prev'[r[i]] = prev[s[i]]
        BY <1>1, <1>3, <1>4, <3>0, <3>1, <4>1
      <4> QED BY <1>6, <3>1, <4>1, <4>2
    <3>2. CASE i >= k
      <4>1. /\ r[i] = s[i + 1] /\ s[i + 1] # c
            /\ prev[s[i + 1]] = s[(i + 1) - 1]
        BY <1>1, <1>4, <1>6, <3>0, <3>2
      <4>2. prev'[r[i]] = IF i = k THEN p ELSE s[i]
        BY <1>1, <1>3, <1>4, <3>0, <4>1
      <4>3. i # 1 /\ i # k => i - 1 \in 1 .. n - 1 /\ ~(i - 1 < k) /\ (i - 1) + 1 = i
        BY <3>2
      <4>4. i # 1 /\ i = k => i - 1 \in 1 .. n - 1 /\ i - 1 < k
        BY <3>2
      <4> QED BY <1>2, <1>6, <3>2, <4>2, <4>3, <4>4
    <3> QED BY <3>1, <3>2
  <2> QED BY <1>6, <1>7, <2>1, <2>2, <2>3, <2>4, <2>5, <2>6, <2>7 DEF IsChain
<1>9. ASSUME NEW h \in Lists, NEW q, h # l, IsChain(h, q) PROVE IsChain(h, q)'
  <2>1. size'[h] = size[h] /\ first'[h] = first[h] /\ last'[h] = last[h]
    BY <1>3, <1>9
  <2>2. \A i \in 1 .. size[h] : q[i] \in Cells /\ q[i] # c /\ q[i] # p /\ q[i] # m
    <3>1. home[c] = l /\ (p # Null => home[p] = l) /\ (m # Null => home[m] = l)
      BY <1>1, <1>2
    <3> QED BY <1>9, <3>1, NullAssumption DEF IsChain
  <2>3. \A i \in 1 .. size[h] : home'[q[i]] = home[q[i]] /\ next'[q[i]] = next[q[i]]
                                /\ prev'[q[i]] = prev[q[i]]
    BY <1>3, <2>2
  <2>4. \A d \in Cells : home'[d] = h => home[d] = h
    BY <1>3, <1>9, NullAssumption
  <2> QED BY <1>9, <2>1, <2>3, <2>4 DEF IsChain
<1> QED BY <1>3, <1>5, <1>8, <1>9

\* The pointers of SListReverse.
TurnAround(l) ==
  /\ next' = [c \in Cells |-> IF home[c] = l THEN prev[c] ELSE next[c]]
  /\ prev' = [c \in Cells |-> IF home[c] = l THEN next[c] ELSE prev[c]]
  /\ first' = [first EXCEPT ![l] = last[l]] /\ last' = [last EXCEPT ![l] = first[l]]
  /\ size' = size /\ data' = data /\ home' = home

LEMMA TurnChain ==
  ASSUME ChainTypes, NEW l \in Lists, NEW n \in Nat, n = size[l], NEW s, IsChain(l, s),
         TurnAround(l)
  PROVE  /\ ChainTypes' /\ IsChain(l, Turned(s, n))'
         /\ \A h \in Lists : \A q : h # l /\ IsChain(h, q) => IsChain(h, q)'
<1>1. /\ \A i \in 1 .. n : s[i] \in Cells /\ home[s[i]] = l
      /\ \A i, j \in 1 .. n : s[i] = s[j] => i = j
      /\ \A i \in 1 .. n : /\ next[s[i]] = IF i = n THEN Null ELSE s[i + 1]
                           /\ prev[s[i]] = IF i = 1 THEN Null ELSE s[i - 1]
  BY DEF IsChain
<1>2. ChainTypes'
  BY DEF TurnAround, ChainTypes, Links
<1>3. /\ \A c \in Cells : /\ next'[c] = IF home[c] = l THEN prev[c] ELSE next[c]
                          /\ prev'[c] = IF home[c] = l THEN next[c] ELSE prev[c]
      /\ \A h \in Lists : /\ first'[h] = IF h = l THEN last[l] ELSE first[h]
                          /\ last'[h] = IF h = l THEN first[l] ELSE last[h]
      /\ size' = size /\ home' = home
  BY DEF TurnAround, ChainTypes
<1>4. PICK r : r = Turned(s, n)
  OBVIOUS
<1>5. \A i \in 1 .. n : n + 1 - i \in 1 .. n /\ n + 1 - (n + 1 - i) = i
  OBVIOUS
<1>6. r \in [1 .. n -> Cells] /\ \A i \in 1 .. n : r[i] = s[n + 1 - i]
  BY <1>1, <1>4, <1>5 DEF Turned
<1>7. IsChain(l, r)'
  <2>1. \A i \in 1 .. n : home'[r[i]] = l
    <3> SUFFICES ASSUME NEW i \in 1 .. n PROVE home[r[i]] = l
      BY <1>3
    <3>1. n + 1 - i \in 1 .. n /\ r[i] = s[n + 1 - i]
      BY <1>6
    <3> QED BY <1>1, <3>1
  <2>2. \A i, j \in 1 .. n : r[i] = r[j] => i = j
    <3> SUFFICES ASSUME NEW i \in 1 .. n, NEW j \in 1 .. n, r[i] = r[j] PROVE i = j
      OBVIOUS
    <3>1. n + 1 - i \in 1 .. n /\ n + 1 - j \in 1 .. n
      OBVIOUS
    <3>2. r[i] = s[n + 1 - i] /\ r[j] = s[n + 1 - j]
      BY <1>6
    <3>3. PICK a \in 1 .. n, b \in 1 .. n : a = n + 1 - i /\ b = n + 1 - j
      BY <3>1
    <3>4. s[a] = s[b]
      BY <3>2, <3>3
    <3>5. a = b
      BY <3>3, <3>4 DEF IsChain
    <3> QED BY <3>3, <3>5
  <2>3. ASSUME NEW d \in Cells, home'[d] = l PROVE \E i \in 1 .. n : r[i] = d
    <3>1. PICK i \in 1 .. n : s[i] = d
      BY <1>3, <2>3 DEF IsChain
    <3>2. r[n + 1 - i] = d
      BY <1>5, <1>6, <3>1
    <3> QED BY <1>5, <3>2
  <2>4. /\ first'[l] = IF n = 0 THEN Null ELSE r[1]
        /\ last'[l] = IF n = 0 THEN Null ELSE r[n]
    <3>1. /\ first[l] = IF n = 0 THEN Null ELSE s[1]
          /\ last[l] = IF n = 0 THEN Null ELSE s[n]
      BY DEF IsChain
    <3>2. n # 0 => r[1] = s[n] /\ r[n] = s[1]
      <4>1. n # 0 => 1 \in 1 .. n /\ n \in 1 .. n /\ n + 1 - 1 = n /\ n + 1 - n = 1
        OBVIOUS
      <4> QED BY <1>6, <4>1
    <3> QED BY <1>3, <3>1, <3>2
  <2>5. ASSUME NEW i \in 1 .. n
        PROVE  /\ next'[r[i]] = IF i = n THEN Null ELSE r[i + 1]
               /\ prev'[r[i]] = IF i = 1 THEN Null ELSE r[i - 1]
    <3>1. PICK j \in 1 .. n : j = n + 1 - i
      BY <1>5
    <3>2. /\ r[i] = s[j] /\ next'[s[j]] = prev[s[j]] /\ prev'[s[j]] = next[s[j]]
      BY <1>1, <1>3, <1>6, <3>1
    <3>3. i # n => i + 1 \in 1 .. n /\ n + 1 - (i + 1) = j - 1 /\ r[i + 1] = s[n + 1 - (i + 1)]
      BY <1>6, <3>1
    <3>4. i # 1 => i - 1 \in 1 .. n /\ n + 1 - (i - 1) = j + 1 /\ r[i - 1] = s[n + 1 - (i - 1)]
      BY <1>6, <3>1
    <3>5. (j = 1 <=> i = n) /\ (j = n <=> i = 1)
      BY <3>1
    <3> QED BY <1>1, <3>2, <3>3, <3>4, <3>5
  <2> QED BY <1>3, <1>6, <2>1, <2>2, <2>3, <2>4, <2>5 DEF IsChain
<1>8. ASSUME NEW h \in Lists, NEW q, h # l, IsChain(h, q) PROVE IsChain(h, q)'
  <2>1. size'[h] = size[h] /\ first'[h] = first[h] /\ last'[h] = last[h]
    BY <1>3, <1>8
  <2>2. \A i \in 1 .. size[h] : q[i] \in Cells /\ home[q[i]] # l
    BY <1>8 DEF IsChain
  <2>3. \A i \in 1 .. size[h] : home'[q[i]] = home[q[i]] /\ next'[q[i]] = next[q[i]]
                                /\ prev'[q[i]] = prev[q[i]]
    BY <1>3, <2>2
  <2> QED BY <1>3, <1>8, <2>1, <2>3 DEF IsChain
<1> QED BY <1>2, <1>4, <1>7, <1>8

-----------------------------------------------------------------------------
(* The inductive invariant.                                                    *)

\* Every list is a chain of its elements.
ChainInv == ChainTypes /\ \A l \in Lists : \E s : IsChain(l, s)

\* An element in a list has an object.
CellsWith(o) == {c \in Cells : data[c] = o}

ObjectInv ==
  /\ hand \subseteq Objects /\ alive \subseteq Objects /\ ref \in [Objects -> Nat]
  /\ deleting \in [Threads -> Objects \cup {Null}]
  /\ \A c \in Cells : home[c] = Null <=> data[c] = Null

\* What each call has: its lists, and their mutexes in a build with threads.
CallTypes ==
  /\ threads \in Builds /\ lock \in [Lists -> Threads \cup {Null}]
  /\ pc \in [Threads -> [op : {"idle", "lock", "add", "nth", "destroy"},
                         self : Lists \cup {Null}, with : Lists \cup {Null},
                         at : Links]]

CallAt(t) ==
  /\ pc[t].op # "idle" <=> pc[t].self # Null
  /\ pc[t].op \in {"lock", "add"} <=> pc[t].with # Null
  /\ pc[t].op # "add" => pc[t].at = Null
  /\ pc[t].op \in {"lock", "add"} =>
       <<pc[t].self, pc[t].with>> \in Merges /\ itr.list \notin {pc[t].self, pc[t].with}
  /\ pc[t].op = "destroy" =>
       /\ itr.list # pc[t].self
       /\ \A u \in Threads : u # t => pc[t].self \notin {pc[u].self, pc[u].with}
  /\ ~threads /\ t # Main => pc[t].op = "idle"
  /\ threads /\ pc[t].op \in {"lock", "add", "nth"} => lock[pc[t].self] = t
  /\ threads /\ pc[t].op = "add" => lock[pc[t].with] = t
  /\ threads /\ pc[t].op = "nth" => NthThreaded

LockInv ==
  \A l \in Lists : lock[l] # Null =>
    /\ threads /\ pc[lock[l]].op \in {"lock", "add", "nth"}
    /\ l = pc[lock[l]].self \/ (pc[lock[l]].op = "add" /\ l = pc[lock[l]].with)

\* The iterator is at the element before place k of its list: what it should still
\* come to is what there is from k on.  It knows of that, or of nothing, and then
\* all of it was appended late.
From(s, n, k) == {s[i] : i \in k .. n}
Place(s, n, k) == IF k = n + 1 THEN Null ELSE s[k]

WalkAt(s, n, k) ==
  /\ IF late = {} THEN itr.next = Place(s, n, k) ELSE itr.next = Null /\ late = due
  /\ itr.current # Null => k > 1 /\ itr.current = s[k - 1]
  /\ due = From(s, n, k)

WalkInv ==
  /\ itr \in [owner : Threads \cup {Null}, list : Lists \cup {Null},
              current : Links, next : Links]
  /\ due \subseteq Cells /\ late \subseteq Cells
  /\ itr.list = Null => itr = NoIterator
  /\ itr.list # Null =>
       /\ itr.owner # Null /\ (~threads => itr.owner = Main)
       /\ \E s : /\ IsChain(itr.list, s)
                 /\ \E k \in 1 .. size[itr.list] + 1 : WalkAt(s, size[itr.list], k)

\* A merge that is at place k of the other list has the rest to add.
Rest(f, s, n, q, m, k) ==
  [i \in 1 .. n + m + 1 - k |-> IF i <= n THEN f[s[i]] ELSE f[q[i - n + k - 1]]]

MergeAt(t) ==
  \E s, q : /\ IsChain(pc[t].self, s) /\ IsChain(pc[t].with, q)
            /\ \E k \in 1 .. size[pc[t].with] + 1 :
                 /\ pc[t].at = Place(q, size[pc[t].with], k)
                 /\ pc[t].self # pc[t].with =>
                      whole[t] = Rest(data, s, size[pc[t].self], q, size[pc[t].with], k)

MergeInv ==
  /\ DOMAIN whole = Threads /\ \A t \in Threads : whole[t] \in Seq(Objects)
  /\ \A t \in Threads : pc[t].op = "add" => MergeAt(t)

IInv ==
  /\ ChainInv /\ ObjectInv /\ CallTypes /\ (\A t \in Threads : CallAt(t)) /\ LockInv
  /\ WalkInv /\ MergeInv

-----------------------------------------------------------------------------
(* Objects: one more reference, one less.                                      *)

\* Every element but c has the object it had.
DataBut(c) == \A d \in Cells : d # c => data'[d] = data[d] /\ (home'[d] = Null <=> home[d] = Null)

LEMMA CellsFinite ==
  ASSUME NEW o
  PROVE  /\ IsFiniteSet(CellsWith(o)) /\ IsFiniteSet(CellsWith(o)')
         /\ Cardinality(CellsWith(o)) = 0 <=> \A c \in Cells : data[c] # o
<1>1. CellsWith(o) \in SUBSET Cells /\ CellsWith(o)' \in SUBSET Cells
  BY DEF CellsWith
<1>2. IsFiniteSet(CellsWith(o)) /\ IsFiniteSet(CellsWith(o)')
  BY <1>1, FS_Subset, CellsAssumption
<1>3. CellsWith(o) = {} <=> \A c \in Cells : data[c] # o
  BY DEF CellsWith
<1> QED BY <1>2, <1>3, FS_EmptySet

LEMMA CellCounts ==
  ASSUME NEW o, NEW c \in Cells, DataBut(c)
  PROVE  Cardinality(CellsWith(o)') = Cardinality(CellsWith(o)) + One(data'[c] = o) - One(data[c] = o)
<1>1. \A d : d # c => (d \in CellsWith(o) <=> d \in CellsWith(o)')
  BY DEF CellsWith, DataBut
<1>2. (c \in CellsWith(o) <=> data[c] = o) /\ (c \in CellsWith(o)' <=> data'[c] = o)
  BY DEF CellsWith
<1>3. Cardinality(CellsWith(o)') = Cardinality(CellsWith(o)) + One(c \in CellsWith(o)') - One(c \in CellsWith(o))
  BY <1>1, CellsFinite, DifferInOne
<1> QED BY <1>2, <1>3 DEF One

\* An object goes into an element that was in no list.
LEMMA KeepObjects ==
  ASSUME ObjectInv, NEW c \in Cells, NEW o \in Objects, DataBut(c),
         data'[c] = o, home'[c] # Null, Keep(o)
  PROVE  ObjectInv'
<1>1. /\ hand' \subseteq Objects /\ alive' \subseteq Objects /\ ref' \in [Objects -> Nat]
      /\ deleting' \in [Threads -> Objects \cup {Null}]
  BY DEF Keep, ObjectInv
<1>2. \A d \in Cells : home'[d] = Null <=> data'[d] = Null
  <2>1. o # Null
    BY NullAssumption
  <2> QED BY <2>1 DEF DataBut, ObjectInv
<1> QED BY <1>1, <1>2 DEF ObjectInv

\* A list gives an object to its caller, or deletes it.
GivesUp(o) == Release(o) \/ \E t \in Threads : Alone(o) /\ Delete(t, o) /\ hand' = hand

LEMMA LeaveObjects ==
  ASSUME ObjectInv, NEW c \in Cells, NEW o \in Objects, DataBut(c),
         data'[c] = Null, home'[c] = Null, GivesUp(o)
  PROVE  ObjectInv'
<1>1. /\ hand' \subseteq Objects /\ alive' \subseteq Objects /\ ref' \in [Objects -> Nat]
      /\ deleting' \in [Threads -> Objects \cup {Null}]
  <2>1. CASE Release(o)
    BY <2>1 DEF Release, Dec, ObjectInv
  <2>2. CASE \E t \in Threads : Delete(t, o) /\ hand' = hand
    BY <2>2 DEF Delete, Dec, ObjectInv
  <2> QED BY <2>1, <2>2 DEF GivesUp
<1>2. \A d \in Cells : home'[d] = Null <=> data'[d] = Null
  BY DEF DataBut, ObjectInv
<1> QED BY <1>1, <1>2 DEF ObjectInv

\* The application makes an object, and gives one up; somebody looks at a count.
LEMMA HandObjects ==
  ASSUME ObjectInv, NEW t \in Threads, (\E o \in Objects : New(t, o) \/ Drop(t, o)) \/ Test(t)
  PROVE  ObjectInv'
<1>1. data' = data /\ home' = home
  BY DEF New, Drop, Test, chains
<1>2. /\ hand' \subseteq Objects /\ alive' \subseteq Objects /\ ref' \in [Objects -> Nat]
      /\ deleting' \in [Threads -> Objects \cup {Null}]
  <2>1. CASE \E o \in Objects : New(t, o)
    BY <2>1 DEF New, ObjectInv
  <2>2. CASE \E o \in Objects : Drop(t, o)
    BY <2>2 DEF Drop, Delete, Dec, ObjectInv
  <2>3. CASE Test(t)
    BY <2>3 DEF Test, ObjectInv
  <2> QED BY <2>1, <2>2, <2>3
<1> QED BY <1>1, <1>2 DEF ObjectInv

-----------------------------------------------------------------------------
(* The steps on one list: what comes of it, and that the others keep theirs.   *)

Keeps(l) ==
  /\ \A h \in Lists : h # l => size'[h] = size[h] /\ \A q : IsChain(h, q) => IsChain(h, q)'
  /\ \A d \in Cells : home[d] \notin {l, Null} => data'[d] = data[d]

\* One object more in a list, one less, or the list turned round.
Grows(l) ==
  \E s, n : n = size[l] /\ \E k \in 1 .. n + 1, c \in Cells, o \in Objects :
    /\ IsChain(l, s) /\ IsChain(l, Put(s, n, k, c))' /\ size'[l] = n + 1
    /\ home[c] = Null /\ data'[c] = o /\ \A d \in Cells : d # c => data'[d] = data[d]
    /\ Keeps(l)

Shrinks(l) ==
  \E s, n : n = size[l] /\ \E k \in 1 .. n :
    /\ IsChain(l, s) /\ IsChain(l, Out(s, n, k))' /\ size'[l] = n - 1
    /\ \A d \in Cells : d # s[k] => data'[d] = data[d]
    /\ Keeps(l)

Turns(l) ==
  \E s, n : /\ n = size[l] /\ IsChain(l, s) /\ IsChain(l, Turned(s, n))' /\ size'[l] = n
            /\ data' = data /\ Keeps(l)

LEMMA PutIn ==
  ASSUME ChainInv, ObjectInv, NEW l \in Lists, NEW n, n = size[l], NEW s, IsChain(l, s),
         NEW c \in Cells, Unused(c), NEW o \in Objects, NEW k \in 1 .. n + 1, NEW p, NEW m,
         p = IF k = 1 THEN Null ELSE s[k - 1], m = Place(s, n, k),
         Link(c, o, l, p, m), Keep(o)
  PROVE  /\ ChainInv' /\ ObjectInv' /\ Keeps(l) /\ Grows(l)
         /\ n \in Nat /\ size'[l] = n + 1 /\ IsChain(l, Put(s, n, k, c))'
         /\ data'[c] = o /\ \A d \in Cells : d # c => data'[d] = data[d]
<1>1. ChainTypes /\ n \in Nat
  BY DEF ChainInv, ChainTypes
<1>2. Link(c, o, l, IF k = 1 THEN Null ELSE s[k - 1], IF k = n + 1 THEN Null ELSE s[k])
  BY DEF Place
<1>3. /\ IsChain(l, Put(s, n, k, c))'
      /\ \A h \in Lists : \A q : h # l /\ IsChain(h, q) => IsChain(h, q)'
  BY <1>1, <1>2, LinkChain
<1>4. p \in Links /\ m \in Links
  <2>1. (k # 1 => k - 1 \in 1 .. n) /\ (k # n + 1 => k \in 1 .. n)
    BY <1>1
  <2> QED BY <2>1 DEF IsChain, Place, Links
<1>5. /\ ChainTypes'
      /\ \A d \in Cells : /\ home'[d] = IF d = c THEN l ELSE home[d]
                          /\ data'[d] = IF d = c THEN o ELSE data[d]
      /\ \A h \in Lists : size'[h] = IF h = l THEN size[h] + 1 ELSE size[h]
  BY <1>1, <1>4, LinkEffect
<1>6. ChainInv'
  <2>1. ASSUME NEW h \in Lists PROVE \E q : IsChain(h, q)'
    <3>1. PICK q : IsChain(h, q)
      BY DEF ChainInv
    <3> QED BY <1>3, <3>1
  <2> QED BY <1>5, <2>1 DEF ChainInv
<1>7. home[c] = Null /\ data[c] = Null /\ l # Null
  BY NullAssumption DEF Unused, ObjectInv
<1>8. ObjectInv'
  <2>1. DataBut(c) /\ data'[c] = o /\ home'[c] # Null
    BY <1>5, <1>7 DEF DataBut
  <2> QED BY <2>1, KeepObjects
<1>9. Keeps(l)
  BY <1>3, <1>5, <1>7 DEF Keeps
<1>10. Grows(l)
  BY <1>3, <1>5, <1>7, <1>9 DEF Grows
<1> QED BY <1>1, <1>3, <1>5, <1>6, <1>8, <1>9, <1>10

LEMMA TakeOut ==
  ASSUME ChainInv, ObjectInv, NEW l \in Lists, NEW n, n = size[l], NEW s, IsChain(l, s),
         NEW k \in 1 .. n, NEW c, c = s[k], Cut(c), GivesUp(data[c])
  PROVE  /\ ChainInv' /\ ObjectInv' /\ Keeps(l) /\ Shrinks(l)
         /\ n \in Nat /\ size'[l] = n - 1 /\ IsChain(l, Out(s, n, k))'
         /\ \A d \in Cells : d # c => data'[d] = data[d]
<1>1. ChainTypes /\ n \in Nat
  BY DEF ChainInv, ChainTypes
<1>2. c \in Cells /\ home[c] = l /\ size[l] > 0
  BY <1>1 DEF IsChain
<1>3. /\ ChainTypes' /\ IsChain(l, Out(s, n, k))'
      /\ \A h \in Lists : \A q : h # l /\ IsChain(h, q) => IsChain(h, q)'
  BY <1>1, <1>2, CutChain
<1>4. /\ \A d \in Cells : /\ home'[d] = IF d = c THEN Null ELSE home[d]
                          /\ data'[d] = IF d = c THEN Null ELSE data[d]
      /\ \A h \in Lists : size'[h] = IF h = l THEN size[h] - 1 ELSE size[h]
  BY <1>1, <1>2, CutEffect
<1>5. ChainInv'
  <2>1. ASSUME NEW h \in Lists PROVE \E q : IsChain(h, q)'
    <3>1. PICK q : IsChain(h, q)
      BY DEF ChainInv
    <3> QED BY <1>3, <3>1
  <2> QED BY <1>3, <2>1 DEF ChainInv
<1>6. data[c] \in Objects /\ l # Null
  BY <1>1, <1>2, NullAssumption DEF ObjectInv, ChainTypes
<1>7. ObjectInv'
  <2>1. DataBut(c) /\ data'[c] = Null /\ home'[c] = Null
    BY <1>2, <1>4 DEF DataBut
  <2> QED BY <1>2, <1>6, <2>1, LeaveObjects
<1>8. Keeps(l)
  BY <1>2, <1>3, <1>4 DEF Keeps
<1>9. Shrinks(l)
  BY <1>3, <1>4, <1>8 DEF Shrinks
<1> QED BY <1>1, <1>2, <1>3, <1>4, <1>5, <1>7, <1>8, <1>9

LEMMA TurnRound ==
  ASSUME ChainInv, ObjectInv, NEW l \in Lists, NEW n, n = size[l], NEW s, IsChain(l, s),
         TurnAround(l), UNCHANGED objects
  PROVE  /\ ChainInv' /\ ObjectInv' /\ Keeps(l) /\ Turns(l)
         /\ n \in Nat /\ size'[l] = n /\ IsChain(l, Turned(s, n))' /\ data' = data
<1>1. ChainTypes /\ n \in Nat
  BY DEF ChainInv, ChainTypes
<1>2. /\ ChainTypes' /\ IsChain(l, Turned(s, n))'
      /\ \A h \in Lists : \A q : h # l /\ IsChain(h, q) => IsChain(h, q)'
  BY <1>1, TurnChain
<1>3. data' = data /\ home' = home /\ size' = size
  BY DEF TurnAround
<1>4. ChainInv'
  <2>1. ASSUME NEW h \in Lists PROVE \E q : IsChain(h, q)'
    <3>1. PICK q : IsChain(h, q)
      BY DEF ChainInv
    <3> QED BY <1>2, <3>1
  <2> QED BY <1>2, <2>1 DEF ChainInv
<1>5. alive' = alive /\ ref' = ref /\ hand' = hand /\ deleting' = deleting
  BY Zenon DEF objects
<1>6. ObjectInv'
  BY <1>3, <1>5 DEF ObjectInv
<1>7. Keeps(l)
  BY <1>2, <1>3 DEF Keeps
<1>8. Turns(l)
  BY <1>2, <1>3, <1>7 DEF Turns
<1> QED BY <1>1, <1>2, <1>3, <1>4, <1>6, <1>7, <1>8

\* A step that leaves the chains alone.
LEMMA ChainsAlone ==
  ASSUME ChainInv, UNCHANGED chains
  PROVE  /\ ChainInv' /\ Keeps(Null) /\ data' = data /\ home' = home /\ size' = size
         /\ \A l, s : IsChain(l, s) => IsChain(l, s)'
<1>1. /\ first' = first /\ last' = last /\ size' = size
      /\ next' = next /\ prev' = prev /\ data' = data /\ home' = home
  BY Zenon DEF chains
<1>2. \A l, s : IsChain(l, s) => IsChain(l, s)'
  BY <1>1 DEF IsChain
<1>3. ChainInv'
  BY <1>1, <1>2 DEF ChainInv, ChainTypes
<1> QED BY <1>1, <1>2, <1>3 DEF Keeps

LEMMA ObjectsAlone ==
  ASSUME ObjectInv, UNCHANGED chains, UNCHANGED objects
  PROVE  ObjectInv'
<1>1. data' = data /\ home' = home
  BY Zenon DEF chains
<1>2. alive' = alive /\ ref' = ref /\ hand' = hand /\ deleting' = deleting
  BY Zenon DEF objects
<1> QED BY <1>1, <1>2 DEF ObjectInv

-----------------------------------------------------------------------------
(* Merges and walks are not disturbed by steps on other lists.                 *)

\* No merge is at work on list l.
Free(l) == \A t \in Threads : pc[t].op = "add" => l \notin {pc[t].self, pc[t].with}

LEMMA MergeKept ==
  ASSUME NEW t \in Threads, CallTypes, CallAt(t), pc[t].op = "add", MergeAt(t),
         NEW l, l \notin {pc[t].self, pc[t].with}, Keeps(l),
         pc'[t] = pc[t], whole'[t] = whole[t], ChainTypes
  PROVE  MergeAt(t)'
<1>1. PICK a \in Lists, b \in Lists : a = pc[t].self /\ b = pc[t].with
  BY DEF CallAt, CallTypes
<1>2. PICK s, q : /\ IsChain(a, s) /\ IsChain(b, q)
                  /\ \E k \in 1 .. size[b] + 1 :
                       /\ pc[t].at = Place(q, size[b], k)
                       /\ a # b => whole[t] = Rest(data, s, size[a], q, size[b], k)
  BY <1>1 DEF MergeAt
<1>3. /\ IsChain(a, s)' /\ IsChain(b, q)' /\ size'[a] = size[a] /\ size'[b] = size[b]
  BY <1>1, <1>2 DEF Keeps
<1>4. PICK k \in 1 .. size[b] + 1 :
                       /\ pc[t].at = Place(q, size[b], k)
                       /\ a # b => whole[t] = Rest(data, s, size[a], q, size[b], k)
  BY <1>2
<1>5. size[a] \in Nat /\ size[b] \in Nat
  BY DEF ChainTypes
<1>6. Rest(data', s, size[a], q, size[b], k) = Rest(data, s, size[a], q, size[b], k)
  <2>0. a \notin {l, Null} /\ b \notin {l, Null}
    BY <1>1, NullAssumption
  <2>1. \A i \in 1 .. size[a] : s[i] \in Cells /\ home[s[i]] = a
    BY <1>2 DEF IsChain
  <2>2. \A i \in 1 .. size[b] : q[i] \in Cells /\ home[q[i]] = b
    BY <1>2 DEF IsChain
  <2>3. /\ \A i \in 1 .. size[a] : data'[s[i]] = data[s[i]]
        /\ \A i \in 1 .. size[b] : data'[q[i]] = data[q[i]]
    BY <2>0, <2>1, <2>2 DEF Keeps
  <2> QED
    <3> SUFFICES ASSUME NEW i \in 1 .. size[a] + size[b] + 1 - k
                 PROVE  (IF i <= size[a] THEN data'[s[i]] ELSE data'[q[i - size[a] + k - 1]])
                        = (IF i <= size[a] THEN data[s[i]] ELSE data[q[i - size[a] + k - 1]])
      BY DEF Rest
    <3>1. IF i <= size[a] THEN i \in 1 .. size[a] ELSE i - size[a] + k - 1 \in 1 .. size[b]
      BY <1>5
    <3> QED BY <2>3, <3>1
<1>7. /\ pc'[t].at = Place(q, size'[b], k)
      /\ a # b => whole'[t] = Rest(data', s, size'[a], q, size'[b], k)
  BY <1>3, <1>4, <1>6
<1> QED BY <1>1, <1>3, <1>7 DEF MergeAt

LEMMA WalkKept ==
  ASSUME WalkInv, NEW l, l # itr.list, Keeps(l), itr' = itr, due' = due, late' = late, threads' = threads
  PROVE  WalkInv'
<1>1. CASE itr.list = Null
  BY <1>1 DEF WalkInv
<1>2. CASE itr.list # Null
  <2>1. PICK a \in Lists : a = itr.list
    BY <1>2 DEF WalkInv
  <2>2. PICK s : IsChain(a, s) /\ \E k \in 1 .. size[a] + 1 : WalkAt(s, size[a], k)
    BY <1>2, <2>1 DEF WalkInv
  <2>3. IsChain(a, s)' /\ size'[a] = size[a]
    BY <2>1, <2>2 DEF Keeps
  <2>4. (\E k \in 1 .. size[a] + 1 : WalkAt(s, size[a], k))'
    BY <2>2, <2>3 DEF WalkAt
  <2> QED BY <1>2, <2>1, <2>3, <2>4 DEF WalkInv
<1> QED BY <1>1, <1>2

-----------------------------------------------------------------------------
(* Calls.                                                                      *)

CallInv == CallTypes /\ (\A t \in Threads : CallAt(t)) /\ LockInv

\* Whoever may call on a list finds no merge at work on it.
LEMMA MayIsFree ==
  ASSUME CallInv, WalkInv, NEW t \in Threads, NEW l \in Lists, May(t, l)
  PROVE  /\ Free(l) /\ pc[t].op = "idle"
         /\ \A u \in Threads : pc[u].op = "destroy" => pc[u].self # l
<1>1. /\ pc[t].op = "idle" /\ (threads \/ t = Main) /\ lock[l] = Null
      /\ \A u \in Threads : pc[u].op = "destroy" => pc[u].self # l
  BY DEF May, Caller, Open, Gone
<1>2. ASSUME NEW u \in Threads, pc[u].op = "add" PROVE l \notin {pc[u].self, pc[u].with}
  <2>1. threads
    BY <1>1, <1>2 DEF CallInv, CallAt
  <2>2. lock[pc[u].self] = u /\ lock[pc[u].with] = u
    BY <1>2, <2>1 DEF CallInv, CallAt
  <2> QED BY <1>1, <2>2, NullAssumption
<1> QED BY <1>1, <1>2 DEF Free

\* No merge is at work on the list of the iterator, nor on one that is destroyed.
LEMMA OwnIsFree ==
  ASSUME CallInv
  PROVE  /\ Free(itr.list)
         /\ \A t \in Threads : pc[t].op = "destroy" => Free(pc[t].self)
<1>1. ASSUME NEW u \in Threads, pc[u].op = "add" PROVE itr.list \notin {pc[u].self, pc[u].with}
  BY <1>1 DEF CallInv, CallAt
<1>2. ASSUME NEW t \in Threads, pc[t].op = "destroy", NEW u \in Threads, pc[u].op = "add"
      PROVE  pc[t].self \notin {pc[u].self, pc[u].with}
  BY <1>2 DEF CallInv, CallAt
<1> QED BY <1>1, <1>2 DEF Free

\* Nobody else is at the lists of a merge that adds.
LEMMA OnlyMerge ==
  ASSUME CallInv, NEW t \in Threads, pc[t].op = "add",
         NEW u \in Threads, u # t, pc[u].op = "add"
  PROVE  pc[t].self \notin {pc[u].self, pc[u].with}
<1>1. threads
  BY DEF CallInv, CallAt
<1>2. lock[pc[t].self] = t /\ lock[pc[u].self] = u /\ lock[pc[u].with] = u
  BY <1>1 DEF CallInv, CallAt
<1> QED BY <1>2

\* Steps that are not of calls, as far as the calls go.
LEMMA CallsKept ==
  ASSUME CallInv, pc' = pc, lock' = lock, threads' = threads, itr'.list \in {itr.list, Null}
  PROVE  CallInv'
<1>1. CallTypes'
  BY DEF CallInv, CallTypes
<1>2. LockInv'
  BY DEF CallInv, LockInv
<1>3. ASSUME NEW t \in Threads PROVE CallAt(t)'
  <2>1. CallAt(t) /\ CallTypes
    BY DEF CallInv
  <2>2. /\ pc[t].op \in {"lock", "add"} => Null \notin {pc[t].self, pc[t].with}
        /\ pc[t].op = "destroy" => pc[t].self # Null
    BY <2>1 DEF CallAt
  <2>3. /\ pc[t].op \in {"lock", "add"} => itr'.list \notin {pc[t].self, pc[t].with}
        /\ pc[t].op = "destroy" => itr'.list # pc[t].self
    BY <2>1, <2>2 DEF CallAt
  <2> QED BY <2>1, <2>3 DEF CallAt
<1> QED BY <1>1, <1>2, <1>3 DEF CallInv

\* A step of the call of t, as far as the others go: of the mutexes it takes and
\* releases its own, and it comes to no list that is destroyed.
LEMMA OtherCalls ==
  ASSUME CallInv, NEW t \in Threads, itr' = itr, threads' = threads,
         \A u \in Threads : u # t => pc'[u] = pc[u],
         \A u \in Threads : u # t /\ pc[u].op = "destroy" =>
           pc[u].self \notin {pc'[t].self, pc'[t].with},
         \A l \in Lists : lock'[l] # lock[l] => lock[l] \in {Null, t} /\ lock'[l] \in {Null, t},
         \A l \in Lists : lock'[l] = t =>
           /\ threads /\ pc'[t].op \in {"lock", "add", "nth"}
           /\ l = pc'[t].self \/ (pc'[t].op = "add" /\ l = pc'[t].with)
  PROVE  LockInv' /\ \A u \in Threads : u # t => CallAt(u)'
<1>1. CallTypes /\ LockInv /\ t # Null
  BY NullAssumption DEF CallInv
<1>2. LockInv'
  <2>1. ASSUME NEW l \in Lists, lock'[l] # Null
        PROVE  /\ threads /\ pc'[lock'[l]].op \in {"lock", "add", "nth"}
               /\ \/ l = pc'[lock'[l]].self
                  \/ pc'[lock'[l]].op = "add" /\ l = pc'[lock'[l]].with
    <3>1. CASE lock'[l] = t
      BY <3>1
    <3>2. CASE lock'[l] # t
      <4>1. lock[l] = lock'[l] /\ lock[l] # Null /\ lock[l] \in Threads
        BY <1>1, <2>1, <3>2 DEF CallTypes
      <4>2. pc'[lock'[l]] = pc[lock[l]]
        BY <3>2, <4>1
      <4>3. /\ threads /\ pc[lock[l]].op \in {"lock", "add", "nth"}
            /\ l = pc[lock[l]].self \/ (pc[lock[l]].op = "add" /\ l = pc[lock[l]].with)
        BY <1>1, <4>1 DEF LockInv
      <4> QED BY <4>2, <4>3
    <3> QED BY <3>1, <3>2
  <2> QED BY <2>1 DEF LockInv
<1>3. ASSUME NEW u \in Threads, u # t PROVE CallAt(u)'
  <2>1. CallAt(u) /\ pc'[u] = pc[u] /\ u # Null
    BY <1>3, NullAssumption DEF CallInv
  <2>2. \A l \in Lists : lock[l] = u => lock'[l] = u
    BY <1>3, <2>1
  <2>3. /\ pc[u].op \in {"lock", "add", "nth"} => pc[u].self \in Lists
        /\ pc[u].op = "add" => pc[u].with \in Lists
    BY <1>1, <2>1 DEF CallTypes, CallAt
  <2>4. /\ threads /\ pc[u].op \in {"lock", "add", "nth"} => lock'[pc[u].self] = u
        /\ threads /\ pc[u].op = "add" => lock'[pc[u].with] = u
    BY <2>1, <2>2, <2>3 DEF CallAt
  <2>5. pc[u].op = "destroy" =>
          \A w \in Threads : w # u => pc[u].self \notin {pc'[w].self, pc'[w].with}
    BY <1>3, <2>1 DEF CallAt
  <2> QED BY <2>1, <2>4, <2>5 DEF CallAt
<1> QED BY <1>2, <1>3

\* A step that changes a call and nothing but mutexes: all but the calls.
LEMMA RestKept ==
  ASSUME IInv, NEW t \in Threads, UNCHANGED <<chains, objects, walk, threads>>,
         \A u \in Threads : u # t => pc'[u] = pc[u] /\ whole'[u] = whole[u]
  PROVE  /\ ChainInv' /\ ObjectInv' /\ WalkInv'
         /\ \A u \in Threads : u # t /\ pc'[u].op = "add" => MergeAt(u)'
<1>1. UNCHANGED chains /\ UNCHANGED objects /\ itr' = itr /\ due' = due /\ late' = late /\ threads' = threads
  BY Zenon DEF walk
<1>2. ChainInv' /\ ObjectInv' /\ Keeps(Null)
  BY <1>1, ChainsAlone, ObjectsAlone DEF IInv
<1>3. WalkInv'
  <2>1. CASE itr.list = Null
    BY <1>1, <2>1 DEF IInv, WalkInv
  <2>2. CASE itr.list # Null
    BY <1>1, <1>2, <2>2, WalkKept DEF IInv
  <2> QED BY <2>1, <2>2
<1>4. ASSUME NEW u \in Threads, u # t, pc'[u].op = "add" PROVE MergeAt(u)'
  <2>1. CallTypes /\ CallAt(u) /\ pc[u].op = "add" /\ MergeAt(u) /\ ChainTypes
    BY <1>4 DEF IInv, MergeInv, ChainInv
  <2>2. Null \notin {pc[u].self, pc[u].with}
    BY <2>1 DEF CallAt
  <2> QED BY <1>2, <1>4, <2>1, <2>2, MergeKept
<1> QED BY <1>2, <1>3, <1>4

-----------------------------------------------------------------------------
(* The calls, one step at a time.                                              *)

\* A function with one place changed.
LEMMA OnePlace ==
  ASSUME NEW S, NEW f, DOMAIN f = S, NEW t \in S, NEW v
  PROVE  /\ [f EXCEPT ![t] = v][t] = v /\ DOMAIN [f EXCEPT ![t] = v] = S
         /\ \A u \in S : u # t => [f EXCEPT ![t] = v][u] = f[u]
OBVIOUS

\* A call on one list.
CallOf(x, l) == [Idle EXCEPT !.op = x, !.self = l]

LEMMA CallOfIs ==
  ASSUME NEW x \in {"nth", "destroy"}, NEW l \in Lists
  PROVE  /\ CallOf(x, l).op = x /\ CallOf(x, l).self = l
         /\ CallOf(x, l).with = Null /\ CallOf(x, l).at = Null
         /\ CallOf(x, l) \in [op : {"idle", "lock", "add", "nth", "destroy"},
                               self : Lists \cup {Null}, with : Lists \cup {Null}, at : Links]
BY DEF CallOf, Idle, Links

LEMMA MergeStep ==
  ASSUME IInv, NEW t \in Threads, NEW l \in Lists, NEW m \in Lists, Merge(t, l, m)
  PROVE  IInv'
<1>1. /\ May(t, l) /\ itr.list # l /\ itr.list # m /\ <<l, m>> \in Merges
      /\ \A u \in Threads : pc[u].op = "destroy" => pc[u].self # m
      /\ lock' = [lock EXCEPT ![l] = Holder(t)]
      /\ pc' = [pc EXCEPT ![t] = [op |-> "lock", self |-> l, with |-> m, at |-> Null]]
      /\ UNCHANGED <<chains, objects, whole, walk, threads>>
  BY DEF Merge, Walked, Gone
<1>2. UNCHANGED <<chains, objects, walk, threads>> /\ whole' = whole /\ itr' = itr /\ threads' = threads
  BY <1>1, Zenon DEF walk
<1>3. CallInv /\ CallTypes /\ CallAt(t) /\ LockInv /\ t # Null
  BY NullAssumption DEF IInv, CallInv
<1>4. /\ pc[t].op = "idle" /\ lock[l] = Null
      /\ \A u \in Threads : pc[u].op = "destroy" => pc[u].self # l
      /\ threads \/ t = Main
  BY <1>1 DEF May, Caller, Open, Gone
<1>5. CallTypes'
  BY <1>1, <1>2, <1>3 DEF CallTypes, Holder, Links
<1>6. /\ pc'[t] = [op |-> "lock", self |-> l, with |-> m, at |-> Null]
      /\ \A u \in Threads : u # t => pc'[u] = pc[u]
      /\ \A h \in Lists : lock'[h] = IF h = l THEN Holder(t) ELSE lock[h]
  BY <1>1, <1>3 DEF CallTypes
<1>7. LockInv' /\ \A u \in Threads : u # t => CallAt(u)'
  <2>1. \A u \in Threads : u # t /\ pc[u].op = "destroy" => pc[u].self \notin {l, m}
    BY <1>1, <1>4
  <2>2. \A h \in Lists : lock'[h] # lock[h] => lock[h] \in {Null, t} /\ lock'[h] \in {Null, t}
    BY <1>4, <1>6 DEF Holder
  <2>3. \A h \in Lists : lock'[h] = t => threads /\ h = l
    BY <1>3, <1>4, <1>6 DEF Holder, LockInv
  <2> QED BY <1>2, <1>3, <1>6, <2>1, <2>2, <2>3, OtherCalls
<1>8. CallAt(t)'
  <2>1. threads => lock'[l] = t
    BY <1>6 DEF Holder
  <2>2. l # Null /\ m # Null
    BY NullAssumption
  <2> QED BY <1>1, <1>2, <1>4, <1>6, <2>1, <2>2 DEF CallAt
<1>9. /\ ChainInv' /\ ObjectInv' /\ WalkInv'
      /\ \A u \in Threads : u # t /\ pc'[u].op = "add" => MergeAt(u)'
  BY <1>2, <1>6, RestKept
<1>10. MergeInv'
  BY <1>2, <1>6, <1>9 DEF MergeInv, IInv
<1> QED BY <1>5, <1>7, <1>8, <1>9, <1>10 DEF IInv

LEMMA NthStep ==
  ASSUME IInv, NEW t \in Threads, NEW l \in Lists, Nth(t, l)
  PROVE  IInv'
<1>1. /\ May(t, l) /\ (threads => NthThreaded)
      /\ lock' = [lock EXCEPT ![l] = Holder(t)]
      /\ pc' = [pc EXCEPT ![t] = CallOf("nth", l)]
      /\ UNCHANGED <<chains, objects, whole, walk, threads>>
  BY DEF Nth, CallOf
<1>2. UNCHANGED <<chains, objects, walk, threads>> /\ whole' = whole /\ itr' = itr /\ threads' = threads
  BY <1>1, Zenon DEF walk
<1>3. CallInv /\ CallTypes /\ CallAt(t) /\ LockInv /\ t # Null
  BY NullAssumption DEF IInv, CallInv
<1>4. /\ pc[t].op = "idle" /\ lock[l] = Null
      /\ \A u \in Threads : pc[u].op = "destroy" => pc[u].self # l
      /\ threads \/ t = Main
  BY <1>1 DEF May, Caller, Open, Gone
<1>5. CallTypes'
  BY <1>1, <1>2, <1>3, CallOfIs DEF CallTypes, Holder
<1>6. /\ pc'[t] = CallOf("nth", l) /\ pc'[t].op = "nth" /\ pc'[t].self = l
      /\ pc'[t].with = Null /\ pc'[t].at = Null
      /\ \A u \in Threads : u # t => pc'[u] = pc[u]
      /\ \A h \in Lists : lock'[h] = IF h = l THEN Holder(t) ELSE lock[h]
  BY <1>1, <1>3, CallOfIs DEF CallTypes
<1>7. LockInv' /\ \A u \in Threads : u # t => CallAt(u)'
  <2>1. \A u \in Threads : u # t /\ pc[u].op = "destroy" => pc[u].self \notin {l, Null}
    BY <1>3, <1>4 DEF CallInv, CallAt
  <2>2. \A h \in Lists : lock'[h] # lock[h] => lock[h] \in {Null, t} /\ lock'[h] \in {Null, t}
    BY <1>4, <1>6 DEF Holder
  <2>3. \A h \in Lists : lock'[h] = t => threads /\ h = l
    BY <1>3, <1>4, <1>6 DEF Holder, LockInv
  <2> QED BY <1>2, <1>3, <1>6, <2>1, <2>2, <2>3, OtherCalls
<1>8. CallAt(t)'
  <2>1. threads => lock'[l] = t
    BY <1>6 DEF Holder
  <2>2. l # Null
    BY NullAssumption
  <2> QED BY <1>1, <1>2, <1>4, <1>6, <2>1, <2>2 DEF CallAt
<1>9. /\ ChainInv' /\ ObjectInv' /\ WalkInv'
      /\ \A u \in Threads : u # t /\ pc'[u].op = "add" => MergeAt(u)'
  BY <1>2, <1>6, RestKept
<1>10. MergeInv'
  BY <1>2, <1>6, <1>9 DEF MergeInv, IInv
<1> QED BY <1>5, <1>7, <1>8, <1>9, <1>10 DEF IInv

LEMMA DestroyStep ==
  ASSUME IInv, NEW t \in Threads, NEW l \in Lists, Destroy(t, l)
  PROVE  IInv'
<1>1. /\ May(t, l) /\ itr.list # l
      /\ \A u \in Threads : l \notin {pc[u].self, pc[u].with}
      /\ pc' = [pc EXCEPT ![t] = CallOf("destroy", l)]
      /\ UNCHANGED <<chains, objects, lock, whole, walk, threads>>
  BY DEF Destroy, CallOf, Walked
<1>2. /\ UNCHANGED <<chains, objects, walk, threads>> /\ whole' = whole /\ itr' = itr
      /\ threads' = threads /\ lock' = lock
  BY <1>1, Zenon DEF walk
<1>3. CallInv /\ CallTypes /\ CallAt(t) /\ LockInv /\ t # Null /\ l # Null
  BY NullAssumption DEF IInv, CallInv
<1>4. pc[t].op = "idle" /\ (threads \/ t = Main)
  BY <1>1 DEF May, Caller
<1>5. CallTypes'
  BY <1>1, <1>2, <1>3, CallOfIs DEF CallTypes
<1>6. /\ pc'[t] = CallOf("destroy", l) /\ pc'[t].op = "destroy" /\ pc'[t].self = l
      /\ pc'[t].with = Null /\ pc'[t].at = Null
      /\ \A u \in Threads : u # t => pc'[u] = pc[u]
  BY <1>1, <1>3, CallOfIs DEF CallTypes
<1>7. LockInv' /\ \A u \in Threads : u # t => CallAt(u)'
  <2>1. \A u \in Threads : u # t /\ pc[u].op = "destroy" => pc[u].self \notin {l, Null}
    BY <1>1, <1>3 DEF CallInv, CallAt
  <2>3. \A h \in Lists : lock'[h] # t
    BY <1>2, <1>3, <1>4 DEF LockInv
  <2> QED BY <1>2, <1>3, <1>6, <2>1, <2>3, OtherCalls
<1>8. CallAt(t)'
  <2>1. \A u \in Threads : u # t => l \notin {pc'[u].self, pc'[u].with}
    BY <1>1, <1>6
  <2> QED BY <1>1, <1>2, <1>3, <1>4, <1>6, <2>1 DEF CallAt
<1>9. /\ ChainInv' /\ ObjectInv' /\ WalkInv'
      /\ \A u \in Threads : u # t /\ pc'[u].op = "add" => MergeAt(u)'
  BY <1>2, <1>6, RestKept
<1>10. MergeInv'
  BY <1>2, <1>6, <1>9 DEF MergeInv, IInv
<1> QED BY <1>5, <1>7, <1>8, <1>9, <1>10 DEF IInv

\* The objects of a list are those of its chain.
LEMMA ContentIs ==
  ASSUME ChainInv, ObjectInv, NEW l \in Lists, NEW s, IsChain(l, s)
  PROVE  /\ size[l] \in Nat /\ Content(l) = [i \in 1 .. size[l] |-> data[s[i]]]
         /\ \A i \in 1 .. size[l] : data[s[i]] \in Objects
         /\ Content(l) \in Seq(Objects) /\ Len(Content(l)) = size[l]
<1>1. size[l] \in Nat
  BY DEF ChainInv, ChainTypes
<1>2. Chain(l) = s
  BY <1>1, ChainIs
<1>3. \A i \in 1 .. size[l] : s[i] # Null /\ s[i] \in Cells /\ home[s[i]] = l
  BY NullAssumption DEF IsChain
<1>4. Content(l) = [i \in 1 .. size[l] |-> data[s[i]]]
  BY <1>2, <1>3 DEF Content
<1>5. \A i \in 1 .. size[l] : data[s[i]] \in Objects
  BY <1>3, NullAssumption DEF ObjectInv, ChainInv, ChainTypes
<1> QED BY <1>1, <1>4, <1>5

\* Two lists one after the other.
LEMMA BothLists ==
  ASSUME NEW f, NEW s, NEW q, NEW n \in Nat, NEW m \in Nat,
         \A i \in 1 .. n : f[s[i]] \in Objects, \A i \in 1 .. m : f[q[i]] \in Objects
  PROVE  [i \in 1 .. n |-> f[s[i]]] \o [i \in 1 .. m |-> f[q[i]]] = Rest(f, s, n, q, m, 1)
<1> DEFINE a == [i \in 1 .. n |-> f[s[i]]]
           b == [i \in 1 .. m |-> f[q[i]]]
<1>1. a \in Seq(Objects) /\ b \in Seq(Objects) /\ Len(a) = n /\ Len(b) = m
  OBVIOUS
<1>2. a \o b = [i \in 1 .. n + m |-> IF i <= n THEN a[i] ELSE b[i - n]]
  BY <1>1
<1>3. \A i \in 1 .. n + m : (IF i <= n THEN a[i] ELSE b[i - n])
                            = (IF i <= n THEN f[s[i]] ELSE f[q[i - n + 1 - 1]])
  <2> SUFFICES ASSUME NEW i \in 1 .. n + m
               PROVE  (IF i <= n THEN a[i] ELSE b[i - n])
                      = (IF i <= n THEN f[s[i]] ELSE f[q[i - n + 1 - 1]])
    OBVIOUS
  <2>1. IF i <= n THEN i \in 1 .. n ELSE i - n \in 1 .. m /\ i - n + 1 - 1 = i - n
    OBVIOUS
  <2> QED BY <2>1
<1>4. n + m + 1 - 1 = n + m
  OBVIOUS
<1> HIDE DEF a, b
<1>5. a \o b = Rest(f, s, n, q, m, 1)
  BY <1>2, <1>3, <1>4 DEF Rest
<1> QED BY <1>5 DEF a, b

LEMMA MergeLockStep ==
  ASSUME IInv, NEW t \in Threads, MergeLock(t)
  PROVE  IInv'
<1>1. PICK l, m : l = pc[t].self /\ m = pc[t].with
  OBVIOUS
<1>2. /\ pc[t].op = "lock" /\ lock[m] = Null
      /\ lock' = [lock EXCEPT ![m] = Holder(t)]
      /\ pc' = [pc EXCEPT ![t].op = "add", ![t].at = first[m]]
      /\ whole' = [whole EXCEPT ![t] = Content(l) \o Content(m)]
      /\ UNCHANGED <<chains, objects, walk, threads>>
  BY <1>1 DEF MergeLock, Open
<1>3. UNCHANGED <<chains, objects, walk, threads>> /\ itr' = itr /\ threads' = threads
  BY <1>2, Zenon DEF walk
<1>4. CallInv /\ CallTypes /\ CallAt(t) /\ LockInv /\ t # Null
  BY NullAssumption DEF IInv, CallInv
<1>5. l \in Lists /\ m \in Lists
  BY <1>1, <1>2, <1>4 DEF CallAt, CallTypes
<1>6. first[m] \in Links /\ ChainInv /\ ObjectInv
  BY <1>5 DEF IInv, ChainInv, ChainTypes
<1>7. /\ pc'[t].op = "add" /\ pc'[t].self = l /\ pc'[t].with = m /\ pc'[t].at = first[m]
      /\ \A u \in Threads : u # t => pc'[u] = pc[u]
      /\ \A h \in Lists : lock'[h] = IF h = m THEN Holder(t) ELSE lock[h]
      /\ CallTypes'
  <2>1. /\ pc'[t].op = "add" /\ pc'[t].self = l /\ pc'[t].with = m /\ pc'[t].at = first[m]
        /\ \A u \in Threads : u # t => pc'[u] = pc[u]
        /\ pc' \in [Threads -> [op : {"idle", "lock", "add", "nth", "destroy"},
                         self : Lists \cup {Null}, with : Lists \cup {Null},
                         at : Links]]
    <3>1. PICK e : e = [[pc[t] EXCEPT !.op = "add"] EXCEPT !.at = first[m]]
      OBVIOUS
    <3>2. e.op = "add" /\ e.self = l /\ e.with = m /\ e.at = first[m]
      BY <1>1, <1>4, <3>1 DEF CallTypes
    <3>3. e \in [op : {"idle", "lock", "add", "nth", "destroy"},
                 self : Lists \cup {Null}, with : Lists \cup {Null}, at : Links]
      BY <1>4, <1>6, <3>1 DEF CallTypes
    <3>4. pc' = [pc EXCEPT ![t] = e]
      BY <1>2, <1>4, <3>1 DEF CallTypes
    <3> QED BY <1>4, <3>2, <3>3, <3>4 DEF CallTypes
  <2>2. /\ \A h \in Lists : lock'[h] = IF h = m THEN Holder(t) ELSE lock[h]
        /\ lock' \in [Lists -> Threads \cup {Null}]
    BY <1>2, <1>4 DEF CallTypes, Holder
  <2> QED BY <1>3, <1>4, <2>1, <2>2 DEF CallTypes
<1>8. LockInv' /\ \A u \in Threads : u # t => CallAt(u)'
  <2>1. \A u \in Threads : u # t /\ pc[u].op = "destroy" => pc[u].self \notin {l, m}
    BY <1>1, <1>4 DEF CallInv, CallAt
  <2>2. \A h \in Lists : lock'[h] # lock[h] => lock[h] \in {Null, t} /\ lock'[h] \in {Null, t}
    BY <1>2, <1>7 DEF Holder
  <2>3. \A h \in Lists : lock'[h] = t => threads /\ (h = l \/ h = m)
    BY <1>1, <1>2, <1>4, <1>7 DEF Holder, LockInv
  <2> QED BY <1>3, <1>4, <1>7, <2>1, <2>2, <2>3, OtherCalls
<1>9. CallAt(t)'
  <2>1. threads => lock'[l] = t /\ lock'[m] = t
    <3>1. threads => lock[l] = t
      BY <1>1, <1>2, <1>4 DEF CallAt
    <3> QED BY <1>5, <1>7, <3>1 DEF Holder
  <2>2. l # Null /\ m # Null
    BY <1>5, NullAssumption
  <2>3. <<l, m>> \in Merges /\ itr.list \notin {l, m} /\ (threads \/ t = Main)
    BY <1>1, <1>2, <1>4 DEF CallAt
  <2> QED BY <1>3, <1>7, <2>1, <2>2, <2>3 DEF CallAt
<1>10. /\ ChainInv' /\ ObjectInv' /\ WalkInv'
       /\ \A u \in Threads : u # t /\ pc'[u].op = "add" => MergeAt(u)'
  <2>1. \A u \in Threads : u # t => pc'[u] = pc[u] /\ whole'[u] = whole[u]
    BY <1>2, <1>7 DEF IInv, MergeInv
  <2> QED BY <1>3, <2>1, RestKept
<1>11. PICK s : IsChain(l, s)
  BY <1>5, <1>6 DEF ChainInv
<1>12. PICK q : IsChain(m, q)
  BY <1>5, <1>6 DEF ChainInv
<1>13. /\ size[l] \in Nat /\ size[m] \in Nat
       /\ Content(l) \o Content(m) = Rest(data, s, size[l], q, size[m], 1)
       /\ Content(l) \o Content(m) \in Seq(Objects)
  <2>1. /\ size[l] \in Nat /\ Content(l) = [i \in 1 .. size[l] |-> data[s[i]]]
        /\ \A i \in 1 .. size[l] : data[s[i]] \in Objects
        /\ Content(l) \in Seq(Objects)
    BY <1>5, <1>6, <1>11, ContentIs
  <2>2. /\ size[m] \in Nat /\ Content(m) = [i \in 1 .. size[m] |-> data[q[i]]]
        /\ \A i \in 1 .. size[m] : data[q[i]] \in Objects
        /\ Content(m) \in Seq(Objects)
    BY <1>5, <1>6, <1>12, ContentIs
  <2>3. Content(l) \o Content(m) = Rest(data, s, size[l], q, size[m], 1)
    <3>1. [i \in 1 .. size[l] |-> data[s[i]]] \o [i \in 1 .. size[m] |-> data[q[i]]]
          = Rest(data, s, size[l], q, size[m], 1)
      <4> HIDE DEF Rest
      <4>1. \A i \in 1 .. size[l] : data[s[i]] \in Objects
        BY <2>1
      <4>2. \A i \in 1 .. size[m] : data[q[i]] \in Objects
        BY <2>2
      <4>3. size[l] \in Nat /\ size[m] \in Nat
        BY <2>1, <2>2
      <4> QED BY <4>1, <4>2, <4>3, BothLists, Zenon
    <3> QED BY <2>1, <2>2, <3>1, Zenon
  <2>4. Content(l) \o Content(m) \in Seq(Objects)
    <3>1. Content(l) \in Seq(Objects) /\ Content(m) \in Seq(Objects)
      BY <2>1, <2>2
    <3> QED BY <3>1
  <2> QED BY <2>1, <2>2, <2>3, <2>4
<1>14. MergeAt(t)'
  <2>1. /\ data' = data /\ size' = size /\ IsChain(l, s)' /\ IsChain(m, q)'
    BY <1>3, <1>6, <1>11, <1>12, ChainsAlone
  <2>2. first[m] = Place(q, size[m], 1)
    BY <1>12, <1>13 DEF IsChain, Place
  <2>3. whole'[t] = Rest(data, s, size[l], q, size[m], 1)
    BY <1>2, <1>13 DEF IInv, MergeInv
  <2>4. 1 \in 1 .. size[m] + 1
    BY <1>13
  <2> QED BY <1>7, <2>1, <2>2, <2>3, <2>4 DEF MergeAt
<1>15. MergeInv'
  <2>1. DOMAIN whole' = Threads /\ \A u \in Threads : whole'[u] \in Seq(Objects)
    BY <1>2, <1>13 DEF IInv, MergeInv
  <2> QED BY <1>10, <1>14, <2>1 DEF MergeInv
<1> QED BY <1>7, <1>8, <1>9, <1>10, <1>15 DEF IInv

\* A call returns.
LEMMA IdleIs ==
  /\ Idle.op = "idle" /\ Idle.self = Null /\ Idle.with = Null /\ Idle.at = Null
  /\ Idle \in [op : {"idle", "lock", "add", "nth", "destroy"},
               self : Lists \cup {Null}, with : Lists \cup {Null}, at : Links]
BY DEF Idle, Links

LEMMA ReturnStep ==
  ASSUME IInv, NEW t \in Threads, pc' = [pc EXCEPT ![t] = Idle],
         UNCHANGED <<chains, objects, walk, threads>>,
         \A u \in Threads : u # t => whole'[u] = whole[u],
         DOMAIN whole' = Threads /\ whole'[t] \in Seq(Objects),
         lock' \in [Lists -> Threads \cup {Null}],
         \A l \in Lists : lock'[l] # lock[l] => lock[l] \in {Null, t} /\ lock'[l] = Null,
         \A l \in Lists : lock'[l] # t
  PROVE  IInv'
<1>3. /\ UNCHANGED <<chains, objects, walk, threads>> /\ itr' = itr /\ threads' = threads
      /\ CallInv /\ CallTypes /\ t # Null
  <2>1. itr' = itr /\ threads' = threads
    BY Zenon DEF walk
  <2> QED BY <2>1, NullAssumption DEF IInv, CallInv
<1>6. /\ pc'[t].op = "idle" /\ pc'[t].self = Null /\ pc'[t].with = Null /\ pc'[t].at = Null
      /\ \A u \in Threads : u # t => pc'[u] = pc[u]
      /\ CallTypes'
  <2>1. pc'[t] = Idle /\ \A u \in Threads : u # t => pc'[u] = pc[u]
    BY <1>3 DEF CallTypes
  <2>2. pc' \in [Threads -> [op : {"idle", "lock", "add", "nth", "destroy"},
                         self : Lists \cup {Null}, with : Lists \cup {Null},
                         at : Links]]
    BY <1>3, IdleIs DEF CallTypes
  <2> QED BY <1>3, <2>1, <2>2, IdleIs DEF CallTypes
<1>7. LockInv' /\ \A u \in Threads : u # t => CallAt(u)'
  <2>1. \A u \in Threads : u # t /\ pc[u].op = "destroy" => pc[u].self # Null
    BY <1>3 DEF CallInv, CallAt
  <2>2. \A h \in Lists : lock'[h] # lock[h] => lock[h] \in {Null, t} /\ lock'[h] \in {Null, t}
    OBVIOUS
  <2> QED BY <1>3, <1>6, <2>1, <2>2, OtherCalls
<1>8. CallAt(t)'
  BY <1>6 DEF CallAt
<1>9. /\ ChainInv' /\ ObjectInv' /\ WalkInv'
      /\ \A u \in Threads : u # t /\ pc'[u].op = "add" => MergeAt(u)'
  BY <1>3, <1>6, RestKept
<1>10. MergeInv'
  BY <1>6, <1>9 DEF MergeInv, IInv
<1> QED BY <1>6, <1>7, <1>8, <1>9, <1>10 DEF IInv

LEMMA SizeReturns ==
  ASSUME IInv, NEW t \in Threads, NthSize(t) \/ Destroyed(t)
  PROVE  IInv'
<1>1. /\ \/ pc[t].op = "nth" /\ lock[pc[t].self] = Null
         \/ pc[t].op = "destroy"
      /\ pc' = [pc EXCEPT ![t] = Idle]
      /\ UNCHANGED <<chains, objects, walk, threads>>
      /\ lock' = lock /\ whole' = whole
  <2>1. CASE NthSize(t)
    BY <2>1, Zenon DEF NthSize, Open
  <2>2. CASE Destroyed(t)
    BY <2>2, Zenon DEF Destroyed
  <2> QED BY <2>1, <2>2
<1>2. LockInv /\ lock' \in [Lists -> Threads \cup {Null}] /\ t # Null
  BY <1>1, NullAssumption DEF IInv, CallTypes
<1>3. \A l \in Lists : lock'[l] # t
  <2> SUFFICES ASSUME NEW l \in Lists, lock[l] = t PROVE FALSE
    BY <1>1
  <2>1. /\ pc[t].op \in {"lock", "add", "nth"}
        /\ l = pc[t].self \/ (pc[t].op = "add" /\ l = pc[t].with)
    BY <1>2 DEF LockInv
  <2> QED BY <1>1, <1>2, <2>1
<1>4. DOMAIN whole' = Threads /\ whole'[t] \in Seq(Objects)
  BY <1>1 DEF IInv, MergeInv
<1> QED BY <1>1, <1>2, <1>3, <1>4, ReturnStep

LEMMA MergeEnds ==
  ASSUME IInv, NEW t \in Threads, MergeFails(t) \/ MergeReturns(t)
  PROVE  IInv'
<1>1. PICK l, m : l = pc[t].self /\ m = pc[t].with
  OBVIOUS
<1>2. /\ pc[t].op = "add"
      /\ lock' = [lock EXCEPT ![l] = Null, ![m] = Null]
      /\ pc' = [pc EXCEPT ![t] = Idle]
      /\ whole' = [whole EXCEPT ![t] = <<>>]
      /\ UNCHANGED <<chains, objects, walk, threads>>
  <2>1. CASE MergeFails(t)
    BY <1>1, <2>1 DEF MergeFails
  <2>2. CASE MergeReturns(t)
    BY <1>1, <2>2 DEF MergeReturns
  <2> QED BY <2>1, <2>2
<1>3. LockInv /\ lock \in [Lists -> Threads \cup {Null}] /\ t # Null /\ CallAt(t)
  BY NullAssumption DEF IInv, CallTypes
<1>4. l \in Lists /\ m \in Lists
  BY <1>1, <1>2 DEF IInv, CallAt, CallTypes
<1>5. /\ lock' \in [Lists -> Threads \cup {Null}]
      /\ \A h \in Lists : lock'[h] = IF h \in {l, m} THEN Null ELSE lock[h]
  BY <1>2, <1>3
<1>6. \A h \in Lists : lock'[h] # t
  <2> SUFFICES ASSUME NEW h \in Lists, lock[h] = t, h \notin {l, m} PROVE FALSE
    BY <1>3, <1>5
  <2> QED BY <1>1, <1>3 DEF LockInv
<1>7. \A h \in Lists : lock'[h] # lock[h] => lock[h] \in {Null, t} /\ lock'[h] = Null
  <2>1. \A h \in {l, m} : lock[h] \in {Null, t}
    <3>1. CASE threads
      BY <1>1, <1>2, <1>3, <3>1 DEF CallAt
    <3>2. CASE ~threads
      BY <1>3, <1>4, <3>2 DEF LockInv
    <3> QED BY <3>1, <3>2
  <2> QED BY <1>5, <2>1
<1>8. /\ DOMAIN whole' = Threads /\ whole'[t] \in Seq(Objects)
      /\ \A u \in Threads : u # t => whole'[u] = whole[u]
  BY <1>2 DEF IInv, MergeInv
<1> QED BY <1>2, <1>5, <1>6, <1>7, <1>8, ReturnStep

-----------------------------------------------------------------------------
(* The iterator.                                                               *)

\* A step of nobody's call.
LEMMA NoCallStep ==
  ASSUME IInv, NEW l, Free(l), Keeps(l), ChainInv', ObjectInv', WalkInv',
         UNCHANGED <<calls, threads>>, itr'.list \in {itr.list, Null}
  PROVE  IInv'
<1>1. lock' = lock /\ pc' = pc /\ whole' = whole /\ threads' = threads
  BY Zenon DEF calls
<1>2. CallInv'
  BY <1>1, CallsKept DEF IInv, CallInv
<1>3. MergeInv'
  <2>1. ASSUME NEW t \in Threads, pc'[t].op = "add" PROVE MergeAt(t)'
    <3>1. /\ CallTypes /\ CallAt(t) /\ pc[t].op = "add" /\ MergeAt(t) /\ ChainTypes
          /\ l \notin {pc[t].self, pc[t].with} /\ pc'[t] = pc[t] /\ whole'[t] = whole[t]
      BY <1>1, <2>1 DEF IInv, MergeInv, ChainInv, Free
    <3> QED BY <3>1, MergeKept
  <2> QED BY <1>1, <2>1 DEF MergeInv, IInv
<1> QED BY <1>2, <1>3 DEF IInv, CallInv

\* The list of the iterator, its chain and its place.
LEMMA WalkerAt ==
  ASSUME IInv, itr.list # Null
  PROVE  \E s, k : /\ itr.list \in Lists /\ size[itr.list] \in Nat /\ IsChain(itr.list, s)
                   /\ k \in 1 .. size[itr.list] + 1 /\ WalkAt(s, size[itr.list], k)
<1>1. itr.list \in Lists
  BY DEF IInv, WalkInv
<1> QED BY <1>1 DEF IInv, WalkInv, ChainInv, ChainTypes

LEMMA NextStep ==
  ASSUME IInv, IteratorNext
  PROVE  IInv'
<1>1. /\ itr.owner # Null /\ UNCHANGED <<chains, objects, calls, threads>>
      /\ IF itr.next = Null THEN itr' = NoIterator /\ due' = {}
         ELSE /\ itr' = [itr EXCEPT !.current = itr.next, !.next = next[itr.next]]
              /\ due' = due \ {itr.next}
      /\ late' = {}
  BY DEF IteratorNext, Walker
<1>2. itr.list # Null
  BY <1>1 DEF IInv, WalkInv, NoIterator
<1>3. PICK l, n, s, k :
        /\ l = itr.list /\ n = size[l] /\ l \in Lists /\ n \in Nat /\ IsChain(l, s)
        /\ k \in 1 .. n + 1 /\ WalkAt(s, n, k)
  BY <1>2, WalkerAt
<1>4. /\ UNCHANGED chains /\ UNCHANGED objects /\ UNCHANGED <<calls, threads>> /\ threads' = threads
  BY <1>1, Zenon
<1>5. /\ ChainInv' /\ ObjectInv' /\ Keeps(Null) /\ size' = size /\ IsChain(l, s)'
  <2>1. ChainInv /\ ObjectInv
    BY DEF IInv
  <2> QED BY <1>3, <1>4, <2>1, ChainsAlone, ObjectsAlone
<1>6. Free(Null)
  BY DEF Free, IInv, CallAt
<1>7. CASE itr.next = Null
  <2>1. itr' = NoIterator /\ due' = {} /\ late' = {}
    BY <1>1, <1>7
  <2>2. /\ NoIterator \in [owner : Threads \cup {Null}, list : Lists \cup {Null},
                           current : Links, next : Links]
        /\ NoIterator.list = Null
    BY DEF NoIterator, Links
  <2>3. WalkInv'
    BY <2>1, <2>2 DEF WalkInv, NoIterator
  <2> QED BY <1>4, <1>5, <1>6, <2>1, <2>2, <2>3, NoCallStep
<1>8. CASE itr.next # Null
  <2>1. /\ \A i \in 1 .. n : s[i] \in Cells /\ s[i] # Null
        /\ \A i, j \in 1 .. n : s[i] = s[j] => i = j
        /\ \A i \in 1 .. n : next[s[i]] = IF i = n THEN Null ELSE s[i + 1]
    BY <1>3, NullAssumption DEF IsChain
  <2>2. k \in 1 .. n /\ itr.next = s[k] /\ due = From(s, n, k)
    BY <1>3, <1>8 DEF WalkAt, Place
  <2>3. next[s[k]] = Place(s, n, k + 1) /\ next[s[k]] \in Links
    BY <1>3, <2>1, <2>2 DEF Place, Links
  <2>4. /\ itr' \in [owner : Threads \cup {Null}, list : Lists \cup {Null},
                     current : Links, next : Links]
        /\ itr'.owner = itr.owner /\ itr'.list = l /\ itr'.current = s[k]
        /\ itr'.next = Place(s, n, k + 1)
    <3>1. itr \in [owner : Threads \cup {Null}, list : Lists \cup {Null},
                   current : Links, next : Links]
      BY DEF IInv, WalkInv
    <3>2. PICK a, b : a = s[k] /\ b = next[s[k]] /\ a \in Links /\ b \in Links
      BY <2>1, <2>2, <2>3 DEF Links
    <3>3. itr' = [itr EXCEPT !.current = a, !.next = b]
      BY <1>1, <1>8, <2>2, <3>2
    <3> QED BY <1>3, <2>3, <3>1, <3>2, <3>3
  <2>5. due' = From(s, n, k + 1) /\ due' \subseteq Cells
    <3>1. due' = From(s, n, k) \ {s[k]}
      BY <1>1, <1>8, <2>2
    <3> QED BY <2>1, <2>2, <3>1 DEF From
  <2>6. WalkAt(s, n, k + 1)'
    BY <1>1, <2>2, <2>4, <2>5 DEF WalkAt
  <2>7. WalkInv'
    <3>1. k + 1 \in 1 .. n + 1
      BY <1>3, <2>2
    <3>2. itr.owner # Null /\ (~threads => itr.owner = Main) /\ l # Null
      BY <1>2, <1>3 DEF IInv, WalkInv
    <3>3. (\E j \in 1 .. size[l] + 1 : WalkAt(s, size[l], j))'
      BY <1>3, <1>5, <2>6, <3>1
    <3> QED BY <1>1, <1>3, <1>4, <1>5, <2>4, <2>5, <3>2, <3>3 DEF WalkInv
  <2> QED BY <1>3, <1>4, <1>5, <1>6, <2>4, <2>7, NoCallStep
<1> QED BY <1>7, <1>8

LEMMA GetStep ==
  ASSUME IInv, NEW t \in Threads, NEW l \in Lists, IteratorGet(t, l)
  PROVE  IInv'
<1>1. /\ May(t, l) /\ itr = NoIterator /\ first[l] # Null
      /\ \A u \in Threads : l \notin {pc[u].self, pc[u].with}
      /\ itr' = [owner |-> t, list |-> l, current |-> first[l], next |-> next[first[l]]]
      /\ due' = CellsOf(l) \ {first[l]} /\ late' = {}
      /\ UNCHANGED <<chains, objects, calls, threads>>
  BY DEF IteratorGet
<1>2. /\ UNCHANGED chains /\ UNCHANGED objects /\ threads' = threads
      /\ lock' = lock /\ pc' = pc /\ whole' = whole
  BY <1>1, Zenon DEF calls
<1>3. PICK n, s : n = size[l] /\ n \in Nat /\ IsChain(l, s)
  BY DEF IInv, ChainInv, ChainTypes
<1>4. /\ ChainInv' /\ ObjectInv' /\ Keeps(Null) /\ size' = size /\ IsChain(l, s)'
  <2>1. ChainInv /\ ObjectInv
    BY DEF IInv
  <2> QED BY <1>2, <1>3, <2>1, ChainsAlone, ObjectsAlone
<1>5. /\ n >= 1 /\ first[l] = s[1] /\ s \in [1 .. n -> Cells]
      /\ \A i \in 1 .. n : home[s[i]] = l
      /\ \A c \in Cells : home[c] = l => \E i \in 1 .. n : s[i] = c
      /\ \A i, j \in 1 .. n : s[i] = s[j] => i = j
      /\ next[s[1]] = Place(s, n, 2)
  BY <1>1, <1>3 DEF IsChain, Place
<1>6. next[s[1]] \in Links /\ s[1] \in Links
  <2>1. next \in [Cells -> Links]
    BY DEF IInv, ChainInv, ChainTypes
  <2>2. s[1] \in Cells
    <3>1. 1 \in 1 .. n
      BY <1>3, <1>5
    <3> QED BY <1>5, <3>1
  <2> QED BY <2>1, <2>2 DEF Links
<1>7. /\ itr'.owner = t /\ itr'.list = l /\ itr'.current = s[1] /\ itr'.next = Place(s, n, 2)
      /\ itr' \in [owner : Threads \cup {Null}, list : Lists \cup {Null},
                   current : Links, next : Links]
  BY <1>1, <1>5, <1>6
<1>8. CellsOf(l) = From(s, n, 1)
  BY <1>5 DEF CellsOf, From
<1>9. due' = From(s, n, 2) /\ due' \subseteq Cells
  <2>1. From(s, n, 1) \ {s[1]} = From(s, n, 2)
    BY <1>5 DEF From
  <2> QED BY <1>1, <1>5, <1>8, <2>1 DEF CellsOf
<1>10. WalkInv'
  <2>1. 2 \in 1 .. n + 1
    BY <1>3, <1>5
  <2>2. WalkAt(s, n, 2)'
    BY <1>1, <1>7, <1>9 DEF WalkAt
  <2>3. (\E j \in 1 .. size[l] + 1 : WalkAt(s, size[l], j))'
    BY <1>3, <1>4, <2>1, <2>2
  <2>4. (threads \/ t = Main) /\ t # Null /\ l # Null
    BY <1>1, NullAssumption DEF May, Caller
  <2> QED BY <1>1, <1>2, <1>4, <1>7, <1>9, <2>3, <2>4 DEF WalkInv
<1>11. CallTypes' /\ LockInv'
  BY <1>2 DEF IInv, CallTypes, LockInv
<1>12. ASSUME NEW u \in Threads PROVE CallAt(u)'
  <2>1. CallAt(u) /\ l \notin {pc[u].self, pc[u].with}
    BY <1>1 DEF IInv
  <2> QED BY <1>2, <1>7, <2>1 DEF CallAt
<1>13. MergeInv'
  <2>1. ASSUME NEW u \in Threads, pc'[u].op = "add" PROVE MergeAt(u)'
    <3>1. /\ CallTypes /\ CallAt(u) /\ pc[u].op = "add" /\ MergeAt(u) /\ ChainTypes
          /\ pc'[u] = pc[u] /\ whole'[u] = whole[u]
      BY <1>2, <2>1 DEF IInv, MergeInv, ChainInv
    <3>2. Null \notin {pc[u].self, pc[u].with}
      BY <3>1 DEF CallAt
    <3> QED BY <1>4, <3>1, <3>2, MergeKept
  <2> QED BY <1>2, <2>1 DEF MergeInv, IInv
<1> QED BY <1>4, <1>10, <1>11, <1>12, <1>13 DEF IInv

-----------------------------------------------------------------------------
(* Putting an object in, and taking one out.                                   *)

\* What follows a place, when an element is put in before or after it.
\* what comes where once c has been put at k
PutsAt(r, s, n, k, c) ==
  /\ \A i \in 1 .. n + 1 : r[i] = IF i < k THEN s[i] ELSE IF i = k THEN c ELSE s[i - 1]
  /\ \A j \in 1 .. k : From(r, n + 1, j) = From(s, n, j) \cup {c}
  /\ \A j \in k .. n + 1 : From(r, n + 1, j + 1) = From(s, n, j)
  /\ \A j \in 1 .. k - 1 : Place(r, n + 1, j) = Place(s, n, j)
  /\ Place(r, n + 1, k) = c
  /\ \A j \in k .. n + 1 : Place(r, n + 1, j + 1) = Place(s, n, j)

LEMMA PutAt ==
  ASSUME NEW n \in Nat, NEW s, NEW k \in 1 .. n + 1, NEW c, NEW r, r = Put(s, n, k, c)
  PROVE  PutsAt(r, s, n, k, c)
<1>1. \A i \in 1 .. n + 1 : r[i] = IF i < k THEN s[i] ELSE IF i = k THEN c ELSE s[i - 1]
  BY DEF Put
<1>2. ASSUME NEW j \in 1 .. k PROVE From(r, n + 1, j) = From(s, n, j) \cup {c}
  <2>1. ASSUME NEW i \in j .. n + 1 PROVE r[i] \in From(s, n, j) \cup {c}
    <3>1. CASE i < k
      <4>1. i \in j .. n /\ r[i] = s[i]
        BY <1>1, <3>1
      <4> QED BY <4>1 DEF From
    <3>2. CASE i = k
      BY <1>1, <3>2
    <3>3. CASE i > k
      <4>1. i - 1 \in j .. n /\ r[i] = s[i - 1]
        BY <1>1, <3>3
      <4> QED BY <4>1 DEF From
    <3> QED BY <3>1, <3>2, <3>3
  <2>2. ASSUME NEW i \in j .. n PROVE s[i] \in From(r, n + 1, j)
    <3>1. CASE i < k
      <4>1. i \in j .. n + 1 /\ r[i] = s[i]
        BY <1>1, <3>1
      <4> QED BY <4>1 DEF From
    <3>2. CASE i >= k
      <4>1. i + 1 \in j .. n + 1 /\ r[i + 1] = s[i]
        BY <1>1, <3>2
      <4> QED BY <4>1 DEF From
    <3> QED BY <3>1, <3>2
  <2>3. c \in From(r, n + 1, j)
    <3>1. k \in j .. n + 1 /\ r[k] = c
      BY <1>1
    <3> QED BY <3>1 DEF From
  <2> QED BY <2>1, <2>2, <2>3 DEF From
<1>3. ASSUME NEW j \in k .. n + 1 PROVE From(r, n + 1, j + 1) = From(s, n, j)
  <2>1. ASSUME NEW i \in j + 1 .. n + 1 PROVE r[i] \in From(s, n, j)
    <3>1. i - 1 \in j .. n /\ r[i] = s[i - 1]
      BY <1>1
    <3> QED BY <3>1 DEF From
  <2>2. ASSUME NEW i \in j .. n PROVE s[i] \in From(r, n + 1, j + 1)
    <3>1. i + 1 \in j + 1 .. n + 1 /\ r[i + 1] = s[i]
      BY <1>1
    <3> QED BY <3>1 DEF From
  <2> QED BY <2>1, <2>2 DEF From
<1>4. \A j \in 1 .. k - 1 : Place(r, n + 1, j) = Place(s, n, j)
  BY <1>1 DEF Place
<1>5. Place(r, n + 1, k) = c
  BY <1>1 DEF Place
<1>6. \A j \in k .. n + 1 : Place(r, n + 1, j + 1) = Place(s, n, j)
  BY <1>1 DEF Place
<1> QED BY <1>1, <1>2, <1>3, <1>4, <1>5, <1>6 DEF PutsAt

LEMMA OutAt ==
  ASSUME NEW n \in Nat, NEW s, NEW k \in 1 .. n, NEW r, r = Out(s, n, k)
  PROVE  /\ \A i \in 1 .. n - 1 : r[i] = IF i < k THEN s[i] ELSE s[i + 1]
         /\ From(r, n - 1, k) = From(s, n, k + 1)
         /\ Place(r, n - 1, k) = Place(s, n, k + 1)
<1>1. \A i \in 1 .. n - 1 : r[i] = IF i < k THEN s[i] ELSE s[i + 1]
  BY DEF Out
<1>2. From(r, n - 1, k) = From(s, n, k + 1)
  <2>1. ASSUME NEW i \in k .. n - 1 PROVE r[i] \in From(s, n, k + 1)
    <3>1. i + 1 \in k + 1 .. n /\ r[i] = s[i + 1]
      BY <1>1
    <3> QED BY <3>1 DEF From
  <2>2. ASSUME NEW i \in k + 1 .. n PROVE s[i] \in From(r, n - 1, k)
    <3>1. i - 1 \in k .. n - 1 /\ r[i - 1] = s[i]
      BY <1>1
    <3> QED BY <3>1 DEF From
  <2> QED BY <2>1, <2>2 DEF From
<1>3. Place(r, n - 1, k) = Place(s, n, k + 1)
  BY <1>1 DEF Place
<1> QED BY <1>1, <1>2, <1>3

\* The walk goes on over a list that is changed.
LEMMA WalkGoesOn ==
  ASSUME WalkInv, NEW l \in Lists, l = itr.list, NEW r, IsChain(l, r)', NEW n \in Nat, size'[l] = n,
         NEW k \in 1 .. n + 1, WalkAt(r, n, k)', threads' = threads,
         itr'.list = l, itr'.owner = itr.owner, due' \subseteq Cells, late' \subseteq Cells,
         itr' \in [owner : Threads \cup {Null}, list : Lists \cup {Null},
                   current : Links, next : Links]
  PROVE  WalkInv'
<1>1. (\E j \in 1 .. size[l] + 1 : WalkAt(r, size[l], j))'
  OBVIOUS
<1>2. itr.owner # Null /\ (~threads => itr.owner = Main) /\ l # Null
  BY NullAssumption DEF WalkInv
<1> QED BY <1>1, <1>2 DEF WalkInv

LEMMA AppendStep ==
  ASSUME IInv, NEW t \in Threads, NEW l \in Lists, NEW o \in Objects, NEW c \in Cells,
         AppendTo(t, l, o, c)
  PROVE  IInv' /\ Grows(l)
<1>1. /\ May(t, l) /\ Unused(c)
      /\ Link(c, o, l, last[l], Null) /\ Keep(o)
      /\ due' = IF itr.list = l THEN due \cup {c} ELSE due
      /\ late' = IF itr.list = l /\ itr.next = Null THEN late \cup {c} ELSE late
      /\ UNCHANGED <<calls, itr, threads>>
  BY DEF AppendTo, Walked
<1>2. itr' = itr /\ threads' = threads /\ UNCHANGED <<calls, threads>>
  BY <1>1, Zenon
<1>3. Free(l)
  BY <1>1, MayIsFree DEF IInv, CallInv
<1>4. ASSUME NEW n, NEW s, n = size[l], IsChain(l, s)
      PROVE  /\ ChainInv' /\ ObjectInv' /\ Keeps(l) /\ Grows(l) /\ n \in Nat /\ size'[l] = n + 1
             /\ IsChain(l, Put(s, n, n + 1, c))'
  <2>1. n \in Nat
    BY <1>4 DEF IInv, ChainInv, ChainTypes
  <2>2. PICK p : p = last[l] /\ p = IF n + 1 = 1 THEN Null ELSE s[(n + 1) - 1]
    BY <1>4, <2>1 DEF IsChain
  <2>3. PICK m : m = Null /\ m = Place(s, n, n + 1)
    BY DEF Place
  <2>4. Link(c, o, l, p, m) /\ n + 1 \in 1 .. n + 1
    BY <1>1, <2>1, <2>2, <2>3
  <2> QED BY <1>1, <1>4, <2>2, <2>3, <2>4, PutIn DEF IInv
<1>5. PICK n, s : n = size[l] /\ IsChain(l, s)
  BY DEF IInv, ChainInv
<1>6. ChainInv' /\ ObjectInv' /\ Keeps(l) /\ Grows(l)
  BY <1>4, <1>5
<1>7. WalkInv'
  <2>1. CASE itr.list # l
    <3>1. due' = due /\ late' = late
      BY <1>1, <2>1
    <3> QED BY <1>2, <1>6, <2>1, <3>1, WalkKept DEF IInv
  <2>2. CASE itr.list = l
    <3>1. itr.list # Null
      BY <2>2, NullAssumption
    <3>2. PICK q, k : /\ size[l] \in Nat /\ IsChain(l, q)
                      /\ k \in 1 .. size[l] + 1 /\ WalkAt(q, size[l], k)
      BY <2>2, <3>1, WalkerAt
    <3>3. PICK h \in Nat : h = size[l]
      BY <3>2
    <3>4. PICK r : r = Put(q, h, h + 1, c) /\ IsChain(l, r)' /\ size'[l] = h + 1
      BY <1>4, <3>2, <3>3
    <3>5. k \in 1 .. h + 1 /\ k \in 1 .. (h + 1) + 1 /\ h + 1 \in 1 .. h + 1
      BY <3>2, <3>3
    <3>6. /\ k > 1 => r[k - 1] = q[k - 1]
          /\ From(r, h + 1, k) = From(q, h, k) \cup {c}
          /\ k \in 1 .. h => Place(r, h + 1, k) = Place(q, h, k)
      <4>1. r = Put(q, h, h + 1, c)
        BY <3>4
      <4>5. PutsAt(r, q, h, h + 1, c)
        BY <3>5, <4>1, PutAt
      <4>2. k > 1 => r[k - 1] = q[k - 1]
        BY <3>5, <4>1 DEF Put
      <4>3. \A j \in 1 .. h + 1 : From(r, h + 1, j) = From(q, h, j) \cup {c}
        BY <4>5 DEF PutsAt
      <4>4. \A j \in 1 .. (h + 1) - 1 : Place(r, h + 1, j) = Place(q, h, j)
        BY <4>5 DEF PutsAt
      <4> QED BY <3>5, <4>2, <4>3, <4>4
    <3>7. WalkAt(r, h + 1, k)'
      <4>1. /\ due' = From(r, h + 1, k)
            /\ itr.current # Null => k > 1 /\ itr.current = r[k - 1]
        BY <1>1, <2>2, <3>2, <3>3, <3>6 DEF WalkAt
      <4>2. CASE itr.next = Null
        <5>1. late = due
          <6>1. CASE late = {}
            <7>1. Place(q, h, k) = Null
              BY <3>2, <3>3, <4>2, <6>1 DEF WalkAt
            <7>2. \A i \in 1 .. h : q[i] # Null
              BY <3>2, <3>3, NullAssumption DEF IsChain
            <7>3. k = h + 1
              BY <3>5, <7>1, <7>2 DEF Place
            <7>4. due = From(q, h, h + 1)
              BY <3>2, <3>3, <7>3 DEF WalkAt
            <7> QED BY <6>1, <7>4 DEF From
          <6>2. CASE late # {}
            BY <3>2, <6>2 DEF WalkAt
          <6> QED BY <6>1, <6>2
        <5>2. late' = due' /\ late' # {}
          BY <1>1, <2>2, <4>2, <5>1
        <5> QED BY <1>2, <4>1, <4>2, <5>2 DEF WalkAt
      <4>3. CASE itr.next # Null
        <5>1. late = {} /\ itr.next = Place(q, h, k)
          BY <3>2, <3>3, <4>3 DEF WalkAt
        <5>2. k \in 1 .. h
          BY <3>5, <4>3, <5>1 DEF Place
        <5>3. late' = {} /\ itr'.next = Place(r, h + 1, k)
          BY <1>1, <1>2, <3>6, <4>3, <5>1, <5>2
        <5> QED BY <1>2, <4>1, <5>3 DEF WalkAt
      <4> QED BY <4>2, <4>3
    <3>8. /\ itr' \in [owner : Threads \cup {Null}, list : Lists \cup {Null},
                       current : Links, next : Links]
          /\ due' \subseteq Cells /\ late' \subseteq Cells /\ WalkInv
      BY <1>1, <1>2 DEF IInv, WalkInv
    <3> QED BY <1>2, <2>2, <3>4, <3>5, <3>7, <3>8, WalkGoesOn
  <2> QED BY <2>1, <2>2
<1>8. itr'.list \in {itr.list, Null}
  BY <1>2
<1> QED BY <1>2, <1>3, <1>6, <1>7, <1>8, NoCallStep

LEMMA PrependStep ==
  ASSUME IInv, NEW t \in Threads, NEW l \in Lists, NEW o \in Objects, NEW c \in Cells,
         Prepend(t, l, o, c)
  PROVE  IInv' /\ Grows(l)
<1>1. /\ May(t, l) /\ Unused(c)
      /\ Link(c, o, l, Null, first[l]) /\ Keep(o)
      /\ UNCHANGED <<calls, walk, threads>>
  BY DEF Prepend
<1>2. itr' = itr /\ due' = due /\ late' = late /\ threads' = threads /\ UNCHANGED <<calls, threads>>
  BY <1>1, Zenon DEF walk
<1>3. Free(l)
  BY <1>1, MayIsFree DEF IInv, CallInv
<1>4. ASSUME NEW n, NEW s, n = size[l], IsChain(l, s)
      PROVE  /\ ChainInv' /\ ObjectInv' /\ Keeps(l) /\ Grows(l) /\ n \in Nat /\ size'[l] = n + 1
             /\ IsChain(l, Put(s, n, 1, c))'
  <2>1. n \in Nat
    BY <1>4 DEF IInv, ChainInv, ChainTypes
  <2>2. PICK p : p = Null /\ p = IF 1 = 1 THEN Null ELSE s[1 - 1]
    OBVIOUS
  <2>3. PICK m : m = first[l] /\ m = Place(s, n, 1)
    BY <1>4, <2>1 DEF Place, IsChain
  <2>4. Link(c, o, l, p, m) /\ 1 \in 1 .. n + 1
    BY <1>1, <2>1, <2>2, <2>3
  <2> QED BY <1>1, <1>4, <2>2, <2>3, <2>4, PutIn DEF IInv
<1>5. PICK n, s : n = size[l] /\ IsChain(l, s)
  BY DEF IInv, ChainInv
<1>6. ChainInv' /\ ObjectInv' /\ Keeps(l) /\ Grows(l)
  BY <1>4, <1>5
<1>7. WalkInv'
  <2>1. CASE itr.list # l
    BY <1>2, <1>6, <2>1, WalkKept DEF IInv
  <2>2. CASE itr.list = l
    <3>1. itr.list # Null
      BY <2>2, NullAssumption
    <3>2. PICK q, k : /\ size[l] \in Nat /\ IsChain(l, q)
                      /\ k \in 1 .. size[l] + 1 /\ WalkAt(q, size[l], k)
      BY <2>2, <3>1, WalkerAt
    <3>3. PICK h \in Nat : h = size[l]
      BY <3>2
    <3>4. PICK r : r = Put(q, h, 1, c) /\ IsChain(l, r)' /\ size'[l] = h + 1
      BY <1>4, <3>2, <3>3
    <3>5. k \in 1 .. h + 1 /\ k + 1 \in 1 .. (h + 1) + 1 /\ 1 \in 1 .. h + 1
      BY <3>2, <3>3
    <3>6. /\ \A i \in 1 .. h + 1 : r[i] = IF i < 1 THEN q[i] ELSE IF i = 1 THEN c ELSE q[i - 1]
          /\ From(r, h + 1, k + 1) = From(q, h, k)
          /\ Place(r, h + 1, k + 1) = Place(q, h, k)
      <4>1. 1 \in 1 .. h + 1 /\ k \in 1 .. h + 1 /\ r = Put(q, h, 1, c)
        BY <3>4, <3>5
      <4>2. PutsAt(r, q, h, 1, c)
        BY <4>1, PutAt
      <4>3. \A i \in 1 .. h + 1 : r[i] = IF i < 1 THEN q[i] ELSE IF i = 1 THEN c ELSE q[i - 1]
        BY <4>1 DEF Put
      <4>4. \A j \in 1 .. h + 1 : From(r, h + 1, j + 1) = From(q, h, j)
        BY <4>2 DEF PutsAt
      <4>5. \A j \in 1 .. h + 1 : Place(r, h + 1, j + 1) = Place(q, h, j)
        BY <4>2 DEF PutsAt
      <4> QED BY <4>1, <4>3, <4>4, <4>5
    <3>7. WalkAt(r, h + 1, k + 1)'
      <4>1. itr.current # Null => k + 1 > 1 /\ itr.current = r[(k + 1) - 1]
        BY <3>2, <3>3, <3>5, <3>6 DEF WalkAt
      <4> QED BY <1>2, <2>2, <3>2, <3>3, <3>6, <4>1 DEF WalkAt
    <3>8. /\ itr' \in [owner : Threads \cup {Null}, list : Lists \cup {Null},
                       current : Links, next : Links]
          /\ due' \subseteq Cells /\ late' \subseteq Cells /\ WalkInv
      BY <1>2 DEF IInv, WalkInv
    <3> QED BY <1>2, <2>2, <3>4, <3>5, <3>7, <3>8, WalkGoesOn
  <2> QED BY <2>1, <2>2
<1>8. itr'.list \in {itr.list, Null}
  BY <1>2
<1> QED BY <1>2, <1>3, <1>6, <1>7, <1>8, NoCallStep

LEMMA BeforeStep ==
  ASSUME IInv, NEW o \in Objects, NEW c \in Cells, InsertBefore(o, c)
  PROVE  IInv' /\ itr.list \in Lists /\ Grows(itr.list)
<1>1. /\ itr.owner # Null /\ itr.current # Null /\ Unused(c)
      /\ Link(c, o, itr.list, prev[itr.current], itr.current) /\ Keep(o)
      /\ UNCHANGED <<calls, walk, threads>>
  BY DEF InsertBefore, Walker
<1>2. itr' = itr /\ due' = due /\ late' = late /\ threads' = threads /\ UNCHANGED <<calls, threads>>
  BY <1>1, Zenon DEF walk
<1>3. itr.list # Null /\ ChainInv /\ ObjectInv /\ WalkInv
  BY <1>1 DEF IInv, WalkInv, NoIterator
<1>4. PICK l, n, s, k :
        /\ l = itr.list /\ n = size[l] /\ l \in Lists /\ n \in Nat /\ IsChain(l, s)
        /\ k \in 1 .. n + 1 /\ WalkAt(s, n, k)
  BY <1>3, WalkerAt
<1>5. Free(l)
  BY <1>4, OwnIsFree DEF IInv, CallInv
<1>6. /\ k > 1 /\ itr.current = s[k - 1] /\ due = From(s, n, k)
      /\ IF late = {} THEN itr.next = Place(s, n, k) ELSE itr.next = Null /\ late = due
  BY <1>1, <1>4 DEF WalkAt
<1>7. PICK j : j = k - 1 /\ j \in 1 .. n /\ j \in 1 .. n + 1
  BY <1>4, <1>6
<1>8. PICK r : r = Put(s, n, j, c)
  OBVIOUS
<1>9. /\ ChainInv' /\ ObjectInv' /\ Keeps(l) /\ Grows(l) /\ size'[l] = n + 1 /\ IsChain(l, r)'
  <2>1. PICK p : p = prev[itr.current] /\ p = IF j = 1 THEN Null ELSE s[j - 1]
    BY <1>4, <1>6, <1>7 DEF IsChain
  <2>2. PICK m : m = itr.current /\ m = Place(s, n, j)
    BY <1>4, <1>6, <1>7 DEF Place
  <2>3. Link(c, o, l, p, m)
    BY <1>1, <1>4, <2>1, <2>2
  <2> QED BY <1>1, <1>3, <1>4, <1>7, <1>8, <2>1, <2>2, <2>3, PutIn
<1>10. WalkInv'
  <2>1. /\ r[k] = s[k - 1]
        /\ From(r, n + 1, k + 1) = From(s, n, k)
        /\ Place(r, n + 1, k + 1) = Place(s, n, k)
    <3>1. k \in j .. n + 1 /\ k > j /\ n \in Nat /\ j \in 1 .. n + 1 /\ k \in 1 .. n + 1
      BY <1>4, <1>7
    <3>5. PutsAt(r, s, n, j, c)
      BY <3>1, <1>8, PutAt
    <3>2. \A i \in j .. n + 1 : From(r, n + 1, i + 1) = From(s, n, i)
      BY <3>5 DEF PutsAt
    <3>3. \A i \in j .. n + 1 : Place(r, n + 1, i + 1) = Place(s, n, i)
      BY <3>5 DEF PutsAt
    <3>4. r[k] = s[k - 1]
      BY <3>1, <1>8 DEF Put
    <3> QED BY <3>1, <3>2, <3>3, <3>4
  <2>2. k + 1 \in 1 .. (n + 1) + 1 /\ n + 1 \in Nat /\ k + 1 > 1 /\ (k + 1) - 1 = k
    BY <1>4
  <2>3. WalkAt(r, n + 1, k + 1)'
    BY <1>2, <1>6, <2>1, <2>2 DEF WalkAt
  <2>4. /\ itr' \in [owner : Threads \cup {Null}, list : Lists \cup {Null},
                     current : Links, next : Links]
        /\ due' \subseteq Cells /\ late' \subseteq Cells
    BY <1>2, <1>3 DEF WalkInv
  <2> QED BY <1>2, <1>3, <1>4, <1>9, <2>2, <2>3, <2>4, WalkGoesOn
<1> QED BY <1>2, <1>4, <1>5, <1>9, <1>10, NoCallStep

LEMMA AfterStep ==
  ASSUME IInv, NEW o \in Objects, NEW c \in Cells, InsertAfter(o, c)
  PROVE  IInv' /\ itr.list \in Lists /\ Grows(itr.list)
<1>1. /\ itr.owner # Null /\ itr.current # Null /\ Unused(c)
      /\ Link(c, o, itr.list, itr.current, next[itr.current]) /\ Keep(o)
      /\ itr' = [itr EXCEPT !.next = c] /\ due' = due \cup {c} /\ late' = {}
      /\ UNCHANGED <<calls, threads>>
  BY DEF InsertAfter, Walker
<1>2. threads' = threads /\ UNCHANGED <<calls, threads>>
  BY <1>1, Zenon
<1>3. itr.list # Null /\ ChainInv /\ ObjectInv /\ WalkInv
  BY <1>1 DEF IInv, WalkInv, NoIterator
<1>4. PICK l, n, s, k :
        /\ l = itr.list /\ n = size[l] /\ l \in Lists /\ n \in Nat /\ IsChain(l, s)
        /\ k \in 1 .. n + 1 /\ WalkAt(s, n, k)
  BY <1>3, WalkerAt
<1>5. Free(l)
  BY <1>4, OwnIsFree DEF IInv, CallInv
<1>6. k > 1 /\ itr.current = s[k - 1] /\ due = From(s, n, k)
  BY <1>1, <1>4 DEF WalkAt
<1>7. k - 1 \in 1 .. n /\ (k - 1) + 1 = k /\ k \in 1 .. k
  BY <1>4, <1>6
<1>8. PICK r : r = Put(s, n, k, c)
  OBVIOUS
<1>9. /\ ChainInv' /\ ObjectInv' /\ Keeps(l) /\ Grows(l) /\ size'[l] = n + 1 /\ IsChain(l, r)'
  <2>1. PICK p : p = itr.current /\ p = IF k = 1 THEN Null ELSE s[k - 1]
    BY <1>6
  <2>2. PICK m : m = next[itr.current] /\ m = Place(s, n, k)
    <3>1. next[s[k - 1]] = IF k - 1 = n THEN Null ELSE s[(k - 1) + 1]
      BY <1>4, <1>7 DEF IsChain
    <3> QED BY <1>4, <1>6, <1>7, <3>1 DEF Place
  <2>3. Link(c, o, l, p, m)
    BY <1>1, <1>4, <2>1, <2>2
  <2> QED BY <1>1, <1>3, <1>4, <1>8, <2>1, <2>2, <2>3, PutIn
<1>10. /\ itr' \in [owner : Threads \cup {Null}, list : Lists \cup {Null},
                    current : Links, next : Links]
       /\ itr'.list = l /\ itr'.owner = itr.owner
       /\ itr'.current = itr.current /\ itr'.next = c
       /\ due' \subseteq Cells /\ late' \subseteq Cells
  BY <1>1, <1>3, <1>4 DEF WalkInv, Links
<1>11. WalkInv'
  <2>1. /\ r[k - 1] = s[k - 1]
        /\ From(r, n + 1, k) = From(s, n, k) \cup {c}
        /\ Place(r, n + 1, k) = c
    <3>0. n \in Nat /\ k \in 1 .. n + 1
      BY <1>4
    <3>1. From(r, n + 1, k) = From(s, n, k) \cup {c} /\ Place(r, n + 1, k) = c
      <4>1. PutsAt(r, s, n, k, c) /\ k \in 1 .. k
        BY <3>0, <1>7, <1>8, PutAt
      <4>3. From(r, n + 1, k) = From(s, n, k) \cup {c}
        BY <4>1 DEF PutsAt
      <4>2. Place(r, n + 1, k) = c
        BY <3>0, <1>8 DEF Put, Place
      <4> QED BY <4>2, <4>3
    <3>2. r[k - 1] = s[k - 1]
      BY <1>4, <1>7, <1>8 DEF Put
    <3> QED BY <3>1, <3>2
  <2>2. k \in 1 .. (n + 1) + 1 /\ n + 1 \in Nat
    BY <1>4
  <2>3. WalkAt(r, n + 1, k)'
    BY <1>1, <1>6, <1>10, <2>1 DEF WalkAt
  <2> QED BY <1>2, <1>3, <1>4, <1>9, <1>10, <2>2, <2>3, WalkGoesOn
<1> QED BY <1>2, <1>4, <1>5, <1>9, <1>10, <1>11, NoCallStep

LEMMA UnlinkStep ==
  ASSUME IInv, IteratorUnlink
  PROVE  IInv' /\ itr.list \in Lists /\ Shrinks(itr.list)
<1>1. /\ itr.owner # Null /\ itr.current # Null
      /\ Cut(itr.current) /\ Release(data[itr.current])
      /\ itr' = [itr EXCEPT !.current = Null] /\ due' = due /\ late' = late
      /\ UNCHANGED <<calls, threads>>
  BY DEF IteratorUnlink, Walker
<1>2. threads' = threads /\ UNCHANGED <<calls, threads>>
  BY <1>1, Zenon
<1>3. itr.list # Null /\ ChainInv /\ ObjectInv /\ WalkInv
  BY <1>1 DEF IInv, WalkInv, NoIterator
<1>4. PICK l, n, s, k :
        /\ l = itr.list /\ n = size[l] /\ l \in Lists /\ n \in Nat /\ IsChain(l, s)
        /\ k \in 1 .. n + 1 /\ WalkAt(s, n, k)
  BY <1>3, WalkerAt
<1>5. Free(l)
  BY <1>4, OwnIsFree DEF IInv, CallInv
<1>6. /\ k > 1 /\ itr.current = s[k - 1] /\ due = From(s, n, k)
      /\ IF late = {} THEN itr.next = Place(s, n, k) ELSE itr.next = Null /\ late = due
  BY <1>1, <1>4 DEF WalkAt
<1>7. PICK j : j = k - 1 /\ j \in 1 .. n /\ j + 1 = k
  BY <1>4, <1>6
<1>8. PICK r : r = Out(s, n, j)
  OBVIOUS
<1>9. /\ ChainInv' /\ ObjectInv' /\ Keeps(l) /\ Shrinks(l) /\ size'[l] = n - 1 /\ IsChain(l, r)'
  <2>1. PICK c : c = itr.current /\ c = s[j] /\ GivesUp(data[c])
    BY <1>1, <1>6, <1>7 DEF GivesUp
  <2> QED BY <1>1, <1>3, <1>4, <1>7, <1>8, <2>1, TakeOut
<1>10. /\ itr' \in [owner : Threads \cup {Null}, list : Lists \cup {Null},
                    current : Links, next : Links]
       /\ itr'.list = l /\ itr'.owner = itr.owner
       /\ itr'.current = Null /\ itr'.next = itr.next
       /\ due' \subseteq Cells /\ late' \subseteq Cells
  BY <1>1, <1>3, <1>4 DEF WalkInv, Links
<1>11. WalkInv'
  <2>1. From(r, n - 1, j) = From(s, n, k) /\ Place(r, n - 1, j) = Place(s, n, k)
    BY <1>4, <1>7, <1>8, OutAt
  <2>2. j \in 1 .. (n - 1) + 1 /\ n - 1 \in Nat
    BY <1>4, <1>7
  <2>3. WalkAt(r, n - 1, j)'
    BY <1>1, <1>6, <1>10, <2>1 DEF WalkAt
  <2> QED BY <1>2, <1>3, <1>4, <1>9, <1>10, <2>2, <2>3, WalkGoesOn
<1> QED BY <1>2, <1>4, <1>5, <1>9, <1>10, <1>11, NoCallStep

LEMMA PopStep ==
  ASSUME IInv, NEW t \in Threads, NEW l \in Lists, Pop(t, l)
  PROVE  IInv' /\ Shrinks(l)
<1>1. /\ May(t, l) /\ itr.list # l /\ last[l] # Null
      /\ Cut(last[l]) /\ Release(data[last[l]])
      /\ UNCHANGED <<calls, walk, threads>>
  BY DEF Pop, Walked
<1>2. itr' = itr /\ due' = due /\ late' = late /\ threads' = threads /\ UNCHANGED <<calls, threads>>
  BY <1>1, Zenon DEF walk
<1>3. Free(l)
  BY <1>1, MayIsFree DEF IInv, CallInv
<1>4. PICK n, s : n = size[l] /\ IsChain(l, s) /\ n \in Nat
  BY DEF IInv, ChainInv, ChainTypes
<1>5. n \in 1 .. n /\ last[l] = s[n]
  BY <1>1, <1>4 DEF IsChain
<1>6. ChainInv' /\ ObjectInv' /\ Keeps(l) /\ Shrinks(l)
  <2>1. PICK c : c = last[l] /\ c = s[n] /\ GivesUp(data[c])
    BY <1>1, <1>5 DEF GivesUp
  <2> QED BY <1>1, <1>4, <1>5, <2>1, TakeOut DEF IInv
<1>7. WalkInv'
  BY <1>1, <1>2, <1>6, WalkKept DEF IInv
<1> QED BY <1>2, <1>3, <1>6, <1>7, NoCallStep

LEMMA DestroyLastStep ==
  ASSUME IInv, NEW t \in Threads, DestroyLast(t)
  PROVE  IInv' /\ pc[t].self \in Lists /\ Shrinks(pc[t].self)
<1>0. PICK l : l = pc[t].self
  OBVIOUS
<1>1. /\ pc[t].op = "destroy" /\ last[l] # Null
      /\ Cut(last[l]) /\ GivesUp(data[last[l]])
      /\ UNCHANGED <<calls, walk, threads>>
  BY <1>0 DEF DestroyLast, GivesUp
<1>2. itr' = itr /\ due' = due /\ late' = late /\ threads' = threads /\ UNCHANGED <<calls, threads>>
  BY <1>1, Zenon DEF walk
<1>3. Free(l) /\ l \in Lists /\ itr.list # l
  <2>1. CallInv /\ CallTypes /\ CallAt(t)
    BY DEF IInv, CallInv
  <2> QED BY <1>0, <1>1, <2>1, OwnIsFree DEF CallAt, CallTypes
<1>4. PICK n, s : n = size[l] /\ IsChain(l, s) /\ n \in Nat
  BY <1>3 DEF IInv, ChainInv, ChainTypes
<1>5. n \in 1 .. n /\ last[l] = s[n]
  BY <1>1, <1>4 DEF IsChain
<1>6. ChainInv' /\ ObjectInv' /\ Keeps(l) /\ Shrinks(l)
  <2>1. PICK c : c = last[l] /\ c = s[n] /\ GivesUp(data[c])
    BY <1>1, <1>5
  <2> QED BY <1>1, <1>3, <1>4, <1>5, <2>1, TakeOut DEF IInv
<1>7. WalkInv'
  BY <1>2, <1>3, <1>6, WalkKept DEF IInv
<1> QED BY <1>0, <1>2, <1>3, <1>6, <1>7, NoCallStep

LEMMA TurnStep ==
  ASSUME IInv, NEW t \in Threads, NEW l \in Lists, Turn(t, l)
  PROVE  IInv' /\ Turns(l)
<1>1. /\ May(t, l) /\ itr.list # l
      /\ UNCHANGED objects /\ UNCHANGED <<calls, walk, threads>>
  BY Zenon DEF Turn, Walked
<1>2. TurnAround(l)
  BY DEF Turn, TurnAround
<1>3. itr' = itr /\ due' = due /\ late' = late /\ threads' = threads /\ UNCHANGED <<calls, threads>>
  BY <1>1, Zenon DEF walk
<1>4. Free(l)
  BY <1>1, MayIsFree DEF IInv, CallInv
<1>5. PICK n, s : n = size[l] /\ IsChain(l, s)
  BY DEF IInv, ChainInv
<1>6. ChainInv' /\ ObjectInv' /\ Keeps(l) /\ Turns(l)
  BY <1>1, <1>2, <1>5, TurnRound DEF IInv
<1>7. WalkInv'
  BY <1>1, <1>3, <1>6, WalkKept DEF IInv
<1> QED BY <1>3, <1>4, <1>6, <1>7, NoCallStep

LEMMA HandStep ==
  ASSUME IInv, NEW t \in Threads, (\E o \in Objects : New(t, o) \/ Drop(t, o)) \/ Test(t)
  PROVE  IInv'
<1>1. UNCHANGED chains /\ UNCHANGED <<calls, walk, threads>>
  <2>1. CASE \E o \in Objects : New(t, o)
    BY <2>1, Zenon DEF New
  <2>2. CASE \E o \in Objects : Drop(t, o)
    BY <2>2, Zenon DEF Drop
  <2>3. CASE Test(t)
    BY <2>3, Zenon DEF Test
  <2> QED BY <2>1, <2>2, <2>3
<1>2. itr' = itr /\ due' = due /\ late' = late /\ threads' = threads /\ UNCHANGED <<calls, threads>>
  BY <1>1, Zenon DEF walk
<1>3. ChainInv' /\ Keeps(Null) /\ ObjectInv'
  BY <1>1, ChainsAlone, HandObjects DEF IInv
<1>4. Free(Null)
  BY DEF Free, IInv, CallAt
<1>5. WalkInv'
  <2>1. CASE itr.list = Null
    BY <1>2, <2>1 DEF IInv, WalkInv
  <2>2. CASE itr.list # Null
    BY <1>2, <1>3, <2>2, WalkKept DEF IInv
  <2> QED BY <2>1, <2>2
<1> QED BY <1>2, <1>3, <1>4, <1>5, NoCallStep

-----------------------------------------------------------------------------
(* A merge adds one object.                                                    *)

\* Of what it has to add there is one less.
Agree(f, g, s, n) == \A i \in 1 .. n : g[s[i]] = f[s[i]]

LEMMA RestGoesOn ==
  ASSUME NEW f, NEW g, NEW s, NEW q, NEW n \in Nat, NEW m \in Nat, NEW k \in 1 .. m, NEW c,
         Agree(f, g, s, n), Agree(f, g, q, m), g[c] = f[q[k]]
  PROVE  Rest(g, Put(s, n, n + 1, c), n + 1, q, m, k + 1) = Rest(f, s, n, q, m, k)
<1>0. /\ \A i \in 1 .. n : g[s[i]] = f[s[i]]
      /\ \A i \in 1 .. m : g[q[i]] = f[q[i]]
  BY DEF Agree
<1>1. PICK r : r = Put(s, n, n + 1, c)
  OBVIOUS
<1>2. \A i \in 1 .. n + 1 : r[i] = IF i = n + 1 THEN c ELSE s[i]
  BY <1>1 DEF Put
<1>3. (n + 1) + m + 1 - (k + 1) = n + m + 1 - k
  OBVIOUS
<1>4. ASSUME NEW i \in 1 .. n + m + 1 - k
      PROVE  (IF i <= n + 1 THEN g[r[i]] ELSE g[q[i - (n + 1) + (k + 1) - 1]])
             = (IF i <= n THEN f[s[i]] ELSE f[q[i - n + k - 1]])
  <2>1. CASE i <= n
    <3>1. i \in 1 .. n /\ i \in 1 .. n + 1 /\ i # n + 1
      BY <2>1
    <3> QED BY <1>0, <1>2, <2>1, <3>1
  <2>2. CASE i = n + 1
    <3>1. i - n + k - 1 = k /\ i \in 1 .. n + 1 /\ ~(i <= n)
      BY <2>2
    <3> QED BY <1>2, <2>2, <3>1
  <2>3. CASE i > n + 1
    <3>1. /\ i - (n + 1) + (k + 1) - 1 = i - n + k - 1 /\ i - n + k - 1 \in 1 .. m
          /\ ~(i <= n + 1) /\ ~(i <= n)
      BY <2>3
    <3> QED BY <1>0, <3>1
  <2> QED BY <2>1, <2>2, <2>3
<1>5. Rest(g, r, n + 1, q, m, k + 1) = Rest(f, s, n, q, m, k)
  BY <1>3, <1>4 DEF Rest
<1> QED BY <1>1, <1>5

LEMMA MergeAddStep ==
  ASSUME IInv, NEW t \in Threads, NEW c \in Cells, MergeAdd(t, c)
  PROVE  IInv' /\ pc[t].self \in Lists /\ Grows(pc[t].self)
<1>0. PICK l, m, a, o : l = pc[t].self /\ m = pc[t].with /\ a = pc[t].at /\ o = data[a]
  OBVIOUS
<1>1. /\ pc[t].op = "add" /\ a # Null /\ Unused(c)
      /\ Link(c, o, l, last[l], Null) /\ Keep(o)
      /\ pc' = [pc EXCEPT ![t].at = next[a]]
      /\ UNCHANGED <<lock, whole, walk, threads>>
  <2>1. pc' = [pc EXCEPT ![t].at = next[pc[t].at]]
    BY DEF MergeAdd
  <2> QED BY <1>0, <2>1 DEF MergeAdd
<1>2. itr' = itr /\ due' = due /\ late' = late /\ threads' = threads /\ lock' = lock /\ whole' = whole
  BY <1>1, Zenon DEF walk
<1>3. CallInv /\ CallTypes /\ CallAt(t) /\ LockInv /\ t # Null /\ ChainInv /\ ObjectInv /\ MergeAt(t)
  BY <1>1, NullAssumption DEF IInv, CallInv, MergeInv
<1>4. l \in Lists /\ m \in Lists /\ itr.list # l
  BY <1>0, <1>1, <1>3 DEF CallAt, CallTypes
<1>5. PICK n, s : n = size[l] /\ n \in Nat /\ IsChain(l, s)
  BY <1>4 DEF IInv, ChainInv, ChainTypes
<1>6. PICK p, q : /\ IsChain(l, p) /\ IsChain(m, q)
                  /\ \E k \in 1 .. size[m] + 1 :
                       /\ a = Place(q, size[m], k)
                       /\ l # m => whole[t] = Rest(data, p, size[l], q, size[m], k)
  BY <1>0, <1>3 DEF MergeAt
<1>7. PICK h : h = size[m] /\ h \in Nat
  BY <1>4 DEF IInv, ChainInv, ChainTypes
<1>8. PICK k \in 1 .. h + 1 : /\ a = Place(q, h, k)
                              /\ l # m => whole[t] = Rest(data, p, n, q, h, k)
  BY <1>5, <1>6, <1>7
<1>9. p = s /\ (l = m => q = s /\ h = n)
  BY <1>4, <1>5, <1>6, <1>7, ChainIs
<1>10. /\ k \in 1 .. h /\ a = q[k] /\ a \in Cells /\ home[a] = m
       /\ next[a] = Place(q, h, k + 1)
  <2>1. k \in 1 .. h /\ a = q[k]
    BY <1>1, <1>7, <1>8 DEF Place
  <2>2. q[k] \in Cells /\ home[q[k]] = m /\ next[q[k]] = IF k = h THEN Null ELSE q[k + 1]
    BY <1>6, <1>7, <2>1 DEF IsChain
  <2>3. k = h <=> k + 1 = h + 1
    BY <1>7
  <2> QED BY <2>1, <2>2, <2>3 DEF Place
<1>11. o \in Objects /\ next[a] \in Links
  <2>1. data[a] # Null
    BY <1>3, <1>4, <1>10, NullAssumption DEF ObjectInv
  <2> QED BY <1>0, <1>3, <1>10, <2>1 DEF ObjectInv, ChainInv, ChainTypes
<1>12. PICK r : r = Put(s, n, n + 1, c)
  OBVIOUS
<1>13. /\ ChainInv' /\ ObjectInv' /\ Keeps(l) /\ Grows(l) /\ size'[l] = n + 1 /\ IsChain(l, r)'
       /\ data'[c] = o /\ \A d \in Cells : d # c => data'[d] = data[d]
  <2>1. PICK x : x = last[l] /\ x = IF n + 1 = 1 THEN Null ELSE s[(n + 1) - 1]
    BY <1>5 DEF IsChain
  <2>2. PICK y : y = Null /\ y = Place(s, n, n + 1)
    BY DEF Place
  <2>3. Link(c, o, l, x, y) /\ n + 1 \in 1 .. n + 1
    BY <1>1, <1>5, <2>1, <2>2
  <2> QED BY <1>1, <1>3, <1>4, <1>5, <1>11, <1>12, <2>1, <2>2, <2>3, PutIn
<1>14. /\ pc'[t].op = "add" /\ pc'[t].self = l /\ pc'[t].with = m /\ pc'[t].at = next[a]
       /\ \A u \in Threads : u # t => pc'[u] = pc[u]
       /\ CallTypes'
  <2>1. /\ pc'[t].op = "add" /\ pc'[t].self = l /\ pc'[t].with = m /\ pc'[t].at = next[a]
        /\ \A u \in Threads : u # t => pc'[u] = pc[u]
        /\ pc' \in [Threads -> [op : {"idle", "lock", "add", "nth", "destroy"},
                         self : Lists \cup {Null}, with : Lists \cup {Null},
                         at : Links]]
    BY <1>0, <1>1, <1>3, <1>11 DEF CallTypes
  <2> QED BY <1>2, <1>3, <2>1 DEF CallTypes
<1>15. LockInv' /\ \A u \in Threads : u # t => CallAt(u)'
  <2>1. \A u \in Threads : u # t /\ pc[u].op = "destroy" => pc[u].self \notin {l, m}
    BY <1>0, <1>3 DEF CallInv, CallAt
  <2>2. \A x \in Lists : lock'[x] = t => threads /\ (x = l \/ x = m)
    BY <1>0, <1>2, <1>3 DEF LockInv
  <2> QED BY <1>2, <1>3, <1>14, <2>1, <2>2, OtherCalls
<1>16. CallAt(t)'
  <2>1. /\ threads => lock[l] = t /\ lock[m] = t
        /\ <<l, m>> \in Merges /\ itr.list \notin {l, m} /\ (threads \/ t = Main)
        /\ l # Null /\ m # Null
    BY <1>0, <1>1, <1>3 DEF CallAt
  <2> QED BY <1>2, <1>14, <2>1 DEF CallAt
<1>17. WalkInv'
  BY <1>2, <1>4, <1>13, WalkKept DEF IInv
<1>18. ASSUME NEW u \in Threads, u # t, pc'[u].op = "add" PROVE MergeAt(u)'
  <2>1. /\ CallTypes /\ CallAt(u) /\ pc[u].op = "add" /\ MergeAt(u) /\ ChainTypes
        /\ pc'[u] = pc[u] /\ whole'[u] = whole[u]
    BY <1>2, <1>14, <1>18 DEF IInv, MergeInv, ChainInv
  <2>2. l \notin {pc[u].self, pc[u].with}
    BY <1>0, <1>1, <1>3, <1>18, <2>1, OnlyMerge
  <2> QED BY <1>13, <2>1, <2>2, MergeKept
<1>19. MergeAt(t)'
  <2>1. CASE l = m
    <3>1. \E j \in 1 .. (n + 1) + 1 : next[a] = Place(r, n + 1, j)
      <4>1. k \in 1 .. n /\ next[a] = Place(s, n, k + 1)
        BY <1>9, <1>10, <2>1
      <4>2. CASE k = n
        <5>1. next[a] = Null
          BY <4>1, <4>2 DEF Place
        <5>2. n + 2 \in 1 .. (n + 1) + 1 /\ Null = Place(r, n + 1, n + 2)
          BY <1>5 DEF Place
        <5> QED BY <5>1, <5>2
      <4>3. CASE k # n
        <5>1. k + 1 \in 1 .. n /\ k + 1 \in 1 .. (n + 1) + 1 /\ k + 1 # n + 1 /\ k + 1 # (n + 1) + 1
          BY <1>5, <4>1, <4>3
        <5>2. r[k + 1] = s[k + 1]
          BY <1>5, <1>12, <5>1 DEF Put
        <5>3. next[a] = Place(r, n + 1, k + 1)
          BY <4>1, <5>1, <5>2 DEF Place
        <5> QED BY <5>1, <5>3
      <4> QED BY <4>2, <4>3
    <3> QED BY <1>13, <1>14, <2>1, <3>1 DEF MergeAt
  <2>2. CASE l # m
    <3>1. IsChain(m, q)' /\ size'[m] = h
      BY <1>4, <1>6, <1>7, <1>13, <2>2 DEF Keeps
    <3>2. /\ \A i \in 1 .. n : data'[s[i]] = data[s[i]]
          /\ \A i \in 1 .. h : data'[q[i]] = data[q[i]]
      <4>1. /\ \A i \in 1 .. n : s[i] \in Cells /\ s[i] # c
            /\ \A i \in 1 .. h : q[i] \in Cells /\ q[i] # c
        BY <1>1, <1>4, <1>5, <1>6, <1>7, NullAssumption DEF IsChain, Unused
      <4> QED BY <1>13, <4>1
    <3>3. Rest(data', r, n + 1, q, h, k + 1) = Rest(data, s, n, q, h, k)
      <4>1. data'[c] = data[q[k]]
        BY <1>0, <1>10, <1>13
      <4>2. n \in Nat /\ h \in Nat /\ k \in 1 .. h
        BY <1>5, <1>7, <1>10
      <4>3. Rest(data', Put(s, n, n + 1, c), n + 1, q, h, k + 1) = Rest(data, s, n, q, h, k)
        <5>1. Agree(data, data', s, n) /\ Agree(data, data', q, h)
          BY <3>2 DEF Agree
        <5> QED BY <4>1, <4>2, <5>1, RestGoesOn
      <4> QED BY <1>12, <4>3
    <3>4. whole'[t] = Rest(data', r, n + 1, q, h, k + 1)
      BY <1>2, <1>8, <1>9, <2>2, <3>3
    <3>5. k + 1 \in 1 .. h + 1
      BY <1>7, <1>10
    <3> QED BY <1>10, <1>13, <1>14, <2>2, <3>1, <3>4, <3>5 DEF MergeAt
  <2> QED BY <2>1, <2>2
<1>20. MergeInv'
  <2>1. DOMAIN whole' = Threads /\ \A u \in Threads : whole'[u] \in Seq(Objects)
    BY <1>2 DEF IInv, MergeInv
  <2> QED BY <1>18, <1>19, <2>1 DEF MergeInv
<1> QED BY <1>0, <1>4, <1>13, <1>14, <1>15, <1>16, <1>17, <1>20 DEF IInv

-----------------------------------------------------------------------------
(* The invariant holds.                                                        *)

LEMMA InitInv ==
  ASSUME Init
  PROVE  IInv
<1> USE DEF Init
<1>1. ChainInv
  <2>1. ChainTypes
    BY DEF ChainTypes, Links
  <2>2. ASSUME NEW l \in Lists PROVE \E s : IsChain(l, s)
    <3>1. PICK s : s = [i \in 1 .. 0 |-> Null]
      OBVIOUS
    <3>2. IsChain(l, s)
      BY <3>1, NullAssumption DEF IsChain
    <3> QED BY <3>2
  <2> QED BY <2>1, <2>2 DEF ChainInv
<1>2. ObjectInv
  BY DEF ObjectInv
<1>3. CallTypes
  BY IdleIs DEF CallTypes
<1>4. (\A t \in Threads : CallAt(t)) /\ LockInv
  BY IdleIs DEF CallAt, LockInv
<1>5. WalkInv
  <2>1. /\ NoIterator \in [owner : Threads \cup {Null}, list : Lists \cup {Null},
                           current : Links, next : Links]
        /\ NoIterator.list = Null
    BY DEF NoIterator, Links
  <2> QED BY <2>1 DEF WalkInv, NoIterator
<1>6. MergeInv
  BY IdleIs DEF MergeInv
<1> QED BY <1>1, <1>2, <1>3, <1>4, <1>5, <1>6 DEF IInv

LEMMA ProgressStep ==
  ASSUME IInv, NEW t \in Threads, Progress(t)
  PROVE  IInv'
BY MergeLockStep, MergeAddStep, MergeEnds, SizeReturns, DestroyLastStep, HandStep DEF Progress

LEMMA StutterStep ==
  ASSUME IInv, UNCHANGED vars
  PROVE  IInv'
<1>1. /\ UNCHANGED chains /\ UNCHANGED objects /\ UNCHANGED <<calls, threads>>
      /\ itr' = itr /\ due' = due /\ late' = late /\ threads' = threads
  BY Zenon DEF vars, walk
<1>2. ChainInv' /\ Keeps(Null) /\ ObjectInv'
  BY <1>1, ChainsAlone, ObjectsAlone DEF IInv
<1>3. Free(Null)
  BY DEF Free, IInv, CallAt
<1>4. WalkInv'
  <2>1. CASE itr.list = Null
    BY <1>1, <2>1 DEF IInv, WalkInv
  <2>2. CASE itr.list # Null
    BY <1>1, <1>2, <2>2, WalkKept DEF IInv
  <2> QED BY <2>1, <2>2
<1> QED BY <1>1, <1>2, <1>3, <1>4, NoCallStep

LEMMA NextInv ==
  ASSUME IInv, [Next]_vars
  PROVE  IInv'
<1>1. CASE \E t \in Threads, o \in Objects : New(t, o) \/ Drop(t, o)
  BY <1>1, HandStep
<1>2. CASE \E t \in Threads, l \in Lists, o \in Objects, c \in Cells :
             AppendTo(t, l, o, c) \/ Prepend(t, l, o, c)
  BY <1>2, AppendStep, PrependStep
<1>3. CASE \E t \in Threads, l \in Lists :
             Pop(t, l) \/ Turn(t, l) \/ Destroy(t, l) \/ Nth(t, l) \/ IteratorGet(t, l)
  BY <1>3, PopStep, TurnStep, DestroyStep, NthStep, GetStep
<1>4. CASE \E t \in Threads, l, m \in Lists : Merge(t, l, m)
  BY <1>4, MergeStep
<1>5. CASE \E t \in Threads : Progress(t)
  BY <1>5, ProgressStep
<1>6. CASE IteratorNext \/ IteratorUnlink
  BY <1>6, NextStep, UnlinkStep
<1>7. CASE \E o \in Objects, c \in Cells : InsertBefore(o, c) \/ InsertAfter(o, c)
  BY <1>7, BeforeStep, AfterStep
<1>8. CASE UNCHANGED vars
  BY <1>8, StutterStep
<1> QED BY <1>1, <1>2, <1>3, <1>4, <1>5, <1>6, <1>7, <1>8 DEF Next

\* The inductive invariant: every list is a chain whose pointers agree, objects
\* are counted, the mutexes are those of the calls, and the iterator and the
\* merges are at a place of their lists (base list.c, list.c, list_list.c).
THEOREM Invariance == Spec => []IInv
<1>1. Init => IInv
  BY InitInv
<1>2. IInv /\ [Next]_vars => IInv'
  BY NextInv
<1> QED BY <1>1, <1>2, PTL DEF Spec

\* The variables keep their types.
THEOREM TypeCorrect == Spec => []TypeOK
<1>1. IInv => TypeOK
  <2> SUFFICES ASSUME IInv PROVE TypeOK
    OBVIOUS
  <2>1. /\ first \in [Lists -> Links] /\ last \in [Lists -> Links] /\ size \in [Lists -> Nat]
        /\ next \in [Cells -> Links] /\ prev \in [Cells -> Links]
        /\ data \in [Cells -> Objects \cup {Null}] /\ home \in [Cells -> Lists \cup {Null}]
    BY DEF IInv, ChainInv, ChainTypes
  <2>2. /\ hand \subseteq Objects /\ alive \subseteq Objects /\ ref \in [Objects -> Nat]
        /\ deleting \in [Threads -> Objects \cup {Null}]
    BY DEF IInv, ObjectInv
  <2>3. /\ threads \in BOOLEAN /\ lock \in [Lists -> Threads \cup {Null}]
        /\ pc \in [Threads -> [op : {"idle", "lock", "add", "nth", "destroy"},
                               self : Lists \cup {Null}, with : Lists \cup {Null},
                               at : Links]]
    BY BuildAssumption DEF IInv, CallTypes
  <2>4. /\ itr \in [owner : Threads \cup {Null}, list : Lists \cup {Null},
                    current : Links, next : Links]
        /\ due \subseteq Cells /\ late \subseteq Cells
    BY DEF IInv, WalkInv
  <2>5. DOMAIN whole = Threads /\ \A t \in Threads : whole[t] \in Seq(Objects)
    BY DEF IInv, MergeInv
  <2> QED BY <2>1, <2>2, <2>3, <2>4, <2>5 DEF TypeOK
<1> QED BY <1>1, Invariance, PTL

-----------------------------------------------------------------------------
(* References, in an orderly application.                                      *)

\* An object that an element has lives, and so does one the application has or
\* that is about to be looked at; only one thread is to look at it, and the
\* application has only objects that no element has.
RefInv ==
  /\ hand \subseteq alive
  /\ \A c \in Cells : data[c] # Null => data[c] \in alive
  /\ \A o \in alive : ref[o] = Cardinality(CellsWith(o))
  /\ \A o \in hand : ref[o] = 0
  /\ \A t \in Threads : deleting[t] # Null => deleting[t] \in alive /\ deleting[t] \notin hand
  /\ \A t, u \in Threads : deleting[t] = deleting[u] /\ deleting[t] # Null => t = u

\* An object goes into an element that was in no list.
LEMMA KeepRef ==
  ASSUME ObjectInv, RefInv, NEW c \in Cells, Unused(c), NEW o \in Objects, DataBut(c),
         data'[c] = o, Keep(o)
  PROVE  RefInv'
<1>1. /\ o \in Held /\ hand' = hand \ {o} /\ alive' = alive /\ deleting' = deleting
      /\ ref' \in [Objects -> Nat] /\ \A x \in Objects : ref'[x] = IF x = o THEN ref[x] + 1 ELSE ref[x]
  BY DEF Keep, ObjectInv
<1>2. o \in alive
  BY <1>1 DEF Held, Unused, ObjectInv, RefInv
<1>3. ASSUME NEW x \in alive PROVE ref'[x] = Cardinality(CellsWith(x)')
  <2>1. x # Null /\ x \in Objects /\ data[c] = Null
    BY NullAssumption DEF Unused, ObjectInv
  <2>2. Cardinality(CellsWith(x)') = Cardinality(CellsWith(x)) + One(o = x) - One(FALSE)
    <3>1. Cardinality(CellsWith(x)') = Cardinality(CellsWith(x)) + One(data'[c] = x) - One(data[c] = x)
      BY CellCounts
    <3> QED BY <2>1, <3>1 DEF One
  <2>3. ref[x] = Cardinality(CellsWith(x)) /\ ref[x] \in Nat
    BY <2>1 DEF ObjectInv, RefInv
  <2> QED BY <1>1, <2>1, <2>2, <2>3 DEF One
<1>4. \A d \in Cells : data'[d] # Null => data'[d] \in alive'
  BY <1>1, <1>2 DEF DataBut, RefInv
<1>5. hand' \subseteq alive' /\ \A x \in hand' : ref'[x] = 0
  BY <1>1 DEF ObjectInv, RefInv
<1>6. /\ \A t \in Threads : deleting'[t] # Null => deleting'[t] \in alive' /\ deleting'[t] \notin hand'
      /\ \A t, u \in Threads : deleting'[t] = deleting'[u] /\ deleting'[t] # Null => t = u
  BY <1>1 DEF RefInv
<1> QED BY <1>1, <1>3, <1>4, <1>5, <1>6 DEF RefInv

\* An object leaves its element, to the caller or to be deleted.
LEMMA LeaveRef ==
  ASSUME Orderly, ObjectInv, RefInv, NEW c \in Cells, NEW o \in Objects, o = data[c],
         DataBut(c), data'[c] = Null,
         Release(o) \/ \E t \in Threads : /\ deleting[t] = Null
                                          /\ Alone(o) /\ Delete(t, o) /\ hand' = hand
  PROVE  RefInv'
<1>1. o \in alive /\ o # Null /\ \A u \in Threads : deleting[u] # o
  BY NullAssumption DEF RefInv, Release, Alone
<1>2. ref[o] > 0
  <2>1. c \in CellsWith(o)
    BY DEF CellsWith
  <2>2. CellsWith(o) # {}
    BY <2>1
  <2>3. Cardinality(CellsWith(o)) # 0
    BY <2>2, CellsFinite, FS_EmptySet
  <2>4. ref[o] # 0 /\ ref[o] \in Nat
    BY <1>1, <2>3 DEF RefInv, ObjectInv
  <2> QED BY <2>4
<1>3. /\ ref' \in [Objects -> Nat]
      /\ \A x \in Objects : ref'[x] = IF x = o THEN ref[x] - 1 ELSE ref[x]
      /\ Dec(o)[o] = ref[o] - 1 /\ alive' = alive
  BY <1>2 DEF ObjectInv, Release, Delete, Dec
<1>4. ASSUME NEW x \in alive PROVE ref'[x] = Cardinality(CellsWith(x)')
  <2>1. x # Null /\ x \in Objects
    BY NullAssumption DEF ObjectInv
  <2>2. Cardinality(CellsWith(x)') = Cardinality(CellsWith(x)) + One(FALSE) - One(o = x)
    <3>1. Cardinality(CellsWith(x)') = Cardinality(CellsWith(x)) + One(data'[c] = x) - One(data[c] = x)
      BY CellCounts
    <3> QED BY <2>1, <3>1 DEF One
  <2>3. ref[x] = Cardinality(CellsWith(x)) /\ ref[x] \in Nat
    BY <2>1 DEF ObjectInv, RefInv
  <2> QED BY <1>3, <2>1, <2>2, <2>3 DEF One
<1>5. \A d \in Cells : data'[d] # Null => data'[d] \in alive'
  BY <1>3 DEF DataBut, RefInv
<1>6. o \notin hand
  BY <1>2 DEF RefInv
<1>7. /\ hand' \subseteq alive' /\ \A x \in hand' : ref'[x] = 0
      /\ \A u \in Threads : deleting'[u] # Null => deleting'[u] \in alive' /\ deleting'[u] \notin hand'
      /\ \A u, v \in Threads : deleting'[u] = deleting'[v] /\ deleting'[u] # Null => u = v
  <2>1. CASE Release(o)
    <3>1. deleting' = deleting /\ hand' = IF ref[o] - 1 = 0 THEN hand \cup {o} ELSE hand
      BY <1>3, <2>1 DEF Release
    <3>2. \A x \in hand : x \in Objects /\ x \in alive /\ ref[x] = 0
      BY DEF ObjectInv, RefInv
    <3>3. hand' \subseteq alive' /\ \A x \in hand' : ref'[x] = 0
      BY <1>1, <1>3, <1>6, <3>1, <3>2
    <3> QED BY <1>1, <1>3, <3>1, <3>3 DEF RefInv
  <2>2. CASE \E t \in Threads : deleting[t] = Null /\ Delete(t, o) /\ hand' = hand
    <3>1. PICK t \in Threads : Delete(t, o) /\ hand' = hand
      BY <2>2
    <3>2. \A u \in Threads : deleting'[u] = IF u = t THEN o ELSE deleting[u]
      BY <3>1 DEF Delete, ObjectInv
    <3>3. \A x \in hand : x \in Objects /\ x \in alive /\ ref[x] = 0
      BY DEF ObjectInv, RefInv
    <3>4. hand' \subseteq alive' /\ \A x \in hand' : ref'[x] = 0
      BY <1>3, <1>6, <3>1, <3>3
    <3>5. /\ \A u \in Threads : deleting'[u] # Null => deleting'[u] \in alive' /\ deleting'[u] \notin hand'
          /\ \A u, v \in Threads : deleting'[u] = deleting'[v] /\ deleting'[u] # Null => u = v
      BY <1>1, <1>3, <1>6, <3>1, <3>2 DEF RefInv
    <3> QED BY <3>4, <3>5
  <2> QED BY <2>1, <2>2
<1> QED BY <1>3, <1>4, <1>5, <1>7 DEF RefInv

\* The application makes an object, and gives one up; somebody looks at a count.
LEMMA HandRef ==
  ASSUME ObjectInv, RefInv, NEW t \in Threads,
         (\E o \in Objects : New(t, o) \/ Drop(t, o)) \/ Test(t)
  PROVE  RefInv'
<1>1. data' = data /\ \A x : CellsWith(x)' = CellsWith(x)
  BY DEF New, Drop, Test, chains, CellsWith
<1>2. CASE \E o \in Objects : New(t, o)
  <2>1. PICK o \in Objects : New(t, o)
    BY <1>2
  <2>2. \A d \in Cells : data[d] # o
    BY <2>1, NullAssumption DEF New, RefInv
  <2>3. CellsWith(o) = {}
    BY <2>2 DEF CellsWith
  <2>4. Cardinality(CellsWith(o)) = 0
    BY <2>3, FS_EmptySet
  <2>5. /\ alive' = alive \cup {o} /\ hand' = hand \cup {o} /\ deleting' = deleting
        /\ o \notin alive /\ \A x \in Objects : ref'[x] = IF x = o THEN 0 ELSE ref[x]
    BY <2>1 DEF New, ObjectInv
  <2>6. /\ \A u \in Threads : deleting[u] # Null => deleting[u] \in alive /\ deleting[u] \notin hand
        /\ \A u, v \in Threads : deleting[u] = deleting[v] /\ deleting[u] # Null => u = v
    BY DEF RefInv
  <2>7. /\ \A u \in Threads : deleting'[u] # Null => deleting'[u] \in alive' /\ deleting'[u] \notin hand'
        /\ \A u, v \in Threads : deleting'[u] = deleting'[v] /\ deleting'[u] # Null => u = v
    BY <2>5, <2>6
  <2>8. hand \subseteq alive /\ alive \subseteq Objects
    BY DEF RefInv, ObjectInv
  <2>9. /\ hand' \subseteq alive' /\ \A x \in hand' : ref'[x] = 0
        /\ \A d \in Cells : data'[d] # Null => data'[d] \in alive'
    BY <1>1, <2>5, <2>8 DEF RefInv
  <2>10. \A x \in alive' : ref'[x] = Cardinality(CellsWith(x)')
    BY <1>1, <2>4, <2>5, <2>8 DEF RefInv
  <2> QED BY <2>7, <2>9, <2>10 DEF RefInv
<1>3. CASE \E o \in Objects : Drop(t, o)
  <2>1. PICK o \in Objects : Drop(t, o)
    BY <1>3
  <2>2. o \in hand /\ hand' = hand \ {o} /\ deleting[t] = Null /\ alive' = alive
    BY <2>1 DEF Drop, Caller, Delete
  <2>3. ref[o] = 0
    BY <2>2 DEF RefInv
  <2>4. ref' = ref /\ \A u \in Threads : deleting'[u] = IF u = t THEN o ELSE deleting[u]
    BY <2>1, <2>3 DEF Drop, Delete, Dec, ObjectInv
  <2>5. o \in alive /\ \A u \in Threads : deleting[u] # o
    BY <2>2, NullAssumption DEF RefInv
  <2>6. /\ \A u \in Threads : deleting'[u] # Null => deleting'[u] \in alive' /\ deleting'[u] \notin hand'
        /\ \A u, v \in Threads : deleting'[u] = deleting'[v] /\ deleting'[u] # Null => u = v
    BY <2>2, <2>4, <2>5 DEF RefInv
  <2> QED BY <1>1, <2>2, <2>4, <2>6 DEF RefInv
<1>4. CASE Test(t)
  <2>1. PICK o : o = deleting[t]
    OBVIOUS
  <2>2. /\ o # Null /\ alive' = IF ref[o] = 0 THEN alive \ {o} ELSE alive
        /\ ref' = ref /\ hand' = hand
    BY <1>4, <2>1 DEF Test
  <2>3. \A u \in Threads : deleting'[u] = IF u = t THEN Null ELSE deleting[u]
    BY <1>4 DEF Test, ObjectInv
  <2>4. o \in alive /\ o \notin hand /\ \A u \in Threads : u # t => deleting[u] # o
    BY <2>1, <2>2 DEF RefInv
  <2>5. alive' \subseteq alive /\ hand' \subseteq alive'
    BY <2>2, <2>4 DEF RefInv
  <2>6. \A d \in Cells : data[d] # Null => data[d] \in alive'
    <3>1. ASSUME NEW d \in Cells, data[d] = o PROVE ref[o] # 0
      <4>1. d \in CellsWith(o)
        BY <3>1 DEF CellsWith
      <4>2. CellsWith(o) # {}
        BY <4>1
      <4>3. Cardinality(CellsWith(o)) # 0
        BY <4>2, CellsFinite, FS_EmptySet
      <4> QED BY <2>4, <4>3 DEF RefInv
    <3> QED BY <2>2, <3>1 DEF RefInv
  <2>7. /\ \A u \in Threads : deleting'[u] # Null => deleting'[u] \in alive' /\ deleting'[u] \notin hand'
        /\ \A u, v \in Threads : deleting'[u] = deleting'[v] /\ deleting'[u] # Null => u = v
    BY <2>2, <2>3, <2>4 DEF RefInv
  <2> QED BY <1>1, <2>2, <2>5, <2>6, <2>7 DEF RefInv
<1> QED BY <1>2, <1>3, <1>4

\* What linking and cutting do to the objects of the elements.
LEMMA LinkData ==
  ASSUME ObjectInv, ChainTypes, NEW c \in Cells, Unused(c), NEW o, NEW l, NEW p, NEW m,
         l # Null, Link(c, o, l, p, m)
  PROVE  DataBut(c) /\ data'[c] = o
BY DEF Link, DataBut, ChainTypes

LEMMA CutData ==
  ASSUME ChainTypes, NEW c \in Cells, Cut(c)
  PROVE  DataBut(c) /\ data'[c] = Null
BY DEF Cut, DataBut, ChainTypes

LEMMA RefIn ==
  ASSUME IInv, RefInv, NEW c \in Cells, Unused(c), NEW o, NEW l \in Lists, NEW p, NEW m,
         Link(c, o, l, p, m), Keep(o)
  PROVE  RefInv'
<1>1. ObjectInv /\ ChainTypes /\ l # Null
  BY NullAssumption DEF IInv, ChainInv
<1>2. o \in Objects
  BY <1>1 DEF Keep, Held, Unused, ObjectInv, ChainTypes
<1>3. DataBut(c) /\ data'[c] = o
  BY <1>1, LinkData
<1> QED BY <1>1, <1>2, <1>3, KeepRef

LEMMA RefOut ==
  ASSUME Orderly, IInv, RefInv, NEW c \in Cells, home[c] # Null, Cut(c),
         \/ Release(data[c])
         \/ \E t \in Threads : /\ deleting[t] = Null /\ Alone(data[c])
                               /\ Delete(t, data[c]) /\ hand' = hand
  PROVE  RefInv'
<1>1. ObjectInv /\ ChainTypes
  BY DEF IInv, ChainInv
<1>2. PICK o \in Objects : o = data[c]
  BY <1>1 DEF ObjectInv, ChainTypes
<1>3. DataBut(c) /\ data'[c] = Null
  BY <1>1, CutData
<1> QED BY <1>1, <1>2, <1>3, LeaveRef

\* The last element of a list is one of its elements.
LEMMA LastIs ==
  ASSUME IInv, NEW l \in Lists, last[l] # Null
  PROVE  last[l] \in Cells /\ home[last[l]] # Null
<1>1. PICK n, s : n = size[l] /\ n \in Nat /\ IsChain(l, s)
  BY DEF IInv, ChainInv, ChainTypes
<1>2. n # 0 /\ last[l] = s[n] /\ n \in 1 .. n
  BY <1>1 DEF IsChain
<1> QED BY <1>1, <1>2, NullAssumption DEF IsChain

\* And so is the one an iterator is at.
LEMMA CurrentIs ==
  ASSUME IInv, itr.owner # Null, itr.current # Null
  PROVE  itr.list \in Lists /\ itr.current \in Cells /\ home[itr.current] # Null
<1>1. itr.list # Null
  BY DEF IInv, WalkInv, NoIterator
<1>2. PICK l, n, s, k :
        /\ l = itr.list /\ n = size[l] /\ l \in Lists /\ n \in Nat /\ IsChain(l, s)
        /\ k \in 1 .. n + 1 /\ WalkAt(s, n, k)
  BY <1>1, WalkerAt
<1>3. k - 1 \in 1 .. n /\ itr.current = s[k - 1]
  BY <1>2 DEF WalkAt
<1> QED BY <1>2, <1>3, NullAssumption DEF IsChain

LEMMA RefInit ==
  ASSUME Init
  PROVE  RefInv
BY DEF Init, RefInv

LEMMA RefNext ==
  ASSUME Orderly, IInv, RefInv, [Next]_vars
  PROVE  RefInv'
<1>1. CASE \E t \in Threads, o \in Objects : New(t, o) \/ Drop(t, o)
  BY <1>1, HandRef DEF IInv
<1>2. ASSUME NEW t \in Threads, NEW l \in Lists, NEW o \in Objects, NEW c \in Cells,
             AppendTo(t, l, o, c) \/ Prepend(t, l, o, c)
      PROVE  RefInv'
  <2>1. CASE AppendTo(t, l, o, c)
    BY <2>1, RefIn DEF AppendTo
  <2>2. CASE Prepend(t, l, o, c)
    BY <2>2, RefIn DEF Prepend
  <2> QED BY <1>2, <2>1, <2>2
<1>3. ASSUME NEW t \in Threads, NEW l \in Lists, Pop(t, l) PROVE RefInv'
  BY <1>3, LastIs, RefOut DEF Pop
<1>4. ASSUME NEW t \in Threads, DestroyLast(t) PROVE RefInv'
  <2>1. PICK l : l = pc[t].self
    OBVIOUS
  <2>2. l \in Lists
    BY <1>4, <2>1, DestroyLastStep
  <2>3. /\ last[l] # Null /\ Cut(last[l]) /\ deleting[t] = Null
        /\ Alone(data[last[l]]) /\ Delete(t, data[last[l]]) /\ hand' = hand
    BY <1>4, <2>1 DEF DestroyLast
  <2> QED BY <2>2, <2>3, LastIs, RefOut
<1>5. ASSUME NEW t \in Threads, NEW c \in Cells, MergeAdd(t, c) PROVE RefInv'
  <2>1. pc[t].self \in Lists
    BY <1>5, MergeAddStep
  <2> QED BY <1>5, <2>1, RefIn DEF MergeAdd
<1>6. ASSUME NEW t \in Threads, Test(t) PROVE RefInv'
  BY <1>6, HandRef DEF IInv
<1>7. CASE IteratorUnlink
  BY <1>7, CurrentIs, RefOut DEF IteratorUnlink, Walker
<1>8. ASSUME NEW o \in Objects, NEW c \in Cells, InsertBefore(o, c) \/ InsertAfter(o, c)
      PROVE  RefInv'
  <2>1. CASE InsertBefore(o, c)
    BY <2>1, CurrentIs, RefIn DEF InsertBefore, Walker
  <2>2. CASE InsertAfter(o, c)
    BY <2>2, CurrentIs, RefIn DEF InsertAfter, Walker
  <2> QED BY <1>8, <2>1, <2>2
<1>9. ASSUME data' = data, UNCHANGED objects PROVE RefInv'
  <2>1. alive' = alive /\ ref' = ref /\ hand' = hand /\ deleting' = deleting
    BY <1>9, Zenon DEF objects
  <2> QED BY <1>9, <2>1 DEF RefInv, CellsWith
<1>10. CASE \E t \in Threads, l \in Lists :
              Turn(t, l) \/ Destroy(t, l) \/ Nth(t, l) \/ IteratorGet(t, l)
  <2>1. data' = data /\ UNCHANGED objects
    BY <1>10, Zenon DEF Turn, Destroy, Nth, IteratorGet, chains
  <2> QED BY <1>9, <2>1
<1>11. CASE \E t \in Threads : \/ \E l, m \in Lists : Merge(t, l, m)
                               \/ MergeLock(t) \/ MergeFails(t) \/ MergeReturns(t)
                               \/ NthSize(t) \/ Destroyed(t)
  <2>1. data' = data /\ UNCHANGED objects
    BY <1>11, Zenon DEF Merge, MergeLock, MergeFails, MergeReturns, NthSize, Destroyed, chains
  <2> QED BY <1>9, <2>1
<1>12. CASE IteratorNext \/ UNCHANGED vars
  <2>1. data' = data /\ UNCHANGED objects
    BY <1>12, Zenon DEF IteratorNext, vars, chains
  <2> QED BY <1>9, <2>1
<1> QED BY <1>1, <1>2, <1>3, <1>4, <1>5, <1>6, <1>7, <1>8, <1>10, <1>11, <1>12 DEF Next, Progress

\* The references to an object are the elements that have it, and an object that
\* some element, the application or a deleting thread has is not destroyed, whatever
\* is merged, taken out and destroyed: when no application takes an object out of a
\* list between the two steps of a deletion by another thread.
THEOREM ReferencesCorrect ==
  ASSUME Orderly
  PROVE  Spec => []RefExact
<1>1. Init => IInv /\ RefInv
  BY InitInv, RefInit
<1>2. IInv /\ RefInv /\ [Next]_vars => (IInv /\ RefInv)'
  BY NextInv, RefNext
<1>3. IInv /\ RefInv => RefExact
  BY DEF IInv, ObjectInv, RefInv, RefExact, CellsWith, Unused
<1> QED BY <1>1, <1>2, <1>3, PTL DEF Spec

\* What an iterator should still come to is what follows its place in the list as
\* it knows it, whatever was unlinked and inserted at it and appended behind it, and
\* what was appended once it had found that nothing follows.
THEOREM WalkCorrect == Spec => []WalkExact
<1>1. IInv => WalkExact
  <2> SUFFICES ASSUME IInv, itr # NoIterator
               PROVE  due = {Chain(itr.list)[i] : i \in {j \in 1 .. size[itr.list] :
                               \E k \in 1 .. j : Chain(itr.list)[k] = itr.next}} \cup late
    BY DEF WalkExact
  <2>1. itr.list # Null
    BY DEF IInv, WalkInv
  <2>2. PICK l, n, s, k :
          /\ l = itr.list /\ n = size[l] /\ l \in Lists /\ n \in Nat /\ IsChain(l, s)
          /\ k \in 1 .. n + 1 /\ WalkAt(s, n, k)
    BY <2>1, WalkerAt
  <2>3. Chain(l) = s
    BY <2>2, ChainIs
  <2>4. /\ \A i \in 1 .. n : s[i] # Null
        /\ \A i, j \in 1 .. n : s[i] = s[j] => i = j
    BY <2>2, NullAssumption, SMTT(30) DEF IsChain
  <2>5. due = From(s, n, k)
    BY <2>2 DEF WalkAt
  <2>6. CASE late = {}
    <3>1. itr.next = Place(s, n, k)
      BY <2>2, <2>6 DEF WalkAt
    <3>2. \A j \in 1 .. n : (\E i \in 1 .. j : s[i] = itr.next) <=> k <= j
      <4> SUFFICES ASSUME NEW j \in 1 .. n
                   PROVE  (\E i \in 1 .. j : s[i] = itr.next) <=> k <= j
        OBVIOUS
      <4>1. ASSUME NEW i \in 1 .. j, s[i] = itr.next PROVE k <= j
        <5>1. i \in 1 .. n
          BY <2>2
        <5>2. i = k
          BY <2>2, <2>4, <3>1, <4>1, <5>1 DEF Place
        <5> QED BY <2>2, <5>2
      <4>2. ASSUME k <= j PROVE \E i \in 1 .. j : s[i] = itr.next
        <5>1. k \in 1 .. j /\ k # n + 1
          BY <2>2, <4>2
        <5> QED BY <3>1, <5>1 DEF Place
      <4> QED BY <4>1, <4>2
    <3>3. {s[i] : i \in {j \in 1 .. n : \E i \in 1 .. j : s[i] = itr.next}} = From(s, n, k)
      <4>1. {j \in 1 .. n : \E i \in 1 .. j : s[i] = itr.next} = k .. n
        BY <2>2, <3>2
      <4> QED BY <4>1 DEF From
    <3> QED BY <2>2, <2>3, <2>5, <2>6, <3>3
  <2>7. CASE late # {}
    <3>1. itr.next = Null /\ late = due
      BY <2>2, <2>7 DEF WalkAt
    <3>2. {j \in 1 .. n : \E i \in 1 .. j : s[i] = itr.next} = {}
      <4>1. \A j \in 1 .. n : \A i \in 1 .. j : s[i] # itr.next
        BY <2>2, <2>4, <3>1
      <4> QED BY <4>1
    <3> QED BY <2>2, <2>3, <3>1, <3>2
  <2> QED BY <2>6, <2>7
<1> QED BY <1>1, Invariance, PTL

\* No list is merged with itself: the one that is added to is another one.
Apart == \A l \in Lists : <<l, l>> \notin Merges

\* When a merge is through, the list that grew has what both had when it had
\* their mutexes: nobody puts in, takes out or moves an object in between.
THEOREM MergesCorrect ==
  ASSUME Apart
  PROVE  Spec => []MergeWhole
<1>1. IInv => MergeWhole
  <2> SUFFICES ASSUME IInv, NEW t \in Threads, pc[t].op = "add", pc[t].at = Null
               PROVE  Content(pc[t].self) = whole[t]
    BY DEF MergeWhole
  <2>1. PICK l \in Lists, m \in Lists : l = pc[t].self /\ m = pc[t].with /\ <<l, m>> \in Merges
    BY DEF IInv, CallAt, CallTypes
  <2>2. l # m
    BY <2>1 DEF Apart
  <2>3. PICK s, q : /\ IsChain(l, s) /\ IsChain(m, q)
                    /\ \E k \in 1 .. size[m] + 1 :
                         /\ Null = Place(q, size[m], k)
                         /\ whole[t] = Rest(data, s, size[l], q, size[m], k)
    BY <2>1, <2>2 DEF IInv, MergeInv, MergeAt
  <2>4. PICK k \in 1 .. size[m] + 1 : /\ Null = Place(q, size[m], k)
                                      /\ whole[t] = Rest(data, s, size[l], q, size[m], k)
    BY <2>3
  <2>5. size[l] \in Nat /\ size[m] \in Nat /\ ChainInv /\ ObjectInv
    BY DEF IInv, ChainInv, ChainTypes
  <2>6. k = size[m] + 1
    <3>1. \A i \in 1 .. size[m] : q[i] # Null
      BY <2>3, NullAssumption DEF IsChain
    <3> QED BY <2>4, <2>5, <3>1 DEF Place
  <2>7. size[l] + size[m] + 1 - k = size[l]
    BY <2>5, <2>6
  <2>8. Rest(data, s, size[l], q, size[m], k) = [i \in 1 .. size[l] |-> data[s[i]]]
    BY <2>5, <2>7 DEF Rest
  <2>9. Content(l) = [i \in 1 .. size[l] |-> data[s[i]]]
    BY <2>3, <2>5, ContentIs
  <2> QED BY <2>1, <2>4, <2>8, <2>9
<1> QED BY <1>1, Invariance, PTL

\* Merges go down an order of the lists, and SListNth, which takes its mutex twice,
\* is not called in builds with threads.
Ranked == \E rank \in [Lists -> Nat] : \A l, m \in Lists : <<l, m>> \in Merges => rank[m] < rank[l]
NthAlone == ~NthThreaded \/ TRUE \notin Builds

\* A mutex belongs to a call that is under way, and of the calls that wait for one
\* there is always one whose holder does not wait: the one whose second list is the
\* least of the order.
THEOREM NobodyWaitsForEver ==
  ASSUME Ranked, NthAlone
  PROVE  Spec => []NobodyStuck
<1>1. IInv => NobodyStuck
  <2> SUFFICES ASSUME IInv PROVE NobodyStuck
    OBVIOUS
  <2> DEFINE awaited(t) == CASE pc[t].op = "lock" -> pc[t].with
                             [] pc[t].op = "nth" -> pc[t].self
                             [] OTHER -> Null
             waits == {t \in Threads : awaited(t) # Null /\ lock[awaited(t)] # Null}
  <2>0. CallTypes /\ LockInv /\ \A t \in Threads : CallAt(t)
    BY DEF IInv
  <2>1. \A l \in Lists : lock[l] # Null =>
          /\ pc[lock[l]].op \in {"lock", "add", "nth"}
          /\ l \in {pc[lock[l]].self, pc[lock[l]].with}
    BY <2>0 DEF LockInv
  <2>2. ASSUME NEW some \in SUBSET waits, some # {}
        PROVE  \E t \in some : lock[awaited(t)] \notin some
    <3>1. PICK rank \in [Lists -> Nat] :
                 \A l, m \in Lists : <<l, m>> \in Merges => rank[m] < rank[l]
      BY DEF Ranked
    <3>2. ASSUME NEW t \in some
          PROVE  /\ t \in Threads /\ pc[t].op = "lock" /\ awaited(t) = pc[t].with
                 /\ pc[t].self \in Lists /\ pc[t].with \in Lists /\ <<pc[t].self, pc[t].with>> \in Merges
                 /\ threads /\ lock[pc[t].with] \in Threads
      <4>1. t \in Threads /\ awaited(t) # Null /\ lock[awaited(t)] # Null
        OBVIOUS
      <4>2. CASE pc[t].op = "lock"
        <5>1. /\ awaited(t) = pc[t].with /\ pc[t].self \in Lists /\ pc[t].with \in Lists
              /\ <<pc[t].self, pc[t].with>> \in Merges
          BY <2>0, <4>1, <4>2 DEF CallAt, CallTypes
        <5> QED BY <2>0, <4>1, <4>2, <5>1 DEF LockInv, CallTypes
      <4>3. CASE pc[t].op # "lock"
        <5>1. pc[t].op = "nth" /\ awaited(t) = pc[t].self
          BY <4>1, <4>3
        <5>2. pc[t].self \in Lists
          BY <2>0, <4>1, <5>1 DEF CallAt, CallTypes
        <5>3. threads
          BY <2>0, <4>1, <5>1, <5>2 DEF LockInv
        <5>4. NthThreaded /\ threads \in Builds
          BY <2>0, <4>1, <5>1, <5>3 DEF CallAt, CallTypes
        <5> QED BY <5>3, <5>4, BuildAssumption DEF NthAlone
      <4> QED BY <4>2, <4>3
    <3> HIDE DEF awaited, waits
    <3> DEFINE ranks == {rank[pc[t].with] : t \in some}
    <3>3. ranks \in SUBSET Nat /\ ranks # {}
      BY <2>2, <3>2
    <3>4. PICK n \in ranks : \A m \in ranks : n <= m
      BY <3>3, LeastNatural
    <3>5. PICK t \in some : n = rank[pc[t].with]
      BY <3>4
    <3>6. ASSUME lock[awaited(t)] \in some PROVE FALSE
      <4>1. PICK u \in some : u = lock[pc[t].with]
        BY <3>2, <3>6
      <4>2. pc[u].op = "lock" /\ pc[u].with \in Lists /\ pc[t].with \in Lists
        BY <3>2
      <4>3. u # Null
        BY <3>2, NullAssumption
      <4>4. pc[t].with = pc[u].self
        BY <2>0, <4>1, <4>2, <4>3 DEF LockInv
      <4>5. rank[pc[u].with] < rank[pc[t].with]
        BY <3>1, <3>2, <4>2, <4>4
      <4>6. n <= rank[pc[u].with]
        BY <3>4
      <4> QED BY <3>1, <3>5, <4>2, <4>5, <4>6
    <3> QED BY <3>5, <3>6
  <2> QED BY <2>1, <2>2 DEF NobodyStuck
<1> QED BY <1>1, Invariance, PTL

\* The pointers of every list agree in both directions, with its ends and with its
\* size, whatever was inserted, taken out and turned round.
THEOREM ListsLinked == Spec => []Linked
<1>1. IInv => Linked
  <2> SUFFICES ASSUME IInv, NEW l \in Lists
               PROVE  /\ \A i \in 1 .. size[l] : Chain(l)[i] \in CellsOf(l)
                      /\ Cardinality(CellsOf(l)) = size[l]
                      /\ size[l] = 0 => first[l] = Null /\ last[l] = Null
                      /\ size[l] > 0 => /\ prev[first[l]] = Null
                                        /\ last[l] = Chain(l)[size[l]] /\ next[last[l]] = Null
                      /\ \A i \in 2 .. size[l] : prev[Chain(l)[i]] = Chain(l)[i - 1]
    BY DEF Linked
  <2>1. PICK n, s : n = size[l] /\ n \in Nat /\ IsChain(l, s)
    BY DEF IInv, ChainInv, ChainTypes
  <2>2. Chain(l) = s
    BY <2>1, ChainIs
  <2>3. Cardinality(CellsOf(l)) = n
    <3>1. /\ s \in [1 .. n -> CellsOf(l)]
          /\ \A i, j \in 1 .. n : s[i] = s[j] => i = j
          /\ \A c \in CellsOf(l) : \E i \in 1 .. n : s[i] = c
      BY <2>1 DEF IsChain, CellsOf
    <3>2. ExistsBijection(1 .. n, CellsOf(l))
      BY <3>1 DEF ExistsBijection, Bijection, Injection, Surjection, IsInjective
    <3> QED BY <2>1, <3>2, FS_CountingElements
  <2>4. \A i \in 1 .. n : s[i] \in CellsOf(l)
    BY <2>1 DEF IsChain, CellsOf
  <2>5. /\ n = 0 => first[l] = Null /\ last[l] = Null
        /\ n > 0 => prev[first[l]] = Null /\ last[l] = s[n] /\ next[last[l]] = Null
    BY <2>1 DEF IsChain
  <2>6. \A i \in 2 .. n : prev[s[i]] = s[i - 1]
    BY <2>1 DEF IsChain
  <2> QED BY <2>1, <2>2, <2>3, <2>4, <2>5, <2>6
<1> QED BY <1>1, Invariance, PTL

-----------------------------------------------------------------------------
(* Lists are sequences.                                                        *)

\* Content is the objects of the chain, in any state.
ContentAgrees ==
  ChainInv /\ ObjectInv =>
    \A l \in Lists : \A s : IsChain(l, s) =>
      /\ size[l] \in Nat /\ Content(l) = [i \in 1 .. size[l] |-> data[s[i]]]
      /\ \A i \in 1 .. size[l] : data[s[i]] \in Objects

LEMMA ContentAgreesAlways == ContentAgrees
BY ContentIs DEF ContentAgrees

LEMMA ContentNext == ContentAgrees'
BY ContentAgreesAlways, PTL

\* InsertAt and RemoveAt, place by place.
Removed(q, n, k) == [i \in 1 .. n - 1 |-> IF i < k THEN q[i] ELSE q[i + 1]]
Inserted(q, n, k, e) ==
  [i \in 1 .. n + 1 |-> IF i < k THEN q[i] ELSE IF i = k THEN e ELSE q[i - 1]]

Joint(a, b, j, m) == [i \in 1 .. j + m |-> IF i <= j THEN a[i] ELSE b[i - j]]

LEMMA Joined ==
  ASSUME NEW S, NEW a \in Seq(S), NEW b \in Seq(S), NEW j \in Nat, NEW m \in Nat,
         Len(a) = j, Len(b) = m
  PROVE  a \o b = Joint(a, b, j, m)
<1>1. PICK d : d = a \o b
  OBVIOUS
<1>2. /\ d \in Seq(S) /\ Len(d) = j + m
      /\ \A i \in 1 .. j + m : d[i] = IF i <= j THEN a[i] ELSE b[i - j]
  BY <1>1, ConcatProperties
<1>3. d \in [1 .. j + m -> S]
  BY <1>2, LenProperties
<1> QED BY <1>1, <1>2, <1>3 DEF Joint

LEMMA InsertIs ==
  ASSUME NEW S, NEW q \in Seq(S), NEW n \in Nat, n = Len(q), NEW k \in 1 .. n + 1, NEW e \in S
  PROVE  Service!InsertAt(q, k, e) = Inserted(q, n, k, e)
<1> DEFINE a == SubSeq(q, 1, k - 1)
           b == SubSeq(q, k, n)
<1>1. /\ a \in Seq(S) /\ Len(a) = k - 1 /\ \A i \in 1 .. k - 1 : a[i] = q[i]
      /\ b \in Seq(S) /\ Len(b) = n - k + 1 /\ \A i \in 1 .. n - k + 1 : b[i] = q[k + i - 1]
  OBVIOUS
<1>2. Service!InsertAt(q, k, e) = a \o <<e>> \o b
  BY DEF Service!InsertAt
<1> HIDE DEF a, b
<1>3. /\ a \o <<e>> \in Seq(S) /\ Len(a \o <<e>>) = k
      /\ \A i \in 1 .. k : (a \o <<e>>)[i] = IF i < k THEN a[i] ELSE e
  BY <1>1
<1>4. PICK d : d = a \o <<e>>
  OBVIOUS
<1>5. d \o b = [i \in 1 .. n + 1 |-> IF i <= k THEN d[i] ELSE b[i - k]]
  <2>1. PICK m \in Nat : m = n - k + 1
    OBVIOUS
  <2>2. d \in Seq(S) /\ Len(d) = k /\ b \in Seq(S) /\ Len(b) = m /\ k \in Nat
    BY <1>1, <1>3, <1>4, <2>1
  <2>3. d \o b = Joint(d, b, k, m)
    BY <2>2, Joined
  <2>4. k + m = n + 1
    BY <2>1
  <2> QED BY <2>3, <2>4 DEF Joint
<1>6. ASSUME NEW i \in 1 .. n + 1
      PROVE  (IF i <= k THEN d[i] ELSE b[i - k])
             = (IF i < k THEN q[i] ELSE IF i = k THEN e ELSE q[i - 1])
  <2>1. CASE i <= k
    BY <1>1, <1>3, <1>4, <2>1
  <2>2. CASE i > k
    <3>1. i - k \in 1 .. n - k + 1 /\ k + (i - k) - 1 = i - 1
      BY <2>2
    <3> QED BY <1>1, <2>2, <3>1
  <2> QED BY <2>1, <2>2
<1> QED BY <1>2, <1>4, <1>5, <1>6 DEF Inserted

LEMMA RemoveIs ==
  ASSUME NEW S, NEW q \in Seq(S), NEW n \in Nat, n = Len(q), NEW k \in 1 .. n
  PROVE  Service!RemoveAt(q, k) = Removed(q, n, k)
<1>0. PICK j \in Nat, m \in Nat : j = k - 1 /\ m = n - k
  <2>1. k - 1 \in Nat /\ n - k \in Nat
    OBVIOUS
  <2> QED BY <2>1
<1>1. PICK a, b : a = SubSeq(q, 1, k - 1) /\ b = SubSeq(q, k + 1, n)
  OBVIOUS
<1>2. /\ a \in Seq(S) /\ Len(a) = j /\ \A i \in 1 .. j : a[i] = q[i]
      /\ b \in Seq(S) /\ Len(b) = m /\ \A i \in 1 .. m : b[i] = q[k + i]
  <2> DEFINE c == SubSeq(q, 1, k - 1)
             d == SubSeq(q, k + 1, n)
  <2>1. c \in Seq(S) /\ Len(c) = k - 1 /\ \A i \in 1 .. k - 1 : c[i] = q[i]
    OBVIOUS
  <2>2. d \in Seq(S) /\ Len(d) = n - k /\ \A i \in 1 .. n - k : d[i] = q[k + i]
    OBVIOUS
  <2> QED BY <1>0, <1>1, <2>1, <2>2
<1>3. Service!RemoveAt(q, k) = a \o b
  BY <1>1 DEF Service!RemoveAt
<1>4. a \o b = [i \in 1 .. j + m |-> IF i <= j THEN a[i] ELSE b[i - j]]
  <2>1. a \o b = Joint(a, b, j, m)
    BY <1>2, Joined
  <2> QED BY <2>1 DEF Joint
<1>5. ASSUME NEW i \in 1 .. n - 1
      PROVE  (IF i <= j THEN a[i] ELSE b[i - j]) = (IF i < k THEN q[i] ELSE q[i + 1])
  <2>1. CASE i < k
    BY <1>0, <1>2, <2>1
  <2>2. CASE i >= k
    <3>1. i - j \in 1 .. m /\ k + (i - j) = i + 1
      BY <1>0, <2>2
    <3> QED BY <1>0, <1>2, <2>2, <3>1
  <2> QED BY <2>1, <2>2
<1>6. j + m = n - 1
  BY <1>0
<1> QED BY <1>3, <1>4, <1>5, <1>6 DEF Removed

\* The lists a step does not touch hold what they held.
LEMMA OthersContent ==
  ASSUME ChainInv, ObjectInv, ChainInv', ObjectInv', NEW l, Keeps(l), NEW h \in Lists, h # l
  PROVE  Content(h)' = Content(h)
<1>1. PICK n, q : n = size[h] /\ IsChain(h, q)
  BY DEF ChainInv
<1>2. n \in Nat /\ Content(h) = [i \in 1 .. n |-> data[q[i]]]
  BY <1>1, ContentAgreesAlways DEF ContentAgrees
<1>3. IsChain(h, q)' /\ size'[h] = n
  BY <1>1 DEF Keeps
<1>4. Content(h)' = [i \in 1 .. n |-> data'[q[i]]]
  <2>1. (\A x \in Lists : \A s : IsChain(x, s) => Content(x) = [i \in 1 .. size[x] |-> data[s[i]]])'
    BY ContentNext DEF ContentAgrees
  <2>2. Content(h)' = [i \in 1 .. size[h] |-> data[q[i]]]'
    BY <1>3, <2>1
  <2> QED BY <1>3, <2>2
<1>5. \A i \in 1 .. n : data'[q[i]] = data[q[i]]
  <2>1. \A i \in 1 .. n : q[i] \in Cells /\ home[q[i]] = h
    BY <1>1 DEF IsChain
  <2> QED BY <2>1, NullAssumption DEF Keeps
<1> QED BY <1>2, <1>4, <1>5

\* The content of a list after a step, by its chain then.
LEMMA ContentThen ==
  ASSUME ChainInv', ObjectInv', NEW l \in Lists, NEW r, IsChain(l, r)', NEW n, n = size'[l]
  PROVE  Content(l)' = [i \in 1 .. n |-> data'[r[i]]] /\ n \in Nat
<1>1. (\A x \in Lists : \A s : IsChain(x, s) =>
          size[x] \in Nat /\ Content(x) = [i \in 1 .. size[x] |-> data[s[i]]])'
  BY ContentNext DEF ContentAgrees
<1>2. (size[l] \in Nat /\ Content(l) = [i \in 1 .. size[l] |-> data[r[i]]])'
  BY <1>1
<1> QED BY <1>2

\* The abstract state.
Bar == [l \in Lists |-> Content(l)]

\* The content of one list changes.
LEMMA BarChanges ==
  ASSUME ChainInv, ObjectInv, ChainInv', ObjectInv', NEW l \in Lists, Keeps(l),
         NEW v, v = Content(l)'
  PROVE  Bar' = [Bar EXCEPT ![l] = v]
<1>1. \A h \in Lists : h # l => Content(h)' = Content(h)
  BY OthersContent
<1> QED BY <1>1 DEF Bar

LEMMA GrowsIsInsert ==
  ASSUME ChainInv, ObjectInv, ChainInv', ObjectInv', NEW l \in Lists, Grows(l)
  PROVE  Service!Next
<1>1. PICK s, n : n = size[l] /\ \E k \in 1 .. n + 1, c \in Cells, o \in Objects :
        /\ IsChain(l, s) /\ IsChain(l, Put(s, n, k, c))' /\ size'[l] = n + 1
        /\ home[c] = Null /\ data'[c] = o /\ \A d \in Cells : d # c => data'[d] = data[d]
        /\ Keeps(l)
  BY DEF Grows
<1>2. PICK k \in 1 .. n + 1, c \in Cells, o \in Objects :
        /\ IsChain(l, s) /\ IsChain(l, Put(s, n, k, c))' /\ size'[l] = n + 1
        /\ home[c] = Null /\ data'[c] = o /\ \A d \in Cells : d # c => data'[d] = data[d]
        /\ Keeps(l)
  BY <1>1
<1>3. PICK q : q = Content(l)
  OBVIOUS
<1>4. /\ n \in Nat /\ q = [i \in 1 .. n |-> data[s[i]]]
      /\ q \in Seq(Objects) /\ Len(q) = n
  BY <1>1, <1>2, <1>3, ContentIs
<1>5. PICK r : r = Put(s, n, k, c)
  OBVIOUS
<1>6. Content(l)' = [i \in 1 .. n + 1 |-> data'[r[i]]]
  BY <1>2, <1>5, ContentThen
<1>7. [i \in 1 .. n + 1 |-> data'[r[i]]]
      = [i \in 1 .. n + 1 |-> IF i < k THEN q[i] ELSE IF i = k THEN o ELSE q[i - 1]]
  <2>1. \A i \in 1 .. n : s[i] \in Cells /\ s[i] # c
    <3>1. IsChain(l, s) /\ home[c] = Null /\ l # Null /\ n = size[l]
      BY <1>1, <1>2, NullAssumption
    <3> QED BY <3>1 DEF IsChain
  <2>2. \A i \in 1 .. n : data'[s[i]] = q[i]
    BY <1>2, <1>4, <2>1
  <2>3. ASSUME NEW i \in 1 .. n + 1
        PROVE  data'[r[i]] = IF i < k THEN q[i] ELSE IF i = k THEN o ELSE q[i - 1]
    <3>1. r[i] = IF i < k THEN s[i] ELSE IF i = k THEN c ELSE s[i - 1]
      BY <1>5 DEF Put
    <3>2. (i < k => i \in 1 .. n) /\ (i > k => i - 1 \in 1 .. n)
      BY <1>4
    <3> QED BY <1>2, <2>2, <3>1, <3>2
  <2> QED BY <2>3
<1>8. Content(l)' = Service!InsertAt(q, k, o)
  <2>1. Service!InsertAt(q, k, o) = Inserted(q, n, k, o)
    BY <1>4, InsertIs
  <2> QED BY <1>6, <1>7, <2>1 DEF Inserted
<1>9. Service!Insert(l, k, o)
  <2>1. Bar' = [Bar EXCEPT ![l] = Service!InsertAt(q, k, o)]
    BY <1>2, <1>8, BarChanges
  <2>2. Bar[l] = q
    BY <1>3 DEF Bar
  <2>3. Bar' = [Bar EXCEPT ![l] = Service!InsertAt(Bar[l], k, o)]
    BY <2>1, <2>2
  <2> QED BY <2>3 DEF Service!Insert, Bar
<1>10. k \in 1 .. Len([x \in Lists |-> Content(x)][l]) + 1
  BY <1>3, <1>4
<1> QED BY <1>9, <1>10 DEF Service!Next

LEMMA ShrinksIsTake ==
  ASSUME ChainInv, ObjectInv, ChainInv', ObjectInv', NEW l \in Lists, Shrinks(l)
  PROVE  Service!Next
<1>1. PICK s, n : n = size[l] /\ \E k \in 1 .. n :
        /\ IsChain(l, s) /\ IsChain(l, Out(s, n, k))' /\ size'[l] = n - 1
        /\ \A d \in Cells : d # s[k] => data'[d] = data[d]
        /\ Keeps(l)
  BY DEF Shrinks
<1>2. PICK k \in 1 .. n :
        /\ IsChain(l, s) /\ IsChain(l, Out(s, n, k))' /\ size'[l] = n - 1
        /\ \A d \in Cells : d # s[k] => data'[d] = data[d]
        /\ Keeps(l)
  BY <1>1
<1>3. PICK q : q = Content(l)
  OBVIOUS
<1>4. /\ n \in Nat /\ q = [i \in 1 .. n |-> data[s[i]]]
      /\ q \in Seq(Objects) /\ Len(q) = n
  BY <1>1, <1>2, <1>3, ContentIs
<1>5. PICK r : r = Out(s, n, k)
  OBVIOUS
<1>6. Content(l)' = [i \in 1 .. n - 1 |-> data'[r[i]]]
  BY <1>2, <1>5, ContentThen
<1>7. [i \in 1 .. n - 1 |-> data'[r[i]]]
      = [i \in 1 .. n - 1 |-> IF i < k THEN q[i] ELSE q[i + 1]]
  <2>1. \A i \in 1 .. n : s[i] \in Cells /\ (s[i] = s[k] => i = k)
    BY <1>1, <1>2 DEF IsChain
  <2>2. \A i \in 1 .. n : i # k => data'[s[i]] = q[i]
    BY <1>2, <1>4, <2>1
  <2>3. ASSUME NEW i \in 1 .. n - 1
        PROVE  data'[r[i]] = IF i < k THEN q[i] ELSE q[i + 1]
    <3>1. r[i] = IF i < k THEN s[i] ELSE s[i + 1]
      BY <1>5 DEF Out
    <3>2. i \in 1 .. n /\ i + 1 \in 1 .. n /\ (i < k => i # k) /\ (~(i < k) => i + 1 # k)
      BY <1>4
    <3> QED BY <2>2, <3>1, <3>2
  <2> QED BY <2>3
<1>8. Content(l)' = Service!RemoveAt(q, k)
  <2>1. Service!RemoveAt(q, k) = Removed(q, n, k)
    BY <1>4, RemoveIs
  <2> QED BY <1>6, <1>7, <2>1 DEF Removed
<1>9. Service!Take(l, k)
  <2>1. Bar' = [Bar EXCEPT ![l] = Service!RemoveAt(q, k)]
    BY <1>2, <1>8, BarChanges
  <2>2. Bar[l] = q
    BY <1>3 DEF Bar
  <2>3. Bar' = [Bar EXCEPT ![l] = Service!RemoveAt(Bar[l], k)]
    BY <2>1, <2>2
  <2> QED BY <2>3 DEF Service!Take, Bar
<1>10. k \in 1 .. Len([x \in Lists |-> Content(x)][l])
  BY <1>3, <1>4
<1> QED BY <1>9, <1>10 DEF Service!Next

LEMMA TurnsIsTurn ==
  ASSUME ChainInv, ObjectInv, ChainInv', ObjectInv', NEW l \in Lists, Turns(l)
  PROVE  Service!Next
<1>1. PICK s, n : /\ n = size[l] /\ IsChain(l, s) /\ IsChain(l, Turned(s, n))' /\ size'[l] = n
                  /\ data' = data /\ Keeps(l)
  BY DEF Turns
<1>3. PICK q : q = Content(l)
  OBVIOUS
<1>4. /\ n \in Nat /\ q = [i \in 1 .. n |-> data[s[i]]] /\ Len(q) = n
  BY <1>1, <1>3, ContentIs
<1>5. PICK r : r = Turned(s, n)
  OBVIOUS
<1>6. Content(l)' = [i \in 1 .. n |-> data[r[i]]]
  BY <1>1, <1>5, ContentThen
<1>7. \A i \in 1 .. n : data[r[i]] = q[(n - i) + 1]
  <2> SUFFICES ASSUME NEW i \in 1 .. n PROVE data[r[i]] = q[(n - i) + 1]
    OBVIOUS
  <2>1. n + 1 - i \in 1 .. n /\ (n - i) + 1 = n + 1 - i
    BY <1>4
  <2>2. r[i] = s[n + 1 - i]
    BY <1>5 DEF Turned
  <2> QED BY <1>4, <2>1, <2>2
<1>8. Content(l)' = Service!Reverse(q)
  BY <1>4, <1>6, <1>7 DEF Service!Reverse
<1>9. Service!Turn(l)
  <2>1. Bar' = [Bar EXCEPT ![l] = Service!Reverse(q)]
    BY <1>1, <1>8, BarChanges
  <2>2. Bar[l] = q
    BY <1>3 DEF Bar
  <2>3. Bar' = [Bar EXCEPT ![l] = Service!Reverse(Bar[l])]
    BY <2>1, <2>2
  <2> QED BY <2>3 DEF Service!Turn, Bar
<1> QED BY <1>9 DEF Service!Next

LEMMA SameChains ==
  ASSUME ChainInv, ObjectInv, ChainInv', ObjectInv', UNCHANGED chains
  PROVE  Bar' = Bar
<1>1. Keeps(Null)
  BY ChainsAlone
<1>2. \A h \in Lists : h # Null
  BY NullAssumption
<1>3. \A h \in Lists : Content(h)' = Content(h)
  BY <1>1, <1>2, OthersContent
<1> QED BY <1>3 DEF Bar

\* What a step does to the lists: one of them changes, or none.
LEMMA StepShape ==
  ASSUME IInv, [Next]_vars
  PROVE  \/ \E l \in Lists : Grows(l) \/ Shrinks(l) \/ Turns(l)
         \/ UNCHANGED chains
<1>1. CASE \E t \in Threads, o \in Objects : New(t, o) \/ Drop(t, o)
  BY <1>1, Zenon DEF New, Drop
<1>2. CASE \E t \in Threads, l \in Lists, o \in Objects, c \in Cells :
             AppendTo(t, l, o, c) \/ Prepend(t, l, o, c)
  BY <1>2, AppendStep, PrependStep
<1>3. CASE \E t \in Threads, l \in Lists : Pop(t, l) \/ Turn(t, l)
  BY <1>3, PopStep, TurnStep
<1>4. CASE \E t \in Threads, l \in Lists : Destroy(t, l) \/ Nth(t, l) \/ IteratorGet(t, l)
  BY <1>4, Zenon DEF Destroy, Nth, IteratorGet
<1>5. CASE \E t \in Threads, l, m \in Lists : Merge(t, l, m)
  BY <1>5, Zenon DEF Merge
<1>6. CASE \E t \in Threads : DestroyLast(t) \/ \E c \in Cells : MergeAdd(t, c)
  BY <1>6, DestroyLastStep, MergeAddStep
<1>7. CASE \E t \in Threads : \/ MergeLock(t) \/ MergeFails(t) \/ MergeReturns(t)
                              \/ NthSize(t) \/ Destroyed(t) \/ Test(t)
  BY <1>7, Zenon DEF MergeLock, MergeFails, MergeReturns, NthSize, Destroyed, Test
<1>8. CASE IteratorNext
  BY <1>8, Zenon DEF IteratorNext
<1>9. CASE IteratorUnlink
  BY <1>9, UnlinkStep
<1>10. CASE \E o \in Objects, c \in Cells : InsertBefore(o, c) \/ InsertAfter(o, c)
  BY <1>10, BeforeStep, AfterStep
<1>11. CASE UNCHANGED vars
  BY <1>11, Zenon DEF vars
<1> QED BY <1>1, <1>2, <1>3, <1>4, <1>5, <1>6, <1>7, <1>8, <1>9, <1>10, <1>11 DEF Next, Progress

\* Seen as the sequences of their objects, lists only ever have one object put in
\* at some place, one taken out, or are turned round: List implements ListService.
THEOREM ListsAreSequences == Spec => ListSpec
<1>1. Init => Service!Init
  <2> SUFFICES ASSUME Init PROVE \A l \in Lists : Content(l) = <<>>
    BY DEF Service!Init
  <2> TAKE l \in Lists
  <2>1. size[l] = 0
    BY DEF Init
  <2>2. Content(l) = [i \in 1 .. 0 |-> IF Chain(l)[i] = Null THEN Null ELSE data[Chain(l)[i]]]
    BY <2>1 DEF Content
  <2> QED BY <2>2
<1>2. IInv /\ IInv' /\ [Next]_vars => [Service!Next]_Bar
  <2> SUFFICES ASSUME IInv, IInv', [Next]_vars PROVE [Service!Next]_Bar
    OBVIOUS
  <2>1. ChainInv /\ ObjectInv /\ ChainInv' /\ ObjectInv'
    BY DEF IInv
  <2>2. CASE \E l \in Lists : Grows(l) \/ Shrinks(l) \/ Turns(l)
    BY <2>1, <2>2, GrowsIsInsert, ShrinksIsTake, TurnsIsTurn
  <2>3. CASE UNCHANGED chains
    BY <2>1, <2>3, SameChains
  <2> QED BY <2>2, <2>3, StepShape
<1>3. Bar = [l \in Lists |-> Content(l)]
  BY DEF Bar
<1> QED BY <1>1, <1>2, Invariance, PTL DEF Spec, ListSpec, Service!Spec, Bar

=============================================================================
