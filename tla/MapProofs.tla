------------------------------ MODULE MapProofs ------------------------------
(***************************************************************************)
(* Proofs about MapHashTable, for any keys, hash values, objects and table *)
(* sizes.                                                                  *)
(***************************************************************************)
EXTENDS MapHashTable, Counts, FiniteSetTheorems, SequenceTheorems, TLAPS

\* In a table t of 2^n buckets every element is in the bucket of its key, once.
ChainsOK(t, n) ==
  /\ t \in [0 .. 2^n - 1 -> Seq(Keys)]
  /\ \A b \in 0 .. 2^n - 1 : \A i \in 1 .. Len(t[b]) : Hash[t[b][i]] % 2^n = b
  /\ \A b \in 0 .. 2^n - 1 : \A i, j \in 1 .. Len(t[b]) : t[b][i] = t[b][j] => i = j

TableInv ==
  /\ logsize \in 0 .. MaxLogsize /\ apos \in 0 .. Size - 1
  /\ ChainsOK(table, logsize)

Havers(o) == {k \in Elements : data[k] = o}

\* The table counts its elements, each object counts the elements that have it,
\* and an object is either the application's or some element has it.
ObjectInv ==
  /\ IsFiniteSet(Elements) /\ count = Cardinality(Elements)
  /\ data \in [Keys -> Objects \cup {Null}] /\ ref \in [Objects -> Nat]
  /\ hand \subseteq alive /\ alive \subseteq Objects
  /\ \A k \in Elements : data[k] \in alive \ hand
  /\ \A o \in alive : /\ ref[o] = Cardinality(Havers(o))
                      /\ o \in hand \/ \E k \in Elements : data[k] = o

\* k comes after j when the table is walked over.
Follows(k, j) ==
  \/ Bucket(k) > Bucket(j)
  \/ Bucket(k) = Bucket(j) /\ Place(k) > Place(j)

\* A walk that comes to k next has still to come to what is due, and has been at
\* nothing that comes later.
Coming(k) ==
  /\ k \in Elements \ seen
  /\ \A j \in due : j = k \/ Follows(j, k)
  /\ \A j \in Elements : Follows(j, k) => j \notin seen
  /\ \A j \in seen : Bucket(j) <= Bucket(k)

\* A walk that has to search bucket b, or what is behind it, for the next element.
Searching(b) ==
  /\ \A j \in due : Bucket(j) >= b
  /\ \A j \in Elements : Bucket(j) >= b => j \notin seen
  /\ \A j \in seen : Bucket(j) < b

WalkInv ==
  /\ itr \in Iterator /\ seen \subseteq Keys /\ due \subseteq Elements
  /\ itr.at \in {"none", "destroy"} => due = {} /\ seen = {}
  /\ itr.at \in {"rest", "scan", "read"} /\ itr.current \in Keys =>
       itr.current \in Elements \cap seen
  /\ itr.at = "rest" => IF itr.next = Null THEN due = {} ELSE Coming(itr.next)
  /\ itr.at = "scan" => itr.next = Null /\ Searching(apos + 1)
  /\ itr.at = "read" => itr.next = Null /\ Searching(apos) /\ table[apos] # <<>>
  /\ itr.at = "destroy" =>
       IF itr.next = Null THEN Elements = {}
       ELSE itr.next \in Elements /\ \A j \in Elements : j = itr.next \/ Follows(j, itr.next)

IInv == TableInv /\ ObjectInv /\ WalkInv
-----------------------------------------------------------------------------
(* Numbers and sequences.                                                      *)

LEMMA Powers ==
  ASSUME NEW n \in Nat
  PROVE  2^n \in Nat \ {0} /\ n <= 2^n
<1> DEFINE S == SUBSET (1 .. n)
           f == [i \in 1 .. n |-> {i}]
<1>1. IsFiniteSet(1 .. n) /\ Cardinality(1 .. n) = n
  BY FS_Interval
<1>2. IsFiniteSet(S) /\ Cardinality(S) = 2^n
  BY <1>1, FS_SUBSET
<1>3. 2^n \in Nat
  BY <1>2, FS_CardinalityType
<1>4. {} \in S
  OBVIOUS
<1>5. Cardinality(S) # 0
  BY <1>2, <1>4, FS_EmptySet
<1>6. 2^n # 0
  BY <1>5, <1>2
<1>7. f \in [1 .. n -> S]
  OBVIOUS
<1>8. \A i, j \in 1 .. n : f[i] = f[j] => i = j
  OBVIOUS
<1>9. f \in Injection(1 .. n, S)
  BY <1>7, <1>8 DEF Injection, IsInjective
<1>10. n <= 2^n
  BY <1>1, <1>2, <1>9, FS_Injection
<1> QED BY <1>3, <1>6, <1>10

\* The bucket of a hash value is a bucket of the table.
LEMMA InRange ==
  ASSUME NEW n \in Nat, NEW k \in Keys
  PROVE  Hash[k] % 2^n \in 0 .. 2^n - 1
<1>1. PICK s \in Nat \ {0} : s = 2^n
  BY Powers
<1>2. Hash[k] \in Nat
  BY HashAssumption
<1>3. Hash[k] % s \in 0 .. s - 1
  BY <1>1, <1>2
<1> QED BY <1>1, <1>3

\* One element taken out of a sequence.
LEMMA Without ==
  ASSUME NEW S, NEW s \in Seq(S), NEW i \in 1 .. Len(s)
  PROVE  /\ RemoveAt(s, i) \in Seq(S) /\ Len(RemoveAt(s, i)) = Len(s) - 1
         /\ \A j \in 1 .. Len(s) - 1 : RemoveAt(s, i)[j] = IF j < i THEN s[j] ELSE s[j + 1]
<1> DEFINE a == SubSeq(s, 1, i - 1)
           b == SubSeq(s, i + 1, Len(s))
<1>1. a \in Seq(S) /\ Len(a) = i - 1 /\ \A j \in 1 .. i - 1 : a[j] = s[j]
  OBVIOUS
<1>2. b \in Seq(S) /\ Len(b) = Len(s) - i /\ \A j \in 1 .. Len(s) - i : b[j] = s[i + j]
  OBVIOUS
<1>3. RemoveAt(s, i) = a \o b
  BY DEF RemoveAt
<1> HIDE DEF a, b
<1> QED BY <1>1, <1>2, <1>3

\* One element put before a sequence.
LEMMA Before ==
  ASSUME NEW S, NEW s \in Seq(S), NEW k \in S
  PROVE  /\ <<k>> \o s \in Seq(S) /\ Len(<<k>> \o s) = Len(s) + 1
         /\ (<<k>> \o s)[1] = k
         /\ \A j \in 2 .. Len(s) + 1 : (<<k>> \o s)[j] = s[j - 1]
OBVIOUS

-----------------------------------------------------------------------------
(* Elements, their buckets and their places.                                   *)

Has(t, n, k) == \E i \in 1 .. Len(t[Hash[k] % 2^n]) : t[Hash[k] % 2^n][i] = k

\* The types of what the table holds.
LEMMA Chains ==
  ASSUME TableInv
  PROVE  /\ logsize \in Nat /\ Size \in Nat \ {0} /\ Size = 2^logsize
         /\ table \in [0 .. Size - 1 -> Seq(Keys)]
         /\ DOMAIN table = 0 .. Size - 1
         /\ \A b \in 0 .. Size - 1 : table[b] \in Seq(Keys) /\ Len(table[b]) \in Nat
         /\ \A b \in 0 .. Size - 1 : \A i \in 1 .. Len(table[b]) :
              table[b][i] \in Keys /\ Bucket(table[b][i]) = b
<1>1. logsize \in Nat /\ Size = 2^logsize
  BY SizeAssumption DEF TableInv, Size
<1>2. Size \in Nat \ {0}
  BY <1>1, Powers
<1>3. table \in [0 .. Size - 1 -> Seq(Keys)]
  BY <1>1 DEF TableInv, ChainsOK
<1>4. \A b \in 0 .. Size - 1 : \A i \in 1 .. Len(table[b]) : Bucket(table[b][i]) = b
  BY <1>1 DEF TableInv, ChainsOK, Bucket, Size
<1> QED BY <1>1, <1>2, <1>3, <1>4

LEMMA BucketType ==
  ASSUME TableInv, NEW k \in Keys
  PROVE  Bucket(k) \in 0 .. Size - 1 /\ Bucket(k) \in Nat
<1>1. Bucket(k) \in 0 .. Size - 1
  BY Chains, InRange DEF Bucket, Size
<1> QED BY <1>1, Chains

\* An element is at its place in the chain of its bucket, and nowhere else.
LEMMA PlaceIs ==
  ASSUME TableInv, NEW b \in 0 .. Size - 1, NEW i \in 1 .. Len(table[b])
  PROVE  /\ table[b][i] \in Elements /\ table[b][i] \in Keys
         /\ Bucket(table[b][i]) = b /\ Place(table[b][i]) = i
<1>1. PICK k : k = table[b][i]
  OBVIOUS
<1>2. /\ k \in Keys /\ Bucket(k) = b /\ DOMAIN table = 0 .. Size - 1
      /\ table[b] \in Seq(Keys)
  BY <1>1, Chains
<1>3. DOMAIN table[b] = 1 .. Len(table[b])
  BY <1>2
<1>4. k \in ToSet(table[b])
  BY <1>1, <1>3 DEF ToSet
<1>5. k \in Elements
  BY <1>2, <1>4 DEF Elements
<1>6. \A j \in 1 .. Len(table[b]) : table[b][j] = k => j = i
  BY <1>1 DEF TableInv, ChainsOK, Size
<1>7. Place(k) = i
  BY <1>1, <1>2, <1>3, <1>6 DEF Place
<1> QED BY <1>1, <1>2, <1>5, <1>7

LEMMA ElementAt ==
  ASSUME TableInv, NEW k \in Elements
  PROVE  /\ k \in Keys /\ Bucket(k) \in 0 .. Size - 1
         /\ Place(k) \in 1 .. Len(table[Bucket(k)]) /\ table[Bucket(k)][Place(k)] = k
<1>1. PICK b \in 0 .. Size - 1 : k \in ToSet(table[b])
  BY Chains DEF Elements
<1>2. DOMAIN table[b] = 1 .. Len(table[b])
  BY Chains
<1>3. PICK i \in 1 .. Len(table[b]) : k = table[b][i]
  BY <1>1, <1>2 DEF ToSet
<1>4. k \in Keys /\ Bucket(k) = b /\ Place(k) = i
  BY <1>3, PlaceIs
<1> QED BY <1>3, <1>4

\* A look-up finds the elements.
LEMMA FoundIs ==
  ASSUME TableInv, NEW k \in Keys
  PROVE  Found(k) <=> k \in Elements
<1>1. ASSUME Found(k) PROVE k \in Elements
  <2>1. Bucket(k) \in DOMAIN table
    BY BucketType, Chains
  <2> QED BY <1>1, <2>1 DEF Found, Elements
<1>2. ASSUME k \in Elements PROVE Found(k)
  <2>1. DOMAIN table[Bucket(k)] = 1 .. Len(table[Bucket(k)])
    BY <1>2, ElementAt, Chains
  <2> QED BY <1>2, <2>1, ElementAt DEF Found, ToSet
<1> QED BY <1>1, <1>2

LEMMA ElementsAre ==
  ASSUME TableInv
  PROVE  Elements = {k \in Keys : Has(table, logsize, k)}
<1>1. ASSUME NEW k \in Elements PROVE k \in Keys /\ Has(table, logsize, k)
  BY ElementAt DEF Has, Bucket, Size
<1>2. ASSUME NEW k \in Keys, Has(table, logsize, k) PROVE k \in Elements
  <2>1. PICK i \in 1 .. Len(table[Bucket(k)]) : table[Bucket(k)][i] = k
    BY <1>2 DEF Has, Bucket, Size
  <2> QED BY <2>1, BucketType, PlaceIs
<1> QED BY <1>1, <1>2

\* All of this, of the state and of the next one.
Positions ==
  /\ logsize \in Nat /\ Size \in Nat \ {0} /\ Size = 2^logsize
  /\ table \in [0 .. Size - 1 -> Seq(Keys)]
  /\ \A b \in 0 .. Size - 1 : table[b] \in Seq(Keys) /\ Len(table[b]) \in Nat
  /\ \A b \in 0 .. Size - 1 : \A i \in 1 .. Len(table[b]) :
       /\ table[b][i] \in Elements /\ table[b][i] \in Keys
       /\ Bucket(table[b][i]) = b /\ Place(table[b][i]) = i
  /\ \A k \in Elements :
       /\ k \in Keys /\ Bucket(k) \in 0 .. Size - 1
       /\ Place(k) \in 1 .. Len(table[Bucket(k)]) /\ table[Bucket(k)][Place(k)] = k
  /\ \A k \in Keys : Bucket(k) \in 0 .. Size - 1 /\ (Found(k) <=> k \in Elements)
  /\ Elements = {k \in Keys : Has(table, logsize, k)}

LEMMA PositionsHold == TableInv => Positions
<1> SUFFICES ASSUME TableInv PROVE Positions
  OBVIOUS
<1>1. /\ logsize \in Nat /\ Size \in Nat \ {0} /\ Size = 2^logsize
      /\ table \in [0 .. Size - 1 -> Seq(Keys)]
  BY Chains
<1>2. \A b \in 0 .. Size - 1 : table[b] \in Seq(Keys) /\ Len(table[b]) \in Nat
  BY Chains
<1>3. \A b \in 0 .. Size - 1 : \A i \in 1 .. Len(table[b]) :
       /\ table[b][i] \in Elements /\ table[b][i] \in Keys
       /\ Bucket(table[b][i]) = b /\ Place(table[b][i]) = i
  BY PlaceIs
<1>4. \A k \in Elements :
       /\ k \in Keys /\ Bucket(k) \in 0 .. Size - 1
       /\ Place(k) \in 1 .. Len(table[Bucket(k)]) /\ table[Bucket(k)][Place(k)] = k
  BY ElementAt
<1>5. \A k \in Keys : Bucket(k) \in 0 .. Size - 1 /\ (Found(k) <=> k \in Elements)
  BY BucketType, FoundIs
<1>6. Elements = {k \in Keys : Has(table, logsize, k)}
  BY ElementsAre
<1> QED BY <1>1, <1>2, <1>3, <1>4, <1>5, <1>6 DEF Positions

LEMMA PositionsHoldNext == TableInv' => Positions'
BY PositionsHold, PTL

-----------------------------------------------------------------------------
(* What an element less and an element more do to the table.                   *)

\* In a table of the same size the elements of S keep their order.
KeptOrder(S) ==
  /\ logsize' = logsize
  /\ \A j, k \in S : (Follows(j, k))' <=> Follows(j, k)

SameBuckets == \A k \in Keys : (Bucket(k))' = Bucket(k)

LEMMA BucketsKept ==
  ASSUME logsize' = logsize
  PROVE  SameBuckets /\ Size' = Size
BY DEF SameBuckets, Bucket, Size

\* Where j is when k has been taken out of the table.
PlaceWithout(j, k) ==
  IF Bucket(j) = Bucket(k) /\ Place(j) > Place(k) THEN Place(j) - 1 ELSE Place(j)

LEMMA Taken ==
  ASSUME TableInv, NEW k \in Elements,
         table' = [table EXCEPT ![Bucket(k)] = RemoveAt(@, Place(k))],
         logsize' = logsize, apos' = Bucket(k)
  PROVE  /\ TableInv'
         /\ \A j \in Elements \ {k} :
              /\ PlaceWithout(j, k) \in 1 .. Len(table'[Bucket(j)])
              /\ table'[Bucket(j)][PlaceWithout(j, k)] = j
         /\ \A b \in 0 .. Size - 1 : \A i \in 1 .. Len(table'[b]) : table'[b][i] \in Elements \ {k}
<1> USE PositionsHold
<1>1. PICK b, i, c : b = Bucket(k) /\ i = Place(k) /\ c = table[b]
  OBVIOUS
<1>2. /\ b \in 0 .. Size - 1 /\ i \in 1 .. Len(c) /\ c[i] = k /\ c \in Seq(Keys) /\ Len(c) \in Nat
  BY <1>1 DEF Positions
<1>3. PICK d : d = RemoveAt(c, i)
  OBVIOUS
<1>4. /\ d \in Seq(Keys) /\ Len(d) = Len(c) - 1
      /\ \A j \in 1 .. Len(c) - 1 : d[j] = IF j < i THEN c[j] ELSE c[j + 1]
  BY <1>2, <1>3, Without
<1>5. table \in [0 .. Size - 1 -> Seq(Keys)]
  BY DEF Positions
<1>6. /\ table' \in [0 .. Size - 1 -> Seq(Keys)]
      /\ table'[b] = d /\ \A e \in 0 .. Size - 1 : e # b => table'[e] = table[e]
  BY <1>1, <1>2, <1>3, <1>4, <1>5
<1>7. \A j \in 1 .. Len(c) : c[j] \in Elements /\ Bucket(c[j]) = b /\ Place(c[j]) = j
  BY <1>1, <1>2 DEF Positions
<1>8. \A j \in 1 .. Len(d) : \E h \in 1 .. Len(c) : h # i /\ d[j] = c[h]
                                                   /\ h = IF j < i THEN j ELSE j + 1
  <2> TAKE j \in 1 .. Len(d)
  <2>1. j \in 1 .. Len(c) /\ j + 1 \in 1 .. Len(c)
    BY <1>2, <1>4
  <2> QED BY <1>2, <1>4, <2>1
<1>9. \A e \in 0 .. Size - 1 : \A j \in 1 .. Len(table'[e]) :
        table'[e][j] \in Elements \ {k} /\ Bucket(table'[e][j]) = e
  <2> TAKE e \in 0 .. Size - 1
  <2> TAKE j \in 1 .. Len(table'[e])
  <2>1. CASE e = b
    <3>1. PICK h \in 1 .. Len(c) : h # i /\ d[j] = c[h]
      BY <1>6, <1>8, <2>1
    <3>2. c[h] \in Elements /\ Bucket(c[h]) = b /\ Place(c[h]) = h
      BY <1>7
    <3>3. c[h] # k
      BY <1>1, <3>1, <3>2
    <3> QED BY <1>6, <2>1, <3>1, <3>2, <3>3
  <2>2. CASE e # b
    <3>1. table'[e] = table[e]
      BY <1>6, <2>2
    <3>2. table[e][j] \in Elements /\ Bucket(table[e][j]) = e
      BY <3>1 DEF Positions
    <3> QED BY <1>1, <2>2, <3>1, <3>2
  <2> QED BY <2>1, <2>2
<1>10. \A e \in 0 .. Size - 1 : \A j, h \in 1 .. Len(table'[e]) : table'[e][j] = table'[e][h] => j = h
  <2> SUFFICES ASSUME NEW e \in 0 .. Size - 1, NEW j \in 1 .. Len(table'[e]),
                      NEW h \in 1 .. Len(table'[e]), table'[e][j] = table'[e][h]
               PROVE  j = h
    OBVIOUS
  <2>1. CASE e = b
    <3>1. PICK m \in 1 .. Len(c) : d[j] = c[m] /\ m = IF j < i THEN j ELSE j + 1
      BY <1>6, <1>8, <2>1
    <3>2. PICK n \in 1 .. Len(c) : d[h] = c[n] /\ n = IF h < i THEN h ELSE h + 1
      BY <1>6, <1>8, <2>1
    <3>3. m = n
      BY <1>6, <1>7, <2>1, <3>1, <3>2
    <3> QED BY <1>2, <3>1, <3>2, <3>3
  <2>2. CASE e # b
    <3>1. table'[e] = table[e]
      BY <1>6, <2>2
    <3>2. j \in 1 .. Len(table[e]) /\ h \in 1 .. Len(table[e]) /\ table[e][j] = table[e][h]
      BY <3>1
    <3>3. Place(table[e][j]) = j /\ Place(table[e][h]) = h
      BY <3>2 DEF Positions
    <3> QED BY <3>2, <3>3
  <2> QED BY <2>1, <2>2
<1>11. TableInv'
  <2>1. Size = 2^logsize /\ (2^logsize)' = 2^logsize /\ Size' = Size
    BY BucketsKept DEF Positions
  <2>2. \A e \in 0 .. 2^logsize - 1 : \A j \in 1 .. Len(table'[e]) : Hash[table'[e][j]] % 2^logsize = e
    BY <1>9, <2>1 DEF Bucket
  <2>3. ChainsOK(table', logsize)
    BY <1>6, <1>10, <2>1, <2>2 DEF ChainsOK
  <2>4. ChainsOK(table, logsize)'
    BY <2>3 DEF ChainsOK
  <2> QED BY <1>1, <1>2, <2>1, <2>4 DEF TableInv
<1>12. ASSUME NEW j \in Elements \ {k}
       PROVE  /\ PlaceWithout(j, k) \in 1 .. Len(table'[Bucket(j)])
              /\ table'[Bucket(j)][PlaceWithout(j, k)] = j
  <2>1. PICK e, h : e = Bucket(j) /\ h = Place(j)
    OBVIOUS
  <2>2. e \in 0 .. Size - 1 /\ h \in 1 .. Len(table[e]) /\ table[e][h] = j
    BY <2>1 DEF Positions
  <2>3. CASE e # b
    BY <1>1, <1>6, <2>1, <2>2, <2>3 DEF PlaceWithout
  <2>4. CASE e = b /\ h > i
    <3>1. h - 1 \in 1 .. Len(c) - 1 /\ ~(h - 1 < i) /\ (h - 1) + 1 = h
      BY <1>1, <1>2, <2>2, <2>4
    <3>2. d[h - 1] = j
      BY <1>1, <1>4, <2>2, <2>4, <3>1
    <3>3. PlaceWithout(j, k) = h - 1
      BY <1>1, <2>1, <2>4 DEF PlaceWithout
    <3> QED BY <1>4, <1>6, <2>1, <2>4, <3>1, <3>2, <3>3
  <2>5. CASE e = b /\ ~(h > i)
    <3>1. h # i
      BY <1>1, <1>2, <2>2, <2>5
    <3>2. h \in 1 .. Len(c) - 1 /\ h < i
      BY <1>1, <1>2, <2>2, <2>5, <3>1
    <3>3. d[h] = j
      BY <1>1, <1>4, <2>2, <2>5, <3>2
    <3>4. PlaceWithout(j, k) = h
      BY <1>1, <2>1, <2>5 DEF PlaceWithout
    <3> QED BY <1>4, <1>6, <2>1, <2>5, <3>2, <3>3, <3>4
  <2> QED BY <2>3, <2>4, <2>5
<1> QED BY <1>9, <1>11, <1>12

\* What Cut does: the element is gone, the others keep their order.
LEMMA TakenElements ==
  ASSUME TableInv, NEW k \in Elements,
         table' = [table EXCEPT ![Bucket(k)] = RemoveAt(@, Place(k))],
         logsize' = logsize, apos' = Bucket(k)
  PROVE  Elements' = Elements \ {k} /\ KeptOrder(Elements \ {k})
<1> USE PositionsHold
<1>1. Positions'
  BY Taken, PositionsHoldNext
<1>2. SameBuckets /\ Size' = Size
  BY BucketsKept
<1>3. ASSUME NEW j \in Elements \ {k}
      PROVE  j \in Elements' /\ (Place(j))' = PlaceWithout(j, k)
  <2>1. /\ PlaceWithout(j, k) \in 1 .. Len(table'[Bucket(j)])
        /\ table'[Bucket(j)][PlaceWithout(j, k)] = j
    BY Taken
  <2>2. Bucket(j) \in 0 .. Size - 1
    BY DEF Positions
  <2>3. PICK b, i : b = Bucket(j) /\ i = PlaceWithout(j, k)
    OBVIOUS
  <2>4. b \in (0 .. Size - 1)' /\ i \in (1 .. Len(table[b]))' /\ (table[b][i])' = j
    BY <1>2, <2>1, <2>2, <2>3
  <2>5. (table[b][i] \in Elements /\ Place(table[b][i]) = i)'
    BY <1>1, <2>4 DEF Positions
  <2> QED BY <2>3, <2>4, <2>5
<1>4. ASSUME NEW j \in Elements' PROVE j \in Elements \ {k}
  <2>1. PICK b, i : b = (Bucket(j))' /\ i = (Place(j))'
    OBVIOUS
  <2>2. b \in (0 .. Size - 1)' /\ i \in (1 .. Len(table[b]))' /\ (table[b][i])' = j
    BY <1>1, <2>1 DEF Positions
  <2>3. b \in 0 .. Size - 1 /\ i \in 1 .. Len(table'[b]) /\ table'[b][i] = j
    BY <1>2, <2>2
  <2> QED BY <2>3, Taken
<1>5. ASSUME NEW j \in Elements \ {k}, NEW h \in Elements \ {k}
      PROVE  (Follows(j, h))' <=> Follows(j, h)
  <2>1. /\ (Place(j))' = PlaceWithout(j, k) /\ (Place(h))' = PlaceWithout(h, k)
        /\ (Bucket(j))' = Bucket(j) /\ (Bucket(h))' = Bucket(h)
    BY <1>2, <1>3 DEF SameBuckets, Positions
  <2>2. \A x \in Elements : Place(x) \in Nat /\ Bucket(x) \in Nat
    BY DEF Positions
  <2>3. Bucket(j) = Bucket(k) => Place(j) # Place(k)
    BY DEF Positions
  <2>4. Bucket(h) = Bucket(k) => Place(h) # Place(k)
    BY DEF Positions
  <2>5. /\ Place(j) \in Nat /\ Place(h) \in Nat /\ Place(k) \in Nat
        /\ Bucket(j) \in Nat /\ Bucket(h) \in Nat /\ Bucket(k) \in Nat
    BY <2>2
  <2> QED BY <2>1, <2>3, <2>4, <2>5 DEF Follows, PlaceWithout
<1> QED BY <1>3, <1>4, <1>5 DEF KeptOrder

\* A key put at the head of the chain of its bucket.
PutFirst(t, b, k) == [t EXCEPT ![b] = <<k>> \o @]

LEMMA Pushed ==
  ASSUME NEW n \in Nat, NEW t, ChainsOK(t, n), NEW k \in Keys, ~Has(t, n, k),
         NEW r, r = PutFirst(t, Hash[k] % 2^n, k)
  PROVE  /\ ChainsOK(r, n)
         /\ \A j \in Keys : Has(r, n, j) <=> j = k \/ Has(t, n, j)
         /\ 1 \in 1 .. Len(r[Hash[k] % 2^n]) /\ r[Hash[k] % 2^n][1] = k
         /\ \A b \in 0 .. 2^n - 1 : \A i \in 1 .. Len(t[b]) :
              IF b = Hash[k] % 2^n THEN i + 1 \in 1 .. Len(r[b]) /\ r[b][i + 1] = t[b][i]
              ELSE i \in 1 .. Len(r[b]) /\ r[b][i] = t[b][i]
<1>1. PICK s, b, c, d : s = 2^n /\ b = Hash[k] % 2^n /\ c = t[b] /\ d = <<k>> \o c
  OBVIOUS
<1>2. /\ s \in Nat \ {0} /\ b \in 0 .. s - 1 /\ t \in [0 .. s - 1 -> Seq(Keys)]
      /\ c \in Seq(Keys) /\ Len(c) \in Nat
  BY <1>1, Powers, InRange DEF ChainsOK
<1>3. /\ d \in Seq(Keys) /\ Len(d) = Len(c) + 1 /\ d[1] = k
      /\ \A i \in 2 .. Len(c) + 1 : d[i] = c[i - 1]
  BY <1>1, <1>2, Before
<1>4. /\ r \in [0 .. s - 1 -> Seq(Keys)] /\ r[b] = d
      /\ \A e \in 0 .. s - 1 : e # b => r[e] = t[e]
  BY <1>1, <1>2, <1>3 DEF PutFirst
<1>5. \A e \in 0 .. s - 1 : \A i \in 1 .. Len(t[e]) : Hash[t[e][i]] % 2^n = e
  BY <1>1 DEF ChainsOK
<1>6. \A e \in 0 .. s - 1 : \A i, j \in 1 .. Len(t[e]) : t[e][i] = t[e][j] => i = j
  BY <1>1 DEF ChainsOK
<1>7. \A i \in 1 .. Len(c) : c[i] # k
  BY <1>1 DEF Has
<1>8. \A i \in 1 .. Len(c) : i + 1 \in 1 .. Len(d) /\ d[i + 1] = c[i]
  <2> TAKE i \in 1 .. Len(c)
  <2>1. i + 1 \in 2 .. Len(c) + 1 /\ i + 1 \in 1 .. Len(d) /\ (i + 1) - 1 = i
    BY <1>2, <1>3
  <2>2. d[i + 1] = c[(i + 1) - 1]
    BY <1>3, <2>1
  <2> QED BY <2>1, <2>2
<1>9. \A i \in 1 .. Len(d) : (i = 1 /\ d[i] = k) \/ (i - 1 \in 1 .. Len(c) /\ d[i] = c[i - 1])
  <2> TAKE i \in 1 .. Len(d)
  <2>1. i = 1 \/ (i \in 2 .. Len(c) + 1 /\ i - 1 \in 1 .. Len(c))
    BY <1>2, <1>3
  <2> QED BY <1>3, <2>1
<1>10. \A e \in 0 .. s - 1 : \A i \in 1 .. Len(r[e]) : Hash[r[e][i]] % 2^n = e
  <2> TAKE e \in 0 .. s - 1
  <2> TAKE i \in 1 .. Len(r[e])
  <2>1. CASE e = b
    <3>1. i \in 1 .. Len(d) /\ r[e][i] = d[i]
      BY <1>4, <2>1
    <3>2. d[i] = k \/ (i - 1 \in 1 .. Len(c) /\ d[i] = c[i - 1])
      BY <1>9, <3>1
    <3>3. i - 1 \in 1 .. Len(c) => Hash[c[i - 1]] % 2^n = e
      BY <1>1, <1>2, <1>5, <2>1
    <3> QED BY <1>1, <2>1, <3>1, <3>2, <3>3
  <2>2. CASE e # b
    BY <1>4, <1>5, <2>2
  <2> QED BY <2>1, <2>2
<1>11. \A e \in 0 .. s - 1 : \A i, j \in 1 .. Len(r[e]) : r[e][i] = r[e][j] => i = j
  <2> SUFFICES ASSUME NEW e \in 0 .. s - 1, NEW i \in 1 .. Len(r[e]), NEW j \in 1 .. Len(r[e]),
                      r[e][i] = r[e][j]
               PROVE  i = j
    OBVIOUS
  <2>1. CASE e = b
    <3>1. i \in 1 .. Len(d) /\ j \in 1 .. Len(d) /\ d[i] = d[j]
      BY <1>4, <2>1
    <3>2. (i = 1 /\ d[i] = k) \/ (i - 1 \in 1 .. Len(c) /\ d[i] = c[i - 1])
      BY <1>9, <3>1
    <3>3. (j = 1 /\ d[j] = k) \/ (j - 1 \in 1 .. Len(c) /\ d[j] = c[j - 1])
      BY <1>9, <3>1
    <3>4. \A g, h \in 1 .. Len(c) : c[g] = c[h] => g = h
      BY <1>1, <1>2, <1>6
    <3>5. CASE i = 1 /\ d[i] = k
      BY <1>7, <3>1, <3>3, <3>5
    <3>6. CASE j = 1 /\ d[j] = k
      BY <1>7, <3>1, <3>2, <3>6
    <3>7. CASE i - 1 \in 1 .. Len(c) /\ d[i] = c[i - 1] /\ j - 1 \in 1 .. Len(c) /\ d[j] = c[j - 1]
      <4>1. i - 1 = j - 1
        BY <3>1, <3>4, <3>7
      <4> QED BY <1>3, <3>1, <4>1
    <3> QED BY <3>2, <3>3, <3>5, <3>6, <3>7
  <2>2. CASE e # b
    BY <1>4, <1>6, <2>2
  <2> QED BY <2>1, <2>2
<1>12. ChainsOK(r, n)
  BY <1>1, <1>4, <1>10, <1>11 DEF ChainsOK
<1>13. ASSUME NEW j \in Keys PROVE Has(r, n, j) <=> j = k \/ Has(t, n, j)
  <2>1. PICK e : e = Hash[j] % 2^n
    OBVIOUS
  <2>2. e \in 0 .. s - 1
    BY <1>1, <2>1, InRange
  <2>3. (Has(r, n, j) <=> \E i \in 1 .. Len(r[e]) : r[e][i] = j)
        /\ (Has(t, n, j) <=> \E i \in 1 .. Len(t[e]) : t[e][i] = j)
    BY <2>1 DEF Has
  <2>4. CASE e = b
    <3>1. (\E i \in 1 .. Len(d) : d[i] = j) <=> j = k \/ \E i \in 1 .. Len(c) : c[i] = j
      <4>1. 1 \in 1 .. Len(d) /\ d[1] = k
        BY <1>2, <1>3
      <4>2. ASSUME NEW i \in 1 .. Len(d), d[i] = j, j # k PROVE \E h \in 1 .. Len(c) : c[h] = j
        BY <1>9, <4>2
      <4>3. ASSUME NEW h \in 1 .. Len(c), c[h] = j PROVE \E i \in 1 .. Len(d) : d[i] = j
        <5>1. h + 1 \in 1 .. Len(d) /\ d[h + 1] = j
          BY <1>8, <4>3
        <5> QED BY <5>1
      <4> QED BY <4>1, <4>2, <4>3
    <3> QED BY <1>1, <1>4, <2>3, <2>4, <3>1
  <2>5. CASE e # b
    BY <1>1, <1>4, <2>1, <2>2, <2>3, <2>5
  <2> QED BY <2>4, <2>5
<1>14. 1 \in 1 .. Len(d)
  BY <1>2, <1>3
<1>15. \A e \in 0 .. s - 1 : \A i \in 1 .. Len(t[e]) :
         IF e = b THEN i + 1 \in 1 .. Len(r[e]) /\ r[e][i + 1] = t[e][i]
         ELSE i \in 1 .. Len(r[e]) /\ r[e][i] = t[e][i]
  BY <1>1, <1>4, <1>8
<1> QED BY <1>1, <1>3, <1>4, <1>12, <1>13, <1>14, <1>15

\* In a table of the same size: the others keep their order, and k comes before
\* the others of its bucket.
LEMMA PushedOrder ==
  ASSUME TableInv, NEW k \in Keys, k \notin Elements, TableInv', logsize' = logsize,
         table' = [table EXCEPT ![Bucket(k)] = <<k>> \o @]
  PROVE  /\ Elements' = Elements \cup {k} /\ KeptOrder(Elements)
         /\ \A j \in Elements : (Follows(k, j))' => Bucket(k) > Bucket(j)
<1> USE PositionsHold
<1>1. Positions'
  BY PositionsHoldNext
<1>2. SameBuckets /\ Size' = Size
  BY BucketsKept
<1>3. /\ logsize \in Nat /\ ChainsOK(table, logsize) /\ ~Has(table, logsize, k)
      /\ Size = 2^logsize /\ Bucket(k) = Hash[k] % 2^logsize
  BY DEF Positions, TableInv, Bucket, Size
<1>4. PICK n, r : n = logsize /\ r = table'
  OBVIOUS
<1>5. /\ r = PutFirst(table, Hash[k] % 2^n, k)
      /\ n \in Nat /\ ChainsOK(table, n) /\ ~Has(table, n, k)
      /\ Size = 2^n /\ Bucket(k) = Hash[k] % 2^n
  BY <1>3, <1>4 DEF PutFirst
<1>6. \A j \in Keys : Has(r, n, j) <=> j = k \/ Has(table, n, j)
  BY <1>5, Pushed
<1>7. 1 \in 1 .. Len(r[Bucket(k)]) /\ r[Bucket(k)][1] = k
  BY <1>5, Pushed
<1>8. \A b \in 0 .. Size - 1 : \A i \in 1 .. Len(table[b]) :
        IF b = Bucket(k) THEN i + 1 \in 1 .. Len(r[b]) /\ r[b][i + 1] = table[b][i]
        ELSE i \in 1 .. Len(r[b]) /\ r[b][i] = table[b][i]
  BY <1>5, Pushed
<1>9. Elements' = Elements \cup {k}
  <2>0. Elements' = {j \in Keys : Has(table', logsize', j)}
    BY <1>1, Zenon DEF Positions, Has
  <2>1. Elements' = {j \in Keys : Has(r, n, j)}
    BY <1>4, <2>0
  <2>2. Elements = {j \in Keys : Has(table, n, j)}
    BY <1>4 DEF Positions
  <2> QED BY <1>6, <2>1, <2>2
<1>10. ASSUME NEW j \in Elements
       PROVE  (Place(j))' = IF Bucket(j) = Bucket(k) THEN Place(j) + 1 ELSE Place(j)
  <2>1. PICK b, i : b = Bucket(j) /\ i = Place(j)
    OBVIOUS
  <2>2. b \in 0 .. Size - 1 /\ i \in 1 .. Len(table[b]) /\ table[b][i] = j
    BY <2>1 DEF Positions
  <2>3. PICK h : h = IF b = Bucket(k) THEN i + 1 ELSE i
    OBVIOUS
  <2>4. h \in 1 .. Len(r[b]) /\ r[b][h] = j
    BY <1>8, <2>2, <2>3
  <2>5. b \in (0 .. Size - 1)' /\ h \in (1 .. Len(table[b]))' /\ (table[b][h])' = j
    BY <1>2, <1>4, <2>2, <2>4
  <2>6. (Place(table[b][h]) = h)'
    BY <1>1, <2>5 DEF Positions
  <2> QED BY <2>1, <2>3, <2>5, <2>6
<1>11. (Place(k))' = 1
  <2>1. PICK b : b = Bucket(k)
    OBVIOUS
  <2>2. b \in 0 .. Size - 1
    BY <2>1 DEF Positions
  <2>3. b \in (0 .. Size - 1)' /\ 1 \in (1 .. Len(table[b]))' /\ (table[b][1])' = k
    BY <1>2, <1>4, <1>7, <2>1, <2>2
  <2>4. (Place(table[b][1]) = 1)'
    BY <1>1, <2>3 DEF Positions
  <2> QED BY <2>3, <2>4
<1>12. \A j \in Elements : Place(j) \in Nat /\ Place(j) >= 1 /\ Bucket(j) \in Nat
  BY DEF Positions
<1>13. \A j \in Keys : (Bucket(j))' = Bucket(j) /\ Bucket(j) \in Nat
  BY <1>2 DEF SameBuckets, Positions
<1>14. \A j \in Elements : j \in Keys
  BY DEF Positions
<1>15. ASSUME NEW j \in Elements, NEW h \in Elements PROVE (Follows(j, h))' <=> Follows(j, h)
  <2>1. /\ Place(j) \in Nat /\ Place(h) \in Nat
        /\ (Bucket(j))' = Bucket(j) /\ (Bucket(h))' = Bucket(h)
    BY <1>12, <1>13, <1>14
  <2>2. (Place(j))' = IF Bucket(j) = Bucket(k) THEN Place(j) + 1 ELSE Place(j)
    BY <1>10
  <2>3. (Place(h))' = IF Bucket(h) = Bucket(k) THEN Place(h) + 1 ELSE Place(h)
    BY <1>10
  <2> QED BY <2>1, <2>2, <2>3 DEF Follows
<1>16. ASSUME NEW j \in Elements, (Follows(k, j))' PROVE Bucket(k) > Bucket(j)
  <2>1. /\ Place(j) \in Nat /\ Place(j) >= 1
        /\ (Bucket(j))' = Bucket(j) /\ (Bucket(k))' = Bucket(k)
    BY <1>12, <1>13, <1>14
  <2>2. (Place(j))' = IF Bucket(j) = Bucket(k) THEN Place(j) + 1 ELSE Place(j)
    BY <1>10
  <2> QED BY <1>11, <1>16, <2>1, <2>2 DEF Follows
<1> QED BY <1>9, <1>15, <1>16 DEF KeptOrder

-----------------------------------------------------------------------------
(* Resizing: first the order in which it comes to the elements.                *)

\* A sequence without repetitions.
Single(s) == \A i, j \in 1 .. Len(s) : s[i] = s[j] => i = j
In(s, k) == \E i \in 1 .. Len(s) : s[i] = k

LEMMA FlattenIs ==
  ASSUME NEW s, NEW n \in Nat, Len(s) = n, n # 0
  PROVE  \E f : Flat(s, n, f) /\ FlattenSeq(s) = f[n]
<1> DEFINE F(f) == [i \in 1 .. n |-> IF i = 1 THEN s[i] ELSE f[i - 1] \o s[i]]
           flatten == CHOOSE f : f = F(f)
<1>1. FlattenSeq(s) = flatten[n]
  BY DEF FlattenSeq
<1>2. \E f : f = F(f)
  BY FlatExists DEF Flat
<1>3. flatten = F(flatten)
  BY <1>2
<1>4. Flat(s, n, flatten)
  BY <1>3 DEF Flat
<1> QED BY <1>1, <1>4

\* Two sequences end to end.
LEMMA TwoSingle ==
  ASSUME NEW S, NEW q \in Seq(S), NEW r \in Seq(S), Single(q), Single(r),
         \A k : ~(In(q, k) /\ In(r, k)), NEW u, u = q \o r
  PROVE  /\ u \in Seq(S) /\ Single(u)
         /\ \A k : In(u, k) <=> In(q, k) \/ In(r, k)
<1>1. PICK a \in Nat, b \in Nat : a = Len(q) /\ b = Len(r)
  OBVIOUS
<1>2. /\ u \in Seq(S) /\ Len(u) = a + b
      /\ \A i \in 1 .. a : u[i] = q[i]
      /\ \A j \in 1 .. b : u[a + j] = r[j]
  BY <1>1
<1>3. ASSUME NEW i \in 1 .. a + b PROVE i \in 1 .. a \/ \E j \in 1 .. b : i = a + j
  <2>1. CASE i <= a
    BY <2>1
  <2>2. CASE i > a
    <3>1. i - a \in 1 .. b /\ i = a + (i - a)
      BY <2>2
    <3> QED BY <3>1
  <2> QED BY <2>1, <2>2
<1>4. ASSUME NEW k PROVE In(u, k) <=> In(q, k) \/ In(r, k)
  <2>1. ASSUME In(u, k) PROVE In(q, k) \/ In(r, k)
    <3>1. PICK i \in 1 .. a + b : u[i] = k
      BY <1>2, <2>1 DEF In
    <3>2. CASE i \in 1 .. a
      BY <1>1, <1>2, <3>1, <3>2 DEF In
    <3>3. CASE \E j \in 1 .. b : i = a + j
      BY <1>1, <1>2, <3>1, <3>3 DEF In
    <3> QED BY <1>3, <3>2, <3>3
  <2>2. ASSUME In(q, k) PROVE In(u, k)
    <3>1. PICK i \in 1 .. a : q[i] = k
      BY <1>1, <2>2 DEF In
    <3>2. i \in 1 .. a + b /\ u[i] = k
      BY <1>2, <3>1
    <3> QED BY <1>2, <3>2 DEF In
  <2>3. ASSUME In(r, k) PROVE In(u, k)
    <3>1. PICK j \in 1 .. b : r[j] = k
      BY <1>1, <2>3 DEF In
    <3>2. a + j \in 1 .. a + b
      BY <3>1
    <3>3. u[a + j] = k
      BY <1>2, <3>1
    <3> QED BY <1>2, <3>2, <3>3 DEF In
  <2> QED BY <2>1, <2>2, <2>3
<1>5. ASSUME NEW i \in 1 .. a + b, NEW j \in 1 .. a + b, u[i] = u[j] PROVE i = j
  <2>1. \A h \in 1 .. a : In(q, u[h])
    BY <1>1, <1>2 DEF In
  <2>2. \A h \in 1 .. b : In(r, u[a + h])
    BY <1>1, <1>2 DEF In
  <2>3. CASE i \in 1 .. a /\ j \in 1 .. a
    BY <1>1, <1>2, <1>5, <2>3 DEF Single
  <2>4. ASSUME NEW g \in 1 .. b, NEW h \in 1 .. b, i = a + g, j = a + h PROVE i = j
    <3>1. g = h
      BY <1>1, <1>2, <1>5, <2>4 DEF Single
    <3> QED BY <2>4, <3>1
  <2>5. ASSUME i \in 1 .. a, NEW h \in 1 .. b, j = a + h PROVE FALSE
    <3>1. In(q, u[i]) /\ In(r, u[i])
      BY <1>5, <2>1, <2>2, <2>5
    <3> QED BY <3>1
  <2>6. ASSUME j \in 1 .. a, NEW h \in 1 .. b, i = a + h PROVE FALSE
    <3>1. In(q, u[i]) /\ In(r, u[i])
      BY <1>5, <2>1, <2>2, <2>6
    <3> QED BY <3>1
  <2> QED BY <1>3, <2>3, <2>4, <2>5, <2>6
<1> QED BY <1>2, <1>4, <1>5 DEF Single

\* Sequences s[1] .. s[n] without repetitions and without a common element, end
\* to end: their elements, without repetitions.
Apart(s, n) ==
  /\ \A i \in 1 .. n : Single(s[i])
  /\ \A i, j \in 1 .. n : \A k : In(s[i], k) /\ In(s[j], k) => i = j

LEMMA FlatSingle ==
  ASSUME NEW S, NEW n \in Nat, NEW s \in [1 .. n -> Seq(S)], NEW f, Flat(s, n, f), Apart(s, n)
  PROVE  \A m \in 1 .. n : /\ f[m] \in Seq(S) /\ Single(f[m])
                           /\ \A k : In(f[m], k) <=> \E i \in 1 .. m : In(s[i], k)
<1> DEFINE P(m) == /\ f[m] \in Seq(S) /\ Single(f[m])
                   /\ \A k : In(f[m], k) <=> \E i \in 1 .. m : In(s[i], k)
           G == {m \in Nat : m + 1 \in 1 .. n => P(m + 1)}
<1>1. 0 \in G
  <2> SUFFICES ASSUME 1 \in 1 .. n PROVE P(1)
    OBVIOUS
  <2>1. f[1] = s[1]
    BY DEF Flat
  <2>2. 1 .. 1 = {1}
    OBVIOUS
  <2> QED BY <2>1, <2>2 DEF Apart
<1>2. ASSUME NEW m \in G PROVE m + 1 \in G
  <2> SUFFICES ASSUME (m + 1) + 1 \in 1 .. n PROVE P((m + 1) + 1)
    BY <1>2
  <2>1. m \in Nat /\ m + 1 \in 1 .. n
    BY <1>2
  <2>2. P(m + 1)
    BY <1>2, <2>1
  <2> HIDE DEF P
  <2>3. PICK h, q, r : h = (m + 1) + 1 /\ q = f[m + 1] /\ r = s[h]
    OBVIOUS
  <2>4. h \in 1 .. n /\ h # 1 /\ h - 1 = m + 1 /\ 1 .. h = (1 .. m + 1) \cup {h} /\ h \notin 1 .. m + 1
    BY <2>1, <2>3
  <2>5. f[h] = q \o r
    BY <2>3, <2>4 DEF Flat
  <2>6. q \in Seq(S) /\ Single(q) /\ \A k : In(q, k) <=> \E i \in 1 .. m + 1 : In(s[i], k)
    BY <2>2, <2>3 DEF P
  <2>7. r \in Seq(S) /\ Single(r)
    BY <2>3, <2>4 DEF Apart
  <2>8. \A k : ~(In(q, k) /\ In(r, k))
    <3> SUFFICES ASSUME NEW k, In(q, k), In(r, k) PROVE FALSE
      OBVIOUS
    <3>1. PICK i \in 1 .. m + 1 : In(s[i], k)
      BY <2>6
    <3>2. i \in 1 .. n /\ i # h
      BY <2>1, <2>4
    <3> QED BY <2>3, <2>4, <3>1, <3>2 DEF Apart
  <2>9. /\ f[h] \in Seq(S) /\ Single(f[h])
        /\ \A k : In(f[h], k) <=> In(q, k) \/ In(r, k)
    BY <2>5, <2>6, <2>7, <2>8, TwoSingle
  <2>10. \A k : In(f[h], k) <=> \E i \in 1 .. h : In(s[i], k)
    BY <2>3, <2>4, <2>6, <2>9
  <2> QED BY <2>3, <2>9, <2>10 DEF P
<1>3. G \in SUBSET Nat
  OBVIOUS
<1>4. G = Nat
  <2> HIDE DEF G
  <2> QED BY <1>1, <1>2, <1>3, NatSetInduction
<1>5. ASSUME NEW m \in 1 .. n PROVE P(m)
  <2>1. m - 1 \in Nat /\ (m - 1) + 1 = m
    OBVIOUS
  <2>2. m - 1 \in G
    BY <1>4, <2>1
  <2> QED BY <2>1, <2>2
<1> QED BY <1>5

\* A resize comes to every element once.
LEMMA OrderIs ==
  ASSUME TableInv
  PROVE  /\ Order \in Seq(Keys) /\ Single(Order)
         /\ \A k \in Keys : In(Order, k) <=> k \in Elements
<1> USE PositionsHold
<1>1. PICK n \in Nat : n = Size
  BY DEF Positions
<1>2. n # 0
  BY <1>1 DEF Positions
<1>3. PICK s : s = [i \in 1 .. n |-> table[n - i]]
  OBVIOUS
<1>4. \A i \in 1 .. n : n - i \in 0 .. n - 1 /\ s[i] = table[n - i]
  BY <1>3
<1>5. s \in [1 .. n -> Seq(Keys)] /\ Len(s) = n
  <2>1. \A i \in 1 .. n : s[i] \in Seq(Keys)
    BY <1>1, <1>4 DEF Positions
  <2>2. s \in [1 .. n -> Seq(Keys)]
    BY <1>3, <2>1
  <2> QED BY <2>2, LenProperties
<1>6. \A i \in 1 .. n : Single(s[i])
  <2> TAKE i \in 1 .. n
  <2>1. n - i \in 0 .. 2^logsize - 1
    BY <1>1, <1>4 DEF Positions
  <2>2. \A g, h \in 1 .. Len(table[n - i]) : table[n - i][g] = table[n - i][h] => g = h
    BY <2>1 DEF TableInv, ChainsOK
  <2> QED BY <1>4, <2>2 DEF Single
<1>7. \A i \in 1 .. n : \A k : In(s[i], k) => Bucket(k) = n - i /\ k \in Elements
  <2> SUFFICES ASSUME NEW i \in 1 .. n, NEW k, In(s[i], k) PROVE Bucket(k) = n - i /\ k \in Elements
    OBVIOUS
  <2>1. PICK h \in 1 .. Len(table[n - i]) : table[n - i][h] = k
    BY <1>4 DEF In
  <2>2. n - i \in 0 .. Size - 1
    BY <1>1, <1>4
  <2> QED BY <2>1, <2>2 DEF Positions
<1>8. \A i, j \in 1 .. n : \A k : In(s[i], k) /\ In(s[j], k) => i = j
  <2> SUFFICES ASSUME NEW i \in 1 .. n, NEW j \in 1 .. n, NEW k, In(s[i], k), In(s[j], k)
               PROVE  i = j
    OBVIOUS
  <2>1. n - i = n - j
    BY <1>7
  <2> QED BY <2>1
<1>9. PICK f : Flat(s, n, f) /\ FlattenSeq(s) = f[n]
  BY <1>2, <1>5, FlattenIs
<1>10. Order = f[n]
  <2>1. Order = FlattenSeq([i \in 1 .. n |-> table[n - i]])
    BY <1>1 DEF Order
  <2> QED BY <1>3, <1>9, <2>1
<1>11. n \in 1 .. n
  BY <1>2
<1>12. f[n] \in Seq(Keys) /\ Single(f[n]) /\ \A k : In(f[n], k) <=> \E i \in 1 .. n : In(s[i], k)
  <2>1. \A m \in 1 .. n : /\ f[m] \in Seq(Keys) /\ Single(f[m])
                          /\ \A k : In(f[m], k) <=> \E i \in 1 .. m : In(s[i], k)
    <3>1. Apart(s, n)
      BY <1>6, <1>8 DEF Apart
    <3> QED BY <1>5, <1>9, <3>1, FlatSingle
  <2> QED BY <1>11, <2>1
<1>13. ASSUME NEW k \in Elements PROVE In(f[n], k)
  <2>1. PICK b \in 0 .. n - 1 : b = Bucket(k) /\ \E h \in 1 .. Len(table[b]) : table[b][h] = k
    BY <1>1 DEF Positions
  <2>2. n - b \in 1 .. n /\ n - (n - b) = b
    BY <1>2
  <2>3. s[n - b] = table[b]
    BY <1>4, <2>2
  <2>4. In(s[n - b], k)
    BY <2>1, <2>3 DEF In
  <2> QED BY <1>12, <2>2, <2>4
<1> QED BY <1>7, <1>10, <1>12, <1>13

\* The table m on the way of n elements of order to 2^w buckets.
Moving(order, w, n, m) ==
  m = [i \in 0 .. n |->
        IF i = 0 THEN EmptyTable(w)
        ELSE PutFirst(m[i - 1], Hash[order[i]] % 2^w, order[i])]

LEMMA MovingExists ==
  ASSUME NEW order, NEW w, NEW n \in Nat
  PROVE  \E m : Moving(order, w, n, m)
<1> DEFINE G == {i \in Nat : \E m : Moving(order, w, i, m)}
<1>1. 0 \in G
  <2>1. PICK m : m = [i \in 0 .. 0 |-> EmptyTable(w)]
    OBVIOUS
  <2>2. Moving(order, w, 0, m)
    BY <2>1 DEF Moving
  <2> QED BY <2>2
<1>2. ASSUME NEW e \in G PROVE e + 1 \in G
  <2>1. PICK f : Moving(order, w, e, f)
    BY <1>2
  <2>2. PICK g : g = [i \in 0 .. e + 1 |->
                       IF i <= e THEN f[i]
                       ELSE PutFirst(f[i - 1], Hash[order[i]] % 2^w, order[i])]
    OBVIOUS
  <2>3. e \in Nat
    BY <1>2
  <2>4. \A i \in 0 .. e + 1 : g[i] = IF i = 0 THEN EmptyTable(w)
                                     ELSE PutFirst(g[i - 1], Hash[order[i]] % 2^w, order[i])
    <3> TAKE i \in 0 .. e + 1
    <3>1. i # 0 => i - 1 \in 0 .. e /\ i - 1 \in 0 .. e + 1
      BY <2>3
    <3>2. \A j \in 0 .. e : g[j] = f[j]
      BY <2>2, <2>3
    <3>3. CASE i <= e
      <4>1. i \in 0 .. e
        BY <2>3, <3>3
      <4>2. f[i] = IF i = 0 THEN EmptyTable(w) ELSE PutFirst(f[i - 1], Hash[order[i]] % 2^w, order[i])
        BY <2>1, <4>1 DEF Moving
      <4> QED BY <3>1, <3>2, <4>1, <4>2
    <3>4. CASE ~(i <= e)
      <4>1. g[i] = PutFirst(f[i - 1], Hash[order[i]] % 2^w, order[i])
        BY <2>2, <3>4
      <4>2. i # 0
        BY <2>3, <3>4
      <4> QED BY <3>1, <3>2, <4>1, <4>2
    <3> QED BY <3>3, <3>4
  <2>5. g = [i \in 0 .. e + 1 |-> g[i]]
    BY <2>2
  <2>6. Moving(order, w, e + 1, g)
    BY <2>4, <2>5 DEF Moving
  <2> QED BY <2>3, <2>6
<1>3. G \in SUBSET Nat
  OBVIOUS
<1> HIDE DEF G
<1>4. G = Nat
  BY <1>1, <1>2, <1>3, NatSetInduction
<1>5. n \in G
  BY <1>4
<1> QED BY <1>5 DEF G

LEMMA RehashedIs ==
  ASSUME NEW w, NEW n \in Nat, n = Len(Order)
  PROVE  \E m : Moving(Order, w, n, m) /\ Rehashed(w) = m[n]
<1>1. PICK order : order = Order
  OBVIOUS
<1> DEFINE F(m) == [i \in 0 .. n |->
                     IF i = 0 THEN EmptyTable(w)
                     ELSE [m[i - 1] EXCEPT ![Hash[order[i]] % 2^w] = <<order[i]>> \o @]]
           moved == CHOOSE m : m = F(m)
<1>2. Rehashed(w) = moved[n]
  BY <1>1 DEF Rehashed
<1>3. \E m : m = F(m)
  <2>1. PICK m : Moving(order, w, n, m)
    BY MovingExists
  <2>2. m = F(m)
    BY <2>1 DEF Moving, PutFirst
  <2> QED BY <2>2
<1>4. moved = F(moved)
  BY <1>3
<1>5. Moving(order, w, n, moved)
  BY <1>4 DEF Moving, PutFirst
<1> QED BY <1>1, <1>2, <1>5

LEMMA EmptyChains ==
  ASSUME NEW w \in Nat
  PROVE  ChainsOK(EmptyTable(w), w) /\ \A k \in Keys : ~Has(EmptyTable(w), w, k)
<1>1. PICK s, t : s \in Nat \ {0} /\ s = 2^w /\ t = EmptyTable(w)
  BY Powers
<1>2. t = [b \in 0 .. s - 1 |-> <<>>]
  BY <1>1 DEF EmptyTable
<1>3. t \in [0 .. s - 1 -> Seq(Keys)] /\ \A b \in 0 .. s - 1 : t[b] = <<>> /\ Len(t[b]) = 0
  BY <1>2
<1>4. ChainsOK(t, w)
  BY <1>1, <1>3 DEF ChainsOK
<1>5. \A k \in Keys : ~Has(t, w, k)
  <2> TAKE k \in Keys
  <2>1. Hash[k] % 2^w \in 0 .. s - 1
    BY <1>1, InRange
  <2> QED BY <1>3, <2>1 DEF Has
<1> QED BY <1>1, <1>4, <1>5

\* The table after a resize has the elements it had, each where a look-up of its
\* key searches.
LEMMA RehashedChains ==
  ASSUME TableInv, NEW w \in Nat
  PROVE  /\ ChainsOK(Rehashed(w), w)
         /\ \A k \in Keys : Has(Rehashed(w), w, k) <=> k \in Elements
<1>1. PICK order : order = Order
  OBVIOUS
<1>2. /\ order \in Seq(Keys) /\ Single(order)
      /\ \A k \in Keys : In(order, k) <=> k \in Elements
  BY <1>1, OrderIs
<1>3. PICK n \in Nat : n = Len(order)
  BY <1>2
<1>4. PICK m : Moving(order, w, n, m) /\ Rehashed(w) = m[n]
  BY <1>1, <1>3, RehashedIs
<1>5. \A i \in 1 .. n : order[i] \in Keys
  BY <1>2, <1>3
<1> DEFINE P(i) == /\ ChainsOK(m[i], w)
                   /\ \A k \in Keys : Has(m[i], w, k) <=> \E j \in 1 .. i : order[j] = k
           G == {i \in Nat : i \in 0 .. n => P(i)}
<1>6. 0 \in G
  <2>1. m[0] = EmptyTable(w)
    BY <1>4 DEF Moving
  <2>2. P(0)
    BY <2>1, EmptyChains
  <2> QED BY <2>2
<1>7. ASSUME NEW i \in G PROVE i + 1 \in G
  <2> SUFFICES ASSUME i + 1 \in 0 .. n PROVE P(i + 1)
    BY <1>7
  <2>1. i \in Nat /\ i \in 0 .. n
    BY <1>7
  <2>2. P(i)
    BY <1>7, <2>1
  <2> HIDE DEF P
  <2>3. PICK h, k : h = i + 1 /\ k = order[h]
    OBVIOUS
  <2>4. h \in 1 .. n /\ h \in 0 .. n /\ h # 0 /\ h - 1 = i /\ 1 .. h = (1 .. i) \cup {h} /\ h \notin 1 .. i
    BY <2>1, <2>3
  <2>5. k \in Keys
    BY <1>5, <2>3, <2>4
  <2>6. m[h] = PutFirst(m[i], Hash[k] % 2^w, k)
    BY <1>4, <2>3, <2>4 DEF Moving
  <2>7. ~Has(m[i], w, k)
    <3>1. \A j \in 1 .. i : order[j] # k
      BY <1>2, <1>3, <2>3, <2>4 DEF Single
    <3> QED BY <2>2, <2>5, <3>1 DEF P
  <2>8. ChainsOK(m[i], w)
    BY <2>2 DEF P
  <2>9. ChainsOK(m[h], w)
    BY <2>5, <2>6, <2>7, <2>8, Pushed
  <2>10. \A j \in Keys : Has(m[h], w, j) <=> j = k \/ Has(m[i], w, j)
    BY <2>5, <2>6, <2>7, <2>8, Pushed
  <2>11. \A j \in Keys : Has(m[i], w, j) <=> \E e \in 1 .. i : order[e] = j
    BY <2>2 DEF P
  <2>12. \A j \in Keys : Has(m[h], w, j) <=> \E e \in 1 .. h : order[e] = j
    BY <2>3, <2>4, <2>10, <2>11
  <2> QED BY <2>3, <2>9, <2>12 DEF P
<1>8. G \in SUBSET Nat
  OBVIOUS
<1>9. G = Nat
  <2> HIDE DEF G
  <2> QED BY <1>6, <1>7, <1>8, NatSetInduction
<1>10. P(n)
  <2>1. n \in G /\ n \in 0 .. n
    BY <1>9
  <2> QED BY <2>1
<1> QED BY <1>2, <1>3, <1>4, <1>10 DEF In

-----------------------------------------------------------------------------
(* What the operations do to the table.                                        *)

\* The table holds the same elements in the same order.
SameElements == Elements' = Elements /\ KeptOrder(Elements) /\ SameBuckets

LEMMA NewTable ==
  ASSUME NEW n \in 0 .. MaxLogsize, ChainsOK(table', n), logsize' = n, apos' \in 0 .. 2^n - 1
  PROVE  TableInv' /\ Elements' = {k \in Keys : Has(table', n, k)}
<1>1. Size' = 2^n
  BY DEF Size
<1>2. ChainsOK(table, logsize)'
  BY DEF ChainsOK
<1>3. TableInv'
  BY <1>1, <1>2 DEF TableInv
<1>4. Positions'
  BY <1>3, PositionsHoldNext
<1>5. Elements' = {k \in Keys : Has(table', n, k)}
  BY <1>4 DEF Positions, Has
<1> QED BY <1>3, <1>5

LEMMA TableKept ==
  ASSUME TableInv, UNCHANGED <<table, logsize>>, apos' \in 0 .. Size - 1
  PROVE  TableInv' /\ SameElements
<1>1. ChainsOK(table, logsize)' /\ Size' = Size
  BY DEF TableInv, ChainsOK, Size
<1>2. TableInv'
  BY <1>1 DEF TableInv
<1>3. Elements' = Elements
  BY DEF Elements
<1>4. \A k : (Bucket(k))' = Bucket(k)
  BY DEF Bucket, Size
<1>5. \A k : (Place(k))' = Place(k)
  BY <1>4 DEF Place
<1>6. KeptOrder(Elements)
  BY <1>4, <1>5 DEF KeptOrder, Follows
<1> QED BY <1>2, <1>3, <1>4, <1>6 DEF SameElements, SameBuckets

LEMMA PushEffect ==
  ASSUME TableInv, NEW k \in Keys, k \notin Elements, count \in Nat, Push(k)
  PROVE  TableInv' /\ Elements' = Elements \cup {k} /\ count' = count + 1
<1> USE PositionsHold
<1>1. PICK n : n = IF count + 1 > Size THEN logsize + 1 ELSE logsize
  OBVIOUS
<1>2. PICK room : room = IF n = logsize THEN table ELSE Rehashed(n)
  OBVIOUS
<1>3. /\ n <= MaxLogsize /\ count' = count + 1 /\ logsize' = n
      /\ table' = PutFirst(room, Hash[k] % 2^n, k) /\ apos' = Hash[k] % 2^n
  BY <1>1, <1>2, Zenon DEF Push, PutFirst
<1>4. n \in 0 .. MaxLogsize /\ n \in Nat
  BY <1>1, <1>3, SizeAssumption DEF Positions
<1>5. ChainsOK(room, n) /\ \A j \in Keys : Has(room, n, j) <=> j \in Elements
  <2>1. CASE n = logsize
    BY <1>2, <2>1 DEF TableInv, Positions
  <2>2. CASE n # logsize
    BY <1>2, <1>4, <2>2, RehashedChains
  <2> QED BY <2>1, <2>2
<1>6. ~Has(room, n, k)
  BY <1>5
<1>7. ChainsOK(table', n)
  BY <1>3, <1>4, <1>5, <1>6, Pushed
<1>8. \A j \in Keys : Has(table', n, j) <=> j = k \/ Has(room, n, j)
  BY <1>3, <1>4, <1>5, <1>6, Pushed
<1>9. apos' \in 0 .. 2^n - 1
  BY <1>3, <1>4, InRange
<1>10. TableInv' /\ Elements' = {j \in Keys : Has(table', n, j)}
  BY <1>3, <1>4, <1>7, <1>9, NewTable
<1>11. Elements \subseteq Keys
  BY DEF Positions
<1> QED BY <1>3, <1>5, <1>8, <1>10, <1>11

LEMMA PushOrder ==
  ASSUME TableInv, NEW k \in Keys, k \notin Elements, count \in Nat, Push(k), count < Size
  PROVE  /\ KeptOrder(Elements) /\ SameBuckets
         /\ \A j \in Elements : (Follows(k, j))' => Bucket(k) > Bucket(j)
<1>1. Size \in Nat /\ logsize \in Nat
  BY PositionsHold DEF Positions
<1>2. ~(count + 1 > Size)
  BY <1>1
<1>3. logsize' = logsize /\ table' = [table EXCEPT ![Hash[k] % 2^logsize] = <<k>> \o @]
  BY <1>2 DEF Push
<1>4. table' = [table EXCEPT ![Bucket(k)] = <<k>> \o @]
  BY <1>3 DEF Bucket, Size
<1>5. TableInv'
  BY PushEffect
<1> QED BY <1>3, <1>4, <1>5, PushedOrder, BucketsKept

LEMMA CutEffect ==
  ASSUME TableInv, NEW k \in Elements, Cut(k)
  PROVE  /\ TableInv' /\ Elements' = Elements \ {k} /\ count' = count - 1
         /\ KeptOrder(Elements \ {k}) /\ SameBuckets
         /\ data' = [data EXCEPT ![k] = Null]
<1>1. /\ table' = [table EXCEPT ![Bucket(k)] = RemoveAt(@, Place(k))]
      /\ logsize' = logsize /\ apos' = Bucket(k) /\ count' = count - 1
      /\ data' = [data EXCEPT ![k] = Null]
  BY DEF Cut
<1>2. TableInv'
  BY <1>1, Taken
<1>3. Elements' = Elements \ {k} /\ KeptOrder(Elements \ {k})
  BY <1>1, TakenElements
<1> QED BY <1>1, <1>2, <1>3, BucketsKept

\* The least of some buckets is one of them.
LEMMA MinIs ==
  ASSUME NEW S \in SUBSET Nat, S # {}
  PROVE  Min(S) \in S /\ \A i \in S : Min(S) <= i
<1>1. \E i \in S : \A j \in S : i <= j
  BY LeastNatural
<1> QED BY <1>1 DEF Min

LEMMA RebuildEffect ==
  ASSUME TableInv, NEW n \in Nat, Rebuild(n)
  PROVE  TableInv' /\ Elements' = Elements /\ count' = count
<1>1. n <= MaxLogsize /\ table' = Rehashed(n) /\ logsize' = n /\ count' = count
  BY DEF Rebuild
<1>2. n \in 0 .. MaxLogsize
  BY <1>1, SizeAssumption
<1>3. apos' \in 0 .. 2^n - 1
  <2>1. PICK s \in Nat \ {0} : s = 2^n
    BY Powers
  <2>2. PICK nonempty : nonempty = {b \in 0 .. s - 1 : table'[b] # <<>>}
    OBVIOUS
  <2>3. apos' = IF nonempty = {} THEN s - 1 ELSE Min(nonempty)
    BY <2>1, <2>2 DEF Rebuild
  <2>4. nonempty \in SUBSET Nat /\ nonempty \subseteq 0 .. s - 1
    BY <2>1, <2>2
  <2>5. nonempty # {} => Min(nonempty) \in nonempty
    BY <2>4, MinIs
  <2> QED BY <2>1, <2>3, <2>4, <2>5
<1>4. ChainsOK(table', n)
  BY <1>1, RehashedChains
<1>5. \A k \in Keys : Has(table', n, k) <=> k \in Elements
  BY <1>1, RehashedChains
<1>6. TableInv' /\ Elements' = {k \in Keys : Has(table', n, k)}
  BY <1>1, <1>2, <1>3, <1>4, NewTable
<1>7. Elements \subseteq Keys
  BY PositionsHold DEF Positions
<1> QED BY <1>1, <1>5, <1>6, <1>7

LEMMA EmptyEffect ==
  ASSUME NEW n \in 0 .. MaxLogsize, table' = EmptyTable(n), logsize' = n, apos' = 0
  PROVE  TableInv' /\ Elements' = {}
<1>1. n \in Nat
  BY SizeAssumption
<1>2. ChainsOK(table', n)
  BY <1>1, EmptyChains
<1>3. \A k \in Keys : ~Has(table', n, k)
  BY <1>1, EmptyChains
<1>4. 0 \in 0 .. 2^n - 1
  <2>1. PICK s \in Nat \ {0} : s = 2^n
    BY <1>1, Powers
  <2> QED BY <2>1
<1>5. TableInv' /\ Elements' = {k \in Keys : Has(table', n, k)}
  BY <1>2, <1>4, NewTable
<1> QED BY <1>3, <1>5

-----------------------------------------------------------------------------
(* The order of a walk.                                                        *)

LEMMA FollowsOrder ==
  ASSUME TableInv, NEW j \in Elements, NEW k \in Elements
  PROVE  /\ j = k \/ Follows(j, k) \/ Follows(k, j)
         /\ ~(Follows(j, k) /\ Follows(k, j)) /\ ~Follows(k, k)
         /\ Follows(j, k) => Bucket(j) >= Bucket(k)
<1>a. \A h \in Elements : Place(h) \in Nat /\ Bucket(h) \in Nat
  BY PositionsHold DEF Positions
<1>1. Place(j) \in Nat /\ Place(k) \in Nat /\ Bucket(j) \in Nat /\ Bucket(k) \in Nat
  BY <1>a
<1>2. Bucket(j) = Bucket(k) /\ Place(j) = Place(k) => j = k
  BY PositionsHold DEF Positions
<1> QED BY <1>1, <1>2 DEF Follows

LEMMA FollowsOn ==
  ASSUME TableInv, NEW i \in Elements, NEW j \in Elements, NEW k \in Elements,
         Follows(i, j), Follows(j, k)
  PROVE  Follows(i, k)
<1>1. \A h \in Elements : Place(h) \in Nat /\ Bucket(h) \in Nat
  BY PositionsHold DEF Positions
<1>2. /\ Place(i) \in Nat /\ Place(j) \in Nat /\ Place(k) \in Nat
      /\ Bucket(i) \in Nat /\ Bucket(j) \in Nat /\ Bucket(k) \in Nat
  BY <1>1
<1> QED BY <1>2 DEF Follows

\* The first element of a chain comes before the others of its chain.
LEMMA HeadIs ==
  ASSUME TableInv, NEW b \in 0 .. Size - 1, table[b] # <<>>
  PROVE  /\ HeadOf(b) \in Elements /\ Bucket(HeadOf(b)) = b
         /\ \A j \in Elements : Bucket(j) = b => j = HeadOf(b) \/ Follows(j, HeadOf(b))
<1> USE PositionsHold
<1>1. PICK c \in Seq(Keys) : c = table[b]
  BY DEF Positions
<1>2. c # <<>> /\ 1 \in 1 .. Len(c)
  BY <1>1
<1>3. HeadOf(b) = c[1]
  BY <1>1, <1>2 DEF HeadOf
<1>4. c[1] \in Elements /\ Bucket(c[1]) = b /\ Place(c[1]) = 1
  BY <1>1, <1>2 DEF Positions
<1>5. ASSUME NEW j \in Elements, Bucket(j) = b PROVE j = c[1] \/ Follows(j, c[1])
  <2>1. Place(j) \in 1 .. Len(c) /\ c[Place(j)] = j
    BY <1>1, <1>5 DEF Positions
  <2> QED BY <1>4, <1>5, <2>1 DEF Follows
<1> QED BY <1>3, <1>4, <1>5

\* The search for the next bucket that is not empty.
LEMMA SearchIs ==
  ASSUME TableInv, NEW b \in 0 .. Size - 1
  PROVE  /\ NextBucket(b).pos \in 0 .. Size - 1 /\ NextBucket(b).ahead \in BOOLEAN
         /\ NextBucket(b).ahead =>
              /\ NextBucket(b).pos > b /\ table[NextBucket(b).pos] # <<>>
              /\ \A k \in Elements : Bucket(k) > b => Bucket(k) >= NextBucket(b).pos
         /\ ~NextBucket(b).ahead => \A k \in Elements : Bucket(k) <= b
<1> USE PositionsHold
<1>1. PICK nonempty : nonempty = {i \in 0 .. Size - 1 : table[i] # <<>>}
  OBVIOUS
<1>2. PICK later : later = {i \in nonempty : i > b}
  OBVIOUS
<1>3. PICK wrapped : wrapped = {i \in nonempty : i <= b}
  OBVIOUS
<1>4. Size \in Nat /\ DOMAIN table = 0 .. Size - 1
  BY DEF Positions
<1>5. NextBucket(b) = CASE later # {} -> [pos |-> Min(later), ahead |-> TRUE]
                        [] later = {} /\ wrapped # {} -> [pos |-> Min(wrapped), ahead |-> FALSE]
                        [] OTHER -> [pos |-> b, ahead |-> FALSE]
  BY <1>1, <1>2, <1>3, <1>4 DEF NextBucket
<1>6. later \in SUBSET Nat /\ wrapped \in SUBSET Nat /\ nonempty \subseteq 0 .. Size - 1
  BY <1>1, <1>2, <1>3, <1>4
<1>7. \A k \in Elements : Bucket(k) \in nonempty
  BY <1>1 DEF Positions
<1>8. CASE later # {}
  <2>1. NextBucket(b) = [pos |-> Min(later), ahead |-> TRUE]
    BY <1>5, <1>8
  <2>2. Min(later) \in later /\ \A i \in later : Min(later) <= i
    BY <1>6, <1>8, MinIs
  <2>3. \A k \in Elements : Bucket(k) > b => Bucket(k) \in later
    BY <1>2, <1>7
  <2>4. \A k \in Elements : Bucket(k) \in Nat
    <3> TAKE k \in Elements
    <3>1. Bucket(k) \in 0 .. Size - 1
      BY <1>6, <1>7
    <3> QED BY <1>4, <3>1
  <2>5. \A k \in Elements : Bucket(k) > b => Bucket(k) >= Min(later)
    BY <2>2, <2>3, <2>4
  <2> QED BY <1>1, <1>2, <2>1, <2>2, <2>5
<1>9. CASE later = {}
  <2>1. /\ NextBucket(b).ahead = FALSE
        /\ NextBucket(b).pos = IF wrapped # {} THEN Min(wrapped) ELSE b
    BY <1>5, <1>9
  <2>2. wrapped # {} => Min(wrapped) \in wrapped
    BY <1>6, MinIs
  <2>3. \A k \in Elements : ~(Bucket(k) > b)
    BY <1>2, <1>7, <1>9
  <2>4. \A k \in Elements : Bucket(k) \in 0 .. Size - 1
    BY <1>6, <1>7
  <2>5. \A k \in Elements : Bucket(k) <= b
    BY <1>4, <2>3, <2>4
  <2>6. NextBucket(b).pos \in 0 .. Size - 1
    BY <1>3, <1>6, <2>1, <2>2
  <2> QED BY <2>1, <2>5, <2>6
<1> QED BY <1>8, <1>9

LEMMA FirstIs ==
  ASSUME TableInv
  PROVE  /\ FirstPos \in 0 .. Size - 1
         /\ Elements = {} => First = Null
         /\ Elements # {} => /\ First \in Elements
                             /\ \A j \in Elements : j = First \/ Follows(j, First)
<1> USE PositionsHold
<1>1. Size \in Nat \ {0} /\ DOMAIN table = 0 .. Size - 1 /\ Size - 1 \in 0 .. Size - 1
  BY DEF Positions
<1>2. FirstPos \in 0 .. Size - 1
  BY <1>1, SearchIs DEF FirstPos
<1>3. PICK nonempty : nonempty = {i \in 0 .. Size - 1 : table[i] # <<>>}
  OBVIOUS
<1>4. {i \in nonempty : i > Size - 1} = {} /\ {i \in nonempty : i <= Size - 1} = nonempty
  BY <1>1, <1>3
<1>5. /\ nonempty # {} => FirstPos = Min(nonempty)
      /\ nonempty = {} => FirstPos = Size - 1
  <2>1. NextBucket(Size - 1) =
          CASE {i \in nonempty : i > Size - 1} # {} ->
                 [pos |-> Min({i \in nonempty : i > Size - 1}), ahead |-> TRUE]
            [] {i \in nonempty : i > Size - 1} = {} /\ {i \in nonempty : i <= Size - 1} # {} ->
                 [pos |-> Min({i \in nonempty : i <= Size - 1}), ahead |-> FALSE]
            [] OTHER -> [pos |-> Size - 1, ahead |-> FALSE]
    BY <1>1, <1>3 DEF NextBucket
  <2> QED BY <1>4, <2>1 DEF FirstPos
<1>6. First = HeadOf(FirstPos)
  BY DEF First, FirstPos
<1>7. ASSUME Elements = {} PROVE First = Null
  <2>1. ASSUME NEW b \in 0 .. Size - 1 PROVE table[b] = <<>>
    <3>1. table[b] \in Seq(Keys) /\ \A i \in 1 .. Len(table[b]) : table[b][i] \in Elements
      BY DEF Positions
    <3>2. ~(1 \in 1 .. Len(table[b]))
      BY <1>7, <3>1
    <3> QED BY <3>1, <3>2
  <2> QED BY <1>2, <1>6, <2>1 DEF HeadOf
<1>8. ASSUME NEW k \in Elements
      PROVE  First \in Elements /\ \A j \in Elements : j = First \/ Follows(j, First)
  <2>1. \A j \in Elements : Bucket(j) \in nonempty /\ Bucket(j) \in Nat
    BY <1>3 DEF Positions
  <2>2. nonempty \in SUBSET Nat
    BY <1>1, <1>3
  <2>3. FirstPos \in nonempty /\ \A i \in nonempty : FirstPos <= i
    BY <1>5, <2>1, <2>2, MinIs
  <2>4. FirstPos \in 0 .. Size - 1 /\ table[FirstPos] # <<>> /\ FirstPos \in Nat
    BY <1>1, <1>3, <2>3
  <2>5. First \in Elements /\ Bucket(First) = FirstPos
    BY <1>6, <2>4, HeadIs
  <2>6. \A j \in Elements : Bucket(j) = FirstPos => j = First \/ Follows(j, First)
    BY <1>6, <2>4, HeadIs
  <2>7. \A j \in Elements : Bucket(j) > FirstPos => Follows(j, First)
    BY <2>5 DEF Follows
  <2>8. \A j \in Elements : Bucket(j) = FirstPos \/ Bucket(j) > FirstPos
    BY <2>1, <2>3, <2>4
  <2> QED BY <2>5, <2>6, <2>7, <2>8
<1> QED BY <1>2, <1>7, <1>8

\* The next element of the chain.
LEMMA SuccessorIs ==
  ASSUME TableInv, NEW k \in Elements
  PROVE  /\ Successor(k) = Null => \A j \in Elements : Follows(j, k) => Bucket(j) > Bucket(k)
         /\ Successor(k) # Null =>
              /\ Successor(k) \in Elements /\ Bucket(Successor(k)) = Bucket(k)
              /\ Follows(Successor(k), k)
              /\ \A j \in Elements : Follows(j, k) => j = Successor(k) \/ Follows(j, Successor(k))
<1> USE PositionsHold
<1>1. PICK b, i, c : b = Bucket(k) /\ i = Place(k) /\ c = table[b]
  OBVIOUS
<1>2. b \in 0 .. Size - 1 /\ i \in 1 .. Len(c) /\ c[i] = k /\ c \in Seq(Keys) /\ Len(c) \in Nat
  BY <1>1 DEF Positions
<1>3. Successor(k) = IF i < Len(c) THEN c[i + 1] ELSE Null
  BY <1>1 DEF Successor
<1>4. \A j \in Elements : Bucket(j) = b => Place(j) \in 1 .. Len(c) /\ c[Place(j)] = j
  BY <1>1 DEF Positions
<1>5. CASE i < Len(c)
  <2>1. PICK y : y = c[i + 1]
    OBVIOUS
  <2>2. i + 1 \in 1 .. Len(c)
    BY <1>2, <1>5
  <2>3. y \in Elements /\ y \in Keys /\ Bucket(y) = b /\ Place(y) = i + 1
    BY <1>1, <1>2, <2>1, <2>2 DEF Positions
  <2>4. y # Null /\ Follows(y, k)
    BY <1>1, <1>2, <2>3, NullAssumption DEF Follows
  <2>5. ASSUME NEW j \in Elements, Follows(j, k) PROVE j = y \/ Follows(j, y)
    <3>1. CASE Bucket(j) > b
      BY <2>3, <3>1 DEF Follows
    <3>2. CASE Bucket(j) = b /\ Place(j) > i
      <4>1. Place(j) = i + 1 \/ Place(j) > i + 1
        BY <1>2, <1>4, <3>2
      <4> QED BY <1>4, <2>1, <2>3, <3>2, <4>1 DEF Follows
    <3>3. b \in Int /\ Bucket(j) \in Int
      BY <1>2 DEF Positions
    <3> QED BY <1>1, <2>5, <3>1, <3>2, <3>3 DEF Follows
  <2> QED BY <1>1, <1>3, <1>5, <2>1, <2>3, <2>4, <2>5
<1>6. CASE ~(i < Len(c))
  <2>1. ASSUME NEW j \in Elements, Follows(j, k) PROVE Bucket(j) > Bucket(k)
    <3>1. Bucket(j) = b => ~(Place(j) > i)
      BY <1>2, <1>4, <1>6
    <3> QED BY <1>1, <2>1, <3>1 DEF Follows
  <2> QED BY <1>3, <1>6, <2>1
<1> QED BY <1>5, <1>6

LEMMA AfterIs ==
  ASSUME TableInv, NEW k \in Elements
  PROVE  /\ After(k).pos \in 0 .. Size - 1
         /\ After(k).element = Null => \A j \in Elements : ~Follows(j, k)
         /\ After(k).element # Null =>
              /\ After(k).element \in Elements /\ Follows(After(k).element, k)
              /\ \A j \in Elements : Follows(j, k) => j = After(k).element
                                                     \/ Follows(j, After(k).element)
<1>1. Bucket(k) \in 0 .. Size - 1 /\ k \in Keys /\ \A j \in Elements : Bucket(j) \in Nat
  BY PositionsHold DEF Positions
<1>2. PICK search : search = NextBucket(Bucket(k))
  OBVIOUS
<1>3. After(k) = IF Successor(k) # Null THEN [element |-> Successor(k), pos |-> Bucket(k)]
                 ELSE [element |-> IF search.ahead THEN HeadOf(search.pos) ELSE Null,
                       pos |-> search.pos]
  BY <1>2 DEF After
<1>4. search.pos \in 0 .. Size - 1
  BY <1>1, <1>2, SearchIs
<1>5. CASE Successor(k) # Null
  BY <1>1, <1>3, <1>5, SuccessorIs
<1>6. CASE Successor(k) = Null
  <2>1. \A j \in Elements : Follows(j, k) => Bucket(j) > Bucket(k)
    BY <1>6, SuccessorIs
  <2>2. CASE search.ahead
    <3>1. /\ search.pos > Bucket(k) /\ table[search.pos] # <<>>
          /\ \A j \in Elements : Bucket(j) > Bucket(k) => Bucket(j) >= search.pos
      BY <1>1, <1>2, <2>2, SearchIs
    <3>2. PICK y : y = HeadOf(search.pos)
      OBVIOUS
    <3>3. y \in Elements /\ Bucket(y) = search.pos
      BY <1>4, <3>1, <3>2, HeadIs
    <3>4. \A j \in Elements : Bucket(j) = search.pos => j = y \/ Follows(j, y)
      BY <1>4, <3>1, <3>2, HeadIs
    <3>5. Follows(y, k)
      BY <3>1, <3>3 DEF Follows
    <3>6. ASSUME NEW j \in Elements, Follows(j, k) PROVE j = y \/ Follows(j, y)
      <4>1. Bucket(j) >= search.pos
        BY <2>1, <3>1, <3>6
      <4>2. Bucket(j) = search.pos \/ Bucket(j) > Bucket(y)
        BY <1>1, <1>4, <3>3, <4>1
      <4> QED BY <3>4, <4>2 DEF Follows
    <3>7. y # Null
      BY <3>3, NullAssumption, PositionsHold DEF Positions
    <3>8. After(k).element = y /\ After(k).pos = search.pos
      BY <1>3, <1>6, <2>2, <3>2
    <3> QED BY <1>4, <3>3, <3>5, <3>6, <3>7, <3>8
  <2>3. CASE ~search.ahead
    <3>1. \A j \in Elements : Bucket(j) <= Bucket(k)
      BY <1>1, <1>2, <2>3, SearchIs
    <3>2. \A j \in Elements : ~Follows(j, k)
      BY <1>1, <2>1, <3>1
    <3>3. After(k).element = Null /\ After(k).pos = search.pos
      BY <1>3, <1>6, <2>3
    <3> QED BY <1>4, <3>2, <3>3
  <2> QED BY <2>2, <2>3
<1> QED BY <1>5, <1>6

-----------------------------------------------------------------------------
(* The objects and their references.                                           *)

LEMMA HaversFacts ==
  ASSUME ObjectInv
  PROVE  /\ \A o : IsFiniteSet(Havers(o)) /\ Cardinality(Havers(o)) \in Nat
         /\ \A o : Cardinality(Havers(o)) = 0 <=> Havers(o) = {}
         /\ \A o \in alive : ref[o] = 0 <=> ~\E k \in Elements : data[k] = o
         /\ \A o \in hand : ref[o] = 0
         /\ \A k \in Elements : data[k] \in Objects /\ data[k] \in alive /\ ref[data[k]] \in Nat \ {0}
<1>1. ASSUME NEW o
      PROVE  /\ IsFiniteSet(Havers(o)) /\ Cardinality(Havers(o)) \in Nat
             /\ Cardinality(Havers(o)) = 0 <=> Havers(o) = {}
  <2>1. Havers(o) \in SUBSET Elements /\ IsFiniteSet(Elements)
    BY DEF Havers, ObjectInv
  <2>2. IsFiniteSet(Havers(o))
    BY <2>1, FS_Subset
  <2> QED BY <2>2, FS_CardinalityType, FS_EmptySet
<1>2. ASSUME NEW o \in alive PROVE ref[o] = 0 <=> ~\E k \in Elements : data[k] = o
  <2>1. ref[o] = Cardinality(Havers(o))
    BY DEF ObjectInv
  <2> QED BY <1>1, <2>1 DEF Havers
<1>3. ASSUME NEW o \in hand PROVE ref[o] = 0
  BY <1>2 DEF ObjectInv
<1>4. ASSUME NEW k \in Elements
      PROVE  data[k] \in Objects /\ data[k] \in alive /\ ref[data[k]] \in Nat \ {0}
  <2>1. data[k] \in Objects /\ data[k] \in alive
    BY DEF ObjectInv
  <2>2. ref[data[k]] \in Nat /\ ref[data[k]] # 0
    BY <1>2, <2>1 DEF ObjectInv
  <2> QED BY <2>1, <2>2
<1> QED BY <1>1, <1>2, <1>3, <1>4

\* Only k may have come to o, or gone from it.
LEMMA HaversDiffer ==
  ASSUME ObjectInv, IsFiniteSet(Elements'), NEW k, NEW o,
         \A j : j # k => (j \in Elements' <=> j \in Elements),
         \A j \in Elements : j # k => data'[j] = data[j]
  PROVE  Cardinality((Havers(o))')
           = Cardinality(Havers(o)) + One(k \in (Havers(o))') - One(k \in Havers(o))
<1>1. PICK S, T : S = Havers(o) /\ T = (Havers(o))'
  OBVIOUS
<1>2. S = {j \in Elements : data[j] = o} /\ T = {j \in Elements' : data'[j] = o}
  BY <1>1 DEF Havers
<1>3. \A j : j # k => (j \in S <=> j \in T)
  BY <1>2
<1>4. IsFiniteSet(S)
  BY <1>1, HaversFacts
<1>5. T \in SUBSET Elements'
  BY <1>2
<1>6. IsFiniteSet(T)
  BY <1>5, FS_Subset
<1>7. Cardinality(T) = Cardinality(S) + One(k \in T) - One(k \in S)
  BY <1>3, <1>4, <1>6, DifferInOne
<1> QED BY <1>1, <1>7

\* The types and the count of the elements.
ObjectTypes ==
  /\ IsFiniteSet(Elements) /\ count = Cardinality(Elements)
  /\ data \in [Keys -> Objects \cup {Null}] /\ ref \in [Objects -> Nat]
  /\ hand \subseteq alive /\ alive \subseteq Objects

\* Every count is right when it was and what changed it changed it so.
LEMMA ObjectsRight ==
  ASSUME ObjectInv, ObjectTypes', NEW k,
         \A j : j # k => (j \in Elements' <=> j \in Elements),
         \A j \in Elements : j # k => data'[j] = data[j],
         \A o \in alive' : o \in alive
           /\ ref'[o] = ref[o] + One(k \in (Havers(o))') - One(k \in Havers(o))
  PROVE  \A o \in alive' : ref'[o] = Cardinality((Havers(o))')
<1> TAKE o \in alive'
<1>1. ref[o] = Cardinality(Havers(o))
  BY DEF ObjectInv
<1>2. IsFiniteSet(Elements')
  BY DEF ObjectTypes
<1>3. Cardinality((Havers(o))')
        = Cardinality(Havers(o)) + One(k \in (Havers(o))') - One(k \in Havers(o))
  BY <1>2, HaversDiffer
<1> QED BY <1>1, <1>3

\* An object whose count is not zero has an element, one whose count is zero none.
LEMMA HadWhenCounted ==
  ASSUME ObjectTypes, NEW o, ref[o] = Cardinality(Havers(o))
  PROVE  ref[o] = 0 <=> ~\E k \in Elements : data[k] = o
<1>1. Havers(o) \in SUBSET Elements /\ IsFiniteSet(Elements)
  BY DEF Havers, ObjectTypes
<1>2. IsFiniteSet(Havers(o))
  BY <1>1, FS_Subset
<1>3. Cardinality(Havers(o)) = 0 <=> Havers(o) = {}
  BY <1>2, FS_EmptySet
<1> QED BY <1>3 DEF Havers

Counted(o) ==
  ObjectTypes /\ ref[o] = Cardinality(Havers(o)) => (ref[o] = 0 <=> ~\E k \in Elements : data[k] = o)

AllCounted == \A o : Counted(o)

LEMMA AllCountedNow == AllCounted
BY HadWhenCounted DEF AllCounted, Counted

LEMMA AllCountedNext == AllCounted'
BY AllCountedNow, PTL

LEMMA CountedNext ==
  ASSUME ObjectTypes', NEW o, ref'[o] = Cardinality((Havers(o))')
  PROVE  ref'[o] = 0 <=> ~\E k \in Elements' : data'[k] = o
BY AllCountedNext DEF AllCounted, Counted

\* A count that goes down.
LEMMA Decremented ==
  ASSUME ObjectInv, NEW k \in Elements
  PROVE  /\ Dec(ref, data[k]) \in [Objects -> Nat]
         /\ \A o \in Objects : Dec(ref, data[k])[o] = IF o = data[k] THEN ref[o] - 1 ELSE ref[o]
<1>1. data[k] \in Objects /\ ref[data[k]] \in Nat \ {0} /\ ref \in [Objects -> Nat]
  BY HaversFacts DEF ObjectInv
<1> QED BY <1>1 DEF Dec

LEMMA ObjectsKept ==
  ASSUME ObjectInv, Elements' = Elements, UNCHANGED <<count, data, objects>>
  PROVE  ObjectInv'
<1>1. \A o : (Havers(o))' = Havers(o)
  BY DEF Havers
<1> QED BY <1>1 DEF ObjectInv, objects

LEMMA ObjectMade ==
  ASSUME ObjectInv, Elements' = Elements, NEW o \in Objects, New(o)
  PROVE  ObjectInv'
<1>1. /\ o \notin alive /\ alive' = alive \cup {o} /\ hand' = hand \cup {o}
      /\ ref' = [ref EXCEPT ![o] = 0] /\ data' = data /\ count' = count
  BY DEF New, hashTable
<1>2. \A q : (Havers(q))' = Havers(q)
  BY <1>1 DEF Havers
<1>3. Havers(o) = {}
  BY <1>1 DEF Havers, ObjectInv
<1>4. ref'[o] = Cardinality(Havers(o))
  BY <1>1, <1>3, FS_EmptySet DEF ObjectInv
<1>5. \A q \in alive : q # o /\ ref'[q] = ref[q]
  BY <1>1 DEF ObjectInv
<1>6. ref' \in [Objects -> Nat]
  BY <1>1 DEF ObjectInv
<1> QED BY <1>1, <1>2, <1>4, <1>5, <1>6 DEF ObjectInv

LEMMA ObjectDropped ==
  ASSUME ObjectInv, Elements' = Elements, NEW o \in Objects, Drop(o)
  PROVE  ObjectInv' /\ alive' = alive \ {o}
<1>1. /\ o \in hand /\ alive' = Survivors(alive, o) /\ hand' = hand \ {o}
      /\ ref' = Dec(ref, o) /\ data' = data /\ count' = count
  BY DEF Drop, hashTable
<1>2. ref[o] = 0 /\ ref \in [Objects -> Nat]
  BY <1>1, HaversFacts DEF ObjectInv
<1>3. ref' = ref
  BY <1>1, <1>2 DEF Dec
<1>4. alive' = alive \ {o}
  BY <1>1, <1>2, <1>3 DEF Survivors
<1>5. \A q : (Havers(q))' = Havers(q)
  BY <1>1 DEF Havers
<1>6. \A j \in Elements : data[j] # o
  BY <1>1 DEF ObjectInv
<1> QED BY <1>1, <1>3, <1>4, <1>5, <1>6 DEF ObjectInv

\* An element less: the types and who has what.
LEMMA CutObjects ==
  ASSUME TableInv, ObjectInv, NEW k \in Elements, Cut(k), ref' = Dec(ref, data[k]),
         hand' \subseteq alive', alive' \subseteq alive
  PROVE  /\ ObjectTypes'
         /\ \A o \in alive' : ref'[o] = Cardinality((Havers(o))')
         /\ \A j \in Elements' : j \in Elements /\ j # k /\ data'[j] = data[j]
         /\ \A j \in Elements : j # k => j \in Elements' /\ data'[j] = data[j]
<1>1. Elements' = Elements \ {k} /\ count' = count - 1 /\ data' = [data EXCEPT ![k] = Null]
  BY CutEffect
<1>2. IsFiniteSet(Elements') /\ count' = Cardinality(Elements')
  BY <1>1, FS_RemoveElement DEF ObjectInv
<1>3. Elements \subseteq Keys /\ data \in [Keys -> Objects \cup {Null}]
  BY PositionsHold DEF Positions, ObjectInv
<1>4. data' \in [Keys -> Objects \cup {Null}] /\ \A j \in Elements : j # k => data'[j] = data[j]
  BY <1>1, <1>3
<1>5. ref' \in [Objects -> Nat]
  BY Decremented
<1>6. ObjectTypes'
  BY <1>2, <1>4, <1>5 DEF ObjectInv, ObjectTypes
<1>7. \A j : j # k => (j \in Elements' <=> j \in Elements)
  BY <1>1
<1>8. \A o \in alive' : o \in alive /\ ref'[o] = ref[o] + One(k \in (Havers(o))') - One(k \in Havers(o))
  <2> TAKE o \in alive'
  <2>1. o \in alive /\ o \in Objects /\ ref[o] \in Nat
    BY DEF ObjectInv
  <2>2. ref'[o] = IF o = data[k] THEN ref[o] - 1 ELSE ref[o]
    BY <2>1, Decremented
  <2>3. k \notin (Havers(o))' /\ (k \in Havers(o) <=> o = data[k])
    BY <1>1 DEF Havers
  <2> QED BY <2>1, <2>2, <2>3 DEF One
<1>9. \A o \in alive' : ref'[o] = Cardinality((Havers(o))')
  BY <1>4, <1>6, <1>7, <1>8, ObjectsRight
<1> QED BY <1>1, <1>4, <1>6, <1>9

\* Its object is destroyed when nothing else has it ...
LEMMA ObjectsCut ==
  ASSUME TableInv, ObjectInv, NEW k \in Elements, Cut(k), ref' = Dec(ref, data[k]),
         alive' = Survivors(alive, data[k]), hand' = hand
  PROVE  ObjectInv'
<1>1. PICK a : a = data[k]
  OBVIOUS
<1>2. a \in alive /\ a \in Objects /\ a \notin hand
  BY <1>1, HaversFacts DEF ObjectInv
<1>3. alive' = IF ref'[a] = 0 THEN alive \ {a} ELSE alive
  BY <1>1 DEF Survivors
<1>4. hand' \subseteq alive' /\ alive' \subseteq alive
  BY <1>2, <1>3 DEF ObjectInv
<1>5. ObjectTypes'
  BY <1>4, CutObjects
<1>6. \A o \in alive' : ref'[o] = Cardinality((Havers(o))')
  BY <1>4, CutObjects
<1>7. \A j \in Elements' : j \in Elements /\ j # k /\ data'[j] = data[j]
  BY <1>4, CutObjects
<1>8. \A j \in Elements : j # k => j \in Elements' /\ data'[j] = data[j]
  BY <1>4, CutObjects
<1>9. ref'[a] = Cardinality((Havers(a))')
  <2>1. CASE a \in alive'
    BY <1>6, <2>1
  <2>2. CASE a \notin alive'
    <3>1. ref'[a] = 0 /\ ref'[a] = ref[a] - 1 /\ ref[a] = Cardinality(Havers(a)) /\ ref[a] \in Nat
      BY <1>1, <1>2, <1>3, <2>2, Decremented DEF ObjectInv
    <3>2. k \in Havers(a) /\ k \notin (Havers(a))'
      BY <1>1, <1>7 DEF Havers
    <3>3. \A j : j # k => (j \in Elements' <=> j \in Elements)
      BY <1>7, <1>8
    <3>4. \A j \in Elements : j # k => data'[j] = data[j]
      BY <1>8
    <3>5. IsFiniteSet(Elements')
      BY <1>5 DEF ObjectTypes
    <3>6. Cardinality((Havers(a))')
            = Cardinality(Havers(a)) + One(k \in (Havers(a))') - One(k \in Havers(a))
      BY <3>3, <3>4, <3>5, HaversDiffer
    <3> QED BY <3>1, <3>2, <3>6 DEF One
  <2> QED BY <2>1, <2>2
<1>10. ref'[a] = 0 <=> ~\E j \in Elements' : data'[j] = a
  BY <1>5, <1>9, CountedNext
<1>11. \A j \in Elements' : data'[j] \in alive' \ hand'
  BY <1>3, <1>7, <1>10 DEF ObjectInv
<1>12. \A o \in alive' : o \in hand' \/ \E j \in Elements' : data'[j] = o
  <2> TAKE o \in alive'
  <2>1. CASE o = a
    BY <1>3, <1>10, <2>1
  <2>2. CASE o # a
    <3>1. o \in hand \/ \E j \in Elements : data[j] = o
      BY <1>4 DEF ObjectInv
    <3> QED BY <1>1, <1>8, <2>2, <3>1
  <2> QED BY <2>1, <2>2
<1> QED BY <1>5, <1>6, <1>11, <1>12 DEF ObjectInv, ObjectTypes

\* ... or given to the application.
LEMMA ObjectsReleased ==
  ASSUME TableInv, ObjectInv, NEW k \in Elements, Cut(k), Release(k)
  PROVE  /\ ObjectInv'
         /\ hand' = hand \cup ({data[k]} \ {data'[j] : j \in Elements'})
<1>1. PICK a : a = data[k]
  OBVIOUS
<1>2. a \in alive /\ a \in Objects /\ a \notin hand
  BY <1>1, HaversFacts DEF ObjectInv
<1>3. /\ ref' = Dec(ref, data[k]) /\ alive' = alive
      /\ hand' = IF ref'[a] = 0 THEN hand \cup {a} ELSE hand
  BY <1>1 DEF Release
<1>4. hand' \subseteq alive' /\ alive' \subseteq alive
  BY <1>2, <1>3 DEF ObjectInv
<1>5. ObjectTypes'
  BY <1>3, <1>4, CutObjects
<1>6. \A o \in alive' : ref'[o] = Cardinality((Havers(o))')
  BY <1>3, <1>4, CutObjects
<1>7. \A j \in Elements' : j \in Elements /\ j # k /\ data'[j] = data[j]
  BY <1>3, <1>4, CutObjects
<1>8. \A j \in Elements : j # k => j \in Elements' /\ data'[j] = data[j]
  BY <1>3, <1>4, CutObjects
<1>9. ref'[a] = 0 <=> ~\E j \in Elements' : data'[j] = a
  BY <1>2, <1>3, <1>5, <1>6, CountedNext
<1>10. \A j \in Elements' : data'[j] \in alive' \ hand'
  BY <1>3, <1>7, <1>9 DEF ObjectInv
<1>11. \A o \in alive' : o \in hand' \/ \E j \in Elements' : data'[j] = o
  <2> TAKE o \in alive'
  <2>1. CASE o = a
    BY <1>3, <1>9, <2>1
  <2>2. CASE o # a
    <3>1. o \in hand \/ \E j \in Elements : data[j] = o
      BY <1>4 DEF ObjectInv
    <3> QED BY <1>1, <1>3, <1>8, <2>2, <3>1
  <2> QED BY <2>1, <2>2
<1>12. hand' = hand \cup ({data[k]} \ {data'[j] : j \in Elements'})
  BY <1>1, <1>3, <1>9
<1> QED BY <1>5, <1>6, <1>10, <1>11, <1>12 DEF ObjectInv, ObjectTypes

\* An element more, or another object of an element.
LEMMA ObjectAdded ==
  ASSUME TableInv, ObjectInv, NEW k \in Keys, NEW o \in Objects, ValSetNew(k, o)
  PROVE  /\ ObjectInv' /\ k \notin Elements /\ count \in Nat
         /\ Elements' = Elements \cup {k} /\ data' = [data EXCEPT ![k] = o]
         /\ hand' = hand \ {o} /\ o \in alive
<1>1. k \notin Elements
  BY FoundIs DEF ValSetNew
<1>2. count \in Nat
  BY FS_CardinalityType DEF ObjectInv
<1>3. /\ o \in hand \cup {data[j] : j \in Elements} /\ Push(k)
      /\ data' = [data EXCEPT ![k] = o] /\ ref' = Inc(ref, o) /\ hand' = hand \ {o}
      /\ alive' = alive
  BY DEF ValSetNew
<1>4. Elements' = Elements \cup {k} /\ count' = count + 1
  BY <1>1, <1>2, <1>3, PushEffect
<1>5. o \in alive
  BY <1>3 DEF ObjectInv
<1>6. IsFiniteSet(Elements') /\ count' = Cardinality(Elements')
  BY <1>1, <1>4, FS_AddElement DEF ObjectInv
<1>7. Elements \subseteq Keys /\ data \in [Keys -> Objects \cup {Null}] /\ ref \in [Objects -> Nat]
  BY PositionsHold DEF Positions, ObjectInv
<1>8. /\ data' \in [Keys -> Objects \cup {Null}] /\ data'[k] = o
      /\ \A j \in Elements : j # k => data'[j] = data[j]
  BY <1>3, <1>7
<1>9. /\ ref' \in [Objects -> Nat]
      /\ \A q \in Objects : ref'[q] = IF q = o THEN ref[q] + 1 ELSE ref[q]
  BY <1>3, <1>7 DEF Inc
<1>10. ObjectTypes'
  BY <1>3, <1>6, <1>8, <1>9 DEF ObjectTypes, ObjectInv
<1>11. \A j : j # k => (j \in Elements' <=> j \in Elements)
  BY <1>4
<1>12. \A q \in alive' : q \in alive /\ ref'[q] = ref[q] + One(k \in (Havers(q))') - One(k \in Havers(q))
  <2> TAKE q \in alive'
  <2>1. q \in alive /\ q \in Objects /\ ref[q] \in Nat
    BY <1>3, <1>7 DEF ObjectInv
  <2>2. k \notin Havers(q) /\ (k \in (Havers(q))' <=> q = o)
    BY <1>1, <1>4, <1>8 DEF Havers
  <2> QED BY <1>9, <2>1, <2>2 DEF One
<1>13. \A q \in alive' : ref'[q] = Cardinality((Havers(q))')
  BY <1>8, <1>10, <1>11, <1>12, ObjectsRight
<1>14. \A j \in Elements' : data'[j] \in alive' \ hand'
  BY <1>1, <1>3, <1>4, <1>5, <1>8 DEF ObjectInv
<1>15. \A q \in alive' : q \in hand' \/ \E j \in Elements' : data'[j] = q
  <2> TAKE q \in alive'
  <2>1. CASE q = o
    BY <1>4, <1>8, <2>1
  <2>2. CASE q # o
    <3>1. q \in hand \/ \E j \in Elements : data[j] = q
      BY <1>3 DEF ObjectInv
    <3> QED BY <1>1, <1>3, <1>4, <1>8, <2>2, <3>1
  <2> QED BY <2>1, <2>2
<1> QED BY <1>1, <1>2, <1>3, <1>4, <1>5, <1>10, <1>13, <1>14, <1>15 DEF ObjectInv, ObjectTypes

LEMMA ObjectReplaced ==
  ASSUME TableInv, ObjectInv, NEW k \in Keys, NEW o \in Objects, ValSetOld(k, o)
  PROVE  /\ ObjectInv' /\ k \in Elements /\ Elements' = Elements
         /\ data' = [data EXCEPT ![k] = o] /\ hand' = hand \ {o} /\ o \in alive
<1>1. k \in Elements
  BY FoundIs DEF ValSetOld
<1>2. PICK a : a = data[k]
  OBVIOUS
<1>3. /\ o \in hand \cup {data[j] : j \in Elements} /\ o # a
      /\ ref' = Inc(Dec(ref, data[k]), o) /\ alive' = Survivors(alive, data[k])
      /\ data' = [data EXCEPT ![k] = o] /\ hand' = hand \ {o}
      /\ table' = table /\ logsize' = logsize /\ count' = count
  BY <1>2 DEF ValSetOld
<1>4. Elements' = Elements
  BY <1>3 DEF Elements
<1>5. o \in alive /\ a \in alive /\ a \in Objects /\ a \notin hand
  BY <1>1, <1>2, <1>3, HaversFacts DEF ObjectInv
<1>6. Elements \subseteq Keys /\ data \in [Keys -> Objects \cup {Null}]
  BY PositionsHold DEF Positions, ObjectInv
<1>7. /\ data' \in [Keys -> Objects \cup {Null}] /\ data'[k] = o
      /\ \A j \in Elements : j # k => data'[j] = data[j]
  BY <1>3, <1>6
<1>8. PICK r : r = Dec(ref, a)
  OBVIOUS
<1>9. r \in [Objects -> Nat] /\ \A q \in Objects : r[q] = IF q = a THEN ref[q] - 1 ELSE ref[q]
  BY <1>1, <1>2, <1>8, Decremented
<1>10. /\ ref' \in [Objects -> Nat]
       /\ \A q \in Objects : ref'[q] = IF q = o THEN r[q] + 1 ELSE r[q]
  BY <1>2, <1>3, <1>8, <1>9 DEF Inc
<1>11. alive' = IF ref'[a] = 0 THEN alive \ {a} ELSE alive
  BY <1>2, <1>3, <1>5, <1>8, <1>10 DEF Survivors
<1>12. hand' \subseteq alive' /\ alive' \subseteq alive
  BY <1>3, <1>5, <1>11 DEF ObjectInv
<1>13. ObjectTypes'
  BY <1>3, <1>4, <1>7, <1>10, <1>12 DEF ObjectTypes, ObjectInv
<1>14. \A q \in alive : ref'[q] = ref[q] + One(k \in (Havers(q))') - One(k \in Havers(q))
  <2> TAKE q \in alive
  <2>1. q \in Objects /\ ref[q] \in Nat
    BY DEF ObjectInv
  <2>2. (k \in Havers(q) <=> q = a) /\ (k \in (Havers(q))' <=> q = o)
    BY <1>1, <1>2, <1>4, <1>7 DEF Havers
  <2> QED BY <1>3, <1>9, <1>10, <2>1, <2>2 DEF One
<1>15. \A j : j # k => (j \in Elements' <=> j \in Elements)
  BY <1>4
<1>16. \A q \in alive : ref'[q] = Cardinality((Havers(q))')
  <2> TAKE q \in alive
  <2>1. ref[q] = Cardinality(Havers(q))
    BY DEF ObjectInv
  <2>2. IsFiniteSet(Elements')
    BY <1>13 DEF ObjectTypes
  <2>3. Cardinality((Havers(q))')
          = Cardinality(Havers(q)) + One(k \in (Havers(q))') - One(k \in Havers(q))
    BY <1>7, <1>15, <2>2, HaversDiffer
  <2> QED BY <1>14, <2>1, <2>3
<1>17. ref'[a] = 0 <=> ~\E j \in Elements' : data'[j] = a
  BY <1>5, <1>13, <1>16, CountedNext
<1>18. \A j \in Elements' : data'[j] \in alive' \ hand'
  <2> TAKE j \in Elements'
  <2>1. CASE j = k
    BY <1>3, <1>5, <1>7, <1>11, <2>1
  <2>2. CASE j # k
    BY <1>3, <1>4, <1>7, <1>11, <1>17, <2>2 DEF ObjectInv
  <2> QED BY <2>1, <2>2
<1>19. \A q \in alive' : q \in hand' \/ \E j \in Elements' : data'[j] = q
  <2> TAKE q \in alive'
  <2>1. CASE q = a
    BY <1>11, <1>17, <2>1
  <2>2. CASE q = o
    BY <1>1, <1>4, <1>7, <2>2
  <2>3. CASE q # a /\ q # o
    <3>1. q \in hand \/ \E j \in Elements : data[j] = q
      BY <1>12 DEF ObjectInv
    <3> QED BY <1>2, <1>3, <1>4, <1>7, <2>3, <3>1
  <2> QED BY <2>1, <2>2, <2>3
<1>20. \A q \in alive' : ref'[q] = Cardinality((Havers(q))')
  BY <1>12, <1>16
<1> QED BY <1>1, <1>3, <1>4, <1>5, <1>13, <1>18, <1>19, <1>20 DEF ObjectInv, ObjectTypes

LEMMA ObjectsGone ==
  ASSUME ObjectInv, Elements = {}, Elements' = {}, count' = 0,
         data' = [k \in Keys |-> Null], UNCHANGED objects
  PROVE  ObjectInv'
<1>1. Cardinality({}) = 0 /\ IsFiniteSet({})
  BY FS_EmptySet
<1>2. \A o : Havers(o) = {} /\ (Havers(o))' = {}
  BY DEF Havers
<1>3. data' \in [Keys -> Objects \cup {Null}]
  OBVIOUS
<1> QED BY <1>1, <1>2, <1>3 DEF ObjectInv, objects

-----------------------------------------------------------------------------
(* The walk.                                                                   *)

LEMMA WalkTypes ==
  ASSUME TableInv, WalkInv
  PROVE  /\ Elements \subseteq Keys /\ seen \subseteq Keys /\ due \subseteq Keys
         /\ \A k \in Keys : Bucket(k) \in Nat
         /\ Null \notin Keys /\ Freed \notin Keys
BY PositionsHold, NullAssumption DEF Positions, WalkInv

\* What a walk says of the elements it comes to does not depend on their places,
\* only on their order; k may be added as the first of its bucket, or taken.
LEMMA ComingKept ==
  ASSUME TableInv, WalkInv, NEW n, Coming(n), SameBuckets, seen' = seen, due' = due \cap Elements',
         n \in Elements',
         KeptOrder(Elements \cap Elements'),
         \A k \in Elements' \ Elements : k \in Keys /\ ((Follows(k, n))' => Bucket(k) > Bucket(n))
  PROVE  Coming(n)'
<1>1. /\ n \in Elements \ seen
      /\ \A j \in due : j = n \/ Follows(j, n)
      /\ \A j \in Elements : Follows(j, n) => j \notin seen
      /\ \A j \in seen : Bucket(j) <= Bucket(n)
  BY DEF Coming
<1>2. n \in Keys /\ \A j \in Keys : (Bucket(j))' = Bucket(j) /\ Bucket(j) \in Nat
  BY <1>1, WalkTypes DEF SameBuckets
<1>3. due \subseteq Elements /\ seen \subseteq Keys
  BY DEF WalkInv
<1>4. \A j \in Elements \cap Elements' : (Follows(j, n))' <=> Follows(j, n)
  BY <1>1 DEF KeptOrder
<1>5. \A j \in due' : j = n \/ (Follows(j, n))'
  BY <1>1, <1>3, <1>4
<1>6. \A j \in Elements' : (Follows(j, n))' => j \notin seen'
  <2> SUFFICES ASSUME NEW j \in Elements', (Follows(j, n))' PROVE j \notin seen
    OBVIOUS
  <2>1. CASE j \in Elements
    BY <1>1, <1>4, <2>1
  <2>2. CASE j \notin Elements
    <3>1. j \in Keys /\ Bucket(j) > Bucket(n)
      BY <2>2
    <3>2. Bucket(j) \in Nat /\ Bucket(n) \in Nat
      BY <1>2, <3>1
    <3>3. ~(Bucket(j) <= Bucket(n))
      BY <3>1, <3>2
    <3> QED BY <1>1, <3>3
  <2> QED BY <2>1, <2>2
<1>7. \A j \in seen' : (Bucket(j))' <= (Bucket(n))'
  BY <1>1, <1>2, <1>3
<1> QED BY <1>1, <1>5, <1>6, <1>7 DEF Coming

\* Between two steps of the walk: elements may come and go, but for the next one.
LEMMA WalkKept ==
  ASSUME TableInv, WalkInv, Calm, seen' = seen, due' = due \cap Elements',
         itr' = itr \/ itr' = [itr EXCEPT !.current = Freed] \/ itr' = [itr EXCEPT !.current = Null],
         itr.at = "rest" =>
           /\ itr'.current \in Keys => itr'.current \in Elements'
           /\ itr.next # Null => itr.next \in Elements'
           /\ SameBuckets /\ KeptOrder(Elements \cap Elements')
           /\ \A k \in Elements' \ Elements :
                k \in Keys /\ \A n \in Elements : (Follows(k, n))' => Bucket(k) > Bucket(n)
  PROVE  WalkInv'
<1>1. PICK n : n = itr.next
  OBVIOUS
<1>2. /\ itr' \in Iterator /\ itr'.at = itr.at /\ itr'.next = n
      /\ itr'.current = itr.current \/ itr'.current \in {Freed, Null}
  BY <1>1 DEF WalkInv, Iterator, Pointers
<1>3. seen' \subseteq Keys /\ due' \subseteq Elements'
  BY DEF WalkInv
<1>4. itr.at \in {"none", "rest"}
  BY DEF Calm
<1>5. itr.at = "none" => due' = {} /\ seen' = {}
  BY DEF WalkInv
<1>6. itr.at = "rest" /\ itr'.current \in Keys => itr'.current \in Elements' \cap seen'
  BY <1>2, WalkTypes DEF WalkInv
<1>7. itr.at = "rest" /\ n = Null => due' = {}
  BY <1>1 DEF WalkInv
<1>8. ASSUME itr.at = "rest", n # Null PROVE Coming(n)'
  <2>1. Coming(n)
    BY <1>1, <1>8 DEF WalkInv
  <2>2. n \in Elements
    BY <2>1 DEF Coming
  <2>3. \A k \in Elements' \ Elements : k \in Keys /\ ((Follows(k, n))' => Bucket(k) > Bucket(n))
    BY <1>8, <2>2
  <2> QED BY <1>1, <1>8, <2>1, <2>3, ComingKept
<1> QED BY <1>2, <1>3, <1>4, <1>5, <1>6, <1>7, <1>8 DEF WalkInv

\* At rest, what has been seen is not due any more.
LEMMA SeenNotDue ==
  ASSUME TableInv, WalkInv, itr.at = "rest"
  PROVE  due \cap seen = {}
BY DEF WalkInv, Coming

LEMMA WalkGot ==
  ASSUME TableInv, WalkInv, ObjectInv, IteratorGet
  PROVE  TableInv' /\ SameElements /\ WalkInv'
<1>1. /\ itr' = [at |-> "rest", current |-> First, next |-> After(First).element]
      /\ apos' = After(First).pos /\ seen' = {First} /\ due' = Elements \ {First}
      /\ UNCHANGED <<table, logsize>> /\ count > 0
  BY DEF IteratorGet
<1>2. Elements # {}
  BY <1>1, FS_EmptySet DEF ObjectInv
<1>3. PICK f, n : f = First /\ n = After(First).element
  OBVIOUS
<1>4. f \in Elements /\ \A j \in Elements : j = f \/ Follows(j, f)
  BY <1>2, <1>3, FirstIs
<1>5. apos' \in 0 .. Size - 1
  BY <1>1, <1>3, <1>4, AfterIs
<1>6. n = Null => \A j \in Elements : ~Follows(j, f)
  BY <1>3, <1>4, AfterIs
<1>7. n # Null => n \in Elements /\ Follows(n, f) /\ \A j \in Elements : Follows(j, f) => j = n \/ Follows(j, n)
  BY <1>3, <1>4, AfterIs
<1>8. TableInv' /\ SameElements
  BY <1>1, <1>5, TableKept
<1>9. f \in Keys /\ Elements \subseteq Keys
  BY <1>4, WalkTypes
<1>10. itr' \in Iterator /\ itr'.at = "rest" /\ itr'.current = f /\ itr'.next = n
  BY <1>1, <1>3, <1>7, <1>9 DEF Iterator, Pointers
<1>11. n = Null => due' = {}
  BY <1>1, <1>3, <1>4, <1>6
<1>12. ASSUME n # Null PROVE Coming(n)'
  <2>1. n # f
    BY <1>4, <1>7, <1>12, FollowsOrder
  <2>2. \A j \in due' : j = n \/ Follows(j, n)
    BY <1>1, <1>3, <1>4, <1>7, <1>12
  <2>3. \A j \in Elements : Follows(j, n) => j # f
    BY <1>4, <1>7, <1>12, FollowsOrder
  <2>4. Bucket(n) >= Bucket(f)
    BY <1>4, <1>7, <1>12, FollowsOrder
  <2>5. /\ Elements' = Elements /\ (Bucket(f))' = Bucket(f) /\ (Bucket(n))' = Bucket(n)
        /\ \A j \in Elements : (Follows(j, n))' <=> Follows(j, n)
        /\ Bucket(f) \in Nat /\ Bucket(n) \in Nat
    BY <1>7, <1>8, <1>9, <1>12, WalkTypes DEF SameElements, KeptOrder, SameBuckets
  <2>6. n \in Elements' \ seen'
    BY <1>1, <1>3, <1>7, <1>12, <2>1, <2>5
  <2>7. \A j \in due' : j = n \/ (Follows(j, n))'
    BY <1>1, <2>2, <2>5
  <2>8. \A j \in Elements' : (Follows(j, n))' => j \notin seen'
    BY <1>1, <1>3, <2>3, <2>5
  <2>9. \A j \in seen' : (Bucket(j))' <= (Bucket(n))'
    BY <1>1, <1>3, <2>4, <2>5
  <2> QED BY <2>6, <2>7, <2>8, <2>9 DEF Coming
<1>13. Elements' = Elements
  BY <1>8 DEF SameElements
<1>14. seen' \subseteq Keys /\ due' \subseteq Elements' /\ f \in Elements' \cap seen'
  BY <1>1, <1>3, <1>4, <1>9, <1>13
<1>15. WalkInv'
  BY <1>10, <1>11, <1>12, <1>14 DEF WalkInv
<1> QED BY <1>8, <1>15

\* The step to the next element, as far as the chain goes.
LEMMA WalkStepped ==
  ASSUME TableInv, WalkInv, IteratorNext
  PROVE  TableInv' /\ SameElements /\ WalkInv'
<1>1. PICK k, y : k = itr.next /\ y = Successor(k)
  OBVIOUS
<1>2. /\ itr.at = "rest" /\ k \in Keys /\ apos' = Bucket(k)
      /\ itr' = [at |-> IF y = Null THEN "scan" ELSE "rest", current |-> k, next |-> y]
      /\ seen' = seen \cup {k} /\ due' = due \ {k} /\ UNCHANGED <<table, logsize>>
  BY <1>1 DEF IteratorNext
<1>3. Coming(k)
  BY <1>1, <1>2, NullAssumption DEF WalkInv
<1>4. /\ k \in Elements /\ k \notin seen
      /\ \A j \in due : j = k \/ Follows(j, k)
      /\ \A j \in Elements : Follows(j, k) => j \notin seen
      /\ \A j \in seen : Bucket(j) <= Bucket(k)
  BY <1>3 DEF Coming
<1>5. apos' \in 0 .. Size - 1
  BY <1>2, BucketType
<1>6. TableInv' /\ SameElements
  BY <1>2, <1>5, TableKept
<1>7. /\ Elements' = Elements /\ \A j \in Keys : (Bucket(j))' = Bucket(j) /\ Bucket(j) \in Nat
      /\ \A i, j \in Elements : (Follows(i, j))' <=> Follows(i, j)
  BY <1>6, WalkTypes DEF SameElements, KeptOrder, SameBuckets
<1>8. Elements \subseteq Keys /\ seen \subseteq Keys /\ due \subseteq Elements
  BY WalkTypes DEF WalkInv
<1>9. /\ seen' \subseteq Keys /\ due' \subseteq Elements' /\ k \in Elements' \cap seen'
  BY <1>2, <1>4, <1>7, <1>8
<1>10. CASE y = Null
  <2>1. \A j \in Elements : Follows(j, k) => Bucket(j) > Bucket(k)
    BY <1>1, <1>4, <1>10, SuccessorIs
  <2>2. itr' \in Iterator /\ itr'.at = "scan" /\ itr'.current = k /\ itr'.next = Null
    BY <1>2, <1>10 DEF Iterator, Pointers
  <2>3. \A j \in due' : (Bucket(j))' >= apos' + 1
    <3> TAKE j \in due'
    <3>1. j \in Keys /\ Bucket(j) > Bucket(k)
      BY <1>2, <1>4, <1>8, <2>1
    <3> QED BY <1>2, <1>7, <3>1
  <2>4. \A j \in Elements' : (Bucket(j))' >= apos' + 1 => j \notin seen'
    <3> SUFFICES ASSUME NEW j \in Elements, (Bucket(j))' >= apos' + 1 PROVE j \notin seen'
      BY <1>7
    <3>1. Bucket(j) \in Nat /\ Bucket(k) \in Nat /\ Bucket(j) >= Bucket(k) + 1
      BY <1>2, <1>7, <1>8
    <3>2. Follows(j, k) /\ j # k
      BY <3>1 DEF Follows
    <3> QED BY <1>2, <1>4, <3>2
  <2>5. \A j \in seen' : (Bucket(j))' < apos' + 1
    <3> TAKE j \in seen'
    <3>1. j \in Keys /\ Bucket(j) <= Bucket(k)
      BY <1>2, <1>4, <1>7, <1>8
    <3> QED BY <1>2, <1>7, <3>1
  <2> QED BY <1>6, <1>9, <2>2, <2>3, <2>4, <2>5 DEF WalkInv, Searching
<1>11. CASE y # Null
  <2>1. /\ y \in Elements /\ Bucket(y) = Bucket(k) /\ Follows(y, k)
        /\ \A j \in Elements : Follows(j, k) => j = y \/ Follows(j, y)
    BY <1>1, <1>4, <1>11, SuccessorIs
  <2>2. itr' \in Iterator /\ itr'.at = "rest" /\ itr'.current = k /\ itr'.next = y
    BY <1>2, <1>8, <1>11, <2>1 DEF Iterator, Pointers
  <2>3. y # k /\ y \notin seen
    BY <1>4, <2>1, FollowsOrder
  <2>4. \A j \in Elements : Follows(j, y) => j # k /\ Follows(j, k)
    BY <1>4, <2>1, FollowsOrder, FollowsOn
  <2>5. y \in Elements' \ seen'
    BY <1>2, <1>7, <2>1, <2>3
  <2>6. \A j \in due' : j = y \/ (Follows(j, y))'
    BY <1>2, <1>4, <1>7, <1>8, <2>1
  <2>7. \A j \in Elements' : (Follows(j, y))' => j \notin seen'
    BY <1>2, <1>4, <1>7, <2>1, <2>4
  <2>8. \A j \in seen' : (Bucket(j))' <= (Bucket(y))'
    <3> TAKE j \in seen'
    <3>1. j \in Keys /\ Bucket(j) <= Bucket(k)
      BY <1>2, <1>4, <1>7, <1>8
    <3> QED BY <1>7, <1>8, <2>1, <3>1
  <2>9. Coming(y)'
    BY <2>5, <2>6, <2>7, <2>8 DEF Coming
  <2> QED BY <1>6, <1>9, <1>11, <2>2, <2>9 DEF WalkInv
<1> QED BY <1>10, <1>11

\* The search for another bucket.
LEMMA WalkScanned ==
  ASSUME TableInv, WalkInv, Scan
  PROVE  TableInv' /\ SameElements /\ WalkInv'
<1>1. PICK a, ahead : a = NextBucket(apos).pos /\ ahead = NextBucket(apos).ahead
  OBVIOUS
<1>2. /\ itr.at = "scan" /\ apos' = a /\ UNCHANGED <<table, logsize, seen, due>>
      /\ itr' = [itr EXCEPT !.at = IF ahead THEN "read" ELSE "rest"]
  BY <1>1 DEF Scan
<1>3. apos \in 0 .. Size - 1 /\ apos \in Nat
  BY DEF TableInv
<1>4. a \in 0 .. Size - 1 /\ a \in Nat
  BY <1>1, <1>3, SearchIs
<1>5. ahead => a > apos /\ table[a] # <<>> /\ \A k \in Elements : Bucket(k) > apos => Bucket(k) >= a
  BY <1>1, <1>3, SearchIs
<1>6. ~ahead => \A k \in Elements : Bucket(k) <= apos
  BY <1>1, <1>3, SearchIs
<1>7. TableInv' /\ SameElements
  BY <1>2, <1>4, TableKept
<1>8. /\ Elements' = Elements /\ \A j \in Keys : (Bucket(j))' = Bucket(j) /\ Bucket(j) \in Nat
  BY <1>7, WalkTypes DEF SameElements, SameBuckets
<1>9. Elements \subseteq Keys /\ seen \subseteq Keys /\ due \subseteq Elements
  BY WalkTypes DEF WalkInv
<1>10. /\ itr.next = Null
       /\ \A j \in due : Bucket(j) >= apos + 1
       /\ \A j \in Elements : Bucket(j) >= apos + 1 => j \notin seen
       /\ \A j \in seen : Bucket(j) < apos + 1
  BY <1>2 DEF WalkInv, Searching
<1>11. /\ itr' \in Iterator /\ itr'.current = itr.current /\ itr'.next = Null
       /\ itr'.at = IF ahead THEN "read" ELSE "rest"
  BY <1>2, <1>10 DEF WalkInv, Iterator
<1>12. itr'.current \in Keys => itr'.current \in Elements' \cap seen'
  BY <1>2, <1>8, <1>11 DEF WalkInv
<1>13. CASE ahead
  <2>1. \A j \in due' : (Bucket(j))' >= apos'
    <3> TAKE j \in due'
    <3>1. j \in Elements /\ j \in Keys /\ Bucket(j) > apos
      BY <1>2, <1>3, <1>8, <1>9, <1>10
    <3> QED BY <1>2, <1>5, <1>8, <1>13, <3>1
  <2>2. \A j \in Elements' : (Bucket(j))' >= apos' => j \notin seen'
    <3> SUFFICES ASSUME NEW j \in Elements, (Bucket(j))' >= apos' PROVE j \notin seen
      BY <1>2, <1>8
    <3>1. Bucket(j) >= apos + 1
      BY <1>2, <1>3, <1>4, <1>5, <1>8, <1>9, <1>13
    <3> QED BY <1>10, <3>1
  <2>3. \A j \in seen' : (Bucket(j))' < apos'
    <3> TAKE j \in seen'
    <3>1. j \in Keys /\ Bucket(j) < apos + 1
      BY <1>2, <1>9, <1>10
    <3> QED BY <1>2, <1>3, <1>4, <1>5, <1>8, <1>13, <3>1
  <2>4. table'[apos'] # <<>>
    BY <1>2, <1>5, <1>13
  <2> QED BY <1>2, <1>7, <1>8, <1>9, <1>11, <1>12, <1>13, <2>1, <2>2, <2>3, <2>4 DEF WalkInv, Searching
<1>14. CASE ~ahead
  <2>1. \A j \in due : FALSE
    <3> TAKE j \in due
    <3>1. j \in Keys /\ Bucket(j) <= apos /\ Bucket(j) >= apos + 1 /\ Bucket(j) \in Nat
      BY <1>6, <1>8, <1>9, <1>10, <1>14
    <3> QED BY <1>3, <3>1
  <2>2. due' = {}
    BY <1>2, <2>1
  <2> QED BY <1>2, <1>7, <1>8, <1>9, <1>11, <1>12, <1>14, <2>2 DEF WalkInv
<1> QED BY <1>13, <1>14

LEMMA WalkRead ==
  ASSUME TableInv, WalkInv, Read
  PROVE  TableInv' /\ SameElements /\ WalkInv'
<1>1. PICK y : y = HeadOf(apos)
  OBVIOUS
<1>2. /\ itr.at = "read" /\ UNCHANGED <<table, logsize, apos, seen, due>>
      /\ itr' = [itr EXCEPT !.at = "rest", !.next = y]
  BY <1>1 DEF Read, hashTable
<1>3. apos \in 0 .. Size - 1 /\ apos \in Nat
  BY DEF TableInv
<1>4. TableInv' /\ SameElements
  BY <1>2, <1>3, TableKept
<1>5. /\ Elements' = Elements /\ \A j \in Keys : (Bucket(j))' = Bucket(j) /\ Bucket(j) \in Nat
      /\ \A i, j \in Elements : (Follows(i, j))' <=> Follows(i, j)
  BY <1>4, WalkTypes DEF SameElements, KeptOrder, SameBuckets
<1>6. Elements \subseteq Keys /\ seen \subseteq Keys /\ due \subseteq Elements
  BY WalkTypes DEF WalkInv
<1>7. /\ table[apos] # <<>>
      /\ \A j \in due : Bucket(j) >= apos
      /\ \A j \in Elements : Bucket(j) >= apos => j \notin seen
      /\ \A j \in seen : Bucket(j) < apos
  BY <1>2 DEF WalkInv, Searching
<1>8. /\ y \in Elements /\ Bucket(y) = apos
      /\ \A j \in Elements : Bucket(j) = apos => j = y \/ Follows(j, y)
  BY <1>1, <1>3, <1>7, HeadIs
<1>9. y \in Keys /\ y # Null
  BY <1>6, <1>8, WalkTypes
<1>10. itr' \in Iterator /\ itr'.at = "rest" /\ itr'.current = itr.current /\ itr'.next = y
  BY <1>2, <1>9 DEF WalkInv, Iterator, Pointers
<1>11. itr'.current \in Keys => itr'.current \in Elements' \cap seen'
  BY <1>2, <1>5, <1>10 DEF WalkInv
<1>12. y \in Elements' \ seen'
  BY <1>2, <1>3, <1>5, <1>7, <1>8
<1>13. \A j \in due' : j = y \/ (Follows(j, y))'
  <2> TAKE j \in due'
  <2>1. j \in Elements /\ Bucket(j) >= apos /\ Bucket(j) \in Nat
    BY <1>2, <1>5, <1>6, <1>7
  <2>2. Bucket(j) = apos \/ Bucket(j) > apos
    BY <1>3, <2>1
  <2>3. j = y \/ Follows(j, y)
    BY <1>8, <2>1, <2>2 DEF Follows
  <2> QED BY <1>5, <1>8, <2>1, <2>3
<1>14. \A j \in Elements' : (Follows(j, y))' => j \notin seen'
  <2> SUFFICES ASSUME NEW j \in Elements, Follows(j, y) PROVE j \notin seen
    BY <1>2, <1>5, <1>8
  <2>1. Bucket(j) >= apos
    BY <1>8, FollowsOrder
  <2> QED BY <1>7, <2>1
<1>15. \A j \in seen' : (Bucket(j))' <= (Bucket(y))'
  <2> TAKE j \in seen'
  <2>1. j \in Keys /\ Bucket(j) < apos /\ Bucket(j) \in Nat
    BY <1>2, <1>5, <1>6, <1>7
  <2> QED BY <1>3, <1>5, <1>8, <1>9, <2>1
<1>16. Coming(y)'
  BY <1>12, <1>13, <1>14, <1>15 DEF Coming
<1>17. seen' \subseteq Keys /\ due' \subseteq Elements'
  BY <1>2, <1>5, <1>6
<1> QED BY <1>4, <1>9, <1>10, <1>11, <1>16, <1>17 DEF WalkInv

LEMMA WalkDestroys ==
  ASSUME TableInv, WalkInv, Destroy
  PROVE  TableInv' /\ SameElements /\ WalkInv'
<1>1. PICK f : f = First
  OBVIOUS
<1>2. /\ itr.at = "none" /\ apos' = FirstPos /\ UNCHANGED <<table, logsize, seen, due>>
      /\ itr' = [NoIterator EXCEPT !.at = "destroy", !.next = f]
  BY <1>1 DEF Destroy
<1>3. FirstPos \in 0 .. Size - 1
  BY FirstIs
<1>4. Elements = {} => f = Null
  BY <1>1, FirstIs
<1>5. Elements # {} => f \in Elements /\ \A j \in Elements : j = f \/ Follows(j, f)
  BY <1>1, FirstIs
<1>6. TableInv' /\ SameElements
  BY <1>2, <1>3, TableKept
<1>7. Elements' = Elements /\ \A i, j \in Elements : (Follows(i, j))' <=> Follows(i, j)
  BY <1>6 DEF SameElements, KeptOrder
<1>8. Elements \subseteq Keys /\ Null \notin Keys
  BY WalkTypes
<1>9. itr' \in Iterator /\ itr'.at = "destroy" /\ itr'.next = f
  BY <1>2, <1>4, <1>5, <1>8 DEF NoIterator, Iterator, Pointers
<1>10. seen' = {} /\ due' = {}
  BY <1>2 DEF WalkInv
<1>11. IF f = Null THEN Elements' = {}
       ELSE f \in Elements' /\ \A j \in Elements' : j = f \/ (Follows(j, f))'
  BY <1>4, <1>5, <1>7, <1>8
<1> QED BY <1>6, <1>9, <1>10, <1>11 DEF WalkInv

LEMMA WalkDestroyed ==
  ASSUME TableInv, WalkInv, DestroyElement
  PROVE  /\ itr.next \in Elements /\ TableInv' /\ WalkInv'
<1>1. PICK k, y : k = itr.next /\ y = After(k).element
  OBVIOUS
<1>2. /\ itr.at = "destroy" /\ k # Null /\ itr' = [itr EXCEPT !.next = y] /\ Cut(k)
      /\ UNCHANGED <<seen, due>>
  BY <1>1 DEF DestroyElement
<1>3. k \in Elements /\ \A j \in Elements : j = k \/ Follows(j, k)
  BY <1>1, <1>2 DEF WalkInv
<1>4. y = Null => \A j \in Elements : ~Follows(j, k)
  BY <1>1, <1>3, AfterIs
<1>5. y # Null => y \in Elements /\ Follows(y, k) /\ \A j \in Elements : Follows(j, k) => j = y \/ Follows(j, y)
  BY <1>1, <1>3, AfterIs
<1>6. TableInv' /\ Elements' = Elements \ {k} /\ KeptOrder(Elements \ {k})
  BY <1>2, <1>3, CutEffect
<1>7. \A i, j \in Elements \ {k} : (Follows(i, j))' <=> Follows(i, j)
  BY <1>6 DEF KeptOrder
<1>8. y # Null => y # k
  BY <1>3, <1>5, FollowsOrder
<1>9. Elements \subseteq Keys
  BY WalkTypes
<1>10. itr' \in Iterator /\ itr'.at = "destroy" /\ itr'.next = y
  BY <1>2, <1>5, <1>9 DEF WalkInv, Iterator, Pointers
<1>11. seen' = {} /\ due' = {}
  BY <1>2 DEF WalkInv
<1>12. IF y = Null THEN Elements' = {}
       ELSE y \in Elements' /\ \A j \in Elements' : j = y \/ (Follows(j, y))'
  BY <1>3, <1>4, <1>5, <1>6, <1>7, <1>8
<1> QED BY <1>1, <1>3, <1>6, <1>10, <1>11, <1>12 DEF WalkInv

LEMMA MapDestroyed ==
  ASSUME TableInv, ObjectInv, WalkInv, Destroyed
  PROVE  TableInv' /\ ObjectInv' /\ WalkInv' /\ Elements = {} /\ Elements' = {}
<1>1. /\ itr.at = "destroy" /\ itr.next = Null
      /\ table' = EmptyTable(InitLogsize) /\ logsize' = InitLogsize /\ count' = 0 /\ apos' = 0
      /\ data' = [k \in Keys |-> Null] /\ itr' = NoIterator /\ UNCHANGED <<objects, seen, due>>
  BY DEF Destroyed
<1>2. Elements = {}
  BY <1>1 DEF WalkInv
<1>3. TableInv' /\ Elements' = {}
  BY <1>1, EmptyEffect, SizeAssumption
<1>4. ObjectInv'
  BY <1>1, <1>2, <1>3, ObjectsGone
<1>5. seen' = {} /\ due' = {}
  BY <1>1 DEF WalkInv
<1>6. itr' \in Iterator /\ itr'.at = "none" /\ itr'.current = Null
  BY <1>1 DEF NoIterator, Iterator, Pointers
<1> QED BY <1>2, <1>3, <1>4, <1>5, <1>6 DEF WalkInv

-----------------------------------------------------------------------------
(* The invariant.                                                              *)

\* Nothing else runs while an iterator looks for its next element.
Undisturbed == ~Overlap

LEMMA Initially ==
  ASSUME Init
  PROVE  IInv
<1>1. /\ table = EmptyTable(InitLogsize) /\ logsize = InitLogsize /\ count = 0 /\ apos = 0
      /\ data = [k \in Keys |-> Null] /\ alive = {} /\ ref = [o \in Objects |-> 0] /\ hand = {}
      /\ itr = NoIterator /\ seen = {} /\ due = {}
  BY DEF Init
<1>2. InitLogsize \in Nat /\ InitLogsize \in 0 .. MaxLogsize
  BY SizeAssumption
<1>3. ChainsOK(table, logsize) /\ \A k \in Keys : ~Has(table, logsize, k)
  BY <1>1, <1>2, EmptyChains
<1>4. 0 \in 0 .. Size - 1
  <2>1. PICK s \in Nat \ {0} : s = Size
    BY <1>1, <1>2, Powers DEF Size
  <2> QED BY <2>1
<1>5. TableInv
  BY <1>1, <1>2, <1>3, <1>4 DEF TableInv
<1>6. Elements = {}
  BY <1>3, <1>5, PositionsHold DEF Positions
<1>7. ObjectInv
  BY <1>1, <1>6, FS_EmptySet DEF ObjectInv
<1>8. itr \in Iterator /\ itr.at = "none" /\ itr.current = Null
  BY <1>1 DEF NoIterator, Iterator, Pointers
<1>9. WalkInv
  BY <1>1, <1>8 DEF WalkInv
<1> QED BY <1>5, <1>7, <1>9 DEF IInv

\* A step at rest that leaves the elements alone.
LEMMA QuietStep ==
  ASSUME IInv, Calm, UNCHANGED <<table, logsize, itr, seen, due>>, apos' \in 0 .. Size - 1
  PROVE  TableInv' /\ Elements' = Elements /\ WalkInv'
<1>1. TableInv' /\ SameElements
  BY TableKept DEF IInv
<1>2. /\ Elements' = Elements /\ SameBuckets /\ KeptOrder(Elements)
      /\ Elements \cap Elements' = Elements /\ Elements' \ Elements = {}
  BY <1>1 DEF SameElements
<1>3. KeptOrder(Elements \cap Elements')
  BY <1>2
<1>4. due' = due \cap Elements' /\ itr' = itr /\ seen' = seen
  BY <1>2 DEF IInv, WalkInv
<1>5. ASSUME itr.at = "rest"
      PROVE  /\ itr'.current \in Keys => itr'.current \in Elements'
             /\ itr.next # Null => itr.next \in Elements'
  BY <1>2, <1>5 DEF IInv, WalkInv, Coming
<1>6. WalkInv'
  BY <1>2, <1>3, <1>4, <1>5, WalkKept DEF IInv
<1> QED BY <1>1, <1>2, <1>6

\* The next element is not removed while the iterator rests.
LEMMA CutStep ==
  ASSUME IInv, NEW k \in Elements, Cut(k), Calm, itr.next # k,
         itr' = Passed(k) \/ (itr' = [itr EXCEPT !.current = Null] /\ itr.current = k),
         seen' = seen, due' = due \ {k}
  PROVE  TableInv' /\ Elements' = Elements \ {k} /\ WalkInv'
<1>1. TableInv' /\ Elements' = Elements \ {k} /\ KeptOrder(Elements \ {k}) /\ SameBuckets
  BY CutEffect DEF IInv
<1>2. Elements \cap Elements' = Elements \ {k} /\ Elements' \ Elements = {}
  BY <1>1
<1>3. KeptOrder(Elements \cap Elements')
  BY <1>1, <1>2
<1>4. due' = due \cap Elements'
  BY <1>1 DEF IInv, WalkInv
<1>5. itr' = itr \/ itr' = [itr EXCEPT !.current = Freed] \/ itr' = [itr EXCEPT !.current = Null]
  BY DEF Passed
<1>6. itr \in Iterator /\ Null \notin Keys /\ Freed \notin Keys
  BY NullAssumption DEF IInv, WalkInv
<1>7. itr'.current \in Keys => itr'.current = itr.current /\ itr.current # k
  BY <1>6 DEF Passed, Iterator
<1>8. ASSUME itr.at = "rest"
      PROVE  /\ itr'.current \in Keys => itr'.current \in Elements'
             /\ itr.next # Null => itr.next \in Elements'
  BY <1>1, <1>7, <1>8 DEF IInv, WalkInv, Coming
<1>9. WalkInv'
  BY <1>2, <1>3, <1>1, <1>4, <1>5, <1>8, WalkKept DEF IInv
<1> QED BY <1>1, <1>9

-----------------------------------------------------------------------------
(* The steps.                                                                  *)

LEMMA NewStep ==
  ASSUME IInv, NEW o \in Objects, New(o)
  PROVE  IInv' /\ Elements' = Elements
<1>1. Calm /\ UNCHANGED <<table, logsize, itr, seen, due>> /\ apos' = apos
  BY DEF New, hashTable, iterator
<1>2. apos' \in 0 .. Size - 1
  BY <1>1 DEF IInv, TableInv
<1>3. TableInv' /\ Elements' = Elements /\ WalkInv'
  BY <1>1, <1>2, QuietStep
<1>4. ObjectInv'
  BY <1>3, ObjectMade DEF IInv
<1> QED BY <1>3, <1>4 DEF IInv

LEMMA DropStep ==
  ASSUME IInv, NEW o \in Objects, Drop(o)
  PROVE  IInv' /\ Elements' = Elements /\ alive' = alive \ {o}
<1>1. Calm /\ UNCHANGED <<table, logsize, itr, seen, due>> /\ apos' = apos
  BY DEF Drop, hashTable, iterator
<1>2. apos' \in 0 .. Size - 1
  BY <1>1 DEF IInv, TableInv
<1>3. TableInv' /\ Elements' = Elements /\ WalkInv'
  BY <1>1, <1>2, QuietStep
<1>4. ObjectInv' /\ alive' = alive \ {o}
  BY <1>3, ObjectDropped DEF IInv
<1> QED BY <1>3, <1>4 DEF IInv

LEMMA FindStep ==
  ASSUME IInv, Undisturbed, NEW k \in Keys, Find(k)
  PROVE  IInv' /\ Elements' = Elements
<1>1. /\ Calm /\ UNCHANGED <<table, logsize, itr, seen, due>> /\ apos' = Bucket(k)
      /\ UNCHANGED <<count, data, objects>>
  BY DEF Find, iterator, Undisturbed
<1>2. apos' \in 0 .. Size - 1
  BY <1>1, BucketType DEF IInv
<1>3. TableInv' /\ Elements' = Elements /\ WalkInv'
  BY <1>1, <1>2, QuietStep
<1>4. ObjectInv'
  BY <1>1, <1>3, ObjectsKept DEF IInv
<1> QED BY <1>3, <1>4 DEF IInv

LEMMA ValSetOldStep ==
  ASSUME IInv, NEW k \in Keys, NEW o \in Objects, ValSetOld(k, o)
  PROVE  IInv'
<1>1. Calm /\ UNCHANGED <<table, logsize, itr, seen, due>> /\ apos' = Bucket(k)
  BY DEF ValSetOld, iterator
<1>2. apos' \in 0 .. Size - 1
  BY <1>1, BucketType DEF IInv
<1>3. TableInv' /\ WalkInv'
  BY <1>1, <1>2, QuietStep
<1>4. ObjectInv'
  BY ObjectReplaced DEF IInv
<1> QED BY <1>3, <1>4 DEF IInv

LEMMA ValSetNewStep ==
  ASSUME IInv, NEW k \in Keys, NEW o \in Objects, ValSetNew(k, o)
  PROVE  IInv'
<1>1. Calm /\ Push(k) /\ (Walking => count < Size) /\ UNCHANGED <<itr, seen, due>>
  BY DEF ValSetNew, iterator
<1>2. ObjectInv'
  BY ObjectAdded DEF IInv
<1>3. k \notin Elements /\ count \in Nat /\ Elements' = Elements \cup {k}
  BY ObjectAdded DEF IInv
<1>4. TableInv'
  BY <1>1, <1>3, PushEffect DEF IInv
<1>5. due' = due \cap Elements' /\ itr' = itr
  BY <1>1, <1>3 DEF IInv, WalkInv
<1>6. Elements \cap Elements' = Elements /\ Elements' \ Elements = {k}
  BY <1>3
<1>7. ASSUME itr.at = "rest"
      PROVE  /\ itr'.current \in Keys => itr'.current \in Elements'
             /\ itr.next # Null => itr.next \in Elements'
             /\ SameBuckets /\ KeptOrder(Elements)
             /\ \A n \in Elements : (Follows(k, n))' => Bucket(k) > Bucket(n)
  <2>1. count < Size
    BY <1>1, <1>7 DEF Walking
  <2>2. SameBuckets /\ KeptOrder(Elements)
    BY <1>1, <1>3, <2>1, PushOrder DEF IInv
  <2>3. \A n \in Elements : (Follows(k, n))' => Bucket(k) > Bucket(n)
    BY <1>1, <1>3, <2>1, PushOrder DEF IInv
  <2>4. /\ itr'.current \in Keys => itr'.current \in Elements'
        /\ itr.next # Null => itr.next \in Elements'
    BY <1>3, <1>5, <1>7 DEF IInv, WalkInv, Coming
  <2> QED BY <2>2, <2>3, <2>4
<1>8. itr.at = "rest" =>
        /\ itr'.current \in Keys => itr'.current \in Elements'
        /\ itr.next # Null => itr.next \in Elements'
        /\ SameBuckets /\ KeptOrder(Elements \cap Elements')
        /\ \A j \in Elements' \ Elements :
             j \in Keys /\ \A n \in Elements : (Follows(j, n))' => Bucket(j) > Bucket(n)
  BY <1>6, <1>7
<1>9. WalkInv'
  BY <1>1, <1>5, <1>8, WalkKept DEF IInv
<1> QED BY <1>2, <1>4, <1>9 DEF IInv

LEMMA ValDeleteStep ==
  ASSUME IInv, NEW k \in Keys, ValDelete(k)
  PROVE  IInv' /\ k \in Elements /\ Elements' = Elements \ {k}
<1>1. /\ Calm /\ itr.next # k /\ Cut(k) /\ itr' = Passed(k) /\ seen' = seen /\ due' = due \ {k}
      /\ ref' = Dec(ref, data[k]) /\ alive' = Survivors(alive, data[k]) /\ hand' = hand
  BY DEF ValDelete, Removable
<1>2. k \in Elements
  BY FoundIs DEF ValDelete, Removable, IInv
<1>3. TableInv' /\ Elements' = Elements \ {k} /\ WalkInv'
  BY <1>1, <1>2, CutStep
<1>4. ObjectInv'
  BY <1>1, <1>2, ObjectsCut DEF IInv
<1> QED BY <1>2, <1>3, <1>4 DEF IInv

LEMMA ValUnlinkStep ==
  ASSUME IInv, NEW k \in Keys, ValUnlink(k)
  PROVE  IInv' /\ k \in Elements /\ Elements' = Elements \ {k}
<1>1. /\ Calm /\ itr.next # k /\ Cut(k) /\ itr' = Passed(k) /\ seen' = seen /\ due' = due \ {k}
      /\ Release(k)
  BY DEF ValUnlink, Removable
<1>2. k \in Elements
  BY FoundIs DEF ValUnlink, Removable, IInv
<1>3. TableInv' /\ Elements' = Elements \ {k} /\ WalkInv'
  BY <1>1, <1>2, CutStep
<1>4. ObjectInv'
  BY <1>1, <1>2, ObjectsReleased DEF IInv
<1> QED BY <1>2, <1>3, <1>4 DEF IInv

LEMMA IteratorUnlinkStep ==
  ASSUME IInv, IteratorUnlink
  PROVE  /\ IInv' /\ itr.current \in Elements
         /\ Elements' = Elements \ {itr.current}
<1>1. PICK k : k = itr.current
  OBVIOUS
<1>2. /\ itr.at = "rest" /\ k \in Keys /\ Cut(k) /\ Release(k)
      /\ itr' = [itr EXCEPT !.current = Null] /\ seen' = seen /\ due' = due
  BY <1>1 DEF IteratorUnlink
<1>3. k \in Elements /\ k \in seen
  BY <1>1, <1>2 DEF IInv, WalkInv
<1>4. itr.next # k
  BY <1>2, <1>3, NullAssumption DEF IInv, WalkInv, Coming
<1>5. due \cap seen = {}
  BY <1>2, SeenNotDue DEF IInv
<1>6. Calm /\ due' = due \ {k}
  BY <1>2, <1>3, <1>5 DEF Calm
<1>7. TableInv' /\ Elements' = Elements \ {k} /\ WalkInv'
  BY <1>1, <1>2, <1>3, <1>4, <1>6, CutStep
<1>8. ObjectInv'
  BY <1>2, <1>3, ObjectsReleased DEF IInv
<1> QED BY <1>1, <1>3, <1>7, <1>8 DEF IInv

\* While no iterator is on the table it may be rebuilt.
LEMMA RestedStep ==
  ASSUME IInv, itr.at = "none", UNCHANGED iterator, TableInv', Elements' = Elements,
         UNCHANGED <<count, data, objects>>
  PROVE  IInv'
<1>1. WalkInv'
  BY DEF IInv, WalkInv, iterator
<1>2. ObjectInv'
  BY ObjectsKept DEF IInv
<1> QED BY <1>1, <1>2 DEF IInv

LEMMA ResizeStep ==
  ASSUME IInv, NEW n \in 0 .. MaxLogsize, Resize(n)
  PROVE  IInv' /\ Elements' = Elements
<1>1. itr.at = "none" /\ UNCHANGED iterator /\ UNCHANGED <<data, objects>>
  BY DEF Resize
<1>2. n \in Nat
  BY SizeAssumption
<1>3. CASE count = 0
  <2>1. table' = EmptyTable(n) /\ logsize' = n /\ apos' = 0 /\ count' = count
    BY <1>3 DEF Resize
  <2>2. Elements = {}
    BY <1>3, FS_EmptySet DEF IInv, ObjectInv
  <2>3. TableInv' /\ Elements' = {}
    BY <2>1, EmptyEffect
  <2> QED BY <1>1, <2>1, <2>2, <2>3, RestedStep
<1>4. CASE count # 0
  <2>1. Rebuild(n)
    BY <1>4 DEF Resize
  <2>2. TableInv' /\ Elements' = Elements /\ count' = count
    BY <1>2, <2>1, RebuildEffect DEF IInv
  <2> QED BY <1>1, <2>2, RestedStep
<1> QED BY <1>3, <1>4

\* The least logarithm of a size that is enough.
LEMMA LogIs ==
  ASSUME NEW n \in Nat
  PROVE  LogOf(n) \in 0 .. n /\ 2^LogOf(n) >= n
<1>1. PICK s \in Nat \ {0} : s = 2^n /\ n <= s
  BY Powers
<1>2. PICK S : S = {i \in 0 .. n : 2^i >= n}
  OBVIOUS
<1>3. n \in S /\ S \in SUBSET Nat /\ S \subseteq 0 .. n
  BY <1>1, <1>2
<1>4. Min(S) \in S
  BY <1>3, MinIs
<1>5. LogOf(n) = Min(S)
  BY <1>2 DEF LogOf
<1>6. \A i \in S : i \in 0 .. n /\ 2^i >= n
  BY <1>2
<1> QED BY <1>4, <1>5, <1>6

LEMMA ResizeToFitStep ==
  ASSUME IInv, ResizeToFit
  PROVE  IInv' /\ Elements' = Elements
<1>1. itr.at = "none" /\ UNCHANGED iterator /\ UNCHANGED <<data, objects>>
  BY DEF ResizeToFit
<1>2. count \in Nat /\ logsize \in Nat
  BY FS_CardinalityType, SizeAssumption DEF IInv, ObjectInv, TableInv
<1>3. PICK n : n = IF LogOf(count) = 0 THEN logsize + 1 ELSE LogOf(count)
  OBVIOUS
<1>4. n \in Nat
  <2>1. LogOf(count) \in 0 .. count
    BY <1>2, LogIs
  <2> QED BY <1>2, <1>3, <2>1
<1>5. Rebuild(n)
  BY <1>3 DEF ResizeToFit
<1>6. TableInv' /\ Elements' = Elements /\ count' = count
  BY <1>4, <1>5, RebuildEffect DEF IInv
<1> QED BY <1>1, <1>6, RestedStep

LEMMA IteratorStep ==
  ASSUME IInv, IteratorGet \/ IteratorDelete \/ IteratorNext \/ Scan \/ Read \/ Destroy
  PROVE  IInv' /\ Elements' = Elements /\ UNCHANGED <<data, objects>>
<1>1. UNCHANGED <<count, data, objects>>
  BY Zenon DEF IteratorGet, IteratorDelete, IteratorNext, Scan, Read, Destroy, hashTable
<1>2. CASE IteratorGet
  <2>1. TableInv' /\ SameElements /\ WalkInv'
    BY <1>2, WalkGot DEF IInv
  <2>2. Elements' = Elements
    BY <2>1 DEF SameElements
  <2> QED BY <1>1, <2>1, <2>2, ObjectsKept DEF IInv
<1>3. CASE IteratorDelete
  <2>1. /\ itr.at = "rest" /\ itr' = NoIterator /\ seen' = {} /\ due' = {}
        /\ table' = table /\ logsize' = logsize /\ apos' = apos
    BY <1>3, Zenon DEF IteratorDelete, hashTable
  <2>2. TableInv' /\ Elements' = Elements
    BY <2>1, TableKept DEF IInv, TableInv, SameElements
  <2>3. WalkInv'
    BY <2>1 DEF WalkInv, NoIterator, Iterator, Pointers
  <2> QED BY <1>1, <2>2, <2>3, ObjectsKept DEF IInv
<1>4. CASE IteratorNext
  <2>1. TableInv' /\ SameElements /\ WalkInv'
    BY <1>4, WalkStepped DEF IInv
  <2>2. Elements' = Elements
    BY <2>1 DEF SameElements
  <2> QED BY <1>1, <2>1, <2>2, ObjectsKept DEF IInv
<1>5. CASE Scan
  <2>1. TableInv' /\ SameElements /\ WalkInv'
    BY <1>5, WalkScanned DEF IInv
  <2>2. Elements' = Elements
    BY <2>1 DEF SameElements
  <2> QED BY <1>1, <2>1, <2>2, ObjectsKept DEF IInv
<1>6. CASE Read
  <2>1. TableInv' /\ SameElements /\ WalkInv'
    BY <1>6, WalkRead DEF IInv
  <2>2. Elements' = Elements
    BY <2>1 DEF SameElements
  <2> QED BY <1>1, <2>1, <2>2, ObjectsKept DEF IInv
<1>7. CASE Destroy
  <2>1. TableInv' /\ SameElements /\ WalkInv'
    BY <1>7, WalkDestroys DEF IInv
  <2>2. Elements' = Elements
    BY <2>1 DEF SameElements
  <2> QED BY <1>1, <2>1, <2>2, ObjectsKept DEF IInv
<1> QED BY <1>2, <1>3, <1>4, <1>5, <1>6, <1>7

LEMMA DestroyElementStep ==
  ASSUME IInv, DestroyElement
  PROVE  IInv' /\ itr.next \in Elements /\ Elements' = Elements \ {itr.next}
<1>1. PICK k : k = itr.next
  OBVIOUS
<1>2. /\ Cut(k) /\ ref' = Dec(ref, data[k]) /\ alive' = Survivors(alive, data[k])
      /\ hand' = hand
  BY <1>1 DEF DestroyElement
<1>3. k \in Elements /\ TableInv' /\ WalkInv'
  BY <1>1, WalkDestroyed DEF IInv
<1>4. Elements' = Elements \ {k}
  BY <1>2, <1>3, CutEffect DEF IInv
<1>5. ObjectInv'
  BY <1>2, <1>3, ObjectsCut DEF IInv
<1> QED BY <1>1, <1>3, <1>4, <1>5 DEF IInv

LEMMA DestroyedStep ==
  ASSUME IInv, Destroyed
  PROVE  IInv' /\ Elements = {} /\ Elements' = {}
BY MapDestroyed DEF IInv

LEMMA StutterStep ==
  ASSUME IInv, UNCHANGED vars
  PROVE  IInv' /\ Elements' = Elements
<1>1. /\ table' = table /\ logsize' = logsize /\ apos' = apos
      /\ count' = count /\ data' = data /\ objects' = objects
      /\ itr' = itr /\ seen' = seen /\ due' = due
  BY Zenon DEF vars, hashTable, objects, iterator
<1>2. TableInv' /\ SameElements
  BY <1>1, TableKept DEF IInv, TableInv
<1>3. Elements' = Elements /\ KeptOrder(Elements) /\ SameBuckets
  BY <1>2 DEF SameElements
<1>4. \A i, j \in Elements : (Follows(i, j))' <=> Follows(i, j)
  BY <1>3 DEF KeptOrder
<1>5. \A j \in Keys : (Bucket(j))' = Bucket(j)
  BY <1>3 DEF SameBuckets
<1>6. ObjectInv'
  BY <1>1, <1>3, ObjectsKept DEF IInv
<1>7. \A n \in Elements : Coming(n) => Coming(n)'
  BY <1>1, <1>3, <1>4, <1>5, WalkTypes DEF IInv, WalkInv, Coming
<1>8. \A b : Searching(b) => Searching(b)'
  BY <1>1, <1>3, <1>5, WalkTypes DEF IInv, WalkInv, Searching
<1>9. WalkInv'
  <2>1. itr \in Iterator /\ seen \subseteq Keys /\ due \subseteq Elements
    BY DEF IInv, WalkInv
  <2> QED BY <1>1, <1>3, <1>4, <1>7, <1>8, <2>1 DEF IInv, WalkInv, Coming
<1> QED BY <1>2, <1>3, <1>6, <1>9 DEF IInv

LEMMA NextInv ==
  ASSUME IInv, Undisturbed, [Next]_vars
  PROVE  IInv'
<1>1. CASE \E o \in Objects : New(o) \/ Drop(o)
  BY <1>1, NewStep, DropStep
<1>2. CASE \E k \in Keys : Find(k) \/ ValDelete(k) \/ ValUnlink(k)
  BY <1>2, FindStep, ValDeleteStep, ValUnlinkStep
<1>3. CASE \E k \in Keys, o \in Objects : ValSetNew(k, o) \/ ValSetOld(k, o)
  BY <1>3, ValSetNewStep, ValSetOldStep
<1>4. CASE \E n \in 0 .. MaxLogsize : Resize(n)
  BY <1>4, ResizeStep
<1>5. CASE ResizeToFit
  BY <1>5, ResizeToFitStep
<1>6. CASE IteratorGet \/ IteratorDelete \/ IteratorNext \/ Scan \/ Read \/ Destroy
  BY <1>6, IteratorStep
<1>7. CASE IteratorUnlink
  BY <1>7, IteratorUnlinkStep
<1>8. CASE DestroyElement
  BY <1>8, DestroyElementStep
<1>9. CASE Destroyed
  BY <1>9, DestroyedStep
<1>10. CASE UNCHANGED vars
  BY <1>10, StutterStep
<1> QED BY <1>1, <1>2, <1>3, <1>4, <1>5, <1>6, <1>7, <1>8, <1>9, <1>10 DEF Next

\* The inductive invariant: the elements are in the buckets of their keys, the
\* objects are counted, and a walk comes to its next element before it comes to
\* anything else that is due (hash_table.c, map_hash_table.c).
THEOREM Invariance ==
  ASSUME Undisturbed
  PROVE  Spec => []IInv
<1>1. Init => IInv
  BY Initially
<1>2. IInv /\ [Next]_vars => IInv'
  BY NextInv
<1> QED BY <1>1, <1>2, PTL DEF Spec

\* The variables keep their types.
THEOREM TypeCorrect ==
  ASSUME Undisturbed
  PROVE  Spec => []TypeOK
<1>1. IInv => TypeOK
  <2> SUFFICES ASSUME IInv PROVE TypeOK
    OBVIOUS
  <2>1. /\ logsize \in 0 .. MaxLogsize /\ apos \in 0 .. Size - 1
        /\ DOMAIN table = 0 .. Size - 1 /\ \A b \in DOMAIN table : table[b] \in Seq(Keys)
    BY DEF IInv, TableInv, ChainsOK, Size
  <2>2. count \in Nat
    BY FS_CardinalityType DEF IInv, ObjectInv
  <2>3. /\ data \in [Keys -> Objects \cup {Null}]
        /\ hand \subseteq alive /\ alive \subseteq Objects /\ ref \in [Objects -> Nat]
    BY DEF IInv, ObjectInv
  <2>4. itr \in Iterator /\ seen \subseteq Keys /\ due \subseteq Keys
    BY WalkTypes DEF IInv, WalkInv
  <2> QED BY <2>1, <2>2, <2>3, <2>4 DEF TypeOK
<1>2. Spec => []IInv
  BY Invariance
<1> QED BY <1>1, <1>2, PTL

\* The references to an object are the elements that have it, and an object some
\* element has is not destroyed, whatever is set, replaced, deleted and unlinked.
THEOREM ReferencesCorrect ==
  ASSUME Undisturbed
  PROVE  Spec => []RefExact
<1>1. IInv => RefExact
  BY DEF IInv, ObjectInv, RefExact, Havers
<1>2. Spec => []IInv
  BY Invariance
<1> QED BY <1>1, <1>2, PTL

\* An iterator comes to every key that was there when it started and that is not
\* removed before its turn, to none twice, and its next element is there.
THEOREM WalkCorrect ==
  ASSUME Undisturbed
  PROVE  Spec => []WalkExact
<1>1. IInv => WalkExact
  BY NullAssumption, WalkTypes DEF IInv, WalkInv, Coming, WalkExact
<1>2. Spec => []IInv
  BY Invariance
<1> QED BY <1>1, <1>2, PTL

-----------------------------------------------------------------------------
(* A table never has more elements than buckets.                               *)

LEMMA Doubled ==
  ASSUME NEW n \in Nat
  PROVE  2^(n + 1) > 2^n
<1>0. PICK S, T : S = SUBSET (1 .. n) /\ T = SUBSET (1 .. n + 1)
  OBVIOUS
<1>1. /\ IsFiniteSet(1 .. n) /\ Cardinality(1 .. n) = n
      /\ IsFiniteSet(1 .. n + 1) /\ Cardinality(1 .. n + 1) = n + 1
  BY FS_Interval
<1>2. Cardinality(S) = 2^n /\ IsFiniteSet(T) /\ Cardinality(T) = 2^(n + 1)
  BY <1>0, <1>1, FS_SUBSET
<1>3. S \in SUBSET T /\ S # T
  <2>1. {n + 1} \in T /\ {n + 1} \notin S
    BY <1>0
  <2>2. \A x \in SUBSET (1 .. n) : x \in SUBSET (1 .. n + 1)
    OBVIOUS
  <2>3. \A x \in S : x \in T
    BY <1>0, <2>2
  <2> QED BY <2>1, <2>3
<1>4. IsFiniteSet(S) /\ Cardinality(S) <= Cardinality(T) /\ Cardinality(S) # Cardinality(T)
  BY <1>2, <1>3, FS_Subset
<1>5. Cardinality(S) \in Nat /\ Cardinality(T) \in Nat
  BY <1>2, <1>4, FS_CardinalityType
<1> QED BY <1>2, <1>4, <1>5

Room == count <= Size

LEMMA RoomKept ==
  ASSUME IInv, IInv', Room, Undisturbed, [Next]_vars
  PROVE  Room'
<1>1. /\ count \in Nat /\ count' \in Nat /\ logsize \in Nat /\ logsize' \in Nat
      /\ Size \in Nat /\ Size' \in Nat
  BY FS_CardinalityType, SizeAssumption, PositionsHold, PositionsHoldNext
     DEF IInv, ObjectInv, TableInv, Positions
<1>2. ASSUME count' <= count, logsize' = logsize PROVE Room'
  <2>1. Size' = Size
    BY <1>2 DEF Size
  <2> QED BY <1>1, <1>2, <2>1 DEF Room
<1>3. CASE \E k \in Keys, o \in Objects : ValSetNew(k, o)
  <2>1. PICK k \in Keys : Push(k)
    BY <1>3 DEF ValSetNew
  <2>2. /\ count' = count + 1
        /\ logsize' = IF count + 1 > Size THEN logsize + 1 ELSE logsize
    BY <2>1 DEF Push
  <2>3. CASE count + 1 > Size
    <3>1. Size' > Size
      BY <1>1, <2>2, <2>3, Doubled DEF Size
    <3> QED BY <1>1, <2>2, <3>1 DEF Room
  <2>4. CASE ~(count + 1 > Size)
    <3>1. Size' = Size
      BY <2>2, <2>4 DEF Size
    <3> QED BY <1>1, <2>2, <2>4, <3>1 DEF Room
  <2> QED BY <2>3, <2>4
<1>4. CASE \E n \in 0 .. MaxLogsize : Resize(n)
  <2>1. PICK n \in 0 .. MaxLogsize : Resize(n)
    BY <1>4
  <2>2. n \in Nat /\ logsize' = n /\ count' = count /\ (count = 0 \/ 2^n >= count)
    BY <2>1, SizeAssumption DEF Resize, Rebuild
  <2>3. Size' = 2^n
    BY <2>2 DEF Size
  <2> QED BY <1>1, <2>2, <2>3 DEF Room
<1>5. CASE ResizeToFit
  <2>1. /\ count' = count
        /\ logsize' = IF LogOf(count) = 0 THEN logsize + 1 ELSE LogOf(count)
    BY <1>5 DEF ResizeToFit, Rebuild
  <2>2. CASE LogOf(count) = 0
    <3>1. Size' > Size
      BY <1>1, <2>1, <2>2, Doubled DEF Size
    <3> QED BY <1>1, <2>1, <3>1 DEF Room
  <2>3. CASE LogOf(count) # 0
    <3>1. 2^LogOf(count) >= count
      BY <1>1, LogIs
    <3> QED BY <1>1, <2>1, <2>3, <3>1 DEF Room, Size
  <2> QED BY <2>2, <2>3
<1>6. CASE \E k \in Keys : ValDelete(k) \/ ValUnlink(k)
  <2>1. PICK k \in Keys : Cut(k)
    BY <1>6 DEF ValDelete, ValUnlink
  <2> QED BY <1>1, <1>2, <2>1 DEF Cut
<1>7. CASE IteratorUnlink
  BY <1>1, <1>2, <1>7 DEF IteratorUnlink, Cut
<1>8. CASE DestroyElement
  BY <1>1, <1>2, <1>8 DEF DestroyElement, Cut
<1>9. CASE Destroyed
  BY <1>1, <1>9 DEF Destroyed, Room
<1>10. CASE \/ \E o \in Objects : New(o) \/ Drop(o)
            \/ \E k \in Keys : Find(k)
            \/ \E k \in Keys, o \in Objects : ValSetOld(k, o)
            \/ IteratorGet \/ IteratorDelete \/ IteratorNext \/ Scan \/ Read \/ Destroy
            \/ UNCHANGED vars
  <2>1. count' = count /\ logsize' = logsize
    BY <1>10, Zenon DEF New, Drop, Find, ValSetOld, IteratorGet, IteratorDelete, IteratorNext,
       Scan, Read, Destroy, vars, hashTable
  <2> QED BY <1>1, <1>2, <2>1
<1> QED BY <1>3, <1>4, <1>5, <1>6, <1>7, <1>8, <1>9, <1>10 DEF Next

\* However often the table was grown, shrunk and cut, every element is where a
\* look-up of its key searches, once, the table knows how many it has, and it has
\* no more of them than buckets (_s_hash_table_resize, s_hash_table_add).
THEOREM ElementsPlaced ==
  ASSUME Undisturbed
  PROVE  Spec => []Placed
<1>1. Init => Room
  <2> SUFFICES ASSUME Init PROVE Room
    OBVIOUS
  <2>1. count = 0 /\ Size \in Nat
    BY Initially, PositionsHold DEF Init, IInv, Positions
  <2> QED BY <2>1 DEF Room
<1>2. IInv /\ IInv' /\ Room /\ [Next]_vars => Room'
  BY RoomKept
<1>3. IInv /\ Room => Placed
  <2> SUFFICES ASSUME IInv, Room PROVE Placed
    OBVIOUS
  <2>1. \A b \in DOMAIN table : \A i \in DOMAIN table[b] :
          /\ Bucket(table[b][i]) = b
          /\ \A j \in DOMAIN table[b] : table[b][i] = table[b][j] => i = j
    <3>1. DOMAIN table = 0 .. 2^logsize - 1
      BY DEF IInv, TableInv, ChainsOK
    <3>2. \A b \in DOMAIN table : DOMAIN table[b] = 1 .. Len(table[b])
      BY DEF IInv, TableInv, ChainsOK
    <3>3. \A b \in DOMAIN table : \A i \in 1 .. Len(table[b]) : Bucket(table[b][i]) = b
      BY <3>1 DEF IInv, TableInv, ChainsOK, Bucket, Size
    <3>4. \A b \in DOMAIN table : \A i, j \in 1 .. Len(table[b]) : table[b][i] = table[b][j] => i = j
      BY <3>1 DEF IInv, TableInv, ChainsOK
    <3> QED BY <3>2, <3>3, <3>4
  <2> QED BY <2>1 DEF Placed, Room, IInv, ObjectInv
<1>4. Spec => []IInv
  BY Invariance
<1> QED BY <1>1, <1>2, <1>3, <1>4, PTL DEF Spec

-----------------------------------------------------------------------------
(* The map that look-ups show.                                                 *)

Dict == [k \in Keys |-> IF Found(k) THEN data[k] ELSE Null]
Shown(S, d) == [k \in Keys |-> IF k \in S THEN d[k] ELSE Null]

DictShown ==
  IInv => /\ Dict = Shown(Elements, data)
          /\ Service!Values(Dict) = {data[k] : k \in Elements}
          /\ alive = hand \cup Service!Values(Dict)
          /\ Elements \subseteq Keys /\ data \in [Keys -> Objects \cup {Null}]
          /\ \A k \in Elements : data[k] \in alive /\ data[k] # Null

LEMMA DictIs == DictShown
<1> SUFFICES ASSUME IInv
             PROVE  /\ Dict = Shown(Elements, data)
                    /\ Service!Values(Dict) = {data[k] : k \in Elements}
                    /\ alive = hand \cup Service!Values(Dict)
                    /\ Elements \subseteq Keys /\ data \in [Keys -> Objects \cup {Null}]
                    /\ \A k \in Elements : data[k] \in alive /\ data[k] # Null
  BY DEF DictShown
<1>1. Dict = Shown(Elements, data)
  BY FoundIs DEF IInv, Dict, Shown
<1>2. Elements \subseteq Keys
  BY PositionsHold DEF IInv, Positions
<1>3. /\ data \in [Keys -> Objects \cup {Null}] /\ hand \subseteq alive /\ alive \subseteq Objects
      /\ \A k \in Elements : data[k] \in alive
      /\ \A o \in alive : o \in hand \/ \E k \in Elements : data[k] = o
  BY DEF IInv, ObjectInv
<1>4. \A k \in Elements : data[k] # Null
  BY <1>3, NullAssumption
<1>5. Service!Values(Dict) = {data[k] : k \in Elements}
  <2>1. \A k \in Keys : Dict[k] = IF k \in Elements THEN data[k] ELSE Null
    BY <1>1 DEF Shown
  <2> QED BY <1>2, <1>4, <2>1 DEF Service!Values
<1> QED BY <1>1, <1>2, <1>3, <1>4, <1>5

LEMMA DictThen == IInv' => /\ Dict' = Shown(Elements', data')
                           /\ Service!Values(Dict') = {data'[k] : k \in Elements'}
                           /\ alive' = hand' \cup Service!Values(Dict')
<1>1. DictShown'
  BY DictIs, PTL
<1> QED BY <1>1 DEF DictShown, Service!Values

\* A step that the map does not show.
LEMMA HiddenStep ==
  ASSUME IInv, IInv', Elements' = Elements, UNCHANGED <<data, objects>>
  PROVE  UNCHANGED <<Dict, hand, alive>>
BY DictIs, DictThen DEF DictShown, Shown, objects

LEMMA DropShown ==
  ASSUME IInv, IInv', NEW o \in Objects, Drop(o), Elements' = Elements
  PROVE  Service!Next
<1>1. o \in hand /\ hand' = hand \ {o} /\ data' = data
  BY DEF Drop
<1>2. Dict' = Dict /\ alive' = hand' \cup Service!Values(Dict')
  BY <1>1, DictIs, DictThen DEF DictShown
<1>3. Service!Drop(o)
  BY <1>1, <1>2 DEF Service!Drop, Dict
<1> QED BY <1>2, <1>3 DEF Service!Next, Dict

LEMMA MakeShown ==
  ASSUME IInv, IInv', NEW o \in Objects, New(o), Elements' = Elements
  PROVE  Service!Next
<1>1. o \notin alive /\ hand' = hand \cup {o} /\ data' = data
  BY DEF New
<1>2. Dict' = Dict /\ alive' = hand' \cup Service!Values(Dict')
  BY <1>1, DictIs, DictThen DEF DictShown
<1>3. Service!Make(o)
  BY <1>1, <1>2 DEF Service!Make, Dict
<1> QED BY <1>2, <1>3 DEF Service!Next, Dict

LEMMA PutShown ==
  ASSUME IInv, IInv', NEW k \in Keys, NEW o \in alive, Elements' = Elements \cup {k},
         data' = [data EXCEPT ![k] = o], hand' = hand \ {o}
  PROVE  Service!Next
<1>1. Dict = Shown(Elements, data) /\ data \in [Keys -> Objects \cup {Null}]
  BY DictIs DEF DictShown
<1>2. Dict' = Shown(Elements', data') /\ alive' = hand' \cup Service!Values(Dict')
  BY DictThen
<1>3. Dict' = [Dict EXCEPT ![k] = o]
  BY <1>1, <1>2 DEF Shown
<1>4. Service!Put(k, o)
  BY <1>3 DEF Service!Put, Dict
<1>5. o \in Objects
  BY DEF IInv, ObjectInv
<1> QED BY <1>2, <1>4, <1>5 DEF Service!Next, Dict

LEMMA DeleteShown ==
  ASSUME IInv, IInv', NEW k \in Elements, Elements' = Elements \ {k},
         data' = [data EXCEPT ![k] = Null], hand' = hand
  PROVE  Service!Next
<1>1. /\ Dict = Shown(Elements, data) /\ data \in [Keys -> Objects \cup {Null}]
      /\ Elements \subseteq Keys
  BY DictIs DEF DictShown
<1>2. Dict' = Shown(Elements', data') /\ alive' = hand' \cup Service!Values(Dict')
  BY DictThen
<1>3. Dict' = [Dict EXCEPT ![k] = Null]
  BY <1>1, <1>2 DEF Shown
<1>4. Service!Delete(k)
  BY <1>3 DEF Service!Delete, Dict
<1> QED BY <1>1, <1>2, <1>4 DEF Service!Next, Dict

LEMMA TakeShown ==
  ASSUME IInv, IInv', NEW k \in Elements, Elements' = Elements \ {k}, Cut(k), Release(k)
  PROVE  Service!Next
<1>0. data' = [data EXCEPT ![k] = Null]
  BY DEF Cut
<1>1. /\ Dict = Shown(Elements, data) /\ data \in [Keys -> Objects \cup {Null}]
      /\ Elements \subseteq Keys /\ data[k] # Null
  BY DictIs DEF DictShown
<1>2. /\ Dict' = Shown(Elements', data') /\ alive' = hand' \cup Service!Values(Dict')
      /\ Service!Values(Dict') = {data'[j] : j \in Elements'}
  BY DictThen
<1>3. Dict' = [Dict EXCEPT ![k] = Null] /\ Dict[k] = data[k]
  BY <1>0, <1>1, <1>2 DEF Shown
<1>4. hand' = hand \cup ({Dict[k]} \ Service!Values(Dict'))
  BY <1>2, <1>3, ObjectsReleased DEF IInv
<1>5. Service!Take(k)
  BY <1>1, <1>3, <1>4 DEF Service!Take, Dict
<1> QED BY <1>1, <1>2, <1>5 DEF Service!Next, Dict

LEMMA StepShown ==
  ASSUME IInv, Undisturbed, [Next]_vars
  PROVE  Service!Next \/ UNCHANGED <<Dict, hand, alive>>
<1>0. IInv'
  BY NextInv
<1>1. CASE \E o \in Objects : New(o) \/ Drop(o)
  BY <1>0, <1>1, NewStep, DropStep, MakeShown, DropShown
<1>2. ASSUME NEW k \in Keys, Find(k) PROVE UNCHANGED <<Dict, hand, alive>>
  <2>1. UNCHANGED <<data, objects>>
    BY <1>2 DEF Find
  <2> QED BY <1>0, <1>2, <2>1, FindStep, HiddenStep
<1>3. ASSUME NEW k \in Keys, ValDelete(k) PROVE Service!Next
  <2>1. data' = [data EXCEPT ![k] = Null] /\ hand' = hand
    BY <1>3 DEF ValDelete, Cut
  <2> QED BY <1>0, <1>3, <2>1, ValDeleteStep, DeleteShown
<1>4. ASSUME NEW k \in Keys, ValUnlink(k) PROVE Service!Next
  <2>1. Cut(k) /\ Release(k)
    BY <1>4 DEF ValUnlink
  <2> QED BY <1>0, <1>4, <2>1, ValUnlinkStep, TakeShown
<1>5. ASSUME NEW k \in Keys, NEW o \in Objects, ValSetNew(k, o) PROVE Service!Next
  BY <1>0, <1>5, ObjectAdded, PutShown DEF IInv
<1>6. ASSUME NEW k \in Keys, NEW o \in Objects, ValSetOld(k, o) PROVE Service!Next
  <2>1. k \in Elements /\ Elements' = Elements /\ o \in alive
        /\ data' = [data EXCEPT ![k] = o] /\ hand' = hand \ {o}
    BY <1>6, ObjectReplaced DEF IInv
  <2>2. Elements' = Elements \cup {k}
    BY <2>1
  <2> QED BY <1>0, <2>1, <2>2, PutShown
<1>7. CASE \E n \in 0 .. MaxLogsize : Resize(n)
  <2>1. UNCHANGED <<data, objects>>
    BY <1>7 DEF Resize
  <2> QED BY <1>0, <1>7, <2>1, ResizeStep, HiddenStep
<1>8. CASE ResizeToFit
  <2>1. UNCHANGED <<data, objects>>
    BY <1>8 DEF ResizeToFit
  <2> QED BY <1>0, <1>8, <2>1, ResizeToFitStep, HiddenStep
<1>9. CASE IteratorGet \/ IteratorDelete \/ IteratorNext \/ Scan \/ Read \/ Destroy
  BY <1>0, <1>9, IteratorStep, HiddenStep
<1>10. CASE IteratorUnlink
  <2>1. Cut(itr.current) /\ Release(itr.current)
    BY <1>10 DEF IteratorUnlink
  <2> QED BY <1>0, <1>10, <2>1, IteratorUnlinkStep, TakeShown
<1>11. CASE DestroyElement
  <2>1. data' = [data EXCEPT ![itr.next] = Null] /\ hand' = hand
    BY <1>11 DEF DestroyElement, Cut
  <2> QED BY <1>0, <1>11, <2>1, DestroyElementStep, DeleteShown
<1>12. CASE Destroyed
  <2>1. hand' = hand /\ alive' = alive
    BY <1>12 DEF Destroyed, objects
  <2>2. Elements = {} /\ Elements' = {}
    BY <1>12, DestroyedStep
  <2>3. Dict = Shown({}, data) /\ Dict' = Shown({}, data')
    BY <1>0, <2>2, DictIs, DictThen DEF DictShown
  <2>4. Dict' = Dict
    BY <2>3 DEF Shown
  <2> QED BY <2>1, <2>4
<1>13. CASE UNCHANGED vars
  <2>1. UNCHANGED <<data, objects>>
    BY <1>13, Zenon DEF vars
  <2> QED BY <1>0, <1>13, <2>1, StutterStep, HiddenStep
<1> QED BY <1>1, <1>2, <1>3, <1>4, <1>5, <1>6, <1>7, <1>8, <1>9, <1>10, <1>11, <1>12, <1>13 DEF Next

\* Seen through look-ups the table is a map: a key has the object last set under
\* it, growing, shrinking and walking never show, and an object lives exactly as
\* long as a key or the application has it.  MapHashTable implements MapService.
THEOREM TablesAreMaps ==
  ASSUME Undisturbed
  PROVE  Spec => MapSpec
<1>1. Init => Service!Init
  <2> SUFFICES ASSUME Init PROVE Service!Init
    OBVIOUS
  <2>1. IInv /\ hand = {} /\ alive = {}
    BY Initially DEF Init
  <2>2. Dict = Shown(Elements, data) /\ \A k \in Elements : data[k] \in alive
    BY <2>1, DictIs DEF DictShown
  <2>3. Dict = [k \in Keys |-> Null]
    BY <2>1, <2>2 DEF Shown
  <2> QED BY <2>1, <2>3 DEF Service!Init, Dict
<1>2. IInv /\ [Next]_vars => [Service!Next]_<<Dict, hand, alive>>
  BY StepShown
<1>3. IInv /\ [Next]_vars => [Service!Next]_(Service!serviceVars)
  BY <1>2 DEF Service!serviceVars, Dict
<1>4. Spec => []IInv
  BY Invariance
<1> QED BY <1>1, <1>3, <1>4, PTL DEF Spec, MapSpec, Service!Spec
=============================================================================
