-------------------------------- MODULE Counts --------------------------------
(***************************************************************************)
(* Lemmas about functions that count, such as the references that holders  *)
(* have: one more, one less, and one that changes hands; and about the     *)
(* natural numbers: a set of them has a least one, which is induction; and *)
(* about sequences put end to end.                                         *)
(***************************************************************************)
EXTENDS Integers, FiniteSets, Sequences, FiniteSetsExt, FiniteSetTheorems, WellFoundedInduction, TLAPS

OneLess(f, a) == [f EXCEPT ![a] = @ - 1]
OneMore(f, a) == [f EXCEPT ![a] = @ + 1]
OneMoved(f, a, b, d) == [f EXCEPT ![a][d] = @ - 1, ![b][d] = @ + 1]

\* A count that is not zero can go down by one.
LEMMA LessCounts ==
  ASSUME NEW A, NEW f \in [A -> Nat], NEW a \in A, f[a] > 0
  PROVE  /\ OneLess(f, a) \in [A -> Nat]
         /\ \A b \in A : OneLess(f, a)[b] = IF b = a THEN f[b] - 1 ELSE f[b]
BY DEF OneLess

\* Any count can go up by one.
LEMMA MoreCounts ==
  ASSUME NEW A, NEW f \in [A -> Nat], NEW a \in A
  PROVE  /\ OneMore(f, a) \in [A -> Nat]
         /\ \A b \in A : OneMore(f, a)[b] = IF b = a THEN f[b] + 1 ELSE f[b]
BY DEF OneMore

\* What each holder of H has of each thing of D.
CountsOf(H, D) == [H -> [D -> Nat]]

\* What one holder has of d goes to another.
LEMMA MovedCounts ==
  \A H, D : \A f \in CountsOf(H, D), a, b \in H, d \in D :
    a # b /\ f[a][d] > 0 =>
      /\ OneMoved(f, a, b, d) \in CountsOf(H, D)
      /\ \A h \in H, e \in D :
           OneMoved(f, a, b, d)[h][e] = IF e = d /\ h = a THEN f[h][e] - 1
                                        ELSE IF e = d /\ h = b THEN f[h][e] + 1
                                        ELSE f[h][e]
<1> TAKE H, D
<1> TAKE f \in CountsOf(H, D), a, b \in H, d \in D
<1> HAVE a # b /\ f[a][d] > 0
<1>0. f \in [H -> [D -> Nat]]
  BY DEF CountsOf
<1>1. f[a] \in [D -> Nat] /\ f[b] \in [D -> Nat]
  BY <1>0
<1>2. OneMoved(f, a, b, d) = [f EXCEPT ![a] = OneLess(f[a], d), ![b] = OneMore(f[b], d)]
  BY <1>0 DEF OneMoved, OneLess, OneMore
<1>3. /\ OneLess(f[a], d) \in [D -> Nat] /\ OneMore(f[b], d) \in [D -> Nat]
      /\ \A e \in D : OneLess(f[a], d)[e] = IF e = d THEN f[a][e] - 1 ELSE f[a][e]
      /\ \A e \in D : OneMore(f[b], d)[e] = IF e = d THEN f[b][e] + 1 ELSE f[b][e]
  BY <1>1, LessCounts, MoreCounts
<1>4. /\ OneMoved(f, a, b, d) \in [H -> [D -> Nat]]
      /\ OneMoved(f, a, b, d)[a] = OneLess(f[a], d)
      /\ OneMoved(f, a, b, d)[b] = OneMore(f[b], d)
      /\ \A h \in H : h # a /\ h # b => OneMoved(f, a, b, d)[h] = f[h]
  BY <1>0, <1>2, <1>3
<1> QED BY <1>0, <1>3, <1>4 DEF CountsOf

\* Of two sets that differ in x at most, one has one more if it has x.
One(b) == IF b THEN 1 ELSE 0

LEMMA DifferInOne ==
  ASSUME NEW S, NEW T, NEW x, IsFiniteSet(S), IsFiniteSet(T),
         \A y : y # x => (y \in S <=> y \in T)
  PROVE  Cardinality(T) = Cardinality(S) + One(x \in T) - One(x \in S)
<1>1. Cardinality(S) \in Nat /\ Cardinality(T) \in Nat
  BY FS_CardinalityType
<1>2. CASE x \in T /\ x \notin S
  <2>1. T = S \cup {x}
    BY <1>2
  <2> QED BY <1>1, <1>2, <2>1, FS_AddElement DEF One
<1>3. CASE x \notin T /\ x \in S
  <2>1. T = S \ {x}
    BY <1>3
  <2> QED BY <1>1, <1>3, <2>1, FS_RemoveElement DEF One
<1>4. CASE x \in T <=> x \in S
  <2>1. T = S
    BY <1>4
  <2> QED BY <1>1, <2>1 DEF One
<1> QED BY <1>2, <1>3, <1>4

\* A set of numbers has a least one.
LEMMA LeastNatural ==
  ASSUME NEW T \in SUBSET Nat, T # {}
  PROVE  \E n \in T : \A m \in T : n <= m
<1> DEFINE R == {p \in Nat \X Nat : p[1] < p[2]}
<1>1. IsWellFoundedOn(R, Nat)
  BY NatLessThanWellFounded DEF OpToRel
<1>2. \A m, n \in Nat : m < n => <<m, n>> \in R
  OBVIOUS
<1> HIDE DEF R
<1>3. PICK n \in T : \A m \in T : ~(<<m, n>> \in R)
  BY <1>1, WFMin
<1>4. ASSUME NEW m \in T PROVE n <= m
  <2>1. m \in Nat /\ n \in Nat /\ ~(<<m, n>> \in R)
    BY <1>3
  <2>2. ~(m < n)
    BY <1>2, <2>1, Zenon
  <2> QED BY <2>1, <2>2
<1> QED BY <1>4

\* What holds of 0, and of n + 1 if it holds of n, holds of every number: the set
\* of the numbers it holds of has all of them.
LEMMA NatSetInduction ==
  ASSUME NEW S \in SUBSET Nat, 0 \in S, \A n \in S : n + 1 \in S
  PROVE  S = Nat
<1> SUFFICES ASSUME Nat \ S # {} PROVE FALSE
  OBVIOUS
<1>1. PICK n \in Nat \ S : \A m \in Nat \ S : n <= m
  BY LeastNatural
<1>2. n # 0 /\ n - 1 \in Nat
  BY <1>1
<1>3. n - 1 \in S
  BY <1>1, <1>2
<1> QED BY <1>1, <1>2, <1>3

-----------------------------------------------------------------------------
(* Sequences of sequences, end to end.                                         *)

\* What FlattenSeq is of a sequence of n sequences is f[n].
Flat(s, n, f) == f = [i \in 1 .. n |-> IF i = 1 THEN s[i] ELSE f[i - 1] \o s[i]]

LEMMA FlatExists ==
  ASSUME NEW s, NEW n \in Nat
  PROVE  \E f : Flat(s, n, f)
<1> DEFINE G == {m \in Nat : \E f : Flat(s, m, f)}
<1>1. 0 \in G
  <2>1. Flat(s, 0, [i \in 1 .. 0 |-> 0])
    BY DEF Flat
  <2> QED BY <2>1
<1>2. ASSUME NEW m \in G PROVE m + 1 \in G
  <2>1. PICK f : Flat(s, m, f)
    BY <1>2
  <2>2. PICK g : g = [i \in 1 .. m + 1 |-> IF i <= m THEN f[i]
                                          ELSE IF i = 1 THEN s[i] ELSE f[i - 1] \o s[i]]
    OBVIOUS
  <2>3. m \in Nat
    BY <1>2
  <2>4. \A i \in 1 .. m + 1 : g[i] = IF i = 1 THEN s[i] ELSE g[i - 1] \o s[i]
    <3> TAKE i \in 1 .. m + 1
    <3>1. i # 1 => i - 1 \in 1 .. m /\ i - 1 \in 1 .. m + 1
      BY <2>3
    <3>2. \A j \in 1 .. m : g[j] = f[j]
      BY <2>2, <2>3
    <3>3. CASE i <= m
      <4>1. i \in 1 .. m
        BY <2>3, <3>3
      <4>2. f[i] = IF i = 1 THEN s[i] ELSE f[i - 1] \o s[i]
        BY <2>1, <4>1 DEF Flat
      <4> QED BY <3>1, <3>2, <4>1, <4>2
    <3>4. CASE ~(i <= m)
      <4>1. g[i] = IF i = 1 THEN s[i] ELSE f[i - 1] \o s[i]
        BY <2>2, <3>4
      <4> QED BY <3>1, <3>2, <4>1
    <3> QED BY <3>3, <3>4
  <2>5. g = [i \in 1 .. m + 1 |-> g[i]]
    BY <2>2
  <2>6. Flat(s, m + 1, g)
    BY <2>4, <2>5 DEF Flat
  <2> QED BY <2>3, <2>6
<1>3. G \in SUBSET Nat
  OBVIOUS
<1> HIDE DEF G
<1>4. G = Nat
  BY <1>1, <1>2, <1>3, NatSetInduction
<1>5. n \in G
  BY <1>4
<1> QED BY <1>5 DEF G

-----------------------------------------------------------------------------
(* Sums over finite sets.                                                      *)

\* One element for each unit of what f counts of the things in S.
UnitsOf(f, x) == {x} \X (1 .. f[x])
Units(f, S) == UNION {UnitsOf(f, x) : x \in S}

\* g is what MapThenSumSet sums up f to, for the subsets of S.
Sums(f, S, g) ==
  g = [s \in SUBSET S |->
         IF s = {} THEN 0
         ELSE f[CHOOSE x \in s : TRUE] + g[s \ {CHOOSE x \in s : TRUE}]]

LEMMA UnitsFinite ==
  ASSUME NEW S, IsFiniteSet(S), NEW f \in [S -> Nat]
  PROVE  IsFiniteSet(Units(f, S))
<1>1. ASSUME NEW x \in S PROVE IsFiniteSet(UnitsOf(f, x))
  <2>1. f[x] \in Nat
    OBVIOUS
  <2>2. IsFiniteSet({x}) /\ IsFiniteSet(1 .. f[x])
    <3>1. 1 \in Int /\ f[x] \in Int
      BY <2>1
    <3> QED BY <3>1, FS_Singleton, FS_Interval, Zenon
  <2> QED BY <2>2, FS_Product DEF UnitsOf
<1>2. IsFiniteSet({UnitsOf(f, x) : x \in S})
  <2> DEFINE T == {UnitsOf(f, x) : x \in S}
             u == [x \in S |-> UnitsOf(f, x)]
  <2>1. u \in Surjection(S, T)
    BY DEF Surjection
  <2> HIDE DEF u
  <2> QED BY <2>1, FS_Surjection
<1> QED BY <1>1, <1>2, FS_UNION DEF Units

LEMMA UnitsOfOne ==
  ASSUME NEW S, IsFiniteSet(S), NEW f \in [S -> Nat], NEW s \in SUBSET S, NEW x \in s
  PROVE  Cardinality(Units(f, s)) = f[x] + Cardinality(Units(f, s \ {x}))
<1>1. f[x] \in Nat
  OBVIOUS
<1>2. IsFiniteSet(UnitsOf(f, x)) /\ Cardinality(UnitsOf(f, x)) = f[x]
  <2>1. IsFiniteSet({x}) /\ Cardinality({x}) = 1
    BY FS_Singleton
  <2>2. IsFiniteSet(1 .. f[x]) /\ Cardinality(1 .. f[x]) = f[x]
    BY <1>1, FS_Interval
  <2> QED BY <1>1, <2>1, <2>2, FS_Product DEF UnitsOf
<1>3. IsFiniteSet(Units(f, s \ {x}))
  <2>1. Units(f, s \ {x}) \subseteq Units(f, S)
    BY DEF Units
  <2> QED BY <2>1, UnitsFinite, FS_Subset
<1>4. Units(f, s) = UnitsOf(f, x) \cup Units(f, s \ {x})
  BY DEF Units
<1>5. UnitsOf(f, x) \cap Units(f, s \ {x}) = {}
  BY DEF Units, UnitsOf
<1>6. Cardinality(Units(f, s \ {x})) \in Nat
  BY <1>3, FS_CardinalityType
<1> DEFINE A == UnitsOf(f, x)
           B == Units(f, s \ {x})
<1> HIDE DEF A, B
<1>7. Cardinality(A \cup B) = Cardinality(A) + Cardinality(B) - Cardinality(A \cap B)
  BY <1>2, <1>3, FS_Union DEF A, B
<1>8. Cardinality(A \cap B) = 0
  BY <1>5, FS_EmptySet DEF A, B
<1> QED BY <1>1, <1>2, <1>4, <1>6, <1>7, <1>8 DEF A, B

LEMMA SumExists ==
  ASSUME NEW S, IsFiniteSet(S), NEW f \in [S -> Nat]
  PROVE  \E g : Sums(f, S, g)
<1> DEFINE g == [s \in SUBSET S |-> Cardinality(Units(f, s))]
<1>1. ASSUME NEW s \in SUBSET S
      PROVE  g[s] = IF s = {} THEN 0
                    ELSE f[CHOOSE x \in s : TRUE] + g[s \ {CHOOSE x \in s : TRUE}]
  <2>1. CASE s = {}
    <3>1. Units(f, s) = {}
      BY <2>1 DEF Units
    <3> QED BY <2>1, <3>1, FS_EmptySet
  <2>2. CASE s # {}
    <3> DEFINE y == CHOOSE x \in s : TRUE
    <3>1. y \in s
      BY <2>2
    <3> HIDE DEF y
    <3>2. s \ {y} \in SUBSET S
      OBVIOUS
    <3>3. g[s] = f[y] + g[s \ {y}]
      BY <3>1, <3>2, UnitsOfOne
    <3> QED BY <2>2, <3>3 DEF y
  <2> QED BY <2>1, <2>2
<1>2. Sums(f, S, g)
  BY <1>1 DEF Sums
<1> QED BY <1>2

LEMMA SumUnique ==
  ASSUME NEW S, IsFiniteSet(S), NEW f \in [S -> Nat], NEW g, Sums(f, S, g)
  PROVE  g[S] = Cardinality(Units(f, S))
<1> DEFINE G == {n \in Nat : \A s \in SUBSET S :
                   Cardinality(s) = n => g[s] = Cardinality(Units(f, s))}
<1>0. \A s \in SUBSET S : IsFiniteSet(s)
  BY FS_Subset
<1>1. 0 \in G
  <2> SUFFICES ASSUME NEW s \in SUBSET S, Cardinality(s) = 0
               PROVE  g[s] = Cardinality(Units(f, s))
    OBVIOUS
  <2>1. s = {}
    BY <1>0, FS_EmptySet
  <2>2. Units(f, s) = {} /\ g[s] = 0
    BY <2>1 DEF Units, Sums
  <2> QED BY <2>2, FS_EmptySet
<1>2. ASSUME NEW n \in G PROVE n + 1 \in G
  <2> SUFFICES ASSUME NEW s \in SUBSET S, Cardinality(s) = n + 1
               PROVE  g[s] = Cardinality(Units(f, s))
    BY DEF G
  <2>0. n \in Nat
    BY DEF G
  <2> DEFINE y == CHOOSE x \in s : TRUE
  <2>1. s # {}
    <3>1. n + 1 # 0
      BY <2>0
    <3> QED BY <3>1, FS_EmptySet
  <2>2. y \in s
    BY <2>1
  <2>3. g[s] = f[y] + g[s \ {y}]
    BY <2>1 DEF Sums
  <2> HIDE DEF y
  <2>4. Cardinality(s \ {y}) = n /\ s \ {y} \in SUBSET S
    <3>1. Cardinality(s \ {y}) = Cardinality(s) - 1
      BY <1>0, <2>2, FS_RemoveElement
    <3> QED BY <2>0, <3>1
  <2>5. g[s \ {y}] = Cardinality(Units(f, s \ {y}))
    BY <2>4
  <2> QED BY <2>2, <2>3, <2>5, UnitsOfOne
<1>3. G \in SUBSET Nat
  OBVIOUS
<1>4. Cardinality(S) \in Nat
  BY FS_CardinalityType
<1> HIDE DEF G
<1>5. G = Nat
  BY <1>1, <1>2, <1>3, NatSetInduction
<1>6. Cardinality(S) \in G
  BY <1>4, <1>5
<1> QED BY <1>6 DEF G

SumOver(f, S) == MapThenSumSet(LAMBDA x : f[x], S)

LEMMA SumIsUnits ==
  ASSUME NEW S, IsFiniteSet(S), NEW f \in [S -> Nat]
  PROVE  SumOver(f, S) = Cardinality(Units(f, S))
<1>1. SumOver(f, S) = (CHOOSE g : Sums(f, S, g))[S]
  BY DEF SumOver, MapThenSumSet, MapThenFoldSet, Sums
<1>2. Sums(f, S, CHOOSE g : Sums(f, S, g))
  BY SumExists
<1> QED BY <1>1, <1>2, SumUnique

\* The sum of a column of a table.
TableSum(f, d, S) == MapThenSumSet(LAMBDA x : f[x][d], S)

LEMMA SumOfTable ==
  ASSUME NEW S, IsFiniteSet(S), NEW f, NEW d, NEW h \in [S -> Nat],
         \A x \in S : f[x][d] = h[x]
  PROVE  TableSum(f, d, S) = Cardinality(Units(h, S))
<1> DEFINE P(g) == g = [s \in SUBSET S |->
                          IF s = {} THEN 0
                          ELSE f[CHOOSE x \in s : TRUE][d] + g[s \ {CHOOSE x \in s : TRUE}]]
<1>1. TableSum(f, d, S) = (CHOOSE g : P(g))[S]
  BY DEF TableSum, MapThenSumSet, MapThenFoldSet
<1>2. ASSUME NEW g PROVE P(g) <=> Sums(h, S, g)
  <2>1. \A s \in SUBSET S : s # {} => (CHOOSE x \in s : TRUE) \in S
    OBVIOUS
  <2>2. \A s \in SUBSET S : s # {} => f[CHOOSE x \in s : TRUE][d] = h[CHOOSE x \in s : TRUE]
    BY <2>1
  <2>3. [s \in SUBSET S |-> IF s = {} THEN 0
            ELSE f[CHOOSE x \in s : TRUE][d] + g[s \ {CHOOSE x \in s : TRUE}]]
        = [s \in SUBSET S |-> IF s = {} THEN 0
            ELSE h[CHOOSE x \in s : TRUE] + g[s \ {CHOOSE x \in s : TRUE}]]
    BY <2>2
  <2> QED BY <2>3 DEF Sums
<1> HIDE DEF P
<1>3. \E g : P(g)
  <2>1. PICK g : Sums(h, S, g)
    BY SumExists
  <2> QED BY <1>2, <2>1
<1>4. P(CHOOSE g : P(g))
  BY <1>3
<1> QED BY <1>1, <1>2, <1>4, SumUnique

\* The sum over a part of what a function counts; one element may have it all.
LEMMA SumOfPart ==
  ASSUME NEW D, NEW f \in [D -> Nat], NEW S \in SUBSET D, IsFiniteSet(S)
  PROVE  /\ (\A x \in S : f[x] = 0) => SumOver(f, S) = 0
         /\ \A y \in S : (\A x \in S : x # y => f[x] = 0) => SumOver(f, S) = f[y]
<1>0. PICK h : h = [x \in S |-> f[x]]
  OBVIOUS
<1>1. h \in [S -> Nat] /\ \A x \in S : f[x] = h[x]
  BY <1>0
<1> DEFINE P(g) == g = [s \in SUBSET S |->
                          IF s = {} THEN 0
                          ELSE f[CHOOSE x \in s : TRUE] + g[s \ {CHOOSE x \in s : TRUE}]]
<1>2. SumOver(f, S) = (CHOOSE g : P(g))[S]
  BY DEF SumOver, MapThenSumSet, MapThenFoldSet
<1>3. ASSUME NEW g PROVE P(g) <=> Sums(h, S, g)
  <2>1. \A s \in SUBSET S : s # {} => (CHOOSE x \in s : TRUE) \in S
    OBVIOUS
  <2>2. \A s \in SUBSET S : s # {} => f[CHOOSE x \in s : TRUE] = h[CHOOSE x \in s : TRUE]
    BY <1>1, <2>1
  <2>3. [s \in SUBSET S |-> IF s = {} THEN 0
            ELSE f[CHOOSE x \in s : TRUE] + g[s \ {CHOOSE x \in s : TRUE}]]
        = [s \in SUBSET S |-> IF s = {} THEN 0
            ELSE h[CHOOSE x \in s : TRUE] + g[s \ {CHOOSE x \in s : TRUE}]]
    BY <2>2
  <2> QED BY <2>3 DEF Sums
<1> HIDE DEF P
<1>4. \E g : P(g)
  <2>1. PICK g : Sums(h, S, g)
    BY <1>1, SumExists
  <2> QED BY <1>3, <2>1
<1>5. P(CHOOSE g : P(g))
  BY <1>4
<1>6. SumOver(f, S) = Cardinality(Units(h, S))
  BY <1>1, <1>2, <1>3, <1>5, SumUnique
<1>7. \A s \in SUBSET S : (\A x \in s : h[x] = 0) => Units(h, s) = {}
  BY DEF Units, UnitsOf
<1>8. ASSUME NEW y \in S, \A x \in S : x # y => h[x] = 0
      PROVE  Cardinality(Units(h, S)) = h[y]
  <2>1. Cardinality(Units(h, S)) = h[y] + Cardinality(Units(h, S \ {y}))
    <3>1. S \in SUBSET S
      OBVIOUS
    <3> QED BY <1>1, <3>1, UnitsOfOne
  <2>2. S \ {y} \in SUBSET S /\ \A x \in S \ {y} : h[x] = 0
    BY <1>8
  <2>3. Units(h, S \ {y}) = {}
    BY <1>7, <2>2
  <2>4. h[y] \in Nat
    BY <1>1
  <2> QED BY <2>1, <2>3, <2>4, FS_EmptySet
<1>9. (\A x \in S : h[x] = 0) => Cardinality(Units(h, S)) = 0
  <2>1. S \in SUBSET S
    OBVIOUS
  <2> QED BY <1>7, <2>1, FS_EmptySet
<1> QED BY <1>1, <1>6, <1>8, <1>9

=============================================================================
