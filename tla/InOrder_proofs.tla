--------------------------- MODULE InOrder_proofs ---------------------------
(* InOrder gives the elements of a set of numbers each once and from the     *)
(* least to the greatest, and those of a set that is below another first.    *)
EXTENDS InOrder, Sequences, FiniteSetTheorems, FunctionTheorems, TLAPS

\* The rank of a member counts from one to the size of the set.
LEMMA RankType ==
    ASSUME NEW S \in SUBSET Int, IsFiniteSet(S), NEW i \in S
    PROVE  Rank(S, i) \in 1 .. Cardinality(S)
<1> DEFINE upTo == {j \in S : j <= i}
<1>1. IsFiniteSet(upTo) /\ Cardinality(upTo) <= Cardinality(S)
  BY FS_Subset
<1>2. upTo # {}
  OBVIOUS
<1>3. Cardinality(S) \in Nat /\ Cardinality(upTo) \in Nat
  BY <1>1, FS_CardinalityType
<1>4. Cardinality(upTo) # 0
  BY <1>1, <1>2, FS_EmptySet
<1> QED BY <1>1, <1>3, <1>4 DEF Rank

\* A greater number has a greater rank.
LEMMA RankGrows ==
    ASSUME NEW S \in SUBSET Int, IsFiniteSet(S), NEW i \in S, NEW j \in S, i < j
    PROVE  Rank(S, i) < Rank(S, j)
<1> DEFINE upToI == {k \in S : k <= i}
           upToJ == {k \in S : k <= j}
<1>1. IsFiniteSet(upToJ) /\ IsFiniteSet(upToI)
  BY FS_Subset
<1>2. upToI \in SUBSET upToJ /\ upToI # upToJ
  <2>1. ASSUME NEW k \in upToI PROVE k \in upToJ
    <3>1. k \in Int /\ i \in Int /\ j \in Int /\ k <= i
      OBVIOUS
    <3> QED BY <3>1
  <2>2. j \in upToJ /\ j \notin upToI
    <3>1. i \in Int /\ j \in Int
      OBVIOUS
    <3> QED BY <3>1
  <2> QED BY <2>1, <2>2
<1>3. Cardinality(upToI) <= Cardinality(upToJ) /\ Cardinality(upToI) # Cardinality(upToJ)
  BY <1>1, <1>2, FS_Subset
<1>4. Cardinality(upToI) \in Nat /\ Cardinality(upToJ) \in Nat
  BY <1>1, FS_CardinalityType
<1> QED BY <1>3, <1>4 DEF Rank

\* Every number up to the size of the set is the rank of a member.
LEMMA RankOnto ==
    ASSUME NEW S \in SUBSET Int, IsFiniteSet(S), NEW n \in 1 .. Cardinality(S)
    PROVE  \E i \in S : Rank(S, i) = n
<1> DEFINE rank == [i \in S |-> Rank(S, i)]
           ranks == 1 .. Cardinality(S)
<1>1. Cardinality(S) \in Nat
  BY FS_CardinalityType
<1>2. IsFiniteSet(ranks) /\ Cardinality(ranks) = Cardinality(S)
  BY <1>1, FS_Interval
<1>3. rank \in [S -> ranks]
  BY RankType
<1>4. ASSUME NEW i \in S, NEW j \in S, rank[i] = rank[j]
      PROVE  i = j
  <2>1. ~ (i < j) /\ ~ (j < i)
    BY <1>3, <1>4, <1>1, RankGrows
  <2> QED BY <2>1
<1>5. rank \in Injection(S, ranks)
  BY <1>3, <1>4 DEF Injection, IsInjective
<1>6. rank \in Surjection(S, ranks)
  BY <1>2, <1>5, FS_Injection
<1> QED BY <1>6 DEF Surjection

\* The n-th of the elements in order is the one of rank n.
LEMMA InOrderIs ==
    ASSUME NEW S \in SUBSET Int, IsFiniteSet(S)
    PROVE  /\ InOrder(S) \in [1 .. Cardinality(S) -> S]
           /\ \A n \in 1 .. Cardinality(S) : Rank(S, InOrder(S)[n]) = n
           /\ \A i \in S : InOrder(S)[Rank(S, i)] = i
<1> DEFINE nth(n) == CHOOSE i \in S : Rank(S, i) = n
<1>1. ASSUME NEW n \in 1 .. Cardinality(S) PROVE nth(n) \in S /\ Rank(S, nth(n)) = n
  BY RankOnto
<1>2. ASSUME NEW i \in S PROVE Rank(S, i) \in 1 .. Cardinality(S) /\ nth(Rank(S, i)) = i
  <2> DEFINE j == nth(Rank(S, i))
  <2>1. Rank(S, i) \in 1 .. Cardinality(S)
    BY RankType
  <2>2. j \in S /\ Rank(S, j) = Rank(S, i)
    BY <1>1, <2>1
  <2> HIDE DEF j
  <2>3. ~ (i < j) /\ ~ (j < i)
    BY <2>1, <2>2, RankGrows
  <2> QED BY <2>1, <2>2, <2>3 DEF j
<1>3. InOrder(S) = [n \in 1 .. Cardinality(S) |-> nth(n)]
  BY DEF InOrder
<1> HIDE DEF nth
<1> QED BY <1>1, <1>2, <1>3

\* It is increasing.
LEMMA InOrderIncreases ==
    ASSUME NEW S \in SUBSET Int, IsFiniteSet(S),
           NEW m \in 1 .. Cardinality(S), NEW n \in 1 .. Cardinality(S)
    PROVE  m < n <=> InOrder(S)[m] < InOrder(S)[n]
<1> DEFINE i == InOrder(S)[m]
           j == InOrder(S)[n]
<1>1. i \in S /\ j \in S /\ Rank(S, i) = m /\ Rank(S, j) = n
  BY InOrderIs
<1>2. Cardinality(S) \in Nat /\ i \in Int /\ j \in Int
  BY <1>1, FS_CardinalityType
<1> HIDE DEF i, j
<1>3. i < j => m < n
  BY <1>1, RankGrows
<1>4. j < i => n < m
  BY <1>1, RankGrows
<1> QED BY <1>1, <1>2, <1>3, <1>4 DEF i, j

\* It is a sequence of as many elements as the set has.
LEMMA InOrderLength ==
    ASSUME NEW S \in SUBSET Int, IsFiniteSet(S)
    PROVE  /\ InOrder(S) \in Seq(S)
           /\ Len(InOrder(S)) = Cardinality(S)
           /\ DOMAIN InOrder(S) = 1 .. Cardinality(S)
<1>1. Cardinality(S) \in Nat /\ InOrder(S) \in [1 .. Cardinality(S) -> S]
  BY FS_CardinalityType, InOrderIs
<1> QED BY <1>1

\* Sets that have nothing in common.
LEMMA DisjointSum ==
    ASSUME NEW S, NEW T, IsFiniteSet(S), IsFiniteSet(T), S \cap T = {}
    PROVE  /\ IsFiniteSet(S \cup T)
           /\ Cardinality(S) \in Nat /\ Cardinality(T) \in Nat
           /\ Cardinality(S \cup T) = Cardinality(S) + Cardinality(T)
<1>1. Cardinality(S) \in Nat /\ Cardinality(T) \in Nat
  BY FS_CardinalityType
<1>2. Cardinality(S \cap T) = 0
  BY FS_EmptySet
<1>3. /\ IsFiniteSet(S \cup T)
      /\ Cardinality(S \cup T) = Cardinality(S) + Cardinality(T) - Cardinality(S \cap T)
  BY FS_Union
<1> QED BY <1>1, <1>2, <1>3

\* If all numbers of S are below those of T, those of S come first.
LEMMA InOrderOfUnion ==
    ASSUME NEW S \in SUBSET Int, NEW T \in SUBSET Int, IsFiniteSet(S), IsFiniteSet(T),
           \A i \in S, j \in T : i < j
    PROVE  /\ IsFiniteSet(S \cup T)
           /\ Cardinality(S \cup T) = Cardinality(S) + Cardinality(T)
           /\ \A n \in 1 .. Cardinality(S) : InOrder(S \cup T)[n] = InOrder(S)[n]
           /\ \A n \in 1 .. Cardinality(T) :
                 InOrder(S \cup T)[Cardinality(S) + n] = InOrder(T)[n]
<1> DEFINE both == S \cup T
<1>1. S \cap T = {}
  <2>1. ASSUME NEW i \in S \cap T PROVE FALSE
    <3>1. i \in Int /\ i < i
      BY <2>1
    <3> QED BY <3>1
  <2> QED BY <2>1
<1>2. /\ IsFiniteSet(both)
      /\ Cardinality(S) \in Nat /\ Cardinality(T) \in Nat
      /\ Cardinality(both) = Cardinality(S) + Cardinality(T)
  BY <1>1, DisjointSum
<1>3. ASSUME NEW i \in S PROVE Rank(both, i) = Rank(S, i)
  <2>1. {j \in both : j <= i} = {j \in S : j <= i}
    <3>1. ASSUME NEW j \in T PROVE ~ (j <= i)
      <4>1. i \in Int /\ j \in Int /\ i < j
        OBVIOUS
      <4> QED BY <4>1
    <3> QED BY <3>1
  <2> QED BY <2>1 DEF Rank
<1>4. ASSUME NEW i \in T PROVE Rank(both, i) = Cardinality(S) + Rank(T, i)
  <2> DEFINE upTo == {j \in T : j <= i}
  <2>1. {j \in both : j <= i} = S \cup upTo /\ S \cap upTo = {}
    <3>1. ASSUME NEW j \in S PROVE j <= i
      <4>1. i \in Int /\ j \in Int /\ j < i
        OBVIOUS
      <4> QED BY <4>1
    <3> QED BY <1>1, <3>1
  <2>2. IsFiniteSet(upTo)
    BY FS_Subset
  <2>3. Cardinality(S \cup upTo) = Cardinality(S) + Cardinality(upTo)
    BY <2>1, <2>2, DisjointSum
  <2> QED BY <2>1, <2>3 DEF Rank
<1>5. ASSUME NEW n \in 1 .. Cardinality(S) PROVE InOrder(both)[n] = InOrder(S)[n]
  <2> DEFINE i == InOrder(S)[n]
  <2>1. i \in S /\ Rank(S, i) = n
    BY InOrderIs
  <2> HIDE DEF i
  <2>2. Rank(both, i) = n
    BY <1>3, <2>1
  <2> QED BY <2>1, <2>2, <1>2, InOrderIs DEF i
<1>6. ASSUME NEW n \in 1 .. Cardinality(T)
      PROVE  InOrder(both)[Cardinality(S) + n] = InOrder(T)[n]
  <2> DEFINE i == InOrder(T)[n]
  <2>1. i \in T /\ Rank(T, i) = n
    BY InOrderIs
  <2> HIDE DEF i
  <2>2. Rank(both, i) = Cardinality(S) + n
    BY <1>4, <2>1
  <2> QED BY <2>1, <2>2, <1>2, InOrderIs DEF i
<1> QED BY <1>2, <1>5, <1>6

\* One number alone.
LEMMA InOrderOfOne ==
    ASSUME NEW i \in Int
    PROVE  Cardinality({i}) = 1 /\ InOrder({i})[1] = i
<1>1. IsFiniteSet({i}) /\ Cardinality({i}) = 1
  BY FS_Singleton
<1>2. InOrder({i}) \in [1 .. 1 -> {i}]
  <2>1. {i} \in SUBSET Int
    OBVIOUS
  <2> QED BY <1>1, <2>1, InOrderIs
<1> QED BY <1>1, <1>2

\* The elements of a list at some of its places are a list of them, and of any
\* two the one that comes first has the lower place.
LEMMA ElementsAtIs ==
    ASSUME NEW T, NEW list \in Seq(T), NEW places \in SUBSET DOMAIN list
    PROVE  /\ IsFiniteSet(places) /\ Cardinality(places) \in Nat
           /\ ElementsAt(list, places) \in Seq(T)
           /\ Len(ElementsAt(list, places)) = Cardinality(places)
           /\ DOMAIN ElementsAt(list, places) = 1 .. Cardinality(places)
           /\ \A n \in 1 .. Cardinality(places) :
                 /\ InOrder(places)[n] \in places
                 /\ ElementsAt(list, places)[n] = list[InOrder(places)[n]]
           /\ \A m, n \in 1 .. Cardinality(places) :
                 m < n <=> InOrder(places)[m] < InOrder(places)[n]
<1>1. /\ places \in SUBSET Int /\ IsFiniteSet(places)
      /\ \A i \in places : list[i] \in T
  <2>1. Len(list) \in Nat /\ DOMAIN list = 1 .. Len(list)
    OBVIOUS
  <2>2. IsFiniteSet(1 .. Len(list))
    BY <2>1, FS_Interval
  <2> QED BY <2>1, <2>2, FS_Subset
<1>2. Cardinality(places) \in Nat
  BY <1>1, FS_CardinalityType
<1>3. InOrder(places) \in [1 .. Cardinality(places) -> places]
  BY <1>1, InOrderIs
<1>4. \A m, n \in 1 .. Cardinality(places) :
         m < n <=> InOrder(places)[m] < InOrder(places)[n]
  BY <1>1, InOrderIncreases
<1> DEFINE place == InOrder(places)
           elements == [n \in 1 .. Cardinality(places) |-> list[place[n]]]
<1>5. ElementsAt(list, places) = elements
  BY <1>3 DEF ElementsAt
<1>6. elements \in [1 .. Cardinality(places) -> T]
  BY <1>1, <1>3
<1>7. elements \in Seq(T) /\ Len(elements) = Cardinality(places)
  BY <1>2, <1>6
<1> QED BY <1>1, <1>2, <1>3, <1>4, <1>5, <1>7
=============================================================================
