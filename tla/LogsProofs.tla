----------------------------- MODULE LogsProofs -----------------------------
(***************************************************************************)
(* What the operators of Logs return: the first and the last log of a set  *)
(* exist, from() takes the lowest logs and to() the highest, as many as    *)
(* they can, a chunk of one log has nothing behind it, and inserting and   *)
(* pruning move positions by a known number.                               *)
(* All the sets of logs are finite, as a std::set is.                      *)
(***************************************************************************)
EXTENDS Logs, FiniteSetTheorems, WellFoundedInduction, TLAPS

\* A finite set of integers that is not empty has a least element: the one with
\* the smallest set below it.
LEMMA LeastExists ==
    ASSUME NEW S, IsFiniteSet(S), S \subseteq Int, S # {}
    PROVE  \E x \in S : \A y \in S : x <= y
<1> DEFINE Under(x) == {y \in S : y < x}
           T == {Under(x) : x \in S}
<1>1. T \subseteq FiniteSubsetsOf(S)
  <2> SUFFICES ASSUME NEW x \in S PROVE Under(x) \in FiniteSubsetsOf(S)
    OBVIOUS
  <2> QED BY FS_Subset DEF FiniteSubsetsOf
<1>2. IsWellFoundedOn(StrictSubsetOrdering(S), FiniteSubsetsOf(S))
  BY FS_StrictSubsetOrderingWellFounded
<1>3. T # {}
  OBVIOUS
<1>4. PICK U \in T : \A V \in T : <<V, U>> \notin StrictSubsetOrdering(S)
  <2> HIDE DEF T
  <2> QED BY <1>1, <1>2, <1>3, WFMin
<1>5. PICK x \in S : U = Under(x)
  OBVIOUS
<1>6. ASSUME NEW y \in S, ~(x <= y) PROVE FALSE
  <2>1. x \in Int /\ y \in Int /\ y < x
    BY <1>6
  <2>2. ASSUME NEW z \in Under(y) PROVE z \in Under(x)
    <3>1. z \in Int /\ z < y
      OBVIOUS
    <3> QED BY <2>1, <3>1
  <2>3. y \in Under(x) /\ y \notin Under(y)
    BY <2>1
  <2>4. <<Under(y), U>> \in StrictSubsetOrdering(S)
    BY <1>5, <2>2, <2>3 DEF StrictSubsetOrdering
  <2> QED BY <1>4, <2>4
<1> QED BY <1>6

\* A finite set of integers that is not empty has a greatest element: the one
\* with the smallest set above it.
LEMMA GreatestExists ==
    ASSUME NEW S, IsFiniteSet(S), S \subseteq Int, S # {}
    PROVE  \E x \in S : \A y \in S : y <= x
<1> DEFINE Over(x) == {y \in S : x < y}
           T == {Over(x) : x \in S}
<1>1. T \subseteq FiniteSubsetsOf(S)
  <2> SUFFICES ASSUME NEW x \in S PROVE Over(x) \in FiniteSubsetsOf(S)
    OBVIOUS
  <2> QED BY FS_Subset DEF FiniteSubsetsOf
<1>2. IsWellFoundedOn(StrictSubsetOrdering(S), FiniteSubsetsOf(S))
  BY FS_StrictSubsetOrderingWellFounded
<1>3. T # {}
  OBVIOUS
<1>4. PICK U \in T : \A V \in T : <<V, U>> \notin StrictSubsetOrdering(S)
  <2> HIDE DEF T
  <2> QED BY <1>1, <1>2, <1>3, WFMin
<1>5. PICK x \in S : U = Over(x)
  OBVIOUS
<1>6. ASSUME NEW y \in S, ~(y <= x) PROVE FALSE
  <2>1. x \in Int /\ y \in Int /\ x < y
    BY <1>6
  <2>2. ASSUME NEW z \in Over(y) PROVE z \in Over(x)
    <3>1. z \in Int /\ y < z
      OBVIOUS
    <3> QED BY <2>1, <3>1
  <2>3. y \in Over(x) /\ y \notin Over(y)
    BY <2>1
  <2>4. <<Over(y), U>> \in StrictSubsetOrdering(S)
    BY <1>5, <2>2, <2>3 DEF StrictSubsetOrdering
  <2> QED BY <1>4, <2>4
<1> QED BY <1>6

\* Logs::first() of a set that is not empty.
LEMMA FirstIsLeast ==
    ASSUME NEW S, IsFiniteSet(S), S \subseteq Int, S # {}
    PROVE  First(S) \in S /\ \A y \in S : First(S) <= y
BY LeastExists DEF First

\* Logs::last(), and the last log of a chunk.
LEMMA LastIsGreatest ==
    ASSUME NEW S, IsFiniteSet(S), S \subseteq Int, S # {}
    PROVE  Last(S) \in S /\ \A y \in S : y <= Last(S)
BY GreatestExists DEF Last

\* A log that Logs::from() could have returned and did not is behind all those
\* that it did return.
LEMMA FromTakesTheLowest ==
    ASSUME NEW S, IsFiniteSet(S), S \subseteq Int, NEW key \in Int, NEW n \in Nat,
           NEW k \in NotBelow(S, key), k \notin From(S, key, n),
           NEW j \in From(S, key, n)
    PROVE  j < k
<1> DEFINE N == NotBelow(S, key)
           Before(x) == {i \in N : i < x}
<1>1. N \subseteq S /\ k \in Int /\ j \in N /\ j \in Int
  BY DEF NotBelow, From
<1>2. IsFiniteSet(N)
  BY <1>1, FS_Subset
<1>3. IsFiniteSet(Before(j)) /\ Cardinality(Before(j)) \in Nat
      /\ IsFiniteSet(Before(k)) /\ Cardinality(Before(k)) \in Nat
  <2>1. Before(j) \subseteq N /\ Before(k) \subseteq N
    OBVIOUS
  <2> QED BY <1>2, <2>1, FS_Subset, FS_CardinalityType
<1>4. Cardinality(Before(j)) < n /\ ~(Cardinality(Before(k)) < n)
  BY DEF From
<1>5. ASSUME ~(j < k) PROVE FALSE
  <2>1. ASSUME NEW i \in Before(k) PROVE i \in Before(j)
    <3>1. i \in Int /\ i < k
      BY <1>1
    <3> QED BY <1>1, <1>5, <3>1
  <2>2. Before(k) \subseteq Before(j)
    BY <2>1
  <2>3. Cardinality(Before(k)) <= Cardinality(Before(j))
    <3> HIDE DEF Before
    <3> QED BY <1>3, <2>2, FS_Subset
  <2> QED
    <3> HIDE DEF Before
    <3> QED BY <1>3, <1>4, <2>3
<1> QED BY <1>5

\* When Logs::from() leaves out a log, it returns at least two. This is why a
\* chunk of one log may end a copy.
LEMMA AChunkOfOneIsTheLast ==
    ASSUME NEW S, IsFiniteSet(S), S \subseteq Int, NEW key \in Int,
           NEW n \in Nat, n >= 2,
           NEW k \in NotBelow(S, key), k \notin From(S, key, n)
    PROVE  \E i, j \in From(S, key, n) : i # j
<1> DEFINE N == NotBelow(S, key)
           Before(x) == {i \in N : i < x}
           B == Before(k)
<1>1. N \subseteq S /\ N \subseteq Int /\ k \in Int /\ B \subseteq N
  BY DEF NotBelow
<1>2. IsFiniteSet(N) /\ IsFiniteSet(B) /\ Cardinality(B) \in Nat
  <2>1. IsFiniteSet(N)
    BY <1>1, FS_Subset
  <2> QED BY <1>1, <2>1, FS_Subset, FS_CardinalityType
<1>3. Cardinality(B) >= 2
  <2>1. ~(Cardinality(B) < n)
    BY DEF From
  <2> HIDE DEF B
  <2> QED BY <1>2, <2>1
<1>4. B # {}
  <2> HIDE DEF B
  <2> QED BY <1>2, <1>3, FS_EmptySet
<1>5. PICK i \in B : \A x \in B : i <= x
  <2> HIDE DEF B
  <2> QED BY <1>1, <1>2, <1>4, LeastExists
<1>6. IsFiniteSet(B \ {i}) /\ B \ {i} # {}
  <2> HIDE DEF B
  <2> QED BY <1>2, <1>3, FS_RemoveElement, FS_EmptySet
<1>7. PICK j \in B \ {i} : \A x \in B \ {i} : j <= x
  <2> HIDE DEF B
  <2> QED BY <1>1, <1>6, LeastExists
<1>8. Before(i) = {}
  <2> SUFFICES ASSUME NEW x \in N, x < i PROVE FALSE
    OBVIOUS
  <2>1. x \in Int /\ i \in Int /\ i < k
    BY <1>1
  <2>2. x \in B
    BY <1>1, <2>1
  <2> QED BY <1>5, <2>1, <2>2
<1>9. Before(j) = {i}
  <2>1. i \in Int /\ j \in Int /\ j < k /\ i <= j /\ i # j
    BY <1>1, <1>5
  <2>2. i \in Before(j)
    BY <1>1, <2>1
  <2>3. ASSUME NEW x \in Before(j) PROVE x = i
    <3>1. x \in Int /\ x < j /\ x \in N
      BY <1>1
    <3>2. x \in B
      BY <1>1, <2>1, <3>1
    <3> QED BY <1>7, <2>1, <3>1, <3>2
  <2> QED BY <2>2, <2>3
<1>10. i \in From(S, key, n)
  <2>1. Cardinality(Before(i)) = 0
    BY <1>8, FS_EmptySet
  <2> QED BY <1>1, <2>1 DEF From
<1>11. j \in From(S, key, n)
  <2>1. Cardinality(Before(j)) = 1
    BY <1>9, FS_Singleton
  <2> QED BY <1>1, <2>1 DEF From
<1> QED BY <1>10, <1>11, <1>7

\* When Logs::from() leaves out a log, it returns as many as it was asked for: a
\* chunk that is shorter is the last one.
LEMMA FromReturnsAllItCan ==
    ASSUME NEW S, IsFiniteSet(S), S \subseteq Int, NEW key \in Int, NEW n \in Nat,
           NEW k \in NotBelow(S, key), k \notin From(S, key, n)
    PROVE  Cardinality(From(S, key, n)) >= n
<1> DEFINE N == NotBelow(S, key)
           F == From(S, key, n)
           Before(x) == {i \in N : i < x}
<1>1. N \subseteq S /\ F \subseteq N /\ N \ F \subseteq Int /\ N \ F # {}
  BY DEF NotBelow, From
<1>2. IsFiniteSet(N) /\ IsFiniteSet(F) /\ IsFiniteSet(N \ F)
  <2> HIDE DEF N, F
  <2>1. IsFiniteSet(N)
    BY <1>1, FS_Subset
  <2> QED BY <1>1, <2>1, FS_Subset
<1>3. PICK u \in N \ F : \A x \in N \ F : u <= x
  <2> HIDE DEF N, F
  <2> QED BY <1>1, <1>2, LeastExists
<1>4. Before(u) \subseteq F
  <2> SUFFICES ASSUME NEW i \in N, i < u, i \notin F PROVE FALSE
    OBVIOUS
  <2>1. i \in Int /\ u \in Int
    BY <1>1
  <2> QED BY <1>3, <2>1
<1>5. ~(Cardinality(Before(u)) < n)
  BY <1>3 DEF From
<1>6. Cardinality(F) >= n
  <2> HIDE DEF F, Before
  <2> QED BY <1>2, <1>4, <1>5, FS_Subset, FS_CardinalityType
<1> QED BY <1>6

\* The same of Logs::to(), which takes the highest logs.
LEMMA ToTakesTheHighest ==
    ASSUME NEW S, IsFiniteSet(S), S \subseteq Int, NEW key \in Int, NEW n \in Nat,
           NEW k \in NotAbove(S, key), k \notin To(S, key, n),
           NEW j \in To(S, key, n)
    PROVE  k < j
<1> DEFINE N == NotAbove(S, key)
           Behind(x) == {i \in N : i > x}
<1>1. N \subseteq S /\ k \in Int /\ j \in N /\ j \in Int
  BY DEF NotAbove, To
<1>2. IsFiniteSet(N)
  BY <1>1, FS_Subset
<1>3. IsFiniteSet(Behind(j)) /\ Cardinality(Behind(j)) \in Nat
      /\ IsFiniteSet(Behind(k)) /\ Cardinality(Behind(k)) \in Nat
  <2>1. Behind(j) \subseteq N /\ Behind(k) \subseteq N
    OBVIOUS
  <2> QED BY <1>2, <2>1, FS_Subset, FS_CardinalityType
<1>4. Cardinality(Behind(j)) < n /\ ~(Cardinality(Behind(k)) < n)
  BY DEF To
<1>5. ASSUME ~(k < j) PROVE FALSE
  <2>1. ASSUME NEW i \in Behind(k) PROVE i \in Behind(j)
    <3>1. i \in Int /\ i > k
      BY <1>1
    <3> QED BY <1>1, <1>5, <3>1
  <2>2. Behind(k) \subseteq Behind(j)
    BY <2>1
  <2>3. Cardinality(Behind(k)) <= Cardinality(Behind(j))
    <3> HIDE DEF Behind
    <3> QED BY <1>3, <2>2, FS_Subset
  <2> QED
    <3> HIDE DEF Behind
    <3> QED BY <1>3, <1>4, <2>3
<1> QED BY <1>5

LEMMA ToReturnsAllItCan ==
    ASSUME NEW S, IsFiniteSet(S), S \subseteq Int, NEW key \in Int, NEW n \in Nat,
           NEW k \in NotAbove(S, key), k \notin To(S, key, n)
    PROVE  Cardinality(To(S, key, n)) >= n
<1> DEFINE N == NotAbove(S, key)
           F == To(S, key, n)
           Behind(x) == {i \in N : i > x}
<1>1. N \subseteq S /\ F \subseteq N /\ N \ F \subseteq Int /\ N \ F # {}
  BY DEF NotAbove, To
<1>2. IsFiniteSet(N) /\ IsFiniteSet(F) /\ IsFiniteSet(N \ F)
  <2> HIDE DEF N, F
  <2>1. IsFiniteSet(N)
    BY <1>1, FS_Subset
  <2> QED BY <1>1, <2>1, FS_Subset
<1>3. PICK u \in N \ F : \A x \in N \ F : x <= u
  <2> HIDE DEF N, F
  <2> QED BY <1>1, <1>2, GreatestExists
<1>4. Behind(u) \subseteq F
  <2> SUFFICES ASSUME NEW i \in N, i > u, i \notin F PROVE FALSE
    OBVIOUS
  <2>1. i \in Int /\ u \in Int
    BY <1>1
  <2> QED BY <1>3, <2>1
<1>5. ~(Cardinality(Behind(u)) < n)
  BY <1>3 DEF To
<1>6. Cardinality(F) >= n
  <2> HIDE DEF F, Behind
  <2> QED BY <1>2, <1>4, <1>5, FS_Subset, FS_CardinalityType
<1> QED BY <1>6

LEMMA TwoAreTwo ==
    ASSUME NEW S, IsFiniteSet(S), NEW a \in S, NEW b \in S, a # b
    PROVE  Cardinality(S) >= 2
<1>1. IsFiniteSet({a}) /\ Cardinality({a}) = 1
  BY FS_Singleton
<1>2. Cardinality({a} \cup {b}) = 2
  BY <1>1, FS_AddElement
<1>3. {a} \cup {b} \subseteq S
  OBVIOUS
<1>4. Cardinality({a} \cup {b}) <= Cardinality(S) /\ Cardinality(S) \in Nat
  BY <1>3, FS_Subset, FS_CardinalityType
<1> QED BY <1>2, <1>4

\* Two logs from a log on are this log and the one behind it, if there is one.
LEMMA TwoFromALog ==
    ASSUME NEW S, IsFiniteSet(S), S \subseteq Int, NEW key \in S
    PROVE  LET D == From(S, key, 2)
           IN  IF Cardinality(D) < 2 THEN \A k \in S : ~(key < k)
               ELSE /\ Last(D) \in S /\ key < Last(D)
                    /\ \A k \in S : key < k => Last(D) <= k
<1> DEFINE D == From(S, key, 2)
<1>1. D \subseteq NotBelow(S, key) /\ NotBelow(S, key) \subseteq S
  BY DEF From, NotBelow
<1>2. IsFiniteSet(D) /\ IsFiniteSet(NotBelow(S, key))
  BY <1>1, FS_Subset
<1>3. key \in NotBelow(S, key) /\ \A j \in D : key <= j /\ j \in Int
  <2>1. \A j \in NotBelow(S, key) : key <= j /\ j \in Int
    BY DEF NotBelow
  <2>2. key \in NotBelow(S, key)
    BY DEF NotBelow
  <2> HIDE DEF D
  <2> QED BY <1>1, <2>1, <2>2
<1>4. ASSUME NEW k \in NotBelow(S, key), k \notin D
      PROVE  (\A j \in D : j < k) /\ Cardinality(D) >= 2
  BY <1>4, FromTakesTheLowest, FromReturnsAllItCan
<1>5. key \in D
  <2> SUFFICES ASSUME key \notin D PROVE FALSE
    OBVIOUS
  <2>1. Cardinality(D) >= 2 /\ \A j \in D : j < key
    BY <1>3, <1>4
  <2>2. D = {}
    <3> HIDE DEF D
    <3> QED BY <1>3, <2>1
  <2> QED BY <2>1, <2>2, FS_EmptySet
<1>6. Cardinality(D) \in Nat
  BY <1>2, FS_CardinalityType
<1>7. ASSUME Cardinality(D) < 2, NEW k \in S
      PROVE  ~(key < k)
  <2> SUFFICES ASSUME key < k PROVE FALSE
    OBVIOUS
  <2>1. k \in NotBelow(S, key) /\ k # key
    BY DEF NotBelow
  <2>2. k \in D
    <3> HIDE DEF D
    <3> QED BY <1>4, <1>6, <1>7, <2>1
  <2>3. Cardinality(D) >= 2
    BY <1>2, <1>5, <2>1, <2>2, TwoAreTwo
  <2> HIDE DEF D
  <2> QED BY <1>6, <1>7, <2>3
<1>8. ASSUME ~(Cardinality(D) < 2)
      PROVE  /\ Last(D) \in S /\ key < Last(D)
             /\ \A k \in S : key < k => Last(D) <= k
  <2>1. Last(D) \in D /\ \A j \in D : j <= Last(D)
    BY <1>1, <1>2, <1>5, LastIsGreatest
  <2>2. Last(D) \in S /\ Last(D) \in Int /\ key <= Last(D)
    BY <1>1, <1>3, <2>1
  <2>3. Last(D) # key
    <3> SUFFICES ASSUME Last(D) = key PROVE FALSE
      OBVIOUS
    <3>1. D = {key}
      <4>1. ASSUME NEW j \in D PROVE j = key
        <5>1. j <= key /\ key <= j /\ j \in Int /\ key \in Int
          BY <1>3, <2>1, Last(D) = key
        <5> HIDE DEF D
        <5> QED BY <5>1
      <4> HIDE DEF D
      <4> QED BY <1>5, <4>1
    <3>2. Cardinality({key}) = 1
      BY FS_Singleton
    <3> HIDE DEF D
    <3> QED BY <1>8, <3>1, <3>2
  <2>4. ASSUME NEW k \in S, key < k
        PROVE  Last(D) <= k
    <3> SUFFICES ASSUME k < Last(D) PROVE FALSE
      BY <2>2
    <3> DEFINE Lower == {j \in NotBelow(S, key) : j < Last(D)}
    <3>1. Cardinality(Lower) < 2
      BY <2>1 DEF From
    <3>2. key \in Lower /\ k \in Lower
      BY <1>3, <2>2, <2>3, <2>4 DEF NotBelow
    <3>3. IsFiniteSet(Lower)
      BY <1>2, FS_Subset
    <3>4. key # k
      BY <2>4
    <3>5. Cardinality(Lower) >= 2 /\ Cardinality(Lower) \in Nat
      <4> HIDE DEF Lower
      <4> QED BY <3>2, <3>3, <3>4, TwoAreTwo, FS_CardinalityType
    <3> HIDE DEF Lower
    <3> QED BY <3>1, <3>5
  <2> HIDE DEF D
  <2> QED BY <2>2, <2>3, <2>4
<1> HIDE DEF D
<1>9. IF Cardinality(D) < 2 THEN \A k \in S : ~(key < k)
      ELSE /\ Last(D) \in S /\ key < Last(D)
           /\ \A k \in S : key < k => Last(D) <= k
  BY <1>7, <1>8
<1> QED BY <1>9 DEF D

\* Two logs up to a log are this log and the one before it, if there is one.
LEMMA TwoToALog ==
    ASSUME NEW S, IsFiniteSet(S), S \subseteq Int, NEW key \in S
    PROVE  LET D == To(S, key, 2)
           IN  IF Cardinality(D) < 2 THEN \A k \in S : ~(k < key)
               ELSE /\ First(D) \in S /\ First(D) < key
                    /\ \A k \in S : k < key => k <= First(D)
<1> DEFINE D == To(S, key, 2)
<1>1. D \subseteq NotAbove(S, key) /\ NotAbove(S, key) \subseteq S
  BY DEF To, NotAbove
<1>2. IsFiniteSet(D) /\ IsFiniteSet(NotAbove(S, key))
  BY <1>1, FS_Subset
<1>3. key \in NotAbove(S, key) /\ \A j \in D : j <= key /\ j \in Int
  <2>1. \A j \in NotAbove(S, key) : j <= key /\ j \in Int
    BY DEF NotAbove
  <2>2. key \in NotAbove(S, key)
    BY DEF NotAbove
  <2> HIDE DEF D
  <2> QED BY <1>1, <2>1, <2>2
<1>4. ASSUME NEW k \in NotAbove(S, key), k \notin D
      PROVE  (\A j \in D : k < j) /\ Cardinality(D) >= 2
  BY <1>4, ToTakesTheHighest, ToReturnsAllItCan
<1>5. key \in D
  <2> SUFFICES ASSUME key \notin D PROVE FALSE
    OBVIOUS
  <2>1. Cardinality(D) >= 2 /\ \A j \in D : key < j
    BY <1>3, <1>4
  <2>2. D = {}
    <3> HIDE DEF D
    <3> QED BY <1>3, <2>1
  <2> QED BY <2>1, <2>2, FS_EmptySet
<1>6. Cardinality(D) \in Nat
  BY <1>2, FS_CardinalityType
<1>7. ASSUME Cardinality(D) < 2, NEW k \in S
      PROVE  ~(k < key)
  <2> SUFFICES ASSUME k < key PROVE FALSE
    OBVIOUS
  <2>1. k \in NotAbove(S, key) /\ k # key
    BY DEF NotAbove
  <2>2. k \in D
    <3> HIDE DEF D
    <3> QED BY <1>4, <1>6, <1>7, <2>1
  <2>3. Cardinality(D) >= 2
    BY <1>2, <1>5, <2>1, <2>2, TwoAreTwo
  <2> HIDE DEF D
  <2> QED BY <1>6, <1>7, <2>3
<1>8. ASSUME ~(Cardinality(D) < 2)
      PROVE  /\ First(D) \in S /\ First(D) < key
             /\ \A k \in S : k < key => k <= First(D)
  <2>1. First(D) \in D /\ \A j \in D : First(D) <= j
    BY <1>1, <1>2, <1>5, FirstIsLeast
  <2>2. First(D) \in S /\ First(D) \in Int /\ First(D) <= key
    BY <1>1, <1>3, <2>1
  <2>3. First(D) # key
    <3> SUFFICES ASSUME First(D) = key PROVE FALSE
      OBVIOUS
    <3>1. D = {key}
      <4>1. ASSUME NEW j \in D PROVE j = key
        <5>1. j <= key /\ key <= j /\ j \in Int /\ key \in Int
          BY <1>3, <2>1, First(D) = key
        <5> HIDE DEF D
        <5> QED BY <5>1
      <4> HIDE DEF D
      <4> QED BY <1>5, <4>1
    <3>2. Cardinality({key}) = 1
      BY FS_Singleton
    <3> HIDE DEF D
    <3> QED BY <1>8, <3>1, <3>2
  <2>4. ASSUME NEW k \in S, k < key
        PROVE  k <= First(D)
    <3> SUFFICES ASSUME First(D) < k PROVE FALSE
      BY <2>2
    <3> DEFINE Higher == {j \in NotAbove(S, key) : j > First(D)}
    <3>1. Cardinality(Higher) < 2
      BY <2>1 DEF To
    <3>2. key \in Higher /\ k \in Higher
      BY <1>3, <2>2, <2>3, <2>4 DEF NotAbove
    <3>3. IsFiniteSet(Higher)
      BY <1>2, FS_Subset
    <3>4. key # k
      BY <2>4
    <3>5. Cardinality(Higher) >= 2 /\ Cardinality(Higher) \in Nat
      <4> HIDE DEF Higher
      <4> QED BY <3>2, <3>3, <3>4, TwoAreTwo, FS_CardinalityType
    <3> HIDE DEF Higher
    <3> QED BY <3>1, <3>5
  <2> HIDE DEF D
  <2> QED BY <2>2, <2>3, <2>4
<1> HIDE DEF D
<1>9. IF Cardinality(D) < 2 THEN \A k \in S : ~(k < key)
      ELSE /\ First(D) \in S /\ First(D) < key
           /\ \A k \in S : k < key => k <= First(D)
  BY <1>7, <1>8
<1> QED BY <1>9 DEF D

\* What comes before a key is finite, and so its position is a number.
LEMMA PositionIsNat ==
    ASSUME NEW S, IsFiniteSet(S), S \subseteq Int, NEW k \in Int
    PROVE  Position(S, k) \in Nat
<1>1. {j \in S : j < k} \subseteq S
  OBVIOUS
<1> QED BY <1>1, FS_Subset, FS_CardinalityType DEF Position

\* Positions have the order of the keys.
LEMMA PositionMonotone ==
    ASSUME NEW S, IsFiniteSet(S), S \subseteq Int, NEW j \in Int, NEW k \in Int, j <= k
    PROVE  Position(S, j) <= Position(S, k)
<1> DEFINE Before(x) == {i \in S : i < x}
<1>1. Before(k) \subseteq S /\ Before(j) \subseteq Before(k)
  <2>1. ASSUME NEW i \in Before(j) PROVE i \in Before(k)
    <3>1. i \in S /\ i \in Int /\ i < j
      OBVIOUS
    <3>2. i < k
      BY <3>1
    <3> QED BY <3>1, <3>2
  <2> QED BY <2>1
<1>2. Position(S, j) = Cardinality(Before(j)) /\ Position(S, k) = Cardinality(Before(k))
  BY DEF Position
<1> HIDE DEF Before
<1>3. IsFiniteSet(Before(k))
  BY <1>1, FS_Subset
<1> QED BY <1>1, <1>2, <1>3, FS_Subset

\* Logs::from() returns no more logs than it is asked for.
LEMMA FromIsBounded ==
    ASSUME NEW S, IsFiniteSet(S), S \subseteq Int, NEW key \in Int, NEW n \in Nat
    PROVE  /\ From(S, key, n) \subseteq S /\ IsFiniteSet(From(S, key, n))
           /\ Cardinality(From(S, key, n)) <= n
<1> DEFINE N == NotBelow(S, key)
           F == From(S, key, n)
           Before(x) == {i \in N : i < x}
<1>1. N \subseteq S /\ F \subseteq N
  BY DEF NotBelow, From
<1>2. IsFiniteSet(N) /\ IsFiniteSet(F) /\ F \subseteq Int /\ Cardinality(F) \in Nat
  <2> HIDE DEF N, F
  <2> QED BY <1>1, FS_Subset, FS_CardinalityType
<1>3. CASE F = {}
  <2> HIDE DEF F
  <2>1. Cardinality(F) <= n
    BY <1>3, FS_EmptySet
  <2> QED BY <1>1, <1>2, <2>1 DEF F
<1>4. CASE F # {}
  <2>1. PICK u \in F : \A x \in F : x <= u
    <3> HIDE DEF F
    <3> QED BY <1>2, <1>4, GreatestExists
  <2>2. F \ {u} \subseteq Before(u)
    <3> SUFFICES ASSUME NEW x \in F, x # u PROVE x < u
      BY <1>1
    <3>1. x <= u /\ x \in Int /\ u \in Int
      BY <1>2, <2>1
    <3> QED BY <3>1
  <2>3. Cardinality(Before(u)) < n
    BY <2>1 DEF From
  <2>4. Before(u) \subseteq N
    OBVIOUS
  <2> HIDE DEF F, Before, N
  <2>5. IsFiniteSet(Before(u)) /\ Cardinality(Before(u)) \in Nat
    BY <1>2, <2>4, FS_Subset, FS_CardinalityType
  <2>6. Cardinality(F \ {u}) <= Cardinality(Before(u))
    BY <2>2, <2>5, FS_Subset
  <2>7. Cardinality(F \ {u}) = Cardinality(F) - 1
    BY <1>2, <2>1, FS_RemoveElement
  <2>8. Cardinality(F) <= n
    BY <1>2, <2>3, <2>5, <2>6, <2>7
  <2> QED BY <1>1, <1>2, <2>8 DEF F
<1> QED BY <1>3, <1>4

\* Nor does Logs::to().
LEMMA ToIsBounded ==
    ASSUME NEW S, IsFiniteSet(S), S \subseteq Int, NEW key \in Int, NEW n \in Nat
    PROVE  /\ To(S, key, n) \subseteq S /\ IsFiniteSet(To(S, key, n))
           /\ Cardinality(To(S, key, n)) <= n
<1> DEFINE N == NotAbove(S, key)
           F == To(S, key, n)
           Behind(x) == {i \in N : i > x}
<1>1. N \subseteq S /\ F \subseteq N
  BY DEF NotAbove, To
<1>2. IsFiniteSet(N) /\ IsFiniteSet(F) /\ F \subseteq Int /\ Cardinality(F) \in Nat
  <2> HIDE DEF N, F
  <2> QED BY <1>1, FS_Subset, FS_CardinalityType
<1>3. CASE F = {}
  <2> HIDE DEF F
  <2>1. Cardinality(F) <= n
    BY <1>3, FS_EmptySet
  <2> QED BY <1>1, <1>2, <2>1 DEF F
<1>4. CASE F # {}
  <2>1. PICK u \in F : \A x \in F : u <= x
    <3> HIDE DEF F
    <3> QED BY <1>2, <1>4, LeastExists
  <2>2. F \ {u} \subseteq Behind(u)
    <3> SUFFICES ASSUME NEW x \in F, x # u PROVE x > u
      BY <1>1
    <3>1. u <= x /\ x \in Int /\ u \in Int
      BY <1>2, <2>1
    <3> QED BY <3>1
  <2>3. Cardinality(Behind(u)) < n
    BY <2>1 DEF To
  <2>4. Behind(u) \subseteq N
    OBVIOUS
  <2> HIDE DEF F, Behind, N
  <2>5. IsFiniteSet(Behind(u)) /\ Cardinality(Behind(u)) \in Nat
    BY <1>2, <2>4, FS_Subset, FS_CardinalityType
  <2>6. Cardinality(F \ {u}) <= Cardinality(Behind(u))
    BY <2>2, <2>5, FS_Subset
  <2>7. Cardinality(F \ {u}) = Cardinality(F) - 1
    BY <1>2, <2>1, FS_RemoveElement
  <2>8. Cardinality(F) <= n
    BY <1>2, <2>3, <2>5, <2>6, <2>7
  <2> QED BY <1>1, <1>2, <2>8 DEF F
<1> QED BY <1>3, <1>4

\* A log of the set has a position in front of its end.
LEMMA PositionInSet ==
    ASSUME NEW S, IsFiniteSet(S), S \subseteq Int, NEW k \in S
    PROVE  Position(S, k) \in Nat /\ Position(S, k) < Cardinality(S)
<1> DEFINE Before == {j \in S : j < k}
<1>1. Before \subseteq S \ {k}
  <2> SUFFICES ASSUME NEW j \in S, j < k, j = k PROVE FALSE
    OBVIOUS
  <2>1. k \in Int
    OBVIOUS
  <2> QED BY <2>1
<1>2. Position(S, k) = Cardinality(Before)
  BY DEF Position
<1> HIDE DEF Before
<1>3. IsFiniteSet(S \ {k}) /\ Cardinality(S \ {k}) = Cardinality(S) - 1
      /\ Cardinality(S) \in Nat
  BY FS_RemoveElement, FS_CardinalityType
<1>4. Cardinality(Before) <= Cardinality(S \ {k}) /\ Cardinality(Before) \in Nat
  BY <1>1, <1>3, FS_Subset, FS_CardinalityType
<1> QED BY <1>2, <1>3, <1>4

\* The position of the last log is the end of the set but one.
LEMMA PositionOfGreatest ==
    ASSUME NEW S, IsFiniteSet(S), S \subseteq Int, NEW k \in S, \A j \in S : j <= k
    PROVE  Position(S, k) = Cardinality(S) - 1
<1> DEFINE Before == {j \in S : j < k}
<1>1. Before = S \ {k}
  <2> SUFFICES ASSUME NEW j \in S PROVE j < k <=> j # k
    OBVIOUS
  <2>1. j \in Int /\ k \in Int /\ j <= k
    OBVIOUS
  <2> QED BY <2>1
<1>2. Position(S, k) = Cardinality(Before)
  BY DEF Position
<1> HIDE DEF Before
<1> QED BY <1>1, <1>2, FS_RemoveElement

\* There is a log at each position up to the end.
LEMMA EveryPositionIsTaken ==
    ASSUME NEW S, IsFiniteSet(S), S \subseteq Int, NEW n \in Nat, n < Cardinality(S)
    PROVE  \E x \in S : Position(S, x) = n
<1> DEFINE T == {x \in S : Position(S, x) >= n}
<1>1. T \subseteq S /\ T \subseteq Int /\ IsFiniteSet(T)
  <2>1. T \subseteq S
    OBVIOUS
  <2> HIDE DEF T
  <2> QED BY <2>1, FS_Subset
<1>2. Cardinality(S) \in Nat /\ S # {}
  BY FS_CardinalityType, FS_EmptySet
<1>3. PICK l \in S : \A x \in S : x <= l
  BY <1>2, GreatestExists
<1>4. l \in T
  <2>1. Position(S, l) = Cardinality(S) - 1
    BY <1>3, PositionOfGreatest
  <2> QED BY <1>2, <2>1
<1>5. PICK x \in T : \A y \in T : x <= y
  <2> HIDE DEF T
  <2> QED BY <1>1, <1>4, LeastExists
<1>6. x \in S /\ x \in Int /\ Position(S, x) \in Nat /\ Position(S, x) >= n
  BY PositionIsNat
<1>7. ASSUME Position(S, x) # n PROVE FALSE
  <2> DEFINE B == {j \in S : j < x}
  <2>1. B \subseteq S /\ Position(S, x) = Cardinality(B)
    BY DEF Position
  <2>2. IsFiniteSet(B) /\ B \subseteq Int /\ Cardinality(B) > n
    <3> HIDE DEF B
    <3>1. IsFiniteSet(B) /\ B \subseteq Int
      BY <2>1, FS_Subset
    <3>2. Cardinality(B) \in Nat /\ Cardinality(B) >= n /\ Cardinality(B) # n
      BY <1>6, <1>7, <2>1
    <3> QED BY <3>1, <3>2
  <2>3. B # {}
    <3> HIDE DEF B
    <3> QED BY <2>2, FS_EmptySet
  <2>4. PICK p \in B : \A y \in B : y <= p
    <3> HIDE DEF B
    <3> QED BY <2>2, <2>3, GreatestExists
  <2>5. p \in S /\ p < x /\ p \in Int
    OBVIOUS
  <2>6. {j \in S : j < p} = {j \in B : j < p}
    <3> SUFFICES ASSUME NEW j \in S, j < p PROVE j < x
      OBVIOUS
    <3>1. j \in Int
      OBVIOUS
    <3> QED BY <1>6, <2>5, <3>1
  <2>7. Position(S, p) = Position(B, p)
    BY <2>6 DEF Position
  <2>8. Position(B, p) = Cardinality(B) - 1
    <3> HIDE DEF B
    <3> QED BY <2>2, <2>4, PositionOfGreatest
  <2>9. Position(S, p) >= n
    BY <1>6, <1>7, <2>1, <2>7, <2>8
  <2>10. p \in T
    BY <2>5, <2>9
  <2>11. x <= p
    <3> HIDE DEF T
    <3> QED BY <1>5, <2>10
  <2> QED BY <1>6, <2>5, <2>11
<1> QED BY <1>6, <1>7

\* Logs::insert() of a new log moves the positions behind it by one.
LEMMA PositionAfterInsert ==
    ASSUME NEW S, IsFiniteSet(S), S \subseteq Int, NEW key \in Int, key \notin S, NEW k \in Int
    PROVE  Position(Inserted(S, key), k) = Position(S, k) + (IF key < k THEN 1 ELSE 0)
<1> DEFINE Before == {i \in S : i < k}
<1>1. Before \subseteq S /\ key \notin Before
  OBVIOUS
<1>2. Position(S, k) = Cardinality(Before) /\ Position(S, k) \in Nat
  BY PositionIsNat DEF Position
<1>3. CASE key < k
  <2>1. Position(Inserted(S, key), k) = Cardinality(Before \cup {key})
    <3>1. {i \in Inserted(S, key) : i < k} = Before \cup {key}
      BY <1>3 DEF Inserted
    <3> QED BY <3>1 DEF Position
  <2> HIDE DEF Before
  <2> QED BY <1>1, <1>2, <1>3, <2>1, FS_Subset, FS_AddElement
<1>4. CASE ~(key < k)
  <2>1. {i \in Inserted(S, key) : i < k} = Before
    BY <1>4 DEF Inserted
  <2> QED BY <1>2, <1>4, <2>1 DEF Position
<1> QED BY <1>3, <1>4

\* Logs::pruneUpTo() moves all that is left by the same number.
LEMMA PositionAfterPrune ==
    ASSUME NEW S, IsFiniteSet(S), S \subseteq Int, NEW key \in Int, NEW k \in Int, key <= k
    PROVE  Position(S, k) = Position(PrunedUpTo(S, key), k) + Position(S, key)
<1> DEFINE Gone == {i \in S : i < key}
           Left == {i \in PrunedUpTo(S, key) : i < k}
<1>1. /\ Gone \subseteq S /\ Left \subseteq S
      /\ Gone \cap Left = {}
      /\ Gone \cup Left = {i \in S : i < k}
  <2>1. ASSUME NEW i \in S
        PROVE  /\ ~(i < key /\ key <= i)
               /\ i < k <=> i < key \/ (key <= i /\ i < k)
    OBVIOUS
  <2>2. Left = {i \in S : key <= i /\ i < k}
    BY DEF PrunedUpTo, NotBelow
  <2> HIDE DEF Left
  <2> QED BY <2>1, <2>2
<1>2. Position(S, k) = Cardinality(Gone \cup Left) /\ Position(S, key) = Cardinality(Gone)
      /\ Position(PrunedUpTo(S, key), k) = Cardinality(Left)
  BY <1>1 DEF Position
<1> HIDE DEF Gone, Left
<1>3. IsFiniteSet(Gone) /\ IsFiniteSet(Left)
  BY <1>1, FS_Subset
<1>4. Cardinality(Gone \cup Left) = Cardinality(Gone) + Cardinality(Left) - Cardinality({})
  BY <1>1, <1>3, FS_Union
<1> QED BY <1>2, <1>3, <1>4, FS_EmptySet, FS_CardinalityType

=============================================================================
