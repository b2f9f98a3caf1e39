-------------------------- MODULE NALStreamsProofs --------------------------
(***************************************************************************)
(* Theorems about NALStreams, for streams of every length, reads of every  *)
(* size and every limit of the buffers.                                    *)
(***************************************************************************)
EXTENDS NALStreams, FiniteSetTheorems, SequenceTheorems, WellFoundedInduction, TLAPS

-----------------------------------------------------------------------------
(* Finite sets of numbers in order *)

\* Min is the least element of a set of numbers.
LEMMA MinIsLeast ==
  ASSUME NEW S, S \subseteq Nat, S # {}
  PROVE  Min(S) \in S /\ \A n \in S : Min(S) <= n
<1>1. PICK m \in S : \A n \in S : ~(<<n, m>> \in OpToRel(<, Nat))
  BY NatLessThanWellFounded, WFMin
<1>2. ASSUME NEW n \in S, n < m
      PROVE  FALSE
  <2>1. <<n, m>> \in Nat \X Nat /\ <<n, m>>[1] < <<n, m>>[2]
    BY <1>2
  <2>2. <<n, m>> \in OpToRel(<, Nat)
    BY <2>1, Zenon DEF OpToRel
  <2> QED BY <1>1, <2>2
<1>3. m \in S /\ \A n \in S : m <= n
  BY <1>2
<1> QED BY <1>3 DEF Min

\* Max is the greatest element of a bounded set of numbers.
LEMMA MaxIsGreatest ==
  ASSUME NEW S, NEW n \in Nat, S \subseteq 1 .. n, S # {}
  PROVE  Max(S) \in S /\ \A p \in S : p <= Max(S)
<1> DEFINE T == {d \in 0 .. n : n - d \in S}
<1>1. T \subseteq Nat /\ T # {}
  <2>1. PICK p \in S : TRUE
    OBVIOUS
  <2>2. n - p \in 0 .. n /\ n - (n - p) = p
    BY <2>1
  <2>3. n - p \in T
    BY <2>1, <2>2, Zenon
  <2>4. T \subseteq 0 .. n
    BY Zenon
  <2>5. 0 .. n \subseteq Nat
    OBVIOUS
  <2> QED BY <2>3, <2>4, <2>5, Zenon
<1>2. PICK d \in T : \A e \in T : d <= e
  BY <1>1, MinIsLeast
<1>3. n - d \in S /\ \A p \in S : p <= n - d
  <2>1. ASSUME NEW p \in S
        PROVE  p <= n - d
    <3>1. n - p \in 0 .. n /\ n - (n - p) = p
      OBVIOUS
    <3>2. n - p \in T
      BY <3>1, Zenon
    <3>3. d <= n - p /\ d \in 0 .. n
      BY <1>2, <3>2, Zenon
    <3> QED BY <3>3
  <2> QED BY <1>2, <2>1
<1> HIDE DEF T
<1>4. n - d \in S /\ \A p \in S : n - d >= p
  BY <1>3
<1> QED BY <1>4 DEF Max

\* A set of positions is one that Cut is used on.
PositionSet(S) == S \subseteq Nat /\ IsFiniteSet(S)

\* A bounded set of positions is finite.
LEMMA BoundedPositions ==
  ASSUME NEW n \in Int, NEW S, S \subseteq 1 .. n
  PROVE  PositionSet(S)
<1>1. 1 \in Int /\ S \in SUBSET (1 .. n) /\ S \subseteq Nat
  OBVIOUS
<1>2. IsFiniteSet(1 .. n)
  BY <1>1, FS_Interval
<1>3. IsFiniteSet(S)
  BY <1>1, <1>2, FS_Subset
<1> QED BY <1>1, <1>3 DEF PositionSet

Below(S, p) == {q \in S : q < p}
Rank(S, p) == Cardinality(Below(S, p))

\* The positions below another one can be counted.
LEMMA RankType ==
  ASSUME NEW S, PositionSet(S), NEW p
  PROVE  /\ IsFiniteSet(Below(S, p)) /\ Rank(S, p) \in Nat
         /\ Cardinality(S) \in Nat
BY FS_Subset, FS_CardinalityType DEF PositionSet, Below, Rank

\* Greater positions have greater ranks.
LEMMA RankGrows ==
  ASSUME NEW S, PositionSet(S), NEW p \in S, NEW q \in Nat, p < q
  PROVE  Rank(S, p) + 1 <= Rank(S, q)
<1> DEFINE U == Below(S, p) \cup {p}
<1>1. p \in Nat /\ p \notin Below(S, p) /\ \A r \in S : r \in Nat
  BY DEF Below, PositionSet
<1>2. IsFiniteSet(Below(S, p)) /\ IsFiniteSet(Below(S, q))
  BY RankType
<1>3. Cardinality(U) = Rank(S, p) + 1
  BY <1>1, <1>2, FS_AddElement DEF Rank
<1>4. U \in SUBSET Below(S, q)
  <2>1. \A r \in S : r < p => r < q
    BY <1>1
  <2> QED BY <2>1 DEF Below
<1>5. Cardinality(U) <= Cardinality(Below(S, q))
  BY <1>2, <1>4, FS_Subset
<1> QED BY <1>3, <1>5 DEF Rank

\* Nothing is between a position and the next one.
LEMMA RankOfNext ==
  ASSUME NEW S, PositionSet(S), NEW p \in S, NEW q \in S, p < q,
         \A r \in S : ~(p < r /\ r < q)
  PROVE  Rank(S, q) = Rank(S, p) + 1
<1>1. p \in Nat /\ q \in Nat /\ \A r \in S : r \in Nat
  BY DEF PositionSet
<1>2. Below(S, q) = Below(S, p) \cup {p} /\ p \notin Below(S, p)
  <2>1. \A r \in S : r < q <=> r < p \/ r = p
    BY <1>1
  <2>2. ~(p < p)
    BY <1>1
  <2> QED BY <2>1, <2>2 DEF Below
<1>3. IsFiniteSet(Below(S, p))
  BY RankType
<1> QED BY <1>2, <1>3, FS_AddElement DEF Rank

\* A rank, counted from 1, numbers the set.
LEMMA RankBound ==
  ASSUME NEW S, PositionSet(S), NEW p \in S
  PROVE  Rank(S, p) + 1 \in 1 .. Cardinality(S)
<1> DEFINE U == Below(S, p) \cup {p}
<1>1. p \in Nat /\ p \notin Below(S, p)
  BY DEF Below, PositionSet
<1>2. IsFiniteSet(Below(S, p)) /\ Rank(S, p) \in Nat /\ Cardinality(S) \in Nat
  BY RankType
<1>3. Cardinality(U) = Rank(S, p) + 1
  BY <1>1, <1>2, FS_AddElement DEF Rank
<1>4. U \in SUBSET S
  BY DEF Below
<1>5. Cardinality(U) <= Cardinality(S)
  BY <1>4, FS_Subset DEF PositionSet
<1> QED BY <1>2, <1>3, <1>5

\* Every rank up to the number of positions is some position's: the least one
\* that is not would follow the one before it.
LEMMA RankExists ==
  ASSUME NEW S, PositionSet(S), NEW k \in 1 .. Cardinality(S)
  PROVE  \E p \in S : Rank(S, p) = k - 1
<1>0. Cardinality(S) \in Nat /\ \A r \in S : r \in Nat
  BY RankType DEF PositionSet
<1> DEFINE missing == {j \in 1 .. Cardinality(S) : \A p \in S : Rank(S, p) # j - 1}
<1> SUFFICES ASSUME missing # {}
             PROVE  FALSE
  OBVIOUS
<1>1. missing \subseteq Nat
  BY <1>0
<1>2. PICK j \in missing : \A i \in missing : j <= i
  BY <1>1, MinIsLeast
<1>3. j \in 1 .. Cardinality(S) /\ \A p \in S : Rank(S, p) # j - 1
  BY <1>2
<1>4. CASE j = 1
  <2>1. S # {}
    BY <1>3, FS_EmptySet, <1>0
  <2>2. PICK p \in S : \A q \in S : p <= q
    BY <2>1, <1>0, MinIsLeast
  <2>3. Below(S, p) = {}
    BY <2>2, <1>0 DEF Below
  <2>4. Rank(S, p) = 0
    BY <2>3, FS_EmptySet DEF Rank
  <2> QED BY <2>4, <1>3, <1>4
<1>5. CASE j > 1
  <2>1. j - 1 \in 1 .. Cardinality(S) /\ j - 1 \notin missing
    BY <1>0, <1>2, <1>3, <1>5
  <2>2. PICK p \in S : Rank(S, p) = j - 2
    BY <2>1
  <2> DEFINE above == {q \in S : p < q}
  <2>3. above # {}
    <3> SUFFICES ASSUME above = {}
                 PROVE  FALSE
      OBVIOUS
    <3>1. S = Below(S, p) \cup {p} /\ p \notin Below(S, p)
      BY <1>0 DEF Below
    <3>2. IsFiniteSet(Below(S, p))
      BY RankType
    <3>3. Cardinality(S) = Rank(S, p) + 1
      BY <3>1, <3>2, FS_AddElement DEF Rank
    <3> QED BY <1>3, <1>0, <2>2, <3>3
  <2>4. PICK q \in above : \A r \in above : q <= r
    BY <2>3, <1>0, MinIsLeast
  <2>5. q \in S /\ p < q /\ \A r \in S : ~(p < r /\ r < q)
    BY <2>4, <1>0
  <2>6. Rank(S, q) = j - 1
    BY <2>2, <2>5, <1>3, <1>0, RankOfNext
  <2> QED BY <2>5, <2>6, <1>3
<1> QED BY <1>0, <1>3, <1>4, <1>5

\* Nth is the position of its rank.
LEMMA NthIs ==
  ASSUME NEW S, PositionSet(S), NEW p \in S
  PROVE  Nth(S, Rank(S, p) + 1) = p
<1>1. Rank(S, p) \in Nat /\ \A q \in S : q \in Nat /\ Rank(S, q) \in Nat
  BY RankType DEF PositionSet
<1>2. \A q \in S : Rank(S, q) = Rank(S, p) => q = p
  <2>1. \A q \in S : q < p => Rank(S, q) + 1 <= Rank(S, p)
    BY <1>1, RankGrows
  <2>2. \A q \in S : p < q => Rank(S, p) + 1 <= Rank(S, q)
    BY <1>1, RankGrows
  <2> QED BY <1>1, <2>1, <2>2
<1>3. \A q \in S : Rank(S, q) = (Rank(S, p) + 1) - 1 <=> q = p
  BY <1>1, <1>2
<1>4. \A k : Nth(S, k) = CHOOSE q \in S : Rank(S, q) = k - 1
  BY DEF Nth, Rank, Below
<1> QED BY <1>3, <1>4

\* The k-th position has k - 1 positions below it.
LEMMA NthProperties ==
  ASSUME NEW S, PositionSet(S), NEW k \in 1 .. Cardinality(S)
  PROVE  Nth(S, k) \in S /\ Rank(S, Nth(S, k)) = k - 1
<1>1. PICK p \in S : Rank(S, p) = k - 1
  BY RankExists
<1>2. Cardinality(S) \in Nat /\ Rank(S, p) + 1 = k
  BY <1>1, RankType
<1>3. Nth(S, Rank(S, p) + 1) = p
  BY NthIs
<1> QED BY <1>1, <1>2, <1>3

\* Nth is in order.
LEMMA NthOrdered ==
  ASSUME NEW S, PositionSet(S),
         NEW j \in 1 .. Cardinality(S), NEW k \in 1 .. Cardinality(S), j < k
  PROVE  Nth(S, j) < Nth(S, k)
<1>1. /\ Nth(S, j) \in S /\ Rank(S, Nth(S, j)) = j - 1
      /\ Nth(S, k) \in S /\ Rank(S, Nth(S, k)) = k - 1
  BY NthProperties
<1>2. Nth(S, j) \in Nat /\ Nth(S, k) \in Nat /\ Cardinality(S) \in Nat
  BY <1>1, RankType DEF PositionSet
<1>3. CASE Nth(S, k) < Nth(S, j)
  <2>1. Rank(S, Nth(S, k)) + 1 <= Rank(S, Nth(S, j))
    BY <1>1, <1>2, <1>3, RankGrows
  <2> QED BY <1>1, <1>2, <2>1
<1>4. CASE Nth(S, k) = Nth(S, j)
  <2>1. j - 1 = k - 1
    BY <1>1, <1>4
  <2> QED BY <1>2, <2>1
<1> QED BY <1>2, <1>3, <1>4

\* Whoever lists the positions in their order lists them as Nth does.
Lists(e, n, S) ==
  /\ e \in [1 .. n -> S]
  /\ \A p \in S : \E k \in 1 .. n : e[k] = p
  /\ \A j, k \in 1 .. n : j < k => e[j] < e[k]

\* A list that is complete and in order is the order of its set.
LEMMA Enumeration ==
  ASSUME NEW S, S \subseteq Nat, NEW n \in Nat, NEW e, Lists(e, n, S)
  PROVE  /\ PositionSet(S) /\ Cardinality(S) = n
         /\ \A k \in 1 .. n : Nth(S, k) = e[k]
<1>0. /\ e \in [1 .. n -> S]
      /\ \A p \in S : \E k \in 1 .. n : e[k] = p
      /\ \A j, k \in 1 .. n : j < k => e[j] < e[k]
  BY DEF Lists
<1>1. \A j, k \in 1 .. n : e[j] < e[k] => j < k
  <2> SUFFICES ASSUME NEW j \in 1 .. n, NEW k \in 1 .. n, e[j] < e[k], ~(j < k)
               PROVE  FALSE
    OBVIOUS
  <2>1. e[j] \in Nat /\ e[k] \in Nat
    BY <1>0
  <2>2. j = k \/ k < j
    OBVIOUS
  <2> QED BY <1>0, <2>1, <2>2
<1>2. \A m \in 0 .. n : \A U : U \subseteq S /\ U = {e[j] : j \in 1 .. m}
         => IsFiniteSet(U) /\ Cardinality(U) = m
  <2> SUFFICES ASSUME NEW m \in 0 .. n, NEW U, U \subseteq S, U = {e[j] : j \in 1 .. m}
               PROVE  IsFiniteSet(U) /\ Cardinality(U) = m
    BY Zenon
  <2> DEFINE f == [j \in 1 .. m |-> e[j]]
  <2>1. \A j \in 1 .. m : j \in 1 .. n /\ e[j] \in U
    BY <1>0
  <2>2. f \in [1 .. m -> U] /\ \A u \in U : \E j \in 1 .. m : f[j] = u
    BY <2>1
  <2>3. \A i, j \in 1 .. m : f[i] = f[j] => i = j
    <3> SUFFICES ASSUME NEW i \in 1 .. m, NEW j \in 1 .. m, f[i] = f[j], i # j
                 PROVE  FALSE
      OBVIOUS
    <3>1. e[i] = e[j] /\ e[i] \in Nat /\ i \in 1 .. n /\ j \in 1 .. n
      BY <1>0, <2>1
    <3>2. i < j \/ j < i
      OBVIOUS
    <3> QED BY <1>0, <3>1, <3>2
  <2>4. f \in Bijection(1 .. m, U)
    BY <2>2, <2>3, Zenon DEF Bijection, Injection, Surjection, IsInjective
  <2>5. m \in Nat /\ IsFiniteSet(1 .. m)
    <3>1. m \in Nat /\ m \in Int /\ 1 \in Int
      OBVIOUS
    <3> QED BY <3>1, FS_Interval
  <2>6. ExistsBijection(1 .. m, U)
    BY <2>4, Zenon DEF ExistsBijection
  <2> QED BY <2>5, <2>6, FS_CountingElements, FS_Bijection
<1>3. PositionSet(S) /\ Cardinality(S) = n
  <2>1. \A j \in 1 .. n : e[j] \in S
    BY <1>0
  <2>2. S = {e[j] : j \in 1 .. n}
    BY <1>0, <2>1, Zenon
  <2>3. n \in 0 .. n
    OBVIOUS
  <2> QED BY <1>2, <2>2, <2>3 DEF PositionSet
<1>4. ASSUME NEW k \in 1 .. n
      PROVE  Nth(S, k) = e[k]
  <2>1. Below(S, e[k]) = {e[j] : j \in 1 .. k - 1}
    <3>1. \A q \in S : q < e[k] => q \in {e[j] : j \in 1 .. k - 1}
      <4> SUFFICES ASSUME NEW q \in S, q < e[k]
                   PROVE  q \in {e[j] : j \in 1 .. k - 1}
        OBVIOUS
      <4>1. PICK j \in 1 .. n : e[j] = q
        BY <1>0
      <4>2. j \in 1 .. k - 1
        BY <1>1, <4>1
      <4> QED BY <4>1, <4>2
    <3>2. \A j \in 1 .. k - 1 : j \in 1 .. n /\ j < k
      OBVIOUS
    <3>3. \A j \in 1 .. k - 1 : e[j] \in S /\ e[j] < e[k]
      BY <1>0, <3>2
    <3> QED BY <3>1, <3>3 DEF Below
  <2>2. k - 1 \in 0 .. n /\ Below(S, e[k]) \subseteq S
    BY DEF Below
  <2>3. Rank(S, e[k]) = k - 1
    BY <1>2, <2>1, <2>2 DEF Rank
  <2>4. e[k] \in S /\ Rank(S, e[k]) + 1 = k
    BY <1>0, <2>3
  <2> QED BY <1>3, <2>4, NthIs
<1> QED BY <1>3, <1>4

\* The positions of two sets that meet in one position.
MeetAt(S, T, m) ==
  /\ m \in S /\ m \in T
  /\ \A p \in S : p <= m
  /\ \A p \in T : m <= p

InOrder(S, T) ==
  /\ PositionSet(S \cup T)
  /\ Cardinality(S \cup T) = Cardinality(S) + Cardinality(T) - 1
  /\ \A k \in 1 .. Cardinality(S) : Nth(S \cup T, k) = Nth(S, k)
  /\ \A k \in 1 .. Cardinality(T) : Nth(S \cup T, Cardinality(S) - 1 + k) = Nth(T, k)

\* Two sets that meet at one position follow each other.
LEMMA NthOfUnion ==
  ASSUME NEW S, PositionSet(S), NEW T, PositionSet(T), NEW m, MeetAt(S, T, m)
  PROVE  InOrder(S, T)
<1>0. m \in S /\ m \in T /\ (\A p \in S : p <= m) /\ (\A p \in T : m <= p)
  BY DEF MeetAt
<1> DEFINE a == Cardinality(S)
           b == Cardinality(T)
           e == [k \in 1 .. a + b - 1 |-> IF k <= a THEN Nth(S, k) ELSE Nth(T, k - a + 1)]
<1>1. /\ a \in Nat \ {0} /\ b \in Nat \ {0}
      /\ \A p \in S : p \in Nat /\ Rank(S, p) + 1 \in 1 .. a
      /\ \A p \in T : p \in Nat /\ Rank(T, p) + 1 \in 1 .. b
  <2>1. a \in Nat /\ b \in Nat
    BY RankType
  <2>2. \A p \in S : p \in Nat /\ Rank(S, p) + 1 \in 1 .. a
    BY RankBound DEF PositionSet
  <2>3. \A p \in T : p \in Nat /\ Rank(T, p) + 1 \in 1 .. b
    BY RankBound DEF PositionSet
  <2> HIDE DEF a, b
  <2>4. a # 0 /\ b # 0
    BY <1>0, <2>1, <2>2, <2>3
  <2> QED BY <2>1, <2>2, <2>3, <2>4
<1>2. \A p \in S : Nth(S, Rank(S, p) + 1) = p
  BY NthIs
<1>3. \A p \in T : Nth(T, Rank(T, p) + 1) = p
  BY NthIs
<1>4. \A k \in 1 .. a : Nth(S, k) \in S
  BY NthProperties
<1>5. \A k \in 1 .. b : Nth(T, k) \in T
  BY NthProperties
<1>6. \A j, k \in 1 .. a : j < k => Nth(S, j) < Nth(S, k)
  BY NthOrdered
<1>7. \A j, k \in 1 .. b : j < k => Nth(T, j) < Nth(T, k)
  BY NthOrdered
<1> HIDE DEF a, b
<1>8. Nth(S, a) = m
  <2>1. PICK k \in 1 .. a : Nth(S, k) = m
    BY <1>0, <1>1, <1>2
  <2>2. CASE k < a
    <3>1. a \in 1 .. a /\ m < Nth(S, a) /\ Nth(S, a) \in S
      BY <1>1, <1>4, <1>6, <2>1, <2>2
    <3> QED BY <1>0, <3>1, <1>1
  <2>3. CASE k = a
    BY <2>1, <2>3
  <2> QED BY <1>1, <2>2, <2>3
<1>9. Nth(T, 1) = m
  <2>1. PICK k \in 1 .. b : Nth(T, k) = m
    BY <1>0, <1>1, <1>3
  <2>2. CASE 1 < k
    <3>1. 1 \in 1 .. b /\ Nth(T, 1) < m /\ Nth(T, 1) \in T
      BY <1>1, <1>5, <1>7, <2>1, <2>2
    <3> QED BY <1>0, <3>1, <1>1
  <2>3. CASE k = 1
    BY <2>1, <2>3
  <2> QED BY <1>1, <2>2, <2>3
<1>10. /\ \A k \in 1 .. a : k \in 1 .. a + b - 1 /\ e[k] = Nth(S, k)
       /\ \A k \in 1 .. b : a - 1 + k \in 1 .. a + b - 1
  BY <1>1
<1>11. \A k \in 1 .. b : e[a - 1 + k] = Nth(T, k)
  <2> SUFFICES ASSUME NEW k \in 1 .. b
               PROVE  e[a - 1 + k] = Nth(T, k)
    OBVIOUS
  <2>1. CASE k = 1
    <3>1. a - 1 + k = a /\ a \in 1 .. a
      BY <1>1, <2>1
    <3> QED BY <2>1, <3>1, <1>8, <1>9, <1>10
  <2>2. CASE k # 1
    <3>1. /\ a - 1 + k \in 1 .. a + b - 1 /\ ~(a - 1 + k <= a)
          /\ (a - 1 + k) - a + 1 = k
      BY <1>1, <2>2
    <3> QED BY <3>1
  <2> QED BY <2>1, <2>2
<1>12. \A k \in 1 .. a + b - 1 :
         \/ k \in 1 .. a
         \/ k - a + 1 \in 2 .. b /\ a - 1 + (k - a + 1) = k
  BY <1>1
<1>13. \A k \in 1 .. a + b - 1 :
         \/ k \in 1 .. a /\ e[k] = Nth(S, k) /\ e[k] \in S
         \/ k - a + 1 \in 2 .. b /\ e[k] = Nth(T, k - a + 1) /\ e[k] \in T
  <2> SUFFICES ASSUME NEW k \in 1 .. a + b - 1
               PROVE  \/ k \in 1 .. a /\ e[k] = Nth(S, k) /\ e[k] \in S
                      \/ k - a + 1 \in 2 .. b /\ e[k] = Nth(T, k - a + 1) /\ e[k] \in T
    OBVIOUS
  <2>1. CASE k \in 1 .. a
    BY <2>1, <1>4, <1>10
  <2>2. CASE k - a + 1 \in 2 .. b /\ a - 1 + (k - a + 1) = k
    <3>1. k - a + 1 \in 1 .. b
      BY <2>2, <1>1
    <3>2. e[a - 1 + (k - a + 1)] = Nth(T, k - a + 1) /\ Nth(T, k - a + 1) \in T
      BY <3>1, <1>5, <1>11
    <3> QED BY <2>2, <3>2
  <2> QED BY <2>1, <2>2, <1>12
<1>14. e \in [1 .. a + b - 1 -> S \cup T]
  BY <1>13
<1>15. \A p \in S \cup T : \E k \in 1 .. a + b - 1 : e[k] = p
  <2>1. ASSUME NEW p \in S
        PROVE  \E k \in 1 .. a + b - 1 : e[k] = p
    BY <1>1, <1>2, <1>10
  <2>2. ASSUME NEW p \in T
        PROVE  \E k \in 1 .. a + b - 1 : e[k] = p
    <3>1. PICK k \in 1 .. b : Nth(T, k) = p
      BY <1>1, <1>3
    <3> QED BY <3>1, <1>10, <1>11
  <2> QED BY <2>1, <2>2
<1>16. \A j, k \in 1 .. a + b - 1 : j < k => e[j] < e[k]
  <2> SUFFICES ASSUME NEW j \in 1 .. a + b - 1, NEW k \in 1 .. a + b - 1, j < k
               PROVE  e[j] < e[k]
    OBVIOUS
  <2>1. CASE k \in 1 .. a
    <3>1. j \in 1 .. a
      BY <2>1, <1>1
    <3> QED BY <2>1, <3>1, <1>6, <1>10
  <2>2. CASE k - a + 1 \in 2 .. b /\ e[k] = Nth(T, k - a + 1)
    <3>1. k - a + 1 \in 1 .. b /\ 1 \in 1 .. b /\ 1 < k - a + 1
      BY <2>2, <1>1
    <3>2. m < e[k] /\ e[k] \in Nat /\ m \in Nat
      BY <1>0, <2>2, <3>1, <1>1, <1>5, <1>7, <1>9
    <3>3. CASE j \in 1 .. a /\ e[j] \in S
      <4>1. e[j] <= m /\ e[j] \in Nat
        BY <1>0, <3>3, <1>1
      <4> QED BY <3>2, <4>1
    <3>4. CASE j - a + 1 \in 2 .. b /\ e[j] = Nth(T, j - a + 1)
      <4>1. j - a + 1 \in 1 .. b /\ j - a + 1 < k - a + 1
        BY <3>4, <1>1
      <4> QED BY <2>2, <3>1, <3>4, <4>1, <1>7
    <3> QED BY <3>3, <3>4, <1>13
  <2> QED BY <2>1, <2>2, <1>13
<1>17. S \cup T \subseteq Nat /\ a + b - 1 \in Nat
  BY <1>1
<1> HIDE DEF e
<1>18. /\ PositionSet(S \cup T) /\ Cardinality(S \cup T) = a + b - 1
       /\ \A k \in 1 .. a + b - 1 : Nth(S \cup T, k) = e[k]
  <2>1. Lists(e, a + b - 1, S \cup T)
    BY <1>14, <1>15, <1>16 DEF Lists
  <2> QED BY <1>17, <2>1, Enumeration
<1>19. \A k \in 1 .. a : Nth(S \cup T, k) = Nth(S, k)
  BY <1>10, <1>18
<1>20. \A k \in 1 .. b : Nth(S \cup T, a - 1 + k) = Nth(T, k)
  BY <1>10, <1>11, <1>18
<1> QED BY <1>18, <1>19, <1>20 DEF a, b, InOrder

-----------------------------------------------------------------------------
(* Pieces and cuts *)

\* What a piece is made of.
LEMMA PieceProperties ==
  ASSUME NEW data \in Seq(Byte), NEW before \in Nat,
         NEW from \in Nat \ {0}, NEW to \in Nat, from <= to, to <= Len(data) + 1
  PROVE  /\ Piece(data, before, from, to) \in NALUnit
         /\ Piece(data, before, from, to).at = before + from
         /\ Piece(data, before, from, to).bytes = SubSeq(data, from, to - 1)
         /\ Behind(Piece(data, before, from, to)) = before + to
<1>1. Len(data) \in Nat /\ from \in Int /\ to - 1 \in Int
  BY LenProperties
<1>2. \A i \in from .. to - 1 : data[i] \in Byte
  <2>1. \A i \in from .. to - 1 : i \in 1 .. Len(data)
    BY <1>1
  <2> QED BY <2>1, ElementOfSeq
<1>3. /\ SubSeq(data, from, to - 1) \in Seq(Byte)
      /\ Len(SubSeq(data, from, to - 1)) = IF from <= to - 1 THEN (to - 1) - from + 1 ELSE 0
  BY <1>1, <1>2, SubSeqProperties
<1>4. Len(SubSeq(data, from, to - 1)) = to - from
  BY <1>3
<1>5. before + from \in Nat /\ (before + from) + (to - from) = before + to
  OBVIOUS
<1> QED BY <1>3, <1>4, <1>5 DEF Piece, NALUnit, Behind

\* Two stretches with the same bytes are the same.
LEMMA SameStretch ==
  ASSUME NEW s \in Seq(Byte), NEW t \in Seq(Byte), NEW d \in Nat,
         NEW m \in Nat \ {0}, NEW n \in Int, n <= Len(s), d + n <= Len(t),
         \A i \in m .. n : s[i] = t[d + i]
  PROVE  SubSeq(s, m, n) = SubSeq(t, d + m, d + n)
<1>1. Len(s) \in Nat /\ Len(t) \in Nat
  BY LenProperties
<1>2. m \in Int /\ n \in Int /\ d + m \in Int /\ d + n \in Int
  OBVIOUS
<1>3. \A i \in m .. n : s[i] \in Byte
  <2>1. \A i \in m .. n : i \in 1 .. Len(s)
    BY <1>1
  <2> QED BY <2>1, ElementOfSeq
<1>4. \A i \in d + m .. d + n : t[i] \in Byte
  <2>1. \A i \in d + m .. d + n : i \in 1 .. Len(t)
    BY <1>1
  <2> QED BY <2>1, ElementOfSeq
<1>5. /\ SubSeq(s, m, n) \in Seq(Byte)
      /\ Len(SubSeq(s, m, n)) = IF m <= n THEN n - m + 1 ELSE 0
      /\ \A i \in 1 .. n - m + 1 : SubSeq(s, m, n)[i] = s[m + i - 1]
  BY <1>2, <1>3, SubSeqProperties
<1>6. /\ SubSeq(t, d + m, d + n) \in Seq(Byte)
      /\ Len(SubSeq(t, d + m, d + n)) =
           IF d + m <= d + n THEN (d + n) - (d + m) + 1 ELSE 0
      /\ \A i \in 1 .. (d + n) - (d + m) + 1 :
           SubSeq(t, d + m, d + n)[i] = t[(d + m) + i - 1]
  <2> DEFINE p == d + m
             q == d + n
  <2>1. p \in Int /\ q \in Int /\ \A i \in p .. q : t[i] \in Byte
    BY <1>2, <1>4
  <2> HIDE DEF p, q
  <2>2. /\ SubSeq(t, p, q) \in Seq(Byte)
        /\ Len(SubSeq(t, p, q)) = IF p <= q THEN q - p + 1 ELSE 0
        /\ \A i \in 1 .. q - p + 1 : SubSeq(t, p, q)[i] = t[p + i - 1]
    BY <2>1, SubSeqProperties
  <2> QED BY <2>2 DEF p, q
<1> DEFINE u == SubSeq(s, m, n)
           v == SubSeq(t, d + m, d + n)
<1>7. Len(u) = Len(v) /\ Len(u) = IF m <= n THEN n - m + 1 ELSE 0
  <2>1. (d + m <= d + n) <=> m <= n
    OBVIOUS
  <2>2. (d + n) - (d + m) + 1 = n - m + 1
    OBVIOUS
  <2> QED BY <1>5, <1>6, <2>1, <2>2
<1>8. ASSUME NEW i \in 1 .. Len(u)
      PROVE  u[i] = v[i]
  <2>1. /\ i \in 1 .. n - m + 1 /\ i \in 1 .. (d + n) - (d + m) + 1
        /\ m + i - 1 \in m .. n /\ d + (m + i - 1) = (d + m) + i - 1
    BY <1>7
  <2>2. u[i] = s[m + i - 1] /\ v[i] = t[(d + m) + i - 1]
    BY <1>5, <1>6, <2>1
  <2> QED BY <2>1, <2>2
<1> HIDE DEF u, v
<1>9. u \in Seq(Byte) /\ v \in Seq(Byte)
  BY <1>5, <1>6 DEF u, v
<1>10. u = v
  BY <1>7, <1>8, <1>9, SeqEqual
<1> QED BY <1>10 DEF u, v

\* What is read later does not change a piece.
LEMMA PieceStays ==
  ASSUME NEW data \in Seq(Byte), NEW chunk \in Seq(Byte), NEW before \in Nat,
         NEW from \in Nat \ {0}, NEW to \in Nat, from <= to, to <= Len(data) + 1
  PROVE  Piece(data \o chunk, before, from, to) = Piece(data, before, from, to)
<1>1. /\ data \o chunk \in Seq(Byte) /\ Len(data \o chunk) = Len(data) + Len(chunk)
      /\ \A i \in 1 .. Len(data) + Len(chunk) :
           (data \o chunk)[i] = IF i <= Len(data) THEN data[i] ELSE chunk[i - Len(data)]
      /\ Len(data) \in Nat /\ Len(chunk) \in Nat
  BY ConcatProperties, LenProperties
<1>2. \A i \in from .. to - 1 : data[i] = (data \o chunk)[0 + i]
  BY <1>1
<1>3. SubSeq(data, from, to - 1) = SubSeq(data \o chunk, 0 + from, 0 + (to - 1))
  <2>1. to - 1 \in Int /\ to - 1 <= Len(data) /\ 0 + (to - 1) <= Len(data \o chunk)
    BY <1>1
  <2> QED BY <1>1, <1>2, <2>1, SameStretch
<1>4. 0 + from = from /\ 0 + (to - 1) = to - 1
  OBVIOUS
<1> QED BY <1>3, <1>4 DEF Piece

\* A buffer is the end of the stream.
IsEnd(data, stream) ==
  /\ Len(data) <= Len(stream)
  /\ \A i \in 1 .. Len(data) : data[i] = stream[Len(stream) - Len(data) + i]

\* A piece of the end of a stream is a piece of the stream.
LEMMA PieceOfEnd ==
  ASSUME NEW data \in Seq(Byte), NEW stream \in Seq(Byte), IsEnd(data, stream),
         NEW from \in Nat \ {0}, NEW to \in Nat, from <= to, to <= Len(data) + 1
  PROVE  LET b == Len(stream) - Len(data)
         IN  Piece(data, b, from, to) = Piece(stream, 0, b + from, b + to)
<1> DEFINE b == Len(stream) - Len(data)
<1>1. b \in Nat /\ Len(data) \in Nat /\ Len(stream) \in Nat
  BY LenProperties DEF IsEnd
<1>2. \A i \in from .. to - 1 : data[i] = stream[b + i]
  BY <1>1 DEF IsEnd
<1>3. to - 1 \in Int /\ to - 1 <= Len(data) /\ b + (to - 1) <= Len(stream)
  BY <1>1
<1> HIDE DEF b
<1>4. SubSeq(data, from, to - 1) = SubSeq(stream, b + from, b + (to - 1))
  BY <1>1, <1>2, <1>3, SameStretch
<1>5. b + (to - 1) = (b + to) - 1 /\ 0 + (b + from) = b + from
  BY <1>1
<1>6. Piece(data, b, from, to) = Piece(stream, 0, b + from, b + to)
  BY <1>4, <1>5 DEF Piece
<1> QED BY <1>6 DEF b

\* A cut has one piece less than it has positions.
IsCut(pieces, data, before, S) ==
  /\ pieces \in Seq(NALUnit)
  /\ Len(pieces) = IF S = {} THEN 0 ELSE Cardinality(S) - 1
  /\ \A k \in 1 .. Cardinality(S) - 1 :
       /\ pieces[k] = Piece(data, before, Nth(S, k), Nth(S, k + 1))
       /\ Nth(S, k) \in S /\ Nth(S, k + 1) \in S /\ Nth(S, k) < Nth(S, k + 1)

\* A cut at n positions has n - 1 pieces, from one position to the next.
LEMMA CutProperties ==
  ASSUME NEW data \in Seq(Byte), NEW before \in Nat,
         NEW S, PositionSet(S), S \subseteq 1 .. Len(data)
  PROVE  IsCut(Cut(data, before, S), data, before, S)
<1> DEFINE n == IF S = {} THEN 0 ELSE Cardinality(S) - 1
           P(k) == Piece(data, before, Nth(S, k), Nth(S, k + 1))
<1>1. Cardinality(S) \in Nat /\ (Cardinality(S) = 0 <=> S = {}) /\ Len(data) \in Nat
  BY RankType, FS_EmptySet, LenProperties DEF PositionSet
<1>2. n \in Nat /\ 1 .. Cardinality(S) - 1 = 1 .. n
  BY <1>1
<1>3. ASSUME NEW k \in 1 .. Cardinality(S) - 1
      PROVE  Nth(S, k) \in S /\ Nth(S, k + 1) \in S /\ Nth(S, k) < Nth(S, k + 1)
  <2>1. k \in 1 .. Cardinality(S) /\ k + 1 \in 1 .. Cardinality(S) /\ k < k + 1
    BY <1>1
  <2> QED BY <2>1, NthProperties, NthOrdered
<1>4. ASSUME NEW k \in 1 .. n
      PROVE  P(k) \in NALUnit
  <2> DEFINE from == Nth(S, k)
             to == Nth(S, k + 1)
  <2>1. from \in S /\ to \in S /\ from < to
    BY <1>2, <1>3
  <2> HIDE DEF from, to
  <2>2. from \in 1 .. Len(data) /\ to \in 1 .. Len(data)
    BY <2>1
  <2>3. from \in Nat \ {0} /\ to \in Nat /\ from <= to /\ to <= Len(data) + 1
    BY <1>1, <2>1, <2>2
  <2>4. Piece(data, before, from, to) \in NALUnit
    BY <2>3, PieceProperties
  <2> QED BY <2>4 DEF from, to
<1> HIDE DEF n, P
<1>5. Cut(data, before, S) = [k \in 1 .. n |-> P(k)]
  BY <1>2 DEF Cut, P
<1>6. Cut(data, before, S) \in [1 .. n -> NALUnit]
  BY <1>4, <1>5
<1>7. Cut(data, before, S) \in Seq(NALUnit) /\ Len(Cut(data, before, S)) = n
  BY <1>2, <1>6, SeqDef
<1>8. \A k \in 1 .. Cardinality(S) - 1 : Cut(data, before, S)[k] = P(k)
  BY <1>2, <1>5
<1> QED BY <1>3, <1>7, <1>8 DEF n, P, IsCut

\* Two cuts have the same pieces.
SameCut(data, before, S, stream, after, T) == Cut(data, before, S) = Cut(stream, after, T)

\* What is read later does not change a cut.
LEMMA CutStays ==
  ASSUME NEW data \in Seq(Byte), NEW chunk \in Seq(Byte), NEW before \in Nat,
         NEW S, PositionSet(S), S \subseteq 1 .. Len(data)
  PROVE  SameCut(data \o chunk, before, S, data, before, S)
<1>1. Len(data) \in Nat
  BY LenProperties
<1>2. ASSUME NEW k \in 1 .. Cardinality(S) - 1
      PROVE  Piece(data \o chunk, before, Nth(S, k), Nth(S, k + 1))
               = Piece(data, before, Nth(S, k), Nth(S, k + 1))
  <2> DEFINE from == Nth(S, k)
             to == Nth(S, k + 1)
  <2>1. from \in S /\ to \in S /\ from < to
    BY CutProperties DEF IsCut
  <2> HIDE DEF from, to
  <2>2. from \in 1 .. Len(data) /\ to \in 1 .. Len(data)
    BY <2>1
  <2>3. from \in Nat \ {0} /\ to \in Nat /\ from <= to /\ to <= Len(data) + 1
    BY <1>1, <2>1, <2>2
  <2>4. Piece(data \o chunk, before, from, to) = Piece(data, before, from, to)
    BY <2>3, PieceStays
  <2> QED BY <2>4 DEF from, to
<1> QED BY <1>2 DEF Cut, SameCut

\* Positions counted from further ahead.
Shifted(b, P) == {b + p : p \in P}

\* Cutting the buffer is cutting the stream, further on.
LEMMA CutOfEnd ==
  ASSUME NEW data \in Seq(Byte), NEW stream \in Seq(Byte), IsEnd(data, stream),
         NEW P, P \subseteq 1 .. Len(data)
  PROVE  LET b == Len(stream) - Len(data)
         IN  /\ Shifted(b, P) \subseteq 1 .. Len(stream)
             /\ SameCut(data, b, P, stream, 0, Shifted(b, P))
<1> DEFINE b == Len(stream) - Len(data)
           T == Shifted(b, P)
           n == Cardinality(P)
           e == [k \in 1 .. n |-> b + Nth(P, k)]
<1>1. b \in Nat /\ Len(data) \in Nat /\ Len(stream) \in Nat /\ Len(stream) = b + Len(data)
  BY LenProperties DEF IsEnd
<1>2. PositionSet(P) /\ n \in Nat /\ \A p \in P : p \in 1 .. Len(data)
  <2>1. Len(data) \in Int
    BY <1>1
  <2>2. PositionSet(P)
    BY <2>1, BoundedPositions
  <2> QED BY <2>2, RankType
<1>3. T = {b + p : p \in P}
  BY DEF Shifted
<1> HIDE DEF T
<1>4. \A k \in 1 .. n : Nth(P, k) \in P
  BY <1>2, NthProperties
<1>5. \A j, k \in 1 .. n : j < k => Nth(P, j) < Nth(P, k)
  BY <1>2, NthOrdered
<1>6. \A p \in P : \E k \in 1 .. n : Nth(P, k) = p
  BY <1>2, NthIs, RankBound
<1> HIDE DEF b, n
<1>7. T \subseteq 1 .. Len(stream) /\ T \subseteq Nat
  <2>1. \A p \in P : b + p \in 1 .. Len(stream) /\ b + p \in Nat
    BY <1>1, <1>2
  <2> QED BY <1>3, <2>1
<1>8. e \in [1 .. n -> T]
  BY <1>3, <1>4
<1>9. \A t \in T : \E k \in 1 .. n : e[k] = t
  <2> SUFFICES ASSUME NEW p \in P
               PROVE  \E k \in 1 .. n : e[k] = b + p
    BY <1>3
  <2> QED BY <1>6
<1>10. \A j, k \in 1 .. n : j < k => e[j] < e[k]
  <2> SUFFICES ASSUME NEW j \in 1 .. n, NEW k \in 1 .. n, j < k
               PROVE  e[j] < e[k]
    OBVIOUS
  <2>1. Nth(P, j) \in P /\ Nth(P, k) \in P /\ Nth(P, j) < Nth(P, k)
    BY <1>4, <1>5
  <2>2. Nth(P, j) \in Nat /\ Nth(P, k) \in Nat
    BY <1>2, <2>1 DEF PositionSet
  <2> QED BY <1>1, <2>1, <2>2
<1> HIDE DEF e
<1>11. /\ PositionSet(T) /\ Cardinality(T) = n
       /\ \A k \in 1 .. n : Nth(T, k) = e[k]
  <2>1. n \in Nat /\ T \subseteq Nat
    BY <1>2, <1>7
  <2>2. Lists(e, n, T)
    BY <1>8, <1>9, <1>10 DEF Lists
  <2> QED BY <2>1, <2>2, Enumeration
<1>12. \A k \in 1 .. n : Nth(T, k) = b + Nth(P, k)
  BY <1>11 DEF e
<1>13. ASSUME NEW k \in 1 .. n - 1
       PROVE  Piece(data, b, Nth(P, k), Nth(P, k + 1))
                = Piece(stream, 0, Nth(T, k), Nth(T, k + 1))
  <2>1. k \in 1 .. n /\ k + 1 \in 1 .. n /\ k < k + 1
    BY <1>2
  <2>2. Nth(P, k) \in P /\ Nth(P, k + 1) \in P /\ Nth(P, k) < Nth(P, k + 1)
    BY <1>4, <1>5, <2>1
  <2> DEFINE from == Nth(P, k)
             to == Nth(P, k + 1)
  <2>3. from \in 1 .. Len(data) /\ to \in 1 .. Len(data) /\ from < to
    BY <1>2, <2>2
  <2> HIDE DEF from, to
  <2>4. from \in Nat \ {0} /\ to \in Nat /\ from <= to /\ to <= Len(data) + 1
    BY <1>1, <2>3
  <2>5. Piece(data, b, from, to) = Piece(stream, 0, b + from, b + to)
    BY <2>4, PieceOfEnd DEF b
  <2> QED BY <1>12, <2>1, <2>5 DEF from, to
<1>14. Cut(data, b, P) = Cut(stream, 0, T)
  BY <1>11, <1>13 DEF Cut, n
<1> QED BY <1>7, <1>11, <1>14 DEF b, T, SameCut

\* A cut can be continued at its last position.
Continues(data, before, S, T) ==
  Cut(data, before, S \cup T) = Cut(data, before, S) \o Cut(data, before, T)

\* It can if the positions that are added begin with the last one.
LEMMA CutGoesOn ==
  ASSUME NEW data \in Seq(Byte), NEW before \in Nat,
         NEW S, S \subseteq 1 .. Len(data), NEW T, T \subseteq 1 .. Len(data),
         NEW m, MeetAt(S, T, m)
  PROVE  Continues(data, before, S, T)
<1> DEFINE a == Cardinality(S)
           b == Cardinality(T)
           x == Cut(data, before, S)
           y == Cut(data, before, T)
           z == Cut(data, before, S \cup T)
           xy == x \o y
           P(U, k) == Piece(data, before, Nth(U, k), Nth(U, k + 1))
<1>1. PositionSet(S) /\ PositionSet(T) /\ Len(data) \in Nat
  <2>1. Len(data) \in Nat /\ Len(data) \in Int
    BY LenProperties
  <2> QED BY <2>1, BoundedPositions
<1>2. /\ PositionSet(S \cup T) /\ Cardinality(S \cup T) = a + b - 1
      /\ \A k \in 1 .. a : Nth(S \cup T, k) = Nth(S, k)
      /\ \A k \in 1 .. b : Nth(S \cup T, a - 1 + k) = Nth(T, k)
  <2>1. InOrder(S, T)
    BY <1>1, NthOfUnion
  <2> QED BY <2>1 DEF InOrder
<1>3. a \in Nat \ {0} /\ b \in Nat \ {0}
  <2>1. S # {} /\ T # {}
    BY DEF MeetAt
  <2> QED BY <1>1, <2>1, RankType, FS_EmptySet DEF PositionSet
<1>4. /\ x \in Seq(NALUnit) /\ Len(x) = a - 1
      /\ \A k \in 1 .. a - 1 : x[k] = P(S, k)
  <2>1. S # {} /\ IsCut(x, data, before, S)
    BY <1>1, CutProperties DEF MeetAt
  <2> HIDE DEF x
  <2> QED BY <2>1 DEF IsCut
<1>5. /\ y \in Seq(NALUnit) /\ Len(y) = b - 1
      /\ \A k \in 1 .. b - 1 : y[k] = P(T, k)
  <2>1. T # {} /\ IsCut(y, data, before, T)
    BY <1>1, CutProperties DEF MeetAt
  <2> HIDE DEF y
  <2> QED BY <2>1 DEF IsCut
<1>6. /\ z \in Seq(NALUnit) /\ Len(z) = Cardinality(S \cup T) - 1
      /\ \A k \in 1 .. Cardinality(S \cup T) - 1 : z[k] = P(S \cup T, k)
  <2>1. S \cup T \subseteq 1 .. Len(data) /\ S \cup T # {}
    BY DEF MeetAt
  <2>2. IsCut(z, data, before, S \cup T)
    BY <1>2, <2>1, CutProperties
  <2> HIDE DEF z
  <2> QED BY <2>1, <2>2 DEF IsCut
<1> HIDE DEF a, b, x, y, z
<1>7. Len(z) = a + b - 2 /\ \A k \in 1 .. a + b - 2 : z[k] = P(S \cup T, k)
  <2>1. Cardinality(S \cup T) - 1 = a + b - 2
    BY <1>2, <1>3
  <2> QED BY <1>6, <2>1
<1>8. /\ xy \in Seq(NALUnit) /\ Len(xy) = a + b - 2
      /\ \A k \in 1 .. a + b - 2 : xy[k] = IF k <= a - 1 THEN x[k] ELSE y[k - (a - 1)]
  <2>1. Len(x) + Len(y) = a + b - 2
    BY <1>3, <1>4, <1>5
  <2>2. /\ x \o y \in Seq(NALUnit) /\ Len(x \o y) = Len(x) + Len(y)
        /\ \A k \in 1 .. Len(x) + Len(y) :
             (x \o y)[k] = IF k <= Len(x) THEN x[k] ELSE y[k - Len(x)]
    BY <1>4, <1>5, ConcatProperties
  <2> QED BY <1>4, <2>1, <2>2
<1> HIDE DEF xy
<1>9. ASSUME NEW k \in 1 .. a + b - 2
      PROVE  z[k] = xy[k]
  <2>1. CASE k <= a - 1
    <3>1. k \in 1 .. a - 1 /\ k \in 1 .. a /\ k + 1 \in 1 .. a
      BY <2>1, <1>3
    <3>2. P(S \cup T, k) = P(S, k)
      BY <3>1, <1>2
    <3> QED BY <2>1, <3>1, <3>2, <1>4, <1>7, <1>8
  <2>2. CASE ~(k <= a - 1)
    <3> DEFINE j == k - (a - 1)
    <3>1. /\ j \in 1 .. b - 1 /\ j \in 1 .. b /\ j + 1 \in 1 .. b
          /\ a - 1 + j = k /\ a - 1 + (j + 1) = k + 1
      BY <2>2, <1>3
    <3> HIDE DEF j
    <3>2. Nth(S \cup T, k) = Nth(T, j) /\ Nth(S \cup T, k + 1) = Nth(T, j + 1)
      BY <3>1, <1>2
    <3>3. xy[k] = y[j] /\ y[j] = P(T, j)
      BY <2>2, <3>1, <1>5, <1>8 DEF j
    <3> QED BY <3>2, <3>3, <1>7
  <2> QED BY <2>1, <2>2
<1>10. z = xy
  BY <1>6, <1>7, <1>8, <1>9, SeqEqual
<1> QED BY <1>10 DEF z, xy, x, y, Continues

-----------------------------------------------------------------------------
(* Start codes *)

\* All but the last bytes, byte by byte.
LEMMA WithoutProperties ==
  ASSUME NEW stream \in Seq(Byte), NEW n \in 0 .. Len(stream)
  PROVE  /\ Without(stream, n) \in Seq(Byte)
         /\ Len(Without(stream, n)) = Len(stream) - n
         /\ \A i \in 1 .. Len(stream) - n : Without(stream, n)[i] = stream[i]
         /\ \E rest \in Seq(Byte) : stream = Without(stream, n) \o rest
<1> DEFINE m == Len(stream) - n
<1>1. Len(stream) \in Nat /\ m \in 0 .. Len(stream) /\ m \in Int /\ m - 1 + 1 = m
  BY LenProperties
<1> HIDE DEF m
<1>2. \A i \in 1 .. m : i \in 1 .. Len(stream)
  BY <1>1
<1>3. \A i \in 1 .. m : stream[i] \in Byte
  BY <1>2, ElementOfSeq
<1>4. /\ SubSeq(stream, 1, m) \in Seq(Byte)
      /\ Len(SubSeq(stream, 1, m)) = IF 1 <= m THEN m - 1 + 1 ELSE 0
      /\ \A i \in 1 .. m - 1 + 1 : SubSeq(stream, 1, m)[i] = stream[1 + i - 1]
  BY <1>1, <1>3, SubSeqProperties
<1>5. Len(SubSeq(stream, 1, m)) = m
  BY <1>1, <1>4
<1>6. \A i \in 1 .. m : SubSeq(stream, 1, m)[i] = stream[i]
  <2>1. \A i \in 1 .. m : 1 + i - 1 = i
    OBVIOUS
  <2> QED BY <1>1, <1>4, <2>1
<1>7. \E rest \in Seq(Byte) : stream = SubSeq(stream, 1, m) \o rest
  <2> DEFINE rest == SubSeq(stream, m + 1, Len(stream))
  <2>1. SubSeq(stream, 1, m) \o rest = SubSeq(stream, 1, Len(stream))
    <3>1. /\ 1 \in 1 .. Len(stream) + 1 /\ m \in 1 - 1 .. Len(stream)
          /\ Len(stream) \in m .. Len(stream)
      BY <1>1
    <3> QED BY <3>1, ConcatAdjacentSubSeq
  <2>2. SubSeq(stream, 1, Len(stream)) = stream
    BY SubSeqFull
  <2>3. rest \in Seq(Byte)
    <3>1. \A i \in m + 1 .. Len(stream) : stream[i] \in Byte
      <4>1. \A i \in m + 1 .. Len(stream) : i \in 1 .. Len(stream)
        BY <1>1
      <4> QED BY <4>1, ElementOfSeq
    <3>2. m + 1 \in Int /\ Len(stream) \in Int
      BY <1>1
    <3> QED BY <3>1, <3>2, SubSeqProperties
  <2> QED BY <2>1, <2>2, <2>3
<1> QED BY <1>4, <1>5, <1>6, <1>7 DEF Without, m

\* The starts that have a byte behind their start code.
Seen(stream) == Starts(Without(stream, 1))

\* A start code has been seen when a byte follows it.
LEMMA SeenMeaning ==
  ASSUME NEW stream \in Seq(Byte), Len(stream) >= 1, NEW p
  PROVE  p \in Seen(stream) <=>
           /\ p \in 1 .. Len(stream) - 3
           /\ \/ p < Len(stream) - 3 /\ LongAt(stream, p)
              \/ ShortAt(stream, p) /\ ~(p > 1 /\ stream[p - 1] = 0)
<1> DEFINE w == Without(stream, 1)
           n == Len(stream)
<1>1. /\ n \in Nat /\ n >= 1 /\ Len(w) = n - 1
      /\ \A i \in 1 .. n - 1 : w[i] = stream[i]
  <2>1. n \in Nat /\ 1 \in 0 .. Len(stream)
    BY LenProperties
  <2> QED BY <2>1, WithoutProperties
<1> HIDE DEF w, n
<1>2. Len(w) - 2 = n - 3
  BY <1>1
<1>3. ASSUME p \in 1 .. n - 3
      PROVE  /\ ShortAt(w, p) <=> ShortAt(stream, p)
             /\ p > 1 => w[p - 1] = stream[p - 1]
             /\ p < n - 3 => (LongAt(w, p) <=> LongAt(stream, p))
  <2>1. /\ p \in 1 .. n - 1 /\ p + 1 \in 1 .. n - 1 /\ p + 2 \in 1 .. n - 1
        /\ p > 1 => p - 1 \in 1 .. n - 1
        /\ p < n - 3 => p + 3 \in 1 .. n - 1
    BY <1>1, <1>3
  <2>2. /\ w[p] = stream[p] /\ w[p + 1] = stream[p + 1] /\ w[p + 2] = stream[p + 2]
        /\ p > 1 => w[p - 1] = stream[p - 1]
        /\ p < n - 3 => w[p + 3] = stream[p + 3]
    BY <1>1, <2>1
  <2> QED BY <2>2 DEF ShortAt, LongAt
<1>4. p \in Seen(stream) <=>
           /\ p \in 1 .. n - 3
           /\ \/ p < n - 3 /\ LongAt(w, p)
              \/ ShortAt(w, p) /\ ~(p > 1 /\ w[p - 1] = 0)
  BY <1>2 DEF Seen, Starts, w
<1>5. p \in Seen(stream) <=>
           /\ p \in 1 .. n - 3
           /\ \/ p < n - 3 /\ LongAt(stream, p)
              \/ ShortAt(stream, p) /\ ~(p > 1 /\ stream[p - 1] = 0)
  BY <1>3, <1>4
<1> QED BY <1>5 DEF n

\* A start is seen or among the last bytes.
LEMMA SeenAreStarts ==
  ASSUME NEW stream \in Seq(Byte), Len(stream) >= 1
  PROVE  /\ \A p \in Seen(stream) : p \in Starts(stream) /\ p \in 1 .. Len(stream) - 3
         /\ \A p \in Starts(stream) : p \in 1 .. Len(stream) - 2
         /\ \A p \in Starts(stream) : p <= Len(stream) - 4 => p \in Seen(stream)
<1> DEFINE n == Len(stream)
<1>1. n \in Nat
  BY LenProperties
<1> HIDE DEF n
<1>2. ASSUME NEW p
      PROVE  p \in Seen(stream) <=>
               /\ p \in 1 .. n - 3
               /\ \/ p < n - 3 /\ LongAt(stream, p)
                  \/ ShortAt(stream, p) /\ ~(p > 1 /\ stream[p - 1] = 0)
  BY SeenMeaning DEF n
<1>3. ASSUME NEW p
      PROVE  p \in Starts(stream) <=>
               /\ p \in 1 .. n - 2
               /\ \/ p < n - 2 /\ LongAt(stream, p)
                  \/ ShortAt(stream, p) /\ ~(p > 1 /\ stream[p - 1] = 0)
  BY DEF Starts, n
<1>4. ASSUME NEW p \in Seen(stream)
      PROVE  p \in Starts(stream) /\ p \in 1 .. n - 3
  <2>1. p \in 1 .. n - 3
    BY <1>2
  <2>2. p \in 1 .. n - 2 /\ p < n - 2
    BY <1>1, <2>1
  <2> QED BY <1>2, <1>3, <2>1, <2>2
<1>5. ASSUME NEW p \in Starts(stream), p <= n - 4
      PROVE  p \in Seen(stream)
  <2>1. p \in 1 .. n - 2
    BY <1>3
  <2>2. p \in 1 .. n - 3 /\ p < n - 3
    BY <1>1, <1>5, <2>1
  <2> QED BY <1>2, <1>3, <2>2
<1> QED BY <1>3, <1>4, <1>5 DEF n

\* Two start codes do not overlap.
LEMMA StartsApart ==
  ASSUME NEW stream \in Seq(Byte),
         NEW p \in Starts(stream), NEW q \in Starts(stream), p < q
  PROVE  p + 3 <= q
<1>1. Len(stream) \in Nat /\ p \in 1 .. Len(stream) - 2 /\ q \in 1 .. Len(stream) - 2
  BY LenProperties DEF Starts
<1>2. p \in Nat /\ q \in Nat
  BY <1>1
<1>3. LongAt(stream, p) \/ ShortAt(stream, p)
  BY DEF Starts
<1>4. LongAt(stream, q) \/ (ShortAt(stream, q) /\ stream[q - 1] # 0)
  BY <1>1 DEF Starts
<1>5. q # p + 1
  <2> SUFFICES ASSUME q = p + 1
               PROVE  FALSE
    OBVIOUS
  <2>1. q - 1 = p /\ q + 1 = p + 2 /\ q + 2 = p + 3
    BY <1>2
  <2> QED BY <1>3, <1>4, <2>1 DEF LongAt, ShortAt
<1>6. q # p + 2
  <2> SUFFICES ASSUME q = p + 2
               PROVE  FALSE
    OBVIOUS
  <2>1. q + 1 = p + 3
    BY <1>2
  <2> QED BY <1>3, <1>4, <2>1 DEF LongAt, ShortAt
<1> QED BY <1>2, <1>5, <1>6

\* What is read later adds starts, none of them before a start that is known.
LEMMA StartsGrow ==
  ASSUME NEW stream \in Seq(Byte), NEW chunk \in Seq(Byte)
  PROVE  /\ Starts(stream) \subseteq Starts(stream \o chunk)
         /\ \A p \in Starts(stream \o chunk) :
              p <= Len(stream) - 3 => p \in Starts(stream)
<1> DEFINE n == Len(stream)
           all == stream \o chunk
           N == Len(all)
<1>1. /\ n \in Nat /\ N \in Nat /\ n <= N
      /\ \A i \in 1 .. n : all[i] = stream[i]
  <2>1. Len(stream) \in Nat /\ Len(chunk) \in Nat
    BY LenProperties
  <2>2. /\ N = Len(stream) + Len(chunk)
        /\ \A i \in 1 .. Len(stream) + Len(chunk) :
             all[i] = IF i <= Len(stream) THEN stream[i] ELSE chunk[i - Len(stream)]
    BY ConcatProperties
  <2> HIDE DEF all
  <2> QED BY <2>1, <2>2
<1> HIDE DEF n, N, all
<1>2. ASSUME NEW p \in 1 .. n - 2
      PROVE  /\ ShortAt(all, p) <=> ShortAt(stream, p)
             /\ p > 1 => all[p - 1] = stream[p - 1]
             /\ p < n - 2 => (LongAt(all, p) <=> LongAt(stream, p))
  <2>1. /\ p \in 1 .. n /\ p + 1 \in 1 .. n /\ p + 2 \in 1 .. n
        /\ p > 1 => p - 1 \in 1 .. n
        /\ p < n - 2 => p + 3 \in 1 .. n
    BY <1>1
  <2>2. /\ all[p] = stream[p] /\ all[p + 1] = stream[p + 1] /\ all[p + 2] = stream[p + 2]
        /\ p > 1 => all[p - 1] = stream[p - 1]
        /\ p < n - 2 => all[p + 3] = stream[p + 3]
    BY <1>1, <2>1
  <2> QED BY <2>2 DEF ShortAt, LongAt
<1>3. ASSUME NEW p
      PROVE  p \in Starts(stream) <=>
               /\ p \in 1 .. n - 2
               /\ \/ p < n - 2 /\ LongAt(stream, p)
                  \/ ShortAt(stream, p) /\ ~(p > 1 /\ stream[p - 1] = 0)
  BY DEF Starts, n
<1>4. ASSUME NEW p
      PROVE  p \in Starts(all) <=>
               /\ p \in 1 .. N - 2
               /\ \/ p < N - 2 /\ LongAt(all, p)
                  \/ ShortAt(all, p) /\ ~(p > 1 /\ all[p - 1] = 0)
  BY DEF Starts, N
<1>5. ASSUME NEW p \in Starts(stream)
      PROVE  p \in Starts(all)
  <2>1. p \in 1 .. n - 2
    BY <1>3
  <2>2. p \in 1 .. N - 2 /\ (p < n - 2 => p < N - 2)
    BY <1>1, <2>1
  <2> QED BY <1>2, <1>3, <1>4, <2>1, <2>2
<1>6. ASSUME NEW p \in Starts(all), p <= n - 3
      PROVE  p \in Starts(stream)
  <2>1. p \in 1 .. N - 2
    BY <1>4
  <2>2. p \in 1 .. n - 2 /\ p < n - 2
    BY <1>1, <1>6, <2>1
  <2> QED BY <1>2, <1>3, <1>4, <2>2
<1> QED BY <1>5, <1>6 DEF n, all

\* What a shorter stream has seen a longer one has, and new ones near its end only.
LEMMA SeenGrow ==
  ASSUME NEW stream \in Seq(Byte), NEW chunk \in Seq(Byte), Len(stream) >= 1
  PROVE  /\ Seen(stream) \subseteq Seen(stream \o chunk)
         /\ \A p \in Seen(stream \o chunk) :
              p <= Len(stream) - 4 => p \in Seen(stream)
<1>1. /\ stream \o chunk \in Seq(Byte) /\ Len(stream \o chunk) = Len(stream) + Len(chunk)
      /\ \A i \in 1 .. Len(stream) + Len(chunk) :
           (stream \o chunk)[i] = IF i <= Len(stream) THEN stream[i]
                                  ELSE chunk[i - Len(stream)]
      /\ Len(stream) \in Nat /\ Len(chunk) \in Nat
  BY ConcatProperties, LenProperties
<1> DEFINE n == Len(stream)
           all == stream \o chunk
           N == Len(all)
<1>2. n \in Nat /\ N \in Nat /\ n <= N /\ n >= 1 /\ N >= 1 /\ all \in Seq(Byte)
  BY <1>1
<1>3. \A i \in 1 .. n : all[i] = stream[i]
  BY <1>1
<1>4. ASSUME NEW p
      PROVE  p \in Seen(stream) <=>
               /\ p \in 1 .. n - 3
               /\ \/ p < n - 3 /\ LongAt(stream, p)
                  \/ ShortAt(stream, p) /\ ~(p > 1 /\ stream[p - 1] = 0)
  BY SeenMeaning
<1> HIDE DEF all, n
<1>5. ASSUME NEW p
      PROVE  p \in Seen(all) <=>
               /\ p \in 1 .. N - 3
               /\ \/ p < N - 3 /\ LongAt(all, p)
                  \/ ShortAt(all, p) /\ ~(p > 1 /\ all[p - 1] = 0)
  BY <1>2, SeenMeaning
<1> HIDE DEF N
<1>6. ASSUME NEW p \in 1 .. n - 3
      PROVE  /\ ShortAt(all, p) <=> ShortAt(stream, p)
             /\ p > 1 => all[p - 1] = stream[p - 1]
             /\ p < n - 3 => (LongAt(all, p) <=> LongAt(stream, p))
  <2>1. /\ p \in 1 .. n /\ p + 1 \in 1 .. n /\ p + 2 \in 1 .. n
        /\ p > 1 => p - 1 \in 1 .. n
        /\ p < n - 3 => p + 3 \in 1 .. n
    BY <1>2
  <2>2. /\ all[p] = stream[p] /\ all[p + 1] = stream[p + 1] /\ all[p + 2] = stream[p + 2]
        /\ p > 1 => all[p - 1] = stream[p - 1]
        /\ p < n - 3 => all[p + 3] = stream[p + 3]
    BY <1>3, <2>1
  <2> QED BY <2>2 DEF ShortAt, LongAt
<1>7. ASSUME NEW p \in Seen(stream)
      PROVE  p \in Seen(all)
  <2>1. p \in 1 .. n - 3
    BY <1>4
  <2>2. p \in 1 .. N - 3 /\ (p < n - 3 => p < N - 3)
    BY <1>2, <2>1
  <2> QED BY <1>4, <1>5, <1>6, <2>1, <2>2
<1>8. ASSUME NEW p \in Seen(all), p <= n - 4
      PROVE  p \in Seen(stream)
  <2>1. p \in 1 .. N - 3
    BY <1>5
  <2>2. p \in 1 .. n - 3 /\ p < n - 3
    BY <1>2, <1>8, <2>1
  <2> QED BY <1>4, <1>5, <1>6, <2>2
<1> QED BY <1>7, <1>8 DEF all, n

\* The bytes of a buffer are those of the end of the stream.
LEMMA CodesOfEnd ==
  ASSUME NEW data \in Seq(Byte), NEW stream \in Seq(Byte), IsEnd(data, stream),
         NEW b, b = Len(stream) - Len(data),
         NEW i \in 1 .. Len(data) - 3
  PROVE  /\ ShortAt(data, i) <=> ShortAt(stream, b + i)
         /\ LongAt(data, i) <=> LongAt(stream, b + i)
<1>1. Len(data) \in Nat /\ Len(stream) \in Nat /\ b \in Nat
  BY LenProperties DEF IsEnd
<1>2. \A j \in 1 .. Len(data) : data[j] = stream[b + j]
  BY DEF IsEnd
<1>3. /\ i \in 1 .. Len(data) /\ i + 1 \in 1 .. Len(data)
      /\ i + 2 \in 1 .. Len(data) /\ i + 3 \in 1 .. Len(data)
  BY <1>1
<1>4. b + (i + 1) = (b + i) + 1 /\ b + (i + 2) = (b + i) + 2 /\ b + (i + 3) = (b + i) + 3
  BY <1>1
<1>5. /\ data[i] = stream[b + i] /\ data[i + 1] = stream[(b + i) + 1]
      /\ data[i + 2] = stream[(b + i) + 2] /\ data[i + 3] = stream[(b + i) + 3]
  BY <1>2, <1>3, <1>4
<1> QED BY <1>5 DEF ShortAt, LongAt

\* What extractNextNAL looks for, in terms of the stream.
LEMMA StartCodesMeaning ==
  ASSUME NEW data \in Seq(Byte), NEW stream \in Seq(Byte), IsEnd(data, stream),
         NEW b, b = Len(stream) - Len(data), NEW i
  PROVE  i \in StartCodes(data) <=>
           /\ i \in 1 .. Len(data) - 3
           /\ \/ ShortAt(stream, b + i)
              \/ i < Len(data) - 3 /\ LongAt(stream, b + i)
BY CodesOfEnd DEF StartCodes

\* The NAL unit from s to before e that extractNextNAL finds in the end of a
\* stream with b bytes before it.
FirstUnit(data, stream, b, s, e) ==
  /\ s \in Nat \ {0} /\ e \in Nat /\ s + 3 <= e /\ e <= Len(data) - 3
  /\ b + e \in Seen(stream)
  /\ b + s \in Seen(stream) \/ (b + s) - 1 \in Seen(stream)
  /\ \A r \in Seen(stream) : ~(b + s < r /\ r < b + e)
  /\ b + 1 \in Seen(stream) => s = 1

\* What extractNextNAL finds is such a unit.
LEMMA Extracted ==
  ASSUME NEW data \in Seq(Byte), NEW stream \in Seq(Byte), IsEnd(data, stream),
         NEW b, b = Len(stream) - Len(data), Ends(data) # {}
  PROVE  FirstUnit(data, stream, b, Min(StartCodes(data)), Min(Ends(data)))
<1> DEFINE L == Len(data)
           n == Len(stream)
           codes == StartCodes(data)
           s == Min(codes)
           e == Min(Ends(data))
           x == b + s
           y == b + e
<1>1. ASSUME NEW i
      PROVE  i \in codes <=>
               /\ i \in 1 .. L - 3
               /\ ShortAt(stream, b + i) \/ (i < L - 3 /\ LongAt(stream, b + i))
  BY StartCodesMeaning
<1>2. L \in Nat /\ n \in Nat /\ b \in Nat /\ n = b + L
  BY LenProperties DEF IsEnd
<1>3. codes \subseteq Nat /\ Ends(data) = {i \in codes : i >= s + 3}
  BY <1>1 DEF Ends
<1>4. Ends(data) \subseteq codes /\ Ends(data) # {} /\ codes # {}
  BY <1>3
<1>5. s \in codes /\ \A i \in codes : s <= i
  BY <1>3, <1>4, MinIsLeast
<1>6. e \in Ends(data) /\ \A i \in Ends(data) : e <= i
  <2>1. Ends(data) \subseteq Nat
    BY <1>3, <1>4
  <2> QED BY <1>4, <2>1, MinIsLeast
<1>7. e \in codes /\ e >= s + 3 /\ \A i \in codes : i >= s + 3 => e <= i
  BY <1>3, <1>6
<1> HIDE DEF codes, s, e, L, n
<1>8. /\ s \in 1 .. L - 3
      /\ ShortAt(stream, x) \/ (s < L - 3 /\ LongAt(stream, x))
  BY <1>1, <1>5
<1>9. /\ e \in 1 .. L - 3
      /\ ShortAt(stream, y) \/ (e < L - 3 /\ LongAt(stream, y))
  BY <1>1, <1>7
<1>10. L >= 4 /\ n >= 4
  BY <1>2, <1>8
<1>11. ASSUME NEW p
       PROVE  p \in Seen(stream) <=>
                /\ p \in 1 .. n - 3
                /\ \/ p < n - 3 /\ LongAt(stream, p)
                   \/ ShortAt(stream, p) /\ ~(p > 1 /\ stream[p - 1] = 0)
  <2>1. Len(stream) >= 1
    BY <1>2, <1>10 DEF n
  <2> QED BY <2>1, SeenMeaning DEF n
<1> HIDE DEF x, y
<1>12. /\ x \in Nat /\ y \in Nat /\ x \in 1 .. n - 3 /\ y \in 1 .. n - 3 /\ x + 3 <= y
       /\ s < L - 3 => x < n - 3
       /\ e < L - 3 => y < n - 3
  BY <1>2, <1>7, <1>8, <1>9 DEF x, y
<1>13. y \in Seen(stream)
  <2>1. CASE e < L - 3 /\ LongAt(stream, y)
    BY <2>1, <1>11, <1>12
  <2>2. CASE ShortAt(stream, y) /\ stream[y - 1] = 0
    <3>1. (y - 1) + 1 = y /\ (y - 1) + 2 = y + 1 /\ (y - 1) + 3 = y + 2
      BY <1>12
    <3>2. LongAt(stream, y - 1)
      BY <2>2, <3>1 DEF LongAt, ShortAt
    <3>3. e - 1 \in 1 .. L - 3 /\ e - 1 < L - 3 /\ b + (e - 1) = y - 1
      BY <1>2, <1>7, <1>8, <1>9 DEF y
    <3>4. e - 1 \in codes
      BY <1>1, <3>2, <3>3
    <3>5. e - 1 = s + 2
      <4>1. ~(e - 1 >= s + 3)
        <5>1. e - 1 >= s + 3 => e <= e - 1
          BY <1>7, <3>4
        <5> QED BY <5>1, <1>9
      <4> QED BY <4>1, <1>7, <1>8, <1>9
    <3>6. y - 1 = x + 2 /\ y = x + 3
      BY <1>2, <1>8, <1>9, <3>5 DEF x, y
    <3>7. LongAt(stream, x)
      BY <1>8, <2>2, <3>6 DEF ShortAt
    <3> QED BY <2>2, <3>6, <3>7 DEF LongAt, ShortAt
  <2>3. CASE ShortAt(stream, y) /\ stream[y - 1] # 0
    BY <2>3, <1>11, <1>12
  <2> QED BY <1>9, <2>1, <2>2, <2>3
<1>14. x \in Seen(stream) \/ x - 1 \in Seen(stream)
  <2>1. CASE s < L - 3 /\ LongAt(stream, x)
    BY <2>1, <1>11, <1>12
  <2>2. CASE ShortAt(stream, x) /\ ~(x > 1 /\ stream[x - 1] = 0)
    BY <2>2, <1>11, <1>12
  <2>3. CASE ShortAt(stream, x) /\ x > 1 /\ stream[x - 1] = 0
    <3>1. (x - 1) + 1 = x /\ (x - 1) + 2 = x + 1 /\ (x - 1) + 3 = x + 2
      BY <1>12
    <3>2. LongAt(stream, x - 1)
      BY <2>3, <3>1 DEF LongAt, ShortAt
    <3>3. x - 1 \in 1 .. n - 3 /\ x - 1 < n - 3
      BY <1>12, <2>3, <1>2
    <3> QED BY <1>11, <3>2, <3>3
  <2> QED BY <1>8, <2>1, <2>2, <2>3
<1>15. ASSUME NEW r \in Seen(stream), x < r, r < y
       PROVE  FALSE
  <2>1. /\ r \in 1 .. n - 3
        /\ \/ r < n - 3 /\ LongAt(stream, r)
           \/ ShortAt(stream, r) /\ ~(r > 1 /\ stream[r - 1] = 0)
    BY <1>11
  <2>2. r \in Nat /\ r > 1
    BY <2>1, <1>12, <1>15
  <2>3. /\ r - b \in 1 .. L - 3 /\ b + (r - b) = r
        /\ r < n - 3 => r - b < L - 3
    BY <1>2, <1>8, <1>15, <2>1, <2>2 DEF x
  <2>4. r - b \in codes
    BY <1>1, <2>1, <2>3
  <2>5. ~(r - b >= s + 3)
    <3>1. r - b < e
      BY <1>2, <1>9, <1>15, <2>2 DEF y
    <3> QED BY <1>7, <1>8, <1>9, <2>3, <2>4, <3>1
  <2>6. r = x + 1 \/ r = x + 2
    <3>1. x = b + s /\ b \in Nat /\ s \in Nat
      BY <1>2, <1>8 DEF x
    <3>2. r - b < s + 3 /\ x < r
      BY <1>15, <2>2, <2>5, <3>1
    <3> QED BY <2>2, <3>1, <3>2
  <2>7. CASE r = x + 1
    <3>1. r - 1 = x /\ r + 1 = x + 2 /\ r + 2 = x + 3
      BY <2>7, <1>12
    <3> QED BY <1>8, <2>1, <2>2, <3>1 DEF LongAt, ShortAt
  <2>8. CASE r = x + 2
    <3>1. r + 1 = x + 3
      BY <2>8, <1>12
    <3> QED BY <1>8, <2>1, <2>8, <3>1 DEF LongAt, ShortAt
  <2> QED BY <2>6, <2>7, <2>8
<1>16. ASSUME b + 1 \in Seen(stream)
       PROVE  s = 1
  <2>1. /\ b + 1 \in 1 .. n - 3
        /\ \/ b + 1 < n - 3 /\ LongAt(stream, b + 1)
           \/ ShortAt(stream, b + 1)
    BY <1>11, <1>16
  <2>2. 1 \in 1 .. L - 3 /\ (b + 1 < n - 3 => 1 < L - 3)
    BY <1>2, <1>10
  <2>3. 1 \in codes
    BY <1>1, <2>1, <2>2
  <2> QED BY <1>5, <1>8, <2>3
<1>17. s \in Nat \ {0} /\ e \in Nat /\ s + 3 <= e /\ e <= L - 3
  BY <1>2, <1>7, <1>8, <1>9
<1>18. FirstUnit(data, stream, b, s, e)
  BY <1>13, <1>14, <1>15, <1>16, <1>17 DEF FirstUnit, L, x, y
<1> QED BY <1>18 DEF s, e, codes

\* A buffer that begins at a start and has no complete NAL unit holds no other
\* start that can be seen.
LEMMA NothingMore ==
  ASSUME NEW data \in Seq(Byte), NEW stream \in Seq(Byte), IsEnd(data, stream),
         NEW b, b = Len(stream) - Len(data), Ends(data) = {}, b + 1 \in Seen(stream),
         Len(stream) >= 1
  PROVE  \A p \in Seen(stream) : p <= b + 1
<1> DEFINE L == Len(data)
           n == Len(stream)
           codes == StartCodes(data)
           s == Min(codes)
<1> SUFFICES ASSUME NEW p \in Seen(stream), ~(p <= b + 1)
             PROVE  FALSE
  OBVIOUS
<1>1. ASSUME NEW i
      PROVE  i \in codes <=>
               /\ i \in 1 .. L - 3
               /\ ShortAt(stream, b + i) \/ (i < L - 3 /\ LongAt(stream, b + i))
  BY StartCodesMeaning
<1>2. L \in Nat /\ n \in Nat /\ b \in Nat /\ n = b + L
  BY LenProperties DEF IsEnd
<1>3. codes \subseteq Nat /\ Ends(data) = {i \in codes : i >= s + 3}
  BY <1>1 DEF Ends
<1>4. ASSUME NEW q
      PROVE  q \in Seen(stream) <=>
               /\ q \in 1 .. n - 3
               /\ \/ q < n - 3 /\ LongAt(stream, q)
                  \/ ShortAt(stream, q) /\ ~(q > 1 /\ stream[q - 1] = 0)
  BY SeenMeaning DEF n
<1>5. p \in Nat /\ p >= b + 4
  <2>1. p \in Starts(stream) /\ b + 1 \in Starts(stream) /\ p \in 1 .. n - 3
    BY SeenAreStarts
  <2>2. p \in Nat /\ b + 1 < p
    BY <1>2, <2>1
  <2>3. (b + 1) + 3 <= p
    BY <2>1, <2>2, StartsApart
  <2> QED BY <1>2, <2>2, <2>3
<1> HIDE DEF L, n, codes, s
<1>6. 1 \in codes
  <2>1. /\ b + 1 \in 1 .. n - 3
        /\ \/ b + 1 < n - 3 /\ LongAt(stream, b + 1)
           \/ ShortAt(stream, b + 1)
    BY <1>4
  <2>2. 1 \in 1 .. L - 3 /\ (b + 1 < n - 3 => 1 < L - 3)
    BY <1>2, <2>1
  <2> QED BY <1>1, <2>1, <2>2
<1>7. p - b \in codes
  <2>1. /\ p \in 1 .. n - 3
        /\ (p < n - 3 /\ LongAt(stream, p)) \/ ShortAt(stream, p)
    BY <1>4
  <2>2. p - b \in 1 .. L - 3 /\ b + (p - b) = p /\ (p < n - 3 => p - b < L - 3)
    BY <1>2, <1>5, <2>1
  <2> QED BY <1>1, <2>1, <2>2
<1>8. s = 1
  <2>1. s \in codes /\ s <= 1
    BY <1>3, <1>6, MinIsLeast DEF s
  <2>2. s \in 1 .. L - 3
    BY <1>1, <2>1
  <2> QED BY <2>1, <2>2
<1>9. p - b >= s + 3
  BY <1>2, <1>5, <1>8
<1> QED BY <1>3, <1>7, <1>9

-----------------------------------------------------------------------------
(* Types, and buffers that are the end of the stream *)

\* A chunk that is appended to a stream is appended to its end.
LEMMA EndGrows ==
  ASSUME NEW data \in Seq(Byte), NEW stream \in Seq(Byte), NEW chunk \in Seq(Byte),
         IsEnd(data, stream)
  PROVE  /\ IsEnd(data \o chunk, stream \o chunk)
         /\ data \o chunk \in Seq(Byte) /\ stream \o chunk \in Seq(Byte)
         /\ Len(data \o chunk) = Len(data) + Len(chunk)
         /\ Len(stream \o chunk) = Len(stream) + Len(chunk)
<1> DEFINE m == Len(data)
           n == Len(stream)
           c == Len(chunk)
           d == data \o chunk
           s == stream \o chunk
<1>1. /\ d \in Seq(Byte) /\ Len(d) = m + c
      /\ \A i \in 1 .. m + c : d[i] = IF i <= m THEN data[i] ELSE chunk[i - m]
  BY ConcatProperties
<1>2. /\ s \in Seq(Byte) /\ Len(s) = n + c
      /\ \A i \in 1 .. n + c : s[i] = IF i <= n THEN stream[i] ELSE chunk[i - n]
  BY ConcatProperties
<1>3. /\ m \in Nat /\ n \in Nat /\ c \in Nat /\ m <= n
      /\ \A i \in 1 .. m : data[i] = stream[n - m + i]
  BY LenProperties DEF IsEnd
<1> HIDE DEF m, n, c, d, s
<1>4. ASSUME NEW i \in 1 .. m + c
      PROVE  d[i] = s[(n + c) - (m + c) + i]
  <2>1. /\ (n + c) - (m + c) + i = n - m + i /\ n - m + i \in 1 .. n + c
        /\ i \in Nat
    BY <1>3
  <2>2. CASE i <= m
    <3>1. i \in 1 .. m /\ n - m + i <= n
      BY <1>3, <2>1, <2>2
    <3>2. d[i] = data[i] /\ s[n - m + i] = stream[n - m + i] /\ data[i] = stream[n - m + i]
      BY <1>1, <1>2, <1>3, <2>1, <2>2, <3>1
    <3> QED BY <2>1, <3>2
  <2>3. CASE ~(i <= m)
    <3>1. ~(n - m + i <= n) /\ (n - m + i) - n = i - m
      BY <1>3, <2>1, <2>3
    <3>2. d[i] = chunk[i - m]
      BY <1>1, <2>3
    <3>3. s[n - m + i] = chunk[(n - m + i) - n]
      BY <1>2, <2>1, <3>1
    <3> QED BY <2>1, <3>1, <3>2, <3>3
  <2> QED BY <2>2, <2>3
<1>5. m + c <= n + c
  BY <1>3
<1>6. IsEnd(d, s)
  BY <1>1, <1>2, <1>4, <1>5 DEF IsEnd
<1> QED BY <1>1, <1>2, <1>6 DEF m, n, c, d, s

\* What is left of the end of a stream is an end of it.
LEMMA EndOfEnd ==
  ASSUME NEW data \in Seq(Byte), NEW stream \in Seq(Byte), IsEnd(data, stream),
         NEW e \in 1 .. Len(data) + 1
  PROVE  /\ SubSeq(data, e, Len(data)) \in Seq(Byte)
         /\ Len(SubSeq(data, e, Len(data))) = Len(data) - e + 1
         /\ IsEnd(SubSeq(data, e, Len(data)), stream)
<1> DEFINE m == Len(data)
           n == Len(stream)
           rest == SubSeq(data, e, m)
<1>1. /\ m \in Nat /\ n \in Nat /\ m <= n /\ e \in Int /\ m \in Int
      /\ \A i \in 1 .. m : data[i] = stream[n - m + i]
  BY LenProperties DEF IsEnd
<1>2. \A i \in e .. m : data[i] \in Byte
  <2>1. \A i \in e .. m : i \in 1 .. Len(data)
    BY <1>1
  <2> QED BY <2>1, ElementOfSeq
<1>3. /\ rest \in Seq(Byte)
      /\ Len(rest) = IF e <= m THEN m - e + 1 ELSE 0
      /\ \A i \in 1 .. m - e + 1 : rest[i] = data[e + i - 1]
  <2> HIDE DEF m
  <2> QED BY <1>1, <1>2, SubSeqProperties
<1>4. Len(rest) = m - e + 1
  BY <1>1, <1>3
<1> HIDE DEF m, n, rest
<1>5. ASSUME NEW i \in 1 .. m - e + 1
      PROVE  rest[i] = stream[n - (m - e + 1) + i]
  <2>1. /\ e + i - 1 \in 1 .. m
        /\ n - m + (e + i - 1) = n - (m - e + 1) + i
    BY <1>1 DEF m
  <2>2. rest[i] = data[e + i - 1] /\ data[e + i - 1] = stream[n - m + (e + i - 1)]
    BY <1>1, <1>3, <2>1
  <2> QED BY <2>1, <2>2
<1>6. m - e + 1 <= n
  BY <1>1 DEF m
<1>7. IsEnd(rest, stream)
  BY <1>4, <1>5, <1>6 DEF IsEnd, n
<1> QED BY <1>3, <1>4, <1>7 DEF rest, m

LEMMA ChunkType ==
  ASSUME NEW n \in 1 .. MaxRead, NEW chunk \in [1 .. n -> Byte]
  PROVE  chunk \in Seq(Byte) /\ Len(chunk) = n /\ n \in Nat /\ n <= MaxRead
<1>1. n \in Nat /\ n <= MaxRead
  BY StreamAssumption
<1> QED BY <1>1, SeqDef

\* What readAndSendNALs drops.
SentBytes(data) ==
  IF Positions(data) = {} THEN 0 ELSE Max(Positions(data)) - Min(Positions(data))
Rest(data) == SubSeq(data, SentBytes(data) + 1, Len(data))

LEMMA PositionsRange ==
  ASSUME NEW data \in Seq(Byte), Positions(data) # {}
  PROVE  /\ Positions(data) \subseteq 1 .. Len(data) - 4
         /\ Max(Positions(data)) \in Positions(data)
         /\ \A p \in Positions(data) : p <= Max(Positions(data))
         /\ Min(Positions(data)) \in Positions(data)
         /\ \A p \in Positions(data) : Min(Positions(data)) <= p
<1>1. Len(data) \in Nat
  BY LenProperties
<1>2. Positions(data) \subseteq 1 .. Len(data) - 4
  BY DEF Positions
<1>3. Positions(data) \subseteq 1 .. Len(data) /\ Positions(data) \subseteq Nat
  BY <1>1, <1>2
<1> QED BY <1>1, <1>2, <1>3, MaxIsGreatest, MinIsLeast

LEMMA RestProperties ==
  ASSUME NEW data \in Seq(Byte)
  PROVE  /\ Positions(data) \subseteq 1 .. Len(data)
         /\ SentBytes(data) \in 0 .. Len(data)
         /\ Rest(data) \in Seq(Byte) /\ Len(Rest(data)) = Len(data) - SentBytes(data)
         /\ \A stream \in Seq(Byte) : IsEnd(data, stream) => IsEnd(Rest(data), stream)
<1>1. Len(data) \in Nat
  BY LenProperties
<1>2. Positions(data) \subseteq 1 .. Len(data) - 4
  BY DEF Positions
<1>3. Positions(data) \subseteq 1 .. Len(data)
  BY <1>1, <1>2
<1>4. SentBytes(data) \in 0 .. Len(data)
  <2>1. CASE Positions(data) = {}
    BY <1>1, <2>1 DEF SentBytes
  <2>2. CASE Positions(data) # {}
    <3> DEFINE a == Min(Positions(data))
               z == Max(Positions(data))
    <3>1. a \in 1 .. Len(data) /\ z \in 1 .. Len(data) /\ a <= z
      BY <1>3, <2>2, PositionsRange
    <3> HIDE DEF a, z
    <3>2. z - a \in 0 .. Len(data)
      BY <1>1, <3>1
    <3> QED BY <2>2, <3>2 DEF SentBytes, a, z
  <2> QED BY <2>1, <2>2
<1> DEFINE e == SentBytes(data) + 1
<1>5. e \in 1 .. Len(data) + 1 /\ Len(data) - e + 1 = Len(data) - SentBytes(data)
  BY <1>1, <1>4
<1>6. IsEnd(data, data)
  BY <1>1 DEF IsEnd
<1> HIDE DEF e
<1>7. /\ SubSeq(data, e, Len(data)) \in Seq(Byte)
      /\ Len(SubSeq(data, e, Len(data))) = Len(data) - e + 1
  BY <1>5, <1>6, EndOfEnd
<1>8. ASSUME NEW stream \in Seq(Byte), IsEnd(data, stream)
      PROVE  IsEnd(SubSeq(data, e, Len(data)), stream)
  BY <1>5, <1>8, EndOfEnd
<1> QED BY <1>3, <1>4, <1>5, <1>7, <1>8 DEF Rest, e

\* The stream begins with a start code.
Begins ==
  /\ Len(received) >= 4
  /\ received[1] = 0 /\ received[2] = 0 /\ received[3] = 0 /\ received[4] = 1

TypedInv ==
  /\ TypeOK /\ Begins
  /\ IsEnd(buffer, received)
  /\ Len(localBuffer) <= Len(received)

\* A read keeps the local bridge within its types and its limit.
LEMMA ReadLocalType ==
  ASSUME TypedInv, NEW chunk \in Seq(Byte), ReadLocal(chunk)
  PROVE  /\ localBuffer' \in Seq(Byte) /\ Len(localBuffer') <= LocalLimit
         /\ Len(localBuffer') <= Len(localBuffer) + Len(chunk)
         /\ localNals' \in Seq(NALUnit) /\ localReset' \in BOOLEAN
<1> DEFINE data == localBuffer \o chunk
           b == Len(received) - Len(localBuffer)
           P == Positions(data)
<1>1. /\ localBuffer \in Seq(Byte) /\ localNals \in Seq(NALUnit) /\ localReset \in BOOLEAN
      /\ Len(localBuffer) \in Nat /\ Len(chunk) \in Nat /\ b \in Nat
  <2>1. /\ localBuffer \in Seq(Byte) /\ received \in Seq(Byte)
        /\ localNals \in Seq(NALUnit) /\ localReset \in BOOLEAN
        /\ Len(localBuffer) <= Len(received)
    BY DEF TypedInv, TypeOK
  <2>2. Len(localBuffer) \in Nat /\ Len(received) \in Nat /\ Len(chunk) \in Nat
    BY <2>1, LenProperties
  <2> QED BY <2>1, <2>2
<1>2. data \in Seq(Byte) /\ Len(data) = Len(localBuffer) + Len(chunk) /\ Len(data) \in Nat
  BY <1>1, ConcatProperties
<1>3. /\ localNals' = localNals \o Cut(data, b, P)
      /\ localBuffer' = IF Len(Rest(data)) > LocalLimit THEN <<>> ELSE Rest(data)
      /\ localReset' = (localReset \/ Len(Rest(data)) > LocalLimit)
  BY DEF ReadLocal, Rest, SentBytes
<1> HIDE DEF data, b
<1>4. /\ P \subseteq 1 .. Len(data) /\ SentBytes(data) \in 0 .. Len(data)
      /\ Rest(data) \in Seq(Byte) /\ Len(Rest(data)) = Len(data) - SentBytes(data)
  BY <1>2, RestProperties
<1>5. Cut(data, b, P) \in Seq(NALUnit)
  <2>1. PositionSet(P)
    <3>1. Len(data) \in Int
      BY <1>2
    <3> QED BY <1>4, <3>1, BoundedPositions
  <2>2. IsCut(Cut(data, b, P), data, b, P)
    BY <1>1, <1>2, <1>4, <2>1, CutProperties
  <2> QED BY <2>2 DEF IsCut
<1>6. localNals' \in Seq(NALUnit)
  BY <1>1, <1>3, <1>5, ConcatProperties
<1>7. localReset' \in BOOLEAN
  BY <1>1, <1>3
<1>8. localBuffer' \in Seq(Byte) /\ Len(localBuffer') <= LocalLimit
        /\ Len(localBuffer') <= Len(data)
  <2>1. CASE Len(Rest(data)) > LocalLimit
    <3>1. localBuffer' = <<>> /\ Len(<<>>) = 0 /\ <<>> \in Seq(Byte)
      BY <1>3, <2>1, EmptySeq
    <3> QED BY <3>1, <1>2, StreamAssumption
  <2>2. CASE ~(Len(Rest(data)) > LocalLimit)
    <3>1. localBuffer' = Rest(data)
      BY <1>3, <2>2
    <3>2. Len(Rest(data)) <= LocalLimit /\ Len(Rest(data)) <= Len(data)
      BY <1>2, <1>4, <2>2, StreamAssumption
    <3> QED BY <3>1, <3>2, <1>4
  <2> QED BY <2>1, <2>2
<1> QED BY <1>2, <1>6, <1>7, <1>8

\* What there is before the buffer.
Before == Len(received) - Len(buffer)

\* The NAL unit from s to before e of the buffer has been extracted.
Took(s, e) ==
  /\ FirstUnit(buffer, received, Before, s, e)
  /\ buffer' \in Seq(Byte) /\ IsEnd(buffer', received)
  /\ Len(buffer') = Len(buffer) - e + 1
  /\ nals' = Append(nals, Piece(received, 0, Before + s, Before + e))
  /\ Piece(received, 0, Before + s, Before + e) \in NALUnit
  /\ Piece(received, 0, Before + s, Before + e).at = Before + s
  /\ Behind(Piece(received, 0, Before + s, Before + e)) = Before + e

\* An extraction takes the first unit of the buffer.
LEMMA ExtractTakes ==
  ASSUME TypedInv, ExtractNext
  PROVE  /\ Before \in Nat /\ Len(buffer) \in Nat /\ Len(received) \in Nat
         /\ Len(received) = Before + Len(buffer)
         /\ \E s, e \in Nat : Took(s, e)
<1> DEFINE s == Min(StartCodes(buffer))
           e == Min(Ends(buffer))
<1>1. buffer \in Seq(Byte) /\ received \in Seq(Byte) /\ IsEnd(buffer, received)
  BY DEF TypedInv, TypeOK
<1>2. /\ Before \in Nat /\ Len(buffer) \in Nat /\ Len(received) \in Nat
      /\ Len(received) = Before + Len(buffer)
  BY <1>1, LenProperties DEF Before, IsEnd
<1>3. /\ Ends(buffer) # {}
      /\ nals' = Append(nals, Piece(buffer, Before, s, e))
      /\ buffer' = SubSeq(buffer, e, Len(buffer))
  BY DEF ExtractNext, Before
<1>4. FirstUnit(buffer, received, Before, s, e)
  BY <1>1, <1>3, Extracted DEF Before
<1> HIDE DEF s, e
<1>5. s \in Nat \ {0} /\ e \in Nat /\ s + 3 <= e /\ e <= Len(buffer) - 3
  BY <1>4 DEF FirstUnit
<1>6. s <= e /\ e <= Len(buffer) + 1 /\ e \in 1 .. Len(buffer) + 1
  BY <1>2, <1>5
<1>7. Piece(buffer, Before, s, e) = Piece(received, 0, Before + s, Before + e)
  BY <1>1, <1>5, <1>6, PieceOfEnd DEF Before
<1>8. /\ Piece(buffer, Before, s, e) \in NALUnit
      /\ Piece(buffer, Before, s, e).at = Before + s
      /\ Behind(Piece(buffer, Before, s, e)) = Before + e
  <2>1. s \in Nat \ {0} /\ e \in Nat /\ Before \in Nat /\ buffer \in Seq(Byte)
    BY <1>1, <1>2, <1>5
  <2>2. s <= e /\ e <= Len(buffer) + 1
    BY <1>6
  <2> QED BY <2>1, <2>2, PieceProperties, Zenon
<1>9. /\ buffer' \in Seq(Byte) /\ IsEnd(buffer', received)
      /\ Len(buffer') = Len(buffer) - e + 1
  BY <1>1, <1>3, <1>6, EndOfEnd
<1>10. Took(s, e)
  BY <1>3, <1>4, <1>7, <1>8, <1>9 DEF Took
<1> QED BY <1>2, <1>5, <1>10

\* The end of a round throws the buffer away or leaves everything alone.
LEMMA RoundEnds ==
  ASSUME TypedInv, EndRound
  PROVE  /\ extracting /\ extracting' = FALSE /\ Ends(buffer) = {}
         /\ UNCHANGED <<received, nals, local>>
         /\ \/ buffer' = <<>> /\ reset' = TRUE
            \/ UNCHANGED <<buffer, reset>> /\ Len(buffer) <= Limit
BY DEF EndRound

\* A read is appended to the stream and to the buffer.
LEMMA Arrival ==
  ASSUME TypedInv, NEW n \in 1 .. MaxRead, NEW chunk \in [1 .. n -> Byte], Arrive(chunk)
  PROVE  /\ chunk \in Seq(Byte) /\ Len(chunk) = n /\ n \in Nat \ {0} /\ n <= MaxRead
         /\ ~extracting /\ extracting' = TRUE /\ UNCHANGED <<nals, reset>>
         /\ received \in Seq(Byte) /\ buffer \in Seq(Byte)
         /\ received' = received \o chunk /\ received' \in Seq(Byte)
         /\ buffer' = buffer \o chunk /\ buffer' \in Seq(Byte)
         /\ Len(received) \in Nat /\ Len(received') = Len(received) + n
         /\ Len(buffer) \in Nat /\ Len(buffer') = Len(buffer) + n
         /\ IsEnd(buffer', received') /\ Before' = Before
         /\ ReadLocal(chunk)
<1>1. chunk \in Seq(Byte) /\ Len(chunk) = n /\ n \in Nat \ {0} /\ n <= MaxRead
  BY ChunkType
<1>2. /\ received' = received \o chunk /\ buffer' = buffer \o chunk /\ ReadLocal(chunk)
      /\ ~extracting /\ extracting' = TRUE /\ UNCHANGED <<nals, reset>>
  BY DEF Arrive
<1>3. received \in Seq(Byte) /\ buffer \in Seq(Byte) /\ IsEnd(buffer, received)
  BY DEF TypedInv, TypeOK
<1>4. Len(received) \in Nat /\ Len(buffer) \in Nat
  BY <1>3, LenProperties
<1>5. /\ IsEnd(buffer \o chunk, received \o chunk)
      /\ buffer \o chunk \in Seq(Byte) /\ received \o chunk \in Seq(Byte)
      /\ Len(buffer \o chunk) = Len(buffer) + Len(chunk)
      /\ Len(received \o chunk) = Len(received) + Len(chunk)
  BY <1>1, <1>3, EndGrows
<1>6. Before' = Before
  <2>1. /\ Len(received') = Len(received) + n /\ Len(buffer') = Len(buffer) + n
        /\ n \in Nat
    BY <1>1, <1>2, <1>5
  <2> QED BY <1>4, <2>1 DEF Before
<1> QED BY <1>1, <1>2, <1>3, <1>4, <1>5, <1>6

LEMMA TypedInit == Init => TypedInv
<1> SUFFICES ASSUME Init
             PROVE  TypedInv
  OBVIOUS
<1>1. received = <<0, 0, 0, 1>> /\ 0 \in Byte /\ 1 \in Byte
  BY StreamAssumption DEF Init
<1>2. received \in Seq(Byte) /\ Len(received) = 4
  BY <1>1
<1>3. /\ buffer = received /\ extracting = FALSE /\ nals = <<>> /\ reset = FALSE
      /\ localBuffer = received /\ localNals = <<>> /\ localReset = FALSE
  BY DEF Init
<1>4. TypeOK
  <2>1. 4 <= Limit + (IF extracting THEN MaxRead ELSE 0) /\ 4 <= LocalLimit
    BY <1>3, StreamAssumption
  <2>2. <<>> \in Seq(NALUnit)
    BY EmptySeq
  <2> QED BY <1>2, <1>3, <2>1, <2>2 DEF TypeOK
<1>5. Begins
  BY <1>1, <1>2 DEF Begins
<1>6. IsEnd(buffer, received) /\ Len(localBuffer) <= Len(received)
  <2>1. \A i \in 1 .. 4 : 4 - 4 + i = i
    OBVIOUS
  <2>2. Len(buffer) = 4 /\ Len(localBuffer) = 4 /\ 4 <= 4
    BY <1>2, <1>3
  <2> QED BY <1>2, <1>3, <2>1, <2>2 DEF IsEnd
<1> QED BY <1>4, <1>5, <1>6 DEF TypedInv

LEMMA TypedArrive ==
  ASSUME TypedInv, NEW n \in 1 .. MaxRead, NEW chunk \in [1 .. n -> Byte], Arrive(chunk)
  PROVE  TypedInv'
<1>1. /\ chunk \in Seq(Byte) /\ Len(chunk) = n /\ n \in Nat \ {0} /\ n <= MaxRead
      /\ ~extracting /\ extracting' = TRUE /\ UNCHANGED <<nals, reset>>
      /\ received \in Seq(Byte) /\ buffer \in Seq(Byte)
      /\ received' = received \o chunk /\ received' \in Seq(Byte)
      /\ buffer' = buffer \o chunk /\ buffer' \in Seq(Byte)
      /\ Len(received) \in Nat /\ Len(received') = Len(received) + n
      /\ Len(buffer) \in Nat /\ Len(buffer') = Len(buffer) + n
      /\ IsEnd(buffer', received')
      /\ ReadLocal(chunk)
  BY Arrival
<1>2. /\ localBuffer' \in Seq(Byte) /\ Len(localBuffer') <= LocalLimit
      /\ Len(localBuffer') <= Len(localBuffer) + Len(chunk)
      /\ localNals' \in Seq(NALUnit) /\ localReset' \in BOOLEAN
  BY <1>1, ReadLocalType
<1>3. /\ nals \in Seq(NALUnit) /\ reset \in BOOLEAN
      /\ Len(buffer) <= Limit + (IF extracting THEN MaxRead ELSE 0)
      /\ localBuffer \in Seq(Byte) /\ Len(localBuffer) <= Len(received)
  BY DEF TypedInv, TypeOK
<1>4. Len(buffer') <= Limit + (IF extracting' THEN MaxRead ELSE 0)
  <2>1. Len(buffer) <= Limit
    BY <1>1, <1>3, StreamAssumption
  <2>2. Len(buffer') <= Limit + MaxRead
    BY <1>1, <2>1, StreamAssumption
  <2> QED BY <1>1, <2>2
<1>5. TypeOK'
  BY <1>1, <1>2, <1>3, <1>4 DEF TypeOK
<1>6. Begins'
  <2>1. /\ Len(received) >= 4 /\ received[1] = 0 /\ received[2] = 0
        /\ received[3] = 0 /\ received[4] = 1
    BY DEF TypedInv, Begins
  <2>2. \A i \in 1 .. Len(received) + Len(chunk) :
          received'[i] = IF i <= Len(received) THEN received[i] ELSE chunk[i - Len(received)]
    BY <1>1, ConcatProperties
  <2>3. \A i \in 1 .. 4 : received'[i] = received[i]
    BY <1>1, <2>1, <2>2
  <2> QED BY <1>1, <2>1, <2>3 DEF Begins
<1>7. Len(localBuffer') <= Len(received')
  <2>1. Len(localBuffer') \in Nat /\ Len(localBuffer) \in Nat
    BY <1>2, <1>3, LenProperties
  <2> QED BY <1>1, <1>2, <1>3, <2>1
<1> QED BY <1>1, <1>5, <1>6, <1>7 DEF TypedInv

LEMMA TypedExtract ==
  ASSUME TypedInv, ExtractNext
  PROVE  TypedInv'
<1>1. PICK s \in Nat, e \in Nat : Took(s, e)
  BY ExtractTakes
<1>2. /\ buffer' \in Seq(Byte) /\ IsEnd(buffer', received)
      /\ Len(buffer') = Len(buffer) - e + 1 /\ e >= 3
      /\ nals' = Append(nals, Piece(received, 0, Before + s, Before + e))
      /\ Piece(received, 0, Before + s, Before + e) \in NALUnit
  BY <1>1 DEF Took, FirstUnit
<1>3. extracting /\ UNCHANGED <<received, extracting, reset, localBuffer, localNals, localReset>>
  BY DEF ExtractNext, local
<1>4. TypeOK
  BY DEF TypedInv
<1>5. nals' \in Seq(NALUnit)
  BY <1>2, <1>4, AppendProperties DEF TypeOK
<1>6. Len(buffer') <= Limit + (IF extracting' THEN MaxRead ELSE 0)
  <2>1. Len(buffer) \in Nat /\ Len(buffer') <= Len(buffer)
    BY <1>2, ExtractTakes
  <2>2. Len(buffer) <= Limit + MaxRead
    BY <1>3, <1>4 DEF TypeOK
  <2> QED BY <1>2, <1>3, <2>1, <2>2, StreamAssumption
<1>7. TypeOK'
  BY <1>2, <1>3, <1>4, <1>5, <1>6 DEF TypeOK
<1>8. Begins' /\ Len(localBuffer') <= Len(received') /\ IsEnd(buffer', received')
  BY <1>2, <1>3 DEF TypedInv, Begins
<1> QED BY <1>7, <1>8 DEF TypedInv

LEMMA TypedEndRound ==
  ASSUME TypedInv, EndRound
  PROVE  TypedInv'
<1>1. extracting' = FALSE /\ UNCHANGED <<received, nals, localBuffer, localNals, localReset>>
  BY RoundEnds DEF local
<1>2. received \in Seq(Byte) /\ buffer \in Seq(Byte) /\ Len(received) \in Nat
  BY LenProperties DEF TypedInv, TypeOK
<1>3. /\ buffer' \in Seq(Byte) /\ reset' \in BOOLEAN /\ Len(buffer') <= Limit
      /\ IsEnd(buffer', received)
  <2>1. CASE buffer' = <<>> /\ reset' = TRUE
    <3>1. <<>> \in Seq(Byte) /\ Len(<<>>) = 0
      BY EmptySeq
    <3>2. IsEnd(<<>>, received)
      BY <1>2, <3>1 DEF IsEnd
    <3> QED BY <2>1, <3>1, <3>2, StreamAssumption
  <2>2. CASE UNCHANGED <<buffer, reset>> /\ Len(buffer) <= Limit
    BY <1>2, <2>2 DEF TypedInv, TypeOK
  <2> QED BY <2>1, <2>2, RoundEnds
<1>4. Limit + (IF extracting' THEN MaxRead ELSE 0) = Limit
  BY <1>1, StreamAssumption
<1>5. TypeOK'
  BY <1>1, <1>3, <1>4 DEF TypedInv, TypeOK
<1>6. Begins' /\ Len(localBuffer') <= Len(received') /\ IsEnd(buffer', received')
  BY <1>1, <1>3 DEF TypedInv, Begins
<1> QED BY <1>5, <1>6 DEF TypedInv

LEMMA TypedStutters ==
  ASSUME TypedInv, UNCHANGED vars
  PROVE  TypedInv'
BY DEF TypedInv, TypeOK, Begins, vars, container, local

LEMMA TypedNext == TypedInv /\ [Next]_vars => TypedInv'
<1> SUFFICES ASSUME TypedInv, [Next]_vars
             PROVE  TypedInv'
  OBVIOUS
<1>1. CASE \E n \in 1 .. MaxRead : \E chunk \in [1 .. n -> Byte] : Arrive(chunk)
  BY <1>1, TypedArrive
<1>2. CASE ExtractNext
  BY <1>2, TypedExtract
<1>3. CASE EndRound
  BY <1>3, TypedEndRound
<1>4. CASE UNCHANGED vars
  BY <1>4, TypedStutters
<1> QED BY <1>1, <1>2, <1>3, <1>4 DEF Next

\* Types and limits, for every stream: the container bridge's buffer never
\* exceeds its limit by more than one read, and neither reader's exceeds it
\* between two reads (container_bridge.go:471, bridge.go:292).
THEOREM TypesOK == Spec => []TypeOK
<1>1. TypedInv => TypeOK
  BY DEF TypedInv
<1> QED BY <1>1, TypedInit, TypedNext, PTL DEF Spec

-----------------------------------------------------------------------------
(* What the container bridge extracts *)

\* A NAL unit is the piece of the stream at its position.
IsPiece(nal, stream) ==
  /\ nal.at \in Nat \ {0} /\ Behind(nal) \in Nat
  /\ nal.at <= Behind(nal) /\ Behind(nal) <= Len(stream) + 1
  /\ nal = Piece(stream, 0, nal.at, Behind(nal))

\* The NAL units follow each other, and the buffer follows the last one.
PiecesInv ==
  /\ \A k \in 1 .. Len(nals) : IsPiece(nals[k], received)
  /\ \A k \in 1 .. Len(nals) :
       Behind(nals[k]) <= IF k < Len(nals) THEN nals[k + 1].at ELSE Before + 1

\* What is read later does not change a unit.
LEMMA IsPieceStays ==
  ASSUME NEW stream \in Seq(Byte), NEW chunk \in Seq(Byte), NEW nal, IsPiece(nal, stream)
  PROVE  IsPiece(nal, stream \o chunk)
<1>1. /\ nal.at \in Nat \ {0} /\ Behind(nal) \in Nat
      /\ nal.at <= Behind(nal) /\ Behind(nal) <= Len(stream) + 1
      /\ nal = Piece(stream, 0, nal.at, Behind(nal))
  BY DEF IsPiece
<1>2. 0 \in Nat
  OBVIOUS
<1>3. Piece(stream \o chunk, 0, nal.at, Behind(nal)) = Piece(stream, 0, nal.at, Behind(nal))
  <2> DEFINE from == nal.at
             to == Behind(nal)
  <2>1. from \in Nat \ {0} /\ to \in Nat /\ from <= to /\ to <= Len(stream) + 1
    BY <1>1
  <2> HIDE DEF from, to
  <2>2. Piece(stream \o chunk, 0, from, to) = Piece(stream, 0, from, to)
    BY <1>2, <2>1, PieceStays
  <2> QED BY <2>2 DEF from, to
<1>4. Len(stream \o chunk) = Len(stream) + Len(chunk) /\ Len(stream) \in Nat /\ Len(chunk) \in Nat
  BY ConcatProperties, LenProperties
<1>5. Behind(nal) <= Len(stream \o chunk) + 1
  BY <1>1, <1>4
<1> QED BY <1>1, <1>3, <1>5 DEF IsPiece

\* What an extraction adds.
LEMMA TookProperties ==
  ASSUME TypedInv, ExtractNext, NEW s \in Nat, NEW e \in Nat, Took(s, e)
  PROVE  LET x == Piece(received, 0, Before + s, Before + e)
         IN  /\ IsPiece(x, received) /\ x.at = Before + s /\ Behind(x) = Before + e
             /\ s >= 1 /\ Before \in Nat
             /\ Before' = Before + e - 1 /\ received' = received
             /\ nals \in Seq(NALUnit) /\ Len(nals) \in Nat
             /\ Len(nals') = Len(nals) + 1
             /\ nals'[Len(nals) + 1] = x
             /\ \A k \in 1 .. Len(nals) : nals'[k] = nals[k]
<1> DEFINE x == Piece(received, 0, Before + s, Before + e)
<1>1. /\ s \in Nat \ {0} /\ e \in Nat /\ s + 3 <= e /\ e <= Len(buffer) - 3
      /\ Len(buffer') = Len(buffer) - e + 1
      /\ nals' = Append(nals, x) /\ x \in NALUnit
      /\ x.at = Before + s /\ Behind(x) = Before + e
  BY DEF Took, FirstUnit
<1>2. /\ Before \in Nat /\ Len(buffer) \in Nat /\ Len(received) \in Nat
      /\ Len(received) = Before + Len(buffer)
  BY ExtractTakes
<1>3. received' = received
  BY DEF ExtractNext
<1>4. Before' = Before + e - 1
  BY <1>1, <1>2, <1>3 DEF Before
<1>5. IsPiece(x, received)
  <2>1. /\ Before + s \in Nat \ {0} /\ Before + e \in Nat
        /\ Before + s <= Before + e /\ Before + e <= Len(received) + 1
    BY <1>1, <1>2
  <2>2. x = Piece(received, 0, x.at, Behind(x))
    BY <1>1
  <2> HIDE DEF x
  <2> QED BY <1>1, <2>1, <2>2 DEF IsPiece
<1>6. nals \in Seq(NALUnit)
  BY DEF TypedInv, TypeOK
<1> HIDE DEF x
<1>7. /\ Len(nals') = Len(nals) + 1 /\ nals'[Len(nals) + 1] = x
      /\ \A k \in 1 .. Len(nals) : nals'[k] = nals[k]
  BY <1>1, <1>6, AppendProperties
<1>8. Len(nals) \in Nat /\ s >= 1
  BY <1>1, <1>6, LenProperties
<1> QED BY <1>1, <1>2, <1>3, <1>4, <1>5, <1>6, <1>7, <1>8 DEF x

\* What the steps other than an extraction do to the stream and the buffer.
LEMMA OtherSteps ==
  ASSUME TypedInv, Next \/ UNCHANGED vars, ~ExtractNext
  PROVE  /\ nals' = nals
         /\ Before' \in Nat /\ Before \in Nat /\ Before <= Before'
         /\ \E chunk \in Seq(Byte) : received' = received \o chunk
<1>1. received \in Seq(Byte) /\ buffer \in Seq(Byte) /\ IsEnd(buffer, received)
  BY DEF TypedInv, TypeOK
<1>2. /\ Len(received) \in Nat /\ Len(buffer) \in Nat /\ Len(buffer) <= Len(received)
  BY <1>1, LenProperties DEF IsEnd
<1>3. Before \in Nat
  BY <1>2 DEF Before
<1>4. received = received \o <<>> /\ <<>> \in Seq(Byte)
  BY <1>1, ConcatEmptySeq, EmptySeq
<1>5. CASE \E n \in 1 .. MaxRead : \E chunk \in [1 .. n -> Byte] : Arrive(chunk)
  <2> PICK n \in 1 .. MaxRead : \E chunk \in [1 .. n -> Byte] : Arrive(chunk)
    BY <1>5
  <2>1. PICK chunk \in [1 .. n -> Byte] : Arrive(chunk)
    OBVIOUS
  <2>2. chunk \in Seq(Byte) /\ received' = received \o chunk /\ Before' = Before /\ nals' = nals
    BY <2>1, Arrival
  <2> QED BY <1>3, <2>2
<1>6. CASE EndRound
  <2>1. received' = received /\ nals' = nals /\ (buffer' = <<>> \/ buffer' = buffer)
    BY <1>6, RoundEnds
  <2>2. Len(buffer') \in Nat /\ Len(buffer') <= Len(buffer)
    BY <1>2, <2>1, EmptySeq
  <2>3. Before' \in Nat /\ Before <= Before'
    BY <1>2, <2>1, <2>2 DEF Before
  <2> QED BY <1>3, <1>4, <2>1, <2>3
<1>7. CASE UNCHANGED vars
  <2>1. received' = received /\ nals' = nals /\ buffer' = buffer
    BY <1>7 DEF vars, container
  <2>2. Before' = Before
    BY <2>1 DEF Before
  <2>3. Before <= Before
    BY <1>3
  <2>4. \E chunk \in Seq(Byte) : received' = received \o chunk
    BY <1>4, <2>1
  <2> QED BY <1>3, <2>1, <2>2, <2>3, <2>4
<1> QED BY <1>5, <1>6, <1>7 DEF Next

LEMMA PiecesNext ==
  ASSUME TypedInv, PiecesInv, [Next]_vars
  PROVE  PiecesInv'
<1>1. nals \in Seq(NALUnit) /\ received \in Seq(Byte) /\ Len(nals) \in Nat
  BY LenProperties DEF TypedInv, TypeOK
<1>2. \A k \in 1 .. Len(nals) : IsPiece(nals[k], received)
  BY DEF PiecesInv
<1>3. CASE ExtractNext
  <2>1. PICK s \in Nat, e \in Nat : Took(s, e)
    BY <1>3, ExtractTakes
  <2> DEFINE x == Piece(received, 0, Before + s, Before + e)
  <2>2. /\ IsPiece(x, received) /\ x.at = Before + s /\ Behind(x) = Before + e
        /\ s >= 1 /\ Before \in Nat
        /\ Before' = Before + e - 1 /\ received' = received
        /\ Len(nals') = Len(nals) + 1
        /\ nals'[Len(nals) + 1] = x
        /\ \A k \in 1 .. Len(nals) : nals'[k] = nals[k]
    BY <1>3, <2>1, TookProperties
  <2> HIDE DEF x
  <2>3. \A k \in 1 .. Len(nals') : k \in 1 .. Len(nals) \/ k = Len(nals) + 1
    BY <1>1, <2>2
  <2>4. \A k \in 1 .. Len(nals') : IsPiece(nals'[k], received')
    BY <1>2, <2>2, <2>3
  <2>5. ASSUME NEW k \in 1 .. Len(nals')
        PROVE  Behind(nals'[k]) <= IF k < Len(nals') THEN nals'[k + 1].at ELSE Before' + 1
    <3>1. CASE k = Len(nals) + 1
      <4>1. Behind(nals'[k]) = Before + e /\ ~(k < Len(nals')) /\ Before' + 1 = Before + e
        BY <1>1, <2>1, <2>2, <3>1
      <4>2. Before + e \in Nat
        BY <2>1, <2>2
      <4> QED BY <4>1, <4>2
    <3>2. CASE k \in 1 .. Len(nals) /\ k = Len(nals)
      <4>1. Behind(nals[k]) <= Before + 1
        BY <3>2, <1>1 DEF PiecesInv
      <4>2. nals'[k] = nals[k] /\ nals'[k + 1] = x /\ k < Len(nals')
        BY <1>1, <2>2, <3>2
      <4>3. Behind(nals[k]) \in Nat
        BY <1>2, <3>2 DEF IsPiece
      <4>4. Behind(nals[k]) <= Before + s
        BY <2>2, <2>1, <4>1, <4>3
      <4> QED BY <2>2, <4>2, <4>4
    <3>3. CASE k \in 1 .. Len(nals) /\ k # Len(nals)
      <4>1. k < Len(nals) /\ k + 1 \in 1 .. Len(nals) /\ k < Len(nals')
        BY <1>1, <2>2, <3>3
      <4>2. Behind(nals[k]) <= nals[k + 1].at
        BY <3>3, <4>1 DEF PiecesInv
      <4>3. nals'[k] = nals[k] /\ nals'[k + 1] = nals[k + 1]
        BY <2>2, <3>3, <4>1
      <4> QED BY <4>1, <4>2, <4>3
    <3> QED BY <2>3, <3>1, <3>2, <3>3
  <2> QED BY <2>4, <2>5 DEF PiecesInv
<1>4. CASE ~ExtractNext
  <2>1. /\ nals' = nals /\ Before' \in Nat /\ Before \in Nat /\ Before <= Before'
        /\ \E chunk \in Seq(Byte) : received' = received \o chunk
    BY <1>4, OtherSteps
  <2>2. \A k \in 1 .. Len(nals) : IsPiece(nals[k], received')
    BY <1>1, <1>2, <2>1, IsPieceStays
  <2>3. ASSUME NEW k \in 1 .. Len(nals)
        PROVE  Behind(nals[k]) <= IF k < Len(nals) THEN nals[k + 1].at ELSE Before' + 1
    <3>1. CASE k < Len(nals)
      BY <3>1 DEF PiecesInv
    <3>2. CASE ~(k < Len(nals))
      <4>1. Behind(nals[k]) <= Before + 1 /\ Behind(nals[k]) \in Nat
        BY <1>2, <3>2 DEF PiecesInv, IsPiece
      <4>2. Behind(nals[k]) <= Before' + 1
        BY <2>1, <4>1
      <4> QED BY <3>2, <4>2
    <3> QED BY <3>1, <3>2
  <2> QED BY <2>1, <2>2, <2>3 DEF PiecesInv
<1> QED BY <1>3, <1>4

\* The buffer is the end of the stream.
LEMMA BufferIsEnd ==
  ASSUME TypedInv
  PROVE  buffer = SubSeq(received, Len(received) - Len(buffer) + 1, Len(received))
<1>1. buffer \in Seq(Byte) /\ received \in Seq(Byte) /\ IsEnd(buffer, received)
  BY DEF TypedInv, TypeOK
<1>2. /\ Len(received) \in Nat /\ Len(buffer) \in Nat /\ Before \in Nat
      /\ Before + Len(buffer) = Len(received)
  BY <1>1, LenProperties DEF IsEnd, Before
<1>3. \A i \in 1 .. Len(buffer) : buffer[i] = received[Before + i]
  BY <1>1 DEF IsEnd, Before
<1>4. SubSeq(buffer, 1, Len(buffer)) = SubSeq(received, Before + 1, Before + Len(buffer))
  <2>1. /\ Len(buffer) \in Int /\ Len(buffer) <= Len(buffer)
        /\ Before + Len(buffer) <= Len(received) /\ 1 \in Nat \ {0}
    BY <1>2
  <2> QED BY <1>1, <1>2, <1>3, <2>1, SameStretch
<1>5. SubSeq(buffer, 1, Len(buffer)) = buffer
  BY <1>1, SubSeqFull
<1> QED BY <1>2, <1>4, <1>5 DEF Before

\* Every byte that is extracted (container_bridge.go:453-460) is the stream's at
\* its position, and no position is extracted twice or both extracted and still
\* buffered, resets included.
THEOREM NothingExtractedTwice == Spec => []NothingTwice
<1>1. Init => PiecesInv
  <2> SUFFICES ASSUME Init
               PROVE  PiecesInv
    OBVIOUS
  <2>1. 1 .. Len(nals) = {}
    BY EmptySeq DEF Init
  <2> QED BY <2>1 DEF PiecesInv
<1>2. TypedInv /\ PiecesInv /\ [Next]_vars => PiecesInv'
  BY PiecesNext
<1>3. TypedInv /\ PiecesInv => NothingTwice
  <2> SUFFICES ASSUME TypedInv, PiecesInv
               PROVE  NothingTwice
    OBVIOUS
  <2>1. \A k \in 1 .. Len(nals) : nals[k] = Piece(received, 0, nals[k].at, Behind(nals[k]))
    BY DEF PiecesInv, IsPiece
  <2>2. buffer = SubSeq(received, Len(received) - Len(buffer) + 1, Len(received))
    BY BufferIsEnd
  <2> QED BY <2>1, <2>2 DEF NothingTwice, PiecesInv, Before
<1> QED BY <1>1, <1>2, <1>3, TypedInit, TypedNext, PTL DEF Spec

-----------------------------------------------------------------------------
(* Whole NAL units *)

\* From one start code of the stream to the next one, or from the byte after it.
Whole(nal, stream, p, q) ==
  /\ p \in Starts(stream) /\ q \in Starts(stream) /\ p < q
  /\ \A r \in Starts(stream) : ~(p < r /\ r < q)
  /\ nal.at = p \/ nal.at = p + 1
  /\ Behind(nal) = q

WholeInv == \A k \in 1 .. Len(nals) : \E p, q \in Nat : Whole(nals[k], received, p, q)

\* What is read later does not break a whole unit.
LEMMA WholeStays ==
  ASSUME NEW stream \in Seq(Byte), NEW chunk \in Seq(Byte), NEW nal,
         NEW p \in Nat, NEW q \in Nat, Whole(nal, stream, p, q)
  PROVE  Whole(nal, stream \o chunk, p, q)
<1>1. /\ Starts(stream) \subseteq Starts(stream \o chunk)
      /\ \A r \in Starts(stream \o chunk) : r <= Len(stream) - 3 => r \in Starts(stream)
  BY StartsGrow
<1>2. /\ p \in Starts(stream) /\ q \in Starts(stream) /\ p < q
      /\ \A r \in Starts(stream) : ~(p < r /\ r < q)
      /\ nal.at = p \/ nal.at = p + 1
      /\ Behind(nal) = q
  BY DEF Whole
<1>3. q <= Len(stream) - 2 /\ Len(stream) \in Nat
  BY <1>2, LenProperties DEF Starts
<1>4. ASSUME NEW r \in Starts(stream \o chunk), p < r, r < q
      PROVE  FALSE
  <2>1. r \in Nat
    BY DEF Starts
  <2>2. r <= Len(stream) - 3
    BY <1>3, <1>4, <2>1
  <2> QED BY <1>1, <1>2, <1>4, <2>2
<1> QED BY <1>1, <1>2, <1>4 DEF Whole

\* What is extracted is whole.
LEMMA WholeTook ==
  ASSUME TypedInv, ExtractNext, NEW s \in Nat, NEW e \in Nat, Took(s, e)
  PROVE  \E p, q \in Nat :
           Whole(Piece(received, 0, Before + s, Before + e), received, p, q)
<1> DEFINE x == Piece(received, 0, Before + s, Before + e)
           b == Before
<1>1. /\ s \in Nat \ {0} /\ s + 3 <= e /\ b + e \in Seen(received)
      /\ b + s \in Seen(received) \/ (b + s) - 1 \in Seen(received)
      /\ \A r \in Seen(received) : ~(b + s < r /\ r < b + e)
      /\ x.at = b + s /\ Behind(x) = b + e
  BY DEF Took, FirstUnit
<1>2. received \in Seq(Byte) /\ Len(received) >= 1 /\ Len(received) \in Nat /\ b \in Nat
  <2>1. received \in Seq(Byte) /\ Len(received) >= 4
    BY DEF TypedInv, TypeOK, Begins
  <2>2. Len(received) \in Nat /\ b \in Nat
    BY ExtractTakes
  <2> QED BY <2>1, <2>2
<1> HIDE DEF x, b
<1>3. /\ \A p \in Seen(received) : p \in Starts(received) /\ p \in 1 .. Len(received) - 3
      /\ \A p \in Starts(received) : p \in 1 .. Len(received) - 2
      /\ \A p \in Starts(received) : p <= Len(received) - 4 => p \in Seen(received)
  BY <1>2, SeenAreStarts
<1>4. /\ b + e \in Starts(received) /\ b + e \in Nat /\ b + e <= Len(received) - 3
      /\ b + s \in Nat /\ (b + s) - 1 \in Nat /\ b + s < b + e
  BY <1>1, <1>2, <1>3
<1>5. ASSUME NEW r \in Starts(received), b + s < r, r < b + e
      PROVE  FALSE
  <2>1. r \in Nat /\ r <= Len(received) - 4
    BY <1>2, <1>3, <1>4, <1>5
  <2> QED BY <1>1, <1>3, <1>5, <2>1
<1>6. CASE b + s \in Seen(received)
  <2>1. Whole(x, received, b + s, b + e)
    BY <1>1, <1>3, <1>4, <1>5, <1>6 DEF Whole
  <2> QED BY <1>4, <2>1 DEF x, b
<1>7. CASE (b + s) - 1 \in Seen(received)
  <2> DEFINE p == (b + s) - 1
  <2>1. p \in Starts(received) /\ p \in Nat /\ p < b + e /\ x.at = p + 1
    BY <1>1, <1>2, <1>3, <1>4, <1>7
  <2>2. ASSUME NEW r \in Starts(received), p < r, r < b + e
        PROVE  FALSE
    <3>1. p + 3 <= r
      BY <1>2, <2>1, <2>2, StartsApart
    <3>2. r \in Nat
      BY <1>3
    <3>3. b + s < r
      BY <1>2, <3>1, <3>2
    <3> QED BY <1>5, <2>2, <3>3
  <2> HIDE DEF p
  <2>3. Whole(x, received, p, b + e)
    BY <1>1, <1>4, <2>1, <2>2 DEF Whole
  <2> QED BY <1>4, <2>1, <2>3 DEF x, b
<1> QED BY <1>1, <1>6, <1>7

LEMMA WholeNext ==
  ASSUME TypedInv, WholeInv, [Next]_vars
  PROVE  WholeInv'
<1>1. nals \in Seq(NALUnit) /\ received \in Seq(Byte) /\ Len(nals) \in Nat
  BY LenProperties DEF TypedInv, TypeOK
<1>2. CASE ExtractNext
  <2>1. PICK s \in Nat, e \in Nat : Took(s, e)
    BY <1>2, ExtractTakes
  <2> DEFINE x == Piece(received, 0, Before + s, Before + e)
  <2>2. /\ received' = received
        /\ Len(nals') = Len(nals) + 1
        /\ nals'[Len(nals) + 1] = x
        /\ \A k \in 1 .. Len(nals) : nals'[k] = nals[k]
    BY <1>2, <2>1, TookProperties
  <2>3. \E p, q \in Nat : Whole(x, received, p, q)
    BY <1>2, <2>1, WholeTook
  <2> HIDE DEF x
  <2>4. \A k \in 1 .. Len(nals') : k \in 1 .. Len(nals) \/ k = Len(nals) + 1
    BY <1>1, <2>2
  <2>5. ASSUME NEW k \in 1 .. Len(nals')
        PROVE  \E p, q \in Nat : Whole(nals'[k], received, p, q)
    BY <2>2, <2>3, <2>4 DEF WholeInv
  <2> QED BY <2>2, <2>5 DEF WholeInv
<1>3. CASE ~ExtractNext
  <2>1. nals' = nals /\ \E chunk \in Seq(Byte) : received' = received \o chunk
    BY <1>3, OtherSteps
  <2>2. PICK chunk \in Seq(Byte) : received' = received \o chunk
    BY <2>1
  <2>3. ASSUME NEW k \in 1 .. Len(nals)
        PROVE  \E p, q \in Nat : Whole(nals[k], received', p, q)
    <3>1. PICK p \in Nat, q \in Nat : Whole(nals[k], received, p, q)
      BY DEF WholeInv
    <3>2. Whole(nals[k], received \o chunk, p, q)
      BY <1>1, <3>1, WholeStays
    <3> QED BY <2>2, <3>2
  <2> QED BY <2>1, <2>3 DEF WholeInv
<1> QED BY <1>2, <1>3

\* A whole NAL unit is one of the reference's, without its first byte at most.
LEMMA WholeIsUnit ==
  ASSUME NEW stream \in Seq(Byte), NEW nal, IsPiece(nal, stream),
         NEW p \in Nat, NEW q \in Nat, Whole(nal, stream, p, q)
  PROVE  \E j \in 1 .. Len(Units(stream)) :
           LET unit == Units(stream)[j]
           IN nal \in {unit, Piece(stream, 0, unit.at + 1, Behind(unit))}
<1> DEFINE S == Starts(stream)
           j == Rank(S, p) + 1
           unit == Piece(stream, 0, p, q)
<1>1. /\ p \in S /\ q \in S /\ p < q /\ \A r \in S : ~(p < r /\ r < q)
      /\ nal.at = p \/ nal.at = p + 1
      /\ Behind(nal) = q
  BY DEF Whole
<1>2. /\ nal.at \in Nat \ {0} /\ q \in Nat
      /\ q <= Len(stream) + 1 /\ nal = Piece(stream, 0, nal.at, q)
  BY <1>1 DEF IsPiece
<1>3. S \subseteq 1 .. Len(stream) - 2 /\ S \subseteq 1 .. Len(stream) /\ Len(stream) \in Nat
  BY LenProperties DEF Starts
<1> HIDE DEF S
<1>4. PositionSet(S)
  <2>1. Len(stream) \in Int
    BY <1>3
  <2> QED BY <1>3, <2>1, BoundedPositions
<1>5. Rank(S, q) = Rank(S, p) + 1
  BY <1>1, <1>4, RankOfNext
<1>6. /\ Rank(S, p) + 1 \in 1 .. Cardinality(S) /\ Rank(S, q) + 1 \in 1 .. Cardinality(S)
      /\ Nth(S, Rank(S, p) + 1) = p /\ Nth(S, Rank(S, q) + 1) = q
  BY <1>1, <1>4, RankBound, NthIs
<1>7. Nth(S, j) = p /\ Nth(S, j + 1) = q
  BY <1>5, <1>6
<1>8. Cardinality(S) \in Nat /\ S # {}
  BY <1>1, <1>4, FS_CardinalityType DEF PositionSet
<1>9. j \in 1 .. Cardinality(S) - 1
  BY <1>5, <1>6, <1>8
<1>10. IsCut(Cut(stream, 0, S), stream, 0, S)
  <2>1. 0 \in Nat
    OBVIOUS
  <2> QED BY <1>3, <1>4, <2>1, CutProperties
<1> HIDE DEF j
<1>11. j \in 1 .. Len(Cut(stream, 0, S)) /\ Cut(stream, 0, S)[j] = unit
  BY <1>7, <1>8, <1>9, <1>10 DEF IsCut
<1>12. unit.at = p /\ Behind(unit) = q
  <2>1. /\ p \in Nat \ {0} /\ p <= q /\ 0 \in Nat /\ q <= Len(stream) + 1
        /\ 0 + p = p /\ 0 + q = q
    BY <1>1, <1>2, <1>3
  <2> QED BY <2>1, PieceProperties
<1>13. nal \in {unit, Piece(stream, 0, unit.at + 1, Behind(unit))}
  <2>1. CASE nal.at = p
    <3>1. nal = Piece(stream, 0, p, q)
      BY <1>2, <2>1
    <3> QED BY <3>1
  <2>2. CASE nal.at = p + 1
    <3>1. nal = Piece(stream, 0, p + 1, q)
      BY <1>2, <2>2
    <3> HIDE DEF unit
    <3> QED BY <1>12, <3>1
  <2> QED BY <1>1, <2>1, <2>2
<1> HIDE DEF unit
<1>14. j \in 1 .. Len(Units(stream)) /\ Units(stream)[j] = unit
  BY <1>11 DEF Units, S
<1> QED BY <1>13, <1>14

\* After an overflow (container_bridge.go:472-475) the container bridge finds
\* its way back: whatever it extracts is a whole NAL unit of the stream, with
\* the loss of the leading zero at most.
THEOREM Resynchronises == Spec => []ContainerResynchronises
<1>1. Init => PiecesInv /\ WholeInv
  <2> SUFFICES ASSUME Init
               PROVE  PiecesInv /\ WholeInv
    OBVIOUS
  <2>1. 1 .. Len(nals) = {}
    BY EmptySeq DEF Init
  <2> QED BY <2>1 DEF PiecesInv, WholeInv
<1>2. TypedInv /\ PiecesInv /\ [Next]_vars => PiecesInv'
  BY PiecesNext
<1>3. TypedInv /\ WholeInv /\ [Next]_vars => WholeInv'
  BY WholeNext
<1>4. TypedInv /\ PiecesInv /\ WholeInv => ContainerResynchronises
  <2> SUFFICES ASSUME TypedInv, PiecesInv, WholeInv, NEW k \in 1 .. Len(nals)
               PROVE  \E j \in 1 .. Len(Units(received)) :
                        LET unit == Units(received)[j]
                        IN nals[k] \in {unit, Piece(received, 0, unit.at + 1, Behind(unit))}
    BY DEF ContainerResynchronises
  <2>1. IsPiece(nals[k], received) /\ received \in Seq(Byte)
    BY DEF PiecesInv, TypedInv, TypeOK
  <2>2. PICK p \in Nat, q \in Nat : Whole(nals[k], received, p, q)
    BY DEF WholeInv
  <2> QED BY <2>1, <2>2, WholeIsUnit
<1> QED BY <1>1, <1>2, <1>3, <1>4, TypedInit, TypedNext, PTL DEF Spec

-----------------------------------------------------------------------------
(* The container bridge cuts exactly *)

\* A cut at one position at most is empty.
LEMMA CutOfFew ==
  ASSUME NEW data \in Seq(Byte), NEW m \in 1 .. Len(data), NEW S, S \subseteq {m}
  PROVE  Cut(data, 0, S) = <<>>
<1>1. S \subseteq 1 .. Len(data) /\ Len(data) \in Int /\ 0 \in Nat
  BY LenProperties
<1>2. PositionSet(S)
  BY <1>1, BoundedPositions
<1>3. IsCut(Cut(data, 0, S), data, 0, S)
  BY <1>1, <1>2, CutProperties
<1>4. S = {} \/ Cardinality(S) = 1
  <2>1. S = {} \/ S = {m}
    OBVIOUS
  <2> QED BY <2>1, FS_Singleton
<1>5. Cut(data, 0, S) \in Seq(NALUnit) /\ Len(Cut(data, 0, S)) = 0
  BY <1>3, <1>4 DEF IsCut
<1> QED BY <1>5, EmptySeq

\* A cut at two positions is one piece.
LEMMA CutOfTwo ==
  ASSUME NEW data \in Seq(Byte),
         NEW p \in 1 .. Len(data), NEW q \in 1 .. Len(data), p < q
  PROVE  Cut(data, 0, {p, q}) = <<Piece(data, 0, p, q)>>
<1> DEFINE S == {p, q}
           pieces == Cut(data, 0, S)
           x == Piece(data, 0, p, q)
           f == [k \in 1 .. 2 |-> IF k = 1 THEN p ELSE q]
<1>1. p \in Nat /\ q \in Nat /\ Len(data) \in Nat /\ 0 \in Nat /\ 2 \in Nat
  BY LenProperties
<1>2. S \subseteq 1 .. Len(data) /\ S \subseteq Nat
  BY <1>1
<1>3. f[1] = p /\ f[2] = q
  OBVIOUS
<1>4. Lists(f, 2, S)
  <2>1. f \in [1 .. 2 -> S]
    OBVIOUS
  <2>2. \A r \in S : r = p \/ r = q
    OBVIOUS
  <2> HIDE DEF f, S
  <2>3. 1 \in 1 .. 2 /\ 2 \in 1 .. 2 /\ \A j \in 1 .. 2 : j = 1 \/ j = 2
    OBVIOUS
  <2>4. \A r \in S : \E k \in 1 .. 2 : f[k] = r
    BY <1>3, <2>2, <2>3
  <2>5. \A j, k \in 1 .. 2 : j < k => f[j] < f[k]
    BY <1>3, <2>3
  <2> QED BY <2>1, <2>4, <2>5 DEF Lists
<1> HIDE DEF f, S
<1>5. PositionSet(S) /\ Cardinality(S) = 2 /\ \A k \in 1 .. 2 : Nth(S, k) = f[k]
  BY <1>1, <1>2, <1>4, Enumeration
<1>6. Nth(S, 1) = p /\ Nth(S, 2) = q
  BY <1>3, <1>5
<1>7. IsCut(pieces, data, 0, S)
  BY <1>1, <1>2, <1>5, CutProperties
<1>8. S # {}
  BY DEF S
<1> HIDE DEF pieces
<1>9. pieces \in Seq(NALUnit) /\ Len(pieces) = 1 /\ pieces[1] = x
  <2>1. pieces \in Seq(NALUnit) /\ Len(pieces) = 2 - 1
    BY <1>5, <1>7, <1>8 DEF IsCut
  <2>2. 1 \in 1 .. 2 - 1 /\ 2 - 1 = 1 /\ 1 + 1 = 2
    OBVIOUS
  <2>3. pieces[1] = Piece(data, 0, Nth(S, 1), Nth(S, 1 + 1))
    BY <1>5, <1>7, <2>2 DEF IsCut
  <2> QED BY <1>6, <2>1, <2>2, <2>3
<1> HIDE DEF x
<1>10. pieces = <<x>>
  BY <1>9
<1> QED BY <1>10 DEF pieces, S, x

\* One position more is one piece more.
LEMMA CutOneMore ==
  ASSUME NEW data \in Seq(Byte), NEW S, S \subseteq 1 .. Len(data),
         NEW p \in S, NEW q \in 1 .. Len(data), p < q, \A r \in S : r <= p
  PROVE  Cut(data, 0, S \cup {p, q}) = Cut(data, 0, S) \o <<Piece(data, 0, p, q)>>
<1> DEFINE T == {p, q}
<1>1. p \in 1 .. Len(data) /\ 0 \in Nat /\ T \subseteq 1 .. Len(data)
  OBVIOUS
<1>2. MeetAt(S, T, p)
  BY <1>1 DEF MeetAt
<1>3. Cut(data, 0, T) = <<Piece(data, 0, p, q)>>
  BY <1>1, CutOfTwo
<1> HIDE DEF T
<1>4. Continues(data, 0, S, T)
  BY <1>1, <1>2, CutGoesOn
<1>5. Cut(data, 0, S \cup T) = Cut(data, 0, S) \o <<Piece(data, 0, p, q)>>
  BY <1>3, <1>4 DEF Continues
<1> QED BY <1>5 DEF T

\* The first start code is at the beginning.
LEMMA FirstStart ==
  ASSUME TypedInv, Len(received) >= 5
  PROVE  1 \in Seen(received)
<1>1. /\ received \in Seq(Byte) /\ Len(received) \in Nat
      /\ received[1] = 0 /\ received[2] = 0 /\ received[3] = 0 /\ received[4] = 1
  BY LenProperties DEF TypedInv, TypeOK, Begins
<1>2. LongAt(received, 1)
  BY <1>1 DEF LongAt
<1>3. 1 \in 1 .. Len(received) - 3 /\ 1 < Len(received) - 3 /\ Len(received) >= 1
  BY <1>1
<1> QED BY <1>1, <1>2, <1>3, SeenMeaning

\* The start codes that have been seen as far as position m.
Until(stream, m) == {p \in Seen(stream) : p <= m}

\* As long as the buffer has not overflowed, the NAL units are those between
\* the start codes as far as the buffer's beginning, where one is; between two
\* reads there are no others.
CutInv ==
  ~reset =>
    /\ Before = 0 \/ Before + 1 \in Seen(received)
    /\ nals = Cut(received, 0, Until(received, Before + 1))
    /\ extracting \/ \A p \in Seen(received) : p <= Before + 1

\* The start codes that have been seen are positions of the stream.
LEMMA SeenRange ==
  ASSUME TypedInv
  PROVE  /\ received \in Seq(Byte) /\ Len(received) \in Nat /\ Len(received) >= 4
         /\ Seen(received) \subseteq 1 .. Len(received) - 3
         /\ Seen(received) \subseteq 1 .. Len(received) /\ PositionSet(Seen(received))
<1>1. received \in Seq(Byte) /\ Len(received) \in Nat /\ Len(received) >= 4
  BY LenProperties DEF TypedInv, TypeOK, Begins
<1>2. Len(received) >= 1 /\ Len(received) \in Int
  BY <1>1
<1>3. \A p \in Seen(received) : p \in 1 .. Len(received) - 3
  BY <1>1, <1>2, SeenMeaning
<1>4. \A p \in 1 .. Len(received) - 3 : p \in 1 .. Len(received)
  BY <1>1
<1> QED BY <1>1, <1>2, <1>3, <1>4, BoundedPositions

LEMMA CutInit == Init => CutInv
<1> SUFFICES ASSUME Init
             PROVE  CutInv
  OBVIOUS
<1>1. TypedInv
  BY TypedInit
<1>2. received = <<0, 0, 0, 1>> /\ buffer = received /\ nals = <<>>
  BY DEF Init
<1>3. Len(received) = 4 /\ Before = 0
  BY <1>2 DEF Before
<1>4. Seen(received) \subseteq 1 .. 4 - 3 /\ received \in Seq(Byte)
  BY <1>1, <1>3, SeenRange
<1>5. Seen(received) \subseteq {1} /\ 1 \in 1 .. Len(received)
  BY <1>3, <1>4
<1>6. Until(received, Before + 1) \subseteq {1}
  BY <1>5 DEF Until
<1>7. Cut(received, 0, Until(received, Before + 1)) = <<>>
  BY <1>4, <1>5, <1>6, CutOfFew
<1>8. \A p \in Seen(received) : p <= Before + 1
  BY <1>3, <1>5
<1> QED BY <1>2, <1>3, <1>7, <1>8 DEF CutInv

LEMMA CutArrive ==
  ASSUME TypedInv, CutInv, NEW n \in 1 .. MaxRead, NEW chunk \in [1 .. n -> Byte],
         Arrive(chunk)
  PROVE  CutInv'
<1> SUFFICES ASSUME ~reset'
             PROVE  /\ Before' = 0 \/ Before' + 1 \in Seen(received')
                    /\ nals' = Cut(received', 0, Until(received', Before' + 1))
                    /\ extracting'
  BY DEF CutInv
<1>1. /\ chunk \in Seq(Byte) /\ extracting' = TRUE /\ ~extracting
      /\ received' = received \o chunk /\ nals' = nals /\ reset' = reset
      /\ Before' = Before
  BY Arrival
<1>2. /\ Before = 0 \/ Before + 1 \in Seen(received)
      /\ nals = Cut(received, 0, Until(received, Before + 1))
      /\ \A p \in Seen(received) : p <= Before + 1
  BY <1>1 DEF CutInv
<1>3. /\ received \in Seq(Byte) /\ Len(received) \in Nat /\ Len(received) >= 4
      /\ Seen(received) \subseteq 1 .. Len(received) - 3
      /\ Seen(received) \subseteq 1 .. Len(received) /\ PositionSet(Seen(received))
  BY SeenRange
<1> DEFINE all == received \o chunk
           S == Until(received, Before + 1)
           T == Until(all, Before + 1)
<1>4. /\ Seen(received) \subseteq Seen(all)
      /\ \A p \in Seen(all) : p <= Len(received) - 4 => p \in Seen(received)
  <2>1. Len(received) >= 1
    BY <1>3
  <2> QED BY <1>1, <1>3, <2>1, SeenGrow
<1>5. S \subseteq 1 .. Len(received) /\ PositionSet(S)
  <2>1. S \subseteq 1 .. Len(received) /\ Len(received) \in Int
    BY <1>3 DEF Until
  <2> QED BY <2>1, BoundedPositions
<1>6. Cut(all, 0, S) = Cut(received, 0, S)
  <2>1. 0 \in Nat
    OBVIOUS
  <2>2. SameCut(received \o chunk, 0, S, received, 0, S)
    BY <1>1, <1>3, <1>5, <2>1, CutStays
  <2> QED BY <2>2 DEF SameCut
<1>7. all \in Seq(Byte) /\ Len(all) = Len(received) + Len(chunk) /\ Len(chunk) \in Nat
  BY <1>1, <1>3, ConcatProperties, LenProperties
<1>8. Before \in Nat
  <2>1. Len(buffer) \in Nat /\ IsEnd(buffer, received)
    BY LenProperties DEF TypedInv, TypeOK
  <2> QED BY <1>3, <2>1 DEF Before, IsEnd
<1> HIDE DEF all
<1>9. \A p \in Seen(all) : p \in Nat /\ p >= 1
  <2>1. Len(all) >= 1
    BY <1>3, <1>7
  <2> QED BY <1>7, <2>1, SeenMeaning
<1>10. CASE Before + 1 \in Seen(received)
  <2>1. Before + 1 <= Len(received) - 3
    BY <1>3, <1>10
  <2>2. ASSUME NEW p \in T
        PROVE  p \in S
    <3>1. p \in Seen(all) /\ p <= Before + 1 /\ p \in Nat
      BY <1>9 DEF Until
    <3>2. CASE p = Before + 1
      BY <1>10, <3>1, <3>2 DEF Until
    <3>3. CASE p # Before + 1
      <4>1. p <= Len(received) - 4
        BY <1>3, <1>8, <2>1, <3>1, <3>3
      <4> QED BY <1>4, <3>1, <4>1 DEF Until
    <3> QED BY <3>2, <3>3
  <2>3. S = T
    BY <1>4, <2>2 DEF Until
  <2>4. nals = Cut(all, 0, T)
    BY <1>2, <1>6, <2>3
  <2>5. Before + 1 \in Seen(all)
    BY <1>4, <1>10
  <2> QED BY <1>1, <2>4, <2>5 DEF all
<1>11. CASE Before = 0
  <2>1. 0 + 1 = 1 /\ 1 \in 1 .. Len(received) /\ 1 \in 1 .. Len(all)
    BY <1>3, <1>7
  <2>2. \A p \in Seen(all) : p <= Before + 1 => p = 1
    BY <1>9, <1>11
  <2>3. S \subseteq {1} /\ T \subseteq {1}
    BY <1>4, <2>2 DEF Until
  <2>4. Cut(received, 0, S) = <<>> /\ Cut(all, 0, T) = <<>>
    BY <1>3, <1>7, <2>1, <2>3, CutOfFew
  <2>5. nals = Cut(all, 0, T)
    BY <1>2, <2>4
  <2> QED BY <1>1, <1>11, <2>5 DEF all
<1> QED BY <1>2, <1>10, <1>11

\* Where there is a start code, or at the beginning, the NAL unit that is found
\* begins.
LEMMA TookFromStart ==
  ASSUME TypedInv, NEW s \in Nat, NEW e \in Nat, Took(s, e), Before \in Nat,
         Len(buffer) \in Nat, Len(received) = Before + Len(buffer),
         Before = 0 \/ Before + 1 \in Seen(received)
  PROVE  /\ s = 1 /\ Before + 1 \in Seen(received) /\ Before + e \in Seen(received)
         /\ Before + 1 < Before + e
         /\ \A r \in Seen(received) : ~(Before + 1 < r /\ r < Before + e)
<1>1. /\ s \in Nat \ {0} /\ s + 3 <= e /\ e <= Len(buffer) - 3
      /\ Before + e \in Seen(received)
      /\ \A r \in Seen(received) : ~(Before + s < r /\ r < Before + e)
      /\ Before + 1 \in Seen(received) => s = 1
  BY DEF Took, FirstUnit
<1>2. Before + 1 \in Seen(received)
  <2>1. CASE Before = 0
    <3>1. Len(received) >= 5
      BY <1>1, <2>1
    <3> QED BY <2>1, <3>1, FirstStart
  <2> QED BY <2>1
<1>3. s = 1 /\ Before + 1 < Before + e
  BY <1>1, <1>2
<1> QED BY <1>1, <1>2, <1>3

LEMMA CutExtract ==
  ASSUME TypedInv, CutInv, ExtractNext
  PROVE  CutInv'
<1> SUFFICES ASSUME ~reset'
             PROVE  /\ Before' = 0 \/ Before' + 1 \in Seen(received')
                    /\ nals' = Cut(received', 0, Until(received', Before' + 1))
                    /\ extracting'
  BY DEF CutInv
<1>1. extracting' /\ reset' = reset /\ received' = received
  BY DEF ExtractNext
<1>2. /\ Before = 0 \/ Before + 1 \in Seen(received)
      /\ nals = Cut(received, 0, Until(received, Before + 1))
  BY <1>1 DEF CutInv
<1>3. PICK s \in Nat, e \in Nat : Took(s, e)
  BY ExtractTakes
<1>4. /\ Before \in Nat /\ Len(buffer) \in Nat /\ Len(received) \in Nat
      /\ Len(received) = Before + Len(buffer)
  BY ExtractTakes
<1> DEFINE b == Before + 1
           c == Before + e
           x == Piece(received, 0, b, c)
           S == Until(received, b)
<1>5. /\ s = 1 /\ b \in Seen(received) /\ c \in Seen(received) /\ b < c
      /\ \A r \in Seen(received) : ~(b < r /\ r < c)
  BY <1>2, <1>3, <1>4, TookFromStart
<1>6. nals' = Append(nals, x) /\ x \in NALUnit
  BY <1>3, <1>5 DEF Took
<1>7. Before' + 1 = c
  <2>1. Before' = Before + e - 1
    BY <1>3, TookProperties
  <2> QED BY <1>3, <1>4, <2>1
<1>8. /\ received \in Seq(Byte)
      /\ Seen(received) \subseteq 1 .. Len(received)
  BY SeenRange
<1> HIDE DEF b, c, x
<1>9. MeetAt(S, {b, c}, b)
  BY <1>4, <1>5, <1>8 DEF MeetAt, Until
<1>10. Cut(received, 0, S \cup {b, c}) = Cut(received, 0, S) \o <<x>>
  <2>1. S \subseteq 1 .. Len(received) /\ \A p \in S : p <= b
    BY <1>8 DEF Until
  <2>2. b \in S
    BY <1>9 DEF MeetAt
  <2> HIDE DEF S
  <2> QED BY <1>5, <1>8, <2>1, <2>2, CutOneMore DEF x
<1>12. S \cup {b, c} = Until(received, c)
  <2>1. \A r \in Seen(received) : r <= c <=> r <= b \/ r = c
    BY <1>4, <1>5, <1>8
  <2>2. b <= b /\ b <= c
    BY <1>4, <1>5, <1>8
  <2> QED BY <1>5, <2>1, <2>2 DEF Until
<1>13. nals' = Cut(received, 0, S) \o <<x>>
  <2>1. nals \in Seq(NALUnit)
    BY DEF TypedInv, TypeOK
  <2>2. nals' = nals \o <<x>>
    BY <1>6, <2>1, AppendIsConcat
  <2> QED BY <1>2, <2>2 DEF b
<1>14. nals' = Cut(received, 0, Until(received, c))
  BY <1>10, <1>12, <1>13
<1> QED BY <1>1, <1>5, <1>7, <1>14

LEMMA CutEndRound ==
  ASSUME TypedInv, CutInv, EndRound
  PROVE  CutInv'
<1> SUFFICES ASSUME ~reset'
             PROVE  /\ Before' = 0 \/ Before' + 1 \in Seen(received')
                    /\ nals' = Cut(received', 0, Until(received', Before' + 1))
                    /\ \A p \in Seen(received') : p <= Before' + 1
  BY DEF CutInv
<1>1. Ends(buffer) = {} /\ UNCHANGED <<received, nals, buffer, reset>>
  BY RoundEnds
<1>2. Before' = Before
  BY <1>1 DEF Before
<1>3. /\ Before = 0 \/ Before + 1 \in Seen(received)
      /\ nals = Cut(received, 0, Until(received, Before + 1))
  BY <1>1 DEF CutInv
<1>4. /\ received \in Seq(Byte) /\ Len(received) \in Nat /\ Len(received) >= 4
      /\ Seen(received) \subseteq 1 .. Len(received) - 3
  BY SeenRange
<1>5. CASE Before + 1 \in Seen(received)
  <2>1. buffer \in Seq(Byte) /\ IsEnd(buffer, received)
    BY DEF TypedInv, TypeOK
  <2>2. Len(received) >= 1
    BY <1>4
  <2>3. \A p \in Seen(received) : p <= Before + 1
    <3> DEFINE b == Before
    <3>1. b = Len(received) - Len(buffer) /\ b + 1 \in Seen(received)
      BY <1>5 DEF Before
    <3> HIDE DEF b
    <3>2. \A p \in Seen(received) : p <= b + 1
      BY <1>1, <1>4, <2>1, <2>2, <3>1, NothingMore
    <3> QED BY <3>2 DEF b
  <2> QED BY <1>1, <1>2, <1>3, <2>3
<1>6. CASE Before = 0 /\ Before + 1 \notin Seen(received)
  <2>1. 1 \notin Seen(received)
    BY <1>6
  <2>2. Len(received) = 4
    <3>1. ~(Len(received) >= 5)
      BY <2>1, FirstStart
    <3> DEFINE n == Len(received)
    <3>2. n \in Nat /\ n >= 4 /\ ~(n >= 5)
      BY <1>4, <3>1
    <3> HIDE DEF n
    <3>3. n = 4
      BY <3>2
    <3> QED BY <3>3 DEF n
  <2>3. \A p \in Seen(received) : p <= Before + 1
    BY <1>4, <1>6, <2>2
  <2> QED BY <1>1, <1>2, <1>3, <2>3
<1> QED BY <1>3, <1>5, <1>6

LEMMA CutStutters ==
  ASSUME CutInv, UNCHANGED vars
  PROVE  CutInv'
<1>1. UNCHANGED <<received, buffer, extracting, nals, reset>>
  BY DEF vars, container
<1>2. Before' = Before
  BY <1>1 DEF Before
<1> QED BY <1>1, <1>2 DEF CutInv

LEMMA CutNext ==
  ASSUME TypedInv, CutInv, [Next]_vars
  PROVE  CutInv'
<1>1. CASE \E n \in 1 .. MaxRead : \E chunk \in [1 .. n -> Byte] : Arrive(chunk)
  BY <1>1, CutArrive
<1>2. CASE ExtractNext
  BY <1>2, CutExtract
<1>3. CASE EndRound
  BY <1>3, CutEndRound
<1>4. CASE UNCHANGED vars
  BY <1>4, CutStutters
<1> QED BY <1>1, <1>2, <1>3, <1>4 DEF Next

\* The reference cut of all but the last byte, in terms of the whole stream.
LEMMA CutOfSeen ==
  ASSUME NEW stream \in Seq(Byte), Len(stream) >= 1
  PROVE  Units(Without(stream, 1)) = Cut(stream, 0, Seen(stream))
<1> DEFINE all == Without(stream, 1)
           S == Seen(stream)
<1>1. Len(stream) \in Nat /\ 1 \in 0 .. Len(stream) /\ 0 \in Nat
  BY LenProperties
<1>2. /\ all \in Seq(Byte) /\ Len(all) = Len(stream) - 1
      /\ \E rest \in Seq(Byte) : stream = all \o rest
  BY <1>1, WithoutProperties
<1>3. PICK rest \in Seq(Byte) : stream = all \o rest
  BY <1>2
<1>4. \A p \in S : p \in 1 .. Len(stream) - 3
  BY SeenMeaning
<1>5. S \subseteq 1 .. Len(all) /\ Len(all) \in Int
  BY <1>1, <1>2, <1>4
<1>6. PositionSet(S)
  BY <1>5, BoundedPositions
<1>7. Cut(all \o rest, 0, S) = Cut(all, 0, S)
  BY <1>1, <1>2, <1>5, <1>6, CutStays DEF SameCut
<1>8. S = Starts(all)
  BY DEF Seen
<1> QED BY <1>3, <1>7, <1>8 DEF Units

\* processH264Stream (container_bridge.go:426-477) cuts as Annex B says, however
\* the stream is split into reads, and a start code takes effect as soon as one
\* byte follows it.
THEOREM ContainerExact == Spec => []ContainerCutsExactly
<1>1. TypedInv /\ CutInv /\ [Next]_vars => CutInv'
  BY CutNext
<1>2. TypedInv /\ CutInv => ContainerCutsExactly
  <2> SUFFICES ASSUME TypedInv, CutInv, ~extracting, ~reset
               PROVE  nals = Units(Without(received, 1))
    BY DEF ContainerCutsExactly
  <2>1. /\ nals = Cut(received, 0, Until(received, Before + 1))
        /\ \A p \in Seen(received) : p <= Before + 1
    BY DEF CutInv
  <2>2. Until(received, Before + 1) = Seen(received)
    BY <2>1 DEF Until
  <2>3. received \in Seq(Byte) /\ Len(received) >= 1
    BY SeenRange
  <2> QED BY <2>1, <2>2, <2>3, CutOfSeen
<1> QED BY <1>1, <1>2, CutInit, TypedInit, TypedNext, PTL DEF Spec

-----------------------------------------------------------------------------
(* The local bridge cuts exactly *)

\* The start codes that two bytes follow.
Ready(stream) == {p \in Seen(stream) : p + 4 <= Len(stream)}

\* The scan of parseNALUnits, in terms of the stream.
LEMMA ReadyMeaning ==
  ASSUME NEW stream \in Seq(Byte), Len(stream) >= 1, NEW p
  PROVE  p \in Ready(stream) <=>
           /\ p \in 1 .. Len(stream) - 4
           /\ \/ LongAt(stream, p)
              \/ ShortAt(stream, p) /\ ~(p > 1 /\ stream[p - 1] = 0)
<1>1. p \in Seen(stream) <=>
        /\ p \in 1 .. Len(stream) - 3
        /\ \/ p < Len(stream) - 3 /\ LongAt(stream, p)
           \/ ShortAt(stream, p) /\ ~(p > 1 /\ stream[p - 1] = 0)
  BY SeenMeaning
<1>2. Len(stream) \in Nat
  BY LenProperties
<1>3. p \in 1 .. Len(stream) - 3 =>
        /\ p + 4 <= Len(stream) <=> p \in 1 .. Len(stream) - 4
        /\ p + 4 <= Len(stream) <=> p < Len(stream) - 3
  BY <1>2
<1>4. p \in 1 .. Len(stream) - 4 => p \in 1 .. Len(stream) - 3
  BY <1>2
<1> QED BY <1>1, <1>3, <1>4 DEF Ready

\* What is ready stays so, and new ones come near the end only.
LEMMA ReadyGrow ==
  ASSUME NEW stream \in Seq(Byte), NEW chunk \in Seq(Byte), Len(stream) >= 1
  PROVE  /\ Ready(stream) \subseteq Ready(stream \o chunk)
         /\ \A p \in Ready(stream \o chunk) :
              p <= Len(stream) - 4 => p \in Ready(stream)
         /\ \A p \in Ready(stream) : p \in 1 .. Len(stream) - 4
<1>1. /\ Seen(stream) \subseteq Seen(stream \o chunk)
      /\ \A p \in Seen(stream \o chunk) : p <= Len(stream) - 4 => p \in Seen(stream)
  BY SeenGrow
<1>2. /\ Len(stream \o chunk) = Len(stream) + Len(chunk)
      /\ Len(stream) \in Nat /\ Len(chunk) \in Nat
      /\ stream \o chunk \in Seq(Byte)
  BY ConcatProperties, LenProperties
<1>3. \A p \in Ready(stream) : p \in 1 .. Len(stream) - 4
  BY ReadyMeaning
<1>4. ASSUME NEW p \in Ready(stream)
      PROVE  p \in Ready(stream \o chunk)
  <2>1. p + 4 <= Len(stream \o chunk)
    BY <1>2, <1>3
  <2>2. p \in Seen(stream \o chunk)
    BY <1>1 DEF Ready
  <2> QED BY <2>1, <2>2 DEF Ready
<1>5. ASSUME NEW p \in Ready(stream \o chunk), p <= Len(stream) - 4
      PROVE  p \in Ready(stream)
  <2>1. p \in Seen(stream)
    BY <1>1, <1>5 DEF Ready
  <2>2. p \in Nat
    BY <2>1, SeenMeaning
  <2>3. p + 4 <= Len(stream)
    BY <1>2, <1>5, <2>2
  <2> QED BY <2>1, <2>3 DEF Ready
<1> QED BY <1>3, <1>4, <1>5

\* The positions found in the end of a stream are the stream's, if it is all of
\* the stream or begins at one of them.
LEMMA PositionsOfEnd ==
  ASSUME NEW data \in Seq(Byte), NEW stream \in Seq(Byte), IsEnd(data, stream),
         NEW b, b = Len(stream) - Len(data), b = 0 \/ b + 1 \in Ready(stream),
         Len(stream) >= 1, NEW i \in Nat \ {0}
  PROVE  i \in Positions(data) <=> b + i \in Ready(stream)
<1>1. /\ Len(data) \in Nat /\ Len(stream) \in Nat /\ b \in Nat
      /\ Len(stream) = b + Len(data)
  BY LenProperties DEF IsEnd
<1>2. b + i \in Ready(stream) <=>
        /\ b + i \in 1 .. Len(stream) - 4
        /\ \/ LongAt(stream, b + i)
           \/ ShortAt(stream, b + i) /\ ~(b + i > 1 /\ stream[(b + i) - 1] = 0)
  BY ReadyMeaning
<1>3. b + i \in 1 .. Len(stream) - 4 <=> i \in 1 .. Len(data) - 4
  BY <1>1
<1>4. i \in Positions(data) <=>
        /\ i \in 1 .. Len(data) - 4
        /\ \/ LongAt(data, i)
           \/ ShortAt(data, i) /\ ~(i > 1 /\ LongAt(data, i - 1))
  BY DEF Positions
<1>5. SUFFICES ASSUME i \in 1 .. Len(data) - 4
               PROVE  \/ LongAt(data, i)
                      \/ ShortAt(data, i) /\ ~(i > 1 /\ LongAt(data, i - 1))
                      <=>
                      \/ LongAt(stream, b + i)
                      \/ ShortAt(stream, b + i) /\ ~(b + i > 1 /\ stream[(b + i) - 1] = 0)
  BY <1>2, <1>3, <1>4
<1>6. /\ ShortAt(data, i) <=> ShortAt(stream, b + i)
      /\ LongAt(data, i) <=> LongAt(stream, b + i)
  <2>1. i \in 1 .. Len(data) - 3
    BY <1>1, <1>5
  <2> QED BY <2>1, CodesOfEnd
<1>7. CASE i > 1
  <2>1. b + i > 1 /\ i - 1 \in 1 .. Len(data) /\ b + (i - 1) = (b + i) - 1
    BY <1>1, <1>5, <1>7
  <2>2. data[i - 1] = stream[b + (i - 1)]
    BY <2>1 DEF IsEnd
  <2>3. data[i - 1] = stream[(b + i) - 1]
    BY <2>1, <2>2
  <2>4. ShortAt(data, i) => (LongAt(data, i - 1) <=> data[i - 1] = 0)
    <3>1. (i - 1) + 1 = i /\ (i - 1) + 2 = i + 1 /\ (i - 1) + 3 = i + 2
      OBVIOUS
    <3> QED BY <3>1 DEF ShortAt, LongAt
  <2> QED BY <1>6, <1>7, <2>1, <2>3, <2>4
<1>8. CASE i = 1
  <2>1. ~(i > 1)
    BY <1>8
  <2>2. CASE b = 0
    <3>1. ~(b + i > 1)
      BY <1>8, <2>2
    <3> QED BY <1>6, <2>1, <3>1
  <2>3. CASE b + 1 \in Ready(stream)
    <3>1. \/ LongAt(stream, b + i)
          \/ ShortAt(stream, b + i) /\ ~(b + i > 1 /\ stream[(b + i) - 1] = 0)
      BY <1>2, <1>8, <2>3
    <3> QED BY <1>6, <2>1, <3>1
  <2> QED BY <2>2, <2>3
<1>9. i > 1 \/ i = 1
  OBVIOUS
<1> QED BY <1>7, <1>8, <1>9

\* What the local bridge has made of the stream, its buffer not reset so far:
\* the buffer begins with the last start code that is ready.
LocalState(units, data, stream) ==
  /\ units = Cut(stream, 0, Ready(stream))
  /\ IsEnd(data, stream)
  /\ \/ Ready(stream) = {} /\ Len(stream) = Len(data)
     \/ /\ Len(stream) - Len(data) + 1 \in Ready(stream)
        /\ \A p \in Ready(stream) : p <= Len(stream) - Len(data) + 1

From(S, m) == {p \in S : p >= m}

\* The positions of the buffer and a new chunk, as positions of the stream.
LEMMA ReadyOfEnd ==
  ASSUME NEW data \in Seq(Byte), NEW stream \in Seq(Byte), IsEnd(data, stream),
         NEW b, b = Len(stream) - Len(data), b = 0 \/ b + 1 \in Ready(stream),
         Len(stream) >= 1
  PROVE  Shifted(b, Positions(data)) = From(Ready(stream), b + 1)
<1>1. /\ Len(data) \in Nat /\ Len(stream) \in Nat /\ b \in Nat
  BY LenProperties DEF IsEnd
<1>2. ASSUME NEW i \in Positions(data)
      PROVE  b + i \in Ready(stream) /\ b + i >= b + 1
  <2>1. i \in Nat \ {0}
    BY <1>1 DEF Positions
  <2>2. b + i >= b + 1
    BY <1>1, <2>1
  <2> QED BY <2>1, <2>2, PositionsOfEnd
<1>3. ASSUME NEW p \in Ready(stream), p >= b + 1
      PROVE  \E i \in Positions(data) : p = b + i
  <2>1. p \in Nat
    BY ReadyMeaning
  <2>2. p - b \in Nat \ {0} /\ b + (p - b) = p
    BY <1>1, <1>3, <2>1
  <2>3. p - b \in Positions(data)
    BY <2>2, PositionsOfEnd
  <2> QED BY <2>2, <2>3
<1> QED BY <1>2, <1>3 DEF Shifted, From

\* One read: what is cut from the buffer and the chunk continues the cut.
LEMMA LocalCutGoesOn ==
  ASSUME NEW data \in Seq(Byte), NEW stream \in Seq(Byte), NEW chunk \in Seq(Byte),
         NEW units, LocalState(units, data, stream), Len(stream) >= 1
  PROVE  LET b == Len(stream) - Len(data)
         IN  /\ b = 0 \/ b + 1 \in Ready(stream \o chunk)
             /\ units \o Cut(data \o chunk, b, Positions(data \o chunk))
                  = Cut(stream \o chunk, 0, Ready(stream \o chunk))
<1> DEFINE b == Len(stream) - Len(data)
           all == stream \o chunk
           d == data \o chunk
           P == Positions(d)
           S == Ready(stream)
           T == Ready(all)
           R == From(T, b + 1)
           rest == Cut(d, b, P)
<1>1. /\ units = Cut(stream, 0, S) /\ IsEnd(data, stream)
      /\ \/ S = {} /\ Len(stream) = Len(data)
         \/ b + 1 \in S /\ \A p \in S : p <= b + 1
  BY DEF LocalState
<1>2. /\ Len(stream) \in Nat /\ Len(data) \in Nat /\ Len(chunk) \in Nat /\ b \in Nat
      /\ 0 \in Nat /\ 1 \in 1 .. Len(stream)
  <2>1. Len(stream) \in Nat /\ Len(data) \in Nat /\ Len(chunk) \in Nat
    BY LenProperties
  <2> QED BY <1>1, <2>1 DEF IsEnd
<1>3. /\ IsEnd(d, all) /\ d \in Seq(Byte) /\ all \in Seq(Byte)
      /\ Len(d) = Len(data) + Len(chunk)
      /\ Len(all) = Len(stream) + Len(chunk)
  BY <1>1, EndGrows
<1>4. S \subseteq T /\ \A p \in T : p <= Len(stream) - 4 => p \in S
  BY ReadyGrow
<1>5. S \subseteq 1 .. Len(stream) - 4 /\ S \subseteq 1 .. Len(stream)
  <2>1. \A p \in S : p \in 1 .. Len(stream) - 4
    BY ReadyMeaning
  <2> HIDE DEF S
  <2> QED BY <1>2, <2>1
<1>6. b = Len(all) - Len(d) /\ Len(all) >= 1
  BY <1>2, <1>3
<1> HIDE DEF all, d, b
<1>7. b = 0 \/ b + 1 \in T
  <2>1. Len(stream) = Len(data) => b = 0
    BY <1>2 DEF b
  <2> QED BY <1>1, <1>4, <2>1
<1>8. Shifted(b, P) = R
  BY <1>3, <1>6, <1>7, ReadyOfEnd
<1>9. P \subseteq 1 .. Len(d)
  BY <1>3, RestProperties
<1> HIDE DEF P, S, T, R
<1>10. R \subseteq 1 .. Len(all) /\ rest = Cut(all, 0, R)
  <2>1. /\ Shifted(b, P) \subseteq 1 .. Len(all)
        /\ SameCut(d, b, P, all, 0, Shifted(b, P))
    BY <1>3, <1>6, <1>9, CutOfEnd
  <2> QED BY <1>8, <2>1 DEF SameCut
<1>11. Cut(all, 0, S) = Cut(stream, 0, S)
  <2>1. PositionSet(S)
    <3>1. Len(stream) \in Int
      BY <1>2
    <3> QED BY <1>5, <3>1, BoundedPositions
  <2>2. SameCut(stream \o chunk, 0, S, stream, 0, S)
    BY <1>2, <1>5, <2>1, CutStays
  <2> QED BY <2>2 DEF all, SameCut
<1>12. \A p \in T : p \in Nat /\ p >= 1
  <2>1. \A p \in T : p \in 1 .. Len(all) - 4
    BY <1>3, <1>6, ReadyMeaning DEF T
  <2> QED BY <1>2, <1>3, <2>1
<1>13. units \o rest = Cut(all, 0, T)
  <2>1. CASE S = {} /\ Len(stream) = Len(data)
    <3>1. b = 0
      BY <1>2, <2>1 DEF b
    <3>2. R = T
      BY <1>12, <3>1 DEF R, From
    <3>3. units = <<>>
      <4>1. S \subseteq {1}
        BY <2>1
      <4> QED BY <1>1, <1>2, <4>1, CutOfFew
    <3>4. rest \in Seq(NALUnit)
      <4>1. PositionSet(P)
        <5>1. Len(d) \in Int
          BY <1>2, <1>3
        <5> QED BY <1>9, <5>1, BoundedPositions
      <4>2. IsCut(rest, d, b, P)
        BY <1>2, <1>3, <1>9, <4>1, CutProperties
      <4> QED BY <4>2 DEF IsCut
    <3> HIDE DEF rest
    <3>5. <<>> \o rest = rest
      BY <3>4, ConcatEmptySeq
    <3> QED BY <1>10, <3>2, <3>3, <3>5
  <2>2. CASE b + 1 \in S /\ \A p \in S : p <= b + 1
    <3>1. b + 1 \in R /\ b + 1 \in T
      <4>1. b + 1 \in T /\ b + 1 >= b + 1
        BY <1>2, <1>4, <2>2
      <4> QED BY <4>1 DEF R, From
    <3>2. \A p \in R : b + 1 <= p
      BY <1>2, <1>12 DEF R, From
    <3>3. S \cup R = T
      <4>1. ASSUME NEW p \in T, p \notin R
            PROVE  p \in S
        <5>1. p \in Nat /\ p < b + 1
          BY <1>2, <1>12, <4>1 DEF R, From
        <5>2. b + 1 <= Len(stream) - 4
          BY <1>2, <1>5, <2>2
        <5>3. p <= Len(stream) - 4
          BY <1>2, <5>1, <5>2
        <5> QED BY <1>4, <5>3
      <4> QED BY <1>4, <4>1 DEF R, From
    <3>4. MeetAt(S, R, b + 1)
      BY <2>2, <3>1, <3>2 DEF MeetAt
    <3>5. S \subseteq 1 .. Len(all)
      BY <1>2, <1>3, <1>5
    <3>6. Continues(all, 0, S, R)
      BY <1>2, <1>3, <1>10, <3>4, <3>5, CutGoesOn
    <3>7. Cut(all, 0, S \cup R) = Cut(all, 0, S) \o Cut(all, 0, R)
      BY <3>6 DEF Continues
    <3> QED BY <1>1, <1>10, <1>11, <3>3, <3>7
  <2>3. \/ S = {} /\ Len(stream) = Len(data)
        \/ b + 1 \in S /\ \A p \in S : p <= b + 1
    BY <1>1
  <2> QED BY <2>1, <2>2, <2>3
<1> QED BY <1>7, <1>13 DEF all, d, b, P, T

\* What is left in the buffer begins with the last position.
LEMMA RestFromLast ==
  ASSUME NEW d \in Seq(Byte), NEW all \in Seq(Byte), IsEnd(d, all),
         Len(all) >= 4, LongAt(all, 1),
         NEW b, b = Len(all) - Len(d), b = 0 \/ b + 1 \in Ready(all)
  PROVE  /\ IsEnd(Rest(d), all)
         /\ \/ Ready(all) = {} /\ Len(all) = Len(Rest(d))
            \/ /\ Len(all) - Len(Rest(d)) + 1 \in Ready(all)
               /\ \A p \in Ready(all) : p <= Len(all) - Len(Rest(d)) + 1
<1> DEFINE P == Positions(d)
           T == Ready(all)
           r == Len(Rest(d))
           n == Len(all)
<1>1. /\ n \in Nat /\ Len(d) \in Nat /\ b \in Nat /\ n >= 1 /\ n = b + Len(d)
  <2>1. Len(all) \in Nat /\ Len(d) \in Nat
    BY LenProperties
  <2> QED BY <2>1 DEF IsEnd
<1>2. /\ SentBytes(d) \in 0 .. Len(d) /\ r = Len(d) - SentBytes(d)
      /\ IsEnd(Rest(d), all)
  BY RestProperties
<1>3. \A i \in Nat \ {0} : i \in P <=> b + i \in T
  BY <1>1, PositionsOfEnd
<1>4. \A p \in T : p \in 1 .. n - 4
  BY <1>1, ReadyMeaning
<1>5. P = {} => SentBytes(d) = 0
  BY DEF SentBytes
<1>6. P # {} =>
        /\ P \subseteq 1 .. Len(d) - 4
        /\ Max(P) \in P /\ \A p \in P : p <= Max(P)
        /\ Min(P) \in P /\ \A p \in P : Min(P) <= p
        /\ SentBytes(d) = Max(P) - Min(P)
  BY PositionsRange DEF SentBytes
<1>7. n >= 5 => 1 \in T
  <2>1. n >= 5 => 1 \in 1 .. n - 4
    BY <1>1
  <2> QED BY <1>1, <2>1, ReadyMeaning
<1>8. b = 0 \/ b + 1 \in T
  OBVIOUS
<1> HIDE DEF P, T, r, n
<1>9. CASE P = {}
  <2>1. b + 1 \notin T
    <3>1. 1 \in Nat \ {0} /\ 1 \notin P
      BY <1>9
    <3> QED BY <1>3, <3>1
  <2>2. b = 0 /\ n = r
    BY <1>1, <1>2, <1>5, <1>8, <1>9, <2>1
  <2>3. T = {}
    <3> SUFFICES ASSUME NEW p \in T
                 PROVE  FALSE
      OBVIOUS
    <3>1. p \in Nat \ {0} /\ b + p = p
      BY <1>1, <1>4, <2>2
    <3> QED BY <1>3, <1>9, <3>1
  <2> QED BY <1>2, <2>2, <2>3 DEF T, r, n
<1>10. CASE P # {}
  <2> DEFINE last == Max(P)
             first == Min(P)
  <2>1. /\ P \subseteq 1 .. Len(d) - 4 /\ last \in P /\ first \in P
        /\ \A p \in P : p <= last
        /\ \A p \in P : first <= p
        /\ SentBytes(d) = last - first
    BY <1>6, <1>10
  <2> HIDE DEF last, first
  <2>2. last \in Nat \ {0} /\ first \in Nat \ {0} /\ Len(d) >= 5
    BY <1>1, <2>1
  <2>3. 1 \in P
    <3>1. b + 1 \in T
      <4>1. n >= 5
        BY <1>1, <2>2
      <4> QED BY <1>1, <1>7, <1>8, <4>1
    <3>2. 1 \in Nat \ {0}
      OBVIOUS
    <3> QED BY <1>3, <3>1, <3>2
  <2>4. first = 1
    BY <2>1, <2>2, <2>3
  <2>5. n - r + 1 = b + last
    BY <1>1, <1>2, <2>1, <2>2, <2>4
  <2>6. b + last \in T
    BY <1>3, <2>1, <2>2
  <2>7. ASSUME NEW p \in T
        PROVE  p <= b + last
    <3>1. p \in Nat /\ p >= 1
      BY <1>1, <1>4
    <3>2. CASE p >= b + 1
      <4>1. p - b \in Nat \ {0} /\ b + (p - b) = p
        BY <1>1, <3>1, <3>2
      <4>2. p - b <= last
        BY <1>3, <2>1, <4>1
      <4> QED BY <1>1, <2>2, <3>1, <4>2
    <3>3. CASE ~(p >= b + 1)
      BY <1>1, <2>2, <3>1, <3>3
    <3> QED BY <3>2, <3>3
  <2>8. n - r + 1 \in T /\ \A p \in T : p <= n - r + 1
    BY <2>5, <2>6, <2>7
  <2> QED BY <1>2, <2>8 DEF T, r, n
<1> QED BY <1>9, <1>10

\* As long as its buffer has not overflowed, the local bridge is as told.
LocalInv == ~localReset => LocalState(localNals, localBuffer, received)

LEMMA LocalInit == Init => LocalInv
<1> SUFFICES ASSUME Init
             PROVE  LocalState(localNals, localBuffer, received)
  BY DEF LocalInv
<1>1. received = <<0, 0, 0, 1>> /\ localBuffer = received /\ localNals = <<>>
  BY DEF Init
<1>2. received \in Seq(Byte) /\ Len(received) = 4
  <2>1. 0 \in Byte /\ 1 \in Byte
    BY StreamAssumption
  <2> QED BY <1>1, <2>1
<1>3. Ready(received) = {}
  <2>1. Len(received) >= 1
    BY <1>2
  <2>2. \A p \in Ready(received) : p \in 1 .. Len(received) - 4
    BY <1>2, <2>1, ReadyMeaning
  <2> QED BY <1>2, <2>2
<1>4. 1 \in 1 .. Len(received) /\ Ready(received) \subseteq {1}
  BY <1>2, <1>3
<1>5. Cut(received, 0, Ready(received)) = <<>>
  BY <1>2, <1>4, CutOfFew
<1>6. IsEnd(localBuffer, received)
  <2>1. \A i \in 1 .. 4 : 4 - 4 + i = i
    OBVIOUS
  <2>2. Len(localBuffer) = 4 /\ 4 <= 4
    BY <1>1, <1>2
  <2> QED BY <1>1, <1>2, <2>1, <2>2 DEF IsEnd
<1> QED BY <1>1, <1>3, <1>5, <1>6 DEF LocalState

LEMMA LocalArrive ==
  ASSUME TypedInv, LocalInv, NEW n \in 1 .. MaxRead, NEW chunk \in [1 .. n -> Byte],
         Arrive(chunk)
  PROVE  LocalInv'
<1> SUFFICES ASSUME ~localReset'
             PROVE  LocalState(localNals', localBuffer', received')
  BY DEF LocalInv
<1> DEFINE d == localBuffer \o chunk
           all == received \o chunk
<1>1. chunk \in Seq(Byte) /\ received' = all /\ ReadLocal(chunk)
  BY Arrival
<1>2. /\ localNals' = localNals \o Cut(d, Len(received) - Len(localBuffer), Positions(d))
      /\ localBuffer' = IF Len(Rest(d)) > LocalLimit THEN <<>> ELSE Rest(d)
      /\ localReset' = (localReset \/ Len(Rest(d)) > LocalLimit)
  BY <1>1 DEF ReadLocal, Rest, SentBytes
<1>3. localBuffer' = Rest(d) /\ LocalState(localNals, localBuffer, received)
  BY <1>2 DEF LocalInv
<1>4. /\ received \in Seq(Byte) /\ localBuffer \in Seq(Byte) /\ Len(received) >= 4
      /\ received[1] = 0 /\ received[2] = 0 /\ received[3] = 0 /\ received[4] = 1
      /\ Len(received) \in Nat /\ Len(received) >= 1
  <2>1. /\ received \in Seq(Byte) /\ localBuffer \in Seq(Byte) /\ Len(received) >= 4
        /\ received[1] = 0 /\ received[2] = 0 /\ received[3] = 0 /\ received[4] = 1
    BY DEF TypedInv, TypeOK, Begins
  <2>2. Len(received) \in Nat
    BY <2>1, LenProperties
  <2> QED BY <2>1, <2>2
<1>5. IsEnd(localBuffer, received)
  BY <1>3 DEF LocalState
<1>6. /\ IsEnd(d, all) /\ d \in Seq(Byte) /\ all \in Seq(Byte)
      /\ Len(d) = Len(localBuffer) + Len(chunk)
      /\ Len(all) = Len(received) + Len(chunk)
  BY <1>1, <1>4, <1>5, EndGrows
<1>7. Len(localBuffer) \in Nat /\ Len(chunk) \in Nat
  BY <1>1, <1>4, LenProperties
<1>8. LongAt(all, 1) /\ Len(all) >= 4
  <2>1. \A i \in 1 .. Len(received) + Len(chunk) :
          all[i] = IF i <= Len(received) THEN received[i] ELSE chunk[i - Len(received)]
    BY <1>1, <1>4, ConcatProperties
  <2> HIDE DEF all
  <2>2. \A i \in 1 .. 4 : all[i] = received[i]
    BY <1>4, <1>7, <2>1
  <2>3. all[1] = 0 /\ all[1 + 1] = 0 /\ all[1 + 2] = 0 /\ all[1 + 3] = 1
    BY <1>4, <2>2
  <2> QED BY <1>4, <1>6, <1>7, <2>3 DEF LongAt
<1> DEFINE b == Len(received) - Len(localBuffer)
<1>9. /\ b = 0 \/ b + 1 \in Ready(all)
      /\ localNals \o Cut(d, b, Positions(d)) = Cut(all, 0, Ready(all))
  BY <1>1, <1>3, <1>4, LocalCutGoesOn
<1>10. b = Len(all) - Len(d)
  BY <1>4, <1>6, <1>7
<1> HIDE DEF b, d, all
<1>11. /\ IsEnd(Rest(d), all)
       /\ \/ Ready(all) = {} /\ Len(all) = Len(Rest(d))
          \/ /\ Len(all) - Len(Rest(d)) + 1 \in Ready(all)
             /\ \A p \in Ready(all) : p <= Len(all) - Len(Rest(d)) + 1
  BY <1>6, <1>8, <1>9, <1>10, RestFromLast
<1>12. localNals' = Cut(all, 0, Ready(all))
  BY <1>2, <1>9 DEF b
<1>13. LocalState(localNals', Rest(d), all)
  BY <1>11, <1>12 DEF LocalState
<1> QED BY <1>1, <1>3, <1>13

LEMMA LocalNext ==
  ASSUME TypedInv, LocalInv, [Next]_vars
  PROVE  LocalInv'
<1>1. CASE \E n \in 1 .. MaxRead : \E chunk \in [1 .. n -> Byte] : Arrive(chunk)
  BY <1>1, LocalArrive
<1>2. CASE ExtractNext \/ EndRound \/ UNCHANGED vars
  <2>1. UNCHANGED <<received, localBuffer, localNals, localReset>>
    BY <1>2 DEF ExtractNext, EndRound, vars, local
  <2> QED BY <2>1 DEF LocalInv
<1> QED BY <1>1, <1>2 DEF Next

\* readAndSendNALs (bridge.go:247-298) cuts at the same places, but a start code
\* of three bytes takes effect when two bytes follow it.
THEOREM LocalExact == Spec => []LocalCutsExactly
<1>1. TypedInv /\ LocalInv /\ [Next]_vars => LocalInv'
  BY LocalNext
<1>2. LocalInv => LocalCutsExactly
  BY DEF LocalInv, LocalState, LocalCutsExactly, Ready, Seen
<1> QED BY <1>1, <1>2, LocalInit, TypedInit, TypedNext, PTL DEF Spec
=============================================================================
