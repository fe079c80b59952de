---------------------------- MODULE FilterLemmas ----------------------------
(***************************************************************************)
(* What Filters computes, proved once: Nth(K, _) enumerates a finite set K *)
(* of numbers in increasing order, and so Keep(s, K) is the subsequence of *)
(* s at the positions K. From the enumeration follow the least element of  *)
(* a set of numbers, induction over them, in the form of a set that has 0  *)
(* and with every number the next, and definition by recursion.            *)
(***************************************************************************)
EXTENDS Filters, Functions, FiniteSetTheorems, FunctionTheorems, TLAPS

(* A rank is a number between 1 and the size of the set. *)
LEMMA RankType ==
    ASSUME NEW K \in SUBSET Nat, IsFiniteSet(K), NEW i \in K
    PROVE  Rank(K, i) \in 1..Cardinality(K)
<1> DEFINE B == {h \in K : h <= i}
<1>1. IsFiniteSet(B) /\ Cardinality(B) <= Cardinality(K)
    BY FS_Subset
<1>2. Cardinality(B) \in Nat /\ Cardinality(K) \in Nat
    BY <1>1, FS_CardinalityType
<1>3. i \in B
    OBVIOUS
<1>4. Cardinality(B) # 0
    BY <1>1, <1>3, FS_EmptySet
<1> QED
    BY <1>1, <1>2, <1>4 DEF Rank

(* A larger element has a larger rank. *)
LEMMA RankIncreases ==
    ASSUME NEW K \in SUBSET Nat, IsFiniteSet(K),
           NEW i \in K, NEW k \in K, i < k
    PROVE  Rank(K, i) < Rank(K, k)
<1> DEFINE B == {h \in K : h <= i}
           C == {h \in K : h <= k}
<1>1. IsFiniteSet(C)
    BY FS_Subset
<1>0. \A h \in K : h \in Nat
    OBVIOUS
<1>2. B \subseteq C /\ k \in C /\ k \notin B
    <2>1. ASSUME NEW h \in B PROVE h \in C
        <3>1. h \in Nat /\ i \in Nat /\ k \in Nat /\ h <= i
            BY <1>0
        <3> QED
            BY <3>1
    <2>2. k \in C /\ k \notin B
        BY <1>0
    <2> QED
        BY <2>1, <2>2
<1>3. Cardinality(B) <= Cardinality(C) /\ (Cardinality(C) = Cardinality(B) => C = B)
    BY <1>1, <1>2, FS_Subset
<1>4. Cardinality(B) \in Nat /\ Cardinality(C) \in Nat
    BY <1>1, FS_Subset, FS_CardinalityType
<1> HIDE DEF B, C
<1>5. Cardinality(B) < Cardinality(C)
    BY <1>2, <1>3, <1>4
<1> QED
    BY <1>5 DEF Rank, B, C

(* So two elements of the same rank are one. *)
LEMMA SameRank ==
    ASSUME NEW K \in SUBSET Nat, IsFiniteSet(K),
           NEW i \in K, NEW k \in K, Rank(K, i) = Rank(K, k)
    PROVE  i = k
<1>1. Rank(K, i) \in Nat /\ Rank(K, k) \in Nat
    BY RankType, FS_CardinalityType
<1>2. i \in Nat /\ k \in Nat
    OBVIOUS
<1>3. CASE i < k
    BY <1>1, <1>3, RankIncreases
<1>4. CASE k < i
    BY <1>1, <1>4, RankIncreases
<1> QED
    BY <1>2, <1>3, <1>4

(* Every rank up to the size of the set is taken: an injection of K into   *)
(* as many numbers is onto.                                                *)
LEMMA RankOnto ==
    ASSUME NEW K \in SUBSET Nat, IsFiniteSet(K), NEW j \in 1..Cardinality(K)
    PROVE  \E i \in K : Rank(K, i) = j
<1> DEFINE n == Cardinality(K)
           f == [i \in K |-> Rank(K, i)]
<1>1. n \in Nat
    BY FS_CardinalityType
<1>2. f \in [K -> 1..n]
    BY RankType
<1>3. \A a, b \in K : f[a] = f[b] => a = b
    BY SameRank
<1>4. f \in Injection(K, 1..n)
    BY <1>2, <1>3, Fun_IsInj
<1>5. IsFiniteSet(1..n) /\ Cardinality(1..n) = n
    BY <1>1, FS_Interval
<1>6. f \in Surjection(K, 1..n)
    BY <1>4, <1>5, FS_Injection
<1>7. PICK i \in K : f[i] = j
    BY <1>6 DEF Surjection
<1> QED
    BY <1>7

(* Nth enumerates K ... *)
LEMMA NthType ==
    ASSUME NEW K \in SUBSET Nat, IsFiniteSet(K), NEW j \in 1..Cardinality(K)
    PROVE  Nth(K, j) \in K /\ Rank(K, Nth(K, j)) = j
BY RankOnto DEF Nth

(* ... in increasing order, ... *)
LEMMA NthIncreases ==
    ASSUME NEW K \in SUBSET Nat, IsFiniteSet(K),
           NEW j \in 1..Cardinality(K), NEW k \in 1..Cardinality(K), j < k
    PROVE  Nth(K, j) < Nth(K, k)
<1>1. Cardinality(K) \in Nat
    BY FS_CardinalityType
<1>2. /\ Nth(K, j) \in K /\ Rank(K, Nth(K, j)) = j
      /\ Nth(K, k) \in K /\ Rank(K, Nth(K, k)) = k
    BY NthType
<1>3. Nth(K, j) \in Nat /\ Nth(K, k) \in Nat
    BY <1>2
<1>4. ~(Nth(K, k) < Nth(K, j))
    <2> SUFFICES ASSUME Nth(K, k) < Nth(K, j) PROVE FALSE
        OBVIOUS
    <2>1. Rank(K, Nth(K, k)) < Rank(K, Nth(K, j))
        BY <1>2, RankIncreases
    <2> QED
        BY <2>1, <1>1, <1>2
<1>5. Nth(K, k) # Nth(K, j)
    BY <1>1, <1>2
<1> QED
    BY <1>3, <1>4, <1>5

(* ... and leaves out no element. *)
LEMMA NthOnto ==
    ASSUME NEW K \in SUBSET Nat, IsFiniteSet(K), NEW i \in K
    PROVE  \E j \in 1..Cardinality(K) : Nth(K, j) = i
<1> DEFINE j == Rank(K, i)
<1>1. j \in 1..Cardinality(K)
    BY RankType
<1>2. Nth(K, j) \in K /\ Rank(K, Nth(K, j)) = j
    BY <1>1, NthType
<1> HIDE DEF j
<1>3. j \in Nat /\ j = Rank(K, i)
    BY <1>1, FS_CardinalityType DEF j
<1>4. Nth(K, j) = i
    BY <1>2, <1>3, SameRank
<1> QED
    BY <1>1, <1>4

(* The numbers from 1 to m. *)
LEMMA IntervalSize ==
    ASSUME NEW m \in Nat
    PROVE  IsFiniteSet(1..m) /\ Cardinality(1..m) = m
<1>1. 1 \in Int /\ m \in Int
    OBVIOUS
<1>2. IsFiniteSet(1..m) /\ Cardinality(1..m) = IF 1 > m THEN 0 ELSE m - 1 + 1
    BY <1>1, FS_Interval
<1>3. (IF 1 > m THEN 0 ELSE m - 1 + 1) = m
    OBVIOUS
<1> QED
    BY <1>2, <1>3

(* Keep(s, K) is a sequence of the entries of s at K, as many as K has     *)
(* elements, in their order in s.                                          *)
LEMMA KeepProperties ==
    ASSUME NEW S, NEW s \in Seq(S), NEW K \in SUBSET DOMAIN s
    PROVE  /\ IsFiniteSet(K)
           /\ Keep(s, K) \in Seq(S)
           /\ Len(Keep(s, K)) = Cardinality(K)
           /\ Cardinality(K) \in 0..Len(s)
           /\ DOMAIN Keep(s, K) = 1..Cardinality(K)
           /\ \A j \in 1..Cardinality(K) :
                 Nth(K, j) \in K /\ Keep(s, K)[j] = s[Nth(K, j)]
           /\ \A j, k \in 1..Cardinality(K) : j < k => Nth(K, j) < Nth(K, k)
           /\ \A i \in K : \E j \in 1..Cardinality(K) : Nth(K, j) = i
<1> DEFINE n == Cardinality(K)
<1>1. Len(s) \in Nat /\ DOMAIN s = 1..Len(s) /\ \A i \in DOMAIN s : s[i] \in S
    OBVIOUS
<1>2. K \subseteq 1..Len(s) /\ K \in SUBSET Nat
    BY <1>1
<1>3. IsFiniteSet(1..Len(s)) /\ Cardinality(1..Len(s)) = Len(s)
    BY <1>1, IntervalSize
<1>4. IsFiniteSet(K) /\ n <= Len(s)
    BY <1>2, <1>3, FS_Subset
<1>5. n \in Nat
    BY <1>4, FS_CardinalityType
<1>6. \A j \in 1..n : Nth(K, j) \in K
    BY <1>2, <1>4, NthType
<1>7. Keep(s, K) = [j \in 1..n |-> s[Nth(K, j)]]
    BY DEF Keep
<1>8. \A j \in 1..n : s[Nth(K, j)] \in S
    BY <1>1, <1>6
<1>9. Keep(s, K) \in [1..n -> S]
    BY <1>7, <1>8
<1>10. Keep(s, K) \in Seq(S) /\ Len(Keep(s, K)) = n /\ DOMAIN Keep(s, K) = 1..n
    BY <1>5, <1>9
<1>11. \A j, k \in 1..n : j < k => Nth(K, j) < Nth(K, k)
    BY <1>2, <1>4, NthIncreases
<1>12. \A i \in K : \E j \in 1..n : Nth(K, j) = i
    BY <1>2, <1>4, NthOnto
<1> QED
    BY <1>1, <1>4, <1>5, <1>6, <1>7, <1>10, <1>11, <1>12

(* Keeping the positions from some point on is a suffix. *)
LEMMA KeepSuffix ==
    ASSUME NEW S, NEW s \in Seq(S), NEW K \in SUBSET DOMAIN s,
           \A i \in K : \A k \in DOMAIN s : i < k => k \in K
    PROVE  \A j \in 1..Cardinality(K) :
              Nth(K, j) = Len(s) - Cardinality(K) + j
<1> DEFINE n == Cardinality(K)
<1>1. /\ IsFiniteSet(K) /\ n \in 0..Len(s)
      /\ \A j \in 1..n : Nth(K, j) \in K
      /\ \A j, k \in 1..n : j < k => Nth(K, j) < Nth(K, k)
      /\ \A i \in K : \E j \in 1..n : Nth(K, j) = i
    BY KeepProperties
<1>2. Len(s) \in Nat /\ DOMAIN s = 1..Len(s)
    OBVIOUS
<1> SUFFICES ASSUME NEW j \in 1..n
             PROVE  Nth(K, j) = Len(s) - n + j
    OBVIOUS
<1> DEFINE a == Nth(K, 1)
<1>3. n >= 1 /\ n \in Nat /\ j \in Nat
    BY <1>1, <1>2
<1>4. a \in K /\ a \in 1..Len(s)
    BY <1>1, <1>2, <1>3
<1>5. \A i \in K : a <= i
    <2> SUFFICES ASSUME NEW i \in K PROVE a <= i
        OBVIOUS
    <2>1. PICK k \in 1..n : Nth(K, k) = i
        BY <1>1
    <2>2. CASE k = 1
        BY <2>1, <2>2, <1>4
    <2>3. CASE k # 1
        <3>1. 1 \in 1..n /\ 1 < k
            BY <1>3, <2>3
        <3>2. a < i
            BY <1>1, <2>1, <3>1
        <3>3. i \in Nat
            BY <1>2
        <3> QED
            BY <3>2, <3>3, <1>4
    <2> QED
        BY <2>2, <2>3
<1> HIDE DEF a
<1>6. K = a..Len(s)
    <2>1. ASSUME NEW i \in K PROVE i \in a..Len(s)
        <3>1. i \in 1..Len(s) /\ a <= i
            BY <1>2, <1>5
        <3> QED
            BY <3>1, <1>2, <1>4
    <2>2. ASSUME NEW i \in a..Len(s) PROVE i \in K
        <3>1. i \in DOMAIN s /\ (i = a \/ a < i)
            BY <1>2, <1>4
        <3> QED
            BY <3>1, <1>4
    <2> QED
        BY <2>1, <2>2
<1>7. n = Len(s) - a + 1
    BY <1>2, <1>4, <1>6, FS_Interval
<1> DEFINE t == a + j - 1
<1>8. t \in K
    BY <1>2, <1>3, <1>4, <1>6, <1>7
<1>9. Rank(K, t) = j
    <2>1. {h \in K : h <= t} = a..t
        BY <1>2, <1>4, <1>6, <1>8
    <2>2. Cardinality(a..t) = t - a + 1
        <3>1. a \in Int /\ t \in Int /\ ~(a > t)
            BY <1>3, <1>4
        <3> HIDE DEF t
        <3> QED
            BY <3>1, FS_Interval
    <2> QED
        <3>1. Rank(K, t) = Cardinality(a..t)
            BY <2>1 DEF Rank
        <3>2. t - a + 1 = j
            BY <1>3, <1>4
        <3> QED
            BY <3>1, <3>2, <2>2
<1>10. Nth(K, j) \in K /\ Rank(K, Nth(K, j)) = j /\ K \in SUBSET Nat
    BY <1>1, <1>2, NthType
<1>11. Nth(K, j) = t
    <2> HIDE DEF t
    <2> QED
        BY <1>1, <1>8, <1>9, <1>10, SameRank
<1> QED
    BY <1>3, <1>4, <1>7, <1>11

-----------------------------------------------------------------------------
(* Numbers: least and greatest elements, induction, recursion. *)

(* A nonempty finite set of numbers has a greatest element, ... *)
LEMMA Greatest ==
    ASSUME NEW K \in SUBSET Nat, IsFiniteSet(K), K # {}
    PROVE  \E m \in K : \A k \in K : k <= m
<1> DEFINE n == Cardinality(K)
<1>1. n \in Nat /\ n # 0
    BY FS_CardinalityType, FS_EmptySet
<1>2. n \in 1..n
    BY <1>1
<1>3. Nth(K, n) \in K /\ Nth(K, n) \in Nat
    BY <1>2, NthType
<1>4. ASSUME NEW k \in K
      PROVE  k <= Nth(K, n)
    <2>1. PICK j \in 1..n : Nth(K, j) = k
        BY NthOnto
    <2>2. CASE j = n
        BY <2>1, <2>2, <1>3
    <2>3. CASE j # n
        <3>1. j < n
            BY <1>1, <2>3
        <3>2. Nth(K, j) < Nth(K, n)
            BY <1>2, <3>1, NthIncreases
        <3> QED
            BY <2>1, <3>2, <1>3
    <2> QED
        BY <2>2, <2>3
<1> QED
    BY <1>3, <1>4

(* ... and every nonempty set of them a least one. *)
LEMMA Least ==
    ASSUME NEW K \in SUBSET Nat, K # {}
    PROVE  \E m \in K : \A k \in K : m <= k
<1>1. PICK a \in K : a \in Nat
    OBVIOUS
<1>0. \A k \in K : k \in Nat
    OBVIOUS
<1> DEFINE T == {k \in K : k <= a}
           n == Cardinality(T)
<1>2. T \in SUBSET Nat /\ a \in T
    <2>1. a <= a
        BY <1>1
    <2> QED
        BY <2>1, <1>0
<1>3. IsFiniteSet(T)
    <2>1. 0 \in Int /\ a \in Int
        BY <1>1
    <2>2. IsFiniteSet(0..a)
        BY <2>1, FS_Interval
    <2>3. ASSUME NEW k \in T
          PROVE  k \in 0..a
        <3>1. k \in Nat /\ a \in Nat /\ k <= a
            BY <1>0, <1>1
        <3> QED
            BY <3>1
    <2> QED
        BY <2>2, <2>3, FS_Subset
<1> HIDE DEF T
<1>4. n \in Nat /\ n # 0
    <2>1. T # {}
        BY <1>2
    <2> QED
        BY <2>1, <1>3, FS_CardinalityType, FS_EmptySet
<1>5. 1 \in 1..n
    BY <1>4
<1> DEFINE m == Nth(T, 1)
<1>6. m \in T /\ m \in Nat
    BY <1>2, <1>3, <1>5, NthType
<1>7. ASSUME NEW k \in T
      PROVE  m <= k
    <2>1. PICK j \in 1..n : Nth(T, j) = k
        BY <1>2, <1>3, <1>7, NthOnto
    <2>2. CASE j = 1
        BY <2>1, <2>2, <1>6
    <2>3. CASE j # 1
        <3>1. 1 < j
            BY <1>4, <2>3
        <3>2. Nth(T, 1) < Nth(T, j)
            BY <1>2, <1>3, <1>5, <3>1, NthIncreases
        <3>3. k \in Nat
            BY <1>2
        <3> QED
            BY <2>1, <3>2, <3>3, <1>6
    <2> QED
        BY <2>2, <2>3
<1>8. ASSUME NEW k \in K, k \notin T
      PROVE  m <= k
    <2> HIDE DEF m
    <2>1. m \in Nat /\ k \in Nat /\ m <= a /\ ~(k <= a)
        BY <1>1, <1>2, <1>6, <1>7, <1>8 DEF T
    <2> QED
        BY <1>1, <2>1
<1>9. m \in K
    BY <1>6 DEF T
<1> HIDE DEF m
<1> QED
    BY <1>7, <1>8, <1>9

(* A set of numbers that has 0 and with every number the next has them all. *)
LEMMA Induction ==
    ASSUME NEW S, 0 \in S, \A n \in Nat : n \in S => n + 1 \in S
    PROVE  \A n \in Nat : n \in S
<1> DEFINE K == {n \in Nat : n \notin S}
<1> SUFFICES ASSUME K # {} PROVE FALSE
    OBVIOUS
<1>1. PICK m \in K : \A k \in K : m <= k
    BY Least
<1>2. m \in Nat /\ m # 0
    OBVIOUS
<1>3. m - 1 \in Nat /\ m - 1 \notin K
    BY <1>1, <1>2
<1>4. m - 1 \in S
    BY <1>3
<1>5. (m - 1) + 1 \in S
    BY <1>3, <1>4
<1> QED
    BY <1>2, <1>5

(* A function may be defined by its first value and a step from each value *)
(* to the next.                                                            *)
LEMMA Recursion ==
    ASSUME NEW S, NEW base \in S, NEW N \in Nat, NEW step \in [1..N -> [S -> S]]
    PROVE  \E f \in [0..N -> S] :
              f[0] = base /\ \A n \in 1..N : f[n] = step[n][f[n - 1]]
<1> DEFINE Steps(f, M) == \A n \in 1..M : f[n] = step[n][f[n - 1]]
           Upto == {M \in Nat : M <= N => \E f \in [0..M -> S] : f[0] = base /\ Steps(f, M)}
<1>1. 0 \in Upto
    <2> DEFINE f == [n \in 0..0 |-> base]
    <2>1. f \in [0..0 -> S] /\ f[0] = base /\ Steps(f, 0)
        OBVIOUS
    <2>2. \E g \in [0..0 -> S] : g[0] = base /\ Steps(g, 0)
        BY <2>1
    <2> QED
        BY <2>2
<1>2. ASSUME NEW M \in Nat, M \in Upto, M + 1 <= N
      PROVE  \E f \in [0..(M + 1) -> S] : f[0] = base /\ Steps(f, M + 1)
    <2>1. PICK f \in [0..M -> S] : f[0] = base /\ Steps(f, M)
        BY <1>2
    <2> DEFINE g == [n \in 0..(M + 1) |-> IF n = M + 1 THEN step[M + 1][f[M]] ELSE f[n]]
    <2>2. M \in 0..M /\ M + 1 \in 1..N
        BY <1>2
    <2>3. f[M] \in S /\ step[M + 1][f[M]] \in S
        BY <2>2
    <2>4. \A n \in 0..(M + 1) : n # M + 1 => n \in 0..M
        OBVIOUS
    <2>5. g \in [0..(M + 1) -> S]
        BY <2>3, <2>4
    <2>6. g[0] = base
        BY <2>1
    <2>7. ASSUME NEW n \in 1..(M + 1)
          PROVE  g[n] = step[n][g[n - 1]]
        <3>1. n - 1 \in 0..M /\ n - 1 \in 0..(M + 1) /\ n - 1 # M + 1
            OBVIOUS
        <3>2. g[n - 1] = f[n - 1]
            BY <3>1
        <3>3. CASE n = M + 1
            <4>1. g[n] = step[M + 1][f[M]] /\ n - 1 = M
                BY <3>3
            <4> HIDE DEF g
            <4> QED
                BY <3>2, <3>3, <4>1
        <3>4. CASE n # M + 1
            <4>1. n \in 1..M /\ g[n] = f[n]
                BY <3>4
            <4> HIDE DEF g
            <4> QED
                BY <2>1, <3>2, <4>1
        <3> QED
            BY <3>3, <3>4
    <2> HIDE DEF g
    <2> QED
        BY <2>5, <2>6, <2>7
<1>3. \A M \in Nat : M \in Upto
    <2>1. ASSUME NEW M \in Nat, M \in Upto
          PROVE  M + 1 \in Upto
        <3>1. M + 1 \in Nat
            OBVIOUS
        <3>2. M + 1 <= N => \E f \in [0..(M + 1) -> S] : f[0] = base /\ Steps(f, M + 1)
            BY <1>2, <2>1
        <3> HIDE DEF Steps
        <3> QED
            BY <3>1, <3>2
    <2> HIDE DEF Upto
    <2> QED
        BY <1>1, <2>1, Induction
<1>4. N \in Upto /\ N <= N
    <2> HIDE DEF Upto
    <2> QED
        BY <1>3
<1> QED
    BY <1>4

-----------------------------------------------------------------------------
(* Filtering a sequence again, or one entry further. *)

(* What enumerates K in increasing order is Nth(K, _). *)
LEMMA NthUnique ==
    ASSUME NEW K \in SUBSET Nat, NEW n \in Nat, NEW f \in [1..n -> K],
           \A i, j \in 1..n : i < j => f[i] < f[j],
           \A k \in K : \E j \in 1..n : f[j] = k
    PROVE  /\ IsFiniteSet(K) /\ Cardinality(K) = n
           /\ \A j \in 1..n : Nth(K, j) = f[j]
<1>1. \A i \in 1..n : f[i] \in K /\ f[i] \in Nat
    OBVIOUS
<1>2. \A i, j \in 1..n : f[i] <= f[j] <=> i <= j
    <2> SUFFICES ASSUME NEW i \in 1..n, NEW j \in 1..n
                 PROVE  f[i] <= f[j] <=> i <= j
        OBVIOUS
    <2>1. CASE i < j
        BY <2>1, <1>1
    <2>2. CASE i = j
        BY <2>2, <1>1
    <2>3. CASE j < i
        <3>1. f[j] < f[i]
            BY <2>3
        <3> QED
            BY <2>3, <3>1, <1>1
    <2> QED
        BY <2>1, <2>2, <2>3
<1>3. \A i, j \in 1..n : f[i] = f[j] => i = j
    BY <1>1, <1>2
<1>4. ASSUME NEW j \in 0..n, NEW A, A = {f[i] : i \in 1..j}
      PROVE  IsFiniteSet(A) /\ Cardinality(A) = j
    <2> DEFINE g == [i \in 1..j |-> f[i]]
    <2>1. j \in Nat /\ \A i \in 1..j : i \in 1..n
        OBVIOUS
    <2>2. g \in [1..j -> A]
        BY <1>4
    <2>3. \A a, b \in 1..j : g[a] = g[b] => a = b
        BY <1>3, <2>1
    <2>4. \A a \in A : \E i \in 1..j : g[i] = a
        BY <1>4
    <2> HIDE DEF g
    <2>5. g \in Injection(1..j, A)
        BY <2>2, <2>3, Fun_IsInj
    <2>6. IsFiniteSet(1..j) /\ Cardinality(1..j) = j
        BY <2>1, IntervalSize
    <2>7. g \in Surjection(1..j, A)
        BY <2>2, <2>4, Fun_IsSurj
    <2>8. IsFiniteSet(A) /\ (Cardinality(A) = Cardinality(1..j) <=> g \in Injection(1..j, A))
        BY <2>6, <2>7, FS_Surjection
    <2> QED
        BY <2>5, <2>6, <2>8
<1>5. IsFiniteSet(K) /\ Cardinality(K) = n
    <2>1. n \in 0..n
        OBVIOUS
    <2>2. \A i \in 1..n : f[i] \in K
        BY <1>1
    <2>3. K = {f[i] : i \in 1..n}
        BY <2>2
    <2> QED
        BY <2>1, <2>3, <1>4
<1>6. ASSUME NEW j \in 1..n
      PROVE  Nth(K, j) = f[j]
    <2>1. {h \in K : h <= f[j]} = {f[i] : i \in 1..j}
        <3>1. ASSUME NEW h \in K, h <= f[j]
              PROVE  \E i \in 1..j : f[i] = h
            <4>1. PICK i \in 1..n : f[i] = h
                OBVIOUS
            <4>2. i <= j
                BY <1>2, <3>1, <4>1
            <4> QED
                BY <4>1, <4>2
        <3>2. ASSUME NEW i \in 1..j
              PROVE  f[i] \in K /\ f[i] <= f[j]
            <4>1. i \in 1..n /\ i <= j
                OBVIOUS
            <4> QED
                BY <4>1, <1>1, <1>2
        <3> QED
            BY <3>1, <3>2
    <2>2. Rank(K, f[j]) = j
        <3>1. j \in 0..n
            OBVIOUS
        <3> QED
            BY <2>1, <3>1, <1>4 DEF Rank
    <2>3. Nth(K, j) \in K /\ Rank(K, Nth(K, j)) = j
        BY <1>5, NthType
    <2>4. f[j] \in K /\ Rank(K, Nth(K, j)) = Rank(K, f[j])
        BY <2>2, <2>3, <1>1
    <2> DEFINE x == Nth(K, j)
               y == f[j]
    <2>5. x \in K /\ y \in K /\ Rank(K, x) = Rank(K, y)
        BY <2>3, <2>4
    <2> HIDE DEF x, y
    <2>6. x = y
        BY <2>5, <1>5, SameRank
    <2> QED
        BY <2>6 DEF x, y
<1> QED
    BY <1>5, <1>6

(* Nothing is kept of no positions, ... *)
LEMMA KeepEmpty ==
    ASSUME NEW s
    PROVE  Keep(s, {}) = <<>>
<1>1. Cardinality({}) = 0 /\ 1..0 = {}
    BY FS_EmptySet
<1> QED
    BY <1>1 DEF Keep

(* ... everything of all of them, ... *)
LEMMA KeepAll ==
    ASSUME NEW S, NEW s \in Seq(S)
    PROVE  Keep(s, DOMAIN s) = s
<1> DEFINE f == [j \in 1..Len(s) |-> j]
<1>1. Len(s) \in Nat /\ DOMAIN s = 1..Len(s) /\ s = [j \in 1..Len(s) |-> s[j]]
    OBVIOUS
<1>2. 1..Len(s) \in SUBSET Nat
    OBVIOUS
<1>3. Keep(s, 1..Len(s)) = [j \in 1..Len(s) |-> s[f[j]]]
    <2>1. f \in [1..Len(s) -> 1..Len(s)]
        OBVIOUS
    <2>2. \A i, j \in 1..Len(s) : i < j => f[i] < f[j]
        OBVIOUS
    <2>3. \A k \in 1..Len(s) : \E j \in 1..Len(s) : f[j] = k
        OBVIOUS
    <2> HIDE DEF f
    <2>4. Cardinality(1..Len(s)) = Len(s) /\ \A j \in 1..Len(s) : Nth(1..Len(s), j) = f[j]
        BY <1>1, <1>2, <2>1, <2>2, <2>3, NthUnique
    <2> QED
        BY <2>4 DEF Keep
<1> QED
    BY <1>1, <1>3

(* ... and with the entry after them, it is appended. *)
LEMMA KeepAppend ==
    ASSUME NEW S, NEW s \in Seq(S), NEW K \in SUBSET DOMAIN s,
           NEW n \in Nat, n + 1 \in DOMAIN s, \A k \in K : k <= n
    PROVE  Keep(s, K \cup {n + 1}) = Append(Keep(s, K), s[n + 1])
<1> DEFINE c == Cardinality(K)
           L == K \cup {n + 1}
           f == [j \in 1..(c + 1) |-> IF j = c + 1 THEN n + 1 ELSE Nth(K, j)]
<1>1. DOMAIN s = 1..Len(s) /\ Len(s) \in Nat
    OBVIOUS
<1>2. /\ Keep(s, K) \in Seq(S) /\ Len(Keep(s, K)) = c /\ c \in Nat
      /\ \A j \in 1..c : Nth(K, j) \in K /\ Keep(s, K)[j] = s[Nth(K, j)]
      /\ \A j, k \in 1..c : j < k => Nth(K, j) < Nth(K, k)
      /\ \A i \in K : \E j \in 1..c : Nth(K, j) = i
    BY <1>1, KeepProperties
<1> HIDE DEF c
<1>3. /\ \A j \in 1..(c + 1) : j # c + 1 => j \in 1..c
      /\ \A k \in K : k \in Nat /\ k < n + 1
    BY <1>2
<1>4. L \in SUBSET Nat /\ c + 1 \in Nat
    BY <1>2, <1>3
<1>5. f \in [1..(c + 1) -> L]
    BY <1>2, <1>3
<1>6. ASSUME NEW i \in 1..(c + 1), NEW j \in 1..(c + 1), i < j
      PROVE  f[i] < f[j]
    <2>1. i \in 1..c /\ f[i] = Nth(K, i)
        BY <1>2, <1>6
    <2>2. CASE j = c + 1
        <3>1. f[j] = n + 1 /\ f[i] \in K
            BY <1>2, <2>1, <2>2
        <3> QED
            BY <3>1, <1>3
    <2>3. CASE j # c + 1
        <3>1. j \in 1..c /\ f[j] = Nth(K, j)
            BY <1>3, <2>3
        <3> QED
            BY <1>2, <1>6, <2>1, <3>1
    <2> QED
        BY <2>2, <2>3
<1>7. ASSUME NEW k \in L
      PROVE  \E j \in 1..(c + 1) : f[j] = k
    <2>1. CASE k = n + 1
        <3>1. c + 1 \in 1..(c + 1) /\ f[c + 1] = n + 1
            BY <1>2
        <3> QED
            BY <2>1, <3>1
    <2>2. CASE k \in K
        <3>1. PICK j \in 1..c : Nth(K, j) = k
            BY <1>2, <2>2
        <3>2. j \in 1..(c + 1) /\ j # c + 1
            BY <1>2
        <3> QED
            BY <3>1, <3>2
    <2> QED
        BY <2>1, <2>2
<1>8. Keep(s, L) = [j \in 1..(c + 1) |-> s[f[j]]]
    <2> HIDE DEF f, L
    <2>1. Cardinality(L) = c + 1 /\ \A j \in 1..(c + 1) : Nth(L, j) = f[j]
        BY <1>4, <1>5, <1>6, <1>7, NthUnique
    <2> QED
        BY <2>1 DEF Keep
<1>9. [j \in 1..(c + 1) |-> s[f[j]]] = Append(Keep(s, K), s[n + 1])
    <2> DEFINE t == Keep(s, K)
    <2>1. t = [j \in 1..c |-> s[Nth(K, j)]]
        BY <1>2 DEF Keep, c
    <2>2. \A j \in 1..(c + 1) : s[f[j]] = IF j = c + 1 THEN s[n + 1] ELSE t[j]
        BY <1>3, <2>1
    <2>3. s[n + 1] \in S /\ t \in Seq(S) /\ Len(t) = c
        BY <1>2
    <2> DEFINE u == Append(t, s[n + 1])
    <2> HIDE DEF t, f
    <2>4. u \in Seq(S) /\ Len(u) = c + 1
        BY <2>3
    <2>5. \A j \in 1..(c + 1) : u[j] = IF j = c + 1 THEN s[n + 1] ELSE t[j]
        BY <2>3, <1>2
    <2> HIDE DEF u
    <2>6. u = [j \in 1..(c + 1) |-> u[j]]
        BY <2>4, <1>2
    <2>7. \A j \in 1..(c + 1) : u[j] = s[f[j]]
        BY <2>2, <2>5
    <2>8. u = [j \in 1..(c + 1) |-> s[f[j]]]
        BY <2>6, <2>7
    <2> QED
        BY <2>8 DEF u, t
<1> QED
    BY <1>8, <1>9

(* Filtering what was kept is filtering once. *)
LEMMA KeepKeep ==
    ASSUME NEW S, NEW s \in Seq(S), NEW K \in SUBSET DOMAIN s,
           NEW M \in SUBSET DOMAIN Keep(s, K)
    PROVE  Keep(Keep(s, K), M) = Keep(s, {Nth(K, j) : j \in M})
<1> DEFINE t == Keep(s, K)
           c == Cardinality(K)
           m == Cardinality(M)
           L == {Nth(K, j) : j \in M}
           f == [j \in 1..m |-> Nth(K, Nth(M, j))]
<1>1. /\ t \in Seq(S) /\ DOMAIN t = 1..c
      /\ \A j \in 1..c : Nth(K, j) \in K /\ t[j] = s[Nth(K, j)]
      /\ \A j, k \in 1..c : j < k => Nth(K, j) < Nth(K, k)
    BY KeepProperties
<1>2. /\ DOMAIN Keep(t, M) = 1..m /\ m \in Nat
      /\ \A j \in 1..m : Nth(M, j) \in M
      /\ \A j, k \in 1..m : j < k => Nth(M, j) < Nth(M, k)
      /\ \A i \in M : \E j \in 1..m : Nth(M, j) = i
    <2> HIDE DEF t
    <2> QED
        BY <1>1, KeepProperties DEF t
<1>3. Keep(t, M) = [j \in 1..m |-> t[Nth(M, j)]]
    BY DEF Keep
<1>4. M \subseteq 1..c /\ K \subseteq Nat
    BY <1>1
<1> HIDE DEF c, m, t
<1>5. L \in SUBSET Nat
    BY <1>1, <1>4
<1>6. f \in [1..m -> L]
    BY <1>2
<1>7. ASSUME NEW i \in 1..m, NEW j \in 1..m, i < j
      PROVE  f[i] < f[j]
    BY <1>1, <1>2, <1>4, <1>7
<1>8. ASSUME NEW k \in L
      PROVE  \E j \in 1..m : f[j] = k
    <2>1. PICK i \in M : k = Nth(K, i)
        OBVIOUS
    <2>2. PICK j \in 1..m : Nth(M, j) = i
        BY <1>2
    <2> QED
        BY <2>1, <2>2
<1>9. \A j \in 1..m : t[Nth(M, j)] = s[f[j]]
    BY <1>1, <1>2, <1>4
<1>10. Keep(s, L) = [j \in 1..m |-> s[f[j]]]
    <2> HIDE DEF f, L
    <2>1. Cardinality(L) = m /\ \A j \in 1..m : Nth(L, j) = f[j]
        BY <1>2, <1>5, <1>6, <1>7, <1>8, NthUnique
    <2> QED
        BY <2>1 DEF Keep
<1> HIDE DEF f, L
<1>11. Keep(t, M) = Keep(s, L)
    BY <1>3, <1>9, <1>10
<1> QED
    BY <1>11 DEF t, L

(* So every entry of a kind G that the second filter keeps all of is kept. *)
LEMMA KeepSome ==
    ASSUME NEW S, NEW s \in Seq(S), NEW K \in SUBSET DOMAIN s,
           NEW t, t = Keep(s, K), NEW M \in SUBSET DOMAIN t, NEW u, u = Keep(t, M),
           NEW G, \A j \in DOMAIN t : t[j] \in G => j \in M
    PROVE  \E L \in SUBSET K : u = Keep(s, L) /\ \A i \in K : s[i] \in G => i \in L
<1> DEFINE L == {Nth(K, j) : j \in M}
           c == Cardinality(K)
<1>1. u = Keep(s, L)
    <2>1. M \in SUBSET DOMAIN Keep(s, K)
        OBVIOUS
    <2> QED
        BY <2>1, KeepKeep
<1>2. /\ DOMAIN t = 1..c
      /\ \A j \in 1..c : Nth(K, j) \in K /\ t[j] = s[Nth(K, j)]
      /\ \A i \in K : \E j \in 1..c : Nth(K, j) = i
    BY KeepProperties
<1> HIDE DEF c
<1>3. L \in SUBSET K
    <2>1. \A j \in M : Nth(K, j) \in K
        BY <1>2
    <2> QED
        BY <2>1
<1>4. ASSUME NEW i \in K, s[i] \in G
      PROVE  i \in L
    <2>1. PICK j \in 1..c : Nth(K, j) = i
        BY <1>2
    <2>2. t[j] \in G /\ j \in DOMAIN t
        BY <1>2, <1>4, <2>1
    <2>3. j \in M
        BY <2>2
    <2> QED
        BY <2>1, <2>3
<1> HIDE DEF L
<1> QED
    BY <1>1, <1>3, <1>4

(* A part M of the filtered sequence is the filter of the original by L when *)
(* M holds the places of exactly the members of L. *)
LEMMA KeepPart ==
    ASSUME NEW S, NEW s \in Seq(S), NEW K \in SUBSET DOMAIN s, NEW M \in SUBSET DOMAIN Keep(s,K),
           NEW L \in SUBSET K, \A j \in 1..Cardinality(K) : j \in M <=> Nth(K, j) \in L
    PROVE  Keep(Keep(s, K), M) = Keep(s, L)
<1> DEFINE c == Cardinality(K)
<1>1. \A i \in K : \E j \in 1..c : Nth(K, j) = i
    BY KeepProperties
<1>2. M \in SUBSET (1..c)
    BY KeepProperties
<1>3. Keep(Keep(s,K), M) = Keep(s, {Nth(K, j) : j \in M})
    BY KeepKeep
<1> HIDE DEF c
<1>4. {Nth(K, j) : j \in M} = L
    <2>1. ASSUME NEW j \in M
          PROVE  Nth(K, j) \in L
        BY <1>2 DEF c
    <2>2. ASSUME NEW i \in L
          PROVE  \E j \in M : Nth(K, j) = i
        <3>1. PICK j \in 1..c : Nth(K, j) = i
            BY <1>1
        <3>2. j \in M
            BY <1>1, <3>1 DEF c
        <3> QED
            BY <3>1, <3>2
    <2> QED
        BY <2>1, <2>2
<1> QED
    BY <1>3, <1>4

(* Where the enumeration of K begins and ends. *)
LEMMA NthEnds ==
    ASSUME NEW S, NEW s \in Seq(S), NEW K \in SUBSET DOMAIN s, NEW k \in K,
           NEW c, c = Cardinality(K)
    PROVE  c \in Nat \ {0} /\ Nth(K, 1) <= k /\ k <= Nth(K, c)
<1>1. Len(s) \in Nat /\ DOMAIN s = 1..Len(s)
    OBVIOUS
<1>2. /\ c \in 0..Len(s)
      /\ \A j \in 1..c : Nth(K, j) \in K
      /\ \A i, j \in 1..c : i < j => Nth(K, i) < Nth(K, j)
      /\ \A i \in K : \E j \in 1..c : Nth(K, j) = i
    BY KeepProperties
<1>3. PICK j \in 1..c : Nth(K, j) = k
    BY <1>2
<1>4. c \in Nat \ {0} /\ 1 \in 1..c /\ c \in 1..c /\ j \in 1..c
    BY <1>1, <1>2, <1>3
<1>5. Nth(K, 1) \in Nat /\ Nth(K, c) \in Nat /\ k \in Nat
    BY <1>1, <1>2, <1>4
<1>6. Nth(K, 1) <= k
    <2>1. CASE j = 1
        BY <1>3, <1>5, <2>1
    <2>2. CASE j # 1
        <3>1. 1 < j
            BY <1>4, <2>2
        <3>2. Nth(K, 1) < Nth(K, j)
            BY <1>2, <1>4, <3>1
        <3> QED
            BY <1>3, <1>5, <3>2
    <2> QED
        BY <2>1, <2>2
<1>7. k <= Nth(K, c)
    <2>1. CASE j = c
        BY <1>3, <1>5, <2>1
    <2>2. CASE j # c
        <3>1. j < c
            BY <1>4, <2>2
        <3>2. Nth(K, j) < Nth(K, c)
            BY <1>2, <1>4, <3>1
        <3> QED
            BY <1>3, <1>5, <3>2
    <2> QED
        BY <2>1, <2>2
<1> QED
    BY <1>4, <1>6, <1>7
=============================================================================
