------------------------------ MODULE DataLemmas ------------------------------
(***************************************************************************)
(* Facts about numbers and finite sets that the proofs of several          *)
(* components need: sets of numbers have a least member, finite ones a     *)
(* greatest one.                                                           *)
(***************************************************************************)
EXTENDS Naturals, Sequences, FiniteSets, FiniteSetTheorems, SequenceTheorems,
        WellFoundedInduction, TLAPS

LEMMA LeastNumber ==
    ASSUME NEW S \in SUBSET Nat, S # {}
    PROVE  \E n \in S : \A m \in S : n <= m
<1>1. PICK b \in S : TRUE
    OBVIOUS
<1> DEFINE T == {U \in SUBSET (0..b) : \E m \in S : U = 0..m}
<1>2. T \subseteq FiniteSubsetsOf(0..b)
    <2>1. IsFiniteSet(0..b)
        BY <1>1, FS_Interval
    <2> QED BY <2>1, FS_FiniteSubsetsOfFinite
<1>3. T # {}
    BY <1>1
<1>4. PICK U \in T : \A V \in T : ~(<<V, U>> \in StrictSubsetOrdering(0..b))
    <2>1. IsWellFoundedOn(StrictSubsetOrdering(0..b), FiniteSubsetsOf(0..b))
        BY FS_StrictSubsetOrderingWellFounded
    <2> HIDE DEF T
    <2> QED BY <2>1, <1>2, <1>3, WFMin
<1>5. PICK n \in S : U = 0..n
    OBVIOUS
<1>6. \A m \in S : n <= m
    <2> SUFFICES ASSUME NEW m \in S, m < n PROVE FALSE
        OBVIOUS
    <2>1. 0..m \in T
        BY <1>1, <1>5
    <2>2. <<0..m, U>> \in StrictSubsetOrdering(0..b)
        <3>1. n \in U /\ n \notin 0..m /\ 0..m \subseteq U
            BY <1>5
        <3>2. 0..m # U
            BY <3>1
        <3> QED BY <2>1, <3>1, <3>2 DEF StrictSubsetOrdering
    <2> QED BY <1>4, <2>1, <2>2
<1> QED BY <1>6

LEMMA GreatestNumber ==
    ASSUME NEW S \in SUBSET Nat, S # {}, NEW b \in Nat, \A n \in S : n <= b
    PROVE  \E n \in S : \A m \in S : m <= n
<1> DEFINE D == {b - n : n \in S}
<1>1. D \subseteq Nat /\ D # {}
    <2>1. \A n \in S : b - n \in Nat
        OBVIOUS
    <2> QED BY <2>1
<1>2. PICK d \in D : \A e \in D : d <= e
    <2> HIDE DEF D
    <2> QED BY <1>1, LeastNumber
<1>3. PICK n \in S : d = b - n
    OBVIOUS
<1>4. \A m \in S : m <= n
    <2> SUFFICES ASSUME NEW m \in S PROVE m <= n
        OBVIOUS
    <2>1. d <= b - m
        BY <1>2
    <2> QED BY <2>1, <1>3
<1> QED BY <1>4

LEMMA IntervalFromOne ==
    ASSUME NEW n \in Nat
    PROVE  IsFiniteSet(1..n) /\ Cardinality(1..n) = n
BY FS_Interval

LEMMA IntervalSize ==
    ASSUME NEW a \in Nat, NEW b \in Nat, a <= b
    PROVE  IsFiniteSet(a..(b - 1)) /\ Cardinality(a..(b - 1)) = b - a
<1>1. b - 1 \in Int /\ a \in Int
    OBVIOUS
<1>2. /\ IsFiniteSet(a..(b - 1))
      /\ Cardinality(a..(b - 1)) = IF a > b - 1 THEN 0 ELSE (b - 1) - a + 1
    BY <1>1, FS_Interval
<1> QED BY <1>2

\* Among the members of a finite set of numbers each has a rank of its own, and each rank
\* from 1 to their number is taken.
LEMMA RankType ==
    ASSUME NEW S \in SUBSET Nat, IsFiniteSet(S), NEW i \in S
    PROVE  Cardinality({j \in S : j <= i}) \in 1..Cardinality(S)
<1> DEFINE R == {j \in S : j <= i}
<1>1. IsFiniteSet(R) /\ Cardinality(R) <= Cardinality(S)
    <2>1. R \in SUBSET S
        OBVIOUS
    <2> HIDE DEF R
    <2> QED BY <2>1, FS_Subset
<1>2. i \in R
    OBVIOUS
<1>3. Cardinality(R) # 0 /\ Cardinality(R) \in Nat /\ Cardinality(S) \in Nat
    <2> HIDE DEF R
    <2> QED BY <1>1, <1>2, FS_EmptySet, FS_CardinalityType
<1> HIDE DEF R
<1>4. Cardinality(R) \in 1..Cardinality(S)
    BY <1>1, <1>3
<1> QED BY <1>4 DEF R

LEMMA RankGrows ==
    ASSUME NEW S \in SUBSET Nat, IsFiniteSet(S), NEW i \in S, NEW j \in S, i < j
    PROVE  Cardinality({k \in S : k <= i}) < Cardinality({k \in S : k <= j})
<1> DEFINE Q == {k \in S : k <= i}
           R == {k \in S : k <= j}
<1>1. Q \subseteq R /\ j \in R /\ j \notin Q
    <2>1. i \in Nat /\ j \in Nat /\ \A k \in S : k \in Nat
        OBVIOUS
    <2>2. j \in R /\ j \notin Q
        BY <2>1
    <2>3. ASSUME NEW k \in Q PROVE k \in R
        <3>1. k \in S /\ k <= i /\ k \in Nat
            OBVIOUS
        <3>2. k <= j
            BY <2>1, <3>1
        <3> QED BY <3>1, <3>2
    <2> QED BY <2>2, <2>3
<1>2. Q \in SUBSET S /\ R \in SUBSET S
    OBVIOUS
<1> HIDE DEF Q, R
<1>3. IsFiniteSet(Q) /\ IsFiniteSet(R)
    BY <1>2, FS_Subset
<1>4. Cardinality(Q) <= Cardinality(R) /\ Cardinality(Q) # Cardinality(R)
    BY <1>1, <1>3, FS_Subset
<1>5. Cardinality(Q) < Cardinality(R)
    BY <1>3, <1>4, FS_CardinalityType
<1> QED BY <1>5 DEF Q, R

LEMMA RankTaken ==
    ASSUME NEW S \in SUBSET Nat, IsFiniteSet(S), NEW n \in 1..Cardinality(S)
    PROVE  \E i \in S : Cardinality({j \in S : j <= i}) = n
<1> DEFINE f == [i \in S |-> Cardinality({j \in S : j <= i})]
           T == 1..Cardinality(S)
<1>1. f \in Injection(S, T)
    <2>1. f \in [S -> T]
        BY RankType
    <2>2. \A i, j \in S : f[i] = f[j] => i = j
        <3> SUFFICES ASSUME NEW i \in S, NEW j \in S, f[i] = f[j], i # j PROVE FALSE
            OBVIOUS
        <3>1. i < j \/ j < i
            OBVIOUS
        <3>2. f[i] \in T /\ f[j] \in T /\ Cardinality(S) \in Nat
            <4>1. Cardinality(S) \in Nat
                BY FS_CardinalityType
            <4> HIDE DEF f, T
            <4> QED BY <2>1, <4>1
        <3>3. i < j => f[i] < f[j]
            BY RankGrows
        <3>4. j < i => f[j] < f[i]
            BY RankGrows
        <3> HIDE DEF f
        <3> QED BY <3>1, <3>2, <3>3, <3>4
    <2> HIDE DEF f, T
    <2> QED BY <2>1, <2>2 DEF Injection, IsInjective
<1>2. IsFiniteSet(T) /\ Cardinality(T) = Cardinality(S)
    <2>1. Cardinality(S) \in Nat
        BY FS_CardinalityType
    <2>2. Cardinality(T) = IF 1 > Cardinality(S) THEN 0 ELSE Cardinality(S) - 1 + 1
        BY <2>1, FS_Interval
    <2>3. IsFiniteSet(T)
        BY <2>1, FS_Interval
    <2> HIDE DEF T
    <2> QED BY <2>1, <2>2, <2>3
<1>3. f \in Surjection(S, T)
    <2> HIDE DEF f, T
    <2> QED BY <1>1, <1>2, FS_Injection
<1>4. \E i \in S : f[i] = n
    <2>1. n \in T
        OBVIOUS
    <2> HIDE DEF f, T
    <2> QED BY <1>3, <2>1 DEF Surjection
<1> QED BY <1>4

-----------------------------------------------------------------------------
\* How often k stands in the first n places of f
CountIn(f, k, n) == Cardinality({i \in 1..n : f[i] = k})

LEMMA CountInType ==
    ASSUME NEW f, NEW k, NEW n \in Nat
    PROVE  IsFiniteSet({i \in 1..n : f[i] = k}) /\ CountIn(f, k, n) \in 0..n
<1>1. IsFiniteSet(1..n) /\ Cardinality(1..n) = n
    BY FS_Interval
<1>2. {i \in 1..n : f[i] = k} \in SUBSET (1..n)
    OBVIOUS
<1>3. IsFiniteSet({i \in 1..n : f[i] = k}) /\ Cardinality({i \in 1..n : f[i] = k}) <= n
    BY <1>1, <1>2, FS_Subset
<1> QED BY <1>3, FS_CardinalityType DEF CountIn

LEMMA CountInGrows ==
    ASSUME NEW f, NEW k, NEW m \in Nat, NEW n \in Nat, m <= n
    PROVE  CountIn(f, k, m) <= CountIn(f, k, n)
<1>1. {i \in 1..m : f[i] = k} \in SUBSET {i \in 1..n : f[i] = k}
    OBVIOUS
<1>2. IsFiniteSet({i \in 1..n : f[i] = k})
    BY CountInType
<1> QED BY <1>1, <1>2, FS_Subset DEF CountIn

LEMMA CountInNext ==
    ASSUME NEW f, NEW k, NEW n \in Nat
    PROVE  CountIn(f, k, n + 1) = IF f[n + 1] = k THEN CountIn(f, k, n) + 1 ELSE CountIn(f, k, n)
<1> DEFINE S == {i \in 1..n : f[i] = k}
<1>1. {i \in 1..(n + 1) : f[i] = k} = IF f[n + 1] = k THEN S \cup {n + 1} ELSE S
    <2>1. 1..(n + 1) = (1..n) \cup {n + 1} /\ n + 1 \notin 1..n
        OBVIOUS
    <2> QED BY <2>1
<1>2. IsFiniteSet(S) /\ n + 1 \notin S
    <2>1. IsFiniteSet(S)
        BY CountInType
    <2>2. n + 1 \notin 1..n
        OBVIOUS
    <2> QED BY <2>1, <2>2
<1>3. Cardinality(S \cup {n + 1}) = Cardinality(S) + 1
    <2> HIDE DEF S
    <2> QED BY <1>2, FS_AddElement
<1> QED BY <1>1, <1>3 DEF CountIn

LEMMA CountInSame ==
    ASSUME NEW f, NEW g, NEW k, NEW n \in Nat, \A i \in 1..n : f[i] = g[i]
    PROVE  CountIn(f, k, n) = CountIn(g, k, n)
<1>1. {i \in 1..n : f[i] = k} = {i \in 1..n : g[i] = k}
    OBVIOUS
<1> QED BY <1>1 DEF CountIn

-----------------------------------------------------------------------------
\* f[k] is the sum of the first k numbers of s.
IsRunningSum(f, N, s) == f = [n \in 0..N |-> IF n = 0 THEN 0 ELSE f[n - 1] + s[n]]

LEMMA RunningSumExists ==
    ASSUME NEW N \in Nat, NEW s
    PROVE  \E f : IsRunningSum(f, N, s)
<1> DEFINE Good(n) == \E f : f = [i \in 0..n |-> IF i = 0 THEN 0 ELSE f[i - 1] + s[i]]
           Bad == {n \in Nat : ~Good(n)}
<1> SUFFICES ASSUME Bad # {} PROVE FALSE
    <2>1. CASE Bad = {}
        <3>1. PICK f : f = [i \in 0..N |-> IF i = 0 THEN 0 ELSE f[i - 1] + s[i]]
            BY <2>1
        <3> QED BY <3>1 DEF IsRunningSum
    <2> QED BY <2>1
<1>1. PICK m \in Bad : \A n \in Bad : m <= n
    <2> HIDE DEF Good
    <2> QED BY LeastNumber
<1>2. m # 0
    <2>1. Good(0)
        <3> DEFINE f == [i \in 0..0 |-> 0]
        <3>1. f = [i \in 0..0 |-> IF i = 0 THEN 0 ELSE f[i - 1] + s[i]]
            OBVIOUS
        <3> QED BY <3>1
    <2> QED BY <2>1
<1>3. PICK g : g = [i \in 0..(m - 1) |-> IF i = 0 THEN 0 ELSE g[i - 1] + s[i]]
    <2>1. m \in Nat /\ m - 1 \in Nat /\ m - 1 < m
        BY <1>2
    <2>2. m - 1 \notin Bad
        <3> HIDE DEF Bad
        <3> QED BY <1>1, <2>1
    <2>3. Good(m - 1)
        <3> HIDE DEF Good
        <3> QED BY <2>1, <2>2
    <2> QED BY <2>3
<1> DEFINE f == [i \in 0..m |-> IF i = 0 THEN 0 ELSE g[i - 1] + s[i]]
<1>4. \A i \in 0..(m - 1) : f[i] = g[i]
    BY <1>2, <1>3
<1>5. \A i \in 0..m : i # 0 => g[i - 1] = f[i - 1]
    <2> HIDE DEF f
    <2> QED BY <1>2, <1>4
<1>6. f = [i \in 0..m |-> IF i = 0 THEN 0 ELSE f[i - 1] + s[i]]
    BY <1>5
<1>7. Good(m)
    BY <1>6
<1> QED BY <1>7
===============================================================================
