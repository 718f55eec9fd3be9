-------------------------- MODULE IntervalRecursion --------------------------
(***************************************************************************)
(* Induction and recursion over an interval of numbers, and over a set     *)
(* whose elements have a rank, stated with sets and functions only: the    *)
(* proofs about what a recursive function of a specification computes rest *)
(* on the lemmas of this module.                                           *)
(*                                                                         *)
(* Everything comes from one fact of the library: the strict subsets of a  *)
(* finite set are well ordered.                                            *)
(***************************************************************************)
EXTENDS Integers, FiniteSetTheorems, TLAPS

-----------------------------------------------------------------------------
(* Induction. *)

\* A set of numbers that is not empty has a least element: the least of its
\* initial segments is that of its least element.
LEMMA LeastNumber ==
    ASSUME NEW T \in SUBSET Nat, T # {}
    PROVE  \E m \in T : \A k \in T : m <= k
<1>1. PICK n \in T : TRUE
    OBVIOUS
<1> DEFINE U == 0..n
           B == {V \in SUBSET U : \E k \in T : k <= n /\ V = 0..k}
<1>2. IsFiniteSet(U)
    BY <1>1, FS_Interval
<1>3. IsWellFoundedOn(StrictSubsetOrdering(U), FiniteSubsetsOf(U))
    <2> HIDE DEF U
    <2> QED BY FS_StrictSubsetOrderingWellFounded
<1>4. B \subseteq FiniteSubsetsOf(U)
    <2> HIDE DEF U
    <2> QED BY <1>2, FS_Subset DEF FiniteSubsetsOf
<1>5. B # {}
    <2>1. U \in B
        BY <1>1
    <2> QED BY <2>1
<1>6. PICK V \in B : \A W \in B : ~(<<W, V>> \in StrictSubsetOrdering(U))
    <2> HIDE DEF U, B
    <2> QED BY <1>3, <1>4, <1>5, WFMin
<1>7. PICK m \in T : m <= n /\ V = 0..m
    OBVIOUS
<1>8. ASSUME NEW k \in T, k < m
      PROVE  FALSE
    <2>1. 0..k \in B
        BY <1>7, <1>8
    <2>2. 0..k \subseteq V /\ 0..k # V
        BY <1>7, <1>8
    <2>3. <<0..k, V>> \in StrictSubsetOrdering(U)
        BY <2>1, <2>2 DEF StrictSubsetOrdering
    <2> QED BY <1>6, <2>1, <2>3
<1> QED BY <1>8

\* Induction over the numbers, for a set of them.
LEMMA NatSetInduction ==
    ASSUME NEW S, 0 \in S, \A n \in Nat : n \in S => n + 1 \in S
    PROVE  Nat \subseteq S
<1> DEFINE T == Nat \ S
<1> SUFFICES ASSUME T # {} PROVE FALSE
    OBVIOUS
<1>1. PICK m \in T : \A k \in T : m <= k
    <2> T \in SUBSET Nat
        OBVIOUS
    <2> HIDE DEF T
    <2> QED BY LeastNumber
<1>2. m # 0 /\ m \in Nat /\ m - 1 \in Nat
    OBVIOUS
<1>3. m - 1 \notin T
    BY <1>1, <1>2
<1> QED BY <1>2, <1>3

\* Induction over an interval, for a set of its numbers.
LEMMA IntervalInduction ==
    ASSUME NEW n \in Nat, NEW S, 0 \in S, \A i \in 1..n : i - 1 \in S => i \in S
    PROVE  \A i \in 0..n : i \in S
<1> DEFINE T == {k \in Nat : k <= n => k \in S}
<1>1. 0 \in T
    OBVIOUS
<1>2. ASSUME NEW k \in Nat, k \in T
      PROVE  k + 1 \in T
    <2>1. k + 1 <= n => k + 1 \in 1..n /\ (k + 1) - 1 = k /\ k \in S
        BY <1>2
    <2> QED BY <2>1
<1>3. Nat \subseteq T
    <2> HIDE DEF T
    <2> QED BY <1>1, <1>2, NatSetInduction
<1> QED BY <1>3

-----------------------------------------------------------------------------
(* Recursion. *)

\* The function a recursion over 0..n defines: a to begin with, and step i,
\* a function G[i] of V into V, at i.
StaysIn(V, n, G) == \A i \in 1..n : \A v \in V : G[i][v] \in V

IsIterate(f, V, n, a, G) ==
    /\ f \in [0..n -> V]
    /\ f[0] = a
    /\ \A i \in 1..n : f[i] = G[i][f[i - 1]]

LEMMA ShortIntervals == 0..0 = {0} /\ 1..0 = {}
OBVIOUS

\* There is such a function.
LEMMA IntervalRecursion ==
    ASSUME NEW n \in Nat, NEW V, NEW a \in V, NEW G, StaysIn(V, n, G)
    PROVE  \E f : IsIterate(f, V, n, a, G)
<1> USE DEF StaysIn, IsIterate
<1> DEFINE S == {k \in Nat : k <= n => \E f : IsIterate(f, V, k, a, G)}
<1>1. 0 \in S
    <2> DEFINE f == [i \in 0..0 |-> a]
    <2>1. IsIterate(f, V, 0, a, G)
        BY ShortIntervals
    <2> HIDE DEF f, IsIterate
    <2>2. \E g : IsIterate(g, V, 0, a, G)
        BY <2>1
    <2> QED BY <2>2
<1>2. ASSUME NEW k \in Nat, k \in S
      PROVE  k + 1 \in S
    <2> HIDE DEF StaysIn, IsIterate
    <2> SUFFICES ASSUME k + 1 <= n
                 PROVE  \E f : IsIterate(f, V, k + 1, a, G)
        OBVIOUS
    <2> USE DEF StaysIn, IsIterate
    <2>1. PICK f : IsIterate(f, V, k, a, G)
        BY <1>2
    <2> DEFINE v == G[k + 1][f[k]]
               h == [i \in 0..(k + 1) |-> IF i = k + 1 THEN v ELSE f[i]]
    <2>2. v \in V
        BY <2>1
    <2>3. /\ h \in [0..(k + 1) -> V] /\ h[k + 1] = v
          /\ \A i \in 0..k : h[i] = f[i]
        BY <2>1, <2>2
    <2>4. h[0] = a
        BY <2>1, <2>3
    <2>5. ASSUME NEW i \in 1..(k + 1)
          PROVE  h[i] = G[i][h[i - 1]]
        <3>1. i - 1 \in 0..k /\ h[i - 1] = f[i - 1]
            BY <2>3
        <3>2. CASE i = k + 1
            <4>1. h[k + 1] = G[k + 1][h[k]]
                BY <2>3
            <4> HIDE DEF h
            <4> QED BY <3>2, <4>1
        <3>3. CASE i # k + 1
            <4>1. i \in 1..k /\ h[i] = f[i]
                BY <3>3, <2>3
            <4> HIDE DEF h
            <4> QED BY <2>1, <3>1, <4>1
        <3> QED BY <3>2, <3>3
    <2> HIDE DEF h
    <2> QED BY <2>3, <2>4, <2>5
<1>3. n \in S
    <2> HIDE DEF S
    <2> QED BY <1>1, <1>2, NatSetInduction
<1> QED BY <1>3

\* The same over all the numbers, for one step H.
ClosedUnder(V, H) == \A v \in V : H[v] \in V

IsOrbit(f, V, a, H) == f \in [Nat -> V] /\ f[0] = a /\ \A n \in Nat : f[n + 1] = H[f[n]]

LEMMA NatRecursion ==
    ASSUME NEW V, NEW a \in V, NEW H, ClosedUnder(V, H)
    PROVE  \E f : IsOrbit(f, V, a, H)
<1> USE DEF ClosedUnder, IsOrbit
<1> DEFINE Is(f, n) == f \in [0..n -> V] /\ f[0] = a /\ \A i \in 1..n : f[i] = H[f[i - 1]]
           F == [n \in Nat |-> CHOOSE f : Is(f, n)]
           f == [n \in Nat |-> F[n][n]]
<1>1. ASSUME NEW n \in Nat
      PROVE  \E g : Is(g, n)
    <2> DEFINE G == [i \in 1..n |-> H]
    <2>1. StaysIn(V, n, G)
        BY DEF StaysIn
    <2>2. PICK g : IsIterate(g, V, n, a, G)
        <3> HIDE DEF G
        <3> QED BY <2>1, IntervalRecursion
    <2>3. Is(g, n)
        BY <2>2 DEF IsIterate
    <2> QED BY <2>3
<1>2. ASSUME NEW n \in Nat
      PROVE  Is(F[n], n)
    <2>1. Is(CHOOSE g : Is(g, n), n)
        <3> HIDE DEF Is
        <3> QED BY <1>1
    <2> QED BY <2>1
<1> HIDE DEF F
<1>3. ASSUME NEW n \in Nat
      PROVE  F[n + 1][n] = F[n][n]
    <2> DEFINE g == F[n]
               h == F[n + 1]
               S == {i \in 0..n : h[i] = g[i]}
    <2>0. n + 1 \in Nat
        OBVIOUS
    <2>1. Is(g, n) /\ Is(h, n + 1)
        BY <1>2, <2>0
    <2> HIDE DEF g, h
    <2>2. 0 \in S
        BY <2>1
    <2>3. \A i \in 1..n : i - 1 \in S => i \in S
        BY <2>1
    <2>4. \A i \in 0..n : i \in S
        <3> HIDE DEF S
        <3> QED BY <2>2, <2>3, IntervalInduction
    <2>5. h[n] = g[n]
        BY <2>4
    <2> QED BY <2>5 DEF g, h
<1>4. \A n \in Nat : F[n][n] \in V
    BY <1>2
<1>5. f \in [Nat -> V]
    BY <1>4
<1>6. f[0] = a
    BY <1>2
<1>7. ASSUME NEW n \in Nat
      PROVE  f[n + 1] = H[f[n]]
    <2>1. n + 1 \in Nat /\ n + 1 \in 1..(n + 1) /\ (n + 1) - 1 = n
        OBVIOUS
    <2>2. F[n + 1][n + 1] = H[F[n + 1][n]]
        BY <1>2, <2>1
    <2> QED BY <1>3, <2>1, <2>2
<1> QED BY <1>5, <1>6, <1>7

-----------------------------------------------------------------------------
(* A set that is made to grow, as many times as it may have elements, has  *)
(* stopped growing: f[i + 1] adds to f[i] what the step H adds to it.      *)

GrowsIn(U, H) == \A X \in SUBSET U : X \subseteq H[X] /\ H[X] \subseteq U

Repeats(f, U, n, H) == f[0] \subseteq U /\ \A i \in 1..n : f[i] = H[f[i - 1]]

LEMMA GrowthStops ==
    ASSUME NEW U, IsFiniteSet(U), NEW n \in Nat, Cardinality(U) <= n,
           NEW H, GrowsIn(U, H), NEW f, Repeats(f, U, n, H)
    PROVE  f[n] \subseteq U /\ H[f[n]] = f[n]
<1> USE DEF GrowsIn, Repeats
<1> DEFINE S == {i \in 0..n : f[i] \subseteq U}
           Stopped == {i \in 0..n : H[f[i]] = f[i]}
           R == {i \in 0..n : i \in Stopped \/ Cardinality(f[i]) >= i}
<1>1. \A i \in 0..n : f[i] \subseteq U
    <2>1. 0 \in S
        OBVIOUS
    <2>2. ASSUME NEW i \in 1..n, i - 1 \in S PROVE i \in S
        BY <2>2
    <2>3. \A i \in 0..n : i \in S
        <3> HIDE DEF S
        <3> QED BY <2>1, <2>2, IntervalInduction
    <2> QED BY <2>3
<1>2. \A i \in 1..n : i - 1 \in Stopped => i \in Stopped
    OBVIOUS
<1>3. \A i \in 0..n : i \in R
    <2>1. 0 \in R
        <3>1. Cardinality(f[0]) \in Nat
            BY FS_Subset, FS_CardinalityType
        <3> QED BY <3>1
    <2>2. ASSUME NEW i \in 1..n, i - 1 \in R, i \notin Stopped
          PROVE  Cardinality(f[i]) >= i
        <3>1. i - 1 \in 0..n /\ i - 1 \notin Stopped
            BY <1>2, <2>2
        <3>2. f[i] = H[f[i - 1]] /\ f[i - 1] \subseteq f[i] /\ f[i - 1] # f[i]
            BY <1>1, <3>1
        <3>3. IsFiniteSet(f[i]) /\ IsFiniteSet(f[i - 1])
            BY <1>1, <3>1, FS_Subset
        <3>4. /\ Cardinality(f[i]) \in Nat /\ Cardinality(f[i - 1]) \in Nat
              /\ Cardinality(f[i - 1]) < Cardinality(f[i])
            BY <3>2, <3>3, FS_Subset, FS_CardinalityType
        <3>5. Cardinality(f[i - 1]) >= i - 1
            BY <2>2, <3>1
        <3> QED BY <3>4, <3>5
    <2>3. \A i \in 1..n : i - 1 \in R => i \in R
        BY <2>2
    <2> HIDE DEF R
    <2> QED BY <2>1, <2>3, IntervalInduction
<1>4. n \in 0..n /\ f[n] \subseteq U /\ f[n] \subseteq H[f[n]] /\ H[f[n]] \subseteq U
    BY <1>1
<1>5. CASE n \notin Stopped
    <2>1. Cardinality(f[n]) >= n
        BY <1>3, <1>4, <1>5
    <2>2. Cardinality(f[n]) \in Nat /\ Cardinality(U) \in Nat
        BY <1>4, FS_Subset, FS_CardinalityType
    <2>3. Cardinality(f[n]) = Cardinality(U)
        BY <1>4, <2>1, <2>2, FS_Subset
    <2>4. f[n] = U
        BY <1>4, <2>3, FS_Subset
    <2> QED BY <1>4, <2>4
<1> QED BY <1>4, <1>5

-----------------------------------------------------------------------------
(* Recursion and induction over a set whose elements have a rank. *)

Local(C, R, V, H) ==
    \A f \in [C -> V], x \in C :
        /\ H[<<f, x>>] \in V
        /\ \A g \in [C -> V] : (\A y \in C : R[y] < R[x] => f[y] = g[y]) => H[<<f, x>>] = H[<<g, x>>]

Solution(f, C, V, H) == f \in [C -> V] /\ \A x \in C : f[x] = H[<<f, x>>]

\* A step that looks at smaller elements only has a function that it leaves alone.
LEMMA RankRecursion ==
    ASSUME NEW C, NEW R \in [C -> Nat], NEW V, V # {}, NEW H, Local(C, R, V, H)
    PROVE  \E f : Solution(f, C, V, H)
<1> DEFINE W == [C -> V]
           step == [f \in W |-> [x \in C |-> H[<<f, x>>]]]
<1>1. PICK a : a \in W
    <2>1. PICK v \in V : TRUE
        OBVIOUS
    <2>2. [x \in C |-> v] \in W
        BY <2>1
    <2> QED BY <2>2
<1>2. ClosedUnder(W, step)
    BY DEF ClosedUnder, Local
<1>3. PICK o : IsOrbit(o, W, a, step)
    <2> HIDE DEF W, step
    <2> QED BY <1>1, <1>2, NatRecursion
<1>4. \A n \in Nat : o[n] \in W
    BY <1>3 DEF IsOrbit
<1>5. ASSUME NEW n \in Nat, NEW x \in C
      PROVE  o[n + 1][x] = H[<<o[n], x>>]
    <2>1. o[n + 1] = step[o[n]]
        BY <1>3 DEF IsOrbit
    <2> QED BY <1>4, <2>1
<1> DEFINE S == {n \in Nat : \A m \in Nat, x \in C : n <= m /\ R[x] < n => o[m][x] = o[n][x]}
<1>6. Nat \subseteq S
    <2>1. 0 \in S
        OBVIOUS
    <2>2. ASSUME NEW n \in Nat, n \in S
          PROVE  n + 1 \in S
        <3>1. ASSUME NEW m \in Nat, NEW x \in C, n + 1 <= m, R[x] < n + 1
              PROVE  o[m][x] = o[n + 1][x]
            <4>1. m - 1 \in Nat /\ n <= m - 1 /\ (m - 1) + 1 = m
                BY <3>1
            <4>2. \A y \in C : R[y] < R[x] => o[m - 1][y] = o[n][y]
                BY <2>2, <3>1, <4>1
            <4>3. H[<<o[m - 1], x>>] = H[<<o[n], x>>]
                BY <1>4, <4>1, <4>2 DEF Local
            <4> QED BY <1>5, <4>1, <4>3
        <3> QED BY <3>1
    <2> HIDE DEF S
    <2> QED BY <2>1, <2>2, NatSetInduction
<1> DEFINE f == [x \in C |-> o[R[x] + 1][x]]
<1>7. f \in W
    BY <1>4
<1>8. ASSUME NEW x \in C
      PROVE  f[x] = H[<<f, x>>]
    <2>1. ASSUME NEW y \in C, R[y] < R[x]
          PROVE  f[y] = o[R[x]][y]
        <3>1. R[y] + 1 \in S /\ R[x] \in Nat /\ R[y] + 1 <= R[x] /\ R[y] < R[y] + 1
            BY <1>6, <2>1
        <3>2. o[R[x]][y] = o[R[y] + 1][y]
            BY <3>1
        <3> QED BY <3>2
    <2>2. o[R[x]] \in W
        BY <1>4
    <2>3. H[<<f, x>>] = H[<<o[R[x]], x>>]
        <3> HIDE DEF f
        <3> QED BY <1>7, <2>1, <2>2 DEF Local
    <2> QED BY <1>5, <2>3
<1> QED BY <1>7, <1>8 DEF Solution

LEMMA RankInduction ==
    ASSUME NEW C, NEW R \in [C -> Nat], NEW S,
           \A x \in C : (\A y \in C : R[y] < R[x] => y \in S) => x \in S
    PROVE  C \subseteq S
<1> DEFINE N == {n \in Nat : \A x \in C : R[x] < n => x \in S}
<1>1. 0 \in N
    OBVIOUS
<1>2. ASSUME NEW n \in Nat, n \in N
      PROVE  n + 1 \in N
    <2>1. ASSUME NEW x \in C, R[x] < n + 1
          PROVE  x \in S
        <3>1. \A y \in C : R[y] < R[x] => R[y] < n
            BY <2>1
        <3> QED BY <1>2, <3>1
    <2> QED BY <2>1
<1>3. Nat \subseteq N
    <2> HIDE DEF N
    <2> QED BY <1>1, <1>2, NatSetInduction
<1>4. \A x \in C : R[x] + 1 \in N /\ R[x] < R[x] + 1
    BY <1>3
<1> QED BY <1>4

\* What only grows with the set it is given leaves some set alone.
Monotone(C, H) == \A X \in SUBSET C : H[X] \subseteq C /\ \A Y \in SUBSET C : X \subseteq Y => H[X] \subseteq H[Y]

LEMMA FixedPoint ==
    ASSUME NEW C, NEW H, Monotone(C, H)
    PROVE  \E X \in SUBSET C : H[X] = X
<1> DEFINE X == UNION {S \in SUBSET C : S \subseteq H[S]}
<1>1. X \in SUBSET C
    OBVIOUS
<1>2. X \subseteq H[X]
    <2>1. ASSUME NEW S \in SUBSET C, S \subseteq H[S]
          PROVE  S \subseteq H[X]
        <3>1. S \subseteq X
            BY <2>1
        <3> HIDE DEF X
        <3> QED BY <1>1, <2>1, <3>1 DEF Monotone
    <2> QED BY <2>1
<1>3. H[X] \subseteq X
    <2>1. H[X] \in SUBSET C
        <3> HIDE DEF X
        <3> QED BY <1>1 DEF Monotone
    <2>2. H[X] \subseteq H[H[X]]
        <3> HIDE DEF X
        <3> QED BY <1>1, <1>2, <2>1 DEF Monotone
    <2> QED BY <2>1, <2>2
<1> QED BY <1>1, <1>2, <1>3

=============================================================================
