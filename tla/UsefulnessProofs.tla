--------------------------- MODULE UsefulnessProofs ---------------------------
(***************************************************************************)
(* The checks of a match are right, for every program: Usefulness's        *)
(* UnreachableIsDead, PassedIsLive and OkIsExhaustive are invariants of    *)
(* USpec, whatever the types, the patterns, however deep, and the arms.    *)
(* Then, for MatchTreeProofs: Compile is what its definition says.         *)
(*                                                                         *)
(* The argument.  A vector of values is left by rows if it fits the        *)
(* pattern vector and no row (Live).  A call of is_useful is right         *)
(* (Right) if it says yes only when a vector is left, and also whenever    *)
(* one is, if the rows are tidy: no constructor that get_constructors      *)
(* appends without looking is in two rows or twice in one.                 *)
(*   - A constructor c takes the vectors whose first value has its tag to  *)
(*     the vectors that Specialize is about, and every one of those comes  *)
(*     from such a vector (OpenedType, Closed, CoveredUnder).              *)
(*   - Under a wildcard, either every tag of the type is among the         *)
(*     collected constructors, if they are counted once (AllAreThere), or  *)
(*     one is missing, and a value with that tag fits the rows that start  *)
(*     with a wildcard and no others (OneIsMissing, CoveredDefault).       *)
(*   - Specialize and DefaultMatrix keep the rows typed, and tidy: if two  *)
(*     rows come from one, its alternatives do not exclude each other, and *)
(*     then it has no constructor that is appended without looking         *)
(*     (TidyUnder, TidyDefault).                                           *)
(* The calls have no common measure that is a number: a wildcard under a   *)
(* constructor becomes as many wildcards as it has parts.  The induction   *)
(* is on how large the patterns of each column may be (RightUpTo): a       *)
(* column is replaced by any number of smaller ones, or goes.              *)
(*                                                                         *)
(* The matrix holds the patterns of the unguarded arms before idx, each    *)
(* once (MatrixIsArms): what is left by it is what they do not take        *)
(* (LiveIsLeft), and by CountedOnce it is tidy (ArmsAreTidy).              *)
(*                                                                         *)
(* compile_matrix makes its node from the nodes of other matrices.  These  *)
(* weigh less (Weigh): a row weighs a power of two, so that one with an    *)
(* alternative less is at most half as heavy.  Hence CompileDef.           *)
(***************************************************************************)
EXTENDS MatchTree, IntervalRecursion, SequenceTheorems

-----------------------------------------------------------------------------
(* Sequences of sequences, one after the other. *)

\* Element k of s is element c[k] of row r[k], of n rows.
IsIndex(r, c, n, ss, s) ==
    /\ \A k \in 1..Len(s) : r[k] \in 1..n /\ c[k] \in 1..Len(ss[r[k]]) /\ s[k] = ss[r[k]][c[k]]
    /\ \A k, m \in 1..Len(s) : k # m => r[k] # r[m] \/ c[k] # c[m]
    /\ \A i \in 1..n : \A j \in 1..Len(ss[i]) : \E k \in 1..Len(s) : r[k] = i /\ c[k] = j
    /\ \A k, m \in 1..Len(s) : k < m => r[k] <= r[m]
    /\ \A k, m \in 1..Len(s) : k < m /\ r[k] = r[m] => c[k] < c[m]

LEMMA IndexLonger ==
    ASSUME NEW A, NEW ss, NEW n \in Nat, ss[n + 1] \in Seq(A), NEW s \in Seq(A),
           NEW r, NEW c, IsIndex(r, c, n, ss, s)
    PROVE  \E d : IsIndex([k \in 1..Len(s \o ss[n + 1]) |-> IF k <= Len(s) THEN r[k] ELSE n + 1], d, n + 1, ss, s \o ss[n + 1])
<1> DEFINE t == s \o ss[n + 1]
           q == [k \in 1..Len(t) |-> IF k <= Len(s) THEN r[k] ELSE n + 1]
           d == [k \in 1..Len(t) |-> IF k <= Len(s) THEN c[k] ELSE k - Len(s)]
           l == Len(s)
           o == Len(ss[n + 1])
<1>1. /\ t \in Seq(A) /\ Len(t) = l + o /\ l \in Nat /\ o \in Nat
      /\ \A k \in 1..Len(t) : t[k] = IF k <= l THEN s[k] ELSE ss[n + 1][k - l]
    BY ConcatProperties, LenProperties
<1> HIDE DEF t
<1>2. ASSUME NEW k \in 1..Len(t)
      PROVE  q[k] \in 1..(n + 1) /\ d[k] \in 1..Len(ss[q[k]]) /\ t[k] = ss[q[k]][d[k]]
    <2>1. CASE k <= l
        <3>1. k \in 1..Len(s)
            BY <1>1, <2>1
        <3>2. q[k] = r[k] /\ d[k] = c[k] /\ t[k] = s[k]
            BY <1>1, <2>1
        <3>3. r[k] \in 1..n /\ c[k] \in 1..Len(ss[r[k]]) /\ s[k] = ss[r[k]][c[k]]
            BY <3>1 DEF IsIndex
        <3> QED BY <3>2, <3>3
    <2>2. CASE ~(k <= l)
        <3>1. q[k] = n + 1 /\ d[k] = k - l /\ t[k] = ss[n + 1][k - l] /\ k - l \in 1..o
            BY <1>1, <2>2
        <3> QED BY <3>1
    <2> QED BY <2>1, <2>2
<1>3. ASSUME NEW k \in 1..Len(t), NEW m \in 1..Len(t), k # m
      PROVE  q[k] # q[m] \/ d[k] # d[m]
    <2>1. CASE k <= l /\ m <= l
        <3>1. k \in 1..Len(s) /\ m \in 1..Len(s)
            BY <1>1, <2>1
        <3> QED BY <1>3, <2>1, <3>1 DEF IsIndex
    <2>2. CASE k <= l /\ ~(m <= l)
        <3>1. k \in 1..Len(s)
            BY <1>1, <2>2
        <3>2. r[k] \in 1..n
            BY <3>1 DEF IsIndex
        <3> QED BY <2>2, <3>2
    <2>3. CASE ~(k <= l) /\ m <= l
        <3>1. m \in 1..Len(s)
            BY <1>1, <2>3
        <3>2. r[m] \in 1..n
            BY <3>1 DEF IsIndex
        <3> QED BY <2>3, <3>2
    <2>4. CASE ~(k <= l) /\ ~(m <= l)
        BY <1>1, <1>3, <2>4
    <2> QED BY <2>1, <2>2, <2>3, <2>4
<1>4. ASSUME NEW i \in 1..(n + 1), NEW j \in 1..Len(ss[i])
      PROVE  \E k \in 1..Len(t) : q[k] = i /\ d[k] = j
    <2>1. CASE i \in 1..n
        <3>1. PICK k \in 1..Len(s) : r[k] = i /\ c[k] = j
            BY <2>1 DEF IsIndex
        <3>2. k \in 1..Len(t) /\ k <= l
            BY <1>1
        <3> QED BY <3>1, <3>2
    <2>2. CASE i = n + 1
        <3>1. j + l \in 1..Len(t) /\ ~(j + l <= l) /\ (j + l) - l = j
            BY <1>1, <2>2
        <3> QED BY <2>2, <3>1
    <2> QED BY <2>1, <2>2
<1>5. ASSUME NEW k \in 1..Len(t), NEW m \in 1..Len(t), k < m
      PROVE  q[k] <= q[m]
    <2>1. CASE m <= l
        <3>1. k \in 1..Len(s) /\ m \in 1..Len(s) /\ k <= l
            BY <1>1, <1>5, <2>1
        <3>2. r[k] <= r[m]
            BY <1>5, <3>1 DEF IsIndex
        <3> QED BY <2>1, <3>1, <3>2
    <2>2. CASE ~(m <= l)
        <3>1. q[m] = n + 1 /\ q[k] \in 1..(n + 1)
            BY <1>2, <2>2
        <3> QED BY <3>1
    <2> QED BY <2>1, <2>2
<1>7. ASSUME NEW k \in 1..Len(t), NEW m \in 1..Len(t), k < m, q[k] = q[m]
      PROVE  d[k] < d[m]
    <2>1. CASE m <= l
        <3>1. k \in 1..Len(s) /\ m \in 1..Len(s) /\ k <= l
            BY <1>1, <1>7, <2>1
        <3>2. r[k] = r[m] => c[k] < c[m]
            BY <1>7, <3>1 DEF IsIndex
        <3> QED BY <1>7, <2>1, <3>1, <3>2
    <2>2. CASE k <= l /\ ~(m <= l)
        <3>1. k \in 1..Len(s)
            BY <1>1, <2>2
        <3>2. r[k] \in 1..n
            BY <3>1 DEF IsIndex
        <3> QED BY <1>7, <2>2, <3>2
    <2>3. CASE ~(k <= l)
        BY <1>1, <1>7, <2>3
    <2> QED BY <1>1, <2>1, <2>2, <2>3
<1>8. IsIndex(q, d, n + 1, ss, t)
    <2> HIDE DEF q, d
    <2> QED BY <1>2, <1>3, <1>4, <1>5, <1>7 DEF IsIndex
<1> HIDE DEF d
<1> QED BY <1>8 DEF t, q

LEMMA RowsLonger ==
    ASSUME NEW A, NEW B, NEW ss, NEW n \in Nat, ss[n + 1] \in Seq(A), NEW s \in Seq(A),
           NEW r \in Seq(B), Len(r) = Len(s), NEW c, IsIndex(r, c, n, ss, s),
           NEW row \in Seq(B), Len(row) = Len(ss[n + 1]), \A k \in 1..Len(row) : row[k] = n + 1
    PROVE  /\ \E d : IsIndex(r \o row, d, n + 1, ss, s \o ss[n + 1])
           /\ Len(r \o row) = Len(s \o ss[n + 1])
<1> DEFINE q == r \o row
           t == s \o ss[n + 1]
           l == Len(s)
           o == Len(ss[n + 1])
<1>1. l \in Nat /\ o \in Nat /\ Len(row) = o
    BY LenProperties
<1>2. Len(t) = l + o
    BY ConcatProperties
<1>3. q \in Seq(B) /\ Len(q) = l + o /\ \A k \in 1..(l + o) : q[k] = IF k <= l THEN r[k] ELSE row[k - l]
    <2>1. /\ q \in Seq(B) /\ Len(q) = Len(r) + Len(row)
          /\ \A k \in 1..(Len(r) + Len(row)) : q[k] = IF k <= Len(r) THEN r[k] ELSE row[k - Len(r)]
        <3>1. \A S : \A x, y \in Seq(S) : LET z == x \o y
                                          IN /\ z \in Seq(S) /\ Len(z) = Len(x) + Len(y)
                                             /\ \A k \in 1..(Len(x) + Len(y)) : z[k] = IF k <= Len(x) THEN x[k] ELSE y[k - Len(x)]
            BY ConcatProperties
        <3> QED BY <3>1, Zenon
    <2> HIDE DEF q, o
    <2> QED BY <1>1, <2>1
<1>4. \A k \in 1..(l + o) : ~(k <= l) => k - l \in 1..o
    BY <1>1
<1>5. \A k \in 1..o : row[k] = n + 1
    BY <1>1
<1> HIDE DEF q, t, l, o
<1>6. \A k \in 1..(l + o) : q[k] = IF k <= l THEN r[k] ELSE n + 1
    BY <1>3, <1>4, <1>5
<1>7. q = [k \in 1..Len(q) |-> q[k]]
    BY <1>3
<1>8. q = [k \in 1..Len(t) |-> IF k <= l THEN r[k] ELSE n + 1]
    BY <1>2, <1>3, <1>6, <1>7
<1>9. \E d : IsIndex([k \in 1..Len(t) |-> IF k <= l THEN r[k] ELSE n + 1], d, n + 1, ss, t)
    BY IndexLonger DEF t, l
<1>10. \E d : IsIndex(q, d, n + 1, ss, t)
    BY <1>8, <1>9
<1> QED BY <1>2, <1>3, <1>10 DEF q, t

\* FlattenSeq puts one sequence after the other.
AreSteps(F, A, ss) ==
    /\ F[1] = ss[1] /\ FlattenSeq(ss) = F[Len(ss)]
    /\ \A i \in 1..Len(ss) : F[i] \in Seq(A) /\ (i # 1 => F[i] = F[i - 1] \o ss[i])

LEMMA FlattenSteps ==
    ASSUME NEW A, NEW ss \in Seq(Seq(A)), ss # <<>>
    PROVE  \E F : AreSteps(F, A, ss)
<1> DEFINE n == Len(ss)
<1>1. n \in Nat /\ \A i \in 1..n : ss[i] \in Seq(A)
    OBVIOUS
<1>2. n # 0
    BY <1>1, EmptySeq
<1> DEFINE C == 1..n
           R == [i \in C |-> i]
           H == [x \in [C -> Seq(A)] \X C |-> IF x[2] = 1 THEN ss[1] ELSE x[1][x[2] - 1] \o ss[x[2]]]
           Is(f) == f = [i \in C |-> IF i = 1 THEN ss[i] ELSE f[i - 1] \o ss[i]]
           F == CHOOSE f : Is(f)
<1>3. Local(C, R, Seq(A), H)
    <2>1. ASSUME NEW f \in [C -> Seq(A)], NEW x \in C
          PROVE  H[<<f, x>>] = IF x = 1 THEN ss[1] ELSE f[x - 1] \o ss[x]
        OBVIOUS
    <2>2. ASSUME NEW f \in [C -> Seq(A)], NEW x \in C, x # 1
          PROVE  x - 1 \in C /\ R[x - 1] < R[x] /\ f[x - 1] \in Seq(A)
        <3>1. x - 1 \in C /\ R[x - 1] < R[x]
            BY <2>2
        <3> HIDE DEF C
        <3> QED BY <3>1
    <2>3. ASSUME NEW f \in [C -> Seq(A)], NEW x \in C
          PROVE  H[<<f, x>>] \in Seq(A)
        <3>1. x # 1 => f[x - 1] \o ss[x] \in Seq(A)
            BY <1>1, <2>2, ConcatProperties
        <3>2. 1 \in C
            BY <1>1, <1>2
        <3> HIDE DEF H, C
        <3> QED BY <2>1, <3>1, <3>2, <1>1 DEF C
    <2>4. ASSUME NEW f \in [C -> Seq(A)], NEW x \in C, NEW g \in [C -> Seq(A)],
                 \A y \in C : R[y] < R[x] => f[y] = g[y]
          PROVE  H[<<f, x>>] = H[<<g, x>>]
        <3>1. x # 1 => f[x - 1] = g[x - 1]
            BY <2>2, <2>4
        <3> HIDE DEF H, C, R
        <3>2. H[<<f, x>>] = IF x = 1 THEN ss[1] ELSE f[x - 1] \o ss[x]
            BY <2>1
        <3>3. H[<<g, x>>] = IF x = 1 THEN ss[1] ELSE g[x - 1] \o ss[x]
            BY <2>1
        <3> QED BY <3>1, <3>2, <3>3
    <2> HIDE DEF H, C, R
    <2> QED BY <2>3, <2>4, Zenon DEF Local
<1>4. \E f : Is(f)
    <2>0. R \in [C -> Nat] /\ Seq(A) # {}
        BY EmptySeq
    <2>1. PICK f : Solution(f, C, Seq(A), H)
        <3> HIDE DEF R, C, H
        <3> QED BY <1>3, <2>0, RankRecursion
    <2>2. f \in [C -> Seq(A)] /\ \A x \in C : f[x] = IF x = 1 THEN ss[x] ELSE f[x - 1] \o ss[x]
        <3>1. f \in [C -> Seq(A)] /\ \A x \in C : f[x] = H[<<f, x>>]
            <4> HIDE DEF C, H
            <4> QED BY <2>1 DEF Solution
        <3>2. ASSUME NEW x \in C
              PROVE  H[<<f, x>>] = IF x = 1 THEN ss[x] ELSE f[x - 1] \o ss[x]
            <4> HIDE DEF C
            <4>1. H[<<f, x>>] = IF x = 1 THEN ss[1] ELSE f[x - 1] \o ss[x]
                BY <3>1
            <4> QED BY <4>1
        <3> HIDE DEF H, C
        <3> QED BY <3>1, <3>2
    <2>3. Is(f)
        <3> HIDE DEF C
        <3> QED BY <2>2
    <2> QED BY <2>3
<1>5. Is(F)
    <2> HIDE DEF Is
    <2> QED BY <1>4
<1>6. FlattenSeq(ss) = F[n]
    BY <1>2, Zenon DEF FlattenSeq
<1> HIDE DEF F
<1>7. F[1] = ss[1] /\ \A i \in C : i # 1 => F[i] = F[i - 1] \o ss[i]
    <2>1. 1 \in C
        BY <1>1, <1>2
    <2> HIDE DEF C
    <2> QED BY <1>5, <2>1
<1>8. \A i \in C : F[i] \in Seq(A)
    <2> DEFINE S == {i \in 0..n : i # 0 => F[i] \in Seq(A)}
    <2>1. 0 \in S
        OBVIOUS
    <2>2. ASSUME NEW i \in 1..n, i - 1 \in S
          PROVE  i \in S
        <3>1. i = 1 => F[i] \in Seq(A)
            BY <1>1, <1>7
        <3>2. i # 1 => F[i] \in Seq(A)
            <4>1. ASSUME i # 1
                  PROVE  F[i - 1] \in Seq(A) /\ ss[i] \in Seq(A) /\ F[i] = F[i - 1] \o ss[i]
                <5>1. i - 1 # 0 /\ i \in C
                    BY <4>1
                <5>2. F[i - 1] \in Seq(A)
                    BY <2>2, <5>1
                <5> HIDE DEF C
                <5> QED BY <1>1, <1>7, <4>1, <5>1, <5>2 DEF C
            <4> QED BY <4>1, ConcatProperties
        <3> QED BY <3>1, <3>2
    <2>3. \A i \in 0..n : i \in S
        <3> HIDE DEF S
        <3> QED BY <1>1, <2>1, <2>2, IntervalInduction
    <2> QED BY <2>3
<1> QED BY <1>6, <1>7, <1>8 DEF AreSteps

RowsIn(ss) == [i \in DOMAIN ss |-> [k \in DOMAIN ss[i] |-> i]]

LEMMA RowsInFacts ==
    ASSUME NEW A, NEW ss \in Seq(Seq(A))
    PROVE  /\ RowsIn(ss) \in Seq(Seq(Nat)) /\ Len(RowsIn(ss)) = Len(ss)
           /\ \A i \in 1..Len(ss) : /\ RowsIn(ss)[i] \in Seq(Nat) /\ Len(RowsIn(ss)[i]) = Len(ss[i])
                                    /\ \A k \in 1..Len(ss[i]) : RowsIn(ss)[i][k] = i
<1> DEFINE n == Len(ss)
           rr == RowsIn(ss)
<1>1. n \in Nat /\ DOMAIN ss = 1..n /\ \A i \in 1..n : ss[i] \in Seq(A)
    OBVIOUS
<1>2. rr = [i \in 1..n |-> [k \in DOMAIN ss[i] |-> i]]
    BY <1>1 DEF RowsIn
<1> HIDE DEF rr, n
<1>3. ASSUME NEW i \in 1..n
      PROVE  rr[i] \in Seq(Nat) /\ Len(rr[i]) = Len(ss[i]) /\ \A k \in 1..Len(ss[i]) : rr[i][k] = i
    <2> DEFINE m == Len(ss[i])
    <2>1. m \in Nat /\ DOMAIN ss[i] = 1..m /\ i \in Nat
        BY <1>1
    <2> HIDE DEF m
    <2>2. rr[i] = [k \in 1..m |-> i]
        BY <1>2, <2>1
    <2>3. [k \in 1..m |-> i] \in Seq(Nat) /\ Len([k \in 1..m |-> i]) = m
        BY <2>1
    <2> QED BY <2>2, <2>3 DEF m
<1>4. rr \in [1..n -> Seq(Nat)]
    BY <1>2, <1>3
<1>5. \A B : rr \in [1..n -> B] => rr \in Seq(B) /\ Len(rr) = n
    BY <1>1
<1> QED BY <1>3, <1>4, <1>5 DEF rr, n

\* The rows of the elements, one after the other, are an index of them.
LEMMA RowsFlattened ==
    ASSUME NEW A, NEW ss \in Seq(Seq(A))
    PROVE  LET r == FlattenSeq(RowsIn(ss))
           IN  /\ FlattenSeq(ss) \in Seq(A) /\ r \in Seq(Nat) /\ Len(r) = Len(FlattenSeq(ss))
               /\ \E c : IsIndex(r, c, Len(ss), ss, FlattenSeq(ss))
<1> DEFINE n == Len(ss)
           rr == RowsIn(ss)
<1>1. n \in Nat /\ \A i \in 1..n : ss[i] \in Seq(A)
    OBVIOUS
<1>4. /\ rr \in Seq(Seq(Nat)) /\ Len(rr) = n
      /\ \A i \in 1..n : rr[i] \in Seq(Nat) /\ Len(rr[i]) = Len(ss[i]) /\ \A k \in 1..Len(rr[i]) : rr[i][k] = i
    BY RowsInFacts
<1> HIDE DEF rr
<1>2. CASE n = 0
    <2>1. ss = <<>> /\ rr = <<>>
        BY <1>2, <1>4
    <2>2. FlattenSeq(ss) = <<>> /\ FlattenSeq(rr) = <<>>
        BY <2>1 DEF FlattenSeq
    <2>3. IsIndex(<<>>, <<>>, 0, ss, <<>>)
        BY DEF IsIndex
    <2> QED BY <1>2, <2>2, <2>3 DEF rr
<1>3. CASE n # 0
    <2>1. PICK F : AreSteps(F, A, ss)
        <3>1. ss # <<>>
            BY <1>3
        <3> QED BY <3>1, FlattenSteps
    <2>2. PICK G : AreSteps(G, Nat, rr)
        <3>1. rr # <<>>
            BY <1>3, <1>4
        <3> QED BY <1>4, <3>1, FlattenSteps
    <2>3. FlattenSeq(ss) = F[n] /\ F[1] = ss[1] /\ \A i \in 1..n : F[i] \in Seq(A) /\ (i # 1 => F[i] = F[i - 1] \o ss[i])
        BY <2>1 DEF AreSteps
    <2>4. FlattenSeq(rr) = G[n] /\ G[1] = rr[1] /\ \A i \in 1..n : G[i] \in Seq(Nat) /\ (i # 1 => G[i] = G[i - 1] \o rr[i])
        BY <1>4, <2>2 DEF AreSteps
    <2> HIDE DEF n
    <2> DEFINE S == {i \in 0..n : i # 0 => Len(G[i]) = Len(F[i]) /\ \E c : IsIndex(G[i], c, i, ss, F[i])}
    <2>6. 0 \in S
        BY <1>1
    <2>7. ASSUME NEW i \in 1..n, i - 1 \in S
          PROVE  i \in S
        <3> DEFINE m == i - 1
        <3>0. m \in Nat /\ m + 1 = i /\ i \in 0..n /\ ss[i] \in Seq(A) /\ rr[i] \in Seq(Nat) /\ Len(rr[i]) = Len(ss[i])
              /\ \A k \in 1..Len(rr[i]) : rr[i][k] = i
            BY <1>1, <1>4
        <3>3. ASSUME NEW s \in Seq(A), NEW r \in Seq(Nat), Len(r) = Len(s), NEW c, IsIndex(r, c, m, ss, s),
                     F[i] = s \o ss[i], G[i] = r \o rr[i]
              PROVE  i \in S
            <4> HIDE DEF m
            <4>1. /\ \E d : IsIndex(r \o rr[m + 1], d, m + 1, ss, s \o ss[m + 1])
                  /\ Len(r \o rr[m + 1]) = Len(s \o ss[m + 1])
                <5> DEFINE row == rr[m + 1]
                <5>1. /\ m \in Nat /\ ss[m + 1] \in Seq(A) /\ row \in Seq(Nat) /\ Len(row) = Len(ss[m + 1])
                      /\ \A k \in 1..Len(row) : row[k] = m + 1
                    BY <3>0
                <5> HIDE DEF row
                <5>2. /\ \E d : IsIndex(r \o row, d, m + 1, ss, s \o ss[m + 1])
                      /\ Len(r \o row) = Len(s \o ss[m + 1])
                    BY <3>3, <5>1, RowsLonger
                <5> QED BY <5>2 DEF row
            <4> QED BY <3>0, <3>3, <4>1
        <3>1. CASE i = 1
            <4>1. IsIndex(<<>>, <<>>, m, ss, <<>>)
                BY <3>1 DEF IsIndex
            <4>2. F[i] = <<>> \o ss[i] /\ G[i] = <<>> \o rr[i]
                BY <2>3, <2>4, <3>0, <3>1, ConcatEmptySeq
            <4>3. <<>> \in Seq(A) /\ <<>> \in Seq(Nat)
                OBVIOUS
            <4> HIDE DEF m, S
            <4> QED BY <3>3, <4>1, <4>2, <4>3
        <3>2. CASE i # 1
            <4>1. F[i] = F[m] \o ss[i] /\ G[i] = G[m] \o rr[i]
                BY <2>3, <2>4, <3>2
            <4>2. m \in 1..n /\ m # 0
                BY <1>1, <3>0, <3>2
            <4>3. F[m] \in Seq(A) /\ G[m] \in Seq(Nat)
                <5> HIDE DEF m
                <5> QED BY <2>3, <2>4, <4>2
            <4>4. Len(G[m]) = Len(F[m]) /\ \E c : IsIndex(G[m], c, m, ss, F[m])
                BY <2>7, <4>2
            <4> HIDE DEF m, S
            <4> QED BY <3>3, <4>1, <4>3, <4>4
        <3> QED BY <3>1, <3>2
    <2>8. \A i \in 0..n : i \in S
        <3> HIDE DEF S
        <3> QED BY <1>1, <2>6, <2>7, IntervalInduction
    <2>9. n \in 0..n /\ n \in 1..n
        BY <1>1, <1>3
    <2>10. Len(G[n]) = Len(F[n]) /\ \E c : IsIndex(G[n], c, n, ss, F[n])
        BY <1>3, <2>8, <2>9
    <2> QED BY <2>3, <2>4, <2>9, <2>10 DEF rr, n
<1> QED BY <1>2, <1>3

LEMMA Flattened ==
    ASSUME NEW A, NEW ss \in Seq(Seq(A))
    PROVE  /\ FlattenSeq(ss) \in Seq(A)
           /\ \E r, c : IsIndex(r, c, Len(ss), ss, FlattenSeq(ss))
<1> QED BY RowsFlattened

-----------------------------------------------------------------------------
(* What the recursive functions over patterns are. *)

PatKinds == {"wild", "bind", "lit", "ctor", "tuple", "struct", "or", "alias"}

LEMMA PatternParts ==
    ASSUME NEW pat \in Pats
    PROVE  /\ pat.p \in PatKinds
           /\ HasParts(pat) => pat.args \in Seq(Pats)
           /\ HasParts(pat) => \A i \in DOMAIN pat.args : pat.args[i] \in Pats /\ Size[pat.args[i]] < Size[pat]
           /\ pat.p = "struct" => pat.fields \in Seq(Nat) /\ Len(pat.fields) = Len(pat.args)
           /\ pat.p = "or" => /\ pat.l \in Pats /\ Size[pat.l] < Size[pat]
                              /\ pat.r \in Pats /\ Size[pat.r] < Size[pat]
           /\ pat.p = "alias" => pat.q \in Pats /\ Size[pat.q] < Size[pat]
<1>1. /\ pat.p \in PatKinds
      /\ HasParts(pat) => pat.args \in Seq(Pats)
      /\ pat.p = "struct" => pat.fields \in Seq(Nat) /\ Len(pat.fields) = Len(pat.args)
      /\ \A q \in Children(pat) : q \in Pats /\ Size[q] < Size[pat]
    BY PatternAssumption DEF PatKinds
<1>2. HasParts(pat) => \A i \in DOMAIN pat.args : pat.args[i] \in Children(pat)
    BY DEF Children, HasParts
<1>3. pat.p = "or" => pat.l \in Children(pat) /\ pat.r \in Children(pat)
    BY DEF Children, HasParts
<1>4. pat.p = "alias" => pat.q \in Children(pat)
    BY DEF Children, HasParts
<1>5. HasParts(pat) => \A i \in DOMAIN pat.args : pat.args[i] \in Pats /\ Size[pat.args[i]] < Size[pat]
    BY <1>1, <1>2
<1> QED BY <1>1, <1>3, <1>4, <1>5

LEMMA SizeType == Size \in [Pats -> Nat] /\ Wildcard \in Pats /\ Size[Wildcard] = 0
BY PatternAssumption

TypesBody(f, pat) ==
    {t \in TypeNames :
        \/ IsWild(pat)
        \/ pat.p = "or" /\ t \in f[pat.l] /\ t \in f[pat.r]
        \/ pat.p = "alias" /\ t \in f[pat.q]
        \/ pat.p = "lit" /\ Shape[t].kind = "lit" /\ pat.tag \in Tags(t)
        \/ /\ HasParts(pat)
           /\ pat.p = Shape[t].kind /\ pat.tag \in Tags(t)
           /\ pat.p # "struct" => Len(pat.args) = Len(Shape[t].parts[pat.tag])
           /\ \A i \in DOMAIN pat.args :
                /\ PartOf(pat, i) \in DOMAIN Shape[t].parts[pat.tag]
                /\ Shape[t].parts[pat.tag][PartOf(pat, i)] \in f[pat.args[i]]}

LEMMA TypesBodyLocal ==
    ASSUME NEW f, NEW g, NEW pat \in Pats, \A y \in Pats : Size[y] < Size[pat] => f[y] = g[y]
    PROVE  TypesBody(f, pat) = TypesBody(g, pat)
<1>1. HasParts(pat) => \A i \in DOMAIN pat.args : f[pat.args[i]] = g[pat.args[i]]
    BY PatternParts
<1>2. /\ pat.p = "or" => f[pat.l] = g[pat.l] /\ f[pat.r] = g[pat.r]
      /\ pat.p = "alias" => f[pat.q] = g[pat.q]
    BY PatternParts
<1>3. pat.p \in PatKinds
    BY PatternParts
<1>4. CASE HasParts(pat)
    BY <1>1, <1>4 DEF TypesBody, HasParts, IsWild
<1>5. CASE ~HasParts(pat)
    BY <1>2, <1>3, <1>5 DEF TypesBody, HasParts, IsWild, PatKinds
<1> QED BY <1>4, <1>5

LEMMA TypesOfDef ==
    /\ TypesOf \in [Pats -> SUBSET TypeNames]
    /\ \A pat \in Pats : TypesOf[pat] = TypesBody(TypesOf, pat)
<1> DEFINE V == SUBSET TypeNames
           H == [x \in [Pats -> V] \X Pats |-> TypesBody(x[1], x[2])]
           Is(f) == f = [pat \in Pats |-> TypesBody(f, pat)]
<1>1. Local(Pats, Size, V, H)
    <2>1. ASSUME NEW f \in [Pats -> V], NEW x \in Pats
          PROVE  H[<<f, x>>] = TypesBody(f, x) /\ TypesBody(f, x) \in V
        BY DEF TypesBody
    <2>2. ASSUME NEW f \in [Pats -> V], NEW x \in Pats, NEW g \in [Pats -> V],
                 \A y \in Pats : Size[y] < Size[x] => f[y] = g[y]
          PROVE  H[<<f, x>>] = H[<<g, x>>]
        <3>1. TypesBody(f, x) = TypesBody(g, x)
            BY <2>2, TypesBodyLocal
        <3> HIDE DEF H, V
        <3> QED BY <2>1, <3>1
    <2> HIDE DEF H, V
    <2> QED BY <2>1, <2>2 DEF Local
<1>2. \E f : Is(f) /\ f \in [Pats -> V]
    <2>1. PICK f : Solution(f, Pats, V, H)
        <3>1. {} \in V
            OBVIOUS
        <3> HIDE DEF H, V
        <3> QED BY <1>1, <3>1, SizeType, RankRecursion
    <2>2. f \in [Pats -> V] /\ \A x \in Pats : f[x] = H[<<f, x>>]
        <3> HIDE DEF H, V
        <3> QED BY <2>1 DEF Solution
    <2>3. \A x \in Pats : f[x] = TypesBody(f, x)
        <3> HIDE DEF V
        <3> QED BY <2>2
    <2> QED BY <2>2, <2>3
<1>3. TypesOf = CHOOSE f : Is(f)
    BY Zenon DEF TypesOf, TypesBody
<1>4. Is(TypesOf)
    <2> HIDE DEF Is
    <2> QED BY <1>2, <1>3
<1>5. \A pat \in Pats : TypesOf[pat] = TypesBody(TypesOf, pat)
    BY <1>4
<1>6. \A pat \in Pats : TypesOf[pat] \in SUBSET TypeNames
    BY <1>5 DEF TypesBody
<1>7. TypesOf \in [Pats -> SUBSET TypeNames]
    BY <1>4, <1>6
<1> QED BY <1>5, <1>7

MatchBody(f, pat, v) ==
    \/ IsWild(pat)
    \/ pat.p = "lit" /\ pat.tag = v.tag
    \/ /\ HasParts(pat)
       /\ pat.tag = v.tag
       /\ \A i \in DOMAIN pat.args :
            PartOf(pat, i) \in DOMAIN v.parts /\ f[<<pat.args[i], v.parts[PartOf(pat, i)]>>]
    \/ pat.p = "or" /\ (f[<<pat.l, v>>] \/ f[<<pat.r, v>>])
    \/ pat.p = "alias" /\ f[<<pat.q, v>>]

LEMMA ValueParts ==
    ASSUME NEW v \in AllValues, NEW i \in DOMAIN v.parts
    PROVE  v.parts[i] \in AllValues
<1>1. PICK t \in TypeNames : v \in Inhabitants[t]
    BY DEF AllValues
<1>2. /\ v.tag \in Tags(t) /\ Shape[t].parts[v.tag] \in Seq(TypeNames)
      /\ DOMAIN v.parts = DOMAIN Shape[t].parts[v.tag]
      /\ v.parts[i] \in Inhabitants[Shape[t].parts[v.tag][i]]
    BY <1>1, TypeAssumption
<1> DEFINE ts == Shape[t].parts[v.tag]
<1>3. ts[i] \in TypeNames
    <2>1. ts \in Seq(TypeNames) /\ i \in DOMAIN ts
        BY <1>2
    <2> HIDE DEF ts
    <2> QED BY <2>1
<1> QED BY <1>2, <1>3 DEF AllValues

LEMMA MatchBodyLocal ==
    ASSUME NEW f, NEW g, NEW pat \in Pats, NEW v \in AllValues,
           \A y \in Pats, w \in AllValues : Size[y] < Size[pat] => f[<<y, w>>] = g[<<y, w>>]
    PROVE  MatchBody(f, pat, v) = MatchBody(g, pat, v)
<1>1. ASSUME HasParts(pat), NEW i \in DOMAIN pat.args, PartOf(pat, i) \in DOMAIN v.parts
      PROVE  f[<<pat.args[i], v.parts[PartOf(pat, i)]>>] = g[<<pat.args[i], v.parts[PartOf(pat, i)]>>]
    BY <1>1, PatternParts, ValueParts
<1>2. /\ pat.p = "or" => f[<<pat.l, v>>] = g[<<pat.l, v>>] /\ f[<<pat.r, v>>] = g[<<pat.r, v>>]
      /\ pat.p = "alias" => f[<<pat.q, v>>] = g[<<pat.q, v>>]
    BY PatternParts
<1>3. pat.p \in PatKinds
    BY PatternParts
<1>4. CASE HasParts(pat)
    BY <1>1, <1>4 DEF MatchBody, HasParts, IsWild
<1>5. CASE ~HasParts(pat)
    BY <1>2, <1>3, <1>5 DEF MatchBody, HasParts, IsWild, PatKinds
<1> QED BY <1>4, <1>5

LEMMA MatchesDef ==
    ASSUME NEW pat \in Pats, NEW v \in AllValues
    PROVE  Matches(pat, v) = MatchBody(Matching, pat, v)
<1> DEFINE C == Pats \X AllValues
           R == [m \in C |-> Size[m[1]]]
           H == [x \in [C -> BOOLEAN] \X C |-> MatchBody(x[1], x[2][1], x[2][2])]
           Is(f) == f = [m \in C |-> MatchBody(f, m[1], m[2])]
<1>1. Local(C, R, BOOLEAN, H)
    <2>1. ASSUME NEW f \in [C -> BOOLEAN], NEW x \in C
          PROVE  H[<<f, x>>] = MatchBody(f, x[1], x[2]) /\ MatchBody(f, x[1], x[2]) \in BOOLEAN
        BY DEF MatchBody
    <2>2. ASSUME NEW f \in [C -> BOOLEAN], NEW x \in C, NEW g \in [C -> BOOLEAN],
                 \A y \in C : R[y] < R[x] => f[y] = g[y]
          PROVE  H[<<f, x>>] = H[<<g, x>>]
        <3>1. x[1] \in Pats /\ x[2] \in AllValues /\ R[x] = Size[x[1]]
            OBVIOUS
        <3>2. ASSUME NEW y \in Pats, NEW w \in AllValues, Size[y] < Size[x[1]]
              PROVE  f[<<y, w>>] = g[<<y, w>>]
            <4>1. <<y, w>> \in C /\ R[<<y, w>>] = Size[y]
                OBVIOUS
            <4> HIDE DEF C, R
            <4> QED BY <2>2, <3>1, <3>2, <4>1
        <3>3. MatchBody(f, x[1], x[2]) = MatchBody(g, x[1], x[2])
            <4> HIDE DEF C, R, H
            <4> QED BY <3>1, <3>2, MatchBodyLocal
        <3> HIDE DEF H, C, R
        <3> QED BY <2>1, <3>3
    <2> HIDE DEF H, C, R
    <2> QED BY <2>1, <2>2 DEF Local
<1>2. \E f : Is(f)
    <2>1. PICK f : Solution(f, C, BOOLEAN, H)
        <3>1. R \in [C -> Nat] /\ TRUE \in BOOLEAN
            BY SizeType
        <3> HIDE DEF H, C, R
        <3> QED BY <1>1, <3>1, RankRecursion
    <2>2. f \in [C -> BOOLEAN] /\ \A x \in C : f[x] = H[<<f, x>>]
        <3> HIDE DEF H, C
        <3> QED BY <2>1 DEF Solution
    <2>3. \A x \in C : f[x] = MatchBody(f, x[1], x[2])
        <3> HIDE DEF C
        <3> QED BY <2>2
    <2>4. Is(f)
        <3> HIDE DEF C
        <3> QED BY <2>2, <2>3
    <2> QED BY <2>4
<1>3. Matching = CHOOSE f : Is(f)
    BY Zenon DEF Matching, MatchBody
<1>4. Is(Matching)
    <2> HIDE DEF Is
    <2> QED BY <1>2, <1>3
<1>5. <<pat, v>> \in C
    OBVIOUS
<1>6. Matching[<<pat, v>>] = MatchBody(Matching, <<pat, v>>[1], <<pat, v>>[2])
    <2> HIDE DEF C
    <2> QED BY <1>4, <1>5
<1> QED BY <1>6 DEF Matches

WithinBody(f, pat) == {pat} \cup UNION {f[q] : q \in Children(pat)}

LEMMA ChildrenSmaller ==
    ASSUME NEW pat \in Pats, NEW q \in Children(pat)
    PROVE  q \in Pats /\ Size[q] < Size[pat]
BY PatternAssumption

LEMMA WithinDef ==
    /\ Within \in [Pats -> SUBSET Pats]
    /\ \A pat \in Pats : Within[pat] = WithinBody(Within, pat)
<1> DEFINE V == SUBSET Pats
           H == [x \in [Pats -> V] \X Pats |-> WithinBody(x[1], x[2])]
           Is(f) == f = [pat \in Pats |-> WithinBody(f, pat)]
<1>0. ASSUME NEW f \in [Pats -> V], NEW x \in Pats
      PROVE  WithinBody(f, x) \in V
    BY ChildrenSmaller DEF WithinBody
<1>1. Local(Pats, Size, V, H)
    <2>1. ASSUME NEW f \in [Pats -> V], NEW x \in Pats
          PROVE  H[<<f, x>>] = WithinBody(f, x) /\ WithinBody(f, x) \in V
        <3>1. H[<<f, x>>] = WithinBody(f, x)
            OBVIOUS
        <3> HIDE DEF H, V
        <3> QED BY <1>0, <3>1
    <2>2. ASSUME NEW f \in [Pats -> V], NEW x \in Pats, NEW g \in [Pats -> V],
                 \A y \in Pats : Size[y] < Size[x] => f[y] = g[y]
          PROVE  H[<<f, x>>] = H[<<g, x>>]
        <3>1. \A q \in Children(x) : f[q] = g[q]
            <4> HIDE DEF H, V
            <4> QED BY <2>2, ChildrenSmaller
        <3>2. WithinBody(f, x) = WithinBody(g, x)
            <4> HIDE DEF H, V
            <4> QED BY <3>1 DEF WithinBody
        <3> HIDE DEF H, V
        <3> QED BY <2>1, <3>2
    <2> HIDE DEF H, V
    <2> QED BY <2>1, <2>2 DEF Local
<1>2. \E f : Is(f) /\ f \in [Pats -> V]
    <2>1. PICK f : Solution(f, Pats, V, H)
        <3>1. {} \in V
            OBVIOUS
        <3> HIDE DEF H, V
        <3> QED BY <1>1, <3>1, SizeType, RankRecursion
    <2>2. f \in [Pats -> V] /\ \A x \in Pats : f[x] = H[<<f, x>>]
        <3> HIDE DEF H, V
        <3> QED BY <2>1 DEF Solution
    <2>3. \A x \in Pats : f[x] = WithinBody(f, x)
        <3> HIDE DEF V
        <3> QED BY <2>2
    <2> HIDE DEF V
    <2> QED BY <2>2, <2>3
<1>3. Within = CHOOSE f : Is(f)
    BY Zenon DEF Within, WithinBody
<1>4. Is(Within)
    <2> HIDE DEF Is
    <2> QED BY <1>2, <1>3
<1>5. Within \in [Pats -> V]
    <2>1. PICK f : Is(f) /\ f \in [Pats -> V]
        BY <1>2
    <2> DEFINE S == {x \in Pats : Within[x] \in V}
    <2>2. ASSUME NEW x \in Pats, \A y \in Pats : Size[y] < Size[x] => y \in S
          PROVE  x \in S
        <3>1. \A q \in Children(x) : q \in Pats /\ Within[q] \in V
            BY <2>2, ChildrenSmaller
        <3>2. Within[x] = WithinBody(Within, x)
            BY <1>4
        <3> QED BY <3>1, <3>2 DEF WithinBody
    <2>3. Pats \subseteq S
        <3> HIDE DEF S
        <3> QED BY <2>2, SizeType, RankInduction
    <2> HIDE DEF V
    <2> QED BY <1>4, <2>3
<1> QED BY <1>4, <1>5

AltBody(f, pat) ==
    IF pat.p = "or" THEN f[pat.l] \o f[pat.r]
    ELSE IF pat.p = "alias" THEN f[pat.q]
    ELSE <<pat>>

LEMMA AlternativesDef ==
    /\ Alternatives \in [Pats -> Seq(Pats)]
    /\ \A pat \in Pats : Alternatives[pat] = AltBody(Alternatives, pat)
<1> DEFINE V == Seq(Pats)
           H == [x \in [Pats -> V] \X Pats |-> AltBody(x[1], x[2])]
           Is(f) == f = [pat \in Pats |-> AltBody(f, pat)]
<1>0. ASSUME NEW f, NEW x \in Pats, \A y \in Pats : Size[y] < Size[x] => f[y] \in V
      PROVE  AltBody(f, x) \in V
    <2>1. CASE x.p = "or"
        <3>1. f[x.l] \in V /\ f[x.r] \in V
            BY <1>0, <2>1, PatternParts
        <3>2. f[x.l] \o f[x.r] \in V
            BY <3>1, ConcatProperties
        <3> QED BY <2>1, <3>2 DEF AltBody
    <2>2. CASE x.p = "alias"
        BY <1>0, <2>2, PatternParts DEF AltBody
    <2>3. CASE x.p \notin {"or", "alias"}
        <3>1. <<x>> \in V
            OBVIOUS
        <3> HIDE DEF V
        <3> QED BY <2>3, <3>1 DEF AltBody
    <2> QED BY <2>1, <2>2, <2>3
<1>1. Local(Pats, Size, V, H)
    <2>1. ASSUME NEW f \in [Pats -> V], NEW x \in Pats
          PROVE  H[<<f, x>>] = AltBody(f, x) /\ AltBody(f, x) \in V
        <3>1. H[<<f, x>>] = AltBody(f, x)
            OBVIOUS
        <3>2. \A y \in Pats : f[y] \in V
            OBVIOUS
        <3> HIDE DEF H, V
        <3> QED BY <1>0, <3>1, <3>2
    <2>2. ASSUME NEW f \in [Pats -> V], NEW x \in Pats, NEW g \in [Pats -> V],
                 \A y \in Pats : Size[y] < Size[x] => f[y] = g[y]
          PROVE  H[<<f, x>>] = H[<<g, x>>]
        <3>1. /\ x.p = "or" => f[x.l] = g[x.l] /\ f[x.r] = g[x.r]
              /\ x.p = "alias" => f[x.q] = g[x.q]
            <4> HIDE DEF H, V
            <4> QED BY <2>2, PatternParts
        <3>2. AltBody(f, x) = AltBody(g, x)
            <4> HIDE DEF H, V
            <4> QED BY <3>1 DEF AltBody
        <3> HIDE DEF H, V
        <3> QED BY <2>1, <3>2
    <2> HIDE DEF H, V
    <2> QED BY <2>1, <2>2 DEF Local
<1>2. \E f : Is(f)
    <2>1. PICK f : Solution(f, Pats, V, H)
        <3>1. V # {}
            BY EmptySeq
        <3> HIDE DEF H, V
        <3> QED BY <1>1, <3>1, SizeType, RankRecursion
    <2>2. f \in [Pats -> V] /\ \A x \in Pats : f[x] = H[<<f, x>>]
        <3> HIDE DEF H, V
        <3> QED BY <2>1 DEF Solution
    <2>3. \A x \in Pats : f[x] = AltBody(f, x)
        <3> HIDE DEF V
        <3> QED BY <2>2
    <2> HIDE DEF V
    <2> QED BY <2>2, <2>3
<1>3. Alternatives = CHOOSE f : Is(f)
    BY Zenon DEF Alternatives, AltBody
<1>4. Is(Alternatives)
    <2> HIDE DEF Is
    <2> QED BY <1>2, <1>3
<1>5. Alternatives \in [Pats -> V]
    <2> DEFINE S == {x \in Pats : Alternatives[x] \in V}
    <2>2. ASSUME NEW x \in Pats, \A y \in Pats : Size[y] < Size[x] => y \in S
          PROVE  x \in S
        <3>1. \A y \in Pats : Size[y] < Size[x] => Alternatives[y] \in V
            BY <2>2
        <3>2. Alternatives[x] = AltBody(Alternatives, x)
            BY <1>4
        <3> HIDE DEF V
        <3> QED BY <1>0, <3>1, <3>2
    <2>3. Pats \subseteq S
        <3> HIDE DEF S
        <3> QED BY <2>2, SizeType, RankInduction
    <2> HIDE DEF V
    <2> QED BY <1>4, <2>3
<1> QED BY <1>4, <1>5

-----------------------------------------------------------------------------
(* Alternatives. *)

\* The elements of a sequence, and the alternatives of a pattern.
Elements(s) == {s[k] : k \in 1..Len(s)}
Alts(pat) == Elements(Alternatives[pat])

LEMMA ConcatRange ==
    ASSUME NEW A, NEW s \in Seq(A), NEW t \in Seq(A)
    PROVE  Elements(s \o t) = Elements(s) \cup Elements(t)
<1> DEFINE u == s \o t
           l == Len(s)
           m == Len(t)
<1>1. /\ u \in Seq(A) /\ Len(u) = l + m /\ l \in Nat /\ m \in Nat
      /\ \A k \in 1..Len(u) : u[k] = IF k <= l THEN s[k] ELSE t[k - l]
    BY ConcatProperties, LenProperties
<1> HIDE DEF u
<1>2. ASSUME NEW k \in 1..Len(u)
      PROVE  u[k] \in {s[i] : i \in 1..l} \cup {t[i] : i \in 1..m}
    <2>1. CASE k <= l
        <3>1. k \in 1..l /\ u[k] = s[k]
            BY <1>1, <2>1
        <3> QED BY <3>1
    <2>2. CASE ~(k <= l)
        <3>1. k - l \in 1..m /\ u[k] = t[k - l]
            BY <1>1, <2>2
        <3> QED BY <3>1
    <2> QED BY <2>1, <2>2
<1>3. ASSUME NEW k \in 1..l
      PROVE  s[k] \in {u[i] : i \in 1..Len(u)}
    <2>1. k \in 1..Len(u) /\ u[k] = s[k]
        BY <1>1
    <2> QED BY <2>1
<1>4. ASSUME NEW k \in 1..m
      PROVE  t[k] \in {u[i] : i \in 1..Len(u)}
    <2>1. k + l \in 1..Len(u) /\ ~(k + l <= l) /\ (k + l) - l = k
        BY <1>1
    <2>2. u[k + l] = t[k]
        BY <1>1, <2>1
    <2> QED BY <2>1, <2>2
<1>5. {u[k] : k \in 1..Len(u)} = {s[k] : k \in 1..l} \cup {t[k] : k \in 1..m}
    <2> HIDE DEF l, m
    <2> QED BY <1>2, <1>3, <1>4
<1> QED BY <1>5 DEF u, Elements

LEMMA AltsDef ==
    ASSUME NEW pat \in Pats
    PROVE  /\ pat.p = "or" => Alts(pat) = Alts(pat.l) \cup Alts(pat.r)
           /\ pat.p = "alias" => Alts(pat) = Alts(pat.q)
           /\ pat.p \notin {"or", "alias"} => Alts(pat) = {pat}
<1>1. Alternatives[pat] = AltBody(Alternatives, pat)
    BY AlternativesDef
<1>2. CASE pat.p = "or"
    <2>1. Alternatives[pat.l] \in Seq(Pats) /\ Alternatives[pat.r] \in Seq(Pats)
        BY <1>2, AlternativesDef, PatternParts
    <2>2. Alternatives[pat] = Alternatives[pat.l] \o Alternatives[pat.r]
        BY <1>1, <1>2 DEF AltBody
    <2> QED BY <1>2, <2>1, <2>2, ConcatRange DEF Alts
<1>3. CASE pat.p = "alias"
    BY <1>1, <1>3 DEF AltBody, Alts
<1>4. CASE pat.p \notin {"or", "alias"}
    <2>1. Alternatives[pat] = <<pat>>
        BY <1>1, <1>4 DEF AltBody
    <2>2. {<<pat>>[k] : k \in 1..Len(<<pat>>)} = {pat}
        OBVIOUS
    <2> QED BY <1>4, <2>1, <2>2 DEF Alts, Elements
<1> QED BY <1>2, <1>3, <1>4

\* The sub-patterns of a sub-pattern are sub-patterns.
LEMMA WithinFacts ==
    ASSUME NEW pat \in Pats
    PROVE  /\ Within[pat] \subseteq Pats /\ pat \in Within[pat]
           /\ \A q \in Children(pat) : q \in Pats /\ Within[q] \subseteq Within[pat] /\ q \in Within[pat]
<1>1. Within[pat] = WithinBody(Within, pat) /\ Within[pat] \subseteq Pats
    BY WithinDef
<1>2. ASSUME NEW q \in Children(pat)
      PROVE  q \in Pats /\ Within[q] \subseteq Within[pat] /\ q \in Within[q]
    <2>1. q \in Pats
        BY ChildrenSmaller
    <2>2. Within[q] = WithinBody(Within, q)
        BY <2>1, WithinDef
    <2> QED BY <1>1, <2>1, <2>2 DEF WithinBody
<1> QED BY <1>1, <1>2 DEF WithinBody

LEMMA WithinTransitive ==
    ASSUME NEW pat \in Pats, NEW q \in Within[pat]
    PROVE  Within[q] \subseteq Within[pat]
<1> DEFINE S == {x \in Pats : \A y \in Within[x] : Within[y] \subseteq Within[x]}
<1>1. ASSUME NEW x \in Pats, \A y \in Pats : Size[y] < Size[x] => y \in S
      PROVE  x \in S
    <2>1. ASSUME NEW y \in Within[x]
          PROVE  Within[y] \subseteq Within[x]
        <3>1. Within[x] = WithinBody(Within, x)
            BY WithinDef
        <3>2. CASE y = x
            BY <3>2
        <3>3. CASE y # x
            <4>1. PICK z \in Children(x) : y \in Within[z]
                BY <3>1, <3>3 DEF WithinBody
            <4>2. z \in S
                BY <1>1, ChildrenSmaller
            <4> QED BY <4>1, <4>2, WithinFacts
        <3> QED BY <3>2, <3>3
    <2> QED BY <2>1
<1>2. Pats \subseteq S
    <2> HIDE DEF S
    <2> QED BY <1>1, SizeType, RankInduction
<1> QED BY <1>2

LEMMA PlainAlternatives ==
    ASSUME NEW pat \in Pats, NEW h \in Alts(pat)
    PROVE  h \in Pats /\ h.p \notin {"or", "alias"} /\ h \in Within[pat]
<1> DEFINE S == {x \in Pats : \A y \in Alts(x) : y \in Pats /\ y.p \notin {"or", "alias"} /\ y \in Within[x]}
<1>1. ASSUME NEW x \in Pats, \A y \in Pats : Size[y] < Size[x] => y \in S
      PROVE  x \in S
    <2>1. CASE x.p = "or"
        <3>1. x.l \in S /\ x.r \in S /\ x.l \in Children(x) /\ x.r \in Children(x)
            BY <1>1, <2>1, PatternParts DEF Children, HasParts
        <3>2. Alts(x) = Alts(x.l) \cup Alts(x.r)
            BY <2>1, AltsDef
        <3>3. Within[x.l] \subseteq Within[x] /\ Within[x.r] \subseteq Within[x]
            BY <3>1, WithinFacts
        <3> QED BY <3>1, <3>2, <3>3
    <2>2. CASE x.p = "alias"
        <3>1. x.q \in S /\ x.q \in Children(x)
            BY <1>1, <2>2, PatternParts DEF Children, HasParts
        <3>2. Alts(x) = Alts(x.q)
            BY <2>2, AltsDef
        <3>3. Within[x.q] \subseteq Within[x]
            BY <3>1, WithinFacts
        <3> QED BY <3>1, <3>2, <3>3
    <2>3. CASE x.p \notin {"or", "alias"}
        BY <2>3, AltsDef, WithinFacts
    <2> QED BY <2>1, <2>2, <2>3
<1>2. Pats \subseteq S
    <2> HIDE DEF S
    <2> QED BY <1>1, SizeType, RankInduction
<1> QED BY <1>2

\* An alternative is no larger than its pattern.
LEMMA SizeOfAlternative ==
    ASSUME NEW pat \in Pats, NEW h \in Alts(pat)
    PROVE  Size[h] <= Size[pat]
<1> DEFINE S == {x \in Pats : \A y \in Alts(x) : Size[y] <= Size[x]}
<1>1. ASSUME NEW x \in Pats, \A y \in Pats : Size[y] < Size[x] => y \in S
      PROVE  x \in S
    <2>0. ASSUME NEW z \in Pats, z \in S, Size[z] < Size[x], NEW y \in Alts(z)
          PROVE  Size[y] <= Size[x]
        <3>1. y \in Pats /\ Size[y] <= Size[z]
            BY <2>0, PlainAlternatives
        <3>2. Size[y] \in Nat /\ Size[z] \in Nat /\ Size[x] \in Nat
            BY <3>1, SizeType
        <3> QED BY <2>0, <3>1, <3>2
    <2>1. CASE x.p = "or"
        <3>1. x.l \in S /\ x.r \in S /\ Size[x.l] < Size[x] /\ Size[x.r] < Size[x] /\ x.l \in Pats /\ x.r \in Pats
            BY <1>1, <2>1, PatternParts
        <3>2. Alts(x) = Alts(x.l) \cup Alts(x.r)
            BY <2>1, AltsDef
        <3> HIDE DEF S
        <3> QED BY <2>0, <3>1, <3>2 DEF S
    <2>2. CASE x.p = "alias"
        <3>1. x.q \in S /\ Size[x.q] < Size[x] /\ x.q \in Pats
            BY <1>1, <2>2, PatternParts
        <3>2. Alts(x) = Alts(x.q)
            BY <2>2, AltsDef
        <3> QED BY <2>0, <3>1, <3>2
    <2>3. CASE x.p \notin {"or", "alias"}
        <3>1. Alts(x) = {x} /\ Size[x] \in Nat
            BY <2>3, AltsDef, SizeType
        <3> QED BY <3>1
    <2> QED BY <2>1, <2>2, <2>3
<1>2. Pats \subseteq S
    <2> HIDE DEF S
    <2> QED BY <1>1, SizeType, RankInduction
<1> QED BY <1>2

LEMMA TypeOfAlternative ==
    ASSUME NEW pat \in Pats, NEW t \in TypesOf[pat], NEW h \in Alts(pat)
    PROVE  t \in TypesOf[h]
<1> DEFINE S == {x \in Pats : t \in TypesOf[x] => \A y \in Alts(x) : t \in TypesOf[y]}
<1>1. ASSUME NEW x \in Pats, \A y \in Pats : Size[y] < Size[x] => y \in S, t \in TypesOf[x]
      PROVE  \A y \in Alts(x) : t \in TypesOf[y]
    <2>0. t \in TypesBody(TypesOf, x)
        BY <1>1, TypesOfDef
    <2>1. CASE x.p = "or"
        <3>1. x.l \in S /\ x.r \in S
            BY <1>1, <2>1, PatternParts
        <3>2. t \in TypesOf[x.l] /\ t \in TypesOf[x.r]
            BY <2>0, <2>1 DEF TypesBody, IsWild, HasParts
        <3> QED BY <2>1, <3>1, <3>2, AltsDef
    <2>2. CASE x.p = "alias"
        <3>1. x.q \in S
            BY <1>1, <2>2, PatternParts
        <3>2. t \in TypesOf[x.q]
            BY <2>0, <2>2 DEF TypesBody, IsWild, HasParts
        <3> QED BY <2>2, <3>1, <3>2, AltsDef
    <2>3. CASE x.p \notin {"or", "alias"}
        BY <1>1, <2>3, AltsDef
    <2> QED BY <2>1, <2>2, <2>3
<1>2. Pats \subseteq S
    <2>1. \A x \in Pats : (\A y \in Pats : Size[y] < Size[x] => y \in S) => x \in S
        BY <1>1
    <2> HIDE DEF S
    <2> QED BY <2>1, SizeType, RankInduction
<1> QED BY <1>2

\* A value matches a pattern if it matches an alternative of it.
LEMMA MatchesAlternative ==
    ASSUME NEW pat \in Pats, NEW v \in AllValues
    PROVE  Matches(pat, v) <=> \E h \in Alts(pat) : Matches(h, v)
<1> DEFINE S == {x \in Pats : Matches(x, v) <=> \E h \in Alts(x) : Matches(h, v)}
<1>1. ASSUME NEW x \in Pats, \A y \in Pats : Size[y] < Size[x] => y \in S
      PROVE  x \in S
    <2>0. Matches(x, v) = MatchBody(Matching, x, v)
        BY MatchesDef
    <2>1. CASE x.p = "or"
        <3>1. x.l \in S /\ x.r \in S
            BY <1>1, <2>1, PatternParts
        <3>2. Matches(x, v) <=> Matches(x.l, v) \/ Matches(x.r, v)
            BY <2>0, <2>1 DEF MatchBody, IsWild, HasParts, Matches
        <3> QED BY <2>1, <3>1, <3>2, AltsDef
    <2>2. CASE x.p = "alias"
        <3>1. x.q \in S
            BY <1>1, <2>2, PatternParts
        <3>2. Matches(x, v) <=> Matches(x.q, v)
            BY <2>0, <2>2 DEF MatchBody, IsWild, HasParts, Matches
        <3> QED BY <2>2, <3>1, <3>2, AltsDef
    <2>3. CASE x.p \notin {"or", "alias"}
        BY <2>3, AltsDef
    <2> QED BY <2>1, <2>2, <2>3
<1>2. Pats \subseteq S
    <2> HIDE DEF S
    <2> QED BY <1>1, SizeType, RankInduction
<1> QED BY <1>2

\* A constructor among the alternatives of an `or` or under an alias is one
\* that get_constructors appends.
LEMMA AppendedAlternative ==
    ASSUME NEW pat \in Pats, pat.p \in {"or", "alias"}, NEW h \in Alts(pat)
    PROVE  \E o \in Within[pat] : o.p \in {"or", "alias"} /\ h \in Children(o)
<1> DEFINE Good(x, y) == \E o \in Within[x] : o.p \in {"or", "alias"} /\ y \in Children(o)
           S == {x \in Pats : x.p \in {"or", "alias"} => \A y \in Alts(x) : Good(x, y)}
<1>1. ASSUME NEW x \in Pats, \A y \in Pats : Size[y] < Size[x] => y \in S, x.p \in {"or", "alias"},
             NEW y \in Alts(x)
      PROVE  Good(x, y)
    <2>1. PICK z \in Children(x) : y \in Alts(z)
        <3>1. CASE x.p = "or"
            <4>1. Children(x) = {x.l, x.r}
                BY <3>1 DEF Children, HasParts
            <4> QED BY <3>1, <4>1, AltsDef
        <3>2. CASE x.p = "alias"
            <4>1. Children(x) = {x.q}
                BY <3>2 DEF Children, HasParts
            <4> QED BY <3>2, <4>1, AltsDef
        <3> QED BY <1>1, <3>1, <3>2
    <2>2. z \in S /\ z \in Pats /\ x \in Within[x] /\ Within[z] \subseteq Within[x]
        BY <1>1, ChildrenSmaller, WithinFacts
    <2>3. CASE z.p \in {"or", "alias"}
        BY <2>1, <2>2, <2>3
    <2>4. CASE z.p \notin {"or", "alias"}
        <3>1. y = z
            BY <2>1, <2>2, <2>4, AltsDef
        <3> QED BY <1>1, <2>1, <2>2, <3>1
    <2> QED BY <2>3, <2>4
<1>2. Pats \subseteq S
    <2>1. \A x \in Pats : (\A y \in Pats : Size[y] < Size[x] => y \in S) => x \in S
        BY <1>1
    <2> HIDE DEF S
    <2> QED BY <2>1, SizeType, RankInduction
<1> QED BY <1>2

-----------------------------------------------------------------------------
(* RowSeqs made of rows: at most one for each place of a sequence of sequences. *)

\* Row m of u is the one at place c[m] of ss[r[m]], of n sequences.
IsGathered(r, c, n, ss, u) ==
    /\ \A m \in 1..Len(u) : r[m] \in 1..n /\ c[m] \in 1..Len(ss[r[m]]) /\ ss[r[m]][c[m]] = <<u[m]>>
    /\ \A m, o \in 1..Len(u) : m # o => r[m] # r[o] \/ c[m] # c[o]
    /\ \A i \in 1..n : \A k \in 1..Len(ss[i]) :
            ss[i][k] # <<>> => \E m \in 1..Len(u) : r[m] = i /\ c[m] = k

AtMostOne(A) == {<<>>} \cup {<<a>> : a \in A}

LEMMA Gathered ==
    ASSUME NEW A, NEW ss \in Seq(Seq(AtMostOne(A)))
    PROVE  /\ FlattenSeq([i \in DOMAIN ss |-> FlattenSeq(ss[i])]) \in Seq(A)
           /\ \E r, c : IsGathered(r, c, Len(ss), ss, FlattenSeq([i \in DOMAIN ss |-> FlattenSeq(ss[i])]))
<1> DEFINE n == Len(ss)
           t == [i \in DOMAIN ss |-> FlattenSeq(ss[i])]
           u == FlattenSeq(t)
<1>1. n \in Nat /\ DOMAIN ss = 1..n /\ \A i \in 1..n : ss[i] \in Seq(AtMostOne(A))
    OBVIOUS
<1>2. ASSUME NEW s \in AtMostOne(A)
      PROVE  /\ s \in Seq(A)
             /\ s = <<>> => Len(s) = 0
             /\ s # <<>> => Len(s) = 1 /\ s = <<s[1]>>
    <2>1. CASE s = <<>>
        BY <2>1, EmptySeq
    <2>2. ASSUME NEW a \in A, s = <<a>>
          PROVE  s \in Seq(A) /\ Len(s) = 1 /\ s = <<s[1]>> /\ s # <<>>
        <3>1. <<a>> \in Seq(A) /\ Len(<<a>>) = 1 /\ <<a>>[1] = a
            OBVIOUS
        <3>2. Len(<<>>) = 0
            OBVIOUS
        <3> QED BY <2>2, <3>1, <3>2
    <2> QED BY <2>1, <2>2 DEF AtMostOne
<1>3. ASSUME NEW s \in Seq(AtMostOne(A))
      PROVE  s \in Seq(Seq(A))
    <2>1. \A i \in 1..Len(s) : s[i] \in Seq(A)
        BY <1>2
    <2> QED BY <2>1
<1>4. ASSUME NEW i \in 1..n
      PROVE  /\ FlattenSeq(ss[i]) \in Seq(A)
             /\ \E r, c : IsIndex(r, c, Len(ss[i]), ss[i], FlattenSeq(ss[i]))
    <2>1. ss[i] \in Seq(Seq(A))
        BY <1>1, <1>3
    <2> QED BY <2>1, Flattened
<1>5. t \in Seq(Seq(A)) /\ Len(t) = n /\ \A i \in 1..n : t[i] = FlattenSeq(ss[i])
    BY <1>1, <1>4
<1> HIDE DEF t
<1>6. u \in Seq(A) /\ \E r, c : IsIndex(r, c, n, t, u)
    BY <1>5, Flattened
<1>7. PICK R, C : IsIndex(R, C, n, t, u)
    BY <1>6
<1> DEFINE Is(p, i) == IsIndex(p[1], p[2], Len(ss[i]), ss[i], t[i])
           P == [i \in 1..n |-> CHOOSE p : Is(p, i)]
<1>8. ASSUME NEW i \in 1..n
      PROVE  Is(P[i], i)
    <2>1. PICK r, c : IsIndex(r, c, Len(ss[i]), ss[i], FlattenSeq(ss[i]))
        BY <1>4
    <2>2. Is(<<r, c>>, i)
        BY <1>5, <2>1
    <2>3. Is(CHOOSE p : Is(p, i), i)
        <3> HIDE DEF Is
        <3> QED BY <2>2
    <2> QED BY <2>3
<1> HIDE DEF P, u
<1>9. ASSUME NEW i \in 1..n, NEW k \in 1..Len(t[i])
      PROVE  /\ P[i][1][k] \in 1..Len(ss[i]) /\ P[i][2][k] = 1
             /\ ss[i][P[i][1][k]] = <<t[i][k]>>
    <2>1. /\ P[i][1][k] \in 1..Len(ss[i])
          /\ P[i][2][k] \in 1..Len(ss[i][P[i][1][k]])
          /\ t[i][k] = ss[i][P[i][1][k]][P[i][2][k]]
        BY <1>8 DEF IsIndex
    <2> DEFINE s == ss[i][P[i][1][k]]
               j == P[i][2][k]
    <2>2. s \in AtMostOne(A)
        BY <1>1, <2>1
    <2>3. j \in 1..Len(s) /\ t[i][k] = s[j] /\ P[i][1][k] \in 1..Len(ss[i])
        BY <2>1
    <2> HIDE DEF s, j
    <2>4. s # <<>> /\ Len(s) = 1 /\ s = <<s[1]>>
        BY <1>2, <2>2, <2>3
    <2>5. j = 1
        BY <2>3, <2>4
    <2> QED BY <2>3, <2>4, <2>5 DEF s, j
<1> DEFINE c == [m \in 1..Len(u) |-> P[R[m]][1][C[m]]]
<1>10. ASSUME NEW m \in 1..Len(u)
       PROVE  R[m] \in 1..n /\ C[m] \in 1..Len(t[R[m]]) /\ u[m] = t[R[m]][C[m]]
    BY <1>7 DEF IsIndex
<1>11. ASSUME NEW m \in 1..Len(u)
       PROVE  R[m] \in 1..n /\ c[m] \in 1..Len(ss[R[m]]) /\ ss[R[m]][c[m]] = <<u[m]>>
    <2> DEFINE i == R[m]
               k == C[m]
    <2>1. i \in 1..n /\ k \in 1..Len(t[i]) /\ u[m] = t[i][k]
        BY <1>10
    <2>2. c[m] = P[i][1][k]
        OBVIOUS
    <2> HIDE DEF i, k, c
    <2>3. P[i][1][k] \in 1..Len(ss[i]) /\ ss[i][P[i][1][k]] = <<t[i][k]>>
        BY <1>9, <2>1
    <2>4. c[m] \in 1..Len(ss[i]) /\ ss[i][c[m]] = <<u[m]>>
        BY <2>1, <2>2, <2>3
    <2> QED BY <2>1, <2>4 DEF i
<1>12. ASSUME NEW m \in 1..Len(u), NEW o \in 1..Len(u), m # o
       PROVE  R[m] # R[o] \/ c[m] # c[o]
    <2> SUFFICES ASSUME R[m] = R[o] PROVE c[m] # c[o]
        OBVIOUS
    <2>1. C[m] # C[o]
        BY <1>7, <1>12 DEF IsIndex
    <2> DEFINE i == R[m]
    <2>2. i \in 1..n /\ C[m] \in 1..Len(t[i]) /\ C[o] \in 1..Len(t[i])
        BY <1>10
    <2> HIDE DEF i
    <2>3. P[i][1][C[m]] # P[i][1][C[o]] \/ P[i][2][C[m]] # P[i][2][C[o]]
        <3> DEFINE a == P[i][1]
                   b == P[i][2]
                   y == ss[i]
                   z == t[i]
        <3>1. IsIndex(a, b, Len(y), y, z)
            BY <1>8, <2>2
        <3> HIDE DEF a, b, y
        <3>2. \A k, l \in 1..Len(z) : k # l => a[k] # a[l] \/ b[k] # b[l]
            BY <3>1 DEF IsIndex
        <3> HIDE DEF z
        <3>3. C[m] \in 1..Len(z) /\ C[o] \in 1..Len(z)
            BY <2>2 DEF z
        <3>4. a[C[m]] # a[C[o]] \/ b[C[m]] # b[C[o]]
            BY <2>1, <3>2, <3>3
        <3> QED BY <3>4 DEF a, b
    <2>4. P[i][2][C[m]] = 1 /\ P[i][2][C[o]] = 1
        BY <1>9, <2>2
    <2>5. c[m] = P[i][1][C[m]] /\ c[o] = P[i][1][C[o]]
        BY DEF i
    <2> QED BY <2>3, <2>4, <2>5
<1>13. ASSUME NEW i \in 1..n, NEW k \in 1..Len(ss[i]), ss[i][k] # <<>>
       PROVE  \E m \in 1..Len(u) : R[m] = i /\ c[m] = k
    <2>1. Len(ss[i][k]) = 1
        BY <1>1, <1>2, <1>13
    <2>2. PICK j \in 1..Len(t[i]) : P[i][1][j] = k /\ P[i][2][j] = 1
        <3>1. 1 \in 1..Len(ss[i][k])
            BY <2>1
        <3>2. IsIndex(P[i][1], P[i][2], Len(ss[i]), ss[i], t[i])
            BY <1>8
        <3> QED BY <3>1, <3>2 DEF IsIndex
    <2>3. PICK m \in 1..Len(u) : R[m] = i /\ C[m] = j
        BY <1>5, <1>7 DEF IsIndex
    <2> QED BY <2>2, <2>3
<1>14. IsGathered(R, c, n, ss, u)
    <2> HIDE DEF c
    <2> QED BY <1>11, <1>12, <1>13 DEF IsGathered
<1> QED BY <1>6, <1>14 DEF t, u

-----------------------------------------------------------------------------
(* Sequences that are related place by place. *)

Pairwise(R, s, t) == Len(s) = Len(t) /\ \A i \in 1..Len(s) : <<s[i], t[i]>> \in R

LEMMA PairwiseConcat ==
    ASSUME NEW A, NEW B, NEW R, NEW s \in Seq(A), NEW t \in Seq(B), NEW u \in Seq(A), NEW w \in Seq(B),
           Len(s) = Len(t)
    PROVE  Pairwise(R, s \o u, t \o w) <=> Pairwise(R, s, t) /\ Pairwise(R, u, w)
<1> DEFINE x == s \o u
           y == t \o w
           l == Len(s)
           m == Len(u)
           n == Len(w)
<1>1. /\ x \in Seq(A) /\ Len(x) = l + m /\ l \in Nat /\ m \in Nat /\ n \in Nat
      /\ \A k \in 1..Len(x) : x[k] = IF k <= l THEN s[k] ELSE u[k - l]
    BY ConcatProperties, LenProperties
<1>2. /\ y \in Seq(B) /\ Len(y) = l + n
      /\ \A k \in 1..Len(y) : y[k] = IF k <= l THEN t[k] ELSE w[k - l]
    BY ConcatProperties, LenProperties
<1> HIDE DEF x, y
<1>3. ASSUME Pairwise(R, x, y)
      PROVE  Pairwise(R, s, t) /\ Pairwise(R, u, w)
    <2>1. m = n /\ \A i \in 1..(l + m) : <<x[i], y[i]>> \in R
        BY <1>1, <1>2, <1>3 DEF Pairwise
    <2>2. ASSUME NEW i \in 1..l
          PROVE  <<s[i], t[i]>> \in R
        <3>1. i \in 1..(l + m) /\ x[i] = s[i] /\ y[i] = t[i]
            BY <1>1, <1>2, <2>1
        <3> QED BY <2>1, <3>1
    <2>3. ASSUME NEW i \in 1..m
          PROVE  <<u[i], w[i]>> \in R
        <3>1. i + l \in 1..(l + m) /\ ~(i + l <= l) /\ (i + l) - l = i
            BY <1>1
        <3>2. x[i + l] = u[i] /\ y[i + l] = w[i]
            BY <1>1, <1>2, <2>1, <3>1
        <3> QED BY <2>1, <3>1, <3>2
    <2> QED BY <2>1, <2>2, <2>3 DEF Pairwise
<1>4. ASSUME Pairwise(R, s, t), Pairwise(R, u, w)
      PROVE  Pairwise(R, x, y)
    <2>1. m = n /\ (\A i \in 1..l : <<s[i], t[i]>> \in R) /\ (\A i \in 1..m : <<u[i], w[i]>> \in R)
        BY <1>4 DEF Pairwise
    <2>2. ASSUME NEW k \in 1..Len(x)
          PROVE  <<x[k], y[k]>> \in R
        <3>1. CASE k <= l
            <4>1. k \in 1..l /\ x[k] = s[k] /\ y[k] = t[k]
                BY <1>1, <1>2, <2>1, <3>1
            <4> QED BY <2>1, <4>1
        <3>2. CASE ~(k <= l)
            <4>1. k - l \in 1..m /\ x[k] = u[k - l] /\ y[k] = w[k - l]
                BY <1>1, <1>2, <2>1, <3>2
            <4> QED BY <2>1, <4>1
        <3> QED BY <3>1, <3>2
    <2>3. Len(x) = Len(y)
        BY <1>1, <1>2, <2>1
    <2> QED BY <2>2, <2>3 DEF Pairwise
<1> QED BY <1>3, <1>4 DEF x, y

LEMMA HeadTail ==
    ASSUME NEW A, NEW s \in Seq(A), s # <<>>
    PROVE  s[1] \in A /\ Tail(s) \in Seq(A) /\ Len(Tail(s)) = Len(s) - 1 /\ s = <<s[1]>> \o Tail(s)
<1>1. s[1] \in A /\ Tail(s) \in Seq(A) /\ Len(Tail(s)) = Len(s) - 1 /\ Len(s) \in Nat /\ Len(s) > 0
    BY EmptySeq, LenProperties
<1> DEFINE t == <<s[1]>> \o Tail(s)
<1>2. t \in Seq(A) /\ Len(t) = Len(s)
      /\ \A k \in 1..Len(t) : t[k] = IF k <= 1 THEN s[1] ELSE Tail(s)[k - 1]
    <2>1. <<s[1]>> \in Seq(A) /\ Len(<<s[1]>>) = 1 /\ <<s[1]>>[1] = s[1]
        BY <1>1
    <2> DEFINE h == <<s[1]>>
               r == Tail(s)
    <2>2. h \in Seq(A) /\ r \in Seq(A) /\ Len(h) = 1 /\ h[1] = s[1] /\ Len(r) = Len(s) - 1
        BY <1>1, <2>1
    <2> HIDE DEF h, r
    <2>3. h \o r \in Seq(A) /\ Len(h \o r) = Len(h) + Len(r)
          /\ \A k \in 1..(Len(h) + Len(r)) : (h \o r)[k] = IF k <= Len(h) THEN h[k] ELSE r[k - Len(h)]
        BY <2>2, ConcatProperties
    <2>5. Len(h) + Len(r) = Len(s)
        BY <1>1, <2>2
    <2>4. \A k \in 1..Len(s) : k <= 1 => h[k] = s[1]
        BY <2>2
    <2>6. h \o r \in Seq(A) /\ Len(h \o r) = Len(s)
          /\ \A k \in 1..Len(s) : (h \o r)[k] = IF k <= 1 THEN s[1] ELSE r[k - 1]
        BY <2>2, <2>3, <2>4, <2>5
    <2> QED BY <2>6 DEF h, r
<1> HIDE DEF t
<1>3. ASSUME NEW k \in 1..Len(s)
      PROVE  s[k] = t[k]
    BY <1>1, <1>2
<1>4. s = t
    BY <1>2, <1>3, SeqEqual
<1> QED BY <1>1, <1>4 DEF t

\* A sequence is what comes first and what follows.
IsSplit(A, s, m, t, u) == t \in Seq(A) /\ u \in Seq(A) /\ Len(t) = m /\ Len(u) = Len(s) - m /\ s = t \o u
LEMMA SplitAt ==
    ASSUME NEW A, NEW s \in Seq(A), NEW m \in Nat, m <= Len(s)
    PROVE  \E t, u : IsSplit(A, s, m, t, u)
<1> DEFINE l == Len(s)
           t == [k \in 1..m |-> s[k]]
           u == [k \in 1..(l - m) |-> s[k + m]]
           x == t \o u
<1>1. l \in Nat /\ l - m \in Nat /\ \A k \in 1..l : s[k] \in A
    OBVIOUS
<1>2. t \in Seq(A) /\ Len(t) = m
    BY <1>1
<1>3. u \in Seq(A) /\ Len(u) = l - m
    <2>1. \A k \in 1..(l - m) : k + m \in 1..l
        BY <1>1
    <2>2. \A k \in 1..(l - m) : s[k + m] \in A
        BY <1>1, <2>1
    <2> QED BY <1>1, <2>2
<1>4. x \in Seq(A) /\ Len(x) = l /\ \A k \in 1..l : x[k] = IF k <= m THEN t[k] ELSE u[k - m]
    <2> HIDE DEF t, u
    <2> QED BY <1>1, <1>2, <1>3, ConcatProperties, LenProperties
<1>5. ASSUME NEW k \in 1..l
      PROVE  s[k] = x[k]
    <2> HIDE DEF x, t, u
    <2>1. CASE k <= m
        <3>1. x[k] = t[k] /\ k \in 1..m
            BY <1>1, <1>4, <2>1
        <3> QED BY <3>1 DEF t
    <2>2. CASE ~(k <= m)
        <3>1. x[k] = u[k - m] /\ k - m \in 1..(l - m) /\ (k - m) + m = k
            BY <1>1, <1>4, <2>2
        <3> QED BY <3>1 DEF u
    <2> QED BY <2>1, <2>2
<1>6. s = x
    <2> HIDE DEF x, t, u
    <2> QED BY <1>4, <1>5, SeqEqual
<1> QED BY <1>2, <1>3, <1>6 DEF IsSplit

-----------------------------------------------------------------------------
(* A constructor, the parts of the values that have its tag, and a head    *)
(* that stands above it.                                                   *)

IsCtor(c) == c \in Pats /\ c.p \in {"lit", "ctor", "tuple", "struct"}
Plain(h) == h \in Pats /\ h.p \notin {"or", "alias"}

Args(c) == IF c.p = "lit" THEN <<>> ELSE c.args
PartTypes(c, t) == [i \in 1..Arity(c) |-> Shape[t].parts[c.tag][PartOf(c, i)]]
PartsFor(c, v) == [i \in 1..Arity(c) |-> v.parts[PartOf(c, i)]]

Kept(h, c) == IsWild(h) \/ h.tag = c.tag
Under(h, c) == IF IsWild(h) THEN Wildcards(Arity(c)) ELSE Args(h)

\* Two struct patterns for the same struct have the same fields.
Alike(h, c) == h.p = "struct" /\ h.tag = c.tag => h.fields = c.fields

OfType == {x \in Pats \X TypeNames : x[2] \in TypesOf[x[1]]}
Fits == {x \in Pats \X AllValues : Matches(x[1], x[2])}
ValueOf == {x \in AllValues \X TypeNames : x[1] \in Inhabitants[x[2]]}
AtMost == {x \in Pats \X Nat : Size[x[1]] <= x[2]}

LEMMA WildcardFacts ==
    /\ Wildcard \in Pats /\ IsWild(Wildcard) /\ Plain(Wildcard)
    /\ TypesOf[Wildcard] = TypeNames /\ Size[Wildcard] = 0
    /\ \A v \in AllValues : Matches(Wildcard, v)
<1>1. Wildcard \in Pats /\ IsWild(Wildcard) /\ Size[Wildcard] = 0 /\ Plain(Wildcard)
    BY SizeType DEF Wildcard, IsWild, Plain
<1>2. TypesOf[Wildcard] = TypesBody(TypesOf, Wildcard)
    BY <1>1, TypesOfDef
<1>3. TypesOf[Wildcard] = TypeNames
    BY <1>1, <1>2 DEF TypesBody
<1>4. \A v \in AllValues : Matches(Wildcard, v)
    BY <1>1, MatchesDef DEF MatchBody
<1> QED BY <1>1, <1>3, <1>4

LEMMA WildcardsFacts ==
    ASSUME NEW n \in Nat
    PROVE  /\ Wildcards(n) \in Seq(Pats) /\ Len(Wildcards(n)) = n
           /\ \A i \in 1..n : Wildcards(n)[i] = Wildcard
<1>1. \A i \in 1..n : Wildcard \in Pats
    BY WildcardFacts
<1> QED BY <1>1 DEF Wildcards

LEMMA TypeFacts ==
    ASSUME NEW t \in TypeNames
    PROVE  /\ Shape[t].kind \in {"ctor", "tuple", "struct", "lit"}
           /\ Shape[t].kind = "ctor" => Tags(t) \in Decls
           /\ Shape[t].kind \in {"tuple", "struct"} => \E c \in Tags(t) : Tags(t) = {c}
           /\ \A c \in Tags(t) : Shape[t].parts[c] \in Seq(TypeNames)
           /\ Inhabitants[t] # {} /\ Inhabitants[t] \subseteq AllValues
           /\ \A v \in Inhabitants[t] :
                 /\ v.tag \in Tags(t)
                 /\ DOMAIN v.parts = DOMAIN Shape[t].parts[v.tag]
                 /\ \A i \in DOMAIN v.parts : v.parts[i] \in Inhabitants[Shape[t].parts[v.tag][i]]
BY TypeAssumption DEF AllValues

LEMMA CtorFacts ==
    ASSUME NEW c, IsCtor(c), NEW t \in TypesOf[c]
    PROVE  /\ c \in Pats /\ t \in TypeNames
           /\ ~IsWild(c) /\ Shape[t].kind = c.p /\ c.tag \in Tags(t)
           /\ Arity(c) \in Nat /\ Args(c) \in Seq(Pats) /\ Len(Args(c)) = Arity(c)
           /\ c.p \in {"ctor", "tuple"} => Arity(c) = Len(Shape[t].parts[c.tag])
           /\ PartTypes(c, t) \in Seq(TypeNames) /\ Len(PartTypes(c, t)) = Arity(c)
           /\ \A i \in 1..Arity(c) :
                /\ PartOf(c, i) \in DOMAIN Shape[t].parts[c.tag]
                /\ PartTypes(c, t)[i] \in TypesOf[Args(c)[i]]
                /\ PartTypes(c, t)[i] = Shape[t].parts[c.tag][PartOf(c, i)]
<1>1. c \in Pats /\ t \in TypesBody(TypesOf, c) /\ ~IsWild(c)
    BY TypesOfDef DEF IsCtor, IsWild
<1>2. t \in TypeNames
    BY <1>1 DEF TypesBody
<1>3. CASE c.p = "lit"
    <2>1. Arity(c) = 0 /\ Args(c) = <<>>
        BY <1>3 DEF Arity, Args
    <2>2. PartTypes(c, t) = <<>>
        BY <2>1 DEF PartTypes
    <2>3. Shape[t].kind = c.p /\ c.tag \in Tags(t)
        BY <1>1, <1>3 DEF TypesBody, HasParts
    <2>4. \A S : <<>> \in Seq(S) /\ Len(<<>>) = 0
        BY EmptySeq
    <2>5. \A i \in 1..Arity(c) : FALSE
        BY <2>1
    <2> QED BY <1>1, <1>2, <1>3, <2>1, <2>2, <2>3, <2>4, <2>5
<1>4. CASE c.p # "lit"
    <2>1. HasParts(c) /\ c.args \in Seq(Pats) /\ Arity(c) = Len(c.args) /\ Args(c) = c.args
        BY <1>1, <1>4, PatternParts DEF HasParts, IsCtor, Arity, Args
    <2>2. /\ c.p = Shape[t].kind /\ c.tag \in Tags(t)
          /\ c.p # "struct" => Len(c.args) = Len(Shape[t].parts[c.tag])
          /\ \A i \in DOMAIN c.args :
                /\ PartOf(c, i) \in DOMAIN Shape[t].parts[c.tag]
                /\ Shape[t].parts[c.tag][PartOf(c, i)] \in TypesOf[c.args[i]]
        BY <1>1, <1>4, <2>1 DEF TypesBody, HasParts
    <2>3. Shape[t].parts[c.tag] \in Seq(TypeNames)
        BY <1>2, <2>2, TypeFacts
    <2>4. Len(c.args) \in Nat /\ DOMAIN c.args = 1..Len(c.args)
        BY <2>1
    <2>5. \A i \in 1..Arity(c) : Shape[t].parts[c.tag][PartOf(c, i)] \in TypeNames
        BY <2>1, <2>2, <2>3, <2>4
    <2>6. PartTypes(c, t) \in Seq(TypeNames) /\ Len(PartTypes(c, t)) = Arity(c)
        BY <2>1, <2>4, <2>5 DEF PartTypes
    <2>7. \A i \in 1..Arity(c) : PartTypes(c, t)[i] = Shape[t].parts[c.tag][PartOf(c, i)]
        BY DEF PartTypes
    <2>8. c.p \in {"ctor", "tuple"} => Arity(c) = Len(Shape[t].parts[c.tag])
        BY <2>1, <2>2
    <2>9. \A i \in 1..Arity(c) : PartTypes(c, t)[i] \in TypesOf[Args(c)[i]]
        BY <2>1, <2>2, <2>4, <2>7
    <2>10. \A i \in 1..Arity(c) : PartOf(c, i) \in DOMAIN Shape[t].parts[c.tag]
        BY <2>1, <2>2, <2>4
    <2> QED BY <1>1, <1>2, <2>1, <2>2, <2>4, <2>6, <2>7, <2>8, <2>9, <2>10
<1> QED BY <1>3, <1>4

\* Constructors of one type with one tag take a value apart the same way.
LEMMA SameParts ==
    ASSUME NEW h, NEW c, IsCtor(h), IsCtor(c), NEW t, t \in TypesOf[h], t \in TypesOf[c],
           h.tag = c.tag, Alike(h, c)
    PROVE  /\ Arity(h) = Arity(c) /\ PartTypes(h, t) = PartTypes(c, t)
           /\ \A i \in 1..Arity(c) : PartOf(h, i) = PartOf(c, i)
<1>1. h.p = c.p
    BY CtorFacts
<1>2. Arity(h) = Arity(c)
    <2>1. CASE c.p = "lit"
        BY <1>1, <2>1 DEF Arity
    <2>2. CASE c.p \in {"ctor", "tuple"}
        BY <1>1, <2>2, CtorFacts
    <2>3. CASE c.p = "struct"
        BY <1>1, <2>3, PatternParts DEF Arity, Alike, IsCtor
    <2> QED BY <2>1, <2>2, <2>3 DEF IsCtor
<1>3. \A i \in 1..Arity(c) : PartOf(h, i) = PartOf(c, i)
    BY <1>1 DEF PartOf, Alike
<1>4. PartTypes(h, t) = PartTypes(c, t)
    BY <1>2, <1>3 DEF PartTypes
<1> QED BY <1>2, <1>3, <1>4

LEMMA PartsOfValue ==
    ASSUME NEW c, IsCtor(c), NEW t \in TypesOf[c], NEW v \in Inhabitants[t], v.tag = c.tag
    PROVE  /\ PartsFor(c, v) \in Seq(AllValues) /\ Len(PartsFor(c, v)) = Arity(c)
           /\ Pairwise(ValueOf, PartsFor(c, v), PartTypes(c, t))
           /\ \A i \in 1..Arity(c) : PartOf(c, i) \in DOMAIN v.parts /\ PartsFor(c, v)[i] = v.parts[PartOf(c, i)]
<1>1. Arity(c) \in Nat /\ t \in TypeNames
    BY CtorFacts
<1>2. ASSUME NEW i \in 1..Arity(c)
      PROVE  /\ PartOf(c, i) \in DOMAIN v.parts
             /\ v.parts[PartOf(c, i)] \in Inhabitants[PartTypes(c, t)[i]]
    <2>1. PartOf(c, i) \in DOMAIN Shape[t].parts[c.tag]
          /\ PartTypes(c, t)[i] = Shape[t].parts[c.tag][PartOf(c, i)]
        BY CtorFacts
    <2> QED BY <1>1, <2>1, TypeFacts
<1>3. ASSUME NEW i \in 1..Arity(c)
      PROVE  /\ PartTypes(c, t)[i] \in TypeNames
             /\ v.parts[PartOf(c, i)] \in AllValues
    <2>1. PartTypes(c, t) \in Seq(TypeNames) /\ Len(PartTypes(c, t)) = Arity(c)
        BY CtorFacts
    <2>2. PartTypes(c, t)[i] \in TypeNames
        BY <2>1
    <2> QED BY <1>2, <2>2, TypeFacts
<1>4. PartsFor(c, v) \in Seq(AllValues) /\ Len(PartsFor(c, v)) = Arity(c)
    BY <1>1, <1>3 DEF PartsFor
<1>5. \A i \in 1..Arity(c) : PartsFor(c, v)[i] = v.parts[PartOf(c, i)]
    BY DEF PartsFor
<1>6. \A i \in 1..Arity(c) : <<PartsFor(c, v)[i], PartTypes(c, t)[i]>> \in ValueOf
    BY <1>2, <1>3, <1>5 DEF ValueOf
<1>7. Len(PartTypes(c, t)) = Arity(c)
    BY CtorFacts
<1>8. Pairwise(ValueOf, PartsFor(c, v), PartTypes(c, t))
    BY <1>4, <1>6, <1>7 DEF Pairwise
<1> QED BY <1>2, <1>4, <1>5, <1>8

\* A head matches a value with the tag of a constructor if it is kept under the
\* constructor and what stands under it matches the parts.
LEMMA HeadMatches ==
    ASSUME NEW h, Plain(h), NEW c, IsCtor(c), NEW t, t \in TypesOf[h], t \in TypesOf[c], Alike(h, c),
           NEW v \in Inhabitants[t], v.tag = c.tag
    PROVE  Matches(h, v) <=> Kept(h, c) /\ Pairwise(Fits, Under(h, c), PartsFor(c, v))
<1>0. t \in TypeNames /\ v \in AllValues /\ h \in Pats /\ Arity(c) \in Nat
    BY CtorFacts, TypeFacts DEF Plain
<1>1. Matches(h, v) = MatchBody(Matching, h, v)
    BY <1>0, MatchesDef
<1>2. /\ PartsFor(c, v) \in Seq(AllValues) /\ Len(PartsFor(c, v)) = Arity(c)
      /\ \A i \in 1..Arity(c) : PartOf(c, i) \in DOMAIN v.parts /\ PartsFor(c, v)[i] = v.parts[PartOf(c, i)]
    BY PartsOfValue
<1>3. \A i \in 1..Arity(c) : PartsFor(c, v)[i] \in AllValues
    BY <1>2
<1>4. CASE IsWild(h)
    <2>1. Matches(h, v) /\ Kept(h, c) /\ Under(h, c) = Wildcards(Arity(c))
        BY <1>1, <1>4 DEF MatchBody, Kept, Under
    <2>2. \A i \in 1..Arity(c) : <<Wildcards(Arity(c))[i], PartsFor(c, v)[i]>> \in Fits
        BY <1>0, <1>3, WildcardFacts, WildcardsFacts DEF Fits
    <2>3. Pairwise(Fits, Wildcards(Arity(c)), PartsFor(c, v))
        BY <1>0, <1>2, <2>2, WildcardsFacts DEF Pairwise
    <2> QED BY <2>1, <2>3
<1>5. CASE ~IsWild(h)
    <2>1. IsCtor(h) /\ Under(h, c) = Args(h) /\ (Kept(h, c) <=> h.tag = c.tag)
        BY <1>0, <1>5, PatternParts DEF Plain, IsCtor, Kept, Under, PatKinds, IsWild
    <2>2. CASE h.tag # c.tag
        BY <1>1, <1>5, <2>1, <2>2 DEF MatchBody, IsCtor
    <2>3. CASE h.tag = c.tag
        <3>1. Arity(h) = Arity(c) /\ \A i \in 1..Arity(c) : PartOf(h, i) = PartOf(c, i)
            BY <2>1, <2>3, SameParts
        <3>2. CASE h.p = "lit"
            <4>1. Args(h) = <<>> /\ Arity(c) = 0
                BY <3>1, <3>2 DEF Args, Arity
            <4>2. Matches(h, v)
                BY <1>1, <2>3, <3>2 DEF MatchBody
            <4>3. Pairwise(Fits, <<>>, PartsFor(c, v))
                <5>1. Len(PartsFor(c, v)) = 0 /\ Len(<<>>) = 0
                    BY <1>2, <4>1
                <5>2. \A i \in 1..Len(<<>>) : FALSE
                    BY <5>1
                <5> QED BY <5>1, <5>2 DEF Pairwise
            <4> QED BY <2>1, <2>3, <4>1, <4>2, <4>3
        <3>3. CASE h.p # "lit"
            <4>1. HasParts(h) /\ Args(h) = h.args /\ h.args \in Seq(Pats) /\ Arity(h) = Len(h.args)
                BY <1>0, <2>1, <3>3, PatternParts DEF IsCtor, HasParts, Args, Arity
            <4>2. DOMAIN h.args = 1..Arity(c) /\ Len(h.args) = Arity(c)
                BY <3>1, <4>1
            <4>3. Matches(h, v) <=>
                    \A i \in DOMAIN h.args :
                        PartOf(h, i) \in DOMAIN v.parts /\ Matching[<<h.args[i], v.parts[PartOf(h, i)]>>]
                BY <1>1, <1>5, <2>3, <3>3, <4>1 DEF MatchBody, HasParts
            <4>4. ASSUME NEW i \in 1..Arity(c)
                  PROVE  <<h.args[i], PartsFor(c, v)[i]>> \in Fits
                         <=> PartOf(h, i) \in DOMAIN v.parts /\ Matching[<<h.args[i], v.parts[PartOf(h, i)]>>]
                <5>1. h.args[i] \in Pats
                    BY <4>1, <4>2
                <5>2. PartOf(h, i) = PartOf(c, i)
                    BY <3>1
                <5> QED BY <1>2, <1>3, <5>1, <5>2 DEF Fits, Matches
            <4>5. Matches(h, v) <=> \A i \in 1..Arity(c) : <<h.args[i], PartsFor(c, v)[i]>> \in Fits
                BY <4>2, <4>3, <4>4
            <4>6. Matches(h, v) <=> Pairwise(Fits, h.args, PartsFor(c, v))
                BY <1>2, <4>2, <4>5 DEF Pairwise
            <4> QED BY <2>1, <2>3, <4>1, <4>6
        <3> QED BY <3>2, <3>3
    <2> QED BY <2>2, <2>3
<1> QED BY <1>4, <1>5

LEMMA PlainHead ==
    ASSUME NEW h, Plain(h)
    PROVE  IsWild(h) \/ IsCtor(h)
BY PatternParts DEF Plain, IsWild, IsCtor, PatKinds

\* What the code does with a row: under a constructor it goes on with what
\* stands under it, if the head is kept.
LEMMA SpecializedHead ==
    ASSUME NEW h, Plain(h), NEW c, IsCtor(c), NEW t, t \in TypesOf[h], t \in TypesOf[c], NEW rest \in Seq(Pats)
    PROVE  SpecializeHead(h, rest, c) = IF Kept(h, c) THEN <<Under(h, c) \o rest>> ELSE <<>>
<1>1. CASE IsWild(h)
    <2>1. SpecializeHead(h, rest, c) = <<Wildcards(Arity(c)) \o rest>>
        BY <1>1 DEF SpecializeHead, IsWild
    <2> QED BY <1>1, <2>1 DEF Kept, Under
<1>2. CASE ~IsWild(h)
    <2>1. IsCtor(h) /\ Under(h, c) = Args(h) /\ (Kept(h, c) <=> h.tag = c.tag)
        BY <1>2, PlainHead DEF Under, Kept
    <2>2. /\ h.p = Shape[t].kind /\ c.p = Shape[t].kind /\ h.p = c.p
          /\ h.tag \in Tags(t) /\ c.tag \in Tags(t) /\ t \in TypeNames
        BY <2>1, CtorFacts
    <2>3. CASE h.p = "tuple"
        <3>1. h.tag = c.tag
            BY <2>2, <2>3, TypeFacts
        <3>2. SpecializeHead(h, rest, c) = <<h.args \o rest>>
            BY <1>2, <2>2, <2>3 DEF SpecializeHead
        <3> QED BY <2>1, <2>3, <3>1, <3>2 DEF Args
    <2>4. CASE h.p \in {"ctor", "struct"}
        <3>1. SpecializeHead(h, rest, c) = IF c.tag = h.tag THEN <<h.args \o rest>> ELSE <<>>
            BY <1>2, <2>2, <2>4 DEF SpecializeHead
        <3> QED BY <2>1, <2>4, <3>1 DEF Args
    <2>5. CASE h.p = "lit"
        <3>1. SpecializeHead(h, rest, c) = IF c.tag = h.tag THEN <<rest>> ELSE <<>>
            BY <1>2, <2>2, <2>5 DEF SpecializeHead
        <3>2. <<>> \o rest = rest
            BY ConcatEmptySeq
        <3> QED BY <2>1, <2>5, <3>1, <3>2 DEF Args
    <2> QED BY <2>1, <2>3, <2>4, <2>5 DEF IsCtor
<1> QED BY <1>1, <1>2

LEMMA UnderFacts ==
    ASSUME NEW h, Plain(h), NEW c, IsCtor(c), NEW t, t \in TypesOf[h], t \in TypesOf[c], Alike(h, c),
           Kept(h, c)
    PROVE  /\ Under(h, c) \in Seq(Pats) /\ Len(Under(h, c)) = Arity(c)
           /\ Pairwise(OfType, Under(h, c), PartTypes(c, t))
           /\ \A i \in 1..Arity(c) :
                \/ Under(h, c)[i] = Wildcard
                \/ Under(h, c)[i] \in Children(h) /\ Size[Under(h, c)[i]] < Size[h]
<1>0. /\ Arity(c) \in Nat /\ PartTypes(c, t) \in Seq(TypeNames) /\ Len(PartTypes(c, t)) = Arity(c)
      /\ h \in Pats
    BY CtorFacts DEF Plain
<1>1. CASE IsWild(h)
    <2>1. Under(h, c) = Wildcards(Arity(c))
        BY <1>1 DEF Under
    <2>2. /\ Wildcards(Arity(c)) \in Seq(Pats) /\ Len(Wildcards(Arity(c))) = Arity(c)
          /\ \A i \in 1..Arity(c) : Wildcards(Arity(c))[i] = Wildcard
        BY <1>0, WildcardsFacts
    <2>3. \A i \in 1..Arity(c) : PartTypes(c, t)[i] \in TypeNames
        BY <1>0
    <2>4. \A i \in 1..Arity(c) : <<Wildcards(Arity(c))[i], PartTypes(c, t)[i]>> \in OfType
        BY <2>2, <2>3, WildcardFacts DEF OfType
    <2>5. Pairwise(OfType, Wildcards(Arity(c)), PartTypes(c, t))
        BY <1>0, <2>2, <2>4 DEF Pairwise
    <2>6. \A i \in 1..Arity(c) : Under(h, c)[i] = Wildcard
        BY <2>1, <2>2
    <2>7. /\ Under(h, c) \in Seq(Pats) /\ Len(Under(h, c)) = Arity(c)
          /\ Pairwise(OfType, Under(h, c), PartTypes(c, t))
        BY <2>1, <2>2, <2>5
    <2> QED BY <2>6, <2>7
<1>2. CASE ~IsWild(h)
    <2>1. IsCtor(h) /\ Under(h, c) = Args(h) /\ h.tag = c.tag
        BY <1>2, PlainHead DEF Under, Kept
    <2>2. Arity(h) = Arity(c) /\ PartTypes(h, t) = PartTypes(c, t)
        BY <2>1, SameParts
    <2>3. /\ Args(h) \in Seq(Pats) /\ Len(Args(h)) = Arity(h)
          /\ \A i \in 1..Arity(h) : PartTypes(h, t)[i] \in TypesOf[Args(h)[i]]
        BY <2>1, CtorFacts
    <2>4. ASSUME NEW i \in 1..Arity(c)
          PROVE  <<Args(h)[i], PartTypes(c, t)[i]>> \in OfType
        <3>1. Args(h)[i] \in Pats /\ PartTypes(c, t)[i] \in TypeNames
            BY <1>0, <2>2, <2>3
        <3> QED BY <2>2, <2>3, <3>1 DEF OfType
    <2>5. Pairwise(OfType, Args(h), PartTypes(c, t))
        BY <1>0, <2>2, <2>3, <2>4 DEF Pairwise
    <2>6. ASSUME NEW i \in 1..Arity(c)
          PROVE  Args(h)[i] \in Children(h) /\ Size[Args(h)[i]] < Size[h]
        <3>1. h.p # "lit"
            BY <2>2, <2>3 DEF Arity
        <3>2. HasParts(h) /\ Args(h) = h.args /\ i \in DOMAIN h.args
            <4>1. HasParts(h) /\ Args(h) = h.args
                BY <2>1, <3>1 DEF IsCtor, HasParts, Args
            <4>2. DOMAIN Args(h) = 1..Arity(c)
                BY <2>2, <2>3
            <4> QED BY <4>1, <4>2
        <3> QED BY <1>0, <3>2, PatternParts DEF Children
    <2> QED BY <2>1, <2>2, <2>3, <2>5, <2>6
<1> QED BY <1>1, <1>2

\* There is a value for every tag of a type, and with the parts a constructor is given.
LEMMA Build ==
    ASSUME NEW c, IsCtor(c), NEW t, t \in TypesOf[c], c.p = "struct" => IsInjective(c.fields),
           NEW us, Pairwise(ValueOf, us, PartTypes(c, t))
    PROVE  \E v \in Inhabitants[t] : v.tag = c.tag /\ \A i \in 1..Arity(c) : PartsFor(c, v)[i] = us[i]
<1> DEFINE n == Arity(c)
           ts == Shape[t].parts[c.tag]
           PosAt(j) == CHOOSE i \in 1..n : PartOf(c, i) = j
           ps == [j \in DOMAIN ts |->
                    IF \E i \in 1..n : PartOf(c, i) = j THEN us[PosAt(j)] ELSE CHOOSE v \in Inhabitants[ts[j]] : TRUE]
           v == value(c.tag, ps)
<1>1. /\ t \in TypeNames /\ c.tag \in Tags(t) /\ n \in Nat /\ ts \in Seq(TypeNames)
      /\ \A i \in 1..n : PartOf(c, i) \in DOMAIN ts /\ PartTypes(c, t)[i] = ts[PartOf(c, i)]
      /\ Len(PartTypes(c, t)) = n
    BY CtorFacts, TypeFacts
<1>2. ASSUME NEW i \in 1..n
      PROVE  us[i] \in Inhabitants[ts[PartOf(c, i)]]
    <2>1. <<us[i], PartTypes(c, t)[i]>> \in ValueOf
        BY <1>1, <1>2 DEF Pairwise
    <2> QED BY <1>1, <2>1 DEF ValueOf
<1>3. ASSUME NEW i \in 1..n, NEW j \in 1..n, PartOf(c, i) = PartOf(c, j)
      PROVE  i = j
    <2>1. CASE c.p = "struct"
        <3>1. c.fields \in Seq(Nat) /\ Len(c.fields) = n
            BY <2>1, PatternParts DEF IsCtor, HasParts, Arity
        <3>2. DOMAIN c.fields = 1..n /\ c.fields[i] = c.fields[j]
            BY <1>3, <2>1, <3>1 DEF PartOf
        <3> QED BY <2>1, <3>2 DEF IsInjective
    <2>2. CASE c.p # "struct"
        BY <1>3, <2>2 DEF PartOf
    <2> QED BY <2>1, <2>2
<1>4. ASSUME NEW i \in 1..n
      PROVE  PosAt(PartOf(c, i)) = i
    <2>1. \E j \in 1..n : PartOf(c, j) = PartOf(c, i)
        BY <1>4
    <2>2. PosAt(PartOf(c, i)) \in 1..n /\ PartOf(c, PosAt(PartOf(c, i))) = PartOf(c, i)
        BY <2>1
    <2> HIDE DEF PosAt
    <2> QED BY <1>3, <2>2
<1> HIDE DEF PosAt
<1>5. ASSUME NEW j \in DOMAIN ts
      PROVE  ps[j] \in Inhabitants[ts[j]]
    <2>1. CASE \E i \in 1..n : PartOf(c, i) = j
        <3>1. PICK i \in 1..n : PartOf(c, i) = j
            BY <2>1
        <3>2. ps[j] = us[PosAt(j)]
            BY <2>1
        <3>3. PosAt(j) = i
            BY <1>4, <3>1
        <3>4. us[i] \in Inhabitants[ts[j]]
            BY <1>2, <3>1
        <3> HIDE DEF ps
        <3> QED BY <3>2, <3>3, <3>4
    <2>2. CASE ~(\E i \in 1..n : PartOf(c, i) = j)
        <3>1. ps[j] = CHOOSE w \in Inhabitants[ts[j]] : TRUE
            BY <2>2
        <3>2. ts[j] \in TypeNames
            BY <1>1
        <3>3. Inhabitants[ts[j]] # {}
            BY <3>2, TypeFacts
        <3> HIDE DEF ps
        <3> QED BY <3>1, <3>3
    <2> QED BY <2>1, <2>2
<1>6. ps \in [DOMAIN ts -> AllValues]
    <2>1. \A j \in DOMAIN ts : ts[j] \in TypeNames
        BY <1>1
    <2>2. \A j \in DOMAIN ts : ps[j] \in AllValues
        BY <1>5, <2>1 DEF AllValues
    <2> QED BY <2>2
<1>7. DOMAIN ps = DOMAIN ts
    OBVIOUS
<1>8. ASSUME NEW i \in 1..n
      PROVE  ps[PartOf(c, i)] = us[i]
    <2>1. \E j \in 1..n : PartOf(c, j) = PartOf(c, i)
        OBVIOUS
    <2>2. PartOf(c, i) \in DOMAIN ts
        BY <1>1
    <2>3. ps[PartOf(c, i)] = us[PosAt(PartOf(c, i))]
        BY <2>1, <2>2
    <2> QED BY <1>4, <2>3
<1> HIDE DEF ps
<1>9. v \in Inhabitants[t]
    <2>1. \A i \in DOMAIN ps : ps[i] \in Inhabitants[ts[i]]
        BY <1>5, <1>7
    <2> QED BY <1>1, <1>6, <2>1, TypeAssumption
<1>10. v.tag = c.tag /\ v.parts = ps
    BY DEF value
<1>11. \A i \in 1..n : PartsFor(c, v)[i] = us[i]
    BY <1>8, <1>10 DEF PartsFor
<1> QED BY <1>9, <1>10, <1>11

LEMMA ValueOfTag ==
    ASSUME NEW t \in TypeNames, NEW tag \in Tags(t)
    PROVE  \E v \in Inhabitants[t] : v.tag = tag
<1> DEFINE ts == Shape[t].parts[tag]
           ps == [j \in DOMAIN ts |-> CHOOSE v \in Inhabitants[ts[j]] : TRUE]
           v == value(tag, ps)
<1>1. ASSUME NEW j \in DOMAIN ts
      PROVE  ps[j] \in Inhabitants[ts[j]] /\ ps[j] \in AllValues
    <2>1. ts[j] \in TypeNames
        BY TypeFacts
    <2>2. Inhabitants[ts[j]] # {} /\ Inhabitants[ts[j]] \subseteq AllValues
        BY <2>1, TypeFacts
    <2> QED BY <2>2
<1>2. ps \in [DOMAIN ts -> AllValues] /\ DOMAIN ps = DOMAIN ts
    BY <1>1
<1> HIDE DEF ps
<1>3. \A i \in DOMAIN ps : ps[i] \in Inhabitants[ts[i]]
    BY <1>1, <1>2
<1>4. v \in Inhabitants[t]
    BY <1>2, <1>3, TypeAssumption
<1>5. v.tag = tag
    BY DEF value
<1> QED BY <1>4, <1>5

-----------------------------------------------------------------------------
(* The rows that come from the alternatives of the heads of rows. *)

RowSeqs == Seq(Seq(Pats))
\* Alternative x[2] of the head of row x[1].
HeadPlaces(rows) == {x \in Nat \X Nat : x[1] \in 1..Len(rows) /\ x[2] \in 1..Len(Alternatives[rows[x[1]][1]])}
HeadAt(rows, x) == Alternatives[rows[x[1]][1]][x[2]]

\* The rows of u are what N says of the places in K, each once; o[m] is the place of row m.
IsPicked(o, K, N, u) ==
    /\ \A m \in 1..Len(u) : o[m] \in K /\ u[m] = N[o[m]]
    /\ \A m, n \in 1..Len(u) : m # n => o[m] # o[n]
    /\ \A x \in K : \E m \in 1..Len(u) : o[m] = x

FlattenedPlaces(rows, F) ==
    FlattenSeq([i \in DOMAIN rows |-> FlattenSeq([k \in DOMAIN Alternatives[rows[i][1]] |-> F[<<i, k>>]])])

HeadsOfType(rows, t) == \A i \in 1..Len(rows) : rows[i] # <<>> /\ t \in TypesOf[rows[i][1]]

LEMMA RowFacts ==
    ASSUME NEW rows \in RowSeqs, NEW t, HeadsOfType(rows, t), NEW i \in 1..Len(rows)
    PROVE  /\ rows[i] \in Seq(Pats) /\ rows[i] # <<>> /\ rows[i][1] \in Pats /\ Tail(rows[i]) \in Seq(Pats)
           /\ t \in TypesOf[rows[i][1]] /\ Alternatives[rows[i][1]] \in Seq(Pats)
           /\ DOMAIN Alternatives[rows[i][1]] = 1..Len(Alternatives[rows[i][1]])
<1>1. rows[i] \in Seq(Pats) /\ rows[i] # <<>> /\ t \in TypesOf[rows[i][1]]
    BY DEF RowSeqs, HeadsOfType
<1>2. rows[i][1] \in Pats /\ Tail(rows[i]) \in Seq(Pats)
    BY <1>1, HeadTail
<1>3. Alternatives[rows[i][1]] \in Seq(Pats)
    BY <1>2, AlternativesDef
<1> QED BY <1>1, <1>2, <1>3

LEMMA PlaceFacts ==
    ASSUME NEW rows \in RowSeqs, NEW t, HeadsOfType(rows, t), NEW x \in HeadPlaces(rows)
    PROVE  /\ x = <<x[1], x[2]>> /\ x[1] \in 1..Len(rows) /\ x[2] \in 1..Len(Alternatives[rows[x[1]][1]])
           /\ HeadAt(rows, x) \in Alts(rows[x[1]][1]) /\ HeadAt(rows, x) \in Within[rows[x[1]][1]]
           /\ Plain(HeadAt(rows, x)) /\ HeadAt(rows, x) \in Pats /\ t \in TypesOf[HeadAt(rows, x)]
<1>1. x = <<x[1], x[2]>> /\ x[1] \in 1..Len(rows) /\ x[2] \in 1..Len(Alternatives[rows[x[1]][1]])
    BY DEF HeadPlaces
<1>2. HeadAt(rows, x) \in Alts(rows[x[1]][1])
    BY <1>1 DEF HeadAt, Alts, Elements
<1>3. rows[x[1]][1] \in Pats /\ t \in TypesOf[rows[x[1]][1]]
    BY <1>1, RowFacts
<1>4. Plain(HeadAt(rows, x)) /\ HeadAt(rows, x) \in Pats /\ HeadAt(rows, x) \in Within[rows[x[1]][1]]
    BY <1>2, <1>3, PlainAlternatives DEF Plain
<1>5. t \in TypesOf[HeadAt(rows, x)]
    BY <1>2, <1>3, TypeOfAlternative
<1> QED BY <1>1, <1>2, <1>4, <1>5

LEMMA Picked ==
    ASSUME NEW rows \in RowSeqs, NEW t, HeadsOfType(rows, t), NEW F \in [HeadPlaces(rows) -> AtMostOne(Seq(Pats))]
    PROVE  /\ FlattenedPlaces(rows, F) \in RowSeqs
           /\ \E o : IsPicked(o, {x \in HeadPlaces(rows) : F[x] # <<>>}, [x \in HeadPlaces(rows) |-> F[x][1]],
                              FlattenedPlaces(rows, F))
<1> DEFINE n == Len(rows)
           A == Seq(Pats)
           alts(i) == Alternatives[rows[i][1]]
           ss == [i \in 1..n |-> [k \in 1..Len(alts(i)) |-> F[<<i, k>>]]]
           u == FlattenedPlaces(rows, F)
           K == {x \in HeadPlaces(rows) : F[x] # <<>>}
           N == [x \in HeadPlaces(rows) |-> F[x][1]]
<1>1. /\ n \in Nat /\ DOMAIN rows = 1..n
      /\ \A i \in 1..n : alts(i) \in Seq(Pats) /\ DOMAIN alts(i) = 1..Len(alts(i)) /\ Len(alts(i)) \in Nat
    <2>1. n \in Nat /\ DOMAIN rows = 1..n
        BY DEF RowSeqs
    <2>2. ASSUME NEW i \in 1..n
          PROVE  alts(i) \in Seq(Pats) /\ DOMAIN alts(i) = 1..Len(alts(i)) /\ Len(alts(i)) \in Nat
        BY RowFacts
    <2> QED BY <2>1, <2>2
<1>2. ASSUME NEW i \in 1..n, NEW k \in 1..Len(alts(i))
      PROVE  <<i, k>> \in HeadPlaces(rows) /\ F[<<i, k>>] \in AtMostOne(A)
    <2>1. i \in Nat /\ k \in Nat
        BY <1>1
    <2>2. <<i, k>> \in HeadPlaces(rows)
        BY <2>1 DEF HeadPlaces
    <2> QED BY <2>2
<1>3. ss \in Seq(Seq(AtMostOne(A))) /\ Len(ss) = n
    <2>1. ASSUME NEW i \in 1..n
          PROVE  [k \in 1..Len(alts(i)) |-> F[<<i, k>>]] \in Seq(AtMostOne(A))
        BY <1>1, <1>2
    <2> HIDE DEF alts
    <2> QED BY <1>1, <2>1
<1>4. \A i \in 1..n : Len(ss[i]) = Len(alts(i)) /\ \A k \in 1..Len(ss[i]) : ss[i][k] = F[<<i, k>>]
    <2>1. ASSUME NEW i \in 1..n
          PROVE  Len(ss[i]) = Len(alts(i)) /\ \A k \in 1..Len(alts(i)) : ss[i][k] = F[<<i, k>>]
        <3>1. ss[i] = [k \in 1..Len(alts(i)) |-> F[<<i, k>>]] /\ Len(alts(i)) \in Nat
            BY <1>1
        <3> HIDE DEF ss, alts
        <3> QED BY <3>1
    <2> HIDE DEF ss, alts
    <2> QED BY <2>1
<1>5. u = FlattenSeq([i \in DOMAIN ss |-> FlattenSeq(ss[i])])
    <2>1. DOMAIN ss = 1..n
        OBVIOUS
    <2>2. \A i \in 1..n : ss[i] = [k \in DOMAIN alts(i) |-> F[<<i, k>>]]
        BY <1>1
    <2> HIDE DEF ss
    <2>3. [i \in DOMAIN ss |-> FlattenSeq(ss[i])]
            = [i \in DOMAIN rows |-> FlattenSeq([k \in DOMAIN alts(i) |-> F[<<i, k>>]])]
        BY <1>1, <2>1, <2>2
    <2> QED BY <2>3 DEF FlattenedPlaces
<1> HIDE DEF ss, alts, u
<1>6. u \in Seq(A) /\ \E r, c : IsGathered(r, c, n, ss, u)
    <2> HIDE DEF A
    <2> QED BY <1>3, <1>5, Gathered
<1>7. PICK r, c : IsGathered(r, c, n, ss, u)
    BY <1>6
<1> DEFINE o == [m \in 1..Len(u) |-> <<r[m], c[m]>>]
<1>8. ASSUME NEW m \in 1..Len(u)
      PROVE  o[m] \in K /\ u[m] = N[o[m]]
    <2>1. r[m] \in 1..n /\ c[m] \in 1..Len(ss[r[m]]) /\ ss[r[m]][c[m]] = <<u[m]>>
        BY <1>7 DEF IsGathered
    <2>2. c[m] \in 1..Len(alts(r[m])) /\ F[<<r[m], c[m]>>] = <<u[m]>>
        BY <1>4, <2>1
    <2>3. o[m] \in HeadPlaces(rows) /\ F[o[m]] = <<u[m]>>
        BY <1>2, <2>1, <2>2
    <2> HIDE DEF o
    <2> QED BY <2>3
<1>9. ASSUME NEW m \in 1..Len(u), NEW l \in 1..Len(u), m # l
      PROVE  o[m] # o[l]
    <2>1. r[m] # r[l] \/ c[m] # c[l]
        BY <1>7, <1>9 DEF IsGathered
    <2> QED BY <2>1
<1>10. ASSUME NEW x \in K
       PROVE  \E m \in 1..Len(u) : o[m] = x
    <2>1. x = <<x[1], x[2]>> /\ x[1] \in 1..n /\ x[2] \in 1..Len(alts(x[1]))
        BY PlaceFacts DEF alts
    <2>2. x[2] \in 1..Len(ss[x[1]]) /\ ss[x[1]][x[2]] # <<>>
        BY <1>4, <2>1
    <2>3. PICK m \in 1..Len(u) : r[m] = x[1] /\ c[m] = x[2]
        BY <1>7, <2>1, <2>2 DEF IsGathered
    <2> QED BY <2>1, <2>3
<1>11. IsPicked(o, K, N, u)
    <2> HIDE DEF o, K, N
    <2> QED BY <1>8, <1>9, <1>10 DEF IsPicked
<1> QED BY <1>6, <1>11 DEF u, RowSeqs

\* The rows under a constructor.
KeptPlaces(rows, c) == {x \in HeadPlaces(rows) : Kept(HeadAt(rows, x), c)}
NewRows(rows, c) == [x \in HeadPlaces(rows) |-> Under(HeadAt(rows, x), c) \o Tail(rows[x[1]])]

LEMMA Specialized ==
    ASSUME NEW rows \in RowSeqs, NEW c, IsCtor(c), NEW t \in TypesOf[c], HeadsOfType(rows, t)
    PROVE  /\ Specialize(rows, c) \in RowSeqs
           /\ \E o : IsPicked(o, KeptPlaces(rows, c), NewRows(rows, c), Specialize(rows, c))
<1> DEFINE F == [x \in HeadPlaces(rows) |-> SpecializeHead(HeadAt(rows, x), Tail(rows[x[1]]), c)]
           K == {x \in HeadPlaces(rows) : F[x] # <<>>}
           N == [x \in HeadPlaces(rows) |-> F[x][1]]
<1>1. ASSUME NEW x \in HeadPlaces(rows)
      PROVE  /\ F[x] = IF Kept(HeadAt(rows, x), c) THEN <<Under(HeadAt(rows, x), c) \o Tail(rows[x[1]])>> ELSE <<>>
             /\ F[x] \in AtMostOne(Seq(Pats))
    <2>1. /\ Plain(HeadAt(rows, x)) /\ t \in TypesOf[HeadAt(rows, x)]
          /\ Tail(rows[x[1]]) \in Seq(Pats)
        BY PlaceFacts, RowFacts
    <2>2. F[x] = IF Kept(HeadAt(rows, x), c) THEN <<Under(HeadAt(rows, x), c) \o Tail(rows[x[1]])>> ELSE <<>>
        BY <2>1, SpecializedHead
    <2>3. Kept(HeadAt(rows, x), c) => Under(HeadAt(rows, x), c) \in Seq(Pats)
        <3>1. CASE IsWild(HeadAt(rows, x))
            <4>1. Arity(c) \in Nat
                BY CtorFacts
            <4> QED BY <3>1, <4>1, WildcardsFacts DEF Under
        <3>2. CASE ~IsWild(HeadAt(rows, x))
            <4>1. IsCtor(HeadAt(rows, x))
                BY <2>1, <3>2, PlainHead
            <4> QED BY <2>1, <3>2, <4>1, CtorFacts DEF Under
        <3> QED BY <3>1, <3>2
    <2>4. Kept(HeadAt(rows, x), c) => Under(HeadAt(rows, x), c) \o Tail(rows[x[1]]) \in Seq(Pats)
        BY <2>1, <2>3, ConcatProperties
    <2> HIDE DEF F
    <2> QED BY <2>2, <2>4 DEF AtMostOne
<1>9. ASSUME NEW x \in HeadPlaces(rows)
      PROVE  /\ F[x] # <<>> <=> Kept(HeadAt(rows, x), c)
             /\ F[x] # <<>> => F[x][1] = Under(HeadAt(rows, x), c) \o Tail(rows[x[1]])
    <2> DEFINE s == Under(HeadAt(rows, x), c) \o Tail(rows[x[1]])
    <2>1. F[x] = IF Kept(HeadAt(rows, x), c) THEN <<s>> ELSE <<>>
        BY <1>1
    <2> HIDE DEF s, F
    <2>2. <<s>> # <<>> /\ <<s>>[1] = s
        OBVIOUS
    <2> QED BY <2>1, <2>2 DEF s
<1>2. F \in [HeadPlaces(rows) -> AtMostOne(Seq(Pats))]
    BY <1>1
<1> HIDE DEF F
<1>3. Specialize(rows, c) = FlattenedPlaces(rows, F)
    <2>1. ASSUME NEW i \in DOMAIN rows
          PROVE  SpecializeRow(rows[i], c) = FlattenSeq([k \in DOMAIN Alternatives[rows[i][1]] |-> F[<<i, k>>]])
        <3>1. i \in 1..Len(rows)
            BY DEF RowSeqs
        <3>2. rows[i] # <<>> /\ DOMAIN Alternatives[rows[i][1]] = 1..Len(Alternatives[rows[i][1]])
              /\ Alternatives[rows[i][1]] \in Seq(Pats)
            BY <3>1, RowFacts
        <3>3. ASSUME NEW k \in DOMAIN Alternatives[rows[i][1]]
              PROVE  F[<<i, k>>] = SpecializeHead(Alternatives[rows[i][1]][k], Tail(rows[i]), c)
            <4>1. i \in Nat /\ k \in Nat /\ k \in 1..Len(Alternatives[rows[i][1]])
                BY <3>1, <3>2 DEF RowSeqs
            <4>2. <<i, k>> \in HeadPlaces(rows)
                BY <3>1, <4>1 DEF HeadPlaces
            <4> QED BY <4>2 DEF F, HeadAt
        <3>4. [k \in DOMAIN Alternatives[rows[i][1]] |-> F[<<i, k>>]]
                = [k \in DOMAIN Alternatives[rows[i][1]] |->
                        SpecializeHead(Alternatives[rows[i][1]][k], Tail(rows[i]), c)]
            BY <3>3
        <3> QED BY <3>2, <3>4 DEF SpecializeRow
    <2> QED BY <2>1 DEF Specialize, FlattenedPlaces
<1>4. Specialize(rows, c) \in RowSeqs /\ \E o : IsPicked(o, K, N, Specialize(rows, c))
    BY <1>2, <1>3, Picked
<1>5. K = KeptPlaces(rows, c)
    <2>1. \A x \in HeadPlaces(rows) : F[x] # <<>> <=> Kept(HeadAt(rows, x), c)
        BY <1>9
    <2> QED BY <2>1 DEF KeptPlaces
<1>6. PICK o : IsPicked(o, K, N, Specialize(rows, c))
    BY <1>4
<1>7. \A x \in K : N[x] = NewRows(rows, c)[x]
    <2>1. ASSUME NEW x \in K
          PROVE  F[x][1] = Under(HeadAt(rows, x), c) \o Tail(rows[x[1]])
        BY <1>9
    <2> QED BY <2>1 DEF NewRows
<1>8. IsPicked(o, KeptPlaces(rows, c), NewRows(rows, c), Specialize(rows, c))
    <2> HIDE DEF N
    <2> QED BY <1>5, <1>6, <1>7 DEF IsPicked
<1> QED BY <1>4, <1>8

\* The rows whatever the constructor.
WildPlaces(rows) == {x \in HeadPlaces(rows) : IsWild(HeadAt(rows, x))}
Rests(rows) == [x \in HeadPlaces(rows) |-> Tail(rows[x[1]])]

LEMMA Defaulted ==
    ASSUME NEW rows \in RowSeqs, NEW t, HeadsOfType(rows, t)
    PROVE  /\ DefaultMatrix(rows) \in RowSeqs
           /\ \E o : IsPicked(o, WildPlaces(rows), Rests(rows), DefaultMatrix(rows))
<1> DEFINE F == [x \in HeadPlaces(rows) |-> IF IsWild(HeadAt(rows, x)) THEN <<Tail(rows[x[1]])>> ELSE <<>>]
           K == {x \in HeadPlaces(rows) : F[x] # <<>>}
           N == [x \in HeadPlaces(rows) |-> F[x][1]]
<1>1. ASSUME NEW x \in HeadPlaces(rows)
      PROVE  F[x] \in AtMostOne(Seq(Pats))
    <2>1. Tail(rows[x[1]]) \in Seq(Pats)
        BY PlaceFacts, RowFacts
    <2> QED BY <2>1 DEF AtMostOne
<1>2. F \in [HeadPlaces(rows) -> AtMostOne(Seq(Pats))]
    BY <1>1
<1>3. DefaultMatrix(rows) = FlattenedPlaces(rows, F)
    <2>1. ASSUME NEW i \in DOMAIN rows
          PROVE  DefaultRow(rows[i]) = FlattenSeq([k \in DOMAIN Alternatives[rows[i][1]] |-> F[<<i, k>>]])
        <3>1. i \in 1..Len(rows)
            BY DEF RowSeqs
        <3>2. rows[i] # <<>> /\ DOMAIN Alternatives[rows[i][1]] = 1..Len(Alternatives[rows[i][1]])
              /\ Alternatives[rows[i][1]] \in Seq(Pats)
            BY <3>1, RowFacts
        <3>3. ASSUME NEW k \in DOMAIN Alternatives[rows[i][1]]
              PROVE  F[<<i, k>>] = IF IsWild(Alternatives[rows[i][1]][k]) THEN <<Tail(rows[i])>> ELSE <<>>
            <4>1. i \in Nat /\ k \in Nat /\ k \in 1..Len(Alternatives[rows[i][1]])
                BY <3>1, <3>2 DEF RowSeqs
            <4>2. <<i, k>> \in HeadPlaces(rows)
                BY <3>1, <4>1 DEF HeadPlaces
            <4> QED BY <4>2 DEF HeadAt
        <3> HIDE DEF F
        <3>4. [k \in DOMAIN Alternatives[rows[i][1]] |-> F[<<i, k>>]]
                = [k \in DOMAIN Alternatives[rows[i][1]] |->
                        IF IsWild(Alternatives[rows[i][1]][k]) THEN <<Tail(rows[i])>> ELSE <<>>]
            BY <3>3
        <3> QED BY <3>2, <3>4 DEF DefaultRow
    <2> HIDE DEF F
    <2> QED BY <2>1 DEF DefaultMatrix, FlattenedPlaces
<1>4. DefaultMatrix(rows) \in RowSeqs /\ \E o : IsPicked(o, K, N, DefaultMatrix(rows))
    <2> HIDE DEF F
    <2> QED BY <1>2, <1>3, Picked
<1>5. K = WildPlaces(rows) /\ \A x \in K : N[x] = Rests(rows)[x]
    BY DEF WildPlaces, Rests
<1>6. PICK o : IsPicked(o, K, N, DefaultMatrix(rows))
    BY <1>4
<1>7. IsPicked(o, WildPlaces(rows), Rests(rows), DefaultMatrix(rows))
    <2> HIDE DEF N, K
    <2> QED BY <1>5, <1>6 DEF IsPicked
<1> QED BY <1>4, <1>7

-----------------------------------------------------------------------------
(* The constructors at the heads of rows. *)

Ctors == {c \in Pats : IsCtor(c)}

\* The constructors of a pattern are its alternatives that are no wildcards;
\* test m is alternative r[m].
IsTested(r, alts, s) ==
    /\ \A m \in 1..Len(s) : r[m] \in 1..Len(alts) /\ s[m] = alts[r[m]] /\ ~IsWild(s[m])
    /\ \A m, n \in 1..Len(s) : m # n => r[m] # r[n]
    /\ \A k \in 1..Len(alts) : ~IsWild(alts[k]) => \E m \in 1..Len(s) : r[m] = k

LEMMA TestsFacts ==
    ASSUME NEW pat \in Pats
    PROVE  Tests(pat) \in Seq(Ctors) /\ \E r : IsTested(r, Alternatives[pat], Tests(pat))
<1> DEFINE alts == Alternatives[pat]
           n == Len(alts)
           ss == [k \in 1..n |-> IF IsWild(alts[k]) THEN <<>> ELSE <<alts[k]>>]
           u == Tests(pat)
<1>1. alts \in Seq(Pats) /\ n \in Nat /\ DOMAIN alts = 1..n
    BY AlternativesDef
<1>2. ASSUME NEW k \in 1..n, ~IsWild(alts[k])
      PROVE  alts[k] \in Ctors
    <2>1. alts[k] \in Alts(pat)
        BY DEF Alts, Elements
    <2>2. Plain(alts[k])
        BY <2>1, PlainAlternatives DEF Plain
    <2> HIDE DEF alts
    <2> QED BY <1>2, <2>2, PlainHead DEF Ctors, Plain
<1>3. u = FlattenSeq(ss)
    BY <1>1 DEF Tests
<1> HIDE DEF alts, u
<1>4. ASSUME NEW k \in 1..n
      PROVE  /\ ss[k] \in Seq(Ctors)
             /\ IsWild(alts[k]) => Len(ss[k]) = 0
             /\ ~IsWild(alts[k]) => Len(ss[k]) = 1 /\ ss[k][1] = alts[k]
    <2>1. CASE IsWild(alts[k])
        <3>1. ss[k] = <<>>
            BY <2>1
        <3> HIDE DEF ss
        <3> QED BY <2>1, <3>1, EmptySeq
    <2>2. CASE ~IsWild(alts[k])
        <3>1. ss[k] = <<alts[k]>> /\ alts[k] \in Ctors
            BY <1>2, <2>2
        <3> HIDE DEF ss
        <3> QED BY <2>2, <3>1
    <2> QED BY <2>1, <2>2
<1>5. ss \in Seq(Seq(Ctors)) /\ Len(ss) = n
    <2>1. \A k \in 1..n : ss[k] \in Seq(Ctors)
        BY <1>4
    <2>2. ss = [k \in 1..n |-> ss[k]]
        OBVIOUS
    <2> HIDE DEF ss
    <2> QED BY <1>1, <2>1, <2>2
<1> HIDE DEF ss
<1>6. u \in Seq(Ctors) /\ \E r, c : IsIndex(r, c, n, ss, u)
    BY <1>3, <1>5, Flattened
<1>7. PICK r, c : IsIndex(r, c, n, ss, u)
    BY <1>6
<1>8. ASSUME NEW m \in 1..Len(u)
      PROVE  r[m] \in 1..n /\ c[m] = 1 /\ u[m] = alts[r[m]] /\ ~IsWild(alts[r[m]])
    <2>1. r[m] \in 1..n /\ c[m] \in 1..Len(ss[r[m]]) /\ u[m] = ss[r[m]][c[m]]
        BY <1>7 DEF IsIndex
    <2>2. ~IsWild(alts[r[m]])
        <3>1. Len(ss[r[m]]) # 0
            BY <2>1
        <3> QED BY <1>4, <2>1, <3>1
    <2>3. Len(ss[r[m]]) = 1 /\ ss[r[m]][1] = alts[r[m]]
        BY <1>4, <2>1, <2>2
    <2>4. c[m] = 1
        BY <2>1, <2>3
    <2> QED BY <2>1, <2>2, <2>3, <2>4
<1>9. ASSUME NEW m \in 1..Len(u), NEW l \in 1..Len(u), m # l
      PROVE  r[m] # r[l]
    <2>1. r[m] # r[l] \/ c[m] # c[l]
        BY <1>7, <1>9 DEF IsIndex
    <2> QED BY <1>8, <2>1
<1>10. ASSUME NEW k \in 1..n, ~IsWild(alts[k])
       PROVE  \E m \in 1..Len(u) : r[m] = k
    <2>1. 1 \in 1..Len(ss[k])
        BY <1>4, <1>10
    <2> QED BY <1>7, <2>1 DEF IsIndex
<1>11. IsTested(r, alts, u)
    BY <1>8, <1>9, <1>10 DEF IsTested
<1> QED BY <1>6, <1>11 DEF alts, u

LEMMA WithHeadType ==
    ASSUME NEW seen \in Seq(Ctors), NEW row \in Seq(Pats)
    PROVE  WithHead(seen, row) \in Seq(Ctors)
<1>1. CASE row = <<>> \/ IsWild(row[1])
    BY <1>1 DEF WithHead
<1>2. CASE row # <<>> /\ ~IsWild(row[1])
    <2>1. row[1] \in Pats
        BY <1>2, HeadTail
    <2>2. CASE row[1].p \in {"or", "alias"}
        <3>1. WithHead(seen, row) = seen \o Tests(row[1])
            BY <1>2, <2>2 DEF WithHead
        <3> QED BY <2>1, <3>1, TestsFacts, ConcatProperties
    <2>3. CASE row[1].p \notin {"or", "alias"}
        <3>1. row[1] \in Ctors
            BY <1>2, <2>1, <2>3, PlainHead DEF Plain, Ctors
        <3>2. Append(seen, row[1]) \in Seq(Ctors)
            BY <3>1, AppendProperties
        <3>3. WithHead(seen, row) \in {seen, Append(seen, row[1])}
            BY <1>2, <2>3 DEF WithHead
        <3> QED BY <3>2, <3>3
    <2> QED BY <2>2, <2>3
<1> QED BY <1>1, <1>2

\* f[k] is what the heads of the first k rows give.
IsCollected(f, rows) ==
    /\ f[0] = <<>>
    /\ \A k \in 0..Len(rows) : f[k] \in Seq(Ctors)
    /\ \A k \in 1..Len(rows) : f[k] = WithHead(f[k - 1], rows[k])
    /\ Constructors(rows) = f[Len(rows)]

LEMMA ConstructorsDef ==
    ASSUME NEW rows \in RowSeqs
    PROVE  Constructors(rows) \in Seq(Ctors) /\ \E f : IsCollected(f, rows)
<1> DEFINE n == Len(rows)
           V == Seq(Ctors)
           G == [i \in 1..n |-> [s \in V |-> WithHead(s, rows[i])]]
           Is(f) == f = [k \in 0..n |-> IF k = 0 THEN <<>> ELSE WithHead(f[k - 1], rows[k])]
           F == CHOOSE f : Is(f)
<1>1. n \in Nat /\ \A i \in 1..n : rows[i] \in Seq(Pats)
    BY DEF RowSeqs
<1>2. <<>> \in V
    BY EmptySeq
<1>3. StaysIn(V, n, G)
    BY <1>1, WithHeadType DEF StaysIn
<1>4. PICK f : IsIterate(f, V, n, <<>>, G)
    <2> HIDE DEF V, G
    <2> QED BY <1>1, <1>2, <1>3, IntervalRecursion
<1>5. /\ f \in [0..n -> V] /\ f[0] = <<>>
      /\ \A i \in 1..n : f[i] = WithHead(f[i - 1], rows[i])
    <2>1. f \in [0..n -> V] /\ f[0] = <<>> /\ \A i \in 1..n : f[i] = G[i][f[i - 1]]
        BY <1>4 DEF IsIterate
    <2>2. ASSUME NEW i \in 1..n
          PROVE  f[i] = WithHead(f[i - 1], rows[i])
        <3>1. i - 1 \in 0..n
            BY <1>1
        <3>2. f[i - 1] \in V
            BY <2>1, <3>1
        <3> QED BY <2>1, <3>2
    <2> QED BY <2>1, <2>2
<1>6. Is(f)
    <2>1. \A k \in 0..n : f[k] = IF k = 0 THEN <<>> ELSE WithHead(f[k - 1], rows[k])
        <3>1. \A k \in 0..n : k # 0 => k \in 1..n
            BY <1>1
        <3> QED BY <1>5, <3>1
    <2>2. f = [k \in 0..n |-> f[k]]
        BY <1>5
    <2> QED BY <2>1, <2>2
<1>7. Is(F)
    <2> HIDE DEF Is
    <2> QED BY <1>6
<1>8. Constructors(rows) = F[n]
    BY Zenon DEF Constructors
<1> HIDE DEF F
<1>9. F[0] = <<>> /\ \A k \in 1..n : F[k] = WithHead(F[k - 1], rows[k])
    <2>1. \A k \in 0..n : F[k] = IF k = 0 THEN <<>> ELSE WithHead(F[k - 1], rows[k])
        BY <1>7
    <2>2. 0 \in 0..n /\ \A k \in 1..n : k \in 0..n /\ k # 0
        BY <1>1
    <2> QED BY <2>1, <2>2
<1> DEFINE S == {k \in 0..n : F[k] \in V}
<1>10. \A k \in 0..n : k \in S
    <2>1. 0 \in S
        <3>1. 0 \in 0..n
            BY <1>1
        <3>2. F[0] \in V
            <4> HIDE DEF V
            <4> QED BY <1>2, <1>9
        <3> QED BY <3>1, <3>2
    <2>2. ASSUME NEW k \in 1..n, k - 1 \in S
          PROVE  k \in S
        BY <1>1, <1>9, <2>2, WithHeadType
    <2> HIDE DEF S
    <2> QED BY <1>1, <2>1, <2>2, IntervalInduction
<1>11. IsCollected(F, rows)
    BY <1>8, <1>9, <1>10 DEF IsCollected
<1>12. n \in 0..n
    BY <1>1
<1> QED BY <1>8, <1>10, <1>11, <1>12

-----------------------------------------------------------------------------
(* is_useful calls itself, and says yes if one of the calls does. *)

LEMMA FlattenType ==
    ASSUME NEW A, NEW n \in Nat, NEW ss \in [1..n -> Seq(A)]
    PROVE  FlattenSeq(ss) \in Seq(A)
<1>1. ss \in Seq(Seq(A))
    OBVIOUS
<1> QED BY <1>1, Flattened

LEMMA SpecializeHeadType ==
    ASSUME NEW h, Plain(h), NEW c, IsCtor(c), NEW rest \in Seq(Pats)
    PROVE  SpecializeHead(h, rest, c) \in RowSeqs
<1>0. \A r \in Seq(Pats) : <<r>> \in RowSeqs
    BY DEF RowSeqs
<1>1. <<>> \in RowSeqs
    BY EmptySeq DEF RowSeqs
<1>2. CASE IsWild(h)
    <2>1. SpecializeHead(h, rest, c) = <<Wildcards(Arity(c)) \o rest>>
        BY <1>2 DEF SpecializeHead, IsWild
    <2>2. Arity(c) \in Nat
        BY PatternParts DEF IsCtor, Arity, HasParts
    <2> QED BY <1>0, <2>1, <2>2, WildcardsFacts, ConcatProperties
<1>3. CASE h.p \in {"ctor", "tuple", "struct"}
    <2>1. h.args \o rest \in Seq(Pats)
        BY <1>3, PatternParts, ConcatProperties DEF Plain, HasParts
    <2>2. SpecializeHead(h, rest, c) \in {<<h.args \o rest>>, <<>>}
        BY <1>3 DEF SpecializeHead, IsWild
    <2> QED BY <1>0, <1>1, <2>1, <2>2
<1>4. CASE h.p = "lit"
    <2>1. SpecializeHead(h, rest, c) \in {<<rest>>, <<>>}
        BY <1>4 DEF SpecializeHead, IsWild
    <2> QED BY <1>0, <1>1, <2>1
<1> QED BY <1>2, <1>3, <1>4, PlainHead DEF IsCtor

LEMMA AlternativeAt ==
    ASSUME NEW pat \in Pats
    PROVE  /\ DOMAIN Alternatives[pat] = 1..Len(Alternatives[pat]) /\ Len(Alternatives[pat]) \in Nat
           /\ \A k \in 1..Len(Alternatives[pat]) : Plain(Alternatives[pat][k]) /\ Alternatives[pat][k] \in Alts(pat)
<1>1. Alternatives[pat] \in Seq(Pats)
    BY AlternativesDef
<1>2. \A k \in 1..Len(Alternatives[pat]) : Alternatives[pat][k] \in Alts(pat)
    BY DEF Alts, Elements
<1>3. \A k \in 1..Len(Alternatives[pat]) : Plain(Alternatives[pat][k])
    BY <1>2, PlainAlternatives DEF Plain
<1> QED BY <1>1, <1>2, <1>3

LEMMA SpecializeType ==
    ASSUME NEW rows \in RowSeqs, NEW c, IsCtor(c)
    PROVE  Specialize(rows, c) \in RowSeqs
<1>1. DOMAIN rows = 1..Len(rows) /\ Len(rows) \in Nat /\ \A i \in 1..Len(rows) : rows[i] \in Seq(Pats)
    BY DEF RowSeqs
<1>2. ASSUME NEW row \in Seq(Pats)
      PROVE  SpecializeRow(row, c) \in RowSeqs
    <2>1. CASE row = <<>>
        BY <2>1, EmptySeq DEF SpecializeRow, RowSeqs
    <2>2. CASE row # <<>>
        <3> DEFINE alts == Alternatives[row[1]]
                   ss == [k \in DOMAIN alts |-> SpecializeHead(alts[k], Tail(row), c)]
        <3>1. row[1] \in Pats /\ Tail(row) \in Seq(Pats)
            BY <2>2, HeadTail
        <3>2. DOMAIN alts = 1..Len(alts) /\ Len(alts) \in Nat /\ \A k \in 1..Len(alts) : Plain(alts[k])
            BY <3>1, AlternativeAt
        <3>3. ss \in [1..Len(alts) -> Seq(Seq(Pats))]
            <4> HIDE DEF alts
            <4> QED BY <3>1, <3>2, SpecializeHeadType DEF RowSeqs
        <3>4. FlattenSeq(ss) \in Seq(Seq(Pats))
            <4> HIDE DEF ss, alts
            <4> QED BY <3>2, <3>3, FlattenType
        <3> QED BY <2>2, <3>4 DEF SpecializeRow, RowSeqs
    <2> QED BY <2>1, <2>2
<1>3. [i \in DOMAIN rows |-> SpecializeRow(rows[i], c)] \in [1..Len(rows) -> Seq(Seq(Pats))]
    BY <1>1, <1>2 DEF RowSeqs
<1> QED BY <1>1, <1>3, FlattenType DEF Specialize, RowSeqs

LEMMA DefaultType ==
    ASSUME NEW rows \in RowSeqs
    PROVE  DefaultMatrix(rows) \in RowSeqs
<1>1. DOMAIN rows = 1..Len(rows) /\ Len(rows) \in Nat /\ \A i \in 1..Len(rows) : rows[i] \in Seq(Pats)
    BY DEF RowSeqs
<1>2. ASSUME NEW row \in Seq(Pats)
      PROVE  DefaultRow(row) \in RowSeqs
    <2>1. CASE row = <<>>
        BY <2>1, EmptySeq DEF DefaultRow, RowSeqs
    <2>2. CASE row # <<>>
        <3> DEFINE alts == Alternatives[row[1]]
                   ss == [k \in DOMAIN alts |-> IF IsWild(alts[k]) THEN <<Tail(row)>> ELSE <<>>]
        <3>1. row[1] \in Pats /\ Tail(row) \in Seq(Pats)
            BY <2>2, HeadTail
        <3>2. DOMAIN alts = 1..Len(alts) /\ Len(alts) \in Nat
            BY <3>1, AlternativeAt
        <3>3. ss \in [1..Len(alts) -> Seq(Seq(Pats))]
            <4>1. <<Tail(row)>> \in Seq(Seq(Pats)) /\ <<>> \in Seq(Seq(Pats))
                BY <3>1, EmptySeq
            <4> HIDE DEF alts
            <4> QED BY <3>2, <4>1
        <3>4. FlattenSeq(ss) \in Seq(Seq(Pats))
            <4> HIDE DEF ss, alts
            <4> QED BY <3>2, <3>3, FlattenType
        <3> QED BY <2>2, <3>4 DEF DefaultRow, RowSeqs
    <2> QED BY <2>1, <2>2
<1>3. [i \in DOMAIN rows |-> DefaultRow(rows[i])] \in [1..Len(rows) -> Seq(Seq(Pats))]
    BY <1>1, <1>2 DEF RowSeqs
<1> QED BY <1>1, <1>3, FlattenType DEF DefaultMatrix, RowSeqs

UsefulBody(f, call) ==
    LET rows == call[1]
        q == call[2]
        q1 == q[1]
        rest == Tail(q)
        ctors == Constructors(rows)
    IN  \/ rows = <<>>
        \/ /\ rows # <<>> /\ q # <<>>
           /\ \/ /\ q1.p \in {"ctor", "tuple"}
                 /\ f[<<Specialize(rows, q1), q1.args \o rest>>]
              \/ /\ q1.p \in {"lit", "struct"}
                 /\ f[<<Specialize(rows, q1), rest>>]
              \/ /\ IsWild(q1) /\ AllCovered(ctors)
                 /\ \E i \in DOMAIN ctors :
                        f[<<Specialize(rows, ctors[i]), Wildcards(Arity(ctors[i])) \o rest>>]
              \/ /\ IsWild(q1) /\ ~AllCovered(ctors)
                 /\ f[<<DefaultMatrix(rows), rest>>]
              \/ /\ q1.p = "or"
                 /\ \/ f[<<rows, <<q1.l>> \o rest>>]
                    \/ f[<<rows, <<q1.r>> \o rest>>]
              \/ /\ q1.p = "alias"
                 /\ f[<<rows, <<q1.q>> \o rest>>]

\* The calls is_useful makes for rows and a vector with head q1 and tail rest.
Subcalls(rows, q1, rest) ==
    IF q1.p \in {"ctor", "tuple"} THEN {<<Specialize(rows, q1), q1.args \o rest>>}
    ELSE IF q1.p \in {"lit", "struct"} THEN {<<Specialize(rows, q1), rest>>}
    ELSE IF q1.p = "or" THEN {<<rows, <<q1.l>> \o rest>>, <<rows, <<q1.r>> \o rest>>}
    ELSE IF q1.p = "alias" THEN {<<rows, <<q1.q>> \o rest>>}
    ELSE IF AllCovered(Constructors(rows))
         THEN {<<Specialize(rows, Constructors(rows)[i]), Wildcards(Arity(Constructors(rows)[i])) \o rest>> :
                    i \in DOMAIN Constructors(rows)}
         ELSE {<<DefaultMatrix(rows), rest>>}

CallIsUseful(f, call) ==
    \/ call[1] = <<>>
    \/ call[2] # <<>> /\ \E y \in Subcalls(call[1], call[2][1], Tail(call[2])) : f[y]

LEMMA UsefulBodyCalls ==
    ASSUME NEW f, NEW call \in Calls
    PROVE  UsefulBody(f, call) = CallIsUseful(f, call)
<1> DEFINE rows == call[1]
           q == call[2]
           q1 == q[1]
           rest == Tail(q)
           Some == \E y \in Subcalls(rows, q1, rest) : f[y]
<1>1. q \in Seq(Pats)
    BY DEF Calls
<1>2. CASE rows = <<>> \/ q = <<>>
    BY <1>2 DEF UsefulBody, CallIsUseful
<1>3. CASE rows # <<>> /\ q # <<>>
    <2>0. q1.p \in PatKinds
        BY <1>1, <1>3, HeadTail, PatternParts
    <2>1. CallIsUseful(f, call) = Some
        BY <1>3 DEF CallIsUseful
    <2>2. CASE q1.p \in {"ctor", "tuple"}
        <3>1. UsefulBody(f, call) <=> f[<<Specialize(rows, q1), q1.args \o rest>>]
            BY <1>3, <2>2 DEF UsefulBody, IsWild
        <3>2. Subcalls(rows, q1, rest) = {<<Specialize(rows, q1), q1.args \o rest>>}
            BY <2>2 DEF Subcalls
        <3> QED BY <2>1, <3>1, <3>2 DEF UsefulBody, CallIsUseful
    <2>3. CASE q1.p \in {"lit", "struct"}
        <3>1. UsefulBody(f, call) <=> f[<<Specialize(rows, q1), rest>>]
            BY <1>3, <2>3 DEF UsefulBody, IsWild
        <3>2. Subcalls(rows, q1, rest) = {<<Specialize(rows, q1), rest>>}
            BY <2>3 DEF Subcalls
        <3> QED BY <2>1, <3>1, <3>2 DEF UsefulBody, CallIsUseful
    <2>4. CASE q1.p = "or"
        <3>1. UsefulBody(f, call) <=> f[<<rows, <<q1.l>> \o rest>>] \/ f[<<rows, <<q1.r>> \o rest>>]
            BY <1>3, <2>4 DEF UsefulBody, IsWild
        <3>2. Subcalls(rows, q1, rest) = {<<rows, <<q1.l>> \o rest>>, <<rows, <<q1.r>> \o rest>>}
            BY <2>4 DEF Subcalls
        <3> QED BY <2>1, <3>1, <3>2 DEF UsefulBody, CallIsUseful
    <2>5. CASE q1.p = "alias"
        <3>1. UsefulBody(f, call) <=> f[<<rows, <<q1.q>> \o rest>>]
            BY <1>3, <2>5 DEF UsefulBody, IsWild
        <3>2. Subcalls(rows, q1, rest) = {<<rows, <<q1.q>> \o rest>>}
            BY <2>5 DEF Subcalls
        <3> QED BY <2>1, <3>1, <3>2 DEF UsefulBody, CallIsUseful
    <2>6. CASE IsWild(q1)
        <3> DEFINE ctors == Constructors(rows)
        <3>1. CASE AllCovered(ctors)
            <4>1. UsefulBody(f, call) <=>
                    \E i \in DOMAIN ctors :
                        f[<<Specialize(rows, ctors[i]), Wildcards(Arity(ctors[i])) \o rest>>]
                BY <1>3, <2>6, <3>1 DEF UsefulBody, IsWild
            <4>2. Subcalls(rows, q1, rest)
                    = {<<Specialize(rows, ctors[i]), Wildcards(Arity(ctors[i])) \o rest>> : i \in DOMAIN ctors}
                BY <2>6, <3>1 DEF Subcalls, IsWild
            <4> QED BY <2>1, <4>1, <4>2 DEF UsefulBody, CallIsUseful
        <3>2. CASE ~AllCovered(ctors)
            <4>1. UsefulBody(f, call) <=> f[<<DefaultMatrix(rows), rest>>]
                BY <1>3, <2>6, <3>2 DEF UsefulBody, IsWild
            <4>2. Subcalls(rows, q1, rest) = {<<DefaultMatrix(rows), rest>>}
                BY <2>6, <3>2 DEF Subcalls, IsWild
            <4> QED BY <2>1, <4>1, <4>2 DEF UsefulBody, CallIsUseful
        <3> QED BY <3>1, <3>2
    <2> QED BY <2>0, <2>2, <2>3, <2>4, <2>5, <2>6 DEF PatKinds, IsWild
<1> QED BY <1>2, <1>3

LEMMA SubcallsType ==
    ASSUME NEW rows \in RowSeqs, NEW q1 \in Pats, NEW rest \in Seq(Pats)
    PROVE  Subcalls(rows, q1, rest) \subseteq Calls
<1>0. \A p \in Pats : <<p>> \o rest \in Seq(Pats)
    <2>1. \A p \in Pats : <<p>> \in Seq(Pats)
        OBVIOUS
    <2> QED BY <2>1, ConcatProperties
<1>6. \A p \in Pats : <<rows, <<p>> \o rest>> \in Calls
    <2>1. ASSUME NEW s \in Seq(Pats)
          PROVE  <<rows, s>> \in Calls
        BY DEF Calls, RowSeqs
    <2> QED BY <1>0, <2>1
<1>1. CASE q1.p \in {"ctor", "tuple"}
    <2>1. IsCtor(q1) /\ q1.args \in Seq(Pats)
        BY <1>1, PatternParts DEF IsCtor, HasParts
    <2>2. Specialize(rows, q1) \in RowSeqs /\ q1.args \o rest \in Seq(Pats)
        BY <2>1, SpecializeType, ConcatProperties
    <2>3. Subcalls(rows, q1, rest) = {<<Specialize(rows, q1), q1.args \o rest>>}
        BY <1>1 DEF Subcalls
    <2>4. <<Specialize(rows, q1), q1.args \o rest>> \in Calls
        BY <2>2 DEF Calls, RowSeqs
    <2> QED BY <2>3, <2>4
<1>2. CASE q1.p \in {"lit", "struct"}
    <2>1. Specialize(rows, q1) \in RowSeqs
        BY <1>2, SpecializeType DEF IsCtor
    <2> QED BY <1>2, <2>1 DEF Subcalls, Calls, RowSeqs
<1>3. CASE q1.p = "or"
    <2>1. q1.l \in Pats /\ q1.r \in Pats
        BY <1>3, PatternParts
    <2>2. Subcalls(rows, q1, rest) = {<<rows, <<q1.l>> \o rest>>, <<rows, <<q1.r>> \o rest>>}
        BY <1>3 DEF Subcalls
    <2> QED BY <1>6, <2>1, <2>2
<1>4. CASE q1.p = "alias"
    <2>1. q1.q \in Pats
        BY <1>4, PatternParts
    <2>2. Subcalls(rows, q1, rest) = {<<rows, <<q1.q>> \o rest>>}
        BY <1>4 DEF Subcalls
    <2> QED BY <1>6, <2>1, <2>2
<1>5. CASE q1.p \notin {"ctor", "tuple", "lit", "struct", "or", "alias"}
    <2> DEFINE ctors == Constructors(rows)
    <2>1. ctors \in Seq(Ctors)
        BY ConstructorsDef
    <2>2. ASSUME NEW i \in DOMAIN ctors
          PROVE  <<Specialize(rows, ctors[i]), Wildcards(Arity(ctors[i])) \o rest>> \in Calls
        <3>1. IsCtor(ctors[i])
            BY <2>1 DEF Ctors
        <3>2. Arity(ctors[i]) \in Nat
            <4> DEFINE c == ctors[i]
            <4> HIDE DEF c
            <4>1. IsCtor(c)
                BY <3>1 DEF c
            <4>2. Arity(c) \in Nat
                BY <4>1, PatternParts DEF IsCtor, Arity, HasParts
            <4> QED BY <4>2 DEF c
        <3>3. Wildcards(Arity(ctors[i])) \o rest \in Seq(Pats)
            BY <3>2, WildcardsFacts, ConcatProperties
        <3> QED BY <3>1, <3>3, SpecializeType DEF Calls, RowSeqs
    <2>3. <<DefaultMatrix(rows), rest>> \in Calls
        BY DefaultType DEF Calls, RowSeqs
    <2>4. CASE AllCovered(ctors)
        BY <1>5, <2>2, <2>4 DEF Subcalls
    <2>5. CASE ~AllCovered(ctors)
        BY <1>5, <2>3, <2>5 DEF Subcalls
    <2> QED BY <2>4, <2>5
<1> QED BY <1>1, <1>2, <1>3, <1>4, <1>5

LEMMA UsefulDef ==
    ASSUME NEW rows \in RowSeqs, NEW q \in Seq(Pats)
    PROVE  IsUseful(rows, q) <=>
             \/ rows = <<>>
             \/ q # <<>> /\ \E y \in Subcalls(rows, q[1], Tail(q)) : UsefulCalls[y]
<1> DEFINE Is(f) == f = [call \in Calls |-> UsefulBody(f, call)]
           Next(call) == IF call[2] = <<>> THEN {} ELSE Subcalls(call[1], call[2][1], Tail(call[2]))
           H == [X \in SUBSET Calls |-> {call \in Calls : call[1] = <<>> \/ \E y \in Next(call) : y \in X}]
<1>1. ASSUME NEW call \in Calls
      PROVE  Next(call) \subseteq Calls
    <2>1. call[1] \in RowSeqs /\ call[2] \in Seq(Pats)
        BY DEF Calls, RowSeqs
    <2>2. CASE call[2] = <<>>
        BY <2>2
    <2>3. CASE call[2] # <<>>
        <3>1. call[2][1] \in Pats /\ Tail(call[2]) \in Seq(Pats)
            BY <2>1, <2>3, HeadTail
        <3> QED BY <2>1, <2>3, <3>1, SubcallsType
    <2> QED BY <2>2, <2>3
<1>2. Monotone(Calls, H)
    <2> HIDE DEF Next
    <2> QED BY DEF Monotone
<1>3. PICK X \in SUBSET Calls : H[X] = X
    <2> HIDE DEF H
    <2> QED BY <1>2, FixedPoint
<1> DEFINE f == [call \in Calls |-> call \in X]
<1>4. ASSUME NEW call \in Calls
      PROVE  f[call] = UsefulBody(f, call)
    <2>1. \A y \in Next(call) : f[y] = (y \in X)
        BY <1>1
    <2>2. (call \in X) = (call[1] = <<>> \/ \E y \in Next(call) : y \in X)
        <3> HIDE DEF Next
        <3> QED BY <1>3
    <2>3. f[call] = (call[1] = <<>> \/ \E y \in Next(call) : f[y])
        <3>1. f[call] = (call \in X)
            OBVIOUS
        <3> HIDE DEF f, Next
        <3> QED BY <2>1, <2>2, <3>1
    <2>4. (call[1] = <<>> \/ \E y \in Next(call) : f[y]) = CallIsUseful(f, call)
        <3> HIDE DEF f
        <3> QED BY DEF CallIsUseful
    <2> QED BY <2>3, <2>4, UsefulBodyCalls
<1>5. Is(f)
    BY <1>4
<1>6. UsefulCalls = CHOOSE g : Is(g)
    BY Zenon DEF UsefulCalls, UsefulBody
<1>7. Is(UsefulCalls)
    <2> HIDE DEF Is, f
    <2> QED BY <1>5, <1>6
<1>8. <<rows, q>> \in Calls
    BY DEF Calls, RowSeqs
<1>9. UsefulCalls[<<rows, q>>] = UsefulBody(UsefulCalls, <<rows, q>>)
    BY <1>7, <1>8
<1>10. UsefulBody(UsefulCalls, <<rows, q>>) = CallIsUseful(UsefulCalls, <<rows, q>>)
    BY <1>8, UsefulBodyCalls
<1> QED BY <1>9, <1>10 DEF IsUseful, CallIsUseful

-----------------------------------------------------------------------------
(* What rows and vectors of patterns mean. *)

Vectors(ts) == {vs \in Seq(AllValues) : Pairwise(ValueOf, vs, ts)}
Covered(rows, vs) == \E i \in 1..Len(rows) : Pairwise(Fits, rows[i], vs)
Live(rows, q, ts) == \E vs \in Vectors(ts) : Pairwise(Fits, q, vs) /\ ~Covered(rows, vs)

\* The struct patterns in a pattern list the fields that F gives their struct.
NeatPats(F) == {pat \in Pats : \A x \in Within[pat] : x.p = "struct" => IsInjective(x.fields) /\ x.fields = F[x.tag]}

\* The patterns of a row have the types ts and are at most as large as ds.
IsRow(F, row, ts, ds) == row \in Seq(NeatPats(F)) /\ Pairwise(OfType, row, ts) /\ Pairwise(AtMost, row, ds)
AreRows(F, rows, ts, ds) == rows \in RowSeqs /\ \A i \in 1..Len(rows) : IsRow(F, rows[i], ts, ds)
Columns(ts, ds) == ts \in Seq(TypeNames) /\ ts # <<>> /\ ds \in Seq(Nat) /\ Len(ds) = Len(ts)

LEMMA NeatFacts ==
    ASSUME NEW F, NEW pat \in NeatPats(F)
    PROVE  /\ pat \in Pats
           /\ \A x \in Within[pat] : x \in NeatPats(F)
           /\ \A x \in Children(pat) : x \in NeatPats(F)
           /\ pat.p = "struct" => IsInjective(pat.fields) /\ pat.fields = F[pat.tag]
<1>1. pat \in Pats
    BY DEF NeatPats
<1>2. \A x \in Within[pat] : x \in Pats /\ Within[x] \subseteq Within[pat]
    BY <1>1, WithinFacts, WithinTransitive
<1>3. \A x \in Within[pat] : x \in NeatPats(F)
    BY <1>2 DEF NeatPats
<1>4. \A x \in Children(pat) : x \in Within[pat]
    BY <1>1, WithinFacts
<1>5. pat \in Within[pat]
    BY <1>1, WithinFacts
<1> QED BY <1>1, <1>3, <1>4, <1>5 DEF NeatPats

LEMMA WildcardNeat == \A F : Wildcard \in NeatPats(F)
<1> SUFFICES ASSUME NEW F PROVE Wildcard \in NeatPats(F)
    OBVIOUS
<1>1. Within[Wildcard] = WithinBody(Within, Wildcard)
    BY WildcardFacts, WithinDef
<1>2. Children(Wildcard) = {}
    BY DEF Children, Wildcard, HasParts
<1>3. Within[Wildcard] = {Wildcard}
    BY <1>1, <1>2 DEF WithinBody
<1>4. Wildcard.p # "struct"
    BY DEF Wildcard
<1> QED BY <1>3, <1>4, WildcardFacts DEF NeatPats

LEMMA PairwiseHead ==
    ASSUME NEW A, NEW B, NEW R, NEW s \in Seq(A), NEW t \in Seq(B), s # <<>>, t # <<>>
    PROVE  Pairwise(R, s, t) <=> <<s[1], t[1]>> \in R /\ Pairwise(R, Tail(s), Tail(t))
<1>1. /\ s[1] \in A /\ Tail(s) \in Seq(A) /\ s = <<s[1]>> \o Tail(s)
      /\ t[1] \in B /\ Tail(t) \in Seq(B) /\ t = <<t[1]>> \o Tail(t)
    BY HeadTail
<1> DEFINE a == <<s[1]>>
           b == <<t[1]>>
           u == Tail(s)
           w == Tail(t)
<1>2. a \in Seq(A) /\ b \in Seq(B) /\ Len(a) = 1 /\ Len(b) = 1 /\ a[1] = s[1] /\ b[1] = t[1]
    BY <1>1
<1>3. u \in Seq(A) /\ w \in Seq(B) /\ s = a \o u /\ t = b \o w
    BY <1>1
<1> HIDE DEF a, b, u, w
<1>4. Pairwise(R, a \o u, b \o w) <=> Pairwise(R, a, b) /\ Pairwise(R, u, w)
    BY <1>2, <1>3, PairwiseConcat
<1>5. Pairwise(R, a, b) <=> <<s[1], t[1]>> \in R
    BY <1>2 DEF Pairwise
<1> QED BY <1>3, <1>4, <1>5 DEF u, w

LEMMA ConsFacts ==
    ASSUME NEW A, NEW a \in A, NEW s \in Seq(A)
    PROVE  /\ <<a>> \o s \in Seq(A) /\ <<a>> \o s # <<>> /\ Len(<<a>> \o s) = Len(s) + 1
           /\ (<<a>> \o s)[1] = a /\ Tail(<<a>> \o s) = s
<1> DEFINE h == <<a>>
           x == h \o s
<1>1. h \in Seq(A) /\ Len(h) = 1 /\ h[1] = a /\ Len(s) \in Nat
    BY LenProperties
<1> HIDE DEF h
<1>2. /\ x \in Seq(A) /\ Len(x) = 1 + Len(s)
      /\ \A k \in 1..Len(x) : x[k] = IF k <= 1 THEN h[k] ELSE s[k - 1]
    BY <1>1, ConcatProperties
<1> HIDE DEF x
<1>3. x # <<>> /\ x[1] = a
    <2>1. Len(<<>>) = 0 /\ Len(x) # 0 /\ 1 \in 1..Len(x)
        BY <1>1, <1>2, EmptySeq
    <2>2. x # <<>>
        BY <2>1
    <2> QED BY <1>1, <1>2, <2>1, <2>2
<1>4. Tail(x) \in Seq(A) /\ Len(Tail(x)) = Len(s) /\ \A k \in 1..Len(s) : Tail(x)[k] = x[k + 1]
    <2>1. Len(x) - 1 = Len(s)
        BY <1>1, <1>2
    <2> QED BY <1>2, <1>3, <2>1, HeadTailProperties
<1>5. ASSUME NEW k \in 1..Len(s)
      PROVE  Tail(x)[k] = s[k]
    <2>1. k + 1 \in 1..Len(x) /\ ~(k + 1 <= 1) /\ (k + 1) - 1 = k
        BY <1>1, <1>2
    <2>2. x[k + 1] = s[k]
        BY <1>2, <2>1
    <2> QED BY <1>4, <2>2
<1>6. Tail(x) = s
    BY <1>4, <1>5, SeqEqual
<1>7. Len(x) = Len(s) + 1
    BY <1>1, <1>2
<1> QED BY <1>2, <1>3, <1>6, <1>7 DEF x, h

LEMMA PairwiseCons ==
    ASSUME NEW A, NEW B, NEW R, NEW a \in A, NEW b \in B, NEW s \in Seq(A), NEW t \in Seq(B)
    PROVE  Pairwise(R, <<a>> \o s, <<b>> \o t) <=> <<a, b>> \in R /\ Pairwise(R, s, t)
<1> DEFINE x == <<a>> \o s
           y == <<b>> \o t
<1>1. /\ x \in Seq(A) /\ x # <<>> /\ x[1] = a /\ Tail(x) = s
      /\ y \in Seq(B) /\ y # <<>> /\ y[1] = b /\ Tail(y) = t
    BY ConsFacts
<1> HIDE DEF x, y
<1>2. Pairwise(R, x, y) <=> <<x[1], y[1]>> \in R /\ Pairwise(R, Tail(x), Tail(y))
    BY <1>1, PairwiseHead
<1> QED BY <1>1, <1>2 DEF x, y

-----------------------------------------------------------------------------
(* A vector taken apart at its first value. *)

Opened(c, vs) == PartsFor(c, vs[1]) \o Tail(vs)

LEMMA VectorFacts ==
    ASSUME NEW ts \in Seq(TypeNames), ts # <<>>, NEW vs \in Vectors(ts)
    PROVE  /\ vs \in Seq(AllValues) /\ vs # <<>> /\ vs[1] \in AllValues /\ Tail(vs) \in Seq(AllValues)
           /\ ts[1] \in TypeNames /\ Tail(ts) \in Seq(TypeNames)
           /\ vs[1] \in Inhabitants[ts[1]] /\ Tail(vs) \in Vectors(Tail(ts))
<1>1. vs \in Seq(AllValues) /\ Pairwise(ValueOf, vs, ts)
    BY DEF Vectors
<1>2. vs # <<>>
    <2>1. Len(vs) = Len(ts)
        BY <1>1 DEF Pairwise
    <2>2. Len(ts) # 0
        BY EmptySeq
    <2> QED BY <2>1, <2>2, EmptySeq
<1>3. /\ vs[1] \in AllValues /\ Tail(vs) \in Seq(AllValues)
      /\ ts[1] \in TypeNames /\ Tail(ts) \in Seq(TypeNames)
    BY <1>1, <1>2, HeadTail
<1>4. <<vs[1], ts[1]>> \in ValueOf /\ Pairwise(ValueOf, Tail(vs), Tail(ts))
    BY <1>1, <1>2, PairwiseHead
<1> QED BY <1>1, <1>2, <1>3, <1>4 DEF ValueOf, Vectors

LEMMA OpenedType ==
    ASSUME NEW ts \in Seq(TypeNames), ts # <<>>, NEW vs \in Vectors(ts),
           NEW c, IsCtor(c), ts[1] \in TypesOf[c], vs[1].tag = c.tag
    PROVE  Opened(c, vs) \in Vectors(PartTypes(c, ts[1]) \o Tail(ts))
<1> DEFINE t == ts[1]
           v == vs[1]
           p == PartsFor(c, v)
           pt == PartTypes(c, t)
           w == Tail(vs)
           wt == Tail(ts)
<1>1. w \in Seq(AllValues) /\ wt \in Seq(TypeNames) /\ v \in Inhabitants[t] /\ Pairwise(ValueOf, w, wt)
    BY VectorFacts DEF Vectors
<1>2. p \in Seq(AllValues) /\ Pairwise(ValueOf, p, pt)
    <2> HIDE DEF t, v
    <2>1. t \in TypesOf[c] /\ v.tag = c.tag
        BY DEF t, v
    <2> QED BY <1>1, <2>1, PartsOfValue
<1>3. pt \in Seq(TypeNames) /\ Len(p) = Len(pt)
    BY <1>2, CtorFacts DEF Pairwise
<1> HIDE DEF p, pt, w, wt
<1>4. Pairwise(ValueOf, p \o w, pt \o wt)
    BY <1>1, <1>2, <1>3, PairwiseConcat
<1>5. p \o w \in Seq(AllValues)
    BY <1>1, <1>2, ConcatProperties
<1> QED BY <1>4, <1>5 DEF Vectors, Opened, p, pt, w, wt

LEMMA Closed ==
    ASSUME NEW ts \in Seq(TypeNames), ts # <<>>, NEW c, IsCtor(c), ts[1] \in TypesOf[c],
           c.p = "struct" => IsInjective(c.fields),
           NEW xs \in Vectors(PartTypes(c, ts[1]) \o Tail(ts))
    PROVE  \E vs \in Vectors(ts) : vs[1].tag = c.tag /\ Opened(c, vs) = xs
<1> DEFINE t == ts[1]
           n == Arity(c)
           pt == PartTypes(c, t)
           wt == Tail(ts)
<1>1. wt \in Seq(TypeNames) /\ pt \in Seq(TypeNames) /\ Len(pt) = n /\ n \in Nat /\ t \in TypeNames
    BY HeadTail, CtorFacts
<1>2. xs \in Seq(AllValues) /\ Pairwise(ValueOf, xs, pt \o wt)
    BY DEF Vectors
<1> HIDE DEF pt, wt, n
<1>3. Len(xs) = n + Len(wt) /\ Len(wt) \in Nat
    BY <1>1, <1>2, ConcatProperties, LenProperties DEF Pairwise
<1>4. PICK us, ws \in Seq(AllValues) : Len(us) = n /\ xs = us \o ws
    <2>1. n <= Len(xs) /\ n \in Nat /\ xs \in Seq(AllValues)
        BY <1>1, <1>2, <1>3
    <2>2. PICK us, ws : IsSplit(AllValues, xs, n, us, ws)
        BY <2>1, SplitAt
    <2> QED BY <2>2 DEF IsSplit
<1>5. Pairwise(ValueOf, us, pt) /\ Pairwise(ValueOf, ws, wt)
    BY <1>1, <1>2, <1>4, PairwiseConcat
<1>6. PICK v \in Inhabitants[t] : v.tag = c.tag /\ \A i \in 1..Arity(c) : PartsFor(c, v)[i] = us[i]
    <2> HIDE DEF t
    <2>1. t \in TypesOf[c] /\ Pairwise(ValueOf, us, PartTypes(c, t))
        BY <1>5 DEF pt, t
    <2> QED BY <2>1, Build
<1>7. PartsFor(c, v) = us
    <2> HIDE DEF t
    <2>1. t \in TypesOf[c]
        BY DEF t
    <2>2. PartsFor(c, v) \in Seq(AllValues) /\ Len(PartsFor(c, v)) = n
        BY <1>6, <2>1, PartsOfValue DEF n
    <2>3. \A i \in 1..Len(us) : PartsFor(c, v)[i] = us[i]
        BY <1>4, <1>6 DEF n
    <2> QED BY <1>4, <2>2, <2>3, SeqEqual
<1> DEFINE vs == <<v>> \o ws
<1>8. v \in AllValues
    BY <1>1, TypeFacts
<1>9. vs \in Seq(AllValues) /\ vs[1] = v /\ Tail(vs) = ws
    BY <1>4, <1>8, ConsFacts
<1>10. Pairwise(ValueOf, vs, ts)
    <2>1. ts = <<t>> \o wt
        BY HeadTail DEF wt
    <2>2. <<v, t>> \in ValueOf
        BY <1>1, <1>6, <1>8 DEF ValueOf
    <2> HIDE DEF t
    <2> QED BY <1>1, <1>4, <1>5, <1>8, <2>1, <2>2, PairwiseCons
<1> HIDE DEF vs
<1>11. vs \in Vectors(ts)
    BY <1>9, <1>10 DEF Vectors
<1>12. Opened(c, vs) = xs
    BY <1>4, <1>7, <1>9 DEF Opened
<1> QED BY <1>6, <1>9, <1>11, <1>12

-----------------------------------------------------------------------------
(* What is left of rows under a constructor. *)

LEMMA NeatAlike ==
    ASSUME NEW F, NEW h \in NeatPats(F), NEW c \in NeatPats(F), Plain(h), IsCtor(c),
           NEW t, t \in TypesOf[h], t \in TypesOf[c]
    PROVE  Alike(h, c)
<1> SUFFICES ASSUME h.p = "struct", h.tag = c.tag
             PROVE  h.fields = c.fields
    BY DEF Alike
<1>1. IsCtor(h)
    BY PlainHead DEF IsWild
<1>2. h.p = c.p
    BY <1>1, CtorFacts
<1> QED BY <1>2, NeatFacts

LEMMA HeadUnder ==
    ASSUME NEW h, Plain(h), NEW c, IsCtor(c), NEW ts \in Seq(TypeNames), ts # <<>>,
           ts[1] \in TypesOf[h], ts[1] \in TypesOf[c], Alike(h, c),
           NEW vs \in Vectors(ts), vs[1].tag = c.tag, NEW rest \in Seq(Pats)
    PROVE  Matches(h, vs[1]) /\ Pairwise(Fits, rest, Tail(vs))
             <=> Kept(h, c) /\ Pairwise(Fits, Under(h, c) \o rest, Opened(c, vs))
<1> DEFINE t == ts[1]
           v == vs[1]
           p == PartsFor(c, v)
           u == Under(h, c)
           w == Tail(vs)
<1>1. v \in Inhabitants[t] /\ w \in Seq(AllValues) /\ t \in TypesOf[h] /\ t \in TypesOf[c] /\ v.tag = c.tag
    BY VectorFacts
<1>2. Opened(c, vs) = p \o w
    BY DEF Opened
<1> HIDE DEF t, v, w
<1>3. Matches(h, v) <=> Kept(h, c) /\ Pairwise(Fits, u, p)
    BY <1>1, HeadMatches
<1>4. p \in Seq(AllValues) /\ Len(p) = Arity(c)
    BY <1>1, PartsOfValue
<1>5. ASSUME Kept(h, c)
      PROVE  Pairwise(Fits, u \o rest, p \o w) <=> Pairwise(Fits, u, p) /\ Pairwise(Fits, rest, w)
    <2>1. u \in Seq(Pats) /\ Len(u) = Arity(c)
        BY <1>1, <1>5, UnderFacts
    <2> HIDE DEF u, p
    <2> QED BY <1>1, <1>4, <2>1, PairwiseConcat
<1> HIDE DEF u, p
<1>6. Matches(h, v) /\ Pairwise(Fits, rest, w) <=> Kept(h, c) /\ Pairwise(Fits, u \o rest, p \o w)
    BY <1>3, <1>5
<1> QED BY <1>2, <1>6 DEF u, v, w

LEMMA RowsHeads ==
    ASSUME NEW F, NEW ts, NEW ds, Columns(ts, ds), NEW rows, AreRows(F, rows, ts, ds)
    PROVE  /\ rows \in RowSeqs /\ HeadsOfType(rows, ts[1])
           /\ \A i \in 1..Len(rows) :
                /\ rows[i] \in Seq(Pats) /\ rows[i] # <<>> /\ rows[i][1] \in NeatPats(F)
                /\ Size[rows[i][1]] <= ds[1]
                /\ IsRow(F, Tail(rows[i]), Tail(ts), Tail(ds))
<1>1. rows \in RowSeqs
    BY DEF AreRows
<1>2. ts \in Seq(TypeNames) /\ ts # <<>> /\ ds \in Seq(Nat) /\ ds # <<>> /\ Len(ds) = Len(ts)
    BY EmptySeq DEF Columns
<1>3. ASSUME NEW i \in 1..Len(rows)
      PROVE  /\ rows[i] \in Seq(Pats) /\ rows[i] # <<>> /\ rows[i][1] \in NeatPats(F)
             /\ Size[rows[i][1]] <= ds[1]
             /\ ts[1] \in TypesOf[rows[i][1]]
             /\ IsRow(F, Tail(rows[i]), Tail(ts), Tail(ds))
    <2> DEFINE row == rows[i]
    <2>1. row \in Seq(NeatPats(F)) /\ Pairwise(OfType, row, ts) /\ Pairwise(AtMost, row, ds) /\ row \in Seq(Pats)
        BY <1>1 DEF AreRows, IsRow, RowSeqs
    <2> HIDE DEF row
    <2>2. row # <<>>
        <3>1. Len(row) = Len(ts) /\ Len(ts) # 0
            BY <1>2, <2>1, EmptySeq DEF Pairwise
        <3> QED BY <3>1, EmptySeq
    <2>3. row[1] \in NeatPats(F) /\ Tail(row) \in Seq(NeatPats(F))
        BY <2>1, <2>2, HeadTail
    <2>4. <<row[1], ts[1]>> \in OfType /\ Pairwise(OfType, Tail(row), Tail(ts))
        BY <1>2, <2>1, <2>2, PairwiseHead
    <2>5. <<row[1], ds[1]>> \in AtMost /\ Pairwise(AtMost, Tail(row), Tail(ds))
        BY <1>2, <2>1, <2>2, PairwiseHead
    <2>6. IsRow(F, Tail(row), Tail(ts), Tail(ds))
        BY <2>3, <2>4, <2>5 DEF IsRow
    <2>7. ts[1] \in TypesOf[row[1]] /\ Size[row[1]] <= ds[1]
        BY <2>4, <2>5 DEF OfType, AtMost
    <2> QED BY <2>1, <2>2, <2>3, <2>6, <2>7 DEF row
<1>4. HeadsOfType(rows, ts[1])
    BY <1>3 DEF HeadsOfType
<1> QED BY <1>1, <1>3, <1>4

\* A row matches a vector if an alternative of its head and its rest do.
LEMMA RowMatches ==
    ASSUME NEW F, NEW ts, NEW ds, Columns(ts, ds), NEW rows, AreRows(F, rows, ts, ds),
           NEW i \in 1..Len(rows), NEW vs \in Vectors(ts)
    PROVE  Pairwise(Fits, rows[i], vs) <=>
             \E k \in 1..Len(Alternatives[rows[i][1]]) :
                Matches(HeadAt(rows, <<i, k>>), vs[1]) /\ Pairwise(Fits, Tail(rows[i]), Tail(vs))
<1> DEFINE row == rows[i]
<1>1. row \in Seq(Pats) /\ row # <<>> /\ ts \in Seq(TypeNames) /\ ts # <<>>
    BY RowsHeads DEF Columns
<1>2. vs \in Seq(AllValues) /\ vs # <<>> /\ vs[1] \in AllValues
    BY <1>1, VectorFacts
<1>3. row[1] \in Pats
    BY <1>1, HeadTail
<1>4. Pairwise(Fits, row, vs) <=> <<row[1], vs[1]>> \in Fits /\ Pairwise(Fits, Tail(row), Tail(vs))
    <2> HIDE DEF row
    <2> QED BY <1>1, <1>2, PairwiseHead
<1>5. <<row[1], vs[1]>> \in Fits <=> Matches(row[1], vs[1])
    BY <1>2, <1>3 DEF Fits
<1>6. Matches(row[1], vs[1]) <=> \E h \in Alts(row[1]) : Matches(h, vs[1])
    BY <1>2, <1>3, MatchesAlternative
<1>7. Matches(row[1], vs[1]) <=> \E k \in 1..Len(Alternatives[row[1]]) : Matches(HeadAt(rows, <<i, k>>), vs[1])
    BY <1>6 DEF Alts, Elements, HeadAt
<1> QED BY <1>4, <1>5, <1>7

LEMMA CoveredUnder ==
    ASSUME NEW F, NEW ts, NEW ds, Columns(ts, ds), NEW rows, AreRows(F, rows, ts, ds),
           NEW c \in NeatPats(F), IsCtor(c), ts[1] \in TypesOf[c],
           NEW vs \in Vectors(ts), vs[1].tag = c.tag
    PROVE  Covered(Specialize(rows, c), Opened(c, vs)) <=> Covered(rows, vs)
<1> DEFINE u == Specialize(rows, c)
           K == KeptPlaces(rows, c)
           N == NewRows(rows, c)
           t == ts[1]
           Good(x) == Pairwise(Fits, N[x], Opened(c, vs))
<1>0. ts \in Seq(TypeNames) /\ ts # <<>>
    BY DEF Columns
<1>1. rows \in RowSeqs /\ HeadsOfType(rows, t)
    BY RowsHeads
<1>2. PICK o : IsPicked(o, K, N, u)
    <2> HIDE DEF t
    <2>1. t \in TypesOf[c]
        BY DEF t
    <2> QED BY <1>1, <2>1, Specialized
<1>3. Covered(u, Opened(c, vs)) <=> \E x \in K : Good(x)
    <2> HIDE DEF u, K, N
    <2>1. ASSUME NEW m \in 1..Len(u), Pairwise(Fits, u[m], Opened(c, vs))
          PROVE  \E x \in K : Good(x)
        BY <1>2, <2>1 DEF IsPicked
    <2>2. ASSUME NEW x \in K, Good(x)
          PROVE  \E m \in 1..Len(u) : Pairwise(Fits, u[m], Opened(c, vs))
        <3>1. PICK m \in 1..Len(u) : o[m] = x
            BY <1>2 DEF IsPicked
        <3>2. u[m] = N[x]
            BY <1>2, <3>1 DEF IsPicked
        <3> QED BY <2>2, <3>2
    <2> QED BY <2>1, <2>2 DEF Covered
<1>4. ASSUME NEW x \in HeadPlaces(rows)
      PROVE  x \in K /\ Good(x) <=> Matches(HeadAt(rows, x), vs[1]) /\ Pairwise(Fits, Tail(rows[x[1]]), Tail(vs))
    <2> DEFINE h == HeadAt(rows, x)
               rest == Tail(rows[x[1]])
    <2>1. /\ Plain(h) /\ t \in TypesOf[h] /\ rest \in Seq(Pats) /\ h \in Within[rows[x[1]][1]]
          /\ x[1] \in 1..Len(rows)
        BY <1>1, PlaceFacts, RowFacts
    <2>2. h \in NeatPats(F)
        BY <2>1, RowsHeads, NeatFacts
    <2>3. Alike(h, c)
        BY <2>1, <2>2, NeatAlike
    <2>4. x \in K <=> Kept(h, c)
        BY DEF KeptPlaces
    <2>5. N[x] = Under(h, c) \o rest
        BY DEF NewRows
    <2> HIDE DEF h, rest, K, N
    <2>6. Matches(h, vs[1]) /\ Pairwise(Fits, rest, Tail(vs))
            <=> Kept(h, c) /\ Pairwise(Fits, Under(h, c) \o rest, Opened(c, vs))
        BY <1>0, <2>1, <2>3, HeadUnder
    <2> QED BY <2>4, <2>5, <2>6 DEF h, rest
<1>5. Covered(rows, vs) <=>
        \E x \in HeadPlaces(rows) : Matches(HeadAt(rows, x), vs[1]) /\ Pairwise(Fits, Tail(rows[x[1]]), Tail(vs))
    <2> DEFINE Both(x) == Matches(HeadAt(rows, x), vs[1]) /\ Pairwise(Fits, Tail(rows[x[1]]), Tail(vs))
    <2>1. \A i \in 1..Len(rows) : Pairwise(Fits, rows[i], vs) <=>
                \E k \in 1..Len(Alternatives[rows[i][1]]) : Both(<<i, k>>)
        BY RowMatches
    <2>2. \A i \in 1..Len(rows) : \A k \in 1..Len(Alternatives[rows[i][1]]) : <<i, k>> \in HeadPlaces(rows)
        <3>1. ASSUME NEW i \in 1..Len(rows), NEW k \in 1..Len(Alternatives[rows[i][1]])
              PROVE  <<i, k>> \in HeadPlaces(rows)
            <4>1. i \in Nat /\ k \in Nat
                <5>1. Alternatives[rows[i][1]] \in Seq(Pats)
                    BY <1>1, RowFacts
                <5> QED BY <1>1, <5>1 DEF RowSeqs
            <4> QED BY <4>1 DEF HeadPlaces
        <3> QED BY <3>1
    <2>3. \A x \in HeadPlaces(rows) : x = <<x[1], x[2]>> /\ x[1] \in 1..Len(rows)
                                  /\ x[2] \in 1..Len(Alternatives[rows[x[1]][1]])
        BY DEF HeadPlaces
    <2> HIDE DEF Both
    <2>4. (\E i \in 1..Len(rows) : \E k \in 1..Len(Alternatives[rows[i][1]]) : Both(<<i, k>>))
            <=> \E x \in HeadPlaces(rows) : Both(x)
        BY <2>2, <2>3
    <2>5. Covered(rows, vs) <=> \E x \in HeadPlaces(rows) : Both(x)
        BY <2>1, <2>4 DEF Covered
    <2> QED BY <2>5 DEF Both
<1>6. K \subseteq HeadPlaces(rows)
    BY DEF KeptPlaces
<1> HIDE DEF u, K, N, t
<1> QED BY <1>3, <1>4, <1>5, <1>6 DEF u

-----------------------------------------------------------------------------
(* They have the types of the parts, and are smaller. *)

Less(d) == IF d = 0 THEN 0 ELSE d - 1
Bounds(n, d) == [i \in 1..n |-> d]

LEMMA BoundsFacts ==
    ASSUME NEW n \in Nat, NEW d \in Nat
    PROVE  /\ Less(d) \in Nat
           /\ Bounds(n, d) \in Seq(Nat) /\ Len(Bounds(n, d)) = n /\ \A i \in 1..n : Bounds(n, d)[i] = d
BY DEF Less, Bounds

LEMMA SmallArity ==
    ASSUME NEW c, IsCtor(c), Size[c] = 0
    PROVE  Arity(c) = 0
<1>1. CASE c.p = "lit"
    BY <1>1 DEF Arity
<1>2. CASE c.p # "lit"
    <2>1. c \in Pats /\ HasParts(c) /\ Arity(c) = Len(c.args)
        BY <1>2 DEF IsCtor, HasParts, Arity
    <2>2. c.args \in Seq(Pats) /\ \A i \in DOMAIN c.args : c.args[i] \in Pats /\ Size[c.args[i]] < Size[c]
        BY <2>1, PatternParts
    <2>3. \A i \in DOMAIN c.args : FALSE
        <3>1. ASSUME NEW i \in DOMAIN c.args
              PROVE  FALSE
            <4>1. Size[c.args[i]] \in Nat /\ Size[c.args[i]] < 0
                BY <2>2, SizeType
            <4> QED BY <4>1
        <3> QED BY <3>1
    <2>4. Len(c.args) \in Nat /\ DOMAIN c.args = 1..Len(c.args)
        BY <2>2
    <2> QED BY <2>1, <2>3, <2>4
<1> QED BY <1>1, <1>2

LEMMA RowUnder ==
    ASSUME NEW F, NEW ts, NEW ds, Columns(ts, ds),
           NEW h \in NeatPats(F), Plain(h), ts[1] \in TypesOf[h], Size[h] <= ds[1],
           NEW rest, IsRow(F, rest, Tail(ts), Tail(ds)),
           NEW c \in NeatPats(F), IsCtor(c), ts[1] \in TypesOf[c], Kept(h, c)
    PROVE  IsRow(F, Under(h, c) \o rest, PartTypes(c, ts[1]) \o Tail(ts), Bounds(Arity(c), Less(ds[1])) \o Tail(ds))
<1> DEFINE t == ts[1]
           d == ds[1]
           n == Arity(c)
           u == Under(h, c)
           pt == PartTypes(c, t)
           b == Bounds(n, Less(d))
           wt == Tail(ts)
           wd == Tail(ds)
<1>1. /\ t \in TypeNames /\ wt \in Seq(TypeNames) /\ d \in Nat /\ wd \in Seq(Nat)
    <2>1. ts \in Seq(TypeNames) /\ ts # <<>> /\ ds \in Seq(Nat) /\ ds # <<>>
        BY EmptySeq DEF Columns
    <2> QED BY <2>1, HeadTail
<1>2. t \in TypesOf[h] /\ t \in TypesOf[c] /\ Size[h] <= d /\ IsRow(F, rest, wt, wd)
    OBVIOUS
<1> HIDE DEF t, d, wt, wd
<1>3. n \in Nat /\ pt \in Seq(TypeNames) /\ Len(pt) = n
    BY <1>2, CtorFacts
<1>4. /\ u \in Seq(Pats) /\ Len(u) = n /\ Pairwise(OfType, u, pt)
      /\ \A i \in 1..n :
            \/ u[i] = Wildcard
            \/ u[i] \in Children(h) /\ Size[u[i]] < Size[h]
    <2>1. Alike(h, c)
        BY <1>2, NeatAlike
    <2> QED BY <1>2, <2>1, UnderFacts
<1>5. Less(d) \in Nat /\ b \in Seq(Nat) /\ Len(b) = n /\ \A i \in 1..n : b[i] = Less(d)
    BY <1>1, <1>3, BoundsFacts
<1> HIDE DEF u, n, pt, b
<1>6. ASSUME NEW i \in 1..n
      PROVE  u[i] \in NeatPats(F) /\ u[i] \in Pats /\ Size[u[i]] <= Less(d)
    <2>1. CASE u[i] = Wildcard
        BY <1>5, <2>1, WildcardFacts, WildcardNeat
    <2>2. CASE u[i] \in Children(h) /\ Size[u[i]] < Size[h]
        <3>1. u[i] \in NeatPats(F) /\ u[i] \in Pats /\ h \in Pats
            BY <2>2, NeatFacts
        <3>2. Size[u[i]] \in Nat /\ Size[h] \in Nat
            BY <3>1, SizeType
        <3> QED BY <1>1, <1>2, <2>2, <3>1, <3>2 DEF Less
    <2> QED BY <1>4, <2>1, <2>2
<1>7. u \in Seq(NeatPats(F))
    BY <1>4, <1>6
<1>8. Pairwise(AtMost, u, b)
    <2>1. \A i \in 1..n : <<u[i], b[i]>> \in AtMost
        BY <1>5, <1>6 DEF AtMost
    <2> QED BY <1>4, <1>5, <2>1 DEF Pairwise
<1>9. rest \in Seq(NeatPats(F)) /\ Pairwise(OfType, rest, wt) /\ Pairwise(AtMost, rest, wd)
    BY <1>2 DEF IsRow
<1>10. u \o rest \in Seq(NeatPats(F))
    BY <1>7, <1>9, ConcatProperties
<1>11. Pairwise(OfType, u \o rest, pt \o wt)
    BY <1>1, <1>3, <1>4, <1>7, <1>9, PairwiseConcat
<1>12. Pairwise(AtMost, u \o rest, b \o wd)
    BY <1>1, <1>4, <1>5, <1>7, <1>8, <1>9, PairwiseConcat
<1>13. IsRow(F, u \o rest, pt \o wt, b \o wd)
    BY <1>10, <1>11, <1>12 DEF IsRow
<1> QED BY <1>13 DEF u, pt, wt, b, n, d, wd, t

LEMMA RowsUnder ==
    ASSUME NEW F, NEW ts, NEW ds, Columns(ts, ds), NEW rows, AreRows(F, rows, ts, ds),
           NEW c \in NeatPats(F), IsCtor(c), ts[1] \in TypesOf[c]
    PROVE  AreRows(F, Specialize(rows, c), PartTypes(c, ts[1]) \o Tail(ts),
                   Bounds(Arity(c), Less(ds[1])) \o Tail(ds))
<1> DEFINE u == Specialize(rows, c)
           K == KeptPlaces(rows, c)
           N == NewRows(rows, c)
           t == ts[1]
           pts == PartTypes(c, ts[1]) \o Tail(ts)
           bs == Bounds(Arity(c), Less(ds[1])) \o Tail(ds)
<1>1. rows \in RowSeqs /\ HeadsOfType(rows, t)
    BY RowsHeads
<1>2. u \in RowSeqs /\ \E o : IsPicked(o, K, N, u)
    <2> HIDE DEF t
    <2>1. t \in TypesOf[c]
        BY DEF t
    <2> QED BY <1>1, <2>1, Specialized
<1>3. PICK o : IsPicked(o, K, N, u)
    BY <1>2
<1>4. ASSUME NEW x \in K
      PROVE  IsRow(F, N[x], pts, bs)
    <2> DEFINE h == HeadAt(rows, x)
               rest == Tail(rows[x[1]])
    <2>0. x \in HeadPlaces(rows)
        BY DEF KeptPlaces
    <2>1. /\ Plain(h) /\ t \in TypesOf[h] /\ h \in Within[rows[x[1]][1]] /\ x[1] \in 1..Len(rows)
          /\ rows[x[1]][1] \in Pats /\ h \in Alts(rows[x[1]][1])
        BY <1>1, <2>0, PlaceFacts, RowFacts
    <2>2. h \in NeatPats(F) /\ IsRow(F, rest, Tail(ts), Tail(ds)) /\ Size[rows[x[1]][1]] <= ds[1]
        BY <2>1, RowsHeads, NeatFacts
    <2>3. Kept(h, c)
        BY DEF KeptPlaces
    <2>4. N[x] = Under(h, c) \o rest
        BY <2>0 DEF NewRows
    <2>5. Size[h] <= ds[1]
        <3>1. Size[h] <= Size[rows[x[1]][1]]
            BY <2>1, SizeOfAlternative
        <3>2. Size[h] \in Nat /\ Size[rows[x[1]][1]] \in Nat
            BY <2>1, <2>2, NeatFacts, SizeType
        <3>3. ds[1] \in Nat
            BY EmptySeq, HeadTail DEF Columns
        <3> QED BY <2>2, <3>1, <3>2, <3>3
    <2> HIDE DEF h, rest, N
    <2>6. IsRow(F, Under(h, c) \o rest, pts, bs)
        BY <2>1, <2>2, <2>3, <2>5, RowUnder
    <2> QED BY <2>4, <2>6
<1>5. \A m \in 1..Len(u) : IsRow(F, u[m], pts, bs)
    <2> HIDE DEF u, K, N, pts, bs
    <2> QED BY <1>3, <1>4 DEF IsPicked
<1> QED BY <1>2, <1>5 DEF AreRows

-----------------------------------------------------------------------------
(* What is left of rows whatever the constructor. *)

LEMMA DefaultedRows ==
    ASSUME NEW F, NEW ts, NEW ds, Columns(ts, ds), NEW rows, AreRows(F, rows, ts, ds)
    PROVE  AreRows(F, DefaultMatrix(rows), Tail(ts), Tail(ds))
<1> DEFINE u == DefaultMatrix(rows)
           K == WildPlaces(rows)
           N == Rests(rows)
<1>1. rows \in RowSeqs /\ HeadsOfType(rows, ts[1])
    BY RowsHeads
<1>2. u \in RowSeqs /\ \E o : IsPicked(o, K, N, u)
    BY <1>1, Defaulted
<1>3. PICK o : IsPicked(o, K, N, u)
    BY <1>2
<1>4. ASSUME NEW x \in K
      PROVE  IsRow(F, N[x], Tail(ts), Tail(ds))
    <2>1. x \in HeadPlaces(rows) /\ x[1] \in 1..Len(rows)
        BY DEF WildPlaces, HeadPlaces
    <2>2. N[x] = Tail(rows[x[1]])
        BY <2>1 DEF Rests
    <2> QED BY <2>1, <2>2, RowsHeads
<1>5. \A m \in 1..Len(u) : IsRow(F, u[m], Tail(ts), Tail(ds))
    <2> HIDE DEF u, K, N
    <2> QED BY <1>3, <1>4 DEF IsPicked
<1> QED BY <1>2, <1>5 DEF AreRows

LEMMA AsPlace ==
    ASSUME NEW rows \in RowSeqs, NEW t, HeadsOfType(rows, t), NEW i \in 1..Len(rows),
           NEW k \in 1..Len(Alternatives[rows[i][1]])
    PROVE  <<i, k>> \in HeadPlaces(rows)
<1>1. i \in Nat /\ k \in Nat
    <2>1. Alternatives[rows[i][1]] \in Seq(Pats)
        BY RowFacts
    <2> QED BY <2>1 DEF RowSeqs
<1> QED BY <1>1 DEF HeadPlaces

\* What the rests cover the rows cover; the other way if no row names the
\* constructor of the value.
LEMMA CoveredDefault ==
    ASSUME NEW F, NEW ts, NEW ds, Columns(ts, ds), NEW rows, AreRows(F, rows, ts, ds), NEW vs \in Vectors(ts)
    PROVE  /\ Covered(DefaultMatrix(rows), Tail(vs)) => Covered(rows, vs)
           /\ (\A x \in HeadPlaces(rows) : IsWild(HeadAt(rows, x)) \/ HeadAt(rows, x).tag # vs[1].tag)
                => (Covered(rows, vs) => Covered(DefaultMatrix(rows), Tail(vs)))
<1> DEFINE u == DefaultMatrix(rows)
           K == WildPlaces(rows)
           N == Rests(rows)
<1>0. ts \in Seq(TypeNames) /\ ts # <<>> /\ vs[1] \in AllValues
    BY VectorFacts DEF Columns
<1>1. rows \in RowSeqs /\ HeadsOfType(rows, ts[1])
    BY RowsHeads
<1>2. PICK o : IsPicked(o, K, N, u)
    BY <1>1, Defaulted
<1>3. ASSUME NEW x \in HeadPlaces(rows)
      PROVE  /\ x[1] \in 1..Len(rows) /\ x[2] \in 1..Len(Alternatives[rows[x[1]][1]]) /\ x = <<x[1], x[2]>>
             /\ N[x] = Tail(rows[x[1]]) /\ Plain(HeadAt(rows, x)) /\ HeadAt(rows, x) \in Pats
    BY <1>1, PlaceFacts DEF Rests
<1>4. ASSUME Covered(u, Tail(vs))
      PROVE  Covered(rows, vs)
    <2>1. PICK m \in 1..Len(u) : Pairwise(Fits, u[m], Tail(vs))
        BY <1>4 DEF Covered
    <2> DEFINE x == o[m]
               h == HeadAt(rows, x)
    <2>2. x \in K /\ u[m] = N[x]
        BY <1>2 DEF IsPicked
    <2> HIDE DEF x, u, N
    <2>3. x \in HeadPlaces(rows) /\ IsWild(h)
        BY <2>2 DEF WildPlaces
    <2>4. Matches(h, vs[1])
        BY <1>0, <1>3, <2>3, MatchesDef DEF MatchBody
    <2>5. Pairwise(Fits, Tail(rows[x[1]]), Tail(vs))
        BY <1>3, <2>1, <2>2, <2>3
    <2>6. Pairwise(Fits, rows[x[1]], vs)
        <3>1. x[1] \in 1..Len(rows) /\ x[2] \in 1..Len(Alternatives[rows[x[1]][1]]) /\ x = <<x[1], x[2]>>
            BY <1>3, <2>3
        <3> QED BY <2>4, <2>5, <3>1, RowMatches
    <2> QED BY <1>3, <2>3, <2>6 DEF Covered
<1>5. ASSUME \A x \in HeadPlaces(rows) : IsWild(HeadAt(rows, x)) \/ HeadAt(rows, x).tag # vs[1].tag,
             Covered(rows, vs)
      PROVE  Covered(u, Tail(vs))
    <2>1. PICK i \in 1..Len(rows) : Pairwise(Fits, rows[i], vs)
        BY <1>5 DEF Covered
    <2>2. PICK k \in 1..Len(Alternatives[rows[i][1]]) :
            Matches(HeadAt(rows, <<i, k>>), vs[1]) /\ Pairwise(Fits, Tail(rows[i]), Tail(vs))
        BY <2>1, RowMatches
    <2> DEFINE x == <<i, k>>
               h == HeadAt(rows, x)
    <2>3. x \in HeadPlaces(rows)
        BY <1>1, AsPlace
    <2>4. Plain(h) /\ h \in Pats /\ N[x] = Tail(rows[i])
        BY <1>3, <2>3
    <2>5. IsWild(h)
        <3>1. MatchBody(Matching, h, vs[1])
            BY <1>0, <2>2, <2>4, MatchesDef
        <3>2. IsWild(h) \/ h.tag = vs[1].tag
            BY <2>4, <3>1 DEF MatchBody, Plain
        <3> QED BY <1>5, <2>3, <3>2
    <2>6. x \in K
        BY <2>3, <2>5 DEF WildPlaces
    <2> HIDE DEF u, K, N, x
    <2>7. PICK m \in 1..Len(u) : o[m] = x
        BY <1>2, <2>6 DEF IsPicked
    <2>8. u[m] = N[x]
        BY <1>2, <2>7 DEF IsPicked
    <2> QED BY <2>2, <2>4, <2>8 DEF Covered
<1> QED BY <1>4, <1>5

-----------------------------------------------------------------------------
(* The constructors that are collected. *)

HeadFrom(rows, k, c) == \E x \in HeadPlaces(rows) : x[1] <= k /\ c = HeadAt(rows, x) /\ ~IsWild(c)

AreConstructors(rows, k, s) ==
    /\ \A i \in 1..Len(s) : HeadFrom(rows, k, s[i])
    /\ \A x \in HeadPlaces(rows) : x[1] <= k /\ ~IsWild(HeadAt(rows, x)) =>
            \E i \in 1..Len(s) : SameCtor(s[i], HeadAt(rows, x))

LEMMA SameCtorFacts ==
    ASSUME NEW a, NEW b
    PROVE  SameCtor(a, a) /\ (SameCtor(a, b) => a.tag = b.tag /\ a.p = b.p)
           /\ (a.p = "ctor" /\ b.p = "ctor" /\ a.tag = b.tag => SameCtor(a, b))
BY DEF SameCtor

LEMMA CollectStep ==
    ASSUME NEW rows \in RowSeqs, NEW t, HeadsOfType(rows, t), NEW k \in 1..Len(rows), NEW s \in Seq(Ctors),
           AreConstructors(rows, k - 1, s)
    PROVE  AreConstructors(rows, k, WithHead(s, rows[k]))
<1> DEFINE row == rows[k]
           h == row[1]
           alts == Alternatives[h]
           z == WithHead(s, row)
<1>0. k \in Nat /\ k - 1 \in Nat /\ k - 1 < k /\ Len(rows) \in Nat
    BY DEF RowSeqs
<1>1. row # <<>> /\ h \in Pats
    BY RowFacts
<1>2. ASSUME NEW x \in HeadPlaces(rows), x[1] <= k
      PROVE  x[1] <= k - 1 \/ (x[1] = k /\ x[2] \in 1..Len(alts) /\ HeadAt(rows, x) = alts[x[2]])
    <2>1. x[1] \in 1..Len(rows) /\ x[2] \in 1..Len(Alternatives[rows[x[1]][1]])
        BY DEF HeadPlaces
    <2> QED BY <1>0, <1>2, <2>1 DEF HeadAt
<1>3. ASSUME NEW j \in 1..Len(alts)
      PROVE  <<k, j>> \in HeadPlaces(rows) /\ HeadAt(rows, <<k, j>>) = alts[j]
    BY AsPlace DEF HeadAt
<1>4. ASSUME NEW c, HeadFrom(rows, k - 1, c)
      PROVE  HeadFrom(rows, k, c)
    <2>1. PICK x \in HeadPlaces(rows) : x[1] <= k - 1 /\ c = HeadAt(rows, x) /\ ~IsWild(c)
        BY <1>4 DEF HeadFrom
    <2>2. x[1] <= k
        BY <1>0, <2>1 DEF HeadPlaces
    <2> QED BY <2>1, <2>2 DEF HeadFrom
<1>5. CASE h.p \in {"or", "alias"}
    <2> DEFINE T == Tests(h)
    <2>1. z = s \o T
        BY <1>1, <1>5 DEF WithHead, IsWild
    <2>2. T \in Seq(Ctors)
        BY <1>1, TestsFacts
    <2>3. PICK r : IsTested(r, alts, T)
        BY <1>1, TestsFacts
    <2> HIDE DEF T, alts, h, z, row
    <2> DEFINE l == Len(s)
               m == Len(T)
    <2>4. /\ l \in Nat /\ m \in Nat /\ Len(z) = l + m
          /\ \A i \in 1..Len(z) : z[i] = IF i <= l THEN s[i] ELSE T[i - l]
        BY <2>1, <2>2, ConcatProperties, LenProperties
    <2>5. ASSUME NEW i \in 1..Len(z)
          PROVE  HeadFrom(rows, k, z[i])
        <3>1. CASE i <= l
            <4>1. i \in 1..l /\ z[i] = s[i]
                BY <2>4, <3>1
            <4>2. HeadFrom(rows, k - 1, s[i])
                BY <4>1 DEF AreConstructors
            <4> QED BY <1>4, <4>1, <4>2
        <3>2. CASE ~(i <= l)
            <4>1. i - l \in 1..m /\ z[i] = T[i - l]
                BY <2>4, <3>2
            <4>2. r[i - l] \in 1..Len(alts) /\ z[i] = alts[r[i - l]] /\ ~IsWild(z[i])
                BY <2>3, <4>1 DEF IsTested
            <4> DEFINE x == <<k, r[i - l]>>
            <4>3. x \in HeadPlaces(rows) /\ HeadAt(rows, x) = z[i] /\ x[1] <= k
                BY <1>0, <1>3, <4>2
            <4> QED BY <4>2, <4>3 DEF HeadFrom
        <3> QED BY <3>1, <3>2
    <2>6. ASSUME NEW x \in HeadPlaces(rows), x[1] <= k, ~IsWild(HeadAt(rows, x))
          PROVE  \E i \in 1..Len(z) : SameCtor(z[i], HeadAt(rows, x))
        <3>1. CASE x[1] <= k - 1
            <4>1. PICK i \in 1..l : SameCtor(s[i], HeadAt(rows, x))
                BY <2>6, <3>1 DEF AreConstructors
            <4>2. i \in 1..Len(z) /\ z[i] = s[i]
                BY <2>4
            <4> QED BY <4>1, <4>2
        <3>2. CASE x[2] \in 1..Len(alts) /\ HeadAt(rows, x) = alts[x[2]]
            <4>1. PICK j \in 1..m : r[j] = x[2]
                BY <2>3, <2>6, <3>2 DEF IsTested
            <4>2. T[j] = HeadAt(rows, x)
                BY <2>3, <3>2, <4>1 DEF IsTested
            <4>3. j + l \in 1..Len(z) /\ ~(j + l <= l) /\ (j + l) - l = j
                BY <2>4
            <4>4. z[j + l] = T[j]
                BY <2>4, <4>3
            <4> QED BY <4>2, <4>3, <4>4, SameCtorFacts
        <3> QED BY <1>2, <2>6, <3>1, <3>2
    <2> QED BY <2>5, <2>6 DEF AreConstructors, z, row
<1>6. CASE h.p \notin {"or", "alias"}
    <2>1. alts = <<h>> /\ Len(<<h>>) = 1 /\ <<h>>[1] = h
        BY <1>1, <1>6, AlternativesDef DEF AltBody
    <2>2. Len(alts) = 1 /\ alts[1] = h
        BY <2>1
    <2> HIDE DEF alts
    <2>3. \A x \in HeadPlaces(rows) : x[1] <= k => x[1] <= k - 1 \/ HeadAt(rows, x) = h
        BY <1>2, <2>2
    <2>4. <<k, 1>> \in HeadPlaces(rows) /\ HeadAt(rows, <<k, 1>>) = h
        BY <1>3, <2>2
    <2> HIDE DEF h, row, z
    <2>5. ASSUME z = s, IsWild(h) \/ \E i \in 1..Len(s) : SameCtor(s[i], h)
          PROVE  AreConstructors(rows, k, z)
        <3>1. \A i \in 1..Len(z) : HeadFrom(rows, k, z[i])
            BY <1>4, <2>5 DEF AreConstructors
        <3>2. ASSUME NEW x \in HeadPlaces(rows), x[1] <= k, ~IsWild(HeadAt(rows, x))
              PROVE  \E i \in 1..Len(z) : SameCtor(z[i], HeadAt(rows, x))
            BY <2>3, <2>5, <3>2 DEF AreConstructors
        <3> QED BY <3>1, <3>2 DEF AreConstructors
    <2>6. ASSUME z = Append(s, h), ~IsWild(h)
          PROVE  AreConstructors(rows, k, z)
        <3>1. h \in Ctors
            BY <1>1, <1>6, <2>6, PlainHead DEF Plain, Ctors
        <3>2. /\ Len(z) = Len(s) + 1 /\ Len(s) \in Nat
              /\ \A i \in 1..Len(s) : z[i] = s[i]
              /\ z[Len(s) + 1] = h
            BY <2>6, <3>1, AppendProperties, LenProperties
        <3>3. ASSUME NEW i \in 1..Len(z)
              PROVE  HeadFrom(rows, k, z[i])
            <4>1. CASE i \in 1..Len(s)
                <5>1. HeadFrom(rows, k - 1, s[i])
                    BY <4>1 DEF AreConstructors
                <5> QED BY <1>4, <3>2, <4>1, <5>1
            <4>2. CASE i = Len(s) + 1
                <5> DEFINE x == <<k, 1>>
                <5>1. x \in HeadPlaces(rows) /\ HeadAt(rows, x) = h /\ x[1] <= k
                    BY <1>0, <2>4
                <5>2. z[i] = h
                    BY <3>2, <4>2
                <5> HIDE DEF x
                <5> QED BY <2>6, <5>1, <5>2 DEF HeadFrom
            <4> QED BY <3>2, <4>1, <4>2
        <3>4. ASSUME NEW x \in HeadPlaces(rows), x[1] <= k, ~IsWild(HeadAt(rows, x))
              PROVE  \E i \in 1..Len(z) : SameCtor(z[i], HeadAt(rows, x))
            <4>1. CASE x[1] <= k - 1
                <5>1. PICK i \in 1..Len(s) : SameCtor(s[i], HeadAt(rows, x))
                    BY <3>4, <4>1 DEF AreConstructors
                <5>2. i \in 1..Len(z)
                    BY <3>2
                <5> QED BY <3>2, <5>1, <5>2
            <4>2. CASE HeadAt(rows, x) = h
                <5>1. Len(s) + 1 \in 1..Len(z)
                    BY <3>2
                <5> QED BY <3>2, <4>2, <5>1, SameCtorFacts
            <4> QED BY <2>3, <3>4, <4>1, <4>2
        <3> QED BY <3>3, <3>4 DEF AreConstructors
    <2>7. \/ z = s /\ (IsWild(h) \/ \E i \in 1..Len(s) : SameCtor(s[i], h))
          \/ z = Append(s, h) /\ ~IsWild(h)
        <3>1. CASE IsWild(h)
            BY <1>1, <3>1 DEF WithHead, h, z
        <3>2. CASE ~IsWild(h)
            <4>1. DOMAIN s = 1..Len(s)
                OBVIOUS
            <4>2. z = IF \E i \in DOMAIN s : SameCtor(s[i], h) THEN s ELSE Append(s, h)
                BY <1>1, <1>6, <3>2 DEF WithHead, h, z
            <4> QED BY <3>2, <4>1, <4>2
        <3> QED BY <3>1, <3>2
    <2>8. AreConstructors(rows, k, z)
        BY <2>5, <2>6, <2>7
    <2> QED BY <2>8 DEF z, row
<1> QED BY <1>5, <1>6

LEMMA Collected ==
    ASSUME NEW rows \in RowSeqs, NEW t, HeadsOfType(rows, t)
    PROVE  AreConstructors(rows, Len(rows), Constructors(rows))
<1> DEFINE n == Len(rows)
<1>0. n \in Nat
    BY DEF RowSeqs
<1>1. PICK f : IsCollected(f, rows)
    BY ConstructorsDef
<1> DEFINE S == {k \in 0..n : AreConstructors(rows, k, f[k])}
<1>2. 0 \in S
    <2>1. f[0] = <<>> /\ Len(<<>>) = 0
        BY <1>1 DEF IsCollected
    <2>2. \A i \in 1..0 : FALSE
        OBVIOUS
    <2>3. \A x \in HeadPlaces(rows) : ~(x[1] <= 0)
        BY <1>0 DEF HeadPlaces
    <2>4. AreConstructors(rows, 0, f[0])
        BY <2>1, <2>2, <2>3 DEF AreConstructors
    <2> QED BY <1>0, <2>4
<1>3. ASSUME NEW k \in 1..n, k - 1 \in S
      PROVE  k \in S
    <2>1. f[k] = WithHead(f[k - 1], rows[k]) /\ f[k - 1] \in Seq(Ctors)
        BY <1>0, <1>1 DEF IsCollected
    <2>2. AreConstructors(rows, k, f[k])
        BY <1>3, <2>1, CollectStep
    <2> QED BY <1>0, <2>2
<1>4. \A k \in 0..n : k \in S
    <2> HIDE DEF S
    <2> QED BY <1>0, <1>2, <1>3, IntervalInduction
<1>5. n \in S /\ Constructors(rows) = f[n]
    BY <1>0, <1>1, <1>4 DEF IsCollected
<1> QED BY <1>5

-----------------------------------------------------------------------------
(* A constructor is counted once. *)

InRow(row) == UNION {Within[row[j]] : j \in 1..Len(row)}
TagsIn(S) == {q.tag : q \in {q \in S : q.p = "ctor"}}
AppendedIn(S) == TagsIn(UNION {Children(o) : o \in {o \in S : o.p \in {"or", "alias"}}})

\* M: the constructors that get_constructors appends without looking.
Tidy(M, rows) ==
    /\ \A i \in 1..Len(rows) : AppendedIn(InRow(rows[i])) \subseteq M
    /\ \A i, j \in 1..Len(rows) : i # j => TagsIn(InRow(rows[i])) \cap TagsIn(InRow(rows[j])) \cap M = {}
    /\ \A i \in 1..Len(rows) : TagsIn(InRow(rows[i])) \cap M # {} =>
            \A q \in InRow(rows[i]) : Excluding(Alternatives[q])

LEMMA InRowHead ==
    ASSUME NEW row \in Seq(Pats), row # <<>>
    PROVE  /\ row[1] \in InRow(row) /\ Within[row[1]] \subseteq InRow(row)
           /\ InRow(Tail(row)) \subseteq InRow(row)
<1>1. row[1] \in Pats /\ 1 \in 1..Len(row) /\ Len(row) \in Nat
    BY HeadTail, LenProperties, EmptySeq
<1>2. Within[row[1]] \subseteq InRow(row)
    BY <1>1 DEF InRow
<1>3. row[1] \in Within[row[1]]
    BY <1>1, WithinFacts
<1>4. ASSUME NEW j \in 1..Len(Tail(row))
      PROVE  Within[Tail(row)[j]] \subseteq InRow(row)
    <2>1. Len(Tail(row)) = Len(row) - 1 /\ Tail(row)[j] = row[j + 1]
        BY <1>4, HeadTailProperties
    <2>2. j + 1 \in 1..Len(row)
        BY <1>1, <2>1
    <2> QED BY <2>1, <2>2 DEF InRow
<1>5. InRow(Tail(row)) \subseteq InRow(row)
    BY <1>4 DEF InRow
<1> QED BY <1>2, <1>3, <1>5

\* No two of the collected constructors are the same one.
NoneTwice(s) == \A i, j \in 1..Len(s) : i # j /\ s[i].p = "ctor" /\ s[j].p = "ctor" => s[i].tag # s[j].tag

LEMMA TestsOnce ==
    ASSUME NEW M, NEW rows \in RowSeqs, NEW t, HeadsOfType(rows, t), Tidy(M, rows), NEW k \in 1..Len(rows),
           rows[k][1].p \in {"or", "alias"}
    PROVE  /\ \A i \in 1..Len(Tests(rows[k][1])) : Tests(rows[k][1])[i].p = "ctor" =>
                Tests(rows[k][1])[i].tag \in M \cap TagsIn(InRow(rows[k]))
           /\ NoneTwice(Tests(rows[k][1]))
<1> DEFINE row == rows[k]
           h == row[1]
           alts == Alternatives[h]
           T == Tests(h)
<1>1. row \in Seq(Pats) /\ row # <<>> /\ h \in Pats
    BY RowFacts
<1>2. PICK r : IsTested(r, alts, T)
    BY <1>1, TestsFacts
<1>3. h \in InRow(row) /\ Within[h] \subseteq InRow(row)
    BY <1>1, InRowHead
<1>4. /\ AppendedIn(InRow(row)) \subseteq M
      /\ TagsIn(InRow(row)) \cap M # {} => Excluding(alts)
    BY <1>3 DEF Tidy
<1>5. h.p \in {"or", "alias"}
    OBVIOUS
<1>6. DOMAIN alts = 1..Len(alts) /\ Len(alts) \in Nat /\ \A j \in 1..Len(alts) : alts[j] \in Alts(h)
    BY <1>1, AlternativeAt
<1> HIDE DEF row, h, alts, T
<1>7. ASSUME NEW i \in 1..Len(T), T[i].p = "ctor"
      PROVE  T[i].tag \in M \cap TagsIn(InRow(row))
    <2>1. T[i] \in Alts(h)
        BY <1>2, <1>6 DEF IsTested
    <2>2. PICK o \in Within[h] : o.p \in {"or", "alias"} /\ T[i] \in Children(o)
        BY <1>1, <1>5, <2>1, AppendedAlternative
    <2>3. T[i].tag \in AppendedIn(InRow(row))
        BY <1>3, <1>7, <2>2 DEF AppendedIn, TagsIn
    <2>4. T[i] \in InRow(row)
        BY <1>1, <1>3, <2>1, PlainAlternatives
    <2> QED BY <1>4, <1>7, <2>3, <2>4 DEF TagsIn
<1>8. ASSUME NEW i \in 1..Len(T), NEW j \in 1..Len(T), i # j, T[i].p = "ctor", T[j].p = "ctor"
      PROVE  T[i].tag # T[j].tag
    <2>1. r[i] \in 1..Len(alts) /\ r[j] \in 1..Len(alts) /\ r[i] # r[j] /\ T[i] = alts[r[i]] /\ T[j] = alts[r[j]]
        BY <1>2, <1>8 DEF IsTested
    <2>2. Excluding(alts)
        BY <1>4, <1>7, <1>8
    <2>3. Len(alts) > 1
        BY <1>6, <2>1
    <2> QED BY <1>6, <2>1, <2>2, <2>3 DEF Excluding
<1> QED BY <1>7, <1>8 DEF NoneTwice, T, h, row

LEMMA OnceStep ==
    ASSUME NEW M, NEW rows \in RowSeqs, NEW t, HeadsOfType(rows, t), Tidy(M, rows), NEW k \in 1..Len(rows),
           NEW s \in Seq(Ctors), AreConstructors(rows, k - 1, s), NoneTwice(s)
    PROVE  NoneTwice(WithHead(s, rows[k]))
<1> DEFINE row == rows[k]
           h == row[1]
           z == WithHead(s, row)
<1>0. k \in Nat /\ k - 1 \in Nat /\ k - 1 < k /\ Len(rows) \in Nat
    BY DEF RowSeqs
<1>1. row # <<>> /\ h \in Pats
    BY RowFacts
<1>2. CASE h.p \in {"or", "alias"}
    <2> DEFINE T == Tests(h)
               l == Len(s)
               m == Len(T)
    <2>1. z = s \o T
        BY <1>1, <1>2 DEF WithHead, IsWild
    <2>2. T \in Seq(Ctors)
        BY <1>1, TestsFacts
    <2>3. /\ \A i \in 1..Len(T) : T[i].p = "ctor" => T[i].tag \in M \cap TagsIn(InRow(row))
          /\ NoneTwice(T)
        BY <1>2, TestsOnce
    <2> HIDE DEF T, z
    <2>4. /\ l \in Nat /\ m \in Nat /\ Len(z) = l + m
          /\ \A i \in 1..Len(z) : z[i] = IF i <= l THEN s[i] ELSE T[i - l]
        BY <2>1, <2>2, ConcatProperties, LenProperties
    <2>5. ASSUME NEW i \in 1..l, s[i].p = "ctor"
          PROVE  s[i].tag \notin M \cap TagsIn(InRow(row))
        <3>1. PICK x \in HeadPlaces(rows) : x[1] <= k - 1 /\ s[i] = HeadAt(rows, x)
            BY DEF AreConstructors, HeadFrom
        <3> DEFINE a == x[1]
        <3>2. a \in 1..Len(rows) /\ a # k /\ s[i] \in Within[rows[a][1]]
            BY <1>0, <3>1, PlaceFacts
        <3>3. s[i] \in InRow(rows[a])
            BY <3>2, InRowHead, RowFacts
        <3>4. s[i].tag \in TagsIn(InRow(rows[a]))
            BY <2>5, <3>3 DEF TagsIn
        <3>5. TagsIn(InRow(rows[a])) \cap TagsIn(InRow(rows[k])) \cap M = {}
            BY <3>2 DEF Tidy
        <3> QED BY <3>4, <3>5
    <2>6. ASSUME NEW i \in 1..Len(z), NEW j \in 1..Len(z), i # j, z[i].p = "ctor", z[j].p = "ctor"
          PROVE  z[i].tag # z[j].tag
        <3>1. CASE i <= l /\ j <= l
            <4>1. i \in 1..l /\ j \in 1..l /\ z[i] = s[i] /\ z[j] = s[j]
                BY <2>4, <3>1
            <4> QED BY <2>6, <4>1 DEF NoneTwice
        <3>2. CASE i <= l /\ ~(j <= l)
            <4>1. i \in 1..l /\ j - l \in 1..m /\ z[i] = s[i] /\ z[j] = T[j - l]
                BY <2>4, <3>2
            <4>2. T[j - l].tag \in M \cap TagsIn(InRow(row))
                BY <2>3, <2>6, <4>1
            <4>3. s[i].tag \notin M \cap TagsIn(InRow(row))
                BY <2>5, <2>6, <4>1
            <4> QED BY <4>1, <4>2, <4>3
        <3>3. CASE ~(i <= l) /\ j <= l
            <4>1. j \in 1..l /\ i - l \in 1..m /\ z[j] = s[j] /\ z[i] = T[i - l]
                BY <2>4, <3>3
            <4>2. T[i - l].tag \in M \cap TagsIn(InRow(row))
                BY <2>3, <2>6, <4>1
            <4>3. s[j].tag \notin M \cap TagsIn(InRow(row))
                BY <2>5, <2>6, <4>1
            <4> QED BY <4>1, <4>2, <4>3
        <3>4. CASE ~(i <= l) /\ ~(j <= l)
            <4>1. i - l \in 1..m /\ j - l \in 1..m /\ i - l # j - l /\ z[i] = T[i - l] /\ z[j] = T[j - l]
                BY <2>4, <2>6, <3>4
            <4> QED BY <2>3, <2>6, <4>1 DEF NoneTwice
        <3> QED BY <3>1, <3>2, <3>3, <3>4
    <2> QED BY <2>6 DEF NoneTwice, z, row
<1>3. CASE h.p \notin {"or", "alias"}
    <2>1. CASE z = s
        BY <2>1
    <2>2. CASE z # s
        <3>1. DOMAIN s = 1..Len(s)
            OBVIOUS
        <3>2. ~IsWild(h) /\ z = Append(s, h) /\ \A i \in 1..Len(s) : ~SameCtor(s[i], h)
            BY <1>1, <1>3, <2>2, <3>1 DEF WithHead
        <3>3. h \in Ctors
            BY <1>1, <1>3, <3>2, PlainHead DEF Plain, Ctors
        <3> HIDE DEF z, h
        <3>4. /\ Len(z) = Len(s) + 1 /\ Len(s) \in Nat
              /\ \A i \in 1..Len(s) : z[i] = s[i]
              /\ z[Len(s) + 1] = h
            BY <3>2, <3>3, AppendProperties, LenProperties
        <3>5. ASSUME NEW i \in 1..Len(s), s[i].p = "ctor", h.p = "ctor"
              PROVE  s[i].tag # h.tag
            BY <3>2, <3>5, SameCtorFacts
        <3>6. ASSUME NEW i \in 1..Len(z), NEW j \in 1..Len(z), i # j, z[i].p = "ctor", z[j].p = "ctor"
              PROVE  z[i].tag # z[j].tag
            <4>1. CASE i \in 1..Len(s) /\ j \in 1..Len(s)
                BY <3>4, <3>6, <4>1 DEF NoneTwice
            <4>2. CASE i \in 1..Len(s) /\ j = Len(s) + 1
                BY <3>4, <3>5, <3>6, <4>2
            <4>3. CASE j \in 1..Len(s) /\ i = Len(s) + 1
                BY <3>4, <3>5, <3>6, <4>3
            <4> QED BY <3>4, <3>6, <4>1, <4>2, <4>3
        <3> QED BY <3>6 DEF NoneTwice, z
    <2> QED BY <2>1, <2>2
<1> QED BY <1>2, <1>3

LEMMA CollectedOnce ==
    ASSUME NEW M, NEW rows \in RowSeqs, NEW t, HeadsOfType(rows, t), Tidy(M, rows)
    PROVE  NoneTwice(Constructors(rows))
<1> DEFINE n == Len(rows)
<1>0. n \in Nat
    BY DEF RowSeqs
<1>1. PICK f : IsCollected(f, rows)
    BY ConstructorsDef
<1> DEFINE S == {k \in 0..n : AreConstructors(rows, k, f[k]) /\ NoneTwice(f[k])}
<1>2. 0 \in S
    <2>1. f[0] = <<>> /\ Len(<<>>) = 0
        BY <1>1 DEF IsCollected
    <2>2. \A i \in 1..0 : FALSE
        OBVIOUS
    <2>3. \A x \in HeadPlaces(rows) : ~(x[1] <= 0)
        BY <1>0 DEF HeadPlaces
    <2>4. AreConstructors(rows, 0, f[0]) /\ NoneTwice(f[0])
        BY <2>1, <2>2, <2>3 DEF AreConstructors, NoneTwice
    <2> QED BY <1>0, <2>4
<1>3. ASSUME NEW k \in 1..n, k - 1 \in S
      PROVE  k \in S
    <2>1. f[k] = WithHead(f[k - 1], rows[k]) /\ f[k - 1] \in Seq(Ctors)
        BY <1>0, <1>1 DEF IsCollected
    <2>2. AreConstructors(rows, k - 1, f[k - 1]) /\ NoneTwice(f[k - 1])
        BY <1>3
    <2>3. AreConstructors(rows, k, f[k])
        BY <2>1, <2>2, CollectStep
    <2>4. NoneTwice(f[k])
        BY <2>1, <2>2, OnceStep
    <2> QED BY <1>0, <2>3, <2>4
<1>4. \A k \in 0..n : k \in S
    <2> HIDE DEF S
    <2> QED BY <1>0, <1>2, <1>3, IntervalInduction
<1>5. n \in S /\ Constructors(rows) = f[n]
    BY <1>0, <1>1, <1>4 DEF IsCollected
<1> QED BY <1>5

-----------------------------------------------------------------------------
(* Counting the constructors tells whether one is missing. *)

LEMMA Counting ==
    ASSUME NEW n \in Nat, NEW T, IsFiniteSet(T), NEW f \in [1..n -> T]
    PROVE  /\ n < Cardinality(T) => \E t \in T : \A i \in 1..n : f[i] # t
           /\ (\A i, j \in 1..n : i # j => f[i] # f[j]) /\ n >= Cardinality(T)
                => \A t \in T : \E i \in 1..n : f[i] = t
<1>1. Cardinality(T) \in Nat
    BY FS_CardinalityType
<1>2. ASSUME \A t \in T : \E i \in 1..n : f[i] = t
      PROVE  Cardinality(T) <= n
    <2>1. f \in Surjection(1..n, T)
        BY <1>2 DEF Surjection
    <2>2. ExistsSurjection(1..n, T)
        BY <2>1 DEF ExistsSurjection
    <2> QED BY <2>2, FS_SurjCardinalityBound
<1>3. ASSUME \A i, j \in 1..n : i # j => f[i] # f[j], n >= Cardinality(T)
      PROVE  \A t \in T : \E i \in 1..n : f[i] = t
    <2>1. f \in Injection(1..n, T)
        BY <1>3 DEF Injection, IsInjective
    <2>2. Cardinality(1..n) = n
        BY FS_Interval
    <2>3. Cardinality(1..n) <= Cardinality(T)
        BY <2>1, FS_Injection
    <2>4. Cardinality(1..n) = Cardinality(T)
        BY <1>1, <1>3, <2>2, <2>3
    <2>5. f \in Surjection(1..n, T)
        BY <2>1, <2>4, FS_Injection
    <2> QED BY <2>5 DEF Surjection
<1> QED BY <1>1, <1>2, <1>3

LEMMA CollectedFacts ==
    ASSUME NEW rows \in RowSeqs, NEW t \in TypeNames, HeadsOfType(rows, t)
    PROVE  LET ctors == Constructors(rows)
           IN  /\ ctors \in Seq(Ctors) /\ DOMAIN ctors = 1..Len(ctors) /\ Len(ctors) \in Nat
               /\ \A i \in 1..Len(ctors) :
                    /\ IsCtor(ctors[i]) /\ t \in TypesOf[ctors[i]]
                    /\ ctors[i].p = Shape[t].kind /\ ctors[i].tag \in Tags(t)
                    /\ \E x \in HeadPlaces(rows) : ctors[i] = HeadAt(rows, x)
<1> DEFINE ctors == Constructors(rows)
<1>1. ctors \in Seq(Ctors) /\ DOMAIN ctors = 1..Len(ctors) /\ Len(ctors) \in Nat
    BY ConstructorsDef
<1>2. ASSUME NEW i \in 1..Len(ctors)
      PROVE  /\ IsCtor(ctors[i]) /\ t \in TypesOf[ctors[i]]
             /\ ctors[i].p = Shape[t].kind /\ ctors[i].tag \in Tags(t)
             /\ \E x \in HeadPlaces(rows) : ctors[i] = HeadAt(rows, x)
    <2>1. AreConstructors(rows, Len(rows), ctors)
        BY Collected
    <2> HIDE DEF ctors
    <2>2. PICK x \in HeadPlaces(rows) : ctors[i] = HeadAt(rows, x)
        BY <2>1 DEF AreConstructors, HeadFrom
    <2>3. IsCtor(ctors[i]) /\ t \in TypesOf[ctors[i]]
        BY <1>1, <2>2, PlaceFacts DEF Ctors
    <2>4. ctors[i].p = Shape[t].kind /\ ctors[i].tag \in Tags(t)
        BY <2>3, CtorFacts
    <2> QED BY <2>2, <2>3, <2>4
<1> QED BY <1>1, <1>2

DeclOf(tag) == CHOOSE d \in Decls : tag \in d

LEMMA AllCoveredIs ==
    ASSUME NEW rows \in RowSeqs, NEW t \in TypeNames, HeadsOfType(rows, t)
    PROVE  LET ctors == Constructors(rows)
           IN  /\ ctors = <<>> => ~AllCovered(ctors)
               /\ ctors # <<>> /\ Shape[t].kind = "ctor" =>
                    /\ AllCovered(ctors) <=> Len(ctors) >= Cardinality(Tags(t))
                    /\ IsFiniteSet(Tags(t))
               /\ ctors # <<>> /\ Shape[t].kind \in {"tuple", "struct"} => AllCovered(ctors)
               /\ ctors # <<>> /\ Shape[t].kind = "lit" =>
                    (AllCovered(ctors) <=> {"true", "false"} \subseteq {ctors[i].tag : i \in 1..Len(ctors)})
<1> DEFINE ctors == Constructors(rows)
<1>1. /\ ctors \in Seq(Ctors) /\ DOMAIN ctors = 1..Len(ctors) /\ Len(ctors) \in Nat
      /\ \A i \in 1..Len(ctors) : ctors[i].p = Shape[t].kind /\ ctors[i].tag \in Tags(t)
    BY CollectedFacts
<1> HIDE DEF ctors
<1>2. ctors = <<>> => ~AllCovered(ctors)
    BY DEF AllCovered
<1>3. ASSUME ctors # <<>>
      PROVE  ctors[1].p = Shape[t].kind /\ ctors[1].tag \in Tags(t)
    <2>1. 1 \in 1..Len(ctors)
        BY <1>1, <1>3, EmptySeq, LenProperties
    <2> QED BY <1>1, <2>1
<1>4. ASSUME ctors # <<>>, Shape[t].kind = "ctor"
      PROVE  (AllCovered(ctors) <=> Len(ctors) >= Cardinality(Tags(t))) /\ IsFiniteSet(Tags(t))
    <2>1. ctors[1].p = "ctor" /\ ctors[1].tag \in Tags(t) /\ Tags(t) \in Decls
        BY <1>3, <1>4, TypeFacts
    <2>2. DeclOf(ctors[1].tag) = Tags(t)
        <3>1. DeclOf(ctors[1].tag) \in Decls /\ ctors[1].tag \in DeclOf(ctors[1].tag)
            BY <2>1 DEF DeclOf
        <3>2. \A d, e \in Decls : d # e => d \cap e = {}
            BY TypeAssumption
        <3> QED BY <2>1, <3>1, <3>2
    <2>3. AllCovered(ctors) <=> Len(ctors) >= Cardinality(DeclOf(ctors[1].tag))
        BY <1>4, <2>1 DEF AllCovered, DeclOf
    <2>4. IsFiniteSet(Tags(t))
        BY <2>1, TypeAssumption
    <2> QED BY <2>2, <2>3, <2>4
<1>5. ASSUME ctors # <<>>, Shape[t].kind \in {"tuple", "struct"}
      PROVE  AllCovered(ctors)
    <2>1. ctors[1].p \in {"tuple", "struct"}
        BY <1>3, <1>5
    <2> QED BY <1>5, <2>1 DEF AllCovered
<1>6. ASSUME ctors # <<>>, Shape[t].kind = "lit"
      PROVE  AllCovered(ctors) <=> {"true", "false"} \subseteq {ctors[i].tag : i \in 1..Len(ctors)}
    <2>1. ctors[1].p = "lit"
        BY <1>3, <1>6
    <2> QED BY <1>1, <1>6, <2>1 DEF AllCovered
<1> QED BY <1>2, <1>4, <1>5, <1>6 DEF ctors

\* If it says so, every tag is there.
LEMMA AllAreThere ==
    ASSUME NEW M, NEW rows \in RowSeqs, NEW t \in TypeNames, HeadsOfType(rows, t), Tidy(M, rows),
           AllCovered(Constructors(rows)), NEW tag \in Tags(t)
    PROVE  \E i \in 1..Len(Constructors(rows)) : Constructors(rows)[i].tag = tag
<1> DEFINE ctors == Constructors(rows)
<1>1. /\ ctors \in Seq(Ctors) /\ Len(ctors) \in Nat
      /\ \A i \in 1..Len(ctors) : ctors[i].p = Shape[t].kind /\ ctors[i].tag \in Tags(t) /\ IsCtor(ctors[i])
                                  /\ t \in TypesOf[ctors[i]]
    BY CollectedFacts
<1>2. NoneTwice(ctors)
    BY CollectedOnce
<1>3. /\ ctors # <<>>
      /\ Shape[t].kind = "ctor" => Len(ctors) >= Cardinality(Tags(t)) /\ IsFiniteSet(Tags(t))
      /\ Shape[t].kind = "lit" => {"true", "false"} \subseteq {ctors[i].tag : i \in 1..Len(ctors)}
    BY AllCoveredIs
<1> HIDE DEF ctors
<1>4. 1 \in 1..Len(ctors)
    BY <1>1, <1>3, EmptySeq, LenProperties
<1>5. CASE Shape[t].kind = "ctor"
    <2> DEFINE f == [i \in 1..Len(ctors) |-> ctors[i].tag]
               T == Tags(t)
    <2>1. f \in [1..Len(ctors) -> T]
        BY <1>1
    <2>2. ASSUME NEW i \in 1..Len(ctors), NEW j \in 1..Len(ctors), i # j
          PROVE  f[i] # f[j]
        BY <1>1, <1>2, <1>5, <2>2 DEF NoneTwice
    <2>3. Len(ctors) >= Cardinality(T) /\ IsFiniteSet(T) /\ tag \in T
        BY <1>3, <1>5
    <2>4. \E i \in 1..Len(ctors) : f[i] = tag
        <3> HIDE DEF f, T
        <3> QED BY <1>1, <2>1, <2>2, <2>3, Counting
    <2> QED BY <2>4 DEF ctors
<1>6. CASE Shape[t].kind \in {"tuple", "struct"}
    <2>1. ctors[1].tag = tag
        BY <1>1, <1>4, <1>6, TypeFacts
    <2> QED BY <1>4, <2>1 DEF ctors
<1>7. CASE Shape[t].kind = "lit"
    <2>1. \E i \in 1..Len(ctors) : ctors[i].tag = "true"
        BY <1>3, <1>7
    <2>2. "true" \in Tags(t)
        BY <1>1, <2>1
    <2>3. Tags(t) = {"true", "false"}
        BY <1>7, <2>2, TypeAssumption
    <2>4. tag \in {ctors[i].tag : i \in 1..Len(ctors)}
        BY <1>3, <1>7, <2>3
    <2>5. \E i \in 1..Len(ctors) : ctors[i].tag = tag
        BY <2>4
    <2> QED BY <2>5 DEF ctors
<1> QED BY <1>5, <1>6, <1>7, TypeFacts

\* If it does not, one is missing.
LEMMA OneIsMissing ==
    ASSUME NEW rows \in RowSeqs, NEW t \in TypeNames, HeadsOfType(rows, t), ~AllCovered(Constructors(rows))
    PROVE  \E tag \in Tags(t) : \A i \in 1..Len(Constructors(rows)) : Constructors(rows)[i].tag # tag
<1> DEFINE ctors == Constructors(rows)
<1>1. /\ ctors \in Seq(Ctors) /\ Len(ctors) \in Nat
      /\ \A i \in 1..Len(ctors) : ctors[i].p = Shape[t].kind /\ ctors[i].tag \in Tags(t) /\ IsCtor(ctors[i])
    BY CollectedFacts
<1>2. /\ ctors # <<>> /\ Shape[t].kind = "ctor" => Len(ctors) < Cardinality(Tags(t)) /\ IsFiniteSet(Tags(t))
      /\ ctors # <<>> => Shape[t].kind \notin {"tuple", "struct"}
      /\ ctors # <<>> /\ Shape[t].kind = "lit" =>
            ~({"true", "false"} \subseteq {ctors[i].tag : i \in 1..Len(ctors)})
    <2> HIDE DEF ctors
    <2>1. /\ ctors # <<>> /\ Shape[t].kind = "ctor" =>
                ~(Len(ctors) >= Cardinality(Tags(t))) /\ IsFiniteSet(Tags(t))
          /\ ctors # <<>> => Shape[t].kind \notin {"tuple", "struct"}
          /\ ctors # <<>> /\ Shape[t].kind = "lit" =>
                ~({"true", "false"} \subseteq {ctors[i].tag : i \in 1..Len(ctors)})
        BY AllCoveredIs DEF ctors
    <2>2. IsFiniteSet(Tags(t)) => Cardinality(Tags(t)) \in Nat
        BY FS_CardinalityType
    <2> QED BY <1>1, <2>1, <2>2
<1> HIDE DEF ctors
<1>3. CASE ctors = <<>>
    <2>1. \A i \in 1..Len(ctors) : FALSE
        BY <1>3
    <2>2. \E tag \in Tags(t) : TRUE
        BY TypeFacts
    <2> QED BY <2>1, <2>2 DEF ctors
<1>4. CASE ctors # <<>> /\ Shape[t].kind = "ctor"
    <2> DEFINE f == [i \in 1..Len(ctors) |-> ctors[i].tag]
               T == Tags(t)
    <2>1. f \in [1..Len(ctors) -> T]
        BY <1>1
    <2>2. Len(ctors) < Cardinality(T) /\ IsFiniteSet(T)
        BY <1>2, <1>4
    <2>3. \E tag \in T : \A i \in 1..Len(ctors) : f[i] # tag
        <3> HIDE DEF f, T
        <3> QED BY <1>1, <2>1, <2>2, Counting
    <2> QED BY <2>3 DEF ctors
<1>5. CASE ctors # <<>> /\ Shape[t].kind = "lit"
    <2>1. \/ Tags(t) = {"true", "false"}
          \/ \E c \in Tags(t) : \A pat \in Pats : pat.p = "lit" => pat.tag # c
        BY <1>5, TypeAssumption
    <2>2. CASE Tags(t) = {"true", "false"}
        <3>1. PICK tag \in {"true", "false"} : tag \notin {ctors[i].tag : i \in 1..Len(ctors)}
            BY <1>2, <1>5
        <3>2. \A i \in 1..Len(ctors) : ctors[i].tag # tag
            BY <3>1
        <3> QED BY <2>2, <3>1, <3>2 DEF ctors
    <2>3. CASE \E c \in Tags(t) : \A pat \in Pats : pat.p = "lit" => pat.tag # c
        <3>1. \A i \in 1..Len(ctors) : ctors[i] \in Pats /\ ctors[i].p = "lit"
            BY <1>1, <1>5 DEF IsCtor
        <3> QED BY <2>3, <3>1 DEF ctors
    <2> QED BY <2>1, <2>2, <2>3
<1> QED BY <1>2, <1>3, <1>4, <1>5, TypeFacts

-----------------------------------------------------------------------------
(* RowSeqs stay tidy. *)

LEMMA WildcardWithin == Within[Wildcard] = {Wildcard} /\ Excluding(Alternatives[Wildcard])
<1>1. Within[Wildcard] = WithinBody(Within, Wildcard) /\ Alternatives[Wildcard] = AltBody(Alternatives, Wildcard)
    BY WildcardFacts, WithinDef, AlternativesDef
<1>2. Children(Wildcard) = {}
    BY DEF Children, Wildcard, HasParts
<1>3. Within[Wildcard] = {Wildcard}
    BY <1>1, <1>2 DEF WithinBody
<1>4. Alternatives[Wildcard] = <<Wildcard>>
    BY <1>1 DEF AltBody, Wildcard
<1>5. ~(Len(<<Wildcard>>) > 1)
    OBVIOUS
<1> QED BY <1>3, <1>4, <1>5 DEF Excluding

LEMMA TagsGrow ==
    ASSUME NEW S, NEW T, S \subseteq T \cup {Wildcard}
    PROVE  TagsIn(S) \subseteq TagsIn(T) /\ AppendedIn(S) \subseteq AppendedIn(T)
<1>1. Wildcard.p = "wild"
    BY DEF Wildcard
<1>2. TagsIn(S) \subseteq TagsIn(T)
    BY <1>1 DEF TagsIn
<1> DEFINE E(U) == {o \in U : o.p \in {"or", "alias"}}
<1>3. E(S) \subseteq E(T)
    BY <1>1
<1>4. UNION {Children(o) : o \in E(S)} \subseteq UNION {Children(o) : o \in E(T)}
    BY <1>3
<1>5. \A X, Y : X \subseteq Y => TagsIn(X) \subseteq TagsIn(Y)
    BY DEF TagsIn
<1> QED BY <1>2, <1>4, <1>5 DEF AppendedIn

\* Two rows from one row are from alternatives that do not exclude each other.
NoneExcluded(rows, K) ==
    \A x, y \in K : x # y /\ x[1] = y[1] => ~Excluding(Alternatives[rows[x[1]][1]])

LEMMA TidyPicked ==
    ASSUME NEW M, NEW rows \in RowSeqs, NEW t, HeadsOfType(rows, t), Tidy(M, rows),
           NEW K, K \subseteq HeadPlaces(rows), NEW N, NEW o, NEW u, IsPicked(o, K, N, u),
           \A x \in K : InRow(N[x]) \subseteq InRow(rows[x[1]]) \cup {Wildcard},
           NoneExcluded(rows, K)
    PROVE  Tidy(M, u)
<1> DEFINE From(m) == o[m][1]
           Was(m) == InRow(rows[From(m)])
           Is(m) == InRow(u[m])
<1>1. ASSUME NEW m \in 1..Len(u)
      PROVE  From(m) \in 1..Len(rows) /\ Is(m) \subseteq Was(m) \cup {Wildcard}
    <2>1. o[m] \in K /\ u[m] = N[o[m]]
        BY DEF IsPicked
    <2>2. o[m] \in HeadPlaces(rows)
        BY <2>1
    <2> QED BY <2>1, <2>2 DEF HeadPlaces
<1>2. ASSUME NEW m \in 1..Len(u)
      PROVE  TagsIn(Is(m)) \subseteq TagsIn(Was(m)) /\ AppendedIn(Is(m)) \subseteq AppendedIn(Was(m))
    BY <1>1, TagsGrow
<1>3. ASSUME NEW i \in 1..Len(rows)
      PROVE  AppendedIn(InRow(rows[i])) \subseteq M /\ rows[i][1] \in InRow(rows[i])
    BY RowFacts, InRowHead DEF Tidy
<1>4. ASSUME NEW m \in 1..Len(u)
      PROVE  AppendedIn(Is(m)) \subseteq M
    BY <1>1, <1>2, <1>3
<1>5. ASSUME NEW m \in 1..Len(u), NEW n \in 1..Len(u), m # n
      PROVE  TagsIn(Is(m)) \cap TagsIn(Is(n)) \cap M = {}
    <2>1. o[m] \in K /\ o[n] \in K /\ o[m] # o[n]
        BY <1>5 DEF IsPicked
    <2>2. CASE From(m) # From(n)
        <3>1. TagsIn(Was(m)) \cap TagsIn(Was(n)) \cap M = {}
            BY <1>1, <2>2 DEF Tidy
        <3> QED BY <1>2, <3>1
    <2>3. CASE From(m) = From(n)
        <3>1. ~Excluding(Alternatives[rows[From(m)][1]])
            BY <2>1, <2>3 DEF NoneExcluded
        <3>2. From(m) \in 1..Len(rows) /\ rows[From(m)][1] \in Was(m)
            BY <1>1, <1>3
        <3>3. TagsIn(Was(m)) \cap M = {}
            BY <3>1, <3>2 DEF Tidy
        <3> QED BY <1>2, <3>3
    <2> QED BY <2>2, <2>3
<1>6. ASSUME NEW m \in 1..Len(u), TagsIn(Is(m)) \cap M # {}, NEW q \in Is(m)
      PROVE  Excluding(Alternatives[q])
    <2>1. TagsIn(Was(m)) \cap M # {}
        BY <1>2, <1>6
    <2>2. \A p \in Was(m) : Excluding(Alternatives[p])
        BY <1>1, <2>1 DEF Tidy
    <2>3. q \in Was(m) \/ q = Wildcard
        BY <1>1, <1>6
    <2> QED BY <2>2, <2>3, WildcardWithin
<1> HIDE DEF From, Was
<1> QED BY <1>4, <1>5, <1>6 DEF Tidy

LEMMA InRowConcat ==
    ASSUME NEW s \in Seq(Pats), NEW u \in Seq(Pats)
    PROVE  InRow(s \o u) = InRow(s) \cup InRow(u)
<1>1. \A r \in Seq(Pats) : InRow(r) = UNION {Within[x] : x \in Elements(r)}
    BY DEF InRow, Elements
<1>2. s \o u \in Seq(Pats) /\ Elements(s \o u) = Elements(s) \cup Elements(u)
    BY ConcatProperties, ConcatRange
<1> DEFINE W(X) == UNION {Within[x] : x \in X}
<1>3. \A X, Y : W(X \cup Y) = W(X) \cup W(Y)
    OBVIOUS
<1>4. InRow(s \o u) = W(Elements(s \o u)) /\ InRow(s) = W(Elements(s)) /\ InRow(u) = W(Elements(u))
    BY <1>1, <1>2
<1> HIDE DEF W
<1> QED BY <1>2, <1>3, <1>4

LEMMA TidyUnder ==
    ASSUME NEW F, NEW ts, NEW ds, Columns(ts, ds), NEW rows, AreRows(F, rows, ts, ds),
           NEW c \in NeatPats(F), IsCtor(c), ts[1] \in TypesOf[c], NEW M, Tidy(M, rows)
    PROVE  Tidy(M, Specialize(rows, c))
<1> DEFINE K == KeptPlaces(rows, c)
           N == NewRows(rows, c)
           u == Specialize(rows, c)
<1>1. rows \in RowSeqs /\ HeadsOfType(rows, ts[1])
    BY RowsHeads
<1>2. PICK o : IsPicked(o, K, N, u)
    BY <1>1, Specialized
<1>3. K \subseteq HeadPlaces(rows)
    BY DEF KeptPlaces
<1>4. ASSUME NEW x \in K
      PROVE  InRow(N[x]) \subseteq InRow(rows[x[1]]) \cup {Wildcard}
    <2> DEFINE h == HeadAt(rows, x)
               row == rows[x[1]]
               a == Under(h, c)
    <2>1. x \in HeadPlaces(rows) /\ Kept(h, c) /\ N[x] = a \o Tail(row)
        BY DEF KeptPlaces, NewRows
    <2>2. Plain(h) /\ h \in Pats /\ ts[1] \in TypesOf[h] /\ h \in Within[row[1]] /\ x[1] \in 1..Len(rows)
        BY <1>1, <2>1, PlaceFacts
    <2>3. row \in Seq(Pats) /\ row # <<>> /\ Tail(row) \in Seq(Pats) /\ row[1] \in NeatPats(F) /\ row[1] \in Pats
        BY <1>1, <2>2, RowFacts, RowsHeads
    <2>4. h \in NeatPats(F)
        BY <2>2, <2>3, NeatFacts
    <2>5. Alike(h, c)
        BY <2>2, <2>4, NeatAlike
    <2>6. /\ a \in Seq(Pats) /\ Len(a) = Arity(c)
          /\ \A i \in 1..Arity(c) : a[i] = Wildcard \/ a[i] \in Children(h)
        BY <2>1, <2>2, <2>5, UnderFacts
    <2>7. InRow(N[x]) = InRow(a) \cup InRow(Tail(row))
        BY <2>1, <2>3, <2>6, InRowConcat
    <2>8. Within[h] \subseteq InRow(row) /\ InRow(Tail(row)) \subseteq InRow(row)
        BY <2>2, <2>3, InRowHead, WithinTransitive
    <2>9. ASSUME NEW i \in 1..Len(a)
          PROVE  Within[a[i]] \subseteq InRow(row) \cup {Wildcard}
        <3>1. CASE a[i] = Wildcard
            BY <3>1, WildcardWithin
        <3>2. CASE a[i] \in Children(h)
            BY <2>2, <2>8, <3>2, WithinFacts
        <3> QED BY <2>6, <3>1, <3>2
    <2> HIDE DEF a, N
    <2>10. InRow(a) \subseteq InRow(row) \cup {Wildcard}
        BY <2>9 DEF InRow
    <2> QED BY <2>7, <2>8, <2>10
<1>5. NoneExcluded(rows, K)
    <2> SUFFICES ASSUME NEW x \in K, NEW y \in K, x # y, x[1] = y[1]
                 PROVE  ~Excluding(Alternatives[rows[x[1]][1]])
        BY DEF NoneExcluded
    <2> DEFINE alts == Alternatives[rows[x[1]][1]]
               i == x[2]
               j == y[2]
    <2>1. /\ x \in HeadPlaces(rows) /\ Kept(alts[i], c)
          /\ y \in HeadPlaces(rows) /\ Kept(alts[j], c)
        BY DEF KeptPlaces, HeadAt
    <2>2. /\ x = <<x[1], x[2]>> /\ i \in 1..Len(alts) /\ x[1] \in 1..Len(rows)
          /\ y = <<y[1], y[2]>> /\ j \in 1..Len(alts)
        BY <1>1, <2>1, PlaceFacts
    <2>3. alts \in Seq(Pats) /\ DOMAIN alts = 1..Len(alts) /\ Len(alts) \in Nat
        BY <1>1, <2>2, RowFacts
    <2>4. i # j
        BY <2>2
    <2>5. Len(alts) > 1
        BY <2>2, <2>3, <2>4
    <2> HIDE DEF alts, i, j
    <2> QED BY <2>1, <2>2, <2>3, <2>4, <2>5 DEF Excluding, Kept, alts
<1> HIDE DEF K, N, u
<1>6. Tidy(M, u)
    BY <1>1, <1>2, <1>3, <1>4, <1>5, TidyPicked
<1> QED BY <1>6 DEF u

LEMMA TidyDefault ==
    ASSUME NEW rows \in RowSeqs, NEW t, HeadsOfType(rows, t), NEW M, Tidy(M, rows)
    PROVE  Tidy(M, DefaultMatrix(rows))
<1> DEFINE K == WildPlaces(rows)
           N == Rests(rows)
           u == DefaultMatrix(rows)
<1>2. PICK o : IsPicked(o, K, N, u)
    BY Defaulted
<1>3. K \subseteq HeadPlaces(rows)
    BY DEF WildPlaces
<1>4. ASSUME NEW x \in K
      PROVE  InRow(N[x]) \subseteq InRow(rows[x[1]]) \cup {Wildcard}
    <2>1. x \in HeadPlaces(rows) /\ N[x] = Tail(rows[x[1]])
        BY DEF WildPlaces, Rests
    <2>2. x[1] \in 1..Len(rows)
        BY <2>1, PlaceFacts
    <2>3. rows[x[1]] \in Seq(Pats) /\ rows[x[1]] # <<>>
        BY <2>2, RowFacts
    <2> QED BY <2>1, <2>3, InRowHead
<1>5. NoneExcluded(rows, K)
    <2> SUFFICES ASSUME NEW x \in K, NEW y \in K, x # y, x[1] = y[1]
                 PROVE  ~Excluding(Alternatives[rows[x[1]][1]])
        BY DEF NoneExcluded
    <2> DEFINE alts == Alternatives[rows[x[1]][1]]
               i == x[2]
               j == y[2]
    <2>1. x \in HeadPlaces(rows) /\ IsWild(alts[i]) /\ y \in HeadPlaces(rows)
        BY DEF WildPlaces, HeadAt
    <2>2. /\ x = <<x[1], x[2]>> /\ i \in 1..Len(alts) /\ x[1] \in 1..Len(rows)
          /\ y = <<y[1], y[2]>> /\ j \in 1..Len(alts)
        BY <2>1, PlaceFacts
    <2>3. alts \in Seq(Pats) /\ DOMAIN alts = 1..Len(alts) /\ Len(alts) \in Nat
        BY <2>2, RowFacts
    <2>4. i # j
        BY <2>2
    <2>5. Len(alts) > 1
        BY <2>2, <2>3, <2>4
    <2> HIDE DEF alts, i, j
    <2> QED BY <2>1, <2>2, <2>3, <2>4, <2>5 DEF Excluding, alts
<1> HIDE DEF K, N, u
<1>6. Tidy(M, u)
    BY <1>2, <1>3, <1>4, <1>5, TidyPicked
<1> QED BY <1>6 DEF u

-----------------------------------------------------------------------------
(* A typed pattern is matched by some value. *)

LEMMA Inhabited ==
    ASSUME NEW F, NEW pat \in NeatPats(F), NEW t \in TypesOf[pat]
    PROVE  \E v \in Inhabitants[t] : Matches(pat, v)
<1> DEFINE S == {p \in Pats : p \in NeatPats(F) => \A s \in TypesOf[p] : \E v \in Inhabitants[s] : Matches(p, v)}
<1>1. ASSUME NEW p \in Pats, \A y \in Pats : Size[y] < Size[p] => y \in S
      PROVE  p \in S
    <2> SUFFICES ASSUME p \in NeatPats(F), NEW s \in TypesOf[p]
                 PROVE  \E v \in Inhabitants[s] : Matches(p, v)
        OBVIOUS
    <2>1. ASSUME NEW y \in Children(p), NEW u \in TypesOf[y]
          PROVE  \E v \in Inhabitants[u] : Matches(y, v)
        <3>1. y \in Pats /\ Size[y] < Size[p] /\ y \in NeatPats(F)
            BY ChildrenSmaller, NeatFacts
        <3>2. y \in S
            BY <1>1, <3>1
        <3> QED BY <3>1, <3>2
    <2> HIDE DEF S
    <2>2. s \in TypeNames /\ TypesOf[p] = TypesBody(TypesOf, p) /\ p.p \in PatKinds
        BY TypesOfDef, PatternParts
    <2>3. \A v \in Inhabitants[s] : v \in AllValues /\ Matches(p, v) = MatchBody(Matching, p, v)
        BY <2>2, TypeFacts, MatchesDef
    <2>4. CASE IsWild(p)
        <3>1. PICK v \in Inhabitants[s] : TRUE
            BY <2>2, TypeFacts
        <3> QED BY <2>3, <2>4, <3>1 DEF MatchBody
    <2>5. CASE p.p = "or"
        <3>1. p.l \in Children(p) /\ s \in TypesOf[p.l]
            BY <2>2, <2>5 DEF TypesBody, Children, HasParts, IsWild
        <3>2. PICK v \in Inhabitants[s] : Matches(p.l, v)
            BY <2>1, <3>1
        <3>3. Matching[<<p.l, v>>]
            BY <3>2 DEF Matches
        <3> QED BY <2>3, <2>5, <3>3 DEF MatchBody
    <2>6. CASE p.p = "alias"
        <3>1. p.q \in Children(p) /\ s \in TypesOf[p.q]
            BY <2>2, <2>6 DEF TypesBody, Children, HasParts, IsWild
        <3>2. PICK v \in Inhabitants[s] : Matches(p.q, v)
            BY <2>1, <3>1
        <3>3. Matching[<<p.q, v>>]
            BY <3>2 DEF Matches
        <3> QED BY <2>3, <2>6, <3>3 DEF MatchBody
    <2>7. CASE IsCtor(p)
        <3> DEFINE n == Arity(p)
                   ts == PartTypes(p, s)
                   as == Args(p)
        <3>1. /\ n \in Nat /\ as \in Seq(Pats) /\ Len(as) = n /\ ts \in Seq(TypeNames) /\ Len(ts) = n
              /\ \A i \in 1..n : ts[i] \in TypesOf[as[i]] /\ as[i] \in Pats /\ ts[i] \in TypeNames
            BY <2>7, CtorFacts
        <3>2. Plain(p) /\ ~IsWild(p) /\ Alike(p, p) /\ Kept(p, p) /\ Under(p, p) = as
            BY <2>7 DEF Plain, IsWild, Alike, Kept, Under, IsCtor
        <3> HIDE DEF ts
        <3>3. ASSUME NEW i \in 1..n
              PROVE  \E v \in Inhabitants[ts[i]] : Matches(as[i], v)
            <4>1. as[i] \in Children(p)
                BY <2>7, <3>1, <3>3 DEF IsCtor, Args, Arity, Children, HasParts
            <4> QED BY <2>1, <3>1, <4>1
        <3> HIDE DEF n, as
        <3> DEFINE us == [i \in 1..n |-> CHOOSE v \in Inhabitants[ts[i]] : Matches(as[i], v)]
        <3>4. ASSUME NEW i \in 1..n
              PROVE  us[i] \in Inhabitants[ts[i]] /\ Matches(as[i], us[i]) /\ us[i] \in AllValues
            <4>1. us[i] \in Inhabitants[ts[i]] /\ Matches(as[i], us[i])
                BY <3>3
            <4> QED BY <3>1, <4>1, TypeFacts
        <3>5. us \in Seq(AllValues) /\ Len(us) = n
            <4>1. us \in [1..n -> AllValues]
                BY <3>4
            <4> HIDE DEF us
            <4> QED BY <3>1, <4>1
        <3> HIDE DEF us
        <3>6. Pairwise(ValueOf, us, ts) /\ Pairwise(Fits, as, us)
            BY <3>1, <3>4, <3>5 DEF Pairwise, ValueOf, Fits
        <3>7. p.p = "struct" => IsInjective(p.fields)
            BY NeatFacts
        <3>8. PICK v \in Inhabitants[s] : v.tag = p.tag /\ \A i \in 1..n : PartsFor(p, v)[i] = us[i]
            BY <2>7, <3>6, <3>7, Build DEF ts, n
        <3>9. PartsFor(p, v) = us
            <4>1. PartsFor(p, v) \in Seq(AllValues) /\ Len(PartsFor(p, v)) = n
                BY <2>7, <3>8, PartsOfValue DEF n
            <4> QED BY <3>5, <3>8, <4>1, SeqEqual
        <3>10. Matches(p, v) <=> Kept(p, p) /\ Pairwise(Fits, Under(p, p), PartsFor(p, v))
            BY <2>7, <3>2, <3>8, HeadMatches
        <3> QED BY <3>2, <3>6, <3>8, <3>9, <3>10
    <2> QED BY <2>2, <2>4, <2>5, <2>6, <2>7 DEF PatKinds, IsWild, IsCtor
<1>2. Pats \subseteq S
    <2> HIDE DEF S
    <2> QED BY <1>1, SizeType, RankInduction
<1> QED BY <1>2, NeatFacts

LEMMA LiveAlone ==
    ASSUME NEW F, NEW ts \in Seq(TypeNames), NEW q \in Seq(NeatPats(F)), Pairwise(OfType, q, ts)
    PROVE  Live(<<>>, q, ts)
<1> DEFINE n == Len(q)
           vs == [i \in 1..n |-> CHOOSE v \in Inhabitants[ts[i]] : Matches(q[i], v)]
<1>1. n \in Nat /\ Len(ts) = n /\ \A i \in 1..n : q[i] \in NeatPats(F) /\ ts[i] \in TypesOf[q[i]] /\ ts[i] \in TypeNames
    <2>1. n \in Nat /\ Len(ts) = n /\ \A i \in 1..n : <<q[i], ts[i]>> \in OfType
        BY DEF Pairwise
    <2>2. \A i \in 1..n : q[i] \in NeatPats(F) /\ ts[i] \in TypeNames
        BY <2>1
    <2>3. \A i \in 1..n : ts[i] \in TypesOf[q[i]]
        BY <2>1 DEF OfType
    <2> QED BY <2>1, <2>2, <2>3
<1> HIDE DEF n
<1>2. ASSUME NEW i \in 1..n
      PROVE  vs[i] \in Inhabitants[ts[i]] /\ Matches(q[i], vs[i]) /\ vs[i] \in AllValues /\ q[i] \in Pats
    <2>1. \E v \in Inhabitants[ts[i]] : Matches(q[i], v)
        BY <1>1, Inhabited
    <2>2. vs[i] \in Inhabitants[ts[i]] /\ Matches(q[i], vs[i])
        BY <2>1
    <2> QED BY <1>1, <2>2, TypeFacts, NeatFacts
<1>3. vs \in Seq(AllValues) /\ Len(vs) = n
    <2>1. vs \in [1..n -> AllValues]
        BY <1>2
    <2> HIDE DEF vs
    <2> QED BY <1>1, <2>1
<1> HIDE DEF vs
<1>4. Pairwise(ValueOf, vs, ts) /\ Pairwise(Fits, q, vs)
    BY <1>1, <1>2, <1>3 DEF Pairwise, ValueOf, Fits, n
<1>5. ~Covered(<<>>, vs)
    BY EmptySeq DEF Covered
<1> QED BY <1>3, <1>4, <1>5 DEF Live, Vectors

-----------------------------------------------------------------------------
(* What is_useful does with the head of its vector is right if its calls are. *)

LEMMA FitsCons ==
    ASSUME NEW ts \in Seq(TypeNames), ts # <<>>, NEW vs \in Vectors(ts), NEW p \in Pats, NEW rest \in Seq(Pats)
    PROVE  Pairwise(Fits, <<p>> \o rest, vs) <=> Matches(p, vs[1]) /\ Pairwise(Fits, rest, Tail(vs))
<1> DEFINE q == <<p>> \o rest
<1>1. q \in Seq(Pats) /\ q # <<>> /\ q[1] = p /\ Tail(q) = rest
    BY ConsFacts
<1>2. vs \in Seq(AllValues) /\ vs # <<>> /\ vs[1] \in AllValues
    BY VectorFacts
<1> HIDE DEF q
<1>3. Pairwise(Fits, q, vs) <=> <<q[1], vs[1]>> \in Fits /\ Pairwise(Fits, Tail(q), Tail(vs))
    BY <1>1, <1>2, PairwiseHead
<1>4. <<p, vs[1]>> \in Fits <=> Matches(p, vs[1])
    BY <1>2 DEF Fits
<1> QED BY <1>1, <1>3, <1>4 DEF q

\* There is a vector left, and its first value has this tag.
LiveWith(rows, q, ts, tag) ==
    \E vs \in Vectors(ts) : vs[1].tag = tag /\ Pairwise(Fits, q, vs) /\ ~Covered(rows, vs)

LEMMA LiveUnder ==
    ASSUME NEW F, NEW ts, NEW ds, Columns(ts, ds), NEW rows, AreRows(F, rows, ts, ds),
           NEW c \in NeatPats(F), IsCtor(c), ts[1] \in TypesOf[c],
           NEW p \in NeatPats(F), Plain(p), ts[1] \in TypesOf[p], Kept(p, c), NEW rest \in Seq(Pats)
    PROVE  Live(Specialize(rows, c), Under(p, c) \o rest, PartTypes(c, ts[1]) \o Tail(ts))
             <=> LiveWith(rows, <<p>> \o rest, ts, c.tag)
<1> DEFINE u == Specialize(rows, c)
           q == <<p>> \o rest
           x == Under(p, c) \o rest
           us == PartTypes(c, ts[1]) \o Tail(ts)
<1>0. ts \in Seq(TypeNames) /\ ts # <<>> /\ p \in Pats
    BY NeatFacts DEF Columns
<1>1. Alike(p, c)
    BY NeatAlike
<1>2. c.p = "struct" => IsInjective(c.fields)
    BY NeatFacts
<1>3. ASSUME NEW vs \in Vectors(ts), vs[1].tag = c.tag
      PROVE  /\ Opened(c, vs) \in Vectors(us)
             /\ Pairwise(Fits, q, vs) <=> Pairwise(Fits, x, Opened(c, vs))
             /\ Covered(u, Opened(c, vs)) <=> Covered(rows, vs)
    <2>1. Opened(c, vs) \in Vectors(us)
        BY <1>0, <1>3, OpenedType
    <2>2. Pairwise(Fits, q, vs) <=> Matches(p, vs[1]) /\ Pairwise(Fits, rest, Tail(vs))
        BY <1>0, FitsCons
    <2>3. Matches(p, vs[1]) /\ Pairwise(Fits, rest, Tail(vs)) <=> Kept(p, c) /\ Pairwise(Fits, x, Opened(c, vs))
        BY <1>0, <1>1, <1>3, HeadUnder
    <2>4. Covered(u, Opened(c, vs)) <=> Covered(rows, vs)
        BY <1>3, CoveredUnder
    <2> QED BY <2>1, <2>2, <2>3, <2>4
<1>4. ASSUME NEW xs \in Vectors(us)
      PROVE  \E vs \in Vectors(ts) : vs[1].tag = c.tag /\ Opened(c, vs) = xs
    <2>1. xs \in Vectors(PartTypes(c, ts[1]) \o Tail(ts))
        OBVIOUS
    <2> HIDE DEF us
    <2> QED BY <1>0, <1>2, <2>1, Closed
<1> HIDE DEF u, q, x, us
<1>5. ASSUME Live(u, x, us)
      PROVE  LiveWith(rows, q, ts, c.tag)
    <2>1. PICK xs \in Vectors(us) : Pairwise(Fits, x, xs) /\ ~Covered(u, xs)
        BY <1>5 DEF Live
    <2>2. PICK vs \in Vectors(ts) : vs[1].tag = c.tag /\ Opened(c, vs) = xs
        BY <1>4
    <2> QED BY <1>3, <2>1, <2>2 DEF LiveWith
<1>6. ASSUME LiveWith(rows, q, ts, c.tag)
      PROVE  Live(u, x, us)
    <2>1. PICK vs \in Vectors(ts) : vs[1].tag = c.tag /\ Pairwise(Fits, q, vs) /\ ~Covered(rows, vs)
        BY <1>6 DEF LiveWith
    <2> QED BY <1>3, <2>1 DEF Live
<1> QED BY <1>5, <1>6 DEF u, q, x, us

NoStruct == {pat \in Pats : \A x \in Within[pat] : x.p # "struct"}

LEMMA NoStructFacts ==
    ASSUME NEW pat \in NoStruct
    PROVE  /\ pat \in Pats /\ pat.p # "struct"
           /\ \A F : pat \in NeatPats(F)
           /\ \A x \in Children(pat) : x \in NoStruct
<1>1. pat \in Pats /\ \A x \in Within[pat] : x.p # "struct"
    BY DEF NoStruct
<1>2. ASSUME NEW x \in Children(pat)
      PROVE  x \in NoStruct
    BY <1>1, WithinFacts DEF NoStruct
<1>3. pat.p # "struct"
    BY <1>1, WithinFacts
<1> QED BY <1>1, <1>2, <1>3 DEF NeatPats

LEMMA WildcardNoStruct == Wildcard \in NoStruct
<1>1. Wildcard.p # "struct"
    BY DEF Wildcard
<1> QED BY <1>1, WildcardWithin, WildcardFacts DEF NoStruct

\* A call that is_useful makes for an arm without struct patterns.
Good(F, rows, q, ts, ds) ==
    /\ ts \in Seq(TypeNames) /\ ds \in Seq(Nat) /\ Len(ds) = Len(ts)
    /\ AreRows(F, rows, ts, ds) /\ q \in Seq(NoStruct) /\ IsRow(F, q, ts, ds)

\* Its answer is right: useful only if a value is left, and also if, provided
\* that every constructor is counted once.
Right(rows, q, ts) ==
    /\ IsUseful(rows, q) => Live(rows, q, ts)
    /\ \A M : Tidy(M, rows) /\ Live(rows, q, ts) => IsUseful(rows, q)

LEMMA GoodUnder ==
    ASSUME NEW F, NEW ts, NEW ds, Columns(ts, ds), NEW rows, NEW p, NEW rest \in Seq(NoStruct),
           Good(F, rows, <<p>> \o rest, ts, ds), p \in NoStruct, Plain(p),
           NEW c \in NeatPats(F), IsCtor(c), ts[1] \in TypesOf[c], Kept(p, c)
    PROVE  Good(F, Specialize(rows, c), Under(p, c) \o rest, PartTypes(c, ts[1]) \o Tail(ts),
                Bounds(Arity(c), Less(ds[1])) \o Tail(ds))
<1> DEFINE q == <<p>> \o rest
           n == Arity(c)
           a == Under(p, c)
           us == PartTypes(c, ts[1])
           bs == Bounds(n, Less(ds[1]))
<1>1. q \in Seq(NoStruct) /\ q # <<>> /\ q[1] = p /\ Tail(q) = rest
    BY ConsFacts
<1>2. /\ ts \in Seq(TypeNames) /\ ts # <<>> /\ ds \in Seq(Nat) /\ ds # <<>> /\ Len(ds) = Len(ts)
      /\ AreRows(F, rows, ts, ds) /\ IsRow(F, q, ts, ds)
    BY EmptySeq DEF Columns, Good
<1>3. p \in NeatPats(F) /\ p \in Pats
    BY NoStructFacts
<1> HIDE DEF q
<1>4. /\ q \in Seq(NeatPats(F))
      /\ <<q[1], ts[1]>> \in OfType /\ Pairwise(OfType, Tail(q), Tail(ts))
      /\ <<q[1], ds[1]>> \in AtMost /\ Pairwise(AtMost, Tail(q), Tail(ds))
    BY <1>1, <1>2, PairwiseHead DEF IsRow
<1>5. ts[1] \in TypesOf[p] /\ Size[p] <= ds[1]
    BY <1>1, <1>4 DEF OfType, AtMost
<1>6. Tail(q) \in Seq(NeatPats(F))
    BY <1>1, <1>4, HeadTail
<1>7. IsRow(F, rest, Tail(ts), Tail(ds))
    BY <1>1, <1>4, <1>6 DEF IsRow
<1>8. IsRow(F, a \o rest, us \o Tail(ts), bs \o Tail(ds))
    BY <1>3, <1>5, <1>7, RowUnder
<1>9. AreRows(F, Specialize(rows, c), us \o Tail(ts), bs \o Tail(ds))
    BY <1>2, RowsUnder
<1>10. us \in Seq(TypeNames) /\ Len(us) = n /\ n \in Nat
    BY CtorFacts
<1>11. ds[1] \in Nat /\ Tail(ds) \in Seq(Nat) /\ Tail(ts) \in Seq(TypeNames) /\ Len(Tail(ds)) = Len(Tail(ts))
    BY <1>2, HeadTail
<1>12. bs \in Seq(Nat) /\ Len(bs) = n
    BY <1>10, <1>11, BoundsFacts
<1>13. us \o Tail(ts) \in Seq(TypeNames) /\ bs \o Tail(ds) \in Seq(Nat) /\ Len(us \o Tail(ts)) = Len(bs \o Tail(ds))
    <2> DEFINE w == Tail(ts)
               e == Tail(ds)
    <2> HIDE DEF us, bs, w, e
    <2>1. us \o w \in Seq(TypeNames) /\ Len(us \o w) = Len(us) + Len(w)
        BY <1>10, <1>11, ConcatProperties DEF w
    <2>2. bs \o e \in Seq(Nat) /\ Len(bs \o e) = Len(bs) + Len(e)
        BY <1>11, <1>12, ConcatProperties DEF e
    <2> QED BY <1>10, <1>11, <1>12, <2>1, <2>2 DEF w, e
<1>14. a \in Seq(NoStruct)
    <2>1. Alike(p, c)
        BY <1>3, <1>5, NeatAlike
    <2>2. /\ a \in Seq(Pats) /\ Len(a) = n
          /\ \A i \in 1..n : a[i] = Wildcard \/ a[i] \in Children(p)
        BY <1>5, <2>1, UnderFacts
    <2>3. \A i \in 1..n : a[i] \in NoStruct
        BY <2>2, NoStructFacts, WildcardNoStruct
    <2> HIDE DEF a
    <2> QED BY <2>2, <2>3, LenProperties
<1>15. a \o rest \in Seq(NoStruct)
    BY <1>14, ConcatProperties
<1> QED BY <1>8, <1>9, <1>13, <1>15 DEF Good

\* A call with a row and a vector that starts with p.
IsCall(F, rows, p, rest, ts, ds) ==
    /\ Columns(ts, ds) /\ rows # <<>> /\ p \in NoStruct /\ rest \in Seq(NoStruct)
    /\ Good(F, rows, <<p>> \o rest, ts, ds)

LEMMA CallFacts ==
    ASSUME NEW F, NEW rows, NEW p, NEW rest, NEW ts, NEW ds, IsCall(F, rows, p, rest, ts, ds)
    PROVE  /\ p \in Pats /\ p \in NeatPats(F) /\ p.p # "struct" /\ p.p \in PatKinds
           /\ rest \in Seq(Pats) /\ <<p>> \o rest \in Seq(Pats)
           /\ rows \in RowSeqs /\ AreRows(F, rows, ts, ds) /\ HeadsOfType(rows, ts[1])
           /\ ts \in Seq(TypeNames) /\ ts # <<>> /\ ts[1] \in TypeNames /\ Tail(ts) \in Seq(TypeNames)
           /\ ds[1] \in Nat /\ ts[1] \in TypesOf[p] /\ Size[p] <= ds[1]
           /\ IsRow(F, rest, Tail(ts), Tail(ds))
           /\ IsUseful(rows, <<p>> \o rest) <=> \E y \in Subcalls(rows, p, rest) : UsefulCalls[y]
<1> DEFINE q == <<p>> \o rest
<1>1. q \in Seq(NoStruct) /\ q # <<>> /\ q[1] = p /\ Tail(q) = rest
    BY ConsFacts DEF IsCall
<1>2. p \in Pats /\ p \in NeatPats(F) /\ p.p # "struct" /\ p.p \in PatKinds
    <2>1. p \in NoStruct
        BY DEF IsCall
    <2> QED BY <2>1, NoStructFacts, PatternParts
<1>3. rest \in Seq(Pats)
    <2>1. rest \in Seq(NoStruct) /\ NoStruct \subseteq Pats
        BY DEF IsCall, NoStruct
    <2> QED BY <2>1
<1>4. q \in Seq(Pats)
    BY <1>2, <1>3, ConsFacts
<1>5. Columns(ts, ds) /\ AreRows(F, rows, ts, ds) /\ rows # <<>> /\ IsRow(F, q, ts, ds)
    BY DEF IsCall, Good
<1>6. rows \in RowSeqs /\ HeadsOfType(rows, ts[1])
    BY <1>5, RowsHeads
<1>7. /\ ts \in Seq(TypeNames) /\ ts # <<>> /\ ds \in Seq(Nat) /\ ds # <<>> /\ Len(ds) = Len(ts)
    BY <1>5, EmptySeq DEF Columns
<1>8. ts[1] \in TypeNames /\ Tail(ts) \in Seq(TypeNames) /\ ds[1] \in Nat
    BY <1>7, HeadTail
<1> HIDE DEF q
<1>9. /\ q \in Seq(NeatPats(F))
      /\ <<q[1], ts[1]>> \in OfType /\ Pairwise(OfType, Tail(q), Tail(ts))
      /\ <<q[1], ds[1]>> \in AtMost /\ Pairwise(AtMost, Tail(q), Tail(ds))
    BY <1>1, <1>5, <1>7, PairwiseHead DEF IsRow
<1>10. ts[1] \in TypesOf[p] /\ Size[p] <= ds[1]
    BY <1>1, <1>9 DEF OfType, AtMost
<1>11. Tail(q) \in Seq(NeatPats(F))
    BY <1>1, <1>9, HeadTail
<1>12. IsRow(F, rest, Tail(ts), Tail(ds))
    BY <1>1, <1>9, <1>11 DEF IsRow
<1>13. IsUseful(rows, q) <=> \E y \in Subcalls(rows, p, rest) : UsefulCalls[y]
    BY <1>1, <1>4, <1>5, <1>6, UsefulDef
<1> QED BY <1>2, <1>3, <1>4, <1>5, <1>6, <1>7, <1>8, <1>10, <1>12, <1>13 DEF q

LEMMA RightCtor ==
    ASSUME NEW F, NEW rows, NEW p, NEW rest, NEW ts, NEW ds, IsCall(F, rows, p, rest, ts, ds), IsCtor(p),
           Right(Specialize(rows, p), Args(p) \o rest, PartTypes(p, ts[1]) \o Tail(ts))
    PROVE  Right(rows, <<p>> \o rest, ts)
<1> DEFINE q == <<p>> \o rest
           u == Specialize(rows, p)
           x == Args(p) \o rest
           us == PartTypes(p, ts[1]) \o Tail(ts)
<1>0. /\ p \in Pats /\ p.p \in {"lit", "ctor", "tuple"} /\ p \in NeatPats(F) /\ rest \in Seq(Pats)
      /\ AreRows(F, rows, ts, ds) /\ ts \in Seq(TypeNames) /\ ts # <<>> /\ ts[1] \in TypesOf[p] /\ Columns(ts, ds)
      /\ IsUseful(rows, q) <=> \E y \in Subcalls(rows, p, rest) : UsefulCalls[y]
    BY CallFacts DEF IsCtor, IsCall
<1>1. IsUseful(rows, q) <=> IsUseful(u, x)
    <2>1. Subcalls(rows, p, rest) = {<<u, x>>}
        <3>1. CASE p.p = "lit"
            <4>1. x = rest
                BY <1>0, <3>1 DEF Args
            <4> QED BY <3>1, <4>1 DEF Subcalls
        <3>2. CASE p.p \in {"ctor", "tuple"}
            BY <3>2 DEF Subcalls, Args
        <3> QED BY <1>0, <3>1, <3>2
    <2> HIDE DEF q, u, x
    <2> QED BY <1>0, <2>1 DEF IsUseful
<1>2. Plain(p) /\ ~IsWild(p) /\ Kept(p, p) /\ Under(p, p) = Args(p)
    BY <1>0 DEF Plain, IsWild, Kept, Under
<1>3. Live(u, x, us) <=> LiveWith(rows, q, ts, p.tag)
    <2>1. Live(u, Under(p, p) \o rest, us) <=> LiveWith(rows, q, ts, p.tag)
        BY <1>0, <1>2, LiveUnder
    <2> QED BY <1>2, <2>1
<1>4. LiveWith(rows, q, ts, p.tag) <=> Live(rows, q, ts)
    <2>1. ASSUME NEW vs \in Vectors(ts), Pairwise(Fits, q, vs)
          PROVE  vs[1].tag = p.tag
        <3>1. Matches(p, vs[1]) /\ vs[1] \in AllValues
            BY <1>0, <2>1, FitsCons, VectorFacts
        <3>2. MatchBody(Matching, p, vs[1])
            BY <1>0, <3>1, MatchesDef
        <3> QED BY <1>0, <3>2 DEF MatchBody, IsWild
    <2> HIDE DEF q
    <2> QED BY <2>1 DEF LiveWith, Live
<1>5. ASSUME NEW M, Tidy(M, rows)
      PROVE  Tidy(M, u)
    BY <1>0, <1>5, TidyUnder
<1> HIDE DEF q, u, x, us
<1>6. Right(u, x, us)
    BY DEF u, x, us
<1>7. Right(rows, q, ts)
    BY <1>1, <1>3, <1>4, <1>5, <1>6 DEF Right
<1> QED BY <1>7 DEF q

\* A constructor that is collected, under a wildcard.
LEMMA Collectible ==
    ASSUME NEW F, NEW rows, NEW p, NEW rest, NEW ts, NEW ds, IsCall(F, rows, p, rest, ts, ds), IsWild(p),
           NEW i \in 1..Len(Constructors(rows))
    PROVE  LET c == Constructors(rows)[i]
           IN  /\ c \in NeatPats(F) /\ IsCtor(c) /\ ts[1] \in TypesOf[c] /\ Size[c] <= ds[1]
               /\ Plain(p) /\ Kept(p, c) /\ Under(p, c) = Wildcards(Arity(c))
<1> DEFINE c == Constructors(rows)[i]
<1>1. rows \in RowSeqs /\ HeadsOfType(rows, ts[1]) /\ ts[1] \in TypeNames /\ p \in Pats /\ ds[1] \in Nat
      /\ Columns(ts, ds) /\ AreRows(F, rows, ts, ds)
    BY CallFacts DEF IsCall
<1>2. IsCtor(c) /\ ts[1] \in TypesOf[c] /\ \E x \in HeadPlaces(rows) : c = HeadAt(rows, x)
    BY <1>1, CollectedFacts
<1>3. PICK x \in HeadPlaces(rows) : c = HeadAt(rows, x)
    BY <1>2
<1> DEFINE h == rows[x[1]][1]
<1> HIDE DEF c
<1>4. x[1] \in 1..Len(rows) /\ c \in Alts(h) /\ c \in Within[h]
    BY <1>1, <1>3, PlaceFacts
<1>5. h \in NeatPats(F) /\ Size[h] <= ds[1]
    BY <1>1, <1>4, RowsHeads
<1> HIDE DEF h
<1>6. c \in NeatPats(F) /\ h \in Pats /\ c \in Pats
    BY <1>4, <1>5, NeatFacts
<1>7. Size[c] <= ds[1]
    <2>1. Size[c] <= Size[h]
        BY <1>4, <1>6, SizeOfAlternative
    <2> QED BY <1>1, <1>5, <1>6, <2>1, SizeType
<1>8. Plain(p) /\ Kept(p, c) /\ Under(p, c) = Wildcards(Arity(c))
    BY <1>1 DEF Plain, Kept, Under, IsWild
<1> QED BY <1>2, <1>6, <1>7, <1>8 DEF c

LEMMA RightCovered ==
    ASSUME NEW F, NEW rows, NEW p, NEW rest, NEW ts, NEW ds, IsCall(F, rows, p, rest, ts, ds), IsWild(p),
           AllCovered(Constructors(rows)),
           \A i \in 1..Len(Constructors(rows)) :
                LET c == Constructors(rows)[i]
                IN  Right(Specialize(rows, c), Wildcards(Arity(c)) \o rest, PartTypes(c, ts[1]) \o Tail(ts))
    PROVE  Right(rows, <<p>> \o rest, ts)
<1> DEFINE q == <<p>> \o rest
           ctors == Constructors(rows)
           c(i) == ctors[i]
           u(i) == Specialize(rows, c(i))
           x(i) == Wildcards(Arity(c(i))) \o rest
           us(i) == PartTypes(c(i), ts[1]) \o Tail(ts)
<1>0. /\ p \in Pats /\ p \in NeatPats(F) /\ rest \in Seq(Pats)
      /\ rows \in RowSeqs /\ AreRows(F, rows, ts, ds) /\ Columns(ts, ds) /\ HeadsOfType(rows, ts[1])
      /\ ts \in Seq(TypeNames) /\ ts # <<>> /\ ts[1] \in TypesOf[p] /\ ts[1] \in TypeNames
      /\ IsUseful(rows, q) <=> \E y \in Subcalls(rows, p, rest) : UsefulCalls[y]
    BY CallFacts DEF IsCall
<1>1. DOMAIN ctors = 1..Len(ctors)
    BY <1>0, CollectedFacts
<1>2. IsUseful(rows, q) <=> \E i \in 1..Len(ctors) : IsUseful(u(i), x(i))
    <2>1. Subcalls(rows, p, rest) = {<<u(i), x(i)>> : i \in DOMAIN ctors}
        BY DEF Subcalls, IsWild
    <2> HIDE DEF q, u, x, c, ctors
    <2> QED BY <1>0, <1>1, <2>1 DEF IsUseful
<1>3. ASSUME NEW i \in 1..Len(ctors)
      PROVE  /\ Live(u(i), x(i), us(i)) <=> LiveWith(rows, q, ts, c(i).tag)
             /\ \A M : Tidy(M, rows) => Tidy(M, u(i))
    <2>1. /\ c(i) \in NeatPats(F) /\ IsCtor(c(i)) /\ ts[1] \in TypesOf[c(i)]
          /\ Plain(p) /\ Kept(p, c(i)) /\ Under(p, c(i)) = Wildcards(Arity(c(i)))
        BY Collectible
    <2>2. Live(u(i), Under(p, c(i)) \o rest, us(i)) <=> LiveWith(rows, q, ts, c(i).tag)
        <3> HIDE DEF c
        <3> QED BY <1>0, <2>1, LiveUnder
    <2>3. ASSUME NEW M, Tidy(M, rows)
          PROVE  Tidy(M, u(i))
        <3> HIDE DEF c
        <3> QED BY <1>0, <2>1, <2>3, TidyUnder
    <2> QED BY <2>1, <2>2, <2>3
<1>4. ASSUME NEW i \in 1..Len(ctors)
      PROVE  Right(u(i), x(i), us(i))
    OBVIOUS
<1>5. ASSUME NEW M, Tidy(M, rows), NEW tag \in Tags(ts[1])
      PROVE  \E i \in 1..Len(ctors) : c(i).tag = tag
    BY <1>0, <1>5, AllAreThere
<1>6. ASSUME NEW vs \in Vectors(ts)
      PROVE  vs[1].tag \in Tags(ts[1])
    BY <1>0, VectorFacts, TypeFacts
<1> HIDE DEF q, ctors, c, u, x, us
<1>7. ASSUME IsUseful(rows, q)
      PROVE  Live(rows, q, ts)
    <2>1. PICK i \in 1..Len(ctors) : IsUseful(u(i), x(i))
        BY <1>2, <1>7
    <2>2. LiveWith(rows, q, ts, c(i).tag)
        BY <1>3, <1>4, <2>1 DEF Right
    <2> QED BY <2>2 DEF Live, LiveWith
<1>8. ASSUME NEW M, Tidy(M, rows), Live(rows, q, ts)
      PROVE  IsUseful(rows, q)
    <2>1. PICK vs \in Vectors(ts) : Pairwise(Fits, q, vs) /\ ~Covered(rows, vs)
        BY <1>8 DEF Live
    <2>2. PICK i \in 1..Len(ctors) : c(i).tag = vs[1].tag
        BY <1>5, <1>6, <1>8
    <2>3. LiveWith(rows, q, ts, c(i).tag)
        BY <2>1, <2>2 DEF LiveWith
    <2>4. IsUseful(u(i), x(i))
        BY <1>3, <1>4, <1>8, <2>3 DEF Right
    <2> QED BY <1>2, <2>4
<1>9. Right(rows, q, ts)
    BY <1>7, <1>8 DEF Right
<1> QED BY <1>9 DEF q

LEMMA RightDefault ==
    ASSUME NEW F, NEW rows, NEW p, NEW rest, NEW ts, NEW ds, IsCall(F, rows, p, rest, ts, ds), IsWild(p),
           ~AllCovered(Constructors(rows)), Right(DefaultMatrix(rows), rest, Tail(ts))
    PROVE  Right(rows, <<p>> \o rest, ts)
<1> DEFINE q == <<p>> \o rest
           ctors == Constructors(rows)
           u == DefaultMatrix(rows)
           us == Tail(ts)
<1>0. /\ p \in Pats /\ rest \in Seq(Pats)
      /\ rows \in RowSeqs /\ AreRows(F, rows, ts, ds) /\ Columns(ts, ds) /\ HeadsOfType(rows, ts[1])
      /\ ts \in Seq(TypeNames) /\ ts # <<>> /\ ts[1] \in TypeNames /\ us \in Seq(TypeNames)
      /\ IsUseful(rows, q) <=> \E y \in Subcalls(rows, p, rest) : UsefulCalls[y]
    BY CallFacts DEF IsCall
<1>1. IsUseful(rows, q) <=> IsUseful(u, rest)
    <2>1. Subcalls(rows, p, rest) = {<<u, rest>>}
        BY DEF Subcalls, IsWild
    <2> HIDE DEF q, u
    <2> QED BY <1>0, <2>1 DEF IsUseful
<1>2. ASSUME NEW vs \in Vectors(ts)
      PROVE  /\ Tail(vs) \in Vectors(us) /\ vs[1] \in AllValues
             /\ Pairwise(Fits, q, vs) <=> Pairwise(Fits, rest, Tail(vs))
             /\ Covered(u, Tail(vs)) => Covered(rows, vs)
    <2>1. Tail(vs) \in Vectors(us) /\ vs[1] \in AllValues
        BY <1>0, VectorFacts
    <2>2. Pairwise(Fits, q, vs) <=> Matches(p, vs[1]) /\ Pairwise(Fits, rest, Tail(vs))
        BY <1>0, FitsCons
    <2>3. Matches(p, vs[1])
        BY <1>0, <2>1, MatchesDef DEF MatchBody
    <2>4. Covered(u, Tail(vs)) => Covered(rows, vs)
        BY <1>0, CoveredDefault
    <2> QED BY <2>1, <2>2, <2>3, <2>4
<1>3. PICK tag \in Tags(ts[1]) : \A i \in 1..Len(ctors) : ctors[i].tag # tag
    BY <1>0, OneIsMissing
<1>4. ASSUME NEW x \in HeadPlaces(rows)
      PROVE  IsWild(HeadAt(rows, x)) \/ HeadAt(rows, x).tag # tag
    <2> SUFFICES ASSUME ~IsWild(HeadAt(rows, x))
                 PROVE  HeadAt(rows, x).tag # tag
        OBVIOUS
    <2>1. AreConstructors(rows, Len(rows), ctors)
        BY <1>0, Collected
    <2>2. x[1] <= Len(rows)
        <3>1. Len(rows) \in Nat /\ x[1] \in 1..Len(rows)
            BY <1>0, PlaceFacts DEF RowSeqs
        <3> QED BY <3>1
    <2>3. \E i \in 1..Len(ctors) : SameCtor(ctors[i], HeadAt(rows, x))
        BY <2>1, <2>2 DEF AreConstructors
    <2>4. PICK i \in 1..Len(ctors) : SameCtor(ctors[i], HeadAt(rows, x))
        BY <2>3
    <2> QED BY <1>3, <2>4, SameCtorFacts
<1>5. ASSUME NEW xs \in Vectors(us)
      PROVE  \E vs \in Vectors(ts) : Tail(vs) = xs /\ (Covered(rows, vs) => Covered(u, xs))
    <2>1. PICK v \in Inhabitants[ts[1]] : v.tag = tag
        BY <1>0, <1>3, ValueOfTag
    <2>2. v \in AllValues /\ xs \in Seq(AllValues) /\ Pairwise(ValueOf, xs, us)
        BY <1>0, <2>1, TypeFacts DEF Vectors
    <2> DEFINE vs == <<v>> \o xs
    <2>3. vs \in Seq(AllValues) /\ vs # <<>> /\ vs[1] = v /\ Tail(vs) = xs
        BY <2>2, ConsFacts
    <2> HIDE DEF vs
    <2>4. Pairwise(ValueOf, vs, ts)
        <3>1. Pairwise(ValueOf, vs, ts) <=> <<vs[1], ts[1]>> \in ValueOf /\ Pairwise(ValueOf, Tail(vs), Tail(ts))
            BY <1>0, <2>3, PairwiseHead
        <3>2. <<v, ts[1]>> \in ValueOf
            BY <1>0, <2>1, <2>2 DEF ValueOf
        <3> QED BY <2>2, <2>3, <3>1, <3>2
    <2>5. vs \in Vectors(ts)
        BY <2>3, <2>4 DEF Vectors
    <2>6. \A x \in HeadPlaces(rows) : IsWild(HeadAt(rows, x)) \/ HeadAt(rows, x).tag # vs[1].tag
        BY <1>4, <2>1, <2>3
    <2>7. Covered(rows, vs) => Covered(u, Tail(vs))
        BY <1>0, <2>5, <2>6, CoveredDefault
    <2> QED BY <2>3, <2>5, <2>7
<1>6. ASSUME NEW M, Tidy(M, rows)
      PROVE  Tidy(M, u)
    BY <1>0, <1>6, TidyDefault
<1> HIDE DEF q, ctors, u, us
<1>7. Right(u, rest, us)
    BY DEF u, us
<1>8. Live(rows, q, ts) <=> Live(u, rest, us)
    <2>1. ASSUME Live(rows, q, ts)
          PROVE  Live(u, rest, us)
        <3>1. PICK vs \in Vectors(ts) : Pairwise(Fits, q, vs) /\ ~Covered(rows, vs)
            BY <2>1 DEF Live
        <3> QED BY <1>2, <3>1 DEF Live
    <2>2. ASSUME Live(u, rest, us)
          PROVE  Live(rows, q, ts)
        <3>1. PICK xs \in Vectors(us) : Pairwise(Fits, rest, xs) /\ ~Covered(u, xs)
            BY <2>2 DEF Live
        <3>2. PICK vs \in Vectors(ts) : Tail(vs) = xs /\ (Covered(rows, vs) => Covered(u, xs))
            BY <1>5
        <3> QED BY <1>2, <3>1, <3>2 DEF Live
    <2> QED BY <2>1, <2>2
<1>9. Right(rows, q, ts)
    BY <1>1, <1>6, <1>7, <1>8 DEF Right
<1> QED BY <1>9 DEF q

\* Something that an `or` or an alias stands for.
IsFor(y, p) ==
    \/ p.p = "or" /\ (y = p.l \/ y = p.r)
    \/ p.p = "alias" /\ y = p.q

LEMMA ForFacts ==
    ASSUME NEW p \in Pats, p.p \in {"or", "alias"}
    PROVE  /\ \A y : IsFor(y, p) => y \in Pats /\ y \in Children(p) /\ Size[y] < Size[p] /\ TypesOf[p] \subseteq TypesOf[y]
           /\ \A v \in AllValues : Matches(p, v) <=> \E y \in Pats : IsFor(y, p) /\ Matches(y, v)
<1>1. \A y : IsFor(y, p) => y \in Children(p)
    BY DEF Children, HasParts, IsFor
<1>2. \A y \in Children(p) : Size[y] < Size[p]
    BY ChildrenSmaller
<1>3. \A y : IsFor(y, p) => TypesOf[p] \subseteq TypesOf[y]
    <2>1. TypesOf[p] = TypesBody(TypesOf, p)
        BY TypesOfDef
    <2> QED BY <2>1 DEF TypesBody, IsFor, IsWild, HasParts
<1>4. \A v \in AllValues : Matches(p, v) <=> \E y \in Pats : IsFor(y, p) /\ Matches(y, v)
    <2>1. \A v \in AllValues : Matches(p, v) = MatchBody(Matching, p, v)
        BY MatchesDef
    <2>2. \A y : IsFor(y, p) => y \in Pats
        BY PatternParts DEF IsFor
    <2> QED BY <2>1, <2>2 DEF MatchBody, Matches, IsFor, IsWild, HasParts
<1>5. \A y : IsFor(y, p) => y \in Pats
    BY PatternParts DEF IsFor
<1> QED BY <1>1, <1>2, <1>3, <1>4, <1>5

LEMMA RightFor ==
    ASSUME NEW F, NEW rows, NEW p, NEW rest, NEW ts, NEW ds, IsCall(F, rows, p, rest, ts, ds),
           p.p \in {"or", "alias"},
           \A y : IsFor(y, p) => Right(rows, <<y>> \o rest, ts)
    PROVE  Right(rows, <<p>> \o rest, ts)
<1> DEFINE q(y) == <<y>> \o rest
<1>0. /\ p \in Pats /\ rest \in Seq(Pats) /\ ts \in Seq(TypeNames) /\ ts # <<>>
      /\ IsUseful(rows, q(p)) <=> \E y \in Subcalls(rows, p, rest) : UsefulCalls[y]
    BY CallFacts
<1>1. IsUseful(rows, q(p)) <=> \E y \in Pats : IsFor(y, p) /\ IsUseful(rows, q(y))
    <2>1. Subcalls(rows, p, rest) = {<<rows, q(y)>> : y \in {y \in Pats : IsFor(y, p)}}
        <3>1. CASE p.p = "or"
            <4>1. {y \in Pats : IsFor(y, p)} = {p.l, p.r}
                BY <1>0, <3>1, PatternParts DEF IsFor
            <4>2. Subcalls(rows, p, rest) = {<<rows, q(p.l)>>, <<rows, q(p.r)>>}
                BY <3>1 DEF Subcalls
            <4> HIDE DEF q
            <4> QED BY <4>1, <4>2
        <3>2. CASE p.p = "alias"
            <4>1. {y \in Pats : IsFor(y, p)} = {p.q}
                BY <1>0, <3>2, PatternParts DEF IsFor
            <4>2. Subcalls(rows, p, rest) = {<<rows, q(p.q)>>}
                BY <3>2 DEF Subcalls
            <4> HIDE DEF q
            <4> QED BY <4>1, <4>2
        <3> QED BY <3>1, <3>2
    <2> HIDE DEF q
    <2> QED BY <1>0, <2>1 DEF IsUseful
<1>2. ASSUME NEW vs \in Vectors(ts)
      PROVE  Pairwise(Fits, q(p), vs) <=> \E y \in Pats : IsFor(y, p) /\ Pairwise(Fits, q(y), vs)
    <2>1. vs[1] \in AllValues
        BY <1>0, VectorFacts
    <2>2. \A y \in Pats : Pairwise(Fits, q(y), vs) <=> Matches(y, vs[1]) /\ Pairwise(Fits, rest, Tail(vs))
        BY <1>0, FitsCons
    <2>3. Matches(p, vs[1]) <=> \E y \in Pats : IsFor(y, p) /\ Matches(y, vs[1])
        BY <1>0, <2>1, ForFacts
    <2> HIDE DEF q
    <2> QED BY <1>0, <2>2, <2>3
<1>3. \A y \in Pats : IsFor(y, p) => Right(rows, q(y), ts)
    OBVIOUS
<1> HIDE DEF q
<1>4. Live(rows, q(p), ts) <=> \E y \in Pats : IsFor(y, p) /\ Live(rows, q(y), ts)
    BY <1>2 DEF Live
<1>5. Right(rows, q(p), ts)
    BY <1>1, <1>3, <1>4 DEF Right
<1> QED BY <1>5 DEF q

-----------------------------------------------------------------------------
(* is_useful is right about every vector, by induction on how large the      *)
(* patterns of each column can be.                                           *)

RightUpTo(ds) == \A F, rows, q, ts : Good(F, rows, q, ts, ds) => Right(rows, q, ts)

LEMMA RightEmpty ==
    ASSUME NEW F, NEW q, NEW ts, NEW ds, Good(F, <<>>, q, ts, ds)
    PROVE  Right(<<>>, q, ts)
<1>1. q \in Seq(NoStruct) /\ NoStruct \subseteq Pats
    BY DEF Good, NoStruct
<1>2. q \in Seq(Pats)
    BY <1>1
<1>3. <<>> \in RowSeqs
    BY DEF RowSeqs
<1>4. IsUseful(<<>>, q)
    BY <1>2, <1>3, UsefulDef
<1>5. Live(<<>>, q, ts)
    BY LiveAlone DEF Good, IsRow
<1> QED BY <1>4, <1>5 DEF Right

LEMMA RightBase == RightUpTo(<<>>)
<1> SUFFICES ASSUME NEW F, NEW rows, NEW q, NEW ts, Good(F, rows, q, ts, <<>>)
             PROVE  Right(rows, q, ts)
    BY DEF RightUpTo
<1>1. /\ ts \in Seq(TypeNames) /\ Len(ts) = 0 /\ rows \in RowSeqs /\ q \in Seq(NoStruct) /\ NoStruct \subseteq Pats
      /\ \A i \in 1..Len(rows) : Pairwise(OfType, rows[i], ts)
      /\ Pairwise(OfType, q, ts)
    BY EmptySeq DEF Good, AreRows, IsRow, NoStruct
<1>2. q = <<>> /\ q \in Seq(Pats)
    <2>1. Len(q) = 0
        BY <1>1 DEF Pairwise
    <2> QED BY <1>1, <2>1, EmptySeq
<1>3. CASE rows = <<>>
    BY <1>3, RightEmpty
<1>4. CASE rows # <<>>
    <2>1. ~IsUseful(rows, q)
        BY <1>1, <1>2, <1>4, UsefulDef
    <2>2. 1 \in 1..Len(rows)
        BY <1>1, <1>4, EmptySeq, LenProperties DEF RowSeqs
    <2>3. ASSUME NEW vs \in Vectors(ts)
          PROVE  Covered(rows, vs)
        <3>1. Len(vs) = 0 /\ Len(rows[1]) = 0
            BY <1>1, <2>2 DEF Vectors, Pairwise
        <3>2. Pairwise(Fits, rows[1], vs)
            BY <3>1 DEF Pairwise
        <3> QED BY <2>2, <3>2 DEF Covered
    <2> QED BY <2>1, <2>3 DEF Right, Live
<1> QED BY <1>3, <1>4

LEMMA GoodFor ==
    ASSUME NEW F, NEW rows, NEW p, NEW rest, NEW ts, NEW ds, IsCall(F, rows, p, rest, ts, ds),
           p.p \in {"or", "alias"}, NEW y, IsFor(y, p)
    PROVE  y \in NoStruct /\ Size[y] < Size[p] /\ Good(F, rows, <<y>> \o rest, ts, ds)
<1>1. /\ p \in NoStruct /\ rest \in Seq(NoStruct) /\ Columns(ts, ds) /\ AreRows(F, rows, ts, ds)
      /\ p \in Pats /\ IsRow(F, rest, Tail(ts), Tail(ds)) /\ ts[1] \in TypesOf[p] /\ Size[p] <= ds[1]
      /\ ts[1] \in TypeNames
    BY CallFacts DEF IsCall
<1>2. y \in Pats /\ y \in Children(p) /\ Size[y] < Size[p] /\ ts[1] \in TypesOf[y]
    BY <1>1, ForFacts
<1>3. y \in NoStruct /\ y \in NeatPats(F)
    BY <1>1, <1>2, NoStructFacts
<1> DEFINE q == <<y>> \o rest
<1>4. q \in Seq(NoStruct)
    BY <1>1, <1>3, ConsFacts
<1>5. q \in Seq(NeatPats(F)) /\ q # <<>> /\ q[1] = y /\ Tail(q) = rest
    BY <1>1, <1>3, ConsFacts DEF IsRow
<1>6. ts \in Seq(TypeNames) /\ ts # <<>> /\ ds \in Seq(Nat) /\ ds # <<>> /\ Len(ds) = Len(ts) /\ ds[1] \in Nat
    <2>1. ts \in Seq(TypeNames) /\ ts # <<>> /\ ds \in Seq(Nat) /\ Len(ds) = Len(ts)
        BY <1>1 DEF Columns
    <2>2. ds # <<>>
        BY <2>1, EmptySeq
    <2> QED BY <2>1, <2>2, HeadTail
<1>7. <<y, ts[1]>> \in OfType /\ <<y, ds[1]>> \in AtMost
    BY <1>1, <1>2, <1>6, SizeType DEF OfType, AtMost
<1> HIDE DEF q
<1>8. Pairwise(OfType, q, ts)
    <2>1. Pairwise(OfType, q, ts) <=> <<q[1], ts[1]>> \in OfType /\ Pairwise(OfType, Tail(q), Tail(ts))
        BY <1>5, <1>6, PairwiseHead
    <2> QED BY <1>1, <1>5, <1>7, <2>1 DEF IsRow
<1>9. Pairwise(AtMost, q, ds)
    <2>1. Pairwise(AtMost, q, ds) <=> <<q[1], ds[1]>> \in AtMost /\ Pairwise(AtMost, Tail(q), Tail(ds))
        BY <1>5, <1>6, PairwiseHead
    <2> QED BY <1>1, <1>5, <1>7, <2>1 DEF IsRow
<1> QED BY <1>1, <1>2, <1>3, <1>4, <1>5, <1>6, <1>8, <1>9 DEF Good, IsRow, q

\* One column of patterns no larger than d in front of columns es.
LEMMA RightHead ==
    ASSUME NEW d \in Nat, NEW es \in Seq(Nat), RightUpTo(es),
           \A a \in Nat : (d = 0 => a = 0) => RightUpTo(Bounds(a, Less(d)) \o es),
           NEW F, NEW rows, NEW p, NEW rest, NEW ts, IsCall(F, rows, p, rest, ts, <<d>> \o es),
           \A y : IsFor(y, p) => Right(rows, <<y>> \o rest, ts)
    PROVE  Right(rows, <<p>> \o rest, ts)
<1> DEFINE ds == <<d>> \o es
<1>1. ds \in Seq(Nat) /\ ds # <<>> /\ ds[1] = d /\ Tail(ds) = es
    BY ConsFacts
<1> HIDE DEF ds
<1>2. IsCall(F, rows, p, rest, ts, ds)
    BY DEF ds
<1>3. /\ Columns(ts, ds) /\ p \in NoStruct /\ rest \in Seq(NoStruct) /\ Good(F, rows, <<p>> \o rest, ts, ds)
      /\ AreRows(F, rows, ts, ds) /\ p \in NeatPats(F) /\ p \in Pats /\ p.p \in PatKinds
      /\ ts[1] \in TypesOf[p] /\ Size[p] <= ds[1] /\ IsRow(F, rest, Tail(ts), Tail(ds))
      /\ ts[1] \in TypeNames /\ Tail(ts) \in Seq(TypeNames) /\ ts # <<>> /\ ts \in Seq(TypeNames)
      /\ rows \in RowSeqs /\ HeadsOfType(rows, ts[1]) /\ p.p # "struct"
    BY <1>2, CallFacts DEF IsCall
<1>4. ASSUME NEW c \in NeatPats(F), IsCtor(c), ts[1] \in TypesOf[c], Size[c] <= d, Plain(p), Kept(p, c)
      PROVE  Right(Specialize(rows, c), Under(p, c) \o rest, PartTypes(c, ts[1]) \o Tail(ts))
    <2> DEFINE u == Specialize(rows, c)
               x == Under(p, c) \o rest
               us == PartTypes(c, ts[1]) \o Tail(ts)
               bs == Bounds(Arity(c), Less(d)) \o es
    <2>1. Good(F, u, x, us, bs)
        BY <1>1, <1>3, <1>4, GoodUnder
    <2>2. Arity(c) \in Nat /\ c \in Pats /\ Size[c] \in Nat
        BY <1>4, CtorFacts, SizeType
    <2>3. d = 0 => Arity(c) = 0
        <3>1. d = 0 => Size[c] = 0
            BY <1>4, <2>2
        <3> QED BY <1>4, <3>1, SmallArity
    <2>4. RightUpTo(bs)
        BY <2>2, <2>3
    <2> HIDE DEF u, x, us, bs
    <2>5. Right(u, x, us)
        BY <2>1, <2>4 DEF RightUpTo
    <2> QED BY <2>5 DEF u, x, us
<1>5. CASE IsCtor(p)
    <2>1. Plain(p) /\ Kept(p, p) /\ Under(p, p) = Args(p)
        BY <1>5 DEF Plain, Kept, Under, IsCtor, IsWild
    <2>2. Right(Specialize(rows, p), Under(p, p) \o rest, PartTypes(p, ts[1]) \o Tail(ts))
        BY <1>1, <1>3, <1>4, <1>5, <2>1
    <2>3. Right(Specialize(rows, p), Args(p) \o rest, PartTypes(p, ts[1]) \o Tail(ts))
        BY <2>1, <2>2
    <2> QED BY <1>2, <1>5, <2>3, RightCtor
<1>6. CASE IsWild(p) /\ AllCovered(Constructors(rows))
    <2>1. ASSUME NEW i \in 1..Len(Constructors(rows))
          PROVE  LET c == Constructors(rows)[i]
                 IN  Right(Specialize(rows, c), Wildcards(Arity(c)) \o rest, PartTypes(c, ts[1]) \o Tail(ts))
        <3> DEFINE c == Constructors(rows)[i]
        <3>1. /\ c \in NeatPats(F) /\ IsCtor(c) /\ ts[1] \in TypesOf[c] /\ Size[c] <= ds[1]
              /\ Plain(p) /\ Kept(p, c) /\ Under(p, c) = Wildcards(Arity(c))
            BY <1>2, <1>6, Collectible
        <3> HIDE DEF c
        <3>2. Right(Specialize(rows, c), Under(p, c) \o rest, PartTypes(c, ts[1]) \o Tail(ts))
            BY <1>1, <1>4, <3>1
        <3>3. Right(Specialize(rows, c), Wildcards(Arity(c)) \o rest, PartTypes(c, ts[1]) \o Tail(ts))
            BY <3>1, <3>2
        <3> QED BY <3>3 DEF c
    <2> QED BY <1>2, <1>6, <2>1, RightCovered
<1>7. CASE IsWild(p) /\ ~AllCovered(Constructors(rows))
    <2>1. AreRows(F, DefaultMatrix(rows), Tail(ts), es)
        BY <1>1, <1>3, DefaultedRows
    <2>2. Len(es) = Len(Tail(ts))
        BY <1>1, <1>3, HeadTail DEF Columns
    <2>3. Good(F, DefaultMatrix(rows), rest, Tail(ts), es)
        BY <1>1, <1>3, <2>1, <2>2 DEF Good
    <2>4. Right(DefaultMatrix(rows), rest, Tail(ts))
        BY <2>3 DEF RightUpTo
    <2> QED BY <1>2, <1>7, <2>4, RightDefault
<1>8. CASE p.p \in {"or", "alias"}
    BY <1>2, <1>8, RightFor
<1> QED BY <1>3, <1>5, <1>6, <1>7, <1>8 DEF PatKinds, IsWild, IsCtor

LEMMA RightStep ==
    ASSUME NEW d \in Nat, NEW es \in Seq(Nat), RightUpTo(es),
           \A a \in Nat : (d = 0 => a = 0) => RightUpTo(Bounds(a, Less(d)) \o es)
    PROVE  RightUpTo(<<d>> \o es)
<1> DEFINE ds == <<d>> \o es
<1> SUFFICES ASSUME NEW F, NEW rows, NEW q, NEW ts, Good(F, rows, q, ts, ds)
             PROVE  Right(rows, q, ts)
    BY DEF RightUpTo
<1>1. CASE rows = <<>>
    BY <1>1, RightEmpty
<1>2. CASE rows # <<>>
    <2>1. ds \in Seq(Nat) /\ ds # <<>>
        BY ConsFacts
    <2>2. Columns(ts, ds) /\ q \in Seq(NoStruct) /\ q # <<>>
        <3> HIDE DEF ds
        <3>1. /\ ts \in Seq(TypeNames) /\ Len(ds) = Len(ts) /\ q \in Seq(NoStruct) /\ Len(q) = Len(ts)
            BY DEF Good, IsRow, Pairwise
        <3> QED BY <2>1, <3>1, EmptySeq DEF Columns
    <2> DEFINE rest == Tail(q)
               S == {p \in Pats : p \in NoStruct /\ Good(F, rows, <<p>> \o rest, ts, ds) => Right(rows, <<p>> \o rest, ts)}
    <2>3. q[1] \in NoStruct /\ rest \in Seq(NoStruct) /\ q = <<q[1]>> \o rest
        BY <2>2, HeadTail
    <2> HIDE DEF rest, ds
    <2>4. ASSUME NEW p \in Pats, \A y \in Pats : Size[y] < Size[p] => y \in S
          PROVE  p \in S
        <3> SUFFICES ASSUME p \in NoStruct, Good(F, rows, <<p>> \o rest, ts, ds)
                     PROVE  Right(rows, <<p>> \o rest, ts)
            OBVIOUS
        <3>1. IsCall(F, rows, p, rest, ts, ds)
            BY <1>2, <2>2, <2>3 DEF IsCall
        <3>2. ASSUME NEW y, IsFor(y, p)
              PROVE  Right(rows, <<y>> \o rest, ts)
            <4>1. y \in NoStruct /\ Size[y] < Size[p] /\ Good(F, rows, <<y>> \o rest, ts, ds)
                BY <3>1, <3>2, GoodFor DEF IsFor
            <4>2. y \in S
                BY <2>4, <4>1, NoStructFacts
            <4> QED BY <4>1, <4>2
        <3> HIDE DEF S
        <3> QED BY <3>1, <3>2, RightHead DEF ds
    <2>5. Pats \subseteq S
        <3> HIDE DEF S
        <3> QED BY <2>4, SizeType, RankInduction
    <2>6. q[1] \in S
        BY <2>3, <2>5, NoStructFacts
    <2> QED BY <2>3, <2>6
<1> QED BY <1>1, <1>2

LEMMA RightMany ==
    ASSUME NEW d \in Nat, \A es \in Seq(Nat) : RightUpTo(es) => RightUpTo(<<d>> \o es)
    PROVE  \A a \in Nat, es \in Seq(Nat) : RightUpTo(es) => RightUpTo(Bounds(a, d) \o es)
<1> DEFINE S == {a \in Nat : \A es \in Seq(Nat) : RightUpTo(es) => RightUpTo(Bounds(a, d) \o es)}
           R == [a \in Nat |-> a]
<1>1. ASSUME NEW a \in Nat, \A b \in Nat : R[b] < R[a] => b \in S
      PROVE  a \in S
    <2> SUFFICES ASSUME NEW es \in Seq(Nat), RightUpTo(es)
                 PROVE  RightUpTo(Bounds(a, d) \o es)
        OBVIOUS
    <2>1. CASE a = 0
        <3>1. Bounds(a, d) \in Seq(Nat) /\ Len(Bounds(a, d)) = 0
            BY <2>1, BoundsFacts
        <3>2. Bounds(a, d) = <<>>
            BY <3>1, EmptySeq
        <3> QED BY <3>2
    <2>2. CASE a # 0
        <3> DEFINE b == a - 1
                   x == Bounds(b, d) \o es
                   y == Bounds(a, d) \o es
        <3>1. b \in Nat /\ b \in S /\ a = b + 1
            BY <1>1, <2>2
        <3>2. RightUpTo(x)
            BY <3>1
        <3>3. /\ Bounds(b, d) \in Seq(Nat) /\ Len(Bounds(b, d)) = b /\ \A i \in 1..b : Bounds(b, d)[i] = d
              /\ Bounds(a, d) \in Seq(Nat) /\ Len(Bounds(a, d)) = a /\ \A i \in 1..a : Bounds(a, d)[i] = d
            BY <3>1, BoundsFacts
        <3>4. x \in Seq(Nat)
            BY <3>3, ConcatProperties
        <3> DEFINE z == <<d>> \o Bounds(b, d)
        <3>5. z \in Seq(Nat) /\ Len(z) = b + 1 /\ z[1] = d /\ Tail(z) = Bounds(b, d) /\ z # <<>>
            BY <3>3, ConsFacts
        <3>6. z = Bounds(a, d)
            <4> HIDE DEF z
            <4>1. Len(z) = a /\ a \in Nat
                BY <3>1, <3>5
            <4>2. ASSUME NEW i \in 1..a
                  PROVE  z[i] = Bounds(a, d)[i]
                <5>1. CASE i = 1
                    BY <3>3, <3>5, <4>2, <5>1
                <5>2. CASE i # 1
                    <6>1. i - 1 \in 1..(Len(z) - 1) /\ i - 1 \in 1..b /\ (i - 1) + 1 = i
                        BY <3>1, <3>5, <4>2, <5>2
                    <6>2. Tail(z)[i - 1] = z[(i - 1) + 1]
                        BY <3>5, <6>1, HeadTailProperties
                    <6> QED BY <3>3, <3>5, <4>2, <6>1, <6>2
                <5> QED BY <5>1, <5>2
            <4> QED BY <3>3, <3>5, <4>1, <4>2, SeqEqual
        <3>7. y = <<d>> \o x
            <4> DEFINE w == Bounds(b, d)
            <4> HIDE DEF w
            <4>1. w \in Seq(Nat) /\ <<d>> \in Seq(Nat)
                BY <3>3 DEF w
            <4>2. (<<d>> \o w) \o es = <<d>> \o (w \o es)
                BY <4>1, ConcatAssociative
            <4> QED BY <3>6, <4>2 DEF w
        <3>8. RightUpTo(<<d>> \o x)
            BY <3>2, <3>4
        <3> QED BY <3>7, <3>8
    <2> QED BY <2>1, <2>2
<1>2. Nat \subseteq S
    <2> HIDE DEF S
    <2>1. R \in [Nat -> Nat]
        OBVIOUS
    <2> HIDE DEF R
    <2> QED BY <1>1, <2>1, RankInduction
<1> QED BY <1>2

LEMMA RightColumn ==
    \A d \in Nat : \A es \in Seq(Nat) : RightUpTo(es) => RightUpTo(<<d>> \o es)
<1> DEFINE S == {d \in Nat : \A es \in Seq(Nat) : RightUpTo(es) => RightUpTo(<<d>> \o es)}
           R == [d \in Nat |-> d]
<1>1. ASSUME NEW d \in Nat, \A e \in Nat : R[e] < R[d] => e \in S
      PROVE  d \in S
    <2> SUFFICES ASSUME NEW es \in Seq(Nat), RightUpTo(es)
                 PROVE  RightUpTo(<<d>> \o es)
        OBVIOUS
    <2>1. ASSUME NEW a \in Nat, d = 0 => a = 0
          PROVE  RightUpTo(Bounds(a, Less(d)) \o es)
        <3>1. CASE d = 0
            <4>1. Bounds(a, Less(d)) \in Seq(Nat) /\ Len(Bounds(a, Less(d))) = 0
                BY <2>1, <3>1, BoundsFacts
            <4>2. Bounds(a, Less(d)) = <<>>
                BY <4>1, EmptySeq
            <4> QED BY <4>2
        <3>2. CASE d # 0
            <4>1. Less(d) \in Nat /\ Less(d) \in S
                BY <1>1, <3>2 DEF Less
            <4>2. \A bs \in Seq(Nat) : RightUpTo(bs) => RightUpTo(<<Less(d)>> \o bs)
                BY <4>1
            <4> QED BY <4>1, <4>2, RightMany
        <3> QED BY <3>1, <3>2
    <2> QED BY <2>1, RightStep
<1>2. Nat \subseteq S
    <2> HIDE DEF S
    <2>1. R \in [Nat -> Nat]
        OBVIOUS
    <2> HIDE DEF R
    <2> QED BY <1>1, <2>1, RankInduction
<1> QED BY <1>2

\* Finitely many patterns have a size that none exceeds.
LEMMA SizesBounded ==
    ASSUME NEW n \in Nat, NEW f \in [1..n -> Pats], NEW p \in Pats
    PROVE  \E d \in Nat : Size[p] <= d /\ \A i \in 1..n : Size[f[i]] <= d
<1> DEFINE S == {k \in Nat : k <= n => \E d \in Nat : Size[p] <= d /\ \A i \in 1..k : Size[f[i]] <= d}
           R == [a \in Nat |-> a]
<1>1. ASSUME NEW k \in Nat, \A j \in Nat : R[j] < R[k] => j \in S
      PROVE  k \in S
    <2>0. \A i \in 1..n : Size[f[i]] \in Nat
        BY SizeType
    <2>1. CASE k = 0
        <3>1. Size[p] \in Nat
            BY SizeType
        <3> QED BY <2>1, <3>1
    <2>2. CASE k # 0 /\ k <= n
        <3> DEFINE j == k - 1
        <3>1. j \in Nat /\ j \in S /\ j <= n /\ k \in 1..n
            BY <1>1, <2>2
        <3>2. PICK d \in Nat : Size[p] <= d /\ \A i \in 1..j : Size[f[i]] <= d
            BY <3>1
        <3> DEFINE m == Size[f[k]]
                   e == IF m <= d THEN d ELSE m
        <3>3. m \in Nat /\ Size[p] \in Nat
            BY <2>0, <3>1, SizeType
        <3> HIDE DEF m
        <3>4. e \in Nat /\ d <= e /\ m <= e
            BY <3>3
        <3> HIDE DEF e
        <3>5. Size[p] <= e
            BY <3>2, <3>3, <3>4
        <3>6. \A i \in 1..k : Size[f[i]] <= e
            <4> SUFFICES ASSUME NEW i \in 1..k PROVE Size[f[i]] <= e
                OBVIOUS
            <4>1. CASE i = k
                BY <3>4, <4>1 DEF m
            <4>2. CASE i # k
                <5>1. i \in 1..j /\ i \in 1..n
                    BY <3>1, <4>2, <2>2
                <5>2. Size[f[i]] <= d /\ Size[f[i]] \in Nat
                    BY <2>0, <3>2, <5>1
                <5> QED BY <3>4, <5>2
            <4> QED BY <4>1, <4>2
        <3> QED BY <3>4, <3>5, <3>6
    <2> QED BY <2>1, <2>2
<1>2. Nat \subseteq S
    <2> HIDE DEF S
    <2>1. R \in [Nat -> Nat]
        OBVIOUS
    <2> HIDE DEF R
    <2> QED BY <1>1, <2>1, RankInduction
<1> QED BY <1>2

\* So is_useful is right about the arms of a match.
LEMMA UsefulIsRight ==
    ASSUME NEW F, NEW t \in TypeNames, NEW rows \in RowSeqs,
           \A i \in 1..Len(rows) : \E x \in NeatPats(F) : rows[i] = <<x>> /\ t \in TypesOf[x],
           NEW p \in NoStruct, t \in TypesOf[p]
    PROVE  Right(rows, <<p>>, <<t>>)
<1> DEFINE n == Len(rows)
           f == [i \in 1..n |-> rows[i][1]]
<1>1. n \in Nat /\ p \in Pats /\ p \in NeatPats(F)
    BY NoStructFacts DEF RowSeqs
<1>2. ASSUME NEW i \in 1..n
      PROVE  f[i] \in NeatPats(F) /\ f[i] \in Pats /\ rows[i] = <<f[i]>> /\ t \in TypesOf[f[i]]
    <2>1. PICK x \in NeatPats(F) : rows[i] = <<x>> /\ t \in TypesOf[x]
        OBVIOUS
    <2>2. f[i] = x
        BY <2>1
    <2> QED BY <2>1, <2>2, NeatFacts
<1> HIDE DEF f
<1>3. f \in [1..n -> Pats]
    <2>1. f = [i \in 1..n |-> f[i]]
        BY DEF f
    <2> QED BY <1>2, <2>1
<1>4. PICK d \in Nat : Size[p] <= d /\ \A i \in 1..n : Size[f[i]] <= d
    BY <1>1, <1>3, SizesBounded
<1> DEFINE ts == <<t>>
           ds == <<d>>
           q == <<p>>
<1>5. RightUpTo(ds)
    <2>1. <<>> \in Seq(Nat) /\ <<d>> \o <<>> = <<d>>
        OBVIOUS
    <2> QED BY <2>1, RightBase, RightColumn
<1>6. ASSUME NEW x \in NeatPats(F), t \in TypesOf[x], Size[x] <= d
      PROVE  IsRow(F, <<x>>, ts, ds)
    <2>1. x \in Pats
        BY <1>6, NeatFacts
    <2>2. <<x>> \in Seq(NeatPats(F)) /\ Len(<<x>>) = 1 /\ <<x>>[1] = x /\ Len(ts) = 1 /\ Len(ds) = 1 /\ ts[1] = t /\ ds[1] = d
        OBVIOUS
    <2>3. <<x, t>> \in OfType /\ <<x, d>> \in AtMost
        BY <1>6, <2>1 DEF OfType, AtMost
    <2> HIDE DEF ts, ds
    <2>4. Pairwise(OfType, <<x>>, ts) /\ Pairwise(AtMost, <<x>>, ds)
        BY <2>2, <2>3 DEF Pairwise
    <2> QED BY <2>2, <2>4 DEF IsRow
<1>7. IsRow(F, q, ts, ds)
    BY <1>1, <1>4, <1>6
<1>8. AreRows(F, rows, ts, ds)
    <2>1. ASSUME NEW i \in 1..n
          PROVE  IsRow(F, rows[i], ts, ds)
        <3> HIDE DEF ts, ds
        <3> QED BY <1>2, <1>4, <1>6, <2>1
    <2> QED BY <2>1 DEF AreRows
<1>9. ts \in Seq(TypeNames) /\ ds \in Seq(Nat) /\ Len(ds) = Len(ts) /\ q \in Seq(NoStruct)
    OBVIOUS
<1> HIDE DEF ts, ds, q
<1>10. Good(F, rows, q, ts, ds)
    BY <1>7, <1>8, <1>9 DEF Good
<1>11. Right(rows, q, ts)
    BY <1>5, <1>10 DEF RightUpTo
<1> QED BY <1>11 DEF q, ts

-----------------------------------------------------------------------------
(* The arms. *)

ArmsOf(t, as) == \E m \in MatchExprs : t = m[1] /\ as = m[2]

LEMMA ArmFacts ==
    ASSUME ArmsOf(ty, arms)
    PROVE  /\ ty \in TypeNames /\ arms \in Seq([pat : Pats, guard : BOOLEAN]) /\ Len(arms) \in Nat
           /\ DOMAIN arms = 1..Len(arms)
           /\ \A i \in 1..Len(arms) : arms[i].pat \in Pats /\ arms[i].guard \in BOOLEAN /\ ty \in TypesOf[arms[i].pat]
           /\ Values \subseteq AllValues
<1>1. ty \in TypeNames /\ arms \in Seq([pat : Pats, guard : BOOLEAN]) /\ \A i \in DOMAIN arms : ty \in TypesOf[arms[i].pat]
    BY MatchAssumption DEF ArmsOf
<1>2. Len(arms) \in Nat /\ DOMAIN arms = 1..Len(arms)
    BY <1>1
<1>3. \A i \in 1..Len(arms) : arms[i] \in [pat : Pats, guard : BOOLEAN]
    <2> DEFINE A == [pat : Pats, guard : BOOLEAN]
    <2> HIDE DEF A
    <2>1. arms \in Seq(A)
        BY <1>1 DEF A
    <2>2. \A i \in 1..Len(arms) : arms[i] \in A
        BY <2>1
    <2> QED BY <2>2 DEF A
<1>4. Values \subseteq AllValues
    BY <1>1, TypeFacts DEF Values
<1> QED BY <1>1, <1>2, <1>3, <1>4

FieldsOf(tag) == CHOOSE f : \E r \in InArm(1) : r.p = "struct" /\ r.tag = tag /\ f = r.fields
ArmFields == [tag \in {r.tag : r \in {r \in InArm(1) : r.p = "struct"}} |-> FieldsOf(tag)]

LEMMA ArmsAreNeat ==
    ASSUME ArmsOf(ty, arms), StructsFirst
    PROVE  \A i \in 1..Len(arms) : arms[i].pat \in NeatPats(ArmFields) /\ (i # 1 => arms[i].pat \in NoStruct)
<1>1. ASSUME NEW i \in 1..Len(arms), NEW x \in InArm(i), x.p = "struct"
      PROVE  i = 1 /\ IsInjective(x.fields) /\ x.fields = ArmFields[x.tag]
    <2>1. i \in DOMAIN arms
        BY ArmFacts
    <2>2. /\ i = 1 /\ IsInjective(x.fields)
          /\ \A r \in InArm(1) : r.p = "struct" /\ r.tag = x.tag => r.fields = x.fields
        BY <1>1, <2>1 DEF StructsFirst
    <2>3. x \in InArm(1)
        BY <2>2
    <2>4. \E f : \E r \in InArm(1) : r.p = "struct" /\ r.tag = x.tag /\ f = r.fields
        BY <1>1, <2>3
    <2>5. \E r \in InArm(1) : r.p = "struct" /\ r.tag = x.tag /\ FieldsOf(x.tag) = r.fields
        BY <2>4 DEF FieldsOf
    <2>6. FieldsOf(x.tag) = x.fields
        BY <2>2, <2>5
    <2>7. x.tag \in {r.tag : r \in {r \in InArm(1) : r.p = "struct"}}
        BY <1>1, <2>3
    <2> QED BY <2>2, <2>6, <2>7 DEF ArmFields
<1>2. \A i \in 1..Len(arms) : arms[i].pat \in Pats /\ InArm(i) = Within[arms[i].pat]
    BY ArmFacts DEF InArm
<1> QED BY <1>1, <1>2 DEF NeatPats, NoStruct

\* The rows are the patterns of the arms before arm k that have no guard, once each.
IsSource(s, rows, k) ==
    /\ \A r \in 1..Len(rows) :
        s[r] \in 1..(k - 1) /\ s[r] \in 1..Len(arms) /\ ~arms[s[r]].guard /\ rows[r] = <<arms[s[r]].pat>>
    /\ \A r, n \in 1..Len(rows) : r # n => s[r] # s[n]
    /\ \A j \in 1..(k - 1) : ~arms[j].guard => \E r \in 1..Len(rows) : s[r] = j

LEMMA InRowOne ==
    ASSUME NEW pat
    PROVE  InRow(<<pat>>) = Within[pat]
<1>1. Len(<<pat>>) = 1 /\ <<pat>>[1] = pat /\ 1..1 = {1}
    OBVIOUS
<1>2. \A j \in 1..Len(<<pat>>) : <<pat>>[j] = pat
    BY <1>1
<1> QED BY <1>1, <1>2 DEF InRow

AllAppended == UNION {Appended(i) : i \in DOMAIN arms}

LEMMA ArmsAreTidy ==
    ASSUME ArmsOf(ty, arms), CountedOnce, NEW rows, NEW k, NEW s, IsSource(s, rows, k)
    PROVE  Tidy(AllAppended, rows)
<1>1. ASSUME NEW r \in 1..Len(rows)
      PROVE  /\ s[r] \in DOMAIN arms /\ InRow(rows[r]) = InArm(s[r])
             /\ TagsIn(InRow(rows[r])) = Named(s[r]) /\ AppendedIn(InRow(rows[r])) = Appended(s[r])
    <2>1. s[r] \in DOMAIN arms /\ rows[r] = <<arms[s[r]].pat>>
        BY ArmFacts DEF IsSource
    <2>2. InRow(rows[r]) = InArm(s[r])
        BY <2>1, InRowOne DEF InArm
    <2> QED BY <2>1, <2>2 DEF TagsIn, Named, AppendedIn, Appended
<1>2. ASSUME NEW i \in DOMAIN arms, NEW tag \in Named(i) \cap AllAppended
      PROVE  tag \in Appended(i) /\ \A j \in DOMAIN arms : j # i => tag \notin Named(j)
    <2>1. PICK k1 \in DOMAIN arms : tag \in Appended(k1)
        BY <1>2 DEF AllAppended
    <2>2. \A j \in DOMAIN arms : j # k1 => Appended(k1) \cap Named(j) = {}
        BY <2>1 DEF CountedOnce
    <2>3. i = k1
        BY <1>2, <2>1, <2>2
    <2> QED BY <2>1, <2>2, <2>3
<1>3. ASSUME NEW r \in 1..Len(rows)
      PROVE  AppendedIn(InRow(rows[r])) \subseteq AllAppended
    BY <1>1 DEF AllAppended
<1>4. ASSUME NEW r \in 1..Len(rows), NEW n \in 1..Len(rows), r # n
      PROVE  TagsIn(InRow(rows[r])) \cap TagsIn(InRow(rows[n])) \cap AllAppended = {}
    <2>1. s[r] # s[n]
        BY <1>4 DEF IsSource
    <2> QED BY <1>1, <1>2, <2>1
<1>5. ASSUME NEW r \in 1..Len(rows), TagsIn(InRow(rows[r])) \cap AllAppended # {}, NEW q \in InRow(rows[r])
      PROVE  Excluding(Alternatives[q])
    <2>1. PICK tag : tag \in Named(s[r]) \cap AllAppended
        BY <1>1, <1>5
    <2>2. s[r] \in DOMAIN arms /\ q \in InArm(s[r])
        BY <1>1, <1>5
    <2>3. Appended(s[r]) # {}
        BY <1>2, <2>1, <2>2
    <2> QED BY <2>2, <2>3 DEF CountedOnce
<1> QED BY <1>3, <1>4, <1>5 DEF Tidy

\* What the rows cover is what the arms take.
LEMMA LiveIsLeft ==
    ASSUME ArmsOf(ty, arms), NEW rows, NEW k \in 1..(Len(arms) + 1), NEW s, IsSource(s, rows, k), NEW p \in Pats
    PROVE  Live(rows, <<p>>, <<ty>>) <=> \E v \in Values : Matches(p, v) /\ v \notin Taken(k)
<1>0. ty \in TypeNames /\ Values \subseteq AllValues /\ Values = Inhabitants[ty] /\ Len(arms) \in Nat
    BY ArmFacts DEF Values
<1>1. ASSUME NEW x \in Pats, NEW v \in AllValues
      PROVE  Pairwise(Fits, <<x>>, <<v>>) <=> Matches(x, v)
    <2>1. Len(<<x>>) = 1 /\ Len(<<v>>) = 1 /\ <<x>>[1] = x /\ <<v>>[1] = v
        OBVIOUS
    <2>2. Pairwise(Fits, <<x>>, <<v>>) <=> <<x, v>> \in Fits
        BY <2>1 DEF Pairwise
    <2> QED BY <2>2 DEF Fits
<1>2. ASSUME NEW v \in Values
      PROVE  Covered(rows, <<v>>) <=> v \in Taken(k)
    <2>1. ASSUME NEW j \in 1..(k - 1)
          PROVE  j \in 1..Len(arms) /\ arms[j].pat \in Pats
        <3>1. j \in 1..Len(arms)
            BY <1>0
        <3> QED BY <3>1, ArmFacts
    <2>2. ASSUME Covered(rows, <<v>>)
          PROVE  v \in Taken(k)
        <3>1. PICK r \in 1..Len(rows) : Pairwise(Fits, rows[r], <<v>>)
            BY <2>2 DEF Covered
        <3>2. s[r] \in 1..(k - 1) /\ ~arms[s[r]].guard /\ rows[r] = <<arms[s[r]].pat>>
            BY DEF IsSource
        <3>3. Matches(arms[s[r]].pat, v)
            BY <1>0, <1>1, <2>1, <3>1, <3>2
        <3> QED BY <3>2, <3>3 DEF Taken
    <2>3. ASSUME v \in Taken(k)
          PROVE  Covered(rows, <<v>>)
        <3>1. PICK j \in 1..(k - 1) : ~arms[j].guard /\ Matches(arms[j].pat, v)
            BY <2>3 DEF Taken
        <3>2. PICK r \in 1..Len(rows) : s[r] = j
            BY <3>1 DEF IsSource
        <3>3. rows[r] = <<arms[j].pat>>
            BY <3>2 DEF IsSource
        <3>4. Pairwise(Fits, rows[r], <<v>>)
            BY <1>0, <1>1, <2>1, <3>1, <3>3
        <3> QED BY <3>4 DEF Covered
    <2> QED BY <2>2, <2>3
<1>3. ASSUME NEW v \in Values
      PROVE  <<v>> \in Vectors(<<ty>>)
    <2>1. <<v>> \in Seq(AllValues) /\ Len(<<v>>) = 1 /\ Len(<<ty>>) = 1 /\ <<v>>[1] = v /\ <<ty>>[1] = ty
        BY <1>0
    <2>2. <<v, ty>> \in ValueOf
        BY <1>0 DEF ValueOf
    <2>3. Pairwise(ValueOf, <<v>>, <<ty>>)
        BY <2>1, <2>2 DEF Pairwise
    <2> QED BY <2>1, <2>3 DEF Vectors
<1>4. ASSUME NEW vs \in Vectors(<<ty>>)
      PROVE  \E v \in Values : vs = <<v>>
    <2>1. vs \in Seq(AllValues) /\ Pairwise(ValueOf, vs, <<ty>>)
        BY DEF Vectors
    <2>2. Len(<<ty>>) = 1 /\ <<ty>>[1] = ty
        OBVIOUS
    <2>3. Len(vs) = 1 /\ <<vs[1], ty>> \in ValueOf
        BY <2>1, <2>2 DEF Pairwise
    <2>4. vs = <<vs[1]>>
        BY <2>1, <2>3
    <2>5. vs[1] \in Values
        BY <1>0, <2>3 DEF ValueOf
    <2> QED BY <2>4, <2>5
<1>5. ASSUME Live(rows, <<p>>, <<ty>>)
      PROVE  \E v \in Values : Matches(p, v) /\ v \notin Taken(k)
    <2>1. PICK vs \in Vectors(<<ty>>) : Pairwise(Fits, <<p>>, vs) /\ ~Covered(rows, vs)
        BY <1>5 DEF Live
    <2>2. PICK v \in Values : vs = <<v>>
        BY <1>4
    <2> QED BY <1>0, <1>1, <1>2, <2>1, <2>2
<1>6. ASSUME NEW v \in Values, Matches(p, v), v \notin Taken(k)
      PROVE  Live(rows, <<p>>, <<ty>>)
    <2>1. Pairwise(Fits, <<p>>, <<v>>) /\ ~Covered(rows, <<v>>) /\ <<v>> \in Vectors(<<ty>>)
        BY <1>0, <1>1, <1>2, <1>3, <1>6
    <2> QED BY <2>1 DEF Live
<1> QED BY <1>5, <1>6

-----------------------------------------------------------------------------
(* The checks. *)

UTypeInv ==
    /\ ArmsOf(ty, arms)
    /\ idx \in 1..(Len(arms) + 1)
    /\ matrix \in RowSeqs
    /\ verdict \in {"none", "unreachable", "non_exhaustive", "ok"}

MatrixIsArms == \E s : IsSource(s, matrix, idx)

VerdictIsAnswer ==
    /\ verdict = "unreachable" => idx <= Len(arms) /\ ~IsUseful(matrix, <<arms[idx].pat>>)
    /\ verdict \in {"non_exhaustive", "ok"} =>
        idx = Len(arms) + 1 /\ (verdict = "non_exhaustive" <=> IsUseful(matrix, <<Wildcard>>))

ArmsAreLive == StructsFirst => \A i \in 1..(idx - 1) : ~(MatchedBy(i) \subseteq Taken(i))

UInv == UTypeInv /\ MatrixIsArms /\ VerdictIsAnswer /\ ArmsAreLive

\* What is_useful says of a pattern after the arms before idx.
LEMMA AnswerIsRight ==
    ASSUME UTypeInv, MatrixIsArms, StructsFirst, NEW p \in NeatPats(ArmFields), ty \in TypesOf[p],
           idx # 1 => p \in NoStruct
    PROVE  /\ IsUseful(matrix, <<p>>) => \E v \in Values : Matches(p, v) /\ v \notin Taken(idx)
           /\ CountedOnce /\ (\E v \in Values : Matches(p, v) /\ v \notin Taken(idx)) => IsUseful(matrix, <<p>>)
<1>1. PICK s : IsSource(s, matrix, idx)
    BY DEF MatrixIsArms
<1>2. /\ ArmsOf(ty, arms) /\ ty \in TypeNames /\ matrix \in RowSeqs /\ idx \in 1..(Len(arms) + 1) /\ p \in Pats
      /\ Len(arms) \in Nat
    BY ArmFacts, NeatFacts DEF UTypeInv
<1>3. Live(matrix, <<p>>, <<ty>>) <=> \E v \in Values : Matches(p, v) /\ v \notin Taken(idx)
    BY <1>1, <1>2, LiveIsLeft
<1>4. CountedOnce => Tidy(AllAppended, matrix)
    BY <1>1, <1>2, ArmsAreTidy
<1>5. Right(matrix, <<p>>, <<ty>>)
    <2>1. CASE idx = 1
        <3>1. matrix = <<>>
            <4>1. \A r \in 1..Len(matrix) : s[r] \in 1..(idx - 1)
                BY <1>1 DEF IsSource
            <4>2. 1..(idx - 1) = {}
                BY <2>1
            <4>3. \A r \in 1..Len(matrix) : FALSE
                BY <4>1, <4>2
            <4>4. Len(matrix) = 0
                <5>1. Len(matrix) \in Nat
                    BY <1>2 DEF RowSeqs
                <5> QED BY <4>3, <5>1
            <4> QED BY <1>2, <4>4, EmptySeq DEF RowSeqs
        <3>2. <<p>> \in Seq(Pats) /\ <<>> \in RowSeqs
            BY <1>2 DEF RowSeqs
        <3>3. IsUseful(<<>>, <<p>>)
            BY <3>2, UsefulDef
        <3>4. Live(<<>>, <<p>>, <<ty>>)
            <4>1. Pairwise(OfType, <<p>>, <<ty>>)
                <5>1. Len(<<p>>) = 1 /\ Len(<<ty>>) = 1 /\ <<p>>[1] = p /\ <<ty>>[1] = ty
                    OBVIOUS
                <5>2. <<p, ty>> \in OfType
                    BY <1>2 DEF OfType
                <5> QED BY <5>1, <5>2 DEF Pairwise
            <4>2. <<ty>> \in Seq(TypeNames) /\ <<p>> \in Seq(NeatPats(ArmFields))
                BY <1>2
            <4> QED BY <4>1, <4>2, LiveAlone
        <3> QED BY <3>1, <3>3, <3>4 DEF Right
    <2>2. CASE idx # 1
        <3>1. ASSUME NEW i \in 1..Len(matrix)
              PROVE  \E x \in NeatPats(ArmFields) : matrix[i] = <<x>> /\ ty \in TypesOf[x]
            <4>1. s[i] \in 1..Len(arms) /\ matrix[i] = <<arms[s[i]].pat>>
                BY <1>1 DEF IsSource
            <4>2. arms[s[i]].pat \in NeatPats(ArmFields) /\ ty \in TypesOf[arms[s[i]].pat]
                BY <1>2, <4>1, ArmFacts, ArmsAreNeat
            <4> QED BY <4>1, <4>2
        <3> QED BY <1>2, <2>2, <3>1, UsefulIsRight
    <2> QED BY <2>1, <2>2
<1> QED BY <1>3, <1>4, <1>5 DEF Right

LEMMA ArmAnswer ==
    ASSUME UTypeInv, MatrixIsArms, StructsFirst, idx <= Len(arms)
    PROVE  /\ IsUseful(matrix, <<arms[idx].pat>>) => ~(MatchedBy(idx) \subseteq Taken(idx))
           /\ CountedOnce /\ ~IsUseful(matrix, <<arms[idx].pat>>) => MatchedBy(idx) \subseteq Taken(idx)
<1> DEFINE p == arms[idx].pat
<1>1. ArmsOf(ty, arms) /\ idx \in 1..Len(arms)
    BY ArmFacts DEF UTypeInv
<1>2. p \in NeatPats(ArmFields) /\ ty \in TypesOf[p] /\ (idx # 1 => p \in NoStruct)
    BY <1>1, ArmFacts, ArmsAreNeat
<1>3. MatchedBy(idx) = {v \in Values : Matches(p, v)}
    BY DEF MatchedBy
<1> HIDE DEF p
<1>4. /\ IsUseful(matrix, <<p>>) => \E v \in Values : Matches(p, v) /\ v \notin Taken(idx)
      /\ CountedOnce /\ (\E v \in Values : Matches(p, v) /\ v \notin Taken(idx)) => IsUseful(matrix, <<p>>)
    BY <1>2, AnswerIsRight
<1>5. (MatchedBy(idx) \subseteq Taken(idx)) <=> ~(\E v \in Values : Matches(p, v) /\ v \notin Taken(idx))
    BY <1>3
<1> QED BY <1>4, <1>5 DEF p

LEMMA WildcardAnswer ==
    ASSUME UTypeInv, MatrixIsArms, StructsFirst
    PROVE  /\ IsUseful(matrix, <<Wildcard>>) => Taken(idx) # Values
           /\ CountedOnce /\ ~IsUseful(matrix, <<Wildcard>>) => Taken(idx) = Values
<1>1. ArmsOf(ty, arms) /\ ty \in TypeNames /\ Values \subseteq AllValues
    BY ArmFacts DEF UTypeInv
<1>2. Wildcard \in NeatPats(ArmFields) /\ Wildcard \in NoStruct /\ ty \in TypesOf[Wildcard]
    BY <1>1, WildcardNoStruct, WildcardNeat, WildcardFacts
<1>3. /\ IsUseful(matrix, <<Wildcard>>) => \E v \in Values : Matches(Wildcard, v) /\ v \notin Taken(idx)
      /\ CountedOnce /\ (\E v \in Values : Matches(Wildcard, v) /\ v \notin Taken(idx)) => IsUseful(matrix, <<Wildcard>>)
    BY <1>2, AnswerIsRight
<1>4. \A v \in Values : Matches(Wildcard, v)
    BY <1>1, WildcardFacts
<1>5. Taken(idx) \subseteq Values
    BY DEF Taken
<1> QED BY <1>3, <1>4, <1>5

LEMMA UInvInit == UInit => UInv
<1> SUFFICES ASSUME UInit PROVE UInv
    OBVIOUS
<1>1. ArmsOf(ty, arms)
    BY DEF UInit, ArmsOf
<1>2. Len(arms) \in Nat
    BY <1>1, ArmFacts
<1>3. UTypeInv
    BY <1>1, <1>2 DEF UInit, UTypeInv, RowSeqs
<1>4. IsSource(<<>>, matrix, idx)
    <2>1. Len(matrix) = 0 /\ idx = 1
        BY DEF UInit
    <2>2. 1..Len(matrix) = {} /\ 1..(idx - 1) = {}
        BY <2>1
    <2> QED BY <2>2 DEF IsSource
<1>5. ArmsAreLive
    BY DEF UInit, ArmsAreLive
<1> QED BY <1>3, <1>4, <1>5 DEF UInv, MatrixIsArms, VerdictIsAnswer, UInit

LEMMA UInvNext == UInv /\ [UNext]_uvars => UInv'
<1> SUFFICES ASSUME UInv, [UNext]_uvars PROVE UInv'
    OBVIOUS
<1>0. UTypeInv /\ MatrixIsArms /\ VerdictIsAnswer /\ ArmsAreLive
    BY DEF UInv
<1>1. ArmsOf(ty, arms) /\ idx \in 1..(Len(arms) + 1) /\ matrix \in RowSeqs /\ Len(arms) \in Nat /\ idx \in Nat
    BY <1>0, ArmFacts DEF UTypeInv
<1>2. CASE ArmUnreachable
    <2>1. /\ verdict' = "unreachable" /\ idx <= Len(arms) /\ ~IsUseful(matrix, <<arms[idx].pat>>)
          /\ ty' = ty /\ arms' = arms /\ idx' = idx /\ matrix' = matrix
        BY <1>2 DEF ArmUnreachable, Looking, Useful
    <2>2. UTypeInv'
        BY <1>0, <2>1 DEF UTypeInv
    <2>3. MatrixIsArms'
        BY <1>0, <2>1 DEF MatrixIsArms, IsSource
    <2>4. VerdictIsAnswer'
        BY <2>1 DEF VerdictIsAnswer
    <2>5. ArmsAreLive'
        BY <1>0, <2>1 DEF ArmsAreLive, StructsFirst, InArm, MatchedBy, Taken, Values
    <2> QED BY <2>2, <2>3, <2>4, <2>5 DEF UInv
<1>3. CASE ArmUseful
    <2> DEFINE p == arms[idx].pat
    <2>1. /\ verdict = "none" /\ verdict' = verdict /\ idx <= Len(arms) /\ IsUseful(matrix, <<p>>)
          /\ ty' = ty /\ arms' = arms /\ idx' = idx + 1
          /\ matrix' = IF arms[idx].guard THEN matrix ELSE Append(matrix, <<p>>)
        BY <1>3 DEF ArmUseful, Looking, Useful
    <2>2. idx \in 1..Len(arms) /\ idx + 1 \in 1..(Len(arms) + 1) /\ (idx + 1) - 1 = idx
        BY <1>1, <2>1
    <2>3. p \in Pats /\ arms[idx].guard \in BOOLEAN
        BY <1>1, <2>2, ArmFacts
    <2>4. matrix' \in RowSeqs
        <3>1. Append(matrix, <<p>>) \in RowSeqs
            BY <1>1, <2>3 DEF RowSeqs
        <3> QED BY <1>1, <2>1, <3>1
    <2>5. UTypeInv'
        BY <1>0, <2>1, <2>2, <2>4 DEF UTypeInv
    <2>6. PICK s : IsSource(s, matrix, idx)
        BY <1>0 DEF MatrixIsArms
    <2> DEFINE n == Len(matrix)
    <2>7. n \in Nat
        BY <1>1 DEF RowSeqs
    <2>8. \E z : IsSource(z, matrix', idx + 1)
        <3>1. CASE arms[idx].guard
            <4>1. matrix' = matrix
                BY <2>1, <3>1
            <4>2. ASSUME NEW j \in 1..((idx + 1) - 1), ~arms[j].guard
                  PROVE  \E r \in 1..n : s[r] = j
                <5>1. j # idx
                    BY <3>1, <4>2
                <5>2. j \in 1..(idx - 1)
                    BY <1>1, <4>2, <5>1
                <5> QED BY <2>6, <4>2, <5>2 DEF IsSource
            <4>3. \A r \in 1..n : s[r] \in 1..((idx + 1) - 1)
                <5>1. \A r \in 1..n : s[r] \in 1..(idx - 1)
                    BY <2>6 DEF IsSource
                <5> QED BY <1>1, <5>1
            <4>4. IsSource(s, matrix, idx + 1)
                BY <2>6, <4>2, <4>3 DEF IsSource
            <4> QED BY <4>1, <4>4
        <3>2. CASE ~arms[idx].guard
            <4> DEFINE z == [r \in 1..(n + 1) |-> IF r = n + 1 THEN idx ELSE s[r]]
                       w == Append(matrix, <<p>>)
            <4>1. /\ matrix' = w /\ Len(w) = n + 1 /\ w[n + 1] = <<p>>
                  /\ \A r \in 1..n : w[r] = matrix[r]
                BY <1>1, <2>1, <2>3, <2>7, <3>2, AppendProperties DEF RowSeqs
            <4>2. z[n + 1] = idx /\ \A r \in 1..n : z[r] = s[r]
                BY <2>7
            <4> HIDE DEF z, w, n
            <4>3. \A r \in 1..n : s[r] \in 1..(idx - 1) /\ s[r] \in 1..Len(arms) /\ ~arms[s[r]].guard
                                  /\ matrix[r] = <<arms[s[r]].pat>>
                BY <2>6 DEF IsSource, n
            <4>4. ASSUME NEW r \in 1..(n + 1)
                  PROVE  z[r] \in 1..((idx + 1) - 1) /\ z[r] \in 1..Len(arms) /\ ~arms[z[r]].guard
                         /\ w[r] = <<arms[z[r]].pat>>
                <5>1. CASE r = n + 1
                    BY <2>2, <3>2, <4>1, <4>2, <5>1
                <5>2. CASE r # n + 1
                    <6>1. r \in 1..n
                        BY <2>7, <5>2
                    <6>2. z[r] = s[r] /\ w[r] = matrix[r]
                        BY <4>1, <4>2, <6>1
                    <6>3. s[r] \in 1..(idx - 1)
                        BY <4>3, <6>1
                    <6>4. s[r] \in 1..((idx + 1) - 1)
                        BY <1>1, <6>3
                    <6> QED BY <4>3, <6>1, <6>2, <6>4
                <5> QED BY <5>1, <5>2
            <4>5. ASSUME NEW r \in 1..(n + 1), NEW m \in 1..(n + 1), r # m
                  PROVE  z[r] # z[m]
                <5>1. \A k \in 1..n : s[k] # idx
                    BY <1>1, <4>3
                <5>2. \A k \in 1..(n + 1) : k = n + 1 \/ k \in 1..n
                    BY <2>7
                <5>3. CASE r \in 1..n /\ m \in 1..n
                    BY <2>6, <4>2, <4>5, <5>3 DEF IsSource, n
                <5> QED BY <4>2, <4>5, <5>1, <5>2, <5>3
            <4>6. ASSUME NEW j \in 1..((idx + 1) - 1), ~arms[j].guard
                  PROVE  \E r \in 1..(n + 1) : z[r] = j
                <5>1. CASE j = idx
                    <6>1. n + 1 \in 1..(n + 1)
                        BY <2>7
                    <6> QED BY <4>2, <5>1, <6>1
                <5>2. CASE j # idx
                    <6>1. j \in 1..(idx - 1)
                        BY <1>1, <4>6, <5>2
                    <6>2. PICK r \in 1..n : s[r] = j
                        BY <2>6, <4>6, <6>1 DEF IsSource, n
                    <6>3. r \in 1..(n + 1)
                        BY <2>7
                    <6> QED BY <4>2, <6>2, <6>3
                <5> QED BY <5>1, <5>2
            <4>7. IsSource(z, w, idx + 1)
                BY <4>1, <4>4, <4>5, <4>6 DEF IsSource
            <4> QED BY <4>1, <4>7
        <3> QED BY <2>3, <3>1, <3>2
    <2>9. MatrixIsArms'
        <3>1. arms' = arms /\ idx' = idx + 1
            BY <2>1
        <3>2. PICK z : IsSource(z, matrix', idx + 1)
            BY <2>8
        <3>3. IsSource(z, matrix, idx)'
            BY <3>1, <3>2 DEF IsSource
        <3> QED BY <3>3 DEF MatrixIsArms
    <2>10. VerdictIsAnswer'
        BY <2>1 DEF VerdictIsAnswer
    <2>11. ArmsAreLive'
        <3> SUFFICES ASSUME StructsFirst
                     PROVE  \A i \in 1..((idx + 1) - 1) : ~(MatchedBy(i) \subseteq Taken(i))
            BY <2>1 DEF ArmsAreLive, StructsFirst, InArm, MatchedBy, Taken, Values
        <3>1. ~(MatchedBy(idx) \subseteq Taken(idx))
            BY <1>0, <2>1, ArmAnswer
        <3>2. \A i \in 1..(idx - 1) : ~(MatchedBy(i) \subseteq Taken(i))
            BY <1>0 DEF ArmsAreLive
        <3> QED BY <1>1, <3>1, <3>2
    <2> QED BY <2>5, <2>9, <2>10, <2>11 DEF UInv
<1>4. CASE Conclude
    <2>1. /\ verdict = "none" /\ idx > Len(arms)
          /\ verdict' = IF IsUseful(matrix, <<Wildcard>>) THEN "non_exhaustive" ELSE "ok"
          /\ ty' = ty /\ arms' = arms /\ idx' = idx /\ matrix' = matrix
        BY <1>4 DEF Conclude
    <2>2. UTypeInv'
        BY <1>0, <2>1 DEF UTypeInv
    <2>3. MatrixIsArms'
        BY <1>0, <2>1 DEF MatrixIsArms, IsSource
    <2>4. VerdictIsAnswer'
        <3>1. idx = Len(arms) + 1
            BY <1>1, <2>1
        <3> QED BY <2>1, <3>1 DEF VerdictIsAnswer
    <2>5. ArmsAreLive'
        BY <1>0, <2>1 DEF ArmsAreLive, StructsFirst, InArm, MatchedBy, Taken, Values
    <2> QED BY <2>2, <2>3, <2>4, <2>5 DEF UInv
<1>5. CASE UNCHANGED uvars
    <2>1. ty' = ty /\ arms' = arms /\ idx' = idx /\ matrix' = matrix /\ verdict' = verdict
        BY <1>5 DEF uvars
    <2>2. UTypeInv'
        BY <1>0, <2>1 DEF UTypeInv
    <2>3. MatrixIsArms'
        BY <1>0, <2>1 DEF MatrixIsArms, IsSource
    <2>4. VerdictIsAnswer'
        BY <1>0, <2>1 DEF VerdictIsAnswer
    <2>5. ArmsAreLive'
        BY <1>0, <2>1 DEF ArmsAreLive, StructsFirst, InArm, MatchedBy, Taken, Values
    <2> QED BY <2>2, <2>3, <2>4, <2>5 DEF UInv
<1> QED BY <1>2, <1>3, <1>4, <1>5 DEF UNext

LEMMA UInvAlways == USpec => []UInv
<1> QED BY UInvInit, UInvNext, PTL DEF USpec

\* "Unreachable pattern" is said of an arm only if the arms before it without
\* a guard take every value it matches.
THEOREM UnreachableArmsAreDead == USpec => []UnreachableIsDead
<1>1. UInv => UnreachableIsDead
    BY ArmAnswer DEF UInv, VerdictIsAnswer, UnreachableIsDead, Exact
<1> QED BY <1>1, UInvAlways, PTL

\* An arm that check_match_exhaustiveness lets pass matches a value that the
\* arms before it without a guard leave, however constructors are counted.
THEOREM PassedArmsAreLive == USpec => []PassedIsLive
<1>1. UInv => PassedIsLive
    BY DEF UInv, ArmsAreLive, PassedIsLive
<1> QED BY <1>1, UInvAlways, PTL

\* A match that is accepted takes every value of its type with the arms that
\* have no guard, and one that is called not exhaustive leaves one out.
THEOREM AcceptedIsExhaustive == USpec => []OkIsExhaustive
<1>1. UInv => OkIsExhaustive
    BY WildcardAnswer DEF UInv, VerdictIsAnswer, OkIsExhaustive, Exact
<1> QED BY <1>1, UInvAlways, PTL

-----------------------------------------------------------------------------
(* Sums over sequences. *)

\* The weights of the elements of a sequence, summed up.
Total(w, s) ==
    LET upTo[k \in 0..Len(s)] == IF k = 0 THEN 0 ELSE upTo[k - 1] + w[s[k]]
    IN  upTo[Len(s)]

AreSums(T, w, s) == T[0] = 0 /\ \A k \in 1..Len(s) : T[k] = T[k - 1] + w[s[k]]

LEMMA SumIs ==
    ASSUME NEW A, NEW s \in Seq(A), NEW w, NEW T, AreSums(T, w, s)
    PROVE  Total(w, s) = T[Len(s)]
<1> DEFINE n == Len(s)
           Is(f) == f = [k \in 0..n |-> IF k = 0 THEN 0 ELSE f[k - 1] + w[s[k]]]
           U == CHOOSE f : Is(f)
           t == [k \in 0..n |-> T[k]]
<1>1. n \in Nat
    OBVIOUS
<1>2. ASSUME NEW k \in 0..n
      PROVE  T[k] = IF k = 0 THEN 0 ELSE t[k - 1] + w[s[k]]
    <2>1. k # 0 => k \in 1..n /\ k - 1 \in 0..n
        BY <1>1
    <2> HIDE DEF n
    <2>2. k # 0 => t[k - 1] = T[k - 1]
        BY <2>1
    <2> QED BY <2>1, <2>2 DEF AreSums, n
<1>3. Is(t)
    <2> HIDE DEF n
    <2> QED BY <1>2
<1>4. Is(U)
    <2> HIDE DEF Is
    <2> QED BY <1>3
<1>5. Total(w, s) = U[n]
    BY Zenon DEF Total
<1> DEFINE S == {k \in 0..n : U[k] = T[k]}
<1> HIDE DEF U
<1>6. 0 \in S
    <2>1. 0 \in 0..n
        BY <1>1
    <2>2. U[0] = 0
        BY <1>4, <2>1
    <2> QED BY <2>1, <2>2 DEF AreSums
<1>7. ASSUME NEW k \in 1..n, k - 1 \in S
      PROVE  k \in S
    <2>1. k \in 0..n /\ k # 0
        OBVIOUS
    <2>2. U[k] = U[k - 1] + w[s[k]]
        BY <1>4, <2>1
    <2>3. T[k] = T[k - 1] + w[s[k]]
        BY DEF AreSums
    <2> QED BY <1>7, <2>1, <2>2, <2>3
<1>8. \A k \in 0..n : k \in S
    <2> HIDE DEF S
    <2> QED BY <1>1, <1>6, <1>7, IntervalInduction
<1>9. n \in 0..n
    BY <1>1
<1> QED BY <1>5, <1>8, <1>9

LEMMA SumSteps ==
    ASSUME NEW A, NEW s \in Seq(A), NEW w \in [A -> Nat]
    PROVE  \E T \in [0..Len(s) -> Nat] : AreSums(T, w, s)
<1> DEFINE n == Len(s)
           G == [k \in 1..n |-> [v \in Nat |-> v + w[s[k]]]]
<1>1. n \in Nat /\ \A k \in 1..n : w[s[k]] \in Nat
    OBVIOUS
<1>2. \A k \in 1..n : \A v \in Nat : G[k][v] = v + w[s[k]] /\ G[k][v] \in Nat
    BY <1>1
<1>3. StaysIn(Nat, n, G)
    <2> HIDE DEF G, n
    <2> QED BY <1>2 DEF StaysIn
<1>4. PICK T : IsIterate(T, Nat, n, 0, G)
    <2> HIDE DEF G, n
    <2> QED BY <1>1, <1>3, IntervalRecursion
<1>5. T \in [0..n -> Nat] /\ T[0] = 0 /\ \A k \in 1..n : T[k] = G[k][T[k - 1]]
    <2> HIDE DEF G, n
    <2> QED BY <1>4 DEF IsIterate
<1>6. \A k \in 1..n : T[k - 1] \in Nat
    <2>1. \A k \in 1..n : k - 1 \in 0..n
        BY <1>1
    <2> HIDE DEF G, n
    <2> QED BY <1>5, <2>1
<1>7. \A k \in 1..n : T[k] = T[k - 1] + w[s[k]]
    <2> HIDE DEF G, n
    <2> QED BY <1>2, <1>5, <1>6
<1> QED BY <1>5, <1>7 DEF AreSums

LEMMA SumFacts ==
    ASSUME NEW A, NEW w \in [A -> Nat]
    PROVE  /\ Total(w, <<>>) = 0
           /\ \A a \in A : Total(w, <<a>>) = w[a]
           /\ \A s \in Seq(A) : Total(w, s) \in Nat
<1>1. \A a \in A : w[a] \in Nat
    OBVIOUS
<1>2. Total(w, <<>>) = 0
    <2>1. AreSums([k \in 0..0 |-> 0], w, <<>>)
        BY DEF AreSums
    <2> DEFINE T == [k \in 0..0 |-> 0]
    <2>2. <<>> \in Seq(A) /\ Len(<<>>) = 0 /\ T[0] = 0
        OBVIOUS
    <2> HIDE DEF T
    <2>3. Total(w, <<>>) = T[Len(<<>>)]
        BY <2>1, <2>2, SumIs DEF T
    <2> QED BY <2>2, <2>3
<1>3. ASSUME NEW a \in A
      PROVE  Total(w, <<a>>) = w[a]
    <2> DEFINE T == [k \in 0..1 |-> IF k = 0 THEN 0 ELSE w[a]]
    <2>1. <<a>> \in Seq(A) /\ Len(<<a>>) = 1 /\ <<a>>[1] = a
        OBVIOUS
    <2>2. T[0] = 0 /\ T[1] = 0 + w[a]
        BY <1>1
    <2>3. AreSums(T, w, <<a>>)
        <3> HIDE DEF T
        <3>1. \A k \in 1..1 : k = 1 /\ k - 1 = 0
            OBVIOUS
        <3> QED BY <2>1, <2>2, <3>1 DEF AreSums
    <2> HIDE DEF T
    <2>4. Total(w, <<a>>) = T[Len(<<a>>)]
        BY <2>1, <2>3, SumIs
    <2> QED BY <1>1, <2>1, <2>2, <2>4
<1>4. ASSUME NEW s \in Seq(A)
      PROVE  Total(w, s) \in Nat
    <2>1. PICK T \in [0..Len(s) -> Nat] : AreSums(T, w, s)
        BY SumSteps
    <2>2. Total(w, s) = T[Len(s)]
        BY <2>1, SumIs
    <2>3. Len(s) \in 0..Len(s)
        OBVIOUS
    <2> QED BY <2>1, <2>2, <2>3
<1> QED BY <1>2, <1>3, <1>4

\* The sum looks at the weights of the elements only.
LEMMA SumLocal ==
    ASSUME NEW A, NEW s \in Seq(A), NEW v \in [A -> Nat],
           NEW B, NEW t \in Seq(B), NEW w, Len(s) = Len(t),
           \A k \in 1..Len(s) : v[s[k]] = w[t[k]]
    PROVE  Total(v, s) = Total(w, t)
<1>1. PICK T \in [0..Len(s) -> Nat] : AreSums(T, v, s)
    BY SumSteps
<1>2. AreSums(T, w, t)
    BY <1>1 DEF AreSums
<1>3. Total(v, s) = T[Len(s)]
    BY <1>1, SumIs
<1>4. Total(w, t) = T[Len(t)]
    BY <1>2, SumIs
<1> QED BY <1>3, <1>4

LEMMA SumConcat ==
    ASSUME NEW A, NEW s \in Seq(A), NEW t \in Seq(A), NEW w \in [A -> Nat]
    PROVE  Total(w, s \o t) = Total(w, s) + Total(w, t)
<1> DEFINE l == Len(s)
           m == Len(t)
           u == s \o t
<1>1. /\ u \in Seq(A) /\ Len(u) = l + m /\ l \in Nat /\ m \in Nat
      /\ \A k \in 1..Len(u) : u[k] = IF k <= l THEN s[k] ELSE t[k - l]
    BY ConcatProperties, LenProperties
<1>2. PICK S \in [0..l -> Nat] : AreSums(S, w, s)
    BY SumSteps
<1>3. PICK T \in [0..m -> Nat] : AreSums(T, w, t)
    BY SumSteps
<1>4. S[l] = Total(w, s) /\ T[m] = Total(w, t)
    BY <1>2, <1>3, SumIs
<1> DEFINE U == [k \in 0..(l + m) |-> IF k <= l THEN S[k] ELSE S[l] + T[k - l]]
<1> HIDE DEF u
<1>5. /\ S[0] = 0 /\ T[0] = 0 /\ \A k \in 0..l : S[k] \in Nat
      /\ l \in 0..l /\ S[l] \in Nat /\ \A k \in 0..m : T[k] \in Nat
    <2>1. l \in 0..l
        BY <1>1
    <2> HIDE DEF l, m
    <2> QED BY <1>2, <1>3, <2>1 DEF AreSums
<1>f. \A k \in 0..(l + m) : U[k] = IF k <= l THEN S[k] ELSE S[l] + T[k - l]
    OBVIOUS
<1> HIDE DEF l, m, U
<1>6. U[0] = 0
    BY <1>1, <1>5, <1>f
<1>7. ASSUME NEW k \in 1..Len(u)
      PROVE  U[k] = U[k - 1] + w[u[k]]
    <2>1. CASE k <= l
        <3>1. k \in 1..l /\ U[k] = S[k] /\ U[k - 1] = S[k - 1] /\ u[k] = s[k]
            BY <1>1, <1>f, <2>1
        <3>2. S[k] = S[k - 1] + w[s[k]]
            BY <1>2, <3>1 DEF AreSums, l
        <3> QED BY <3>1, <3>2
    <2>2. CASE ~(k <= l)
        <3>0. k \in 0..(l + m) /\ k - l \in 1..m
            BY <1>1, <2>2
        <3>1. k - l \in 1..m /\ U[k] = S[l] + T[k - l] /\ u[k] = t[k - l]
            BY <1>1, <1>f, <2>2, <3>0
        <3>2. T[k - l] = T[(k - l) - 1] + w[t[k - l]]
            BY <1>3, <3>1 DEF AreSums, m
        <3>3. (k - l) - 1 \in 0..m /\ (k - 1) - l = (k - l) - 1
            <4>1. l \in Nat /\ m \in Nat /\ k \in Int
                BY <1>1, <3>0
            <4>2. k - l \in 1..m
                BY <3>1
            <4> QED BY <4>1, <4>2
        <3>4. U[k - 1] = S[l] + T[(k - l) - 1]
            <4>1. CASE k - 1 = l
                <5>1. U[k - 1] = S[l] /\ (k - l) - 1 = 0
                    BY <1>1, <1>f, <4>1
                <5> QED BY <1>5, <5>1
            <4>2. CASE k - 1 # l
                <5>1. k - 1 \in 0..(l + m) /\ ~(k - 1 <= l)
                    BY <1>1, <2>2, <4>2
                <5> QED BY <1>f, <3>3, <5>1
            <4> QED BY <4>1, <4>2
        <3>5. T[(k - l) - 1] \in Nat /\ w[t[k - l]] \in Nat
            <4>1. t[k - l] \in A
                BY <3>1 DEF m
            <4> QED BY <1>5, <3>3, <4>1
        <3> DEFINE a == S[l]
                   b == T[(k - l) - 1]
                   c == w[t[k - l]]
        <3>6. a \in Nat /\ b \in Nat /\ c \in Nat
            BY <1>5, <3>5
        <3>7. U[k] = a + (b + c) /\ U[k - 1] = a + b /\ w[u[k]] = c
            BY <3>1, <3>2, <3>4
        <3> HIDE DEF a, b, c
        <3> QED BY <3>6, <3>7
    <2> QED BY <2>1, <2>2
<1>8. AreSums(U, w, u)
    BY <1>6, <1>7 DEF AreSums
<1>9. U[l + m] = S[l] + T[m]
    <2>1. CASE m = 0
        <3>1. l + m = l /\ l \in 0..(l + m)
            BY <1>1, <2>1
        <3> QED BY <1>f, <1>5, <2>1, <3>1
    <2>2. CASE m # 0
        <3>1. l + m \in 0..(l + m) /\ ~(l + m <= l) /\ (l + m) - l = m
            BY <1>1, <2>2
        <3> QED BY <1>f, <3>1
    <2> QED BY <2>1, <2>2
<1>10. Total(w, u) = U[Len(u)]
    BY <1>1, <1>8, SumIs
<1> QED BY <1>1, <1>4, <1>9, <1>10 DEF u

LEMMA Joined ==
    ASSUME NEW A, NEW s \in Seq(A), NEW t \in Seq(A), NEW l, NEW m, l = Len(s), m = Len(t)
    PROVE  /\ s \o t \in Seq(A) /\ Len(s \o t) = l + m /\ l \in Nat /\ m \in Nat
           /\ \A i \in 1..(l + m) : (s \o t)[i] = IF i <= l THEN s[i] ELSE t[i - l]
<1>1. /\ s \o t \in Seq(A) /\ Len(s \o t) = Len(s) + Len(t) /\ Len(s) \in Nat /\ Len(t) \in Nat
      /\ \A i \in 1..(Len(s) + Len(t)) : (s \o t)[i] = IF i <= Len(s) THEN s[i] ELSE t[i - Len(s)]
    BY ConcatProperties, LenProperties
<1> QED BY <1>1

\* Without its element at k.
LEMMA RemoveAtFacts ==
    ASSUME NEW A, NEW s \in Seq(A), NEW k \in 1..Len(s)
    PROVE  /\ RemoveAt(s, k) \in Seq(A) /\ Len(RemoveAt(s, k)) = Len(s) - 1
           /\ \A i \in 1..(Len(s) - 1) : RemoveAt(s, k)[i] = IF i < k THEN s[i] ELSE s[i + 1]
<1> DEFINE a == SubSeq(s, 1, k - 1)
           b == SubSeq(s, k + 1, Len(s))
           n == Len(s)
<1>1. n \in Nat /\ k \in Nat /\ k >= 1 /\ k <= n
    OBVIOUS
<1>2. /\ a \in Seq(A) /\ Len(a) = k - 1 /\ \A i \in 1..(k - 1) : a[i] = s[i]
    OBVIOUS
<1>3. /\ b \in Seq(A) /\ Len(b) = n - k /\ \A i \in 1..(n - k) : b[i] = s[i + k]
    OBVIOUS
<1>4. RemoveAt(s, k) = a \o b
    BY DEF RemoveAt
<1> HIDE DEF a, b, n
<1>5. /\ a \o b \in Seq(A) /\ Len(a \o b) = (k - 1) + (n - k)
      /\ \A i \in 1..((k - 1) + (n - k)) : (a \o b)[i] = IF i <= k - 1 THEN a[i] ELSE b[i - (k - 1)]
    BY <1>2, <1>3, Joined
<1>6. ASSUME NEW i \in 1..(n - 1)
      PROVE  (a \o b)[i] = IF i < k THEN s[i] ELSE s[i + 1]
    <2>1. i \in 1..((k - 1) + (n - k))
        BY <1>1
    <2>2. CASE i < k
        <3>1. i <= k - 1 /\ i \in 1..(k - 1)
            BY <1>1, <2>2
        <3> QED BY <1>2, <1>5, <2>1, <2>2, <3>1
    <2>3. CASE ~(i < k)
        <3>1. ~(i <= k - 1) /\ i - (k - 1) \in 1..(n - k) /\ (i - (k - 1)) + k = i + 1
            BY <1>1, <2>3
        <3>2. b[i - (k - 1)] = s[i + 1]
            BY <1>3, <3>1
        <3> QED BY <1>5, <2>1, <2>3, <3>1, <3>2
    <2> QED BY <2>2, <2>3
<1>7. (k - 1) + (n - k) = n - 1
    BY <1>1
<1> QED BY <1>4, <1>5, <1>6, <1>7 DEF n

LEMMA RemoveAtTotal ==
    ASSUME NEW A, NEW s \in Seq(A), NEW k \in 1..Len(s), NEW w \in [A -> Nat]
    PROVE  Total(w, RemoveAt(s, k)) + w[s[k]] = Total(w, s)
<1> DEFINE a == SubSeq(s, 1, k - 1)
           b == SubSeq(s, k + 1, Len(s))
           n == Len(s)
           m == <<s[k]>>
<1>1. n \in Nat /\ k \in Nat /\ k >= 1 /\ k <= n /\ s[k] \in A /\ m \in Seq(A) /\ Len(m) = 1 /\ m[1] = s[k]
    OBVIOUS
<1>2. /\ a \in Seq(A) /\ Len(a) = k - 1 /\ \A i \in 1..(k - 1) : a[i] = s[i]
    OBVIOUS
<1>3. /\ b \in Seq(A) /\ Len(b) = n - k /\ \A i \in 1..(n - k) : b[i] = s[i + k]
    OBVIOUS
<1>4. RemoveAt(s, k) = a \o b
    BY DEF RemoveAt
<1>5. Total(w, m) = w[s[k]]
    BY <1>1, SumFacts
<1> HIDE DEF a, b, n, m
<1> DEFINE h == a \o m
<1>6. /\ h \in Seq(A) /\ Len(h) = (k - 1) + 1
      /\ \A i \in 1..((k - 1) + 1) : h[i] = IF i <= k - 1 THEN a[i] ELSE m[i - (k - 1)]
    <2> DEFINE l == k - 1
               o == 1
    <2>1. l = Len(a) /\ o = Len(m)
        BY <1>1, <1>2
    <2> HIDE DEF l, o
    <2>3. a \in Seq(A) /\ m \in Seq(A)
        BY <1>1, <1>2
    <2>2. /\ h \in Seq(A) /\ Len(h) = l + o /\ l \in Nat /\ o \in Nat
          /\ \A i \in 1..(l + o) : h[i] = IF i <= l THEN a[i] ELSE m[i - l]
        BY <2>1, <2>3, Joined
    <2> QED BY <2>2 DEF l, o
<1>7. Total(w, h) = Total(w, a) + Total(w, m)
    BY <1>1, <1>2, SumConcat
<1> HIDE DEF h
<1>8. \A i \in 1..k : h[i] = s[i]
    <2>1. ASSUME NEW i \in 1..k
          PROVE  h[i] = s[i]
        <3>1. i \in 1..((k - 1) + 1)
            BY <1>1
        <3>2. CASE i <= k - 1
            <4>1. i \in 1..(k - 1)
                BY <1>1, <3>2
            <4> QED BY <1>2, <1>6, <3>1, <3>2, <4>1
        <3>3. CASE i = k
            <4>1. i - (k - 1) = 1 /\ ~(i <= k - 1)
                BY <1>1, <3>3
            <4> QED BY <1>1, <1>6, <3>1, <3>3, <4>1
        <3> QED BY <1>1, <3>2, <3>3
    <2> QED BY <2>1
<1>9. /\ h \o b \in Seq(A) /\ Len(h \o b) = k + (n - k)
      /\ \A i \in 1..(k + (n - k)) : (h \o b)[i] = IF i <= k THEN h[i] ELSE b[i - k]
    <2> DEFINE l == n - k
    <2>1. Len(h) = k /\ Len(b) = l
        BY <1>1, <1>3, <1>6
    <2> HIDE DEF l
    <2>3. h \in Seq(A) /\ b \in Seq(A)
        BY <1>3, <1>6
    <2>2. /\ h \o b \in Seq(A) /\ Len(h \o b) = k + l /\ k \in Nat /\ l \in Nat
          /\ \A i \in 1..(k + l) : (h \o b)[i] = IF i <= k THEN h[i] ELSE b[i - k]
        BY <2>1, <2>3, Joined
    <2> QED BY <2>2 DEF l
<1>10. h \o b = s
    <2>1. k + (n - k) = n
        BY <1>1
    <2>2. ASSUME NEW i \in 1..n
          PROVE  (h \o b)[i] = s[i]
        <3>1. CASE i <= k
            <4>1. i \in 1..k
                BY <1>1, <3>1
            <4> QED BY <1>8, <1>9, <2>1, <3>1, <4>1
        <3>2. CASE ~(i <= k)
            <4>0. i \in Int /\ i <= n /\ i > k
                BY <1>1, <3>2
            <4>1. i - k \in 1..(n - k) /\ (i - k) + k = i
                BY <1>1, <4>0
            <4>2. b[i - k] = s[i]
                BY <1>3, <4>1
            <4> QED BY <1>9, <2>1, <3>2, <4>2
        <3> QED BY <3>1, <3>2
    <2> QED BY <1>9, <2>1, <2>2, SeqEqual DEF n
<1>11. Total(w, s) = Total(w, h) + Total(w, b)
    BY <1>3, <1>6, <1>10, SumConcat
<1>12. Total(w, a \o b) = Total(w, a) + Total(w, b)
    BY <1>2, <1>3, SumConcat
<1>13. Total(w, a) \in Nat /\ Total(w, b) \in Nat /\ w[s[k]] \in Nat
    BY <1>1, <1>2, <1>3, SumFacts
<1> QED BY <1>4, <1>5, <1>7, <1>11, <1>12, <1>13

\* What becomes of the elements of s weighs no more than they do, and of one
\* of them at least d less: so does all of it.
LEMMA FlattenedTotal ==
    ASSUME NEW A, NEW w \in [A -> Nat], NEW s \in Seq(A), NEW ss \in Seq(Seq(A)), Len(ss) = Len(s),
           NEW o \in 1..Len(s), NEW d \in Nat,
           \A i \in 1..Len(s) : Total(w, ss[i]) <= w[s[i]],
           Total(w, ss[o]) + d <= w[s[o]]
    PROVE  Total(w, FlattenSeq(ss)) + d <= Total(w, s)
<1> DEFINE n == Len(s)
<1>1. n \in Nat /\ n # 0 /\ \A i \in 1..n : ss[i] \in Seq(A) /\ s[i] \in A /\ w[s[i]] \in Nat
    OBVIOUS
<1>2. ss # <<>>
    BY <1>1
<1>3. PICK F : AreSteps(F, A, ss)
    BY <1>2, FlattenSteps
<1>4. PICK T \in [0..n -> Nat] : AreSums(T, w, s)
    BY SumSteps
<1>5. T[n] = Total(w, s)
    BY <1>4, SumIs
<1> DEFINE S == {i \in 0..n : i # 0 => Total(w, F[i]) + (IF o <= i THEN d ELSE 0) <= T[i]}
<1> HIDE DEF n
<1>6. 0 \in S
    BY <1>1
<1>7. ASSUME NEW i \in 1..n, i - 1 \in S
      PROVE  i \in S
    <2>1. T[i] = T[i - 1] + w[s[i]] /\ T[i - 1] \in Nat /\ T[0] = 0
        <3>1. i - 1 \in 0..n
            BY <1>1
        <3>2. T[i] = T[i - 1] + w[s[i]] /\ T[0] = 0
            BY <1>4 DEF AreSums, n
        <3> QED BY <1>4, <3>1, <3>2
    <2>2. F[i] \in Seq(A) /\ (i = 1 => F[i] = ss[i]) /\ (i # 1 => F[i - 1] \in Seq(A) /\ F[i] = F[i - 1] \o ss[i])
        <3>1. i \in 1..Len(ss) /\ (i # 1 => i - 1 \in 1..Len(ss))
            BY <1>1 DEF n
        <3> QED BY <1>3, <3>1 DEF AreSteps
    <2>3. ss[i] \in Seq(A) /\ w[s[i]] \in Nat /\ Total(w, ss[i]) \in Nat
        BY <1>1, SumFacts
    <2>4. Total(w, ss[i]) <= w[s[i]] /\ (i = o => Total(w, ss[i]) + d <= w[s[i]])
        BY DEF n
    <2>5. CASE i = 1
        <3>1. T[i] = w[s[i]] /\ o >= 1
            BY <2>1, <2>3, <2>5
        <3>2. o <= i => i = o
            BY <2>5
        <3> QED BY <1>1, <2>2, <2>3, <2>4, <2>5, <3>1, <3>2
    <2>6. CASE i # 1
        <3>1. Total(w, F[i]) = Total(w, F[i - 1]) + Total(w, ss[i]) /\ Total(w, F[i - 1]) \in Nat
            <4> DEFINE x == F[i - 1]
                       y == ss[i]
            <4>1. x \in Seq(A) /\ y \in Seq(A) /\ F[i] = x \o y
                BY <2>2, <2>3, <2>6
            <4> HIDE DEF x, y
            <4>2. Total(w, x \o y) = Total(w, x) + Total(w, y) /\ Total(w, x) \in Nat
                BY <4>1, SumConcat, SumFacts
            <4> QED BY <4>1, <4>2 DEF x, y
        <3>2. Total(w, F[i - 1]) + (IF o <= i - 1 THEN d ELSE 0) <= T[i - 1]
            BY <1>7, <2>6
        <3>3. o <= i => o <= i - 1 \/ o = i
            OBVIOUS
        <3> DEFINE a == Total(w, F[i - 1])
                   b == Total(w, ss[i])
                   c == T[i - 1]
                   e == w[s[i]]
        <3>4. a + b + (IF o <= i THEN d ELSE 0) <= c + e
            <4>1. a \in Nat /\ b \in Nat /\ c \in Nat /\ e \in Nat /\ b <= e
                BY <2>1, <2>3, <2>4, <3>1
            <4>2. a + (IF o <= i - 1 THEN d ELSE 0) <= c /\ (i = o => b + d <= e)
                BY <2>4, <3>2
            <4> HIDE DEF a, b, c, e
            <4> QED BY <1>1, <3>3, <4>1, <4>2
        <3> QED BY <2>1, <3>1, <3>4
    <2> QED BY <2>5, <2>6
<1>8. \A i \in 0..n : i \in S
    <2> HIDE DEF S
    <2> QED BY <1>1, <1>6, <1>7, IntervalInduction
<1>9. n \in 0..n /\ o <= n
    BY <1>1 DEF n
<1>10. FlattenSeq(ss) = F[n]
    BY <1>3 DEF AreSteps, n
<1> QED BY <1>1, <1>5, <1>8, <1>9, <1>10

LEMMA FlattenedNoMore ==
    ASSUME NEW A, NEW w \in [A -> Nat], NEW s \in Seq(A), NEW ss \in Seq(Seq(A)), Len(ss) = Len(s),
           \A i \in 1..Len(s) : Total(w, ss[i]) <= w[s[i]]
    PROVE  Total(w, FlattenSeq(ss)) <= Total(w, s)
<1>1. CASE Len(s) = 0
    <2>1. s = <<>> /\ ss = <<>> /\ FlattenSeq(ss) = <<>>
        BY <1>1 DEF FlattenSeq
    <2>2. Total(w, <<>>) = 0
        BY SumFacts
    <2> QED BY <2>1, <2>2
<1>2. CASE Len(s) # 0
    <2>1. 1 \in 1..Len(s) /\ ss[1] \in Seq(A) /\ s[1] \in A
        BY <1>2
    <2>2. Total(w, ss[1]) \in Nat
        BY <2>1, SumFacts
    <2>3. Total(w, ss[1]) + 0 <= w[s[1]]
        BY <2>1, <2>2
    <2>4. Total(w, FlattenSeq(ss)) + 0 <= Total(w, s)
        BY <2>1, <2>3, FlattenedTotal
    <2>5. FlattenSeq(ss) \in Seq(A)
        BY Flattened
    <2>6. Total(w, FlattenSeq(ss)) \in Nat
        BY <2>5, SumFacts
    <2> QED BY <2>4, <2>6
<1> QED BY <1>1, <1>2

\* Element k of s is g[r[k]]: what is chosen of some numbers, in their order.
IsKept(r, K, g, s) ==
    /\ \A k \in 1..Len(s) : r[k] \in K /\ s[k] = g[r[k]]
    /\ \A k, m \in 1..Len(s) : k < m => r[k] < r[m]
    /\ \A i \in K : \E k \in 1..Len(s) : r[k] = i

HasKept(K, g, s) == \E r : IsKept(r, K, g, s)

\* What is in the sequences.
LEMMA FlattenedElements ==
    ASSUME NEW A, NEW n \in Nat, NEW ss \in [1..n -> Seq(A)]
    PROVE  /\ FlattenSeq(ss) \in Seq(A)
           /\ Elements(FlattenSeq(ss)) = UNION {Elements(ss[i]) : i \in 1..n}
<1>1. ss \in Seq(Seq(A)) /\ Len(ss) = n
    OBVIOUS
<1> DEFINE s == FlattenSeq(ss)
<1>2. s \in Seq(A) /\ \E r, c : IsIndex(r, c, n, ss, s)
    BY <1>1, Flattened
<1> HIDE DEF s
<1>3. PICK r, c : IsIndex(r, c, n, ss, s)
    BY <1>2
<1>4. ASSUME NEW k \in 1..Len(s)
      PROVE  \E i \in 1..n : s[k] \in Elements(ss[i])
    <2>1. r[k] \in 1..n /\ c[k] \in 1..Len(ss[r[k]]) /\ s[k] = ss[r[k]][c[k]]
        BY <1>3 DEF IsIndex
    <2> QED BY <2>1 DEF Elements
<1>5. ASSUME NEW i \in 1..n, NEW j \in 1..Len(ss[i])
      PROVE  \E k \in 1..Len(s) : s[k] = ss[i][j]
    <2>1. PICK k \in 1..Len(s) : r[k] = i /\ c[k] = j
        BY <1>3 DEF IsIndex
    <2>2. s[k] = ss[r[k]][c[k]]
        BY <1>3 DEF IsIndex
    <2> QED BY <2>1, <2>2
<1>6. Elements(s) \subseteq UNION {Elements(ss[i]) : i \in 1..n}
    BY <1>4 DEF Elements
<1>7. ASSUME NEW i \in 1..n
      PROVE  Elements(ss[i]) \subseteq Elements(s)
    BY <1>5 DEF Elements
<1> QED BY <1>2, <1>6, <1>7 DEF s

LEMMA KeptElements ==
    ASSUME NEW A, NEW n \in Nat, NEW ss \in [1..n -> Seq(A)], NEW K \in SUBSET 1..n, NEW g,
           \A i \in 1..n : ss[i] = IF i \in K THEN <<g[i]>> ELSE <<>>, \A i \in K : g[i] \in A
    PROVE  /\ ss \in Seq(Seq(A)) /\ Len(ss) = n
           /\ FlattenSeq(ss) \in Seq(A)
           /\ HasKept(K, g, FlattenSeq(ss))
<1> DEFINE s == FlattenSeq(ss)
<1>1. \A i \in 1..n : ss[i] = IF i \in K THEN <<g[i]>> ELSE <<>>
    OBVIOUS
<1>2. \A i \in 1..n : ss[i] \in Seq(A)
    BY <1>1
<1>3. ss \in Seq(Seq(A)) /\ Len(ss) = n
    BY <1>2
<1>4. s \in Seq(A)
    BY <1>3, Flattened
<1>5. PICK r, c : IsIndex(r, c, n, ss, s)
    BY <1>3, Flattened
<1> HIDE DEF s
<1>6. ASSUME NEW k \in 1..Len(s)
      PROVE  r[k] \in K /\ c[k] = 1 /\ s[k] = g[r[k]]
    <2>1. r[k] \in 1..n /\ c[k] \in 1..Len(ss[r[k]]) /\ s[k] = ss[r[k]][c[k]]
        BY <1>5 DEF IsIndex
    <2>2. r[k] \notin K => 1..Len(ss[r[k]]) = {}
        BY <1>1, <2>1
    <2>3. ss[r[k]] = <<g[r[k]]>> /\ r[k] \in K
        BY <1>1, <2>1, <2>2
    <2>4. Len(<<g[r[k]]>>) = 1 /\ <<g[r[k]]>>[1] = g[r[k]] /\ 1..1 = {1}
        OBVIOUS
    <2>5. c[k] = 1
        BY <2>1, <2>3, <2>4
    <2> QED BY <2>1, <2>3, <2>4, <2>5
<1>7. ASSUME NEW k \in 1..Len(s), NEW m \in 1..Len(s), k < m
      PROVE  r[k] < r[m]
    <2>1. r[k] <= r[m] /\ (r[k] # r[m] \/ c[k] # c[m])
        <3>1. k # m
            BY <1>7
        <3> QED BY <1>5, <1>7, <3>1 DEF IsIndex
    <2>2. c[k] = c[m] /\ r[k] \in 1..n /\ r[m] \in 1..n
        BY <1>6
    <2> QED BY <2>1, <2>2
<1>8. ASSUME NEW i \in K
      PROVE  \E k \in 1..Len(s) : r[k] = i
    <2>1. i \in 1..n /\ Len(ss[i]) = 1
        BY <1>1
    <2>2. 1 \in 1..Len(ss[i])
        BY <2>1
    <2> QED BY <1>5, <2>1, <2>2 DEF IsIndex
<1>9. IsKept(r, K, g, s)
    BY <1>6, <1>7, <1>8 DEF IsKept
<1> QED BY <1>3, <1>4, <1>9 DEF s, HasKept

-----------------------------------------------------------------------------
(* Powers of two. *)

ArePowers(P) == P \in [Nat -> Nat] /\ P[0] = 1 /\ \A n \in Nat : P[n + 1] = 2 * P[n]
Pow == CHOOSE P : ArePowers(P)

LEMMA PowDef == ArePowers(Pow)
<1> DEFINE step == [v \in Nat |-> 2 * v]
<1>1. ClosedUnder(Nat, step)
    BY DEF ClosedUnder
<1>2. PICK P : IsOrbit(P, Nat, 1, step)
    <2> HIDE DEF step
    <2> QED BY <1>1, NatRecursion
<1>3. P \in [Nat -> Nat] /\ P[0] = 1 /\ \A n \in Nat : P[n + 1] = step[P[n]]
    <2> HIDE DEF step
    <2> QED BY <1>2 DEF IsOrbit
<1>4. \A n \in Nat : P[n] \in Nat
    BY <1>3
<1>5. ArePowers(P)
    BY <1>3, <1>4 DEF ArePowers
<1> QED BY <1>5 DEF Pow

LEMMA PowFacts ==
    /\ \A n \in Nat : Pow[n] \in Nat /\ Pow[n] >= 1 /\ Pow[n + 1] = 2 * Pow[n]
    /\ \A a, b \in Nat : Pow[a] <= Pow[a + b]
    /\ \A a, b, x \in Nat : Pow[a + x] + Pow[b + x] <= Pow[((a + b) + 1) + x]
    /\ \A a, b \in Nat : Pow[a] + (b + 1) <= Pow[a + (b + 1)]
<1>1. \A n \in Nat : Pow[n] \in Nat /\ Pow[n + 1] = 2 * Pow[n]
    BY PowDef DEF ArePowers
<1>2. \A n \in Nat : Pow[n] >= 1
    <2> DEFINE S == {n \in Nat : Pow[n] >= 1}
    <2>1. 0 \in S
        BY PowDef DEF ArePowers
    <2>2. ASSUME NEW n \in Nat, n \in S PROVE n + 1 \in S
        BY <1>1, <2>2
    <2>3. Nat \subseteq S
        <3> HIDE DEF S
        <3> QED BY <2>1, <2>2, NatSetInduction
    <2> QED BY <2>3
<1>3. ASSUME NEW a \in Nat, NEW b \in Nat
      PROVE  Pow[a] <= Pow[a + b]
    <2> DEFINE S == {n \in Nat : Pow[a] <= Pow[a + n]}
    <2>1. 0 \in S
        <3>1. a + 0 = a /\ Pow[a] \in Nat
            BY <1>1
        <3> QED BY <3>1
    <2>2. ASSUME NEW n \in Nat, n \in S PROVE n + 1 \in S
        <3>1. a + (n + 1) = (a + n) + 1 /\ a + n \in Nat
            OBVIOUS
        <3>2. Pow[(a + n) + 1] = 2 * Pow[a + n] /\ Pow[a + n] \in Nat /\ Pow[a] \in Nat
            BY <1>1, <3>1
        <3>3. Pow[a] <= Pow[a + n]
            BY <2>2
        <3>4. Pow[a] <= Pow[a + (n + 1)]
            BY <3>1, <3>2, <3>3
        <3> QED BY <3>4
    <2>3. Nat \subseteq S
        <3> HIDE DEF S
        <3> QED BY <2>1, <2>2, NatSetInduction
    <2> QED BY <2>3
<1>4. ASSUME NEW a \in Nat, NEW b \in Nat, NEW x \in Nat
      PROVE  Pow[a + x] + Pow[b + x] <= Pow[((a + b) + 1) + x]
    <2> DEFINE c == (a + b) + x
    <2>1. (a + x) + b = c /\ (b + x) + a = c /\ c + 1 = ((a + b) + 1) + x /\ c \in Nat /\ a + x \in Nat /\ b + x \in Nat
        OBVIOUS
    <2>2. Pow[a + x] <= Pow[(a + x) + b] /\ Pow[b + x] <= Pow[(b + x) + a]
        BY <1>3, <2>1
    <2> HIDE DEF c
    <2>3. Pow[c + 1] = 2 * Pow[c] /\ Pow[c] \in Nat /\ Pow[a + x] \in Nat /\ Pow[b + x] \in Nat
        BY <1>1, <2>1
    <2>4. Pow[a + x] + Pow[b + x] <= Pow[c + 1]
        BY <2>1, <2>2, <2>3
    <2> QED BY <2>1, <2>4
<1>5. ASSUME NEW a \in Nat, NEW b \in Nat
      PROVE  Pow[a] + (b + 1) <= Pow[a + (b + 1)]
    <2> DEFINE S == {n \in Nat : Pow[a] + (n + 1) <= Pow[a + (n + 1)]}
    <2>1. 0 \in S
        <3>1. a + (0 + 1) = a + 1 /\ Pow[a + 1] = 2 * Pow[a] /\ Pow[a] \in Nat /\ Pow[a] >= 1
            BY <1>1, <1>2
        <3>2. Pow[a] + (0 + 1) <= Pow[a + (0 + 1)]
            BY <3>1
        <3> QED BY <3>2
    <2>2. ASSUME NEW n \in Nat, n \in S PROVE n + 1 \in S
        <3>1. a + ((n + 1) + 1) = (a + (n + 1)) + 1 /\ a + (n + 1) \in Nat
            OBVIOUS
        <3>2. /\ Pow[(a + (n + 1)) + 1] = 2 * Pow[a + (n + 1)] /\ Pow[a + (n + 1)] \in Nat
              /\ Pow[a] \in Nat /\ Pow[a] >= 1
            BY <1>1, <1>2, <3>1
        <3>3. Pow[a] + (n + 1) <= Pow[a + (n + 1)]
            BY <2>2
        <3>4. Pow[a] + ((n + 1) + 1) <= Pow[a + ((n + 1) + 1)]
            BY <3>1, <3>2, <3>3
        <3> QED BY <3>4
    <2>3. Nat \subseteq S
        <3> HIDE DEF S
        <3> QED BY <2>1, <2>2, NatSetInduction
    <2> QED BY <2>3
<1> QED BY <1>1, <1>2, <1>3, <1>4, <1>5

-----------------------------------------------------------------------------
(* What the recursive functions over patterns are. *)

CoreBody(f, pat) == IF pat.p = "alias" THEN f[pat.q] ELSE pat

LEMMA CoreDef ==
    /\ Core \in [Pats -> Pats]
    /\ \A pat \in Pats : Core[pat] = CoreBody(Core, pat)
<1> DEFINE H == [x \in [Pats -> Pats] \X Pats |-> CoreBody(x[1], x[2])]
           Is(f) == f = [pat \in Pats |-> CoreBody(f, pat)]
<1>1. ASSUME NEW f, NEW x \in Pats, \A y \in Pats : Size[y] < Size[x] => f[y] \in Pats
      PROVE  CoreBody(f, x) \in Pats
    BY <1>1, PatternParts DEF CoreBody
<1>2. ASSUME NEW f \in [Pats -> Pats], NEW x \in Pats
      PROVE  H[<<f, x>>] = CoreBody(f, x) /\ CoreBody(f, x) \in Pats
    BY <1>1
<1>3. ASSUME NEW f \in [Pats -> Pats], NEW x \in Pats, NEW g \in [Pats -> Pats],
             \A y \in Pats : Size[y] < Size[x] => f[y] = g[y]
      PROVE  H[<<f, x>>] = H[<<g, x>>]
    <2>1. CoreBody(f, x) = CoreBody(g, x)
        BY <1>3, PatternParts DEF CoreBody
    <2> HIDE DEF H
    <2> QED BY <1>2, <2>1
<1>4. Local(Pats, Size, Pats, H)
    <2> HIDE DEF H
    <2> QED BY <1>2, <1>3, Zenon DEF Local
<1>5. PICK f : f \in [Pats -> Pats] /\ \A x \in Pats : f[x] = H[<<f, x>>]
    <2>1. Pats # {}
        BY SizeType
    <2> HIDE DEF H
    <2>2. PICK f : Solution(f, Pats, Pats, H)
        BY <1>4, <2>1, SizeType, RankRecursion
    <2> QED BY <2>2, Zenon DEF Solution
<1>6. Is(f)
    <2>1. \A x \in Pats : f[x] = CoreBody(f, x)
        <3> HIDE DEF H
        <3> QED BY <1>2, <1>5
    <2> QED BY <1>5, <2>1
<1>7. Core = CHOOSE h : Is(h)
    BY Zenon DEF Core, CoreBody
<1>8. Is(Core)
    <2> HIDE DEF Is
    <2> QED BY <1>6, <1>7
<1> DEFINE S == {x \in Pats : Core[x] \in Pats}
<1>9. ASSUME NEW x \in Pats, \A y \in Pats : Size[y] < Size[x] => y \in S
      PROVE  x \in S
    <2>1. Core[x] = CoreBody(Core, x)
        BY <1>8
    <2> QED BY <1>1, <1>9, <2>1
<1>10. Pats \subseteq S
    <2> HIDE DEF S
    <2> QED BY <1>9, SizeType, RankInduction
<1> QED BY <1>8, <1>10

WildKey == [p |-> "wild", tag |-> "wild"]
KeyBody(f, pat) ==
    IF IsWild(pat) THEN WildKey
    ELSE IF pat.p = "or" THEN f[pat.l]
    ELSE IF pat.p = "alias" THEN f[pat.q]
    ELSE [p |-> pat.p, tag |-> pat.tag]
KeysOfPats == {WildKey} \cup {[p |-> pat.p, tag |-> pat.tag] : pat \in Pats}

LEMMA KeyOfDef == \A pat \in Pats : KeyOf[pat] = KeyBody(KeyOf, pat)
<1> DEFINE V == KeysOfPats
           H == [x \in [Pats -> V] \X Pats |-> KeyBody(x[1], x[2])]
           Is(f) == f = [pat \in Pats |-> KeyBody(f, pat)]
<1>2. ASSUME NEW f \in [Pats -> V], NEW x \in Pats
      PROVE  H[<<f, x>>] = KeyBody(f, x) /\ KeyBody(f, x) \in V
    <2>1. H[<<f, x>>] = KeyBody(f, x)
        OBVIOUS
    <2> HIDE DEF H
    <2>2. (x.p = "or" => x.l \in Pats) /\ (x.p = "alias" => x.q \in Pats)
        BY PatternParts
    <2>3. WildKey \in V /\ [p |-> x.p, tag |-> x.tag] \in V
        BY DEF KeysOfPats
    <2> HIDE DEF V
    <2> QED BY <2>1, <2>2, <2>3 DEF KeyBody
<1>3. ASSUME NEW f \in [Pats -> V], NEW x \in Pats, NEW g \in [Pats -> V],
             \A y \in Pats : Size[y] < Size[x] => f[y] = g[y]
      PROVE  H[<<f, x>>] = H[<<g, x>>]
    <2> HIDE DEF H, V
    <2>1. (x.p = "or" => f[x.l] = g[x.l]) /\ (x.p = "alias" => f[x.q] = g[x.q])
        BY <1>3, PatternParts
    <2>2. KeyBody(f, x) = KeyBody(g, x)
        BY <2>1 DEF KeyBody
    <2> QED BY <1>2, <2>2
<1>4. Local(Pats, Size, V, H)
    <2> HIDE DEF H, V
    <2> QED BY <1>2, <1>3, Zenon DEF Local
<1>5. PICK f : f \in [Pats -> V] /\ \A x \in Pats : f[x] = H[<<f, x>>]
    <2>1. V # {}
        BY DEF KeysOfPats
    <2> HIDE DEF H, V
    <2>2. PICK f : Solution(f, Pats, V, H)
        BY <1>4, <2>1, SizeType, RankRecursion
    <2> QED BY <2>2, Zenon DEF Solution
<1>6. Is(f)
    <2> HIDE DEF H, V
    <2>1. \A x \in Pats : f[x] = KeyBody(f, x)
        BY <1>2, <1>5
    <2> QED BY <1>5, <2>1
<1>7. KeyOf = CHOOSE h : Is(h)
    BY Zenon DEF KeyOf, KeyBody, WildKey
<1>8. Is(KeyOf)
    <2> HIDE DEF Is
    <2> QED BY <1>6, <1>7
<1> QED BY <1>8

OptionsBody(f, pat) == IF pat.p = "or" THEN f[pat.l] \o f[pat.r] ELSE <<pat>>

LEMMA OptionsDef ==
    /\ Options \in [Pats -> Seq(Pats)]
    /\ \A pat \in Pats : Options[pat] = OptionsBody(Options, pat)
<1> DEFINE V == Seq(Pats)
           H == [x \in [Pats -> V] \X Pats |-> OptionsBody(x[1], x[2])]
           Is(f) == f = [pat \in Pats |-> OptionsBody(f, pat)]
<1>1. ASSUME NEW f, NEW x \in Pats, \A y \in Pats : Size[y] < Size[x] => f[y] \in V
      PROVE  OptionsBody(f, x) \in V
    <2>1. CASE x.p = "or"
        <3>1. f[x.l] \in V /\ f[x.r] \in V
            BY <1>1, <2>1, PatternParts
        <3>2. f[x.l] \o f[x.r] \in V
            BY <3>1, ConcatProperties
        <3> QED BY <2>1, <3>2 DEF OptionsBody
    <2>2. CASE x.p # "or"
        <3>1. <<x>> \in V
            OBVIOUS
        <3> HIDE DEF V
        <3> QED BY <2>2, <3>1 DEF OptionsBody
    <2> QED BY <2>1, <2>2
<1>2. ASSUME NEW f \in [Pats -> V], NEW x \in Pats
      PROVE  H[<<f, x>>] = OptionsBody(f, x) /\ OptionsBody(f, x) \in V
    <2>1. H[<<f, x>>] = OptionsBody(f, x)
        OBVIOUS
    <2>2. \A y \in Pats : f[y] \in V
        OBVIOUS
    <2> HIDE DEF H, V
    <2> QED BY <1>1, <2>1, <2>2
<1>3. ASSUME NEW f \in [Pats -> V], NEW x \in Pats, NEW g \in [Pats -> V],
             \A y \in Pats : Size[y] < Size[x] => f[y] = g[y]
      PROVE  H[<<f, x>>] = H[<<g, x>>]
    <2> HIDE DEF H, V
    <2>1. x.p = "or" => f[x.l] = g[x.l] /\ f[x.r] = g[x.r]
        BY <1>3, PatternParts
    <2>2. OptionsBody(f, x) = OptionsBody(g, x)
        BY <2>1 DEF OptionsBody
    <2> QED BY <1>2, <2>2
<1>4. Local(Pats, Size, V, H)
    <2> HIDE DEF H, V
    <2> QED BY <1>2, <1>3, Zenon DEF Local
<1>5. PICK f : f \in [Pats -> V] /\ \A x \in Pats : f[x] = H[<<f, x>>]
    <2>1. V # {}
        BY EmptySeq
    <2> HIDE DEF H, V
    <2>2. PICK f : Solution(f, Pats, V, H)
        BY <1>4, <2>1, SizeType, RankRecursion
    <2> QED BY <2>2, Zenon DEF Solution
<1>6. Is(f)
    <2> HIDE DEF H, V
    <2>1. \A x \in Pats : f[x] = OptionsBody(f, x)
        BY <1>2, <1>5
    <2> QED BY <1>5, <2>1
<1>7. Options = CHOOSE h : Is(h)
    BY Zenon DEF Options, OptionsBody
<1>8. Is(Options)
    <2> HIDE DEF Is
    <2> QED BY <1>6, <1>7
<1> DEFINE S == {x \in Pats : Options[x] \in V}
<1>9. ASSUME NEW x \in Pats, \A y \in Pats : Size[y] < Size[x] => y \in S
      PROVE  x \in S
    <2>1. Options[x] = OptionsBody(Options, x)
        BY <1>8
    <2>2. \A y \in Pats : Size[y] < Size[x] => Options[y] \in V
        BY <1>9
    <2> HIDE DEF V
    <2> QED BY <1>1, <2>1, <2>2
<1>10. Pats \subseteq S
    <2> HIDE DEF S
    <2> QED BY <1>9, SizeType, RankInduction
<1> HIDE DEF V
<1> QED BY <1>8, <1>10 DEF V

\* Steps and places.
LEMMA StepFacts ==
    ASSUME NEW pat \in Pats, HasParts(pat), NEW i \in DOMAIN pat.args
    PROVE  /\ PartOf(pat, i) \in Nat /\ Field(PartOf(pat, i)) \in Steps /\ StepTo(pat, i) \in Steps
           /\ pat.p = "ctor" => EnumItem(pat.tag) \in Steps
<1>1. i \in Nat /\ PartOf(pat, i) \in Nat
    <2>1. pat.args \in Seq(Pats) /\ (pat.p = "struct" => pat.fields \in Seq(Nat) /\ Len(pat.fields) = Len(pat.args))
        BY PatternParts
    <2>2. i \in 1..Len(pat.args)
        BY <2>1
    <2>3. pat.p = "struct" => pat.fields[i] \in Nat
        BY <2>1, <2>2
    <2> QED BY <2>2, <2>3 DEF PartOf
<1>2. \A n \in Nat : Field(n) \in Steps
    BY DEF Field, Steps
<1>3. \A n \in Nat : pat.p = "ctor" => [ctor |-> pat.tag, part |-> n] \in Steps
    BY DEF Steps
<1> QED BY <1>1, <1>2, <1>3 DEF StepTo, EnumItem

LEMMA AtIsPlace ==
    ASSUME NEW place \in Places, NEW step \in Steps
    PROVE  /\ At(place, step) \in Places
           /\ At(place, step).path = Append(place.path, step)
           /\ At(place, step).type = StepType(place.type, step)
<1>1. place.path \in Seq(Steps) /\ place.type \in TypeNames \cup {NoType}
    BY DEF Places
<1>2. Append(place.path, step) \in Seq(Steps)
    BY <1>1
<1>3. StepType(place.type, step) \in TypeNames \cup {NoType}
    <2> DEFINE t == place.type
               ctors == {c \in Tags(t) : /\ IF step.ctor = NoCtor THEN Shape[t].kind \in {"tuple", "struct"}
                                                            ELSE Shape[t].kind = "ctor" /\ c = step.ctor
                                         /\ step.part \in DOMAIN Shape[t].parts[c]}
               c == CHOOSE c \in ctors : TRUE
    <2>1. CASE t = NoType
        BY <2>1 DEF StepType
    <2>2. CASE t # NoType /\ ctors = {}
        BY <2>2 DEF StepType
    <2>3. CASE t # NoType /\ ctors # {}
        <3>1. t \in TypeNames /\ c \in ctors
            BY <1>1, <2>3
        <3>2. c \in Tags(t) /\ step.part \in DOMAIN Shape[t].parts[c]
            BY <3>1
        <3>3. StepType(t, step) = Shape[t].parts[c][step.part]
            BY <2>3 DEF StepType
        <3> HIDE DEF c, t
        <3>4. Shape[t].parts[c] \in Seq(TypeNames)
            BY <3>1, <3>2, TypeFacts
        <3>5. Shape[t].parts[c][step.part] \in TypeNames
            BY <3>2, <3>4
        <3> QED BY <3>3, <3>5 DEF t
    <2> QED BY <2>1, <2>2, <2>3
<1> QED BY <1>2, <1>3 DEF At, Places

BindableBody(f, pat, place) ==
    /\ pat.p \in {"bind", "alias"} => place.type # NoType
    /\ pat.p = "alias" => f[<<pat.q, place>>]
    /\ pat.p = "ctor" /\ pat.args # <<>> => f[<<pat.args[1], place>>]
    /\ pat.p = "struct" => place.type # NoType /\ Shape[place.type].kind = "struct"
    /\ pat.p \in {"tuple", "struct"} =>
        \A i \in DOMAIN pat.args : f[<<pat.args[i], At(place, Field(PartOf(pat, i)))>>]

LEMMA BindableLocal ==
    ASSUME NEW f, NEW g, NEW pat \in Pats, NEW place \in Places,
           \A y \in Pats, z \in Places : Size[y] < Size[pat] => f[<<y, z>>] = g[<<y, z>>]
    PROVE  BindableBody(f, pat, place) = BindableBody(g, pat, place)
<1>1. pat.p = "alias" => f[<<pat.q, place>>] = g[<<pat.q, place>>]
    BY PatternParts
<1>2. pat.p = "ctor" /\ pat.args # <<>> => f[<<pat.args[1], place>>] = g[<<pat.args[1], place>>]
    <2>1. ASSUME pat.p = "ctor", pat.args # <<>>
          PROVE  HasParts(pat) /\ 1 \in DOMAIN pat.args
        <3>1. HasParts(pat) /\ pat.args \in Seq(Pats)
            BY <2>1, PatternParts DEF HasParts
        <3> QED BY <2>1, <3>1
    <2> QED BY <2>1, PatternParts
<1>3. ASSUME pat.p \in {"tuple", "struct"}, NEW i \in DOMAIN pat.args
      PROVE  f[<<pat.args[i], At(place, Field(PartOf(pat, i)))>>] = g[<<pat.args[i], At(place, Field(PartOf(pat, i)))>>]
    <2>1. HasParts(pat)
        BY <1>3 DEF HasParts
    <2>2. At(place, Field(PartOf(pat, i))) \in Places
        BY <2>1, StepFacts, AtIsPlace
    <2> QED BY <2>1, <2>2, PatternParts
<1> QED BY <1>1, <1>2, <1>3 DEF BindableBody

LEMMA BindableDef ==
    ASSUME NEW pat \in Pats, NEW place \in Places
    PROVE  Bindable[<<pat, place>>] = BindableBody(Bindable, pat, place)
<1> DEFINE C == Pats \X Places
           R == [m \in C |-> Size[m[1]]]
           H == [x \in [C -> BOOLEAN] \X C |-> BindableBody(x[1], x[2][1], x[2][2])]
           Is(f) == f = [m \in C |-> BindableBody(f, m[1], m[2])]
<1>1. Local(C, R, BOOLEAN, H)
    <2>1. ASSUME NEW f \in [C -> BOOLEAN], NEW x \in C
          PROVE  H[<<f, x>>] = BindableBody(f, x[1], x[2]) /\ BindableBody(f, x[1], x[2]) \in BOOLEAN
        BY DEF BindableBody
    <2>2. ASSUME NEW f \in [C -> BOOLEAN], NEW x \in C, NEW g \in [C -> BOOLEAN],
                 \A y \in C : R[y] < R[x] => f[y] = g[y]
          PROVE  H[<<f, x>>] = H[<<g, x>>]
        <3>1. x[1] \in Pats /\ x[2] \in Places /\ R[x] = Size[x[1]]
            OBVIOUS
        <3>2. ASSUME NEW y \in Pats, NEW z \in Places, Size[y] < Size[x[1]]
              PROVE  f[<<y, z>>] = g[<<y, z>>]
            <4>1. <<y, z>> \in C /\ R[<<y, z>>] = Size[y]
                OBVIOUS
            <4> HIDE DEF C, R
            <4> QED BY <2>2, <3>1, <3>2, <4>1
        <3>3. BindableBody(f, x[1], x[2]) = BindableBody(g, x[1], x[2])
            <4> DEFINE p == x[1]
                       q == x[2]
            <4>1. p \in Pats /\ q \in Places /\ \A y \in Pats, z \in Places : Size[y] < Size[p] => f[<<y, z>>] = g[<<y, z>>]
                BY <3>1, <3>2
            <4> HIDE DEF C, R, H, p, q
            <4>2. BindableBody(f, p, q) = BindableBody(g, p, q)
                BY <4>1, BindableLocal
            <4> QED BY <4>2 DEF p, q
        <3> HIDE DEF H, C, R
        <3> QED BY <2>1, <3>3
    <2> HIDE DEF H, C, R
    <2> QED BY <2>1, <2>2, Zenon DEF Local
<1>2. \E f : Is(f)
    <2>1. PICK f : Solution(f, C, BOOLEAN, H)
        <3>1. R \in [C -> Nat] /\ TRUE \in BOOLEAN
            BY SizeType
        <3> HIDE DEF H, C, R
        <3> QED BY <1>1, <3>1, RankRecursion
    <2>2. f \in [C -> BOOLEAN] /\ \A x \in C : f[x] = H[<<f, x>>]
        <3> HIDE DEF H, C
        <3> QED BY <2>1 DEF Solution
    <2>3. \A x \in C : f[x] = BindableBody(f, x[1], x[2])
        <3> HIDE DEF C
        <3> QED BY <2>2
    <2>4. Is(f)
        <3> HIDE DEF C
        <3> QED BY <2>2, <2>3
    <2> QED BY <2>4
<1>3. Bindable = CHOOSE f : Is(f)
    BY Zenon DEF Bindable, BindableBody
<1>4. Is(Bindable)
    <2> HIDE DEF Is
    <2> QED BY <1>2, <1>3
<1>5. <<pat, place>> \in C
    OBVIOUS
<1>6. Bindable[<<pat, place>>] = BindableBody(Bindable, <<pat, place>>[1], <<pat, place>>[2])
    <2> HIDE DEF C
    <2> QED BY <1>4, <1>5
<1> QED BY <1>6

\* The patterns in parts of pat, with the way to the place.
Below(f, pat, i) == {<<<<StepTo(pat, i)>> \o o[1], o[2]>> : o \in f[pat.args[i]]}
StandingBody(f, pat) ==
    {<<<<>>, pat>>} \cup
    IF HasParts(pat) THEN UNION {Below(f, pat, i) : i \in DOMAIN pat.args}
    ELSE UNION {f[q] : q \in Children(pat)}

LEMMA StandingDef == \A pat \in Pats : Standing[pat] = StandingBody(Standing, pat)
<1> DEFINE V == SUBSET (Seq(Steps) \X Pats)
           H == [x \in [Pats -> V] \X Pats |-> StandingBody(x[1], x[2])]
           Is(f) == f = [pat \in Pats |-> StandingBody(f, pat)]
<1>1. ASSUME NEW f \in [Pats -> V], NEW x \in Pats
      PROVE  StandingBody(f, x) \in V
    <2>1. <<<<>>, x>> \in Seq(Steps) \X Pats
        <3>1. <<>> \in Seq(Steps)
            OBVIOUS
        <3> QED BY <3>1
    <2>2. ASSUME HasParts(x), NEW i \in DOMAIN x.args
          PROVE  Below(f, x, i) \subseteq Seq(Steps) \X Pats
        <3>1. StepTo(x, i) \in Steps /\ x.args[i] \in Pats
            BY <2>2, StepFacts, PatternParts
        <3>2. f[x.args[i]] \subseteq Seq(Steps) \X Pats
            BY <3>1
        <3>3. ASSUME NEW o \in Seq(Steps) \X Pats
              PROVE  <<<<StepTo(x, i)>> \o o[1], o[2]>> \in Seq(Steps) \X Pats
            <4>1. <<StepTo(x, i)>> \in Seq(Steps) /\ o[1] \in Seq(Steps) /\ o[2] \in Pats
                BY <3>1
            <4>2. <<StepTo(x, i)>> \o o[1] \in Seq(Steps)
                BY <4>1, ConcatProperties
            <4> QED BY <4>1, <4>2
        <3> QED BY <3>2, <3>3 DEF Below
    <2>3. \A q \in Children(x) : f[q] \subseteq Seq(Steps) \X Pats
        BY ChildrenSmaller
    <2> QED BY <2>1, <2>2, <2>3 DEF StandingBody
<1>2. ASSUME NEW f \in [Pats -> V], NEW x \in Pats
      PROVE  H[<<f, x>>] = StandingBody(f, x) /\ StandingBody(f, x) \in V
    <2>1. H[<<f, x>>] = StandingBody(f, x)
        OBVIOUS
    <2> HIDE DEF H, V
    <2> QED BY <1>1, <2>1
<1>3. ASSUME NEW f \in [Pats -> V], NEW x \in Pats, NEW g \in [Pats -> V],
             \A y \in Pats : Size[y] < Size[x] => f[y] = g[y]
      PROVE  H[<<f, x>>] = H[<<g, x>>]
    <2> HIDE DEF H, V
    <2>1. HasParts(x) => \A i \in DOMAIN x.args : Below(f, x, i) = Below(g, x, i)
        BY <1>3, PatternParts DEF Below
    <2>2. \A q \in Children(x) : f[q] = g[q]
        BY <1>3, ChildrenSmaller
    <2>3. StandingBody(f, x) = StandingBody(g, x)
        <3>1. CASE HasParts(x)
            <4>1. {Below(f, x, i) : i \in DOMAIN x.args} = {Below(g, x, i) : i \in DOMAIN x.args}
                BY <2>1, <3>1
            <4> QED BY <3>1, <4>1 DEF StandingBody
        <3>2. CASE ~HasParts(x)
            <4>1. {f[q] : q \in Children(x)} = {g[q] : q \in Children(x)}
                BY <2>2
            <4> QED BY <3>2, <4>1 DEF StandingBody
        <3> QED BY <3>1, <3>2
    <2> QED BY <1>2, <2>3
<1>4. Local(Pats, Size, V, H)
    <2> HIDE DEF H, V
    <2> QED BY <1>2, <1>3, Zenon DEF Local
<1>5. PICK f : f \in [Pats -> V] /\ \A x \in Pats : f[x] = H[<<f, x>>]
    <2>1. {} \in V
        OBVIOUS
    <2> HIDE DEF H, V
    <2>2. PICK f : Solution(f, Pats, V, H)
        BY <1>4, <2>1, SizeType, RankRecursion
    <2> QED BY <2>2, Zenon DEF Solution
<1>6. Is(f)
    <2> HIDE DEF H, V
    <2>1. \A x \in Pats : f[x] = StandingBody(f, x)
        BY <1>2, <1>5
    <2> QED BY <1>5, <2>1
<1>7. Standing = CHOOSE h : Is(h)
    BY Zenon DEF Standing, StandingBody, Below
<1>8. Is(Standing)
    <2> HIDE DEF Is
    <2> QED BY <1>6, <1>7
<1> QED BY <1>8

-----------------------------------------------------------------------------
(* The recursion of Compile ends: a matrix weighs more than those it needs. *)

BulkBody(f, pat) ==
    IF HasParts(pat) THEN (Total(f, pat.args) + Len(pat.args)) + 1
    ELSE IF pat.p = "or" THEN (f[pat.l] + f[pat.r]) + 1
    ELSE IF pat.p = "alias" THEN f[pat.q]
    ELSE 0

AreBulks(f) == f \in [Pats -> Nat] /\ \A pat \in Pats : f[pat] = BulkBody(f, pat)
Bulk == CHOOSE f : AreBulks(f)

LEMMA BulkDef == AreBulks(Bulk)
<1> DEFINE H == [x \in [Pats -> Nat] \X Pats |-> BulkBody(x[1], x[2])]
<1>1. ASSUME NEW f \in [Pats -> Nat], NEW x \in Pats
      PROVE  BulkBody(f, x) \in Nat
    <2>1. HasParts(x) => x.args \in Seq(Pats)
        BY PatternParts
    <2>2. HasParts(x) => Total(f, x.args) \in Nat /\ Len(x.args) \in Nat
        <3>1. ASSUME HasParts(x) PROVE Total(f, x.args) \in Nat
            BY <2>1, <3>1, SumFacts
        <3> QED BY <2>1, <3>1
    <2>3. (x.p = "or" => f[x.l] \in Nat /\ f[x.r] \in Nat) /\ (x.p = "alias" => f[x.q] \in Nat)
        BY PatternParts
    <2> QED BY <2>2, <2>3 DEF BulkBody
<1>2. ASSUME NEW f \in [Pats -> Nat], NEW x \in Pats
      PROVE  H[<<f, x>>] = BulkBody(f, x) /\ BulkBody(f, x) \in Nat
    <2>1. H[<<f, x>>] = BulkBody(f, x)
        OBVIOUS
    <2> HIDE DEF H
    <2> QED BY <1>1, <2>1
<1>3. ASSUME NEW f \in [Pats -> Nat], NEW x \in Pats, NEW g \in [Pats -> Nat],
             \A y \in Pats : Size[y] < Size[x] => f[y] = g[y]
      PROVE  H[<<f, x>>] = H[<<g, x>>]
    <2> HIDE DEF H
    <2>1. HasParts(x) => Total(f, x.args) = Total(g, x.args)
        <3>1. HasParts(x) => x.args \in Seq(Pats) /\ \A i \in 1..Len(x.args) : f[x.args[i]] = g[x.args[i]]
            <4>1. HasParts(x) => x.args \in Seq(Pats) /\ \A i \in DOMAIN x.args : x.args[i] \in Pats /\ Size[x.args[i]] < Size[x]
                BY PatternParts
            <4>2. HasParts(x) => DOMAIN x.args = 1..Len(x.args)
                BY <4>1
            <4> QED BY <1>3, <4>1, <4>2
        <3> DEFINE s == x.args
        <3>2. ASSUME s \in Seq(Pats), \A i \in 1..Len(s) : f[s[i]] = g[s[i]]
              PROVE  Total(f, s) = Total(g, s)
            <4> HIDE DEF s
            <4> QED BY <3>2, SumLocal
        <3> QED BY <3>1, <3>2
    <2>2. (x.p = "or" => f[x.l] = g[x.l] /\ f[x.r] = g[x.r]) /\ (x.p = "alias" => f[x.q] = g[x.q])
        BY <1>3, PatternParts
    <2>3. BulkBody(f, x) = BulkBody(g, x)
        BY <2>1, <2>2 DEF BulkBody
    <2> QED BY <1>2, <2>3
<1>4. Local(Pats, Size, Nat, H)
    <2> HIDE DEF H
    <2> QED BY <1>2, <1>3, Zenon DEF Local
<1>5. PICK f : Solution(f, Pats, Nat, H)
    <2> HIDE DEF H
    <2>1. Nat # {}
        OBVIOUS
    <2> QED BY <1>4, <2>1, SizeType, RankRecursion
<1>6. f \in [Pats -> Nat] /\ \A x \in Pats : f[x] = H[<<f, x>>]
    <2> HIDE DEF H
    <2> QED BY <1>5, Zenon DEF Solution
<1>7. AreBulks(f)
    <2> HIDE DEF H
    <2> QED BY <1>2, <1>6 DEF AreBulks
<1> QED BY <1>7 DEF Bulk

LEMMA BulkFacts ==
    /\ Bulk \in [Pats -> Nat]
    /\ \A pat \in Pats : Bulk[pat] = BulkBody(Bulk, pat)
    BY BulkDef DEF AreBulks

\* The weight of a row whose patterns are pat and some with bulk x.
With(x) == [pat \in Pats |-> Pow[Bulk[pat] + x]]

LEMMA WithType == ASSUME NEW x \in Nat PROVE With(x) \in [Pats -> Nat]
<1>1. \A pat \in Pats : Bulk[pat] + x \in Nat
    BY BulkFacts
<1>2. \A pat \in Pats : Pow[Bulk[pat] + x] \in Nat
    BY <1>1, PowFacts
<1> QED BY <1>2 DEF With

LEMMA OptionsWeigh ==
    ASSUME NEW x \in Nat, NEW pat \in Pats
    PROVE  Total(With(x), Options[pat]) <= With(x)[pat]
<1> DEFINE w == With(x)
           S == {y \in Pats : Total(w, Options[y]) <= w[y]}
<1>1. w \in [Pats -> Nat]
    BY WithType
<1>2. \A y \in Pats : w[y] = Pow[Bulk[y] + x]
    BY DEF With
<1> HIDE DEF w
<1>3. ASSUME NEW y \in Pats, \A z \in Pats : Size[z] < Size[y] => z \in S
      PROVE  y \in S
    <2>1. CASE y.p = "or"
        <3>1. y.l \in S /\ y.r \in S /\ y.l \in Pats /\ y.r \in Pats
            BY <1>3, <2>1, PatternParts
        <3>2. Options[y] = Options[y.l] \o Options[y.r] /\ Options[y.l] \in Seq(Pats) /\ Options[y.r] \in Seq(Pats)
            BY <2>1, <3>1, OptionsDef DEF OptionsBody
        <3>3. Total(w, Options[y]) = Total(w, Options[y.l]) + Total(w, Options[y.r])
            BY <1>1, <3>2, SumConcat
        <3>4. Total(w, Options[y.l]) \in Nat /\ Total(w, Options[y.r]) \in Nat
            BY <1>1, <3>2, SumFacts
        <3>5. Bulk[y] = (Bulk[y.l] + Bulk[y.r]) + 1
            BY <2>1, BulkFacts DEF BulkBody, HasParts
        <3>6. Bulk[y.l] \in Nat /\ Bulk[y.r] \in Nat
            BY <3>1, BulkFacts
        <3>7. w[y.l] = Pow[Bulk[y.l] + x] /\ w[y.r] = Pow[Bulk[y.r] + x]
            BY <1>2, <3>1
        <3>8. w[y] = Pow[((Bulk[y.l] + Bulk[y.r]) + 1) + x]
            BY <1>2, <3>5
        <3> DEFINE a == Bulk[y.l]
                   b == Bulk[y.r]
        <3>9. Pow[a + x] + Pow[b + x] <= Pow[((a + b) + 1) + x]
            <4> HIDE DEF a, b
            <4>1. a \in Nat /\ b \in Nat
                BY <3>6 DEF a, b
            <4> QED BY <4>1, PowFacts
        <3>10. w[y.l] + w[y.r] <= w[y]
            BY <3>7, <3>8, <3>9
        <3>11. w[y.l] \in Nat /\ w[y.r] \in Nat /\ w[y] \in Nat
            BY <1>1, <3>1
        <3>12. Total(w, Options[y.l]) <= w[y.l] /\ Total(w, Options[y.r]) <= w[y.r]
            BY <3>1
        <3>13. Total(w, Options[y]) <= w[y]
            BY <3>3, <3>4, <3>10, <3>11, <3>12
        <3> QED BY <3>13
    <2>2. CASE y.p # "or"
        <3>1. Options[y] = <<y>>
            BY <2>2, OptionsDef DEF OptionsBody
        <3>2. Total(w, <<y>>) = w[y] /\ w[y] \in Nat
            BY <1>1, SumFacts
        <3> QED BY <3>1, <3>2
    <2> QED BY <2>1, <2>2
<1>4. Pats \subseteq S
    <2> HIDE DEF S
    <2> QED BY <1>3, SizeType, RankInduction
<1>5. pat \in S
    BY <1>4
<1> QED BY <1>5 DEF w

RowWeight == [row \in MatrixRows |-> Pow[Total(Bulk, row.pats)]]
Weigh == [m \in Matrices |-> Total(RowWeight, m[1]) + Len(m[2])]

LEMMA RowWeightFacts ==
    /\ RowWeight \in [MatrixRows -> Nat]
    /\ \A row \in MatrixRows : /\ row.pats \in Seq(Pats) /\ Total(Bulk, row.pats) \in Nat
                               /\ RowWeight[row] = Pow[Total(Bulk, row.pats)] /\ RowWeight[row] >= 1
<1>1. \A row \in MatrixRows : row.pats \in Seq(Pats)
    BY DEF MatrixRows
<1>2. \A row \in MatrixRows : Total(Bulk, row.pats) \in Nat
    BY <1>1, BulkFacts, SumFacts
<1>3. \A row \in MatrixRows : Pow[Total(Bulk, row.pats)] \in Nat /\ Pow[Total(Bulk, row.pats)] >= 1
    BY <1>2, PowFacts
<1>4. RowWeight \in [MatrixRows -> Nat]
    BY <1>3 DEF RowWeight
<1>5. \A row \in MatrixRows : RowWeight[row] = Pow[Total(Bulk, row.pats)]
    BY DEF RowWeight
<1> QED BY <1>1, <1>2, <1>3, <1>4, <1>5

LEMMA RowWith ==
    ASSUME NEW row \in MatrixRows, NEW pats \in Seq(Pats)
    PROVE  /\ [row EXCEPT !.pats = pats] \in MatrixRows
           /\ [row EXCEPT !.pats = pats].pats = pats
           /\ [row EXCEPT !.pats = pats].arm = row.arm
           /\ [row EXCEPT !.pats = pats].guard = row.guard
    BY DEF MatrixRows

\* The rows for the alternatives of the first pattern of row.
LEMMA ExpandFacts ==
    ASSUME NEW row \in MatrixRows, row.pats # <<>>
    PROVE  LET heads == Options[row.pats[1]]
           IN  /\ Expand(row) \in Seq(MatrixRows) /\ Len(Expand(row)) = Len(heads)
               /\ heads \in Seq(Pats)
               /\ \A k \in 1..Len(heads) :
                    /\ Expand(row)[k].pats = <<heads[k]>> \o Tail(row.pats)
                    /\ Expand(row)[k].arm = row.arm /\ Expand(row)[k].guard = row.guard
<1> DEFINE heads == Options[row.pats[1]]
           E == Expand(row)
<1>1. row.pats \in Seq(Pats) /\ row.pats[1] \in Pats /\ Tail(row.pats) \in Seq(Pats)
    <2>1. row.pats \in Seq(Pats)
        BY DEF MatrixRows
    <2> QED BY <2>1
<1>2. heads \in Seq(Pats)
    BY <1>1, OptionsDef
<1>3. E = [k \in DOMAIN heads |-> [row EXCEPT !.pats = <<heads[k]>> \o Tail(@)]]
    BY DEF Expand
<1> HIDE DEF heads, E
<1>4. ASSUME NEW k \in 1..Len(heads)
      PROVE  /\ E[k] \in MatrixRows /\ E[k].pats = <<heads[k]>> \o Tail(row.pats)
             /\ E[k].arm = row.arm /\ E[k].guard = row.guard
    <2> DEFINE pats == <<heads[k]>> \o Tail(row.pats)
    <2>1. <<heads[k]>> \in Seq(Pats)
        BY <1>2
    <2>2. pats \in Seq(Pats)
        BY <1>1, <2>1, ConcatProperties
    <2>3. k \in DOMAIN heads
        BY <1>2
    <2>4. E[k] = [row EXCEPT !.pats = pats]
        BY <1>3, <2>3
    <2> HIDE DEF pats
    <2>5. /\ E[k] \in MatrixRows /\ E[k].pats = pats
          /\ E[k].arm = row.arm /\ E[k].guard = row.guard
        BY <2>2, <2>4, RowWith
    <2> QED BY <2>5 DEF pats
<1>5. DOMAIN heads = 1..Len(heads) /\ Len(heads) \in Nat
    BY <1>2
<1>6. E \in Seq(MatrixRows) /\ Len(E) = Len(heads)
    <2>1. DOMAIN E = 1..Len(heads)
        BY <1>3, <1>5
    <2>2. E \in [1..Len(heads) -> MatrixRows]
        BY <1>3, <1>4, <2>1, <1>5
    <2> QED BY <2>2, <1>5, SeqDef
<1> QED BY <1>2, <1>4, <1>6 DEF heads, E

\* All of Expanded: rows of the alternatives of the first patterns.
IsExpansion(r, c, rows) ==
    LET E == Expanded(rows)
    IN  /\ \A k \in 1..Len(E) : r[k] \in 1..Len(rows) /\ c[k] \in 1..Len(Expand(rows[r[k]])) /\ E[k] = Expand(rows[r[k]])[c[k]]
        /\ \A i \in 1..Len(rows) : \A j \in 1..Len(Expand(rows[i])) : \E k \in 1..Len(E) : r[k] = i /\ c[k] = j
        /\ \A k, m \in 1..Len(E) : k < m => r[k] <= r[m]
        /\ \A k, m \in 1..Len(E) : k # m => r[k] # r[m] \/ c[k] # c[m]
        /\ \A k, m \in 1..Len(E) : k < m /\ r[k] = r[m] => c[k] < c[m]

LEMMA ExpandType ==
    ASSUME NEW row \in MatrixRows
    PROVE  /\ Expand(row) \in Seq(MatrixRows)
           /\ row.pats = <<>> => Expand(row) = <<row>>
<1>1. row.pats = <<>> => Expand(row) = <<row>>
    BY DEF Expand
<1>2. <<row>> \in Seq(MatrixRows)
    OBVIOUS
<1>3. row.pats # <<>> => Expand(row) \in Seq(MatrixRows)
    BY ExpandFacts
<1> QED BY <1>1, <1>2, <1>3

LEMMA ExpandedFacts ==
    ASSUME NEW rows \in Seq(MatrixRows)
    PROVE  /\ Expanded(rows) \in Seq(MatrixRows)
           /\ \E r, c : IsExpansion(r, c, rows)
           /\ [i \in DOMAIN rows |-> Expand(rows[i])] \in Seq(Seq(MatrixRows))
           /\ Len([i \in DOMAIN rows |-> Expand(rows[i])]) = Len(rows)
<1> DEFINE n == Len(rows)
           ss == [i \in DOMAIN rows |-> Expand(rows[i])]
<1>1. n \in Nat /\ DOMAIN rows = 1..n /\ \A i \in 1..n : rows[i] \in MatrixRows
    OBVIOUS
<1>2. Expanded(rows) = FlattenSeq(ss)
    BY DEF Expanded
<1>3. \A i \in 1..n : ss[i] = Expand(rows[i]) /\ ss[i] \in Seq(MatrixRows)
    BY <1>1, ExpandType
<1>4. ss \in [1..n -> Seq(MatrixRows)]
    <2> HIDE DEF n
    <2>1. DOMAIN ss = 1..n /\ ss = [i \in 1..n |-> Expand(rows[i])]
        BY <1>1
    <2> QED BY <1>3, <2>1
<1> HIDE DEF n
<1>5. ss \in Seq(Seq(MatrixRows)) /\ Len(ss) = n
    BY <1>1, <1>4
<1> HIDE DEF ss
<1>6. FlattenSeq(ss) \in Seq(MatrixRows)
    BY <1>5, Flattened
<1>7. PICK r, c : IsIndex(r, c, Len(ss), ss, FlattenSeq(ss))
    BY <1>5, Flattened
<1> DEFINE E == Expanded(rows)
<1>8. IsExpansion(r, c, rows)
    <2>0. IsIndex(r, c, n, ss, E)
        <3>1. E = FlattenSeq(ss) /\ Len(ss) = n
            BY <1>2, <1>5
        <3> HIDE DEF E
        <3> QED BY <1>7, <3>1
    <2> HIDE DEF E
    <2>1. \A k \in 1..Len(E) : r[k] \in 1..n /\ c[k] \in 1..Len(ss[r[k]]) /\ E[k] = ss[r[k]][c[k]]
        BY <2>0 DEF IsIndex
    <2>2. \A i \in 1..n : \A j \in 1..Len(ss[i]) : \E k \in 1..Len(E) : r[k] = i /\ c[k] = j
        BY <2>0 DEF IsIndex
    <2>3. \A k, m \in 1..Len(E) : k < m => r[k] <= r[m]
        BY <2>0 DEF IsIndex
    <2>6. \A k, m \in 1..Len(E) : k # m => r[k] # r[m] \/ c[k] # c[m]
        BY <2>0 DEF IsIndex
    <2>4. \A k \in 1..Len(E) : r[k] \in 1..n /\ c[k] \in 1..Len(Expand(rows[r[k]])) /\ E[k] = Expand(rows[r[k]])[c[k]]
        BY <1>3, <2>1
    <2>5. \A i \in 1..n : \A j \in 1..Len(Expand(rows[i])) : \E k \in 1..Len(E) : r[k] = i /\ c[k] = j
        BY <1>3, <2>2
    <2>7. \A k, m \in 1..Len(E) : k < m /\ r[k] = r[m] => c[k] < c[m]
        BY <2>0 DEF IsIndex
    <2> QED BY <2>3, <2>4, <2>5, <2>6, <2>7 DEF IsExpansion, E, n
<1> QED BY <1>2, <1>5, <1>6, <1>8 DEF ss, n

LEMMA ExpandWeighs ==
    ASSUME NEW row \in MatrixRows
    PROVE  Total(RowWeight, Expand(row)) <= RowWeight[row]
<1>1. CASE row.pats = <<>>
    <2>1. Total(RowWeight, <<row>>) = RowWeight[row] /\ RowWeight[row] \in Nat
        BY RowWeightFacts, SumFacts
    <2> QED BY <1>1, <2>1, ExpandType
<1>2. CASE row.pats # <<>>
    <2> DEFINE heads == Options[row.pats[1]]
               rest == Tail(row.pats)
               x == Total(Bulk, rest)
               E == Expand(row)
    <2>1. row.pats \in Seq(Pats) /\ row.pats[1] \in Pats /\ rest \in Seq(Pats) /\ row.pats = <<row.pats[1]>> \o rest
        BY <1>2, RowWeightFacts, HeadTail
    <2>2. /\ E \in Seq(MatrixRows) /\ Len(E) = Len(heads) /\ heads \in Seq(Pats)
          /\ \A k \in 1..Len(heads) : E[k].pats = <<heads[k]>> \o rest
        BY <1>2, ExpandFacts
    <2> HIDE DEF heads, rest, E
    <2>3. x \in Nat
        BY <2>1, BulkFacts, SumFacts
    <2>4. ASSUME NEW h \in Pats
          PROVE  Pow[Total(Bulk, <<h>> \o rest)] = With(x)[h]
        <3>1. <<h>> \in Seq(Pats)
            OBVIOUS
        <3>2. Total(Bulk, <<h>> \o rest) = Total(Bulk, <<h>>) + x
            BY <2>1, <3>1, BulkFacts, SumConcat
        <3>3. Total(Bulk, <<h>>) = Bulk[h]
            BY BulkFacts, SumFacts
        <3> QED BY <3>2, <3>3 DEF With
    <2> HIDE DEF x
    <2>5. \A k \in 1..Len(E) : RowWeight[E[k]] = With(x)[heads[k]]
        <3> SUFFICES ASSUME NEW k \in 1..Len(E)
                     PROVE  RowWeight[E[k]] = With(x)[heads[k]]
            OBVIOUS
        <3>1. E[k] \in MatrixRows /\ heads[k] \in Pats /\ E[k].pats = <<heads[k]>> \o rest
            BY <2>2
        <3> QED BY <2>4, <3>1, RowWeightFacts
    <2>6. Total(RowWeight, E) = Total(With(x), heads)
        <3> DEFINE v == RowWeight
                   w == With(x)
        <3>1. v \in [MatrixRows -> Nat]
            BY RowWeightFacts
        <3>2. \A k \in 1..Len(E) : v[E[k]] = w[heads[k]]
            BY <2>5
        <3> HIDE DEF v, w
        <3>3. Total(v, E) = Total(w, heads)
            BY <2>2, <3>1, <3>2, SumLocal
        <3> QED BY <3>3 DEF v, w
    <2>7. Total(With(x), heads) <= With(x)[row.pats[1]]
        BY <2>1, <2>3, OptionsWeigh DEF heads
    <2>8. RowWeight[row] = With(x)[row.pats[1]]
        BY <2>1, <2>4, RowWeightFacts
    <2> QED BY <2>6, <2>7, <2>8 DEF E
<1> QED BY <1>1, <1>2

LEMMA ExpandedWeighs ==
    ASSUME NEW rows \in Seq(MatrixRows)
    PROVE  Total(RowWeight, Expanded(rows)) <= Total(RowWeight, rows)
<1> DEFINE ss == [i \in DOMAIN rows |-> Expand(rows[i])]
<1>1. ss \in Seq(Seq(MatrixRows)) /\ Len(ss) = Len(rows)
    BY ExpandedFacts
<1>2. \A i \in 1..Len(rows) : ss[i] = Expand(rows[i]) /\ rows[i] \in MatrixRows
    OBVIOUS
<1>3. Expanded(rows) = FlattenSeq(ss)
    BY DEF Expanded
<1> HIDE DEF ss
<1>4. \A i \in 1..Len(rows) : Total(RowWeight, ss[i]) <= RowWeight[rows[i]]
    BY <1>2, ExpandWeighs
<1> QED BY <1>1, <1>3, <1>4, RowWeightFacts, FlattenedNoMore

\* Rows of rows that are kept, changed by g.
Selected(rows, K, g) == FlattenSeq([i \in 1..Len(rows) |-> IF i \in K THEN <<g[i]>> ELSE <<>>])

LEMMA SelectedFacts ==
    ASSUME NEW rows \in Seq(MatrixRows), NEW K \in SUBSET (1..Len(rows)), NEW g,
           \A i \in K : g[i] \in MatrixRows
    PROVE  /\ Selected(rows, K, g) \in Seq(MatrixRows)
           /\ HasKept(K, g, Selected(rows, K, g))
<1> DEFINE n == Len(rows)
           ss == [i \in 1..n |-> IF i \in K THEN <<g[i]>> ELSE <<>>]
<1>1. n \in Nat /\ DOMAIN ss = 1..n /\ K \in SUBSET (1..n)
    OBVIOUS
<1> HIDE DEF n
<1> DEFINE t == ss
<1>2. t \in [1..n -> Seq(MatrixRows)]
    OBVIOUS
<1>3. \A i \in 1..n : t[i] = IF i \in K THEN <<g[i]>> ELSE <<>>
    OBVIOUS
<1>n. n \in Nat
    BY <1>1
<1>k. K \in SUBSET (1..n)
    BY <1>1
<1> HIDE DEF t
<1>4. FlattenSeq(t) \in Seq(MatrixRows) /\ HasKept(K, g, FlattenSeq(t))
    BY <1>2, <1>3, <1>n, <1>k, KeptElements, Zenon
<1> QED BY <1>4 DEF Selected, n, t

\* They weigh no more, and at least d less if one of them does or is not kept.
LEMMA SelectedWeighs ==
    ASSUME NEW rows \in Seq(MatrixRows), NEW K \in SUBSET (1..Len(rows)), NEW g,
           \A i \in K : g[i] \in MatrixRows /\ RowWeight[g[i]] <= RowWeight[rows[i]]
    PROVE  /\ Total(RowWeight, Selected(rows, K, g)) <= Total(RowWeight, rows)
           /\ \A o \in 1..Len(rows), d \in Nat :
                (IF o \in K THEN RowWeight[g[o]] + d <= RowWeight[rows[o]] ELSE d <= RowWeight[rows[o]]) =>
                    Total(RowWeight, Selected(rows, K, g)) + d <= Total(RowWeight, rows)
<1> DEFINE n == Len(rows)
           ss == [i \in 1..n |-> IF i \in K THEN <<g[i]>> ELSE <<>>]
           w == RowWeight
<1>1. n \in Nat /\ DOMAIN ss = 1..n /\ K \in SUBSET (1..n) /\ \A i \in 1..n : rows[i] \in MatrixRows
    OBVIOUS
<1>2. \A i \in 1..n : ss[i] = IF i \in K THEN <<g[i]>> ELSE <<>>
    OBVIOUS
<1> HIDE DEF n
<1>3. ss \in Seq(Seq(MatrixRows)) /\ Len(ss) = n
    <2>1. ss \in [1..n -> Seq(MatrixRows)]
        OBVIOUS
    <2> HIDE DEF ss
    <2> QED BY <1>1, <1>2, <2>1, KeptElements
<1>4. Selected(rows, K, g) = FlattenSeq(ss)
    BY DEF Selected, n
<1>5. w \in [MatrixRows -> Nat]
    BY RowWeightFacts
<1>6. \A i \in 1..n : Total(w, ss[i]) = IF i \in K THEN w[g[i]] ELSE 0
    BY <1>2, <1>5, SumFacts
<1>7. \A i \in 1..n : w[rows[i]] \in Nat
    BY <1>1, <1>5
<1> HIDE DEF ss, w
<1>8. \A i \in 1..n : Total(w, ss[i]) <= w[rows[i]]
    BY <1>6, <1>7 DEF w
<1>9. Len(ss) = Len(rows) /\ rows \in Seq(MatrixRows)
    BY <1>3 DEF n
<1>10. Total(w, FlattenSeq(ss)) <= Total(w, rows)
    BY <1>3, <1>5, <1>8, <1>9, FlattenedNoMore DEF n
<1>11. ASSUME NEW o \in 1..n, NEW d \in Nat,
              IF o \in K THEN w[g[o]] + d <= w[rows[o]] ELSE d <= w[rows[o]]
       PROVE  Total(w, FlattenSeq(ss)) + d <= Total(w, rows)
    <2>1. Total(w, ss[o]) + d <= w[rows[o]]
        BY <1>6, <1>11
    <2> QED BY <1>3, <1>5, <1>8, <1>9, <2>1, FlattenedTotal DEF n
<1> QED BY <1>4, <1>10, <1>11 DEF w, n

-----------------------------------------------------------------------------
(* The column that is tested, and the values at places. *)

LEMMA BestFacts ==
    ASSUME NEW rows, NEW n \in Nat, n # 0
    PROVE  /\ BestColumn(rows, n) \in 1..n
           /\ \A d \in 1..n : Leads(rows, d) => Leads(rows, BestColumn(rows, n))
<1> DEFINE V == 0..n
           G == [k \in 1..n |-> [b \in V |-> IF k > 1 /\ ~Better(rows, k, b) THEN b ELSE k]]
           Is(f) == f = [c \in 0..n |-> IF c > 1 /\ ~Better(rows, c, f[c - 1]) THEN f[c - 1] ELSE c]
           F == CHOOSE f : Is(f)
<1>1. StaysIn(V, n, G)
    <2>1. ASSUME NEW k \in 1..n, NEW b \in V PROVE G[k][b] \in V
        OBVIOUS
    <2> HIDE DEF V, G
    <2> QED BY <2>1, Zenon DEF StaysIn
<1>2. PICK f : IsIterate(f, V, n, 0, G)
    <2>1. 0 \in V
        OBVIOUS
    <2> HIDE DEF V, G
    <2> QED BY <1>1, <2>1, IntervalRecursion
<1>3. f \in [0..n -> V] /\ f[0] = 0 /\ \A k \in 1..n : f[k] = G[k][f[k - 1]]
    BY <1>2 DEF IsIterate
<1>4. \A c \in 0..n : f[c] = IF c > 1 /\ ~Better(rows, c, f[c - 1]) THEN f[c - 1] ELSE c
    <2> SUFFICES ASSUME NEW c \in 0..n
                 PROVE  f[c] = IF c > 1 /\ ~Better(rows, c, f[c - 1]) THEN f[c - 1] ELSE c
        OBVIOUS
    <2>1. CASE c = 0
        BY <1>3, <2>1
    <2>2. CASE c # 0
        <3>1. c \in 1..n /\ c - 1 \in 0..n
            BY <2>2
        <3>2. f[c] = G[c][f[c - 1]] /\ f[c - 1] \in V
            <4> HIDE DEF G, V
            <4> QED BY <1>3, <3>1
        <3> QED BY <3>1, <3>2
    <2> QED BY <2>1, <2>2
<1>5. Is(f)
    <2> HIDE DEF V, G
    <2> QED BY <1>3, <1>4
<1>6. Is(F)
    <2> HIDE DEF Is
    <2> QED BY <1>5
<1>7. BestColumn(rows, n) = F[n]
    BY Zenon DEF BestColumn
<1>8. \A c \in 0..n : F[c] = IF c > 1 /\ ~Better(rows, c, F[c - 1]) THEN F[c - 1] ELSE c
    <2> HIDE DEF F
    <2> QED BY <1>6
<1> HIDE DEF F, G, V
<1> DEFINE S == {k \in 0..n : k # 0 => F[k] \in 1..k /\ \A d \in 1..k : Leads(rows, d) => Leads(rows, F[k])}
<1>9. 0 \in S
    OBVIOUS
<1>10. ASSUME NEW k \in 1..n, k - 1 \in S
       PROVE  k \in S
    <2>1. k \in 0..n /\ k \in Nat
        OBVIOUS
    <2>2. F[k] = IF k > 1 /\ ~Better(rows, k, F[k - 1]) THEN F[k - 1] ELSE k
        BY <1>8, <2>1
    <2>3. CASE k = 1
        <3>1. F[k] = k /\ \A d \in 1..k : d = k
            BY <2>2, <2>3
        <3> QED BY <2>1, <3>1
    <2>4. CASE k # 1
        <3>1. k > 1 /\ k - 1 # 0 /\ k - 1 \in Nat
            BY <2>4
        <3>2. F[k - 1] \in 1..(k - 1) /\ \A d \in 1..(k - 1) : Leads(rows, d) => Leads(rows, F[k - 1])
            BY <1>10, <3>1
        <3>3. \A d \in 1..k : d = k \/ d \in 1..(k - 1)
            BY <2>1
        <3>4. F[k - 1] \in 1..k /\ k \in 1..k
            BY <2>1, <3>2
        <3>5. CASE Better(rows, k, F[k - 1])
            <4>1. F[k] = k
                BY <2>2, <3>5
            <4>2. Leads(rows, F[k - 1]) => Leads(rows, k)
                BY <3>5 DEF Better
            <4> QED BY <2>1, <3>2, <3>3, <3>4, <4>1, <4>2
        <3>6. CASE ~Better(rows, k, F[k - 1])
            <4>1. F[k] = F[k - 1]
                BY <2>2, <3>1, <3>6
            <4>2. Leads(rows, k) => Leads(rows, F[k - 1])
                BY <3>6 DEF Better
            <4> QED BY <2>1, <3>2, <3>3, <3>4, <4>1, <4>2
        <3> QED BY <3>5, <3>6
    <2> QED BY <2>3, <2>4
<1>11. \A k \in 0..n : k \in S
    <2> HIDE DEF S
    <2> QED BY <1>9, <1>10, IntervalInduction
<1>12. n \in 0..n
    OBVIOUS
<1> QED BY <1>7, <1>11, <1>12

\* The values that are somewhere in a value, and what is read where there is none.
Readable == AllValues \cup {Junk}

LEMMA StepValueReadable ==
    ASSUME NEW v \in Readable, NEW step
    PROVE  StepValue(v, step) \in Readable
<1>1. CASE v = Junk
    <2>1. Junk.parts = <<>> /\ DOMAIN <<>> = {}
        BY DEF Junk, value
    <2> QED BY <1>1, <2>1 DEF StepValue, Readable
<1>2. CASE v # Junk
    <2>1. v \in AllValues
        BY <1>2 DEF Readable
    <2>2. \A i \in DOMAIN v.parts : v.parts[i] \in AllValues
        BY <2>1, ValueParts
    <2> QED BY <2>2 DEF StepValue, Readable
<1> QED BY <1>1, <1>2

AreValuesOn(f, path, v) == f[0] = v /\ \A k \in 1..Len(path) : f[k] = StepValue(f[k - 1], path[k])

LEMMA ValuesOnPath ==
    ASSUME NEW path \in Seq(Steps), NEW v \in Readable
    PROVE  \E f \in [0..Len(path) -> Readable] : AreValuesOn(f, path, v)
<1> DEFINE n == Len(path)
           V == Readable
           G == [k \in 1..n |-> [u \in V |-> StepValue(u, path[k])]]
<1>0. n \in Nat
    OBVIOUS
<1> HIDE DEF V, n
<1>1. \A k \in 1..n : \A u \in V : G[k][u] = StepValue(u, path[k]) /\ G[k][u] \in V
    BY StepValueReadable DEF V
<1>2. StaysIn(V, n, G)
    <2> HIDE DEF G
    <2> QED BY <1>1 DEF StaysIn
<1>3. PICK f : IsIterate(f, V, n, v, G)
    <2>1. v \in V
        BY DEF V
    <2> HIDE DEF G
    <2> QED BY <1>0, <1>2, <2>1, IntervalRecursion
<1> HIDE DEF G
<1>4. f \in [0..n -> V] /\ f[0] = v /\ \A k \in 1..n : f[k] = G[k][f[k - 1]]
    BY <1>3 DEF IsIterate
<1>5. \A k \in 1..n : f[k - 1] \in V
    BY <1>0, <1>4
<1>6. AreValuesOn(f, path, v)
    BY <1>1, <1>4, <1>5 DEF AreValuesOn, n
<1> QED BY <1>4, <1>6 DEF V, n

LEMMA ValueAtIs ==
    ASSUME NEW place, place.path \in Seq(Steps), NEW v, NEW g, AreValuesOn(g, place.path, v)
    PROVE  ValueAt(place, v) = g[Len(place.path)]
<1> DEFINE path == place.path
           n == Len(path)
           Is(f) == f = [k \in 0..n |-> IF k = 0 THEN v ELSE StepValue(f[k - 1], path[k])]
           F == CHOOSE f : Is(f)
           h == [k \in 0..n |-> g[k]]
<1>1. n \in Nat
    OBVIOUS
<1>2. ValueAt(place, v) = F[n]
    BY Zenon DEF ValueAt
<1>3. g[0] = v /\ \A k \in 1..n : g[k] = StepValue(g[k - 1], path[k])
    BY DEF AreValuesOn
<1> HIDE DEF n, path
<1>4. Is(h)
    <2>1. ASSUME NEW k \in 0..n
          PROVE  h[k] = IF k = 0 THEN v ELSE StepValue(h[k - 1], path[k])
        <3>1. k # 0 => k \in 1..n /\ k - 1 \in 0..n
            BY <1>1
        <3> QED BY <1>3, <3>1
    <2> QED BY <2>1
<1>5. Is(F)
    <2> HIDE DEF Is
    <2> QED BY <1>4
<1>6. \A k \in 0..n : F[k] = IF k = 0 THEN v ELSE StepValue(F[k - 1], path[k])
    <2> HIDE DEF F
    <2> QED BY <1>5
<1> HIDE DEF F
<1> DEFINE S == {k \in 0..n : F[k] = g[k]}
<1>7. 0 \in S
    BY <1>1, <1>3, <1>6
<1>8. ASSUME NEW k \in 1..n, k - 1 \in S PROVE k \in S
    <2>1. k \in 0..n /\ k # 0
        BY <1>1
    <2> QED BY <1>3, <1>6, <1>8, <2>1
<1>9. \A k \in 0..n : k \in S
    <2> HIDE DEF S
    <2> QED BY <1>1, <1>7, <1>8, IntervalInduction
<1>10. n \in 0..n
    BY <1>1
<1> QED BY <1>2, <1>9, <1>10 DEF n, path

LEMMA ValueAtFacts ==
    ASSUME NEW place \in Places, NEW v \in Readable
    PROVE  /\ ValueAt(place, v) \in Readable
           /\ place.path = <<>> => ValueAt(place, v) = v
           /\ \A step \in Steps : ValueAt(At(place, step), v) = StepValue(ValueAt(place, v), step)
<1> DEFINE path == place.path
           n == Len(path)
<1>1. path \in Seq(Steps) /\ n \in Nat /\ n \in 0..n
    BY DEF Places
<1>2. PICK f \in [0..n -> Readable] : AreValuesOn(f, path, v)
    BY <1>1, ValuesOnPath
<1>3. ValueAt(place, v) = f[n]
    BY <1>1, <1>2, ValueAtIs
<1>4. path = <<>> => n = 0 /\ f[0] = v
    BY <1>2 DEF AreValuesOn
<1>5. ASSUME NEW step \in Steps
      PROVE  ValueAt(At(place, step), v) = StepValue(ValueAt(place, v), step)
    <2> DEFINE long == Append(path, step)
               g == [k \in 0..(n + 1) |-> IF k <= n THEN f[k] ELSE StepValue(f[n], step)]
               p == At(place, step)
    <2>1. /\ long \in Seq(Steps) /\ Len(long) = n + 1 /\ long[n + 1] = step
          /\ \A k \in 1..n : long[k] = path[k]
        BY <1>1
    <2>2. p.path = long
        BY DEF At
    <2> HIDE DEF path, n, long, p
    <2>3. \A k \in 1..n : f[k] = StepValue(f[k - 1], path[k])
        BY <1>2 DEF AreValuesOn, n
    <2>4. f[0] = v
        BY <1>2 DEF AreValuesOn
    <2>5. AreValuesOn(g, long, v)
        <3>1. g[0] = v
            BY <1>1, <2>4
        <3>2. ASSUME NEW k \in 1..(n + 1)
              PROVE  g[k] = StepValue(g[k - 1], long[k])
            <4>1. CASE k <= n
                <5>1. k \in 1..n /\ k \in 0..(n + 1) /\ k - 1 \in 0..(n + 1) /\ k - 1 <= n
                    BY <1>1, <4>1
                <5> QED BY <2>1, <2>3, <4>1, <5>1
            <4>2. CASE ~(k <= n)
                <5>1. k = n + 1 /\ k \in 0..(n + 1) /\ k - 1 = n /\ n \in 0..(n + 1) /\ n <= n
                    BY <1>1, <4>2
                <5>2. g[k] = StepValue(f[n], step) /\ g[n] = f[n]
                    BY <4>2, <5>1
                <5> HIDE DEF g
                <5> QED BY <2>1, <5>1, <5>2
            <4> QED BY <4>1, <4>2
        <3> HIDE DEF g
        <3> QED BY <2>1, <3>1, <3>2 DEF AreValuesOn
    <2>6. g[n + 1] = StepValue(f[n], step)
        BY <1>1
    <2> HIDE DEF g
    <2>7. ValueAt(p, v) = g[Len(long)]
        BY <2>1, <2>2, <2>5, ValueAtIs
    <2> QED BY <1>3, <2>1, <2>6, <2>7 DEF p
<1>6. f[n] \in Readable
    BY <1>1
<1> QED BY <1>3, <1>4, <1>5, <1>6

-----------------------------------------------------------------------------
(* The matrices that a node is made of. *)

Others(rows, a) == {i \in 1..Len(rows) : rows[i].arm # a}
WildRows(rows, c) == {i \in 1..Len(rows) : AnyAlias(rows[i].pats[c])}
Without(rows, c) == [i \in 1..Len(rows) |-> [rows[i] EXCEPT !.pats = RemoveAt(@, c)]]
Into(rows, c, key) == [i \in 1..Len(rows) |-> [rows[i] EXCEPT !.pats = SubPatterns(@[c], key) \o RemoveAt(@, c)]]

LEMMA AsSelected ==
    ASSUME NEW rows \in Seq(MatrixRows)
    PROVE  /\ \A a : OtherArms(rows, a) = Selected(rows, Others(rows, a), rows)
           /\ \A c : DefaultRows(rows, c) = Selected(rows, WildRows(rows, c), Without(rows, c))
           /\ \A c, key : SpecializedRows(rows, c, key) = Selected(rows, Hits(rows, c, key), Into(rows, c, key))
           /\ \A c, key : Hits(rows, c, key) \subseteq 1..Len(rows)
<1> DEFINE n == Len(rows)
<1>1. DOMAIN rows = 1..n
    OBVIOUS
<1>2. ASSUME NEW a
      PROVE  OtherArms(rows, a) = Selected(rows, Others(rows, a), rows)
    <2>1. [i \in DOMAIN rows |-> IF rows[i].arm = a THEN <<>> ELSE <<rows[i]>>]
          = [i \in 1..n |-> IF i \in Others(rows, a) THEN <<rows[i]>> ELSE <<>>]
        BY <1>1 DEF Others
    <2> QED BY <2>1 DEF OtherArms, Selected
<1>3. ASSUME NEW c
      PROVE  DefaultRows(rows, c) = Selected(rows, WildRows(rows, c), Without(rows, c))
    <2> DEFINE g == Without(rows, c)
               x == [i \in DOMAIN rows |->
                        IF ~AnyAlias(rows[i].pats[c]) THEN <<>> ELSE <<[rows[i] EXCEPT !.pats = RemoveAt(@, c)]>>]
               y == [i \in 1..n |-> IF i \in WildRows(rows, c) THEN <<g[i]>> ELSE <<>>]
    <2>1. \A i \in 1..n : g[i] = [rows[i] EXCEPT !.pats = RemoveAt(@, c)]
        BY DEF Without
    <2>2. x = y
        <3> HIDE DEF g
        <3> QED BY <1>1, <2>1 DEF WildRows
    <2>3. DefaultRows(rows, c) = FlattenSeq(x)
        BY DEF DefaultRows
    <2>4. Selected(rows, WildRows(rows, c), g) = FlattenSeq(y)
        BY DEF Selected
    <2> HIDE DEF x, y
    <2> QED BY <2>2, <2>3, <2>4
<1>4. \A c, key : Hits(rows, c, key) \subseteq 1..Len(rows)
    BY <1>1 DEF Hits
<1>5. ASSUME NEW c, NEW key
      PROVE  SpecializedRows(rows, c, key) = Selected(rows, Hits(rows, c, key), Into(rows, c, key))
    <2> DEFINE g == Into(rows, c, key)
               x == [i \in DOMAIN rows |->
                        IF i \notin Hits(rows, c, key) THEN <<>>
                        ELSE <<[rows[i] EXCEPT !.pats = SubPatterns(@[c], key) \o RemoveAt(@, c)]>>]
               y == [i \in 1..n |-> IF i \in Hits(rows, c, key) THEN <<g[i]>> ELSE <<>>]
    <2>1. \A i \in 1..n : g[i] = [rows[i] EXCEPT !.pats = SubPatterns(@[c], key) \o RemoveAt(@, c)]
        BY DEF Into
    <2>2. x = y
        <3> HIDE DEF g
        <3> QED BY <1>1, <2>1
    <2>3. SpecializedRows(rows, c, key) = FlattenSeq(x)
        BY DEF SpecializedRows
    <2>4. Selected(rows, Hits(rows, c, key), g) = FlattenSeq(y)
        BY DEF Selected
    <2> HIDE DEF x, y
    <2> QED BY <2>2, <2>3, <2>4
<1> QED BY <1>2, <1>3, <1>4, <1>5

LEMMA CoreFacts ==
    ASSUME NEW pat \in Pats
    PROVE  /\ Core[pat] \in Pats /\ Core[pat].p # "alias"
           /\ pat.p = "alias" => Core[pat] = Core[pat.q]
           /\ pat.p # "alias" => Core[pat] = pat
           /\ Bulk[Core[pat]] = Bulk[pat]
           /\ KeyOf[Core[pat]] = KeyOf[pat]
<1> DEFINE S == {x \in Pats : Core[x].p # "alias" /\ Bulk[Core[x]] = Bulk[x] /\ KeyOf[Core[x]] = KeyOf[x]}
<1>1. \A x \in Pats : x.p = "alias" => x.q \in Pats /\ Size[x.q] < Size[x] /\ Core[x] = Core[x.q]
    BY PatternParts, CoreDef DEF CoreBody
<1>2. \A x \in Pats : x.p # "alias" => Core[x] = x
    BY CoreDef DEF CoreBody
<1>3. \A x \in Pats : x.p = "alias" => Bulk[x] = Bulk[x.q]
    BY BulkFacts DEF BulkBody, HasParts
<1>4. \A x \in Pats : x.p = "alias" => KeyOf[x] = KeyOf[x.q]
    BY KeyOfDef DEF KeyBody, IsWild
<1>5. ASSUME NEW x \in Pats, \A y \in Pats : Size[y] < Size[x] => y \in S
      PROVE  x \in S
    BY <1>1, <1>2, <1>3, <1>4, <1>5
<1>6. Pats \subseteq S
    <2> HIDE DEF S
    <2> QED BY <1>5, SizeType, RankInduction
<1> QED BY <1>1, <1>2, <1>6, CoreDef

\* What is left of a pattern under a key.
LEMMA SubPatternsFacts ==
    ASSUME NEW pat \in Pats, NEW key, Hit(pat, key)
    PROVE  /\ SubPatterns(pat, key) \in Seq(Pats)
           /\ Total(Bulk, SubPatterns(pat, key)) <= Bulk[pat]
           /\ HasParts(Core[pat]) =>
                /\ SubPatterns(pat, key) = Core[pat].args
                /\ (Total(Bulk, Core[pat].args) + Len(Core[pat].args)) + 1 = Bulk[pat]
<1> DEFINE q == Core[pat]
<1>1. q \in Pats /\ Bulk[q] = Bulk[pat] /\ Bulk[q] \in Nat
    BY CoreFacts, BulkFacts
<1>2. IsWild(q) \/ q.p = "lit" \/ HasParts(q)
    BY DEF Hit, HasParts
<1> HIDE DEF q
<1>3. Total(Bulk, <<>>) = 0 /\ Total(Bulk, <<q>>) = Bulk[q] /\ <<>> \in Seq(Pats) /\ <<q>> \in Seq(Pats)
    BY <1>1, BulkFacts, SumFacts
<1>4. CASE IsWild(q)
    <2>1. SubPatterns(pat, key) = <<>> \/ SubPatterns(pat, key) = <<q>>
        BY <1>4 DEF SubPatterns, q
    <2>2. ~HasParts(q)
        BY <1>4 DEF IsWild, HasParts
    <2> DEFINE sp == SubPatterns(pat, key)
    <2>3. sp \in Seq(Pats) /\ Total(Bulk, sp) <= Bulk[q]
        <3>1. sp = <<>> \/ sp = <<q>>
            BY <2>1
        <3> HIDE DEF sp
        <3>2. CASE sp = <<>>
            BY <1>1, <1>3, <3>2
        <3>3. CASE sp = <<q>>
            BY <1>1, <1>3, <3>3
        <3> QED BY <3>1, <3>2, <3>3
    <2> QED BY <1>1, <2>2, <2>3 DEF q
<1>5. CASE q.p = "lit"
    <2>1. SubPatterns(pat, key) = <<>> /\ ~HasParts(q)
        BY <1>5 DEF SubPatterns, q, IsWild, HasParts
    <2> QED BY <1>1, <1>3, <2>1 DEF q
<1>6. CASE HasParts(q)
    <2>1. SubPatterns(pat, key) = q.args
        BY <1>6 DEF SubPatterns, q, IsWild, HasParts
    <2>2. q.args \in Seq(Pats)
        BY <1>1, <1>6, PatternParts
    <2>3. Bulk[q] = (Total(Bulk, q.args) + Len(q.args)) + 1
        BY <1>1, <1>6, BulkFacts DEF BulkBody
    <2>4. Total(Bulk, q.args) \in Nat /\ Len(q.args) \in Nat
        BY <2>2, BulkFacts, SumFacts
    <2> QED BY <1>1, <2>1, <2>2, <2>3, <2>4 DEF q
<1> QED BY <1>2, <1>4, <1>5, <1>6

LEMMA SubPlacesFacts ==
    ASSUME NEW pat \in Pats, NEW place \in Places
    PROVE  /\ SubPlaces(pat, place) \in Seq(Places)
           /\ Len(SubPlaces(pat, place)) # 0 =>
                HasParts(Core[pat]) /\ Len(SubPlaces(pat, place)) <= Len(Core[pat].args)
<1> DEFINE q == Core[pat]
           s == SubPlaces(pat, place)
<1>1. q \in Pats
    BY CoreFacts
<1> HIDE DEF q
<1>2. CASE ~HasParts(q) \/ q.args = <<>>
    <2>1. s = <<>>
        BY <1>2 DEF SubPlaces, q
    <2> QED BY <2>1
<1>3. CASE HasParts(q) /\ q.args # <<>> /\ q.p = "ctor"
    <2>1. s = <<At(place, EnumItem(q.tag))>>
        BY <1>3 DEF SubPlaces, q
    <2>2. q.args \in Seq(Pats)
        BY <1>1, <1>3, PatternParts
    <2>3. Len(q.args) \in Nat /\ Len(q.args) >= 1 /\ 1 \in DOMAIN q.args
        BY <1>3, <2>2
    <2>4. At(place, EnumItem(q.tag)) \in Places
        BY <1>1, <1>3, <2>3, StepFacts, AtIsPlace
    <2> HIDE DEF s
    <2>5. s \in Seq(Places) /\ Len(s) = 1
        BY <2>1, <2>4
    <2> QED BY <1>3, <2>3, <2>5 DEF s, q
<1>4. CASE HasParts(q) /\ q.args # <<>> /\ q.p # "ctor"
    <2>1. s = [i \in DOMAIN q.args |-> At(place, Field(PartOf(q, i)))]
        BY <1>4 DEF SubPlaces, q
    <2>2. q.args \in Seq(Pats)
        BY <1>1, <1>4, PatternParts
    <2>3. \A i \in DOMAIN q.args : At(place, Field(PartOf(q, i))) \in Places
        BY <1>1, <1>4, StepFacts, AtIsPlace
    <2>4. DOMAIN q.args = 1..Len(q.args) /\ Len(q.args) \in Nat
        BY <2>2
    <2>5. DOMAIN s = 1..Len(q.args) /\ \A i \in 1..Len(q.args) : s[i] \in Places
        BY <2>1, <2>3, <2>4
    <2>6. s = [i \in 1..Len(q.args) |-> s[i]]
        BY <2>1, <2>4
    <2> HIDE DEF s
    <2>7. s \in [1..Len(q.args) -> Places]
        BY <2>5, <2>6
    <2>8. s \in Seq(Places) /\ Len(s) = Len(q.args)
        BY <2>4, <2>7
    <2> QED BY <1>4, <2>4, <2>8 DEF s, q
<1> QED BY <1>2, <1>3, <1>4

LEMMA MinFacts ==
    ASSUME NEW T \in SUBSET Nat, T # {}
    PROVE  Min(T) \in T /\ \A k \in T : Min(T) <= k
<1>1. \E m \in T : \A k \in T : m <= k
    BY LeastNumber
<1> QED BY <1>1 DEF Min

\* The places under a key.
LEMMA SpecializedPlacesFacts ==
    ASSUME NEW rows \in Seq(MatrixRows), NEW occ \in Seq(Places), NEW c \in 1..Len(occ), NEW key,
           \A i \in 1..Len(rows) : c \in 1..Len(rows[i].pats), Hits(rows, c, key) # {}
    PROVE  LET o == Min(Hits(rows, c, key))
               subs == SubPlaces(rows[o].pats[c], occ[c])
               new == SpecializedPlaces(rows, occ, c, key)
               l == Len(subs)
           IN  /\ o \in Hits(rows, c, key) /\ \A i \in Hits(rows, c, key) : o <= i
               /\ o \in 1..Len(rows) /\ rows[o].pats[c] \in Pats /\ occ[c] \in Places
               /\ subs \in Seq(Places) /\ l \in Nat
               /\ new \in Seq(Places) /\ Len(new) = (Len(occ) - 1) + l
               /\ \A k \in 1..Len(new) :
                    new[k] = IF k < c THEN occ[k] ELSE IF k - c < l THEN subs[(k - c) + 1] ELSE occ[(k - l) + 1]
<1> DEFINE o == Min(Hits(rows, c, key))
           subs == SubPlaces(rows[o].pats[c], occ[c])
           a == SubSeq(occ, 1, c - 1)
           b == SubSeq(occ, c + 1, Len(occ))
           n == Len(occ)
           new == SpecializedPlaces(rows, occ, c, key)
           l == Len(subs)
<1>1. n \in Nat /\ c \in Nat /\ c >= 1 /\ c <= n /\ occ[c] \in Places
    OBVIOUS
<1>2. o \in Hits(rows, c, key) /\ o \in 1..Len(rows) /\ \A i \in Hits(rows, c, key) : o <= i
    <2>1. Hits(rows, c, key) \in SUBSET Nat
        BY AsSelected
    <2>2. o \in Hits(rows, c, key) /\ \A i \in Hits(rows, c, key) : o <= i
        BY <2>1, MinFacts
    <2> HIDE DEF o
    <2> QED BY <2>2, AsSelected
<1> HIDE DEF o
<1>3. rows[o].pats[c] \in Pats
    <2>1. rows[o].pats \in Seq(Pats) /\ c \in 1..Len(rows[o].pats)
        BY <1>2, RowWeightFacts
    <2> QED BY <2>1
<1>4. subs \in Seq(Places) /\ l \in Nat
    BY <1>1, <1>3, SubPlacesFacts
<1>5. /\ a \in Seq(Places) /\ Len(a) = c - 1 /\ \A i \in 1..(c - 1) : a[i] = occ[i]
    OBVIOUS
<1>6. /\ b \in Seq(Places) /\ Len(b) = n - c /\ \A i \in 1..(n - c) : b[i] = occ[i + c]
    OBVIOUS
<1>7. new = (a \o subs) \o b
    BY DEF SpecializedPlaces, o
<1> HIDE DEF a, b, n, new, l, subs
<1> DEFINE h == a \o subs
<1>8. /\ h \in Seq(Places) /\ Len(h) = (c - 1) + l
      /\ \A i \in 1..((c - 1) + l) : h[i] = IF i <= c - 1 THEN a[i] ELSE subs[i - (c - 1)]
    <2> DEFINE k == c - 1
    <2>1. k = Len(a) /\ l = Len(subs)
        BY <1>5 DEF l
    <2>3. a \in Seq(Places) /\ subs \in Seq(Places)
        BY <1>4, <1>5
    <2> HIDE DEF k
    <2>2. /\ h \in Seq(Places) /\ Len(h) = k + l /\ \A i \in 1..(k + l) : h[i] = IF i <= k THEN a[i] ELSE subs[i - k]
        BY <2>1, <2>3, Joined
    <2> QED BY <2>2 DEF k
<1> HIDE DEF h
<1>9. /\ h \o b \in Seq(Places) /\ Len(h \o b) = ((c - 1) + l) + (n - c)
      /\ \A i \in 1..(((c - 1) + l) + (n - c)) : (h \o b)[i] = IF i <= (c - 1) + l THEN h[i] ELSE b[i - ((c - 1) + l)]
    <2> DEFINE k == (c - 1) + l
               m == n - c
    <2>1. k = Len(h) /\ m = Len(b)
        BY <1>6, <1>8
    <2>3. h \in Seq(Places) /\ b \in Seq(Places)
        BY <1>6, <1>8
    <2> HIDE DEF k, m
    <2>2. /\ h \o b \in Seq(Places) /\ Len(h \o b) = k + m /\ \A i \in 1..(k + m) : (h \o b)[i] = IF i <= k THEN h[i] ELSE b[i - k]
        BY <2>1, <2>3, Joined
    <2> QED BY <2>2 DEF k, m
<1>10. new = h \o b
    BY <1>7 DEF h
<1>11. ((c - 1) + l) + (n - c) = (n - 1) + l
    BY <1>1, <1>4
<1>12. ASSUME NEW k \in 1..((n - 1) + l)
       PROVE  new[k] = IF k < c THEN occ[k] ELSE IF k - c < l THEN subs[(k - c) + 1] ELSE occ[(k - l) + 1]
    <2>0. new[k] = IF k <= (c - 1) + l THEN h[k] ELSE b[k - ((c - 1) + l)]
        BY <1>9, <1>10, <1>11
    <2>1. CASE k < c
        <3>1. k <= (c - 1) + l /\ k \in 1..((c - 1) + l) /\ k <= c - 1 /\ k \in 1..(c - 1)
            BY <1>1, <1>4, <2>1
        <3> QED BY <1>5, <1>8, <2>0, <2>1, <3>1
    <2>2. CASE ~(k < c) /\ k - c < l
        <3>1. k <= (c - 1) + l /\ k \in 1..((c - 1) + l) /\ ~(k <= c - 1) /\ k - (c - 1) = (k - c) + 1
            BY <1>1, <1>4, <2>2
        <3> QED BY <1>8, <2>0, <2>2, <3>1
    <2>3. CASE ~(k < c) /\ ~(k - c < l)
        <3>1. ~(k <= (c - 1) + l) /\ k - ((c - 1) + l) \in 1..(n - c) /\ (k - ((c - 1) + l)) + c = (k - l) + 1
            BY <1>1, <1>4, <2>3
        <3>2. b[k - ((c - 1) + l)] = occ[(k - l) + 1]
            BY <1>6, <3>1
        <3> QED BY <2>0, <2>3, <3>1, <3>2
    <2> QED BY <2>1, <2>2, <2>3
<1>13. new \in Seq(Places) /\ Len(new) = (n - 1) + l
    BY <1>9, <1>10, <1>11
<1> QED BY <1>1, <1>2, <1>3, <1>4, <1>12, <1>13 DEF o, subs, new, l, n

IsMatrix(rows, occ) == rows \in Seq(MatrixRows) /\ occ \in Seq(Places)
Lighter(x, rows, occ) == x \in Matrices /\ Weigh[x] < Weigh[<<rows, occ>>]

LEMMA WeighIs ==
    ASSUME NEW rows, NEW occ, IsMatrix(rows, occ)
    PROVE  /\ <<rows, occ>> \in Matrices
           /\ Weigh[<<rows, occ>>] = Total(RowWeight, rows) + Len(occ)
           /\ Total(RowWeight, rows) \in Nat /\ Len(occ) \in Nat
<1>1. rows \in Seq(MatrixRows) /\ occ \in Seq(Places)
    BY DEF IsMatrix
<1>2. <<rows, occ>> \in Matrices
    BY <1>1 DEF Matrices
<1>3. Weigh[<<rows, occ>>] = Total(RowWeight, <<rows, occ>>[1]) + Len(<<rows, occ>>[2])
    BY <1>2 DEF Weigh
<1>4. Total(RowWeight, rows) \in Nat
    BY <1>1, RowWeightFacts, SumFacts
<1> QED BY <1>1, <1>2, <1>3, <1>4

LEMMA OthersLighter ==
    ASSUME NEW rows, NEW occ, IsMatrix(rows, occ), rows # <<>>
    PROVE  IsMatrix(OtherArms(rows, rows[1].arm), occ) /\ Lighter(<<OtherArms(rows, rows[1].arm), occ>>, rows, occ)
<1> DEFINE a == rows[1].arm
           K == Others(rows, a)
           new == OtherArms(rows, a)
<1>1. rows \in Seq(MatrixRows) /\ 1 \in 1..Len(rows) /\ rows[1] \in MatrixRows /\ \A i \in 1..Len(rows) : rows[i] \in MatrixRows
    BY DEF IsMatrix
<1>2. new = Selected(rows, K, rows)
    BY <1>1, AsSelected
<1>3. K \in SUBSET (1..Len(rows)) /\ 1 \notin K
    BY DEF Others
<1>4. \A i \in K : rows[i] \in MatrixRows /\ RowWeight[rows[i]] <= RowWeight[rows[i]]
    BY <1>1, <1>3, RowWeightFacts
<1>5. 1 <= RowWeight[rows[1]] /\ 1 \in Nat
    BY <1>1, RowWeightFacts
<1> HIDE DEF K, new
<1>6. new \in Seq(MatrixRows)
    BY <1>1, <1>2, <1>3, <1>4, SelectedFacts
<1>7. Total(RowWeight, new) + 1 <= Total(RowWeight, rows)
    BY <1>1, <1>2, <1>3, <1>4, <1>5, SelectedWeighs
<1>8. IsMatrix(new, occ)
    BY <1>6 DEF IsMatrix
<1>9. Weigh[<<new, occ>>] < Weigh[<<rows, occ>>]
    BY <1>7, <1>8, WeighIs
<1> QED BY <1>8, <1>9, WeighIs DEF Lighter, new

LEMMA WithoutFacts ==
    ASSUME NEW rows \in Seq(MatrixRows), NEW c, NEW i \in 1..Len(rows), c \in 1..Len(rows[i].pats)
    PROVE  /\ Without(rows, c)[i] \in MatrixRows
           /\ Without(rows, c)[i].pats = RemoveAt(rows[i].pats, c)
           /\ Without(rows, c)[i].arm = rows[i].arm
           /\ Without(rows, c)[i].guard = rows[i].guard
           /\ RowWeight[Without(rows, c)[i]] <= RowWeight[rows[i]]
<1> DEFINE row == rows[i]
           pats == RemoveAt(row.pats, c)
           new == Without(rows, c)[i]
<1>1. row \in MatrixRows /\ row.pats \in Seq(Pats)
    BY RowWeightFacts
<1>2. pats \in Seq(Pats)
    BY <1>1, RemoveAtFacts
<1>3. Total(Bulk, pats) + Bulk[row.pats[c]] = Total(Bulk, row.pats)
    BY <1>1, BulkFacts, RemoveAtTotal
<1>4. new = [row EXCEPT !.pats = pats]
    BY DEF Without
<1>5. row.pats[c] \in Pats
    BY <1>1
<1> HIDE DEF row, pats, new
<1>6. new \in MatrixRows /\ new.pats = pats /\ new.arm = row.arm /\ new.guard = row.guard
    BY <1>1, <1>2, <1>4, RowWith
<1>7. Bulk[row.pats[c]] \in Nat /\ Total(Bulk, pats) \in Nat
    BY <1>2, <1>5, BulkFacts, SumFacts
<1>8. Pow[Total(Bulk, pats)] <= Pow[Total(Bulk, pats) + Bulk[row.pats[c]]]
    BY <1>7, PowFacts
<1>9. RowWeight[new] <= RowWeight[row]
    BY <1>1, <1>3, <1>6, <1>8, RowWeightFacts
<1> QED BY <1>6, <1>9 DEF row, pats, new

LEMMA DefaultLighter ==
    ASSUME NEW rows, NEW occ, IsMatrix(rows, occ), NEW c \in 1..Len(occ), \A i \in 1..Len(rows) : c \in 1..Len(rows[i].pats)
    PROVE  /\ IsMatrix(DefaultRows(rows, c), RemoveAt(occ, c))
           /\ Lighter(<<DefaultRows(rows, c), RemoveAt(occ, c)>>, rows, occ)
<1> DEFINE K == WildRows(rows, c)
           g == Without(rows, c)
           new == DefaultRows(rows, c)
           places == RemoveAt(occ, c)
<1>1. rows \in Seq(MatrixRows) /\ occ \in Seq(Places)
    BY DEF IsMatrix
<1>2. new = Selected(rows, K, g)
    BY <1>1, AsSelected
<1>3. K \in SUBSET (1..Len(rows))
    BY DEF WildRows
<1>4. \A i \in K : g[i] \in MatrixRows /\ RowWeight[g[i]] <= RowWeight[rows[i]]
    BY <1>1, <1>3, WithoutFacts
<1> HIDE DEF K, g, new
<1>5. new \in Seq(MatrixRows)
    BY <1>1, <1>2, <1>3, <1>4, SelectedFacts
<1>6. Total(RowWeight, new) <= Total(RowWeight, rows)
    BY <1>1, <1>2, <1>3, <1>4, SelectedWeighs
<1>7. places \in Seq(Places) /\ Len(places) = Len(occ) - 1
    BY <1>1, RemoveAtFacts
<1> HIDE DEF places
<1>8. IsMatrix(new, places)
    BY <1>5, <1>7 DEF IsMatrix
<1>9. Weigh[<<new, places>>] < Weigh[<<rows, occ>>]
    BY <1>6, <1>7, <1>8, WeighIs
<1> QED BY <1>8, <1>9, WeighIs DEF Lighter, new, places

LEMMA IntoFacts ==
    ASSUME NEW rows \in Seq(MatrixRows), NEW c, NEW key, NEW i \in Hits(rows, c, key), c \in 1..Len(rows[i].pats)
    PROVE  LET pat == rows[i].pats[c]
               new == Into(rows, c, key)[i]
           IN  /\ i \in 1..Len(rows) /\ Hit(pat, key) /\ pat \in Pats
               /\ SubPatterns(pat, key) \in Seq(Pats)
               /\ new \in MatrixRows
               /\ new.pats = SubPatterns(pat, key) \o RemoveAt(rows[i].pats, c)
               /\ new.arm = rows[i].arm
               /\ new.guard = rows[i].guard
               /\ RowWeight[new] <= RowWeight[rows[i]]
               /\ HasParts(Core[pat]) =>
                    Len(Core[pat].args) \in Nat /\ RowWeight[new] + (Len(Core[pat].args) + 1) <= RowWeight[rows[i]]
<1> DEFINE row == rows[i]
           pat == row.pats[c]
           subs == SubPatterns(pat, key)
           rest == RemoveAt(row.pats, c)
           pats == subs \o rest
           new == Into(rows, c, key)[i]
           q == Core[pat]
<1>0. i \in 1..Len(rows) /\ Hit(pat, key)
    <2>1. DOMAIN rows = 1..Len(rows)
        OBVIOUS
    <2> QED BY <2>1 DEF Hits
<1>1. row \in MatrixRows /\ row.pats \in Seq(Pats) /\ pat \in Pats
    <2>1. row \in MatrixRows
        BY <1>0
    <2>2. row.pats \in Seq(Pats)
        BY <2>1, RowWeightFacts
    <2> QED BY <2>1, <2>2
<1>2. rest \in Seq(Pats) /\ Total(Bulk, rest) + Bulk[pat] = Total(Bulk, row.pats)
    BY <1>1, RemoveAtFacts, BulkFacts, RemoveAtTotal
<1>3. new = [row EXCEPT !.pats = pats]
    BY <1>0 DEF Into
<1> HIDE DEF row, pat, rest, new
<1>4. /\ subs \in Seq(Pats) /\ Total(Bulk, subs) <= Bulk[pat]
      /\ HasParts(q) => subs = q.args /\ (Total(Bulk, q.args) + Len(q.args)) + 1 = Bulk[pat]
    BY <1>0, <1>1, SubPatternsFacts
<1>q. HasParts(q) => Len(q.args) \in Nat
    <2>1. q \in Pats
        BY <1>1, CoreFacts
    <2>2. HasParts(q) => q.args \in Seq(Pats)
        BY <2>1, PatternParts
    <2> HIDE DEF q
    <2> QED BY <2>2
<1> HIDE DEF subs, q
<1>5. pats \in Seq(Pats) /\ Total(Bulk, pats) = Total(Bulk, subs) + Total(Bulk, rest)
    BY <1>2, <1>4, BulkFacts, SumConcat, ConcatProperties
<1> HIDE DEF pats
<1>6. new \in MatrixRows /\ new.pats = pats /\ new.arm = row.arm /\ new.guard = row.guard
    BY <1>1, <1>3, <1>5, RowWith
<1> DEFINE s == Total(Bulk, subs)
           t == Total(Bulk, rest)
           b == Bulk[pat]
           k == Len(q.args)
<1>7. s \in Nat /\ t \in Nat /\ b \in Nat
    BY <1>1, <1>2, <1>4, BulkFacts, SumFacts
<1>8. RowWeight[new] = Pow[s + t] /\ RowWeight[row] = Pow[t + b]
    BY <1>1, <1>2, <1>5, <1>6, RowWeightFacts
<1>9. RowWeight[new] <= RowWeight[row]
    <2>1. s <= b
        BY <1>4
    <2> HIDE DEF s, t, b
    <2> DEFINE d == b - s
    <2>2. d \in Nat /\ s + t \in Nat /\ (s + t) + d = t + b
        BY <1>7, <2>1
    <2> HIDE DEF d
    <2>3. Pow[s + t] <= Pow[(s + t) + d]
        BY <2>2, PowFacts
    <2> QED BY <1>8, <2>2, <2>3
<1>10. HasParts(q) => RowWeight[new] + (k + 1) <= RowWeight[row]
    <2> SUFFICES ASSUME HasParts(q) PROVE RowWeight[new] + (k + 1) <= RowWeight[row]
        OBVIOUS
    <2>1. (s + k) + 1 = b /\ k \in Nat
        BY <1>4, <1>q
    <2> HIDE DEF s, t, b, k
    <2>2. (s + t) + (k + 1) = t + b /\ s + t \in Nat
        BY <1>7, <2>1
    <2>3. Pow[s + t] + (k + 1) <= Pow[(s + t) + (k + 1)]
        BY <2>1, <2>2, PowFacts
    <2> QED BY <1>8, <2>2, <2>3
<1> QED BY <1>0, <1>1, <1>4, <1>6, <1>9, <1>10, <1>q DEF row, pat, rest, new, subs, pats, q

LEMMA SpecializedLighter ==
    ASSUME NEW rows, NEW occ, IsMatrix(rows, occ), NEW c \in 1..Len(occ), \A i \in 1..Len(rows) : c \in 1..Len(rows[i].pats),
           NEW key, Hits(rows, c, key) # {}
    PROVE  /\ IsMatrix(SpecializedRows(rows, c, key), SpecializedPlaces(rows, occ, c, key))
           /\ Lighter(<<SpecializedRows(rows, c, key), SpecializedPlaces(rows, occ, c, key)>>, rows, occ)
<1> DEFINE K == Hits(rows, c, key)
           g == Into(rows, c, key)
           new == SpecializedRows(rows, c, key)
           places == SpecializedPlaces(rows, occ, c, key)
           o == Min(K)
           subs == SubPlaces(rows[o].pats[c], occ[c])
           l == Len(subs)
           q == Core[rows[o].pats[c]]
<1>1. rows \in Seq(MatrixRows) /\ occ \in Seq(Places)
    BY DEF IsMatrix
<1>2. new = Selected(rows, K, g)
    BY <1>1, AsSelected
<1>3. K \in SUBSET (1..Len(rows))
    BY <1>1, AsSelected
<1>4. \A i \in K : g[i] \in MatrixRows /\ RowWeight[g[i]] <= RowWeight[rows[i]]
    BY <1>1, <1>3, IntoFacts
<1>5. /\ o \in K /\ o \in 1..Len(rows) /\ l \in Nat /\ rows[o].pats[c] \in Pats /\ occ[c] \in Places
      /\ places \in Seq(Places) /\ Len(places) = (Len(occ) - 1) + l
    BY <1>1, SpecializedPlacesFacts
<1>6. l # 0 => HasParts(q) /\ l <= Len(q.args)
    BY <1>5, SubPlacesFacts
<1>7. HasParts(q) => Len(q.args) \in Nat /\ RowWeight[g[o]] + (Len(q.args) + 1) <= RowWeight[rows[o]]
    BY <1>1, <1>3, <1>5, IntoFacts
<1>8. RowWeight[g[o]] \in Nat /\ RowWeight[rows[o]] \in Nat
    <2>1. g[o] \in MatrixRows /\ rows[o] \in MatrixRows
        BY <1>1, <1>4, <1>5
    <2> QED BY <2>1, RowWeightFacts
<1> DEFINE d == IF l = 0 THEN 0 ELSE l + 1
<1> HIDE DEF K, g, new, places, o, subs, l, q
<1>9. d \in Nat /\ RowWeight[g[o]] + d <= RowWeight[rows[o]]
    <2>1. CASE l = 0
        BY <1>4, <1>5, <1>8, <2>1
    <2>2. CASE l # 0
        <3> DEFINE k == Len(q.args)
                   a == RowWeight[g[o]]
                   b == RowWeight[rows[o]]
        <3>1. k \in Nat /\ a + (k + 1) <= b /\ l <= k
            BY <1>6, <1>7, <2>2
        <3>2. a \in Nat /\ b \in Nat /\ l \in Nat
            BY <1>5, <1>8
        <3> HIDE DEF k, a, b
        <3>3. l + 1 \in Nat /\ a + (l + 1) <= b
            BY <3>1, <3>2
        <3>4. d = l + 1
            BY <2>2
        <3> HIDE DEF d
        <3>5. d \in Nat /\ a + d <= b
            BY <3>3, <3>4
        <3> QED BY <3>5 DEF a, b
    <2> QED BY <2>1, <2>2
<1>10. new \in Seq(MatrixRows)
    BY <1>1, <1>2, <1>3, <1>4, SelectedFacts
<1> HIDE DEF d
<1>11. Total(RowWeight, new) + d <= Total(RowWeight, rows)
    BY <1>1, <1>2, <1>3, <1>4, <1>5, <1>9, SelectedWeighs
<1>12. IsMatrix(new, places)
    BY <1>5, <1>10 DEF IsMatrix
<1>13. (Len(occ) - 1) + l < d + Len(occ)
    <2>1. Len(occ) \in Nat
        BY <1>1
    <2> QED BY <1>5, <2>1 DEF d
<1>14. Weigh[<<new, places>>] < Weigh[<<rows, occ>>]
    <2>1. Weigh[<<new, places>>] = Total(RowWeight, new) + ((Len(occ) - 1) + l) /\ Total(RowWeight, new) \in Nat
        BY <1>5, <1>12, WeighIs
    <2>2. Weigh[<<rows, occ>>] = Total(RowWeight, rows) + Len(occ) /\ Total(RowWeight, rows) \in Nat /\ Len(occ) \in Nat
        BY WeighIs
    <2> DEFINE a == Total(RowWeight, new)
               b == Total(RowWeight, rows)
               m == Len(occ)
               x == Weigh[<<new, places>>]
               y == Weigh[<<rows, occ>>]
    <2>3. a \in Nat /\ b \in Nat /\ m \in Nat /\ l \in Nat /\ d \in Nat /\ a + d <= b
        BY <1>5, <1>9, <1>11, <2>1, <2>2
    <2>4. (m - 1) + l < d + m /\ x = a + ((m - 1) + l) /\ y = b + m
        BY <1>13, <2>1, <2>2
    <2> HIDE DEF a, b, m, x, y
    <2>5. x < y
        BY <2>3, <2>4
    <2> QED BY <2>5 DEF x, y
<1> QED BY <1>12, <1>14, WeighIs DEF Lighter, new, places

-----------------------------------------------------------------------------
(* Compile is what its definition says: a node depends on lighter matrices. *)

FailOf(sub, rows, occ) == sub[<<OtherArms(rows, rows[1].arm), occ>>]
DefaultOf(sub, rows, occ, c) ==
    IF DefaultRows(rows, c) = <<>> THEN leaf("fail") ELSE sub[<<DefaultRows(rows, c), RemoveAt(occ, c)>>]
UnderOf(sub, rows, occ, c, key) == sub[<<SpecializedRows(rows, c, key), SpecializedPlaces(rows, occ, c, key)>>]
KeysAt(rows, c) == IF TestedKeys(rows, c) # {} THEN TestedKeys(rows, c) ELSE {ChosenKey(rows, c)}
CasesOf(sub, rows, occ, c) == [key \in KeysAt(rows, c) |-> UnderOf(sub, rows, occ, c, key)]
BindsAt(rows, occ, c) ==
    FlattenSeq([i \in DOMAIN rows |-> IF i \in AliasRows(rows, c) THEN OfArm(rows[i].arm, BoundBy[<<rows[i].pats[c], occ[c]>>]) ELSE <<>>])
BindsOf(rows, occ) ==
    OfArm(rows[1].arm, FlattenSeq([i \in 1..Min({Len(rows[1].pats), Len(occ)}) |-> BoundBy[<<rows[1].pats[i], occ[i]>>]]))

WildBody(fail, rows, occ) ==
    IF \E i \in 1..Min({Len(rows[1].pats), Len(occ)}) : ~Bindable[<<rows[1].pats[i], occ[i]>>] THEN leaf("error")
    ELSE IF ~rows[1].guard THEN ArmNode(rows[1].arm, BindsOf(rows, occ))
    ELSE IF fail.n = "error" THEN leaf("error")
    ELSE [n |-> "guard", arm |-> rows[1].arm, binds |-> BindsOf(rows, occ), fail |-> fail]

TestFails(default, under, rows, occ, c) ==
    \/ \E i \in AliasRows(rows, c) : ~Bindable[<<rows[i].pats[c], occ[c]>>]
    \/ default.n = "error"
    \/ \E key \in KeysAt(rows, c) : ~Testable(rows, c, key, occ[c])
IsOrphan(rows, occ, c) == TestedKeys(rows, c) = {} /\ SpecializedPlaces(rows, occ, c, ChosenKey(rows, c)) = <<>>
TestBody(default, under, rows, occ, c) ==
    IF TestFails(default, under, rows, occ, c) THEN leaf("error")
    ELSE IF IsOrphan(rows, occ, c) THEN leaf("orphan")
    ELSE IF \E key \in KeysAt(rows, c) : under[key].n = "error" THEN leaf("error")
    ELSE IF TestedKeys(rows, c) # {}
    THEN [n |-> "switch", place |-> occ[c], binds |-> BindsAt(rows, occ, c), default |-> default, cases |-> under]
    ELSE [n |-> "goto", binds |-> BindsAt(rows, occ, c), next |-> under[ChosenKey(rows, c)]]

LEMMA WildNodeIs ==
    ASSUME NEW sub, NEW rows, NEW occ
    PROVE  WildNode(sub, rows, occ) = WildBody(FailOf(sub, rows, occ), rows, occ)
BY Zenon DEF WildNode, WildBody, FailOf, BindsOf

LEMMA TestNodeIs ==
    ASSUME NEW sub, NEW rows, NEW occ, NEW c
    PROVE  TestNode(sub, rows, occ, c) = TestBody(DefaultOf(sub, rows, occ, c), CasesOf(sub, rows, occ, c), rows, occ, c)
<1> DEFINE default == DefaultOf(sub, rows, occ, c)
           under == CasesOf(sub, rows, occ, c)
           errs == \E i \in AliasRows(rows, c) : ~Bindable[<<rows[i].pats[c], occ[c]>>]
           tests == TestedKeys(rows, c) # {}
<1>1. TestNode(sub, rows, occ, c) =
        IF errs THEN leaf("error")
        ELSE IF default.n = "error" \/ \E key \in KeysAt(rows, c) : ~Testable(rows, c, key, occ[c]) THEN leaf("error")
        ELSE IF ~tests /\ SpecializedPlaces(rows, occ, c, ChosenKey(rows, c)) = <<>> THEN leaf("orphan")
        ELSE IF \E key \in KeysAt(rows, c) : under[key].n = "error" THEN leaf("error")
        ELSE IF tests
        THEN [n |-> "switch", place |-> occ[c], binds |-> BindsAt(rows, occ, c), default |-> default, cases |-> under]
        ELSE [n |-> "goto", binds |-> BindsAt(rows, occ, c), next |-> under[ChosenKey(rows, c)]]
    BY Zenon DEF TestNode, DefaultOf, CasesOf, UnderOf, KeysAt, BindsAt
<1> DEFINE t1 == default.n = "error"
           t2 == \E key \in KeysAt(rows, c) : ~Testable(rows, c, key, occ[c])
           t3 == SpecializedPlaces(rows, occ, c, ChosenKey(rows, c)) = <<>>
           t4 == \E key \in KeysAt(rows, c) : under[key].n = "error"
           n1 == leaf("error")
           n2 == leaf("orphan")
           n3 == [n |-> "switch", place |-> occ[c], binds |-> BindsAt(rows, occ, c), default |-> default, cases |-> under]
           n4 == [n |-> "goto", binds |-> BindsAt(rows, occ, c), next |-> under[ChosenKey(rows, c)]]
<1>2. TestNode(sub, rows, occ, c) =
        IF errs THEN n1 ELSE IF t1 \/ t2 THEN n1 ELSE IF ~tests /\ t3 THEN n2 ELSE IF t4 THEN n1 ELSE IF tests THEN n3 ELSE n4
    BY <1>1
<1>3. TestBody(default, under, rows, occ, c) =
        IF errs \/ t1 \/ t2 THEN n1 ELSE IF ~tests /\ t3 THEN n2 ELSE IF t4 THEN n1 ELSE IF tests THEN n3 ELSE n4
    <2>1. TestFails(default, under, rows, occ, c) <=> (errs \/ t1 \/ t2)
        BY DEF TestFails
    <2>2. IsOrphan(rows, occ, c) <=> (~tests /\ t3)
        BY DEF IsOrphan
    <2>3. TestBody(default, under, rows, occ, c) =
            IF TestFails(default, under, rows, occ, c) THEN n1
            ELSE IF IsOrphan(rows, occ, c) THEN n2 ELSE IF t4 THEN n1 ELSE IF tests THEN n3 ELSE n4
        BY Zenon DEF TestBody
    <2> HIDE DEF errs, t1, t2, t3, t4, tests, n1, n2, n3, n4, default, under
    <2> QED BY <2>1, <2>2, <2>3
<1> HIDE DEF errs, t1, t2, t3, t4, tests, n1, n2, n3, n4, default, under
<1>4. TestNode(sub, rows, occ, c) = TestBody(default, under, rows, occ, c)
    BY <1>2, <1>3
<1> QED BY <1>4 DEF default, under

LEMMA NodeLocal ==
    ASSUME NEW rows, NEW occ, IsMatrix(rows, occ), NEW f, NEW g,
           \A y : Lighter(y, rows, occ) => f[y] = g[y]
    PROVE  MatrixNode(f, rows, occ) = MatrixNode(g, rows, occ)
<1> DEFINE c == BestColumn(rows, Len(occ))
<1>0. rows \in Seq(MatrixRows) /\ occ \in Seq(Places)
    BY DEF IsMatrix
<1>1. CASE rows = <<>>
    BY <1>1, Zenon DEF MatrixNode
<1>2. CASE rows # <<>> /\ AllWild(rows[1].pats)
    <2>1. FailOf(f, rows, occ) = FailOf(g, rows, occ)
        BY <1>2, OthersLighter DEF FailOf
    <2>2. WildNode(f, rows, occ) = WildNode(g, rows, occ)
        BY <2>1, WildNodeIs, Zenon
    <2> QED BY <1>2, <2>2, Zenon DEF MatrixNode
<1>3. CASE rows # <<>> /\ ~AllWild(rows[1].pats) /\ occ = <<>>
    BY <1>3, Zenon DEF MatrixNode
<1>4. CASE rows # <<>> /\ ~AllWild(rows[1].pats) /\ occ # <<>>
           /\ (occ[c].type = NoType \/ \E i \in DOMAIN rows : Len(rows[i].pats) < c)
    BY <1>4, Zenon DEF MatrixNode
<1>5. CASE rows # <<>> /\ ~AllWild(rows[1].pats) /\ occ # <<>>
           /\ ~(occ[c].type = NoType \/ \E i \in DOMAIN rows : Len(rows[i].pats) < c)
    <2>1. MatrixNode(f, rows, occ) = TestNode(f, rows, occ, c) /\ MatrixNode(g, rows, occ) = TestNode(g, rows, occ, c)
        BY <1>5, Zenon DEF MatrixNode
    <2>2. Len(occ) \in Nat /\ Len(occ) # 0
        BY <1>0, <1>5
    <2>3. c \in 1..Len(occ)
        BY <2>2, BestFacts
    <2>4. \A i \in 1..Len(rows) : c \in 1..Len(rows[i].pats)
        <3> SUFFICES ASSUME NEW i \in 1..Len(rows) PROVE c \in 1..Len(rows[i].pats)
            OBVIOUS
        <3>1. i \in DOMAIN rows /\ rows[i] \in MatrixRows
            BY <1>0
        <3>2. rows[i].pats \in Seq(Pats)
            BY <3>1, RowWeightFacts
        <3>3. ~(Len(rows[i].pats) < c)
            BY <1>5, <3>1
        <3> HIDE DEF c
        <3> QED BY <2>2, <2>3, <3>2, <3>3
    <2> HIDE DEF c
    <2>5. DefaultOf(f, rows, occ, c) = DefaultOf(g, rows, occ, c)
        <3>1. f[<<DefaultRows(rows, c), RemoveAt(occ, c)>>] = g[<<DefaultRows(rows, c), RemoveAt(occ, c)>>]
            BY <2>3, <2>4, DefaultLighter
        <3> QED BY <3>1, Zenon DEF DefaultOf
    <2> DEFINE d == DefaultOf(f, rows, occ, c)
               u == CasesOf(f, rows, occ, c)
               v == CasesOf(g, rows, occ, c)
    <2>6. CASE \E key \in KeysAt(rows, c) : ~Testable(rows, c, key, occ[c])
        <3>1. TestFails(d, u, rows, occ, c) /\ TestFails(d, v, rows, occ, c)
            BY <2>6 DEF TestFails
        <3> HIDE DEF d, u, v
        <3>2. TestBody(d, u, rows, occ, c) = TestBody(d, v, rows, occ, c)
            BY <3>1, Zenon DEF TestBody
        <3> QED BY <2>1, <2>5, <3>2, TestNodeIs, Zenon DEF d, u, v
    <2>7. CASE \A key \in KeysAt(rows, c) : Testable(rows, c, key, occ[c])
        <3>1. ASSUME NEW key \in KeysAt(rows, c)
              PROVE  UnderOf(f, rows, occ, c, key) = UnderOf(g, rows, occ, c, key)
            <4>1. Hits(rows, c, key) # {}
                BY <2>7 DEF Testable
            <4>2. Lighter(<<SpecializedRows(rows, c, key), SpecializedPlaces(rows, occ, c, key)>>, rows, occ)
                BY <2>3, <2>4, <4>1, SpecializedLighter
            <4> QED BY <4>2, Zenon DEF UnderOf
        <3>2. u = v
            BY <3>1, Zenon DEF CasesOf
        <3> QED BY <2>1, <2>5, <3>2, TestNodeIs, Zenon
    <2> QED BY <2>6, <2>7
<1> QED BY <1>1, <1>2, <1>3, <1>4, <1>5

CompileBody(f, m) == MatrixNode(f, Expanded(m[1]), m[2])
AgreeBelow(f, g, m) == \A y \in Matrices : Weigh[y] < Weigh[m] => f[y] = g[y]

LEMMA WeighType == Weigh \in [Matrices -> Nat]
<1> SUFFICES ASSUME NEW m \in Matrices PROVE Total(RowWeight, m[1]) + Len(m[2]) \in Nat
    BY DEF Weigh
<1>1. m[1] \in Seq(MatrixRows) /\ m[2] \in Seq(Places)
    BY DEF Matrices
<1>2. Total(RowWeight, m[1]) \in Nat
    BY <1>1, RowWeightFacts, SumFacts
<1> QED BY <1>1, <1>2

LEMMA ExpandedLighter ==
    ASSUME NEW m \in Matrices
    PROVE  /\ IsMatrix(Expanded(m[1]), m[2])
           /\ \A y : Lighter(y, Expanded(m[1]), m[2]) => y \in Matrices /\ Weigh[y] < Weigh[m]
<1>1. m[1] \in Seq(MatrixRows) /\ m[2] \in Seq(Places) /\ m = <<m[1], m[2]>>
    BY DEF Matrices
<1>2. IsMatrix(m[1], m[2]) /\ IsMatrix(Expanded(m[1]), m[2])
    BY <1>1, ExpandedFacts DEF IsMatrix
<1>3. Total(RowWeight, Expanded(m[1])) <= Total(RowWeight, m[1])
    BY <1>1, ExpandedWeighs
<1>4. Weigh[<<Expanded(m[1]), m[2]>>] <= Weigh[<<m[1], m[2]>>]
    BY <1>2, <1>3, WeighIs
<1>5. \A y \in Matrices : Weigh[y] \in Nat
    BY WeighType
<1>6. <<Expanded(m[1]), m[2]>> \in Matrices
    BY <1>2, WeighIs
<1> DEFINE e == <<Expanded(m[1]), m[2]>>
<1>7. Weigh[e] <= Weigh[m] /\ e \in Matrices
    BY <1>1, <1>4, <1>6, Zenon
<1> HIDE DEF e
<1>8. \A y \in Matrices : Weigh[y] < Weigh[e] => Weigh[y] < Weigh[m]
    BY <1>5, <1>7
<1> QED BY <1>2, <1>8 DEF Lighter, e

LEMMA BodyLocal ==
    ASSUME NEW m \in Matrices, NEW f, NEW g, AgreeBelow(f, g, m)
    PROVE  CompileBody(f, m) = CompileBody(g, m)
<1> DEFINE rows == Expanded(m[1])
           occ == m[2]
<1>1. IsMatrix(rows, occ) /\ \A y : Lighter(y, rows, occ) => y \in Matrices /\ Weigh[y] < Weigh[m]
    BY ExpandedLighter
<1> HIDE DEF rows, occ
<1>2. \A y : Lighter(y, rows, occ) => f[y] = g[y]
    BY <1>1 DEF AgreeBelow
<1>3. MatrixNode(f, rows, occ) = MatrixNode(g, rows, occ)
    BY <1>1, <1>2, NodeLocal
<1> QED BY <1>3 DEF CompileBody, rows, occ

IsUpTo(f, n) == \A m \in Matrices : Weigh[m] < n => f[m] = CompileBody(f, m)

LEMMA UpToAgree ==
    ASSUME NEW n \in Nat, NEW f, NEW g, IsUpTo(f, n), IsUpTo(g, n)
    PROVE  \A m \in Matrices : Weigh[m] < n => f[m] = g[m]
<1> DEFINE S == {m \in Matrices : Weigh[m] < n => f[m] = g[m]}
<1>0. \A m \in Matrices : Weigh[m] \in Nat
    BY WeighType
<1>1. ASSUME NEW m \in Matrices, \A y \in Matrices : Weigh[y] < Weigh[m] => y \in S
      PROVE  m \in S
    <2> SUFFICES ASSUME Weigh[m] < n PROVE f[m] = g[m]
        OBVIOUS
    <2>1. AgreeBelow(f, g, m)
        BY <1>0, <1>1 DEF AgreeBelow
    <2>2. CompileBody(f, m) = CompileBody(g, m)
        BY <2>1, BodyLocal
    <2>3. f[m] = CompileBody(f, m) /\ g[m] = CompileBody(g, m)
        BY DEF IsUpTo
    <2> QED BY <2>2, <2>3
<1>2. Matrices \subseteq S
    <2> HIDE DEF S
    <2> QED BY <1>1, WeighType, RankInduction
<1> QED BY <1>2

LEMMA UpToLonger ==
    ASSUME NEW n \in Nat, NEW f, IsUpTo(f, n)
    PROVE  \E g : IsUpTo(g, n + 1)
<1> DEFINE g == [m \in Matrices |-> IF Weigh[m] < n THEN f[m] ELSE CompileBody(f, m)]
<1>1. \A m \in Matrices : g[m] = IF Weigh[m] < n THEN f[m] ELSE CompileBody(f, m)
    OBVIOUS
<1> HIDE DEF g
<1>0. \A m \in Matrices : Weigh[m] \in Nat
    BY WeighType
<1>2. ASSUME NEW m \in Matrices, Weigh[m] < n + 1
      PROVE  g[m] = CompileBody(g, m)
    <2>1. AgreeBelow(f, g, m)
        BY <1>0, <1>1, <1>2 DEF AgreeBelow
    <2>2. CompileBody(f, m) = CompileBody(g, m)
        BY <2>1, BodyLocal
    <2>3. Weigh[m] < n => f[m] = CompileBody(f, m)
        BY DEF IsUpTo
    <2> QED BY <1>1, <2>2, <2>3
<1>3. IsUpTo(g, n + 1)
    BY <1>2 DEF IsUpTo
<1> QED BY <1>3

LEMMA CompileDef == \A m \in Matrices : Compile[m] = CompileBody(Compile, m)
<1> DEFINE Is(f) == f = [m \in Matrices |-> CompileBody(f, m)]
           F == [n \in Nat |-> CHOOSE f : IsUpTo(f, n)]
           f == [m \in Matrices |-> F[Weigh[m] + 1][m]]
           S == {n \in Nat : \E g : IsUpTo(g, n)}
<1>0. \A m \in Matrices : Weigh[m] \in Nat /\ Weigh[m] + 1 \in Nat
    BY WeighType
<1>1. Nat \subseteq S
    <2>1. 0 \in S
        <3>1. IsUpTo(Weigh, 0)
            BY <1>0 DEF IsUpTo
        <3> QED BY <3>1
    <2>2. ASSUME NEW n \in Nat, n \in S PROVE n + 1 \in S
        <3>1. PICK g : IsUpTo(g, n)
            BY <2>2
        <3>2. \E h : IsUpTo(h, n + 1)
            BY <3>1, UpToLonger
        <3> QED BY <3>2
    <2> HIDE DEF S
    <2> QED BY <2>1, <2>2, NatSetInduction
<1>2. ASSUME NEW n \in Nat
      PROVE  IsUpTo(F[n], n)
    <2>1. \E g : IsUpTo(g, n)
        BY <1>1
    <2>2. IsUpTo(CHOOSE g : IsUpTo(g, n), n)
        BY <2>1, Zenon
    <2> QED BY <2>2
<1> HIDE DEF F
<1>3. ASSUME NEW m \in Matrices
      PROVE  f[m] = CompileBody(f, m)
    <2> DEFINE g == F[Weigh[m] + 1]
    <2>1. IsUpTo(g, Weigh[m] + 1)
        BY <1>0, <1>2
    <2>2. f[m] = g[m]
        OBVIOUS
    <2>3. Weigh[m] < Weigh[m] + 1
        BY <1>0
    <2>4. g[m] = CompileBody(g, m)
        <3> HIDE DEF g
        <3> QED BY <2>1, <2>3 DEF IsUpTo
    <2>5. ASSUME NEW y \in Matrices, Weigh[y] < Weigh[m]
          PROVE  g[y] = f[y]
        <3> DEFINE h == F[Weigh[y] + 1]
                   n == Weigh[y] + 1
        <3>1. n \in Nat /\ Weigh[y] < n /\ \A z \in Matrices : Weigh[z] < n => Weigh[z] < Weigh[m] + 1
            BY <1>0, <2>5
        <3>2. IsUpTo(h, n)
            BY <1>2, <3>1
        <3>3. IsUpTo(g, n)
            <4> HIDE DEF g, n
            <4> QED BY <2>1, <3>1 DEF IsUpTo
        <3>4. f[y] = h[y]
            OBVIOUS
        <3> HIDE DEF g, h, n, f
        <3>5. g[y] = h[y]
            BY <3>1, <3>2, <3>3, UpToAgree
        <3> QED BY <3>4, <3>5
    <2> HIDE DEF f, g
    <2>6. AgreeBelow(g, f, m)
        BY <2>5 DEF AgreeBelow
    <2>7. CompileBody(g, m) = CompileBody(f, m)
        BY <2>6, BodyLocal
    <2> QED BY <2>2, <2>4, <2>7
<1>4. \E h : Is(h)
    <2>1. f = [m \in Matrices |-> f[m]]
        OBVIOUS
    <2> HIDE DEF f
    <2>2. Is(f)
        BY <1>3, <2>1, Zenon
    <2> QED BY <2>2
<1>5. Compile = CHOOSE h : Is(h)
    BY Zenon DEF Compile, CompileBody
<1>6. Is(Compile)
    <2> HIDE DEF Is
    <2> QED BY <1>4, <1>5
<1> QED BY <1>6

-----------------------------------------------------------------------------
(* What is done to a pattern keeps its types, what it matches and where its *)
(* parts stand.                                                             *)

\* o is p, or what is left of it when its alternatives or alias are taken off.
Narrower(o, p) ==
    /\ o \in Pats /\ o \in Within[p]
    /\ TypesOf[p] \subseteq TypesOf[o]
    /\ Standing[o] \subseteq Standing[p]
    /\ IsPlain(p) => o = p

LEMMA NarrowerChild ==
    ASSUME NEW pat \in Pats, pat.p \in {"or", "alias"}, NEW q \in Children(pat)
    PROVE  Narrower(q, pat)
<1>1. q \in Pats /\ q \in Within[pat]
    BY WithinFacts
<1>2. TypesOf[pat] \subseteq TypesOf[q]
    <2>1. TypesOf[pat] = TypesBody(TypesOf, pat)
        BY TypesOfDef
    <2>2. CASE pat.p = "or"
        <3>1. q = pat.l \/ q = pat.r
            BY <2>2 DEF Children, HasParts
        <3> QED BY <2>1, <2>2, <3>1 DEF TypesBody, IsWild, HasParts
    <2>3. CASE pat.p = "alias"
        <3>1. q = pat.q
            BY <2>3 DEF Children, HasParts
        <3> QED BY <2>1, <2>3, <3>1 DEF TypesBody, IsWild, HasParts
    <2> QED BY <2>2, <2>3
<1>3. Standing[q] \subseteq Standing[pat]
    <2>1. Standing[pat] = StandingBody(Standing, pat) /\ ~HasParts(pat)
        BY StandingDef DEF HasParts
    <2> QED BY <2>1 DEF StandingBody
<1>4. ~IsPlain(pat)
    BY DEF IsPlain, IsWild
<1> QED BY <1>1, <1>2, <1>3, <1>4 DEF Narrower

LEMMA NarrowerSelf == ASSUME NEW pat \in Pats PROVE Narrower(pat, pat)
BY WithinFacts DEF Narrower

LEMMA NarrowerTransitive ==
    ASSUME NEW p \in Pats, NEW q, Narrower(q, p), NEW o, Narrower(o, q)
    PROVE  Narrower(o, p)
<1>1. o \in Pats /\ TypesOf[p] \subseteq TypesOf[o] /\ Standing[o] \subseteq Standing[p] /\ (IsPlain(p) => o = p)
    BY DEF Narrower
<1>2. o \in Within[p]
    BY WithinTransitive DEF Narrower
<1> QED BY <1>1, <1>2 DEF Narrower

LEMMA CoreIs ==
    ASSUME NEW pat \in Pats
    PROVE  /\ Narrower(Core[pat], pat)
           /\ \A v \in AllValues : Matches(pat, v) <=> Matches(Core[pat], v)
           /\ AliasesSimple(pat) /\ pat.p # "or" => Core[pat].p # "or"
<1> DEFINE S == {x \in Pats : /\ Narrower(Core[x], x)
                              /\ \A v \in AllValues : Matches(x, v) <=> Matches(Core[x], v)}
<1>1. ASSUME NEW x \in Pats, \A y \in Pats : Size[y] < Size[x] => y \in S
      PROVE  x \in S
    <2>1. CASE x.p = "alias"
        <3>1. x.q \in S /\ x.q \in Pats /\ x.q \in Children(x) /\ Core[x] = Core[x.q]
            BY <1>1, <2>1, PatternParts, CoreFacts DEF Children, HasParts
        <3>2. Narrower(x.q, x)
            BY <2>1, <3>1, NarrowerChild
        <3>3. Narrower(Core[x.q], x.q)
            BY <3>1
        <3>4. Narrower(Core[x], x)
            BY <3>1, <3>2, <3>3, NarrowerTransitive
        <3>5. ASSUME NEW v \in AllValues
              PROVE  Matches(x, v) <=> Matches(x.q, v)
            <4>1. Matches(x, v) = MatchBody(Matching, x, v)
                BY MatchesDef
            <4> QED BY <2>1, <4>1 DEF MatchBody, IsWild, HasParts, Matches
        <3> QED BY <3>1, <3>4, <3>5
    <2>2. CASE x.p # "alias"
        BY <2>2, CoreFacts, NarrowerSelf
    <2> QED BY <2>1, <2>2
<1>2. Pats \subseteq S
    <2> HIDE DEF S
    <2> QED BY <1>1, SizeType, RankInduction
<1>3. ASSUME AliasesSimple(pat), pat.p # "or"
      PROVE  Core[pat].p # "or"
    <2>1. CASE pat.p = "alias"
        <3>1. pat.q \in Pats /\ Core[pat] = Core[pat.q]
            BY <2>1, PatternParts, CoreFacts
        <3>2. Core[pat.q] \in Within[pat.q]
            BY <1>2, <3>1 DEF Narrower
        <3>3. pat \in Within[pat]
            BY WithinFacts
        <3> QED BY <1>3, <2>1, <3>1, <3>2, <3>3 DEF AliasesSimple
    <2>2. CASE pat.p # "alias"
        BY <1>3, <2>2, CoreFacts
    <2> QED BY <2>1, <2>2
<1> QED BY <1>2, <1>3

LEMMA OptionIs ==
    ASSUME NEW pat \in Pats
    PROVE  /\ Options[pat] \in Seq(Pats)
           /\ \A o \in Elements(Options[pat]) : Narrower(o, pat) /\ o.p # "or"
           /\ \A v \in AllValues : Matches(pat, v) <=> \E o \in Elements(Options[pat]) : Matches(o, v)
           /\ pat.p # "or" => Options[pat] = <<pat>>
           /\ Elements(Options[pat]) # {}
<1> DEFINE S == {x \in Pats : /\ \A o \in Elements(Options[x]) : Narrower(o, x) /\ o.p # "or"
                              /\ \A v \in AllValues : Matches(x, v) <=> \E o \in Elements(Options[x]) : Matches(o, v)
                              /\ Elements(Options[x]) # {}}
<1>0. \A x \in Pats : x.p # "or" => Options[x] = <<x>>
    BY OptionsDef DEF OptionsBody
<1>1. ASSUME NEW x \in Pats, \A y \in Pats : Size[y] < Size[x] => y \in S
      PROVE  x \in S
    <2>1. CASE x.p = "or"
        <3>1. x.l \in S /\ x.r \in S /\ x.l \in Children(x) /\ x.r \in Children(x)
            BY <1>1, <2>1, PatternParts DEF Children, HasParts
        <3>2. x.l \in Pats /\ x.r \in Pats
            BY <3>1
        <3>3. Options[x] = Options[x.l] \o Options[x.r] /\ Options[x.l] \in Seq(Pats) /\ Options[x.r] \in Seq(Pats)
            BY <2>1, <3>2, OptionsDef DEF OptionsBody
        <3>4. Elements(Options[x]) = Elements(Options[x.l]) \cup Elements(Options[x.r])
            BY <3>3, ConcatRange
        <3>5. Narrower(x.l, x) /\ Narrower(x.r, x)
            BY <2>1, <3>1, NarrowerChild
        <3>6. \A o \in Elements(Options[x]) : Narrower(o, x) /\ o.p # "or"
            BY <3>1, <3>4, <3>5, NarrowerTransitive
        <3>7. ASSUME NEW v \in AllValues
              PROVE  Matches(x, v) <=> Matches(x.l, v) \/ Matches(x.r, v)
            <4>1. Matches(x, v) = MatchBody(Matching, x, v)
                BY MatchesDef
            <4> QED BY <2>1, <4>1 DEF MatchBody, IsWild, HasParts, Matches
        <3>8. Elements(Options[x]) # {}
            BY <3>1, <3>4
        <3> QED BY <3>1, <3>4, <3>6, <3>7, <3>8
    <2>2. CASE x.p # "or"
        <3>1. Elements(Options[x]) = {x}
            <4>1. Options[x] = <<x>>
                BY <1>0, <2>2
            <4>2. {<<x>>[k] : k \in 1..Len(<<x>>)} = {x}
                OBVIOUS
            <4> QED BY <4>1, <4>2 DEF Elements
        <3> QED BY <2>2, <3>1, NarrowerSelf
    <2> QED BY <2>1, <2>2
<1>2. Pats \subseteq S
    <2> HIDE DEF S
    <2> QED BY <1>1, SizeType, RankInduction
<1> QED BY <1>0, <1>2, OptionsDef

\* The conditions of InStep on one pattern.
Fine(pat) == ElementsPlain(pat) /\ AliasesSimple(pat)

LEMMA FineWithin ==
    ASSUME NEW pat \in Pats, NEW q \in Within[pat]
    PROVE  /\ q \in Pats
           /\ ElementsPlain(pat) => ElementsPlain(q)
           /\ AliasesSimple(pat) => AliasesSimple(q)
           /\ NoOr(pat) => NoOr(q)
<1>1. Within[q] \subseteq Within[pat] /\ q \in Pats
    BY WithinTransitive, WithinFacts
<1> QED BY <1>1 DEF ElementsPlain, AliasesSimple, NoOr

LEMMA PlainIs ==
    ASSUME NEW pat \in Pats, IsPlain(pat)
    PROVE  /\ pat.p \in {"wild", "bind", "lit"} /\ Core[pat] = pat
           /\ Within[pat] = {pat} /\ Standing[pat] = {<<<<>>, pat>>}
           /\ Fine(pat) /\ NoOr(pat)
<1>1. pat.p \in {"wild", "bind", "lit"}
    BY DEF IsPlain, IsWild
<1>2. Core[pat] = pat
    BY <1>1, CoreFacts
<1>3. ~HasParts(pat) /\ Children(pat) = {}
    BY <1>1 DEF HasParts, Children
<1>4. Within[pat] = {pat}
    BY <1>3, WithinDef DEF WithinBody
<1>5. Standing[pat] = {<<<<>>, pat>>}
    BY <1>3, StandingDef DEF StandingBody
<1>6. Fine(pat) /\ NoOr(pat)
    BY <1>1, <1>4 DEF Fine, ElementsPlain, AliasesSimple, NoOr, IsRecord
<1> QED BY <1>1, <1>2, <1>4, <1>5, <1>6

\* ApartAlike and Passes, of what is left of patterns.
LEMMA ApartNarrower ==
    ASSUME NEW p, NEW q, NEW a, NEW b, Narrower(a, p), Narrower(b, q)
    PROVE  /\ ApartAlike(p, q) => ApartAlike(a, b)
           /\ Passes(p, q) => Passes(a, b)
<1>1. Standing[a] \subseteq Standing[p] /\ Standing[b] \subseteq Standing[q]
    BY DEF Narrower
<1>2. ApartAlike(p, q) => ApartAlike(a, b)
    BY <1>1, Zenon DEF ApartAlike
<1>3. Passes(p, q) => Passes(a, b)
    BY <1>1, Zenon DEF Passes
<1> QED BY <1>2, <1>3

LEMMA Consed ==
    ASSUME NEW A, NEW a \in A, NEW s \in Seq(A)
    PROVE  /\ <<a>> \o s \in Seq(A) /\ Len(<<a>> \o s) = 1 + Len(s) /\ Len(s) \in Nat
           /\ \A i \in 1..(1 + Len(s)) : (<<a>> \o s)[i] = IF i = 1 THEN a ELSE s[i - 1]
<1> DEFINE h == <<a>>
<1>1. h \in Seq(A) /\ Len(h) = 1 /\ h[1] = a /\ Len(s) \in Nat
    BY LenProperties
<1> HIDE DEF h
<1>2. /\ h \o s \in Seq(A) /\ Len(h \o s) = 1 + Len(s)
      /\ \A k \in 1..(1 + Len(s)) : (h \o s)[k] = IF k <= 1 THEN h[k] ELSE s[k - 1]
    BY <1>1, ConcatProperties
<1>3. ASSUME NEW i \in 1..(1 + Len(s))
      PROVE  (h \o s)[i] = IF i = 1 THEN a ELSE s[i - 1]
    <2>1. i <= 1 <=> i = 1
        BY <1>1
    <2> QED BY <1>1, <1>2, <2>1
<1> QED BY <1>1, <1>2, <1>3 DEF h

LEMMA PrefixFacts ==
    ASSUME NEW s \in Seq(Steps), NEW t \in Seq(Steps), NEW x \in Steps
    PROVE  /\ IsPrefix(<<>>, t)
           /\ IsPrefix(s, t) => IsPrefix(<<x>> \o s, <<x>> \o t)
<1>1. IsPrefix(<<>>, t)
    BY DEF IsPrefix
<1>2. ASSUME IsPrefix(s, t)
      PROVE  IsPrefix(<<x>> \o s, <<x>> \o t)
    <2> DEFINE u == <<x>> \o s
               w == <<x>> \o t
               l == Len(s)
               m == Len(t)
    <2>1. /\ u \in Seq(Steps) /\ Len(u) = 1 + l /\ l \in Nat
          /\ \A i \in 1..(1 + l) : u[i] = IF i = 1 THEN x ELSE s[i - 1]
        BY Consed
    <2>2. /\ w \in Seq(Steps) /\ Len(w) = 1 + m /\ m \in Nat
          /\ \A i \in 1..(1 + m) : w[i] = IF i = 1 THEN x ELSE t[i - 1]
        BY Consed
    <2>3. l <= m /\ \A i \in 1..l : s[i] = t[i]
        <3>1. l <= m /\ SubSeq(s, 1, l) = SubSeq(t, 1, l)
            BY <1>2 DEF IsPrefix
        <3>2. \A i \in 1..l : SubSeq(s, 1, l)[i] = s[i] /\ SubSeq(t, 1, l)[i] = t[i]
            BY <3>1
        <3> QED BY <3>1, <3>2
    <2> HIDE DEF u, w, l, m
    <2>4. Len(u) <= Len(w) /\ \A i \in 1..Len(u) : u[i] = w[i]
        <3>1. Len(u) <= Len(w)
            BY <2>1, <2>2, <2>3
        <3>2. ASSUME NEW i \in 1..Len(u) PROVE u[i] = w[i]
            <4>1. i \in 1..(1 + l) /\ i \in 1..(1 + m)
                BY <2>1, <2>2, <2>3
            <4>2. CASE i = 1
                BY <2>1, <2>2, <4>1, <4>2
            <4>3. CASE i # 1
                <5>1. i - 1 \in 1..l
                    BY <2>1, <4>1, <4>3
                <5> QED BY <2>1, <2>2, <2>3, <4>1, <4>3, <5>1
            <4> QED BY <4>2, <4>3
        <3> QED BY <3>1, <3>2
    <2>5. SubSeq(u, 1, Len(u)) = SubSeq(w, 1, Len(u))
        <3>1. SubSeq(u, 1, Len(u)) = [i \in 1..Len(u) |-> u[i]]
            BY <2>1, <2>4
        <3>2. SubSeq(w, 1, Len(u)) = [i \in 1..Len(u) |-> w[i]]
            BY <2>1, <2>2, <2>4
        <3> QED BY <2>4, <3>1, <3>2
    <2> QED BY <2>4, <2>5 DEF IsPrefix, u, w
<1> QED BY <1>1, <1>2

LEMMA StandingType ==
    ASSUME NEW pat \in Pats
    PROVE  Standing[pat] \subseteq Seq(Steps) \X Pats
<1> DEFINE S == {x \in Pats : Standing[x] \subseteq Seq(Steps) \X Pats}
<1>1. ASSUME NEW x \in Pats, \A y \in Pats : Size[y] < Size[x] => y \in S
      PROVE  x \in S
    <2>0. Standing[x] = StandingBody(Standing, x)
        BY StandingDef
    <2>1. <<<<>>, x>> \in Seq(Steps) \X Pats
        <3>1. <<>> \in Seq(Steps)
            OBVIOUS
        <3> QED BY <3>1
    <2>2. ASSUME HasParts(x), NEW i \in DOMAIN x.args
          PROVE  Below(Standing, x, i) \subseteq Seq(Steps) \X Pats
        <3>1. StepTo(x, i) \in Steps /\ x.args[i] \in Pats
            BY <2>2, StepFacts, PatternParts
        <3>2. Standing[x.args[i]] \subseteq Seq(Steps) \X Pats
            BY <1>1, <2>2, <3>1, PatternParts
        <3>3. ASSUME NEW o \in Seq(Steps) \X Pats
              PROVE  <<<<StepTo(x, i)>> \o o[1], o[2]>> \in Seq(Steps) \X Pats
            <4>1. <<StepTo(x, i)>> \in Seq(Steps) /\ o[1] \in Seq(Steps) /\ o[2] \in Pats
                BY <3>1
            <4>2. <<StepTo(x, i)>> \o o[1] \in Seq(Steps)
                BY <4>1, ConcatProperties
            <4> QED BY <4>1, <4>2
        <3> QED BY <3>2, <3>3 DEF Below
    <2>3. \A q \in Children(x) : Standing[q] \subseteq Seq(Steps) \X Pats
        BY <1>1, ChildrenSmaller
    <2> QED BY <2>0, <2>1, <2>2, <2>3 DEF StandingBody
<1>2. Pats \subseteq S
    <2> HIDE DEF S
    <2> QED BY <1>1, SizeType, RankInduction
<1> QED BY <1>2

LEMMA StandsFirst == ASSUME NEW pat \in Pats PROVE <<<<>>, pat>> \in Standing[pat]
BY StandingDef DEF StandingBody

\* The payload of a constructor stands a step below it.
LEMMA PayloadStands ==
    ASSUME NEW pat \in Pats, pat.p = "ctor", NEW i \in DOMAIN pat.args, NEW o \in Standing[pat.args[i]]
    PROVE  /\ StepTo(pat, i) \in Steps /\ StepTo(pat, i) = [ctor |-> pat.tag, part |-> i]
           /\ <<<<StepTo(pat, i)>> \o o[1], o[2]>> \in Standing[pat]
<1>1. HasParts(pat)
    BY DEF HasParts
<1>2. <<<<StepTo(pat, i)>> \o o[1], o[2]>> \in Below(Standing, pat, i)
    BY DEF Below
<1>3. <<<<StepTo(pat, i)>> \o o[1], o[2]>> \in Standing[pat]
    BY <1>1, <1>2, StandingDef DEF StandingBody
<1>4. StepTo(pat, i) = [ctor |-> pat.tag, part |-> i]
    BY DEF StepTo
<1> QED BY <1>1, <1>3, <1>4, StepFacts

LEMMA PayloadApart ==
    ASSUME NEW a \in Pats, NEW b \in Pats, a.p = "ctor", b.p = "ctor", a.tag = b.tag,
           NEW i, i \in DOMAIN a.args, i \in DOMAIN b.args
    PROVE  /\ ApartAlike(a, b) => ApartAlike(a.args[i], b.args[i])
           /\ Passes(a, b) => Passes(a.args[i], b.args[i])
<1> DEFINE x == StepTo(a, i)
           Up(o) == <<<<x>> \o o[1], o[2]>>
<1>1. StepTo(b, i) = x
    BY DEF StepTo
<1>2. x \in Steps /\ a.args[i] \in Pats /\ b.args[i] \in Pats
    BY StepFacts, PatternParts DEF HasParts
<1>3. \A o \in Standing[a.args[i]] : Up(o) \in Standing[a]
    BY PayloadStands
<1>4. \A o \in Standing[b.args[i]] : Up(o) \in Standing[b]
    BY <1>1, PayloadStands
<1>5. ASSUME NEW o \in Standing[a.args[i]], NEW r \in Standing[b.args[i]]
      PROVE  /\ Up(o)[2] = o[2] /\ Up(r)[2] = r[2]
             /\ IsPrefix(o[1], r[1]) => IsPrefix(Up(o)[1], Up(r)[1])
             /\ o[1] = r[1] => Up(o)[1] = Up(r)[1]
    <2>1. o[1] \in Seq(Steps) /\ r[1] \in Seq(Steps)
        BY <1>2, StandingType
    <2> HIDE DEF x
    <2> QED BY <1>2, <2>1, PrefixFacts
<1> HIDE DEF Up
<1>6. ASSUME ApartAlike(a, b)
      PROVE  ApartAlike(a.args[i], b.args[i])
    <2> SUFFICES ASSUME NEW o \in Standing[a.args[i]], NEW r \in Standing[b.args[i]]
                 PROVE  /\ IsRecord(r[2]) /\ IsPrefix(o[1], r[1]) => ~IsWild(o[2])
                        /\ IsRecord(o[2]) /\ IsRecord(r[2]) /\ o[1] = r[1] =>
                             [k \in DOMAIN o[2].args |-> PartOf(o[2], k)] = [k \in DOMAIN r[2].args |-> PartOf(r[2], k)]
        BY DEF ApartAlike
    <2>1. Up(o) \in Standing[a] /\ Up(r) \in Standing[b]
        BY <1>3, <1>4
    <2>2. /\ IsRecord(Up(r)[2]) /\ IsPrefix(Up(o)[1], Up(r)[1]) => ~IsWild(Up(o)[2])
          /\ IsRecord(Up(o)[2]) /\ IsRecord(Up(r)[2]) /\ Up(o)[1] = Up(r)[1] =>
               [k \in DOMAIN Up(o)[2].args |-> PartOf(Up(o)[2], k)] = [k \in DOMAIN Up(r)[2].args |-> PartOf(Up(r)[2], k)]
        BY <1>6, <2>1 DEF ApartAlike
    <2> QED BY <1>5, <2>2
<1>7. ASSUME Passes(a, b)
      PROVE  Passes(a.args[i], b.args[i])
    <2> SUFFICES ASSUME NEW o \in Standing[a.args[i]], NEW r \in Standing[b.args[i]]
                 PROVE  IsWild(o[2]) /\ o[1] = r[1] => ~(r[2].p = "ctor" /\ r[2].args # <<>>)
        BY DEF Passes
    <2>1. Up(o) \in Standing[a] /\ Up(r) \in Standing[b]
        BY <1>3, <1>4
    <2>2. IsWild(Up(o)[2]) /\ Up(o)[1] = Up(r)[1] => ~(Up(r)[2].p = "ctor" /\ Up(r)[2].args # <<>>)
        BY <1>7, <2>1 DEF Passes
    <2> QED BY <1>5, <2>2
<1> QED BY <1>6, <1>7

\* A wildcard and the payload of a constructor.
LEMMA WildApart ==
    ASSUME NEW a \in Pats, IsWild(a), NEW b \in Pats
    PROVE  /\ ApartAlike(b, a) /\ Passes(b, a)
           /\ b.p = "ctor" /\ ApartAlike(a, b) => \A i \in DOMAIN b.args : ApartAlike(a, b.args[i])
<1>1. Standing[a] = {<<<<>>, a>>} /\ a.p # "ctor" /\ ~IsRecord(a)
    BY PlainIs DEF IsPlain, IsWild, IsRecord
<1>2. ApartAlike(b, a)
    BY <1>1 DEF ApartAlike
<1>3. Passes(b, a)
    BY <1>1 DEF Passes
<1>4. ASSUME b.p = "ctor", NEW i \in DOMAIN b.args, ApartAlike(a, b)
      PROVE  ApartAlike(a, b.args[i])
    <2>1. ASSUME NEW r \in Standing[b.args[i]]
          PROVE  ~IsRecord(r[2])
        <3> DEFINE x == StepTo(b, i)
                   u == <<<<x>> \o r[1], r[2]>>
        <3>1. u \in Standing[b] /\ x \in Steps /\ u[2] = r[2]
            BY <1>4, PayloadStands
        <3>2. u[1] \in Seq(Steps)
            <4> HIDE DEF u
            <4> QED BY <3>1, StandingType
        <3> HIDE DEF u
        <3>3. IsPrefix(<<>>, u[1])
            BY <3>1, <3>2, PrefixFacts
        <3>4. IsRecord(u[2]) /\ IsPrefix(<<<<>>, a>>[1], u[1]) => ~IsWild(<<<<>>, a>>[2])
            BY <1>1, <1>4, <3>1, Zenon DEF ApartAlike
        <3> QED BY <3>1, <3>3, <3>4
    <2> QED BY <2>1 DEF ApartAlike
<1> QED BY <1>2, <1>3, <1>4

LEMMA PlainApart ==
    ASSUME NEW a \in Pats, NEW b \in Pats, IsPlain(a), IsPlain(b)
    PROVE  ApartAlike(a, b) /\ Passes(a, b)
<1>1. Standing[a] = {<<<<>>, a>>} /\ Standing[b] = {<<<<>>, b>>}
    BY PlainIs
<1>2. ~IsRecord(a) /\ ~IsRecord(b) /\ b.p # "ctor"
    BY PlainIs DEF IsRecord
<1> QED BY <1>1, <1>2 DEF ApartAlike, Passes

-----------------------------------------------------------------------------
(* The types and values of the parts of a place. *)

LEMMA PayloadPlace ==
    ASSUME NEW t \in TypeNames, Shape[t].kind = "ctor", NEW c \in Tags(t), NEW i \in DOMAIN Shape[t].parts[c]
    PROVE  /\ i = 1 /\ Len(Shape[t].parts[c]) = 1
           /\ StepType(t, EnumItem(c)) = Shape[t].parts[c][1]
           /\ \A v \in Inhabitants[t] : v.tag = c =>
                1 \in DOMAIN v.parts /\ StepValue(v, EnumItem(c)) = v.parts[1] /\ v.parts[1] \in Inhabitants[Shape[t].parts[c][1]]
<1>1. c # NoCtor /\ t # NoType /\ Len(Shape[t].parts[c]) <= 1
    BY TreeAssumption
<1>2. Shape[t].parts[c] \in Seq(TypeNames)
    BY TypeFacts
<1> DEFINE ts == Shape[t].parts[c]
<1>3. i = 1 /\ Len(ts) = 1 /\ 1 \in DOMAIN ts
    <2>1. ts \in Seq(TypeNames) /\ i \in DOMAIN ts /\ Len(ts) <= 1
        BY <1>1, <1>2
    <2> HIDE DEF ts
    <2> DEFINE n == Len(ts)
    <2>2. i \in 1..n /\ n \in Nat /\ n <= 1 /\ DOMAIN ts = 1..n
        BY <2>1
    <2> HIDE DEF n
    <2>3. i = 1 /\ n = 1
        BY <2>2
    <2>4. 1 \in 1..n
        BY <2>3
    <2> QED BY <2>2, <2>3, <2>4 DEF n
<1>4. StepType(t, EnumItem(c)) = ts[1]
    <2> DEFINE ctors == {d \in Tags(t) : /\ IF EnumItem(c).ctor = NoCtor THEN Shape[t].kind \in {"tuple", "struct"}
                                            ELSE Shape[t].kind = "ctor" /\ d = EnumItem(c).ctor
                                         /\ EnumItem(c).part \in DOMAIN Shape[t].parts[d]}
               d == CHOOSE d \in ctors : TRUE
    <2>1. EnumItem(c).ctor = c /\ EnumItem(c).part = 1
        BY DEF EnumItem
    <2>2. ctors = {c}
        BY <1>1, <1>3, <2>1
    <2>3. ctors # {} /\ d = c
        BY <2>2
    <2>4. StepType(t, EnumItem(c)) = Shape[t].parts[d][EnumItem(c).part]
        BY <1>1, <2>3 DEF StepType
    <2> HIDE DEF ctors, d
    <2> QED BY <2>1, <2>3, <2>4
<1>5. ASSUME NEW v \in Inhabitants[t], v.tag = c
      PROVE  1 \in DOMAIN v.parts /\ StepValue(v, EnumItem(c)) = v.parts[1] /\ v.parts[1] \in Inhabitants[ts[1]]
    <2>1. DOMAIN v.parts = DOMAIN ts
        BY <1>5, TypeFacts
    <2>2. v.parts[1] \in Inhabitants[ts[1]]
        BY <1>3, <1>5, <2>1, TypeFacts
    <2>3. EnumItem(c).ctor \in {NoCtor, v.tag} /\ EnumItem(c).part = 1
        BY <1>5 DEF EnumItem
    <2> QED BY <1>3, <2>1, <2>2, <2>3 DEF StepValue
<1> QED BY <1>3, <1>4, <1>5

LEMMA FieldPlace ==
    ASSUME NEW t \in TypeNames, Shape[t].kind \in {"tuple", "struct"}, NEW c \in Tags(t), NEW i \in DOMAIN Shape[t].parts[c]
    PROVE  /\ StepType(t, Field(i)) = Shape[t].parts[c][i] /\ Shape[t].parts[c][i] \in TypeNames
           /\ \A v \in Inhabitants[t] :
                StepValue(v, Field(i)) = v.parts[i] /\ v.parts[i] \in Inhabitants[Shape[t].parts[c][i]]
<1>1. t # NoType /\ Tags(t) = {c}
    BY TreeAssumption, TypeFacts
<1>2. StepType(t, Field(i)) = Shape[t].parts[c][i]
    <2> DEFINE ctors == {d \in Tags(t) : /\ IF Field(i).ctor = NoCtor THEN Shape[t].kind \in {"tuple", "struct"}
                                            ELSE Shape[t].kind = "ctor" /\ d = Field(i).ctor
                                         /\ Field(i).part \in DOMAIN Shape[t].parts[d]}
               d == CHOOSE d \in ctors : TRUE
    <2>1. Field(i).ctor = NoCtor /\ Field(i).part = i
        BY DEF Field
    <2>2. ctors = {c}
        BY <1>1, <2>1
    <2>3. ctors # {} /\ d = c
        BY <2>2
    <2>4. StepType(t, Field(i)) = Shape[t].parts[d][Field(i).part]
        BY <1>1, <2>3 DEF StepType
    <2> HIDE DEF ctors, d
    <2> QED BY <2>1, <2>3, <2>4
<1>3. Shape[t].parts[c][i] \in TypeNames
    <2> DEFINE ts == Shape[t].parts[c]
    <2>1. ts \in Seq(TypeNames) /\ i \in DOMAIN ts
        BY TypeFacts
    <2> HIDE DEF ts
    <2>2. ts[i] \in TypeNames
        BY <2>1
    <2> QED BY <2>2 DEF ts
<1>4. ASSUME NEW v \in Inhabitants[t]
      PROVE  StepValue(v, Field(i)) = v.parts[i] /\ v.parts[i] \in Inhabitants[Shape[t].parts[c][i]]
    <2>1. v.tag = c /\ DOMAIN v.parts = DOMAIN Shape[t].parts[v.tag]
        BY <1>1, TypeFacts
    <2>2. v.parts[i] \in Inhabitants[Shape[t].parts[c][i]]
        BY <2>1, TypeFacts
    <2>3. Field(i).ctor \in {NoCtor, v.tag} /\ Field(i).part = i
        BY DEF Field
    <2> QED BY <2>1, <2>2, <2>3 DEF StepValue
<1> QED BY <1>2, <1>3, <1>4

\* What can be bound where it stands: bind_pattern_variables looks for the
\* argument of a constructor at the place of the whole.
LEMMA NoRecordBindable ==
    ASSUME NEW pat \in Pats, NEW place \in Places, place.type # NoType, \A s \in Within[pat] : ~IsRecord(s)
    PROVE  Bindable[<<pat, place>>]
<1> DEFINE S == {x \in Pats : (\A s \in Within[x] : ~IsRecord(s)) => Bindable[<<x, place>>]}
<1>1. ASSUME NEW x \in Pats, \A y \in Pats : Size[y] < Size[x] => y \in S
      PROVE  x \in S
    <2> SUFFICES ASSUME \A s \in Within[x] : ~IsRecord(s) PROVE Bindable[<<x, place>>]
        OBVIOUS
    <2>1. ~IsRecord(x)
        BY WithinFacts
    <2>2. ASSUME NEW q \in Children(x)
          PROVE  Bindable[<<q, place>>]
        <3>1. q \in S /\ Within[q] \subseteq Within[x]
            BY <1>1, ChildrenSmaller, WithinFacts
        <3> QED BY <3>1
    <2>3. x.p = "alias" => x.q \in Children(x)
        BY DEF Children, HasParts
    <2>4. x.p = "ctor" /\ x.args # <<>> => x.args[1] \in Children(x)
        <3> SUFFICES ASSUME x.p = "ctor", x.args # <<>> PROVE x.args[1] \in Children(x)
            OBVIOUS
        <3>1. HasParts(x) /\ x.args \in Seq(Pats)
            BY PatternParts DEF HasParts
        <3>2. 1 \in DOMAIN x.args
            BY <3>1
        <3> QED BY <3>1, <3>2 DEF Children
    <2>5. BindableBody(Bindable, x, place)
        BY <2>1, <2>2, <2>3, <2>4 DEF BindableBody, IsRecord
    <2> QED BY <2>5, BindableDef
<1>2. Pats \subseteq S
    <2> HIDE DEF S
    <2> QED BY <1>1, SizeType, RankInduction
<1> QED BY <1>2

LEMMA PlainBindable ==
    ASSUME NEW pat \in Pats, NEW place \in Places, IsPlain(pat), place.type # NoType
    PROVE  Bindable[<<pat, place>>]
<1>1. Within[pat] = {pat} /\ ~IsRecord(pat)
    BY PlainIs DEF IsRecord
<1> QED BY <1>1, NoRecordBindable

BindsIn(pat) == ElementsPlain(pat) /\ \A r \in Within[pat] : r.p = "ctor" => \A s \in Within[r] : ~IsRecord(s)

LEMMA CanBind ==
    ASSUME NEW pat \in Pats, NEW place \in Places, place.type \in TypesOf[pat], BindsIn(pat)
    PROVE  Bindable[<<pat, place>>]
<1> DEFINE t == place.type
           S == {x \in Pats : BindsIn(x) /\ t \in TypesOf[x] => Bindable[<<x, place>>]}
<1>0. t # NoType
    <2>1. t \in TypeNames
        BY TypesOfDef
    <2> QED BY <2>1, TreeAssumption
<1>1. ASSUME NEW x \in Pats, \A y \in Pats : Size[y] < Size[x] => y \in S
      PROVE  x \in S
    <2> SUFFICES ASSUME BindsIn(x), t \in TypesOf[x] PROVE Bindable[<<x, place>>]
        OBVIOUS
    <2>0. x.p \in PatKinds /\ x \in Within[x]
        BY PatternParts, WithinFacts
    <2>1. CASE IsPlain(x)
        BY <1>0, <2>1, PlainBindable
    <2>2. CASE x.p = "or"
        <3>1. BindableBody(Bindable, x, place)
            BY <2>2 DEF BindableBody
        <3> QED BY <3>1, BindableDef
    <2>3. CASE x.p = "alias"
        <3>1. x.q \in Children(x)
            BY <2>3 DEF Children, HasParts
        <3>2. x.q \in S /\ Within[x.q] \subseteq Within[x] /\ Narrower(x.q, x)
            BY <1>1, <2>3, <3>1, ChildrenSmaller, WithinFacts, NarrowerChild
        <3>3. BindsIn(x.q) /\ t \in TypesOf[x.q]
            BY <3>2 DEF BindsIn, ElementsPlain, Narrower
        <3>4. BindableBody(Bindable, x, place)
            BY <1>0, <2>3, <3>2, <3>3 DEF BindableBody
        <3> QED BY <3>4, BindableDef
    <2>4. CASE x.p = "ctor"
        <3>1. \A s \in Within[x] : ~IsRecord(s)
            BY <2>0, <2>4 DEF BindsIn
        <3> QED BY <1>0, <3>1, NoRecordBindable
    <2>5. CASE IsRecord(x)
        <3>1. HasParts(x) /\ IsCtor(x) /\ x.p \in {"tuple", "struct"}
            BY <2>5 DEF IsRecord, HasParts, IsCtor
        <3>2. x.p = Shape[t].kind /\ x.tag \in Tags(t) /\ t \in TypeNames
            BY <3>1, CtorFacts
        <3>3. ASSUME NEW i \in DOMAIN x.args
              PROVE  Bindable[<<x.args[i], At(place, Field(PartOf(x, i)))>>]
            <4>1. IsPlain(x.args[i]) /\ x.args[i] \in Pats
                BY <2>0, <2>5, <3>1, <3>3, PatternParts DEF BindsIn, ElementsPlain
            <4>2. PartOf(x, i) \in DOMAIN Shape[t].parts[x.tag]
                <5>1. t \in TypesBody(TypesOf, x)
                    BY TypesOfDef
                <5> QED BY <3>1, <3>3, <5>1 DEF TypesBody, HasParts, IsWild
            <4>3. StepType(t, Field(PartOf(x, i))) \in TypeNames
                BY <3>1, <3>2, <4>2, FieldPlace
            <4>4. At(place, Field(PartOf(x, i))) \in Places /\ At(place, Field(PartOf(x, i))).type # NoType
                BY <3>1, <3>3, <4>3, StepFacts, AtIsPlace, TreeAssumption
            <4> QED BY <4>1, <4>4, PlainBindable
        <3>4. BindableBody(Bindable, x, place)
            BY <1>0, <3>1, <3>2, <3>3 DEF BindableBody
        <3> QED BY <3>4, BindableDef
    <2> QED BY <2>0, <2>1, <2>2, <2>3, <2>4, <2>5 DEF PatKinds, IsPlain, IsWild, IsRecord
<1>2. Pats \subseteq S
    <2> HIDE DEF S
    <2> QED BY <1>1, SizeType, RankInduction
<1> QED BY <1>2

\* An alias, or a wildcard under aliases, can be bound where its place has a type.
LEMMA AliasBindable ==
    ASSUME NEW pat \in Pats, NEW place \in Places, place.type \in TypesOf[pat], Fine(pat),
           pat.p = "alias" \/ IsPlain(pat)
    PROVE  Bindable[<<pat, place>>]
<1>1. CASE pat.p = "alias"
    <2>1. Within[pat] = {pat} \cup Within[pat.q]
        <3>1. Children(pat) = {pat.q}
            BY <1>1 DEF Children, HasParts
        <3> QED BY <3>1, WithinDef DEF WithinBody
    <2>2. \A r \in Within[pat.q] : r.p = "ctor" => \A s \in Within[r] : ~IsRecord(s)
        BY <1>1, <2>1 DEF Fine, AliasesSimple
    <2>3. BindsIn(pat)
        BY <1>1, <2>1, <2>2 DEF BindsIn, Fine
    <2> QED BY <2>3, CanBind
<1>2. CASE IsPlain(pat)
    <2>1. place.type # NoType
        <3>1. place.type \in TypeNames
            BY TypesOfDef
        <3> QED BY <3>1, TreeAssumption
    <2> QED BY <1>2, <2>1, PlainBindable
<1> QED BY <1>1, <1>2
=============================================================================
