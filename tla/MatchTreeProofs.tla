--------------------------- MODULE MatchTreeProofs ---------------------------
(***************************************************************************)
(* The decision tree of a match, for all types, patterns and arms that     *)
(* keep its rows and places in step (InStep): ArmIsFirst,                  *)
(* AcceptedMatchRuns, IsDecides and VariablesAreBound are invariants of    *)
(* MSpec.                                                                  *)
(*                                                                         *)
(* The argument.  A matrix IsGood if its rows have a pattern for each      *)
(* place, typed as the place is, or if only wildcards are left.  Of a good *)
(* matrix no error is made (CompilesWell), and those below it are good, or *)
(* their first arm is settled (UnderKey, DefaultGood, OthersGood): this is *)
(* where InStep is needed.  For a value that is sent there, a row of a     *)
(* matrix below fits where the row it is made of does (Follows).           *)
(* Hence a node is right for a value (RightNode): it is made of a good     *)
(* matrix whose fitting rows are those of the arms that match the value    *)
(* and were not refused, or there is no such arm, or it is the first of    *)
(* them.  That the node control is at is right for the value and what was  *)
(* refused so far is the invariant (MInv); UInv is the part of it that is  *)
(* about the check of the match, and makes an accepted match exhaustive.   *)
(*                                                                         *)
(* Of the variables a matrix Carries, for each row that is the first of    *)
(* its arm to fit: each binding of the arm is still to come from a pattern *)
(* of the row, or was made, and no name in the rows of the arm makes it    *)
(* again (Accounted).  A column that is tested binds what is under its     *)
(* aliases, and the matrices below carry the rest (UnderCarries,           *)
(* DefaultCarries, OthersCarries); an arm binds what is left of its row    *)
(* (FirstBound, SettledBound).  Scoped is where OnePlace is needed.        *)
(***************************************************************************)
EXTENDS MatchTree, UsefulnessProofs

-----------------------------------------------------------------------------
(* The heads of a column. *)

\* A pattern that has been opened, for a place.
Suits(pat, place) == pat \in Pats /\ place.type \in TypesOf[pat] /\ Fine(pat)

LEMMA HeadKey ==
    ASSUME NEW pat, NEW place \in Places, Suits(pat, place), pat.p # "or"
    PROVE  LET q == Core[pat]
               t == place.type
           IN  /\ q \in Pats /\ t \in TypeNames /\ t \in TypesOf[q] /\ Fine(q) /\ Narrower(q, pat)
               /\ AnyAlias(pat) <=> IsWild(q)
               /\ IsWild(q) => KeyOf[pat] = WildKey
               /\ ~IsWild(q) => /\ IsCtor(q) /\ q.p = Shape[t].kind /\ q.tag \in Tags(t)
                                /\ KeyOf[pat] = [p |-> q.p, tag |-> q.tag]
                                /\ Hit(pat, KeyOf[pat])
               /\ \A v \in Inhabitants[t] :
                    /\ Matches(pat, v) <=> Matches(q, v)
                    /\ IsWild(q) => Matches(pat, v)
                    /\ Matches(pat, v) /\ ~IsWild(q) => q.tag = v.tag
                    /\ q.p = "lit" /\ q.tag = v.tag => Matches(pat, v)
<1> DEFINE q == Core[pat]
           t == place.type
<1>0. pat \in Pats /\ t \in TypesOf[pat] /\ Fine(pat)
    BY DEF Suits
<1>1. q \in Pats /\ q.p # "alias" /\ KeyOf[q] = KeyOf[pat]
    BY <1>0, CoreFacts
<1>2. /\ q \in Within[pat] /\ t \in TypesOf[q] /\ q.p # "or" /\ Narrower(q, pat)
      /\ \A v \in AllValues : Matches(pat, v) <=> Matches(q, v)
    <2>1. Narrower(q, pat) /\ q.p # "or" /\ \A v \in AllValues : Matches(pat, v) <=> Matches(q, v)
        BY <1>0, CoreIs DEF Fine
    <2> HIDE DEF q
    <2> QED BY <1>0, <2>1 DEF Narrower
<1>3. t \in TypeNames
    BY <1>0, TypesOfDef
<1>4. AnyAlias(pat) <=> IsWild(q)
    BY DEF AnyAlias
<1>h. ~IsWild(q) /\ KeyOf[pat] = [p |-> q.p, tag |-> q.tag] /\ IsCtor(q) => Hit(pat, KeyOf[pat])
    BY DEF Hit, IsCtor
<1> HIDE DEF q
<1>5. Fine(q)
    BY <1>0, <1>2, FineWithin DEF Fine
<1>6. KeyOf[q] = KeyBody(KeyOf, q) /\ q.p \in PatKinds
    BY <1>1, KeyOfDef, PatternParts
<1>7. IsWild(q) => KeyOf[pat] = WildKey
    BY <1>1, <1>6 DEF KeyBody
<1>8. ~IsWild(q) => IsCtor(q) /\ KeyOf[pat] = [p |-> q.p, tag |-> q.tag]
    BY <1>1, <1>2, <1>6 DEF KeyBody, IsCtor, IsWild, PatKinds
<1>9. ~IsWild(q) => q.p = Shape[t].kind /\ q.tag \in Tags(t)
    BY <1>2, <1>8, CtorFacts
<1>10. ASSUME NEW v \in Inhabitants[t]
       PROVE  /\ Matches(pat, v) <=> Matches(q, v)
              /\ IsWild(q) => Matches(pat, v)
              /\ Matches(pat, v) /\ ~IsWild(q) => q.tag = v.tag
              /\ q.p = "lit" /\ q.tag = v.tag => Matches(pat, v)
    <2>1. v \in AllValues
        BY <1>3, TypeFacts
    <2>2. Matches(q, v) = MatchBody(Matching, q, v)
        BY <1>1, <2>1, MatchesDef
    <2>3. Matches(pat, v) <=> Matches(q, v)
        BY <1>2, <2>1
    <2>4. IsWild(q) => Matches(q, v)
        BY <2>2 DEF MatchBody
    <2>5. Matches(q, v) /\ ~IsWild(q) => q.tag = v.tag
        BY <1>8, <2>2 DEF MatchBody, IsCtor, IsWild, HasParts
    <2>6. q.p = "lit" /\ q.tag = v.tag => Matches(q, v)
        BY <2>2 DEF MatchBody
    <2> QED BY <2>3, <2>4, <2>5, <2>6
<1> QED BY <1>1, <1>2, <1>3, <1>4, <1>5, <1>7, <1>8, <1>9, <1>10, <1>h DEF q

-----------------------------------------------------------------------------
(* The matrices that InStep leads to: a pattern for each place, or only    *)
(* wildcards when there are no places, and no more than one place unless   *)
(* the patterns have no parts.                                             *)

RowSuits(row, occ) ==
    IF occ = <<>> THEN \A k \in 1..Len(row.pats) : IsWild(row.pats[k])
    ELSE Len(row.pats) = Len(occ) /\ \A k \in 1..Len(occ) : Suits(row.pats[k], occ[k])

InOrder(rows) == \A i, j \in 1..Len(rows) : i < j => rows[i].arm <= rows[j].arm
PlainRows(rows) == \A i \in 1..Len(rows) : \A k \in 1..Len(rows[i].pats) : IsPlain(rows[i].pats[k])
ColumnsApart(rows, occ) ==
    \A i, j \in 1..Len(rows) : \A k \in 1..Len(occ) : ApartAlike(rows[i].pats[k], rows[j].pats[k])
GuardsPass(rows, occ) ==
    \A i, j \in 1..Len(rows) : \A k \in 1..Len(occ) :
        rows[i].guard /\ rows[i].arm <= rows[j].arm /\ ~(i = 1 /\ NoOr(rows[i].pats[k]))
            => Passes(rows[i].pats[k], rows[j].pats[k])

IsGood(rows, occ) ==
    /\ IsMatrix(rows, occ)
    /\ InOrder(rows)
    /\ \A i \in 1..Len(rows) : RowSuits(rows[i], occ)
    /\ Len(occ) >= 2 => PlainRows(rows)
    /\ ColumnsApart(rows, occ)
    /\ GuardsPass(rows, occ)

\* No alternatives are left.
NoneOr(rows, occ) == \A i \in 1..Len(rows) : \A k \in 1..Len(occ) : rows[i].pats[k].p # "or"

LEMMA RowAt ==
    ASSUME NEW rows, NEW occ, IsMatrix(rows, occ), NEW i \in 1..Len(rows)
    PROVE  rows[i] \in MatrixRows /\ rows[i].pats \in Seq(Pats) /\ rows[i].arm \in Nat /\ rows[i].guard \in BOOLEAN
<1>1. rows[i] \in MatrixRows
    BY DEF IsMatrix
<1> QED BY <1>1 DEF MatrixRows

LEMMA PlaceAt ==
    ASSUME NEW rows, NEW occ, IsMatrix(rows, occ)
    PROVE  /\ occ \in Seq(Places) /\ Len(occ) \in Nat /\ (occ = <<>> <=> Len(occ) = 0)
           /\ \A k \in 1..Len(occ) : occ[k] \in Places
           /\ rows \in Seq(MatrixRows) /\ Len(rows) \in Nat /\ (rows = <<>> <=> Len(rows) = 0)
BY DEF IsMatrix

\* Rows made of rows, in their order.
LEMMA InOrderKept ==
    ASSUME NEW rows, NEW new, NEW r, Len(rows) \in Nat, Len(new) \in Nat,
           \A i \in 1..Len(rows) : rows[i].arm \in Nat,
           \A k \in 1..Len(new) : r[k] \in 1..Len(rows) /\ new[k].arm = rows[r[k]].arm,
           \A k, m \in 1..Len(new) : k < m => r[k] <= r[m],
           InOrder(rows)
    PROVE  InOrder(new)
<1> SUFFICES ASSUME NEW k \in 1..Len(new), NEW m \in 1..Len(new), k < m
             PROVE  new[k].arm <= new[m].arm
    BY DEF InOrder
<1>1. r[k] <= r[m] /\ r[k] \in 1..Len(rows) /\ r[m] \in 1..Len(rows)
    OBVIOUS
<1>2. CASE r[k] < r[m]
    <2>1. rows[r[k]].arm <= rows[r[m]].arm
        BY <1>1, <1>2 DEF InOrder
    <2> QED BY <2>1
<1>3. CASE r[k] = r[m]
    <2>1. new[k].arm = new[m].arm /\ new[k].arm \in Nat
        BY <1>1, <1>3
    <2> QED BY <2>1
<1> QED BY <1>1, <1>2, <1>3

-----------------------------------------------------------------------------
(* A matrix opened: the alternatives of the first patterns. *)

FitsAt(row, occ, v) == \A k \in 1..Len(occ) : Matches(row.pats[k], ValueAt(occ[k], v))

LEMMA ExpandedRow ==
    ASSUME NEW row \in MatrixRows, NEW n, n = Len(row.pats), NEW j \in 1..Len(Expand(row))
    PROVE  /\ Expand(row)[j].arm = row.arm /\ Expand(row)[j].guard = row.guard
           /\ Len(Expand(row)[j].pats) = n
           /\ \A k \in 1..n : /\ Narrower(Expand(row)[j].pats[k], row.pats[k])
                              /\ k # 1 => Expand(row)[j].pats[k] = row.pats[k]
           /\ n # 0 => Expand(row)[j].pats[1] = Options[row.pats[1]][j] /\ Expand(row)[j].pats[1].p # "or"
<1> DEFINE E == Expand(row)
<1>0. row.pats \in Seq(Pats) /\ n \in Nat
    BY RowWeightFacts
<1>1. CASE row.pats = <<>>
    <2>1. E = <<row>>
        BY <1>1, ExpandType
    <2>2. 1..Len(<<row>>) = {1} /\ <<row>>[1] = row
        OBVIOUS
    <2>3. j = 1 /\ E[j] = row /\ n = 0
        <3>1. j \in 1..Len(<<row>>)
            BY <2>1
        <3> QED BY <1>1, <2>1, <2>2, <3>1
    <2> QED BY <2>3
<1>2. CASE row.pats # <<>>
    <2> DEFINE heads == Options[row.pats[1]]
               rest == Tail(row.pats)
               p == row.pats[1]
    <2>1. p \in Pats /\ rest \in Seq(Pats) /\ Len(rest) = n - 1 /\ row.pats = <<p>> \o rest /\ n # 0
        BY <1>0, <1>2, HeadTail
    <2>2. /\ Len(E) = Len(heads) /\ heads \in Seq(Pats)
          /\ \A k \in 1..Len(heads) : E[k].pats = <<heads[k]>> \o rest /\ E[k].arm = row.arm /\ E[k].guard = row.guard
        BY <1>2, ExpandFacts
    <2>3. \A o \in Elements(heads) : Narrower(o, p) /\ o.p # "or"
        BY <2>1, OptionIs
    <2> HIDE DEF heads, rest, E
    <2>4. j \in 1..Len(heads) /\ heads[j] \in Elements(heads) /\ heads[j] \in Pats
        <3>1. j \in 1..Len(heads)
            BY <2>2 DEF E
        <3> QED BY <2>2, <3>1 DEF Elements
    <2>5. /\ E[j].pats = <<heads[j]>> \o rest /\ Len(<<heads[j]>> \o rest) = n
          /\ \A k \in 1..n : (<<heads[j]>> \o rest)[k] = IF k = 1 THEN heads[j] ELSE rest[k - 1]
        <3>1. /\ Len(<<heads[j]>> \o rest) = 1 + Len(rest)
              /\ \A k \in 1..(1 + Len(rest)) : (<<heads[j]>> \o rest)[k] = IF k = 1 THEN heads[j] ELSE rest[k - 1]
            BY <2>1, <2>4, Consed
        <3>2. 1 + Len(rest) = n
            BY <1>0, <2>1
        <3> QED BY <2>2, <2>4, <3>1, <3>2
    <2>7. ASSUME NEW k \in 1..n
          PROVE  Narrower(E[j].pats[k], row.pats[k]) /\ (k # 1 => E[j].pats[k] = row.pats[k])
        <3>1. CASE k = 1
            BY <2>3, <2>4, <2>5, <3>1
        <3>2. CASE k # 1
            <4>1. E[j].pats[k] = row.pats[k] /\ row.pats[k] \in Pats
                <5>1. rest[k - 1] = row.pats[k]
                    <6>1. row.pats = <<p>> \o rest /\ 1 + Len(rest) = n
                        BY <1>0, <2>1
                    <6>2. \A i \in 1..(1 + Len(rest)) : (<<p>> \o rest)[i] = IF i = 1 THEN p ELSE rest[i - 1]
                        BY <2>1, Consed
                    <6> QED BY <3>2, <6>1, <6>2
                <5> QED BY <1>0, <2>5, <3>2, <5>1
            <4> QED BY <4>1, NarrowerSelf
        <3> QED BY <3>1, <3>2
    <2>8. E[j].pats[1] = heads[j] /\ heads[j].p # "or"
        <3>1. 1 \in 1..n
            BY <1>0, <2>1
        <3> QED BY <2>3, <2>4, <2>5, <3>1
    <2> QED BY <2>2, <2>4, <2>5, <2>7, <2>8 DEF E, heads
<1> QED BY <1>1, <1>2

LEMMA ExpandedAll ==
    ASSUME NEW row \in MatrixRows
    PROVE  /\ Len(Expand(row)) \in Nat /\ Len(Expand(row)) # 0
           /\ row.pats = <<>> \/ row.pats[1].p # "or" => Len(Expand(row)) = 1 /\ Expand(row)[1].pats = row.pats
           /\ row.pats # <<>> => Len(Expand(row)) = Len(Options[row.pats[1]])
<1>1. CASE row.pats = <<>>
    <2>1. Expand(row) = <<row>>
        BY <1>1, ExpandType
    <2>2. Len(<<row>>) = 1 /\ <<row>>[1] = row
        OBVIOUS
    <2> QED BY <1>1, <2>1, <2>2
<1>2. CASE row.pats # <<>>
    <2> DEFINE p == row.pats[1]
               heads == Options[p]
    <2>1. row.pats \in Seq(Pats) /\ p \in Pats /\ row.pats = <<p>> \o Tail(row.pats)
        BY <1>2, RowWeightFacts, HeadTail
    <2>2. /\ Len(Expand(row)) = Len(heads) /\ heads \in Seq(Pats)
          /\ \A k \in 1..Len(heads) : Expand(row)[k].pats = <<heads[k]>> \o Tail(row.pats)
        BY <1>2, ExpandFacts
    <2>3. Elements(heads) # {} /\ (p.p # "or" => heads = <<p>>)
        BY <2>1, OptionIs
    <2> HIDE DEF heads, p
    <2>4. Len(heads) # 0 /\ Len(heads) \in Nat
        BY <2>2, <2>3 DEF Elements
    <2>5. p.p # "or" => Len(heads) = 1 /\ heads[1] = p
        <3>1. Len(<<p>>) = 1 /\ <<p>>[1] = p
            OBVIOUS
        <3> QED BY <2>3, <3>1
    <2>6. p.p # "or" => Expand(row)[1].pats = row.pats
        <3>1. 1 \in 1..Len(heads)
            BY <2>4
        <3> QED BY <2>1, <2>2, <2>5, <3>1
    <2> QED BY <1>2, <2>2, <2>4, <2>5, <2>6 DEF heads, p
<1> QED BY <1>1, <1>2

LEMMA ExpandedFits ==
    ASSUME NEW row \in MatrixRows, NEW occ \in Seq(Places), NEW v,
           occ # <<>> => Len(row.pats) = Len(occ) /\ ValueAt(occ[1], v) \in AllValues
    PROVE  FitsAt(row, occ, v) <=> \E j \in 1..Len(Expand(row)) : FitsAt(Expand(row)[j], occ, v)
<1>0. Len(occ) \in Nat /\ (occ # <<>> <=> Len(occ) # 0) /\ row.pats \in Seq(Pats)
    BY RowWeightFacts
<1>1. CASE occ = <<>>
    <2>1. 1..Len(occ) = {}
        BY <1>0, <1>1
    <2>2. 1 \in 1..Len(Expand(row))
        BY ExpandedAll
    <2> QED BY <2>1, <2>2 DEF FitsAt
<1>2. CASE occ # <<>>
    <2> DEFINE n == Len(occ)
               u == ValueAt(occ[1], v)
               p == row.pats[1]
               E == Expand(row)
    <2>1. Len(row.pats) = n /\ u \in AllValues /\ n \in Nat /\ n # 0 /\ 1 \in 1..n /\ row.pats # <<>>
        BY <1>0, <1>2
    <2>2. p \in Pats
        BY <1>0, <2>1
    <2>3. Matches(p, u) <=> \E o \in Elements(Options[p]) : Matches(o, u)
        BY <2>1, <2>2, OptionIs
    <2>4. \A j \in 1..Len(E) : /\ E[j].pats[1] = Options[p][j]
                               /\ \A k \in 1..n : k # 1 => E[j].pats[k] = row.pats[k]
        BY <2>1, ExpandedRow
    <2>5. Len(E) = Len(Options[p])
        BY <2>1, ExpandedAll
    <2> DEFINE others == \A k \in 1..n : k # 1 => Matches(row.pats[k], ValueAt(occ[k], v))
    <2>6. FitsAt(row, occ, v) <=> others /\ Matches(p, u)
        <3>1. FitsAt(row, occ, v) <=> \A k \in 1..n : Matches(row.pats[k], ValueAt(occ[k], v))
            BY DEF FitsAt
        <3> QED BY <2>1, <3>1
    <2>7. ASSUME NEW j \in 1..Len(E)
          PROVE  FitsAt(E[j], occ, v) <=> others /\ Matches(Options[p][j], u)
        <3>1. FitsAt(E[j], occ, v) <=> \A k \in 1..n : Matches(E[j].pats[k], ValueAt(occ[k], v))
            BY DEF FitsAt
        <3>2. \A k \in 1..n : k # 1 => E[j].pats[k] = row.pats[k]
            BY <2>4, <2>7
        <3>3. E[j].pats[1] = Options[p][j]
            BY <2>4, <2>7
        <3> HIDE DEF E, u, p, n
        <3>4. (\A k \in 1..n : Matches(E[j].pats[k], ValueAt(occ[k], v))) <=>
                (\A k \in 1..n : k # 1 => Matches(row.pats[k], ValueAt(occ[k], v))) /\ Matches(E[j].pats[1], ValueAt(occ[1], v))
            BY <2>1, <3>2
        <3> QED BY <3>1, <3>3, <3>4 DEF u
    <2> HIDE DEF others, u, E, p
    <2>8. (\E o \in Elements(Options[p]) : Matches(o, u)) <=> \E j \in 1..Len(E) : Matches(Options[p][j], u)
        BY <2>5 DEF Elements
    <2> QED BY <2>3, <2>6, <2>7, <2>8 DEF E
<1> QED BY <1>1, <1>2

LEMMA SuitsNarrower ==
    ASSUME NEW pat, NEW place, Suits(pat, place), NEW o, Narrower(o, pat)
    PROVE  Suits(o, place)
<1>1. o \in Pats /\ o \in Within[pat] /\ place.type \in TypesOf[o]
    BY DEF Suits, Narrower
<1>2. Fine(o)
    BY <1>1, FineWithin DEF Suits, Fine
<1> QED BY <1>1, <1>2 DEF Suits

LEMMA GoodFacts ==
    ASSUME NEW rows, NEW occ, IsGood(rows, occ)
    PROVE  /\ IsMatrix(rows, occ) /\ rows \in Seq(MatrixRows) /\ occ \in Seq(Places)
           /\ Len(rows) \in Nat /\ Len(occ) \in Nat /\ (occ = <<>> <=> Len(occ) = 0) /\ (rows = <<>> <=> Len(rows) = 0)
           /\ \A i \in 1..Len(rows) :
                /\ rows[i] \in MatrixRows /\ rows[i].pats \in Seq(Pats) /\ rows[i].arm \in Nat /\ rows[i].guard \in BOOLEAN
                /\ RowSuits(rows[i], occ)
                /\ occ # <<>> => Len(rows[i].pats) = Len(occ) /\ \A k \in 1..Len(occ) : Suits(rows[i].pats[k], occ[k])
<1>1. IsMatrix(rows, occ) /\ \A i \in 1..Len(rows) : RowSuits(rows[i], occ)
    BY DEF IsGood
<1> QED BY <1>1, RowAt, PlaceAt DEF RowSuits

LEMMA ExpandedGood ==
    ASSUME NEW rows, NEW occ, IsGood(rows, occ)
    PROVE  LET E == Expanded(rows)
           IN  /\ IsGood(E, occ) /\ NoneOr(E, occ)
               /\ rows # <<>> => E # <<>> /\ E[1].arm = rows[1].arm /\ E[1].guard = rows[1].guard
<1> DEFINE E == Expanded(rows)
           n == Len(occ)
<1>0. /\ rows \in Seq(MatrixRows) /\ occ \in Seq(Places) /\ Len(rows) \in Nat /\ n \in Nat
      /\ \A i \in 1..Len(rows) : rows[i] \in MatrixRows /\ rows[i].arm \in Nat
    BY GoodFacts
<1>1. E \in Seq(MatrixRows) /\ Len(E) \in Nat
    <2>1. E \in Seq(MatrixRows)
        BY <1>0, ExpandedFacts
    <2> HIDE DEF E
    <2> QED BY <2>1
<1>2. PICK r, c : IsExpansion(r, c, rows)
    BY <1>0, ExpandedFacts
<1>a. \A k \in 1..Len(E) : r[k] \in 1..Len(rows) /\ c[k] \in 1..Len(Expand(rows[r[k]])) /\ E[k] = Expand(rows[r[k]])[c[k]]
    BY <1>2 DEF IsExpansion
<1>b. \A i \in 1..Len(rows) : \A j \in 1..Len(Expand(rows[i])) : \E k \in 1..Len(E) : r[k] = i /\ c[k] = j
    BY <1>2 DEF IsExpansion
<1>c. \A k, m \in 1..Len(E) : k < m => r[k] <= r[m]
    BY <1>2 DEF IsExpansion
<1>d. \A k, m \in 1..Len(E) : k # m => r[k] # r[m] \/ c[k] # c[m]
    BY <1>2 DEF IsExpansion
<1> HIDE DEF E
<1>3. ASSUME NEW k \in 1..Len(E)
      PROVE  LET row == rows[r[k]]
             IN  /\ E[k].arm = row.arm /\ E[k].guard = row.guard
                 /\ Len(E[k].pats) = Len(row.pats)
                 /\ \A i \in 1..Len(row.pats) : /\ Narrower(E[k].pats[i], row.pats[i])
                                                /\ i # 1 => E[k].pats[i] = row.pats[i]
                 /\ Len(row.pats) # 0 => E[k].pats[1].p # "or"
    <2> DEFINE row == rows[r[k]]
               j == c[k]
    <2>1. row \in MatrixRows /\ j \in 1..Len(Expand(row)) /\ E[k] = Expand(row)[j]
        BY <1>0, <1>a
    <2> DEFINE l == Len(row.pats)
    <2> HIDE DEF row, j
    <2>3. l = Len(row.pats)
        OBVIOUS
    <2> HIDE DEF l
    <2>4. /\ Expand(row)[j].arm = row.arm /\ Expand(row)[j].guard = row.guard
          /\ Len(Expand(row)[j].pats) = l
          /\ \A i \in 1..l : /\ Narrower(Expand(row)[j].pats[i], row.pats[i])
                             /\ i # 1 => Expand(row)[j].pats[i] = row.pats[i]
          /\ l # 0 => Expand(row)[j].pats[1].p # "or"
        BY <2>1, <2>3, ExpandedRow
    <2>2. /\ Expand(row)[j].arm = row.arm /\ Expand(row)[j].guard = row.guard
          /\ Len(Expand(row)[j].pats) = Len(row.pats)
          /\ \A i \in 1..Len(row.pats) : /\ Narrower(Expand(row)[j].pats[i], row.pats[i])
                                         /\ i # 1 => Expand(row)[j].pats[i] = row.pats[i]
          /\ Len(row.pats) # 0 => Expand(row)[j].pats[1].p # "or"
        BY <2>3, <2>4
    <2> QED BY <2>1, <2>2 DEF row
<1>4. IsMatrix(E, occ)
    BY <1>0, <1>1 DEF IsMatrix
<1>5. InOrder(E)
    <2>1. InOrder(rows)
        BY DEF IsGood
    <2>2. \A k \in 1..Len(E) : r[k] \in 1..Len(rows) /\ E[k].arm = rows[r[k]].arm
        BY <1>3, <1>a
    <2> QED BY <1>0, <1>1, <1>c, <2>1, <2>2, InOrderKept
<1>6. ASSUME NEW k \in 1..Len(E)
      PROVE  RowSuits(E[k], occ) /\ r[k] \in 1..Len(rows) /\ (n # 0 => Len(rows[r[k]].pats) = n)
    <2> DEFINE row == rows[r[k]]
    <2>1. /\ r[k] \in 1..Len(rows) /\ RowSuits(row, occ)
          /\ occ # <<>> => Len(row.pats) = n /\ \A i \in 1..n : Suits(row.pats[i], occ[i])
        BY <1>a, GoodFacts
    <2>2. /\ Len(E[k].pats) = Len(row.pats)
          /\ \A i \in 1..Len(row.pats) : Narrower(E[k].pats[i], row.pats[i])
        BY <1>3
    <2> HIDE DEF row
    <2>3. CASE occ = <<>>
        <3>1. \A i \in 1..Len(row.pats) : IsWild(row.pats[i])
            BY <2>1, <2>3 DEF RowSuits
        <3>2. \A i \in 1..Len(row.pats) : IsWild(E[k].pats[i])
            BY <2>2, <3>1 DEF Narrower, IsPlain
        <3>3. n = 0
            BY <2>3
        <3> QED BY <2>1, <2>2, <2>3, <3>2, <3>3 DEF RowSuits
    <2>4. CASE occ # <<>>
        <3>1. \A i \in 1..n : Suits(E[k].pats[i], occ[i])
            BY <2>1, <2>2, <2>4, SuitsNarrower
        <3>2. Len(E[k].pats) = n
            BY <2>1, <2>2, <2>4
        <3> QED BY <2>1, <2>4, <3>1, <3>2 DEF RowSuits, row
    <2> QED BY <2>3, <2>4
<1>7. n >= 2 => PlainRows(E)
    <2> SUFFICES ASSUME n >= 2, NEW k \in 1..Len(E), NEW i \in 1..Len(E[k].pats) PROVE IsPlain(E[k].pats[i])
        BY DEF PlainRows
    <2>1. r[k] \in 1..Len(rows) /\ i \in 1..Len(rows[r[k]].pats) /\ Narrower(E[k].pats[i], rows[r[k]].pats[i])
        BY <1>3, <1>a
    <2>2. IsPlain(rows[r[k]].pats[i])
        BY <2>1 DEF IsGood, PlainRows
    <2> QED BY <2>1, <2>2 DEF Narrower
<1>8. ColumnsApart(E, occ)
    <2> SUFFICES ASSUME NEW k \in 1..Len(E), NEW m \in 1..Len(E), NEW i \in 1..Len(occ)
                 PROVE  ApartAlike(E[k].pats[i], E[m].pats[i])
        BY DEF ColumnsApart
    <2>1. /\ r[k] \in 1..Len(rows) /\ i \in 1..Len(rows[r[k]].pats) /\ Narrower(E[k].pats[i], rows[r[k]].pats[i])
          /\ r[m] \in 1..Len(rows) /\ i \in 1..Len(rows[r[m]].pats) /\ Narrower(E[m].pats[i], rows[r[m]].pats[i])
        BY <1>3, <1>6
    <2>2. ApartAlike(rows[r[k]].pats[i], rows[r[m]].pats[i])
        BY <2>1 DEF IsGood, ColumnsApart
    <2> QED BY <2>1, <2>2, ApartNarrower
<1>9. ASSUME NEW k \in 1..Len(E), r[k] = 1, NoOr(rows[1].pats[1]), n # 0
      PROVE  k = 1
    <2>1. Len(rows[1].pats) # 0 /\ rows[1] \in MatrixRows /\ rows[1].pats \in Seq(Pats) /\ 1 \in 1..Len(rows)
        BY <1>0, <1>6, <1>9, RowWeightFacts
    <2>2. rows[1].pats # <<>> /\ rows[1].pats[1] \in Pats
        BY <2>1
    <2>3. rows[1].pats[1].p # "or"
        BY <1>9, <2>2, WithinFacts DEF NoOr
    <2>4. Len(Expand(rows[1])) = 1
        BY <2>1, <2>3, ExpandedAll
    <2> SUFFICES ASSUME k # 1 PROVE FALSE
        OBVIOUS
    <2>5. 1 \in 1..Len(E) /\ 1 < k
        BY <1>1
    <2>6. r[1] <= r[k] /\ r[1] \in 1..Len(rows)
        BY <1>a, <1>c, <2>5
    <2>7. r[1] = 1
        BY <1>0, <1>9, <2>6
    <2>8. c[1] = 1 /\ c[k] = 1
        BY <1>9, <1>a, <2>4, <2>5, <2>7
    <2> QED BY <1>9, <1>d, <2>5, <2>7, <2>8
<1>10. GuardsPass(E, occ)
    <2> SUFFICES ASSUME NEW k \in 1..Len(E), NEW m \in 1..Len(E), NEW i \in 1..Len(occ),
                        E[k].guard, E[k].arm <= E[m].arm, ~(k = 1 /\ NoOr(E[k].pats[i]))
                 PROVE  Passes(E[k].pats[i], E[m].pats[i])
        BY DEF GuardsPass
    <2>1. /\ r[k] \in 1..Len(rows) /\ i \in 1..Len(rows[r[k]].pats) /\ Narrower(E[k].pats[i], rows[r[k]].pats[i])
          /\ r[m] \in 1..Len(rows) /\ i \in 1..Len(rows[r[m]].pats) /\ Narrower(E[m].pats[i], rows[r[m]].pats[i])
          /\ rows[r[k]].guard /\ rows[r[k]].arm <= rows[r[m]].arm /\ n # 0
        BY <1>3, <1>6
    <2>2. CASE Passes(rows[r[k]].pats[i], rows[r[m]].pats[i])
        BY <2>1, <2>2, ApartNarrower
    <2>3. CASE ~Passes(rows[r[k]].pats[i], rows[r[m]].pats[i])
        <3>1. r[k] = 1 /\ NoOr(rows[1].pats[i])
            BY <2>1, <2>3 DEF IsGood, GuardsPass
        <3>2. rows[1].pats[i] \in Pats /\ E[k].pats[i] \in Within[rows[1].pats[i]]
            <4>1. Suits(rows[1].pats[i], occ[i])
                BY <1>0, <2>1, <3>1, GoodFacts
            <4> QED BY <2>1, <3>1, <4>1 DEF Suits, Narrower
        <3>3. NoOr(E[k].pats[i])
            BY <3>1, <3>2, FineWithin
        <3>4. k # 1
            BY <3>3
        <3>5. i # 1 \/ k = 1
            BY <1>9, <2>1, <3>1
        <3>6. i # 1
            BY <3>4, <3>5
        <3>7. n >= 2
            BY <1>0, <3>6
        <3>8. IsPlain(rows[r[k]].pats[i]) /\ IsPlain(rows[r[m]].pats[i])
            BY <2>1, <3>7 DEF IsGood, PlainRows
        <3>9. rows[r[k]].pats[i] \in Pats /\ rows[r[m]].pats[i] \in Pats
            <4>1. Suits(rows[r[k]].pats[i], occ[i]) /\ Suits(rows[r[m]].pats[i], occ[i])
                BY <1>0, <2>1, GoodFacts
            <4> QED BY <4>1 DEF Suits
        <3> QED BY <2>3, <3>8, <3>9, PlainApart
    <2> QED BY <2>2, <2>3
<1>11. NoneOr(E, occ)
    <2> SUFFICES ASSUME NEW k \in 1..Len(E), NEW i \in 1..Len(occ) PROVE E[k].pats[i].p # "or"
        BY DEF NoneOr
    <2>1. r[k] \in 1..Len(rows) /\ n # 0 /\ Len(rows[r[k]].pats) = n
        BY <1>0, <1>6
    <2>2. CASE i = 1
        BY <1>3, <2>1, <2>2
    <2>3. CASE i # 1
        <3>1. n >= 2
            BY <1>0, <2>3
        <3>2. IsPlain(E[k].pats[i])
            <4>1. i \in 1..Len(E[k].pats)
                BY <1>3, <2>1
            <4> QED BY <1>7, <3>1, <4>1 DEF PlainRows
        <3> QED BY <3>2 DEF IsPlain, IsWild
    <2> QED BY <2>2, <2>3
<1>12. ASSUME rows # <<>>
       PROVE  E # <<>> /\ E[1].arm = rows[1].arm /\ E[1].guard = rows[1].guard
    <2>1. 1 \in 1..Len(rows) /\ rows[1] \in MatrixRows
        BY <1>0, <1>12
    <2>2. 1 \in 1..Len(Expand(rows[1]))
        BY <2>1, ExpandedAll
    <2>3. PICK k \in 1..Len(E) : r[k] = 1
        BY <1>b, <2>1, <2>2
    <2>4. 1 \in 1..Len(E) /\ (1 < k \/ k = 1)
        BY <1>1
    <2>5. r[1] <= 1 /\ r[1] \in 1..Len(rows)
        BY <1>a, <1>c, <2>3, <2>4
    <2>6. r[1] = 1
        BY <1>0, <2>5
    <2> QED BY <1>1, <1>3, <2>4, <2>6
<1>13. IsGood(E, occ)
    BY <1>4, <1>5, <1>6, <1>7, <1>8, <1>10 DEF IsGood
<1> QED BY <1>11, <1>12, <1>13 DEF E

-----------------------------------------------------------------------------
(* The matrices below a node: they are good too, and for a value that is   *)
(* sent there their rows fit where the rows they are made of do.           *)

PlacesHold(occ, v) == \A k \in 1..Len(occ) : ValueAt(occ[k], v) \in Inhabitants[occ[k].type]

Follows(new, places, rows, occ, v) ==
    /\ PlacesHold(places, v)
    /\ \A k \in 1..Len(new) : FitsAt(new[k], places, v) =>
            \E i \in 1..Len(rows) : rows[i].arm = new[k].arm /\ FitsAt(rows[i], occ, v)
    /\ \A i \in 1..Len(rows) : FitsAt(rows[i], occ, v) =>
            \E k \in 1..Len(new) : new[k].arm = rows[i].arm /\ FitsAt(new[k], places, v)
    /\ \A k \in 1..Len(new) : \E i \in 1..Len(rows) : rows[i].arm = new[k].arm /\ rows[i].guard = new[k].guard

LEMMA TypeOfPlace ==
    ASSUME NEW rows, NEW occ, IsGood(rows, occ), NEW i \in 1..Len(rows), NEW k \in 1..Len(occ)
    PROVE  /\ Suits(rows[i].pats[k], occ[k]) /\ occ[k] \in Places
           /\ rows[i].pats[k] \in Pats /\ Len(rows[i].pats) = Len(occ) /\ k \in 1..Len(rows[i].pats)
           /\ occ[k].type \in TypeNames /\ occ[k].type # NoType
           /\ Inhabitants[occ[k].type] \subseteq AllValues
<1>1. occ # <<>> /\ occ \in Seq(Places)
    <2>1. Len(occ) # 0
        BY GoodFacts
    <2> QED BY <2>1, GoodFacts
<1>2. Suits(rows[i].pats[k], occ[k]) /\ Len(rows[i].pats) = Len(occ)
    BY <1>1, GoodFacts
<1>3. rows[i].pats[k] \in Pats /\ occ[k].type \in TypesOf[rows[i].pats[k]]
    BY <1>2 DEF Suits
<1>4. occ[k].type \in TypeNames
    BY <1>3, TypesOfDef
<1>5. occ[k].type # NoType /\ Inhabitants[occ[k].type] \subseteq AllValues
    BY <1>4, TreeAssumption, TypeFacts
<1> QED BY <1>1, <1>2, <1>3, <1>4, <1>5

LEMMA ExpandedFollows ==
    ASSUME NEW rows, NEW occ, IsGood(rows, occ), NEW v, PlacesHold(occ, v)
    PROVE  Follows(Expanded(rows), occ, rows, occ, v)
<1> DEFINE E == Expanded(rows)
<1>0. rows \in Seq(MatrixRows) /\ occ \in Seq(Places) /\ Len(rows) \in Nat
    BY GoodFacts
<1>1. PICK r, c : IsExpansion(r, c, rows)
    BY <1>0, ExpandedFacts
<1>a. \A k \in 1..Len(E) : r[k] \in 1..Len(rows) /\ c[k] \in 1..Len(Expand(rows[r[k]])) /\ E[k] = Expand(rows[r[k]])[c[k]]
    BY <1>1 DEF IsExpansion
<1>b. \A i \in 1..Len(rows) : \A j \in 1..Len(Expand(rows[i])) : \E k \in 1..Len(E) : r[k] = i /\ c[k] = j
    BY <1>1 DEF IsExpansion
<1> HIDE DEF E
<1>2. ASSUME NEW i \in 1..Len(rows)
      PROVE  /\ FitsAt(rows[i], occ, v) <=> \E j \in 1..Len(Expand(rows[i])) : FitsAt(Expand(rows[i])[j], occ, v)
             /\ \A j \in 1..Len(Expand(rows[i])) : Expand(rows[i])[j].arm = rows[i].arm /\ Expand(rows[i])[j].guard = rows[i].guard
    <2> DEFINE row == rows[i]
    <2>1. row \in MatrixRows
        BY <1>0
    <2>2. occ # <<>> => Len(row.pats) = Len(occ) /\ ValueAt(occ[1], v) \in AllValues
        <3> SUFFICES ASSUME occ # <<>> PROVE Len(row.pats) = Len(occ) /\ ValueAt(occ[1], v) \in AllValues
            OBVIOUS
        <3>1. 1 \in 1..Len(occ)
            BY <1>0
        <3>2. Inhabitants[occ[1].type] \subseteq AllValues /\ Len(row.pats) = Len(occ)
            BY <3>1, TypeOfPlace
        <3> QED BY <3>1, <3>2 DEF PlacesHold
    <2> HIDE DEF row
    <2>3. FitsAt(row, occ, v) <=> \E j \in 1..Len(Expand(row)) : FitsAt(Expand(row)[j], occ, v)
        BY <1>0, <2>1, <2>2, ExpandedFits
    <2>4. \A j \in 1..Len(Expand(row)) : Expand(row)[j].arm = row.arm /\ Expand(row)[j].guard = row.guard
        BY <2>1, ExpandedRow
    <2> QED BY <2>3, <2>4 DEF row
<1>3. ASSUME NEW k \in 1..Len(E)
      PROVE  /\ FitsAt(E[k], occ, v) => \E i \in 1..Len(rows) : rows[i].arm = E[k].arm /\ FitsAt(rows[i], occ, v)
             /\ \E i \in 1..Len(rows) : rows[i].arm = E[k].arm /\ rows[i].guard = E[k].guard
    <2> DEFINE o == r[k]
               j == c[k]
    <2>1. o \in 1..Len(rows) /\ j \in 1..Len(Expand(rows[o])) /\ E[k] = Expand(rows[o])[j]
        BY <1>a
    <2> HIDE DEF o, j
    <2>2. FitsAt(Expand(rows[o])[j], occ, v) => FitsAt(rows[o], occ, v)
        BY <1>2, <2>1
    <2>3. Expand(rows[o])[j].arm = rows[o].arm /\ Expand(rows[o])[j].guard = rows[o].guard
        BY <1>2, <2>1
    <2> QED BY <2>1, <2>2, <2>3
<1>4. ASSUME NEW i \in 1..Len(rows), FitsAt(rows[i], occ, v)
      PROVE  \E k \in 1..Len(E) : E[k].arm = rows[i].arm /\ FitsAt(E[k], occ, v)
    <2>1. PICK j \in 1..Len(Expand(rows[i])) : FitsAt(Expand(rows[i])[j], occ, v)
        BY <1>2, <1>4
    <2>2. PICK k \in 1..Len(E) : r[k] = i /\ c[k] = j
        BY <1>b
    <2>3. E[k] = Expand(rows[i])[j]
        BY <1>a, <2>2
    <2> QED BY <1>2, <2>1, <2>2, <2>3
<1> QED BY <1>3, <1>4 DEF Follows, E

\* Rows that are kept, in their order.
SameArms(K, g, rows) ==
    K \in SUBSET (1..Len(rows)) /\ \A i \in K : g[i].arm = rows[i].arm /\ g[i].guard = rows[i].guard
AreKept(r, K, g, rows, new) ==
    /\ InOrder(new)
    /\ \A k \in 1..Len(new) : /\ r[k] \in K /\ r[k] \in 1..Len(rows) /\ new[k] = g[r[k]]
                              /\ new[k].arm = rows[r[k]].arm /\ new[k].guard = rows[r[k]].guard
                              /\ r[k] = 1 => k = 1
    /\ \A i \in K : \E k \in 1..Len(new) : r[k] = i

LEMMA KeptInOrder ==
    ASSUME NEW rows, NEW occ, IsGood(rows, occ), NEW K, NEW g, SameArms(K, g, rows), NEW new \in Seq(MatrixRows),
           HasKept(K, g, new)
    PROVE  \E r : AreKept(r, K, g, rows, new)
<1>k. PICK r : IsKept(r, K, g, new)
    BY DEF HasKept
<1>0. Len(rows) \in Nat /\ Len(new) \in Nat /\ InOrder(rows) /\ \A i \in 1..Len(rows) : rows[i].arm \in Nat
    <2>1. Len(new) \in Nat
        OBVIOUS
    <2> QED BY <2>1, GoodFacts DEF IsGood
<1>1. \A k \in 1..Len(new) : r[k] \in K /\ new[k] = g[r[k]]
    BY <1>k DEF IsKept
<1>2. \A k, m \in 1..Len(new) : k < m => r[k] < r[m]
    BY <1>k DEF IsKept
<1>3. \A k \in 1..Len(new) : r[k] \in 1..Len(rows) /\ new[k].arm = rows[r[k]].arm /\ new[k].guard = rows[r[k]].guard
    BY <1>1 DEF SameArms
<1>4. \A k, m \in 1..Len(new) : k < m => r[k] <= r[m]
    BY <1>2, <1>3
<1>5. InOrder(new)
    BY <1>0, <1>3, <1>4, InOrderKept
<1>6. ASSUME NEW k \in 1..Len(new), r[k] = 1
      PROVE  k = 1
    <2> SUFFICES ASSUME k # 1 PROVE FALSE
        OBVIOUS
    <2>1. 1 \in 1..Len(new) /\ 1 < k
        BY <1>0
    <2>2. r[1] < 1 /\ r[1] \in 1..Len(rows)
        BY <1>2, <1>3, <1>6, <2>1
    <2> QED BY <1>0, <2>2
<1>7. \A i \in K : \E k \in 1..Len(new) : r[k] = i
    BY <1>k DEF IsKept
<1>8. AreKept(r, K, g, rows, new)
    BY <1>1, <1>3, <1>5, <1>6, <1>7 DEF AreKept
<1> QED BY <1>8

LEMMA OthersGood ==
    ASSUME NEW rows, NEW occ, IsGood(rows, occ), rows # <<>>
    PROVE  LET new == OtherArms(rows, rows[1].arm)
           IN  /\ IsGood(new, occ)
               /\ \A k \in 1..Len(new) : new[k].arm # rows[1].arm /\ \E i \in 1..Len(rows) : new[k] = rows[i]
               /\ \A i \in 1..Len(rows) : rows[i].arm # rows[1].arm => \E k \in 1..Len(new) : new[k] = rows[i]
<1> DEFINE a == rows[1].arm
           new == OtherArms(rows, a)
           K == Others(rows, a)
<1>0. rows \in Seq(MatrixRows) /\ Len(rows) \in Nat /\ \A i \in 1..Len(rows) : rows[i] \in MatrixRows
    BY GoodFacts
<1>1. new = Selected(rows, K, rows) /\ K \in SUBSET (1..Len(rows))
    BY <1>0, AsSelected DEF Others
<1>2. \A i \in K : rows[i] \in MatrixRows /\ rows[i].arm # a
    BY <1>0 DEF Others
<1>3. new \in Seq(MatrixRows) /\ HasKept(K, rows, new)
    <2> HIDE DEF K, new
    <2> QED BY <1>0, <1>1, <1>2, SelectedFacts
<1>8. \A i \in 1..Len(rows) : rows[i].arm # a => i \in K
    BY DEF Others
<1> HIDE DEF K, new
<1>4. PICK r : AreKept(r, K, rows, rows, new)
    <2>1. SameArms(K, rows, rows)
        BY <1>1 DEF SameArms
    <2> QED BY <1>3, <2>1, KeptInOrder
<1>5. /\ InOrder(new)
      /\ \A k \in 1..Len(new) : /\ r[k] \in K /\ r[k] \in 1..Len(rows) /\ new[k] = rows[r[k]]
                                /\ new[k].arm = rows[r[k]].arm /\ new[k].guard = rows[r[k]].guard
                                /\ r[k] = 1 => k = 1
    BY <1>4 DEF AreKept
<1>6. \A k \in 1..Len(new) : r[k] # 1
    BY <1>2, <1>5
<1>7. IsGood(new, occ)
    <2>1. IsMatrix(new, occ)
        BY <1>3, GoodFacts DEF IsMatrix
    <2>2. \A k \in 1..Len(new) : RowSuits(new[k], occ)
        BY <1>5, GoodFacts
    <2>3. Len(occ) >= 2 => PlainRows(new)
        BY <1>5 DEF IsGood, PlainRows
    <2>4. ColumnsApart(new, occ)
        BY <1>5 DEF IsGood, ColumnsApart
    <2>5. GuardsPass(new, occ)
        BY <1>5, <1>6 DEF IsGood, GuardsPass
    <2> QED BY <1>5, <2>1, <2>2, <2>3, <2>4, <2>5 DEF IsGood
<1>9. \A i \in 1..Len(rows) : rows[i].arm # a => \E k \in 1..Len(new) : new[k] = rows[i]
    BY <1>4, <1>5, <1>8 DEF AreKept
<1>10. \A k \in 1..Len(new) : new[k].arm # a /\ \E i \in 1..Len(rows) : new[k] = rows[i]
    BY <1>2, <1>5
<1> QED BY <1>7, <1>9, <1>10 DEF new

\* The column that a column was, before column c went.
Up(c, x) == IF x < c THEN x ELSE x + 1

LEMMA UpFacts ==
    ASSUME NEW n \in Nat, NEW c \in 1..n
    PROVE  /\ n - 1 \in Nat
           /\ \A x \in 1..(n - 1) : Up(c, x) \in 1..n /\ Up(c, x) # c
           /\ \A k \in 1..n : k # c => \E x \in 1..(n - 1) : Up(c, x) = k
<1>1. n - 1 \in Nat
    OBVIOUS
<1>2. \A x \in 1..(n - 1) : Up(c, x) \in 1..n /\ Up(c, x) # c
    BY DEF Up
<1>3. ASSUME NEW k \in 1..n, k # c
      PROVE  \E x \in 1..(n - 1) : Up(c, x) = k
    <2>1. CASE k < c
        <3>1. k \in 1..(n - 1) /\ Up(c, k) = k
            BY <2>1 DEF Up
        <3> QED BY <3>1
    <2>2. CASE ~(k < c)
        <3>1. k - 1 \in 1..(n - 1) /\ Up(c, k - 1) = k
            BY <1>3, <2>2 DEF Up
        <3> QED BY <3>1
    <2> QED BY <2>1, <2>2
<1> QED BY <1>1, <1>2, <1>3

HasWithout(t, s, n, c) == Len(t) = n - 1 /\ \A x \in 1..(n - 1) : t[x] = s[Up(c, x)]

LEMMA RemovedIs ==
    ASSUME NEW A, NEW s \in Seq(A), NEW c \in 1..Len(s)
    PROVE  RemoveAt(s, c) \in Seq(A) /\ HasWithout(RemoveAt(s, c), s, Len(s), c)
<1>2. /\ RemoveAt(s, c) \in Seq(A) /\ Len(RemoveAt(s, c)) = Len(s) - 1
      /\ \A i \in 1..(Len(s) - 1) : RemoveAt(s, c)[i] = IF i < c THEN s[i] ELSE s[i + 1]
    BY RemoveAtFacts
<1>4. \A i \in 1..(Len(s) - 1) : s[Up(c, i)] = IF i < c THEN s[i] ELSE s[i + 1]
    BY DEF Up
<1> QED BY <1>2, <1>4 DEF HasWithout

\* Rows without a column, as default rows and those under a literal are.
AreWithout(K, g, rows, c) ==
    SameArms(K, g, rows) /\ \A i \in K : g[i] \in MatrixRows /\ g[i].pats = RemoveAt(rows[i].pats, c)

LEMMA RemovedFits ==
    ASSUME NEW rows, NEW occ, IsGood(rows, occ), NEW c \in 1..Len(occ), NEW K, NEW g, AreWithout(K, g, rows, c),
           NEW i \in K, NEW v
    PROVE  FitsAt(rows[i], occ, v) <=>
             FitsAt(g[i], RemoveAt(occ, c), v) /\ Matches(rows[i].pats[c], ValueAt(occ[c], v))
<1> DEFINE n == Len(occ)
           row == rows[i]
           new == RemoveAt(row.pats, c)
           places == RemoveAt(occ, c)
<1>1. i \in 1..Len(rows) /\ g[i].pats = new
    BY DEF AreWithout, SameArms
<1>2. row.pats \in Seq(Pats) /\ Len(row.pats) = n /\ occ \in Seq(Places) /\ n \in Nat
    BY <1>1, TypeOfPlace, GoodFacts
<1>3. c \in 1..n
    OBVIOUS
<1>4. Len(new) = n - 1 /\ \A x \in 1..(n - 1) : new[x] = row.pats[Up(c, x)]
    <2>1. c \in 1..Len(row.pats)
        BY <1>2, <1>3
    <2> HIDE DEF row, n
    <2>2. HasWithout(RemoveAt(row.pats, c), row.pats, Len(row.pats), c)
        BY <1>2, <2>1, RemovedIs
    <2>3. HasWithout(new, row.pats, n, c)
        BY <1>2, <2>2
    <2> QED BY <2>3 DEF HasWithout
<1>5. Len(places) = n - 1 /\ \A x \in 1..(n - 1) : places[x] = occ[Up(c, x)]
    <2>1. c \in 1..Len(occ)
        OBVIOUS
    <2>2. HasWithout(RemoveAt(occ, c), occ, Len(occ), c)
        BY <1>2, <2>1, RemovedIs
    <2>3. HasWithout(places, occ, n, c)
        BY <2>2
    <2> QED BY <2>3 DEF HasWithout
<1>6. FitsAt(row, occ, v) <=> \A k \in 1..n : Matches(row.pats[k], ValueAt(occ[k], v))
    BY DEF FitsAt
<1>7. FitsAt(g[i], places, v) <=> \A x \in 1..Len(places) : Matches(g[i].pats[x], ValueAt(places[x], v))
    BY DEF FitsAt
<1> HIDE DEF row, n, new, places
<1>8. FitsAt(g[i], places, v) <=> \A x \in 1..(n - 1) : Matches(row.pats[Up(c, x)], ValueAt(occ[Up(c, x)], v))
    BY <1>1, <1>4, <1>5, <1>7
<1>9. /\ \A x \in 1..(n - 1) : Up(c, x) \in 1..n
      /\ \A k \in 1..n : k # c => \E x \in 1..(n - 1) : Up(c, x) = k
    BY <1>2, <1>3, UpFacts
<1>10. (\A x \in 1..(n - 1) : Matches(row.pats[Up(c, x)], ValueAt(occ[Up(c, x)], v)))
         <=> \A k \in 1..n : k # c => Matches(row.pats[k], ValueAt(occ[k], v))
    <2>1. ASSUME \A x \in 1..(n - 1) : Matches(row.pats[Up(c, x)], ValueAt(occ[Up(c, x)], v)), NEW k \in 1..n, k # c
          PROVE  Matches(row.pats[k], ValueAt(occ[k], v))
        BY <1>9, <2>1
    <2>2. ASSUME \A k \in 1..n : k # c => Matches(row.pats[k], ValueAt(occ[k], v)), NEW x \in 1..(n - 1)
          PROVE  Matches(row.pats[Up(c, x)], ValueAt(occ[Up(c, x)], v))
        <3>1. Up(c, x) \in 1..n /\ Up(c, x) # c
            BY <1>2, <1>3, UpFacts
        <3> QED BY <2>2, <3>1
    <2> QED BY <2>1, <2>2
<1>11. (\A k \in 1..n : Matches(row.pats[k], ValueAt(occ[k], v))) <=>
         (\A k \in 1..n : k # c => Matches(row.pats[k], ValueAt(occ[k], v))) /\ Matches(row.pats[c], ValueAt(occ[c], v))
    BY <1>3
<1> QED BY <1>6, <1>8, <1>10, <1>11 DEF row, places

LEMMA RemovedGood ==
    ASSUME NEW rows, NEW occ, IsGood(rows, occ), NEW c \in 1..Len(occ), NEW K, NEW g, AreWithout(K, g, rows, c),
           NEW new \in Seq(MatrixRows), HasKept(K, g, new)
    PROVE  IsGood(new, RemoveAt(occ, c))
<1> DEFINE n == Len(occ)
           places == RemoveAt(occ, c)
<1>1. SameArms(K, g, rows)
    BY DEF AreWithout
<1>2. PICK r : AreKept(r, K, g, rows, new)
    BY <1>1, KeptInOrder
<1>3. occ \in Seq(Places) /\ n \in Nat /\ c \in 1..n /\ Len(occ) = n /\ (occ = <<>> <=> n = 0)
    BY GoodFacts
<1>4. places \in Seq(Places) /\ Len(places) = n - 1 /\ \A x \in 1..(n - 1) : places[x] = occ[Up(c, x)]
    <2>1. RemoveAt(occ, c) \in Seq(Places) /\ HasWithout(RemoveAt(occ, c), occ, Len(occ), c)
        BY <1>3, RemovedIs
    <2>2. places \in Seq(Places) /\ HasWithout(places, occ, n, c)
        BY <2>1
    <2> QED BY <2>2 DEF HasWithout
<1> HIDE DEF n
<1>5. \A x \in 1..(n - 1) : Up(c, x) \in 1..n
    BY <1>3, UpFacts
<1>6. ASSUME NEW k \in 1..Len(new)
      PROVE  /\ r[k] \in 1..Len(rows) /\ r[k] \in K /\ new[k] = g[r[k]]
             /\ new[k].arm = rows[r[k]].arm /\ new[k].guard = rows[r[k]].guard
             /\ (r[k] = 1 => k = 1)
             /\ Len(new[k].pats) = n - 1
             /\ \A x \in 1..(n - 1) : new[k].pats[x] = rows[r[k]].pats[Up(c, x)]
    <2> DEFINE o == r[k]
               pats == rows[o].pats
    <2>1. o \in K /\ o \in 1..Len(rows) /\ new[k] = g[o]
          /\ new[k].arm = rows[o].arm /\ new[k].guard = rows[o].guard /\ (o = 1 => k = 1)
        BY <1>2 DEF AreKept
    <2>2. new[k].pats = RemoveAt(pats, c)
        BY <2>1 DEF AreWithout
    <2>3. pats \in Seq(Pats) /\ Len(pats) = n
        <3> HIDE DEF o
        <3> QED BY <1>3, <2>1, TypeOfPlace, GoodFacts
    <2> HIDE DEF pats
    <2>4. Len(RemoveAt(pats, c)) = n - 1 /\ \A x \in 1..(n - 1) : RemoveAt(pats, c)[x] = pats[Up(c, x)]
        <3>1. c \in 1..Len(pats)
            BY <1>3, <2>3
        <3>2. HasWithout(RemoveAt(pats, c), pats, Len(pats), c)
            BY <2>3, <3>1, RemovedIs
        <3> QED BY <2>3, <3>2 DEF HasWithout
    <2> QED BY <2>1, <2>2, <2>4 DEF pats
<1>7. ASSUME NEW k \in 1..Len(new)
      PROVE  RowSuits(new[k], places)
    <2>1. CASE n - 1 = 0
        <3>1. places = <<>> /\ 1..Len(new[k].pats) = {}
            <4>1. Len(places) = 0 /\ Len(new[k].pats) = 0
                BY <1>4, <1>6, <2>1
            <4> QED BY <1>4, <4>1
        <3> QED BY <3>1 DEF RowSuits
    <2>2. CASE n - 1 # 0
        <3>1. places # <<>>
            BY <1>4, <2>2
        <3>2. ASSUME NEW x \in 1..(n - 1)
              PROVE  Suits(new[k].pats[x], places[x])
            <4>1. r[k] \in 1..Len(rows) /\ Up(c, x) \in 1..n
                BY <1>5, <1>6
            <4>2. Suits(rows[r[k]].pats[Up(c, x)], occ[Up(c, x)])
                BY <1>3, <4>1, TypeOfPlace
            <4> QED BY <1>4, <1>6, <4>2
        <3> QED BY <1>4, <1>6, <3>1, <3>2 DEF RowSuits
    <2> QED BY <2>1, <2>2
<1>8. Len(places) >= 2 => PlainRows(new)
    <2> SUFFICES ASSUME Len(places) >= 2, NEW k \in 1..Len(new), NEW x \in 1..Len(new[k].pats)
                 PROVE  IsPlain(new[k].pats[x])
        BY DEF PlainRows
    <2>1. n >= 2 /\ x \in 1..(n - 1)
        BY <1>3, <1>4, <1>6
    <2>2. Up(c, x) \in 1..n /\ Len(rows[r[k]].pats) = n /\ r[k] \in 1..Len(rows)
        <3>1. r[k] \in 1..Len(rows) /\ Up(c, x) \in 1..n
            BY <1>5, <1>6, <2>1
        <3> QED BY <1>3, <3>1, TypeOfPlace
    <2>3. IsPlain(rows[r[k]].pats[Up(c, x)])
        BY <1>3, <2>1, <2>2 DEF IsGood, PlainRows
    <2> QED BY <1>6, <2>1, <2>3
<1>9. ColumnsApart(new, places)
    <2> SUFFICES ASSUME NEW k \in 1..Len(new), NEW m \in 1..Len(new), NEW x \in 1..Len(places)
                 PROVE  ApartAlike(new[k].pats[x], new[m].pats[x])
        BY DEF ColumnsApart
    <2>1. x \in 1..(n - 1) /\ Up(c, x) \in 1..n
        BY <1>4, <1>5
    <2>2. ApartAlike(rows[r[k]].pats[Up(c, x)], rows[r[m]].pats[Up(c, x)])
        BY <1>3, <1>6, <2>1 DEF IsGood, ColumnsApart
    <2> QED BY <1>6, <2>1, <2>2
<1>10. GuardsPass(new, places)
    <2> SUFFICES ASSUME NEW k \in 1..Len(new), NEW m \in 1..Len(new), NEW x \in 1..Len(places),
                        new[k].guard, new[k].arm <= new[m].arm, ~(k = 1 /\ NoOr(new[k].pats[x]))
                 PROVE  Passes(new[k].pats[x], new[m].pats[x])
        BY DEF GuardsPass
    <2>1. x \in 1..(n - 1) /\ Up(c, x) \in 1..n
        BY <1>4, <1>5
    <2>2. /\ r[k] \in 1..Len(rows) /\ r[m] \in 1..Len(rows) /\ rows[r[k]].guard /\ rows[r[k]].arm <= rows[r[m]].arm
          /\ (r[k] = 1 => k = 1)
          /\ new[k].pats[x] = rows[r[k]].pats[Up(c, x)] /\ new[m].pats[x] = rows[r[m]].pats[Up(c, x)]
        BY <1>6, <2>1
    <2>3. ~(r[k] = 1 /\ NoOr(rows[r[k]].pats[Up(c, x)]))
        BY <2>2
    <2>4. Passes(rows[r[k]].pats[Up(c, x)], rows[r[m]].pats[Up(c, x)])
        BY <1>3, <2>1, <2>2, <2>3 DEF IsGood, GuardsPass
    <2> QED BY <2>2, <2>4
<1>11. IsMatrix(new, places) /\ InOrder(new)
    BY <1>2, <1>4 DEF IsMatrix, AreKept
<1> QED BY <1>7, <1>8, <1>9, <1>10, <1>11 DEF IsGood

\* Rows made of some of the rows, for places that are made of the places.
RowsTogether(K, g, rows, places) ==
    \A i, j \in K : \A k \in 1..Len(places) :
        /\ ApartAlike(g[i].pats[k], g[j].pats[k])
        /\ rows[i].guard /\ rows[i].arm <= rows[j].arm /\ ~(i = 1 /\ NoOr(g[i].pats[k]))
            => Passes(g[i].pats[k], g[j].pats[k])
RowsArePlain(K, g) == \A i \in K : \A k \in 1..Len(g[i].pats) : IsPlain(g[i].pats[k])
RowsAllSuit(K, g, places) == \A i \in K : RowSuits(g[i], places)

LEMMA KeptGood ==
    ASSUME NEW rows, NEW occ, IsGood(rows, occ), NEW K, NEW g, SameArms(K, g, rows), NEW new \in Seq(MatrixRows),
           HasKept(K, g, new), NEW places \in Seq(Places), RowsAllSuit(K, g, places),
           Len(places) >= 2 => RowsArePlain(K, g), RowsTogether(K, g, rows, places)
    PROVE  IsGood(new, places)
<1>1. PICK r : AreKept(r, K, g, rows, new)
    BY KeptInOrder
<1>2. \A k \in 1..Len(new) : /\ r[k] \in K /\ new[k] = g[r[k]]
                             /\ new[k].arm = rows[r[k]].arm /\ new[k].guard = rows[r[k]].guard
                             /\ r[k] = 1 => k = 1
    BY <1>1 DEF AreKept
<1>3. IsMatrix(new, places) /\ InOrder(new)
    BY <1>1 DEF IsMatrix, AreKept
<1>4. \A k \in 1..Len(new) : RowSuits(new[k], places)
    BY <1>2 DEF RowsAllSuit
<1>5. Len(places) >= 2 => PlainRows(new)
    BY <1>2 DEF PlainRows, RowsArePlain
<1>6. ColumnsApart(new, places)
    BY <1>2 DEF ColumnsApart, RowsTogether
<1>7. GuardsPass(new, places)
    <2> SUFFICES ASSUME NEW k \in 1..Len(new), NEW m \in 1..Len(new), NEW x \in 1..Len(places),
                        new[k].guard, new[k].arm <= new[m].arm, ~(k = 1 /\ NoOr(new[k].pats[x]))
                 PROVE  Passes(new[k].pats[x], new[m].pats[x])
        BY DEF GuardsPass
    <2>1. /\ r[k] \in K /\ r[m] \in K /\ new[k] = g[r[k]] /\ new[m] = g[r[m]]
          /\ rows[r[k]].guard /\ rows[r[k]].arm <= rows[r[m]].arm
          /\ (r[k] = 1 => k = 1)
        BY <1>2
    <2>2. ~(r[k] = 1 /\ NoOr(g[r[k]].pats[x]))
        BY <2>1
    <2> QED BY <2>1, <2>2 DEF RowsTogether
<1> QED BY <1>3, <1>4, <1>5, <1>6, <1>7 DEF IsGood

\* The rows that are kept fit as they did, and the others do not.
KeepsFit(K, g, places, rows, occ, v) ==
    /\ PlacesHold(places, v)
    /\ \A i \in K : FitsAt(g[i], places, v) <=> FitsAt(rows[i], occ, v)
    /\ \A i \in 1..Len(rows) : FitsAt(rows[i], occ, v) => i \in K

LEMMA KeptFollows ==
    ASSUME NEW rows, NEW occ, IsGood(rows, occ), NEW K, NEW g, SameArms(K, g, rows), NEW new \in Seq(MatrixRows),
           HasKept(K, g, new), NEW places, NEW v, KeepsFit(K, g, places, rows, occ, v)
    PROVE  Follows(new, places, rows, occ, v)
<1>1. PICK r : AreKept(r, K, g, rows, new)
    BY KeptInOrder
<1>2. \A k \in 1..Len(new) : /\ r[k] \in K /\ r[k] \in 1..Len(rows) /\ new[k] = g[r[k]]
                             /\ new[k].arm = rows[r[k]].arm /\ new[k].guard = rows[r[k]].guard
    BY <1>1 DEF AreKept
<1>3. \A i \in K : \E k \in 1..Len(new) : r[k] = i
    BY <1>1 DEF AreKept
<1>4. \A k \in 1..Len(new) : FitsAt(new[k], places, v) =>
        \E i \in 1..Len(rows) : rows[i].arm = new[k].arm /\ FitsAt(rows[i], occ, v)
    BY <1>2 DEF KeepsFit
<1>5. ASSUME NEW i \in 1..Len(rows), FitsAt(rows[i], occ, v)
      PROVE  \E k \in 1..Len(new) : new[k].arm = rows[i].arm /\ FitsAt(new[k], places, v)
    <2>1. i \in K /\ FitsAt(g[i], places, v)
        BY <1>5 DEF KeepsFit
    <2>2. PICK k \in 1..Len(new) : r[k] = i
        BY <1>3, <2>1
    <2> QED BY <1>2, <2>1, <2>2
<1>6. \A k \in 1..Len(new) : \E i \in 1..Len(rows) : rows[i].arm = new[k].arm /\ rows[i].guard = new[k].guard
    BY <1>2
<1>7. PlacesHold(places, v)
    BY DEF KeepsFit
<1> QED BY <1>4, <1>5, <1>6, <1>7 DEF Follows

\* The column that BestColumn chooses is tested by the first row.
AtColumn(rows, occ, c) ==
    /\ IsGood(rows, occ) /\ NoneOr(rows, occ) /\ rows # <<>>
    /\ c \in 1..Len(occ) /\ ~AnyAlias(rows[1].pats[c])

LEMMA WildCore ==
    ASSUME NEW pat \in Pats, IsPlain(pat)
    PROVE  AnyAlias(pat) <=> pat.p # "lit"
BY PlainIs DEF AnyAlias, IsPlain, IsWild

LEMMA TestColumn ==
    ASSUME NEW rows, NEW occ, IsGood(rows, occ), NoneOr(rows, occ), rows # <<>>, ~AllWild(rows[1].pats)
    PROVE  /\ occ # <<>>
           /\ AtColumn(rows, occ, BestColumn(rows, Len(occ)))
<1> DEFINE n == Len(occ)
           pats == rows[1].pats
           c == BestColumn(rows, n)
<1>1. 1 \in 1..Len(rows) /\ n \in Nat /\ (occ = <<>> <=> n = 0) /\ pats \in Seq(Pats)
    BY GoodFacts
<1>2. PICK k \in 1..Len(pats) : ~AnyAlias(pats[k])
    BY <1>1 DEF AllWild
<1>3. pats[k] \in Pats
    BY <1>1
<1>4. occ # <<>>
    <2> SUFFICES ASSUME occ = <<>> PROVE FALSE
        OBVIOUS
    <2>1. RowSuits(rows[1], occ)
        BY <1>1, GoodFacts
    <2>2. IsWild(pats[k])
        BY <1>2, <2>1 DEF RowSuits
    <2>3. AnyAlias(pats[k])
        BY <1>3, <2>2, WildCore DEF IsPlain, IsWild
    <2> QED BY <1>2, <2>3
<1>5. n # 0 /\ Len(pats) = n /\ k \in 1..n
    BY <1>1, <1>2, <1>4, GoodFacts
<1>6. c \in 1..n /\ \A d \in 1..n : Leads(rows, d) => Leads(rows, c)
    BY <1>1, <1>5, BestFacts
<1>7. ~AnyAlias(pats[c])
    <2>1. CASE n = 1
        BY <1>2, <1>5, <1>6, <2>1
    <2>2. CASE n >= 2
        <3>1. \A x \in 1..n : IsPlain(pats[x])
            BY <1>1, <1>5, <2>2 DEF IsGood, PlainRows
        <3>2. pats[k].p = "lit"
            BY <1>2, <1>3, <1>5, <3>1, WildCore
        <3>3. DOMAIN pats = 1..n
            BY <1>1, <1>5
        <3>4. Leads(rows, k)
            BY <1>5, <3>2, <3>3 DEF Leads
        <3>5. Leads(rows, c)
            BY <1>5, <1>6, <3>4
        <3>6. pats[c] \in Pats /\ pats[c].p \in {"ctor", "lit", "struct", "tuple"}
            BY <1>1, <1>5, <1>6, <3>5 DEF Leads
        <3>7. pats[c].p = "lit"
            BY <1>6, <3>1, <3>6 DEF IsPlain, IsWild
        <3> QED BY <1>6, <3>1, <3>6, <3>7, WildCore
    <2>3. n = 1 \/ n >= 2
        <3> HIDE DEF n
        <3> QED BY <1>1, <1>5
    <2> HIDE DEF c, n, pats
    <2> QED BY <2>1, <2>2, <2>3
<1> QED BY <1>4, <1>6, <1>7 DEF AtColumn

\* The pattern of a row in the column, without its aliases.
CoreAt(rows, i, c) == Core[rows[i].pats[c]]
KindAt(occ, c) == Shape[occ[c].type].kind

IsHead(rows, occ, c, i) ==
    LET pat == rows[i].pats[c]
        q == CoreAt(rows, i, c)
        t == occ[c].type
    IN  /\ Suits(pat, occ[c]) /\ pat.p # "or" /\ pat \in Pats
        /\ Len(rows[i].pats) = Len(occ) /\ c \in 1..Len(rows[i].pats)
        /\ occ[c] \in Places /\ t \in TypeNames /\ t # NoType /\ Inhabitants[t] \subseteq AllValues
        /\ q \in Pats /\ t \in TypesOf[q] /\ Fine(q) /\ Narrower(q, pat)
        /\ AnyAlias(pat) <=> IsWild(q)
        /\ IsWild(q) => KeyOf[pat] = WildKey
        /\ ~IsWild(q) => /\ IsCtor(q) /\ q.p = KindAt(occ, c) /\ q.tag \in Tags(t)
                         /\ KeyOf[pat] = [p |-> q.p, tag |-> q.tag]
                         /\ Hit(pat, KeyOf[pat])
        /\ \A w \in Inhabitants[t] :
             /\ Matches(pat, w) <=> Matches(q, w)
             /\ IsWild(q) => Matches(pat, w)
             /\ Matches(pat, w) /\ ~IsWild(q) => q.tag = w.tag
             /\ q.p = "lit" /\ q.tag = w.tag => Matches(pat, w)

LEMMA ColumnHead ==
    ASSUME NEW rows, NEW occ, NEW c, AtColumn(rows, occ, c), NEW i \in 1..Len(rows)
    PROVE  IsHead(rows, occ, c, i)
<1> DEFINE pat == rows[i].pats[c]
           place == occ[c]
           t == place.type
           q == Core[pat]
<1>1. c \in 1..Len(occ) /\ IsGood(rows, occ)
    BY DEF AtColumn
<1>2. /\ Suits(pat, place) /\ place \in Places /\ pat \in Pats /\ Len(rows[i].pats) = Len(occ)
      /\ c \in 1..Len(rows[i].pats) /\ t \in TypeNames /\ t # NoType /\ Inhabitants[t] \subseteq AllValues
    BY <1>1, TypeOfPlace
<1>3. pat.p # "or"
    BY <1>1 DEF AtColumn, NoneOr
<1> HIDE DEF pat, place
<1>4. /\ q \in Pats /\ t \in TypeNames /\ t \in TypesOf[q] /\ Fine(q) /\ Narrower(q, pat)
      /\ AnyAlias(pat) <=> IsWild(q)
      /\ IsWild(q) => KeyOf[pat] = WildKey
      /\ ~IsWild(q) => /\ IsCtor(q) /\ q.p = Shape[t].kind /\ q.tag \in Tags(t)
                       /\ KeyOf[pat] = [p |-> q.p, tag |-> q.tag]
                       /\ Hit(pat, KeyOf[pat])
      /\ \A v \in Inhabitants[t] :
           /\ Matches(pat, v) <=> Matches(q, v)
           /\ IsWild(q) => Matches(pat, v)
           /\ Matches(pat, v) /\ ~IsWild(q) => q.tag = v.tag
           /\ q.p = "lit" /\ q.tag = v.tag => Matches(pat, v)
    BY <1>2, <1>3, HeadKey
<1> QED BY <1>2, <1>3, <1>4 DEF pat, place, CoreAt, KindAt, IsHead

\* The keys that are tested, or for which the column is taken apart.
IsTestedBy(rows, occ, c, i) ==
    LET key == KeyOf[rows[i].pats[c]]
    IN  /\ key.p = KindAt(occ, c) /\ key.tag = CoreAt(rows, i, c).tag /\ key.tag \in Tags(occ[c].type)
        /\ key \in Keys(rows, c)
        /\ key = [p |-> KindAt(occ, c), tag |-> CoreAt(rows, i, c).tag]
        /\ i \in Hits(rows, c, key)

LEMMA TestedKind ==
    ASSUME NEW rows, NEW occ, NEW c, AtColumn(rows, occ, c), NEW i \in 1..Len(rows), ~IsWild(CoreAt(rows, i, c))
    PROVE  IsTestedBy(rows, occ, c, i)
<1> DEFINE pat == rows[i].pats[c]
           q == CoreAt(rows, i, c)
           t == occ[c].type
<1>1. q.p = KindAt(occ, c) /\ q.tag \in Tags(t) /\ KeyOf[pat] = [p |-> q.p, tag |-> q.tag] /\ Hit(pat, KeyOf[pat])
    BY ColumnHead DEF IsHead
<1>2. rows \in Seq(MatrixRows) /\ i \in DOMAIN rows
    BY GoodFacts DEF AtColumn
<1>3. KeyOf[pat] \in Keys(rows, c) /\ i \in Hits(rows, c, KeyOf[pat])
    BY <1>1, <1>2 DEF Keys, Hits
<1> HIDE DEF q
<1> QED BY <1>1, <1>3 DEF pat, q, IsTestedBy

LEMMA OnlyKinds ==
    ASSUME NEW rows, NEW occ, NEW c, AtColumn(rows, occ, c), NEW key \in Keys(rows, c), key.p # "wild"
    PROVE  \E i \in 1..Len(rows) : ~IsWild(CoreAt(rows, i, c)) /\ key = KeyOf[rows[i].pats[c]]
<1>1. rows \in Seq(MatrixRows)
    BY GoodFacts DEF AtColumn
<1>2. PICK i \in 1..Len(rows) : key = KeyOf[rows[i].pats[c]]
    BY <1>1 DEF Keys
<1> DEFINE q == CoreAt(rows, i, c)
           pat == rows[i].pats[c]
<1>3. IsWild(q) => KeyOf[pat] = WildKey
    <2>1. IsHead(rows, occ, c, i)
        BY <1>2, ColumnHead
    <2> QED BY <2>1 DEF IsHead
<1> HIDE DEF q, pat
<1>5. key = KeyOf[pat]
    BY <1>2 DEF pat
<1>6. ~IsWild(q)
    BY <1>3, <1>5 DEF WildKey
<1>4. ~IsWild(CoreAt(rows, i, c))
    BY <1>6 DEF q
<1> QED BY <1>2, <1>4

\* What the column tests: everything that is no wildcard, or what the first row is.
IsKeyAt(rows, occ, c, key) ==
    /\ key.p = KindAt(occ, c) /\ key.tag \in Tags(occ[c].type)
    /\ key = [p |-> KindAt(occ, c), tag |-> key.tag]
    /\ \E i \in 1..Len(rows) : /\ ~IsWild(CoreAt(rows, i, c)) /\ key = KeyOf[rows[i].pats[c]]
                               /\ i \in Hits(rows, c, key)

LEMMA FirstKey ==
    ASSUME NEW rows, NEW occ, NEW c, AtColumn(rows, occ, c)
    PROVE  /\ 1 \in 1..Len(rows) /\ ~IsWild(CoreAt(rows, 1, c))
           /\ KindAt(occ, c) \in {"lit", "ctor", "tuple", "struct"}
           /\ ChosenKey(rows, c) = KeyOf[rows[1].pats[c]]
<1> DEFINE real == {i \in DOMAIN rows : KeyOf[rows[i].pats[c]].p # "wild"}
<1>1. rows \in Seq(MatrixRows) /\ 1 \in 1..Len(rows) /\ 1 \in DOMAIN rows
    BY GoodFacts DEF AtColumn
<1>2. ~IsWild(CoreAt(rows, 1, c))
    <2>1. IsHead(rows, occ, c, 1)
        BY <1>1, ColumnHead
    <2> QED BY <2>1 DEF AtColumn, IsHead
<1>3. KindAt(occ, c) \in {"lit", "ctor", "tuple", "struct"}
    <2>1. IsHead(rows, occ, c, 1)
        BY <1>1, ColumnHead
    <2> QED BY <1>2, <2>1 DEF IsCtor, IsHead
<1>4. 1 \in real
    <2>3. IsTestedBy(rows, occ, c, 1)
        BY <1>1, <1>2, TestedKind
    <2>1. KeyOf[rows[1].pats[c]].p = KindAt(occ, c)
        BY <2>3 DEF IsTestedBy
    <2>2. KeyOf[rows[1].pats[c]].p # "wild"
        BY <1>3, <2>1
    <2> QED BY <1>1, <2>2
<1>5. Min(real) = 1
    <2>1. real \in SUBSET Nat /\ real # {} /\ \A k \in real : k >= 1
        BY <1>1, <1>4
    <2> HIDE DEF real
    <2>2. Min(real) \in real /\ \A k \in real : Min(real) <= k
        BY <2>1, MinFacts
    <2>3. Min(real) <= 1 /\ Min(real) >= 1 /\ Min(real) \in Nat
        BY <1>4, <2>1, <2>2
    <2> QED BY <2>3
<1>6. ChosenKey(rows, c) = KeyOf[rows[1].pats[c]]
    <2> HIDE DEF real
    <2>1. ChosenKey(rows, c) = KeyOf[rows[IF real = {} THEN 1 ELSE Min(real)].pats[c]]
        BY DEF ChosenKey, real
    <2> QED BY <1>5, <2>1
<1> QED BY <1>1, <1>2, <1>3, <1>6

LEMMA KeysFacts ==
    ASSUME NEW rows, NEW occ, NEW c, AtColumn(rows, occ, c)
    PROVE  /\ \A key \in KeysAt(rows, c) : IsKeyAt(rows, occ, c, key)
           /\ TestedKeys(rows, c) = {} <=> KindAt(occ, c) \in {"tuple", "struct"}
           /\ TestedKeys(rows, c) = {} => KeysAt(rows, c) = {ChosenKey(rows, c)}
           /\ \A i \in 1..Len(rows) : ~IsWild(CoreAt(rows, i, c)) /\ TestedKeys(rows, c) # {} =>
                KeyOf[rows[i].pats[c]] \in TestedKeys(rows, c)
           /\ TestedKeys(rows, c) # {} => KeysAt(rows, c) = TestedKeys(rows, c)
<1> DEFINE kind == KindAt(occ, c)
<1>1. /\ 1 \in 1..Len(rows) /\ ~IsWild(CoreAt(rows, 1, c))
      /\ kind \in {"lit", "ctor", "tuple", "struct"}
      /\ ChosenKey(rows, c) = KeyOf[rows[1].pats[c]]
    BY FirstKey
<1>2. ASSUME NEW key, NEW i \in 1..Len(rows), ~IsWild(CoreAt(rows, i, c)), key = KeyOf[rows[i].pats[c]]
      PROVE  IsKeyAt(rows, occ, c, key)
    <2>1. /\ key.p = kind /\ key.tag = CoreAt(rows, i, c).tag /\ key.tag \in Tags(occ[c].type)
          /\ key = [p |-> kind, tag |-> CoreAt(rows, i, c).tag]
          /\ i \in Hits(rows, c, key)
        <3>1. IsTestedBy(rows, occ, c, i)
            BY <1>2, TestedKind
        <3> QED BY <1>2, <3>1 DEF IsTestedBy
    <2>2. key = [p |-> kind, tag |-> key.tag]
        BY <2>1
    <2> QED BY <1>2, <2>1, <2>2 DEF IsKeyAt
<1>3. ASSUME NEW key \in TestedKeys(rows, c)
      PROVE  IsKeyAt(rows, occ, c, key)
    <2>1. key \in Keys(rows, c) /\ key.p # "wild"
        BY DEF TestedKeys
    <2>2. PICK i \in 1..Len(rows) : ~IsWild(CoreAt(rows, i, c)) /\ key = KeyOf[rows[i].pats[c]]
        BY <2>1, OnlyKinds
    <2> QED BY <1>2, <2>2
<1>4. \A key \in KeysAt(rows, c) : IsKeyAt(rows, occ, c, key)
    BY <1>1, <1>2, <1>3 DEF KeysAt
<1>5. ASSUME kind \in {"lit", "ctor"}, NEW i \in 1..Len(rows), ~IsWild(CoreAt(rows, i, c))
      PROVE  KeyOf[rows[i].pats[c]] \in TestedKeys(rows, c)
    <2>0. IsTestedBy(rows, occ, c, i)
        BY <1>5, TestedKind
    <2>1. KeyOf[rows[i].pats[c]].p = kind /\ KeyOf[rows[i].pats[c]] \in Keys(rows, c)
        BY <2>0 DEF IsTestedBy
    <2> QED BY <1>5, <2>1 DEF TestedKeys
<1>6. ASSUME kind \in {"tuple", "struct"}
      PROVE  TestedKeys(rows, c) = {}
    <2>1. \A key \in TestedKeys(rows, c) : key.p = kind /\ key.p \in {"lit", "ctor"}
        BY <1>3 DEF TestedKeys, IsKeyAt
    <2> QED BY <1>6, <2>1
<1> QED BY <1>1, <1>4, <1>5, <1>6 DEF KeysAt

\* The rows that a key hits.
LEMMA HitIs ==
    ASSUME NEW rows, NEW occ, NEW c, AtColumn(rows, occ, c), NEW key, IsKeyAt(rows, occ, c, key), NEW i \in 1..Len(rows)
    PROVE  /\ i \in Hits(rows, c, key) <=> IsWild(CoreAt(rows, i, c)) \/ CoreAt(rows, i, c).tag = key.tag
           /\ i \in Hits(rows, c, key) /\ ~IsWild(CoreAt(rows, i, c)) => CoreAt(rows, i, c).p = key.p
<1> DEFINE pat == rows[i].pats[c]
           q == CoreAt(rows, i, c)
<1>1. ~IsWild(q) => q.p = KindAt(occ, c) /\ q.p \in {"lit", "ctor", "tuple", "struct"}
    <2>1. IsHead(rows, occ, c, i)
        BY ColumnHead
    <2> QED BY <2>1 DEF IsHead, IsCtor
<1>2. key.p = KindAt(occ, c)
    BY DEF IsKeyAt
<1>3. rows \in Seq(MatrixRows) /\ i \in DOMAIN rows
    BY GoodFacts DEF AtColumn
<1>4. i \in Hits(rows, c, key) <=> Hit(pat, key)
    BY <1>3 DEF Hits
<1>5. Core[pat] = q
    BY DEF CoreAt
<1> HIDE DEF pat, q
<1>6. Hit(pat, key) <=>
        \/ IsWild(q)
        \/ q.p \in {"lit", "ctor", "tuple", "struct"} /\ q.p = key.p /\ q.tag = key.tag
    BY <1>5 DEF Hit
<1> QED BY <1>1, <1>2, <1>4, <1>6 DEF q

\* A value with the key's tag matches no other row.
LEMMA HitMatches ==
    ASSUME NEW rows, NEW occ, NEW c, AtColumn(rows, occ, c), NEW key, IsKeyAt(rows, occ, c, key), NEW i \in 1..Len(rows),
           NEW w \in Inhabitants[occ[c].type], w.tag = key.tag, Matches(rows[i].pats[c], w)
    PROVE  i \in Hits(rows, c, key)
<1>1. IsHead(rows, occ, c, i)
    BY ColumnHead
<1>2. ~IsWild(CoreAt(rows, i, c)) => CoreAt(rows, i, c).tag = w.tag
    BY <1>1 DEF IsHead
<1> QED BY <1>2, HitIs

LEMMA IntoRows ==
    ASSUME NEW rows, NEW occ, NEW c, AtColumn(rows, occ, c), NEW key, IsKeyAt(rows, occ, c, key)
    PROVE  LET S == SpecializedRows(rows, c, key)
               K == Hits(rows, c, key)
               g == Into(rows, c, key)
           IN  /\ S \in Seq(MatrixRows) /\ HasKept(K, g, S) /\ SameArms(K, g, rows)
               /\ K # {} /\ \A i \in K : g[i] \in MatrixRows
<1> DEFINE S == SpecializedRows(rows, c, key)
           K == Hits(rows, c, key)
           g == Into(rows, c, key)
<1>1. rows \in Seq(MatrixRows)
    BY GoodFacts DEF AtColumn
<1>2. S = Selected(rows, K, g) /\ K \in SUBSET (1..Len(rows))
    BY <1>1, AsSelected
<1>3. ASSUME NEW i \in K
      PROVE  g[i] \in MatrixRows /\ g[i].arm = rows[i].arm /\ g[i].guard = rows[i].guard
    <2>1. IsHead(rows, occ, c, i)
        BY <1>2, ColumnHead
    <2>2. c \in 1..Len(rows[i].pats)
        BY <2>1 DEF IsHead
    <2> QED BY <1>1, <2>2, IntoFacts
<1>4. K # {}
    BY DEF IsKeyAt
<1> HIDE DEF S, K, g
<1>5. S \in Seq(MatrixRows) /\ HasKept(K, g, S)
    BY <1>1, <1>2, <1>3, SelectedFacts
<1>6. SameArms(K, g, rows)
    BY <1>2, <1>3 DEF SameArms
<1> QED BY <1>3, <1>4, <1>5, <1>6 DEF S, K, g

LEMMA WithoutRows ==
    ASSUME NEW rows, NEW occ, NEW c, AtColumn(rows, occ, c)
    PROVE  LET D == DefaultRows(rows, c)
               K == WildRows(rows, c)
               g == Without(rows, c)
           IN  D \in Seq(MatrixRows) /\ HasKept(K, g, D) /\ AreWithout(K, g, rows, c)
<1> DEFINE D == DefaultRows(rows, c)
           K == WildRows(rows, c)
           g == Without(rows, c)
<1>1. rows \in Seq(MatrixRows)
    BY GoodFacts DEF AtColumn
<1>2. D = Selected(rows, K, g) /\ K \in SUBSET (1..Len(rows))
    BY <1>1, AsSelected DEF WildRows
<1>3. ASSUME NEW i \in K
      PROVE  /\ g[i] \in MatrixRows /\ g[i].arm = rows[i].arm /\ g[i].guard = rows[i].guard
             /\ g[i].pats = RemoveAt(rows[i].pats, c)
    <2>0. i \in 1..Len(rows)
        BY <1>2
    <2>1. IsHead(rows, occ, c, i)
        BY <2>0, ColumnHead
    <2>2. c \in 1..Len(rows[i].pats)
        BY <2>1 DEF IsHead
    <2> QED BY <1>1, <2>0, <2>2, WithoutFacts
<1> HIDE DEF D, K, g
<1>5. D \in Seq(MatrixRows) /\ HasKept(K, g, D)
    BY <1>1, <1>2, <1>3, SelectedFacts
<1>6. AreWithout(K, g, rows, c)
    BY <1>2, <1>3 DEF SameArms, AreWithout
<1> QED BY <1>5, <1>6 DEF D, K, g

LEMMA RemovedHolds ==
    ASSUME NEW occ \in Seq(Places), NEW c \in 1..Len(occ), NEW v, PlacesHold(occ, v)
    PROVE  PlacesHold(RemoveAt(occ, c), v)
<1> DEFINE places == RemoveAt(occ, c)
           n == Len(occ)
<1>1. Len(places) = n - 1 /\ \A x \in 1..(n - 1) : places[x] = occ[Up(c, x)]
    <2>1. HasWithout(places, occ, Len(occ), c)
        BY RemovedIs
    <2> QED BY <2>1 DEF HasWithout
<1>2. n \in Nat /\ c \in 1..n
    OBVIOUS
<1>3. \A x \in 1..(n - 1) : Up(c, x) \in 1..n
    <2> HIDE DEF n
    <2> QED BY <1>2, UpFacts
<1>4. \A k \in 1..n : ValueAt(occ[k], v) \in Inhabitants[occ[k].type]
    BY DEF PlacesHold
<1> HIDE DEF places, n
<1>5. \A x \in 1..Len(places) : ValueAt(places[x], v) \in Inhabitants[places[x].type]
    BY <1>1, <1>3, <1>4
<1> QED BY <1>5 DEF PlacesHold, places

LEMMA DefaultGood ==
    ASSUME NEW rows, NEW occ, NEW c, AtColumn(rows, occ, c)
    PROVE  IsGood(DefaultRows(rows, c), RemoveAt(occ, c))
<1>1. /\ DefaultRows(rows, c) \in Seq(MatrixRows) /\ HasKept(WildRows(rows, c), Without(rows, c), DefaultRows(rows, c))
      /\ AreWithout(WildRows(rows, c), Without(rows, c), rows, c)
    BY WithoutRows
<1>2. IsGood(rows, occ) /\ c \in 1..Len(occ)
    BY DEF AtColumn
<1> QED BY <1>1, <1>2, RemovedGood

\* A row without the column fits as the row does, where the column matches.
LEMMA WithoutKeepsFit ==
    ASSUME NEW rows, NEW occ, NEW c, AtColumn(rows, occ, c), NEW K, NEW g, AreWithout(K, g, rows, c),
           NEW v, PlacesHold(occ, v),
           \A i \in 1..Len(rows) : Matches(rows[i].pats[c], ValueAt(occ[c], v)) <=> i \in K
    PROVE  KeepsFit(K, g, RemoveAt(occ, c), rows, occ, v)
<1>1. IsGood(rows, occ) /\ c \in 1..Len(occ) /\ occ \in Seq(Places)
    BY GoodFacts DEF AtColumn
<1>2. SameArms(K, g, rows) /\ K \in SUBSET (1..Len(rows))
    BY DEF AreWithout, SameArms
<1>3. PlacesHold(RemoveAt(occ, c), v)
    BY <1>1, RemovedHolds
<1>4. ASSUME NEW i \in K
      PROVE  FitsAt(g[i], RemoveAt(occ, c), v) <=> FitsAt(rows[i], occ, v)
    <2>1. FitsAt(rows[i], occ, v) <=>
            FitsAt(g[i], RemoveAt(occ, c), v) /\ Matches(rows[i].pats[c], ValueAt(occ[c], v))
        BY <1>1, RemovedFits
    <2> QED BY <1>2, <2>1
<1>5. ASSUME NEW i \in 1..Len(rows), FitsAt(rows[i], occ, v)
      PROVE  i \in K
    BY <1>1, <1>5 DEF FitsAt
<1> QED BY <1>3, <1>4, <1>5 DEF KeepsFit

LEMMA DefaultKeepsFit ==
    ASSUME NEW rows, NEW occ, NEW c, AtColumn(rows, occ, c), TestedKeys(rows, c) # {}, NEW v, PlacesHold(occ, v),
           \A key \in TestedKeys(rows, c) : key.tag # ValueAt(occ[c], v).tag
    PROVE  KeepsFit(WildRows(rows, c), Without(rows, c), RemoveAt(occ, c), rows, occ, v)
<1> DEFINE K == WildRows(rows, c)
           w == ValueAt(occ[c], v)
<1>1. AreWithout(K, Without(rows, c), rows, c)
    BY WithoutRows
<1>2. w \in Inhabitants[occ[c].type]
    BY DEF AtColumn, PlacesHold
<1>3. ASSUME NEW i \in 1..Len(rows)
      PROVE  Matches(rows[i].pats[c], w) <=> i \in K
    <2> DEFINE q == CoreAt(rows, i, c)
    <2>1. IsHead(rows, occ, c, i)
        BY ColumnHead
    <2>2. /\ AnyAlias(rows[i].pats[c]) <=> IsWild(q)
          /\ IsWild(q) => Matches(rows[i].pats[c], w)
          /\ Matches(rows[i].pats[c], w) /\ ~IsWild(q) => q.tag = w.tag
        <3> HIDE DEF w
        <3> QED BY <1>2, <2>1 DEF IsHead
    <2>3. i \in K <=> IsWild(q)
        BY <2>2 DEF WildRows
    <2>4. ASSUME ~IsWild(q)
          PROVE  q.tag # w.tag
        <3>1. IsTestedBy(rows, occ, c, i)
            BY <2>4, TestedKind
        <3>2. KeyOf[rows[i].pats[c]].tag = q.tag
            BY <3>1 DEF IsTestedBy
        <3>3. KeyOf[rows[i].pats[c]] \in TestedKeys(rows, c)
            BY <2>4, KeysFacts
        <3> QED BY <3>2, <3>3
    <2> HIDE DEF q, w
    <2> QED BY <2>2, <2>3, <2>4
<1> QED BY <1>1, <1>3, WithoutKeepsFit

LEMMA DefaultFollows ==
    ASSUME NEW rows, NEW occ, NEW c, AtColumn(rows, occ, c), TestedKeys(rows, c) # {}, NEW v, PlacesHold(occ, v),
           \A key \in TestedKeys(rows, c) : key.tag # ValueAt(occ[c], v).tag
    PROVE  Follows(DefaultRows(rows, c), RemoveAt(occ, c), rows, occ, v)
<1> DEFINE K == WildRows(rows, c)
           g == Without(rows, c)
           new == DefaultRows(rows, c)
<1>1. new \in Seq(MatrixRows) /\ HasKept(K, g, new) /\ SameArms(K, g, rows)
    BY WithoutRows DEF AreWithout
<1>2. KeepsFit(K, g, RemoveAt(occ, c), rows, occ, v)
    BY DefaultKeepsFit
<1>3. IsGood(rows, occ)
    BY DEF AtColumn
<1> HIDE DEF K, g, new
<1>4. Follows(new, RemoveAt(occ, c), rows, occ, v)
    BY <1>1, <1>2, <1>3, KeptFollows
<1> QED BY <1>4 DEF new

\* The rows under a key have no column if it is a literal; else the parts of
\* their patterns, at places of their own, or the wildcard that takes all.
IsBelow(rows, occ, c, key) ==
    LET places == SpecializedPlaces(rows, occ, c, key)
    IN  \A i \in Hits(rows, c, key) :
            LET q == CoreAt(rows, i, c)
                pats == Into(rows, c, key)[i].pats
            IN  IF key.p = "lit"
                THEN places = RemoveAt(occ, c) /\ pats = RemoveAt(rows[i].pats, c) /\ (IsWild(q) \/ q.p = "lit")
                ELSE IF IsWild(q) THEN pats = <<q>>
                ELSE /\ HasParts(q) /\ pats = q.args /\ Len(q.args) = Len(places)
                     /\ \A k \in 1..Len(places) :
                            k \in DOMAIN q.args /\ StepTo(q, k) \in Steps /\ places[k] = At(occ[c], StepTo(q, k))

\* What is under a key: the rest of the match for the values with its tag.
IsUnder(rows, occ, c, key) ==
    /\ IsGood(SpecializedRows(rows, c, key), SpecializedPlaces(rows, occ, c, key))
    /\ \A v \in AllValues : PlacesHold(occ, v) /\ ValueAt(occ[c], v).tag = key.tag =>
        KeepsFit(Hits(rows, c, key), Into(rows, c, key), SpecializedPlaces(rows, occ, c, key), rows, occ, v)
    /\ IsBelow(rows, occ, c, key)

LEMMA UnderFollows ==
    ASSUME NEW rows, NEW occ, NEW c, AtColumn(rows, occ, c), NEW key, IsKeyAt(rows, occ, c, key), IsUnder(rows, occ, c, key),
           NEW v \in AllValues, PlacesHold(occ, v), ValueAt(occ[c], v).tag = key.tag
    PROVE  Follows(SpecializedRows(rows, c, key), SpecializedPlaces(rows, occ, c, key), rows, occ, v)
<1> DEFINE K == Hits(rows, c, key)
           g == Into(rows, c, key)
           new == SpecializedRows(rows, c, key)
           places == SpecializedPlaces(rows, occ, c, key)
<1>1. new \in Seq(MatrixRows) /\ HasKept(K, g, new) /\ SameArms(K, g, rows)
    BY IntoRows
<1>2. KeepsFit(K, g, places, rows, occ, v)
    BY DEF IsUnder
<1>3. IsGood(rows, occ)
    BY DEF AtColumn
<1> HIDE DEF K, g, new, places
<1>4. Follows(new, places, rows, occ, v)
    BY <1>1, <1>2, <1>3, KeptFollows
<1> QED BY <1>4 DEF new, places

LEMMA NoSubPlaces ==
    ASSUME NEW rows, NEW occ, NEW c, AtColumn(rows, occ, c), NEW key, IsKeyAt(rows, occ, c, key),
           SubPlaces(rows[Min(Hits(rows, c, key))].pats[c], occ[c]) = <<>>
    PROVE  SpecializedPlaces(rows, occ, c, key) = RemoveAt(occ, c)
<1> DEFINE new == SpecializedPlaces(rows, occ, c, key)
           subs == SubPlaces(rows[Min(Hits(rows, c, key))].pats[c], occ[c])
           n == Len(occ)
<1>1. rows \in Seq(MatrixRows) /\ occ \in Seq(Places) /\ c \in 1..n
    BY GoodFacts DEF AtColumn
<1>2. \A i \in 1..Len(rows) : c \in 1..Len(rows[i].pats)
    <2> SUFFICES ASSUME NEW i \in 1..Len(rows) PROVE c \in 1..Len(rows[i].pats)
        OBVIOUS
    <2>1. IsHead(rows, occ, c, i)
        BY ColumnHead
    <2> QED BY <2>1 DEF IsHead
<1>3. Hits(rows, c, key) # {}
    BY DEF IsKeyAt
<1>4. /\ new \in Seq(Places) /\ Len(new) = (n - 1) + Len(subs)
      /\ \A k \in 1..Len(new) :
           new[k] = IF k < c THEN occ[k] ELSE IF k - c < Len(subs) THEN subs[(k - c) + 1] ELSE occ[(k - Len(subs)) + 1]
    BY <1>1, <1>2, <1>3, SpecializedPlacesFacts
<1>5. subs = <<>> /\ Len(subs) = 0
    OBVIOUS
<1> HIDE DEF subs
<1>6. n \in Nat
    BY <1>1
<1> HIDE DEF n, new
<1>7. Len(new) = n - 1 /\ \A k \in 1..(n - 1) : new[k] = IF k < c THEN occ[k] ELSE occ[k + 1]
    BY <1>1, <1>4, <1>5, <1>6
<1>8. /\ RemoveAt(occ, c) \in Seq(Places) /\ Len(RemoveAt(occ, c)) = n - 1
      /\ \A k \in 1..(n - 1) : RemoveAt(occ, c)[k] = IF k < c THEN occ[k] ELSE occ[k + 1]
    BY <1>1, RemoveAtFacts DEF n
<1> DEFINE old == RemoveAt(occ, c)
<1> HIDE DEF old
<1>9. new \in Seq(Places) /\ old \in Seq(Places) /\ Len(new) = Len(old) /\ \A k \in 1..Len(new) : new[k] = old[k]
    BY <1>4, <1>7, <1>8 DEF old
<1>10. new = old
    BY <1>9
<1> QED BY <1>10 DEF new, old

LEMMA LiteralUnder ==
    ASSUME NEW rows, NEW occ, NEW c, AtColumn(rows, occ, c), NEW key, IsKeyAt(rows, occ, c, key), key.p = "lit"
    PROVE  IsUnder(rows, occ, c, key)
<1> DEFINE S == SpecializedRows(rows, c, key)
           K == Hits(rows, c, key)
           g == Into(rows, c, key)
<1>1. /\ S \in Seq(MatrixRows) /\ HasKept(K, g, S) /\ SameArms(K, g, rows)
      /\ K # {} /\ \A i \in K : g[i] \in MatrixRows
    BY IntoRows
<1>2. K \in SUBSET (1..Len(rows))
    BY <1>1 DEF SameArms
<1>0. IsGood(rows, occ) /\ c \in 1..Len(occ) /\ rows \in Seq(MatrixRows)
    BY GoodFacts DEF AtColumn
<1>3. ASSUME NEW i \in K
      PROVE  /\ g[i].pats = RemoveAt(rows[i].pats, c)
             /\ SubPlaces(rows[i].pats[c], occ[c]) = <<>>
             /\ IsWild(CoreAt(rows, i, c)) \/ CoreAt(rows, i, c).p = "lit"
    <2> DEFINE pats == rows[i].pats
               pat == pats[c]
    <2>1. IsHead(rows, occ, c, i)
        BY <1>2, ColumnHead
    <2>2. c \in 1..Len(pats) /\ pat \in Pats
        BY <2>1 DEF IsHead
    <2>3. g[i].pats = SubPatterns(pat, key) \o RemoveAt(pats, c)
        <3>1. rows \in Seq(MatrixRows)
            BY <1>0
        <3>2. c \in 1..Len(rows[i].pats)
            BY <2>2
        <3>3. i \in Hits(rows, c, key)
            OBVIOUS
        <3> QED BY <3>1, <3>2, <3>3, IntoFacts, Zenon
    <2>4. IsWild(Core[pat]) \/ Core[pat].p = "lit"
        BY <1>2, HitIs DEF CoreAt
    <2>5. pats \in Seq(Pats)
        BY <1>0, <1>2, GoodFacts
    <2> HIDE DEF pat, pats
    <2>6. SubPatterns(pat, key) = <<>>
        BY <2>4 DEF SubPatterns
    <2>7. RemoveAt(pats, c) \in Seq(Pats)
        BY <2>2, <2>5, RemoveAtFacts
    <2>8. <<>> \o RemoveAt(pats, c) = RemoveAt(pats, c)
        BY <2>7
    <2>9. SubPlaces(pat, occ[c]) = <<>>
        BY <2>4 DEF SubPlaces, HasParts, IsWild
    <2> QED BY <2>3, <2>4, <2>6, <2>8, <2>9 DEF pat, pats, CoreAt
<1>4. AreWithout(K, g, rows, c)
    BY <1>1, <1>3 DEF AreWithout
<1>5. SpecializedPlaces(rows, occ, c, key) = RemoveAt(occ, c)
    <2>1. K \in SUBSET Nat
        BY <1>2
    <2>2. Min(K) \in K
        <3> HIDE DEF K
        <3> QED BY <1>1, <2>1, MinFacts
    <2>3. SubPlaces(rows[Min(K)].pats[c], occ[c]) = <<>>
        BY <1>3, <2>2
    <2> QED BY <2>3, NoSubPlaces
<1>6. IsGood(S, RemoveAt(occ, c))
    <2> HIDE DEF S, K, g
    <2> QED BY <1>0, <1>1, <1>4, RemovedGood
<1>7. ASSUME NEW v, PlacesHold(occ, v), ValueAt(occ[c], v).tag = key.tag
      PROVE  KeepsFit(K, g, RemoveAt(occ, c), rows, occ, v)
    <2> DEFINE w == ValueAt(occ[c], v)
    <2>1. w \in Inhabitants[occ[c].type]
        BY <1>0, <1>7 DEF PlacesHold
    <2>2. ASSUME NEW i \in 1..Len(rows)
          PROVE  Matches(rows[i].pats[c], w) <=> i \in K
        <3>1. IsHead(rows, occ, c, i)
            BY ColumnHead
        <3> DEFINE q == CoreAt(rows, i, c)
        <3>2. /\ i \in K <=> IsWild(q) \/ q.tag = key.tag
              /\ i \in K /\ ~IsWild(q) => q.p = key.p
            BY HitIs
        <3>3. w.tag = key.tag
            BY <1>7
        <3> HIDE DEF w, K
        <3>4. /\ IsWild(q) => Matches(rows[i].pats[c], w)
              /\ Matches(rows[i].pats[c], w) /\ ~IsWild(q) => q.tag = w.tag
              /\ q.p = "lit" /\ q.tag = w.tag => Matches(rows[i].pats[c], w)
            BY <2>1, <3>1 DEF IsHead
        <3> HIDE DEF q
        <3> QED BY <3>2, <3>3, <3>4
    <2> HIDE DEF K, g
    <2> QED BY <1>4, <1>7, <2>2, WithoutKeepsFit
<1>8. IsBelow(rows, occ, c, key)
    BY <1>3, <1>5 DEF IsBelow
<1> QED BY <1>5, <1>6, <1>7, <1>8 DEF IsUnder

\* Where something has parts there is one place.
LEMMA FirstPlace ==
    ASSUME NEW rows, NEW occ, NEW c, AtColumn(rows, occ, c), KindAt(occ, c) # "lit"
    PROVE  Len(occ) = 1 /\ c = 1
<1>1. IsGood(rows, occ) /\ c \in 1..Len(occ) /\ Len(occ) \in Nat
    BY GoodFacts DEF AtColumn
<1>2. 1 \in 1..Len(rows) /\ ~IsWild(CoreAt(rows, 1, c))
    BY FirstKey
<1>3. IsHead(rows, occ, c, 1)
    BY <1>2, ColumnHead
<1> DEFINE pat == rows[1].pats[c]
<1>4. pat \in Pats /\ c \in 1..Len(rows[1].pats) /\ CoreAt(rows, 1, c).p = KindAt(occ, c)
    BY <1>2, <1>3 DEF IsHead
<1>5. CoreAt(rows, 1, c) = Core[pat]
    BY DEF CoreAt
<1>6. Len(occ) >= 2 => IsPlain(pat)
    BY <1>1, <1>2, <1>4 DEF IsGood, PlainRows
<1> HIDE DEF pat
<1>7. ~IsPlain(pat)
    <2> SUFFICES ASSUME IsPlain(pat) PROVE FALSE
        OBVIOUS
    <2>1. Core[pat] = pat
        BY <1>4, PlainIs
    <2> QED BY <1>2, <1>4, <1>5, <2>1 DEF IsPlain
<1> QED BY <1>1, <1>6, <1>7

IsSingle(rows, occ, c, key) ==
    LET K == Hits(rows, c, key)
        g == Into(rows, c, key)
        o == Min(K)
    IN  /\ Len(occ) = 1 /\ c = 1
        /\ o \in K /\ \A i \in K : o <= i
        /\ K \in SUBSET (1..Len(rows))
        /\ \A i \in K : g[i].pats = SubPatterns(rows[i].pats[c], key) /\ g[i].pats \in Seq(Pats)
        /\ SpecializedPlaces(rows, occ, c, key) = SubPlaces(rows[o].pats[c], occ[c])
        /\ SpecializedPlaces(rows, occ, c, key) \in Seq(Places)
        /\ \A i \in 1..Len(rows) : \A v : FitsAt(rows[i], occ, v) <=> Matches(rows[i].pats[c], ValueAt(occ[c], v))

LEMMA SingleFacts ==
    ASSUME NEW rows, NEW occ, NEW c, AtColumn(rows, occ, c), NEW key, IsKeyAt(rows, occ, c, key), KindAt(occ, c) # "lit"
    PROVE  IsSingle(rows, occ, c, key)
<1> DEFINE K == Hits(rows, c, key)
           g == Into(rows, c, key)
           o == Min(K)
           new == SpecializedPlaces(rows, occ, c, key)
           subs == SubPlaces(rows[o].pats[c], occ[c])
<1>1. Len(occ) = 1 /\ c = 1
    BY FirstPlace
<1>2. IsGood(rows, occ) /\ c \in 1..Len(occ) /\ rows \in Seq(MatrixRows) /\ occ \in Seq(Places)
    BY GoodFacts DEF AtColumn
<1>3. K # {} /\ K \in SUBSET (1..Len(rows))
    BY IntoRows DEF SameArms
<1>4. \A i \in 1..Len(rows) : c \in 1..Len(rows[i].pats) /\ Len(rows[i].pats) = 1 /\ rows[i].pats \in Seq(Pats)
    <2> SUFFICES ASSUME NEW i \in 1..Len(rows)
                 PROVE  c \in 1..Len(rows[i].pats) /\ Len(rows[i].pats) = 1 /\ rows[i].pats \in Seq(Pats)
        OBVIOUS
    <2>1. IsHead(rows, occ, c, i)
        BY ColumnHead
    <2>2. rows[i].pats \in Seq(Pats)
        BY <1>2, GoodFacts
    <2> QED BY <1>1, <2>1, <2>2 DEF IsHead
<1>5. /\ o \in K /\ \A i \in K : o <= i
      /\ subs \in Seq(Places) /\ new \in Seq(Places) /\ Len(new) = (Len(occ) - 1) + Len(subs)
      /\ \A k \in 1..Len(new) :
           new[k] = IF k < c THEN occ[k] ELSE IF k - c < Len(subs) THEN subs[(k - c) + 1] ELSE occ[(k - Len(subs)) + 1]
    <2>1. \A i \in 1..Len(rows) : c \in 1..Len(rows[i].pats)
        BY <1>4
    <2>2. Hits(rows, c, key) # {}
        BY <1>3
    <2> QED BY <1>2, <2>1, <2>2, SpecializedPlacesFacts
<1>6. ASSUME NEW i \in K
      PROVE  g[i].pats = SubPatterns(rows[i].pats[c], key) /\ g[i].pats \in Seq(Pats)
    <2> DEFINE pats == rows[i].pats
               sub == SubPatterns(rows[i].pats[c], key)
    <2>0. i \in 1..Len(rows) /\ c \in 1..Len(rows[i].pats) /\ Len(pats) = 1 /\ pats \in Seq(Pats)
        BY <1>3, <1>4
    <2>1. i \in Hits(rows, c, key)
        OBVIOUS
    <2>2. g[i].pats = sub \o RemoveAt(pats, c) /\ sub \in Seq(Pats)
        BY <1>2, <2>0, <2>1, IntoFacts, Zenon
    <2> HIDE DEF pats, sub
    <2>3. RemoveAt(pats, c) \in Seq(Pats) /\ Len(RemoveAt(pats, c)) = 0
        BY <1>1, <2>0, RemoveAtFacts DEF pats
    <2>4. sub \o RemoveAt(pats, c) = sub
        <3> DEFINE e == RemoveAt(pats, c)
        <3> HIDE DEF e
        <3>1. e = <<>>
            BY <2>3 DEF e
        <3>2. sub \o <<>> = sub
            BY <2>2
        <3> QED BY <3>1, <3>2 DEF e
    <2> QED BY <2>2, <2>4 DEF sub
<1>7. new = subs
    <2> DEFINE l == Len(subs)
    <2>1. l \in Nat /\ Len(new) = l
        BY <1>1, <1>5
    <2>2. \A k \in 1..Len(new) : new[k] = IF k < 1 THEN occ[k] ELSE IF k - 1 < l THEN subs[(k - 1) + 1] ELSE occ[(k - l) + 1]
        BY <1>1, <1>5
    <2> HIDE DEF new, subs
    <2>3. \A k \in 1..Len(new) : new[k] = subs[k]
        <3> HIDE DEF l
        <3> QED BY <2>1, <2>2
    <2>4. new \in Seq(Places) /\ subs \in Seq(Places) /\ Len(new) = Len(subs)
        BY <1>5, <2>1 DEF new, subs
    <2> QED BY <2>3, <2>4
<1>8. ASSUME NEW i \in 1..Len(rows), NEW v
      PROVE  FitsAt(rows[i], occ, v) <=> Matches(rows[i].pats[c], ValueAt(occ[c], v))
    <2>1. FitsAt(rows[i], occ, v) <=> \A k \in 1..1 : Matches(rows[i].pats[k], ValueAt(occ[k], v))
        BY <1>1 DEF FitsAt
    <2>2. \A k : k \in 1..1 <=> k = 1
        OBVIOUS
    <2> QED BY <1>1, <2>1, <2>2
<1> QED BY <1>1, <1>3, <1>5, <1>6, <1>7, <1>8 DEF IsSingle

\* A constructor and its payload.
HasPayload(q, t) ==
    /\ q.args \in Seq(Pats) /\ Len(q.args) = Len(Shape[t].parts[q.tag])
    /\ q.args = <<>> => \A w \in Inhabitants[t] : w.tag = q.tag => Matches(q, w)
    /\ q.args # <<>> =>
        /\ 1 \in DOMAIN q.args /\ 1 \in DOMAIN Shape[t].parts[q.tag] /\ Len(q.args) = 1
        /\ q.args[1] \in Pats /\ q.args[1] \in Within[q]
        /\ StepType(t, EnumItem(q.tag)) \in TypesOf[q.args[1]]
        /\ \A w \in Inhabitants[t] : w.tag = q.tag =>
            /\ Matches(q, w) <=> Matches(q.args[1], StepValue(w, EnumItem(q.tag)))
            /\ StepValue(w, EnumItem(q.tag)) \in Inhabitants[StepType(t, EnumItem(q.tag))]

LEMMA PayloadFacts ==
    ASSUME NEW q \in Pats, q.p = "ctor", NEW t \in TypesOf[q], t \in TypeNames
    PROVE  HasPayload(q, t)
<1> DEFINE d == Shape[t].parts[q.tag]
           args == q.args
<1>1. /\ Shape[t].kind = "ctor" /\ q.tag \in Tags(t)
      /\ Len(args) = Len(d)
      /\ \A i \in DOMAIN args : PartOf(q, i) \in DOMAIN d /\ d[PartOf(q, i)] \in TypesOf[args[i]]
    <2>1. TypesOf[q] = TypesBody(TypesOf, q)
        BY TypesOfDef
    <2> QED BY <2>1 DEF TypesBody, IsWild
<1>2. HasParts(q) /\ args \in Seq(Pats) /\ \A i \in DOMAIN args : PartOf(q, i) = i
    BY PatternParts DEF HasParts, PartOf
<1>3. Len(d) <= 1 /\ d \in Seq(TypeNames)
    BY <1>1, TreeAssumption, TypeFacts
<1>4. ASSUME NEW w \in Inhabitants[t], w.tag = q.tag
      PROVE  Matches(q, w) <=> \A i \in DOMAIN args : i \in DOMAIN w.parts /\ Matches(args[i], w.parts[i])
    <2>1. w \in AllValues
        BY TypeFacts
    <2>2. Matches(q, w) = MatchBody(Matching, q, w)
        BY <2>1, MatchesDef
    <2>3. Matches(q, w) <=> \A i \in DOMAIN args : PartOf(q, i) \in DOMAIN w.parts /\ Matching[<<args[i], w.parts[PartOf(q, i)]>>]
        BY <1>2, <1>4, <2>2 DEF MatchBody, IsWild
    <2> QED BY <1>2, <2>3 DEF Matches
<1>5. ASSUME args = <<>>, NEW w \in Inhabitants[t], w.tag = q.tag
      PROVE  Matches(q, w)
    <2>1. DOMAIN args = {}
        BY <1>5
    <2> QED BY <1>4, <1>5, <2>1
<1>6. ASSUME args # <<>>
      PROVE  /\ 1 \in DOMAIN args /\ 1 \in DOMAIN d /\ Len(args) = 1
             /\ args[1] \in Pats /\ args[1] \in Within[q]
             /\ StepType(t, EnumItem(q.tag)) \in TypesOf[args[1]]
             /\ \A w \in Inhabitants[t] : w.tag = q.tag =>
                    /\ Matches(q, w) <=> Matches(args[1], StepValue(w, EnumItem(q.tag)))
                    /\ StepValue(w, EnumItem(q.tag)) \in Inhabitants[StepType(t, EnumItem(q.tag))]
    <2> HIDE DEF args, d
    <2>1. Len(args) = 1 /\ Len(d) = 1 /\ DOMAIN args = {1} /\ DOMAIN d = {1}
        <3>1. Len(args) \in Nat /\ Len(args) # 0 /\ DOMAIN args = 1..Len(args) /\ DOMAIN d = 1..Len(d)
            BY <1>2, <1>3, <1>6
        <3>2. Len(args) = 1 /\ Len(d) = 1
            BY <1>1, <1>3, <3>1
        <3> QED BY <3>1, <3>2
    <2>2. StepType(t, EnumItem(q.tag)) = d[1] /\ \A w \in Inhabitants[t] : w.tag = q.tag =>
            1 \in DOMAIN w.parts /\ StepValue(w, EnumItem(q.tag)) = w.parts[1] /\ w.parts[1] \in Inhabitants[d[1]]
        <3>1. 1 \in DOMAIN Shape[t].parts[q.tag]
            BY <2>1 DEF d
        <3> QED BY <1>1, <3>1, PayloadPlace DEF d
    <2>3. d[1] \in TypesOf[args[1]]
        BY <1>1, <1>2, <2>1
    <2>4. args[1] \in Pats /\ args[1] \in Children(q)
        BY <1>2, <2>1 DEF Children, args
    <2>5. args[1] \in Within[q]
        BY <2>4, WithinFacts
    <2>6. \A w \in Inhabitants[t] : w.tag = q.tag => (Matches(q, w) <=> Matches(args[1], w.parts[1]))
        BY <1>4, <2>1, <2>2
    <2> QED BY <2>1, <2>2, <2>3, <2>4, <2>5, <2>6
<1> QED BY <1>1, <1>2, <1>5, <1>6 DEF HasPayload

\* A row that the key of a constructor hits.
IsCtorHit(rows, occ, c, key, i) ==
    LET q == CoreAt(rows, i, c)
    IN  /\ key.tag \in Tags(occ[c].type) /\ key.p = "ctor" /\ occ[c].type \in TypeNames /\ Shape[occ[c].type].kind = "ctor"
        /\ SubPatterns(rows[i].pats[c], key) = IF IsWild(q) THEN <<q>> ELSE q.args
        /\ ~IsWild(q) => q.p = "ctor" /\ q.tag = key.tag /\ HasPayload(q, occ[c].type)

LEMMA CtorHit ==
    ASSUME NEW rows, NEW occ, NEW c, AtColumn(rows, occ, c), NEW key, IsKeyAt(rows, occ, c, key), KindAt(occ, c) = "ctor",
           NEW i \in 1..Len(rows), i \in Hits(rows, c, key)
    PROVE  IsCtorHit(rows, occ, c, key, i)
<1> DEFINE q == CoreAt(rows, i, c)
           t == occ[c].type
<1>1. IsHead(rows, occ, c, i)
    BY ColumnHead
<1>2. key.p = "ctor" /\ key.tag \in Tags(t) /\ Shape[t].kind = "ctor"
    BY DEF IsKeyAt, KindAt
<1>3. q \in Pats /\ t \in TypesOf[q] /\ t \in TypeNames
    BY <1>1 DEF IsHead
<1>4. ~IsWild(q) => q.p = "ctor" /\ q.tag = key.tag
    BY <1>2, HitIs
<1>5. q = Core[rows[i].pats[c]]
    BY DEF CoreAt
<1> HIDE DEF q, t
<1>6. SubPatterns(rows[i].pats[c], key) = IF IsWild(q) THEN <<q>> ELSE q.args
    BY <1>2, <1>4, <1>5 DEF SubPatterns
<1>7. ~IsWild(q) => HasPayload(q, t)
    BY <1>3, <1>4, PayloadFacts
<1> QED BY <1>2, <1>3, <1>4, <1>6, <1>7 DEF IsCtorHit, q, t

\* What two rows have in the column.
LEMMA CoresTogether ==
    ASSUME NEW rows, NEW occ, NEW c, AtColumn(rows, occ, c), NEW i \in 1..Len(rows), NEW j \in 1..Len(rows)
    PROVE  /\ ApartAlike(CoreAt(rows, i, c), CoreAt(rows, j, c))
           /\ rows[i].guard /\ rows[i].arm <= rows[j].arm /\ ~(i = 1 /\ NoOr(CoreAt(rows, i, c)))
                => Passes(CoreAt(rows, i, c), CoreAt(rows, j, c))
<1> DEFINE a == rows[i].pats[c]
           b == rows[j].pats[c]
           p == CoreAt(rows, i, c)
           q == CoreAt(rows, j, c)
<1>1. IsHead(rows, occ, c, i) /\ IsHead(rows, occ, c, j)
    BY ColumnHead
<1>2. a \in Pats /\ b \in Pats /\ Narrower(p, a) /\ Narrower(q, b)
    BY <1>1 DEF IsHead
<1>3. /\ ApartAlike(a, b)
      /\ rows[i].guard /\ rows[i].arm <= rows[j].arm /\ ~(i = 1 /\ NoOr(a)) => Passes(a, b)
    BY DEF AtColumn, IsGood, ColumnsApart, GuardsPass
<1> HIDE DEF a, b, p, q
<1>4. (ApartAlike(a, b) => ApartAlike(p, q)) /\ (Passes(a, b) => Passes(p, q))
    BY <1>2, ApartNarrower
<1>5. NoOr(a) => NoOr(p)
    BY <1>2, FineWithin DEF Narrower
<1> QED BY <1>3, <1>4, <1>5 DEF p, q

\* Under the key of a constructor without a payload nothing is left to test.
LEMMA NullaryUnder ==
    ASSUME NEW rows, NEW occ, NEW c, AtColumn(rows, occ, c), NEW key, IsKeyAt(rows, occ, c, key), KindAt(occ, c) = "ctor",
           Len(Shape[occ[c].type].parts[key.tag]) = 0
    PROVE  IsUnder(rows, occ, c, key)
<1> DEFINE S == SpecializedRows(rows, c, key)
           P == SpecializedPlaces(rows, occ, c, key)
           K == Hits(rows, c, key)
           g == Into(rows, c, key)
           o == Min(K)
           t == occ[c].type
<1>1. S \in Seq(MatrixRows) /\ HasKept(K, g, S) /\ SameArms(K, g, rows)
    BY IntoRows
<1>2. IsSingle(rows, occ, c, key)
    BY SingleFacts
<1>3. /\ o \in K /\ K \in SUBSET (1..Len(rows))
      /\ \A i \in K : g[i].pats = SubPatterns(rows[i].pats[c], key) /\ g[i].pats \in Seq(Pats)
      /\ P = SubPlaces(rows[o].pats[c], occ[c])
      /\ \A i \in 1..Len(rows) : \A v : FitsAt(rows[i], occ, v) <=> Matches(rows[i].pats[c], ValueAt(occ[c], v))
    BY <1>2 DEF IsSingle
<1>4. IsGood(rows, occ) /\ c \in 1..Len(occ)
    BY DEF AtColumn
<1>5. ASSUME NEW i \in K
      PROVE  \/ IsWild(CoreAt(rows, i, c)) /\ g[i].pats = <<CoreAt(rows, i, c)>>
             \/ /\ ~IsWild(CoreAt(rows, i, c)) /\ CoreAt(rows, i, c).args = <<>> /\ g[i].pats = <<>>
                /\ \A w \in Inhabitants[t] : w.tag = key.tag => Matches(CoreAt(rows, i, c), w)
    <2> DEFINE q == CoreAt(rows, i, c)
    <2>1. IsCtorHit(rows, occ, c, key, i)
        BY <1>3, CtorHit
    <2>2. /\ SubPatterns(rows[i].pats[c], key) = IF IsWild(q) THEN <<q>> ELSE q.args
          /\ ~IsWild(q) => q.tag = key.tag /\ HasPayload(q, t)
        BY <2>1 DEF IsCtorHit
    <2> HIDE DEF q
    <2>3. ASSUME ~IsWild(q)
          PROVE  q.args = <<>> /\ \A w \in Inhabitants[t] : w.tag = key.tag => Matches(q, w)
        <3>1. q.args \in Seq(Pats) /\ Len(q.args) = 0
            BY <2>2, <2>3 DEF HasPayload
        <3>2. q.args = <<>>
            BY <3>1
        <3> QED BY <2>2, <2>3, <3>2 DEF HasPayload
    <2>4. g[i].pats = IF IsWild(q) THEN <<q>> ELSE q.args
        BY <1>3, <2>2
    <2> QED BY <2>3, <2>4 DEF q
<1>6. P = <<>>
    <2>1. IsWild(CoreAt(rows, o, c)) \/ CoreAt(rows, o, c).args = <<>>
        BY <1>3, <1>5
    <2>2. SubPlaces(rows[o].pats[c], occ[c]) = <<>>
        BY <2>1 DEF SubPlaces, CoreAt, HasParts, IsWild
    <2> QED BY <1>3, <2>2
<1>7. <<>> \in Seq(Places) /\ Len(<<>>) = 0
    BY EmptySeq
<1>8. RowsAllSuit(K, g, <<>>)
    <2> SUFFICES ASSUME NEW i \in K, NEW k \in 1..Len(g[i].pats) PROVE IsWild(g[i].pats[k])
        BY DEF RowsAllSuit, RowSuits
    <2>1. CASE IsWild(CoreAt(rows, i, c)) /\ g[i].pats = <<CoreAt(rows, i, c)>>
        <3> DEFINE q == CoreAt(rows, i, c)
                   s == <<q>>
        <3>1. Len(s) = 1 /\ s[1] = q /\ g[i].pats = s /\ IsWild(q)
            BY <2>1
        <3> HIDE DEF q
        <3>2. k = 1
            BY <3>1
        <3> QED BY <3>1, <3>2
    <2>2. CASE g[i].pats = <<>>
        BY <2>2
    <2> QED BY <1>5, <2>1, <2>2
<1>9. RowsTogether(K, g, rows, <<>>)
    BY <1>7 DEF RowsTogether
<1>10. IsGood(S, <<>>)
    <2>1. ~(Len(<<>>) >= 2)
        OBVIOUS
    <2> HIDE DEF S, K, g
    <2> QED BY <1>1, <1>4, <1>7, <1>8, <1>9, <2>1, KeptGood
<1>11. ASSUME NEW v \in AllValues, PlacesHold(occ, v), ValueAt(occ[c], v).tag = key.tag
       PROVE  KeepsFit(K, g, <<>>, rows, occ, v)
    <2> DEFINE w == ValueAt(occ[c], v)
    <2>1. w \in Inhabitants[t] /\ w.tag = key.tag
        BY <1>4, <1>11 DEF PlacesHold
    <2> HIDE DEF w
    <2>2. ASSUME NEW i \in K
          PROVE  Matches(rows[i].pats[c], w)
        <3>0. i \in 1..Len(rows)
            BY <1>3
        <3>1. IsHead(rows, occ, c, i)
            BY <3>0, ColumnHead
        <3> DEFINE q == CoreAt(rows, i, c)
        <3>2. (IsWild(q) => Matches(rows[i].pats[c], w)) /\ (Matches(rows[i].pats[c], w) <=> Matches(q, w))
            BY <2>1, <3>1 DEF IsHead
        <3>3. ~IsWild(q) => Matches(q, w)
            BY <1>5, <2>1
        <3> QED BY <3>2, <3>3
    <2>3. ASSUME NEW i \in 1..Len(rows), Matches(rows[i].pats[c], w)
          PROVE  i \in K
        BY <2>1, <2>3, HitMatches
    <2>4. \A i \in 1..Len(rows) : FitsAt(rows[i], occ, v) <=> Matches(rows[i].pats[c], w)
        BY <1>3 DEF w
    <2>5. PlacesHold(<<>>, v) /\ \A i \in K : FitsAt(g[i], <<>>, v)
        BY <1>7 DEF PlacesHold, FitsAt
    <2> HIDE DEF K, g
    <2> QED BY <1>3, <2>2, <2>3, <2>4, <2>5 DEF KeepsFit
<1>12. IsBelow(rows, occ, c, key)
    <2>0. Len(P) = 0 /\ key.p # "lit" /\ P = <<>>
        BY <1>6, <1>7 DEF IsKeyAt
    <2>1. ASSUME NEW i \in K, ~IsWild(CoreAt(rows, i, c))
          PROVE  HasParts(CoreAt(rows, i, c)) /\ g[i].pats = CoreAt(rows, i, c).args /\ Len(CoreAt(rows, i, c).args) = Len(P)
        <3>1. IsCtorHit(rows, occ, c, key, i)
            BY <1>3, CtorHit
        <3>2. HasParts(CoreAt(rows, i, c))
            BY <2>1, <3>1 DEF IsCtorHit, HasParts
        <3> HIDE DEF K, g, P
        <3> QED BY <1>5, <1>7, <2>0, <2>1, <3>2
    <2>2. \A k \in 1..Len(P) : FALSE
        BY <2>0
    <2>3. \A i \in K : IsWild(CoreAt(rows, i, c)) => g[i].pats = <<CoreAt(rows, i, c)>>
        BY <1>5
    <2> QED BY <2>0, <2>1, <2>2, <2>3 DEF IsBelow
<1> QED BY <1>6, <1>10, <1>11, <1>12 DEF IsUnder

\* What a row has for the payload.
PayloadOf(rows, i, c) == IF IsWild(CoreAt(rows, i, c)) THEN CoreAt(rows, i, c) ELSE CoreAt(rows, i, c).args[1]

\* A wildcard with a guard stands above no payload that is tested.
LEMMA WildBeforePayload ==
    ASSUME NEW rows, NEW occ, NEW c, AtColumn(rows, occ, c), NEW i \in 1..Len(rows), NEW j \in 1..Len(rows),
           IsWild(CoreAt(rows, i, c)), CoreAt(rows, j, c).p = "ctor", CoreAt(rows, j, c).args # <<>>,
           rows[i].arm <= rows[j].arm
    PROVE  ~rows[i].guard
<1> DEFINE p == CoreAt(rows, i, c)
           q == CoreAt(rows, j, c)
<1> SUFFICES ASSUME rows[i].guard PROVE FALSE
    OBVIOUS
<1>1. i # 1
    BY FirstKey
<1>2. Passes(p, q)
    BY <1>1, CoresTogether
<1>3. p \in Pats /\ q \in Pats
    <2>1. IsHead(rows, occ, c, i) /\ IsHead(rows, occ, c, j)
        BY ColumnHead
    <2> QED BY <2>1 DEF IsHead
<1>4. IsWild(p) /\ q.p = "ctor" /\ q.args # <<>>
    OBVIOUS
<1> HIDE DEF p, q
<1>5. <<<<>>, p>> \in Standing[p] /\ <<<<>>, q>> \in Standing[q]
    BY <1>3, StandsFirst
<1> DEFINE x == <<<<>>, p>>
           y == <<<<>>, q>>
<1>6. x[2] = p /\ y[2] = q /\ x[1] = y[1]
    OBVIOUS
<1>7. x \in Standing[p] /\ y \in Standing[q]
    BY <1>5
<1> HIDE DEF x, y
<1>8. IsWild(x[2]) /\ x[1] = y[1] => ~(y[2].p = "ctor" /\ y[2].args # <<>>)
    BY <1>2, <1>7 DEF Passes
<1> QED BY <1>4, <1>6, <1>8

\* One row under the key of a constructor with a payload.
IsPayloadRow(rows, occ, c, key, i) ==
    LET q == CoreAt(rows, i, c)
        x == PayloadOf(rows, i, c)
        step == EnumItem(key.tag)
        t == occ[c].type
        place == At(occ[c], step)
    IN  /\ SubPatterns(rows[i].pats[c], key) = <<x>>
        /\ Suits(x, place)
        /\ NoOr(q) => NoOr(x)
        /\ ~IsWild(q) => q.p = "ctor" /\ q.tag = key.tag /\ q.args # <<>> /\ 1 \in DOMAIN q.args
        /\ \A w \in Inhabitants[t] : w.tag = key.tag =>
            /\ Matches(rows[i].pats[c], w) <=> Matches(x, StepValue(w, step))

\* The place of the payload.
LEMMA PayloadType ==
    ASSUME NEW place \in Places, place.type \in TypeNames, Shape[place.type].kind = "ctor", NEW tag \in Tags(place.type),
           Len(Shape[place.type].parts[tag]) # 0, EnumItem(tag) \in Steps
    PROVE  LET sub == At(place, EnumItem(tag))
           IN  /\ sub \in Places /\ sub.type \in TypeNames
               /\ sub.type = StepType(place.type, EnumItem(tag))
               /\ \A w \in Inhabitants[place.type] : w.tag = tag => StepValue(w, EnumItem(tag)) \in Inhabitants[sub.type]
<1> DEFINE d == Shape[place.type].parts[tag]
           sub == At(place, EnumItem(tag))
<1>1. d \in Seq(TypeNames) /\ Len(d) <= 1
    BY TypeFacts, TreeAssumption
<1>2. 1 \in DOMAIN d /\ d[1] \in TypeNames
    <2>1. Len(d) # 0
        OBVIOUS
    <2> HIDE DEF d
    <2>2. Len(d) \in Nat
        BY <1>1
    <2> QED BY <1>1, <2>1, <2>2
<1>3. /\ StepType(place.type, EnumItem(tag)) = d[1]
      /\ \A w \in Inhabitants[place.type] : w.tag = tag =>
            StepValue(w, EnumItem(tag)) = w.parts[1] /\ w.parts[1] \in Inhabitants[d[1]]
    BY <1>2, PayloadPlace
<1>4. sub \in Places /\ sub.type = StepType(place.type, EnumItem(tag))
    BY AtIsPlace
<1> QED BY <1>2, <1>3, <1>4

LEMMA PayloadRow ==
    ASSUME NEW rows, NEW occ, NEW c, AtColumn(rows, occ, c), NEW key, IsKeyAt(rows, occ, c, key), KindAt(occ, c) = "ctor",
           Len(Shape[occ[c].type].parts[key.tag]) # 0, EnumItem(key.tag) \in Steps,
           NEW i \in 1..Len(rows), i \in Hits(rows, c, key)
    PROVE  IsPayloadRow(rows, occ, c, key, i)
<1> DEFINE pat == rows[i].pats[c]
           q == CoreAt(rows, i, c)
           x == PayloadOf(rows, i, c)
           step == EnumItem(key.tag)
           t == occ[c].type
           place == At(occ[c], step)
<1>1. IsHead(rows, occ, c, i)
    BY ColumnHead
<1>2. IsCtorHit(rows, occ, c, key, i)
    BY CtorHit
<1>3. /\ occ[c] \in Places /\ t \in TypeNames /\ q \in Pats /\ t \in TypesOf[q] /\ Fine(q)
      /\ \A w \in Inhabitants[t] : (Matches(pat, w) <=> Matches(q, w)) /\ (IsWild(q) => Matches(pat, w))
    BY <1>1 DEF IsHead
<1>4. /\ key.tag \in Tags(t) /\ Shape[t].kind = "ctor"
      /\ SubPatterns(pat, key) = IF IsWild(q) THEN <<q>> ELSE q.args
      /\ ~IsWild(q) => q.p = "ctor" /\ q.tag = key.tag /\ HasPayload(q, t)
    BY <1>2 DEF IsCtorHit
<1>5. /\ place \in Places /\ place.type \in TypeNames /\ place.type = StepType(t, step)
      /\ \A w \in Inhabitants[t] : w.tag = key.tag => StepValue(w, step) \in Inhabitants[place.type]
    BY <1>3, <1>4, PayloadType
<1>6. x = IF IsWild(q) THEN q ELSE q.args[1]
    BY DEF PayloadOf
<1> HIDE DEF q, x, place, step, pat
<1>7. CASE IsWild(q)
    <2>1. TypesOf[q] = TypeNames
        <3>1. TypesOf[q] = TypesBody(TypesOf, q)
            BY <1>3, TypesOfDef
        <3> QED BY <1>7, <3>1 DEF TypesBody
    <2>2. Suits(x, place)
        BY <1>3, <1>5, <1>6, <1>7, <2>1 DEF Suits
    <2>3. ASSUME NEW w \in Inhabitants[t], w.tag = key.tag
          PROVE  Matches(x, StepValue(w, step))
        <3>1. StepValue(w, step) \in AllValues
            BY <1>5, <2>3, TypeFacts
        <3>2. Matches(q, StepValue(w, step)) = MatchBody(Matching, q, StepValue(w, step))
            BY <1>3, <3>1, MatchesDef
        <3> QED BY <1>6, <1>7, <3>2 DEF MatchBody
    <2> QED BY <1>3, <1>4, <1>6, <1>7, <2>2, <2>3 DEF IsPayloadRow, q, x, place, step, pat
<1>8. CASE ~IsWild(q)
    <2>0. Len(Shape[t].parts[q.tag]) # 0 /\ q.tag = key.tag /\ q.p = "ctor" /\ HasPayload(q, t)
        BY <1>4, <1>8
    <2>1. q.args \in Seq(Pats) /\ q.args # <<>>
        <3>1. q.args \in Seq(Pats) /\ Len(q.args) # 0
            BY <2>0 DEF HasPayload
        <3> QED BY <3>1
    <2>2. /\ 1 \in DOMAIN q.args /\ Len(q.args) = 1
          /\ q.args[1] \in Pats /\ q.args[1] \in Within[q]
          /\ StepType(t, step) \in TypesOf[q.args[1]]
          /\ \A w \in Inhabitants[t] : w.tag = key.tag => (Matches(q, w) <=> Matches(q.args[1], StepValue(w, step)))
        BY <2>0, <2>1 DEF HasPayload, step
    <2>3. q.args = <<x>>
        <3> DEFINE s == q.args
        <3>1. s \in Seq(Pats) /\ Len(s) = 1 /\ s[1] = x
            BY <1>6, <1>8, <2>1, <2>2
        <3> HIDE DEF s
        <3>2. s = <<x>>
            BY <3>1
        <3> QED BY <3>2 DEF s
    <2>4. Fine(x) /\ (NoOr(q) => NoOr(x))
        BY <1>3, <1>6, <1>8, <2>2, FineWithin DEF Fine
    <2>5. Suits(x, place)
        BY <1>5, <1>6, <1>8, <2>2, <2>4 DEF Suits
    <2> HIDE DEF t
    <2>6. \A w \in Inhabitants[t] : w.tag = key.tag => (Matches(pat, w) <=> Matches(x, StepValue(w, step)))
        BY <1>3, <1>6, <1>8, <2>2
    <2> QED BY <1>4, <1>8, <2>0, <2>1, <2>2, <2>3, <2>4, <2>5, <2>6 DEF IsPayloadRow, q, x, place, step, pat, t
<1> QED BY <1>7, <1>8

LEMMA SingleSeq ==
    ASSUME NEW A, NEW x \in A
    PROVE  <<x>> \in Seq(A) /\ Len(<<x>>) = 1 /\ <<x>>[1] = x /\ <<x>> # <<>>
OBVIOUS

LEMMA PayloadUnder ==
    ASSUME NEW rows, NEW occ, NEW c, AtColumn(rows, occ, c), NEW key, IsKeyAt(rows, occ, c, key), KindAt(occ, c) = "ctor",
           Len(Shape[occ[c].type].parts[key.tag]) # 0,
           ~IsWild(CoreAt(rows, Min(Hits(rows, c, key)), c))
    PROVE  IsUnder(rows, occ, c, key)
<1> DEFINE S == SpecializedRows(rows, c, key)
           P == SpecializedPlaces(rows, occ, c, key)
           K == Hits(rows, c, key)
           g == Into(rows, c, key)
           o == Min(K)
           t == occ[c].type
           step == EnumItem(key.tag)
           place == At(occ[c], step)
           places == <<place>>
<1>1. S \in Seq(MatrixRows) /\ HasKept(K, g, S) /\ SameArms(K, g, rows)
    BY IntoRows
<1>2. IsSingle(rows, occ, c, key)
    BY SingleFacts
<1>3. /\ o \in K /\ K \in SUBSET (1..Len(rows))
      /\ \A i \in K : g[i].pats = SubPatterns(rows[i].pats[c], key) /\ g[i].pats \in Seq(Pats)
      /\ P = SubPlaces(rows[o].pats[c], occ[c])
      /\ \A i \in 1..Len(rows) : \A v : FitsAt(rows[i], occ, v) <=> Matches(rows[i].pats[c], ValueAt(occ[c], v))
    BY <1>2 DEF IsSingle
<1>4. IsGood(rows, occ) /\ c \in 1..Len(occ) /\ occ \in Seq(Places) /\ occ[c] \in Places
    BY GoodFacts DEF AtColumn
<1>5. CoreAt(rows, o, c).p = "ctor" /\ CoreAt(rows, o, c).tag = key.tag /\ HasPayload(CoreAt(rows, o, c), t)
      /\ CoreAt(rows, o, c) \in Pats /\ t \in TypeNames /\ Shape[t].kind = "ctor" /\ key.tag \in Tags(t)
    <2>1. o \in 1..Len(rows)
        BY <1>3
    <2>2. IsHead(rows, occ, c, o) /\ IsCtorHit(rows, occ, c, key, o)
        BY <1>3, <2>1, ColumnHead, CtorHit
    <2> QED BY <2>2 DEF IsHead, IsCtorHit
<1>6. CoreAt(rows, o, c).args # <<>> /\ 1 \in DOMAIN CoreAt(rows, o, c).args
    <2> DEFINE q == CoreAt(rows, o, c)
    <2>0. Len(Shape[t].parts[key.tag]) # 0
        OBVIOUS
    <2> HIDE DEF q, t
    <2>1. q.args \in Seq(Pats) /\ Len(q.args) # 0
        BY <1>5, <2>0 DEF HasPayload, q
    <2>2. q.args # <<>>
        BY <2>1
    <2>3. HasPayload(q, t)
        BY <1>5 DEF q
    <2> QED BY <2>2, <2>3 DEF HasPayload, q
<1>7. step \in Steps
    <2>1. HasParts(CoreAt(rows, o, c))
        BY <1>5 DEF HasParts
    <2>2. EnumItem(CoreAt(rows, o, c).tag) \in Steps
        BY <1>5, <1>6, <2>1, StepFacts
    <2> QED BY <1>5, <2>2
<1>8. P = places
    <2> DEFINE q == CoreAt(rows, o, c)
    <2>1. SubPlaces(rows[o].pats[c], occ[c]) =
            IF ~HasParts(q) \/ q.args = <<>> THEN <<>>
            ELSE IF q.p = "ctor" THEN <<At(occ[c], EnumItem(q.tag))>>
            ELSE [i \in DOMAIN q.args |-> At(occ[c], Field(PartOf(q, i)))]
        BY DEF SubPlaces, CoreAt
    <2>2. HasParts(q)
        BY <1>5 DEF HasParts
    <2> HIDE DEF q
    <2>3. q.args # <<>> /\ q.p = "ctor" /\ q.tag = key.tag
        BY <1>5, <1>6 DEF q
    <2> QED BY <1>3, <2>1, <2>2, <2>3
<1>9. /\ place \in Places /\ place.type \in TypeNames /\ place.type = StepType(t, step)
      /\ \A w \in Inhabitants[t] : w.tag = key.tag => StepValue(w, step) \in Inhabitants[place.type]
    BY <1>4, <1>5, <1>7, PayloadType
<1>10. places \in Seq(Places) /\ Len(places) = 1 /\ places[1] = place /\ places # <<>>
    <2> HIDE DEF place
    <2> QED BY <1>9, SingleSeq
<1>11. \A i \in K : i \in 1..Len(rows) /\ IsPayloadRow(rows, occ, c, key, i)
    BY <1>3, <1>7, PayloadRow
<1> DEFINE x(i) == PayloadOf(rows, i, c)
<1>12. ASSUME NEW i \in K
       PROVE  /\ Suits(x(i), place) /\ x(i) \in Pats
              /\ g[i].pats = <<x(i)>> /\ Len(g[i].pats) = 1 /\ g[i].pats[1] = x(i)
    <2>1. Suits(x(i), place) /\ g[i].pats = <<x(i)>>
        BY <1>3, <1>11 DEF IsPayloadRow
    <2>2. x(i) \in Pats
        BY <2>1 DEF Suits
    <2> HIDE DEF x, place
    <2> QED BY <2>1, <2>2, SingleSeq
<1> HIDE DEF places
<1>13. RowsAllSuit(K, g, places)
    <2>1. \A k \in 1..1 : k = 1
        OBVIOUS
    <2> SUFFICES ASSUME NEW i \in K PROVE RowSuits(g[i], places)
        BY DEF RowsAllSuit
    <2> HIDE DEF x, place, K, g
    <2> QED BY <1>10, <1>12, <2>1 DEF RowSuits
<1>14. RowsTogether(K, g, rows, places)
    <2> SUFFICES ASSUME NEW i \in K, NEW j \in K
                 PROVE  /\ ApartAlike(x(i), x(j))
                        /\ rows[i].guard /\ rows[i].arm <= rows[j].arm /\ ~(i = 1 /\ NoOr(x(i)))
                            => Passes(x(i), x(j))
        <3>1. \A k \in 1..Len(places) : k = 1
            BY <1>10
        <3> HIDE DEF x
        <3> QED BY <1>12, <3>1 DEF RowsTogether
    <2> DEFINE p == CoreAt(rows, i, c)
               q == CoreAt(rows, j, c)
    <2>0. i \in 1..Len(rows) /\ j \in 1..Len(rows)
        BY <1>3
    <2>1. /\ NoOr(p) => NoOr(x(i))
          /\ ~IsWild(p) => p.p = "ctor" /\ p.tag = key.tag /\ p.args # <<>> /\ 1 \in DOMAIN p.args
          /\ ~IsWild(q) => q.p = "ctor" /\ q.tag = key.tag /\ q.args # <<>> /\ 1 \in DOMAIN q.args
        BY <1>11 DEF IsPayloadRow
    <2>2. /\ ApartAlike(p, q)
          /\ rows[i].guard /\ rows[i].arm <= rows[j].arm /\ ~(i = 1 /\ NoOr(p)) => Passes(p, q)
        BY <2>0, CoresTogether
    <2>3. p \in Pats /\ q \in Pats
        <3>1. IsHead(rows, occ, c, i) /\ IsHead(rows, occ, c, j)
            BY <2>0, ColumnHead
        <3> QED BY <3>1 DEF IsHead
    <2>4. /\ x(i) = IF IsWild(p) THEN p ELSE p.args[1]
          /\ x(j) = IF IsWild(q) THEN q ELSE q.args[1]
        BY DEF PayloadOf
    <2>5. IsWild(p) /\ ~IsWild(q) /\ rows[i].arm <= rows[j].arm => ~rows[i].guard
        BY <2>0, <2>1, WildBeforePayload
    <2>6. x(i) \in Pats /\ x(j) \in Pats
        BY <1>12
    <2> HIDE DEF p, q, x
    <2>7. CASE IsWild(q)
        BY <2>3, <2>4, <2>6, <2>7, WildApart
    <2>8. CASE IsWild(p) /\ ~IsWild(q)
        <3>1. ApartAlike(p, q.args[1])
            BY <2>1, <2>2, <2>3, <2>8, WildApart
        <3> QED BY <2>4, <2>5, <2>8, <3>1
    <2>9. CASE ~IsWild(p) /\ ~IsWild(q)
        <3>1. /\ ApartAlike(p, q) => ApartAlike(p.args[1], q.args[1])
              /\ Passes(p, q) => Passes(p.args[1], q.args[1])
            BY <2>1, <2>3, <2>9, PayloadApart
        <3> QED BY <2>1, <2>2, <2>4, <2>9, <3>1
    <2> QED BY <2>7, <2>8, <2>9
<1>15. IsGood(S, places)
    <2>1. ~(Len(places) >= 2)
        BY <1>10
    <2> HIDE DEF S, K, g
    <2> QED BY <1>1, <1>4, <1>10, <1>13, <1>14, <2>1, KeptGood
<1>16. ASSUME NEW v \in AllValues, PlacesHold(occ, v), ValueAt(occ[c], v).tag = key.tag
       PROVE  KeepsFit(K, g, places, rows, occ, v)
    <2> DEFINE w == ValueAt(occ[c], v)
    <2>1. w \in Inhabitants[t] /\ w.tag = key.tag
        BY <1>4, <1>16 DEF PlacesHold
    <2>2. ValueAt(place, v) = StepValue(w, step)
        BY <1>4, <1>7, ValueAtFacts DEF Readable
    <2> HIDE DEF w
    <2>3. StepValue(w, step) \in Inhabitants[place.type]
        BY <1>9, <2>1
    <2>4. PlacesHold(places, v)
        <3>1. \A k \in 1..Len(places) : places[k] = place
            BY <1>10
        <3> HIDE DEF place
        <3> QED BY <2>2, <2>3, <3>1 DEF PlacesHold
    <2>5. ASSUME NEW i \in K
          PROVE  FitsAt(g[i], places, v) <=> Matches(rows[i].pats[c], w)
        <3>1. Matches(rows[i].pats[c], w) <=> Matches(x(i), StepValue(w, step))
            BY <1>11, <2>1 DEF IsPayloadRow
        <3>2. FitsAt(g[i], places, v) <=> Matches(x(i), ValueAt(place, v))
            <4>1. \A k : k \in 1..Len(places) <=> k = 1
                BY <1>10
            <4> HIDE DEF place, x, K, g
            <4> QED BY <1>10, <1>12, <4>1 DEF FitsAt
        <3> QED BY <2>2, <3>1, <3>2
    <2>6. ASSUME NEW i \in 1..Len(rows), Matches(rows[i].pats[c], w)
          PROVE  i \in K
        BY <2>1, <2>6, HitMatches
    <2>7. \A i \in 1..Len(rows) : FitsAt(rows[i], occ, v) <=> Matches(rows[i].pats[c], w)
        BY <1>3 DEF w
    <2> HIDE DEF K, g
    <2> QED BY <1>3, <2>4, <2>5, <2>6, <2>7 DEF KeepsFit
<1>17. IsBelow(rows, occ, c, key)
    <2>0. key.p # "lit" /\ Len(P) = 1 /\ P[1] = place /\ \A k \in 1..Len(P) : k = 1
        BY <1>8, <1>10 DEF IsKeyAt
    <2>1. ASSUME NEW i \in K, ~IsWild(CoreAt(rows, i, c))
          PROVE  LET q == CoreAt(rows, i, c)
                 IN  /\ HasParts(q) /\ g[i].pats = q.args /\ Len(q.args) = Len(P)
                     /\ 1 \in DOMAIN q.args /\ StepTo(q, 1) = step
        <3> DEFINE q == CoreAt(rows, i, c)
        <3>1. q.p = "ctor" /\ q.tag = key.tag /\ q.args # <<>> /\ 1 \in DOMAIN q.args
            BY <1>11, <2>1 DEF IsPayloadRow
        <3>2. IsCtorHit(rows, occ, c, key, i)
            BY <1>3, CtorHit
        <3>3. SubPatterns(rows[i].pats[c], key) = q.args /\ HasPayload(q, t)
            BY <2>1, <3>2 DEF IsCtorHit
        <3>4. g[i].pats = q.args
            BY <1>3, <3>3
        <3> HIDE DEF q, K, g, P, t
        <3>5. Len(q.args) = 1
            BY <3>1, <3>3 DEF HasPayload
        <3>6. HasParts(q) /\ StepTo(q, 1) = step
            BY <3>1 DEF HasParts, StepTo, EnumItem
        <3> QED BY <2>0, <3>1, <3>4, <3>5, <3>6 DEF q
    <2>2. \A i \in K : IsWild(CoreAt(rows, i, c)) => g[i].pats = <<CoreAt(rows, i, c)>>
        BY <1>12 DEF PayloadOf
    <2> HIDE DEF step
    <2> QED BY <1>7, <2>0, <2>1, <2>2 DEF IsBelow
<1> QED BY <1>8, <1>15, <1>16, <1>17 DEF IsUnder

\* A wildcard stands above a payload: under the key its row is all there is.
IsSettled(rows, occ, c, key) ==
    LET S == SpecializedRows(rows, c, key)
        o == Min(Hits(rows, c, key))
    IN  /\ SpecializedPlaces(rows, occ, c, key) = <<>>
        /\ S \in Seq(MatrixRows) /\ S # <<>>
        /\ o \in Hits(rows, c, key) /\ \A i \in Hits(rows, c, key) : o <= i
        /\ o \in 1..Len(rows)
        /\ S[1].arm = rows[o].arm /\ ~S[1].guard
        /\ \E q \in Pats : IsWild(q) /\ S[1].pats = <<q>>
        /\ IsWild(CoreAt(rows, o, c))

LEMMA SettledUnder ==
    ASSUME NEW rows, NEW occ, NEW c, AtColumn(rows, occ, c), NEW key, IsKeyAt(rows, occ, c, key), KindAt(occ, c) = "ctor",
           Len(Shape[occ[c].type].parts[key.tag]) # 0,
           IsWild(CoreAt(rows, Min(Hits(rows, c, key)), c))
    PROVE  IsSettled(rows, occ, c, key)
<1> DEFINE S == SpecializedRows(rows, c, key)
           P == SpecializedPlaces(rows, occ, c, key)
           K == Hits(rows, c, key)
           g == Into(rows, c, key)
           o == Min(K)
           t == occ[c].type
           q == CoreAt(rows, o, c)
<1>1. S \in Seq(MatrixRows) /\ HasKept(K, g, S) /\ SameArms(K, g, rows)
    BY IntoRows
<1>2. IsSingle(rows, occ, c, key)
    BY SingleFacts
<1>3. /\ o \in K /\ K \in SUBSET (1..Len(rows)) /\ \A i \in K : o <= i
      /\ \A i \in K : g[i].pats = SubPatterns(rows[i].pats[c], key)
      /\ P = SubPlaces(rows[o].pats[c], occ[c])
    BY <1>2 DEF IsSingle
<1>4. IsGood(rows, occ) /\ Len(rows) \in Nat /\ InOrder(rows) /\ \A i \in 1..Len(rows) : rows[i].arm \in Nat
    BY GoodFacts DEF AtColumn, IsGood
<1>5. q \in Pats /\ IsWild(q) /\ g[o].pats = <<q>>
    <2>1. o \in 1..Len(rows)
        BY <1>3
    <2>2. IsHead(rows, occ, c, o) /\ IsCtorHit(rows, occ, c, key, o)
        BY <1>3, <2>1, ColumnHead, CtorHit
    <2>3. SubPatterns(rows[o].pats[c], key) = <<q>> /\ q \in Pats
        BY <2>2 DEF IsHead, IsCtorHit
    <2> QED BY <1>3, <2>3
<1>6. P = <<>>
    <2>1. ~HasParts(Core[rows[o].pats[c]])
        BY <1>5 DEF CoreAt, IsWild, HasParts
    <2> QED BY <1>3, <2>1 DEF SubPlaces
<1>7. ~rows[o].guard
    <2>1. PICK j \in 1..Len(rows) : ~IsWild(CoreAt(rows, j, c)) /\ j \in K
        BY DEF IsKeyAt
    <2>2. IsCtorHit(rows, occ, c, key, j)
        BY <2>1, CtorHit
    <2> DEFINE p == CoreAt(rows, j, c)
    <2>3. p.p = "ctor" /\ p.tag = key.tag /\ HasPayload(p, t)
        BY <2>1, <2>2 DEF IsCtorHit
    <2>4. p.args # <<>>
        <3>1. Len(Shape[t].parts[key.tag]) # 0
            OBVIOUS
        <3> HIDE DEF p, t
        <3>2. p.args \in Seq(Pats) /\ Len(p.args) # 0
            BY <2>3, <3>1 DEF HasPayload
        <3> QED BY <3>2
    <2>5. rows[o].arm <= rows[j].arm
        <3>1. o \in 1..Len(rows) /\ o <= j
            BY <1>3, <2>1
        <3> HIDE DEF o, K
        <3>2. CASE o = j
            BY <1>4, <2>1, <3>2
        <3>3. CASE o < j
            BY <1>4, <2>1, <3>1, <3>3 DEF InOrder
        <3> QED BY <1>4, <2>1, <3>1, <3>2, <3>3
    <2>6. o \in 1..Len(rows)
        BY <1>3
    <2> QED BY <2>1, <2>3, <2>4, <2>5, <2>6, WildBeforePayload
<1>8. S # <<>> /\ S[1] = g[o]
    <2>1. PICK r : IsKept(r, K, g, S)
        BY <1>1 DEF HasKept
    <2>2. Len(S) \in Nat
        BY <1>1
    <2> HIDE DEF S, K, g, o
    <2>3. PICK k \in 1..Len(S) : r[k] = o
        BY <1>3, <2>1 DEF IsKept
    <2>4. 1 \in 1..Len(S)
        BY <2>2, <2>3
    <2>5. r[1] \in K /\ S[1] = g[r[1]]
        BY <2>1, <2>4 DEF IsKept
    <2>6. k = 1
        <3> SUFFICES ASSUME k # 1 PROVE FALSE
            OBVIOUS
        <3>1. 1 < k
            BY <2>2, <2>3
        <3>2. r[1] < r[k]
            BY <2>1, <2>3, <2>4, <3>1 DEF IsKept
        <3>3. o <= r[1] /\ r[1] < o
            BY <1>3, <2>3, <2>5, <3>2
        <3>4. o \in Int /\ r[1] \in Int
            <4>1. K \in SUBSET (1..Len(rows)) /\ o \in K /\ r[1] \in K
                BY <1>3, <2>5
            <4>2. \A x \in K : x \in 1..Len(rows)
                BY <4>1
            <4>3. \A x \in 1..Len(rows) : x \in Int
                BY <1>4
            <4> QED BY <4>1, <4>2, <4>3
        <3> DEFINE m == r[1]
        <3>5. o <= m /\ m < o /\ m \in Int
            BY <3>3, <3>4
        <3> HIDE DEF m
        <3> QED BY <3>4, <3>5
    <2>7. S # <<>>
        BY <2>2, <2>4
    <2> QED BY <2>3, <2>5, <2>6, <2>7
<1>9. g[o].arm = rows[o].arm /\ g[o].guard = rows[o].guard /\ o \in 1..Len(rows)
    BY <1>1, <1>3 DEF SameArms
<1>10. \E x \in Pats : IsWild(x) /\ S[1].pats = <<x>>
    BY <1>5, <1>8
<1> QED BY <1>1, <1>3, <1>5, <1>6, <1>7, <1>8, <1>9, <1>10 DEF IsSettled

LEMMA SettledCompiles ==
    ASSUME NEW rows, NEW occ, NEW c, NEW key, IsSettled(rows, occ, c, key)
    PROVE  LET nd == Compile[<<SpecializedRows(rows, c, key), SpecializedPlaces(rows, occ, c, key)>>]
           IN  nd.n = "arm" /\ nd.arm = rows[Min(Hits(rows, c, key))].arm /\ DOMAIN nd.binds = {}
<1> DEFINE S == SpecializedRows(rows, c, key)
           P == SpecializedPlaces(rows, occ, c, key)
           a == rows[Min(Hits(rows, c, key))].arm
           E == Expanded(S)
<1>1. /\ P = <<>> /\ S \in Seq(MatrixRows) /\ S # <<>> /\ S[1].arm = a /\ ~S[1].guard
      /\ \E q \in Pats : IsWild(q) /\ S[1].pats = <<q>>
    BY DEF IsSettled
<1>2. PICK q \in Pats : IsWild(q) /\ S[1].pats = <<q>>
    BY <1>1
<1> HIDE DEF S, P, a
<1>3. S[1] \in MatrixRows /\ 1 \in 1..Len(S) /\ Len(S) \in Nat
    BY <1>1
<1>4. E # <<>> /\ E[1].arm = a /\ ~E[1].guard /\ E[1].pats = <<q>> /\ E \in Seq(MatrixRows)
    <2>1. E \in Seq(MatrixRows) /\ \E r, k : IsExpansion(r, k, S)
        BY <1>1, ExpandedFacts
    <2>2. PICK r, k : IsExpansion(r, k, S)
        BY <2>1
    <2>3. Len(Expand(S[1])) = 1 /\ Expand(S[1])[1].pats = S[1].pats
        <3>1. <<q>>[1] = q /\ q.p # "or"
            BY <1>2 DEF IsWild
        <3>2. S[1].pats[1].p # "or"
            BY <1>2, <3>1
        <3> QED BY <1>3, <3>2, ExpandedAll
    <2>4. Expand(S[1])[1].arm = S[1].arm /\ Expand(S[1])[1].guard = S[1].guard
        <3>1. 1 \in 1..Len(Expand(S[1]))
            BY <2>3
        <3> DEFINE n == Len(S[1].pats)
        <3>2. n = Len(S[1].pats)
            OBVIOUS
        <3> HIDE DEF n
        <3> QED BY <1>3, <3>1, <3>2, ExpandedRow
    <2>5. PICK m \in 1..Len(E) : r[m] = 1
        <3>1. 1 \in 1..Len(Expand(S[1]))
            BY <2>3
        <3> QED BY <1>3, <2>2, <3>1 DEF IsExpansion
    <2>6. Len(E) \in Nat
        BY <2>1
    <2>7. 1 \in 1..Len(E) /\ 1 <= m
        BY <2>5, <2>6
    <2>8. r[1] \in 1..Len(S) /\ k[1] \in 1..Len(Expand(S[r[1]])) /\ E[1] = Expand(S[r[1]])[k[1]]
        BY <2>2, <2>7 DEF IsExpansion
    <2>9. r[1] = 1
        <3>1. CASE m = 1
            BY <2>5, <3>1
        <3>2. CASE 1 < m
            <4>1. r[1] <= r[m]
                BY <2>2, <2>5, <2>7, <3>2 DEF IsExpansion
            <4> QED BY <1>3, <2>5, <2>8, <4>1
        <3> QED BY <2>5, <2>6, <2>7, <3>1, <3>2
    <2>10. k[1] = 1
        <3> DEFINE x == k[1]
        <3>1. x \in 1..Len(Expand(S[1]))
            BY <2>8, <2>9
        <3> HIDE DEF x
        <3>2. x = 1
            BY <2>3, <3>1
        <3> QED BY <3>2 DEF x
    <2>11. E[1] = Expand(S[1])[1]
        BY <2>8, <2>9, <2>10
    <2>12. E # <<>>
        <3> HIDE DEF E
        <3> QED BY <2>6, <2>7
    <2> QED BY <1>1, <1>2, <2>1, <2>3, <2>4, <2>11, <2>12
<1>5. AllWild(E[1].pats)
    <2>1. AnyAlias(q)
        BY <1>2, WildCore DEF IsPlain, IsWild
    <2> DEFINE s == <<q>>
    <2>2. DOMAIN s = {1} /\ s[1] = q
        OBVIOUS
    <2>3. E[1].pats = s
        BY <1>4
    <2> HIDE DEF s, E
    <2> QED BY <2>1, <2>2, <2>3 DEF AllWild
<1> DEFINE nd == Compile[<<S, P>>]
<1>6. nd = WildBody(FailOf(Compile, E, <<>>), E, <<>>)
    <2>1. IsMatrix(S, P)
        <3>1. <<>> \in Seq(Places)
            BY EmptySeq
        <3> QED BY <1>1, <3>1 DEF IsMatrix
    <2>2. <<S, P>> \in Matrices
        BY <2>1, WeighIs
    <2>3. nd = CompileBody(Compile, <<S, P>>)
        BY <2>2, CompileDef
    <2>4. CompileBody(Compile, <<S, P>>) = MatrixNode(Compile, E, <<>>)
        BY <1>1 DEF CompileBody
    <2> HIDE DEF E, nd
    <2>5. MatrixNode(Compile, E, <<>>) = WildNode(Compile, E, <<>>)
        BY <1>4, <1>5 DEF MatrixNode
    <2> QED BY <2>3, <2>4, <2>5, WildNodeIs
<1>7. 1..Min({Len(E[1].pats), Len(<<>>)}) = {}
    <2>1. Len(E[1].pats) = 1
        BY <1>4
    <2>2. Len(<<>>) = 0
        OBVIOUS
    <2> DEFINE T == {1, 0}
    <2>3. T \in SUBSET Nat /\ T # {} /\ 0 \in T
        OBVIOUS
    <2>4. T = {Len(E[1].pats), Len(<<>>)}
        BY <2>1, <2>2
    <2>5. Min(T) \in T /\ \A k \in T : Min(T) <= k
        <3> HIDE DEF T
        <3> QED BY <2>3, MinFacts
    <2>6. Min(T) = 0
        BY <2>3, <2>5
    <2>7. 1..0 = {}
        OBVIOUS
    <2> HIDE DEF T, E
    <2> QED BY <2>4, <2>6, <2>7
<1> HIDE DEF E, nd
<1>8. nd = ArmNode(E[1].arm, BindsOf(E, <<>>))
    BY <1>4, <1>6, <1>7 DEF WildBody
<1>9. nd.n = "arm" /\ nd.arm = a
    BY <1>4, <1>8 DEF ArmNode
<1>10. DOMAIN BindsOf(E, <<>>) = {}
    <2> DEFINE T == 1..Min({Len(E[1].pats), Len(<<>>)})
               ss == [i \in T |-> BoundBy[<<E[1].pats[i], <<>>[i]>>]]
    <2>1. T = {}
        BY <1>7
    <2> HIDE DEF T
    <2>2. ss \in [1..0 -> Seq(Pats)]
        <3>1. 1..0 = {}
            OBVIOUS
        <3> QED BY <2>1, <3>1
    <2> HIDE DEF ss
    <2>3. FlattenSeq(ss) \in Seq(Pats) /\ Elements(FlattenSeq(ss)) = UNION {Elements(ss[i]) : i \in 1..0}
        BY <2>2, FlattenedElements
    <2> DEFINE bound == FlattenSeq(ss)
    <2> HIDE DEF bound
    <2>4. DOMAIN bound = {}
        <3>1. 1..0 = {}
            OBVIOUS
        <3>2. Elements(bound) = {}
            BY <2>3, <3>1 DEF bound
        <3>3. DOMAIN bound = 1..Len(bound)
            BY <2>3 DEF bound
        <3> QED BY <3>2, <3>3 DEF Elements
    <2>5. BindsOf(E, <<>>) = OfArm(E[1].arm, bound)
        BY DEF BindsOf, bound, ss, T
    <2> QED BY <2>4, <2>5 DEF OfArm
<1>11. nd.binds = BindsOf(E, <<>>)
    BY <1>8 DEF ArmNode
<1> QED BY <1>9, <1>10, <1>11 DEF nd, S, P, a

\* A tuple or struct and its elements, below a place.
HasFields(q, place) ==
    /\ q.args \in Seq(Pats) /\ q.args # <<>>
    /\ \A k \in DOMAIN q.args :
        LET sub == At(place, Field(PartOf(q, k)))
        IN  /\ Field(PartOf(q, k)) \in Steps /\ sub \in Places
            /\ IsPlain(q.args[k]) /\ Suits(q.args[k], sub)
            /\ \A w \in Inhabitants[place.type] : StepValue(w, Field(PartOf(q, k))) \in Inhabitants[sub.type]
    /\ \A w \in Inhabitants[place.type] :
        Matches(q, w) <=> \A k \in DOMAIN q.args : Matches(q.args[k], StepValue(w, Field(PartOf(q, k))))

LEMMA FieldFacts ==
    ASSUME NEW q \in Pats, IsRecord(q), Fine(q), NEW place \in Places, place.type \in TypeNames, place.type \in TypesOf[q]
    PROVE  HasFields(q, place)
<1> DEFINE t == place.type
           d == Shape[t].parts[q.tag]
           args == q.args
<1>1. /\ Shape[t].kind = q.p /\ q.tag \in Tags(t)
      /\ \A i \in DOMAIN args : PartOf(q, i) \in DOMAIN d /\ d[PartOf(q, i)] \in TypesOf[args[i]]
    <2>1. TypesOf[q] = TypesBody(TypesOf, q)
        BY TypesOfDef
    <2>2. q.p \in {"tuple", "struct"}
        BY DEF IsRecord
    <2> QED BY <2>1, <2>2 DEF TypesBody, IsWild
<1>2. HasParts(q) /\ args \in Seq(Pats) /\ Shape[t].kind \in {"tuple", "struct"}
    BY <1>1, PatternParts DEF HasParts, IsRecord
<1>3. args # <<>> /\ \A i \in DOMAIN args : IsPlain(args[i])
    <2>1. q \in Within[q]
        BY WithinFacts
    <2> QED BY <2>1 DEF Fine, ElementsPlain
<1>4. ASSUME NEW k \in DOMAIN args
      PROVE  LET sub == At(place, Field(PartOf(q, k)))
             IN  /\ Field(PartOf(q, k)) \in Steps /\ sub \in Places
                 /\ IsPlain(args[k]) /\ Suits(args[k], sub)
                 /\ \A w \in Inhabitants[t] :
                        /\ StepValue(w, Field(PartOf(q, k))) \in Inhabitants[sub.type]
                        /\ StepValue(w, Field(PartOf(q, k))) = w.parts[PartOf(q, k)]
    <2> DEFINE f == PartOf(q, k)
               sub == At(place, Field(f))
    <2>1. Field(f) \in Steps
        BY <1>2, StepFacts
    <2>2. f \in DOMAIN d /\ d[f] \in TypesOf[args[k]] /\ q.tag \in Tags(t)
        BY <1>1
    <2>3. /\ StepType(t, Field(f)) = d[f]
          /\ \A w \in Inhabitants[t] : StepValue(w, Field(f)) = w.parts[f] /\ w.parts[f] \in Inhabitants[d[f]]
        <3> HIDE DEF f
        <3> QED BY <1>2, <2>2, FieldPlace
    <2>4. sub \in Places /\ sub.type = StepType(t, Field(f))
        BY <2>1, AtIsPlace
    <2>5. args[k] \in Pats /\ IsPlain(args[k])
        BY <1>2, <1>3, PatternParts
    <2>6. Fine(args[k])
        BY <2>5, PlainIs
    <2>7. Suits(args[k], sub)
        BY <2>2, <2>3, <2>4, <2>5, <2>6 DEF Suits
    <2> QED BY <2>1, <2>3, <2>4, <2>5, <2>7
<1>5. ASSUME NEW w \in Inhabitants[t]
      PROVE  Matches(q, w) <=> \A k \in DOMAIN args : Matches(args[k], StepValue(w, Field(PartOf(q, k))))
    <2>1. w \in AllValues /\ w.tag = q.tag /\ DOMAIN w.parts = DOMAIN d
        BY <1>1, <1>2, TypeFacts
    <2>2. Matches(q, w) = MatchBody(Matching, q, w)
        BY <2>1, MatchesDef
    <2>3. q.p \in {"tuple", "struct"}
        BY DEF IsRecord
    <2>4. Matches(q, w) <=> \A k \in DOMAIN args : PartOf(q, k) \in DOMAIN w.parts /\ Matching[<<args[k], w.parts[PartOf(q, k)]>>]
        BY <1>2, <2>1, <2>2, <2>3 DEF MatchBody, IsWild
    <2>5. \A k \in DOMAIN args : PartOf(q, k) \in DOMAIN w.parts /\ StepValue(w, Field(PartOf(q, k))) = w.parts[PartOf(q, k)]
        BY <1>1, <1>4, <2>1
    <2> HIDE DEF args, d
    <2> QED BY <2>4, <2>5 DEF Matches
<1> QED BY <1>2, <1>3, <1>4, <1>5 DEF HasFields

\* All rows list the fields that the first row does.
LEMMA SameFields ==
    ASSUME NEW rows, NEW occ, NEW c, AtColumn(rows, occ, c), KindAt(occ, c) \in {"tuple", "struct"},
           NEW i \in 1..Len(rows), NEW j \in 1..Len(rows)
    PROVE  LET p == CoreAt(rows, i, c)
               q == CoreAt(rows, j, c)
           IN  /\ IsRecord(p) /\ ~IsWild(p) /\ p \in Pats /\ HasFields(p, occ[c])
               /\ DOMAIN p.args = DOMAIN q.args /\ \A k \in DOMAIN p.args : PartOf(p, k) = PartOf(q, k)
<1>0. 1 \in 1..Len(rows) /\ ~IsWild(CoreAt(rows, 1, c))
    BY FirstKey
<1>1. ASSUME NEW a \in 1..Len(rows), NEW b \in 1..Len(rows)
      PROVE  /\ CoreAt(rows, a, c) \in Pats /\ CoreAt(rows, b, c) \in Pats
             /\ ApartAlike(CoreAt(rows, a, c), CoreAt(rows, b, c))
             /\ ~IsWild(CoreAt(rows, a, c)) => IsRecord(CoreAt(rows, a, c))
             /\ ~IsWild(CoreAt(rows, b, c)) => IsRecord(CoreAt(rows, b, c))
    <2>1. IsHead(rows, occ, c, a) /\ IsHead(rows, occ, c, b)
        BY ColumnHead
    <2>2. ApartAlike(CoreAt(rows, a, c), CoreAt(rows, b, c))
        BY CoresTogether
    <2> QED BY <2>1, <2>2 DEF IsHead, IsRecord
<1>2. ASSUME NEW p \in Pats, NEW q \in Pats, ApartAlike(p, q)
      PROVE  /\ IsRecord(q) => ~IsWild(p)
             /\ IsRecord(p) /\ IsRecord(q) =>
                    [k \in DOMAIN p.args |-> PartOf(p, k)] = [k \in DOMAIN q.args |-> PartOf(q, k)]
    <2> DEFINE x == <<<<>>, p>>
               y == <<<<>>, q>>
    <2>1. x \in Standing[p] /\ y \in Standing[q]
        BY StandsFirst
    <2>2. x[1] = <<>> /\ y[1] = <<>> /\ x[2] = p /\ y[2] = q
        OBVIOUS
    <2>3. IsPrefix(x[1], y[1])
        <3>1. <<>> \in Seq(Steps)
            BY EmptySeq
        <3>2. IsPrefix(<<>>, <<>>)
            <4> DEFINE e == <<>>
            <4>1. e \in Seq(Steps)
                BY <3>1
            <4>3. Field(0) \in Steps
                BY DEF Field, Steps
            <4> HIDE DEF e
            <4>2. IsPrefix(<<>>, e)
                BY <4>1, <4>3, PrefixFacts
            <4> QED BY <4>2 DEF e
        <3> QED BY <2>2, <3>2
    <2> HIDE DEF x, y
    <2>4. /\ IsRecord(y[2]) /\ IsPrefix(x[1], y[1]) => ~IsWild(x[2])
          /\ IsRecord(x[2]) /\ IsRecord(y[2]) /\ x[1] = y[1] =>
               [k \in DOMAIN x[2].args |-> PartOf(x[2], k)] = [k \in DOMAIN y[2].args |-> PartOf(y[2], k)]
        BY <1>2, <2>1 DEF ApartAlike
    <2> QED BY <2>2, <2>3, <2>4
<1>3. \A a \in 1..Len(rows) : IsRecord(CoreAt(rows, a, c)) /\ ~IsWild(CoreAt(rows, a, c))
    <2> SUFFICES ASSUME NEW a \in 1..Len(rows) PROVE IsRecord(CoreAt(rows, a, c)) /\ ~IsWild(CoreAt(rows, a, c))
        OBVIOUS
    <2>1. IsRecord(CoreAt(rows, 1, c)) /\ ApartAlike(CoreAt(rows, a, c), CoreAt(rows, 1, c))
          /\ CoreAt(rows, a, c) \in Pats /\ CoreAt(rows, 1, c) \in Pats
        BY <1>0, <1>1
    <2>2. ~IsWild(CoreAt(rows, a, c))
        BY <1>2, <2>1
    <2> QED BY <1>1, <2>2
<1> DEFINE p == CoreAt(rows, i, c)
           q == CoreAt(rows, j, c)
<1>4. p \in Pats /\ q \in Pats /\ IsRecord(p) /\ IsRecord(q) /\ ~IsWild(p) /\ ApartAlike(p, q)
    BY <1>1, <1>3
<1>5. HasFields(p, occ[c])
    <2>1. IsHead(rows, occ, c, i)
        BY ColumnHead
    <2>2. occ[c] \in Places /\ occ[c].type \in TypeNames /\ Fine(p) /\ occ[c].type \in TypesOf[p]
        BY <2>1 DEF IsHead
    <2> HIDE DEF p
    <2> QED BY <1>4, <2>2, FieldFacts
<1> HIDE DEF p, q
<1>6. [k \in DOMAIN p.args |-> PartOf(p, k)] = [k \in DOMAIN q.args |-> PartOf(q, k)]
    BY <1>2, <1>4
<1> DEFINE A == DOMAIN p.args
           B == DOMAIN q.args
           F(k) == PartOf(p, k)
           G(k) == PartOf(q, k)
<1>7. [k \in A |-> F(k)] = [k \in B |-> G(k)]
    BY <1>6
<1>8. A = B /\ \A k \in A : F(k) = G(k)
    <2> HIDE DEF A, B, F, G
    <2>1. A = B
        <3>1. DOMAIN [k \in A |-> F(k)] = A /\ DOMAIN [k \in B |-> G(k)] = B
            OBVIOUS
        <3> QED BY <1>7, <3>1
    <2>2. ASSUME NEW k \in A
          PROVE  F(k) = G(k)
        <3>1. [z \in A |-> F(z)][k] = F(k) /\ [z \in B |-> G(z)][k] = G(k)
            BY <2>1
        <3> QED BY <1>7, <3>1
    <2> QED BY <2>1, <2>2
<1> QED BY <1>4, <1>5, <1>8 DEF p, q

LEMMA SameDomain ==
    ASSUME NEW A, NEW B, NEW s \in Seq(A), NEW t \in Seq(B), DOMAIN s = DOMAIN t
    PROVE  Len(s) = Len(t) /\ DOMAIN s = 1..Len(s) /\ Len(s) \in Nat /\ (s = <<>> <=> t = <<>>) /\ (s # <<>> => Len(s) # 0)
<1>1. Len(s) \in Nat /\ Len(t) \in Nat /\ DOMAIN s = 1..Len(s) /\ DOMAIN t = 1..Len(t)
    OBVIOUS
<1>2. Len(s) = Len(t)
    <2> DEFINE m == Len(s)
               n == Len(t)
    <2> DEFINE D == DOMAIN s
               E == DOMAIN t
    <2>0. D = 1..m /\ E = 1..n /\ D = E /\ m \in Nat /\ n \in Nat
        BY <1>1, Zenon
    <2> HIDE DEF m, n, D, E
    <2>1. m \in Nat /\ n \in Nat /\ 1..m = 1..n
        BY <2>0
    <2>2. m <= n
        <3>1. m # 0 => m \in 1..n
            BY <2>1
        <3> QED BY <2>1, <3>1
    <2>3. n <= m
        <3>1. n # 0 => n \in 1..m
            BY <2>1
        <3> QED BY <2>1, <3>1
    <2>4. m = n
        BY <2>1, <2>2, <2>3
    <2> QED BY <2>4 DEF m, n
<1>3. (s = <<>> <=> Len(s) = 0) /\ (t = <<>> <=> Len(t) = 0)
    OBVIOUS
<1> QED BY <1>1, <1>2, <1>3

\* A tuple or struct is taken apart: its elements are at places of their own.
LEMMA RecordUnder ==
    ASSUME NEW rows, NEW occ, NEW c, AtColumn(rows, occ, c), NEW key, IsKeyAt(rows, occ, c, key),
           KindAt(occ, c) \in {"tuple", "struct"}
    PROVE  IsUnder(rows, occ, c, key) /\ SpecializedPlaces(rows, occ, c, key) # <<>>
<1> DEFINE S == SpecializedRows(rows, c, key)
           P == SpecializedPlaces(rows, occ, c, key)
           K == Hits(rows, c, key)
           g == Into(rows, c, key)
           o == Min(K)
           t == occ[c].type
           q == CoreAt(rows, o, c)
           p(i) == CoreAt(rows, i, c)
           sub(k) == At(occ[c], Field(PartOf(q, k)))
<1>1. S \in Seq(MatrixRows) /\ HasKept(K, g, S) /\ SameArms(K, g, rows)
    BY IntoRows
<1>2. IsSingle(rows, occ, c, key)
    BY SingleFacts
<1>3. /\ o \in K /\ K \in SUBSET (1..Len(rows))
      /\ \A i \in K : g[i].pats = SubPatterns(rows[i].pats[c], key) /\ g[i].pats \in Seq(Pats)
      /\ P = SubPlaces(rows[o].pats[c], occ[c]) /\ P \in Seq(Places)
      /\ \A i \in 1..Len(rows) : \A v : FitsAt(rows[i], occ, v) <=> Matches(rows[i].pats[c], ValueAt(occ[c], v))
    BY <1>2 DEF IsSingle
<1>4. IsGood(rows, occ) /\ c \in 1..Len(occ) /\ occ \in Seq(Places) /\ occ[c] \in Places
    BY GoodFacts DEF AtColumn
<1>5. ASSUME NEW i \in K
      PROVE  /\ i \in 1..Len(rows)
             /\ IsRecord(p(i)) /\ ~IsWild(p(i)) /\ HasFields(p(i), occ[c])
             /\ DOMAIN p(i).args = DOMAIN q.args /\ \A k \in DOMAIN q.args : PartOf(p(i), k) = PartOf(q, k)
             /\ g[i].pats = p(i).args
    <2>1. i \in 1..Len(rows) /\ o \in 1..Len(rows)
        BY <1>3
    <2>2. /\ IsRecord(p(i)) /\ ~IsWild(p(i)) /\ HasFields(p(i), occ[c])
          /\ DOMAIN p(i).args = DOMAIN q.args /\ \A k \in DOMAIN p(i).args : PartOf(p(i), k) = PartOf(q, k)
        BY <2>1, SameFields
    <2>3. SubPatterns(rows[i].pats[c], key) = p(i).args
        BY <2>2 DEF SubPatterns, CoreAt, IsRecord
    <2> QED BY <1>3, <2>1, <2>2, <2>3
<1>6. IsRecord(q) /\ HasFields(q, occ[c])
    BY <1>3, <1>5
<1>7. P = [k \in DOMAIN q.args |-> sub(k)]
    <2>1. HasParts(q) /\ q.p # "ctor"
        BY <1>6 DEF IsRecord, HasParts
    <2>2. q.args # <<>>
        BY <1>6 DEF HasFields
    <2>3. SubPlaces(rows[o].pats[c], occ[c]) =
            IF ~HasParts(q) \/ q.args = <<>> THEN <<>>
            ELSE IF q.p = "ctor" THEN <<At(occ[c], EnumItem(q.tag))>>
            ELSE [i \in DOMAIN q.args |-> At(occ[c], Field(PartOf(q, i)))]
        BY DEF SubPlaces, CoreAt
    <2> HIDE DEF q
    <2> QED BY <1>3, <2>1, <2>2, <2>3
<1>8. /\ DOMAIN P = DOMAIN q.args /\ P # <<>> /\ Len(P) = Len(q.args)
      /\ DOMAIN P = 1..Len(P) /\ \A k \in 1..Len(P) : P[k] = sub(k)
    <2>1. q.args \in Seq(Pats) /\ q.args # <<>>
        BY <1>6 DEF HasFields
    <2> HIDE DEF q, sub, P
    <2>2. DOMAIN P = DOMAIN q.args
        BY <1>7
    <2>3. Len(P) = Len(q.args) /\ DOMAIN P = 1..Len(P) /\ (P = <<>> <=> q.args = <<>>)
        BY <1>3, <2>1, <2>2, SameDomain
    <2> QED BY <1>7, <2>1, <2>2, <2>3
<1>9. ASSUME NEW i \in K
      PROVE  /\ Len(p(i).args) = Len(P) /\ g[i].pats = p(i).args /\ DOMAIN p(i).args = 1..Len(P)
             /\ \A k \in 1..Len(P) :
                    /\ IsPlain(p(i).args[k]) /\ Suits(p(i).args[k], P[k]) /\ p(i).args[k] \in Pats
                    /\ P[k] = At(occ[c], Field(PartOf(p(i), k))) /\ Field(PartOf(p(i), k)) \in Steps
                    /\ \A w \in Inhabitants[t] : StepValue(w, Field(PartOf(p(i), k))) \in Inhabitants[P[k].type]
    <2> DEFINE x == p(i)
    <2>1. HasFields(x, occ[c]) /\ DOMAIN x.args = DOMAIN q.args /\ \A k \in DOMAIN q.args : PartOf(x, k) = PartOf(q, k)
        BY <1>5
    <2>2. g[i].pats = x.args
        BY <1>5
    <2> HIDE DEF x, P, q, g
    <2>3. x.args \in Seq(Pats)
        BY <2>1 DEF HasFields
    <2>4. Len(x.args) = Len(P) /\ DOMAIN x.args = 1..Len(P)
        <3>1. DOMAIN x.args = DOMAIN P
            BY <1>8, <2>1
        <3> QED BY <1>3, <1>8, <2>3, <3>1, SameDomain
    <2>5. ASSUME NEW k \in 1..Len(P)
          PROVE  /\ IsPlain(x.args[k]) /\ Suits(x.args[k], P[k]) /\ x.args[k] \in Pats
                 /\ P[k] = At(occ[c], Field(PartOf(x, k))) /\ Field(PartOf(x, k)) \in Steps
                 /\ \A w \in Inhabitants[t] : StepValue(w, Field(PartOf(x, k))) \in Inhabitants[P[k].type]
        <3>1. k \in DOMAIN x.args /\ P[k] = At(occ[c], Field(PartOf(x, k)))
            BY <1>8, <2>1, <2>4
        <3> DEFINE f == Field(PartOf(x, k))
        <3>2. /\ f \in Steps /\ IsPlain(x.args[k]) /\ Suits(x.args[k], At(occ[c], f))
              /\ \A w \in Inhabitants[t] : StepValue(w, f) \in Inhabitants[At(occ[c], f).type]
            BY <2>1, <3>1 DEF HasFields
        <3>3. x.args[k] \in Pats
            BY <2>3, <3>1
        <3> HIDE DEF f
        <3> QED BY <3>1, <3>2, <3>3 DEF f
    <2> QED BY <2>2, <2>4, <2>5 DEF x
<1>10. RowsAllSuit(K, g, P)
    <2> SUFFICES ASSUME NEW i \in K PROVE RowSuits(g[i], P)
        BY DEF RowsAllSuit
    <2>1. Len(g[i].pats) = Len(P) /\ \A k \in 1..Len(P) : Suits(g[i].pats[k], P[k])
        BY <1>9
    <2> HIDE DEF P, g, K
    <2> QED BY <1>8, <2>1 DEF RowSuits
<1>11. RowsArePlain(K, g)
    <2> SUFFICES ASSUME NEW i \in K, NEW k \in 1..Len(g[i].pats) PROVE IsPlain(g[i].pats[k])
        BY DEF RowsArePlain
    <2>1. Len(g[i].pats) = Len(P) /\ \A j \in 1..Len(P) : IsPlain(g[i].pats[j])
        BY <1>9
    <2> HIDE DEF P, g, K
    <2> QED BY <2>1
<1>12. RowsTogether(K, g, rows, P)
    <2> SUFFICES ASSUME NEW i \in K, NEW j \in K, NEW k \in 1..Len(P)
                 PROVE  ApartAlike(g[i].pats[k], g[j].pats[k]) /\ Passes(g[i].pats[k], g[j].pats[k])
        <3> HIDE DEF P, g, K
        <3> QED BY DEF RowsTogether
    <2> DEFINE a == g[i].pats[k]
               b == g[j].pats[k]
    <2>1. IsPlain(a) /\ IsPlain(b) /\ a \in Pats /\ b \in Pats
        BY <1>9
    <2> HIDE DEF a, b
    <2>2. ApartAlike(a, b) /\ Passes(a, b)
        BY <2>1, PlainApart
    <2> QED BY <2>2 DEF a, b
<1>13. IsGood(S, P)
    <2> HIDE DEF S, K, g, P
    <2> QED BY <1>1, <1>3, <1>4, <1>10, <1>11, <1>12, KeptGood
<1>14. ASSUME NEW v \in AllValues, PlacesHold(occ, v), ValueAt(occ[c], v).tag = key.tag
       PROVE  KeepsFit(K, g, P, rows, occ, v)
    <2> DEFINE w == ValueAt(occ[c], v)
    <2>1. w \in Inhabitants[t] /\ w.tag = key.tag
        BY <1>4, <1>14 DEF PlacesHold
    <2>2. \A f \in Steps : ValueAt(At(occ[c], f), v) = StepValue(w, f)
        BY <1>4, ValueAtFacts DEF Readable
    <2>7. \A i \in 1..Len(rows) : FitsAt(rows[i], occ, v) <=> Matches(rows[i].pats[c], w)
        BY <1>3
    <2> HIDE DEF w
    <2>3. ASSUME NEW i \in K, NEW k \in 1..Len(P)
          PROVE  ValueAt(P[k], v) = StepValue(w, Field(PartOf(p(i), k))) /\ ValueAt(P[k], v) \in Inhabitants[P[k].type]
        <3> DEFINE f == Field(PartOf(p(i), k))
        <3>1. P[k] = At(occ[c], f) /\ f \in Steps /\ StepValue(w, f) \in Inhabitants[P[k].type]
            BY <1>9, <2>1
        <3> HIDE DEF f, P
        <3>2. ValueAt(P[k], v) = StepValue(w, f)
            BY <2>2, <3>1
        <3> QED BY <3>1, <3>2 DEF f
    <2>4. PlacesHold(P, v)
        <3>1. o \in K
            BY <1>3
        <3> HIDE DEF P, K, o, p
        <3> QED BY <2>3, <3>1 DEF PlacesHold
    <2>5. ASSUME NEW i \in K
          PROVE  FitsAt(g[i], P, v) <=> Matches(rows[i].pats[c], w)
        <3> DEFINE x == p(i)
        <3>0. i \in 1..Len(rows) /\ HasFields(x, occ[c])
            BY <1>5
        <3>1. IsHead(rows, occ, c, i)
            BY <3>0, ColumnHead
        <3>2. Matches(rows[i].pats[c], w) <=> Matches(x, w)
            BY <2>1, <3>1 DEF IsHead
        <3>3. g[i].pats = x.args /\ DOMAIN x.args = 1..Len(P)
            BY <1>9
        <3>4. \A k \in 1..Len(P) : ValueAt(P[k], v) = StepValue(w, Field(PartOf(x, k)))
            BY <2>3
        <3> HIDE DEF x, P, K, g
        <3>5. Matches(x, w) <=> \A k \in 1..Len(P) : Matches(x.args[k], StepValue(w, Field(PartOf(x, k))))
            BY <2>1, <3>0, <3>3 DEF HasFields
        <3>6. FitsAt(g[i], P, v) <=> \A k \in 1..Len(P) : Matches(g[i].pats[k], ValueAt(P[k], v))
            BY DEF FitsAt
        <3> QED BY <3>2, <3>3, <3>4, <3>5, <3>6
    <2>6. ASSUME NEW i \in 1..Len(rows), Matches(rows[i].pats[c], w)
          PROVE  i \in K
        BY <2>1, <2>6, HitMatches
    <2> HIDE DEF K, g, P
    <2> QED BY <1>3, <2>4, <2>5, <2>6, <2>7 DEF KeepsFit
<1>15. IsBelow(rows, occ, c, key)
    <2>0. key.p # "lit"
        BY DEF IsKeyAt
    <2>1. ASSUME NEW i \in K
          PROVE  LET x == p(i)
                 IN  /\ ~IsWild(x) /\ HasParts(x) /\ g[i].pats = x.args /\ Len(x.args) = Len(P)
                     /\ \A k \in 1..Len(P) : k \in DOMAIN x.args /\ StepTo(x, k) \in Steps /\ P[k] = At(occ[c], StepTo(x, k))
        <3> DEFINE x == p(i)
        <3>1. IsRecord(x) /\ ~IsWild(x)
            BY <1>5
        <3>2. /\ g[i].pats = x.args /\ DOMAIN x.args = 1..Len(P) /\ Len(x.args) = Len(P)
              /\ \A k \in 1..Len(P) : P[k] = At(occ[c], Field(PartOf(x, k))) /\ Field(PartOf(x, k)) \in Steps
            BY <1>9
        <3> HIDE DEF x, P, K, g
        <3>3. HasParts(x) /\ \A k : StepTo(x, k) = Field(PartOf(x, k))
            BY <3>1 DEF IsRecord, HasParts, StepTo
        <3> QED BY <3>1, <3>2, <3>3 DEF x
    <2> QED BY <2>0, <2>1 DEF IsBelow
<1> QED BY <1>8, <1>13, <1>14, <1>15 DEF IsUnder

-----------------------------------------------------------------------------
(* Compile makes no errors of a good matrix. *)

\* Under each key there is the rest of the match, or one arm for all of it.
LEMMA UnderKey ==
    ASSUME NEW rows, NEW occ, NEW c, AtColumn(rows, occ, c), NEW key \in KeysAt(rows, c)
    PROVE  /\ IsKeyAt(rows, occ, c, key)
           /\ IsUnder(rows, occ, c, key) \/ (IsSettled(rows, occ, c, key) /\ KindAt(occ, c) = "ctor")
<1>1. IsKeyAt(rows, occ, c, key)
    BY KeysFacts
<1>2. KindAt(occ, c) \in {"lit", "ctor", "tuple", "struct"}
    BY FirstKey
<1>3. CASE KindAt(occ, c) = "lit"
    <2>1. key.p = "lit"
        BY <1>1, <1>3 DEF IsKeyAt
    <2>2. IsUnder(rows, occ, c, key)
        BY <1>1, <2>1, LiteralUnder
    <2> QED BY <1>1, <2>2
<1>4. CASE KindAt(occ, c) = "ctor"
    <2>1. CASE Len(Shape[occ[c].type].parts[key.tag]) = 0
        BY <1>1, <1>4, <2>1, NullaryUnder
    <2>2. CASE Len(Shape[occ[c].type].parts[key.tag]) # 0 /\ ~IsWild(CoreAt(rows, Min(Hits(rows, c, key)), c))
        BY <1>1, <1>4, <2>2, PayloadUnder
    <2>3. CASE Len(Shape[occ[c].type].parts[key.tag]) # 0 /\ IsWild(CoreAt(rows, Min(Hits(rows, c, key)), c))
        BY <1>1, <1>4, <2>3, SettledUnder
    <2> QED BY <2>1, <2>2, <2>3
<1>5. CASE KindAt(occ, c) \in {"tuple", "struct"}
    BY <1>1, <1>5, RecordUnder
<1> QED BY <1>2, <1>3, <1>4, <1>5

\* Nothing that TestNode needs is missing.
TestsWell(rows, occ, c) ==
    /\ \A i \in 1..Len(rows) : c \in 1..Len(rows[i].pats)
    /\ occ[c].type # NoType
    /\ \A i \in AliasRows(rows, c) : Bindable[<<rows[i].pats[c], occ[c]>>]
    /\ \A key \in KeysAt(rows, c) : Hits(rows, c, key) # {} /\ Testable(rows, c, key, occ[c])
    /\ ~IsOrphan(rows, occ, c)

LEMMA ColumnTestsWell ==
    ASSUME NEW rows, NEW occ, NEW c, AtColumn(rows, occ, c)
    PROVE  TestsWell(rows, occ, c)
<1>0. rows \in Seq(MatrixRows) /\ occ[c] \in Places /\ occ[c].type \in TypeNames /\ occ[c].type # NoType
    <2>1. 1 \in 1..Len(rows)
        BY FirstKey
    <2> QED BY <2>1, ColumnHead, GoodFacts DEF IsHead, AtColumn
<1>1. \A i \in 1..Len(rows) : c \in 1..Len(rows[i].pats)
    BY ColumnHead DEF IsHead
<1>2. \A i \in AliasRows(rows, c) : Bindable[<<rows[i].pats[c], occ[c]>>]
    <2> SUFFICES ASSUME NEW i \in AliasRows(rows, c) PROVE Bindable[<<rows[i].pats[c], occ[c]>>]
        OBVIOUS
    <2> DEFINE pat == rows[i].pats[c]
    <2>1. i \in DOMAIN rows /\ pat.p = "alias"
        BY DEF AliasRows
    <2>2. i \in 1..Len(rows)
        BY <1>0, <2>1
    <2>3. Suits(pat, occ[c])
        BY <2>2, ColumnHead DEF IsHead
    <2>4. pat \in Pats /\ occ[c].type \in TypesOf[pat] /\ Fine(pat)
        BY <2>3 DEF Suits
    <2> HIDE DEF pat
    <2>5. Bindable[<<pat, occ[c]>>]
        BY <1>0, <2>1, <2>4, AliasBindable
    <2> QED BY <2>5 DEF pat
<1>3. \A key \in KeysAt(rows, c) : Hits(rows, c, key) # {} /\ Testable(rows, c, key, occ[c])
    <2> SUFFICES ASSUME NEW key \in KeysAt(rows, c) PROVE Hits(rows, c, key) # {} /\ Testable(rows, c, key, occ[c])
        OBVIOUS
    <2>1. IsKeyAt(rows, occ, c, key)
        BY KeysFacts
    <2>2. Hits(rows, c, key) # {} /\ key.p = Shape[occ[c].type].kind /\ key.tag \in Tags(occ[c].type)
        BY <2>1 DEF IsKeyAt, KindAt
    <2> QED BY <2>2 DEF Testable
<1>4. ~IsOrphan(rows, occ, c)
    <2> SUFFICES ASSUME TestedKeys(rows, c) = {} PROVE SpecializedPlaces(rows, occ, c, ChosenKey(rows, c)) # <<>>
        BY DEF IsOrphan
    <2>1. KindAt(occ, c) \in {"tuple", "struct"} /\ ChosenKey(rows, c) \in KeysAt(rows, c)
        BY KeysFacts
    <2>2. IsKeyAt(rows, occ, c, ChosenKey(rows, c))
        BY <2>1, KeysFacts
    <2> QED BY <2>1, <2>2, RecordUnder
<1> QED BY <1>0, <1>1, <1>2, <1>3, <1>4 DEF TestsWell

\* A first row of wildcards binds its variables and fits.
FirstIsWild(rows, occ) ==
    /\ AllWild(rows[1].pats)
    /\ \A i \in 1..Min({Len(rows[1].pats), Len(occ)}) : Bindable[<<rows[1].pats[i], occ[i]>>]
    /\ \A v : PlacesHold(occ, v) => FitsAt(rows[1], occ, v)

LEMMA WildFirst ==
    ASSUME NEW rows, NEW occ, IsGood(rows, occ), rows # <<>>, AllWild(rows[1].pats)
    PROVE  FirstIsWild(rows, occ)
<1>1. Len(rows) \in Nat /\ Len(rows) # 0 /\ occ \in Seq(Places) /\ Len(occ) \in Nat /\ (occ = <<>> <=> Len(occ) = 0)
    BY GoodFacts
<1>2. 1 \in 1..Len(rows)
    <2> DEFINE n == Len(rows)
    <2>1. n \in Nat /\ n # 0
        BY <1>1
    <2> HIDE DEF n
    <2>2. 1 \in 1..n
        BY <2>1
    <2> QED BY <2>2 DEF n
<1> DEFINE row == rows[1]
           l == Len(row.pats)
           n == Len(occ)
<1>3. /\ row.pats \in Seq(Pats)
      /\ occ # <<>> => l = n /\ \A k \in 1..n : Suits(row.pats[k], occ[k])
    BY <1>2, GoodFacts
<1>4. l \in Nat /\ n \in Nat
    BY <1>1, <1>3
<1>5. Min({l, n}) \in {l, n} /\ Min({l, n}) <= n
    <2> HIDE DEF l, n
    <2>1. {l, n} \in SUBSET Nat /\ {l, n} # {} /\ n \in {l, n}
        BY <1>4
    <2> DEFINE T == {l, n}
    <2> HIDE DEF T
    <2>2. Min(T) \in T /\ \A k \in T : Min(T) <= k
        BY <2>1, MinFacts DEF T
    <2> QED BY <2>1, <2>2 DEF T
<1>6. \A k \in 1..n : /\ Bindable[<<row.pats[k], occ[k]>>]
                      /\ \A v : PlacesHold(occ, v) => Matches(row.pats[k], ValueAt(occ[k], v))
    <2> SUFFICES ASSUME NEW k \in 1..n
                 PROVE  /\ Bindable[<<row.pats[k], occ[k]>>]
                        /\ \A v : PlacesHold(occ, v) => Matches(row.pats[k], ValueAt(occ[k], v))
        OBVIOUS
    <2>1. occ # <<>> /\ k \in 1..l /\ occ[k] \in Places
        BY <1>1, <1>3
    <2>2. Suits(row.pats[k], occ[k])
        BY <1>3, <2>1
    <2> DEFINE pat == row.pats[k]
    <2>3. pat \in Pats /\ occ[k].type \in TypesOf[pat] /\ Fine(pat)
        BY <2>2 DEF Suits
    <2>4. AnyAlias(pat)
        BY <1>3, <2>1 DEF AllWild
    <2> HIDE DEF pat, n, l
    <2>5. pat.p # "or"
        <3>1. pat.p = "or" => Core[pat] = pat
            BY <2>3, CoreFacts
        <3> QED BY <2>4, <3>1 DEF AnyAlias, IsWild
    <2>6. pat.p = "alias" \/ IsPlain(pat)
        <3>1. pat.p # "alias" => Core[pat] = pat
            BY <2>3, CoreFacts
        <3> QED BY <2>4, <3>1 DEF AnyAlias, IsPlain
    <2>7. Bindable[<<pat, occ[k]>>]
        BY <2>1, <2>3, <2>6, AliasBindable
    <2>8. Suits(pat, occ[k])
        BY <2>2 DEF pat
    <2>9. \A w \in Inhabitants[occ[k].type] : Matches(pat, w)
        BY <2>1, <2>4, <2>5, <2>8, HeadKey
    <2>10. \A v : PlacesHold(occ, v) => Matches(pat, ValueAt(occ[k], v))
        <3>1. \A v : PlacesHold(occ, v) => ValueAt(occ[k], v) \in Inhabitants[occ[k].type]
            BY DEF PlacesHold, n
        <3> QED BY <2>9, <3>1
    <2> QED BY <2>7, <2>10 DEF pat
<1>7. \A i \in 1..Min({l, n}) : i \in 1..n
    <2> DEFINE m == Min({l, n})
    <2>1. m \in Nat /\ m <= n
        BY <1>4, <1>5
    <2> HIDE DEF m, l, n
    <2>2. \A i \in 1..m : i \in 1..n
        BY <1>4, <2>1
    <2> QED BY <2>2 DEF m
<1> QED BY <1>6, <1>7 DEF FirstIsWild, FitsAt

\* The node that Compile makes of a good matrix whose first patterns are opened.
GuardNode(rows, occ) ==
    [n |-> "guard", arm |-> rows[1].arm, binds |-> BindsOf(rows, occ), fail |-> FailOf(Compile, rows, occ)]
SwitchNode(rows, occ, c) ==
    [n |-> "switch", place |-> occ[c], binds |-> BindsAt(rows, occ, c), default |-> DefaultOf(Compile, rows, occ, c),
     cases |-> CasesOf(Compile, rows, occ, c)]
GotoNode(rows, occ, c) ==
    [n |-> "goto", binds |-> BindsAt(rows, occ, c), next |-> CasesOf(Compile, rows, occ, c)[ChosenKey(rows, c)]]

IsNodeOf(nd, rows, occ) ==
    \/ rows = <<>> /\ nd = leaf("unreachable")
    \/ rows # <<>> /\ FirstIsWild(rows, occ) /\ ~rows[1].guard /\ nd = ArmNode(rows[1].arm, BindsOf(rows, occ))
    \/ rows # <<>> /\ FirstIsWild(rows, occ) /\ rows[1].guard /\ nd = GuardNode(rows, occ)
    \/ \E c : AtColumn(rows, occ, c) /\ TestedKeys(rows, c) # {} /\ nd = SwitchNode(rows, occ, c)
    \/ \E c : AtColumn(rows, occ, c) /\ TestedKeys(rows, c) = {} /\ nd = GotoNode(rows, occ, c)

CompilesBelow(rows, occ) ==
    \A new, places : Lighter(<<new, places>>, rows, occ) /\ IsGood(new, places) => Compile[<<new, places>>].n # "error"

LEMMA WildNodeOf ==
    ASSUME NEW rows, NEW occ, IsGood(rows, occ), CompilesBelow(rows, occ), rows # <<>>, AllWild(rows[1].pats)
    PROVE  IsNodeOf(MatrixNode(Compile, rows, occ), rows, occ)
<1>1. FirstIsWild(rows, occ)
    BY WildFirst
<1> DEFINE fail == FailOf(Compile, rows, occ)
<1>2. fail.n # "error"
    <2>1. IsMatrix(rows, occ)
        BY GoodFacts
    <2>2. Lighter(<<OtherArms(rows, rows[1].arm), occ>>, rows, occ)
        BY <2>1, OthersLighter
    <2>3. IsGood(OtherArms(rows, rows[1].arm), occ)
        BY OthersGood
    <2> QED BY <2>2, <2>3 DEF CompilesBelow, FailOf
<1>3. MatrixNode(Compile, rows, occ) = WildBody(fail, rows, occ)
    <2>1. MatrixNode(Compile, rows, occ) = WildNode(Compile, rows, occ)
        BY Zenon DEF MatrixNode
    <2> QED BY <2>1, WildNodeIs
<1> DEFINE errs == \E i \in 1..Min({Len(rows[1].pats), Len(occ)}) : ~Bindable[<<rows[1].pats[i], occ[i]>>]
           n1 == leaf("error")
           n2 == ArmNode(rows[1].arm, BindsOf(rows, occ))
           n3 == GuardNode(rows, occ)
           guard == rows[1].guard
<1>4. WildBody(fail, rows, occ) = IF errs THEN n1 ELSE IF ~guard THEN n2 ELSE IF fail.n = "error" THEN n1 ELSE n3
    BY Zenon DEF WildBody, GuardNode
<1>5. ~errs
    BY <1>1 DEF FirstIsWild
<1> HIDE DEF errs, n1, n2, n3, fail
<1>6. (guard /\ MatrixNode(Compile, rows, occ) = n3) \/ (~guard /\ MatrixNode(Compile, rows, occ) = n2)
    BY <1>2, <1>3, <1>4, <1>5
<1> QED BY <1>1, <1>6 DEF IsNodeOf, n2, n3

\* What is under the keys and the default are no errors.
LEMMA SubNodes ==
    ASSUME NEW rows, NEW occ, NEW c, AtColumn(rows, occ, c), CompilesBelow(rows, occ)
    PROVE  /\ DefaultOf(Compile, rows, occ, c).n # "error"
           /\ \A key \in KeysAt(rows, c) : CasesOf(Compile, rows, occ, c)[key].n # "error"
<1>1. IsMatrix(rows, occ) /\ IsGood(rows, occ) /\ c \in 1..Len(occ)
    BY GoodFacts DEF AtColumn
<1>2. \A i \in 1..Len(rows) : c \in 1..Len(rows[i].pats)
    BY ColumnTestsWell DEF TestsWell
<1>3. DefaultOf(Compile, rows, occ, c).n # "error"
    <2>1. Lighter(<<DefaultRows(rows, c), RemoveAt(occ, c)>>, rows, occ)
        BY <1>1, <1>2, DefaultLighter
    <2>2. IsGood(DefaultRows(rows, c), RemoveAt(occ, c))
        BY DefaultGood
    <2>3. Compile[<<DefaultRows(rows, c), RemoveAt(occ, c)>>].n # "error"
        BY <2>1, <2>2 DEF CompilesBelow
    <2>4. leaf("fail").n # "error"
        BY DEF leaf
    <2> QED BY <2>3, <2>4 DEF DefaultOf
<1>4. ASSUME NEW key \in KeysAt(rows, c)
      PROVE  CasesOf(Compile, rows, occ, c)[key].n # "error"
    <2> DEFINE new == SpecializedRows(rows, c, key)
               places == SpecializedPlaces(rows, occ, c, key)
    <2>1. CasesOf(Compile, rows, occ, c)[key] = Compile[<<new, places>>]
        BY DEF CasesOf, UnderOf
    <2>2. Hits(rows, c, key) # {}
        BY ColumnTestsWell DEF TestsWell
    <2>3. Lighter(<<new, places>>, rows, occ)
        BY <1>1, <1>2, <2>2, SpecializedLighter
    <2>4. CASE IsUnder(rows, occ, c, key)
        <3>1. IsGood(new, places)
            BY <2>4 DEF IsUnder
        <3> HIDE DEF new, places
        <3> QED BY <2>1, <2>3, <3>1 DEF CompilesBelow
    <2>5. CASE IsSettled(rows, occ, c, key)
        <3>1. Compile[<<new, places>>].n = "arm"
            BY <2>5, SettledCompiles
        <3> HIDE DEF new, places
        <3> QED BY <2>1, <3>1
    <2> QED BY <2>4, <2>5, UnderKey
<1> QED BY <1>3, <1>4

LEMMA TestNodeOf ==
    ASSUME NEW rows, NEW occ, IsGood(rows, occ), NoneOr(rows, occ), CompilesBelow(rows, occ), rows # <<>>, ~AllWild(rows[1].pats)
    PROVE  IsNodeOf(MatrixNode(Compile, rows, occ), rows, occ)
<1> DEFINE c == BestColumn(rows, Len(occ))
<1>1. occ # <<>> /\ AtColumn(rows, occ, c)
    BY TestColumn
<1>2. rows \in Seq(MatrixRows)
    BY GoodFacts
<1>3. MatrixNode(Compile, rows, occ) = TestNode(Compile, rows, occ, c)
    <2>1. TestsWell(rows, occ, c)
        BY <1>1, ColumnTestsWell
    <2>2. ~(occ[c].type = NoType \/ \E i \in DOMAIN rows : Len(rows[i].pats) < c)
        <3>1. ASSUME NEW i \in DOMAIN rows PROVE ~(Len(rows[i].pats) < c)
            <4>1. i \in 1..Len(rows)
                BY <1>2, <3>1
            <4>2. rows[i].pats \in Seq(Pats)
                BY <4>1, GoodFacts
            <4> DEFINE n == Len(rows[i].pats)
            <4>3. n \in Nat
                BY <4>2
            <4>4. c \in 1..n
                BY <2>1, <4>1 DEF TestsWell
            <4> HIDE DEF c, n
            <4>5. ~(n < c)
                BY <4>3, <4>4
            <4> QED BY <4>5 DEF n
        <3>2. occ[c].type # NoType
            BY <2>1 DEF TestsWell
        <3> HIDE DEF c
        <3> QED BY <3>1, <3>2
    <2> QED BY <1>1, <2>2, Zenon DEF MatrixNode
<1> HIDE DEF c
<1> DEFINE default == DefaultOf(Compile, rows, occ, c)
           under == CasesOf(Compile, rows, occ, c)
           t4 == \E key \in KeysAt(rows, c) : under[key].n = "error"
           tests == TestedKeys(rows, c) # {}
           n1 == leaf("error")
           n2 == leaf("orphan")
           n3 == SwitchNode(rows, occ, c)
           n4 == GotoNode(rows, occ, c)
<1>4. TestBody(default, under, rows, occ, c) =
        IF TestFails(default, under, rows, occ, c) THEN n1 ELSE IF IsOrphan(rows, occ, c) THEN n2
        ELSE IF t4 THEN n1 ELSE IF tests THEN n3 ELSE n4
    BY Zenon DEF TestBody, SwitchNode, GotoNode
<1>5. default.n # "error" /\ ~t4
    BY <1>1, SubNodes
<1>6. ~TestFails(default, under, rows, occ, c) /\ ~IsOrphan(rows, occ, c)
    <2>1. TestsWell(rows, occ, c)
        BY <1>1, ColumnTestsWell
    <2> HIDE DEF default, under
    <2> QED BY <1>5, <2>1 DEF TestsWell, TestFails
<1>7. MatrixNode(Compile, rows, occ) = TestBody(default, under, rows, occ, c)
    BY <1>3, TestNodeIs
<1> HIDE DEF default, under, t4, n1, n2, n3, n4
<1>8. (tests /\ MatrixNode(Compile, rows, occ) = n3) \/ (~tests /\ MatrixNode(Compile, rows, occ) = n4)
    BY <1>4, <1>5, <1>6, <1>7
<1> QED BY <1>1, <1>8 DEF IsNodeOf, n3, n4

LEMMA NodeOfMatrix ==
    ASSUME NEW rows, NEW occ, IsGood(rows, occ), NoneOr(rows, occ), CompilesBelow(rows, occ)
    PROVE  IsNodeOf(MatrixNode(Compile, rows, occ), rows, occ)
<1>1. CASE rows = <<>>
    <2>1. MatrixNode(Compile, rows, occ) = leaf("unreachable")
        BY <1>1, Zenon DEF MatrixNode
    <2> QED BY <1>1, <2>1 DEF IsNodeOf
<1>2. CASE rows # <<>> /\ AllWild(rows[1].pats)
    BY <1>2, WildNodeOf
<1>3. CASE rows # <<>> /\ ~AllWild(rows[1].pats)
    BY <1>3, TestNodeOf
<1> QED BY <1>1, <1>2, <1>3

NodeKinds == {"unreachable", "arm", "guard", "switch", "goto"}

LEMMA NodeKind ==
    ASSUME NEW nd, NEW rows, NEW occ, IsNodeOf(nd, rows, occ)
    PROVE  nd.n \in NodeKinds
BY DEF IsNodeOf, NodeKinds, leaf, ArmNode, GuardNode, SwitchNode, GotoNode

LEMMA NodeBelow ==
    ASSUME NEW m \in Matrices, IsGood(m[1], m[2]),
           \A y \in Matrices : Weigh[y] < Weigh[m] /\ IsGood(y[1], y[2]) => Compile[y].n # "error"
    PROVE  IsNodeOf(Compile[m], Expanded(m[1]), m[2])
<1> DEFINE rows == Expanded(m[1])
           occ == m[2]
<1>1. IsGood(rows, occ) /\ NoneOr(rows, occ)
    BY ExpandedGood
<1>2. Compile[m] = MatrixNode(Compile, rows, occ)
    BY CompileDef DEF CompileBody
<1>3. CompilesBelow(rows, occ)
    <2> SUFFICES ASSUME NEW new, NEW places, Lighter(<<new, places>>, rows, occ), IsGood(new, places)
                 PROVE  Compile[<<new, places>>].n # "error"
        BY Zenon DEF CompilesBelow
    <2> DEFINE y == <<new, places>>
    <2>1. y \in Matrices /\ Weigh[y] < Weigh[m]
        BY ExpandedLighter
    <2>2. IsGood(y[1], y[2])
        OBVIOUS
    <2> HIDE DEF y
    <2>3. Compile[y].n # "error"
        BY <2>1, <2>2
    <2> QED BY <2>3 DEF y
<1> HIDE DEF rows, occ
<1>4. IsNodeOf(Compile[m], rows, occ)
    BY <1>1, <1>2, <1>3, NodeOfMatrix
<1> QED BY <1>4 DEF rows, occ

LEMMA CompilesWell == \A m \in Matrices : IsGood(m[1], m[2]) => Compile[m].n # "error"
<1> DEFINE S == {m \in Matrices : IsGood(m[1], m[2]) => Compile[m].n # "error"}
<1>1. ASSUME NEW m \in Matrices, \A y \in Matrices : Weigh[y] < Weigh[m] => y \in S
      PROVE  m \in S
    <2> SUFFICES ASSUME IsGood(m[1], m[2]) PROVE Compile[m].n # "error"
        OBVIOUS
    <2>1. \A y \in Matrices : Weigh[y] < Weigh[m] /\ IsGood(y[1], y[2]) => Compile[y].n # "error"
        BY <1>1
    <2>2. IsNodeOf(Compile[m], Expanded(m[1]), m[2])
        BY <2>1, NodeBelow
    <2>3. Compile[m].n \in NodeKinds
        BY <2>2, NodeKind
    <2> QED BY <2>3 DEF NodeKinds
<1>2. Matrices \subseteq S
    <2> HIDE DEF S
    <2> QED BY <1>1, WeighType, RankInduction
<1> QED BY <1>2

\* What Compile makes of a good matrix.
LEMMA NodeIs ==
    ASSUME NEW rows, NEW occ, IsGood(rows, occ)
    PROVE  IsNodeOf(Compile[<<rows, occ>>], Expanded(rows), occ)
<1> DEFINE m == <<rows, occ>>
<1>1. m \in Matrices
    BY GoodFacts, WeighIs
<1>2. IsGood(m[1], m[2]) /\ m[1] = rows /\ m[2] = occ
    OBVIOUS
<1> HIDE DEF m
<1>3. IsNodeOf(Compile[m], Expanded(m[1]), m[2])
    BY <1>1, <1>2, CompilesWell, NodeBelow
<1> QED BY <1>2, <1>3 DEF m

-----------------------------------------------------------------------------
(* What running a node that Compile made leads to, for a value: s.matched  *)
(* has the arms it matches, s.open those of them that were not refused,    *)
(* s.guarded those with a guard.                                           *)

Fair(rows, occ, s) ==
    /\ s.val \in AllValues /\ PlacesHold(occ, s.val)
    /\ \A i \in 1..Len(rows) : FitsAt(rows[i], occ, s.val) => rows[i].arm \in s.matched
    /\ \A a \in s.open : \E i \in 1..Len(rows) : rows[i].arm = a /\ FitsAt(rows[i], occ, s.val)
    /\ \A i \in 1..Len(rows) : rows[i].guard => rows[i].arm \in s.guarded

LEMMA FairFollows ==
    ASSUME NEW rows, NEW occ, NEW s, Fair(rows, occ, s), NEW new, NEW places, Follows(new, places, rows, occ, s.val)
    PROVE  Fair(new, places, s)
<1> DEFINE v == s.val
<1>1. /\ v \in AllValues
      /\ \A i \in 1..Len(rows) : FitsAt(rows[i], occ, v) => rows[i].arm \in s.matched
      /\ \A a \in s.open : \E i \in 1..Len(rows) : rows[i].arm = a /\ FitsAt(rows[i], occ, v)
      /\ \A i \in 1..Len(rows) : rows[i].guard => rows[i].arm \in s.guarded
    BY DEF Fair
<1>2. /\ PlacesHold(places, v)
      /\ \A k \in 1..Len(new) : FitsAt(new[k], places, v) =>
            \E i \in 1..Len(rows) : rows[i].arm = new[k].arm /\ FitsAt(rows[i], occ, v)
      /\ \A i \in 1..Len(rows) : FitsAt(rows[i], occ, v) =>
            \E k \in 1..Len(new) : new[k].arm = rows[i].arm /\ FitsAt(new[k], places, v)
      /\ \A k \in 1..Len(new) : \E i \in 1..Len(rows) : rows[i].arm = new[k].arm /\ rows[i].guard = new[k].guard
    BY DEF Follows
<1>3. \A k \in 1..Len(new) : FitsAt(new[k], places, v) => new[k].arm \in s.matched
    BY <1>1, <1>2
<1>4. \A a \in s.open : \E k \in 1..Len(new) : new[k].arm = a /\ FitsAt(new[k], places, v)
    <2> SUFFICES ASSUME NEW a \in s.open PROVE \E k \in 1..Len(new) : new[k].arm = a /\ FitsAt(new[k], places, v)
        OBVIOUS
    <2>1. PICK i \in 1..Len(rows) : rows[i].arm = a /\ FitsAt(rows[i], occ, v)
        BY <1>1
    <2>2. PICK k \in 1..Len(new) : new[k].arm = rows[i].arm /\ FitsAt(new[k], places, v)
        BY <1>2, <2>1
    <2> QED BY <2>1, <2>2
<1>5. \A k \in 1..Len(new) : new[k].guard => new[k].arm \in s.guarded
    <2> SUFFICES ASSUME NEW k \in 1..Len(new), new[k].guard PROVE new[k].arm \in s.guarded
        OBVIOUS
    <2>1. PICK i \in 1..Len(rows) : rows[i].arm = new[k].arm /\ rows[i].guard = new[k].guard
        BY <1>2
    <2> QED BY <1>1, <2>1
<1> HIDE DEF v
<1>6. v \in AllValues /\ PlacesHold(places, v)
    BY <1>1, <1>2
<1> QED BY <1>3, <1>4, <1>5, <1>6 DEF Fair, v

\* The first of the open arms.
ArmRight(a, s) == a \in s.matched /\ \A b \in s.open : a <= b

RightNode(nd, s) ==
    \/ \E rows, occ : /\ IsGood(rows, occ) /\ Fair(rows, occ, s) /\ (s.is => rows # <<>>)
                      /\ nd = Compile[<<rows, occ>>]
    \/ nd = leaf("fail") /\ s.open = {}
    \/ nd.n = "arm" /\ ArmRight(nd.arm, s)

\* ... with the first patterns opened.
RightRows(rows, occ, s) ==
    IsGood(rows, occ) /\ NoneOr(rows, occ) /\ Fair(rows, occ, s) /\ (s.is => rows # <<>>)

LEMMA RightCases ==
    ASSUME NEW nd, NEW s, RightNode(nd, s)
    PROVE  \/ \E rows, occ : RightRows(rows, occ, s) /\ IsNodeOf(nd, rows, occ)
           \/ nd = leaf("fail") /\ s.open = {}
           \/ nd.n = "arm" /\ ArmRight(nd.arm, s)
<1>1. ASSUME NEW rows, NEW occ, IsGood(rows, occ), Fair(rows, occ, s), s.is => rows # <<>>, nd = Compile[<<rows, occ>>]
      PROVE  \E new, places : RightRows(new, places, s) /\ IsNodeOf(nd, new, places)
    <2> DEFINE E == Expanded(rows)
    <2>1. IsGood(E, occ) /\ NoneOr(E, occ) /\ (rows # <<>> => E # <<>>)
        BY <1>1, ExpandedGood
    <2>2. Follows(E, occ, rows, occ, s.val)
        <3>1. PlacesHold(occ, s.val)
            BY <1>1 DEF Fair
        <3> QED BY <1>1, <3>1, ExpandedFollows
    <2>3. Fair(E, occ, s)
        BY <1>1, <2>2, FairFollows
    <2>4. IsNodeOf(nd, E, occ)
        BY <1>1, NodeIs
    <2> HIDE DEF E
    <2>5. RightRows(E, occ, s)
        BY <1>1, <2>1, <2>3 DEF RightRows
    <2> QED BY <2>4, <2>5
<1>2. CASE \E rows, occ : /\ IsGood(rows, occ) /\ Fair(rows, occ, s) /\ (s.is => rows # <<>>)
                          /\ nd = Compile[<<rows, occ>>]
    BY <1>1, <1>2
<1> QED BY <1>2, Zenon DEF RightNode

\* Where the first row is all wildcards its arm is the first that is open.
LEMMA FirstIsRight ==
    ASSUME NEW rows, NEW occ, NEW s, RightRows(rows, occ, s), rows # <<>>, FirstIsWild(rows, occ)
    PROVE  /\ ArmRight(rows[1].arm, s)
           /\ rows[1].guard => rows[1].arm \in s.guarded
<1>1. IsGood(rows, occ) /\ Fair(rows, occ, s)
    BY DEF RightRows
<1>2. Len(rows) \in Nat /\ Len(rows) # 0
    BY <1>1, GoodFacts
<1>3. 1 \in 1..Len(rows)
    <2> DEFINE n == Len(rows)
    <2>1. n \in Nat /\ n # 0
        BY <1>2
    <2> HIDE DEF n
    <2>2. 1 \in 1..n
        BY <2>1
    <2> QED BY <2>2 DEF n
<1>4. FitsAt(rows[1], occ, s.val)
    BY <1>1 DEF FirstIsWild, Fair
<1>5. rows[1].arm \in s.matched /\ (rows[1].guard => rows[1].arm \in s.guarded)
    BY <1>1, <1>3, <1>4 DEF Fair
<1>6. ASSUME NEW b \in s.open PROVE rows[1].arm <= b
    <2>1. PICK i \in 1..Len(rows) : rows[i].arm = b
        BY <1>1 DEF Fair
    <2>2. rows[1].arm \in Nat /\ rows[i].arm \in Nat
        BY <1>1, <1>3, GoodFacts
    <2>3. i \in Nat /\ 1 <= i
        BY <1>2
    <2>4. 1 < i => rows[1].arm <= rows[i].arm
        BY <1>1, <1>3 DEF IsGood, InOrder
    <2>5. CASE i = 1
        BY <2>1, <2>2, <2>5
    <2>6. CASE 1 < i
        BY <2>1, <2>4, <2>6
    <2> QED BY <2>3, <2>5, <2>6
<1> QED BY <1>5, <1>6 DEF ArmRight

LEMMA RightArm ==
    ASSUME NEW nd, NEW s, RightNode(nd, s), nd.n = "arm"
    PROVE  ArmRight(nd.arm, s)
<1>1. ASSUME NEW rows, NEW occ, RightRows(rows, occ, s), IsNodeOf(nd, rows, occ)
      PROVE  ArmRight(nd.arm, s)
    <2>1. rows # <<>> /\ FirstIsWild(rows, occ) /\ nd = ArmNode(rows[1].arm, BindsOf(rows, occ))
        BY <1>1 DEF IsNodeOf, leaf, GuardNode, SwitchNode, GotoNode
    <2>2. nd.arm = rows[1].arm
        BY <2>1 DEF ArmNode
    <2> QED BY <1>1, <2>1, <2>2, FirstIsRight
<1>2. nd # leaf("fail")
    BY DEF leaf
<1> QED BY <1>1, <1>2, RightCases, Zenon

\* The arm of a guard is refused.
Refusing(s, t, a) ==
    t.val = s.val /\ t.matched = s.matched /\ t.guarded = s.guarded /\ t.is = s.is /\ t.open = s.open \ {a}

LEMMA RightGuard ==
    ASSUME NEW nd, NEW s, RightNode(nd, s), nd.n = "guard", s.is => s.guarded = {},
           NEW t, Refusing(s, t, nd.arm)
    PROVE  ArmRight(nd.arm, s) /\ nd.arm \in s.guarded /\ ~s.is /\ RightNode(nd.fail, t)
<1>1. ASSUME NEW rows, NEW occ, RightRows(rows, occ, s), IsNodeOf(nd, rows, occ)
      PROVE  ArmRight(nd.arm, s) /\ nd.arm \in s.guarded /\ ~s.is /\ RightNode(nd.fail, t)
    <2>1. rows # <<>> /\ FirstIsWild(rows, occ) /\ rows[1].guard /\ nd = GuardNode(rows, occ)
        BY <1>1 DEF IsNodeOf, leaf, ArmNode, SwitchNode, GotoNode
    <2>2. nd.arm = rows[1].arm /\ nd.fail = FailOf(Compile, rows, occ)
        BY <2>1 DEF GuardNode
    <2>3. ArmRight(nd.arm, s) /\ nd.arm \in s.guarded /\ ~s.is
        BY <1>1, <2>1, <2>2, FirstIsRight
    <2> DEFINE new == OtherArms(rows, rows[1].arm)
    <2>4. nd.fail = Compile[<<new, occ>>]
        BY <2>2 DEF FailOf
    <2>5. IsGood(rows, occ) /\ Fair(rows, occ, s)
        BY <1>1 DEF RightRows
    <2>6. /\ IsGood(new, occ)
          /\ \A k \in 1..Len(new) : new[k].arm # rows[1].arm /\ \E i \in 1..Len(rows) : new[k] = rows[i]
          /\ \A i \in 1..Len(rows) : rows[i].arm # rows[1].arm => \E k \in 1..Len(new) : new[k] = rows[i]
        BY <2>1, <2>5, OthersGood
    <2> HIDE DEF new
    <2>7. Fair(new, occ, t)
        <3>1. t.val \in AllValues /\ PlacesHold(occ, t.val)
            BY <2>5 DEF Fair, Refusing
        <3>2. \A k \in 1..Len(new) : FitsAt(new[k], occ, t.val) => new[k].arm \in t.matched
            <4> SUFFICES ASSUME NEW k \in 1..Len(new), FitsAt(new[k], occ, t.val) PROVE new[k].arm \in t.matched
                OBVIOUS
            <4>1. PICK i \in 1..Len(rows) : new[k] = rows[i]
                BY <2>6
            <4>2. FitsAt(rows[i], occ, s.val)
                BY <4>1 DEF Refusing
            <4> QED BY <2>5, <4>1, <4>2 DEF Fair, Refusing
        <3>3. \A a \in t.open : \E k \in 1..Len(new) : new[k].arm = a /\ FitsAt(new[k], occ, t.val)
            <4> SUFFICES ASSUME NEW a \in t.open PROVE \E k \in 1..Len(new) : new[k].arm = a /\ FitsAt(new[k], occ, t.val)
                OBVIOUS
            <4>1. a \in s.open /\ a # rows[1].arm /\ t.val = s.val
                BY <2>2 DEF Refusing
            <4>2. PICK i \in 1..Len(rows) : rows[i].arm = a /\ FitsAt(rows[i], occ, s.val)
                BY <2>5, <4>1 DEF Fair
            <4>3. PICK k \in 1..Len(new) : new[k] = rows[i]
                BY <2>6, <4>1, <4>2
            <4> QED BY <4>1, <4>2, <4>3
        <3>4. \A k \in 1..Len(new) : new[k].guard => new[k].arm \in t.guarded
            <4> SUFFICES ASSUME NEW k \in 1..Len(new), new[k].guard PROVE new[k].arm \in t.guarded
                OBVIOUS
            <4>1. PICK i \in 1..Len(rows) : new[k] = rows[i]
                BY <2>6
            <4> QED BY <2>5, <4>1 DEF Fair, Refusing
        <3> QED BY <3>1, <3>2, <3>3, <3>4 DEF Fair
    <2>8. ~t.is
        BY <2>3 DEF Refusing
    <2>9. RightNode(nd.fail, t)
        BY <2>4, <2>6, <2>7, <2>8 DEF RightNode
    <2> QED BY <2>3, <2>9
<1>2. nd # leaf("fail")
    BY DEF leaf
<1>3. nd.n # "arm"
    OBVIOUS
<1>4. PICK rows, occ : RightRows(rows, occ, s) /\ IsNodeOf(nd, rows, occ)
    BY <1>2, <1>3, RightCases, Zenon
<1> QED BY <1>1, <1>4

\* Where the tree ends, no arm is left.
LEMMA RightEnd ==
    ASSUME NEW nd, NEW s, RightNode(nd, s)
    PROVE  /\ nd.n \in {"fail", "unreachable", "orphan"} => s.open = {}
           /\ nd.n # "error"
           /\ s.is => nd.n # "unreachable" /\ nd.n # "orphan"
<1>1. ASSUME NEW rows, NEW occ, RightRows(rows, occ, s), IsNodeOf(nd, rows, occ)
      PROVE  /\ nd.n \in {"fail", "unreachable", "orphan"} => s.open = {}
             /\ nd.n # "error"
             /\ s.is => nd.n # "unreachable" /\ nd.n # "orphan"
    <2>1. nd.n \in NodeKinds
        BY <1>1, NodeKind
    <2>2. nd.n = "unreachable" => rows = <<>>
        BY <1>1 DEF IsNodeOf, ArmNode, GuardNode, SwitchNode, GotoNode
    <2>3. rows = <<>> => s.open = {} /\ ~s.is
        <3> SUFFICES ASSUME rows = <<>> PROVE s.open = {} /\ ~s.is
            OBVIOUS
        <3>1. \A a \in s.open : \E i \in 1..Len(rows) : rows[i].arm = a
            BY <1>1 DEF RightRows, Fair
        <3>2. 1..Len(rows) = {}
            OBVIOUS
        <3>3. s.open = {}
            BY <3>1, <3>2
        <3> QED BY <1>1, <3>3 DEF RightRows
    <2> QED BY <2>1, <2>2, <2>3 DEF NodeKinds
<1>2. CASE nd = leaf("fail") /\ s.open = {}
    BY <1>2 DEF leaf
<1>3. CASE nd.n = "arm"
    BY <1>3
<1> QED BY <1>1, <1>2, <1>3, RightCases, Zenon

\* The value at the tested place.
LEMMA TestedValue ==
    ASSUME NEW rows, NEW occ, NEW c, AtColumn(rows, occ, c), NEW s, Fair(rows, occ, s)
    PROVE  /\ s.val \in AllValues /\ PlacesHold(occ, s.val)
           /\ ValueAt(occ[c], s.val) \in Inhabitants[occ[c].type] /\ occ[c].type \in TypeNames
           /\ ValueAt(occ[c], s.val) # Junk /\ ValueAt(occ[c], s.val).tag \in Tags(occ[c].type)
<1>1. s.val \in AllValues /\ PlacesHold(occ, s.val)
    BY DEF Fair
<1>2. c \in 1..Len(occ)
    BY DEF AtColumn
<1> DEFINE w == ValueAt(occ[c], s.val)
           t == occ[c].type
<1>3. w \in Inhabitants[t]
    BY <1>1, <1>2 DEF PlacesHold
<1>4. t \in TypeNames /\ Inhabitants[t] \subseteq AllValues
    <2>1. 1 \in 1..Len(rows)
        BY FirstKey
    <2> QED BY <2>1, ColumnHead DEF IsHead
<1> HIDE DEF w, t
<1>5. w # Junk /\ w.tag \in Tags(t)
    BY <1>3, <1>4, TreeAssumption, TypeAssumption
<1> QED BY <1>1, <1>3, <1>4, <1>5 DEF w, t

LEMMA RightUnder ==
    ASSUME NEW rows, NEW occ, NEW c, AtColumn(rows, occ, c), NEW s, Fair(rows, occ, s),
           NEW key \in KeysAt(rows, c), key.tag = ValueAt(occ[c], s.val).tag
    PROVE  RightNode(CasesOf(Compile, rows, occ, c)[key], s)
<1> DEFINE new == SpecializedRows(rows, c, key)
           places == SpecializedPlaces(rows, occ, c, key)
           nd == CasesOf(Compile, rows, occ, c)[key]
           w == ValueAt(occ[c], s.val)
           o == Min(Hits(rows, c, key))
<1>1. nd = Compile[<<new, places>>]
    BY DEF CasesOf, UnderOf
<1>2. s.val \in AllValues /\ PlacesHold(occ, s.val) /\ w \in Inhabitants[occ[c].type] /\ w.tag = key.tag
    BY TestedValue
<1>3. IsKeyAt(rows, occ, c, key)
    BY UnderKey
<1>4. CASE IsUnder(rows, occ, c, key)
    <2>1. IsGood(new, places)
        BY <1>4 DEF IsUnder
    <2>2. Follows(new, places, rows, occ, s.val)
        BY <1>2, <1>3, <1>4, UnderFollows
    <2>3. Fair(new, places, s)
        BY <2>2, FairFollows
    <2>4. new # <<>>
        <3> DEFINE K == Hits(rows, c, key)
                   g == Into(rows, c, key)
        <3>1. new \in Seq(MatrixRows) /\ HasKept(K, g, new) /\ K # {}
            BY <1>3, IntoRows
        <3> HIDE DEF new, K, g
        <3>2. \E k \in 1..Len(new) : TRUE
            BY <3>1 DEF HasKept, IsKept
        <3>3. new = <<>> => 1..Len(new) = {}
            OBVIOUS
        <3> QED BY <3>2, <3>3
    <2> HIDE DEF new, places, nd
    <2>5. RightNode(nd, s)
        BY <1>1, <2>1, <2>3, <2>4 DEF RightNode
    <2> QED BY <2>5 DEF nd
<1>5. CASE IsSettled(rows, occ, c, key) /\ KindAt(occ, c) = "ctor"
    <2>1. nd.n = "arm" /\ nd.arm = rows[o].arm
        BY <1>1, <1>5, SettledCompiles
    <2>2. /\ o \in Hits(rows, c, key) /\ \A i \in Hits(rows, c, key) : o <= i
          /\ o \in 1..Len(rows) /\ IsWild(CoreAt(rows, o, c))
        BY <1>5 DEF IsSettled
    <2>3. \A i \in 1..Len(rows) : \A v : FitsAt(rows[i], occ, v) <=> Matches(rows[i].pats[c], ValueAt(occ[c], v))
        BY <1>3, <1>5, SingleFacts DEF IsSingle
    <2>4. IsGood(rows, occ) /\ Len(rows) \in Nat
        BY GoodFacts DEF AtColumn
    <2> HIDE DEF nd, new, places, o
    <2>5. rows[o].arm \in s.matched
        <3>1. Matches(rows[o].pats[c], w)
            <4>1. IsHead(rows, occ, c, o)
                BY <2>2, ColumnHead
            <4> QED BY <1>2, <2>2, <4>1 DEF IsHead
        <3>2. FitsAt(rows[o], occ, s.val)
            BY <2>2, <2>3, <3>1
        <3> QED BY <2>2, <3>2 DEF Fair
    <2>6. ASSUME NEW b \in s.open PROVE rows[o].arm <= b
        <3>1. PICK i \in 1..Len(rows) : rows[i].arm = b /\ FitsAt(rows[i], occ, s.val)
            BY DEF Fair
        <3>2. Matches(rows[i].pats[c], w)
            BY <2>3, <3>1
        <3>3. i \in Hits(rows, c, key)
            BY <1>2, <1>3, <3>2, HitMatches
        <3>4. o <= i /\ o \in Nat /\ i \in Nat
            BY <2>2, <2>4, <3>3
        <3>5. rows[o].arm \in Nat /\ rows[i].arm \in Nat
            BY <2>2, <2>4, GoodFacts
        <3>6. o < i => rows[o].arm <= rows[i].arm
            BY <2>2, <2>4 DEF IsGood, InOrder
        <3>7. CASE o = i
            BY <3>1, <3>5, <3>7
        <3>8. CASE o < i
            BY <3>1, <3>6, <3>8
        <3> QED BY <3>4, <3>7, <3>8
    <2>7. ArmRight(nd.arm, s)
        BY <2>1, <2>5, <2>6 DEF ArmRight
    <2>8. RightNode(nd, s)
        BY <2>1, <2>7 DEF RightNode
    <2> QED BY <2>8 DEF nd
<1> QED BY <1>4, <1>5, UnderKey

LEMMA RightOtherwise ==
    ASSUME NEW rows, NEW occ, NEW c, AtColumn(rows, occ, c), NEW s, Fair(rows, occ, s), TestedKeys(rows, c) # {},
           \A key \in TestedKeys(rows, c) : key.tag # ValueAt(occ[c], s.val).tag
    PROVE  RightNode(DefaultOf(Compile, rows, occ, c), s)
<1> DEFINE new == DefaultRows(rows, c)
           places == RemoveAt(occ, c)
<1>1. IsGood(new, places)
    BY DefaultGood
<1>2. PlacesHold(occ, s.val)
    BY DEF Fair
<1>3. Follows(new, places, rows, occ, s.val)
    BY <1>2, DefaultFollows
<1>4. Fair(new, places, s)
    BY <1>3, FairFollows
<1>5. CASE new = <<>>
    <2>1. DefaultOf(Compile, rows, occ, c) = leaf("fail")
        BY <1>5 DEF DefaultOf
    <2>2. \A a \in s.open : \E k \in 1..Len(new) : TRUE
        BY <1>4 DEF Fair
    <2>3. 1..Len(new) = {}
        BY <1>5
    <2>4. s.open = {}
        BY <2>2, <2>3
    <2> QED BY <2>1, <2>4 DEF RightNode
<1>6. CASE new # <<>>
    <2>1. DefaultOf(Compile, rows, occ, c) = Compile[<<new, places>>]
        BY <1>6 DEF DefaultOf
    <2> HIDE DEF new, places
    <2> QED BY <1>1, <1>4, <1>6, <2>1 DEF RightNode
<1> QED BY <1>5, <1>6

LEMMA RightSwitch ==
    ASSUME NEW nd, NEW s, RightNode(nd, s), nd.n = "switch"
    PROVE  LET w == ValueAt(nd.place, s.val)
           IN  /\ w # Junk
               /\ \A key \in DOMAIN nd.cases : key.tag = w.tag => RightNode(nd.cases[key], s)
               /\ (\A key \in DOMAIN nd.cases : key.tag # w.tag) => RightNode(nd.default, s)
<1>1. nd # leaf("fail") /\ nd.n # "arm"
    BY DEF leaf
<1>2. PICK rows, occ : RightRows(rows, occ, s) /\ IsNodeOf(nd, rows, occ)
    BY <1>1, RightCases, Zenon
<1>3. PICK c : AtColumn(rows, occ, c) /\ TestedKeys(rows, c) # {} /\ nd = SwitchNode(rows, occ, c)
    BY <1>2 DEF IsNodeOf, leaf, ArmNode, GuardNode, GotoNode
<1>4. /\ nd.place = occ[c] /\ nd.default = DefaultOf(Compile, rows, occ, c)
      /\ nd.cases = CasesOf(Compile, rows, occ, c)
    BY <1>3 DEF SwitchNode
<1>5. DOMAIN nd.cases = KeysAt(rows, c) /\ KeysAt(rows, c) = TestedKeys(rows, c)
    BY <1>3, <1>4, KeysFacts DEF CasesOf
<1>6. Fair(rows, occ, s)
    BY <1>2 DEF RightRows
<1>7. ValueAt(nd.place, s.val) # Junk
    BY <1>3, <1>4, <1>6, TestedValue
<1>8. \A key \in DOMAIN nd.cases : key.tag = ValueAt(nd.place, s.val).tag => RightNode(nd.cases[key], s)
    BY <1>3, <1>4, <1>5, <1>6, RightUnder
<1>9. (\A key \in DOMAIN nd.cases : key.tag # ValueAt(nd.place, s.val).tag) => RightNode(nd.default, s)
    BY <1>3, <1>4, <1>5, <1>6, RightOtherwise
<1> QED BY <1>7, <1>8, <1>9

LEMMA RightGoto ==
    ASSUME NEW nd, NEW s, RightNode(nd, s), nd.n = "goto"
    PROVE  RightNode(nd.next, s)
<1>1. nd # leaf("fail") /\ nd.n # "arm"
    BY DEF leaf
<1>2. PICK rows, occ : RightRows(rows, occ, s) /\ IsNodeOf(nd, rows, occ)
    BY <1>1, RightCases, Zenon
<1>3. PICK c : AtColumn(rows, occ, c) /\ TestedKeys(rows, c) = {} /\ nd = GotoNode(rows, occ, c)
    BY <1>2 DEF IsNodeOf, leaf, ArmNode, GuardNode, SwitchNode
<1> DEFINE key == ChosenKey(rows, c)
<1>4. nd.next = CasesOf(Compile, rows, occ, c)[key]
    BY <1>3 DEF GotoNode
<1>5. Fair(rows, occ, s)
    BY <1>2 DEF RightRows
<1>6. key \in KeysAt(rows, c) /\ KindAt(occ, c) \in {"tuple", "struct"}
    BY <1>3, KeysFacts
<1>7. key.tag \in Tags(occ[c].type)
    BY <1>3, <1>6, KeysFacts DEF IsKeyAt
<1>8. /\ ValueAt(occ[c], s.val).tag \in Tags(occ[c].type) /\ occ[c].type \in TypeNames
    BY <1>3, <1>5, TestedValue
<1>9. PICK x : Tags(occ[c].type) = {x}
    BY <1>6, <1>8, TypeAssumption DEF KindAt
<1>10. key.tag = ValueAt(occ[c], s.val).tag
    BY <1>7, <1>8, <1>9
<1> HIDE DEF key
<1> QED BY <1>3, <1>4, <1>5, <1>6, <1>10, RightUnder

-----------------------------------------------------------------------------
(* The arms after the alternatives of their patterns were split. *)

ArmSet == [pat : Pats, guard : BOOLEAN]

LEMMA SplitFacts ==
    ASSUME NEW arm \in ArmSet
    PROVE  LET s == Split(arm)
               o == Options[arm.pat]
           IN  /\ s \in Seq(ArmSet) /\ Len(s) = Len(o)
               /\ \A k \in 1..Len(s) : s[k].guard = arm.guard /\ s[k].pat \in Elements(o)
               /\ \A q \in Elements(o) : \E k \in 1..Len(s) : s[k].pat = q
<1> DEFINE s == Split(arm)
           o == Options[arm.pat]
           n == Len(o)
<1>1. arm.pat \in Pats /\ arm.guard \in BOOLEAN
    BY DEF ArmSet
<1>2. o \in Seq(Pats)
    BY <1>1, OptionIs
<1>3. n \in Nat /\ \A k \in 1..n : o[k] \in Pats
    BY <1>2
<1> HIDE DEF o
<1> DEFINE r == Reverse(o)
<1>4. r = [k \in 1..n |-> o[(n - k) + 1]]
    BY Zenon DEF Reverse
<1>5. \A k \in 1..n : (n - k) + 1 \in 1..n
    BY <1>3
<1>6. Split(arm) = [k \in DOMAIN r |-> Arm(r[k], arm.guard)]
    BY Zenon DEF Split, o
<1>7. DOMAIN r = 1..n /\ \A k \in 1..n : r[k] = o[(n - k) + 1]
    BY <1>4
<1> HIDE DEF r, n
<1>8. s = [k \in 1..n |-> Arm(r[k], arm.guard)]
    BY <1>6, <1>7
<1> HIDE DEF s
<1>9. \A k \in 1..n : s[k] = Arm(r[k], arm.guard) /\ s[k] \in ArmSet
    BY <1>1, <1>3, <1>5, <1>7, <1>8 DEF Arm, ArmSet
<1>10. s \in [1..n -> ArmSet] /\ s \in Seq(ArmSet) /\ Len(s) = n
    <2>1. s \in [1..n -> ArmSet]
        BY <1>8, <1>9
    <2>2. \A A : s \in [1..n -> A] => s \in Seq(A) /\ Len(s) = n
        BY <1>3
    <2> QED BY <2>1, <2>2
<1>11. ASSUME NEW k \in 1..n
       PROVE  s[k].guard = arm.guard /\ s[k].pat = o[(n - k) + 1] /\ s[k].pat \in Elements(o)
    <2>0. s[k] = Arm(r[k], arm.guard) /\ r[k] = o[(n - k) + 1]
        BY <1>7, <1>9
    <2>1. s[k].guard = arm.guard /\ s[k].pat = o[(n - k) + 1]
        <3>1. \A x, g : Arm(x, g).guard = g /\ Arm(x, g).pat = x
            BY DEF Arm
        <3> QED BY <2>0, <3>1
    <2>2. o[(n - k) + 1] \in Elements(o)
        BY <1>5 DEF Elements, n
    <2> QED BY <2>1, <2>2
<1>12. ASSUME NEW q \in Elements(o) PROVE \E k \in 1..n : s[k].pat = q
    <2>1. PICK m \in 1..n : o[m] = q
        BY DEF Elements, n
    <2> DEFINE k == (n - m) + 1
    <2>2. k \in 1..n /\ (n - k) + 1 = m
        BY <1>3
    <2> HIDE DEF k
    <2> QED BY <1>11, <2>1, <2>2
<1>13. Len(s) = Len(o)
    BY <1>10 DEF n
<1> QED BY <1>10, <1>11, <1>12, <1>13 DEF s, o

\* Arm a of E is an alternative of arm r[a] of as.
SplitsTo(r, E, as) ==
    /\ E \in Seq(ArmSet)
    /\ \A a \in 1..Len(E) : /\ r[a] \in 1..Len(as) /\ Narrower(E[a].pat, as[r[a]].pat)
                            /\ E[a].guard = as[r[a]].guard
                            /\ r[a] = 1 /\ NoOr(as[1].pat) => a = 1
    /\ \A a, b \in 1..Len(E) : a < b => r[a] <= r[b]
    /\ \A i \in 1..Len(as) : \A v \in AllValues :
        Matches(as[i].pat, v) => \E a \in 1..Len(E) : r[a] = i /\ Matches(E[a].pat, v)

AllSplit(as) == FlattenSeq([i \in DOMAIN as |-> Split(as[i])])
SplitFrom(as) == FlattenSeq([i \in DOMAIN as |-> [k \in DOMAIN Split(as[i]) |-> i]])

LEMMA NoOrAlone ==
    ASSUME NEW pat \in Pats, NoOr(pat)
    PROVE  Len(Options[pat]) = 1
<1>1. pat.p # "or"
    BY WithinFacts DEF NoOr
<1>2. Options[pat] = <<pat>>
    BY <1>1, OptionIs
<1> QED BY <1>2

LEMMA AllSplitFacts ==
    ASSUME NEW as \in Seq(ArmSet)
    PROVE  LET r == SplitFrom(as)
           IN  r \in Seq(Nat) /\ Len(r) = Len(AllSplit(as)) /\ SplitsTo(r, AllSplit(as), as)
<1> DEFINE n == Len(as)
           ss == [i \in DOMAIN as |-> Split(as[i])]
           E == AllSplit(as)
           r == SplitFrom(as)
<1>1. n \in Nat /\ DOMAIN as = 1..n /\ \A i \in 1..n : as[i] \in ArmSet
    <2> HIDE DEF ss, E, r
    <2>1. \A A : \A s \in Seq(A) : Len(s) \in Nat /\ DOMAIN s = 1..Len(s) /\ \A i \in 1..Len(s) : s[i] \in A
        OBVIOUS
    <2> QED BY <2>1, Zenon
<1>2. E = FlattenSeq(ss)
    BY DEF AllSplit
<1>3. \A i \in 1..n : ss[i] = Split(as[i]) /\ ss[i] \in Seq(ArmSet)
    BY <1>1, SplitFacts
<1>4. ss \in [1..n -> Seq(ArmSet)]
    <2> HIDE DEF n
    <2>1. DOMAIN ss = 1..n /\ ss = [i \in 1..n |-> Split(as[i])]
        BY <1>1
    <2> QED BY <1>3, <2>1
<1>13. r = FlattenSeq(RowsIn(ss))
    <2> DEFINE ofRow(i) == [k \in DOMAIN Split(as[i]) |-> i]
    <2>1. DOMAIN ss = DOMAIN as /\ \A i \in DOMAIN as : ss[i] = Split(as[i])
        OBVIOUS
    <2> HIDE DEF ss
    <2>2. RowsIn(ss) = [i \in DOMAIN as |-> [k \in DOMAIN ss[i] |-> i]]
        BY <2>1, Zenon DEF RowsIn
    <2>3. \A i \in DOMAIN as : [k \in DOMAIN ss[i] |-> i] = ofRow(i)
        BY <2>1, Zenon
    <2>4. [i \in DOMAIN as |-> [k \in DOMAIN ss[i] |-> i]] = [i \in DOMAIN as |-> ofRow(i)]
        <3> HIDE DEF ofRow
        <3> QED BY <2>3
    <2> QED BY <2>2, <2>4, Zenon DEF SplitFrom
<1> HIDE DEF ss, E, n, r
<1>5. ss \in Seq(Seq(ArmSet)) /\ Len(ss) = n
    <2>1. \A A : ss \in [1..n -> A] => ss \in Seq(A) /\ Len(ss) = n
        BY <1>1
    <2> QED BY <1>4, <2>1
<1>6. E \in Seq(ArmSet)
    BY <1>2, <1>5, Flattened
<1>7. r \in Seq(Nat) /\ Len(r) = Len(E) /\ \E c : IsIndex(r, c, n, ss, E)
    BY <1>2, <1>5, <1>13, RowsFlattened
<1>14. PICK c : IsIndex(r, c, n, ss, E)
    BY <1>7
<1>8. /\ \A a \in 1..Len(E) : r[a] \in 1..n /\ c[a] \in 1..Len(ss[r[a]]) /\ E[a] = ss[r[a]][c[a]]
      /\ \A i \in 1..n : \A j \in 1..Len(ss[i]) : \E a \in 1..Len(E) : r[a] = i /\ c[a] = j
      /\ \A a, b \in 1..Len(E) : a < b => r[a] <= r[b]
      /\ \A a, b \in 1..Len(E) : a # b => r[a] # r[b] \/ c[a] # c[b]
    BY <1>14 DEF IsIndex
<1>9. ASSUME NEW i \in 1..n, NEW j \in 1..Len(ss[i])
      PROVE  ss[i][j].guard = as[i].guard /\ Narrower(ss[i][j].pat, as[i].pat) /\ as[i].pat \in Pats
    <2>1. as[i] \in ArmSet /\ as[i].pat \in Pats
        BY <1>1 DEF ArmSet
    <2>2. ss[i][j].guard = as[i].guard /\ ss[i][j].pat \in Elements(Options[as[i].pat])
        BY <1>3, <2>1, SplitFacts
    <2> QED BY <2>1, <2>2, OptionIs
<1>10. ASSUME NEW a \in 1..Len(E)
       PROVE  /\ r[a] \in 1..n /\ Narrower(E[a].pat, as[r[a]].pat) /\ E[a].guard = as[r[a]].guard
              /\ r[a] = 1 /\ NoOr(as[1].pat) => a = 1
    <2>1. r[a] \in 1..n /\ c[a] \in 1..Len(ss[r[a]]) /\ E[a] = ss[r[a]][c[a]]
        BY <1>8
    <2>2. ASSUME r[a] = 1, NoOr(as[1].pat), a # 1 PROVE FALSE
        <3>1. Len(E) \in Nat /\ a \in Nat
            BY <1>6
        <3>2. 1 \in 1..Len(E) /\ 1 < a
            BY <2>2, <3>1
        <3>3. r[1] <= r[a] /\ r[1] \in 1..n
            BY <1>8, <3>2
        <3>4. r[1] = 1
            BY <1>1, <2>2, <3>3
        <3>5. Len(ss[1]) = 1
            <4>1. as[1] \in ArmSet /\ as[1].pat \in Pats /\ ss[1] = Split(as[1])
                BY <1>1, <1>3, <2>1, <2>2 DEF ArmSet
            <4> QED BY <2>2, <4>1, SplitFacts, NoOrAlone
        <3>6. c[1] \in 1..1 /\ c[a] \in 1..1
            BY <1>8, <2>2, <3>2, <3>4, <3>5
        <3>7. c[1] = c[a]
            BY <3>6
        <3> QED BY <1>8, <2>2, <3>2, <3>4, <3>7
    <2> QED BY <1>9, <2>1, <2>2
<1>11. ASSUME NEW i \in 1..n, NEW v \in AllValues, Matches(as[i].pat, v)
       PROVE  \E a \in 1..Len(E) : r[a] = i /\ Matches(E[a].pat, v)
    <2>1. as[i] \in ArmSet /\ as[i].pat \in Pats /\ ss[i] = Split(as[i])
        BY <1>1, <1>3 DEF ArmSet
    <2>2. PICK o \in Elements(Options[as[i].pat]) : Matches(o, v)
        BY <1>11, <2>1, OptionIs
    <2>3. PICK j \in 1..Len(ss[i]) : ss[i][j].pat = o
        <3> DEFINE arm == as[i]
        <3>1. arm \in ArmSet /\ o \in Elements(Options[arm.pat]) /\ ss[i] = Split(arm)
            BY <2>1
        <3> HIDE DEF arm
        <3>2. \A q \in Elements(Options[arm.pat]) : \E k \in 1..Len(Split(arm)) : Split(arm)[k].pat = q
            BY <3>1, SplitFacts
        <3> QED BY <3>1, <3>2
    <2>4. PICK a \in 1..Len(E) : r[a] = i /\ c[a] = j
        BY <1>8
    <2>5. E[a] = ss[i][j]
        BY <1>8, <2>4
    <2> QED BY <2>2, <2>3, <2>4, <2>5
<1>12. SplitsTo(r, E, as)
    BY <1>6, <1>8, <1>10, <1>11 DEF SplitsTo, n
<1> QED BY <1>7, <1>12 DEF E, r

\* One arm without alternatives to split, as for `is`.
LEMMA OneSplit ==
    ASSUME NEW as, as \in Seq(ArmSet), 1..Len(as) = {1}
    PROVE  \E r : SplitsTo(r, as, as)
<1> DEFINE r == [a \in {1} |-> 1]
           D == 1..Len(as)
<1>1. \A k \in D : as[k] \in ArmSet
    BY ElementOfSeq
<1>2. ~(1 < 1)
    OBVIOUS
<1>3. D = {1} /\ \A a \in D : a = 1 /\ r[a] = 1
    OBVIOUS
<1> HIDE DEF D, r
<1>4. as[1].pat \in Pats
    BY <1>1, <1>3 DEF ArmSet
<1>5. Narrower(as[1].pat, as[1].pat)
    BY <1>4, NarrowerSelf
<1>6. \A a \in D : /\ r[a] \in D /\ Narrower(as[a].pat, as[r[a]].pat)
                   /\ as[a].guard = as[r[a]].guard
                   /\ r[a] = 1 /\ NoOr(as[1].pat) => a = 1
    BY <1>3, <1>5, Zenon
<1>7. \A a, b \in D : a < b => r[a] <= r[b]
    BY <1>2, <1>3, Zenon
<1>8. \A i \in D : \A v \in AllValues : Matches(as[i].pat, v) => \E a \in D : r[a] = i /\ Matches(as[a].pat, v)
    BY <1>3, Zenon
<1>9. SplitsTo(r, as, as)
    BY <1>6, <1>7, <1>8, Zenon DEF SplitsTo, D
<1> QED BY <1>9

-----------------------------------------------------------------------------
(* The matrix that compile_matrix starts with. *)

TypedArms(as, t) ==
    /\ as \in Seq(ArmSet) /\ t \in TypeNames
    /\ \A i \in 1..Len(as) : as[i].pat \in Pats /\ as[i].guard \in BOOLEAN /\ t \in TypesOf[as[i].pat]

\* The arms that InStep is about.
LEMMA InStepIs ==
    ASSUME TypedArms(arms, ty), InStep
    PROVE  /\ \A i \in 1..Len(arms) : Fine(arms[i].pat)
           /\ \A i, j \in 1..Len(arms) :
                /\ ApartAlike(arms[i].pat, arms[j].pat)
                /\ arms[i].guard /\ i <= j /\ ~(i = 1 /\ NoOr(arms[1].pat)) => Passes(arms[i].pat, arms[j].pat)
<1>1. arms \in Seq(ArmSet)
    BY DEF TypedArms
<1>2. DOMAIN arms = 1..Len(arms)
    BY <1>1
<1>3. \A i \in DOMAIN arms : Fine(arms[i].pat)
    BY DEF InStep, ElementsArePlain, AliasesAreSimple, Fine
<1>4. \A i, j \in DOMAIN arms : ApartAlike(arms[i].pat, arms[j].pat)
    BY DEF InStep, RecordsApart
<1>5. \A i, j \in DOMAIN arms : arms[i].guard /\ i <= j /\ ~(i = 1 /\ NoOr(arms[1].pat)) => Passes(arms[i].pat, arms[j].pat)
    BY DEF InStep, GuardsTest
<1> QED BY <1>2, <1>3, <1>4, <1>5

LEMMA SplitArm ==
    ASSUME TypedArms(arms, ty), InStep, NEW r, NEW E, SplitsTo(r, E, arms)
    PROVE  /\ E \in Seq(ArmSet) /\ Len(E) \in Nat /\ DOMAIN E = 1..Len(E)
           /\ \A a \in 1..Len(E) :
                /\ E[a].pat \in Pats /\ E[a].guard \in BOOLEAN
                /\ ty \in TypesOf[E[a].pat] /\ Fine(E[a].pat)
           /\ \A a, b \in 1..Len(E) :
                /\ ApartAlike(E[a].pat, E[b].pat)
                /\ E[a].guard /\ a <= b /\ ~(a = 1 /\ NoOr(E[a].pat)) => Passes(E[a].pat, E[b].pat)
<1>1. /\ E \in Seq(ArmSet)
      /\ \A a \in 1..Len(E) : /\ r[a] \in 1..Len(arms) /\ Narrower(E[a].pat, arms[r[a]].pat)
                              /\ E[a].guard = arms[r[a]].guard
                              /\ r[a] = 1 /\ NoOr(arms[1].pat) => a = 1
      /\ \A a, b \in 1..Len(E) : a < b => r[a] <= r[b]
    BY DEF SplitsTo
<1>2. Len(E) \in Nat /\ DOMAIN E = 1..Len(E)
    BY <1>1
<1>3. /\ ty \in TypeNames /\ arms \in Seq(ArmSet) /\ Len(arms) \in Nat
      /\ \A i \in 1..Len(arms) : arms[i].pat \in Pats /\ arms[i].guard \in BOOLEAN /\ ty \in TypesOf[arms[i].pat]
    BY DEF TypedArms
<1>4. ASSUME NEW a \in 1..Len(E)
      PROVE  /\ E[a].pat \in Pats /\ E[a].guard \in BOOLEAN
             /\ ty \in TypesOf[E[a].pat] /\ Fine(E[a].pat)
             /\ NoOr(arms[r[a]].pat) => NoOr(E[a].pat)
    <2> DEFINE p == arms[r[a]].pat
               q == E[a].pat
    <2>1. r[a] \in 1..Len(arms) /\ Narrower(q, p) /\ E[a].guard = arms[r[a]].guard
        BY <1>1
    <2>2. p \in Pats /\ E[a].guard \in BOOLEAN /\ ty \in TypesOf[p] /\ Fine(p)
        BY <1>3, <2>1, InStepIs
    <2> HIDE DEF p, q
    <2>3. q \in Within[p] /\ TypesOf[p] \subseteq TypesOf[q] /\ q \in Pats
        BY <2>1 DEF Narrower
    <2>4. Fine(q) /\ (NoOr(p) => NoOr(q))
        BY <2>2, <2>3, FineWithin DEF Fine
    <2> QED BY <2>2, <2>3, <2>4 DEF p, q
<1>5. ASSUME NEW a \in 1..Len(E), NEW b \in 1..Len(E)
      PROVE  /\ ApartAlike(E[a].pat, E[b].pat)
             /\ E[a].guard /\ a <= b /\ ~(a = 1 /\ NoOr(E[a].pat)) => Passes(E[a].pat, E[b].pat)
    <2>1. /\ r[a] \in 1..Len(arms) /\ Narrower(E[a].pat, arms[r[a]].pat) /\ E[a].guard = arms[r[a]].guard
          /\ r[b] \in 1..Len(arms) /\ Narrower(E[b].pat, arms[r[b]].pat)
        BY <1>1
    <2>2. ApartAlike(arms[r[a]].pat, arms[r[b]].pat)
        BY <2>1, InStepIs
    <2>3. ApartAlike(E[a].pat, E[b].pat)
        BY <2>1, <2>2, ApartNarrower
    <2>4. ASSUME E[a].guard, a <= b, ~(a = 1 /\ NoOr(E[a].pat))
          PROVE  Passes(E[a].pat, E[b].pat)
        <3>1. r[a] <= r[b]
            <4>1. CASE a = b
                <5>1. r[a] \in Nat
                    BY <1>3, <2>1
                <5> QED BY <4>1, <5>1
            <4>2. CASE a # b
                <5>1. a < b
                    BY <1>2, <2>4, <4>2
                <5> QED BY <1>1, <5>1
            <4> QED BY <4>1, <4>2
        <3>2. ~(r[a] = 1 /\ NoOr(arms[1].pat))
            BY <1>1, <1>4, <2>4
        <3>3. Passes(arms[r[a]].pat, arms[r[b]].pat)
            BY <2>1, <2>4, <3>1, <3>2, InStepIs
        <3> QED BY <2>1, <3>3, ApartNarrower
    <2> QED BY <2>3, <2>4
<1> QED BY <1>1, <1>2, <1>4, <1>5

RowsOf(E) == [i \in DOMAIN E |-> [pats |-> <<E[i].pat>>, arm |-> i, guard |-> E[i].guard]]

LEMMA RowsOfFacts ==
    ASSUME NEW E \in Seq(ArmSet)
    PROVE  /\ RowsOf(E) \in Seq(MatrixRows) /\ Len(RowsOf(E)) = Len(E)
           /\ \A i \in 1..Len(E) :
                LET row == RowsOf(E)[i]
                IN  /\ row.pats = <<E[i].pat>> /\ Len(row.pats) = 1 /\ row.pats[1] = E[i].pat
                    /\ row.arm = i /\ row.guard = E[i].guard
<1> DEFINE n == Len(E)
           R == RowsOf(E)
<1>1. n \in Nat /\ DOMAIN E = 1..n /\ \A i \in 1..n : E[i] \in ArmSet
    BY ElementOfSeq
<1>2. R = [i \in 1..n |-> [pats |-> <<E[i].pat>>, arm |-> i, guard |-> E[i].guard]]
    BY <1>1 DEF RowsOf
<1> HIDE DEF R, n
<1>3. ASSUME NEW i \in 1..n
      PROVE  /\ R[i] \in MatrixRows
             /\ R[i].pats = <<E[i].pat>> /\ Len(R[i].pats) = 1 /\ R[i].pats[1] = E[i].pat
             /\ R[i].arm = i /\ R[i].guard = E[i].guard
    <2> DEFINE p == E[i].pat
               g == E[i].guard
    <2>1. p \in Pats /\ g \in BOOLEAN /\ i \in Nat
        BY <1>1 DEF ArmSet
    <2>2. R[i] = [pats |-> <<p>>, arm |-> i, guard |-> g]
        BY <1>2
    <2> HIDE DEF p, g
    <2>3. <<p>> \in Seq(Pats) /\ Len(<<p>>) = 1 /\ <<p>>[1] = p
        BY <2>1, SingleSeq
    <2> DEFINE s == <<p>>
    <2> HIDE DEF s
    <2>4. s \in Seq(Pats) /\ Len(s) = 1 /\ s[1] = p /\ R[i] = [pats |-> s, arm |-> i, guard |-> g]
        BY <2>2, <2>3 DEF s
    <2>5. R[i] \in MatrixRows /\ R[i].pats = s /\ R[i].arm = i /\ R[i].guard = g
        BY <2>1, <2>4 DEF MatrixRows
    <2> QED BY <2>4, <2>5 DEF p, g, s
<1>4. R \in Seq(MatrixRows) /\ Len(R) = n
    <2>1. DOMAIN R = 1..n /\ \A i \in 1..n : R[i] \in MatrixRows
        BY <1>2, <1>3
    <2>2. R \in [1..n -> MatrixRows]
        BY <1>2, <2>1
    <2>3. \A A : R \in [1..n -> A] => R \in Seq(A) /\ Len(R) = n
        BY <1>1
    <2> QED BY <2>2, <2>3
<1> QED BY <1>3, <1>4 DEF R, n

RootOf(t) == [path |-> <<>>, type |-> t]

LEMMA RootPlace ==
    ASSUME NEW t \in TypeNames
    PROVE  LET occ == <<RootOf(t)>>
           IN  /\ occ \in Seq(Places) /\ Len(occ) = 1 /\ occ[1] = RootOf(t) /\ occ # <<>>
               /\ RootOf(t) \in Places /\ RootOf(t).type = t
               /\ \A v \in AllValues : ValueAt(RootOf(t), v) = v
<1> DEFINE x == RootOf(t)
<1>1. x \in Places /\ x.type = t /\ x.path = <<>>
    BY DEF RootOf, Places
<1> HIDE DEF x
<1>2. \A v \in AllValues : ValueAt(x, v) = v
    BY <1>1, ValueAtFacts DEF Readable
<1>3. <<x>> \in Seq(Places) /\ Len(<<x>>) = 1 /\ <<x>>[1] = x /\ <<x>> # <<>>
    BY <1>1, SingleSeq
<1> QED BY <1>1, <1>2, <1>3 DEF x

LEMMA RootGood ==
    ASSUME TypedArms(arms, ty), InStep, NEW r, NEW E, SplitsTo(r, E, arms)
    PROVE  IsGood(RowsOf(E), <<RootOf(ty)>>)
<1> DEFINE R == RowsOf(E)
           root == RootOf(ty)
           occ == <<root>>
           n == Len(E)
<1>1. E \in Seq(ArmSet) /\ n \in Nat
    BY SplitArm
<1>2. R \in Seq(MatrixRows) /\ Len(R) = n
    BY <1>1, RowsOfFacts
<1>3. \A i \in 1..n : /\ Len(R[i].pats) = 1 /\ R[i].pats[1] = E[i].pat
                      /\ R[i].arm = i /\ R[i].guard = E[i].guard
    BY <1>1, RowsOfFacts
<1>4. ty \in TypeNames
    BY DEF TypedArms
<1>5. occ \in Seq(Places) /\ Len(occ) = 1 /\ occ[1] = root /\ occ # <<>> /\ root.type = ty
    BY <1>4, RootPlace
<1>6. \A a \in 1..n : Suits(E[a].pat, root)
    BY <1>5, SplitArm DEF Suits
<1>7. \A a, b \in 1..n : ApartAlike(E[a].pat, E[b].pat)
    BY SplitArm
<1>8. \A a, b \in 1..n : E[a].guard /\ a <= b /\ ~(a = 1 /\ NoOr(E[a].pat)) => Passes(E[a].pat, E[b].pat)
    BY SplitArm
<1> HIDE DEF R, root, occ, n
<1>9. \A k \in 1..Len(occ) : k = 1
    <2>1. \A k \in 1..1 : k = 1
        OBVIOUS
    <2> QED BY <1>5, <2>1
<1>10. IsMatrix(R, occ)
    BY <1>2, <1>5 DEF IsMatrix
<1>11. InOrder(R)
    <2>1. \A i, j \in 1..n : i < j => i <= j
        BY <1>1
    <2> QED BY <1>2, <1>3, <2>1 DEF InOrder
<1>12. \A i \in 1..Len(R) : RowSuits(R[i], occ)
    <2> SUFFICES ASSUME NEW i \in 1..n PROVE RowSuits(R[i], occ)
        BY <1>2
    <2>1. Len(R[i].pats) = Len(occ)
        BY <1>3, <1>5
    <2>2. \A k \in 1..Len(occ) : Suits(R[i].pats[k], occ[k])
        BY <1>3, <1>5, <1>6, <1>9
    <2> QED BY <1>5, <2>1, <2>2 DEF RowSuits
<1>13. ~(Len(occ) >= 2)
    BY <1>5
<1>14. ColumnsApart(R, occ)
    BY <1>2, <1>3, <1>7, <1>9 DEF ColumnsApart
<1>15. GuardsPass(R, occ)
    <2> SUFFICES ASSUME NEW i \in 1..n, NEW j \in 1..n, NEW k \in 1..Len(occ),
                        R[i].guard, R[i].arm <= R[j].arm, ~(i = 1 /\ NoOr(R[i].pats[k]))
                 PROVE  Passes(R[i].pats[k], R[j].pats[k])
        BY <1>2 DEF GuardsPass
    <2>1. k = 1
        BY <1>9
    <2>2. E[i].guard /\ i <= j /\ ~(i = 1 /\ NoOr(E[i].pat))
        BY <1>3, <2>1
    <2>3. Passes(E[i].pat, E[j].pat)
        BY <1>8, <2>2
    <2> QED BY <1>3, <2>1, <2>3
<1>16. IsGood(R, occ)
    BY <1>10, <1>11, <1>12, <1>13, <1>14, <1>15 DEF IsGood
<1> QED BY <1>16 DEF R, occ, root

\* The rows fit the values their patterns match.
LEMMA RootFits ==
    ASSUME NEW t \in TypeNames, NEW E \in Seq(ArmSet), NEW v \in Inhabitants[t]
    PROVE  /\ PlacesHold(<<RootOf(t)>>, v)
           /\ \A i \in 1..Len(E) : FitsAt(RowsOf(E)[i], <<RootOf(t)>>, v) <=> Matches(E[i].pat, v)
<1> DEFINE occ == <<RootOf(t)>>
           R == RowsOf(E)
           n == Len(E)
<1>1. v \in AllValues
    BY DEF AllValues
<1>2. Len(occ) = 1 /\ occ[1] = RootOf(t) /\ RootOf(t).type = t /\ ValueAt(RootOf(t), v) = v
    BY <1>1, RootPlace
<1>3. \A i \in 1..n : R[i].pats[1] = E[i].pat
    BY RowsOfFacts
<1> HIDE DEF occ, R, n
<1>4. 1..Len(occ) = {1}
    <2>1. 1..1 = {1}
        OBVIOUS
    <2> QED BY <1>2, <2>1
<1>5. PlacesHold(occ, v)
    BY <1>2, <1>4 DEF PlacesHold
<1>6. \A i \in 1..n : FitsAt(R[i], occ, v) <=> Matches(E[i].pat, v)
    BY <1>2, <1>3, <1>4 DEF FitsAt
<1> QED BY <1>5, <1>6 DEF occ, R, n

-----------------------------------------------------------------------------
(* The inductive invariant. *)

Matched(v) == {a \in DOMAIN ExpandedArms : Matches(ExpandedArms[a].pat, v)}
Guarded == {a \in DOMAIN ExpandedArms : ExpandedArms[a].guard}
ViewOf(v, ref) ==
    [val |-> v, matched |-> Matched(v), open |-> Matched(v) \ ref, guarded |-> Guarded, is |-> (mode = "is")]
View == ViewOf(val, refused)
Open == Matched(val) \ refused

IsArm == \E pat \in Pats : arms = <<Arm(pat, FALSE)>> /\ ty \in TypeNames /\ ty \in TypesOf[pat]

MTypeInv ==
    /\ mode \in {"match", "is"}
    /\ mode = "match" => UInv
    /\ mode = "is" => IsArm

Outcome ==
    \/ out = <<"none">> /\ RightNode(node, View)
    \/ \E a : out = <<"arm", a>> /\ ArmRight(a, View)
    \/ out = <<"true">> /\ mode = "is" /\ \E a : ArmRight(a, View)
    \/ out = <<"false">> /\ mode = "is" /\ Open = {}
    \/ out = <<"unreachable">> /\ mode = "match" /\ Open = {}

RunInv ==
    /\ node.n = "none" => out = <<"none">> /\ refused = {}
    /\ node.n # "none" => val \in Values /\ refused \subseteq Guarded /\ Outcome

MInv ==
    /\ MTypeInv
    /\ mode = "match" /\ verdict # "ok" => node.n = "none"
    /\ InStep => RunInv

LEMMA ViewFacts ==
    ASSUME NEW v, NEW ref
    PROVE  /\ ViewOf(v, ref).val = v /\ ViewOf(v, ref).matched = Matched(v) /\ ViewOf(v, ref).open = Matched(v) \ ref
           /\ ViewOf(v, ref).guarded = Guarded /\ (ViewOf(v, ref).is <=> mode = "is")
BY DEF ViewOf

\* The arms, split.
ArmsSplit ==
    /\ TypedArms(arms, ty)
    /\ \E r : SplitsTo(r, ExpandedArms, arms)
    /\ mode = "is" => ExpandedArms = arms /\ 1..Len(arms) = {1} /\ Guarded = {}
    /\ ExpandedArms \in Seq(ArmSet) /\ DOMAIN ExpandedArms = 1..Len(ExpandedArms)

LEMMA ArmsKnown == ASSUME MTypeInv PROVE ArmsSplit
<1>1. CASE mode = "match"
    <2>1. ArmsOf(ty, arms)
        BY <1>1 DEF MTypeInv, UInv, UTypeInv
    <2>2. TypedArms(arms, ty)
        BY <2>1, ArmFacts DEF TypedArms, ArmSet
    <2>3. ExpandedArms = AllSplit(arms)
        BY <1>1, Zenon DEF ExpandedArms, AllSplit
    <2>4. \E r : SplitsTo(r, ExpandedArms, arms)
        <3>1. arms \in Seq(ArmSet)
            BY <2>2 DEF TypedArms
        <3> QED BY <2>3, <3>1, AllSplitFacts
    <2>5. ExpandedArms \in Seq(ArmSet)
        BY <2>4 DEF SplitsTo
    <2>6. DOMAIN ExpandedArms = 1..Len(ExpandedArms)
        BY <2>5
    <2> QED BY <1>1, <2>2, <2>4, <2>5, <2>6 DEF ArmsSplit
<1>2. CASE mode = "is"
    <2>1. PICK pat \in Pats : arms = <<Arm(pat, FALSE)>> /\ ty \in TypeNames /\ ty \in TypesOf[pat]
        BY <1>2 DEF MTypeInv, IsArm
    <2> DEFINE arm == Arm(pat, FALSE)
    <2>2. arm \in ArmSet /\ arm.pat = pat /\ arm.guard = FALSE
        BY DEF Arm, ArmSet
    <2> HIDE DEF arm
    <2>3. arms = <<arm>> /\ ty \in TypeNames /\ ty \in TypesOf[pat]
        BY <2>1 DEF arm
    <2>4. <<arm>> \in Seq(ArmSet) /\ Len(<<arm>>) = 1 /\ <<arm>>[1] = arm
        BY <2>2, SingleSeq
    <2>5. arms \in Seq(ArmSet) /\ Len(arms) = 1 /\ arms[1] = arm
        BY <2>3, <2>4
    <2>6. 1..Len(arms) = {1} /\ DOMAIN arms = {1}
        <3>1. 1..1 = {1}
            OBVIOUS
        <3>2. DOMAIN arms = 1..Len(arms)
            BY <2>5
        <3> QED BY <2>5, <3>1, <3>2
    <2>7. TypedArms(arms, ty)
        BY <2>2, <2>3, <2>5, <2>6 DEF TypedArms
    <2>8. ExpandedArms = arms
        BY <1>2, Zenon DEF ExpandedArms
    <2>9. \E r : SplitsTo(r, arms, arms)
        BY <2>5, <2>6, OneSplit
    <2>10. Guarded = {}
        BY <2>2, <2>5, <2>6, <2>8 DEF Guarded
    <2> QED BY <2>5, <2>6, <2>7, <2>8, <2>9, <2>10 DEF ArmsSplit
<1> QED BY <1>1, <1>2 DEF MTypeInv

LEMMA MInvInit == MInit => MInv
<1> SUFFICES ASSUME MInit PROVE MInv
    OBVIOUS
<1>1. node.n = "none" /\ refused = {} /\ out = <<"none">>
    BY DEF MInit, leaf
<1>2. CASE mode = "match" /\ UInit
    BY <1>1, <1>2, UInvInit DEF MInv, MTypeInv, RunInv
<1>3. CASE mode = "is" /\ \E m \in IsPatterns : ty = m[1] /\ arms = <<Arm(m[2], FALSE)>>
    <2>1. IsArm
        BY <1>3, TreeAssumption DEF IsArm
    <2> QED BY <1>1, <1>3, <2>1 DEF MInv, MTypeInv, RunInv
<1> QED BY <1>2, <1>3 DEF MInit

\* What does not change the arms.
LEMMA SameArmsStep ==
    ASSUME mode' = mode, ty' = ty, arms' = arms
    PROVE  /\ ExpandedArms' = ExpandedArms /\ Guarded' = Guarded /\ Values' = Values
           /\ InStep' <=> InStep
           /\ View' = ViewOf(val', refused')
           /\ Open' = ViewOf(val', refused').open
<1>1. ExpandedArms' = ExpandedArms
    BY Zenon DEF ExpandedArms
<1>2. Guarded' = Guarded
    BY <1>1 DEF Guarded
<1> DEFINE v == val'
           ref == refused'
<1>4. (Matched(val))' = Matched(v)
    BY <1>1 DEF Matched
<1>5. View' = ViewOf(v, ref)
    BY <1>2, <1>4 DEF View, ViewOf
<1>6. Open' = Matched(v) \ ref
    BY <1>4 DEF Open
<1>3. InStep' <=> InStep
    BY DEF InStep, ElementsArePlain, AliasesAreSimple, RecordsApart, GuardsTest
<1> QED BY <1>1, <1>2, <1>3, <1>5, <1>6, ViewFacts DEF Values

LEMMA MTypeStep ==
    ASSUME MTypeInv, [MNext]_mvars
    PROVE  MTypeInv' /\ mode' = mode /\ ty' = ty /\ arms' = arms
<1>1. CASE Check
    <2>1. mode = "match" /\ UNext /\ mode' = mode
        BY <1>1 DEF Check
    <2>2. UInv'
        BY <2>1, UInvNext DEF MTypeInv
    <2>3. ty' = ty /\ arms' = arms
        BY <2>1 DEF UNext, ArmUnreachable, ArmUseful, Conclude
    <2> QED BY <2>1, <2>2, <2>3 DEF MTypeInv
<1>2. CASE UNCHANGED <<ty, arms, idx, matrix, verdict, mode>>
    <2>1. ty' = ty /\ arms' = arms /\ idx' = idx /\ matrix' = matrix /\ verdict' = verdict /\ mode' = mode
        BY <1>2
    <2>2. UNCHANGED uvars
        BY <2>1 DEF uvars
    <2>3. UInv => UInv'
        BY <2>2, UInvNext
    <2>4. IsArm => IsArm'
        BY <2>1 DEF IsArm
    <2> QED BY <2>1, <2>3, <2>4 DEF MTypeInv
<1>3. MNext => Check \/ UNCHANGED <<ty, arms, idx, matrix, verdict, mode>>
    BY DEF MNext, Lower, AtArm, GuardTrue, GuardFalse, Switch, GoOn, AtLeaf, Static
<1>4. UNCHANGED mvars => UNCHANGED <<ty, arms, idx, matrix, verdict, mode>>
    BY DEF mvars
<1> QED BY <1>1, <1>2, <1>3, <1>4

\* While the match is checked nothing runs.
LEMMA CheckStep ==
    ASSUME MInv, Check
    PROVE  MInv'
<1>1. mode = "match" /\ UNext /\ UNCHANGED <<mode, val, node, env, refused, out>>
    BY DEF Check
<1>2. verdict = "none"
    BY <1>1 DEF UNext, ArmUnreachable, ArmUseful, Conclude, Looking
<1>3. node.n = "none" /\ node' = node /\ out' = out /\ refused' = refused
    BY <1>1, <1>2 DEF MInv
<1>4. MTypeInv' /\ mode' = mode /\ ty' = ty /\ arms' = arms
    BY MTypeStep DEF MInv, MNext
<1>5. InStep' => RunInv'
    BY <1>3, <1>4, SameArmsStep DEF MInv, RunInv
<1> QED BY <1>3, <1>4, <1>5 DEF MInv

\* The tree of the match is right for any value.
LEMMA RootRight ==
    ASSUME MTypeInv, InStep, NEW v, v \in Values, NEW ref
    PROVE  RightNode(Compile[<<Rows, <<Root>>>>], ViewOf(v, ref))
<1> DEFINE E == ExpandedArms
           R == RowsOf(E)
           occ == <<RootOf(ty)>>
<1>1. ArmsSplit
    BY ArmsKnown
<1>2. E \in Seq(ArmSet) /\ DOMAIN E = 1..Len(E) /\ TypedArms(arms, ty) /\ \E r : SplitsTo(r, E, arms)
    BY <1>1 DEF ArmsSplit
<1>3. IsGood(R, occ)
    BY <1>2, RootGood
<1>4. ty \in TypeNames /\ v \in Inhabitants[ty]
    BY <1>2 DEF TypedArms, Values
<1>5. Rows = R /\ Root = RootOf(ty)
    BY Zenon DEF Rows, RowsOf, Root, RootOf
<1>6. Len(R) = Len(E) /\ \A i \in 1..Len(E) : R[i].arm = i /\ R[i].guard = E[i].guard
    BY <1>2, RowsOfFacts
<1>7. PlacesHold(occ, v) /\ \A i \in 1..Len(E) : FitsAt(R[i], occ, v) <=> Matches(E[i].pat, v)
    BY <1>2, <1>4, RootFits
<1>8. v \in AllValues
    BY <1>4 DEF AllValues
<1>9. mode = "is" => R # <<>>
    <2> SUFFICES ASSUME mode = "is", R = <<>> PROVE FALSE
        OBVIOUS
    <2>1. E = arms /\ 1 \in 1..Len(arms)
        BY <1>1 DEF ArmsSplit
    <2>2. 1 \in 1..Len(R)
        BY <1>6, <2>1
    <2> HIDE DEF R
    <2>3. Len(R) = 0
        OBVIOUS
    <2> QED BY <2>2, <2>3
<1> HIDE DEF R, occ
<1>10. Fair(R, occ, ViewOf(v, ref))
    <2>1. \A i \in 1..Len(R) : FitsAt(R[i], occ, v) => R[i].arm \in Matched(v)
        BY <1>2, <1>6, <1>7 DEF Matched
    <2>2. \A a \in Matched(v) \ ref : \E i \in 1..Len(R) : R[i].arm = a /\ FitsAt(R[i], occ, v)
        BY <1>2, <1>6, <1>7 DEF Matched
    <2>3. \A i \in 1..Len(R) : R[i].guard => R[i].arm \in Guarded
        BY <1>2, <1>6 DEF Guarded
    <2> QED BY <1>7, <1>8, <2>1, <2>2, <2>3, ViewFacts DEF Fair
<1>11. RightNode(Compile[<<R, occ>>], ViewOf(v, ref))
    BY <1>3, <1>9, <1>10, ViewFacts DEF RightNode
<1> QED BY <1>5, <1>11 DEF occ

LEMMA RightNotNone ==
    ASSUME NEW x, NEW s, RightNode(x, s)
    PROVE  x.n # "none"
<1>1. ASSUME NEW rows, NEW occ, IsNodeOf(x, rows, occ)
      PROVE  x.n # "none"
    BY <1>1, NodeKind DEF NodeKinds
<1>2. leaf("fail").n # "none"
    BY DEF leaf
<1>3. CASE x = leaf("fail")
    BY <1>2, <1>3
<1>4. CASE x.n = "arm"
    BY <1>4
<1> QED BY <1>1, <1>3, <1>4, RightCases, Zenon

LEMMA LowerStep ==
    ASSUME MInv, Lower
    PROVE  MInv'
<1> DEFINE tree == Compile[<<Rows, <<Root>>>>]
<1>1. /\ verdict \in {"ok", "is"} /\ node.n = "none" /\ node' = tree
      /\ \/ tree.n = "error"
         \/ tree.n # "error" /\ val' \in Values /\ out' = out /\ refused' = refused
      /\ verdict' = verdict /\ mode' = mode /\ ty' = ty /\ arms' = arms
    <2> HIDE DEF tree
    <2> QED BY DEF Lower, tree
<1> HIDE DEF tree
<1>2. MTypeInv
    BY DEF MInv
<1>3. MTypeInv'
    BY <1>2, MTypeStep DEF MNext
<1>4. mode = "match" => verdict = "ok"
    BY <1>1, <1>2 DEF MTypeInv, UInv, UTypeInv
<1>5. (mode = "match" /\ verdict # "ok" => node.n = "none")'
    BY <1>1, <1>4
<1>6. ASSUME InStep' PROVE RunInv'
    <2>1. InStep /\ Values' = Values /\ Guarded' = Guarded
        BY <1>1, <1>6, SameArmsStep
    <2>2. out = <<"none">> /\ refused = {}
        BY <1>1, <2>1 DEF MInv, RunInv
    <2>3. \A v \in Values : \A ref : RightNode(tree, ViewOf(v, ref))
        BY <1>2, <2>1, RootRight DEF tree
    <2>4. \E v : v \in Values
        <3>1. ty \in TypeNames
            BY <1>2, ArmsKnown DEF ArmsSplit, TypedArms
        <3> QED BY <3>1, TypeAssumption DEF Values
    <2>5. PICK v : v \in Values
        BY <2>4
    <2>6. RightNode(tree, ViewOf(v, refused))
        BY <2>3, <2>5
    <2>7. tree.n # "error" /\ tree.n # "none"
        BY <2>6, RightEnd, RightNotNone
    <2>8. val' \in Values /\ out' = <<"none">> /\ refused' = {}
        BY <1>1, <2>2, <2>7
    <2>9. RightNode(tree, ViewOf(val', refused'))
        BY <2>3, <2>8
    <2>10. RightNode(node, View)'
        BY <1>1, <2>9, SameArmsStep
    <2>11. Outcome'
        BY <2>8, <2>10 DEF Outcome
    <2> QED BY <1>1, <2>1, <2>7, <2>8, <2>11 DEF RunInv
<1> QED BY <1>3, <1>5, <1>6 DEF MInv

\* A step of the tree.
LEMMA RunStep ==
    ASSUME MInv, MNext, Static, node.n # "none", InStep => RunInv'
    PROVE  MInv'
<1>1. MTypeInv' /\ mode' = mode /\ ty' = ty /\ arms' = arms /\ verdict' = verdict
    BY MTypeStep DEF MInv, Static
<1>2. mode = "match" => verdict = "ok"
    BY DEF MInv
<1>3. InStep' => RunInv'
    BY <1>1, SameArmsStep
<1> QED BY <1>1, <1>2, <1>3 DEF MInv

LEMMA Running ==
    ASSUME MInv, InStep, out = <<"none">>, node.n # "none"
    PROVE  RightNode(node, View) /\ val \in Values /\ refused \subseteq Guarded
<1>1. Outcome /\ val \in Values /\ refused \subseteq Guarded
    BY DEF MInv, RunInv
<1>2. \A a : out # <<"arm", a>>
    OBVIOUS
<1>3. out # <<"true">> /\ out # <<"false">> /\ out # <<"unreachable">>
    OBVIOUS
<1> QED BY <1>1, <1>2, <1>3, Zenon DEF Outcome

\* What Static leaves as it is.
LEMMA StaticStep ==
    ASSUME Static
    PROVE  /\ mode' = mode /\ Values' = Values /\ Guarded' = Guarded /\ val' = val
           /\ View' = ViewOf(val, refused') /\ Open' = ViewOf(val, refused').open
<1>1. mode' = mode /\ ty' = ty /\ arms' = arms /\ val' = val
    BY DEF Static
<1> QED BY <1>1, SameArmsStep

\* Control goes on to a node that is right for the value.
LEMMA GoesOn ==
    ASSUME Static, val \in Values, refused' \subseteq Guarded, out' = <<"none">>, RightNode(node', ViewOf(val, refused'))
    PROVE  RunInv'
<1>1. RightNode(node, View)'
    BY StaticStep
<1>2. node'.n # "none"
    BY RightNotNone
<1>3. val' \in Values' /\ refused' \subseteq Guarded'
    BY StaticStep
<1>4. Outcome'
    BY <1>1 DEF Outcome
<1> QED BY <1>2, <1>3, <1>4 DEF RunInv

\* Control ends at a node, with an outcome.
LEMMA EndsAs ==
    ASSUME Static, MInv, InStep, out = <<"none">>, node.n # "none", node' = node, refused' = refused,
           NEW o, out' = o,
           \/ \E a : o = <<"arm", a>> /\ ArmRight(a, View)
           \/ o = <<"true">> /\ mode = "is" /\ \E a : ArmRight(a, View)
           \/ o = <<"false">> /\ mode = "is" /\ Open = {}
           \/ o = <<"unreachable">> /\ mode = "match" /\ Open = {}
    PROVE  RunInv'
<1>1. val \in Values /\ refused \subseteq Guarded
    BY Running
<1>2. val' \in Values' /\ refused' \subseteq Guarded' /\ mode' = mode
    BY <1>1, StaticStep
<1>3. View' = View /\ Open' = Open
    BY StaticStep, ViewFacts DEF View, Open
<1>4. Outcome'
    BY <1>2, <1>3 DEF Outcome
<1> QED BY <1>2, <1>4 DEF RunInv

LEMMA AtArmStep ==
    ASSUME MInv, AtArm
    PROVE  MInv'
<1>1. /\ out = <<"none">> /\ node.n = "arm" /\ Static /\ node' = node /\ refused' = refused
      /\ out' = IF mode = "is" THEN <<"true">> ELSE <<"arm", node.arm>>
    BY DEF AtArm, RunningAt
<1>2. node.n # "none"
    BY <1>1
<1>3. ASSUME InStep PROVE RunInv'
    <2>1. RightNode(node, View)
        BY <1>1, <1>2, <1>3, Running
    <2>2. ArmRight(node.arm, View)
        BY <1>1, <2>1, RightArm
    <2>3. CASE mode = "is"
        <3>1. out' = <<"true">>
            BY <1>1, <2>3
        <3> QED BY <1>1, <1>2, <1>3, <2>2, <2>3, <3>1, EndsAs
    <2>4. CASE mode # "is"
        <3>1. out' = <<"arm", node.arm>>
            BY <1>1, <2>4
        <3> QED BY <1>1, <1>2, <1>3, <2>2, <3>1, EndsAs
    <2> QED BY <2>3, <2>4
<1>4. MNext
    BY DEF MNext
<1> QED BY <1>1, <1>2, <1>3, <1>4, RunStep

\* A guard is right whichever way it goes.
LEMMA GuardIsRight ==
    ASSUME MInv, InStep, out = <<"none">>, node.n = "guard"
    PROVE  /\ ArmRight(node.arm, View) /\ node.arm \in Guarded
           /\ RightNode(node.fail, ViewOf(val, refused \cup {node.arm}))
<1> DEFINE t == ViewOf(val, refused \cup {node.arm})
<1>1. RightNode(node, View)
    BY Running
<1>2. View.is => View.guarded = {}
    <2>1. mode = "is" => Guarded = {}
        BY ArmsKnown DEF ArmsSplit, MInv
    <2> QED BY <2>1, ViewFacts DEF View
<1>3. Refusing(View, t, node.arm)
    <2>1. Matched(val) \ (refused \cup {node.arm}) = (Matched(val) \ refused) \ {node.arm}
        OBVIOUS
    <2>2. View.open = Matched(val) \ refused /\ t.open = Matched(val) \ (refused \cup {node.arm})
        BY ViewFacts DEF View
    <2>3. t.val = View.val /\ t.matched = View.matched /\ t.guarded = View.guarded
        BY ViewFacts DEF View
    <2>4. t.is = View.is
        BY DEF View, ViewOf
    <2> HIDE DEF t
    <2> QED BY <2>1, <2>2, <2>3, <2>4 DEF Refusing
<1> HIDE DEF t
<1>4. ArmRight(node.arm, View) /\ node.arm \in View.guarded /\ RightNode(node.fail, t)
    BY <1>1, <1>2, <1>3, RightGuard
<1> QED BY <1>4, ViewFacts DEF t, View

LEMMA GuardTrueStep ==
    ASSUME MInv, GuardTrue
    PROVE  MInv'
<1>1. /\ out = <<"none">> /\ node.n = "guard" /\ Static /\ node' = node /\ refused' = refused
      /\ out' = <<"arm", node.arm>>
    BY DEF GuardTrue, RunningAt
<1>2. node.n # "none"
    BY <1>1
<1>3. ASSUME InStep PROVE RunInv'
    <2>1. ArmRight(node.arm, View)
        BY <1>1, <1>3, GuardIsRight
    <2> QED BY <1>1, <1>2, <1>3, <2>1, EndsAs
<1>4. MNext
    BY DEF MNext
<1> QED BY <1>1, <1>2, <1>3, <1>4, RunStep

LEMMA GuardFalseStep ==
    ASSUME MInv, GuardFalse
    PROVE  MInv'
<1>1. /\ out = <<"none">> /\ node.n = "guard" /\ Static /\ node' = node.fail /\ refused' = refused \cup {node.arm}
      /\ out' = out
    BY DEF GuardFalse, RunningAt
<1>2. node.n # "none"
    BY <1>1
<1>3. ASSUME InStep PROVE RunInv'
    <2>1. node.arm \in Guarded /\ RightNode(node.fail, ViewOf(val, refused \cup {node.arm}))
        BY <1>1, <1>3, GuardIsRight
    <2>2. val \in Values /\ refused \subseteq Guarded
        BY <1>1, <1>2, <1>3, Running
    <2>3. refused' \subseteq Guarded /\ out' = <<"none">> /\ RightNode(node', ViewOf(val, refused'))
        BY <1>1, <2>1, <2>2
    <2> QED BY <1>1, <2>2, <2>3, GoesOn
<1>4. MNext
    BY DEF MNext
<1> QED BY <1>1, <1>2, <1>3, <1>4, RunStep

LEMMA SwitchStep ==
    ASSUME MInv, Switch
    PROVE  MInv'
<1> DEFINE w == ValueAt(node.place, val)
           hits == {key \in DOMAIN node.cases : key.tag = w.tag \/ w = Junk}
<1>1. /\ out = <<"none">> /\ node.n = "switch" /\ Static /\ refused' = refused /\ out' = out
      /\ \/ \E key \in hits : node' = node.cases[key]
         \/ (hits = {} \/ w = Junk) /\ node' = node.default
    BY DEF Switch, RunningAt
<1>2. node.n # "none"
    BY <1>1
<1>3. ASSUME InStep PROVE RunInv'
    <2>1. RightNode(node, View) /\ val \in Values /\ refused \subseteq Guarded
        BY <1>1, <1>2, <1>3, Running
    <2>2. View.val = val
        BY ViewFacts DEF View
    <2>3. /\ w # Junk
          /\ \A key \in DOMAIN node.cases : key.tag = w.tag => RightNode(node.cases[key], View)
          /\ (\A key \in DOMAIN node.cases : key.tag # w.tag) => RightNode(node.default, View)
        BY <1>1, <2>1, <2>2, RightSwitch
    <2> HIDE DEF w
    <2>4. RightNode(node', View)
        BY <1>1, <2>3
    <2>5. RightNode(node', ViewOf(val, refused'))
        BY <1>1, <2>4 DEF View
    <2> QED BY <1>1, <2>1, <2>5, GoesOn
<1>4. MNext
    BY DEF MNext
<1> QED BY <1>1, <1>2, <1>3, <1>4, RunStep

LEMMA GoOnStep ==
    ASSUME MInv, GoOn
    PROVE  MInv'
<1>1. out = <<"none">> /\ node.n = "goto" /\ Static /\ refused' = refused /\ out' = out /\ node' = node.next
    BY DEF GoOn, RunningAt
<1>2. node.n # "none"
    BY <1>1
<1>3. ASSUME InStep PROVE RunInv'
    <2>1. RightNode(node, View) /\ val \in Values /\ refused \subseteq Guarded
        BY <1>1, <1>2, <1>3, Running
    <2>2. RightNode(node.next, View)
        BY <1>1, <2>1, RightGoto
    <2>3. RightNode(node', ViewOf(val, refused'))
        BY <1>1, <2>2 DEF View
    <2> QED BY <1>1, <2>1, <2>3, GoesOn
<1>4. MNext
    BY DEF MNext
<1> QED BY <1>1, <1>2, <1>3, <1>4, RunStep

LEMMA AtLeafStep ==
    ASSUME MInv, AtLeaf
    PROVE  MInv'
<1>1. /\ out = <<"none">> /\ node.n \in {"fail", "unreachable", "orphan"}
      /\ Static /\ node' = node /\ refused' = refused
      /\ out' = <<IF node.n = "fail" /\ mode = "is" THEN "false" ELSE "unreachable">>
    BY DEF AtLeaf
<1>2. node.n # "none"
    BY <1>1
<1>3. ASSUME InStep PROVE RunInv'
    <2>1. RightNode(node, View)
        BY <1>1, <1>2, <1>3, Running
    <2>2. View.open = {} /\ (View.is => node.n = "fail")
        BY <1>1, <2>1, RightEnd
    <2>3. Open = {} /\ (mode = "is" => node.n = "fail")
        BY <2>2, ViewFacts DEF View, Open
    <2>4. CASE mode = "is"
        <3>1. out' = <<"false">>
            BY <1>1, <2>3, <2>4
        <3> QED BY <1>1, <1>2, <1>3, <2>3, <2>4, <3>1, EndsAs
    <2>5. CASE mode = "match"
        <3>1. out' = <<"unreachable">>
            BY <1>1, <2>5
        <3> QED BY <1>1, <1>2, <1>3, <2>3, <2>5, <3>1, EndsAs
    <2> QED BY <2>4, <2>5 DEF MInv, MTypeInv
<1>4. MNext
    BY DEF MNext
<1> QED BY <1>1, <1>2, <1>3, <1>4, RunStep

LEMMA MInvNext == MInv /\ [MNext]_mvars => MInv'
<1>1. CASE UNCHANGED mvars
    <2> SUFFICES ASSUME MInv PROVE MInv'
        BY <1>1
    <2>1. node' = node /\ val' = val /\ refused' = refused /\ out' = out /\ verdict' = verdict
        BY <1>1 DEF mvars
    <2>2. MTypeInv' /\ mode' = mode /\ ty' = ty /\ arms' = arms
        BY <1>1, MTypeStep DEF MInv
    <2>3. View' = View /\ Open' = Open /\ Values' = Values /\ Guarded' = Guarded /\ (InStep' <=> InStep)
        BY <2>1, <2>2, SameArmsStep, ViewFacts DEF View, Open
    <2>4. RunInv => RunInv'
        BY <2>1, <2>2, <2>3 DEF RunInv, Outcome
    <2> QED BY <2>1, <2>2, <2>3, <2>4 DEF MInv
<1> QED BY <1>1, CheckStep, LowerStep, AtArmStep, GuardTrueStep, GuardFalseStep, SwitchStep, GoOnStep, AtLeafStep
    DEF MNext

LEMMA MInvAlways == MSpec => []MInv
<1> QED BY MInvInit, MInvNext, PTL DEF MSpec

LEMMA ReachedIs ==
    ASSUME MInv, Reached # 0, InStep
    PROVE  ArmRight(Reached, View)
<1>1. out[1] = "arm"
    BY DEF Reached
<1>2. node.n # "none" /\ Outcome
    BY <1>1 DEF MInv, RunInv
<1>3. PICK a : out = <<"arm", a>> /\ ArmRight(a, View)
    BY <1>1, <1>2 DEF Outcome
<1>4. Reached = a
    BY <1>3 DEF Reached
<1> QED BY <1>3, <1>4

\* The arm whose body runs matches the value, and no arm before it does but
\* those that their guards refused: for all types, patterns and arms that
\* keep the rows and places of compile_matrix in step.
THEOREM FirstArmRuns == MSpec => []ArmIsFirst
<1>1. MInv => ArmIsFirst
    <2> SUFFICES ASSUME MInv, Reached # 0, InStep
                 PROVE  /\ Matches(ExpandedArms[Reached].pat, val)
                        /\ \A j \in 1..(Reached - 1) : Matches(ExpandedArms[j].pat, val) => j \in refused
        BY DEF ArmIsFirst
    <2>1. Reached \in Matched(val) /\ \A b \in Matched(val) \ refused : Reached <= b
        BY ReachedIs, ViewFacts DEF ArmRight, View
    <2>2. ExpandedArms \in Seq(ArmSet) /\ DOMAIN ExpandedArms = 1..Len(ExpandedArms)
        BY ArmsKnown DEF MInv, ArmsSplit
    <2>3. Len(ExpandedArms) \in Nat
        BY <2>2
    <2>4. Reached \in 1..Len(ExpandedArms) /\ Matches(ExpandedArms[Reached].pat, val)
        BY <2>1, <2>2 DEF Matched
    <2>5. ASSUME NEW j \in 1..(Reached - 1), Matches(ExpandedArms[j].pat, val), j \notin refused
          PROVE  FALSE
        <3> DEFINE n == Len(ExpandedArms)
                   m == Reached
        <3>1. m \in 1..n /\ n \in Nat /\ j \in 1..(m - 1)
            BY <2>3, <2>4, <2>5
        <3> HIDE DEF n, m
        <3>2. j \in 1..n /\ j < m /\ ~(m <= j)
            BY <3>1
        <3>3. j \in Matched(val)
            BY <2>2, <2>5, <3>2 DEF Matched, n
        <3> QED BY <2>1, <2>5, <3>2, <3>3 DEF m
    <2> QED BY <2>4, <2>5
<1> QED BY <1>1, MInvAlways, PTL

\* An accepted match is lowered without an error, and what is told to be
\* unreachable is: if the arms were counted exactly some arm takes any value.
THEOREM AcceptedMatchEnds == MSpec => []AcceptedMatchRuns
<1>1. ASSUME MInv, out = <<"error">>, InStep
      PROVE  FALSE
    <2>1. RunInv
        BY <1>1 DEF MInv
    <2>2. node.n # "none" /\ Outcome
        BY <1>1, <2>1 DEF RunInv
    <2> QED BY <1>1, <2>2 DEF Outcome
<1>2. ASSUME MInv, out = <<"unreachable">>, InStep, Exact
      PROVE  FALSE
    <2>1. RunInv
        BY <1>2 DEF MInv
    <2>2. node.n # "none" /\ Outcome /\ val \in Values /\ refused \subseteq Guarded
        BY <1>2, <2>1 DEF RunInv
    <2>3. mode = "match" /\ Open = {}
        BY <1>2, <2>2 DEF Outcome
    <2>4. verdict = "ok" /\ UInv
        BY <1>2, <2>2, <2>3 DEF MInv, MTypeInv
    <2>5. Taken(Len(arms) + 1) = Values
        BY <1>2, <2>4, WildcardAnswer DEF UInv, VerdictIsAnswer, Exact
    <2>6. PICK j \in 1..((Len(arms) + 1) - 1) : ~arms[j].guard /\ Matches(arms[j].pat, val)
        BY <2>2, <2>5 DEF Taken
    <2>7. ArmsSplit
        BY <1>2, ArmsKnown DEF MInv
    <2>8. PICK r : SplitsTo(r, ExpandedArms, arms)
        BY <2>7 DEF ArmsSplit
    <2>9. j \in 1..Len(arms)
        <3>1. Len(arms) \in Nat
            BY <2>7 DEF ArmsSplit, TypedArms
        <3> QED BY <2>6, <3>1
    <2>10. val \in AllValues
        BY <2>2, <2>7 DEF ArmsSplit, TypedArms, Values, AllValues
    <2>11. PICK a \in 1..Len(ExpandedArms) : r[a] = j /\ Matches(ExpandedArms[a].pat, val)
        BY <2>6, <2>8, <2>9, <2>10 DEF SplitsTo
    <2>12. ~ExpandedArms[a].guard
        BY <2>6, <2>8, <2>11 DEF SplitsTo
    <2>13. a \in Matched(val) /\ a \notin Guarded
        BY <2>7, <2>11, <2>12 DEF ArmsSplit, Matched, Guarded
    <2> QED BY <2>2, <2>3, <2>13 DEF Open
<1>3. MInv => AcceptedMatchRuns
    BY <1>1, <1>2 DEF AcceptedMatchRuns
<1> QED BY <1>3, MInvAlways, PTL

\* `is` gives true for the values its pattern matches and for no others.
THEOREM IsGivesTheAnswer == MSpec => []IsDecides
<1>1. ASSUME MInv, out[1] \in {"true", "false"}, InStep
      PROVE  out[1] = "true" <=> Matches(arms[1].pat, val)
    <2>1. RunInv /\ MTypeInv
        BY <1>1 DEF MInv
    <2>2. node.n # "none" /\ Outcome /\ refused \subseteq Guarded
        BY <1>1, <2>1 DEF RunInv
    <2>3. mode = "is" /\ (out[1] = "true" => \E a : ArmRight(a, View)) /\ (out[1] = "false" => Open = {})
        BY <1>1, <2>2 DEF Outcome
    <2>4. /\ ExpandedArms = arms /\ 1..Len(arms) = {1} /\ Guarded = {}
          /\ DOMAIN ExpandedArms = 1..Len(ExpandedArms)
        BY <2>1, <2>3, ArmsKnown DEF ArmsSplit
    <2>5. Matched(val) = {a \in {1} : Matches(arms[a].pat, val)}
        BY <2>4 DEF Matched
    <2>6. CASE out[1] = "true"
        <3>1. PICK a : ArmRight(a, View)
            BY <2>3, <2>6
        <3>2. a \in Matched(val)
            BY <3>1, ViewFacts DEF ArmRight, View
        <3> QED BY <2>5, <2>6, <3>2
    <2>7. CASE out[1] = "false"
        <3>1. Open = {} /\ refused = {}
            BY <2>2, <2>3, <2>4, <2>7
        <3>2. 1 \notin Matched(val)
            BY <3>1 DEF Open
        <3> QED BY <2>5, <2>7, <3>2
    <2> QED BY <1>1, <2>6, <2>7
<1>2. MInv => IsDecides
    BY <1>1 DEF IsDecides
<1> QED BY <1>2, MInvAlways, PTL
-----------------------------------------------------------------------------
(* The variables that a pattern binds, and the places of a row. *)
VarNames == {q.x : q \in {p \in Pats : Names(p)}}
BoundByBody(f, pat, place) ==
    IF pat.p = "bind" THEN <<<<pat.x, place>>>>
    ELSE IF pat.p = "alias" THEN Append(f[<<pat.q, place>>], <<pat.x, place>>)
    ELSE IF pat.p = "ctor" /\ pat.args # <<>> THEN f[<<pat.args[1], place>>]
    ELSE IF pat.p \in {"tuple", "struct"}
    THEN FlattenSeq([i \in DOMAIN pat.args |-> f[<<pat.args[i], At(place, Field(PartOf(pat, i)))>>]])
    ELSE <<>>

LEMMA BoundByLocal ==
    ASSUME NEW f, NEW g, NEW pat \in Pats, NEW place \in Places,
           \A y \in Pats, z \in Places : Size[y] < Size[pat] => f[<<y, z>>] = g[<<y, z>>]
    PROVE  BoundByBody(f, pat, place) = BoundByBody(g, pat, place)
<1>1. pat.p = "alias" => f[<<pat.q, place>>] = g[<<pat.q, place>>]
    BY PatternParts
<1>2. pat.p = "ctor" /\ pat.args # <<>> => f[<<pat.args[1], place>>] = g[<<pat.args[1], place>>]
    <2>1. ASSUME pat.p = "ctor", pat.args # <<>>
          PROVE  HasParts(pat) /\ 1 \in DOMAIN pat.args
        <3>1. HasParts(pat) /\ pat.args \in Seq(Pats)
            BY <2>1, PatternParts DEF HasParts
        <3> QED BY <2>1, <3>1
    <2> QED BY <2>1, PatternParts
<1>3. ASSUME pat.p \in {"tuple", "struct"}, NEW i \in DOMAIN pat.args
      PROVE  f[<<pat.args[i], At(place, Field(PartOf(pat, i)))>>] = g[<<pat.args[i], At(place, Field(PartOf(pat, i)))>>]
    <2>1. HasParts(pat)
        BY <1>3 DEF HasParts
    <2>2. At(place, Field(PartOf(pat, i))) \in Places
        BY <2>1, StepFacts, AtIsPlace
    <2> QED BY <2>1, <2>2, PatternParts
<1>4. CASE pat.p \in {"tuple", "struct"}
    <2>1. [i \in DOMAIN pat.args |-> f[<<pat.args[i], At(place, Field(PartOf(pat, i)))>>]]
            = [i \in DOMAIN pat.args |-> g[<<pat.args[i], At(place, Field(PartOf(pat, i)))>>]]
        BY <1>3, <1>4
    <2> QED BY <1>4, <2>1 DEF BoundByBody
<1>5. CASE pat.p = "alias"
    BY <1>1, <1>5 DEF BoundByBody
<1>6. CASE pat.p = "ctor"
    BY <1>2, <1>6 DEF BoundByBody
<1>7. CASE pat.p \notin {"tuple", "struct", "alias", "ctor"}
    BY <1>7 DEF BoundByBody
<1> QED BY <1>4, <1>5, <1>6, <1>7

BoundSeqs == Seq(VarNames \X Places)
LEMMA BoundByTyped ==
    ASSUME NEW f, NEW pat \in Pats, NEW place \in Places,
           \A y \in Pats, z \in Places : Size[y] < Size[pat] => f[<<y, z>>] \in BoundSeqs
    PROVE  BoundByBody(f, pat, place) \in BoundSeqs
<1> DEFINE A == VarNames \X Places
<1>1. Names(pat) => <<pat.x, place>> \in A
    BY DEF VarNames
<1> HIDE DEF A
<1>2. CASE pat.p = "bind"
    <2>1. <<<<pat.x, place>>>> \in Seq(A)
        BY <1>1, <1>2, SingleSeq DEF Names
    <2> QED BY <1>2, <2>1 DEF BoundByBody, BoundSeqs, A
<1>3. CASE pat.p = "alias"
    <2>1. f[<<pat.q, place>>] \in Seq(A)
        BY <1>3, PatternParts DEF BoundSeqs, A
    <2>2. Append(f[<<pat.q, place>>], <<pat.x, place>>) \in Seq(A)
        BY <1>1, <1>3, <2>1, AppendProperties DEF Names
    <2> QED BY <1>3, <2>2 DEF BoundByBody, BoundSeqs, A
<1>4. CASE pat.p = "ctor"
    <2>1. HasParts(pat) /\ pat.args \in Seq(Pats)
        BY <1>4, PatternParts DEF HasParts
    <2>2. pat.args # <<>> => f[<<pat.args[1], place>>] \in Seq(A)
        <3>1. pat.args # <<>> => 1 \in DOMAIN pat.args
            BY <2>1
        <3> QED BY <2>1, <3>1, PatternParts DEF BoundSeqs, A
    <2>3. <<>> \in Seq(A)
        BY EmptySeq
    <2> QED BY <1>4, <2>2, <2>3 DEF BoundByBody, BoundSeqs, A
<1>5. CASE pat.p \in {"tuple", "struct"}
    <2> DEFINE ss == [i \in DOMAIN pat.args |-> f[<<pat.args[i], At(place, Field(PartOf(pat, i)))>>]]
    <2>1. HasParts(pat) /\ pat.args \in Seq(Pats)
        BY <1>5, PatternParts DEF HasParts
    <2>2. \A i \in DOMAIN pat.args : ss[i] \in Seq(A)
        BY <2>1, StepFacts, AtIsPlace, PatternParts DEF BoundSeqs, A
    <2>6. DOMAIN pat.args = 1..Len(pat.args) /\ Len(pat.args) \in Nat
        BY <2>1
    <2>7. DOMAIN ss = DOMAIN pat.args /\ ss = [i \in DOMAIN ss |-> ss[i]]
        OBVIOUS
    <2>3. ss \in [1..Len(pat.args) -> Seq(A)] /\ Len(pat.args) \in Nat
        <3> HIDE DEF ss
        <3> QED BY <2>2, <2>6, <2>7
    <2> HIDE DEF ss
    <2>4. FlattenSeq(ss) \in Seq(A)
        BY <2>3, FlattenedElements
    <2> QED BY <1>5, <2>4 DEF BoundByBody, BoundSeqs, A, ss
<1>6. CASE pat.p \notin {"tuple", "struct", "alias", "ctor", "bind"}
    <2>1. <<>> \in Seq(A)
        BY EmptySeq
    <2> QED BY <1>6, <2>1 DEF BoundByBody, BoundSeqs, A
<1> QED BY <1>2, <1>3, <1>4, <1>5, <1>6

LEMMA BoundByDef ==
    ASSUME NEW pat \in Pats, NEW place \in Places
    PROVE  BoundBy[<<pat, place>>] = BoundByBody(BoundBy, pat, place)
<1> DEFINE C == Pats \X Places
           R == [m \in C |-> Size[m[1]]]
           H == [x \in [C -> BoundSeqs] \X C |-> BoundByBody(x[1], x[2][1], x[2][2])]
           Is(f) == f = [m \in C |-> BoundByBody(f, m[1], m[2])]
<1>1. Local(C, R, BoundSeqs, H)
    <2>1. ASSUME NEW f \in [C -> BoundSeqs], NEW x \in C
          PROVE  H[<<f, x>>] = BoundByBody(f, x[1], x[2]) /\ BoundByBody(f, x[1], x[2]) \in BoundSeqs
        <3>1. H[<<f, x>>] = BoundByBody(f, x[1], x[2])
            OBVIOUS
        <3>2. x[1] \in Pats /\ x[2] \in Places /\ \A y \in Pats, z \in Places : f[<<y, z>>] \in BoundSeqs
            OBVIOUS
        <3> QED BY <3>1, <3>2, BoundByTyped
    <2>2. ASSUME NEW f \in [C -> BoundSeqs], NEW x \in C, NEW g \in [C -> BoundSeqs],
                 \A y \in C : R[y] < R[x] => f[y] = g[y]
          PROVE  H[<<f, x>>] = H[<<g, x>>]
        <3>1. x[1] \in Pats /\ x[2] \in Places /\ R[x] = Size[x[1]]
            OBVIOUS
        <3>2. ASSUME NEW y \in Pats, NEW z \in Places, Size[y] < Size[x[1]]
              PROVE  f[<<y, z>>] = g[<<y, z>>]
            <4>1. <<y, z>> \in C /\ R[<<y, z>>] = Size[y]
                OBVIOUS
            <4> HIDE DEF C, R
            <4> QED BY <2>2, <3>1, <3>2, <4>1
        <3>3. BoundByBody(f, x[1], x[2]) = BoundByBody(g, x[1], x[2])
            <4> DEFINE p == x[1]
                       q == x[2]
            <4>1. p \in Pats /\ q \in Places /\ \A y \in Pats, z \in Places : Size[y] < Size[p] => f[<<y, z>>] = g[<<y, z>>]
                BY <3>1, <3>2
            <4> HIDE DEF C, R, H, p, q
            <4>2. BoundByBody(f, p, q) = BoundByBody(g, p, q)
                BY <4>1, BoundByLocal
            <4> QED BY <4>2 DEF p, q
        <3> HIDE DEF H, C, R
        <3> QED BY <2>1, <3>3
    <2> HIDE DEF H, C, R
    <2> QED BY <2>1, <2>2, Zenon DEF Local
<1>2. \E f : Is(f)
    <2>1. PICK f : Solution(f, C, BoundSeqs, H)
        <3>1. R \in [C -> Nat] /\ <<>> \in BoundSeqs
            BY SizeType, EmptySeq DEF BoundSeqs
        <3> HIDE DEF H, C, R
        <3> QED BY <1>1, <3>1, RankRecursion
    <2>2. f \in [C -> BoundSeqs] /\ \A x \in C : f[x] = H[<<f, x>>]
        <3> HIDE DEF H, C
        <3> QED BY <2>1 DEF Solution
    <2>3. \A x \in C : f[x] = BoundByBody(f, x[1], x[2])
        <3> HIDE DEF C
        <3> QED BY <2>2
    <2>4. Is(f)
        <3> HIDE DEF C
        <3> QED BY <2>2, <2>3
    <2> QED BY <2>4
<1>3. BoundBy = CHOOSE f : Is(f)
    BY Zenon DEF BoundBy, BoundByBody
<1>4. Is(BoundBy)
    <2> HIDE DEF Is
    <2> QED BY <1>2, <1>3
<1>5. <<pat, place>> \in C
    OBVIOUS
<1>6. BoundBy[<<pat, place>>] = BoundByBody(BoundBy, <<pat, place>>[1], <<pat, place>>[2])
    <2> HIDE DEF C
    <2> QED BY <1>4, <1>5
<1> QED BY <1>6

\* The variables that bind_pattern_variables binds, with their places.
Entries(pat, place) == Elements(BoundBy[<<pat, place>>])
PartsPlace(pat, place, i) == At(place, Field(PartOf(pat, i)))

LEMMA EntriesAre ==
    ASSUME NEW pat \in Pats, NEW place \in Places
    PROVE  /\ BoundBy[<<pat, place>>] \in BoundSeqs
           /\ pat.p = "bind" => Entries(pat, place) = {<<pat.x, place>>}
           /\ pat.p = "alias" => Entries(pat, place) = Entries(pat.q, place) \cup {<<pat.x, place>>}
           /\ pat.p = "ctor" /\ pat.args # <<>> => Entries(pat, place) = Entries(pat.args[1], place)
           /\ pat.p = "ctor" /\ pat.args = <<>> => Entries(pat, place) = {}
           /\ pat.p \in {"tuple", "struct"} =>
                Entries(pat, place) = UNION {Entries(pat.args[i], PartsPlace(pat, place, i)) : i \in DOMAIN pat.args}
           /\ pat.p \in {"wild", "lit", "or"} => Entries(pat, place) = {}
<1> DEFINE S == {x \in Pats : \A z \in Places : BoundBy[<<x, z>>] \in BoundSeqs}
<1>1. ASSUME NEW x \in Pats, \A y \in Pats : Size[y] < Size[x] => y \in S
      PROVE  x \in S
    <2>1. \A y \in Pats, z \in Places : Size[y] < Size[x] => BoundBy[<<y, z>>] \in BoundSeqs
        BY <1>1
    <2> QED BY <2>1, BoundByDef, BoundByTyped
<1>2. \A x \in Pats : \A z \in Places : BoundBy[<<x, z>>] \in BoundSeqs
    <2>1. Pats \subseteq S
        <3> HIDE DEF S
        <3> QED BY <1>1, SizeType, RankInduction
    <2>2. ASSUME NEW x \in Pats
          PROVE  \A z \in Places : BoundBy[<<x, z>>] \in BoundSeqs
        <3>1. x \in S
            BY <2>1
        <3> QED BY <3>1
    <2> HIDE DEF S
    <2> QED BY <2>2, Zenon
<1> DEFINE B == BoundBy[<<pat, place>>]
           A == VarNames \X Places
<1>3. B = BoundByBody(BoundBy, pat, place) /\ B \in Seq(A)
    BY <1>2, BoundByDef DEF BoundSeqs
<1> HIDE DEF B, A
<1>4. Elements(<<>>) = {}
    BY DEF Elements
<1>5. \A a : Elements(<<a>>) = {a}
    BY DEF Elements
<1>6. CASE pat.p = "bind"
    <2>1. B = <<<<pat.x, place>>>>
        BY <1>3, <1>6 DEF BoundByBody
    <2> QED BY <1>2, <1>5, <1>6, <2>1 DEF Entries, B
<1>7. CASE pat.p = "alias"
    <2> DEFINE s == BoundBy[<<pat.q, place>>]
               a == <<pat.x, place>>
    <2>1. B = Append(s, a)
        BY <1>3, <1>7 DEF BoundByBody
    <2>2. s \in Seq(A) /\ a \in A
        <3>1. Names(pat)
            BY <1>7 DEF Names
        <3> QED BY <1>2, <1>7, <3>1, PatternParts DEF BoundSeqs, A, VarNames
    <2> HIDE DEF s, a
    <2>3. Append(s, a) = s \o <<a>> /\ <<a>> \in Seq(A)
        BY <2>2
    <2>4. Elements(B) = Elements(s) \cup {a}
        <3>1. Elements(s \o <<a>>) = Elements(s) \cup Elements(<<a>>)
            BY <2>2, <2>3, ConcatRange
        <3>2. Elements(<<a>>) = {a}
            BY <1>5
        <3> QED BY <2>1, <2>3, <3>1, <3>2
    <2> QED BY <1>2, <1>7, <2>4 DEF Entries, B, s, a
<1>8. CASE pat.p = "ctor"
    <2>1. B = IF pat.args # <<>> THEN BoundBy[<<pat.args[1], place>>] ELSE <<>>
        BY <1>3, <1>8 DEF BoundByBody
    <2> QED BY <1>2, <1>4, <1>8, <2>1 DEF Entries, B
<1>9. CASE pat.p \in {"tuple", "struct"}
    <2> DEFINE ss == [i \in DOMAIN pat.args |-> BoundBy[<<pat.args[i], PartsPlace(pat, place, i)>>]]
    <2>1. B = FlattenSeq(ss)
        BY <1>3, <1>9 DEF BoundByBody, PartsPlace
    <2>2. HasParts(pat) /\ DOMAIN pat.args = 1..Len(pat.args) /\ Len(pat.args) \in Nat
        BY <1>9, PatternParts DEF HasParts
    <2>3. \A i \in DOMAIN pat.args : ss[i] \in Seq(A)
        <3>1. \A i \in DOMAIN pat.args : pat.args[i] \in Pats /\ PartsPlace(pat, place, i) \in Places
            BY <2>2, PatternParts, StepFacts, AtIsPlace DEF PartsPlace
        <3> QED BY <1>2, <3>1 DEF BoundSeqs, A
    <2>4. DOMAIN ss = DOMAIN pat.args /\ ss = [i \in DOMAIN ss |-> ss[i]]
        OBVIOUS
    <2>5. \A i \in DOMAIN pat.args : Elements(ss[i]) = Entries(pat.args[i], PartsPlace(pat, place, i))
        BY DEF Entries
    <2> HIDE DEF ss
    <2>6. ss \in [1..Len(pat.args) -> Seq(A)]
        BY <2>2, <2>3, <2>4
    <2>7. Elements(B) = UNION {Elements(ss[i]) : i \in DOMAIN pat.args}
        BY <2>1, <2>2, <2>6, FlattenedElements
    <2>8. Elements(B) = UNION {Entries(pat.args[i], PartsPlace(pat, place, i)) : i \in DOMAIN pat.args}
        <3>1. {Elements(ss[i]) : i \in DOMAIN pat.args} = {Entries(pat.args[i], PartsPlace(pat, place, i)) : i \in DOMAIN pat.args}
            BY <2>5
        <3> QED BY <2>7, <3>1
    <2>9. Entries(pat, place) = Elements(B)
        BY DEF Entries, B
    <2> QED BY <1>2, <1>9, <2>8, <2>9
<1>10. CASE pat.p \in {"wild", "lit", "or"}
    <2>1. B = <<>>
        BY <1>3, <1>10 DEF BoundByBody
    <2> QED BY <1>2, <1>4, <1>10, <2>1 DEF Entries, B
<1>11. pat.p \in PatKinds
    BY PatternParts
<1> QED BY <1>6, <1>7, <1>8, <1>9, <1>10, <1>11 DEF PatKinds

\* What stands in a pattern.
LEMMA StandingIn ==
    ASSUME NEW pat \in Pats
    PROVE  /\ HasParts(pat) => \A i \in DOMAIN pat.args : \A o \in Standing[pat.args[i]] :
                <<<<StepTo(pat, i)>> \o o[1], o[2]>> \in Standing[pat]
           /\ HasParts(pat) => \A o \in Standing[pat] : o = <<<<>>, pat>> \/
                \E i \in DOMAIN pat.args : \E r \in Standing[pat.args[i]] : o = <<<<StepTo(pat, i)>> \o r[1], r[2]>>
           /\ pat.p = "alias" => Standing[pat] = {<<<<>>, pat>>} \cup Standing[pat.q]
           /\ pat.p = "or" => Standing[pat] = {<<<<>>, pat>>} \cup Standing[pat.l] \cup Standing[pat.r]
           /\ pat.p \in {"wild", "bind", "lit"} => Standing[pat] = {<<<<>>, pat>>}
           /\ <<<<>>, pat>> \in Standing[pat]
<1>1. Standing[pat] = StandingBody(Standing, pat)
    BY StandingDef
<1>2. CASE HasParts(pat)
    <2>1. Standing[pat] = {<<<<>>, pat>>} \cup UNION {Below(Standing, pat, i) : i \in DOMAIN pat.args}
        BY <1>1, <1>2 DEF StandingBody
    <2>2. \A i \in DOMAIN pat.args : Below(Standing, pat, i) \subseteq Standing[pat]
        BY <2>1
    <2>3. \A i \in DOMAIN pat.args : \A o \in Standing[pat.args[i]] :
                <<<<StepTo(pat, i)>> \o o[1], o[2]>> \in Standing[pat]
        BY <2>2 DEF Below
    <2>4. \A o \in Standing[pat] : o = <<<<>>, pat>> \/ \E i \in DOMAIN pat.args : o \in Below(Standing, pat, i)
        BY <2>1
    <2>5. \A o \in Standing[pat] : o = <<<<>>, pat>> \/
                \E i \in DOMAIN pat.args : \E r \in Standing[pat.args[i]] : o = <<<<StepTo(pat, i)>> \o r[1], r[2]>>
        BY <2>4 DEF Below
    <2>6. <<<<>>, pat>> \in Standing[pat]
        BY <2>1
    <2>7. pat.p \notin {"alias", "or", "wild", "bind", "lit"}
        BY <1>2 DEF HasParts
    <2> QED BY <2>3, <2>5, <2>6, <2>7
<1>3. CASE ~HasParts(pat)
    <2>1. Standing[pat] = {<<<<>>, pat>>} \cup UNION {Standing[q] : q \in Children(pat)}
        BY <1>1, <1>3 DEF StandingBody
    <2>2. Children(pat) = IF pat.p = "or" THEN {pat.l, pat.r} ELSE IF pat.p = "alias" THEN {pat.q} ELSE {}
        BY <1>3 DEF Children
    <2> QED BY <1>3, <2>1, <2>2
<1> QED BY <1>2, <1>3

\* A step is not the empty way.
LEMMA WayIsLonger ==
    ASSUME NEW s \in Seq(Steps), NEW x \in Steps
    PROVE  <<x>> \o s # <<>>
<1>1. Len(<<x>> \o s) = 1 + Len(s) /\ Len(s) \in Nat
    BY Consed
<1> QED BY <1>1

\* A variable is bound for a pattern with its name; if that stands where the
\* whole does, the variable is bound to the place of the whole.
NameFor(e, pat, place) ==
    \E o \in Standing[pat] : Names(o[2]) /\ o[2].x = e[1] /\ (o[1] = <<>> => e[2] = place)

LEMMA NamesBound ==
    ASSUME NEW pat \in Pats, NEW place \in Places, NEW e \in Entries(pat, place)
    PROVE  NameFor(e, pat, place)
<1> DEFINE S == {x \in Pats : \A z \in Places : \A a \in Entries(x, z) : NameFor(a, x, z)}
<1>1. ASSUME NEW x \in Pats, \A y \in Pats : Size[y] < Size[x] => y \in S, NEW z \in Places, NEW a \in Entries(x, z)
      PROVE  NameFor(a, x, z)
    <2>1. <<<<>>, x>> \in Standing[x]
        BY StandingIn
    <2>2. ASSUME Names(x), a = <<x.x, z>>
          PROVE  NameFor(a, x, z)
        BY <2>1, <2>2 DEF NameFor
    <2>3. CASE x.p = "bind"
        <3>1. Entries(x, z) = {<<x.x, z>>} /\ Names(x)
            BY <2>3, EntriesAre DEF Names
        <3> QED BY <1>1, <2>2, <3>1
    <2>4. CASE x.p = "alias"
        <3>1. a \in Entries(x.q, z) \/ a = <<x.x, z>>
            <4>1. Entries(x, z) = Entries(x.q, z) \cup {<<x.x, z>>}
                BY <2>4, EntriesAre
            <4> QED BY <1>1, <4>1
        <3>2. ASSUME a \in Entries(x.q, z)
              PROVE  NameFor(a, x, z)
            <4>1. x.q \in S
                BY <1>1, <2>4, PatternParts
            <4>2. NameFor(a, x.q, z)
                BY <3>2, <4>1
            <4>3. Standing[x.q] \subseteq Standing[x]
                <5>1. Standing[x] = {<<<<>>, x>>} \cup Standing[x.q]
                    BY <2>4, StandingIn
                <5> QED BY <5>1
            <4> QED BY <4>2, <4>3 DEF NameFor
        <3> QED BY <2>2, <2>4, <3>1, <3>2 DEF Names
    <2>5. ASSUME HasParts(x), NEW i \in DOMAIN x.args, NEW y \in Places, a \in Entries(x.args[i], y)
          PROVE  NameFor(a, x, z)
        <3>1. x.args[i] \in S /\ x.args[i] \in Pats
            BY <1>1, <2>5, PatternParts
        <3>2. PICK o \in Standing[x.args[i]] : Names(o[2]) /\ o[2].x = a[1]
            BY <2>5, <3>1 DEF NameFor
        <3> DEFINE r == <<<<StepTo(x, i)>> \o o[1], o[2]>>
        <3>3. r \in Standing[x]
            BY <2>5, StandingIn
        <3>4. r[1] # <<>>
            <4>1. o[1] \in Seq(Steps) /\ StepTo(x, i) \in Steps
                BY <2>5, <3>1, StandingType, StepFacts
            <4> QED BY <4>1, WayIsLonger
        <3> QED BY <3>2, <3>3, <3>4 DEF NameFor
    <2>6. CASE x.p = "ctor"
        <3>1. x.args # <<>> /\ a \in Entries(x.args[1], z)
            <4>1. Entries(x, z) = IF x.args = <<>> THEN {} ELSE Entries(x.args[1], z)
                BY <2>6, EntriesAre
            <4> QED BY <1>1, <4>1
        <3>2. HasParts(x) /\ 1 \in DOMAIN x.args
            BY <2>6, <3>1, PatternParts DEF HasParts
        <3> QED BY <2>5, <3>1, <3>2
    <2>7. CASE x.p \in {"tuple", "struct"}
        <3>1. HasParts(x)
            BY <2>7 DEF HasParts
        <3>4. Entries(x, z) = UNION {Entries(x.args[i], PartsPlace(x, z, i)) : i \in DOMAIN x.args}
            BY <2>7, EntriesAre
        <3>2. PICK i \in DOMAIN x.args : a \in Entries(x.args[i], PartsPlace(x, z, i))
            BY <1>1, <3>4
        <3>3. PartsPlace(x, z, i) \in Places
            BY <3>1, StepFacts, AtIsPlace DEF PartsPlace
        <3> QED BY <2>5, <3>1, <3>2, <3>3
    <2>8. x.p \in PatKinds
        BY PatternParts
    <2>9. CASE x.p \in {"wild", "lit", "or"}
        <3>1. Entries(x, z) = {}
            BY <2>9, EntriesAre
        <3> QED BY <1>1, <3>1
    <2> QED BY <2>3, <2>4, <2>6, <2>7, <2>8, <2>9 DEF PatKinds
<1>2. \A x \in Pats : (\A y \in Pats : Size[y] < Size[x] => y \in S) => x \in S
    BY <1>1
<1>3. Pats \subseteq S
    <2> HIDE DEF S
    <2> QED BY <1>2, SizeType, RankInduction
<1> QED BY <1>3

-----------------------------------------------------------------------------
(* What the variables of a pattern should be bound to. *)
PartsIn(pat, v) == {k \in DOMAIN pat.args : PartOf(pat, k) \in DOMAIN v.parts}
BindingsBody(f, pat, v) ==
    IF pat.p = "bind" THEN {<<pat.x, v>>}
    ELSE IF pat.p = "alias" THEN f[<<pat.q, v>>] \cup {<<pat.x, v>>}
    ELSE IF pat.p = "or" THEN f[<<IF Matches(pat.l, v) THEN pat.l ELSE pat.r, v>>]
    ELSE IF HasParts(pat)
    THEN UNION {f[<<pat.args[i], v.parts[PartOf(pat, i)]>>] : i \in PartsIn(pat, v)}
    ELSE {}

LEMMA BindingsLocal ==
    ASSUME NEW f, NEW g, NEW pat \in Pats, NEW v \in AllValues,
           \A y \in Pats, w \in AllValues : Size[y] < Size[pat] => f[<<y, w>>] = g[<<y, w>>]
    PROVE  BindingsBody(f, pat, v) = BindingsBody(g, pat, v)
<1>1. pat.p = "alias" => f[<<pat.q, v>>] = g[<<pat.q, v>>]
    BY PatternParts
<1>2. pat.p = "or" => f[<<pat.l, v>>] = g[<<pat.l, v>>] /\ f[<<pat.r, v>>] = g[<<pat.r, v>>]
    BY PatternParts
<1>3. ASSUME HasParts(pat), NEW i \in PartsIn(pat, v)
      PROVE  f[<<pat.args[i], v.parts[PartOf(pat, i)]>>] = g[<<pat.args[i], v.parts[PartOf(pat, i)]>>]
    <2>1. i \in DOMAIN pat.args /\ v.parts[PartOf(pat, i)] \in AllValues
        BY <1>3, ValueParts DEF PartsIn
    <2> QED BY <1>3, <2>1, PatternParts
<1>4. CASE HasParts(pat)
    <2>1. {f[<<pat.args[i], v.parts[PartOf(pat, i)]>>] : i \in PartsIn(pat, v)}
            = {g[<<pat.args[i], v.parts[PartOf(pat, i)]>>] : i \in PartsIn(pat, v)}
        BY <1>3, <1>4
    <2> QED BY <1>4, <2>1 DEF BindingsBody, HasParts
<1>5. CASE pat.p = "alias"
    BY <1>1, <1>5 DEF BindingsBody
<1>6. CASE pat.p = "or"
    BY <1>2, <1>6 DEF BindingsBody
<1>7. CASE ~HasParts(pat) /\ pat.p \notin {"alias", "or"}
    BY <1>7 DEF BindingsBody
<1> QED BY <1>4, <1>5, <1>6, <1>7

BindingSets == SUBSET (VarNames \X AllValues)
LEMMA BindingsTyped ==
    ASSUME NEW f, NEW pat \in Pats, NEW v \in AllValues,
           \A y \in Pats, w \in AllValues : Size[y] < Size[pat] => f[<<y, w>>] \in BindingSets
    PROVE  BindingsBody(f, pat, v) \in BindingSets
<1> DEFINE A == VarNames \X AllValues
<1>1. Names(pat) => <<pat.x, v>> \in A
    BY DEF VarNames
<1> HIDE DEF A
<1>2. CASE pat.p = "bind"
    BY <1>1, <1>2 DEF Names, BindingsBody, BindingSets, A
<1>3. CASE pat.p = "alias"
    <2>1. f[<<pat.q, v>>] \subseteq A
        BY <1>3, PatternParts DEF BindingSets, A
    <2>2. BindingsBody(f, pat, v) = f[<<pat.q, v>>] \cup {<<pat.x, v>>}
        BY <1>3 DEF BindingsBody
    <2> QED BY <1>1, <1>3, <2>1, <2>2 DEF Names, BindingSets, A
<1>4. CASE pat.p = "or"
    <2>1. f[<<pat.l, v>>] \subseteq A /\ f[<<pat.r, v>>] \subseteq A
        BY <1>4, PatternParts DEF BindingSets, A
    <2>2. BindingsBody(f, pat, v) \in {f[<<pat.l, v>>], f[<<pat.r, v>>]}
        BY <1>4 DEF BindingsBody
    <2> QED BY <2>1, <2>2 DEF BindingSets, A
<1>5. CASE HasParts(pat)
    <2>1. BindingsBody(f, pat, v) = UNION {f[<<pat.args[i], v.parts[PartOf(pat, i)]>>] : i \in PartsIn(pat, v)}
        BY <1>5 DEF BindingsBody, HasParts
    <2>2. ASSUME NEW i \in PartsIn(pat, v)
          PROVE  f[<<pat.args[i], v.parts[PartOf(pat, i)]>>] \subseteq A
        <3>1. i \in DOMAIN pat.args /\ v.parts[PartOf(pat, i)] \in AllValues
            BY <2>2, ValueParts DEF PartsIn
        <3> QED BY <1>5, <3>1, PatternParts DEF BindingSets, A
    <2> QED BY <2>1, <2>2 DEF BindingSets, A
<1>6. CASE ~HasParts(pat) /\ pat.p \notin {"alias", "or", "bind"}
    BY <1>6 DEF BindingsBody, BindingSets
<1> QED BY <1>2, <1>3, <1>4, <1>5, <1>6

LEMMA BindingsDef ==
    ASSUME NEW pat \in Pats, NEW v \in AllValues
    PROVE  Bindings[<<pat, v>>] = BindingsBody(Bindings, pat, v)
<1> DEFINE C == Pats \X AllValues
           R == [m \in C |-> Size[m[1]]]
           H == [x \in [C -> BindingSets] \X C |-> BindingsBody(x[1], x[2][1], x[2][2])]
           Is(f) == f = [m \in C |-> BindingsBody(f, m[1], m[2])]
<1>1. Local(C, R, BindingSets, H)
    <2>1. ASSUME NEW f \in [C -> BindingSets], NEW x \in C
          PROVE  H[<<f, x>>] = BindingsBody(f, x[1], x[2]) /\ BindingsBody(f, x[1], x[2]) \in BindingSets
        <3>1. H[<<f, x>>] = BindingsBody(f, x[1], x[2])
            OBVIOUS
        <3>2. x[1] \in Pats /\ x[2] \in AllValues /\ \A y \in Pats, w \in AllValues : f[<<y, w>>] \in BindingSets
            OBVIOUS
        <3> QED BY <3>1, <3>2, BindingsTyped
    <2>2. ASSUME NEW f \in [C -> BindingSets], NEW x \in C, NEW g \in [C -> BindingSets],
                 \A y \in C : R[y] < R[x] => f[y] = g[y]
          PROVE  H[<<f, x>>] = H[<<g, x>>]
        <3>1. x[1] \in Pats /\ x[2] \in AllValues /\ R[x] = Size[x[1]]
            OBVIOUS
        <3>2. ASSUME NEW y \in Pats, NEW w \in AllValues, Size[y] < Size[x[1]]
              PROVE  f[<<y, w>>] = g[<<y, w>>]
            <4>1. <<y, w>> \in C /\ R[<<y, w>>] = Size[y]
                OBVIOUS
            <4> HIDE DEF C, R
            <4> QED BY <2>2, <3>1, <3>2, <4>1
        <3>3. BindingsBody(f, x[1], x[2]) = BindingsBody(g, x[1], x[2])
            <4> DEFINE p == x[1]
                       q == x[2]
            <4>1. p \in Pats /\ q \in AllValues /\ \A y \in Pats, w \in AllValues : Size[y] < Size[p] => f[<<y, w>>] = g[<<y, w>>]
                BY <3>1, <3>2
            <4> HIDE DEF C, R, H, p, q
            <4>2. BindingsBody(f, p, q) = BindingsBody(g, p, q)
                BY <4>1, BindingsLocal
            <4> QED BY <4>2 DEF p, q
        <3> HIDE DEF H, C, R
        <3> QED BY <2>1, <3>3
    <2> HIDE DEF H, C, R
    <2> QED BY <2>1, <2>2, Zenon DEF Local
<1>2. \E f : Is(f)
    <2>1. PICK f : Solution(f, C, BindingSets, H)
        <3>1. R \in [C -> Nat] /\ {} \in BindingSets
            BY SizeType DEF BindingSets
        <3> HIDE DEF H, C, R
        <3> QED BY <1>1, <3>1, RankRecursion
    <2>2. f \in [C -> BindingSets] /\ \A x \in C : f[x] = H[<<f, x>>]
        <3> HIDE DEF H, C
        <3> QED BY <2>1 DEF Solution
    <2>3. \A x \in C : f[x] = BindingsBody(f, x[1], x[2])
        <3> HIDE DEF C
        <3> QED BY <2>2
    <2>4. Is(f)
        <3> HIDE DEF C
        <3> QED BY <2>2, <2>3
    <2> QED BY <2>4
<1>3. Bindings = CHOOSE f : Is(f)
    BY Zenon DEF Bindings, BindingsBody, PartsIn
<1>4. Is(Bindings)
    <2> HIDE DEF Is
    <2> QED BY <1>2, <1>3
<1>5. <<pat, v>> \in C
    OBVIOUS
<1>6. Bindings[<<pat, v>>] = BindingsBody(Bindings, <<pat, v>>[1], <<pat, v>>[2])
    <2> HIDE DEF C
    <2> QED BY <1>4, <1>5
<1> QED BY <1>6

\* The first option that matches has the bindings of the whole.
LEMMA FirstOption ==
    ASSUME NEW pat \in Pats, NEW v \in AllValues, NEW j \in 1..Len(Options[pat]), Matches(Options[pat][j], v),
           \A k \in 1..(j - 1) : ~Matches(Options[pat][k], v)
    PROVE  Bindings[<<pat, v>>] = Bindings[<<Options[pat][j], v>>]
<1> DEFINE Is(x, n) == /\ n \in 1..Len(Options[x]) /\ Matches(Options[x][n], v)
                       /\ \A k \in 1..(n - 1) : ~Matches(Options[x][k], v)
           S == {x \in Pats : \A n : Is(x, n) => Bindings[<<x, v>>] = Bindings[<<Options[x][n], v>>]}
<1>1. ASSUME NEW x \in Pats, \A y \in Pats : Size[y] < Size[x] => y \in S, NEW n, Is(x, n)
      PROVE  Bindings[<<x, v>>] = Bindings[<<Options[x][n], v>>]
    <2>1. CASE x.p = "or"
        <3>1. x.l \in S /\ x.r \in S /\ x.l \in Pats /\ x.r \in Pats
            BY <1>1, <2>1, PatternParts
        <3> DEFINE s == Options[x.l]
                   t == Options[x.r]
                   l == Len(s)
                   m == Len(t)
        <3>2. Options[x] = s \o t /\ s \in Seq(Pats) /\ t \in Seq(Pats)
            BY <2>1, <3>1, OptionsDef DEF OptionsBody
        <3>3. l = Len(s) /\ m = Len(t)
            OBVIOUS
        <3>4. Bindings[<<x, v>>] = Bindings[<<IF Matches(x.l, v) THEN x.l ELSE x.r, v>>]
            BY <2>1, BindingsDef DEF BindingsBody
        <3>5. Matches(x.l, v) <=> \E o \in Elements(s) : Matches(o, v)
            BY <3>1, OptionIs
        <3> HIDE DEF s, t, l, m
        <3>6. /\ Len(s \o t) = l + m /\ l \in Nat /\ m \in Nat
              /\ \A i \in 1..(l + m) : (s \o t)[i] = IF i <= l THEN s[i] ELSE t[i - l]
            BY <3>2, <3>3, Joined
        <3>7. n \in 1..(l + m) /\ Matches((s \o t)[n], v) /\ \A k \in 1..(n - 1) : ~Matches((s \o t)[k], v)
            BY <1>1, <3>2, <3>6
        <3>8. CASE n <= l
            <4>1. n \in 1..Len(s) /\ (s \o t)[n] = s[n] /\ \A k \in 1..(n - 1) : (s \o t)[k] = s[k]
                BY <3>3, <3>6, <3>7, <3>8
            <4>2. Matches(x.l, v)
                BY <3>5, <3>7, <4>1 DEF Elements
            <4>3. Is(x.l, n)
                BY <3>7, <4>1 DEF s
            <4>4. Bindings[<<x.l, v>>] = Bindings[<<s[n], v>>]
                BY <3>1, <4>3 DEF s
            <4> QED BY <3>2, <3>4, <4>1, <4>2, <4>4
        <3>9. CASE ~(n <= l)
            <4>1. n - l \in 1..m /\ (s \o t)[n] = t[n - l]
                BY <3>6, <3>7, <3>9
            <4>2. ASSUME NEW k \in 1..l
                  PROVE  ~Matches(s[k], v)
                <5>1. k \in 1..(n - 1) /\ k \in 1..(l + m) /\ k <= l
                    <6>1. l \in Nat /\ m \in Nat /\ n \in 1..(l + m)
                        BY <3>6, <3>7
                    <6> QED BY <3>9, <6>1
                <5>2. (s \o t)[k] = s[k]
                    BY <3>6, <5>1
                <5> QED BY <3>7, <5>1, <5>2
            <4>3. ~Matches(x.l, v)
                BY <3>3, <3>5, <4>2 DEF Elements
            <4>4. ASSUME NEW k \in 1..((n - l) - 1)
                  PROVE  ~Matches(t[k], v)
                <5>1. k + l \in 1..(n - 1) /\ k + l \in 1..(l + m) /\ ~(k + l <= l) /\ (k + l) - l = k
                    BY <3>6, <3>7, <4>1
                <5>2. (s \o t)[k + l] = t[k]
                    BY <3>6, <5>1
                <5> QED BY <3>7, <5>1, <5>2
            <4>5. Is(x.r, n - l)
                BY <3>3, <3>7, <4>1, <4>4 DEF t
            <4>6. Bindings[<<x.r, v>>] = Bindings[<<t[n - l], v>>]
                BY <3>1, <4>5 DEF t
            <4> QED BY <3>2, <3>4, <4>1, <4>3, <4>6
        <3> QED BY <3>8, <3>9
    <2>2. CASE x.p # "or"
        <3>1. Options[x] = <<x>>
            BY <2>2, OptionIs
        <3>2. Len(<<x>>) = 1 /\ <<x>>[1] = x
            OBVIOUS
        <3>3. n = 1
            BY <1>1, <3>1, <3>2
        <3> QED BY <3>1, <3>2, <3>3
    <2> QED BY <2>1, <2>2
<1>2. \A x \in Pats : (\A y \in Pats : Size[y] < Size[x] => y \in S) => x \in S
    BY <1>1
<1>3. Pats \subseteq S
    <2> HIDE DEF S
    <2> QED BY <1>2, SizeType, RankInduction
<1>4. Is(pat, j)
    OBVIOUS
<1> HIDE DEF Is
<1> QED BY <1>3, <1>4

\* A name for the whole of what a pattern matches: a variable or an alias.
IsTop(b, pat, place, v) ==
    /\ b[2] = v /\ <<b[1], place>> \in Entries(pat, place)
    /\ \E o \in Standing[pat] : o[1] = <<>> /\ Names(o[2]) /\ o[2].x = b[1]

\* A binding is one of what the aliases are for, or it is for the whole.
LEMMA CoreBindings ==
    ASSUME NEW pat \in Pats, NEW place \in Places, NEW v \in AllValues, NEW b \in Bindings[<<pat, v>>]
    PROVE  (b \in Bindings[<<Core[pat], v>>] /\ ~IsWild(Core[pat])) \/ IsTop(b, pat, place, v)
<1> DEFINE Has(x, a) == (a \in Bindings[<<Core[x], v>>] /\ ~IsWild(Core[x])) \/ IsTop(a, x, place, v)
           S == {x \in Pats : \A a \in Bindings[<<x, v>>] : Has(x, a)}
<1>1. ASSUME NEW x \in Pats, \A y \in Pats : Size[y] < Size[x] => y \in S, NEW a \in Bindings[<<x, v>>]
      PROVE  Has(x, a)
    <2>1. <<<<>>, x>> \in Standing[x]
        BY StandingIn
    <2>2. CASE x.p = "alias"
        <3>1. x.q \in S /\ Core[x] = Core[x.q] /\ x.q \in Pats
            BY <1>1, <2>2, PatternParts, CoreFacts
        <3>2. Bindings[<<x, v>>] = Bindings[<<x.q, v>>] \cup {<<x.x, v>>}
            BY <2>2, BindingsDef DEF BindingsBody
        <3>3. Entries(x, place) = Entries(x.q, place) \cup {<<x.x, place>>}
            BY <2>2, EntriesAre
        <3>4. Standing[x] = {<<<<>>, x>>} \cup Standing[x.q]
            BY <2>2, StandingIn
        <3>5. CASE a \in Bindings[<<x.q, v>>]
            <4>1. Has(x.q, a)
                BY <3>1, <3>5
            <4>2. IsTop(a, x.q, place, v) => IsTop(a, x, place, v)
                BY <3>3, <3>4 DEF IsTop
            <4> QED BY <3>1, <4>1, <4>2
        <3>6. CASE a = <<x.x, v>>
            <4>1. Names(x)
                BY <2>2 DEF Names
            <4> QED BY <2>1, <3>3, <3>6, <4>1 DEF IsTop
        <3> QED BY <1>1, <3>2, <3>5, <3>6
    <2>3. CASE x.p = "bind"
        <3>1. Bindings[<<x, v>>] = {<<x.x, v>>}
            BY <2>3, BindingsDef DEF BindingsBody
        <3>2. Entries(x, place) = {<<x.x, place>>}
            BY <2>3, EntriesAre
        <3>3. a = <<x.x, v>> /\ Names(x)
            BY <1>1, <2>3, <3>1 DEF Names
        <3> QED BY <2>1, <3>2, <3>3 DEF IsTop
    <2>4. CASE x.p = "wild"
        <3>1. Bindings[<<x, v>>] = {}
            BY <2>4, BindingsDef DEF BindingsBody, HasParts
        <3> QED BY <1>1, <3>1
    <2>5. CASE x.p \notin {"alias", "bind", "wild"}
        <3>1. Core[x] = x /\ ~IsWild(x)
            BY <2>5, CoreFacts DEF IsWild
        <3> QED BY <1>1, <3>1
    <2> QED BY <2>2, <2>3, <2>4, <2>5
<1>2. \A x \in Pats : (\A y \in Pats : Size[y] < Size[x] => y \in S) => x \in S
    BY <1>1
<1>3. Pats \subseteq S
    <2> HIDE DEF S
    <2> QED BY <1>2, SizeType, RankInduction
<1> HIDE DEF Has
<1>4. Has(pat, b)
    BY <1>3
<1> QED BY <1>4 DEF Has

\* Everything in a variable under aliases is for the whole.
LEMMA AllAtTop ==
    ASSUME NEW pat \in Pats, AnyAlias(pat)
    PROVE  \A o \in Standing[pat] : o[1] = <<>>
<1> DEFINE Has(x) == AnyAlias(x) => \A o \in Standing[x] : o[1] = <<>>
           S == {x \in Pats : Has(x)}
<1>1. ASSUME NEW x \in Pats, \A y \in Pats : Size[y] < Size[x] => y \in S
      PROVE  Has(x)
    <2>1. CASE x.p = "alias"
        <3>1. x.q \in S /\ Core[x] = Core[x.q]
            BY <1>1, <2>1, PatternParts, CoreFacts
        <3>2. Standing[x] = {<<<<>>, x>>} \cup Standing[x.q]
            BY <2>1, StandingIn
        <3> QED BY <3>1, <3>2 DEF AnyAlias
    <2>2. CASE x.p # "alias"
        <3>1. Core[x] = x
            BY <2>2, CoreFacts
        <3>2. IsWild(x) => Standing[x] = {<<<<>>, x>>}
            BY StandingIn DEF IsWild
        <3> QED BY <3>1, <3>2 DEF AnyAlias
    <2> QED BY <2>1, <2>2
<1>2. \A x \in Pats : (\A y \in Pats : Size[y] < Size[x] => y \in S) => x \in S
    BY <1>1
<1>3. Pats \subseteq S
    <2> HIDE DEF S
    <2> QED BY <1>2, SizeType, RankInduction
<1>4. Has(pat)
    BY <1>3
<1> QED BY <1>4

\* A binding of a pattern with parts is one of a part.
LEMMA PartBindings ==
    ASSUME NEW pat \in Pats, NEW v \in AllValues, NEW b \in Bindings[<<pat, v>>], ~IsWild(pat), pat.p \notin {"alias", "or"}
    PROVE  /\ HasParts(pat)
           /\ \E i \in DOMAIN pat.args : PartOf(pat, i) \in DOMAIN v.parts /\ b \in Bindings[<<pat.args[i], v.parts[PartOf(pat, i)]>>]
<1>1. b \in BindingsBody(Bindings, pat, v)
    BY BindingsDef
<1>2. pat.p \notin {"alias", "or", "bind"}
    BY DEF IsWild
<1>3. HasParts(pat) /\ b \in UNION {Bindings[<<pat.args[i], v.parts[PartOf(pat, i)]>>] : i \in PartsIn(pat, v)}
    <2>1. CASE HasParts(pat)
        BY <1>1, <1>2, <2>1 DEF BindingsBody
    <2>2. CASE ~HasParts(pat)
        BY <1>1, <1>2, <2>2 DEF BindingsBody
    <2> QED BY <2>1, <2>2
<1>4. PICK i \in PartsIn(pat, v) : b \in Bindings[<<pat.args[i], v.parts[PartOf(pat, i)]>>]
    BY <1>3
<1> QED BY <1>3, <1>4 DEF PartsIn

-----------------------------------------------------------------------------
(* The variables bound so far.  s.pats has the patterns of the arms, s.home *)
(* the arms of the match that they were split from, s.whole the patterns of *)
(* these, s.val the value.                                                  *)
TestedIn(s, i, path) ==
    \E j \in 1..i : \E r \in Standing[s.whole[j]] : r[1] = path /\ (HasParts(r[2]) \/ r[2].p = "lit")
\* A variable whose place is tested: VariablesAreBound says nothing of it.
Loose(s, i, x) == \E o \in Standing[s.whole[i]] : o[2].p = "bind" /\ o[2].x = x /\ TestedIn(s, i, o[1])

Scoped(s) ==
    /\ s.val \in AllValues
    /\ \A a \in DOMAIN s.home : s.home[a] \in Nat /\ s.home[a] # 0
    /\ \A a, b \in DOMAIN s.home : a <= b => s.home[a] <= s.home[b]
    /\ \A a \in DOMAIN s.home : \A o, r \in Standing[s.whole[s.home[a]]] :
            Names(o[2]) /\ Names(r[2]) /\ o[2].x = r[2].x => o[1] = r[1]

\* Where the patterns of a row are in the pattern of their arm: a wildcard
\* may have been put at places below its own.
Stands(s, i, path, pat) == \A o \in Standing[pat] : <<path \o o[1], o[2]>> \in Standing[s.whole[i]]
Astray(s, i, pat) == IsWild(pat) /\ (pat.p = "bind" => Loose(s, i, pat.x))
IsPlaced(s, i, pat, k, occ) == Astray(s, i, pat) \/ (k \in 1..Len(occ) /\ Stands(s, i, occ[k].path, pat))
HomeOf(s, row) == s.home[row.arm]
AllPlaced(s, rows, occ) ==
    \A m \in 1..Len(rows) :
        /\ rows[m].arm \in DOMAIN s.home
        /\ \A k \in 1..Len(rows[m].pats) : IsPlaced(s, HomeOf(s, rows[m]), rows[m].pats[k], k, occ)

\* Of the alternatives of an arm the first that fits is the one that counts.
IsFirst(rows, occ, m, v) ==
    /\ FitsAt(rows[m], occ, v)
    /\ \A j \in 1..(m - 1) : rows[j].arm = rows[m].arm => ~FitsAt(rows[j], occ, v)

\* What becomes of a binding of the arm of row m: it need not be, or it is one
\* of what is left of the row, or it is there and is not touched again.
IsBound(e, i, b) == <<i, b[1]>> \in DOMAIN e /\ e[<<i, b[1]>>] = b[2]
HasName(pat, x) == \E o \in Standing[pat] : Names(o[2]) /\ o[2].x = x
Unnamed(s, rows, i, x) ==
    \A m \in 1..Len(rows) : HomeOf(s, rows[m]) = i =>
        \A k \in 1..Len(rows[m].pats) : ~HasName(rows[m].pats[k], x)
Pending(row, occ, v, b) == \E k \in 1..Len(occ) : b \in Bindings[<<row.pats[k], ValueAt(occ[k], v)>>]
Accounted(s, rows, occ, e, m, b) ==
    LET i == HomeOf(s, rows[m])
    IN  \/ Loose(s, i, b[1])
        \/ Pending(rows[m], occ, s.val, b)
        \/ IsBound(e, i, b) /\ Unnamed(s, rows, i, b[1])
BindingsOf(s, a) == Bindings[<<s.pats[a], s.val>>]
Carries(s, rows, occ, e) ==
    /\ PlacesHold(occ, s.val)
    /\ AllPlaced(s, rows, occ)
    /\ \A m \in 1..Len(rows) : IsFirst(rows, occ, m, s.val) =>
            \A b \in BindingsOf(s, rows[m].arm) : Accounted(s, rows, occ, e, m, b)
ArmBound(s, a, e) == \A b \in BindingsOf(s, a) : Loose(s, s.home[a], b[1]) \/ IsBound(e, s.home[a], b)

\* What a node does to the variables.
KeyAt(s, binds, k) == <<s.home[binds[k][1]], binds[k][2]>>
Writes(s, binds, i, x) == {binds[k][3] : k \in {j \in DOMAIN binds : KeyAt(s, binds, j) = <<i, x>>}}
BindTo(s, e, binds) ==
    LET bound == {KeyAt(s, binds, k) : k \in DOMAIN binds}
        Place(x) == binds[Max({k \in DOMAIN binds : KeyAt(s, binds, k) = x})][3]
    IN  [x \in bound \cup DOMAIN e |-> IF x \in bound THEN ValueAt(Place(x), s.val) ELSE e[x]]

LEMMA MaxFacts ==
    ASSUME NEW n \in Nat, NEW T \in SUBSET (1..n), T # {}
    PROVE  Max(T) \in T
<1> DEFINE U == {n - k : k \in T}
<1>1. U \in SUBSET Nat /\ U # {}
    <2>1. \A k \in T : n - k \in Nat
        OBVIOUS
    <2>2. PICK k \in T : TRUE
        OBVIOUS
    <2>3. n - k \in U
        BY <2>2
    <2> QED BY <2>1, <2>3
<1>2. PICK m \in U : \A k \in U : m <= k
    <2> HIDE DEF U
    <2> QED BY <1>1, LeastNumber
<1>3. PICK x \in T : m = n - x
    BY <1>2
<1>4. \A y \in T : x >= y
    <2> SUFFICES ASSUME NEW y \in T PROVE x >= y
        OBVIOUS
    <2>1. n - y \in U
        OBVIOUS
    <2>2. m <= n - y
        BY <1>2, <2>1
    <2> QED BY <1>3, <2>2
<1> QED BY <1>4 DEF Max

LEMMA BindsTo ==
    ASSUME NEW s, NEW e, NEW A, NEW binds \in Seq(A), NEW i, NEW b
    PROVE  LET w == Writes(s, binds, i, b[1])
           IN  /\ w = {} /\ IsBound(e, i, b) => IsBound(BindTo(s, e, binds), i, b)
               /\ w # {} /\ (\A place \in w : ValueAt(place, s.val) = b[2]) => IsBound(BindTo(s, e, binds), i, b)
<1> DEFINE w == Writes(s, binds, i, b[1])
           key == <<i, b[1]>>
           T == {j \in DOMAIN binds : KeyAt(s, binds, j) = key}
           bound == {KeyAt(s, binds, k) : k \in DOMAIN binds}
           new == BindTo(s, e, binds)
<1>1. w = {binds[k][3] : k \in T}
    BY DEF Writes
<1>2. key \in bound <=> T # {}
    OBVIOUS
<1>3. /\ DOMAIN new = bound \cup DOMAIN e
      /\ key \in bound => new[key] = ValueAt(binds[Max(T)][3], s.val)
      /\ key \in DOMAIN e /\ key \notin bound => new[key] = e[key]
    BY DEF BindTo
<1> HIDE DEF new, bound
<1>4. CASE T = {}
    <2>1. w = {}
        BY <1>1, <1>4
    <2> QED BY <1>2, <1>3, <1>4, <2>1 DEF IsBound, key, new, w
<1>5. CASE T # {}
    <2>1. Max(T) \in T
        <3>1. T \in SUBSET (1..Len(binds)) /\ Len(binds) \in Nat
            OBVIOUS
        <3> HIDE DEF T
        <3> QED BY <1>5, <3>1, MaxFacts
    <2>2. binds[Max(T)][3] \in w
        <3> DEFINE k == Max(T)
        <3> HIDE DEF k, T, w
        <3> QED BY <1>1, <2>1 DEF k
    <2> HIDE DEF T
    <2> QED BY <1>2, <1>3, <1>5, <2>2 DEF IsBound, key, new, w
<1> QED BY <1>4, <1>5

Writable == Nat \X VarNames \X Places
LEMMA WritesIn ==
    ASSUME NEW s, NEW A, NEW binds \in Seq(A), NEW i, NEW x, NEW place
    PROVE  place \in Writes(s, binds, i, x) <=>
             \E t \in Elements(binds) : s.home[t[1]] = i /\ t[2] = x /\ t[3] = place
<1>1. DOMAIN binds = 1..Len(binds)
    OBVIOUS
<1>2. \A k \in DOMAIN binds : KeyAt(s, binds, k) = <<i, x>> <=> s.home[binds[k][1]] = i /\ binds[k][2] = x
    BY DEF KeyAt
<1>3. place \in Writes(s, binds, i, x) <=> \E k \in DOMAIN binds : KeyAt(s, binds, k) = <<i, x>> /\ binds[k][3] = place
    BY DEF Writes
<1> QED BY <1>1, <1>2, <1>3 DEF Elements

LEMMA ArmEntries ==
    ASSUME NEW a \in Nat, NEW pat \in Pats, NEW place \in Places
    PROVE  LET binds == OfArm(a, BoundBy[<<pat, place>>])
           IN  binds \in Seq(Writable) /\ Elements(binds) = {<<a, e[1], e[2]>> : e \in Entries(pat, place)}
<1> DEFINE bound == BoundBy[<<pat, place>>]
           binds == OfArm(a, bound)
<1>1. bound \in Seq(VarNames \X Places)
    BY EntriesAre DEF BoundSeqs
<1> HIDE DEF bound
<1>2. binds = [k \in 1..Len(bound) |-> <<a, bound[k][1], bound[k][2]>>] /\ Len(bound) \in Nat
    <2>1. DOMAIN bound = 1..Len(bound) /\ Len(bound) \in Nat
        BY <1>1
    <2> QED BY <2>1 DEF OfArm
<1>3. \A k \in 1..Len(bound) : <<a, bound[k][1], bound[k][2]>> \in Writable
    <2> SUFFICES ASSUME NEW k \in 1..Len(bound)
                 PROVE  <<a, bound[k][1], bound[k][2]>> \in Writable
        OBVIOUS
    <2>1. bound[k] \in VarNames \X Places
        BY <1>1
    <2> QED BY <2>1 DEF Writable
<1> HIDE DEF binds
<1>4. binds \in Seq(Writable) /\ Len(binds) = Len(bound)
    BY <1>2, <1>3
<1>5. Elements(binds) = {<<a, e[1], e[2]>> : e \in Elements(bound)}
    <2>1. \A k \in 1..Len(bound) : binds[k] = <<a, bound[k][1], bound[k][2]>>
        BY <1>2
    <2>2. ASSUME NEW k \in 1..Len(bound)
          PROVE  binds[k] \in {<<a, e[1], e[2]>> : e \in Elements(bound)}
        <3>1. bound[k] \in Elements(bound)
            BY DEF Elements
        <3> QED BY <2>1, <3>1
    <2>3. ASSUME NEW e \in Elements(bound)
          PROVE  <<a, e[1], e[2]>> \in Elements(binds)
        <3>1. PICK k \in 1..Len(bound) : e = bound[k]
            BY DEF Elements
        <3>2. <<a, e[1], e[2]>> = binds[k] /\ k \in 1..Len(binds)
            BY <1>4, <2>1, <3>1
        <3> QED BY <3>2 DEF Elements
    <2>4. Elements(binds) \subseteq {<<a, e[1], e[2]>> : e \in Elements(bound)}
        BY <1>4, <2>2 DEF Elements
    <2> QED BY <2>3, <2>4
<1> QED BY <1>4, <1>5 DEF binds, bound, Entries

\* The variables that a tested column binds.
LEMMA ColumnWrites ==
    ASSUME NEW rows, NEW occ, NEW c, AtColumn(rows, occ, c)
    PROVE  LET binds == BindsAt(rows, occ, c)
           IN  /\ binds \in Seq(Writable)
               /\ \A t \in Elements(binds) : \E m \in AliasRows(rows, c) :
                    t[1] = rows[m].arm /\ <<t[2], t[3]>> \in Entries(rows[m].pats[c], occ[c])
               /\ \A m \in AliasRows(rows, c) : \A e \in Entries(rows[m].pats[c], occ[c]) :
                    <<rows[m].arm, e[1], e[2]>> \in Elements(binds)
               /\ AliasRows(rows, c) \subseteq 1..Len(rows)
<1> DEFINE n == Len(rows)
           K == AliasRows(rows, c)
           ss == [i \in DOMAIN rows |-> IF i \in K THEN OfArm(rows[i].arm, BoundBy[<<rows[i].pats[c], occ[c]>>]) ELSE <<>>]
           binds == BindsAt(rows, occ, c)
<1>1. rows \in Seq(MatrixRows) /\ n \in Nat /\ DOMAIN rows = 1..n
    <2>1. IsGood(rows, occ)
        BY DEF AtColumn
    <2>2. rows \in Seq(MatrixRows)
        BY <2>1, GoodFacts
    <2> QED BY <2>2
<1>2. K \subseteq 1..n
    BY <1>1 DEF AliasRows
<1>3. ASSUME NEW i \in 1..n
      PROVE  /\ rows[i].pats[c] \in Pats /\ occ[c] \in Places /\ rows[i].arm \in Nat
    <2>1. IsHead(rows, occ, c, i)
        BY <1>3, ColumnHead
    <2>2. rows[i].arm \in Nat
        <3>1. IsMatrix(rows, occ)
            BY DEF AtColumn, IsGood
        <3> QED BY <1>3, <3>1, RowAt
    <2> QED BY <2>1, <2>2 DEF IsHead
<1> DEFINE part(i) == {<<rows[i].arm, e[1], e[2]>> : e \in Entries(rows[i].pats[c], occ[c])}
<1>4. ASSUME NEW i \in 1..n
      PROVE  ss[i] \in Seq(Writable) /\ Elements(ss[i]) = IF i \in K THEN part(i) ELSE {}
    <2>1. CASE i \in K
        BY <1>1, <1>3, <2>1, ArmEntries
    <2>2. CASE i \notin K
        <3>1. ss[i] = <<>>
            BY <1>1, <2>2
        <3>2. <<>> \in Seq(Writable) /\ Elements(<<>>) = {}
            BY EmptySeq DEF Elements
        <3> QED BY <2>2, <3>1, <3>2
    <2> QED BY <2>1, <2>2
<1>5. DOMAIN ss = 1..n /\ ss = [i \in DOMAIN ss |-> ss[i]]
    BY <1>1
<1>6. binds = FlattenSeq(ss)
    BY DEF BindsAt
<1> HIDE DEF ss, n, K, part
<1>7. ss \in [1..n -> Seq(Writable)]
    BY <1>4, <1>5
<1>8. binds \in Seq(Writable) /\ Elements(binds) = UNION {Elements(ss[i]) : i \in 1..n}
    BY <1>1, <1>6, <1>7, FlattenedElements
<1> HIDE DEF binds
<1>9. ASSUME NEW t \in Elements(binds)
      PROVE  \E m \in K : t[1] = rows[m].arm /\ <<t[2], t[3]>> \in Entries(rows[m].pats[c], occ[c])
    <2>1. PICK i \in 1..n : t \in Elements(ss[i])
        BY <1>8, <1>9
    <2>2. i \in K /\ t \in part(i)
        BY <1>4, <2>1
    <2>3. PICK e \in Entries(rows[i].pats[c], occ[c]) : t = <<rows[i].arm, e[1], e[2]>>
        BY <2>2 DEF part
    <2>4. e = <<e[1], e[2]>>
        <3>1. BoundBy[<<rows[i].pats[c], occ[c]>>] \in Seq(VarNames \X Places)
            BY <1>3, <2>1, EntriesAre DEF BoundSeqs
        <3>2. e \in VarNames \X Places
            BY <3>1 DEF Entries, Elements
        <3> QED BY <3>2
    <2> QED BY <2>2, <2>3, <2>4
<1>10. ASSUME NEW m \in K, NEW e \in Entries(rows[m].pats[c], occ[c])
       PROVE  <<rows[m].arm, e[1], e[2]>> \in Elements(binds)
    <2>1. m \in 1..n /\ <<rows[m].arm, e[1], e[2]>> \in Elements(ss[m])
        BY <1>2, <1>4 DEF part
    <2> QED BY <1>8, <2>1
<1> QED BY <1>2, <1>8, <1>9, <1>10 DEF binds, K, n

\* The variables that an arm binds: a row has a pattern for each place.
LEMMA ArmWrites ==
    ASSUME NEW rows, NEW occ, IsGood(rows, occ), rows # <<>>
    PROVE  LET binds == BindsOf(rows, occ)
           IN  /\ binds \in Seq(Writable)
               /\ \A t \in Elements(binds) : t[1] = rows[1].arm /\
                    \E k \in 1..Len(occ) : <<t[2], t[3]>> \in Entries(rows[1].pats[k], occ[k])
               /\ \A k \in 1..Len(occ) : \A e \in Entries(rows[1].pats[k], occ[k]) :
                    <<rows[1].arm, e[1], e[2]>> \in Elements(binds)
<1> DEFINE row == rows[1]
           n == Len(occ)
           l == Len(row.pats)
           ss == [i \in 1..n |-> BoundBy[<<row.pats[i], occ[i]>>]]
           bound == FlattenSeq(ss)
           binds == BindsOf(rows, occ)
           A == VarNames \X Places
<1>1. Len(rows) \in Nat /\ Len(rows) # 0 /\ occ \in Seq(Places) /\ n \in Nat /\ (occ = <<>> <=> n = 0)
    BY GoodFacts
<1>2. 1 \in 1..Len(rows)
    <2> DEFINE m == Len(rows)
    <2>1. m \in Nat /\ m # 0
        BY <1>1
    <2> HIDE DEF m
    <2>2. 1 \in 1..m
        BY <2>1
    <2> QED BY <2>2 DEF m
<1>3. row.pats \in Seq(Pats) /\ row.arm \in Nat /\ (occ # <<>> => l = n)
    BY <1>2, GoodFacts
<1>4. Min({l, n}) = n
    <2> HIDE DEF l, n
    <2>1. l \in Nat
        BY <1>3 DEF l
    <2> DEFINE T == {l, n}
    <2>2. T \in SUBSET Nat /\ T # {} /\ n \in T /\ \A x \in T : x = l \/ x = n
        BY <1>1, <2>1
    <2> HIDE DEF T
    <2>3. Min(T) \in T /\ Min(T) <= n
        BY <2>2, MinFacts
    <2>4. n # 0 => l = n
        BY <1>1, <1>3
    <2> DEFINE m == Min(T)
    <2> HIDE DEF m
    <2>5. m = n
        <3>1. m \in T /\ m <= n /\ m \in Nat /\ n \in Nat
            BY <1>1, <2>2, <2>3 DEF m
        <3>2. m = l \/ m = n
            BY <2>2, <3>1
        <3> QED BY <2>4, <3>1, <3>2
    <2> QED BY <2>5 DEF T, m
<1>5. binds = OfArm(row.arm, bound)
    BY <1>4 DEF BindsOf
<1>6. \A i \in 1..n : ss[i] = BoundBy[<<row.pats[i], occ[i]>>] /\ ss[i] \in Seq(A) /\ Elements(ss[i]) = Entries(row.pats[i], occ[i])
    <2> SUFFICES ASSUME NEW i \in 1..n
                 PROVE  /\ ss[i] = BoundBy[<<row.pats[i], occ[i]>>] /\ ss[i] \in Seq(A)
                        /\ Elements(ss[i]) = Entries(row.pats[i], occ[i])
        OBVIOUS
    <2>1. ss[i] = BoundBy[<<row.pats[i], occ[i]>>]
        OBVIOUS
    <2>2. row.pats[i] \in Pats /\ occ[i] \in Places
        <3>1. n # 0
            BY <1>1
        <3>2. i \in 1..l
            BY <1>1, <1>3, <3>1
        <3> QED BY <1>1, <1>3, <3>2
    <2> HIDE DEF ss
    <2>3. ss[i] \in Seq(A)
        BY <2>1, <2>2, EntriesAre DEF BoundSeqs
    <2> QED BY <2>1, <2>3 DEF Entries
<1>7. DOMAIN ss = 1..n /\ ss = [i \in DOMAIN ss |-> ss[i]]
    OBVIOUS
<1> HIDE DEF ss, n, l, A
<1>8. ss \in [1..n -> Seq(A)]
    BY <1>6, <1>7
<1>16. bound = FlattenSeq(ss)
    OBVIOUS
<1> HIDE DEF bound, row, binds
<1>9. bound \in Seq(A) /\ Elements(bound) = UNION {Elements(ss[i]) : i \in 1..n}
    BY <1>1, <1>8, <1>16, FlattenedElements
<1>10. binds = [k \in 1..Len(bound) |-> <<row.arm, bound[k][1], bound[k][2]>>] /\ Len(bound) \in Nat
    <2>1. DOMAIN bound = 1..Len(bound) /\ Len(bound) \in Nat
        BY <1>9
    <2> QED BY <1>5, <2>1 DEF OfArm
<1>11. \A k \in 1..Len(bound) : bound[k] \in VarNames \X Places /\ bound[k] = <<bound[k][1], bound[k][2]>>
    <2>1. \A k \in 1..Len(bound) : bound[k] \in VarNames \X Places
        BY <1>9 DEF A
    <2> QED BY <2>1
<1>12. binds \in Seq(Writable) /\ Len(binds) = Len(bound)
    <2>1. \A k \in 1..Len(bound) : <<row.arm, bound[k][1], bound[k][2]>> \in Writable
        BY <1>3, <1>11 DEF Writable
    <2> QED BY <1>10, <2>1
<1>13. \A k \in 1..Len(bound) : binds[k] = <<row.arm, bound[k][1], bound[k][2]>>
    BY <1>10
<1>14. ASSUME NEW t \in Elements(binds)
       PROVE  t[1] = row.arm /\ \E k \in 1..n : <<t[2], t[3]>> \in Entries(row.pats[k], occ[k])
    <2>1. PICK k \in 1..Len(bound) : t = <<row.arm, bound[k][1], bound[k][2]>>
        BY <1>12, <1>13, <1>14 DEF Elements
    <2>2. t[1] = row.arm /\ <<t[2], t[3]>> = bound[k]
        BY <1>11, <2>1
    <2>3. bound[k] \in Elements(bound)
        BY DEF Elements
    <2>4. PICK i \in 1..n : bound[k] \in Elements(ss[i])
        BY <1>9, <2>3
    <2> QED BY <1>6, <2>2, <2>4
<1>15. ASSUME NEW k \in 1..n, NEW e \in Entries(row.pats[k], occ[k])
       PROVE  <<row.arm, e[1], e[2]>> \in Elements(binds)
    <2>1. e \in Elements(ss[k])
        BY <1>6
    <2>2. e \in Elements(bound)
        BY <1>9, <2>1
    <2>3. PICK j \in 1..Len(bound) : e = bound[j]
        BY <2>2 DEF Elements
    <2>4. j \in 1..Len(binds) /\ binds[j] = <<row.arm, e[1], e[2]>>
        BY <1>12, <1>13, <2>3
    <2> QED BY <2>4 DEF Elements
<1> QED BY <1>12, <1>14, <1>15 DEF binds, row, n

-----------------------------------------------------------------------------
(* What becomes of the bindings of a row in the matrices below. *)
\* What is left of a pattern is where the pattern is, with names of it.
LEMMA PlacedNarrower ==
    ASSUME NEW s, NEW i, NEW pat \in Pats, NEW o, Narrower(o, pat)
    PROVE  /\ \A k, occ : IsPlaced(s, i, pat, k, occ) => IsPlaced(s, i, o, k, occ)
           /\ \A x : HasName(o, x) => HasName(pat, x)
<1>1. Standing[o] \subseteq Standing[pat]
    BY DEF Narrower
<1>2. IsWild(pat) => o = pat
    BY DEF Narrower, IsPlain
<1>3. \A path : Stands(s, i, path, pat) => Stands(s, i, path, o)
    BY <1>1 DEF Stands
<1>4. Astray(s, i, pat) => Astray(s, i, o)
    BY <1>2 DEF Astray
<1> QED BY <1>1, <1>3, <1>4 DEF IsPlaced, HasName

\* The row that row k of the opened matrix is an alternative of.
OpenedFrom(E, rows, r, c, k) ==
    LET row == rows[r[k]]
    IN  /\ r[k] \in 1..Len(rows) /\ c[k] \in 1..Len(Expand(row)) /\ E[k] = Expand(row)[c[k]]
        /\ row \in MatrixRows /\ row.pats \in Seq(Pats)
        /\ E[k].arm = row.arm /\ Len(E[k].pats) = Len(row.pats)
        /\ \A j \in 1..Len(row.pats) : Narrower(E[k].pats[j], row.pats[j]) /\ (j # 1 => E[k].pats[j] = row.pats[j])

LEMMA OpenedFacts ==
    ASSUME NEW rows, NEW occ, IsGood(rows, occ)
    PROVE  \E r, c : IsExpansion(r, c, rows) /\ \A k \in 1..Len(Expanded(rows)) : OpenedFrom(Expanded(rows), rows, r, c, k)
<1> DEFINE E == Expanded(rows)
<1>1. rows \in Seq(MatrixRows) /\ \A i \in 1..Len(rows) : rows[i] \in MatrixRows /\ rows[i].pats \in Seq(Pats)
    BY GoodFacts
<1>2. PICK r, c : IsExpansion(r, c, rows)
    BY <1>1, ExpandedFacts
<1> HIDE DEF E
<1>3. ASSUME NEW k \in 1..Len(E)
      PROVE  OpenedFrom(E, rows, r, c, k)
    <2> DEFINE row == rows[r[k]]
               n == Len(row.pats)
               j == c[k]
    <2>1. r[k] \in 1..Len(rows) /\ j \in 1..Len(Expand(row)) /\ E[k] = Expand(row)[j]
        BY <1>2 DEF IsExpansion, E
    <2>2. row \in MatrixRows /\ row.pats \in Seq(Pats) /\ n = Len(row.pats)
        BY <1>1, <2>1
    <2> HIDE DEF row, j, n
    <2>3. /\ Expand(row)[j].arm = row.arm
          /\ Len(Expand(row)[j].pats) = n
          /\ \A x \in 1..n : /\ Narrower(Expand(row)[j].pats[x], row.pats[x])
                             /\ x # 1 => Expand(row)[j].pats[x] = row.pats[x]
        BY <2>1, <2>2, ExpandedRow
    <2> QED BY <2>1, <2>2, <2>3 DEF OpenedFrom, row, j
<1> QED BY <1>2, <1>3 DEF E

\* An alternative is the first to fit where its row is, and no alternative
\* before it fits.
LEMMA OpenedFirst ==
    ASSUME NEW rows, NEW occ, IsGood(rows, occ), NEW v, PlacesHold(occ, v), NEW r, NEW c, IsExpansion(r, c, rows),
           \A k \in 1..Len(Expanded(rows)) : OpenedFrom(Expanded(rows), rows, r, c, k),
           NEW k \in 1..Len(Expanded(rows)), IsFirst(Expanded(rows), occ, k, v)
    PROVE  /\ IsFirst(rows, occ, r[k], v)
           /\ \A j \in 1..(c[k] - 1) : ~FitsAt(Expand(rows[r[k]])[j], occ, v)
<1> DEFINE E == Expanded(rows)
           m == r[k]
<1>1. /\ occ \in Seq(Places) /\ Len(occ) \in Nat /\ (occ = <<>> <=> Len(occ) = 0) /\ Len(rows) \in Nat
      /\ \A i \in 1..Len(rows) : rows[i] \in MatrixRows /\ (occ # <<>> => Len(rows[i].pats) = Len(occ))
    BY GoodFacts
<1>2. Len(E) \in Nat
    <2>1. rows \in Seq(MatrixRows)
        BY GoodFacts
    <2>2. E \in Seq(MatrixRows)
        BY <2>1, ExpandedFacts
    <2> HIDE DEF E
    <2> QED BY <2>2
<1> HIDE DEF E
<1>3. \A i \in 1..Len(E) : OpenedFrom(E, rows, r, c, i)
    BY DEF E
<1>4. /\ FitsAt(E[k], occ, v)
      /\ \A j \in 1..(k - 1) : E[j].arm = E[k].arm => ~FitsAt(E[j], occ, v)
      /\ k \in 1..Len(E)
    BY DEF IsFirst, E
<1>5. /\ \A i \in 1..Len(rows) : \A j \in 1..Len(Expand(rows[i])) : \E x \in 1..Len(E) : r[x] = i /\ c[x] = j
      /\ \A x, y \in 1..Len(E) : x < y => r[x] <= r[y]
      /\ \A x, y \in 1..Len(E) : x < y /\ r[x] = r[y] => c[x] < c[y]
    BY DEF IsExpansion, E
<1>6. \A i \in 1..Len(rows) : FitsAt(rows[i], occ, v) <=> \E j \in 1..Len(Expand(rows[i])) : FitsAt(Expand(rows[i])[j], occ, v)
    <2> SUFFICES ASSUME NEW i \in 1..Len(rows)
                 PROVE  FitsAt(rows[i], occ, v) <=> \E j \in 1..Len(Expand(rows[i])) : FitsAt(Expand(rows[i])[j], occ, v)
        OBVIOUS
    <2>1. occ # <<>> => ValueAt(occ[1], v) \in AllValues
        <3> SUFFICES ASSUME occ # <<>> PROVE ValueAt(occ[1], v) \in AllValues
            OBVIOUS
        <3>1. 1 \in 1..Len(occ)
            BY <1>1
        <3>2. Inhabitants[occ[1].type] \subseteq AllValues
            BY <3>1, TypeOfPlace
        <3>3. ValueAt(occ[1], v) \in Inhabitants[occ[1].type]
            BY <3>1 DEF PlacesHold
        <3> QED BY <3>2, <3>3
    <2> QED BY <1>1, <2>1, ExpandedFits
<1>7. /\ m \in 1..Len(rows) /\ c[k] \in 1..Len(Expand(rows[m])) /\ E[k] = Expand(rows[m])[c[k]]
      /\ E[k].arm = rows[m].arm
    BY <1>3, <1>4 DEF OpenedFrom
<1>8. FitsAt(rows[m], occ, v)
    BY <1>4, <1>6, <1>7
<1>9. ASSUME NEW i \in 1..(m - 1), rows[i].arm = rows[m].arm, FitsAt(rows[i], occ, v)
      PROVE  FALSE
    <2>1. i \in 1..Len(rows) /\ i < m /\ i \in Nat /\ m \in Nat
        <3>1. m \in 1..Len(rows) /\ Len(rows) \in Nat /\ i \in 1..(m - 1)
            BY <1>1, <1>7, <1>9
        <3> HIDE DEF m
        <3> QED BY <3>1
    <2>2. PICK j \in 1..Len(Expand(rows[i])) : FitsAt(Expand(rows[i])[j], occ, v)
        BY <1>6, <1>9, <2>1
    <2>3. PICK x \in 1..Len(E) : r[x] = i /\ c[x] = j
        BY <1>5, <2>1
    <2>4. FitsAt(E[x], occ, v) /\ E[x].arm = E[k].arm
        BY <1>3, <1>7, <1>9, <2>2, <2>3 DEF OpenedFrom
    <2>5. ~(k <= x)
        <3>1. k = x => m = i
            BY <2>3
        <3>2. k < x => m <= i
            BY <1>4, <1>5, <2>3
        <3> HIDE DEF m
        <3> QED BY <1>2, <1>4, <2>1, <3>1, <3>2
    <2>6. x \in 1..(k - 1)
        BY <1>2, <1>4, <2>5
    <2> QED BY <1>4, <2>4, <2>6
<1>10. ASSUME NEW j \in 1..(c[k] - 1), FitsAt(Expand(rows[m])[j], occ, v)
       PROVE  FALSE
    <2> DEFINE n == c[k]
               l == Len(Expand(rows[m]))
    <2>1. l \in Nat
        BY <1>1, <1>7, ExpandedAll
    <2>2. n \in 1..l
        BY <1>7
    <2>3. j \in 1..(n - 1)
        BY <1>10
    <2> HIDE DEF n, l
    <2>4. j \in 1..l /\ j < n /\ j \in Nat /\ n \in Nat
        BY <2>1, <2>2, <2>3
    <2>5. PICK x \in 1..Len(E) : r[x] = m /\ c[x] = j
        BY <1>5, <1>7, <2>4 DEF l
    <2>6. FitsAt(E[x], occ, v) /\ E[x].arm = E[k].arm
        BY <1>3, <1>7, <1>10, <2>5 DEF OpenedFrom
    <2>7. ~(k <= x)
        <3>1. k = x => n = j
            BY <2>5 DEF n
        <3>2. k < x => n < j
            BY <1>4, <1>5, <2>5 DEF n
        <3> QED BY <1>2, <1>4, <2>4, <3>1, <3>2
    <2>8. x \in 1..(k - 1)
        BY <1>2, <1>4, <2>7
    <2> QED BY <1>4, <2>6, <2>8
<1>11. IsFirst(rows, occ, m, v)
    BY <1>8, <1>9 DEF IsFirst
<1> QED BY <1>10, <1>11

\* What a row says of a binding is said by its first alternative that fits.
LEMMA OpenedCarries ==
    ASSUME NEW rows, NEW occ, IsGood(rows, occ), NEW s, NEW e, Carries(s, rows, occ, e)
    PROVE  Carries(s, Expanded(rows), occ, e)
<1> DEFINE E == Expanded(rows)
           v == s.val
<1>1. /\ occ \in Seq(Places) /\ Len(occ) \in Nat /\ (occ = <<>> <=> Len(occ) = 0)
      /\ \A i \in 1..Len(rows) : rows[i] \in MatrixRows /\ (occ # <<>> => Len(rows[i].pats) = Len(occ))
    BY GoodFacts
<1>2. PlacesHold(occ, v) /\ AllPlaced(s, rows, occ)
    BY DEF Carries
<1>3. PICK r, c : /\ IsExpansion(r, c, rows)
                  /\ \A k \in 1..Len(Expanded(rows)) : OpenedFrom(Expanded(rows), rows, r, c, k)
    BY OpenedFacts
<1> HIDE DEF E
<1>4. \A k \in 1..Len(E) : OpenedFrom(E, rows, r, c, k)
    BY <1>3 DEF E
<1>5. ASSUME NEW k \in 1..Len(E)
      PROVE  /\ HomeOf(s, E[k]) = HomeOf(s, rows[r[k]]) /\ E[k].arm \in DOMAIN s.home
             /\ \A j \in 1..Len(E[k].pats) : IsPlaced(s, HomeOf(s, E[k]), E[k].pats[j], j, occ)
             /\ \A j \in 1..Len(E[k].pats) : \A x : HasName(E[k].pats[j], x) => HasName(rows[r[k]].pats[j], x)
             /\ Len(E[k].pats) = Len(rows[r[k]].pats)
    <2> DEFINE row == rows[r[k]]
    <2>1. /\ r[k] \in 1..Len(rows) /\ row \in MatrixRows /\ row.pats \in Seq(Pats)
          /\ E[k].arm = row.arm /\ Len(E[k].pats) = Len(row.pats)
          /\ \A j \in 1..Len(row.pats) : Narrower(E[k].pats[j], row.pats[j])
        BY <1>4 DEF OpenedFrom
    <2>2. HomeOf(s, E[k]) = HomeOf(s, row)
        BY <2>1 DEF HomeOf
    <2>3. row.arm \in DOMAIN s.home /\ \A j \in 1..Len(row.pats) : IsPlaced(s, HomeOf(s, row), row.pats[j], j, occ)
        BY <1>2, <2>1 DEF AllPlaced
    <2> HIDE DEF row
    <2>4. \A j \in 1..Len(row.pats) : row.pats[j] \in Pats
        BY <2>1
    <2>5. ASSUME NEW j \in 1..Len(row.pats)
          PROVE  /\ IsPlaced(s, HomeOf(s, row), E[k].pats[j], j, occ)
                 /\ \A x : HasName(E[k].pats[j], x) => HasName(row.pats[j], x)
        <3>1. row.pats[j] \in Pats /\ Narrower(E[k].pats[j], row.pats[j]) /\ IsPlaced(s, HomeOf(s, row), row.pats[j], j, occ)
            BY <2>1, <2>3, <2>4
        <3> QED BY <3>1, PlacedNarrower
    <2> QED BY <2>1, <2>2, <2>3, <2>5 DEF row
<1>6. AllPlaced(s, E, occ)
    BY <1>5 DEF AllPlaced
<1>7. ASSUME NEW k \in 1..Len(E), IsFirst(E, occ, k, v), NEW b \in BindingsOf(s, E[k].arm)
      PROVE  Accounted(s, E, occ, e, k, b)
    <2> DEFINE m == r[k]
               row == rows[m]
               i == HomeOf(s, row)
    <2>1. /\ m \in 1..Len(rows) /\ c[k] \in 1..Len(Expand(row)) /\ E[k] = Expand(row)[c[k]]
          /\ row \in MatrixRows /\ row.pats \in Seq(Pats)
          /\ E[k].arm = row.arm /\ Len(E[k].pats) = Len(row.pats)
          /\ \A j \in 1..Len(row.pats) : Narrower(E[k].pats[j], row.pats[j]) /\ (j # 1 => E[k].pats[j] = row.pats[j])
        BY <1>4 DEF OpenedFrom
    <2>2. /\ IsFirst(rows, occ, m, v)
          /\ \A j \in 1..(c[k] - 1) : ~FitsAt(Expand(row)[j], occ, v)
        BY <1>2, <1>3, <1>7, OpenedFirst DEF E
    <2>3. Accounted(s, rows, occ, e, m, b)
        BY <1>7, <2>1, <2>2 DEF Carries
    <2>4. HomeOf(s, E[k]) = i
        BY <1>5
    <2>5. FitsAt(E[k], occ, v)
        BY <1>7 DEF IsFirst
    <2>6. CASE Loose(s, i, b[1])
        BY <2>4, <2>6 DEF Accounted
    <2>7. CASE IsBound(e, i, b) /\ Unnamed(s, rows, i, b[1])
        <3>1. Unnamed(s, E, i, b[1])
            <4> SUFFICES ASSUME NEW x \in 1..Len(E), HomeOf(s, E[x]) = i, NEW j \in 1..Len(E[x].pats)
                         PROVE  ~HasName(E[x].pats[j], b[1])
                BY DEF Unnamed
            <4>1. r[x] \in 1..Len(rows)
                BY <1>4 DEF OpenedFrom
            <4>2. HomeOf(s, rows[r[x]]) = i /\ j \in 1..Len(rows[r[x]].pats)
                BY <1>5
            <4>3. ~HasName(rows[r[x]].pats[j], b[1])
                BY <2>7, <4>1, <4>2 DEF Unnamed
            <4> QED BY <1>5, <4>3
        <3> QED BY <2>4, <2>7, <3>1 DEF Accounted
    <2>8. CASE Pending(row, occ, v, b)
        <3>1. PICK j \in 1..Len(occ) : b \in Bindings[<<row.pats[j], ValueAt(occ[j], v)>>]
            BY <2>8 DEF Pending
        <3>2. occ # <<>> /\ Len(row.pats) = Len(occ) /\ j \in 1..Len(row.pats)
            <4>1. Len(occ) # 0
                BY <1>1, <3>1
            <4> QED BY <1>1, <2>1, <3>1, <4>1
        <3>3. b \in Bindings[<<E[k].pats[j], ValueAt(occ[j], v)>>]
            <4>1. CASE j # 1
                BY <2>1, <3>1, <3>2, <4>1
            <4>2. CASE j = 1
                <5> DEFINE pat == row.pats[1]
                           heads == Options[pat]
                           w == ValueAt(occ[1], v)
                           n == c[k]
                <5>1. row.pats # <<>> /\ pat \in Pats
                    <6>1. Len(row.pats) # 0
                        BY <1>1, <3>2
                    <6> QED BY <2>1, <3>2, <4>2
                <5>2. Len(Expand(row)) = Len(heads) /\ Len(Expand(row)) \in Nat
                    BY <2>1, <5>1, ExpandedAll
                <5>3. ASSUME NEW x \in 1..Len(Expand(row))
                      PROVE  /\ Expand(row)[x].pats[1] = heads[x]
                             /\ \A y \in 1..Len(row.pats) : y # 1 => Expand(row)[x].pats[y] = row.pats[y]
                    <6> DEFINE l == Len(row.pats)
                    <6>1. l = Len(row.pats) /\ l # 0 /\ row \in MatrixRows
                        BY <1>1, <2>1, <3>2
                    <6> HIDE DEF l, row
                    <6>2. /\ \A y \in 1..l : y # 1 => Expand(row)[x].pats[y] = row.pats[y]
                          /\ l # 0 => Expand(row)[x].pats[1] = Options[row.pats[1]][x]
                        BY <5>3, <6>1, ExpandedRow
                    <6> QED BY <6>1, <6>2
                <5>4. w \in AllValues
                    <6>1. w \in Inhabitants[occ[1].type]
                        BY <1>2, <3>1, <4>2 DEF PlacesHold
                    <6>2. Inhabitants[occ[1].type] \subseteq AllValues
                        BY <2>1, <3>1, <4>2, TypeOfPlace
                    <6> QED BY <6>1, <6>2
                <5>5. E[k].pats[1] = heads[n] /\ n \in 1..Len(heads)
                    BY <2>1, <5>2, <5>3
                <5>6. Matches(heads[n], w)
                    BY <2>5, <3>1, <4>2, <5>5 DEF FitsAt
                <5>7. ASSUME NEW x \in 1..(n - 1), Matches(heads[x], w)
                      PROVE  FALSE
                    <6>1. x \in 1..Len(Expand(row))
                        <7> DEFINE l == Len(Expand(row))
                        <7>1. l \in Nat /\ n \in 1..l /\ x \in 1..(n - 1)
                            BY <2>1, <5>2, <5>7
                        <7> HIDE DEF l, n
                        <7>2. x \in 1..l
                            BY <7>1
                        <7> QED BY <7>2 DEF l
                    <6>2. FitsAt(Expand(row)[x], occ, v)
                        <7> SUFFICES ASSUME NEW y \in 1..Len(occ)
                                     PROVE  Matches(Expand(row)[x].pats[y], ValueAt(occ[y], v))
                            BY DEF FitsAt
                        <7>1. CASE y = 1
                            BY <5>3, <5>7, <6>1, <7>1
                        <7>2. CASE y # 1
                            <8>1. Expand(row)[x].pats[y] = row.pats[y] /\ E[k].pats[y] = row.pats[y]
                                BY <2>1, <3>2, <5>3, <6>1, <7>2
                            <8>2. Matches(E[k].pats[y], ValueAt(occ[y], v))
                                BY <2>5 DEF FitsAt
                            <8> QED BY <8>1, <8>2
                        <7> QED BY <7>1, <7>2
                    <6> QED BY <2>2, <5>7, <6>2
                <5>8. Bindings[<<pat, w>>] = Bindings[<<heads[n], w>>]
                    <6> HIDE DEF w, n, pat
                    <6>1. \A x \in 1..(n - 1) : ~Matches(heads[x], w)
                        BY <5>7
                    <6> QED BY <5>1, <5>4, <5>5, <5>6, <6>1, FirstOption
                <5> QED BY <3>1, <4>2, <5>5, <5>8
            <4> QED BY <4>1, <4>2
        <3>4. Pending(E[k], occ, v, b)
            BY <3>3 DEF Pending
        <3> QED BY <3>4 DEF Accounted
    <2> QED BY <2>3, <2>6, <2>7, <2>8 DEF Accounted
<1> QED BY <1>2, <1>6, <1>7 DEF Carries, E

\* A variable in a column that is tested is one that nothing is said of.
LEMMA ColumnLoose ==
    ASSUME NEW rows, NEW occ, NEW c, AtColumn(rows, occ, c), NEW s, Scoped(s), AllPlaced(s, rows, occ),
           NEW i \in 1..Len(rows), IsWild(CoreAt(rows, i, c))
    PROVE  Astray(s, HomeOf(s, rows[i]), CoreAt(rows, i, c))
<1> DEFINE q == CoreAt(rows, i, c)
           pat == rows[i].pats[c]
           h == HomeOf(s, rows[i])
           path == occ[c].path
<1>1. 1 \in 1..Len(rows) /\ ~IsWild(CoreAt(rows, 1, c))
    BY FirstKey
<1>2. IsHead(rows, occ, c, i) /\ IsHead(rows, occ, c, 1)
    BY <1>1, ColumnHead
<1>3. path \in Seq(Steps)
    BY <1>2 DEF IsHead, Places
<1>4. ASSUME NEW j \in 1..Len(rows), IsHead(rows, occ, c, j), ~IsWild(rows[j].pats[c]) \/ ~Astray(s, HomeOf(s, rows[j]), rows[j].pats[c])
      PROVE  <<path, CoreAt(rows, j, c)>> \in Standing[s.whole[HomeOf(s, rows[j])]]
    <2> DEFINE p == CoreAt(rows, j, c)
               k == HomeOf(s, rows[j])
    <2>1. p \in Pats /\ Narrower(p, rows[j].pats[c]) /\ c \in 1..Len(rows[j].pats)
        BY <1>4 DEF IsHead
    <2>2. <<<<>>, p>> \in Standing[rows[j].pats[c]]
        <3>1. <<<<>>, p>> \in Standing[p]
            BY <2>1, StandsFirst
        <3> QED BY <2>1, <3>1 DEF Narrower
    <2>3. IsPlaced(s, k, rows[j].pats[c], c, occ)
        BY <2>1 DEF AllPlaced
    <2>4. Stands(s, k, path, rows[j].pats[c])
        BY <1>4, <2>3 DEF IsPlaced, Astray
    <2> DEFINE o == <<<<>>, p>>
    <2>5. o[1] = <<>> /\ o[2] = p
        OBVIOUS
    <2>6. <<path \o o[1], o[2]>> \in Standing[s.whole[k]]
        BY <2>2, <2>4 DEF Stands
    <2>7. path \o <<>> = path
        <3> HIDE DEF path
        <3> QED BY <1>3
    <2> QED BY <2>5, <2>6, <2>7
<1>5. CASE q.p # "bind"
    BY <1>5 DEF Astray
<1>6. CASE Astray(s, h, pat)
    <2>1. pat.p # "alias" /\ pat \in Pats
        BY <1>2, <1>6 DEF Astray, IsWild, IsHead
    <2>2. q = pat
        BY <2>1, CoreFacts DEF CoreAt
    <2> QED BY <1>6, <2>2
<1>7. CASE q.p = "bind" /\ ~Astray(s, h, pat)
    <2> DEFINE p == CoreAt(rows, 1, c)
               first == HomeOf(s, rows[1])
    <2>1. <<path, q>> \in Standing[s.whole[h]]
        BY <1>2, <1>4, <1>7
    <2>2. <<path, p>> \in Standing[s.whole[first]]
        <3>1. ~IsWild(rows[1].pats[c])
            <4>1. IsWild(rows[1].pats[c]) => Core[rows[1].pats[c]] = rows[1].pats[c]
                BY <1>2, CoreFacts DEF IsHead, IsWild
            <4> QED BY <1>1, <4>1 DEF CoreAt
        <3> QED BY <1>1, <1>2, <1>4, <3>1
    <2>3. HasParts(p) \/ p.p = "lit"
        BY <1>1, <1>2 DEF IsHead, IsCtor, HasParts
    <2>4. first \in 1..h
        <3>1. rows[1].arm \in DOMAIN s.home /\ rows[i].arm \in DOMAIN s.home
            BY <1>1 DEF AllPlaced
        <3>2. rows[1].arm <= rows[i].arm
            <4>1. IsGood(rows, occ) /\ InOrder(rows) /\ Len(rows) \in Nat
                BY GoodFacts DEF AtColumn, IsGood
            <4>2. rows[1].arm \in Nat
                BY <1>1, <4>1, GoodFacts
            <4>3. CASE i = 1
                BY <4>2, <4>3
            <4>4. CASE i # 1
                <5>1. 1 < i
                    BY <4>1, <4>4
                <5> QED BY <1>1, <4>1, <5>1 DEF InOrder
            <4> QED BY <4>3, <4>4
        <3>3. s.home[rows[1].arm] <= s.home[rows[i].arm]
            BY <3>1, <3>2 DEF Scoped
        <3>4. first \in Nat /\ first # 0 /\ h \in Nat
            BY <3>1 DEF Scoped, HomeOf
        <3>5. first <= h
            BY <3>3 DEF HomeOf
        <3> HIDE DEF first, h
        <3> QED BY <3>4, <3>5
    <2>5. TestedIn(s, h, path)
        <3> DEFINE o == <<path, p>>
        <3>1. o \in Standing[s.whole[first]] /\ o[1] = path /\ (HasParts(o[2]) \/ o[2].p = "lit")
            BY <2>2, <2>3
        <3> HIDE DEF o, first, h, path
        <3> QED BY <2>4, <3>1 DEF TestedIn
    <2>6. Loose(s, h, q.x)
        <3> DEFINE o == <<path, q>>
        <3>1. o \in Standing[s.whole[h]] /\ o[1] = path /\ o[2] = q
            BY <2>1
        <3> HIDE DEF o, h, path
        <3> QED BY <1>7, <2>5, <3>1 DEF Loose
    <2> QED BY <1>7, <2>6 DEF Astray
<1> QED BY <1>5, <1>6, <1>7

\* Rows with an alias in the column are bound, and there is one place.
LEMMA AliasAlone ==
    ASSUME NEW rows, NEW occ, NEW c, AtColumn(rows, occ, c), NEW i \in 1..Len(rows), rows[i].pats[c].p = "alias"
    PROVE  i \in AliasRows(rows, c) /\ Len(occ) = 1 /\ c = 1
<1>1. IsHead(rows, occ, c, i)
    BY ColumnHead
<1>2. TestedKeys(rows, c) # {} => \E key \in TestedKeys(rows, c) : i \in Hits(rows, c, key)
    <2> SUFFICES ASSUME TestedKeys(rows, c) # {}
                 PROVE  \E key \in TestedKeys(rows, c) : i \in Hits(rows, c, key)
        OBVIOUS
    <2>1. KeysAt(rows, c) = TestedKeys(rows, c)
        BY DEF KeysAt
    <2>2. CASE IsWild(CoreAt(rows, i, c))
        <3>1. PICK key \in TestedKeys(rows, c) : TRUE
            OBVIOUS
        <3>2. IsKeyAt(rows, occ, c, key)
            BY <2>1, KeysFacts
        <3>3. i \in Hits(rows, c, key)
            BY <2>2, <3>2, HitIs
        <3> QED BY <3>3
    <2>3. CASE ~IsWild(CoreAt(rows, i, c))
        <3>1. KeyOf[rows[i].pats[c]] \in TestedKeys(rows, c)
            BY <2>3, KeysFacts
        <3>2. i \in Hits(rows, c, KeyOf[rows[i].pats[c]])
            BY <2>3, TestedKind DEF IsTestedBy
        <3> QED BY <3>1, <3>2
    <2> QED BY <2>2, <2>3
<1>3. ~(Len(occ) >= 2)
    <2>1. Len(occ) >= 2 => PlainRows(rows)
        BY DEF AtColumn, IsGood
    <2>2. PlainRows(rows) => IsPlain(rows[i].pats[c])
        BY <1>1 DEF PlainRows, IsHead
    <2> QED BY <2>1, <2>2 DEF IsPlain, IsWild
<1>4. c \in 1..Len(occ) /\ Len(occ) \in Nat
    BY GoodFacts DEF AtColumn
<1>5. Len(occ) = 1 /\ c = 1
    <2> DEFINE n == Len(occ)
    <2>1. ~(n >= 2) /\ c \in 1..n /\ n \in Nat
        BY <1>3, <1>4
    <2> HIDE DEF n
    <2>2. n = 1 /\ c = 1
        BY <2>1
    <2> QED BY <2>2 DEF n
<1>6. i \in DOMAIN rows
    <2>1. rows \in Seq(MatrixRows)
        BY GoodFacts DEF AtColumn
    <2> QED BY <2>1
<1> QED BY <1>2, <1>5, <1>6 DEF AliasRows

\* What is bound and has no name in the rows is not bound again.
LEMMA ColumnKeeps ==
    ASSUME NEW rows, NEW occ, NEW c, AtColumn(rows, occ, c), NEW s, NEW e, NEW i, NEW b,
           IsBound(e, i, b), Unnamed(s, rows, i, b[1])
    PROVE  IsBound(BindTo(s, e, BindsAt(rows, occ, c)), i, b)
<1> DEFINE binds == BindsAt(rows, occ, c)
           w == Writes(s, binds, i, b[1])
<1>1. /\ binds \in Seq(Writable) /\ AliasRows(rows, c) \subseteq 1..Len(rows)
      /\ \A t \in Elements(binds) : \E m \in AliasRows(rows, c) :
            t[1] = rows[m].arm /\ <<t[2], t[3]>> \in Entries(rows[m].pats[c], occ[c])
    BY ColumnWrites
<1> HIDE DEF binds
<1>3. binds \in Seq(Writable)
    BY <1>1
<1>5. \A place : place \in w <=> \E t \in Elements(binds) : s.home[t[1]] = i /\ t[2] = b[1] /\ t[3] = place
    <2> DEFINE x == b[1]
    <2> HIDE DEF x
    <2>1. \A place : place \in Writes(s, binds, i, x) <=> \E t \in Elements(binds) : s.home[t[1]] = i /\ t[2] = x /\ t[3] = place
        BY <1>3, WritesIn
    <2> QED BY <2>1 DEF x
<1>2. ASSUME NEW place \in w
      PROVE  FALSE
    <2>1. PICK t \in Elements(binds) : s.home[t[1]] = i /\ t[2] = b[1] /\ t[3] = place
        BY <1>2, <1>5
    <2>2. PICK m \in AliasRows(rows, c) : t[1] = rows[m].arm /\ <<t[2], t[3]>> \in Entries(rows[m].pats[c], occ[c])
        BY <1>1, <2>1
    <2> DEFINE a == <<t[2], t[3]>>
    <2>3. m \in 1..Len(rows) /\ HomeOf(s, rows[m]) = i
        BY <1>1, <2>1, <2>2 DEF HomeOf
    <2>4. rows[m].pats[c] \in Pats /\ occ[c] \in Places /\ c \in 1..Len(rows[m].pats)
        BY <2>3, ColumnHead DEF IsHead
    <2>5. NameFor(a, rows[m].pats[c], occ[c])
        BY <2>2, <2>4, NamesBound
    <2>6. HasName(rows[m].pats[c], b[1])
        <3>1. a[1] = b[1]
            BY <2>1
        <3> HIDE DEF a
        <3> QED BY <2>5, <3>1 DEF NameFor, HasName
    <2> QED BY <2>3, <2>4, <2>6 DEF Unnamed
<1>4. w = {} /\ IsBound(e, i, b) => IsBound(BindTo(s, e, binds), i, b)
    BY <1>3, BindsTo
<1> QED BY <1>2, <1>4 DEF binds

\* A name of the whole of a column is bound to what is there.
NamedAt(s, h, x, path) == \E o \in Standing[s.whole[h]] : Names(o[2]) /\ o[2].x = x /\ o[1] = path
LEMMA AliasBound ==
    ASSUME NEW rows, NEW occ, NEW c, AtColumn(rows, occ, c), NEW s, Scoped(s), AllPlaced(s, rows, occ),
           NEW m \in 1..Len(rows), rows[m].pats[c].p = "alias", NEW e, NEW b,
           IsTop(b, rows[m].pats[c], occ[c], ValueAt(occ[c], s.val))
    PROVE  /\ IsBound(BindTo(s, e, BindsAt(rows, occ, c)), HomeOf(s, rows[m]), b)
           /\ NamedAt(s, HomeOf(s, rows[m]), b[1], occ[c].path)
<1> DEFINE binds == BindsAt(rows, occ, c)
           h == HomeOf(s, rows[m])
           w == Writes(s, binds, h, b[1])
           path == occ[c].path
<1>1. /\ binds \in Seq(Writable) /\ AliasRows(rows, c) \subseteq 1..Len(rows)
      /\ \A t \in Elements(binds) : \E j \in AliasRows(rows, c) :
            t[1] = rows[j].arm /\ <<t[2], t[3]>> \in Entries(rows[j].pats[c], occ[c])
      /\ \A j \in AliasRows(rows, c) : \A a \in Entries(rows[j].pats[c], occ[c]) :
            <<rows[j].arm, a[1], a[2]>> \in Elements(binds)
    BY ColumnWrites
<1> HIDE DEF binds
<1>2. m \in AliasRows(rows, c)
    BY AliasAlone
<1>3. path \in Seq(Steps) /\ h = s.home[rows[m].arm] /\ rows[m].arm \in DOMAIN s.home
    <2>1. IsHead(rows, occ, c, m)
        BY ColumnHead
    <2> QED BY <2>1 DEF IsHead, Places, HomeOf, AllPlaced
<1>11. \A place : place \in w <=> \E t \in Elements(binds) : s.home[t[1]] = h /\ t[2] = b[1] /\ t[3] = place
    <2>1. binds \in Seq(Writable)
        BY <1>1
    <2> DEFINE x == b[1]
    <2> HIDE DEF h, x
    <2>2. \A place : place \in Writes(s, binds, h, x) <=> \E t \in Elements(binds) : s.home[t[1]] = h /\ t[2] = x /\ t[3] = place
        BY <2>1, WritesIn
    <2> QED BY <2>2 DEF x
<1>12. \A x, y \in Standing[s.whole[h]] : Names(x[2]) /\ Names(y[2]) /\ x[2].x = y[2].x => x[1] = y[1]
    BY <1>3 DEF Scoped
\* The names in the column of a row of the arm, in the arm's pattern.
<1>4. ASSUME NEW j \in AliasRows(rows, c), HomeOf(s, rows[j]) = h, NEW o \in Standing[rows[j].pats[c]]
      PROVE  <<path \o o[1], o[2]>> \in Standing[s.whole[h]] /\ o[1] \in Seq(Steps)
    <2>1. j \in 1..Len(rows) /\ rows[j].pats[c].p = "alias"
        BY <1>1 DEF AliasRows
    <2>2. rows[j].pats[c] \in Pats /\ c \in 1..Len(rows[j].pats)
        BY <2>1, ColumnHead DEF IsHead
    <2>3. IsPlaced(s, h, rows[j].pats[c], c, occ)
        BY <1>4, <2>1, <2>2 DEF AllPlaced
    <2>4. Stands(s, h, path, rows[j].pats[c])
        BY <2>1, <2>3 DEF IsPlaced, Astray, IsWild
    <2> QED BY <1>4, <2>2, <2>4, StandingType DEF Stands
<1>5. PICK o \in Standing[rows[m].pats[c]] : o[1] = <<>> /\ Names(o[2]) /\ o[2].x = b[1]
    BY DEF IsTop
<1>6. <<path, o[2]>> \in Standing[s.whole[h]]
    <2>1. <<path \o o[1], o[2]>> \in Standing[s.whole[h]]
        BY <1>2, <1>4, <1>5
    <2>2. path \o <<>> = path
        <3> HIDE DEF path
        <3> QED BY <1>3
    <2> QED BY <1>5, <2>1, <2>2
<1>7. ASSUME NEW place \in w
      PROVE  place = occ[c]
    <2>1. PICK t \in Elements(binds) : s.home[t[1]] = h /\ t[2] = b[1] /\ t[3] = place
        BY <1>7, <1>11
    <2>2. PICK j \in AliasRows(rows, c) : t[1] = rows[j].arm /\ <<t[2], t[3]>> \in Entries(rows[j].pats[c], occ[c])
        BY <1>1, <2>1
    <2> DEFINE a == <<t[2], t[3]>>
    <2>3. j \in 1..Len(rows) /\ HomeOf(s, rows[j]) = h
        BY <1>1, <2>1, <2>2 DEF HomeOf
    <2>4. rows[j].pats[c] \in Pats /\ occ[c] \in Places
        BY <2>3, ColumnHead DEF IsHead
    <2>5. NameFor(a, rows[j].pats[c], occ[c])
        BY <2>2, <2>4, NamesBound
    <2>6. a[1] = b[1] /\ a[2] = place
        BY <2>1
    <2> HIDE DEF a, h, path
    <2>7. PICK x \in Standing[rows[j].pats[c]] : Names(x[2]) /\ x[2].x = b[1] /\ (x[1] = <<>> => place = occ[c])
        BY <2>5, <2>6 DEF NameFor
    <2>8. <<path \o x[1], x[2]>> \in Standing[s.whole[h]] /\ x[1] \in Seq(Steps)
        BY <1>4, <2>3
    <2> DEFINE y == <<path \o x[1], x[2]>>
               z == <<path, o[2]>>
    <2>9. y[1] = path \o x[1] /\ y[2] = x[2] /\ z[1] = path /\ z[2] = o[2]
        OBVIOUS
    <2>10. y \in Standing[s.whole[h]] /\ z \in Standing[s.whole[h]]
        BY <1>6, <2>8
    <2> HIDE DEF y, z
    <2>11. y[1] = z[1]
        BY <1>5, <1>12, <2>7, <2>9, <2>10
    <2>12. x[1] = <<>>
        <3> DEFINE u == x[1]
        <3>1. path \o u = path /\ u \in Seq(Steps) /\ path \in Seq(Steps)
            <4>1. path \o u = path
                BY <2>9, <2>11
            <4>2. u \in Seq(Steps)
                BY <2>8, Zenon
            <4>3. path \in Seq(Steps)
                BY <1>3, Zenon
            <4> HIDE DEF u
            <4> QED BY <4>1, <4>2, <4>3 DEF u
        <3> HIDE DEF u
        <3>2. Len(path \o u) = Len(path) + Len(u) /\ Len(path) \in Nat /\ Len(u) \in Nat
            BY <3>1
        <3>3. Len(u) = 0
            BY <3>1, <3>2
        <3>4. u = <<>>
            BY <3>1, <3>3
        <3> QED BY <3>4 DEF u
    <2> QED BY <2>7, <2>12
<1>8. occ[c] \in w
    <2> DEFINE a == <<b[1], occ[c]>>
               t == <<rows[m].arm, a[1], a[2]>>
    <2>1. a \in Entries(rows[m].pats[c], occ[c])
        BY DEF IsTop
    <2>2. t \in Elements(binds)
        <3> HIDE DEF a
        <3> QED BY <1>1, <1>2, <2>1
    <2>3. t[1] = rows[m].arm /\ t[2] = b[1] /\ t[3] = occ[c]
        OBVIOUS
    <2>4. \E x \in Elements(binds) : s.home[x[1]] = h /\ x[2] = b[1] /\ x[3] = occ[c]
        <3> HIDE DEF t, h
        <3> QED BY <1>3, <2>2, <2>3
    <2> QED BY <1>11, <2>4
<1>9. IsBound(BindTo(s, e, binds), h, b)
    <2>1. w # {} /\ \A place \in w : ValueAt(place, s.val) = b[2]
        <3>1. b[2] = ValueAt(occ[c], s.val)
            BY DEF IsTop
        <3> QED BY <1>7, <1>8, <3>1
    <2> HIDE DEF h
    <2>2. binds \in Seq(Writable)
        BY <1>1
    <2>3. w # {} /\ (\A place \in w : ValueAt(place, s.val) = b[2]) => IsBound(BindTo(s, e, binds), h, b)
        BY <2>2, BindsTo
    <2> QED BY <2>1, <2>3
<1>10. \E x \in Standing[s.whole[h]] : Names(x[2]) /\ x[2].x = b[1] /\ x[1] = path
    <2> DEFINE z == <<path, o[2]>>
    <2>1. z[1] = path /\ z[2] = o[2] /\ z \in Standing[s.whole[h]]
        BY <1>6
    <2> HIDE DEF z, h, path
    <2> QED BY <1>5, <2>1
<1> QED BY <1>9, <1>10 DEF binds, NamedAt

\* At the place of a pattern that is no alias and no alternative stands itself.
LEMMA TopStands ==
    ASSUME NEW pat \in Pats, pat.p \notin {"alias", "or"}, NEW o \in Standing[pat], o[1] = <<>>
    PROVE  o = <<<<>>, pat>>
<1>1. CASE HasParts(pat)
    <2>3. \A x \in Standing[pat] : x = <<<<>>, pat>> \/
            \E k \in DOMAIN pat.args : \E r \in Standing[pat.args[k]] : x = <<<<StepTo(pat, k)>> \o r[1], r[2]>>
        BY <1>1, StandingIn
    <2>1. o = <<<<>>, pat>> \/
            \E k \in DOMAIN pat.args : \E r \in Standing[pat.args[k]] : o = <<<<StepTo(pat, k)>> \o r[1], r[2]>>
        BY <2>3, Zenon
    <2>2. ASSUME NEW k \in DOMAIN pat.args, NEW r \in Standing[pat.args[k]], o = <<<<StepTo(pat, k)>> \o r[1], r[2]>>
          PROVE  FALSE
        <3>1. pat.args[k] \in Pats /\ StepTo(pat, k) \in Steps
            BY <1>1, PatternParts, StepFacts
        <3>2. r[1] \in Seq(Steps)
            BY <3>1, StandingType
        <3>3. <<StepTo(pat, k)>> \o r[1] # <<>>
            BY <3>1, <3>2, WayIsLonger
        <3> QED BY <2>2, <3>3
    <2> QED BY <2>1, <2>2
<1>2. CASE ~HasParts(pat)
    <2>1. pat.p \in {"wild", "bind", "lit"}
        BY <1>2, PatternParts DEF PatKinds, HasParts
    <2>2. Standing[pat] = {<<<<>>, pat>>}
        BY <2>1, StandingIn
    <2> QED BY <2>2
<1> QED BY <1>1, <1>2

\* A binding in the column need not be, is of a name for the whole of it, or
\* is one of a part.
LEMMA ColumnPending ==
    ASSUME NEW rows, NEW occ, NEW c, AtColumn(rows, occ, c), NEW s, Scoped(s), AllPlaced(s, rows, occ),
           NEW i \in 1..Len(rows), NEW w \in AllValues, NEW b \in Bindings[<<rows[i].pats[c], w>>]
    PROVE  LET q == CoreAt(rows, i, c)
           IN  \/ Loose(s, HomeOf(s, rows[i]), b[1])
               \/ rows[i].pats[c].p = "alias" /\ IsTop(b, rows[i].pats[c], occ[c], w)
               \/ /\ ~IsWild(q) /\ HasParts(q)
                  /\ \E k \in DOMAIN q.args : PartOf(q, k) \in DOMAIN w.parts /\ b \in Bindings[<<q.args[k], w.parts[PartOf(q, k)]>>]
<1> DEFINE pat == rows[i].pats[c]
           q == CoreAt(rows, i, c)
<1>1. /\ pat \in Pats /\ q \in Pats /\ occ[c] \in Places /\ pat.p # "or" /\ q = Core[pat]
      /\ ~IsWild(q) => IsCtor(q)
    <2>1. IsHead(rows, occ, c, i)
        BY ColumnHead
    <2>2. q = Core[pat]
        BY DEF CoreAt
    <2> QED BY <2>1, <2>2 DEF IsHead
<1>2. (b \in Bindings[<<q, w>>] /\ ~IsWild(q)) \/ IsTop(b, pat, occ[c], w)
    BY <1>1, CoreBindings
<1>3. CASE b \in Bindings[<<q, w>>] /\ ~IsWild(q)
    <2>1. q.p \notin {"alias", "or"}
        BY <1>1, <1>3 DEF IsCtor
    <2> HIDE DEF q
    <2>2. /\ HasParts(q)
          /\ \E k \in DOMAIN q.args : PartOf(q, k) \in DOMAIN w.parts /\ b \in Bindings[<<q.args[k], w.parts[PartOf(q, k)]>>]
        BY <1>1, <1>3, <2>1, PartBindings
    <2> QED BY <1>3, <2>2 DEF q
<1>4. CASE IsTop(b, pat, occ[c], w) /\ pat.p # "alias"
    <2>1. PICK o \in Standing[pat] : o[1] = <<>> /\ Names(o[2]) /\ o[2].x = b[1]
        BY <1>4 DEF IsTop
    <2>2. o = <<<<>>, pat>>
        <3> HIDE DEF pat, q
        <3> QED BY <1>1, <1>4, <2>1, TopStands
    <2>3. Names(pat) /\ pat.x = b[1]
        BY <2>1, <2>2
    <2>4. pat.p = "bind" /\ q = pat
        <3>1. pat.p = "bind"
            BY <1>4, <2>3 DEF Names
        <3> QED BY <1>1, <3>1, CoreFacts
    <2>5. Astray(s, HomeOf(s, rows[i]), q)
        <3>1. IsWild(CoreAt(rows, i, c))
            BY <2>4 DEF IsWild
        <3> QED BY <3>1, ColumnLoose
    <2> QED BY <2>3, <2>4, <2>5 DEF Astray
<1> QED BY <1>2, <1>3, <1>4

\* What is left of row i, for the places below its column.
Elsewhere(s, h, x, path) == \E o \in Standing[s.whole[h]] : Names(o[2]) /\ o[2].x = x /\ o[1] # path
Remains(s, rows, occ, c, i, row, places) ==
    LET h == HomeOf(s, rows[i])
        pat == rows[i].pats[c]
    IN  /\ row.arm = rows[i].arm
        /\ \A k \in 1..Len(row.pats) :
            /\ IsPlaced(s, h, row.pats[k], k, places)
            /\ \A x : HasName(row.pats[k], x) =>
                /\ \E j \in 1..Len(rows[i].pats) : HasName(rows[i].pats[j], x)
                /\ Len(occ) = 1 => Loose(s, h, x) \/ Elsewhere(s, h, x, occ[c].path)
        /\ \A b : Pending(rows[i], occ, s.val, b) =>
            \/ Loose(s, h, b[1])
            \/ Pending(row, places, s.val, b)
            \/ pat.p = "alias" /\ IsTop(b, pat, occ[c], ValueAt(occ[c], s.val))

\* Of rows that are kept, the first of an arm is the first there was.
LEMMA KeptFirst ==
    ASSUME NEW rows, NEW occ, NEW new, NEW places, NEW K, NEW g, NEW r, IsKept(r, K, g, new), NEW v,
           Len(rows) \in Nat, Len(new) \in Nat, K \in SUBSET (1..Len(rows)), \A i \in K : g[i].arm = rows[i].arm,
           \A i \in K : FitsAt(g[i], places, v) <=> FitsAt(rows[i], occ, v),
           NEW k \in 1..Len(new), IsFirst(new, places, k, v),
           \A j \in 1..Len(rows) : FitsAt(rows[j], occ, v) /\ rows[j].arm = rows[r[k]].arm => j \in K
    PROVE  IsFirst(rows, occ, r[k], v)
<1> DEFINE m == r[k]
<1>1. m \in K /\ m \in 1..Len(rows) /\ new[k] = g[m] /\ k \in Nat
    BY DEF IsKept
<1>2. FitsAt(rows[m], occ, v)
    BY <1>1 DEF IsFirst
<1>3. ASSUME NEW j \in 1..(m - 1), rows[j].arm = rows[m].arm, FitsAt(rows[j], occ, v)
      PROVE  FALSE
    <2>1. j \in 1..Len(rows) /\ j < m /\ j \in Nat /\ m \in Nat
        <3>1. m \in 1..Len(rows) /\ j \in 1..(m - 1)
            BY <1>1, <1>3
        <3> HIDE DEF m
        <3> QED BY <3>1
    <2>2. j \in K
        BY <1>3, <2>1
    <2>3. PICK x \in 1..Len(new) : r[x] = j
        BY <2>2 DEF IsKept
    <2>4. new[x] = g[j]
        BY <2>3 DEF IsKept
    <2>5. new[x].arm = new[k].arm /\ FitsAt(new[x], places, v)
        BY <1>1, <1>3, <2>2, <2>4
    <2>6. ~(k <= x)
        <3>1. k = x => m = j
            BY <2>3
        <3>2. k < x => m < j
            BY <2>3 DEF IsKept
        <3> HIDE DEF m
        <3> QED BY <1>1, <2>1, <3>1, <3>2
    <2>7. x \in 1..(k - 1)
        BY <1>1, <2>6
    <2> QED BY <2>5, <2>7 DEF IsFirst
<1> QED BY <1>2, <1>3 DEF IsFirst

\* The rows under a tested column say what the rows said.
LEMMA ColumnChild ==
    ASSUME NEW rows, NEW occ, NEW c, AtColumn(rows, occ, c), NEW s, Scoped(s), NEW e, Carries(s, rows, occ, e),
           NEW K, NEW g, SameArms(K, g, rows), NEW new \in Seq(MatrixRows), HasKept(K, g, new), NEW places,
           KeepsFit(K, g, places, rows, occ, s.val),
           \A i \in K : Remains(s, rows, occ, c, i, g[i], places)
    PROVE  Carries(s, new, places, BindTo(s, e, BindsAt(rows, occ, c)))
<1> DEFINE e2 == BindTo(s, e, BindsAt(rows, occ, c))
<1>1. PICK r : IsKept(r, K, g, new)
    BY DEF HasKept
<1>2. IsGood(rows, occ) /\ Len(rows) \in Nat /\ Len(new) \in Nat /\ K \in SUBSET (1..Len(rows))
    BY GoodFacts DEF AtColumn, SameArms
<1>3. AllPlaced(s, rows, occ)
    BY DEF Carries
<1>4. ASSUME NEW m \in 1..Len(new)
      PROVE  /\ r[m] \in K /\ r[m] \in 1..Len(rows) /\ new[m] = g[r[m]] /\ Remains(s, rows, occ, c, r[m], new[m], places)
             /\ new[m].arm = rows[r[m]].arm /\ HomeOf(s, new[m]) = HomeOf(s, rows[r[m]])
             /\ new[m].arm \in DOMAIN s.home
    <2>1. r[m] \in K /\ new[m] = g[r[m]]
        BY <1>1 DEF IsKept
    <2>2. r[m] \in 1..Len(rows) /\ Remains(s, rows, occ, c, r[m], new[m], places)
        BY <1>2, <2>1
    <2>3. new[m].arm = rows[r[m]].arm
        BY <2>2 DEF Remains
    <2>4. rows[r[m]].arm \in DOMAIN s.home
        BY <1>3, <2>2 DEF AllPlaced
    <2> QED BY <2>1, <2>2, <2>3, <2>4 DEF HomeOf
<1>5. AllPlaced(s, new, places)
    <2>1. ASSUME NEW m \in 1..Len(new), NEW k \in 1..Len(new[m].pats)
          PROVE  IsPlaced(s, HomeOf(s, new[m]), new[m].pats[k], k, places)
        <3>1. IsPlaced(s, HomeOf(s, rows[r[m]]), new[m].pats[k], k, places)
            BY <1>4 DEF Remains
        <3> QED BY <1>4, <3>1
    <2> QED BY <1>4, <2>1 DEF AllPlaced
<1>6. PlacesHold(places, s.val)
    BY DEF KeepsFit
\* The names of the new rows.
<1>7. ASSUME NEW m \in 1..Len(new), NEW k \in 1..Len(new[m].pats), NEW x, HasName(new[m].pats[k], x)
      PROVE  /\ \E j \in 1..Len(rows[r[m]].pats) : HasName(rows[r[m]].pats[j], x)
             /\ Len(occ) = 1 => Loose(s, HomeOf(s, new[m]), x) \/ Elsewhere(s, HomeOf(s, new[m]), x, occ[c].path)
    <2>1. Remains(s, rows, occ, c, r[m], new[m], places) /\ HomeOf(s, new[m]) = HomeOf(s, rows[r[m]])
        BY <1>4
    <2> QED BY <1>7, <2>1 DEF Remains
<1>8. ASSUME NEW m \in 1..Len(new), IsFirst(new, places, m, s.val), NEW b \in BindingsOf(s, new[m].arm)
      PROVE  Accounted(s, new, places, e2, m, b)
    <2> DEFINE i == r[m]
               h == HomeOf(s, new[m])
    <2>1. i \in 1..Len(rows) /\ i \in K /\ new[m].arm = rows[i].arm /\ h = HomeOf(s, rows[i])
        BY <1>4
    <2>2. IsFirst(rows, occ, i, s.val)
        <3>1. \A j \in K : g[j].arm = rows[j].arm
            BY DEF SameArms
        <3>2. \A j \in K : FitsAt(g[j], places, s.val) <=> FitsAt(rows[j], occ, s.val)
            BY DEF KeepsFit
        <3>3. \A j \in 1..Len(rows) : FitsAt(rows[j], occ, s.val) /\ rows[j].arm = rows[r[m]].arm => j \in K
            BY DEF KeepsFit
        <3> QED BY <1>1, <1>2, <1>8, <3>1, <3>2, <3>3, KeptFirst
    <2>3. Accounted(s, rows, occ, e, i, b)
        BY <1>8, <2>1, <2>2 DEF Carries
    <2>4. Remains(s, rows, occ, c, i, new[m], places)
        BY <1>4
    <2>5. CASE Loose(s, h, b[1])
        BY <2>5 DEF Accounted
    <2>6. CASE Pending(new[m], places, s.val, b)
        BY <2>6 DEF Accounted
    <2>7. ASSUME IsBound(e, h, b), Unnamed(s, rows, h, b[1])
          PROVE  Accounted(s, new, places, e2, m, b)
        <3>1. IsBound(e2, h, b)
            <4> HIDE DEF h
            <4> QED BY <2>7, ColumnKeeps
        <3>2. ASSUME NEW n \in 1..Len(new), HomeOf(s, new[n]) = h, NEW k \in 1..Len(new[n].pats), HasName(new[n].pats[k], b[1])
              PROVE  FALSE
            <4>1. \E j \in 1..Len(rows[r[n]].pats) : HasName(rows[r[n]].pats[j], b[1])
                BY <3>2, <1>7
            <4>2. r[n] \in 1..Len(rows) /\ HomeOf(s, rows[r[n]]) = h
                BY <1>4, <3>2
            <4> QED BY <2>7, <4>1, <4>2 DEF Unnamed
        <3>3. Unnamed(s, new, h, b[1])
            BY <3>2 DEF Unnamed
        <3> QED BY <3>1, <3>3 DEF Accounted
    <2>8. ASSUME rows[i].pats[c].p = "alias", IsTop(b, rows[i].pats[c], occ[c], ValueAt(occ[c], s.val)), ~Loose(s, h, b[1])
          PROVE  Accounted(s, new, places, e2, m, b)
        <3>1. Len(occ) = 1
            BY <2>1, <2>8, AliasAlone
        <3> DEFINE hi == HomeOf(s, rows[i])
        <3>2. IsBound(e2, hi, b) /\ \E o \in Standing[s.whole[hi]] : Names(o[2]) /\ o[2].x = b[1] /\ o[1] = occ[c].path
            <4>1. i \in 1..Len(rows)
                BY <2>1
            <4>2. IsTop(b, rows[i].pats[c], occ[c], ValueAt(occ[c], s.val)) /\ rows[i].pats[c].p = "alias"
                BY <2>8
            <4> HIDE DEF i
            <4>3. IsBound(BindTo(s, e, BindsAt(rows, occ, c)), HomeOf(s, rows[i]), b)
                BY <1>3, <4>1, <4>2, AliasBound
            <4>4. NamedAt(s, HomeOf(s, rows[i]), b[1], occ[c].path)
                BY <1>3, <4>1, <4>2, AliasBound
            <4> QED BY <4>3, <4>4 DEF NamedAt
        <3>3. PICK o \in Standing[s.whole[h]] : Names(o[2]) /\ o[2].x = b[1] /\ o[1] = occ[c].path
            BY <2>1, <3>2
        <3>4. rows[i].arm \in DOMAIN s.home /\ h = s.home[rows[i].arm]
            BY <1>4, <2>1 DEF HomeOf
        <3>5. \A x, y \in Standing[s.whole[h]] : Names(x[2]) /\ Names(y[2]) /\ x[2].x = y[2].x => x[1] = y[1]
            BY <3>4 DEF Scoped
        <3>6. ASSUME NEW n \in 1..Len(new), HomeOf(s, new[n]) = h, NEW k \in 1..Len(new[n].pats), HasName(new[n].pats[k], b[1])
              PROVE  FALSE
            <4>1. Loose(s, HomeOf(s, new[n]), b[1]) \/ Elsewhere(s, HomeOf(s, new[n]), b[1], occ[c].path)
                BY <3>6, <3>1, <1>7
            <4>2. Elsewhere(s, h, b[1], occ[c].path)
                BY <4>1, <3>6, <2>8
            <4> HIDE DEF h
            <4>3. PICK y \in Standing[s.whole[h]] : Names(y[2]) /\ y[2].x = b[1] /\ y[1] # occ[c].path
                BY <4>2 DEF Elsewhere
            <4> QED BY <3>3, <3>5, <4>3
        <3>7. Unnamed(s, new, h, b[1])
            BY <3>6 DEF Unnamed
        <3>8. IsBound(e2, h, b)
            BY <2>1, <3>2
        <3> QED BY <3>7, <3>8 DEF Accounted
    <2>9. CASE Pending(rows[i], occ, s.val, b)
        <3>1. \/ Loose(s, h, b[1])
              \/ Pending(new[m], places, s.val, b)
              \/ rows[i].pats[c].p = "alias" /\ IsTop(b, rows[i].pats[c], occ[c], ValueAt(occ[c], s.val))
            BY <2>1, <2>4, <2>9 DEF Remains
        <3> QED BY <2>5, <2>6, <2>8, <3>1
    <2>10. \/ Loose(s, h, b[1]) \/ Pending(rows[i], occ, s.val, b)
           \/ IsBound(e, h, b) /\ Unnamed(s, rows, h, b[1])
        BY <2>1, <2>3 DEF Accounted
    <2> QED BY <2>5, <2>7, <2>9, <2>10
<1> HIDE DEF e2
<1>9. Carries(s, new, places, e2)
    BY <1>5, <1>6, <1>8 DEF Carries
<1> QED BY <1>9 DEF e2

\* The value of a column is a value.
LEMMA ColumnValue ==
    ASSUME NEW rows, NEW occ, NEW c, AtColumn(rows, occ, c), NEW v, PlacesHold(occ, v)
    PROVE  /\ ValueAt(occ[c], v) \in Inhabitants[occ[c].type] /\ ValueAt(occ[c], v) \in AllValues
           /\ occ[c].type \in TypeNames /\ occ[c] \in Places
<1>1. c \in 1..Len(occ)
    BY DEF AtColumn
<1>2. 1 \in 1..Len(rows)
    BY FirstKey
<1>3. occ[c].type \in TypeNames /\ Inhabitants[occ[c].type] \subseteq AllValues /\ occ[c] \in Places
    BY <1>2, ColumnHead DEF IsHead
<1>4. ValueAt(occ[c], v) \in Inhabitants[occ[c].type]
    BY <1>1 DEF PlacesHold
<1> QED BY <1>3, <1>4

\* What remains of a row without the column.
LEMMA WithoutRemains ==
    ASSUME NEW rows, NEW occ, NEW c, AtColumn(rows, occ, c), NEW s, Scoped(s), AllPlaced(s, rows, occ),
           PlacesHold(occ, s.val), NEW K, NEW g, AreWithout(K, g, rows, c), NEW i \in K,
           IsWild(CoreAt(rows, i, c)) \/ CoreAt(rows, i, c).p = "lit"
    PROVE  Remains(s, rows, occ, c, i, g[i], RemoveAt(occ, c))
<1> DEFINE places == RemoveAt(occ, c)
           row == g[i]
           h == HomeOf(s, rows[i])
           n == Len(occ)
<1>1. row.arm = rows[i].arm /\ row.pats = RemoveAt(rows[i].pats, c) /\ i \in 1..Len(rows)
    BY DEF AreWithout, SameArms
<1>2. /\ rows[i].pats \in Seq(Pats) /\ Len(rows[i].pats) = n /\ n \in Nat /\ c \in 1..n /\ occ \in Seq(Places)
    <2>1. IsGood(rows, occ) /\ c \in 1..n
        BY DEF AtColumn
    <2>2. IsHead(rows, occ, c, i)
        BY <1>1, ColumnHead
    <2> QED BY <1>1, <2>1, <2>2, GoodFacts DEF IsHead
<1>3. HasWithout(row.pats, rows[i].pats, n, c) /\ HasWithout(places, occ, n, c)
    BY <1>1, <1>2, RemovedIs
<1>4. Len(row.pats) = n - 1 /\ Len(places) = n - 1
      /\ \A k \in 1..(n - 1) : row.pats[k] = rows[i].pats[Up(c, k)] /\ places[k] = occ[Up(c, k)]
    BY <1>3 DEF HasWithout
<1>5. /\ \A k \in 1..(n - 1) : Up(c, k) \in 1..n
      /\ \A j \in 1..n : j # c => \E k \in 1..(n - 1) : Up(c, k) = j
    BY <1>2, UpFacts
<1> HIDE DEF places, row, n, h
<1>6. ASSUME NEW k \in 1..Len(row.pats)
      PROVE  /\ IsPlaced(s, h, row.pats[k], k, places)
             /\ \A x : HasName(row.pats[k], x) =>
                /\ \E j \in 1..Len(rows[i].pats) : HasName(rows[i].pats[j], x)
                /\ Len(occ) = 1 => Loose(s, h, x) \/ Elsewhere(s, h, x, occ[c].path)
    <2> DEFINE j == Up(c, k)
    <2>1. /\ j \in 1..n /\ row.pats[k] = rows[i].pats[j] /\ places[k] = occ[j] /\ k \in 1..Len(places)
          /\ j \in 1..Len(rows[i].pats)
        BY <1>2, <1>4, <1>5
    <2> HIDE DEF j
    <2>2. IsPlaced(s, h, rows[i].pats[j], j, occ)
        BY <1>1, <2>1 DEF AllPlaced, h
    <2>3. IsPlaced(s, h, row.pats[k], k, places)
        BY <2>1, <2>2 DEF IsPlaced
    <2>4. Len(occ) # 1
        <3>1. k \in 1..(n - 1)
            BY <1>4
        <3>2. n # 1
            BY <1>2, <3>1
        <3> QED BY <3>2 DEF n
    <2> QED BY <2>1, <2>3, <2>4
<1>7. ASSUME NEW b, Pending(rows[i], occ, s.val, b)
      PROVE  \/ Loose(s, h, b[1])
             \/ Pending(row, places, s.val, b)
             \/ rows[i].pats[c].p = "alias" /\ IsTop(b, rows[i].pats[c], occ[c], ValueAt(occ[c], s.val))
    <2>1. PICK k \in 1..n : b \in Bindings[<<rows[i].pats[k], ValueAt(occ[k], s.val)>>]
        BY <1>7 DEF Pending, n
    <2>2. CASE k = c
        <3> DEFINE w == ValueAt(occ[c], s.val)
                   q == CoreAt(rows, i, c)
        <3>1. w \in AllValues
            BY ColumnValue
        <3>2. b \in Bindings[<<rows[i].pats[c], w>>]
            BY <2>1, <2>2
        <3>3. ~(~IsWild(q) /\ HasParts(q))
            BY DEF IsWild, HasParts
        <3> HIDE DEF w, q
        <3>4. \/ Loose(s, HomeOf(s, rows[i]), b[1])
              \/ rows[i].pats[c].p = "alias" /\ IsTop(b, rows[i].pats[c], occ[c], w)
              \/ ~IsWild(q) /\ HasParts(q)
            BY <1>1, <3>1, <3>2, ColumnPending DEF q
        <3> QED BY <3>3, <3>4 DEF w, h
    <2>3. CASE k # c
        <3>1. PICK j \in 1..(n - 1) : Up(c, j) = k
            BY <1>5, <2>3
        <3>2. row.pats[j] = rows[i].pats[k] /\ places[j] = occ[k] /\ j \in 1..Len(places)
            BY <1>4, <3>1
        <3>3. Pending(row, places, s.val, b)
            BY <2>1, <3>2 DEF Pending
        <3> QED BY <3>3
    <2> QED BY <2>2, <2>3
<1>8. Remains(s, rows, occ, c, i, row, places)
    BY <1>1, <1>6, <1>7, Zenon DEF Remains, h
<1> QED BY <1>8 DEF row, places

\* A part of a pattern is where the pattern is, a step below.
LEMMA PathBelow ==
    ASSUME NEW path \in Seq(Steps), NEW step \in Steps, NEW way \in Seq(Steps)
    PROVE  Append(path, step) \o way = path \o (<<step>> \o way) /\ path \o (<<step>> \o way) # path
<1> DEFINE a == <<step>> \o way
           b == Append(path, step)
<1>1. /\ a \in Seq(Steps) /\ Len(a) = 1 + Len(way) /\ Len(way) \in Nat
      /\ \A i \in 1..(1 + Len(way)) : a[i] = IF i = 1 THEN step ELSE way[i - 1]
    BY Consed
<1>2. /\ b \in Seq(Steps) /\ Len(b) = Len(path) + 1 /\ Len(path) \in Nat
      /\ \A i \in 1..Len(path) : b[i] = path[i]
      /\ b[Len(path) + 1] = step
    BY AppendProperties
<1> HIDE DEF a, b
<1>3. Len(path \o a) = Len(path) + Len(a) /\ path \o a \in Seq(Steps)
    BY <1>1
<1>4. Len(b \o way) = Len(b) + Len(way) /\ b \o way \in Seq(Steps)
    BY <1>2
<1>5. \A i \in 1..Len(path \o a) : (path \o a)[i] = IF i <= Len(path) THEN path[i] ELSE a[i - Len(path)]
    BY <1>1, <1>3
<1>6. \A i \in 1..Len(b \o way) : (b \o way)[i] = IF i <= Len(b) THEN b[i] ELSE way[i - Len(b)]
    BY <1>2, <1>4
<1>7. Len(b \o way) = Len(path \o a)
    BY <1>1, <1>2, <1>3, <1>4
<1>8. ASSUME NEW i \in 1..Len(path \o a)
      PROVE  (path \o a)[i] = (b \o way)[i]
    <2> DEFINE l == Len(path)
               m == Len(way)
    <2>1. l \in Nat /\ m \in Nat /\ Len(b) = l + 1 /\ i \in 1..(l + (1 + m)) /\ i \in Nat
        BY <1>1, <1>2, <1>3
    <2>2. (path \o a)[i] = IF i <= l THEN path[i] ELSE a[i - l]
        BY <1>5
    <2>3. (b \o way)[i] = IF i <= l + 1 THEN b[i] ELSE way[i - (l + 1)]
        BY <1>6, <1>7, <2>1
    <2>4. i <= l => b[i] = path[i]
        BY <1>2, <2>1
    <2>5. b[l + 1] = step
        BY <1>2
    <2>6. \A j \in 1..(1 + m) : a[j] = IF j = 1 THEN step ELSE way[j - 1]
        BY <1>1
    <2> HIDE DEF l, m
    <2>7. CASE i <= l
        BY <2>1, <2>2, <2>3, <2>4, <2>7
    <2>8. CASE i = l + 1
        <3>1. i - l = 1 /\ 1 \in 1..(1 + m) /\ ~(i <= l) /\ i <= l + 1
            BY <2>1, <2>8
        <3>2. a[1] = step
            BY <2>6, <3>1
        <3> QED BY <2>2, <2>3, <2>5, <2>8, <3>1, <3>2
    <2>9. CASE i > l + 1
        <3>1. i - l \in 1..(1 + m) /\ i - l # 1 /\ (i - l) - 1 = i - (l + 1) /\ ~(i <= l) /\ ~(i <= l + 1)
            BY <2>1, <2>9
        <3>2. a[i - l] = way[(i - l) - 1]
            BY <2>6, <3>1
        <3> QED BY <2>2, <2>3, <3>1, <3>2
    <2>10. i <= l \/ i = l + 1 \/ i > l + 1
        BY <2>1
    <2> QED BY <2>7, <2>8, <2>9, <2>10, Zenon
<1>9. path \o a = b \o way
    BY <1>3, <1>4, <1>7, <1>8
<1>10. path \o a # path
    BY <1>1, <1>2, <1>3
<1> QED BY <1>9, <1>10 DEF a, b

LEMMA StandsBelow ==
    ASSUME NEW s, NEW h, NEW path \in Seq(Steps), NEW q \in Pats, HasParts(q), NEW k \in DOMAIN q.args, Stands(s, h, path, q)
    PROVE  /\ Stands(s, h, Append(path, StepTo(q, k)), q.args[k])
           /\ \A x : HasName(q.args[k], x) => HasName(q, x) /\ Elsewhere(s, h, x, path)
<1> DEFINE step == StepTo(q, k)
           arg == q.args[k]
<1>1. arg \in Pats /\ step \in Steps
    BY PatternParts, StepFacts
<1>2. ASSUME NEW o \in Standing[arg]
      PROVE  /\ <<<<step>> \o o[1], o[2]>> \in Standing[q]
             /\ <<Append(path, step) \o o[1], o[2]>> \in Standing[s.whole[h]]
             /\ Append(path, step) \o o[1] # path
    <2>1. \A x \in Standing[arg] : <<<<step>> \o x[1], x[2]>> \in Standing[q]
        BY StandingIn
    <2>2. o[1] \in Seq(Steps)
        BY <1>1, StandingType
    <2> DEFINE y == <<<<step>> \o o[1], o[2]>>
    <2>3. y \in Standing[q] /\ y[1] = <<step>> \o o[1] /\ y[2] = o[2]
        BY <2>1
    <2> HIDE DEF y, step, arg
    <2>4. <<path \o y[1], y[2]>> \in Standing[s.whole[h]]
        BY <2>3 DEF Stands
    <2>5. Append(path, step) \o o[1] = path \o (<<step>> \o o[1]) /\ path \o (<<step>> \o o[1]) # path
        BY <1>1, <2>2, PathBelow
    <2>6. <<Append(path, step) \o o[1], o[2]>> \in Standing[s.whole[h]]
        BY <2>3, <2>4, <2>5
    <2>7. <<<<step>> \o o[1], o[2]>> \in Standing[q]
        BY <2>3 DEF y
    <2> QED BY <2>5, <2>6, <2>7
<1> HIDE DEF step, arg
<1>3. Stands(s, h, Append(path, step), arg)
    BY <1>2 DEF Stands
<1>4. ASSUME NEW x, HasName(arg, x)
      PROVE  HasName(q, x) /\ Elsewhere(s, h, x, path)
    <2>1. PICK o \in Standing[arg] : Names(o[2]) /\ o[2].x = x
        BY <1>4 DEF HasName
    <2> DEFINE y == <<<<step>> \o o[1], o[2]>>
               z == <<Append(path, step) \o o[1], o[2]>>
    <2>2. y \in Standing[q] /\ z \in Standing[s.whole[h]] /\ z[1] # path /\ y[2] = o[2] /\ z[2] = o[2]
        BY <1>2
    <2> HIDE DEF y, z
    <2> QED BY <2>1, <2>2 DEF HasName, Elsewhere
<1> QED BY <1>3, <1>4 DEF step, arg

\* The value of a part.
LEMMA PartValue ==
    ASSUME NEW q \in Pats, HasParts(q), NEW k \in DOMAIN q.args, NEW place \in Places, NEW v \in AllValues,
           NEW w, w = ValueAt(place, v), w.tag = q.tag, PartOf(q, k) \in DOMAIN w.parts
    PROVE  ValueAt(At(place, StepTo(q, k)), v) = w.parts[PartOf(q, k)]
<1>1. StepTo(q, k) \in Steps
    BY StepFacts
<1>2. ValueAt(At(place, StepTo(q, k)), v) = StepValue(w, StepTo(q, k))
    BY <1>1, ValueAtFacts DEF Readable
<1>3. CASE q.p = "ctor"
    <2>1. StepTo(q, k) = [ctor |-> q.tag, part |-> k] /\ PartOf(q, k) = k
        BY <1>3 DEF StepTo, PartOf
    <2>2. StepTo(q, k).ctor = w.tag /\ StepTo(q, k).part = k
        BY <2>1
    <2>3. StepTo(q, k).ctor \in {NoCtor, w.tag} /\ StepTo(q, k).part \in DOMAIN w.parts
        BY <2>1, <2>2
    <2> QED BY <1>2, <2>1, <2>2, <2>3 DEF StepValue
<1>4. CASE q.p # "ctor"
    <2>1. StepTo(q, k) = Field(PartOf(q, k))
        BY <1>4 DEF StepTo
    <2>2. StepTo(q, k).ctor = NoCtor /\ StepTo(q, k).part = PartOf(q, k)
        BY <2>1 DEF Field
    <2>3. StepTo(q, k).ctor \in {NoCtor, w.tag} /\ StepTo(q, k).part \in DOMAIN w.parts
        BY <2>2
    <2> QED BY <1>2, <2>2, <2>3 DEF StepValue
<1> QED BY <1>3, <1>4

\* What remains of a row whose column is a wildcard under aliases, where there
\* is no other column: the wildcard.
LEMMA WildRemains ==
    ASSUME NEW rows, NEW occ, NEW c, AtColumn(rows, occ, c), NEW s, Scoped(s), AllPlaced(s, rows, occ),
           PlacesHold(occ, s.val), Len(occ) = 1, c = 1, NEW i \in 1..Len(rows), IsWild(CoreAt(rows, i, c)),
           NEW row, row.arm = rows[i].arm, row.pats = <<CoreAt(rows, i, c)>>, NEW places
    PROVE  Remains(s, rows, occ, c, i, row, places)
<1> DEFINE q == CoreAt(rows, i, c)
           pat == rows[i].pats[c]
           h == HomeOf(s, rows[i])
           w == ValueAt(occ[c], s.val)
<1>1. q \in Pats /\ Narrower(q, pat) /\ c \in 1..Len(rows[i].pats) /\ pat \in Pats
    BY ColumnHead DEF IsHead
<1>2. Astray(s, h, q)
    BY ColumnLoose
<1>3. row.pats[1] = q /\ Len(row.pats) = 1
    OBVIOUS
<1>4. \A k \in 1..Len(row.pats) : k = 1
    BY <1>3
<1>5. \A k \in 1..Len(row.pats) : IsPlaced(s, h, row.pats[k], k, places)
    BY <1>2, <1>3, <1>4 DEF IsPlaced
<1>6. w \in AllValues
    BY ColumnValue
<1>7. IsWild(q)
    OBVIOUS
<1> HIDE DEF q, h, w
<1>8. ASSUME NEW k \in 1..Len(row.pats), NEW x, HasName(row.pats[k], x)
      PROVE  /\ \E j \in 1..Len(rows[i].pats) : HasName(rows[i].pats[j], x)
             /\ Len(occ) = 1 => Loose(s, h, x) \/ Elsewhere(s, h, x, occ[c].path)
    <2>1. HasName(q, x)
        BY <1>3, <1>4, <1>8
    <2>2. HasName(pat, x)
        BY <1>1, <2>1, PlacedNarrower
    <2>3. PICK o \in Standing[q] : Names(o[2]) /\ o[2].x = x
        BY <2>1 DEF HasName
    <2>4. Standing[q] = {<<<<>>, q>>}
        BY <1>1, <1>7, StandingIn DEF IsWild
    <2>5. o[2] = q
        BY <2>3, <2>4
    <2>6. q.p = "bind" /\ q.x = x
        BY <1>7, <2>3, <2>5 DEF Names, IsWild
    <2>7. Loose(s, h, x)
        BY <1>2, <2>6 DEF Astray
    <2> QED BY <1>1, <2>2, <2>7
<1>9. ASSUME NEW b, Pending(rows[i], occ, s.val, b)
      PROVE  \/ Loose(s, h, b[1])
             \/ Pending(row, places, s.val, b)
             \/ pat.p = "alias" /\ IsTop(b, pat, occ[c], w)
    <2>1. PICK k \in 1..Len(occ) : b \in Bindings[<<rows[i].pats[k], ValueAt(occ[k], s.val)>>]
        BY <1>9 DEF Pending
    <2>2. k = c
        OBVIOUS
    <2>3. b \in Bindings[<<rows[i].pats[c], w>>]
        BY <2>1, <2>2 DEF w
    <2>4. \/ Loose(s, HomeOf(s, rows[i]), b[1])
          \/ rows[i].pats[c].p = "alias" /\ IsTop(b, rows[i].pats[c], occ[c], w)
          \/ ~IsWild(CoreAt(rows, i, c))
        BY <1>6, <2>3, ColumnPending
    <2> QED BY <2>4 DEF h
<1>10. Remains(s, rows, occ, c, i, row, places)
    BY <1>5, <1>8, <1>9, Zenon DEF Remains, h, w
<1> QED BY <1>10

\* What remains of a row whose column has parts, where there is no other
\* column: the parts, at places below.
LEMMA PartsRemain ==
    ASSUME NEW rows, NEW occ, NEW c, AtColumn(rows, occ, c), NEW s, Scoped(s), AllPlaced(s, rows, occ),
           PlacesHold(occ, s.val), Len(occ) = 1, c = 1, NEW i \in 1..Len(rows), ~IsWild(CoreAt(rows, i, c)),
           HasParts(CoreAt(rows, i, c)), CoreAt(rows, i, c).tag = ValueAt(occ[c], s.val).tag,
           NEW row, row.arm = rows[i].arm, row.pats = CoreAt(rows, i, c).args, NEW places,
           Len(row.pats) = Len(places),
           \A k \in 1..Len(places) : k \in DOMAIN row.pats /\ places[k] = At(occ[c], StepTo(CoreAt(rows, i, c), k))
    PROVE  Remains(s, rows, occ, c, i, row, places)
<1> DEFINE q == CoreAt(rows, i, c)
           pat == rows[i].pats[c]
           h == HomeOf(s, rows[i])
           w == ValueAt(occ[c], s.val)
           path == occ[c].path
<1>1. /\ q \in Pats /\ Narrower(q, pat) /\ c \in 1..Len(rows[i].pats) /\ pat \in Pats /\ occ[c] \in Places
      /\ AnyAlias(pat) <=> IsWild(q)
    BY ColumnHead DEF IsHead
<1>2. /\ HasParts(q) /\ ~IsWild(q) /\ q.tag = w.tag /\ row.pats = q.args /\ Len(q.args) = Len(places)
      /\ \A k \in 1..Len(places) : k \in DOMAIN q.args /\ places[k] = At(occ[c], StepTo(q, k))
    OBVIOUS
<1>3. path \in Seq(Steps) /\ w \in AllValues /\ s.val \in AllValues
    BY <1>1, ColumnValue DEF Places, Scoped
<1>4. Stands(s, h, path, q)
    <2>1. IsPlaced(s, h, pat, c, occ)
        BY <1>1 DEF AllPlaced
    <2>2. ~IsWild(pat)
        <3>1. pat.p # "alias" => Core[pat] = pat
            BY <1>1, CoreFacts
        <3>2. IsWild(pat) => IsWild(q)
            BY <3>1 DEF IsWild, CoreAt
        <3> QED BY <1>2, <3>2
    <2>3. Stands(s, h, path, pat)
        BY <2>1, <2>2 DEF IsPlaced, Astray
    <2> QED BY <1>1, <2>3 DEF Stands, Narrower
<1>5. q.args \in Seq(Pats) /\ DOMAIN q.args = 1..Len(q.args)
    BY <1>1, <1>2, PatternParts
<1> HIDE DEF q, h, w, path
<1>6. ASSUME NEW k \in 1..Len(row.pats)
      PROVE  /\ IsPlaced(s, h, row.pats[k], k, places)
             /\ \A x : HasName(row.pats[k], x) =>
                /\ \E j \in 1..Len(rows[i].pats) : HasName(rows[i].pats[j], x)
                /\ Len(occ) = 1 => Loose(s, h, x) \/ Elsewhere(s, h, x, occ[c].path)
    <2>1. k \in DOMAIN q.args /\ k \in 1..Len(places) /\ places[k] = At(occ[c], StepTo(q, k)) /\ row.pats[k] = q.args[k]
        BY <1>2
    <2>2. StepTo(q, k) \in Steps
        BY <1>1, <1>2, <2>1, StepFacts
    <2>3. places[k].path = Append(path, StepTo(q, k))
        BY <1>1, <2>1, <2>2, AtIsPlace DEF path
    <2>4. /\ Stands(s, h, Append(path, StepTo(q, k)), q.args[k])
          /\ \A x : HasName(q.args[k], x) => HasName(q, x) /\ Elsewhere(s, h, x, path)
        BY <1>1, <1>2, <1>3, <1>4, <2>1, StandsBelow
    <2>5. \A x : HasName(q, x) => HasName(pat, x)
        BY <1>1, PlacedNarrower
    <2>6. IsPlaced(s, h, row.pats[k], k, places)
        BY <2>1, <2>3, <2>4 DEF IsPlaced
    <2> QED BY <1>1, <2>1, <2>4, <2>5, <2>6 DEF path
<1>7. ASSUME NEW b, Pending(rows[i], occ, s.val, b)
      PROVE  \/ Loose(s, h, b[1])
             \/ Pending(row, places, s.val, b)
             \/ pat.p = "alias" /\ IsTop(b, pat, occ[c], w)
    <2>1. PICK k \in 1..Len(occ) : b \in Bindings[<<rows[i].pats[k], ValueAt(occ[k], s.val)>>]
        BY <1>7 DEF Pending
    <2>2. k = c
        OBVIOUS
    <2>3. b \in Bindings[<<rows[i].pats[c], w>>]
        BY <2>1, <2>2 DEF w
    <2>4. \/ Loose(s, h, b[1])
          \/ pat.p = "alias" /\ IsTop(b, pat, occ[c], w)
          \/ \E j \in DOMAIN q.args : PartOf(q, j) \in DOMAIN w.parts /\ b \in Bindings[<<q.args[j], w.parts[PartOf(q, j)]>>]
        BY <1>3, <2>3, ColumnPending DEF h, q
    <2>5. ASSUME NEW j \in DOMAIN q.args, PartOf(q, j) \in DOMAIN w.parts, b \in Bindings[<<q.args[j], w.parts[PartOf(q, j)]>>]
          PROVE  Pending(row, places, s.val, b)
        <3>1. j \in 1..Len(places) /\ places[j] = At(occ[c], StepTo(q, j)) /\ row.pats[j] = q.args[j]
            BY <1>2, <1>5
        <3>2. w = ValueAt(occ[c], s.val)
            BY DEF w
        <3>3. ValueAt(At(occ[c], StepTo(q, j)), s.val) = w.parts[PartOf(q, j)]
            BY <1>1, <1>2, <1>3, <2>5, <3>2, PartValue
        <3>4. b \in Bindings[<<row.pats[j], ValueAt(places[j], s.val)>>]
            BY <2>5, <3>1, <3>3
        <3> QED BY <3>1, <3>4 DEF Pending
    <2> QED BY <2>4, <2>5
<1>8. Remains(s, rows, occ, c, i, row, places)
    BY <1>6, <1>7, Zenon DEF Remains, h, w, path
<1> QED BY <1>8

\* What the rows say of the variables is said below a tested column.
LEMMA UnderCarries ==
    ASSUME NEW rows, NEW occ, NEW c, AtColumn(rows, occ, c), NEW s, Scoped(s), NEW e, Carries(s, rows, occ, e),
           NEW key, IsKeyAt(rows, occ, c, key), IsUnder(rows, occ, c, key), key.tag = ValueAt(occ[c], s.val).tag
    PROVE  Carries(s, SpecializedRows(rows, c, key), SpecializedPlaces(rows, occ, c, key), BindTo(s, e, BindsAt(rows, occ, c)))
<1> DEFINE new == SpecializedRows(rows, c, key)
           places == SpecializedPlaces(rows, occ, c, key)
           K == Hits(rows, c, key)
           g == Into(rows, c, key)
<1>1. new \in Seq(MatrixRows) /\ HasKept(K, g, new) /\ SameArms(K, g, rows) /\ \A i \in K : g[i] \in MatrixRows
    BY IntoRows
<1>2. s.val \in AllValues /\ PlacesHold(occ, s.val) /\ AllPlaced(s, rows, occ)
    BY DEF Scoped, Carries
<1>3. KeepsFit(K, g, places, rows, occ, s.val)
    BY <1>2 DEF IsUnder
<1>4. ASSUME NEW i \in K
      PROVE  Remains(s, rows, occ, c, i, g[i], places)
    <2> DEFINE q == CoreAt(rows, i, c)
               row == g[i]
               pats == Into(rows, c, key)[i].pats
    <2>1. /\ key.p = "lit" => /\ places = RemoveAt(occ, c) /\ g[i].pats = RemoveAt(rows[i].pats, c)
                              /\ IsWild(q) \/ q.p = "lit"
          /\ key.p # "lit" /\ IsWild(q) => g[i].pats = <<q>>
          /\ key.p # "lit" /\ ~IsWild(q) =>
                /\ HasParts(q) /\ g[i].pats = q.args /\ Len(q.args) = Len(places)
                /\ \A k \in 1..Len(places) : k \in DOMAIN q.args /\ places[k] = At(occ[c], StepTo(q, k))
        BY Zenon DEF IsUnder, IsBelow
    <2>2. i \in 1..Len(rows) /\ g[i].arm = rows[i].arm
        BY <1>1 DEF SameArms
    <2>3. CASE key.p = "lit"
        <3>1. \A j \in K : g[j].pats = RemoveAt(rows[j].pats, c)
            BY <2>3, Zenon DEF IsUnder, IsBelow
        <3> HIDE DEF K, g
        <3>2. AreWithout(K, g, rows, c)
            BY <1>1, <3>1 DEF AreWithout
        <3>3. Remains(s, rows, occ, c, i, g[i], RemoveAt(occ, c))
            BY <1>2, <2>1, <2>3, <3>2, WithoutRemains
        <3> QED BY <2>1, <2>3, <3>3
    <2>4. ASSUME key.p # "lit"
          PROVE  Len(occ) = 1 /\ c = 1
        <3>1. KindAt(occ, c) # "lit"
            BY <2>4 DEF IsKeyAt
        <3> QED BY <3>1, FirstPlace
    <2> HIDE DEF K, g, places
    <2>5. CASE key.p # "lit" /\ IsWild(q)
        BY <1>2, <2>1, <2>2, <2>4, <2>5, WildRemains
    <2>6. CASE key.p # "lit" /\ ~IsWild(q)
        <3>1. q.tag = ValueAt(occ[c], s.val).tag
            <4>1. q.tag = key.tag
                BY <2>2, <2>6, HitIs DEF K
            <4> QED BY <4>1
        <3> HIDE DEF row
        <3>2. /\ HasParts(CoreAt(rows, i, c)) /\ row.arm = rows[i].arm /\ row.pats = CoreAt(rows, i, c).args /\ Len(row.pats) = Len(places)
            BY <2>1, <2>2, <2>6 DEF row
        <3>3. \A k \in 1..Len(places) : k \in DOMAIN row.pats /\ places[k] = At(occ[c], StepTo(CoreAt(rows, i, c), k))
            BY <2>1, <2>6, <3>2
        <3>4. ~IsWild(CoreAt(rows, i, c)) /\ CoreAt(rows, i, c).tag = ValueAt(occ[c], s.val).tag /\ Len(occ) = 1 /\ c = 1
            BY <2>4, <2>6, <3>1
        <3>5. Remains(s, rows, occ, c, i, row, places)
            BY <1>2, <2>2, <3>2, <3>3, <3>4, PartsRemain
        <3> QED BY <3>5 DEF row
    <2> QED BY <2>3, <2>5, <2>6
<1> HIDE DEF new, places, K, g
<1>5. Carries(s, new, places, BindTo(s, e, BindsAt(rows, occ, c)))
    BY <1>1, <1>3, <1>4, ColumnChild
<1> QED BY <1>5 DEF new, places

LEMMA DefaultCarries ==
    ASSUME NEW rows, NEW occ, NEW c, AtColumn(rows, occ, c), NEW s, Scoped(s), NEW e, Carries(s, rows, occ, e),
           TestedKeys(rows, c) # {}, \A key \in TestedKeys(rows, c) : key.tag # ValueAt(occ[c], s.val).tag
    PROVE  Carries(s, DefaultRows(rows, c), RemoveAt(occ, c), BindTo(s, e, BindsAt(rows, occ, c)))
<1> DEFINE new == DefaultRows(rows, c)
           places == RemoveAt(occ, c)
           K == WildRows(rows, c)
           g == Without(rows, c)
<1>1. new \in Seq(MatrixRows) /\ HasKept(K, g, new) /\ AreWithout(K, g, rows, c)
    BY WithoutRows
<1>2. s.val \in AllValues /\ PlacesHold(occ, s.val) /\ AllPlaced(s, rows, occ)
    BY DEF Scoped, Carries
<1>3. KeepsFit(K, g, places, rows, occ, s.val)
    BY <1>2, DefaultKeepsFit
<1>4. \A i \in K : IsWild(CoreAt(rows, i, c))
    BY DEF WildRows, AnyAlias, CoreAt
<1>5. SameArms(K, g, rows)
    BY <1>1 DEF AreWithout
<1> HIDE DEF new, K, g
<1>6. \A i \in K : Remains(s, rows, occ, c, i, g[i], places)
    BY <1>1, <1>2, <1>4, WithoutRemains
<1> HIDE DEF places
<1>7. Carries(s, new, places, BindTo(s, e, BindsAt(rows, occ, c)))
    BY <1>1, <1>3, <1>5, <1>6, ColumnChild
<1> QED BY <1>7 DEF new, places

\* Where one arm takes all that is left its variables are bound.
LEMMA SettledBound ==
    ASSUME NEW rows, NEW occ, NEW c, AtColumn(rows, occ, c), NEW s, Scoped(s), NEW e, Carries(s, rows, occ, e),
           NEW key, IsKeyAt(rows, occ, c, key), IsSettled(rows, occ, c, key), KindAt(occ, c) = "ctor",
           key.tag = ValueAt(occ[c], s.val).tag
    PROVE  ArmBound(s, rows[Min(Hits(rows, c, key))].arm, BindTo(s, e, BindsAt(rows, occ, c)))
<1> DEFINE o == Min(Hits(rows, c, key))
           w == ValueAt(occ[c], s.val)
           e2 == BindTo(s, e, BindsAt(rows, occ, c))
           h == HomeOf(s, rows[o])
<1>1. /\ o \in Hits(rows, c, key) /\ \A i \in Hits(rows, c, key) : o <= i
      /\ o \in 1..Len(rows) /\ IsWild(CoreAt(rows, o, c))
    BY DEF IsSettled
<1>2. /\ \A i \in 1..Len(rows) : \A v : FitsAt(rows[i], occ, v) <=> Matches(rows[i].pats[c], ValueAt(occ[c], v))
      /\ Len(occ) = 1 /\ c = 1
    BY SingleFacts DEF IsSingle
<1>3. s.val \in AllValues /\ PlacesHold(occ, s.val) /\ AllPlaced(s, rows, occ)
    BY DEF Scoped, Carries
<1>4. w \in Inhabitants[occ[c].type] /\ w \in AllValues /\ w.tag = key.tag
    BY <1>3, ColumnValue
<1>5. Len(rows) \in Nat
    BY GoodFacts DEF AtColumn
<1> HIDE DEF o
<1>6. IsFirst(rows, occ, o, s.val)
    <2>1. Matches(rows[o].pats[c], w)
        <3>1. IsHead(rows, occ, c, o)
            BY <1>1, ColumnHead
        <3> QED BY <1>1, <1>4, <3>1 DEF IsHead
    <2>2. FitsAt(rows[o], occ, s.val)
        BY <1>1, <1>2, <2>1
    <2>3. ASSUME NEW j \in 1..(o - 1), FitsAt(rows[j], occ, s.val)
          PROVE  FALSE
        <3>1. j \in 1..Len(rows) /\ ~(o <= j)
            BY <1>1, <1>5
        <3>2. Matches(rows[j].pats[c], w)
            BY <1>2, <2>3, <3>1
        <3>3. j \in Hits(rows, c, key)
            BY <1>4, <3>1, <3>2, HitMatches
        <3> QED BY <1>1, <3>1, <3>3
    <2> QED BY <2>2, <2>3 DEF IsFirst
<1>7. ASSUME NEW b \in BindingsOf(s, rows[o].arm)
      PROVE  Loose(s, h, b[1]) \/ IsBound(e2, h, b)
    <2>1. Accounted(s, rows, occ, e, o, b)
        BY <1>1, <1>6, <1>7 DEF Carries
    <2>2. CASE IsBound(e, h, b) /\ Unnamed(s, rows, h, b[1])
        <3> HIDE DEF h
        <3>1. IsBound(e, h, b) /\ Unnamed(s, rows, h, b[1])
            BY <2>2
        <3>2. IsBound(BindTo(s, e, BindsAt(rows, occ, c)), h, b)
            BY <3>1, ColumnKeeps
        <3> QED BY <3>2
    <2>3. CASE Pending(rows[o], occ, s.val, b)
        <3>1. PICK k \in 1..Len(occ) : b \in Bindings[<<rows[o].pats[k], ValueAt(occ[k], s.val)>>]
            BY <2>3 DEF Pending
        <3>2. k = c
            BY <1>2
        <3>3. b \in Bindings[<<rows[o].pats[c], w>>]
            BY <3>1, <3>2
        <3> HIDE DEF w
        <3>4. \/ Loose(s, HomeOf(s, rows[o]), b[1])
              \/ rows[o].pats[c].p = "alias" /\ IsTop(b, rows[o].pats[c], occ[c], w)
            BY <1>1, <1>3, <1>4, <3>3, ColumnPending
        <3>5. ASSUME rows[o].pats[c].p = "alias", IsTop(b, rows[o].pats[c], occ[c], w)
              PROVE  IsBound(e2, h, b)
            <4>1. IsTop(b, rows[o].pats[c], occ[c], ValueAt(occ[c], s.val)) /\ rows[o].pats[c].p = "alias"
                BY <3>5 DEF w
            <4>2. IsBound(BindTo(s, e, BindsAt(rows, occ, c)), HomeOf(s, rows[o]), b)
                BY <1>1, <1>3, <4>1, AliasBound
            <4> QED BY <4>2
        <3> QED BY <3>4, <3>5
    <2>4. Loose(s, h, b[1]) \/ Pending(rows[o], occ, s.val, b) \/ (IsBound(e, h, b) /\ Unnamed(s, rows, h, b[1]))
        BY <2>1 DEF Accounted
    <2> HIDE DEF h, e2
    <2> QED BY <2>2, <2>3, <2>4
<1> HIDE DEF e2
<1>8. ArmBound(s, rows[o].arm, e2)
    BY <1>7 DEF ArmBound, HomeOf
<1> QED BY <1>8 DEF o, e2

LEMMA WritesAre ==
    ASSUME NEW s, NEW binds \in Seq(Writable)
    PROVE  \A i, x, place : place \in Writes(s, binds, i, x) <=>
             \E t \in Elements(binds) : s.home[t[1]] = i /\ t[2] = x /\ t[3] = place
BY WritesIn

\* The value at a place depends on the way to it.
LEMMA SamePath ==
    ASSUME NEW p \in Places, NEW q \in Places, p.path = q.path, NEW v \in AllValues
    PROVE  ValueAt(p, v) = ValueAt(q, v)
<1>1. p.path \in Seq(Steps) /\ q.path \in Seq(Steps) /\ v \in Readable
    BY DEF Places, Readable
<1>2. PICK f \in [0..Len(p.path) -> Readable] : AreValuesOn(f, p.path, v)
    BY <1>1, ValuesOnPath
<1>3. ValueAt(p, v) = f[Len(p.path)]
    BY <1>1, <1>2, ValueAtIs
<1>4. ValueAt(q, v) = f[Len(q.path)]
    BY <1>1, <1>2, ValueAtIs
<1> QED BY <1>3, <1>4

\* What an arm writes is for names in its row.
LEMMA ArmWritesName ==
    ASSUME NEW rows, NEW occ, IsGood(rows, occ), rows # <<>>, NEW s, NEW i, NEW x,
           NEW place \in Writes(s, BindsOf(rows, occ), i, x)
    PROVE  /\ HomeOf(s, rows[1]) = i
           /\ \E k \in 1..Len(occ) : /\ k \in 1..Len(rows[1].pats) /\ rows[1].pats[k] \in Pats /\ occ[k] \in Places
                                     /\ \E o \in Standing[rows[1].pats[k]] :
                                            Names(o[2]) /\ o[2].x = x /\ (o[1] = <<>> => place = occ[k])
<1> DEFINE binds == BindsOf(rows, occ)
<1>1. /\ binds \in Seq(Writable)
      /\ \A t \in Elements(binds) : t[1] = rows[1].arm /\
            \E k \in 1..Len(occ) : <<t[2], t[3]>> \in Entries(rows[1].pats[k], occ[k])
    BY ArmWrites
<1> HIDE DEF binds
<1>2. binds \in Seq(Writable)
    BY <1>1
<1>11. \A y : y \in Writes(s, binds, i, x) <=> \E t \in Elements(binds) : s.home[t[1]] = i /\ t[2] = x /\ t[3] = y
    BY <1>2, WritesIn
<1>12. place \in Writes(s, binds, i, x)
    BY DEF binds
<1>3. PICK t \in Elements(binds) : s.home[t[1]] = i /\ t[2] = x /\ t[3] = place
    BY <1>11, <1>12
<1>4. PICK k \in 1..Len(occ) : <<t[2], t[3]>> \in Entries(rows[1].pats[k], occ[k])
    BY <1>1, <1>3
<1>5. HomeOf(s, rows[1]) = i
    BY <1>1, <1>3 DEF HomeOf
<1>6. 1 \in 1..Len(rows)
    <2>1. Len(rows) \in Nat /\ Len(rows) # 0
        BY GoodFacts
    <2> DEFINE n == Len(rows)
    <2> HIDE DEF n
    <2>2. n \in Nat /\ n # 0
        BY <2>1 DEF n
    <2>3. 1 \in 1..n
        BY <2>2
    <2> QED BY <2>3 DEF n
<1>7. k \in 1..Len(rows[1].pats) /\ rows[1].pats[k] \in Pats /\ occ[k] \in Places
    BY <1>6, TypeOfPlace
<1> DEFINE a == <<t[2], t[3]>>
<1>8. NameFor(a, rows[1].pats[k], occ[k])
    BY <1>4, <1>7, NamesBound
<1>9. a[1] = x /\ a[2] = place
    BY <1>3
<1> HIDE DEF a
<1>10. \E o \in Standing[rows[1].pats[k]] : Names(o[2]) /\ o[2].x = x /\ (o[1] = <<>> => place = occ[k])
    BY <1>8, <1>9 DEF NameFor
<1> QED BY <1>5, <1>7, <1>10

\* What is bound and has no name in the rows is not bound again by an arm.
LEMMA ArmKeeps ==
    ASSUME NEW rows, NEW occ, IsGood(rows, occ), rows # <<>>, NEW s, NEW e, NEW i, NEW b,
           IsBound(e, i, b), Unnamed(s, rows, i, b[1])
    PROVE  IsBound(BindTo(s, e, BindsOf(rows, occ)), i, b)
<1> DEFINE binds == BindsOf(rows, occ)
           w == Writes(s, binds, i, b[1])
           x == b[1]
<1>1. binds \in Seq(Writable)
    BY ArmWrites
<1>2. 1 \in 1..Len(rows)
    <2>1. Len(rows) \in Nat /\ Len(rows) # 0
        BY GoodFacts
    <2> DEFINE n == Len(rows)
    <2> HIDE DEF n
    <2>2. n \in Nat /\ n # 0
        BY <2>1 DEF n
    <2>3. 1 \in 1..n
        BY <2>2
    <2> QED BY <2>3 DEF n
<1>3. ASSUME NEW place \in w
      PROVE  FALSE
    <2> HIDE DEF x
    <2>0. place \in Writes(s, BindsOf(rows, occ), i, x)
        BY <1>3 DEF x
    <2>1. /\ HomeOf(s, rows[1]) = i
          /\ \E k \in 1..Len(occ) : /\ k \in 1..Len(rows[1].pats) /\ rows[1].pats[k] \in Pats /\ occ[k] \in Places
                                    /\ \E o \in Standing[rows[1].pats[k]] :
                                            Names(o[2]) /\ o[2].x = x /\ (o[1] = <<>> => place = occ[k])
        BY <2>0, ArmWritesName
    <2>2. \E k \in 1..Len(rows[1].pats) : HasName(rows[1].pats[k], x)
        BY <2>1 DEF HasName
    <2> QED BY <1>2, <2>1, <2>2 DEF Unnamed, x
<1> HIDE DEF binds
<1>4. w = {} /\ IsBound(e, i, b) => IsBound(BindTo(s, e, binds), i, b)
    BY <1>1, BindsTo
<1> QED BY <1>3, <1>4 DEF binds

\* The variables of the first row are bound where it is all wildcards.
LEMMA FirstBound ==
    ASSUME NEW rows, NEW occ, IsGood(rows, occ), rows # <<>>, FirstIsWild(rows, occ), NEW s, Scoped(s), NEW e,
           Carries(s, rows, occ, e)
    PROVE  ArmBound(s, rows[1].arm, BindTo(s, e, BindsOf(rows, occ)))
<1> DEFINE binds == BindsOf(rows, occ)
           e2 == BindTo(s, e, binds)
           h == HomeOf(s, rows[1])
           pats == rows[1].pats
<1>1. 1 \in 1..Len(rows)
    <2>1. Len(rows) \in Nat /\ Len(rows) # 0
        BY GoodFacts
    <2> DEFINE n == Len(rows)
    <2> HIDE DEF n
    <2>2. n \in Nat /\ n # 0
        BY <2>1 DEF n
    <2>3. 1 \in 1..n
        BY <2>2
    <2> QED BY <2>3 DEF n
<1>2. s.val \in AllValues /\ PlacesHold(occ, s.val) /\ AllPlaced(s, rows, occ)
    BY DEF Scoped, Carries
<1>3. rows[1].arm \in DOMAIN s.home /\ h = s.home[rows[1].arm]
    BY <1>1, <1>2 DEF AllPlaced, HomeOf
<1>4. \A x, y \in Standing[s.whole[h]] : Names(x[2]) /\ Names(y[2]) /\ x[2].x = y[2].x => x[1] = y[1]
    BY <1>3 DEF Scoped
<1>5. IsFirst(rows, occ, 1, s.val)
    <2>1. FitsAt(rows[1], occ, s.val)
        BY <1>2 DEF FirstIsWild
    <2>2. 1..(1 - 1) = {}
        OBVIOUS
    <2> QED BY <2>1, <2>2 DEF IsFirst
<1>6. ASSUME NEW k \in 1..Len(occ)
      PROVE  /\ k \in 1..Len(pats) /\ pats[k] \in Pats /\ occ[k] \in Places /\ AnyAlias(pats[k])
             /\ IsPlaced(s, h, pats[k], k, occ)
             /\ ValueAt(occ[k], s.val) \in AllValues
    <2>1. /\ pats[k] \in Pats /\ occ[k] \in Places /\ Len(pats) = Len(occ) /\ k \in 1..Len(pats)
          /\ Inhabitants[occ[k].type] \subseteq AllValues
        BY <1>1, TypeOfPlace
    <2>2. pats \in Seq(Pats)
        BY <1>1, GoodFacts
    <2>3. AnyAlias(pats[k])
        BY <2>1, <2>2 DEF FirstIsWild, AllWild
    <2>4. ValueAt(occ[k], s.val) \in AllValues
        BY <1>2, <2>1 DEF PlacesHold
    <2> QED BY <1>1, <1>2, <2>1, <2>3, <2>4 DEF AllPlaced
\* A name in the row stands at its place, in the pattern of the arm.
<1>7. ASSUME NEW k \in 1..Len(occ), NEW o \in Standing[pats[k]], Names(o[2])
      PROVE  /\ o[1] = <<>>
             /\ Loose(s, h, o[2].x) \/ NamedAt(s, h, o[2].x, occ[k].path)
    <2>1. o[1] = <<>>
        BY <1>6, <1>7, AllAtTop
    <2>2. CASE Astray(s, h, pats[k])
        <3> DEFINE pat == pats[k]
        <3>1. pat \in Pats /\ pat.p \in {"wild", "bind"} /\ (pat.p = "bind" => Loose(s, h, pat.x))
            BY <1>6, <2>2 DEF Astray, IsWild
        <3> HIDE DEF pat
        <3>2. Standing[pat] = {<<<<>>, pat>>}
            BY <3>1, StandingIn
        <3>3. o[2] = pat
            BY <1>7, <3>2 DEF pat
        <3>4. pat.p = "bind"
            BY <1>7, <3>1, <3>3 DEF Names
        <3> QED BY <2>1, <3>1, <3>3, <3>4
    <2>3. CASE Stands(s, h, occ[k].path, pats[k])
        <3>1. <<occ[k].path \o o[1], o[2]>> \in Standing[s.whole[h]]
            BY <2>3 DEF Stands
        <3>2. occ[k].path \in Seq(Steps)
            BY <1>6 DEF Places
        <3> DEFINE path == occ[k].path
        <3>3. path \o <<>> = path
            <4> HIDE DEF path
            <4> QED BY <3>2 DEF path
        <3> DEFINE z == <<path, o[2]>>
        <3>4. z \in Standing[s.whole[h]] /\ z[1] = path /\ z[2] = o[2]
            BY <2>1, <3>1, <3>3
        <3> HIDE DEF z, path, h
        <3>5. NamedAt(s, h, o[2].x, path)
            BY <1>7, <3>4 DEF NamedAt
        <3> QED BY <2>1, <3>5 DEF path
    <2> QED BY <1>6, <2>2, <2>3 DEF IsPlaced
<1> HIDE DEF binds, h
<1>8. ASSUME NEW b, Pending(rows[1], occ, s.val, b), ~Loose(s, h, b[1])
      PROVE  IsBound(e2, h, b)
    <2> DEFINE x == b[1]
               w == Writes(s, binds, h, b[1])
    <2>1. PICK k \in 1..Len(occ) : b \in Bindings[<<pats[k], ValueAt(occ[k], s.val)>>]
        BY <1>8 DEF Pending
    <2>2. IsTop(b, pats[k], occ[k], ValueAt(occ[k], s.val))
        <3> DEFINE pat == pats[k]
                   place == occ[k]
                   v == ValueAt(occ[k], s.val)
        <3>1. pat \in Pats /\ place \in Places /\ v \in AllValues /\ b \in Bindings[<<pat, v>>]
            BY <1>6, <2>1
        <3>2. IsWild(Core[pat])
            BY <1>6 DEF AnyAlias
        <3> HIDE DEF pat, place, v
        <3>3. IsTop(b, pat, place, v)
            BY <3>1, <3>2, CoreBindings
        <3> QED BY <3>3 DEF pat, place, v
    <2>3. b[2] = ValueAt(occ[k], s.val) /\ <<b[1], occ[k]>> \in Entries(pats[k], occ[k])
        BY <2>2 DEF IsTop
    <2>4. PICK o \in Standing[pats[k]] : Names(o[2]) /\ o[2].x = b[1]
        BY <2>2 DEF IsTop
    <2>5. NamedAt(s, h, b[1], occ[k].path)
        BY <1>7, <1>8, <2>4
    <2>6. PICK y \in Standing[s.whole[h]] : Names(y[2]) /\ y[2].x = b[1] /\ y[1] = occ[k].path
        BY <2>5 DEF NamedAt
    <2>7. ASSUME NEW place \in w
          PROVE  ValueAt(place, s.val) = b[2]
        <3> HIDE DEF x
        <3>1. place \in Writes(s, BindsOf(rows, occ), h, x)
            BY <2>7 DEF x, binds
        <3>2. \E j \in 1..Len(occ) : /\ j \in 1..Len(rows[1].pats) /\ rows[1].pats[j] \in Pats /\ occ[j] \in Places
                                     /\ \E a \in Standing[rows[1].pats[j]] :
                                            Names(a[2]) /\ a[2].x = x /\ (a[1] = <<>> => place = occ[j])
            BY <3>1, ArmWritesName
        <3>3. PICK j \in 1..Len(occ) : \E a \in Standing[pats[j]] : Names(a[2]) /\ a[2].x = x /\ (a[1] = <<>> => place = occ[j])
            BY <3>2
        <3>4. PICK a \in Standing[pats[j]] : Names(a[2]) /\ a[2].x = x /\ (a[1] = <<>> => place = occ[j])
            BY <3>3
        <3>5. place = occ[j] /\ NamedAt(s, h, b[1], occ[j].path)
            BY <1>7, <1>8, <3>4 DEF x
        <3>6. PICK z \in Standing[s.whole[h]] : Names(z[2]) /\ z[2].x = b[1] /\ z[1] = occ[j].path
            BY <3>5 DEF NamedAt
        <3>7. occ[j].path = occ[k].path
            BY <1>4, <2>6, <3>6
        <3>8. ValueAt(occ[j], s.val) = ValueAt(occ[k], s.val)
            BY <1>2, <1>6, <3>7, SamePath
        <3> QED BY <2>3, <3>5, <3>8
    <2>8. occ[k] \in w
        <3>1. /\ binds \in Seq(Writable)
              /\ \A j \in 1..Len(occ) : \A a \in Entries(rows[1].pats[j], occ[j]) :
                    <<rows[1].arm, a[1], a[2]>> \in Elements(binds)
            BY ArmWrites DEF binds
        <3>4. binds \in Seq(Writable)
            BY <3>1
        <3>5. \A place : place \in Writes(s, binds, h, x) <=> \E t \in Elements(binds) : s.home[t[1]] = h /\ t[2] = x /\ t[3] = place
            <4> HIDE DEF x
            <4> QED BY <3>4, WritesAre
        <3> DEFINE a == <<b[1], occ[k]>>
                   t == <<rows[1].arm, a[1], a[2]>>
        <3>2. t \in Elements(binds)
            <4>1. a \in Entries(rows[1].pats[k], occ[k])
                BY <2>3
            <4> HIDE DEF a
            <4> QED BY <3>1, <4>1
        <3>3. t[1] = rows[1].arm /\ t[2] = x /\ t[3] = occ[k]
            OBVIOUS
        <3> HIDE DEF t, x
        <3>6. \E t2 \in Elements(binds) : s.home[t2[1]] = h /\ t2[2] = x /\ t2[3] = occ[k]
            BY <1>3, <3>2, <3>3
        <3>7. occ[k] \in Writes(s, binds, h, x)
            BY <3>5, <3>6
        <3> QED BY <3>7 DEF x
    <2>9. binds \in Seq(Writable)
        BY ArmWrites DEF binds
    <2>10. w # {} /\ (\A place \in w : ValueAt(place, s.val) = b[2]) => IsBound(BindTo(s, e, binds), h, b)
        BY <2>9, BindsTo
    <2> QED BY <2>7, <2>8, <2>10
<1>9. ASSUME NEW b \in BindingsOf(s, rows[1].arm)
      PROVE  Loose(s, h, b[1]) \/ IsBound(e2, h, b)
    <2>1. Accounted(s, rows, occ, e, 1, b)
        BY <1>1, <1>5, <1>9 DEF Carries
    <2>2. Loose(s, h, b[1]) \/ Pending(rows[1], occ, s.val, b) \/ (IsBound(e, h, b) /\ Unnamed(s, rows, h, b[1]))
        BY <2>1 DEF Accounted, h
    <2>3. CASE IsBound(e, h, b) /\ Unnamed(s, rows, h, b[1])
        <3>1. IsBound(e, h, b) /\ Unnamed(s, rows, h, b[1])
            BY <2>3
        <3>2. IsBound(BindTo(s, e, BindsOf(rows, occ)), h, b)
            BY <3>1, ArmKeeps
        <3> QED BY <3>2 DEF binds
    <2> QED BY <1>8, <2>2, <2>3
<1> HIDE DEF e2
<1>10. ArmBound(s, rows[1].arm, e2)
    BY <1>9 DEF ArmBound, HomeOf, h
<1> QED BY <1>10 DEF e2, binds

\* What the rows say of the variables is said where an arm was refused.
LEMMA OthersCarries ==
    ASSUME NEW rows, NEW occ, IsGood(rows, occ), rows # <<>>, NEW s, Scoped(s), NEW e, Carries(s, rows, occ, e)
    PROVE  Carries(s, OtherArms(rows, rows[1].arm), occ, BindTo(s, e, BindsOf(rows, occ)))
<1> DEFINE new == OtherArms(rows, rows[1].arm)
           K == Others(rows, rows[1].arm)
           e2 == BindTo(s, e, BindsOf(rows, occ))
<1>1. /\ rows \in Seq(MatrixRows) /\ Len(rows) \in Nat
      /\ \A i \in 1..Len(rows) : rows[i] \in MatrixRows
    BY GoodFacts
<1>2. K \in SUBSET (1..Len(rows)) /\ new = Selected(rows, K, rows)
    BY <1>1, AsSelected DEF Others
<1>3. new \in Seq(MatrixRows) /\ HasKept(K, rows, new)
    <2>1. \A i \in K : rows[i] \in MatrixRows
        BY <1>1, <1>2
    <2> HIDE DEF K, new
    <2> QED BY <1>1, <1>2, <2>1, SelectedFacts
<1>4. \A i \in 1..Len(rows) : i \in K <=> rows[i].arm # rows[1].arm
    BY DEF Others
<1> HIDE DEF K, new
<1>5. PICK r : IsKept(r, K, rows, new)
    BY <1>3 DEF HasKept
<1>6. Len(new) \in Nat
    BY <1>3
<1>7. \A m \in 1..Len(new) : r[m] \in K /\ r[m] \in 1..Len(rows) /\ new[m] = rows[r[m]]
    BY <1>2, <1>5 DEF IsKept
<1>8. PlacesHold(occ, s.val) /\ AllPlaced(s, rows, occ)
    BY DEF Carries
<1>9. AllPlaced(s, new, occ)
    <2>1. ASSUME NEW m \in 1..Len(new)
          PROVE  /\ new[m].arm \in DOMAIN s.home
                 /\ \A k \in 1..Len(new[m].pats) : IsPlaced(s, HomeOf(s, new[m]), new[m].pats[k], k, occ)
        BY <1>7, <1>8 DEF AllPlaced
    <2> QED BY <2>1 DEF AllPlaced
<1>10. ASSUME NEW m \in 1..Len(new), IsFirst(new, occ, m, s.val), NEW b \in BindingsOf(s, new[m].arm)
       PROVE  Accounted(s, new, occ, e2, m, b)
    <2> DEFINE h == HomeOf(s, new[m])
               i == r[m]
    <2>1. i \in K /\ i \in 1..Len(rows) /\ new[m] = rows[i]
        BY <1>7
    <2>2. IsFirst(rows, occ, i, s.val)
        <3>1. \A j \in K : rows[j].arm = rows[j].arm
            OBVIOUS
        <3>2. \A j \in K : FitsAt(rows[j], occ, s.val) <=> FitsAt(rows[j], occ, s.val)
            OBVIOUS
        <3>3. \A j \in 1..Len(rows) : FitsAt(rows[j], occ, s.val) /\ rows[j].arm = rows[r[m]].arm => j \in K
            BY <1>4, <2>1
        <3> QED BY <1>1, <1>2, <1>5, <1>6, <1>10, <3>1, <3>2, <3>3, KeptFirst
    <2>3. Accounted(s, rows, occ, e, i, b)
        BY <1>10, <2>1, <2>2 DEF Carries
    <2>4. Loose(s, h, b[1]) \/ Pending(new[m], occ, s.val, b) \/ (IsBound(e, h, b) /\ Unnamed(s, rows, h, b[1]))
        BY <2>1, <2>3 DEF Accounted
    <2>5. ASSUME IsBound(e, h, b), Unnamed(s, rows, h, b[1])
          PROVE  IsBound(e2, h, b) /\ Unnamed(s, new, h, b[1])
        <3> HIDE DEF h
        <3>1. IsBound(e2, h, b)
            BY <2>5, ArmKeeps
        <3>2. ASSUME NEW n \in 1..Len(new), HomeOf(s, new[n]) = h, NEW k \in 1..Len(new[n].pats), HasName(new[n].pats[k], b[1])
              PROVE  FALSE
            <4>1. r[n] \in 1..Len(rows) /\ new[n] = rows[r[n]]
                BY <1>7
            <4> QED BY <2>5, <3>2, <4>1 DEF Unnamed
        <3>3. Unnamed(s, new, h, b[1])
            BY <3>2 DEF Unnamed
        <3> QED BY <3>1, <3>3
    <2> HIDE DEF e2
    <2> QED BY <2>4, <2>5 DEF Accounted
<1> HIDE DEF e2
<1>11. Carries(s, new, occ, e2)
    BY <1>8, <1>9, <1>10 DEF Carries
<1> QED BY <1>11 DEF new, e2

-----------------------------------------------------------------------------
(* What running a node that Compile made leads to, for the variables. *)
BoundNode(nd, s, e) ==
    \/ \E rows, occ : IsGood(rows, occ) /\ Carries(s, rows, occ, e) /\ nd = Compile[<<rows, occ>>]
    \/ nd = leaf("fail")
    \/ nd.n = "arm" /\ DOMAIN nd.binds = {} /\ ArmBound(s, nd.arm, e)

\* ... with the first patterns opened.
BoundRows(rows, occ, s, e) == IsGood(rows, occ) /\ NoneOr(rows, occ) /\ Carries(s, rows, occ, e)

LEMMA BoundCases ==
    ASSUME NEW nd, NEW s, NEW e, BoundNode(nd, s, e)
    PROVE  \/ \E rows, occ : BoundRows(rows, occ, s, e) /\ IsNodeOf(nd, rows, occ)
           \/ nd = leaf("fail")
           \/ nd.n = "arm" /\ DOMAIN nd.binds = {} /\ ArmBound(s, nd.arm, e)
<1>1. ASSUME NEW rows, NEW occ, IsGood(rows, occ), Carries(s, rows, occ, e), nd = Compile[<<rows, occ>>]
      PROVE  \E new, places : BoundRows(new, places, s, e) /\ IsNodeOf(nd, new, places)
    <2> DEFINE E == Expanded(rows)
    <2>1. IsGood(E, occ) /\ NoneOr(E, occ)
        BY <1>1, ExpandedGood
    <2>2. Carries(s, E, occ, e)
        BY <1>1, OpenedCarries
    <2>3. IsNodeOf(nd, E, occ)
        BY <1>1, NodeIs
    <2> HIDE DEF E
    <2>4. BoundRows(E, occ, s, e)
        BY <2>1, <2>2 DEF BoundRows
    <2> QED BY <2>3, <2>4
<1>2. CASE \E rows, occ : IsGood(rows, occ) /\ Carries(s, rows, occ, e) /\ nd = Compile[<<rows, occ>>]
    BY <1>1, <1>2
<1> QED BY <1>2, Zenon DEF BoundNode

\* A node that binds nothing leaves the variables.
LEMMA BindsNothing ==
    ASSUME NEW s, NEW e, NEW binds, DOMAIN binds = {}, NEW i, NEW b, IsBound(e, i, b)
    PROVE  IsBound(BindTo(s, e, binds), i, b)
<1> DEFINE bound == {KeyAt(s, binds, k) : k \in DOMAIN binds}
           Place(x) == binds[Max({k \in DOMAIN binds : KeyAt(s, binds, k) = x})][3]
           f == [x \in bound \cup DOMAIN e |-> IF x \in bound THEN ValueAt(Place(x), s.val) ELSE e[x]]
           y == <<i, b[1]>>
<1>1. bound = {}
    OBVIOUS
<1>2. BindTo(s, e, binds) = f
    BY Zenon DEF BindTo
<1> HIDE DEF bound, Place
<1>3. y \in DOMAIN e /\ e[y] = b[2]
    BY DEF IsBound
<1> HIDE DEF y
<1>4. y \in DOMAIN f /\ f[y] = b[2]
    BY <1>1, <1>3
<1> HIDE DEF f
<1> QED BY <1>2, <1>4 DEF IsBound, y

LEMMA BoundArm ==
    ASSUME NEW nd, NEW s, Scoped(s), NEW e, BoundNode(nd, s, e), nd.n = "arm"
    PROVE  ArmBound(s, nd.arm, BindTo(s, e, nd.binds))
<1>1. ASSUME NEW rows, NEW occ, BoundRows(rows, occ, s, e), IsNodeOf(nd, rows, occ)
      PROVE  ArmBound(s, nd.arm, BindTo(s, e, nd.binds))
    <2>1. rows # <<>> /\ FirstIsWild(rows, occ) /\ nd = ArmNode(rows[1].arm, BindsOf(rows, occ))
        BY <1>1 DEF IsNodeOf, leaf, GuardNode, SwitchNode, GotoNode
    <2>2. nd.arm = rows[1].arm /\ nd.binds = BindsOf(rows, occ)
        BY <2>1 DEF ArmNode
    <2>3. IsGood(rows, occ) /\ Carries(s, rows, occ, e)
        BY <1>1 DEF BoundRows
    <2>4. ArmBound(s, rows[1].arm, BindTo(s, e, BindsOf(rows, occ)))
        BY <2>1, <2>3, FirstBound
    <2> QED BY <2>2, <2>4
<1>2. ASSUME DOMAIN nd.binds = {}, ArmBound(s, nd.arm, e)
      PROVE  ArmBound(s, nd.arm, BindTo(s, e, nd.binds))
    <2>1. \A i, b : IsBound(e, i, b) => IsBound(BindTo(s, e, nd.binds), i, b)
        BY <1>2, BindsNothing
    <2> QED BY <1>2, <2>1 DEF ArmBound
<1>3. nd # leaf("fail")
    BY DEF leaf
<1> QED BY <1>1, <1>2, <1>3, BoundCases, Zenon

LEMMA BoundGuard ==
    ASSUME NEW nd, NEW s, Scoped(s), NEW e, BoundNode(nd, s, e), nd.n = "guard"
    PROVE  ArmBound(s, nd.arm, BindTo(s, e, nd.binds)) /\ BoundNode(nd.fail, s, BindTo(s, e, nd.binds))
<1>1. nd # leaf("fail") /\ nd.n # "arm"
    BY DEF leaf
<1>2. PICK rows, occ : BoundRows(rows, occ, s, e) /\ IsNodeOf(nd, rows, occ)
    BY <1>1, BoundCases, Zenon
<1>3. rows # <<>> /\ FirstIsWild(rows, occ) /\ nd = GuardNode(rows, occ)
    BY <1>2 DEF IsNodeOf, leaf, ArmNode, SwitchNode, GotoNode
<1>4. nd.arm = rows[1].arm /\ nd.fail = FailOf(Compile, rows, occ) /\ nd.binds = BindsOf(rows, occ)
    BY <1>3 DEF GuardNode
<1>5. IsGood(rows, occ) /\ Carries(s, rows, occ, e)
    BY <1>2 DEF BoundRows
<1>6. ArmBound(s, rows[1].arm, BindTo(s, e, BindsOf(rows, occ)))
    BY <1>3, <1>5, FirstBound
<1> DEFINE new == OtherArms(rows, rows[1].arm)
           e2 == BindTo(s, e, BindsOf(rows, occ))
<1>7. Carries(s, new, occ, e2)
    BY <1>3, <1>5, OthersCarries
<1>8. IsGood(new, occ)
    BY <1>3, <1>5, OthersGood
<1>9. nd.fail = Compile[<<new, occ>>]
    BY <1>4 DEF FailOf
<1> HIDE DEF new, e2
<1>10. BoundNode(nd.fail, s, e2)
    BY <1>7, <1>8, <1>9 DEF BoundNode
<1> QED BY <1>4, <1>6, <1>10 DEF e2

LEMMA BoundUnder ==
    ASSUME NEW rows, NEW occ, NEW c, AtColumn(rows, occ, c), NEW s, Scoped(s), NEW e, Carries(s, rows, occ, e),
           NEW key \in KeysAt(rows, c), key.tag = ValueAt(occ[c], s.val).tag
    PROVE  BoundNode(CasesOf(Compile, rows, occ, c)[key], s, BindTo(s, e, BindsAt(rows, occ, c)))
<1> DEFINE new == SpecializedRows(rows, c, key)
           places == SpecializedPlaces(rows, occ, c, key)
           nd == CasesOf(Compile, rows, occ, c)[key]
           e2 == BindTo(s, e, BindsAt(rows, occ, c))
           o == Min(Hits(rows, c, key))
<1>1. nd = Compile[<<new, places>>]
    BY DEF CasesOf, UnderOf
<1>2. IsKeyAt(rows, occ, c, key)
    BY UnderKey
<1>3. CASE IsUnder(rows, occ, c, key)
    <2>1. IsGood(new, places)
        BY <1>3 DEF IsUnder
    <2>2. Carries(s, new, places, e2)
        BY <1>2, <1>3, UnderCarries
    <2> HIDE DEF new, places, nd, e2
    <2>3. BoundNode(nd, s, e2)
        BY <1>1, <2>1, <2>2 DEF BoundNode
    <2> QED BY <2>3 DEF nd, e2
<1>4. CASE IsSettled(rows, occ, c, key) /\ KindAt(occ, c) = "ctor"
    <2>1. nd.n = "arm" /\ nd.arm = rows[o].arm /\ DOMAIN nd.binds = {}
        BY <1>1, <1>4, SettledCompiles
    <2>2. ArmBound(s, rows[o].arm, e2)
        BY <1>2, <1>4, SettledBound
    <2> HIDE DEF nd, e2, o
    <2>3. BoundNode(nd, s, e2)
        BY <2>1, <2>2 DEF BoundNode
    <2> QED BY <2>3 DEF nd, e2
<1> QED BY <1>3, <1>4, UnderKey

LEMMA BoundSwitch ==
    ASSUME NEW nd, NEW s, Scoped(s), NEW e, BoundNode(nd, s, e), nd.n = "switch"
    PROVE  LET w == ValueAt(nd.place, s.val)
           IN  /\ \A key \in DOMAIN nd.cases : key.tag = w.tag => BoundNode(nd.cases[key], s, BindTo(s, e, nd.binds))
               /\ (\A key \in DOMAIN nd.cases : key.tag # w.tag) => BoundNode(nd.default, s, BindTo(s, e, nd.binds))
<1>1. nd # leaf("fail") /\ nd.n # "arm"
    BY DEF leaf
<1>2. PICK rows, occ : BoundRows(rows, occ, s, e) /\ IsNodeOf(nd, rows, occ)
    BY <1>1, BoundCases, Zenon
<1>3. PICK c : AtColumn(rows, occ, c) /\ TestedKeys(rows, c) # {} /\ nd = SwitchNode(rows, occ, c)
    BY <1>2 DEF IsNodeOf, leaf, ArmNode, GuardNode, GotoNode
<1>4. /\ nd.place = occ[c] /\ nd.default = DefaultOf(Compile, rows, occ, c) /\ nd.binds = BindsAt(rows, occ, c)
      /\ nd.cases = CasesOf(Compile, rows, occ, c)
    BY <1>3 DEF SwitchNode
<1>5. DOMAIN nd.cases = KeysAt(rows, c) /\ KeysAt(rows, c) = TestedKeys(rows, c)
    BY <1>3, <1>4, KeysFacts DEF CasesOf
<1>6. Carries(s, rows, occ, e)
    BY <1>2 DEF BoundRows
<1> DEFINE e2 == BindTo(s, e, BindsAt(rows, occ, c))
<1>7. \A key \in DOMAIN nd.cases : key.tag = ValueAt(nd.place, s.val).tag => BoundNode(nd.cases[key], s, e2)
    BY <1>3, <1>4, <1>5, <1>6, BoundUnder
<1>8. ASSUME \A key \in DOMAIN nd.cases : key.tag # ValueAt(nd.place, s.val).tag
      PROVE  BoundNode(nd.default, s, e2)
    <2> DEFINE new == DefaultRows(rows, c)
               places == RemoveAt(occ, c)
    <2>1. \A key \in TestedKeys(rows, c) : key.tag # ValueAt(occ[c], s.val).tag
        BY <1>4, <1>5, <1>8
    <2>2. Carries(s, new, places, e2)
        BY <1>3, <1>6, <2>1, DefaultCarries
    <2>3. IsGood(new, places)
        BY <1>3, DefaultGood
    <2>4. nd.default = IF new = <<>> THEN leaf("fail") ELSE Compile[<<new, places>>]
        BY <1>4 DEF DefaultOf
    <2> HIDE DEF new, places, e2
    <2> QED BY <2>2, <2>3, <2>4 DEF BoundNode
<1> HIDE DEF e2
<1>9. BindTo(s, e, nd.binds) = e2
    BY <1>4 DEF e2
<1> QED BY <1>7, <1>8, <1>9

LEMMA BoundGoto ==
    ASSUME NEW nd, NEW s, Scoped(s), NEW e, BoundNode(nd, s, e), nd.n = "goto"
    PROVE  BoundNode(nd.next, s, BindTo(s, e, nd.binds))
<1>1. nd # leaf("fail") /\ nd.n # "arm"
    BY DEF leaf
<1>2. PICK rows, occ : BoundRows(rows, occ, s, e) /\ IsNodeOf(nd, rows, occ)
    BY <1>1, BoundCases, Zenon
<1>3. PICK c : AtColumn(rows, occ, c) /\ TestedKeys(rows, c) = {} /\ nd = GotoNode(rows, occ, c)
    BY <1>2 DEF IsNodeOf, leaf, ArmNode, GuardNode, SwitchNode
<1> DEFINE key == ChosenKey(rows, c)
<1>4. nd.next = CasesOf(Compile, rows, occ, c)[key] /\ nd.binds = BindsAt(rows, occ, c)
    BY <1>3 DEF GotoNode
<1>5. Carries(s, rows, occ, e)
    BY <1>2 DEF BoundRows
<1>6. key \in KeysAt(rows, c) /\ KindAt(occ, c) \in {"tuple", "struct"}
    BY <1>3, KeysFacts
<1>7. key.tag \in Tags(occ[c].type)
    BY <1>3, <1>6, KeysFacts DEF IsKeyAt
<1>8. /\ ValueAt(occ[c], s.val) \in Inhabitants[occ[c].type] /\ occ[c].type \in TypeNames
    BY <1>3, <1>5, ColumnValue DEF Carries
<1>9. ValueAt(occ[c], s.val).tag \in Tags(occ[c].type)
    BY <1>8, TypeAssumption
<1>10. PICK x : Tags(occ[c].type) = {x}
    BY <1>6, <1>8, TypeAssumption DEF KindAt
<1>11. key.tag = ValueAt(occ[c], s.val).tag
    BY <1>7, <1>9, <1>10
<1> HIDE DEF key
<1>12. BoundNode(CasesOf(Compile, rows, occ, c)[key], s, BindTo(s, e, BindsAt(rows, occ, c)))
    BY <1>3, <1>5, <1>6, <1>11, BoundUnder
<1> QED BY <1>4, <1>12

-----------------------------------------------------------------------------
(* The variables of the arms of the match. *)

ScopeOf(v) ==
    [val |-> v, pats |-> [a \in DOMAIN ExpandedArms |-> ExpandedArms[a].pat], home |-> Owners,
     whole |-> [i \in DOMAIN arms |-> arms[i].pat]]
Scope == ScopeOf(val)

LEMMA ScopeFacts ==
    ASSUME NEW v
    PROVE  LET s == ScopeOf(v)
           IN  /\ s.val = v /\ s.home = Owners
               /\ \A a \in DOMAIN ExpandedArms : s.pats[a] = ExpandedArms[a].pat
               /\ \A i \in DOMAIN arms : s.whole[i] = arms[i].pat
BY DEF ScopeOf

\* The arms of a match, split, with the arm each is of.
LEMMA OwnersKnown ==
    ASSUME MTypeInv, mode = "match"
    PROVE  /\ TypedArms(arms, ty) /\ arms \in Seq(ArmSet) /\ DOMAIN arms = 1..Len(arms)
           /\ ExpandedArms \in Seq(ArmSet) /\ DOMAIN ExpandedArms = 1..Len(ExpandedArms)
           /\ Owners \in Seq(Nat) /\ DOMAIN Owners = 1..Len(ExpandedArms)
           /\ SplitsTo(Owners, ExpandedArms, arms)
<1>1. TypedArms(arms, ty) /\ ExpandedArms \in Seq(ArmSet) /\ DOMAIN ExpandedArms = 1..Len(ExpandedArms)
    BY ArmsKnown DEF ArmsSplit
<1>2. arms \in Seq(ArmSet)
    BY <1>1 DEF TypedArms
<1>3. ExpandedArms = AllSplit(arms)
    BY Zenon DEF ExpandedArms, AllSplit
<1>4. Owners = SplitFrom(arms)
    BY Zenon DEF Owners, SplitFrom
<1>5. Owners \in Seq(Nat) /\ Len(Owners) = Len(ExpandedArms) /\ SplitsTo(Owners, ExpandedArms, arms)
    BY <1>2, <1>3, <1>4, AllSplitFacts
<1>6. \A x : x \in Seq(Nat) => DOMAIN x = 1..Len(x)
    OBVIOUS
<1>7. \A x : x \in Seq(ArmSet) => DOMAIN x = 1..Len(x)
    OBVIOUS
<1>8. DOMAIN Owners = 1..Len(ExpandedArms)
    BY <1>5, <1>6
<1> QED BY <1>1, <1>2, <1>5, <1>7, <1>8

\* What an arm owes to the arm it was split from.
LEMMA OwnerIs ==
    ASSUME MTypeInv, mode = "match", NEW a \in 1..Len(ExpandedArms)
    PROVE  /\ Owners[a] \in Nat /\ Owners[a] # 0 /\ Owners[a] \in DOMAIN arms
           /\ Narrower(ExpandedArms[a].pat, arms[Owners[a]].pat)
           /\ ExpandedArms[a].pat \in Pats
<1>1. arms \in Seq(ArmSet) /\ DOMAIN arms = 1..Len(arms)
    BY OwnersKnown
<1>2. SplitsTo(Owners, ExpandedArms, arms)
    BY OwnersKnown
<1>3. Owners[a] \in 1..Len(arms) /\ Narrower(ExpandedArms[a].pat, arms[Owners[a]].pat)
    BY <1>2, Zenon DEF SplitsTo
<1>4. Len(arms) \in Nat
    BY <1>1
<1> QED BY <1>1, <1>3, <1>4 DEF Narrower

LEMMA ScopeIsScoped ==
    ASSUME MTypeInv, mode = "match", OnePlace, NEW v \in AllValues
    PROVE  Scoped(ScopeOf(v))
<1> DEFINE s == ScopeOf(v)
           D == 1..Len(ExpandedArms)
<1>1. s.val = v /\ s.home = Owners /\ \A i \in DOMAIN arms : s.whole[i] = arms[i].pat
    BY ScopeFacts
<1>2. DOMAIN Owners = D /\ SplitsTo(Owners, ExpandedArms, arms)
    BY OwnersKnown
<1>3. \A a \in D : Owners[a] \in Nat /\ Owners[a] # 0 /\ Owners[a] \in DOMAIN arms
    BY OwnerIs
<1>4. \A a, b \in D : a < b => Owners[a] <= Owners[b]
    BY <1>2, Zenon DEF SplitsTo
<1>5. \A a, b \in D : a <= b => Owners[a] <= Owners[b]
    <2> SUFFICES ASSUME NEW a \in D, NEW b \in D, a <= b PROVE Owners[a] <= Owners[b]
        OBVIOUS
    <2>1. a = b \/ a < b
        OBVIOUS
    <2> HIDE DEF D
    <2> QED BY <1>3, <1>4, <2>1
<1> HIDE DEF s, D
<1>6. \A i \in DOMAIN arms : \A o, r \in Standing[s.whole[i]] :
        Names(o[2]) /\ Names(r[2]) /\ o[2].x = r[2].x => o[1] = r[1]
    BY <1>1 DEF OnePlace
<1>7. \A a \in DOMAIN s.home : s.home[a] \in Nat /\ s.home[a] # 0
    BY <1>1, <1>2, <1>3
<1>8. \A a, b \in DOMAIN s.home : a <= b => s.home[a] <= s.home[b]
    BY <1>1, <1>2, <1>5
<1>9. \A a \in DOMAIN s.home : s.home[a] \in DOMAIN arms
    BY <1>1, <1>2, <1>3
<1>10. s.val \in AllValues
    BY <1>1
<1>11. Scoped(s)
    BY <1>6, <1>7, <1>8, <1>9, <1>10, Zenon DEF Scoped
<1> QED BY <1>11 DEF s

\* At the root nothing is bound and everything is still to come.
LEMMA RootCarries ==
    ASSUME MTypeInv, mode = "match", NEW v \in Inhabitants[ty], NEW e
    PROVE  Carries(ScopeOf(v), RowsOf(ExpandedArms), <<RootOf(ty)>>, e)
<1> DEFINE s == ScopeOf(v)
           E == ExpandedArms
           R == RowsOf(E)
           occ == <<RootOf(ty)>>
<1>1. E \in Seq(ArmSet) /\ ty \in TypeNames
    BY OwnersKnown DEF TypedArms
<1>2. s.val = v /\ s.home = Owners /\ DOMAIN Owners = 1..Len(E)
    BY OwnersKnown, ScopeFacts
<1>3. \A a \in 1..Len(E) : s.pats[a] = E[a].pat
    BY OwnersKnown, ScopeFacts
<1>4. \A a \in 1..Len(E) :
        /\ Owners[a] \in DOMAIN arms /\ E[a].pat \in Pats /\ s.whole[Owners[a]] = arms[Owners[a]].pat
        /\ Standing[E[a].pat] \subseteq Standing[arms[Owners[a]].pat]
    BY OwnerIs, ScopeFacts DEF Narrower
<1>5. v \in AllValues
    BY <1>1 DEF AllValues
<1>6. PlacesHold(occ, v)
    BY <1>1, RootFits
<1>7. Len(occ) = 1 /\ occ[1] = RootOf(ty) /\ ValueAt(RootOf(ty), v) = v /\ RootOf(ty).path = <<>>
    BY <1>1, <1>5, RootPlace DEF RootOf
<1>8. Len(R) = Len(E) /\ \A m \in 1..Len(E) : R[m].arm = m /\ Len(R[m].pats) = 1 /\ R[m].pats[1] = E[m].pat
    BY <1>1, RowsOfFacts
<1> HIDE DEF R, occ, s, E
<1>9. ASSUME NEW m \in 1..Len(R)
      PROVE  /\ R[m].arm \in DOMAIN s.home
             /\ \A k \in 1..Len(R[m].pats) : IsPlaced(s, HomeOf(s, R[m]), R[m].pats[k], k, occ)
    <2>1. m \in 1..Len(E) /\ R[m].arm = m /\ Len(R[m].pats) = 1 /\ R[m].pats[1] = E[m].pat
        BY <1>8
    <2>2. HomeOf(s, R[m]) = Owners[m]
        BY <1>2, <2>1 DEF HomeOf
    <2>3. Stands(s, Owners[m], <<>>, E[m].pat)
        <3> DEFINE p == E[m].pat
                   w == s.whole[Owners[m]]
        <3>1. p \in Pats /\ Standing[p] \subseteq Standing[w]
            BY <1>4, <2>1
        <3> HIDE DEF p, w
        <3>2. ASSUME NEW o \in Standing[p]
              PROVE  <<<<>> \o o[1], o[2]>> \in Standing[w]
            <4>1. o \in Seq(Steps) \X Pats
                BY <3>1, StandingType
            <4>2. o = <<o[1], o[2]>> /\ <<>> \o o[1] = o[1]
                BY <4>1, ConcatEmptySeq
            <4> QED BY <3>1, <4>2
        <3> QED BY <3>2, Zenon DEF Stands, p, w
    <2>4. IsPlaced(s, Owners[m], E[m].pat, 1, occ)
        <3>1. 1 \in 1..Len(occ) /\ Stands(s, Owners[m], occ[1].path, E[m].pat)
            BY <1>7, <2>3
        <3> QED BY <3>1 DEF IsPlaced
    <2>5. m \in DOMAIN s.home
        BY <1>2, <2>1
    <2>6. \A k \in 1..1 : k = 1
        OBVIOUS
    <2> QED BY <2>1, <2>2, <2>4, <2>5, <2>6, Zenon
<1>10. AllPlaced(s, R, occ)
    BY <1>9, Zenon DEF AllPlaced
<1>11. ASSUME NEW m \in 1..Len(R), NEW b \in BindingsOf(s, R[m].arm)
       PROVE  Accounted(s, R, occ, e, m, b)
    <2>1. m \in 1..Len(E) /\ R[m].arm = m /\ R[m].pats[1] = E[m].pat /\ s.pats[m] = E[m].pat
        BY <1>3, <1>8
    <2>2. b \in Bindings[<<E[m].pat, v>>]
        BY <1>2, <2>1 DEF BindingsOf
    <2>3. b \in Bindings[<<R[m].pats[1], ValueAt(occ[1], s.val)>>]
        BY <1>2, <1>7, <2>1, <2>2
    <2>4. 1 \in 1..Len(occ)
        BY <1>7
    <2>5. Pending(R[m], occ, s.val, b)
        BY <2>3, <2>4, Zenon DEF Pending
    <2> QED BY <2>5, Zenon DEF Accounted
<1>12. Carries(s, R, occ, e)
    BY <1>2, <1>6, <1>10, <1>11, Zenon DEF Carries
<1> QED BY <1>12 DEF s, R, occ, E

LEMMA RootBound ==
    ASSUME MTypeInv, mode = "match", InStep, NEW v \in Values, NEW e
    PROVE  BoundNode(Compile[<<Rows, <<Root>>>>], ScopeOf(v), e)
<1> DEFINE R == RowsOf(ExpandedArms)
           occ == <<RootOf(ty)>>
           s == ScopeOf(v)
<1>1. TypedArms(arms, ty) /\ SplitsTo(Owners, ExpandedArms, arms)
    BY OwnersKnown
<1>2. IsGood(R, occ)
    BY <1>1, RootGood
<1>3. v \in Inhabitants[ty]
    BY DEF Values
<1>4. Carries(s, R, occ, e)
    BY <1>3, RootCarries
<1>5. Rows = R /\ Root = RootOf(ty)
    BY Zenon DEF Rows, RowsOf, Root, RootOf
<1> HIDE DEF R, s
<1>6. BoundNode(Compile[<<R, occ>>], s, e)
    <2> HIDE DEF occ
    <2> QED BY <1>2, <1>4, Zenon DEF BoundNode
<1> QED BY <1>5, <1>6 DEF s

-----------------------------------------------------------------------------
(* The variables as the tree runs. *)

EnvInv ==
    mode = "match" /\ InStep /\ OnePlace /\ node.n # "none" =>
        /\ out = <<"none">> => BoundNode(node, Scope, env)
        /\ \A a : out = <<"arm", a>> => ArmBound(Scope, a, env)
BInv == MInv /\ EnvInv

LEMMA SameScope ==
    ASSUME mode' = mode, arms' = arms
    PROVE  Scope' = ScopeOf(val') /\ (OnePlace' <=> OnePlace)
<1>1. ExpandedArms' = ExpandedArms /\ Owners' = Owners
    BY Zenon DEF ExpandedArms, Owners
<1>2. Scope' = ScopeOf(val')
    <2> DEFINE v == val'
    <2>1. (ScopeOf(val))' = ScopeOf(v)
        BY <1>1 DEF ScopeOf
    <2> QED BY <2>1 DEF Scope
<1>3. OnePlace' <=> OnePlace
    BY DEF OnePlace
<1> QED BY <1>2, <1>3

LEMMA BindIs ==
    ASSUME NEW binds, Bind(binds)
    PROVE  env' = BindTo(Scope, env, binds)
<1>1. Scope.val = val /\ Scope.home = Owners
    BY ScopeFacts DEF Scope
<1> DEFINE s == Scope
           key(k) == <<Owners[binds[k][1]], binds[k][2]>>
<1>2. \A k : KeyAt(s, binds, k) = key(k)
    BY <1>1 DEF KeyAt
<1> QED BY <1>1, <1>2, Zenon DEF Bind, BindTo, KeyAt

\* While the tree runs its value is one of the type, and the scope is right.
LEMMA InScope ==
    ASSUME MInv, mode = "match", InStep, OnePlace, node.n # "none"
    PROVE  Scoped(Scope) /\ val \in Values /\ Scope.val = val
<1>1. MTypeInv /\ val \in Values
    BY DEF MInv, RunInv
<1>2. ty \in TypeNames
    BY <1>1, OwnersKnown DEF TypedArms
<1>3. val \in AllValues
    BY <1>1, <1>2 DEF Values, AllValues
<1> QED BY <1>1, <1>3, ScopeIsScoped, ScopeFacts DEF Scope

\* A step of the tree, from a node that is right for the variables.
LEMMA EnvStep ==
    ASSUME BInv, Static, out = <<"none">>, node.n # "none",
           mode = "match" /\ InStep /\ OnePlace /\ Scoped(Scope) /\ BoundNode(node, Scope, env) =>
              /\ out' = <<"none">> => BoundNode(node', Scope, env')
              /\ \A a : out' = <<"arm", a>> => ArmBound(Scope, a, env')
    PROVE  EnvInv'
<1>1. mode' = mode /\ ty' = ty /\ arms' = arms /\ val' = val
    BY DEF Static
<1>2. Scope' = Scope /\ (OnePlace' <=> OnePlace) /\ (InStep' <=> InStep)
    BY <1>1, SameScope, SameArmsStep DEF Scope
<1>3. mode = "match" /\ InStep /\ OnePlace => Scoped(Scope) /\ BoundNode(node, Scope, env)
    BY InScope DEF BInv, EnvInv
<1> QED BY <1>1, <1>2, <1>3, Zenon DEF EnvInv

LEMMA NotBoth == \A a : <<"none">> # <<"arm", a>>
OBVIOUS

LEMMA AtArmBinds ==
    ASSUME BInv, AtArm
    PROVE  EnvInv'
<1>1. /\ out = <<"none">> /\ node.n = "arm" /\ Static /\ node' = node /\ Bind(node.binds)
      /\ mode = "match" => out' = <<"arm", node.arm>>
    BY DEF AtArm, RunningAt
<1>2. ASSUME mode = "match", InStep, OnePlace, Scoped(Scope), BoundNode(node, Scope, env)
      PROVE  /\ out' = <<"none">> => BoundNode(node', Scope, env')
             /\ \A a : out' = <<"arm", a>> => ArmBound(Scope, a, env')
    <2>1. env' = BindTo(Scope, env, node.binds)
        BY <1>1, BindIs
    <2>2. ArmBound(Scope, node.arm, env')
        BY <1>1, <1>2, <2>1, BoundArm
    <2>3. \A a : <<"arm", node.arm>> = <<"arm", a>> => a = node.arm
        OBVIOUS
    <2> QED BY <1>1, <1>2, <2>2, <2>3, NotBoth
<1>3. node.n # "none"
    BY <1>1
<1> QED BY <1>1, <1>2, <1>3, EnvStep, Zenon

LEMMA GuardTrueBinds ==
    ASSUME BInv, GuardTrue
    PROVE  EnvInv'
<1>1. out = <<"none">> /\ node.n = "guard" /\ Static /\ Bind(node.binds) /\ out' = <<"arm", node.arm>>
    BY DEF GuardTrue, RunningAt
<1>2. ASSUME mode = "match", InStep, OnePlace, Scoped(Scope), BoundNode(node, Scope, env)
      PROVE  /\ out' = <<"none">> => BoundNode(node', Scope, env')
             /\ \A a : out' = <<"arm", a>> => ArmBound(Scope, a, env')
    <2>1. env' = BindTo(Scope, env, node.binds)
        BY <1>1, BindIs
    <2>2. ArmBound(Scope, node.arm, env')
        BY <1>1, <1>2, <2>1, BoundGuard
    <2>3. \A a : <<"arm", node.arm>> = <<"arm", a>> => a = node.arm
        OBVIOUS
    <2> QED BY <1>1, <2>2, <2>3, NotBoth
<1>3. node.n # "none"
    BY <1>1
<1> QED BY <1>1, <1>2, <1>3, EnvStep, Zenon

LEMMA GuardFalseBinds ==
    ASSUME BInv, GuardFalse
    PROVE  EnvInv'
<1>1. out = <<"none">> /\ node.n = "guard" /\ Static /\ Bind(node.binds) /\ out' = out /\ node' = node.fail
    BY DEF GuardFalse, RunningAt
<1>2. ASSUME mode = "match", InStep, OnePlace, Scoped(Scope), BoundNode(node, Scope, env)
      PROVE  /\ out' = <<"none">> => BoundNode(node', Scope, env')
             /\ \A a : out' = <<"arm", a>> => ArmBound(Scope, a, env')
    <2>1. env' = BindTo(Scope, env, node.binds)
        BY <1>1, BindIs
    <2>2. BoundNode(node.fail, Scope, env')
        BY <1>1, <1>2, <2>1, BoundGuard
    <2> QED BY <1>1, <2>2, NotBoth
<1>3. node.n # "none"
    BY <1>1
<1> QED BY <1>1, <1>2, <1>3, EnvStep, Zenon

\* What is switched on is no junk, so one way is taken.
LEMMA SwitchBinds ==
    ASSUME BInv, Switch
    PROVE  EnvInv'
<1> DEFINE w == ValueAt(node.place, val)
           hits == {key \in DOMAIN node.cases : key.tag = w.tag \/ w = Junk}
<1>1. /\ out = <<"none">> /\ node.n = "switch" /\ Static /\ Bind(node.binds) /\ out' = out
      /\ \/ \E key \in hits : node' = node.cases[key]
         \/ (hits = {} \/ w = Junk) /\ node' = node.default
    BY DEF Switch, RunningAt
<1>3. node.n # "none"
    BY <1>1
<1>2. ASSUME mode = "match", InStep, OnePlace, Scoped(Scope), BoundNode(node, Scope, env)
      PROVE  /\ out' = <<"none">> => BoundNode(node', Scope, env')
             /\ \A a : out' = <<"arm", a>> => ArmBound(Scope, a, env')
    <2>1. env' = BindTo(Scope, env, node.binds)
        BY <1>1, BindIs
    <2>2. RightNode(node, View) /\ View.val = val /\ Scope.val = val
        BY <1>1, <1>2, <1>3, Running, ViewFacts, ScopeFacts DEF BInv, View, Scope
    <2>3. w # Junk
        BY <1>1, <2>2, RightSwitch
    <2> DEFINE s == Scope
               e == env'
    <2>4. /\ \A key \in DOMAIN node.cases : key.tag = w.tag => BoundNode(node.cases[key], s, e)
          /\ (\A key \in DOMAIN node.cases : key.tag # w.tag) => BoundNode(node.default, s, e)
        BY <1>1, <1>2, <2>1, <2>2, BoundSwitch
    <2> HIDE DEF w, s, e
    <2>5. BoundNode(node', s, e)
        BY <1>1, <2>3, <2>4
    <2> QED BY <1>1, <2>5, NotBoth DEF s, e
<1> QED BY <1>1, <1>2, <1>3, EnvStep, Zenon

LEMMA GoOnBinds ==
    ASSUME BInv, GoOn
    PROVE  EnvInv'
<1>1. out = <<"none">> /\ node.n = "goto" /\ Static /\ Bind(node.binds) /\ out' = out /\ node' = node.next
    BY DEF GoOn, RunningAt
<1>2. ASSUME mode = "match", InStep, OnePlace, Scoped(Scope), BoundNode(node, Scope, env)
      PROVE  /\ out' = <<"none">> => BoundNode(node', Scope, env')
             /\ \A a : out' = <<"arm", a>> => ArmBound(Scope, a, env')
    <2>1. env' = BindTo(Scope, env, node.binds)
        BY <1>1, BindIs
    <2>2. BoundNode(node.next, Scope, env')
        BY <1>1, <1>2, <2>1, BoundGoto
    <2> QED BY <1>1, <2>2, NotBoth
<1>3. node.n # "none"
    BY <1>1
<1> QED BY <1>1, <1>2, <1>3, EnvStep, Zenon

LEMMA AtLeafBinds ==
    ASSUME BInv, AtLeaf
    PROVE  EnvInv'
<1>1. /\ out = <<"none">> /\ node.n \in {"fail", "unreachable", "orphan"} /\ Static
      /\ out' = <<IF node.n = "fail" /\ mode = "is" THEN "false" ELSE "unreachable">>
    BY DEF AtLeaf
<1>2. out' # <<"none">> /\ \A a : out' # <<"arm", a>>
    BY <1>1
<1>3. node.n # "none"
    BY <1>1
<1> QED BY <1>1, <1>2, <1>3, EnvStep, Zenon

LEMMA LowerBinds ==
    ASSUME BInv, Lower
    PROVE  EnvInv'
<1> DEFINE tree == Compile[<<Rows, <<Root>>>>]
<1>1. /\ node.n = "none" /\ node' = tree
      /\ \/ tree.n = "error"
         \/ tree.n # "error" /\ val' \in Values /\ out' = out
      /\ mode' = mode /\ ty' = ty /\ arms' = arms
    <2> HIDE DEF tree
    <2> QED BY DEF Lower, tree
<1>2. MTypeInv
    BY DEF BInv, MInv
<1> HIDE DEF tree
<1>3. ASSUME mode = "match", InStep, OnePlace
      PROVE  /\ out' = <<"none">> => BoundNode(node', ScopeOf(val'), env')
             /\ \A a : out' # <<"arm", a>>
    <2>1. \A v \in Values : \A ref : RightNode(tree, ViewOf(v, ref))
        BY <1>2, <1>3, RootRight DEF tree
    <2>2. PICK v : v \in Values
        <3>1. ty \in TypeNames
            BY <1>2, ArmsKnown DEF ArmsSplit, TypedArms
        <3> QED BY <3>1, TypeAssumption DEF Values
    <2>3. tree.n # "error"
        <3>1. RightNode(tree, ViewOf(v, {}))
            BY <2>1, <2>2
        <3> QED BY <3>1, RightEnd
    <2>4. val' \in Values /\ out' = out
        BY <1>1, <2>3
    <2>5. out = <<"none">>
        BY <1>1, <1>3 DEF BInv, MInv, RunInv
    <2>6. \A x \in Values : \A e : BoundNode(tree, ScopeOf(x), e)
        BY <1>2, <1>3, RootBound DEF tree
    <2> QED BY <1>1, <2>4, <2>5, <2>6, NotBoth
<1>4. Scope' = ScopeOf(val') /\ (OnePlace' <=> OnePlace) /\ (InStep' <=> InStep)
    BY <1>1, SameScope, SameArmsStep
<1>5. ASSUME mode' = "match", InStep', OnePlace'
      PROVE  /\ out' = <<"none">> => BoundNode(node', Scope', env')
             /\ \A a : out' = <<"arm", a>> => ArmBound(Scope', a, env')
    BY <1>1, <1>3, <1>4, <1>5, Zenon
<1> QED BY <1>5 DEF EnvInv

LEMMA CheckBinds ==
    ASSUME BInv, Check
    PROVE  EnvInv'
<1>1. mode = "match" /\ UNext /\ node' = node
    BY DEF Check
<1>2. verdict = "none"
    BY <1>1 DEF UNext, ArmUnreachable, ArmUseful, Conclude, Looking
<1>3. node.n = "none"
    BY <1>1, <1>2 DEF BInv, MInv
<1> QED BY <1>1, <1>3 DEF EnvInv

LEMMA BInvInit == MInit => BInv
<1>1. MInit => EnvInv
    <2> SUFFICES ASSUME MInit PROVE node.n = "none"
        BY DEF EnvInv
    <2> QED BY DEF MInit, leaf
<1> QED BY <1>1, MInvInit DEF BInv

LEMMA BInvNext == BInv /\ [MNext]_mvars => BInv'
<1> SUFFICES ASSUME BInv, [MNext]_mvars PROVE BInv'
    OBVIOUS
<1>1. MInv'
    BY MInvNext DEF BInv
<1>2. CASE UNCHANGED mvars
    <2>1. mode' = mode /\ ty' = ty /\ arms' = arms /\ val' = val /\ node' = node /\ env' = env /\ out' = out
        BY <1>2 DEF mvars, uvars
    <2>2. Scope' = Scope /\ (OnePlace' <=> OnePlace) /\ (InStep' <=> InStep)
        BY <2>1, SameScope, SameArmsStep DEF Scope
    <2>3. EnvInv'
        BY <2>1, <2>2, Zenon DEF BInv, EnvInv
    <2> QED BY <1>1, <2>3 DEF BInv
<1>3. CASE MNext
    <2>1. EnvInv'
        BY <1>3, CheckBinds, LowerBinds, AtArmBinds, GuardTrueBinds, GuardFalseBinds, SwitchBinds, GoOnBinds, AtLeafBinds
        DEF MNext
    <2> QED BY <1>1, <2>1 DEF BInv
<1> QED BY <1>2, <1>3

\* When the body of an arm runs, each variable of its pattern is bound to
\* the part of the value that it names, but those in whose place a pattern
\* of the arm or of one before makes a test (compile_matrix does not bind
\* these where the column is tested): for all types, patterns and arms that
\* keep rows and places in step and name a part once.
THEOREM BodiesFindTheirVariables == MSpec => []VariablesAreBound
<1>1. BInv => VariablesAreBound
    <2> SUFFICES ASSUME BInv, Reached # 0, mode = "match", InStep, OnePlace,
                        NEW b \in Bindings[<<ExpandedArms[Reached].pat, val>>]
                 PROVE  LET i == Owners[Reached]
                        IN  \/ <<i, b[1]>> \in DOMAIN env /\ env[<<i, b[1]>>] = b[2]
                            \/ \E o \in Standing[arms[i].pat] : o[2].p = "bind" /\ o[2].x = b[1] /\ Tested(i, o[1])
        BY DEF VariablesAreBound
    <2> DEFINE a == Reached
               i == Owners[a]
               s == Scope
    <2>1. ArmRight(a, View) /\ MInv /\ MTypeInv
        BY ReachedIs DEF BInv, MInv
    <2>2. a \in Matched(val)
        BY <2>1, ViewFacts DEF ArmRight, View
    <2>3. a \in 1..Len(ExpandedArms)
        BY <2>1, <2>2, OwnersKnown DEF Matched
    <2>4. out[1] = "arm" /\ a = out[2]
        BY DEF Reached
    <2>5. node.n # "none" /\ Outcome
        BY <2>1, <2>4 DEF MInv, RunInv
    <2>6. out = <<"arm", a>>
        BY <2>4, <2>5 DEF Outcome
    <2>7. ArmBound(s, a, env)
        BY <2>5, <2>6 DEF BInv, EnvInv
    <2>8. s.home[a] = i /\ BindingsOf(s, a) = Bindings[<<ExpandedArms[a].pat, val>>]
        <3>1. a \in DOMAIN ExpandedArms
            BY <2>1, <2>3, OwnersKnown
        <3>2. s.val = val /\ s.home = Owners /\ s.pats[a] = ExpandedArms[a].pat
            BY <3>1, ScopeFacts DEF Scope
        <3> HIDE DEF s, a
        <3>3. s.home[a] = Owners[a]
            BY <3>2
        <3>4. BindingsOf(s, a) = Bindings[<<ExpandedArms[a].pat, val>>]
            BY <3>2, Zenon DEF BindingsOf
        <3> QED BY <3>3, <3>4
    <2>9. Loose(s, i, b[1]) \/ IsBound(env, i, b)
        <3> HIDE DEF a, i, s
        <3>1. b \in BindingsOf(s, a)
            BY <2>8 DEF a
        <3> QED BY <2>7, <2>8, <3>1, Zenon DEF ArmBound
    <2>10. i \in Nat /\ i \in DOMAIN arms /\ DOMAIN arms = 1..Len(arms) /\ Len(arms) \in Nat
        BY <2>1, <2>3, OwnerIs, OwnersKnown
    <2>11. \A j \in 1..i : j \in DOMAIN arms /\ s.whole[j] = arms[j].pat
        <3>1. \A j \in 1..i : j \in DOMAIN arms
            <4> HIDE DEF i
            <4> QED BY <2>10
        <3> QED BY <3>1, ScopeFacts DEF Scope
    <2>12. ASSUME Loose(s, i, b[1])
           PROVE  \E o \in Standing[arms[i].pat] : o[2].p = "bind" /\ o[2].x = b[1] /\ Tested(i, o[1])
        <3> HIDE DEF s, i
        <3>1. i \in 1..i
            BY <2>10
        <3>2. s.whole[i] = arms[i].pat
            BY <2>11, <3>1
        <3>3. \A path : TestedIn(s, i, path) => Tested(i, path)
            BY <2>11, Zenon DEF TestedIn, Tested
        <3> QED BY <2>12, <3>2, <3>3 DEF Loose
    <2> QED BY <2>9, <2>12, Zenon DEF IsBound
<1> QED BY <1>1, BInvInit, BInvNext, PTL DEF MSpec
=============================================================================
