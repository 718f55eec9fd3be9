----------------------------- MODULE Usefulness -----------------------------
(***************************************************************************)
(* The checks of a `match` in leaf_type_checker: each arm must be useful   *)
(* after the ones before it, and a last wildcard must not be               *)
(* (check_match_exhaustiveness).  is_useful is the recursion of the code   *)
(* over rows of patterns.                                                  *)
(***************************************************************************)
EXTENDS Patterns, SequencesExt

CONSTANT MatchExprs   \* the matches given to the checker: a type and a sequence of arms

\* check_pattern has been through the arms.
ASSUME MatchAssumption ==
    \A m \in MatchExprs :
        /\ m[1] \in TypeNames
        /\ m[2] \in Seq([pat : Pats, guard : BOOLEAN])
        /\ \A i \in DOMAIN m[2] : m[1] \in TypesOf[m[2][i].pat]

\* get_ctor_arity, is_same_ctor
Arity(pat) == IF pat.p = "lit" THEN 0 ELSE Len(pat.args)
SameCtor(a, b) ==
    /\ a.p = b.p
    /\ a.tag = b.tag
    /\ a.p = "tuple" => Len(a.args) = Len(b.args)

Wildcards(n) == [i \in 1..n |-> Wildcard]

\* What the code makes of a pattern before it looks at it: the alternatives
\* of an `or` one after the other, and what an alias is for.
Alternatives[pat \in Pats] ==
    IF pat.p = "or" THEN Alternatives[pat.l] \o Alternatives[pat.r]
    ELSE IF pat.p = "alias" THEN Alternatives[pat.q]
    ELSE <<pat>>

\* What is left of a row with this head under ctor: one row or none.
SpecializeHead(head, rest, ctor) ==
    CASE IsWild(head) -> <<Wildcards(Arity(ctor)) \o rest>>
      [] head.p = "tuple" -> IF ctor.p = "tuple" THEN <<head.args \o rest>> ELSE <<>>
      [] head.p \in {"ctor", "struct"} ->
            IF ctor.p = head.p /\ ctor.tag = head.tag THEN <<head.args \o rest>> ELSE <<>>
      [] head.p = "lit" -> IF ctor.p = "lit" /\ ctor.tag = head.tag THEN <<rest>> ELSE <<>>

\* One row for each alternative of the head that is left.
SpecializeRow(row, ctor) ==
    IF row = <<>> THEN <<>>
    ELSE LET alts == Alternatives[row[1]]
         IN  FlattenSeq([k \in DOMAIN alts |-> SpecializeHead(alts[k], Tail(row), ctor)])

\* Faulty: a row that starts with a wildcard is dropped.
SpecializeNoWild(rows, ctor) ==
    FlattenSeq([i \in DOMAIN rows |->
        IF rows[i] # <<>> /\ IsWild(rows[i][1]) THEN <<>> ELSE SpecializeRow(rows[i], ctor)])

Specialize(rows, ctor) == FlattenSeq([i \in DOMAIN rows |-> SpecializeRow(rows[i], ctor)])

DefaultRow(row) ==
    IF row = <<>> THEN <<>>
    ELSE LET alts == Alternatives[row[1]]
         IN  FlattenSeq([k \in DOMAIN alts |-> IF IsWild(alts[k]) THEN <<Tail(row)>> ELSE <<>>])

DefaultMatrix(rows) == FlattenSeq([i \in DOMAIN rows |-> DefaultRow(rows[i])])

\* The constructors of one pattern.
Tests(pat) ==
    LET alts == Alternatives[pat]
    IN  FlattenSeq([k \in DOMAIN alts |-> IF IsWild(alts[k]) THEN <<>> ELSE <<alts[k]>>])

\* The constructors at the head of the rows (get_constructors): those of an
\* alternative or an alias are appended whether they are there or not.
WithHead(seen, row) ==
    IF row = <<>> \/ IsWild(row[1]) THEN seen
    ELSE IF row[1].p \in {"or", "alias"} THEN seen \o Tests(row[1])
    ELSE IF \E i \in DOMAIN seen : SameCtor(seen[i], row[1]) THEN seen
    ELSE Append(seen, row[1])

Constructors(rows) ==
    LET upTo[k \in 0..Len(rows)] == IF k = 0 THEN <<>> ELSE WithHead(upTo[k - 1], rows[k])
    IN  upTo[Len(rows)]

\* Faulty: one constructor is missing and it is not noticed.
AllCoveredButOne(ctors) ==
    ctors # <<>> /\ (ctors[1].p = "ctor" =>
        Len(ctors) >= Cardinality(CHOOSE d \in Decls : ctors[1].tag \in d) - 1)

\* is_all_constructors_covered: counts the constructors of an ADT.
AllCovered(ctors) ==
    /\ ctors # <<>>
    /\ CASE ctors[1].p = "ctor" ->
              Len(ctors) >= Cardinality(CHOOSE d \in Decls : ctors[1].tag \in d)
         [] ctors[1].p \in {"tuple", "struct"} -> TRUE
         [] ctors[1].p = "lit" ->
              {"true", "false"} \subseteq {ctors[i].tag : i \in DOMAIN ctors}

\* is_useful: a call has rows and a vector of patterns.
Calls == Seq(Seq(Pats)) \X Seq(Pats)
UsefulCalls[call \in Calls] ==
    LET rows == call[1]
        q == call[2]
        q1 == q[1]
        rest == Tail(q)
        ctors == Constructors(rows)
    IN  \/ rows = <<>>
        \/ /\ rows # <<>> /\ q # <<>>
           /\ \/ /\ q1.p \in {"ctor", "tuple"}
                 /\ UsefulCalls[<<Specialize(rows, q1), q1.args \o rest>>]
              \/ /\ q1.p \in {"lit", "struct"}
                 /\ UsefulCalls[<<Specialize(rows, q1), rest>>]
              \/ /\ IsWild(q1) /\ AllCovered(ctors)
                 /\ \E i \in DOMAIN ctors :
                        UsefulCalls[<<Specialize(rows, ctors[i]), Wildcards(Arity(ctors[i])) \o rest>>]
              \/ /\ IsWild(q1) /\ ~AllCovered(ctors)
                 /\ UsefulCalls[<<DefaultMatrix(rows), rest>>]
              \/ /\ q1.p = "or"
                 /\ \/ UsefulCalls[<<rows, <<q1.l>> \o rest>>]
                    \/ UsefulCalls[<<rows, <<q1.r>> \o rest>>]
              \/ /\ q1.p = "alias"
                 /\ UsefulCalls[<<rows, <<q1.q>> \o rest>>]
IsUseful(rows, q) == UsefulCalls[<<rows, q>>]

-----------------------------------------------------------------------------
VARIABLES
    ty,         \* the type of the scrutinee
    arms,       \* the arms of the match
    idx,        \* the arm being looked at
    matrix,     \* the rows of the arms before it that have no guard
    verdict     \* "none", "unreachable", "non_exhaustive" or "ok"

uvars == <<ty, arms, idx, matrix, verdict>>

UInit ==
    /\ \E m \in MatchExprs : ty = m[1] /\ arms = m[2]
    /\ idx = 1
    /\ matrix = <<>>
    /\ verdict = "none"

Looking == verdict = "none" /\ idx <= Len(arms)
Useful == IsUseful(matrix, <<arms[idx].pat>>)

ArmUnreachable ==
    /\ Looking /\ ~Useful
    /\ verdict' = "unreachable"
    /\ UNCHANGED <<ty, arms, idx, matrix>>

\* Faulty: an arm with a guard is taken to match what its pattern matches.
ArmUsefulGuardIgnored ==
    /\ Looking /\ Useful
    /\ matrix' = Append(matrix, <<arms[idx].pat>>)
    /\ idx' = idx + 1
    /\ UNCHANGED <<ty, arms, verdict>>

\* An arm with a guard says nothing about the arms after it.
ArmUseful ==
    /\ Looking /\ Useful
    /\ matrix' = IF arms[idx].guard THEN matrix ELSE Append(matrix, <<arms[idx].pat>>)
    /\ idx' = idx + 1
    /\ UNCHANGED <<ty, arms, verdict>>

\* After the last arm, the wildcard.
Conclude ==
    /\ verdict = "none" /\ idx > Len(arms)
    /\ verdict' = IF IsUseful(matrix, <<Wildcard>>) THEN "non_exhaustive" ELSE "ok"
    /\ UNCHANGED <<ty, arms, idx, matrix>>

UNext == ArmUnreachable \/ ArmUseful \/ Conclude

USpec == UInit /\ [][UNext]_uvars

-----------------------------------------------------------------------------
Values == Inhabitants[ty]

\* The values an arm before arm i takes whatever its guard says.
Taken(i) == {v \in Values : \E j \in 1..(i - 1) : ~arms[j].guard /\ Matches(arms[j].pat, v)}
MatchedBy(i) == {v \in Values : Matches(arms[i].pat, v)}

\* The constructors an arm names, and those that stand in it as an alternative
\* of an `or` or in an alias.
InArm(i) == Within[arms[i].pat]
Named(i) == {q.tag : q \in {q \in InArm(i) : q.p = "ctor"}}
Appended(i) ==
    {q.tag : q \in {q \in UNION {Children(o) : o \in {o \in InArm(i) : o.p \in {"or", "alias"}}} : q.p = "ctor"}}

\* At most one alternative of a pattern is left, whatever the constructor.
Excluding(alts) ==
    Len(alts) > 1 =>
        /\ \A k \in DOMAIN alts : ~IsWild(alts[k])
        /\ \A j, k \in DOMAIN alts : j # k => alts[j].tag # alts[k].tag

\* A constructor that is an alternative or has an alias stands in no other arm,
\* and the alternatives of its arm exclude each other: get_constructors counts
\* it once.  Otherwise one named twice stands for one that is missing: of three
\* constructors A, B and C, (A | C, true) and (A | C, false) are accepted, and so
\* are (true | _, C as x), (_, A) and (false, B): under true the first is there twice.
CountedOnce ==
    \A i \in DOMAIN arms : Appended(i) # {} =>
        /\ \A q \in InArm(i) : Excluding(Alternatives[q])
        /\ \A j \in DOMAIN arms : j # i => Appended(i) \cap Named(j) = {}

\* Struct patterns are in the first arm only, and those of one struct list the
\* same fields: is_useful specialises the rows to the fields and goes on without
\* the fields of its own pattern, so that a second struct pattern is called
\* unreachable.
StructsFirst ==
    \A i \in DOMAIN arms : \A q \in InArm(i) : q.p = "struct" =>
        /\ i = 1 /\ IsInjective(q.fields)
        /\ \A r \in InArm(1) : r.p = "struct" /\ r.tag = q.tag => r.fields = q.fields

Exact == CountedOnce /\ StructsFirst

\* "Unreachable pattern" is only said of an arm that no value can reach.
UnreachableIsDead == verdict = "unreachable" /\ Exact => MatchedBy(idx) \subseteq Taken(idx)

\* An arm that passed can be reached by some value, however the constructors
\* are counted.
PassedIsLive == verdict # "none" /\ StructsFirst =>
    \A i \in 1..(idx - 1) : ~(MatchedBy(i) \subseteq Taken(i))

\* A match that is accepted takes every value with the arms that have no guard;
\* one that is called not exhaustive leaves a value out.
OkIsExhaustive ==
    /\ verdict = "ok" /\ Exact => Taken(Len(arms) + 1) = Values
    /\ verdict = "non_exhaustive" /\ StructsFirst => Taken(Len(arms) + 1) # Values
=============================================================================
