------------------------------- MODULE Patterns -------------------------------
(***************************************************************************)
(* The patterns of `match` and `is` (HirPattern), their types, and what it *)
(* means that a value matches one.  A value is a tag and its parts: the    *)
(* tag is the constructor, the literal, "tuple" or "struct".               *)
(***************************************************************************)
EXTENDS Integers, Sequences, FiniteSets

CONSTANTS
    Decls,        \* the ADTs of the program, each the set of its constructors
    Shape,        \* the types: the kind of patterns that take their values apart,
                  \* and the tags of the values with the types of their parts
    Inhabitants,  \* the values of each type
    Pats, Size    \* the patterns of the program, and how large each is

value(tag, parts) == [tag |-> tag, parts |-> parts]

\* Rest (..) is treated as Wildcard by everything modelled here.
Wildcard == [p |-> "wild"]
Binding(x) == [p |-> "bind", x |-> x]
Literal(n) == [p |-> "lit", tag |-> n]
Constructor(c, args) == [p |-> "ctor", tag |-> c, args |-> args]
Tuple(elems) == [p |-> "tuple", tag |-> "tuple", args |-> elems]
\* fields: the field numbers in the order they are written
Struct(fields, pats) == [p |-> "struct", tag |-> "struct", fields |-> fields, args |-> pats]
Or(l, r) == [p |-> "or", l |-> l, r |-> r]
Alias(q, x) == [p |-> "alias", q |-> q, x |-> x]

IsWild(pat) == pat.p \in {"wild", "bind"}
HasParts(pat) == pat.p \in {"ctor", "tuple", "struct"}

\* The part of a value that sub-pattern i of pat is about.
PartOf(pat, i) == IF pat.p = "struct" THEN pat.fields[i] ELSE i

\* The patterns a pattern is made of.
Children(pat) ==
    IF HasParts(pat) THEN {pat.args[i] : i \in DOMAIN pat.args}
    ELSE IF pat.p = "or" THEN {pat.l, pat.r}
    ELSE IF pat.p = "alias" THEN {pat.q}
    ELSE {}

\* Patterns are finite trees.
ASSUME PatternAssumption ==
    /\ Wildcard \in Pats
    /\ Size \in [Pats -> Nat] /\ Size[Wildcard] = 0
    /\ \A pat \in Pats :
        /\ pat.p \in {"wild", "bind", "lit", "ctor", "tuple", "struct", "or", "alias"}
        /\ HasParts(pat) => pat.args \in Seq(Pats)
        /\ pat.p = "struct" => pat.fields \in Seq(Nat) /\ Len(pat.fields) = Len(pat.args)
        /\ \A q \in Children(pat) : q \in Pats /\ Size[q] < Size[pat]

TypeNames == DOMAIN Shape
Tags(t) == DOMAIN Shape[t].parts
AllValues == UNION {Inhabitants[t] : t \in TypeNames}

\* A type has a value for every tag and all values of the parts.  The
\* constructors are those of a declaration; a tuple or struct type has one tag;
\* those of a literal are the booleans, or more than the program can name.
ASSUME TypeAssumption ==
    /\ DOMAIN Inhabitants = TypeNames
    /\ \A d \in Decls : IsFiniteSet(d)
    /\ \A d, e \in Decls : d # e => d \cap e = {}
    /\ \A t \in TypeNames :
        /\ Inhabitants[t] # {}
        /\ \A c \in Tags(t) : Shape[t].parts[c] \in Seq(TypeNames)
        /\ \A v \in Inhabitants[t] :
            /\ v.tag \in Tags(t)
            /\ DOMAIN v.parts = DOMAIN Shape[t].parts[v.tag]
            /\ \A i \in DOMAIN v.parts : v.parts[i] \in Inhabitants[Shape[t].parts[v.tag][i]]
        /\ \A c \in Tags(t) : \A parts \in [DOMAIN Shape[t].parts[c] -> AllValues] :
            (\A i \in DOMAIN parts : parts[i] \in Inhabitants[Shape[t].parts[c][i]])
                => value(c, parts) \in Inhabitants[t]
        /\ Shape[t].kind \in {"ctor", "tuple", "struct", "lit"}
        /\ Shape[t].kind = "ctor" => Tags(t) \in Decls
        /\ Shape[t].kind \in {"tuple", "struct"} => \E c \in Tags(t) : Tags(t) = {c}
        /\ Shape[t].kind = "lit" =>
            \/ Tags(t) = {"true", "false"}
            \/ "true" \notin Tags(t) /\ \E c \in Tags(t) : \A pat \in Pats : pat.p = "lit" => pat.tag # c

\* The types a pattern has (check_pattern).
TypesOf[pat \in Pats] ==
    {t \in TypeNames :
        \/ IsWild(pat)
        \/ pat.p = "or" /\ t \in TypesOf[pat.l] /\ t \in TypesOf[pat.r]
        \/ pat.p = "alias" /\ t \in TypesOf[pat.q]
        \/ pat.p = "lit" /\ Shape[t].kind = "lit" /\ pat.tag \in Tags(t)
        \/ /\ HasParts(pat)
           /\ pat.p = Shape[t].kind /\ pat.tag \in Tags(t)
           /\ pat.p # "struct" => Len(pat.args) = Len(Shape[t].parts[pat.tag])
           /\ \A i \in DOMAIN pat.args :
                /\ PartOf(pat, i) \in DOMAIN Shape[t].parts[pat.tag]
                /\ Shape[t].parts[pat.tag][PartOf(pat, i)] \in TypesOf[pat.args[i]]}

\* A pattern and a value that matches it.
Matching[m \in Pats \X AllValues] ==
    LET pat == m[1]
        v == m[2]
    IN  \/ IsWild(pat)
        \/ pat.p = "lit" /\ pat.tag = v.tag
        \/ /\ HasParts(pat)
           /\ pat.tag = v.tag
           /\ \A i \in DOMAIN pat.args :
                PartOf(pat, i) \in DOMAIN v.parts /\ Matching[<<pat.args[i], v.parts[PartOf(pat, i)]>>]
        \/ pat.p = "or" /\ (Matching[<<pat.l, v>>] \/ Matching[<<pat.r, v>>])
        \/ pat.p = "alias" /\ Matching[<<pat.q, v>>]
Matches(pat, v) == Matching[<<pat, v>>]

\* A pattern and all the patterns in it.
Within[pat \in Pats] == {pat} \cup UNION {Within[q] : q \in Children(pat)}

\* An arm: its pattern and whether it has a guard.
Arm(pat, guard) == [pat |-> pat, guard |-> guard]
=============================================================================
