----------------------------- MODULE MCMatchTree -----------------------------
(***************************************************************************)
(* Matches of up to five arms on a nested ADT, on pairs of booleans, on    *)
(* structs, on pairs of an ADT with three constructors and a boolean, and *)
(* on an ADT with a pair below a constructor.                              *)
(***************************************************************************)
EXTENDS MatchTree

T == Literal("true")
F == Literal("false")
A == Constructor("A", <<>>)
B(pat) == Constructor("B", <<pat>>)
C == Constructor("C", <<>>)
D(pat) == Constructor("D", <<pat>>)
E == Constructor("E", <<>>)
J(pat) == Constructor("J", <<pat>>)
K(pat) == Constructor("K", <<pat>>)
G == Constructor("G", <<>>)
H(pat) == Constructor("H", <<pat>>)
x == Binding("x")
y == Binding("y")
arm(pat) == Arm(pat, FALSE)

\* type U = | A | B of bool     type V = | D of U | E
\* type W = | G | H of bool | C       type P = | J of (bool * bool) | K of U
MCDecls == {{"A", "B"}, {"D", "E"}, {"G", "H", "C"}, {"J", "K"}}
Bools == {value("true", <<>>), value("false", <<>>)}
Some(c, S) == {value(c, <<v>>) : v \in S}
UValues == {value("A", <<>>)} \cup Some("B", Bools)
WValues == {value("G", <<>>), value("C", <<>>)} \cup Some("H", Bools)
Pairs(S) == {value("tuple", <<v, b>>) : v \in S, b \in Bools}
MCInhabitants ==
    [V |-> {value("E", <<>>)} \cup Some("D", UValues), BB |-> Pairs(Bools), WB |-> Pairs(WValues),
     S |-> {value("struct", <<a, b>>) : a \in Bools, b \in Bools},
     BW |-> {value("tuple", <<b, v>>) : b \in Bools, v \in WValues},
     P |-> Some("J", Pairs(Bools)) \cup Some("K", UValues),
     U |-> UValues, W |-> WValues, Bool |-> Bools]
shape(kind, parts) == [kind |-> kind, parts |-> parts]
MCShape ==
    [V |-> shape("ctor", [D |-> <<"U">>, E |-> <<>>]), BB |-> shape("tuple", [tuple |-> <<"Bool", "Bool">>]),
     WB |-> shape("tuple", [tuple |-> <<"W", "Bool">>]),
     BW |-> shape("tuple", [tuple |-> <<"Bool", "W">>]), S |-> shape("struct", [struct |-> <<"Bool", "Bool">>]),
     P |-> shape("ctor", [J |-> <<"BB">>, K |-> <<"U">>]),
     U |-> shape("ctor", [A |-> <<>>, B |-> <<"Bool">>]),
     W |-> shape("ctor", [G |-> <<>>, H |-> <<"Bool">>, C |-> <<>>]),
     Bool |-> shape("lit", [true |-> <<>>, false |-> <<>>])]

UPats == {Wildcard, x, A, B(Wildcard), B(T), B(x), B(Or(T, F))}
VPats == {Wildcard, x, E} \cup {D(u) : u \in UPats}
         \cup {D(Or(A, B(T))), Alias(D(A), "y"), Or(E, D(B(F)))}
SomeV == {x, E, D(Wildcard), D(B(T)), Or(E, D(B(F)))}
VMatches ==
    {<<arm(p), Arm(q, g), arm(r)>> : p \in VPats, q \in VPats, r \in {Wildcard, D(A), D(B(x))}, g \in BOOLEAN}
    \cup {<<arm(p), Arm(q, TRUE), arm(r), arm(x)>> : p \in SomeV, q \in SomeV \cup {D(A)}, r \in SomeV}

BPats == {Tuple(<<a, b>>) : a \in {x, T, F}, b \in {y, T, F}}
BMatches ==
    {<<arm(p), Arm(q, g), arm(r), arm(Tuple(<<T, F>>)), arm(Tuple(<<x, y>>))>> :
        p \in BPats, q \in BPats, r \in BPats, g \in BOOLEAN}

BoolPats == {Wildcard, T, F}
WPats == {Wildcard, x, G, H(Wildcard), H(T), C, Or(G, H(F)), Alias(G, "x")}
WBPats == {Tuple(<<e, b>>) : e \in WPats, b \in BoolPats}
          \cup {Wildcard, Or(Tuple(<<G, T>>), Tuple(<<H(Wildcard), F>>))}
WBMatches ==
    {<<arm(Tuple(<<e, b>>)), arm(q), arm(r)>> :
        e \in {G, H(T), Or(G, C)}, b \in {T, Wildcard}, q \in WBPats, r \in WBPats}
    \cup {<<Arm(p, TRUE), arm(q)>> : p \in WBPats, q \in WBPats}
    \cup {<<arm(Tuple(<<G, b>>)), arm(Tuple(<<H(d), c>>)), arm(Tuple(<<C, e>>)), arm(Tuple(<<Wildcard, T>>))>> :
            b \in BoolPats, c \in BoolPats, d \in BoolPats, e \in BoolPats}

SPats == {Struct(<<1, 2>>, <<a, b>>) : a \in {x, T, F}, b \in {y, T}} \cup {Struct(<<2>>, <<T>>)}
SOrs == {Or(Struct(<<1>>, <<a>>), Struct(<<i>>, <<T>>)) : a \in BoolPats, i \in {1, 2}}
SMatches == {<<Arm(p, g), arm(q)>> : p \in SPats \cup SOrs, q \in SPats \cup {Wildcard}, g \in BOOLEAN}

\* Alternatives that do not exclude each other before a constructor with an alias.
BWMatches ==
    {<<arm(Tuple(<<b, e>>)), arm(Tuple(<<c, f>>)), arm(q)>> :
        b \in {T, Or(T, Wildcard), Or(T, F)}, e \in {G, Alias(C, "x")}, c \in {Wildcard, F},
        f \in {G, H(T)}, q \in {Wildcard, Tuple(<<F, H(Wildcard)>>)}}

\* A tuple below a constructor, also under a wildcard or an alias.
PPats == {Wildcard, J(x), J(Tuple(<<T, x>>)), J(Or(Tuple(<<T, F>>), Tuple(<<F, y>>))), Alias(J(Tuple(<<T, x>>)), "z"),
          K(Or(x, B(T))), K(A), Or(K(B(T)), J(Tuple(<<x, T>>))), Alias(K(Alias(B(y), "w")), "z")}
PMatches == {<<arm(p), Arm(q, g), arm(r), arm(x)>> :
                p \in PPats, q \in PPats, r \in {K(B(x)), J(Tuple(<<F, y>>)), Wildcard}, g \in BOOLEAN}

MCMatches == {<<"V", m>> : m \in VMatches} \cup {<<"BB", m>> : m \in BMatches}
             \cup {<<"WB", m>> : m \in WBMatches} \cup {<<"S", m>> : m \in SMatches}
             \cup {<<"BW", m>> : m \in BWMatches} \cup {<<"P", m>> : m \in PMatches}
MCIsPatterns == {<<"V", p>> : p \in VPats} \cup {<<"BB", p>> : p \in BPats}
                \cup {<<"S", p>> : p \in SPats} \cup {<<"P", p>> : p \in PPats}

RECURSIVE AllOf(_), SizeOf(_)
AllOf(pat) == {pat} \cup UNION {AllOf(q) : q \in Children(pat)}
SizeOf(pat) == IF Children(pat) = {} THEN 0 ELSE 1 + Max({SizeOf(q) : q \in Children(pat)})
AliasMatches == {<<"V", <<arm(D(B(Wildcard))), arm(Alias(D(A), "y"))>>>>}

Given == VPats \cup BPats \cup WBPats \cup SPats \cup SOrs \cup PPats
         \cup {Tuple(<<Or(G, C), b>>) : b \in {T, Wildcard}} \cup {Tuple(<<C, F>>), K(B(x)), J(Tuple(<<F, y>>))}
         \cup {Tuple(<<H(d), b>>) : d \in BoolPats, b \in BoolPats}
         \cup {Tuple(<<b, e>>) : b \in {T, F, Wildcard, Or(T, Wildcard), Or(T, F)},
                                 e \in {G, H(T), H(Wildcard), Alias(C, "x")}}
MCPats == UNION {AllOf(pat) : pat \in Given}
MCSize == [pat \in MCPats |-> SizeOf(pat)]
=============================================================================
