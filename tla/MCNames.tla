------------------------------ MODULE MCNames ------------------------------
(***************************************************************************)
(* Crates for the two passes over names.                                   *)
(***************************************************************************)
EXTENDS NamesAgree

NoType == [k |-> "named", path |-> <<>>, args |-> <<>>, expr |-> <<>>]
Type(path) == [NoType EXCEPT !.path = path]
TypeOf(k, args) == [NoType EXCEPT !.k = k, !.args = args]

Hole == [k |-> "other", name |-> "", path |-> <<>>, subs |-> <<>>, names |-> <<>>]
Var(x) == [Hole EXCEPT !.k = "bind", !.name = x]
Con(path, subs) == [Hole EXCEPT !.k = "con", !.path = path, !.subs = subs]
Pair(p, q) == [Hole EXCEPT !.k = "tuple", !.subs = <<p, q>>]
Either(p, q) == [Hole EXCEPT !.k = "or", !.subs = <<p, q>>]
Whole(x, p) == [Hole EXCEPT !.k = "alias", !.name = x, !.subs = <<p>>]
Struct(path, ns, ps) == [Hole EXCEPT !.k = "struct", !.path = path, !.names = ns, !.subs = ps]

Lit == [k |-> "lit", name |-> "", path |-> <<>>, subs |-> <<>>, pat |-> Hole, arms |-> <<>>,
        names |-> <<>>, type |-> NoType]
Expr(k, subs) == [Lit EXCEPT !.k = k, !.subs = subs]
Path(p) == [Lit EXCEPT !.k = "path", !.path = p]
Use(x) == Path(<<x>>)
Op(e, f) == Expr("each", <<e, f>>)
Do(es) == Expr("do", es)
Tuple(es) == Expr("tuple", es)
Let(x, e) == [Expr("let", <<e>>) EXCEPT !.name = x]
Is(e, p) == [Expr("is", <<e>>) EXCEPT !.pat = p]
Arm(p, es) == [path |-> <<>>, pat |-> p, subs |-> es]
Match(e, arms) == [Expr("match", <<e>>) EXCEPT !.arms = arms]
Clause(path, ps, e) == [path |-> path, pat |-> [Hole EXCEPT !.k = "tuple", !.subs = ps], subs |-> <<e>>]
With(e, clauses) == [Expr("with", <<e>>) EXCEPT !.arms = clauses]
Raise(path, c, es) == [Expr("raise", es) EXCEPT !.path = path, !.name = c]
NamedCall(f, ns, es) == [Expr("call", <<f>> \o es) EXCEPT !.names = ns]
Call(f, es) == NamedCall(Use(f), [i \in DOMAIN es |-> ""], es)
Make(path, ns, es) == [Expr("make", <<Path(path)>> \o es) EXCEPT !.names = ns]
Cast(e, t) == [Expr("cast", <<e>>) EXCEPT !.type = t]

Item(x, t) == [name |-> x, generics |-> <<>>, members |-> <<>>, from |-> NoType, type |-> t]
Generic(x, bounds) == [name |-> x, bounds |-> bounds]
D(k, name) == [k |-> k, name |-> name, pub |-> FALSE, generics |-> <<>>, members |-> <<>>,
               type |-> NoType, body |-> <<>>, has |-> <<>>, lang |-> ""]
Fun(name, ps, body) ==
    [D("fun", name) EXCEPT !.members = [i \in DOMAIN ps |-> Item(ps[i], NoType)], !.body = body]
Static(k, name, e) == [D(k, name) EXCEPT !.body = <<e>>]
Public(d) == [d EXCEPT !.pub = TRUE]

Module(name, ds, rs) == [name |-> name, decls |-> ds, requires |-> rs]
From(module, only) == [module |-> module, open |-> TRUE, only |-> only]
Single(ds) == <<Module("M", ds, <<>>)>>
-----------------------------------------------------------------------------
\* Declarations before, within and after a block, around a parameter x, a
\* constant y, and z, which nothing else declares.
Simple == {Use("x"), Use("y"), Use("z"), Let("y", Use("x")), Let("z", Use("y"))}
Nested ==
    {Do(<<a, b>>) : a, b \in Simple}
    \cup {Match(Use("x"), <<Arm(Var("y"), <<a>>), Arm(Var("z"), <<Use("x"), a>>)>>) : a \in Simple}
    \cup {Do(<<a, Do(<<b>>), Use("y")>>) : a, b \in Simple}
    \cup {Tuple(<<a, Do(<<b>>)>>) : a, b \in Simple}
    \cup {Op(Is(Use("x"), Var("z")), Use("z")), Expr("lit", <<>>), [Use("z") EXCEPT !.k = "name", !.name = "y"]}

Blocks ==
    {Single(<<Fun("f", <<"x">>, <<a, b, c>>), Static("const", "y", Lit)>>) :
        a \in Simple \ {Use("x")}, b \in Nested, c \in {Use("y"), Use("z"), Let("z", Use("z"))}}
-----------------------------------------------------------------------------
\* Names bound by patterns and by clauses, among a type T of constructors C
\* and N, a struct S and an effect E.
Types == <<
    [D("adt", "T") EXCEPT !.members =
        <<[Item("C", Type(<<"T">>)) EXCEPT !.from = Type(<<"S">>)], Item("N", NoType)>>],
    [D("struct", "S") EXCEPT !.members = <<Item("z", Type(<<"T">>))>>],
    [D("effect", "E") EXCEPT !.members =
        <<[Item("c", Type(<<"T">>)) EXCEPT !.members = <<Item("m", Type(<<"S">>))>>],
          [Item("d", NoType) EXCEPT !.members = <<Item("n", NoType)>>]>>]>>

Typed(d) == Single(Types \o <<d>>)

Patterns ==
    {Var("y"), Con(<<"C">>, <<Var("y")>>), Con(<<"T", "C">>, <<Hole>>), Con(<<"Q">>, <<>>),
     Pair(Var("y"), Con(<<"N">>, <<>>)), Pair(Var("y"), Var("y")), Whole("y", Con(<<"C">>, <<Var("z")>>)),
     Either(Con(<<"C">>, <<Var("y")>>), Pair(Var("y"), Hole)),
     Struct(<<"S">>, <<"z">>, <<Var("z")>>), Struct(<<"S">>, <<"z">>, <<Var("y")>>)}

Arms == {<<Use("y")>>, <<Use("z")>>, <<Op(Use("x"), Use("y")), Do(<<Let("z", Use("y")), Use("z")>>)>>}

Matching ==
    {Typed(Fun("f", <<"x">>, <<Match(Call("C", <<Use("x")>>), <<Arm(p, es), Arm(q, <<Use("N")>>)>>), e>>)) :
        p \in Patterns, q \in {Var("z"), Con(<<"N">>, <<>>)}, es \in Arms, e \in {Lit, Use("y")}}
    \cup
    {Typed(Fun("f", <<"x">>, <<Let("v", Is(Use("x"), p)), e>>)) :
        p \in Patterns, e \in {Use("x"), Use("y"), Use("z"), Let("y", Lit), Do(<<Let("y", Lit), Use("y")>>)}}

Handlers ==
    {<<Clause(<<"E", "c">>, <<Var("y")>>, e)>> : e \in {Use("y"), Use("z"), Use("x")}}
    \cup {<<Clause(<<"E", "c">>, <<Var("y")>>, Use("y")), Clause(<<"E", "d">>, <<Hole>>, Use("y"))>>,
          <<Clause(<<"E", "d">>, <<Var("z")>>, Do(<<Use("z")>>))>>,
          <<Clause(<<"E", "e">>, <<>>, Lit)>>, <<Clause(<<"F", "c">>, <<>>, Lit)>>,
          <<Clause(<<"E", "c">>, <<Var("y")>>, Use("y")), Clause(<<"E", "c">>, <<Var("y")>>, Use("y"))>>}

Handling ==
    {Typed(Fun("f", <<"x">>, <<With(Do(<<Raise(path, c, <<Use("x")>>), e>>), cs)>>)) :
        path \in {<<"E">>, <<"M", "E">>, <<"F">>}, c \in {"c", "e"}, e \in {Lit, Use("y")}, cs \in Handlers}
-----------------------------------------------------------------------------
\* Arguments, named and not, calls of constructors, and pipes.
Three == <<Use("x"), Use("y"), Use("z")>>

Calling(e) == Single(Types \o <<Fun("main", <<"x", "y", "z">>, <<e>>), Public(Fun("g", <<"a", "b", "c">>, <<Use("b")>>))>>)

Names == {"", "a", "b", "c"}
Calls ==
    {Calling(NamedCall(Use("g"), ns, Three)) : ns \in [1 .. 3 -> Names]}
    \cup {Calling(NamedCall(Use("g"), ns, SubSeq(Three, 1, 2))) : ns \in [1 .. 2 -> {"", "a", "d"}]}
    \cup {Calling(NamedCall(Use(n), <<m>>, <<Use("x")>>)) : n \in {"C", "x", "h"}, m \in {"", "a"}}
    \cup {Calling(e) : e \in
            {Expr("pipe", <<Use("x"), right>>) : right \in
                {Use("g"), Use("C"), Use("h"), Lit, Call("g", <<Use("y")>>), Call("C", <<>>),
                 NamedCall(Use("g"), <<"a">>, <<Use("y")>>)}}}
    \cup {Calling(e) : e \in
            {Path(<<"x", "u", "v">>), Path(<<"T", "N">>), Path(<<"M", "T", "C">>), Path(<<"M", "g">>),
             Path(<<"E", "c">>), Path(<<"S", "z">>), Path(<<"T", "g">>), Path(<<"S">>), Path(<<"M">>),
             Expr("member", <<Use("x")>>), Make(<<"S">>, <<"z">>, <<Use("x")>>),
             Make(<<"M", "S">>, <<"z">>, <<Use("x")>>), Make(<<"x">>, <<"z">>, <<Use("w")>>),
             Cast(Use("x"), Type(<<"S">>)), Cast(Use("x"), Type(<<"M", "T">>)), Cast(Use("x"), Type(<<"Q">>)),
             Cast(Use("x"), [TypeOf("typeof", <<>>) EXCEPT !.expr = <<Use("g")>>]),
             Cast(Use("x"), TypeOf("ref", <<Type(<<"T">>)>>)),
             NamedCall(Path(<<"x", "u">>), <<"">>, <<Use("y")>>)}}
-----------------------------------------------------------------------------
\* One declaration of each kind, as it is and with what this code refuses.
G == <<Generic("A", <<>>), Generic("B", <<Type(<<"A">>)>>)>>
OfA(d) == [d EXCEPT !.generics = G, !.type = TypeOf("of", <<Type(<<"A">>), Type(<<"T">>)>>)]
Members2(t, u) == <<Item("i", t), Item("j", u)>>

Declarations ==
    {OfA([D(k, "d") EXCEPT !.members = Members2(t, u)]) :
        k \in {"fun", "fundecl", "struct", "abstract"},
        t \in {Type(<<"A">>), NoType}, u \in {Type(<<"T">>), Type(<<"Q">>)}}
    \cup {[D("external", "d") EXCEPT !.members = Members2(Type(<<"S">>), t), !.type = u] :
            t, u \in {NoType, Type(<<"T">>), Type(<<"Q">>), TypeOf("tuple", <<>>)}}
    \cup {D(k, "d") : k \in {"fun", "fundecl", "struct", "adt", "ctype", "external",
                             "abstract", "effect", "type"}}
    \cup {[OfA(D("alias", "d")) EXCEPT !.type = Type(<<x>>)] : x \in {"A", "d", "T", "i"}}
    \cup {[D("type", "d") EXCEPT !.lang = "builtin_i32_type"], [D("struct", "d") EXCEPT !.has = <<"E">>],
          [D("adt", "d") EXCEPT !.has = <<"Q">>], [D("abstract", "d") EXCEPT !.has = <<"E">>],
          [D("fundecl", "d") EXCEPT !.type = Type(<<"S">>)]}
    \cup {[D("abstract", "d") EXCEPT !.members = <<[Item("i", Type(<<"T">>)) EXCEPT !.members = ps]>>] :
            ps \in {<<>>, <<Item("p", NoType)>>, <<Item("T", NoType)>>}}
    \cup {[D("adt", "d") EXCEPT !.generics = G,
             !.members = <<[Item("i", Type(<<"d">>)) EXCEPT !.generics = g, !.from = Type(<<"A">>)],
                           [Item("j", Type(<<"d">>)) EXCEPT !.generics = h, !.from = t]>>] :
            g, h \in {<<>>, <<Generic("H", <<>>)>>}, t \in {NoType, Type(<<"H">>), Type(<<"B">>)}}
    \cup {[D("effect", "d") EXCEPT !.members =
             <<[Item("i", NoType) EXCEPT !.members = <<Item("p", NoType)>>],
               [Item("j", Type(<<"T">>)) EXCEPT !.members = <<Item(q, Type(<<"S">>))>>]>>] : q \in {"p", "q"}}
    \cup {Static(k, "d", e) : k \in {"const", "global"},
            e \in {Lit, Use("d"), Use("q"), Use("N"), Do(<<Let("l", Lit), Use("l")>>), Let("l", Lit)}}
    \cup {Static("const", "T", Use("T")), Static("global", "C", Lit)}

Declaring == {Typed(d) : d \in Declarations} \cup {<<Module("M", <<d>> \o Types, <<>>)>> : d \in Declarations}
-----------------------------------------------------------------------------
\* Two files in either order, one of which may require the other; and a third
\* that holds the same function.
Library == <<Public(Static("const", "a", Lit)), Static("const", "b", Use("a")),
             Public(Types[2]), Public(Types[1]), Fun("g", <<"x">>, <<Do(<<Use("b")>>)>>)>>

Client(e, own, rs) ==
    Module("N", (IF own THEN <<Static("global", "a", Lit)>> ELSE <<>>) \o <<Fun("main", <<"x">>, <<e>>)>>, rs)

Requires == {<<>>, <<From("M", <<>>)>>, <<From("M", <<"b", "C">>)>>, <<From("M", <<"u">>)>>,
             <<From("K", <<>>)>>, <<[From("M", <<>>) EXCEPT !.open = FALSE]>>, <<From("M", <<"a">>), From("M", <<"b">>)>>}
Wanted == {Use("a"), Use("b"), Use("C"), Path(<<"T", "N">>), Path(<<"M", "T", "N">>), Path(<<"M", "b">>),
           Path(<<"M", "w">>), Cast(Use("x"), Type(<<"M", "S">>)), Cast(Use("x"), Type(<<"S">>)), Use("M"),
           Do(<<Use("b")>>), Match(Path(<<"M", "N">>), <<Arm(Con(<<"M", "C">>, <<Var("a")>>), <<Use("a")>>)>>)}

TwoFiles ==
    LET lib == Module("M", Library, <<>>)
    IN UNION {{<<lib, Client(e, own, rs)>>, <<Client(e, own, rs), lib>>} :
                 e \in Wanted, own \in BOOLEAN, rs \in Requires}
       \cup {<<lib, Module("K", Library, <<From("M", <<"T">>)>>), Client(e, FALSE, <<From(m, <<>>)>>)>> :
                e \in Wanted, m \in {"K", "M"}}

MCCrates == Blocks \cup Matching \cup Handling \cup Calls \cup Declaring \cup TwoFiles
=============================================================================
