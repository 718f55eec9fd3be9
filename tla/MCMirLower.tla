----------------------------- MODULE MCMirLower -----------------------------
(***************************************************************************)
(* Programs of one shape, main apart: an effect with two controls, a       *)
(* struct, an enum, an external function and functions that call, raise,   *)
(* handle and return early.  main is each of a set of expressions, built   *)
(* two constructs deep from operands whose evaluation can be seen.  Then   *)
(* programs about types: operands of every type in every place, generics,  *)
(* and what the checker takes without looking.                             *)
(***************************************************************************)
EXTENDS MirRun

\* Type names.
Nm(x) == [t |-> "name", sym |-> x, args |-> <<>>]
NmOf(x, args) == [t |-> "name", sym |-> x, args |-> args]
Tup(args) == [t |-> "tuple", args |-> args]
Hole == [t |-> "_"]
BoolName == Nm("Bool")

I(n) == [e |-> "lit", v |-> Val("int", n, <<>>)]
True == [e |-> "lit", v |-> Val("bool", 1, <<>>)]
N(x) == [e |-> "name", sym |-> x]
Op(f, args) == [e |-> "op", f |-> f, args |-> args]
Wr(f, a) == [e |-> "wrap", f |-> f, args |-> <<a>>]
Cast(a, to) == [e |-> "wrap", f |-> "cast", to |-> to, args |-> <<a>>]
T(args) == [e |-> "tuple", args |-> args]
SOf(decl, fields, args) == [e |-> "struct", decl |-> decl, fields |-> fields, args |-> args]
S(fields, args) == SOf("P", fields, args)
Variant1(ctor, a) == [e |-> "variant", ctor |-> ctor, args |-> <<a>>]
Some(a) == Variant1("Some", a)
GetOf(decl, obj, name, n) == [e |-> "field", decl |-> decl, field |-> name, derefs |-> n, args |-> <<obj>>]
Get(obj, name, n) == GetOf("P", obj, name, n)
At1(a) == [e |-> "index", i |-> 1, args |-> <<a>>]
LetAs(x, ann, a) == [e |-> "let", sym |-> x, ann |-> ann, args |-> <<a>>]
LetIn(x, a) == LetAs(x, <<>>, a)
B(args) == [e |-> "block", args |-> args]
Ret(args) == [e |-> "return", args |-> args]
C(f, args) == [e |-> "call", callee |-> N(f), derefs |-> 0, args |-> args]
CVia(callee, n, args) == [e |-> "call", callee |-> callee, derefs |-> n, args |-> args]
IfE(conds, thens, otherwise) == [e |-> "if", conds |-> conds, thens |-> thens, otherwise |-> otherwise]
W(body, clauses) == [e |-> "with", body |-> body, clauses |-> clauses]
On(control, params, body) ==
    [control |-> control, params |-> params, arity |-> 1, rest |-> FALSE, body |-> body]
R(control, a) == [e |-> "raise", control |-> control, args |-> <<a>>]
Res(a) == [e |-> "resume", args |-> <<a>>]
K(a) == [e |-> "const", args |-> <<a>>]

\* Declarations.
FunAs(sym, generics, params, ptys, rt, body) ==
    [d |-> "fun", sym |-> sym, generics |-> generics, params |-> params, ptys |-> ptys, rt |-> rt,
     body |-> body, never |-> rt = <<Nm("Never")>>, pub |-> sym = "main"]
FunD(sym, params, body) == FunAs(sym, <<>>, params, [i \in 1..Len(params) |-> <<>>], <<>>, body)
OfI(sym, rt, body) == FunAs(sym, <<>>, <<"n">>, <<<<IntName>>>>, <<rt>>, body)
StructD(sym, generics, fields, ftys) ==
    [d |-> "struct", sym |-> sym, generics |-> generics, fields |-> fields, ftys |-> ftys]
Ctor(sym, from) == [sym |-> sym, generics |-> <<>>, from |-> from, ret |-> <<>>]
ADTD(sym, generics, defs) ==
    [d |-> "adt", sym |-> sym, generics |-> generics, ctors |-> [i \in 1..Len(defs) |-> defs[i].sym], defs |-> defs]
StaticD(sym, ann, e) == [d |-> "static", sym |-> sym, ann |-> ann, expr |-> e]
AliasD(sym, generics, for) == [d |-> "alias", sym |-> sym, generics |-> generics, for |-> for]
Generic(sym) == [sym |-> sym, constraints |-> <<>>]
Bounded(sym, ts) == [sym |-> sym, constraints |-> ts]

IoD == [d |-> "effect", sym |-> "Io", controls |-> <<"ask", "stop">>,
        sigs |-> <<[ptys |-> <<<<IntName>>>>, rt |-> <<IntName>>], [ptys |-> <<<<IntName>>>>, rt |-> <<>>]>>]
PrintD == [d |-> "external", sym |-> "print", ptys |-> <<<<IntName>>>>, rt |-> <<Tup(<<>>)>>]

Prefix == <<
    IoD,
    StructD("P", <<>>, <<"a", "b">>, <<IntName, IntName>>),
    ADTD("Option", <<Generic("T")>>, <<Ctor("None", <<>>), Ctor("Some", <<Nm("T")>>)>>),
    PrintD,
    FunD("show", <<"x">>, <<C("print", <<N("x")>>), N("x")>>),
    FunD("early", <<"n">>,
         <<IfE(<<Op("lt", <<N("n"), I(2)>>)>>, <<Ret(<<I(7)>>)>>, <<>>), Op("add", <<N("n"), N("n")>>)>>),
    FunD("asks", <<"n">>, <<Op("add", <<R("ask", N("n")), I(1)>>)>>),
    OfI("halt", Nm("Never"), <<R("stop", N("n")), C("halt", <<N("n")>>)>>),
    OfI("count", IntName, <<IfE(<<Op("lt", <<N("n"), I(1)>>)>>, <<I(0)>>,
                                <<C("count", <<Op("sub", <<C("show", <<N("n")>>), I(1)>>)>>)>>)>>) >>

MainD(body) == FunAs("main", <<>>, <<>>, <<>>, <<Hole>>, body)
Main(body) == Append(Prefix, MainD(body))

\* Clauses: one that resumes, one that does not, one that raises to the outside.
Again == On("ask", <<"v">>, Res(Op("add", <<N("v"), I(10)>>)))
Stops == On("stop", <<"v">>, LetIn("w", C("show", <<N("v")>>)))
Outer == On("ask", <<"v">>, Res(C("asks", <<N("v")>>)))

Atoms == {I(1), C("show", <<I(2)>>), R("ask", I(3)), C("asks", <<I(4)>>)}

\* Each construct with its first operand free and the others given.
Around(x, a) ==
    {Op("add", <<x, a>>), At1(T(<<x, a>>)), Get(S(<<"a", "b">>, <<x, a>>), "b", 0),
     Get(Wr("ref", S(<<"a", "b">>, <<Wr("move", x), a>>)), "a", 1),
     B(<<LetIn("y", x), Op("sub", <<a, N("y")>>)>>),
     IfE(<<Op("lt", <<x, I(3)>>)>>, <<a>>, <<C("show", <<I(9)>>)>>),
     IfE(<<Op("eq", <<a, I(1)>>), Op("eq", <<a, I(2)>>)>>, <<x, C("show", <<I(5)>>)>>, <<C("show", <<I(6)>>)>>)}
Alone(x) ==
    {W(x, <<Again>>), W(x, <<Again, Outer>>), Ret(<<x>>), Some(x), C("early", <<x>>),
     B(<<W(LetIn("s", x), <<Stops, Again>>), C("show", <<I(5)>>)>>)}

\* A clause may hold everything but a `with`.
InClause(x) == W(C("asks", <<I(0)>>), <<On("ask", <<"v">>, B(<<LetIn("z", x), Res(N("z"))>>))>>)

Numeric(x) == x.e \notin {"variant", "return"}

One == UNION {Around(x, a) : x \in Atoms, a \in {I(1), C("show", <<I(2)>>)}} \cup UNION {Alone(x) : x \in Atoms}
Deep == {x \in One : Numeric(x)}
Two == UNION {Around(x, C("show", <<I(2)>>)) : x \in Deep} \cup UNION {Alone(x) : x \in Deep}
Clausal == Atoms \cup UNION {Around(x, I(1)) : x \in Atoms}

Signal(x) == B(<<LetIn("u", R("stop", x)), LetIn("t", C("show", <<I(8)>>))>>)
Bodies ==
    {<<x>> : x \in One \cup Two \cup {InClause(y) : y \in Clausal}}
    \cup {<<C("print", <<x>>), I(0)>> : x \in Deep}
    \cup {<<W(Signal(x), cs)>> : x \in Atoms, cs \in {<<Stops>>, <<Stops, Again>>, <<Again, Stops>>}}
    \cup {<<W(W(Signal(x), <<Again>>), <<Stops, Outer>>)>> : x \in Atoms}
    \cup {<<W(W(Signal(x), <<Stops, Again>>), <<Stops, Again>>), C("show", <<I(3)>>)>> : x \in Atoms}
    \cup {<<W(LetIn("q", W(R("ask", I(1)), <<On("ask", <<"v">>, B(<<R("stop", N("v")), Res(I(1))>>))>>)), <<Stops>>)>>}
    \cup {<<W(LetIn("q", C("halt", <<I(1)>>)), <<Stops>>), I(2)>>, <<C("halt", <<I(1)>>)>>}
    \cup {<<LetIn("f", N(f)), CVia(Wr("share", N("f")), 1, <<I(3)>>)>> : f \in {"show", "early", "count"}}
    \cup {<<C("count", <<I(2)>>)>>, <<IfE(<<Op("lt", <<I(1), I(2)>>)>>, <<Ret(<<I(4)>>)>>, <<>>), C("show", <<I(5)>>)>>}

\* What the lowering is known to reject or to get wrong.
Odd ==
    {<<LetIn("y", I(1)), W(Op("add", <<N("y"), I(1)>>), <<Again>>)>>,
     <<W(B(<<R("stop", I(1)), C("show", <<I(2)>>)>>), <<On("stop", <<"v">>, Op("add", <<N("v"), I(1)>>))>>)>>,
     <<Get(S(<<"b", "a">>, <<I(1), I(2)>>), "a", 0)>>,
     <<T(<<I(1), LetIn("y", I(2))>>)>>,
     <<K(Op("add", <<I(1), I(2)>>))>>}
OddOrder ==
    {Append(Main(<<C("later", <<>>)>>), FunD("later", <<>>, <<I(1)>>)),
     <<StaticD("s", <<>>, I(1))>> \o Main(<<N("s")>>)}

\* About types: an operand of each type in each place.
Operands == {I(1), True, T(<<>>), S(<<"a", "b">>, <<I(1), I(2)>>), Some(I(1)), N("show")}
Places(x) ==
    {Op("add", <<x, I(1)>>), Op("lt", <<I(1), x>>), Op("and", <<x, True>>), Op("neg", <<x>>), Op("not", <<x>>),
     At1(x), At1(T(<<x, I(1)>>)), Get(x, "a", 0), Get(S(<<"a", "b">>, <<x, I(1)>>), "a", 0), Get(x, "c", 0),
     C("show", <<x>>), C("show", <<x, I(1)>>), CVia(x, 0, <<I(1)>>), C("early", <<x>>), C("missing", <<x>>),
     B(<<x, I(1)>>), IfE(<<x>>, <<I(1)>>, <<I(2)>>), IfE(<<True>>, <<x>>, <<I(2)>>), IfE(<<True>>, <<x>>, <<>>),
     IfE(<<Op("lt", <<I(2), I(1)>>)>>, <<I(2)>>, <<x>>), B(<<LetAs("y", <<IntName>>, x), N("y")>>),
     B(<<LetIn("y", IfE(<<Op("lt", <<I(2), I(1)>>)>>, <<I(2)>>, <<x>>)), N("y")>>),
     Cast(x, BoolName), Cast(x, IntName), Ret(<<x>>), W(R("ask", x), <<Again>>), R("missing", x),
     W(R("ask", I(1)), <<On("ask", <<"v">>, Res(x))>>), W(I(1), <<On("ask", <<"v">>, Res(x))>>),
     W(B(<<R("stop", I(1)), I(3)>>), <<On("stop", <<"v">>, x)>>), Res(x)}
ByOperand == {<<p>> : p \in UNION {Places(x) : x \in Operands \cup Places(I(1)) \cup Places(True)}}

\* Functions of every type, and of two of them.
IdD == FunD("id", <<"x">>, <<N("x")>>)
TwiceD(x) == FunD("twice", <<"f", "x">>, <<CVia(N("f"), 0, <<CVia(N("f"), 0, <<x>>)>>)>>)
NumD == FunAs("num", <<Bounded("T", <<IntName, BoolName>>)>>, <<"x">>, <<<<Nm("T")>>>>, <<Nm("T")>>, <<N("x")>>)
BothD == FunD("both", <<"c", "x", "y">>, <<IfE(<<N("c")>>, <<N("x")>>, <<N("y")>>)>>)
BoxD(T1) == StructD("Box", <<T1>>, <<"v">>, <<Nm("T")>>)
Box(x) == SOf("Box", <<"v">>, <<x>>)
CoupleD == StructD("Couple", <<Generic("T")>>, <<"v", "w">>, <<Nm("T"), Nm("T")>>)
Couple(x, y) == SOf("Couple", <<"v", "w">>, <<x, y>>)
FirstOfCouple(x) == GetOf("Couple", x, "v", 0)
OpenD == FunAs("open", <<Generic("T")>>, <<"b">>, <<<<NmOf("Box", <<Nm("T")>>)>>>>, <<Nm("T")>>,
               <<GetOf("Box", N("b"), "v", 0)>>)
Polymorphic ==
    {<<IdD, MainD(<<LetIn("a", C("id", <<x>>)), LetIn("b", C("id", <<True>>)), IfE(<<N("b")>>, <<N("a")>>, <<y>>)>>)>> :
        x \in {I(1), True}, y \in {I(2), True}}
    \cup {<<IdD, TwiceD(x), MainD(<<C("twice", <<N("id"), y>>)>>)>> : x \in {N("x"), I(1)}, y \in {I(2), True}}
    \cup {<<NumD, MainD(<<C("num", <<x>>)>>)>> : x \in {I(1), True, T(<<>>)}}
    \cup {<<BothD, MainD(<<C("both", <<True, x, y>>)>>)>> : x \in {I(1), True}, y \in {I(2), True}}
    \cup {<<BoxD(t), OpenD, MainD(<<IfE(<<C("open", <<Box(x)>>)>>, <<C("open", <<Box(y)>>)>>, <<I(3)>>)>>)>> :
              t \in {Generic("T"), Bounded("T", <<IntName>>)}, x \in {I(1), True}, y \in {I(2), True}}
    \cup {<<CoupleD, MainD(<<FirstOfCouple(Couple(x, I(1)))>>)>> : x \in {I(2), True, FirstOfCouple(Couple(I(2), I(3)))}}
    \cup {<<BoxD(Generic("T")), MainD(<<LetIn("id", Box(x)), GetOf("Box", N("id"), "v", 0)>>)>> : x \in {I(1), True}}

\* Types with another name, or with none that can be looked into.
ListD(gs, t) == ADTD("List", gs, <<Ctor("Nil", <<>>), Ctor("Cons", <<t>>)>>)
TakesD(t) == OfI("f", t, <<N("n")>>)
TypeNames ==
    {<<AliasD("Num", <<>>, t), TakesD(Nm("Num")), MainD(<<C("f", <<I(1)>>)>>)>> :
        t \in {IntName, BoolName, Nm("Num"), Nm("X")}}
    \cup {<<AliasD("Pair", <<Generic("T")>>, Tup(<<Nm("T"), Nm("T")>>)),
            FunAs("f", <<>>, <<"p">>, <<<<NmOf("Pair", <<t>>)>>>>, <<>>, <<At1(N("p"))>>),
            MainD(<<C("f", <<T(<<I(1), I(2)>>)>>)>>)>> : t \in {IntName, BoolName}}
    \cup {<<[d |-> "opaque", sym |-> "Handle"], FunAs("f", <<>>, <<"h">>, <<<<Nm("Handle")>>>>, <<>>, <<I(1)>>),
            MainD(<<C("f", <<I(1)>>)>>)>>,
          <<[d |-> "abstract", sym |-> "Eq"], MainD(<<I(1)>>)>>}
    \cup {<<ListD(<<>>, Nm("List")), FunAs("f", <<>>, <<"l">>, ann, <<>>, <<I(1)>>),
            MainD(<<C("f", <<Variant1("Cons", Variant1("Nil", T(<<>>)))>>)>>)>> : ann \in {<<<<>>>>, <<<<Nm("List")>>>>}}
    \cup {<<ListD(<<Generic("T")>>, Tup(<<Nm("T"), NmOf("List", <<Nm("T")>>)>>)),
            FunAs("f", <<>>, <<"l">>, <<<<NmOf("List", <<IntName>>)>>>>, <<>>, <<N("l")>>),
            MainD(<<C("f", <<Variant1("Cons", T(<<x, Variant1("Nil", T(<<>>))>>))>>)>>)>> : x \in {I(1), True}}
    \cup {<<StaticD("s", ann, x), MainD(<<N("s")>>)>> : ann \in {<<>>, <<IntName>>}, x \in {I(1), True}}
    \cup {<<OfI("f", [t |-> "typeof", e |-> N("n")], <<x>>), MainD(<<C("f", <<I(1)>>)>>)>> : x \in {I(2), True}}

\* Names used before their turn, and what leaves instead of giving a value.
Cut(x) == IfE(<<True>>, <<Ret(<<I(1)>>)>>, <<x>>)
Unseen ==
    {<<MainD(<<C("later", <<x>>)>>), OfI("later", IntName, <<N("n")>>)>> : x \in {I(1), True}}
    \cup {<<MainD(<<Op("add", <<C("later", <<x>>), I(1)>>)>>),
            FunAs("later", <<>>, <<"x">>, <<<<>>>>, <<>>, <<N("x")>>)>> : x \in {I(1), True}}
    \cup {<<OfI("count", IntName, <<IfE(<<Op("lt", <<N("n"), I(1)>>)>>, <<I(0)>>, <<C("count", <<x>>)>>)>>),
            MainD(<<C("count", <<y>>)>>)>> : x \in {I(0), True}, y \in {I(1), True}}
    \cup {<<MainD(<<b>>)>> : b \in {
            Cut(I(2)), Cut(True), LetIn("x", Ret(<<I(1)>>)), IfE(<<True>>, <<I(2)>>, <<Ret(<<I(1)>>)>>)}}
    \cup {<<MainD(<<LetIn("x", Cut(I(2))), N("x")>>)>>}

\* Clauses and what they resume with.
Resumed ==
    {<<W(Op("add", <<R("ask", I(1)), I(1)>>), <<[On("ask", ps, b) EXCEPT !.rest = r, !.arity = n]>>)>> :
        ps \in {<<"v">>, <<>>, <<"v", "w">>}, r \in BOOLEAN, n \in {1, 2},
        b \in {Res(I(1)), I(1), B(<<LetIn("z", Res(I(1))), Res(I(2))>>), W(Res(I(1)), <<Again>>)}}
    \cup {<<W(Op("add", <<R("ask", I(1)), I(1)>>),
              <<On("ask", <<"v">>, B(<<LetIn("z", W(I(1), <<Again>>)), Res(N("z"))>>))>>)>>}

\* Constraints and constructors of their own type.
PickD == FunAs("pick", <<Bounded("A", <<IntName>>), Bounded("B", <<BoolName>>)>>, <<"a", "b">>,
               <<<<Nm("A")>>, <<Nm("B")>>>>, <<Nm("A")>>, <<C("id", <<N("a")>>)>>)
KeyD(t) == ADTD("Key", <<Bounded("T", <<IntName>>)>>, <<[Ctor("Key", <<t>>) EXCEPT !.ret = <<NmOf("Key", <<t>>)>>]>>)
Bound ==
    {<<IdD, PickD, MainD(<<C("pick", <<x, y>>)>>)>> : x \in {I(1), True}, y \in {I(2), True}}
    \cup {<<KeyD(t), FunAs("f", <<>>, <<"k">>, <<<<NmOf("Key", <<u>>)>>>>, <<>>, <<N("k")>>),
            MainD(<<C("f", <<Variant1("Key", x)>>)>>)>> : t, u \in {IntName, BoolName}, x \in {I(1), True}}

\* What the types leave open: a field given twice, a parameter of type Never,
\* a variable of a clause that a let outside takes for its own, and one of a
\* function in the type of a control.
NoneTakenD == FunAs("none", <<>>, <<"n">>, <<<<Nm("Never")>>>>, <<IntName>>, <<Op("add", <<N("n"), I(1)>>)>>)
OutsideD == FunD("outside", <<"x", "y">>, <<
    LetIn("q", W(C("asks", <<I(0)>>), <<On("ask", <<"v">>,
        B(<<LetIn("z", CVia(N("x"), 0, <<N("y")>>)), Res(I(1))>>))>>)),
    LetIn("w", N("x")),
    IfE(<<CVia(N("w"), 0, <<N("y")>>)>>, <<CVia(N("w"), 0, <<N("y")>>)>>, <<I(2)>>) >>)
PutD == [d |-> "effect", sym |-> "Out", controls |-> <<"put">>, sigs |-> <<[ptys |-> <<<<>>>>, rt |-> <<>>]>>]
PutsD == FunD("puts", <<"x">>, <<R("put", T(<<N("x"), I(1)>>))>>)
Open ==
    {<<NoneTakenD, MainD(<<C("none", <<x>>)>>)>> : x \in {I(1), True}}
    \cup {Prefix \o <<OutsideD, MainD(<<C("outside", <<N(f), I(1)>>)>>)>> : f \in {"show", "early"}}
    \cup {<<PutD, PutsD>> \o mid \o <<MainD(<<W(C("puts", <<x>>), <<On("put", <<"v">>,
                 IfE(<<At1(N("v"))>>, <<Res(T(<<>>))>>, <<T(<<>>)>>))>>)>>)>> :
              mid \in {<<>>, <<FunD("g", <<>>, <<C("puts", <<I(1)>>)>>)>>}, x \in {I(1), True}}

FieldTwice == {<<Get(S(<<"a", "a">>, <<I(1), x>>), "a", 0)>> : x \in {I(2), True}}

OfTheirOwn == OddOrder \cup Bound \cup Open \cup Polymorphic \cup TypeNames \cup Unseen

PlainDef == {Main(b) : b \in Bodies}
ProgramsDef == OfTheirOwn \cup {Main(b) : b \in Bodies \cup Odd \cup ByOperand \cup Resumed \cup FieldTwice}
=============================================================================
