--------------------------- MODULE MCPreprocessor ---------------------------
(***************************************************************************)
(* The streams the preprocessor is checked on.  A stream is written as     *)
(* lines of words; Stream gives every token its span and adds what the     *)
(* lexer adds, a NewLine after each line and Eof.                          *)
(***************************************************************************)
EXTENDS PPReading

W(s) == Ident(s, 0)
I(n) == Number(n, 0)
O(k) == Token(k, k, 0, 0)
S(s) == Token("str", s, 0, 0)
Nl == Token("nl", "\n", 0, 0)

Stream(lines) ==
  LET t == FlattenSeq([i \in DOMAIN lines |-> Append(lines[i], Nl)])
             \o <<Token("eof", "eof", 0, 0)>>
  IN [i \in DOMAIN t |-> [t[i] EXCEPT !.at = i]]

Bracketed(t) == <<O("(")>> \o t \o <<O(")")>>
With(name, t) == <<W(name)>> \o Bracketed(t)
Def(name, body) == <<W("__define"), W(name)>> \o body
DefFun(name, params, body) == <<W("__define")>> \o With(name, params) \o body
X == <<W("X")>>

-----------------------------------------------------------------------------
(* Conditionals: every sequence of up to five of these lines. *)

IfOne == <<W("__if"), I(1)>>
IfZero == <<W("__if"), I(0)>>
IfX == <<W("__if"), W("__is_defined"), W("X")>>
ElifOne == <<W("__elif"), I(1)>>
ElifZero == <<W("__elif"), I(0)>>
Else == <<W("__else")>>
Endif == <<W("__endif")>>
DefX == Def("X", <<I(7)>>)

Opening == {IfOne, IfZero, IfX}
Middle == {ElifOne, ElifZero, Else}
Line == Opening \union Middle \union {Endif, DefX, X}

Depth(s, n) ==
  Cardinality({i \in 1..n : s[i] \in Opening}) - Cardinality({i \in 1..n : s[i] = Endif})

\* Every `__if` has its `__endif`, and an `__else` is the last of its branches.
Nested(s) ==
  /\ Depth(s, Len(s)) = 0
  /\ \A n \in DOMAIN s :
       /\ Depth(s, n) >= IF s[n] \in Middle THEN 1 ELSE 0
       /\ s[n] = Else =>
            LET later == {i \in (n + 1)..Len(s) :
                            s[i] \in Middle \union {Endif} /\
                            Depth(s, i) = Depth(s, n) - Bit(s[i] = Endif)}
            IN s[Min(later)] = Endif

\* X is defined before it is mentioned, and outside of the conditionals if a
\* condition asks for it.
InOrder(s) ==
  \A n \in DOMAIN s :
    /\ s[n] \in {X, IfX} => \A i \in (n + 1)..Len(s) : s[i] # DefX
    /\ s[n] = IfX => \A i \in 1..(n - 1) : s[i] = DefX => Depth(s, i) = 0

Conditionals ==
  {Append(s, X) : s \in
    {r \in UNION {[1..n -> Line] : n \in 1..5} : Nested(r) /\ InOrder(r)}}

-----------------------------------------------------------------------------
(* Expressions: up to three operands, in `__eval` and in a condition. *)

Operators == {"+", "-", "*", "/", "and", "or"} \union Comparisons
Logic == {"and", "or"}

\* One `and` or `or`, and one comparison on each side of it: EvalLogic and
\* EvalComparison look no further.
Single(ops) ==
  /\ Cardinality({i \in DOMAIN ops : ops[i] \in Logic}) <= 1
  /\ \A i, j \in DOMAIN ops :
       i < j /\ ops[i] \in Comparisons /\ ops[j] \in Comparisons
         => \E k \in i..j : ops[k] \in Logic

Expression(ns, ops, minus) ==
  FlattenSeq([i \in DOMAIN ns |->
    (IF i > 1 THEN <<O(ops[i - 1])>> ELSE <<>>)
      \o (IF i = minus THEN <<O("-")>> ELSE <<>>) \o <<I(ns[i])>>])

Expressions ==
  {Expression(<<a>>, <<>>, m) : a \in {0, 3}, m \in {0, 1}}
    \union {Expression(<<a, b>>, <<p>>, m) :
              a \in {0, 2, 7}, b \in {0, 2}, p \in Operators, m \in {0, 1, 2}}
    \union {Expression(<<7, a, b>>, ops, m) :
              a \in {0, 2}, b \in {2, 9}, m \in {0, 1},
              ops \in {o \in [1..2 -> Operators \ {"!=", ">", ">="}] : Single(o)}}

Evaluations ==
  {<<With("__eval", e)>> : e \in Expressions}
    \union {<<<<W("__if")>> \o e, X, Endif>> : e \in {<<I(0)>>, <<O("-"), I(1)>>}}

-----------------------------------------------------------------------------
(* Calls: a macro F(x, y, ...) or F(x, y) with the body of any two of these *)
(* pieces, called in all these ways.                                        *)

Pieces == {<<W("x")>>, <<W("y"), O("+")>>, <<W("__rest_args")>>,
           With("__only_has_rest_args", <<O(",")>>), With("G", <<W("z")>>)}

Bodies == {p \o q : p \in Pieces, q \in Pieces}
           \ {p \o p : p \in {<<W("x")>>, <<W("y"), O("+")>>}}

Params(rest) ==
  <<W("x"), O(","), W("y")>> \o (IF rest THEN <<O(","), O("...")>> ELSE <<>>)

Uses ==
  {With("F", <<I(1), O(","), I(2)>>),
   With("F", <<I(1)>>),
   With("F", Bracketed(<<I(1), O(","), I(2)>>) \o <<O(","), I(3), O(","), W("A"), O(","), I(4)>>),
   With("F", With("G", <<I(1)>>) \o <<O(","), O(","), I(5)>>)}

Calls ==
  {<<DefFun("G", <<W("u")>>, <<W("A"), W("u")>>), Def("A", <<I(8)>>),
     DefFun("F", Params(rest), b), use>> : rest \in BOOLEAN, b \in Bodies, use \in Uses}

-----------------------------------------------------------------------------
(* The other directives. *)

Counter == <<W("__counter")>>
A == <<W("A")>>
Comma == <<O(",")>>

Directives ==
  {<<Def("A", <<I(1)>>), With("__to_string", X) \o A>>,
   <<Def("VAR", <<I(9)>>), Def("A", <<W("V")>>), With("__concat", A \o Comma \o <<W("AR")>>)>>,
   <<With("__concat", A \o Comma \o <<I(1)>> \o Comma \o <<I(2)>>)>>,
   <<Def("A", <<I(2)>>), With("__repeat", A \o Comma \o Counter \o A), Counter>>,
   <<With("__repeat", <<I(0)>> \o Comma \o Counter), Counter>>,
   <<With("__repeat", <<O("-"), I(1)>> \o Comma \o Counter)>>,
   <<With("__repeat", <<I(2)>> \o Comma \o With("__repeat", <<I(2)>> \o Comma \o Counter))>>,
   <<Counter \o Counter, Def("A", Counter), A \o A, Counter>>,
   <<Def("A", <<I(1)>>), A, <<W("__delete"), W("A")>>, A>>,
   <<Def("A", <<W("B")>>), Def("B", <<W("C")>>), Def("C", <<>>), A \o <<I(1)>> \o A>>,
   <<Def("A", <<I(1)>>), Def("A", <<I(2)>>), A>>,
   <<<<W("__warning"), W("A")>>, A>>,
   <<<<W("__panic"), W("A")>>>>,
   <<IfZero, <<W("__panic"), W("A")>>, Else, A, Endif>>,
   <<<<W("__if"), W("A")>>, X, Endif>>,
   <<Def("A", <<I(1)>>), <<W("__if"), W("A"), O(">"), I(0)>>, X, Endif>>,
   <<<<W("version"), W("__linux")>>>>}

\* Streams in which a pass sees what it should not, with errors, or with
\* names that lead back to themselves.
Others ==
  {<<A, Def("A", <<I(1)>>)>>,
   <<A, Def("A", <<I(1)>>), IfOne, Endif>>,
   <<IfOne, Def("A", <<I(1)>>), Endif, Def("A", <<I(2)>>), A>>,
   <<Def("A", A), A \o A>>,
   <<Def("A", <<I(1)>>), A, <<W("__delete"), W("A")>>, A, Def("A", <<I(2)>>), A>>,
   <<Def("A", <<W("B")>>), Def("B", A), Def("C", A \o X), <<W("C")>>, <<W("C"), W("B")>>>>,
   <<Def("A", <<W("B"), I(1)>>), Def("B", <<W("D"), W("A")>>), Def("D", <<I(3)>>), A, <<W("D")>>>>,
   <<Def("A", <<W("B")>>), DefFun("B", <<>>, A), A, With("B", <<>>)>>,
   <<Def("A", With("A", <<>>)), With("A", <<>>)>>,
   <<Def("A", With("A", <<>>)), A, With("A", <<>>)>>,
   <<DefFun("F", <<W("x")>>, With("G", <<W("x")>>)),
     DefFun("G", <<W("x")>>, With("F", <<W("x")>>)), With("F", <<I(1)>>)>>,
   <<DefFun("F", <<W("x")>>, <<W("x"), O("+"), W("x")>>), With("F", Counter)>>,
   <<DefFun("F", <<W("x"), W("y")>>, X), X>>,
   <<<<W("__define"), W("F"), O("("), W("x")>>>>,
   <<Def("A", <<S("A")>>), <<S("A"), S("version")>>>>,
   <<With("__eval", <<O("not"), I(0)>>), With("__eval", <<O("not"), I(1)>>)>>,
   <<With("__eval", <<I(1), O("and"), I(0), O("or"), I(1)>>)>>,
   <<With("__eval", <<I(1), I(2)>>), With("__eval", <<>>)>>,
   <<With("__to_string", A), Def("A", <<I(1)>>)>>,
   <<With("__to_string", A \o A)>>,
   <<Def("AB", With("__concat", A \o Comma \o <<W("B")>>)), <<W("AB")>>>>,
   <<DefFun("F", X, Def("X", <<W("C")>>)), Def("C", <<W("D")>>), With("F", <<W("D")>>), <<W("C"), W("D")>>>>,
   <<With("__concat", <<>>), <<W("__concat"), O("("), W("A")>>>>,
   <<<<W("__is_defined"), W("version")>>>>,
   <<Def("F", X), <<W("F"), O("(")>>>>,
   <<IfZero, X>>, <<IfOne, X, Else>>, <<Else, X>>, <<ElifOne>>, <<Endif>>}

\* A directive as the last word of a stream that has no Eof.
Bare(t) == [i \in DOMAIN t |-> [t[i] EXCEPT !.at = i]]
Cut == {Bare(t) : t \in {<<W("__define"), W("A")>>, Def("A", X), <<W("__delete")>>,
                         <<W("__warning")>>, <<W("__is_defined")>>}}

-----------------------------------------------------------------------------

MCTidy ==
  {Stream(lines) : lines \in Conditionals \union Evaluations \union Calls \union Directives}

MCSources == MCTidy \union {Stream(lines) : lines \in Others} \union Cut
=============================================================================
