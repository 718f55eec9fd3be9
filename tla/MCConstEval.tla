----------------------------- MODULE MCConstEval -----------------------------
(***************************************************************************)
(* Crates without effects: main (function 1) calls f (2) and then f or g   *)
(* (3); f branches on its parameter and calls g or itself.                 *)
(***************************************************************************)
EXTENDS ConstEvalMeaning

con(v) == [op |-> "const", v |-> v]
loc(l) == [op |-> "local", id |-> l]
bin(f, l, r) == [op |-> "binary", f |-> f, l |-> l, r |-> r]
num(n) == con(IntValue(n))
let(l, rv) == [kind |-> "let", local |-> l, rv |-> rv]
store(l, rv) == [kind |-> "store", local |-> l, rv |-> rv]
block(stmts, term) == [params |-> <<>>, stmts |-> stmts, term |-> term]
goto(b) == [kind |-> "goto", target |-> b, args |-> <<>>]
pass(b, rv) == [kind |-> "goto", target |-> b, args |-> <<rv>>]
call(f, a, d, b) == [kind |-> "call", func |-> f, args |-> <<a>>, dest |-> d, target |-> b]
return == [kind |-> "return"]
\* Words have four bits; there are signed types of four and of three bits,
\* and an unsigned one of three.
wide == -Half
fun(bs, size, ct, low) ==
    [blocks |-> bs, ret |-> 1, size |-> size, consteval |-> ct, ty |-> "int",
     low |-> low, span |-> IF low = wide THEN 2 * Half ELSE Half]

\* main: let x = a; [x = b;] f(x) + h(c)
Main(a, again, h, c) ==
    << block(<<let(2, num(a))>> \o again, call(2, loc(2), 3, 2)),
       block(<<let(5, num(c))>>, call(h, loc(5), 4, 3)),
       block(<<store(1, bin("add", loc(3), loc(4)))>>, return) >>

\* main: let x = a; f(x) + h(x), where x is set in another block than the call.
MainTwice(a, h) ==
    << block(<<let(2, num(a))>>, call(2, loc(2), 3, 2)),
       block(<<>>, call(h, loc(2), 4, 3)),
       block(<<store(1, bin("sub", loc(3), loc(4)))>>, return) >>

\* f(n): if n == 0 then 1 else callee(arg) + 1, the branches meeting in a
\* merge block that takes the value as its parameter.
F(callee, arg) ==
    << block(<<let(3, bin("eq", loc(2), num(0)))>>,
             [kind |-> "switch", disc |-> loc(3), targets |-> <<<<BoolValue(TRUE), 6>>>>, default |-> 7]),
       [block(<<store(1, loc(6))>>, return) EXCEPT !.params = <<6>>],
       block(<<>>, pass(5, num(1))),
       block(<<let(4, arg)>>, call(callee, loc(4), 7, 8)),
       block(<<>>, pass(5, bin("add", loc(7), num(1)))) >>

\* g(n): n op n, or a body with something the evaluator rejects
G(stmt, term) == << block(<<stmt>>, term) >>

Crate(m, f, g, low) ==
    [blocks |-> m \o f \o g, main |-> 1, merge |-> <<>>,
     funs |-> << fun(<<1, 2, 3>>, 5, FALSE, wide), fun(<<4, 5, 6, 7, 8>>, 7, TRUE, wide),
                 fun(<<9>>, 2, TRUE, low) >>]

MCCrates ==
    {Crate(Main(a, again, h, c), F(2, bin("sub", loc(2), num(1))), G(store(1, loc(2)), return), wide) :
        a \in 0..2, again \in {<<>>}, h \in {2, 3}, c \in 0..2}
    \cup {Crate(Main(1, <<>>, 3, 1), F(1, num(1)), G(store(1, loc(2)), return), wide)}
    \cup
    {Crate(Main(a, again, h, c), F(3, arg), G(store(1, bin(op, loc(2), loc(2))), return), low) :
        a \in 0..2, again \in {<<>>, <<store(2, num(1))>>}, h \in {2, 3}, c \in 0..2,
        arg \in {num(1), num(3), loc(2)}, op \in {"add", "mul", "div"}, low \in {wide, wide \div 2, 0}}
    \cup
    {Crate(MainTwice(a, h), F(3, num(3)), G(store(1, bin(op, loc(2), loc(2))), return), wide) :
        a \in {2, 3, -8}, h \in {2, 3}, op \in {"mul", "div"}}
    \cup
    {Crate(Main(a, <<>>, 3, 1), F(3, num(2)), G(s, t), wide) :
        a \in 0..1,
        s \in {store(1, [op |-> "bad"]), store(1, [op |-> "unary", f |-> "neg", r |-> loc(2)]),
               store(1, bin("lt", loc(2), num(2)))},
        t \in {return, [kind |-> "unreachable"], [kind |-> "callptr"]}}

\* Crates whose calls in consteval functions depend on the parameter.
VaryingCrates ==
    {Crate(Main(2, <<>>, 2, 1), F(3, loc(2)), G(store(1, loc(2)), return), wide)}
=============================================================================
