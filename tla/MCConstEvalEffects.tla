------------------------- MODULE MCConstEvalEffects -------------------------
(***************************************************************************)
(* Crates with effects, lowered as mir_lower lowers `with`: the merge      *)
(* block first, then the two blocks of the body, what the body needs, and  *)
(* for the handler its block, its body and the block that installs it.     *)
(* Control 1 returns an int and is always resumed; control 2 returns unit  *)
(* and its handler may leave.                                              *)
(***************************************************************************)
EXTENDS MCConstEval

raise(c, a, d) == [kind |-> "raise", control |-> c, args |-> <<a>>, dest |-> d]
resume(p, b) == [kind |-> "resume", place |-> p, target |-> b]
install(h, n, c) == [kind |-> "install", handler |-> h, next |-> n, control |-> c]
arg(l) == let(l, [op |-> "arg", id |-> 1])
with(b, l) == [b EXCEPT !.params = <<l>>]
unit == con(UnitValue)

\* main (1..2) calls f on a constant.
M == << block(<<let(2, num(1))>>, call(2, loc(2), 3, 2)),
        block(<<store(1, loc(3))>>, return) >>

\* f (3..12): with (body) catch control 1 as 5 => (answer), then (after).
Fn(body, answer, after) ==
    << block(<<>>, goto(10)),
       with(block(<<store(1, loc(3))>>, after), 3),
       block(<<>>, goto(6)),
       block(<<>>, body),
       block(<<>>, pass(4, loc(4))),
       with(block(<<arg(5)>>, goto(9)), 5),
       block(<<let(6, loc(5))>>, answer),
       block(<<>>, install(8, 5, 1)),
       block(<<>>, resume(6, 4)),
       block(<<>>, return) >>

\* g (13..21): with (body) catch control 2 => leave, then (after); and
\* without a `with`, raise 1 alone.
Gn(body, after) ==
    << block(<<>>, goto(19)),
       with(block(<<store(1, loc(3))>>, after), 4),
       block(<<>>, goto(16)),
       block(<<>>, body),
       block(<<>>, pass(14, unit)),
       with(block(<<>>, goto(20)), 5),
       block(<<>>, install(18, 15, 2)),
       block(<<>>, pass(14, unit)),
       block(<<>>, return) >>
Raiser ==
    << block(<<>>, raise(1, loc(2), 3)),
       block(<<store(1, loc(3))>>, return) >>

\* k: with (inner) catch control 2 => leave; its blocks start at n.
K(n, inner) ==
    << block(<<>>, goto(n + 6)),
       with(block(<<>>, return), 3),
       block(<<>>, goto(n + 3)),
       block(<<>>, inner),
       block(<<>>, pass(n + 1, loc(4))),
       with(block(<<>>, goto(n + 7)), 5),
       block(<<>>, install(n + 5, n + 2, 2)),
       block(<<>>, pass(n + 1, unit)) >>
\* r: raises control 2; q: raises control 1 from one call further down.
R == << block(<<>>, raise(2, num(0), 3)), block(<<>>, return) >>

unitFun(bs, size) ==
    [blocks |-> bs, ret |-> 1, size |-> size, consteval |-> TRUE, ty |-> "unit",
     low |-> wide, span |-> 2 * Half]

Effects(f, g, kBody) ==
    LET gEnd == 12 + Len(g)
        kEnd == gEnd + 8
        seq(a, b) == [i \in 1..(b - a + 1) |-> a + i - 1]
    IN [blocks |-> M \o f \o g \o K(gEnd + 1, kBody) \o R \o Raiser, main |-> 1,
        merge |-> [b \in 1..(kEnd + 4) |->
                      CASE b = 8 -> 4 [] b = 18 -> 14 [] b = gEnd + 6 -> gEnd + 2 [] OTHER -> 0],
        funs |-> << fun(<<1, 2>>, 3, FALSE, wide), fun(seq(3, 12), 6, TRUE, wide),
                    fun(seq(13, gEnd), 5, TRUE, wide),
                    unitFun(seq(gEnd + 1, kEnd), 5), unitFun(<<kEnd + 1, kEnd + 2>>, 3),
                    fun(<<kEnd + 3, kEnd + 4>>, 3, TRUE, wide) >>]

Bodies  == {raise(1, num(2), 4), call(3, num(1), 4, 7), goto(7)}
Replies == {resume(6, 4), call(4, num(0), 4, 11)}
Afters  == {return, raise(1, num(0), 4), call(3, num(0), 1, 12), call(1, num(0), 1, 12)}
Gs == {Gn(body, after) : body \in {raise(1, loc(2), 3), call(6, loc(2), 3, 17)},
                         after \in {return, raise(2, num(0), 4), raise(1, num(0), 3)}}
      \cup {Raiser}
KBodies(n) == {raise(2, num(0), 4), call(5, num(0), 4, n)}

EffectCrates ==
    UNION {{Effects(Fn(body, answer, after), g, kb) :
                body \in Bodies, answer \in Replies, after \in Afters,
                kb \in KBodies(12 + Len(g) + 5)} : g \in Gs}

AllCrates == MCCrates \cup EffectCrates
=============================================================================
