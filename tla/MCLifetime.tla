----------------------------- MODULE MCLifetime -----------------------------
(***************************************************************************)
(* Functions for TLC, in the shapes MirLower gives a control-flow graph.   *)
(* An `if` allocates its merge block before its branches, so blocks are    *)
(* not queued in topological order and in states do change after a block   *)
(* has been processed; the merge block takes the value of the `if` as its  *)
(* parameter.  The language has no loop, but the checker is written for    *)
(* any graph and one shape has a back edge.                                *)
(***************************************************************************)
EXTENDS LifetimeExactness, LifetimeSoundness

CONSTANTS b1, b2, b3, b4, x, y

MCBlocks == {b1, b2, b3, b4}
MCLocals == {x, y}

ev(op, l) == [op |-> op, loc |-> l]

\* Bodies of at most two events: x is moved, read, initialised, hidden from
\* the checker or borrowed; y stands for a second local.
One  == {<<ev(o, x)>> : o \in {"move", "copy", "init"}}
Two  == {a \o b : a \in One, b \in {<<ev("move", x)>>, <<ev("init", x)>>}}
Plain == {<<>>} \cup One \cup Two
Short == {<<>>, <<ev("move", x)>>, <<ev("init", x)>>, <<ev("copy", y), ev("move", y)>>}
Last  == {<<>>, <<ev("move", x)>>, <<ev("copy", x)>>}
Odd   == {<<ev("opaque", x)>>, <<ev("peek", x)>>, <<ev("move", y), ev("ref", x)>>}

\* Edges of a shape, as a function from blocks to sequences of successors.
edges(s1, s2, s3, s4) ==
    [b \in MCBlocks |-> CASE b = b1 -> s1 [] b = b2 -> s2 [] b = b3 -> s3 [] b = b4 -> s4]

If    == edges(<<b3, b4>>, <<>>, <<b2>>, <<b2>>)     \* merge block b2
Match == edges(<<b4, b3>>, <<>>, <<b2>>, <<b3, b2>>) \* b4 falls through to b3
Early == edges(<<b2, b3>>, <<>>, <<>>, <<b3>>)       \* b4 is dead code after return
Loop  == edges(<<b3>>, <<b4>>, <<b2, b4>>, <<b3>>)

NoEdges == [b \in MCBlocks |-> {}]
Fun(g, h, prm, c1, c2, c3, c4) ==
    [blocks |-> <<b1, b2, b3, b4>>,
     body   |-> edges(c1, c2, c3, c4),
     succs  |-> g, hidden |-> h,
     params |-> [b \in MCBlocks |-> IF b = b2 THEN prm ELSE {}]]

PlainFuns ==
    {Fun(g, NoEdges, {}, c[1], c[2], c[3], c[4]) :
        g \in {If, Match, Early, Loop}, c \in Short \X Plain \X Short \X Last}

\* Functions with borrows, operands the checker skips, a handler edge from
\* b1 to b4 and a merge parameter.
OddFuns ==
    {Fun(g, h, prm, c[1], c[2], c[3], c[4]) :
        g \in {If, Early},
        h \in {NoEdges, [NoEdges EXCEPT ![b1] = {b4}]},
        prm \in {{}, {x}},
        c \in Last \X Short \X (Short \cup Odd) \X {<<>>, <<ev("move", x)>>}}

MCPrograms == PlainFuns \cup OddFuns

\* The functions that hide something from the checker.
HiddenFuns ==
    {Fun(If, NoEdges, {}, <<>>, c[1], c[2], <<>>) :
        c \in {<<>>, <<ev("move", x)>>, <<ev("opaque", x)>>} \X
              {<<>>, <<ev("move", x)>>, <<ev("opaque", x)>>}}
=============================================================================
