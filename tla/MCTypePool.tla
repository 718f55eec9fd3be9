------------------------------ MODULE MCTypePool ------------------------------
(***************************************************************************)
(* Pools with a builtin, variables of two levels or Never or a rigid       *)
(* variable, and two types made of them; up to one more type or variable   *)
(* and two questions.                                                      *)
(***************************************************************************)
EXTENDS TypePoolMeaning

int == Con(1, "int", <<>>)
never == Con(2, "never", <<>>)
var(i, level) == Variable("var", i, level)

Box(i, a) == Con(i, "box", <<a>>)
Pair(i, a, b) == Con(i, "pair", <<a, b>>)

MCPools ==
    {<<int, two, var(3, 0), four, Pair(5, a, b), six>> :
        two \in {never, var(2, 1)}, four \in {var(4, 0), var(4, 1), Variable("rigid", 4, 0)},
        a \in {1, 3}, b \in {2, 4}, six \in {Box(6, 3), Pair(6, 2, 3), Pair(6, 4, 5)}}
MCShapes == {<<"box", <<5>>>>, <<"pair", <<3, 1>>>>, <<"pair", <<1, 1>>>>}
MCQuestions == {<<3, 4>>, <<2, 3>>, <<1, 2>>, <<2, 4>>, <<4, 5>>, <<6, 5>>, <<3, 6>>, <<2, 7>>}
MCHeads == {"int", "never", "box", "pair"}

Leaves == {term("int", <<>>), rigidTerm(4)}
MCGround ==
    Leaves \cup {term("box", <<term("int", <<>>)>>), term("pair", <<term("int", <<>>), rigidTerm(4)>>),
                 term("pair", <<term("int", <<>>), term("int", <<>>)>>)}
=============================================================================
