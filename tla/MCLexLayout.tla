----------------------------- MODULE MCLexLayout -----------------------------
(* Files of at most four lines: every sequence of the lines below, which   *)
(* reach two levels up and down, with one width that is not a multiple.    *)
EXTENDS LexLayout

line(w, r) == [width |-> w, rest |-> r]

MCLines == {line(w, "code") : w \in {0, 3, 4, 8}}
           \cup {line(0, "blank"), line(3, "cr"), line(4, "comment"), line(0, "bad")}

MCSources == UNION {[1..n -> MCLines] : n \in 1..4}
=============================================================================
