----------------------------- MODULE HirProgram -----------------------------
(***************************************************************************)
(* The program the type checker and the lowering work on: declarations in  *)
(* the order of the HIR pool, expressions as trees, names resolved.  A     *)
(* name stands for its symbol; no two symbols share one.                   *)
(***************************************************************************)
EXTENDS Integers, Sequences, FiniteSets, TLC

CONSTANTS Programs    \* sequences of declarations

VARIABLES prog        \* the program being compiled

\* Values: integers, booleans (0 and 1), functions and enums have a number;
\* tuples, structs, references and payloads have parts.
Val(c, n, parts) == [c |-> c, n |-> n, parts |-> parts]
Unit == Val("tuple", 0, <<>>)

\* The name of the type of integers, as an annotation.
IntName == [t |-> "name", sym |-> "I32", args |-> <<>>]

DeclsOf(kind) == {i \in 1..Len(prog) : prog[i].d = kind}
DeclOf(kind, sym) == prog[CHOOSE i \in DeclsOf(kind) : prog[i].sym = sym]
Symbols(kind) == {prog[i].sym : i \in DeclsOf(kind)}

=============================================================================
