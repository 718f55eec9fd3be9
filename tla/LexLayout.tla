------------------------------ MODULE LexLayout ------------------------------
(***************************************************************************)
(* The layout of leaf_lexer: how main_loop and tokenize turn the           *)
(* indentation of lines into Indent and Dedent tokens.                     *)
(*                                                                         *)
(* A source is a sequence of lines.  Of a line only its leading width (a   *)
(* tab counts for INDENT_WIDTH columns) and what follows are kept:         *)
(*   "blank"    nothing but the line feed or the end of the file           *)
(*   "cr"       a carriage return before the line feed                     *)
(*   "comment"  a comment, doc comments included                           *)
(*   "code"     something that gives tokens, here a single one             *)
(*   "bad"      only characters the lexer rejects                          *)
(* A string that spans lines is part of one line.                          *)
(***************************************************************************)
EXTENDS Integers, Sequences, FiniteSets

CONSTANTS IndentWidth,     \* INDENT_WIDTH
          Sources          \* the files given to the lexer

Line == [width : Nat, rest : {"blank", "cr", "comment", "code", "bad"}]

ASSUME LayoutAssumption ==
    /\ IndentWidth \in Nat \ {0}
    /\ \A s \in Sources : s \in Seq(Line) /\ s # <<>>

VARIABLES
    src,        \* the file
    ln,         \* the line being read
    pc,         \* "start", "line", "indent", "end", "tail" or "done"
    level,      \* indent_level
    tokens,     \* the tokens pushed, each with its line
    errors,     \* how many diagnostics
    closing     \* what is left of the loop over 0..indent_level in tokenize

vars == <<src, ln, pc, level, tokens, errors, closing>>

Kinds == {"Token", "NewLine", "Indent", "Dedent", "Eof"}
Tok(k) == [kind |-> k, line |-> ln]
Push(k) == tokens' = Append(tokens, Tok(k))

\* The level a line asks for.
LevelOf(k) == src[k].width \div IndentWidth

Init ==
    /\ src \in Sources
    /\ ln = 1
    /\ pc = "start"
    /\ level = 0
    /\ tokens = <<>>
    /\ errors = 0
    /\ closing = 0

\* State Start up to the next line feed or the end of the file.
Content ==
    /\ pc = "start"
    /\ IF src[ln].rest = "code" THEN Push("Token") ELSE UNCHANGED tokens
    /\ errors' = IF src[ln].rest = "bad" THEN errors + 1 ELSE errors
    /\ pc' = IF ln < Len(src) THEN "line" ELSE "end"
    /\ UNCHANGED <<src, ln, level, closing>>

NewLine ==
    /\ pc = "line"
    /\ Push("NewLine")
    /\ ln' = ln + 1

\* A line with nothing on it.
Empty(k) == src[k].rest \in {"blank", "cr"}

\* Faulty: an empty line is indented like any other.
SkipLineIndents ==
    /\ NewLine
    /\ Empty(ln + 1)
    /\ pc' = IF src[ln + 1].width % IndentWidth = 0 THEN "indent" ELSE "start"
    /\ UNCHANGED <<src, level, errors, closing>>

\* State LineStart: an empty line leaves the level alone.
SkipLine ==
    /\ NewLine
    /\ Empty(ln + 1)
    /\ pc' = "start"
    /\ UNCHANGED <<src, level, errors, closing>>

\* A width that is no multiple of INDENT_WIDTH: reported, and the level is
\* forgotten without a Dedent.
BadIndent ==
    /\ NewLine
    /\ ~Empty(ln + 1)
    /\ src[ln + 1].width % IndentWidth # 0
    /\ errors' = errors + 1
    /\ level' = 0
    /\ pc' = "start"
    /\ UNCHANGED <<src, closing>>

\* Any other line, one with only a comment included.
GoodIndent ==
    /\ NewLine
    /\ ~Empty(ln + 1)
    /\ src[ln + 1].width % IndentWidth = 0
    /\ pc' = "indent"
    /\ UNCHANGED <<src, level, errors, closing>>

\* The two loops: one token for each level.
Indent ==
    /\ pc = "indent" /\ LevelOf(ln) > level
    /\ level' = level + 1
    /\ Push("Indent")
    /\ UNCHANGED <<src, ln, pc, errors, closing>>

\* Faulty: a Dedent whatever the levels are.
DedentUnguarded ==
    /\ pc = "indent"
    /\ level' = level - 1
    /\ Push("Dedent")
    /\ UNCHANGED <<src, ln, pc, errors, closing>>

\* Faulty: one Dedent however many blocks the line closes.
DedentOnce ==
    /\ pc = "indent" /\ LevelOf(ln) < level
    /\ level' = LevelOf(ln)
    /\ Push("Dedent")
    /\ UNCHANGED <<src, ln, pc, errors, closing>>

Dedent ==
    /\ pc = "indent" /\ LevelOf(ln) < level
    /\ level' = level - 1
    /\ Push("Dedent")
    /\ UNCHANGED <<src, ln, pc, errors, closing>>

LevelReached ==
    /\ pc = "indent" /\ LevelOf(ln) = level
    /\ pc' = "start"
    /\ UNCHANGED <<src, ln, level, tokens, errors, closing>>

\* Faulty: the last statement is left without its NewLine.
EndOfFileNoNewLine ==
    /\ pc = "end"
    /\ closing' = level
    /\ pc' = "tail"
    /\ UNCHANGED <<src, ln, level, tokens, errors>>

\* Faulty: the open blocks are left open.
EndOfFileNoClose ==
    /\ pc = "end"
    /\ IF tokens # <<>> /\ tokens[Len(tokens)].kind # "NewLine"
       THEN Push("NewLine") ELSE UNCHANGED tokens
    /\ closing' = 0
    /\ pc' = "tail"
    /\ UNCHANGED <<src, ln, level, errors>>

\* tokenize, after main_loop: the last line is terminated ...
EndOfFile ==
    /\ pc = "end"
    /\ IF tokens # <<>> /\ tokens[Len(tokens)].kind # "NewLine"
       THEN Push("NewLine") ELSE UNCHANGED tokens
    /\ closing' = level
    /\ pc' = "tail"
    /\ UNCHANGED <<src, ln, level, errors>>

\* ... every open block is closed ...
CloseBlock ==
    /\ pc = "tail" /\ closing > 0
    /\ Push("Dedent")
    /\ closing' = closing - 1
    /\ UNCHANGED <<src, ln, pc, level, errors>>

\* ... and Eof is pushed.
PushEof ==
    /\ pc = "tail" /\ closing = 0
    /\ Push("Eof")
    /\ pc' = "done"
    /\ UNCHANGED <<src, ln, level, errors, closing>>

Next ==
    \/ Content
    \/ SkipLine \/ BadIndent \/ GoodIndent
    \/ Indent \/ Dedent \/ LevelReached
    \/ EndOfFile \/ CloseBlock \/ PushEof

Spec == Init /\ [][Next]_vars

-----------------------------------------------------------------------------
\* Types of the lexer's state.
TypeOK ==
    /\ src \in Sources
    /\ ln \in 1..Len(src)
    /\ pc \in {"start", "line", "indent", "end", "tail", "done"}
    /\ pc = "line" => ln < Len(src)
    /\ level \in Nat /\ errors \in Nat /\ closing \in Nat
    /\ tokens \in Seq([kind : Kinds, line : Nat])

\* How many of the first n tokens are of kind k, and how many blocks are
\* open after them.
Count(k, n) == Cardinality({i \in 1..n : tokens[i].kind = k})
Depth(n) == Count("Indent", n) - Count("Dedent", n)

\* No Dedent closes a block that no Indent opened, in a rejected file too,
\* and an accepted file closes every block it opens (the parser loops until
\* the Dedent of a block, parser lib.rs 506).
Balanced ==
    /\ \A n \in 0..Len(tokens) : Depth(n) >= 0
    /\ pc = "done" /\ errors = 0 => Depth(Len(tokens)) = 0

\* The indentation of line j is that of line k: there are only empty lines
\* after it.  The first line is read in state Start, so its own is ignored.
Decides(j, k) ==
    /\ j \in 1..k /\ (j = 1 \/ ~Empty(j))
    /\ \A i \in (j + 1)..k : Empty(i)
Indentation(j) == IF j = 1 THEN 0 ELSE LevelOf(j)

\* In an accepted file a line is nested as deeply as the last line up to it
\* that is not empty is indented, from its first token to its NewLine,
\* whatever lines came before: an empty line, however wide, neither closes
\* a block that goes on after it nor opens one.
LayoutFaithful ==
    errors = 0 =>
        \A i \in 1..Len(tokens) :
            tokens[i].kind \in {"Token", "NewLine"} =>
                \A j \in 1..tokens[i].line : Decides(j, tokens[i].line) => Depth(i) = Indentation(j)

\* Every token of code is followed by the NewLine that ends its statement
\* (the parser expects one), on the last line of the file too.
StatementsEnd ==
    \A i \in 1..Len(tokens) :
        tokens[i].kind = "Token" =>
            IF i < Len(tokens) THEN tokens[i + 1].kind = "NewLine"
                               ELSE pc \in {"line", "end"}
=============================================================================
