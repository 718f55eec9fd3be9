--------------------------- MODULE LexLayoutProofs ---------------------------
(***************************************************************************)
(* The layout of every file is right: TypeOK, Balanced, LayoutFaithful and *)
(* StatementsEnd are invariants of LexLayout, for every width of a level   *)
(* and every file.                                                         *)
(*                                                                         *)
(* The argument.  indent_level never exceeds the number of open blocks,    *)
(* and is that number as long as nothing was reported (Open): a line of    *)
(* a bad width sets the level back without closing what is open, so the    *)
(* level is then only a lower bound.  Every Dedent is pushed at a level    *)
(* above 0, so it closes an open block.  From the first token of a line to *)
(* its NewLine the level is that of the line that decides (AtLevel).       *)
(***************************************************************************)
EXTENDS LexLayout, FiniteSetTheorems, SequenceTheorems, TLAPS

Token == [kind : Kinds, line : Nat]

-----------------------------------------------------------------------------
(* Counting tokens. *)

\* Count and Depth of any sequence of tokens.
CountIn(ts, k, n) == Cardinality({i \in 1..n : ts[i].kind = k})
DepthIn(ts, n) == CountIn(ts, "Indent", n) - CountIn(ts, "Dedent", n)

LEMMA DepthIsDepthIn == \A n : Depth(n) = DepthIn(tokens, n)
BY DEF Depth, DepthIn, Count, CountIn

LEMMA CountIsFinite ==
    ASSUME NEW ts, NEW k, NEW n \in Nat
    PROVE  IsFiniteSet({i \in 1..n : ts[i].kind = k})
<1>1. IsFiniteSet(1..n)
    BY FS_Interval
<1> QED BY <1>1, FS_Subset

LEMMA CountInType ==
    ASSUME NEW ts, NEW k, NEW n \in Nat
    PROVE  CountIn(ts, k, n) \in Nat
BY CountIsFinite, FS_CardinalityType DEF CountIn

\* A sequence and its beginning have the same counts up to its end.
LEMMA CountInAgrees ==
    ASSUME NEW ts, NEW us, NEW k, NEW n \in Nat,
           \A i \in 1..n : us[i] = ts[i]
    PROVE  CountIn(us, k, n) = CountIn(ts, k, n)
<1>1. {i \in 1..n : us[i].kind = k} = {i \in 1..n : ts[i].kind = k}
    OBVIOUS
<1> QED BY <1>1 DEF CountIn

LEMMA CountInNext ==
    ASSUME NEW ts, NEW k, NEW n \in Nat
    PROVE  CountIn(ts, k, n + 1) = CountIn(ts, k, n) + (IF ts[n + 1].kind = k THEN 1 ELSE 0)
<1> DEFINE S == {i \in 1..n : ts[i].kind = k}
           T == {i \in 1..(n + 1) : ts[i].kind = k}
<1>1. IsFiniteSet(S)
    <2>1. IsFiniteSet({i \in 1..n : ts[i].kind = k})
        BY CountIsFinite
    <2> QED BY <2>1
<1>2. n + 1 \notin S
    OBVIOUS
<1>3. CountIn(ts, k, n) = Cardinality(S) /\ CountIn(ts, k, n + 1) = Cardinality(T)
    BY DEF CountIn
<1>4. Cardinality(S) \in Nat
    BY <1>1, FS_CardinalityType
<1>5. CASE ts[n + 1].kind = k
    <2>1. T = S \cup {n + 1}
        BY <1>5
    <2>2. Cardinality(S \cup {n + 1}) = Cardinality(S) + 1
        BY <1>1, <1>2, FS_AddElement
    <2> HIDE DEF S, T
    <2> QED BY <1>3, <1>5, <2>1, <2>2
<1>6. CASE ts[n + 1].kind # k
    <2>1. T = S
        BY <1>6
    <2> HIDE DEF S, T
    <2> QED BY <1>3, <1>4, <1>6, <2>1
<1> QED BY <1>5, <1>6

LEMMA CountInNone == \A ts, k : CountIn(ts, k, 0) = 0
<1>1. \A ts, k : {i \in 1..0 : ts[i].kind = k} = {}
    OBVIOUS
<1> QED BY <1>1, FS_EmptySet DEF CountIn

\* How deep the next token is.
Change(k) == IF k = "Indent" THEN 1 ELSE IF k = "Dedent" THEN -1 ELSE 0

LEMMA DepthInType ==
    ASSUME NEW ts, NEW n \in Nat
    PROVE  DepthIn(ts, n) \in Int
BY CountInType DEF DepthIn

LEMMA DepthInAgrees ==
    ASSUME NEW ts, NEW us, NEW n \in Nat,
           \A i \in 1..n : us[i] = ts[i]
    PROVE  DepthIn(us, n) = DepthIn(ts, n)
<1>1. /\ CountIn(us, "Indent", n) = CountIn(ts, "Indent", n)
      /\ CountIn(us, "Dedent", n) = CountIn(ts, "Dedent", n)
    BY CountInAgrees
<1> QED BY <1>1 DEF DepthIn

LEMMA DepthInNext ==
    ASSUME NEW ts, NEW n \in Nat
    PROVE  DepthIn(ts, n + 1) = DepthIn(ts, n) + Change(ts[n + 1].kind)
<1>1. /\ CountIn(ts, "Indent", n) \in Nat
      /\ CountIn(ts, "Dedent", n) \in Nat
    BY CountInType
<1>2. /\ CountIn(ts, "Indent", n + 1) = CountIn(ts, "Indent", n) + (IF ts[n + 1].kind = "Indent" THEN 1 ELSE 0)
      /\ CountIn(ts, "Dedent", n + 1) = CountIn(ts, "Dedent", n) + (IF ts[n + 1].kind = "Dedent" THEN 1 ELSE 0)
    BY CountInNext
<1> QED BY <1>1, <1>2 DEF DepthIn, Change

-----------------------------------------------------------------------------
(* The inductive invariant. *)

\* What indent_level says of the blocks that are open.
Bounds(n) == n <= Depth(Len(tokens)) /\ (errors = 0 => n = Depth(Len(tokens)))

NeverBelow == \A n \in 0..Len(tokens) : Depth(n) >= 0

Open ==
    /\ pc \in {"start", "line", "indent", "end"} => Bounds(level)
    /\ pc = "tail" => Bounds(closing)
    /\ pc = "done" /\ errors = 0 => Depth(Len(tokens)) = 0

\* The level is that of the last line that was not empty, once its own
\* Indents and Dedents are pushed.
Settled(n) == \A j \in 1..ln : Decides(j, ln) => n = Indentation(j)
AtLevel ==
    /\ pc = "indent" => ln # 1 /\ ~Empty(ln)
    /\ pc \in {"start", "line", "end"} /\ errors = 0 => Settled(level)

IInv == TypeOK /\ NeverBelow /\ Open /\ AtLevel /\ LayoutFaithful /\ StatementsEnd

-----------------------------------------------------------------------------
(* Pushing a token, and leaving the tokens alone. *)

LEMMA SourceFacts ==
    ASSUME TypeOK
    PROVE  /\ src \in Seq(Line) /\ Len(src) \in Nat /\ Len(src) >= 1
           /\ \A k \in 1..Len(src) : src[k] \in Line /\ LevelOf(k) \in Nat
<1>1. src \in Seq(Line) /\ src # <<>>
    BY LayoutAssumption DEF TypeOK
<1>2. Len(src) \in Nat /\ Len(src) >= 1 /\ \A k \in 1..Len(src) : src[k] \in Line
    BY <1>1
<1>3. \A w \in Nat : w \div IndentWidth \in Nat
    BY LayoutAssumption
<1> QED BY <1>1, <1>2, <1>3 DEF Line, LevelOf

\* A line that is not empty decides for itself; an empty one leaves it to
\* the line that decided before.
LEMMA DecidesFacts ==
    ASSUME TypeOK
    PROVE  /\ \A j \in 1..ln : Decides(j, ln) /\ ~Empty(ln) => j = ln
           /\ \A j \in 1..(ln + 1) : Decides(j, ln + 1) /\ Empty(ln + 1) => j \in 1..ln /\ Decides(j, ln)
           /\ ln \in Nat /\ ln # 0
<1>1. ln \in Nat /\ ln # 0
    BY SourceFacts DEF TypeOK
<1>2. ASSUME NEW j \in 1..ln, Decides(j, ln), ~Empty(ln)
      PROVE  j = ln
    <2>1. ~(j < ln)
        <3>1. j < ln => ln \in (j + 1)..ln
            BY <1>1
        <3> QED BY <1>2, <3>1 DEF Decides
    <2> QED BY <1>1, <2>1
<1>3. ASSUME NEW j \in 1..(ln + 1), Decides(j, ln + 1), Empty(ln + 1)
      PROVE  j \in 1..ln /\ Decides(j, ln)
    <2>1. j # ln + 1
        BY <1>1, <1>3 DEF Decides
    <2>2. j \in 1..ln /\ (j + 1)..ln \subseteq (j + 1)..(ln + 1)
        BY <1>1, <2>1
    <2> QED BY <1>3, <2>2 DEF Decides
<1> QED BY <1>1, <1>2, <1>3

LEMMA PushFacts ==
    ASSUME TypeOK, NEW k \in Kinds, Push(k)
    PROVE  /\ tokens \in Seq(Token) /\ Len(tokens) \in Nat
           /\ tokens' \in Seq(Token) /\ Len(tokens') = Len(tokens) + 1
           /\ \A i \in 1..Len(tokens) : tokens'[i] = tokens[i]
           /\ tokens'[Len(tokens) + 1] = [kind |-> k, line |-> ln]
           /\ \A n \in 0..Len(tokens) : DepthIn(tokens', n) = DepthIn(tokens, n)
           /\ DepthIn(tokens', Len(tokens')) = DepthIn(tokens, Len(tokens)) + Change(k)
<1> DEFINE t == [kind |-> k, line |-> ln]
<1>1. tokens \in Seq(Token) /\ t \in Token
    BY SourceFacts DEF TypeOK, Token
<1>2. tokens' = Append(tokens, t)
    BY DEF Push, Tok
<1>3. /\ tokens' \in Seq(Token) /\ Len(tokens') = Len(tokens) + 1 /\ Len(tokens) \in Nat
      /\ \A i \in 1..Len(tokens) : tokens'[i] = tokens[i]
      /\ tokens'[Len(tokens) + 1] = t
    BY <1>1, <1>2, AppendProperties, LenProperties
<1>4. ASSUME NEW n \in 0..Len(tokens)
      PROVE  DepthIn(tokens', n) = DepthIn(tokens, n)
    <2>1. n \in Nat /\ \A i \in 1..n : tokens'[i] = tokens[i]
        BY <1>3
    <2> QED BY <2>1, DepthInAgrees
<1>5. DepthIn(tokens', Len(tokens) + 1) = DepthIn(tokens', Len(tokens)) + Change(k)
    BY <1>3, DepthInNext
<1> QED BY <1>1, <1>3, <1>4, <1>5

\* What a pushed token does to the parts of the invariant about tokens.
LEMMA PushKeeps ==
    ASSUME IInv, NEW k \in Kinds, Push(k), UNCHANGED src,
           k = "Dedent" => DepthIn(tokens, Len(tokens)) > 0,
           k = "Token" => pc' \in {"line", "end"},
           k # "NewLine" => pc # "line" /\ (tokens # <<>> => tokens[Len(tokens)].kind # "Token"),
           k \in {"Token", "NewLine"} /\ errors' = 0 => Settled(DepthIn(tokens, Len(tokens))),
           errors \in Nat, errors' \in Nat, errors' >= errors
    PROVE  NeverBelow' /\ LayoutFaithful' /\ StatementsEnd'
<1> DEFINE m == Len(tokens)
<1>1. /\ tokens \in Seq(Token) /\ m \in Nat
      /\ tokens' \in Seq(Token) /\ Len(tokens') = m + 1
      /\ \A i \in 1..m : tokens'[i] = tokens[i]
      /\ tokens'[m + 1] = [kind |-> k, line |-> ln]
      /\ \A n \in 0..m : DepthIn(tokens', n) = DepthIn(tokens, n)
      /\ DepthIn(tokens', m + 1) = DepthIn(tokens, m) + Change(k)
    BY PushFacts DEF IInv
<1>2. /\ \A n \in 0..m : DepthIn(tokens, n) >= 0
      /\ DepthIn(tokens, m) \in Int
    BY <1>1, DepthIsDepthIn, DepthInType DEF IInv, NeverBelow
<1>3. NeverBelow'
    <2>1. ASSUME NEW n \in 0..(m + 1)
          PROVE  DepthIn(tokens', n) >= 0
        <3>1. CASE n = m + 1
            BY <3>1, <1>1, <1>2 DEF Change
        <3>2. CASE n \in 0..m
            BY <3>2, <1>1, <1>2
        <3> QED BY <3>1, <3>2, <1>1
    <2> QED BY <2>1, <1>1 DEF NeverBelow, Depth, DepthIn, Count, CountIn
<1>4. LayoutFaithful'
    <2>1. SUFFICES ASSUME errors' = 0, NEW i \in 1..(m + 1), tokens'[i].kind \in {"Token", "NewLine"},
                          NEW j \in 1..tokens'[i].line, Decides(j, tokens'[i].line)
                   PROVE  DepthIn(tokens', i) = Indentation(j)
        BY <1>1 DEF LayoutFaithful, LevelOf, Indentation, Decides, Empty, Depth, DepthIn, Count, CountIn
    <2>2. CASE i = m + 1
        BY <2>1, <2>2, <1>1, <1>2 DEF Change, Settled
    <2>3. CASE i \in 1..m
        <3>1. errors = 0
            BY <2>1
        <3>2. i \in 0..m /\ tokens[i].kind \in {"Token", "NewLine"} /\ tokens[i] = tokens'[i]
            BY <2>1, <2>3, <1>1
        <3>3. DepthIn(tokens, i) = Indentation(j)
            BY <2>1, <3>1, <3>2, <2>3, DepthIsDepthIn DEF IInv, LayoutFaithful
        <3> QED BY <3>2, <3>3, <2>3, <1>1
    <2> QED BY <2>2, <2>3, <1>1
<1>5. StatementsEnd'
    <2>1. SUFFICES ASSUME NEW i \in 1..(m + 1), tokens'[i].kind = "Token"
                   PROVE  IF i < m + 1 THEN tokens'[i + 1].kind = "NewLine"
                                       ELSE pc' \in {"line", "end"}
        BY <1>1 DEF StatementsEnd
    <2>2. CASE i = m + 1
        BY <2>1, <2>2, <1>1
    <2>3. CASE i \in 1..m
        <3>1. tokens[i].kind = "Token"
            BY <2>1, <2>3, <1>1
        <3>2. IF i < m THEN tokens[i + 1].kind = "NewLine" ELSE pc \in {"line", "end"}
            BY <3>1, <2>3 DEF IInv, StatementsEnd
        <3>3. CASE i < m
            <4>1. i + 1 \in 1..m
                BY <3>3, <2>3, <1>1
            <4> QED BY <4>1, <3>2, <3>3, <1>1
        <3>4. CASE i = m
            <4>1. k = "NewLine"
                BY <3>1, <3>4, <1>1, <2>3
            <4> QED BY <4>1, <3>4, <1>1
        <3> QED BY <3>3, <3>4, <2>3, <1>1
    <2> QED BY <2>2, <2>3, <1>1
<1> QED BY <1>3, <1>4, <1>5

LEMMA QuietKeeps ==
    ASSUME IInv, UNCHANGED <<src, tokens>>,
           pc \in {"line", "end"} => pc' = pc \/ tokens = <<>> \/ tokens[Len(tokens)].kind # "Token",
           errors \in Nat, errors' \in Nat, errors' >= errors
    PROVE  /\ NeverBelow' /\ LayoutFaithful' /\ StatementsEnd'
           /\ Depth(Len(tokens))' = Depth(Len(tokens))
<1>1. \A n : Depth(n)' = Depth(n)
    BY DEF Depth, Count
<1>2. NeverBelow' /\ LayoutFaithful'
    BY <1>1 DEF IInv, NeverBelow, LayoutFaithful, LevelOf, Indentation, Decides, Empty
<1>3. StatementsEnd'
    <2>1. tokens \in Seq(Token) /\ Len(tokens) \in Nat
        BY DEF IInv, TypeOK, Token
    <2>2. ASSUME NEW i \in 1..Len(tokens), tokens[i].kind = "Token"
          PROVE  IF i < Len(tokens) THEN tokens[i + 1].kind = "NewLine" ELSE pc' \in {"line", "end"}
        <3>1. IF i < Len(tokens) THEN tokens[i + 1].kind = "NewLine" ELSE pc \in {"line", "end"}
            BY <2>2 DEF IInv, StatementsEnd
        <3>2. CASE i = Len(tokens)
            <4>1. tokens # <<>>
                BY <2>1, <3>2
            <4> QED BY <4>1, <3>1, <3>2, <2>1, <2>2
        <3> QED BY <3>1, <3>2, <2>1
    <2> QED BY <2>2 DEF StatementsEnd
<1> QED BY <1>1, <1>2, <1>3

-----------------------------------------------------------------------------
(* Every step keeps it. *)

LEMMA InitInv == ASSUME Init PROVE IInv
<1>1. src \in Seq(Line) /\ src # <<>>
    BY LayoutAssumption DEF Init
<1>2. Len(src) \in Nat /\ Len(src) >= 1
    BY <1>1
<1>3. TypeOK
    BY <1>2 DEF Init, TypeOK
<1>4. Len(tokens) = 0
    BY DEF Init
<1>5. Depth(0) = 0
    BY CountInNone DEF Depth, Count, CountIn
<1>6. NeverBelow /\ Open
    BY <1>4, <1>5 DEF Init, NeverBelow, Open, Bounds
<1>7. AtLevel
    BY DEF Init, AtLevel, Settled, Indentation
<1>8. LayoutFaithful /\ StatementsEnd
    BY <1>4 DEF LayoutFaithful, StatementsEnd
<1> QED BY <1>3, <1>6, <1>7, <1>8 DEF IInv

LEMMA StepType == ASSUME TypeOK, Next PROVE TypeOK'
<1>1. /\ src \in Seq(Line) /\ Len(src) \in Nat /\ Len(src) >= 1
      /\ \A k \in 1..Len(src) : LevelOf(k) \in Nat
    BY SourceFacts
<1>2. ASSUME NEW k \in Kinds, Push(k)
      PROVE  tokens' \in Seq([kind : Kinds, line : Nat])
    BY <1>2, PushFacts DEF Token
<1>3. ASSUME UNCHANGED tokens
      PROVE  tokens' \in Seq([kind : Kinds, line : Nat])
    BY <1>3 DEF TypeOK
<1>4. {"Token", "NewLine", "Indent", "Dedent", "Eof"} = Kinds
    BY DEF Kinds
<1>5. tokens' \in Seq([kind : Kinds, line : Nat])
    BY <1>2, <1>3, <1>4 DEF Next, Content, SkipLine, BadIndent, GoodIndent, NewLine, Indent, Dedent,
                            LevelReached, EndOfFile, CloseBlock, PushEof
<1>6. CASE Content
    BY <1>1, <1>5, <1>6 DEF TypeOK, Content
<1>7. CASE SkipLine \/ BadIndent \/ GoodIndent
    BY <1>1, <1>5, <1>7 DEF TypeOK, SkipLine, BadIndent, GoodIndent, NewLine
<1>8. CASE Indent \/ Dedent \/ LevelReached
    BY <1>1, <1>5, <1>8 DEF TypeOK, Indent, Dedent, LevelReached
<1>9. CASE EndOfFile \/ CloseBlock \/ PushEof
    BY <1>1, <1>5, <1>9 DEF TypeOK, EndOfFile, CloseBlock, PushEof
<1> QED BY <1>6, <1>7, <1>8, <1>9 DEF Next

\* The last token is no token of code but before the end of its statement.
LEMMA LastToken ==
    ASSUME IInv, pc \notin {"line", "end"}, tokens # <<>>
    PROVE  tokens[Len(tokens)].kind # "Token"
<1>1. Len(tokens) \in 1..Len(tokens) /\ ~(Len(tokens) < Len(tokens))
    BY DEF IInv, TypeOK
<1> QED BY <1>1 DEF IInv, StatementsEnd

LEMMA StepInv == ASSUME IInv, [Next]_vars PROVE IInv'
<1> USE DEF IInv
<1> DEFINE m == Len(tokens)
<1>1. CASE UNCHANGED vars
    BY <1>1 DEF vars, TypeOK, NeverBelow, Open, Bounds, AtLevel, LayoutFaithful, StatementsEnd, Depth,
                Count, LevelOf, Settled, Indentation, Decides, Empty
<1>2. CASE Next
    <2>1. /\ m \in Nat /\ Depth(m) \in Int /\ Depth(m) >= 0 /\ Depth(m) = DepthIn(tokens, m)
          /\ level \in Nat /\ closing \in Nat /\ errors \in Nat /\ ln \in 1..Len(src)
          /\ Len(src) \in Nat
          /\ \A k \in 1..Len(src) : LevelOf(k) \in Nat
        <3>1. m \in Nat
            BY DEF TypeOK
        <3>2. m \in 0..Len(tokens)
            BY <3>1
        <3> QED BY <3>1, <3>2, SourceFacts, DepthIsDepthIn, DepthInType DEF TypeOK, NeverBelow
    <2>2. TypeOK'
        BY <1>2, StepType
    <2>3. ASSUME NEW k \in Kinds, Push(k)
          PROVE  Depth(Len(tokens))' = Depth(m) + Change(k)
        <3>1. DepthIn(tokens', Len(tokens')) = DepthIn(tokens, m) + Change(k)
            BY <2>3, PushFacts
        <3> QED BY <3>1, <2>1 DEF Depth, DepthIn, Count, CountIn
    <2>4. ASSUME UNCHANGED <<src, tokens>>,
                 pc \in {"line", "end"} => pc' = pc \/ tokens = <<>> \/ tokens[m].kind # "Token",
                 errors' \in Nat, errors' >= errors
          PROVE  /\ NeverBelow' /\ LayoutFaithful' /\ StatementsEnd'
                 /\ Depth(Len(tokens))' = Depth(m)
        BY <2>1, <2>4, QuietKeeps
    <2>16. ASSUME UNCHANGED <<src, ln, level>>, errors' = 0 => errors = 0,
                  pc' \in {"start", "line", "end"} => pc \in {"start", "line", "end"}, pc' = "indent" => pc = "indent"
           PROVE  AtLevel'
        BY <2>16 DEF AtLevel, Settled, Indentation, LevelOf, Decides, Empty
    <2>5. CASE Content
        <3>1. /\ pc = "start" /\ pc' \in {"line", "end"} /\ errors' \in Nat /\ errors' >= errors
              /\ UNCHANGED <<src, ln, level, closing>>
            BY <2>1, <2>5 DEF Content
        <3>2. CASE src[ln].rest = "code"
            <4>1. Push("Token")
                BY <2>5, <3>2 DEF Content
            <4>2. NeverBelow' /\ LayoutFaithful' /\ StatementsEnd'
                <5>1. errors' = 0 => errors = 0
                    BY <2>1, <3>1
                <5>2. errors' = 0 => Settled(DepthIn(tokens, m))
                    BY <2>1, <3>1, <3>2, <5>1 DEF Open, Bounds, AtLevel
                <5>3. tokens # <<>> => tokens[m].kind # "Token"
                    BY <3>1, LastToken
                <5> QED BY <2>1, <3>1, <4>1, <5>2, <5>3, PushKeeps DEF Kinds
            <4>3. Depth(Len(tokens))' = Depth(m)
                BY <2>1, <2>3, <4>1 DEF Kinds, Change
            <4>4. Open' /\ AtLevel'
                BY <2>1, <2>16, <3>1, <4>3 DEF Open, Bounds
            <4> QED BY <2>2, <4>2, <4>4
        <3>3. CASE src[ln].rest # "code"
            <4>1. UNCHANGED tokens
                BY <2>5, <3>3 DEF Content
            <4>2. /\ NeverBelow' /\ LayoutFaithful' /\ StatementsEnd'
                  /\ Depth(Len(tokens))' = Depth(m)
                BY <2>4, <3>1, <4>1
            <4>3. Open' /\ AtLevel'
                BY <2>1, <2>16, <3>1, <4>2 DEF Open, Bounds
            <4> QED BY <2>2, <4>2, <4>3
        <3> QED BY <3>2, <3>3
    <2>6. ASSUME NewLine, UNCHANGED <<src, closing>>, errors' \in Nat, errors' >= errors
          PROVE  /\ NeverBelow' /\ LayoutFaithful' /\ StatementsEnd'
                 /\ Depth(Len(tokens))' = Depth(m)
        <3>1. Push("NewLine")
            BY <2>6 DEF NewLine
        <3>2. errors' = 0 => Settled(DepthIn(tokens, m))
            BY <2>1, <2>6 DEF NewLine, Open, Bounds, AtLevel
        <3>3. NeverBelow' /\ LayoutFaithful' /\ StatementsEnd'
            BY <2>1, <2>6, <3>1, <3>2, PushKeeps DEF Kinds
        <3>4. Depth(Len(tokens))' = Depth(m)
            BY <2>1, <2>3, <3>1 DEF Kinds, Change
        <3> QED BY <3>3, <3>4
    <2>7. CASE SkipLine
        <3>1. /\ pc = "line" /\ ln' = ln + 1 /\ Empty(ln + 1) /\ pc' = "start" /\ NewLine
              /\ UNCHANGED <<src, level, errors, closing>>
            BY <2>7 DEF SkipLine, NewLine
        <3>2. Open'
            BY <2>1, <2>6, <3>1 DEF Open, Bounds
        <3>3. ASSUME errors' = 0 PROVE Settled(level)'
            <4>1. Settled(level)
                BY <3>1, <3>3 DEF AtLevel
            <4>2. \A j \in 1..(ln + 1) : Decides(j, ln + 1) => level = Indentation(j)
                BY <3>1, <4>1, DecidesFacts DEF Settled
            <4> QED BY <3>1, <4>2 DEF Settled, Decides, Indentation, LevelOf, Empty
        <3>4. AtLevel'
            BY <3>1, <3>3 DEF AtLevel
        <3> QED BY <2>1, <2>2, <2>6, <3>1, <3>2, <3>4
    <2>8. CASE BadIndent
        <3>1. errors' = errors + 1 /\ errors' # 0 /\ errors' \in Nat
            BY <2>1, <2>8 DEF BadIndent
        <3>2. Open' /\ AtLevel'
            BY <2>1, <2>6, <2>8, <3>1 DEF BadIndent, NewLine, Open, Bounds, AtLevel
        <3> QED BY <2>1, <2>2, <2>6, <2>8, <3>1, <3>2 DEF BadIndent
    <2>9. CASE GoodIndent
        <3>1. Open' /\ AtLevel'
            BY <2>1, <2>6, <2>9, DecidesFacts DEF GoodIndent, NewLine, Open, Bounds, AtLevel, Empty
        <3> QED BY <2>1, <2>2, <2>6, <2>9, <3>1 DEF GoodIndent
    <2>10. CASE Indent
        <3>1. Push("Indent") /\ pc = "indent" /\ UNCHANGED <<src, ln, pc, errors, closing>> /\ level' = level + 1
            BY <2>10 DEF Indent
        <3>2. NeverBelow' /\ LayoutFaithful' /\ StatementsEnd'
            BY <2>1, <3>1, PushKeeps, LastToken DEF Kinds
        <3>3. Depth(Len(tokens))' = Depth(m) + 1
            BY <2>1, <2>3, <3>1 DEF Kinds, Change
        <3>4. Open' /\ AtLevel'
            BY <2>1, <3>1, <3>3 DEF Open, Bounds, AtLevel, Empty
        <3> QED BY <2>2, <3>2, <3>4
    <2>11. CASE Dedent
        <3>1. /\ Push("Dedent") /\ pc = "indent" /\ UNCHANGED <<src, ln, pc, errors, closing>>
              /\ level' = level - 1 /\ level > 0
            BY <2>1, <2>11 DEF Dedent
        <3>2. level <= Depth(m) /\ DepthIn(tokens, m) > 0
            BY <2>1, <3>1 DEF Open, Bounds
        <3>3. NeverBelow' /\ LayoutFaithful' /\ StatementsEnd'
            BY <2>1, <3>1, <3>2, PushKeeps, LastToken DEF Kinds
        <3>4. Depth(Len(tokens))' = Depth(m) - 1
            BY <2>1, <2>3, <3>1 DEF Kinds, Change
        <3>5. Open' /\ AtLevel'
            BY <2>1, <3>1, <3>4 DEF Open, Bounds, AtLevel, Empty
        <3> QED BY <2>2, <3>3, <3>5
    <2>12. CASE LevelReached
        <3>1. /\ pc = "indent" /\ pc' = "start" /\ LevelOf(ln) = level
              /\ UNCHANGED <<src, ln, level, tokens, errors, closing>>
            BY <2>12 DEF LevelReached
        <3>2. /\ NeverBelow' /\ LayoutFaithful' /\ StatementsEnd'
              /\ Depth(Len(tokens))' = Depth(m)
            BY <2>1, <2>4, <3>1
        <3>3. Open'
            BY <2>1, <3>1, <3>2 DEF Open, Bounds
        <3>4. Settled(level)
            BY <3>1, DecidesFacts DEF AtLevel, Settled, Indentation
        <3>5. AtLevel'
            BY <3>1, <3>4 DEF AtLevel, Settled, Indentation, LevelOf, Decides, Empty
        <3> QED BY <2>2, <3>2, <3>3, <3>5
    <2>13. CASE EndOfFile
        <3>1. pc = "end" /\ pc' = "tail" /\ closing' = level /\ UNCHANGED <<src, ln, level, errors>>
            BY <2>13 DEF EndOfFile
        <3>2. CASE tokens # <<>> /\ tokens[m].kind # "NewLine"
            <4>1. Push("NewLine")
                BY <2>13, <3>2 DEF EndOfFile
            <4>5. errors' = 0 => Settled(DepthIn(tokens, m))
                BY <2>1, <3>1 DEF Open, Bounds, AtLevel
            <4>2. NeverBelow' /\ LayoutFaithful' /\ StatementsEnd'
                BY <2>1, <3>1, <4>1, <4>5, PushKeeps DEF Kinds
            <4>3. Depth(Len(tokens))' = Depth(m)
                BY <2>1, <2>3, <4>1 DEF Kinds, Change
            <4>4. Open' /\ AtLevel'
                BY <2>1, <3>1, <4>3 DEF Open, Bounds, AtLevel
            <4> QED BY <2>2, <4>2, <4>4
        <3>3. CASE ~(tokens # <<>> /\ tokens[m].kind # "NewLine")
            <4>1. UNCHANGED tokens
                BY <2>13, <3>3 DEF EndOfFile
            <4>2. /\ NeverBelow' /\ LayoutFaithful' /\ StatementsEnd'
                  /\ Depth(Len(tokens))' = Depth(m)
                BY <2>1, <2>4, <3>1, <3>3, <4>1
            <4>3. Open' /\ AtLevel'
                BY <2>1, <3>1, <4>2 DEF Open, Bounds, AtLevel
            <4> QED BY <2>2, <4>2, <4>3
        <3> QED BY <3>2, <3>3
    <2>14. CASE CloseBlock
        <3>1. /\ Push("Dedent") /\ pc = "tail" /\ UNCHANGED <<src, ln, pc, level, errors>>
              /\ closing' = closing - 1 /\ closing > 0
            BY <2>14 DEF CloseBlock
        <3>2. closing <= Depth(m) /\ DepthIn(tokens, m) > 0
            BY <2>1, <3>1 DEF Open, Bounds
        <3>3. NeverBelow' /\ LayoutFaithful' /\ StatementsEnd'
            BY <2>1, <3>1, <3>2, PushKeeps, LastToken DEF Kinds
        <3>4. Depth(Len(tokens))' = Depth(m) - 1
            BY <2>1, <2>3, <3>1 DEF Kinds, Change
        <3>5. Open' /\ AtLevel'
            BY <2>1, <3>1, <3>4 DEF Open, Bounds, AtLevel, Empty
        <3> QED BY <2>2, <3>3, <3>5
    <2>15. CASE PushEof
        <3>1. /\ Push("Eof") /\ pc = "tail" /\ pc' = "done" /\ closing = 0
              /\ UNCHANGED <<src, ln, level, errors, closing>>
            BY <2>15 DEF PushEof
        <3>2. NeverBelow' /\ LayoutFaithful' /\ StatementsEnd'
            BY <2>1, <3>1, PushKeeps, LastToken DEF Kinds
        <3>3. Depth(Len(tokens))' = Depth(m)
            BY <2>1, <2>3, <3>1 DEF Kinds, Change
        <3>4. Open' /\ AtLevel'
            BY <2>1, <3>1, <3>3 DEF Open, Bounds, AtLevel, Empty
        <3> QED BY <2>2, <3>2, <3>4
    <2> QED BY <1>2, <2>5, <2>7, <2>8, <2>9, <2>10, <2>11, <2>12, <2>13, <2>14, <2>15 DEF Next
<1> QED BY <1>1, <1>2

-----------------------------------------------------------------------------
(* The theorems. *)

\* The strengthened invariant holds in every reachable state.
THEOREM LayoutInvariance == Spec => []IInv
<1>1. Init => IInv
    BY InitInv
<1>2. IInv /\ [Next]_vars => IInv'
    BY StepInv
<1> QED BY <1>1, <1>2, PTL DEF Spec

\* The lexer's state is well typed; indent_level, a signed number of the code,
\* never goes below 0.
THEOREM LayoutTypeCorrect == Spec => []TypeOK
<1>1. IInv => TypeOK
    BY DEF IInv
<1> QED BY <1>1, LayoutInvariance, PTL

\* Indent and Dedent of any file nest, and those of an accepted one close.
THEOREM LayoutBalanced == Spec => []Balanced
<1>1. IInv => Balanced
    BY DEF IInv, Balanced, NeverBelow, Open
<1> QED BY <1>1, LayoutInvariance, PTL

\* Every line of an accepted file is as deep as it, or the last line before
\* it that is not empty, is indented.
THEOREM LayoutIsFaithful == Spec => []LayoutFaithful
<1>1. IInv => LayoutFaithful
    BY DEF IInv
<1> QED BY <1>1, LayoutInvariance, PTL

\* Every statement of any file is ended.
THEOREM EveryStatementEnds == Spec => []StatementsEnd
<1>1. IInv => StatementsEnd
    BY DEF IInv
<1> QED BY <1>1, LayoutInvariance, PTL

=============================================================================
