-------------------------- MODULE PreprocessorProofs --------------------------
(***************************************************************************)
(* The names being expanded are those of the calls on the stack, for every *)
(* token stream (OpenNames), and a name is left alone for good only where  *)
(* it is met again inside its own expansion (OnlyOpenFreeze).              *)
(*                                                                         *)
(* The argument.  A call of expand_all only ever changes its own frame and *)
(* the index of its caller, and the caller of an expansion has its index   *)
(* on the name until the expansion returns (Stays).                        *)
(***************************************************************************)
EXTENDS Preprocessor, SequenceTheorems, TLAPS

\* At the end nothing is left among the names being expanded.
NothingLeftOpen == phase = "done" => expanding = {}

\* A name is left alone for good only when it is met while its own body is being
\* expanded, and with it go the names around it and no others.
OnlyOpenFreeze ==
    [][frozen' # frozen => Cur.s \in Open(stack) /\ frozen' = frozen \cup Open(stack)]_vars
-----------------------------------------------------------------------------
(* The stack. *)

FrameOK(f) == {"toks", "i", "res", "changed", "then"} \subseteq DOMAIN f /\ "k" \in DOMAIN f.then

\* The first call is that of pass and no other is.
StackOK(st) ==
    /\ st \in Seq({st[k] : k \in DOMAIN st}) /\ Len(st) >= 1
    /\ \A k \in 1..Len(st) : FrameOK(st[k]) /\ (st[k].then.k = "main" <=> k = 1)

IInv == StackOK(stack) /\ OpenNames

\* The frames of two stacks are the same up to m, the next waits for the same,
\* and none above it is the expansion of a name.
Stays(st, new, m) ==
    /\ m \in Nat /\ m + 1 <= Len(st) /\ m + 1 <= Len(new)
    /\ \A k \in 1..m : new[k] = st[k]
    /\ new[m + 1].then.k = st[m + 1].then.k
    /\ \A k \in (m + 2)..Len(st) : st[k].then.k # "name"
    /\ \A k \in (m + 2)..Len(new) : new[k].then.k # "name"

LEMMA StaysOpen ==
    ASSUME NEW st, NEW new, Len(st) \in Nat, Len(new) \in Nat, NEW m, Stays(st, new, m)
    PROVE  Waits(new) = Waits(st) /\ \A k \in Waits(st) : NameAt(new, k) = NameAt(st, k)
<1>1. m \in Nat
    BY DEF Stays
<1>2. ASSUME NEW k \in Waits(st)
      PROVE  k \in 1..m
    BY <1>1 DEF Waits, Stays
<1>3. ASSUME NEW k \in Waits(new)
      PROVE  k \in 1..m
    BY <1>1 DEF Waits, Stays
<1>4. \A k \in 1..m : k \in Waits(st) <=> k \in Waits(new)
    <2> TAKE k \in 1..m
    <2>1. new[k + 1].then.k = st[k + 1].then.k
        <3>1. CASE k = m
            BY <1>1, <3>1 DEF Stays
        <3>2. CASE k # m
            <4>1. k + 1 \in 1..m
                BY <1>1, <3>2
            <4> QED BY <4>1 DEF Stays
        <3> QED BY <3>1, <3>2
    <2>2. k \in 1..(Len(st) - 1) /\ k \in 1..(Len(new) - 1)
        BY <1>1 DEF Stays
    <2> QED BY <2>1, <2>2 DEF Waits
<1>5. \A k \in 1..m : NameAt(new, k) = NameAt(st, k)
    BY DEF NameAt, Stays
<1> QED BY <1>2, <1>3, <1>4, <1>5

\* Two sequences are the same up to m.
Agree(s, t, m) == \A k \in 1..m : t[k] = s[k]

\* One more element.
LEMMA OneMore ==
    ASSUME NEW S, NEW st \in Seq(S), NEW f
    PROVE  /\ Append(st, f) \in Seq(S \cup {f})
           /\ Len(Append(st, f)) = Len(st) + 1
           /\ Agree(st, Append(st, f), Len(st))
           /\ Append(st, f)[Len(st) + 1] = f
<1>1. st \in Seq(S \cup {f})
    OBVIOUS
<1> QED BY <1>1 DEF Agree

\* A sequence without its last element, and with another.
LEMMA OneLess ==
    ASSUME NEW S, NEW st \in Seq(S), Len(st) >= 1
    PROVE  /\ Front(st) \in Seq(S) /\ Len(Front(st)) = Len(st) - 1
           /\ Agree(st, Front(st), Len(st) - 1)
<1>1. Front(st) = SubSeq(st, 1, Len(st) - 1)
    BY DEF Front
<1>2. \A k \in 1..(Len(st) - 1) : st[k] \in S
    OBVIOUS
<1>3. Len(st) \in Nat
    OBVIOUS
<1> DEFINE m == Len(st) - 1
<1>4. m \in Nat
    BY <1>3
<1>5. /\ SubSeq(st, 1, m) \in Seq(S)
      /\ Len(SubSeq(st, 1, m)) = IF 1 <= m THEN m - 1 + 1 ELSE 0
      /\ \A k \in 1..(m - 1 + 1) : SubSeq(st, 1, m)[k] = st[1 + k - 1]
    <2> HIDE DEF m
    <2>1. \A k \in 1..m : st[k] \in S
        BY <1>2 DEF m
    <2> QED BY <1>4, <2>1, SubSeqProperties
<1>6. Len(SubSeq(st, 1, m)) = m
    <2> HIDE DEF m
    <2> QED BY <1>4, <1>5
<1>7. \A k \in 1..m : SubSeq(st, 1, m)[k] = st[k]
    <2> HIDE DEF m
    <2> TAKE k \in 1..m
    <2>1. k \in 1..(m - 1 + 1) /\ 1 + k - 1 = k
        BY <1>4
    <2> QED BY <1>5, <2>1
<1> QED BY <1>1, <1>5, <1>6, <1>7 DEF Agree

LEMMA LastReplaced ==
    ASSUME NEW S, NEW st \in Seq(S), Len(st) >= 1, NEW f
    PROVE  /\ Append(Front(st), f) \in Seq(S \cup {f})
           /\ Len(Append(Front(st), f)) = Len(st)
           /\ Agree(st, Append(Front(st), f), Len(st) - 1)
           /\ Append(Front(st), f)[Len(st)] = f
<1>1. Front(st) \in Seq(S) /\ Len(Front(st)) = Len(st) - 1
    BY OneLess
<1>2. Agree(st, Front(st), Len(st) - 1)
    BY OneLess
<1>3. /\ Append(Front(st), f) \in Seq(S \cup {f})
      /\ Len(Append(Front(st), f)) = Len(Front(st)) + 1
      /\ Agree(Front(st), Append(Front(st), f), Len(Front(st)))
      /\ Append(Front(st), f)[Len(Front(st)) + 1] = f
    BY <1>1, OneMore
<1> QED BY <1>1, <1>2, <1>3 DEF Agree

\* A stack is in order if its frames are, whatever set they are in.
LEMMA InOrder ==
    ASSUME NEW S, NEW st \in Seq(S), Len(st) >= 1,
           \A k \in 1..Len(st) : FrameOK(st[k]) /\ (st[k].then.k = "main" <=> k = 1)
    PROVE  StackOK(st)
<1>1. st \in Seq({st[k] : k \in DOMAIN st})
    OBVIOUS
<1> QED BY <1>1 DEF StackOK

\* What a frame becomes.
LEMMA FrameKept ==
    ASSUME NEW f, FrameOK(f), NEW n, NEW out, NEW changed
    PROVE  /\ FrameOK(Ahead(f, n, out, changed)) /\ Ahead(f, n, out, changed).then = f.then
           /\ FrameOK([f EXCEPT !.i = n]) /\ [f EXCEPT !.i = n].then = f.then
           /\ [f EXCEPT !.i = n].toks = f.toks /\ [f EXCEPT !.i = n].i = n
BY DEF FrameOK, Ahead

LEMMA FrameNew ==
    ASSUME NEW toks, NEW then, "k" \in DOMAIN then
    PROVE  FrameOK(Frame(toks, then)) /\ Frame(toks, then).then = then
BY DEF FrameOK, Frame
-----------------------------------------------------------------------------
(* The four ways in which a branch of expand_all changes the stack, when no *)
(* expansion of a name begins or ends.                                      *)

Continues(st, new) == StackOK(new) /\ \E m : Stays(st, new, m)

Keeps(f, g) == FrameOK(f) /\ f.then.k = g.then.k
Begins(f) == FrameOK(f) /\ f.then.k \notin {"main", "name"}

LEMMA Replaced ==
    ASSUME NEW st, StackOK(st), NEW f, Keeps(f, Last(st))
    PROVE  Continues(st, Append(Front(st), f))
<1> DEFINE n == Len(st)
           S == {st[k] : k \in DOMAIN st}
           new == Append(Front(st), f)
<1>1. st \in Seq(S) /\ n >= 1 /\ n \in Nat
    BY DEF StackOK
<1>2. new \in Seq(S \cup {f}) /\ Len(new) = n /\ new[n] = f /\ Agree(st, new, n - 1)
    <2> HIDE DEF S
    <2> QED BY <1>1, LastReplaced
<1>3. FrameOK(f) /\ f.then.k = st[n].then.k
    BY DEF Keeps, Last
<1>4. \A k \in 1..n : FrameOK(st[k]) /\ (st[k].then.k = "main" <=> k = 1)
    BY DEF StackOK
<1> HIDE DEF S, new, n
<1>5. \A k \in 1..n : FrameOK(new[k]) /\ (new[k].then.k = "main" <=> k = 1)
    <2> TAKE k \in 1..n
    <2>1. CASE k = n
        BY <1>1, <1>2, <1>3, <1>4, <2>1
    <2>2. CASE k # n
        <3>1. k \in 1..(n - 1)
            BY <1>1, <2>2
        <3> QED BY <1>2, <1>4, <3>1 DEF Agree
    <2> QED BY <2>1, <2>2
<1>6. StackOK(new)
    BY <1>1, <1>2, <1>5, InOrder
<1>7. Stays(st, new, n - 1)
    BY <1>1, <1>2, <1>3 DEF Stays, Agree, n
<1> QED BY <1>6, <1>7 DEF Continues, new

LEMMA Called ==
    ASSUME NEW st, StackOK(st), NEW f, Keeps(f, Last(st)), NEW g, FrameOK(g), g.then.k # "main"
    PROVE  /\ StackOK(Append(Append(Front(st), f), g))
           /\ Len(Append(Append(Front(st), f), g)) = Len(st) + 1
           /\ Agree(st, Append(Append(Front(st), f), g), Len(st) - 1)
           /\ Append(Append(Front(st), f), g)[Len(st)] = f
           /\ Append(Append(Front(st), f), g)[Len(st) + 1] = g
<1> DEFINE mid == Append(Front(st), f)
           new == Append(mid, g)
           S == {mid[k] : k \in DOMAIN mid}
           R == {st[k] : k \in DOMAIN st}
<1>1. StackOK(mid)
    BY Replaced DEF Continues
<1>2. st \in Seq(R) /\ Len(st) >= 1
    BY DEF StackOK
<1>3. Len(mid) = Len(st) /\ mid[Len(st)] = f /\ Agree(st, mid, Len(st) - 1)
    <2> HIDE DEF R
    <2> QED BY <1>2, LastReplaced
<1>4. mid \in Seq(S) /\ Len(mid) >= 1
    <2> HIDE DEF mid
    <2> QED BY <1>1 DEF StackOK
<1>5. /\ new \in Seq(S \cup {g}) /\ Len(new) = Len(mid) + 1
      /\ Agree(mid, new, Len(mid))
      /\ new[Len(mid) + 1] = g
    <2> HIDE DEF mid, S
    <2> QED BY <1>4, OneMore
<1>6. \A k \in 1..Len(mid) : FrameOK(mid[k]) /\ (mid[k].then.k = "main" <=> k = 1)
    <2> HIDE DEF mid
    <2> QED BY <1>1 DEF StackOK
<1>7. Len(mid) \in Nat
    <2> HIDE DEF mid, S
    <2> QED BY <1>4
<1> HIDE DEF S, new, mid, R
<1>8. \A k \in 1..Len(new) : FrameOK(new[k]) /\ (new[k].then.k = "main" <=> k = 1)
    <2> TAKE k \in 1..Len(new)
    <2>1. CASE k = Len(mid) + 1
        BY <1>4, <1>5, <1>7, <2>1
    <2>2. CASE k # Len(mid) + 1
        <3>1. k \in 1..Len(mid)
            BY <1>5, <1>7, <2>2
        <3> QED BY <1>5, <1>6, <3>1 DEF Agree
    <2> QED BY <2>1, <2>2
<1>9. StackOK(new)
    BY <1>4, <1>5, <1>7, <1>8, InOrder
<1>10. Agree(st, new, Len(st) - 1)
    BY <1>3, <1>5, <1>7 DEF Agree
<1>11. new[Len(st)] = f /\ new[Len(st) + 1] = g /\ Len(new) = Len(st) + 1
    BY <1>3, <1>4, <1>5, <1>7 DEF Agree
<1> QED BY <1>9, <1>10, <1>11 DEF new, mid

LEMMA CalledContinues ==
    ASSUME NEW st, StackOK(st), NEW f, Keeps(f, Last(st)), NEW g, Begins(g)
    PROVE  Continues(st, Append(Append(Front(st), f), g))
<1> DEFINE new == Append(Append(Front(st), f), g)
<1>1. FrameOK(g) /\ g.then.k # "main" /\ g.then.k # "name"
    BY DEF Begins
<1>2. /\ StackOK(new) /\ Len(new) = Len(st) + 1
      /\ Agree(st, new, Len(st) - 1)
      /\ new[Len(st)] = f /\ new[Len(st) + 1] = g
    BY <1>1, Called
<1>3. Len(st) \in Nat /\ Len(st) >= 1
    BY DEF StackOK
<1>4. f.then.k = st[Len(st)].then.k
    BY DEF Keeps, Last
<1> HIDE DEF new
<1>5. Stays(st, new, Len(st) - 1)
    BY <1>1, <1>2, <1>3, <1>4 DEF Stays, Agree
<1> QED BY <1>2, <1>5 DEF Continues, new

\* The stack without the call that returns.
LEMMA Popped ==
    ASSUME NEW st, StackOK(st), Len(st) >= 2
    PROVE  /\ StackOK(Front(st)) /\ Len(Front(st)) = Len(st) - 1
           /\ Agree(st, Front(st), Len(st) - 1)
           /\ Last(Front(st)) = st[Len(st) - 1]
<1> DEFINE S == {st[k] : k \in DOMAIN st}
<1>1. st \in Seq(S) /\ Len(st) >= 1 /\ Len(st) \in Nat
    BY DEF StackOK
<1>2. /\ Front(st) \in Seq(S) /\ Len(Front(st)) = Len(st) - 1
      /\ Agree(st, Front(st), Len(st) - 1)
    <2> HIDE DEF S
    <2> QED BY <1>1, OneLess
<1>3. \A k \in 1..Len(st) : FrameOK(st[k]) /\ (st[k].then.k = "main" <=> k = 1)
    BY DEF StackOK
<1> HIDE DEF S
<1>4. \A k \in 1..Len(Front(st)) :
          FrameOK(Front(st)[k]) /\ (Front(st)[k].then.k = "main" <=> k = 1)
    BY <1>1, <1>2, <1>3 DEF Agree
<1>5. StackOK(Front(st))
    BY <1>1, <1>2, <1>4, InOrder
<1>6. Last(Front(st)) = st[Len(st) - 1]
    BY <1>1, <1>2 DEF Last, Agree
<1> QED BY <1>2, <1>5, <1>6

LEMMA AnsweredContinues ==
    ASSUME NEW st, StackOK(st), Len(st) >= 2, Last(st).then.k # "name",
           NEW f, Keeps(f, st[Len(st) - 1])
    PROVE  Continues(st, Append(Front(Front(st)), f))
<1> DEFINE low == Front(st)
           new == Append(Front(low), f)
           R == {low[k] : k \in DOMAIN low}
<1>1. /\ StackOK(low) /\ Len(low) = Len(st) - 1 /\ Agree(st, low, Len(st) - 1)
      /\ Last(low) = st[Len(st) - 1]
    BY Popped
<1>2. Len(st) \in Nat /\ st[Len(st)].then.k # "name"
    BY DEF StackOK, Last
<1> HIDE DEF low
<1>3. StackOK(new)
    BY <1>1, Replaced DEF Continues
<1>4. low \in Seq(R) /\ Len(low) >= 1
    BY <1>1 DEF StackOK
<1>5. Len(new) = Len(low) /\ new[Len(low)] = f /\ Agree(low, new, Len(low) - 1)
    <2> HIDE DEF R
    <2> QED BY <1>4, LastReplaced
<1>6. f.then.k = st[Len(st) - 1].then.k
    BY DEF Keeps
<1> HIDE DEF new
<1>7. Stays(st, new, Len(st) - 2)
    BY <1>1, <1>2, <1>5, <1>6 DEF Stays, Agree
<1> QED BY <1>3, <1>7 DEF Continues, new, low

LEMMA RecalledContinues ==
    ASSUME NEW st, StackOK(st), Len(st) >= 2, Last(st).then.k # "name",
           NEW f, Keeps(f, st[Len(st) - 1]), NEW g, Begins(g)
    PROVE  Continues(st, Append(Append(Front(Front(st)), f), g))
<1> DEFINE low == Front(st)
           new == Append(Append(Front(low), f), g)
<1>1. /\ StackOK(low) /\ Len(low) = Len(st) - 1 /\ Agree(st, low, Len(st) - 1)
      /\ Last(low) = st[Len(st) - 1]
    BY Popped
<1>2. Len(st) \in Nat /\ st[Len(st)].then.k # "name"
    BY DEF StackOK, Last
<1>3. FrameOK(g) /\ g.then.k # "main" /\ g.then.k # "name"
    BY DEF Begins
<1> HIDE DEF low
<1>4. /\ StackOK(new) /\ Len(new) = Len(low) + 1 /\ Agree(low, new, Len(low) - 1)
      /\ new[Len(low)] = f /\ new[Len(low) + 1] = g
    BY <1>1, <1>3, Called
<1>5. f.then.k = st[Len(st) - 1].then.k
    BY DEF Keeps
<1> HIDE DEF new
<1>6. Stays(st, new, Len(st) - 2)
    BY <1>1, <1>2, <1>3, <1>4, <1>5 DEF Stays, Agree
<1> QED BY <1>4, <1>6 DEF Continues, new, low
-----------------------------------------------------------------------------
(* The branches in these terms. *)

LEMMA TopOK ==
    ASSUME StackOK(stack)
    PROVE  /\ FrameOK(Top) /\ Top = Last(stack) /\ Top = stack[Len(stack)] /\ Len(stack) \in Nat
           /\ Len(stack) >= 1 /\ (Top.then.k = "main" <=> Len(stack) = 1)
<1>1. Len(stack) \in Nat /\ Len(stack) >= 1
    BY DEF StackOK
<1>2. Len(stack) \in 1..Len(stack)
    BY <1>1
<1> QED BY <1>1, <1>2 DEF StackOK, Top, Last

LEMMA CallerOK ==
    ASSUME StackOK(stack), Top.then.k # "main"
    PROVE  Len(stack) >= 2 /\ FrameOK(Caller) /\ Caller = stack[Len(stack) - 1]
<1>1. Len(stack) \in Nat /\ Len(stack) >= 2
    BY TopOK
<1>2. Len(stack) - 1 \in 1..Len(stack)
    BY <1>1
<1> QED BY <1>1, <1>2 DEF StackOK, Caller

LEMMA KeepsAhead ==
    ASSUME NEW f, FrameOK(f), NEW n, NEW out, NEW changed
    PROVE  Keeps(Ahead(f, n, out, changed), f) /\ Keeps([f EXCEPT !.i = n], f)
BY FrameKept DEF Keeps

LEMMA AdvanceContinues ==
    ASSUME StackOK(stack), NEW n, NEW out, NEW changed, Advance(n, out, changed)
    PROVE  Continues(stack, stack')
BY TopOK, KeepsAhead, Replaced DEF Advance

LEMMA CallContinues ==
    ASSUME StackOK(stack), NEW n, NEW toks, NEW then, "k" \in DOMAIN then,
           then.k \notin {"main", "name"}, stack' = CallFrom(stack, n, toks, then)
    PROVE  Continues(stack, stack')
<1>1. Begins(Frame(toks, then))
    BY FrameNew DEF Begins
<1>2. Keeps([Last(stack) EXCEPT !.i = n], Last(stack))
    BY TopOK, KeepsAhead
<1> QED BY <1>1, <1>2, CalledContinues DEF CallFrom

LEMMA AnswerContinues ==
    ASSUME StackOK(stack), Top.then.k \notin {"main", "name"}, NEW n, NEW out, NEW changed,
           Answer(n, out, changed)
    PROVE  Continues(stack, stack')
<1>1. Len(stack) >= 2 /\ FrameOK(Caller) /\ Caller = stack[Len(stack) - 1]
    BY CallerOK
<1>2. Last(stack).then.k # "name"
    BY TopOK
<1>3. Keeps(Ahead(Caller, n, out, changed), stack[Len(stack) - 1])
    BY <1>1, KeepsAhead
<1> QED BY <1>1, <1>2, <1>3, AnsweredContinues DEF Answer

LEMMA CallAgainContinues ==
    ASSUME StackOK(stack), Top.then.k \notin {"main", "name"}, NEW n, NEW toks,
           NEW then, "k" \in DOMAIN then, then.k \notin {"main", "name"},
           stack' = CallFrom(Front(stack), n, toks, then)
    PROVE  Continues(stack, stack')
<1>1. Len(stack) >= 2 /\ FrameOK(Caller) /\ Caller = stack[Len(stack) - 1]
    BY CallerOK
<1>2. Last(stack).then.k # "name"
    BY TopOK
<1>3. Last(Front(stack)) = Caller
    BY <1>1, Popped
<1>4. Keeps([Last(Front(stack)) EXCEPT !.i = n], stack[Len(stack) - 1])
    BY <1>1, <1>3, KeepsAhead
<1>5. Begins(Frame(toks, then))
    BY FrameNew DEF Begins
<1> QED BY <1>1, <1>2, <1>4, <1>5, RecalledContinues DEF CallFrom

LEMMA UnchangedContinues ==
    ASSUME StackOK(stack), UNCHANGED stack
    PROVE  Continues(stack, stack')
<1>1. Len(stack) \in Nat /\ Len(stack) >= 1
    BY DEF StackOK
<1>2. Stays(stack, stack, Len(stack) - 1)
    BY <1>1 DEF Stays
<1> QED BY <1>2 DEF Continues

\* The branches in which no expansion begins or ends.
Steady == Continues(stack, stack') /\ UNCHANGED expanding

LEMMA PanicIsSteady ==
    ASSUME StackOK(stack), Panic
    PROVE  Continues(stack, stack')
BY UnchangedContinues DEF Panic

LEMMA ReadIsSteady ==
    ASSUME StackOK(stack), Read, ~Enter
    PROVE  Steady
<1>1. CASE Invoke
    <2>1. PICK j, args : InvokeWith(Cur.s, preprocessors[Cur.s], j, args)
        BY <1>1 DEF Invoke
    <2>2. UNCHANGED expanding
        BY <1>1 DEF Invoke
    <2>3. Panic \/ \E n, out, changed : Advance(n, out, changed)
        BY <2>1 DEF InvokeWith
    <2> QED BY <2>2, <2>3, PanicIsSteady, AdvanceContinues DEF Steady
<1>2. CASE Define \/ Delete \/ UserPanic \/ Warn \/ Evaluate \/ Stringify \/ IsDefined
    <2>1. UNCHANGED expanding
        BY <1>2 DEF Define, Delete, UserPanic, Warn, Evaluate, Stringify, IsDefined, Names
    <2>2. Panic \/ \E n, out, changed : Advance(n, out, changed)
        <3>1. CASE Define
            BY <3>1 DEF Define
        <3>2. CASE Delete
            BY <3>2 DEF Delete
        <3>3. CASE UserPanic
            BY <3>3 DEF UserPanic
        <3>4. CASE Warn
            BY <3>4 DEF Warn
        <3>5. CASE Evaluate
            BY <3>5 DEF Evaluate
        <3>6. CASE Stringify
            BY <3>6 DEF Stringify
        <3>7. CASE IsDefined
            BY <3>7 DEF IsDefined
        <3> QED BY <1>2, <3>1, <3>2, <3>3, <3>4, <3>5, <3>6, <3>7
    <2> QED BY <2>1, <2>2, PanicIsSteady, AdvanceContinues DEF Steady
<1>3. CASE Count \/ Copy \/ Freeze
    <2>1. UNCHANGED expanding
        BY <1>3 DEF Count, Copy, Freeze, Names
    <2>2. \E n, out, changed : Advance(n, out, changed)
        BY <1>3 DEF Count, Copy, Freeze
    <2> QED BY <2>1, <2>2, AdvanceContinues DEF Steady
<1>4. CASE Concat
    <2>1. UNCHANGED expanding
        BY <1>4 DEF Concat, Names
    <2>2. \/ \E n, out, changed : Advance(n, out, changed)
          \/ \E n, toks, left, at :
                Call(n, toks, [k |-> "concat", left |-> left, text |-> "", at |-> at])
        BY <1>4 DEF Concat
    <2>3. ASSUME NEW n, NEW toks, NEW left, NEW at,
                 Call(n, toks, [k |-> "concat", left |-> left, text |-> "", at |-> at])
          PROVE  Continues(stack, stack')
        <3> DEFINE then == [k |-> "concat", left |-> left, text |-> "", at |-> at]
        <3>1. "k" \in DOMAIN then /\ then.k = "concat"
            OBVIOUS
        <3>2. stack' = CallFrom(stack, n, toks, then)
            BY <2>3 DEF Call
        <3> HIDE DEF then
        <3> QED BY <3>1, <3>2, CallContinues
    <2> QED BY <2>1, <2>2, <2>3, AdvanceContinues DEF Steady
<1>5. CASE If
    <2>1. UNCHANGED expanding
        BY <1>5 DEF If, Names
    <2>2. \E n, toks : stack' = CallFrom(stack, n, toks, [k |-> "if"])
        BY <1>5 DEF If, IfFrom
    <2> QED BY <2>1, <2>2, CallContinues DEF Steady
<1>6. CASE Repeat
    <2>1. UNCHANGED expanding
        BY <1>6 DEF Repeat, Names
    <2>2. \E n, toks : stack' = CallFrom(stack, n, toks, [k |-> "times"])
        BY <1>6 DEF Repeat, Call
    <2> QED BY <2>1, <2>2, CallContinues DEF Steady
<1> QED BY <1>1, <1>2, <1>3, <1>4, <1>5, <1>6 DEF Read

LEMMA ReturnIsSteady ==
    ASSUME StackOK(stack), Again \/ Return, ~Expanded
    PROVE  Steady
<1>1. CASE Again
    <2>1. FrameOK(Top) /\ Top = Last(stack)
        BY TopOK
    <2>2. Keeps(Frame(Top.res, Top.then), Last(stack))
        BY <2>1, FrameNew DEF Keeps, FrameOK
    <2> QED BY <1>1, <2>2, Replaced DEF Again, Names, Steady
<1>2. CASE Finish
    BY <1>2, UnchangedContinues DEF Finish, Names, Steady
<1>3. CASE Concatenated
    <2>1. UNCHANGED expanding /\ Top.then.k \notin {"main", "name"}
        BY <1>3 DEF Concatenated, Names, Returns
    <2>2. \/ \E n, out, changed : Answer(n, out, changed)
          \/ \E toks, left, text :
               stack' = Append(Front(stack), Frame(toks, [Top.then EXCEPT !.left = left, !.text = text]))
        BY <1>3 DEF Concatenated
    <2>3. ASSUME NEW toks, NEW left, NEW text,
                 stack' = Append(Front(stack), Frame(toks, [Top.then EXCEPT !.left = left, !.text = text]))
          PROVE  Continues(stack, stack')
        <3> DEFINE then == [Top.then EXCEPT !.left = left, !.text = text]
        <3>1. "k" \in DOMAIN Top.then
            BY TopOK DEF FrameOK
        <3>2. "k" \in DOMAIN then /\ then.k = Top.then.k
            BY <3>1
        <3> HIDE DEF then
        <3>3. Keeps(Frame(toks, then), Last(stack))
            BY <3>2, TopOK, FrameNew DEF Keeps
        <3>4. stack' = Append(Front(stack), Frame(toks, then))
            BY <2>3 DEF then
        <3> QED BY <3>3, <3>4, Replaced
    <2> QED BY <2>1, <2>2, <2>3, AnswerContinues DEF Steady
<1>4. CASE Decided
    <2>1. UNCHANGED expanding /\ Top.then.k \notin {"main", "name"}
        BY <1>4 DEF Decided, Names, Returns
    <2>2. PICK cond, t, i, e : Branch(cond, t, i, e)
        BY <1>4 DEF Decided
    <2>3. \/ Panic \/ \E n, out, changed : Answer(n, out, changed)
          \/ \E n, toks : stack' = CallFrom(Front(stack), n, toks, [k |-> "if"])
        BY <2>2 DEF Branch, IfFrom
    <2> QED BY <2>1, <2>3, PanicIsSteady, AnswerContinues, CallAgainContinues DEF Steady
<1>5. CASE Timed
    <2>1. UNCHANGED expanding /\ Top.then.k \notin {"main", "name"}
        BY <1>5 DEF Timed, Names, Returns
    <2>2. PICK times, body, after : RepeatBody(times, body, after)
        BY <1>5 DEF Timed
    <2>3. \/ Panic \/ \E n, out, changed : Answer(n, out, changed)
          \/ \E n, toks, left, body_ :
               stack' = CallFrom(Front(stack), n, toks, [k |-> "repeat", left |-> left, body |-> body_])
        BY <2>2 DEF RepeatBody
    <2>4. ASSUME NEW n, NEW toks, NEW left, NEW body_,
               stack' = CallFrom(Front(stack), n, toks, [k |-> "repeat", left |-> left, body |-> body_])
          PROVE  Continues(stack, stack')
        BY <2>1, <2>4, CallAgainContinues
    <2> QED BY <2>1, <2>3, <2>4, PanicIsSteady, AnswerContinues DEF Steady
<1>6. CASE Repeated
    <2> DEFINE caller == Ahead(Caller, Caller.i, Top.res, TRUE)
               then == [Top.then EXCEPT !.left = @ - 1]
    <2>1. UNCHANGED expanding /\ Top.then.k \notin {"main", "name"}
        BY <1>6 DEF Repeated, Names, Returns
    <2>2. \/ stack' = Append(Front(Front(stack)), caller)
          \/ stack' = Append(Append(Front(Front(stack)), caller), Frame(Top.then.body, then))
        BY <1>6 DEF Repeated
    <2>3. Len(stack) >= 2 /\ FrameOK(Caller) /\ Caller = stack[Len(stack) - 1]
        BY <2>1, CallerOK
    <2>4. Keeps(caller, stack[Len(stack) - 1])
        BY <2>3, KeepsAhead
    <2>5. Last(stack).then.k # "name"
        BY <2>1, TopOK
    <2>6. "k" \in DOMAIN Top.then
        BY TopOK DEF FrameOK
    <2>7. "k" \in DOMAIN then /\ then.k = Top.then.k
        BY <2>6
    <2> HIDE DEF caller, then
    <2>8. Begins(Frame(Top.then.body, then))
        BY <2>1, <2>7, FrameNew DEF Begins
    <2> QED BY <2>1, <2>2, <2>3, <2>4, <2>5, <2>8, AnsweredContinues, RecalledContinues DEF Steady
<1> QED BY <1>1, <1>2, <1>3, <1>4, <1>5, <1>6 DEF Return
-----------------------------------------------------------------------------
(* What a step does to the names that are being expanded. *)

LEMMA SteadyIsKept ==
    ASSUME IInv, Steady
    PROVE  IInv'
<1>1. StackOK(stack') /\ expanding' = expanding
    BY DEF Steady, Continues
<1>2. Len(stack) \in Nat /\ Len(stack') \in Nat
    BY <1>1 DEF IInv, StackOK
<1>3. PICK m : Stays(stack, stack', m)
    BY DEF Steady, Continues
<1>4. Waits(stack') = Waits(stack) /\ \A k \in Waits(stack) : NameAt(stack', k) = NameAt(stack, k)
    BY <1>2, <1>3, StaysOpen
<1>5. Open(stack') = Open(stack)
    BY <1>4 DEF Open
<1> QED BY <1>1, <1>4, <1>5 DEF IInv, OpenNames

\* The expansion of a name begins: its caller waits on the name from now on.
LEMMA EnterKeeps ==
    ASSUME IInv, Enter
    PROVE  IInv'
<1> DEFINE n == Len(stack)
           body == preprocessors[Cur.s].body
           f == [Last(stack) EXCEPT !.i = Top.i]
           g == Frame(body, [k |-> "name"])
           new == Append(Append(Front(stack), f), g)
<1>1. CASE UNCHANGED expanding /\ Advance(Top.i + 1, <<>>, TRUE)
    BY <1>1, AdvanceContinues, SteadyIsKept DEF Steady, IInv
<1>2. CASE Call(Top.i, body, [k |-> "name"]) /\ expanding' = expanding \cup {Cur.s}
    <2>1. StackOK(stack) /\ OpenNames
        BY DEF IInv
    <2>2. /\ FrameOK(Top) /\ Top = Last(stack) /\ Top = stack[n] /\ n \in Nat /\ n >= 1
        BY <2>1, TopOK
    <2>3. Keeps(f, Last(stack)) /\ f.toks = Top.toks /\ f.i = Top.i
        <3> DEFINE top == Top
                   i == Top.i
        <3>1. FrameOK(top) /\ top = Last(stack) /\ f = [top EXCEPT !.i = i]
            BY <2>2
        <3> HIDE DEF top, i, f
        <3>2. Keeps(f, top) /\ f.toks = top.toks /\ f.i = i
            BY <3>1, KeepsAhead, FrameKept
        <3> QED BY <3>1, <3>2 DEF top, i
    <2>4. FrameOK(g) /\ g.then.k = "name"
        BY FrameNew
    <2>5. stack' = new
        BY <1>2 DEF Call, CallFrom
    <2> HIDE DEF f, g
    <2>6. /\ StackOK(new) /\ Len(new) = n + 1 /\ Agree(stack, new, n - 1)
          /\ new[n] = f /\ new[n + 1] = g
        BY <2>1, <2>3, <2>4, Called
    <2>7. Cur.s \notin expanding
        BY DEF Enter, Expandable
    <2> HIDE DEF new, n
    <2>8. f.then.k = stack[n].then.k
        BY <2>2, <2>3 DEF Keeps
    <2>9. \A k \in 1..(n - 1) : new[k + 1].then.k = stack[k + 1].then.k /\ new[k] = stack[k]
        BY <2>2, <2>6, <2>8 DEF Agree
    <2>10. Waits(stack) \subseteq 1..(n - 1)
        BY DEF Waits, n
    <2>11. Waits(new) = Waits(stack) \cup {n}
        BY <2>2, <2>4, <2>6, <2>9 DEF Waits, n
    <2>12. \A k \in Waits(stack) : NameAt(new, k) = NameAt(stack, k)
        BY <2>9, <2>10 DEF NameAt
    <2>13. NameAt(new, n) = Cur.s
        BY <2>3, <2>6 DEF NameAt, Cur
    <2>14. Open(new) = Open(stack) \cup {Cur.s}
        BY <2>11, <2>12, <2>13 DEF Open
    <2>15. expanding = Open(stack) /\ \A k \in Waits(stack) : NameAt(stack, k) # Cur.s
        BY <2>1, <2>7 DEF OpenNames, Open
    <2>16. \A j, k \in Waits(new) : NameAt(new, j) = NameAt(new, k) => j = k
        BY <2>1, <2>11, <2>12, <2>13, <2>15 DEF OpenNames
    <2> QED BY <1>2, <2>5, <2>6, <2>14, <2>15, <2>16 DEF IInv, OpenNames
<1> QED BY <1>1, <1>2 DEF Enter

\* It ends: the name is given up by the one call that waits for it.
LEMMA ExpandedKeeps ==
    ASSUME IInv, Expanded
    PROVE  IInv'
<1> DEFINE n == Len(stack)
           low == Front(stack)
           token == Caller.toks[Caller.i]
           f == Ahead(Caller, Caller.i + 1, Top.res, Top.res # <<token>>)
           new == Append(Front(low), f)
           S == {low[k] : k \in DOMAIN low}
<1>1. StackOK(stack) /\ OpenNames /\ Top.then.k = "name"
    BY DEF IInv, Expanded, Returns
<1>2. Top = stack[n] /\ n \in Nat /\ n >= 2 /\ FrameOK(Caller) /\ Caller = stack[n - 1]
    BY <1>1, TopOK, CallerOK
<1>3. /\ StackOK(low) /\ Len(low) = n - 1 /\ Agree(stack, low, n - 1)
      /\ Last(low) = stack[n - 1]
    BY <1>1, <1>2, Popped
<1>4. Keeps(f, stack[n - 1])
    BY <1>2, KeepsAhead
<1>5. stack' = new /\ expanding' = expanding \ {token.s}
    BY DEF Expanded, Answer
<1> HIDE DEF f, low
<1>6. StackOK(new)
    BY <1>3, <1>4, Replaced DEF Continues
<1>7. low \in Seq(S) /\ Len(low) >= 1
    BY <1>3 DEF StackOK
<1>8. Len(new) = Len(low) /\ new[Len(low)] = f /\ Agree(low, new, Len(low) - 1)
    <2> HIDE DEF S
    <2> QED BY <1>7, LastReplaced
<1>9. token.s = NameAt(stack, n - 1)
    BY <1>2 DEF NameAt
<1> HIDE DEF new, n, token
<1>10. f.then.k = stack[n - 1].then.k
    BY <1>4 DEF Keeps
<1>11. Len(new) = n - 1 /\ \A k \in 1..(n - 2) : new[k + 1].then.k = stack[k + 1].then.k /\ new[k] = stack[k]
    BY <1>2, <1>3, <1>8, <1>10 DEF Agree
<1>12. n - 1 \in Waits(stack)
    BY <1>1, <1>2 DEF Waits, n
<1>13. Waits(stack) \subseteq 1..(n - 1)
    BY DEF Waits, n
<1>14. Waits(new) = Waits(stack) \ {n - 1}
    BY <1>2, <1>11 DEF Waits, n
<1>15. \A k \in Waits(new) : NameAt(new, k) = NameAt(stack, k)
    BY <1>2, <1>11, <1>13, <1>14 DEF NameAt
<1>16. \A k \in Waits(stack) : NameAt(stack, k) = token.s => k = n - 1
    BY <1>1, <1>9, <1>12 DEF OpenNames
<1>17. Open(new) = Open(stack) \ {token.s}
    BY <1>9, <1>14, <1>15, <1>16 DEF Open
<1>18. \A j, k \in Waits(new) : NameAt(new, j) = NameAt(new, k) => j = k
    BY <1>1, <1>14, <1>15 DEF OpenNames
<1>19. expanding = Open(stack)
    BY <1>1 DEF OpenNames
<1> QED BY <1>5, <1>6, <1>17, <1>18, <1>19 DEF IInv, OpenNames

LEMMA Initially ==
    ASSUME Init
    PROVE  IInv
<1> DEFINE f == Frame(source, [k |-> "main"])
<1>1. FrameOK(f) /\ f.then.k = "main"
    BY FrameNew
<1>2. stack = <<f>> /\ expanding = {}
    BY DEF Init
<1> HIDE DEF f
<1>3. stack \in Seq({f}) /\ Len(stack) = 1 /\ stack[1] = f
    BY <1>2
<1>4. StackOK(stack)
    BY <1>1, <1>3, InOrder
<1>5. Waits(stack) = {}
    BY <1>3 DEF Waits
<1>6. OpenNames
    BY <1>2, <1>5 DEF OpenNames, Open
<1> QED BY <1>4, <1>6 DEF IInv

LEMMA IInvKept == IInv /\ [Next]_vars => IInv'
<1> SUFFICES ASSUME IInv, [Next]_vars
             PROVE  IInv'
    OBVIOUS
<1>1. CASE Enter
    BY <1>1, EnterKeeps
<1>2. CASE Expanded
    BY <1>2, ExpandedKeeps
<1>3. CASE Read /\ ~Enter
    BY <1>3, ReadIsSteady, SteadyIsKept DEF IInv
<1>4. CASE (Again \/ Return) /\ ~Expanded
    BY <1>4, ReturnIsSteady, SteadyIsKept DEF IInv
<1>5. CASE UNCHANGED vars
    BY <1>5 DEF vars, IInv, OpenNames
<1> QED BY <1>1, <1>2, <1>3, <1>4, <1>5 DEF Next

\* The names being expanded are those of the calls that wait, whatever the tokens.
THEOREM NamesAreOpen == Spec => []OpenNames
<1>1. IInv => OpenNames
    BY DEF IInv
<1> QED BY <1>1, Initially, IInvKept, PTL DEF Spec

\* Only the end of the first call ends the run.
LEMMA OnlyFinishEnds ==
    ASSUME Next, ~Finish
    PROVE  phase = "run" /\ phase' # "done"
<1>1. CASE Invoke
    <2>1. PICK j, args : InvokeWith(Cur.s, preprocessors[Cur.s], j, args)
        BY <1>1 DEF Invoke
    <2>2. phase = "run"
        BY <1>1 DEF Invoke, Reading
    <2> QED BY <2>1, <2>2 DEF InvokeWith, Panic
<1>2. CASE Define \/ Delete \/ UserPanic \/ Warn \/ Count
    <2>1. phase = "run"
        BY <1>2 DEF Define, Delete, UserPanic, Warn, Count, At, Reading
    <2>2. Panic \/ UNCHANGED phase
        <3>1. CASE Define
            BY <3>1 DEF Define
        <3>2. CASE ~Define
            BY <1>2, <3>2 DEF Delete, UserPanic, Warn, Count
        <3> QED BY <3>1, <3>2
    <2> QED BY <2>1, <2>2 DEF Panic
<1>3. CASE Evaluate \/ Stringify \/ IsDefined
    <2>1. phase = "run"
        BY <1>3 DEF Evaluate, Stringify, IsDefined, At, Reading
    <2>2. Panic \/ UNCHANGED phase
        BY <1>3 DEF Evaluate, Stringify, IsDefined
    <2> QED BY <2>1, <2>2 DEF Panic
<1>4. CASE Concat \/ If \/ Repeat
    BY <1>4 DEF Concat, If, Repeat, At, Reading
<1>5. CASE Copy \/ Freeze \/ Enter
    BY <1>5 DEF Copy, Freeze, Enter, Other, Reading
<1>6. CASE Again \/ Expanded \/ Concatenated \/ Repeated
    BY <1>6 DEF Again, Expanded, Concatenated, Repeated, Returns, PassEnds
<1>7. CASE Decided
    <2>1. phase = "run"
        BY <1>7 DEF Decided, Returns, PassEnds
    <2>2. PICK cond, t, i, e : Branch(cond, t, i, e)
        BY <1>7 DEF Decided
    <2>3. Panic \/ UNCHANGED phase
        BY <2>2 DEF Branch
    <2> QED BY <2>1, <2>3 DEF Panic
<1>8. CASE Timed
    <2>1. phase = "run"
        BY <1>8 DEF Timed, Returns, PassEnds
    <2>2. PICK times, body, after : RepeatBody(times, body, after)
        BY <1>8 DEF Timed
    <2>3. Panic \/ UNCHANGED phase
        BY <2>2 DEF RepeatBody
    <2> QED BY <2>1, <2>3 DEF Panic
<1> QED BY <1>1, <1>2, <1>3, <1>4, <1>5, <1>6, <1>7, <1>8 DEF Next, Read, Return

\* When the tokens are preprocessed, no expansion is left under way.
THEOREM NoneLeftOpen == Spec => []NothingLeftOpen
<1>1. Init => NothingLeftOpen
    BY DEF Init, NothingLeftOpen
<1>2. IInv /\ NothingLeftOpen /\ [Next]_vars => NothingLeftOpen'
    <2> SUFFICES ASSUME IInv, NothingLeftOpen, [Next]_vars
                 PROVE  NothingLeftOpen'
        OBVIOUS
    <2>1. CASE Finish
        <3>1. Top.then.k = "main" /\ expanding' = expanding
            BY <2>1 DEF Finish, Returns, Names
        <3>2. StackOK(stack) /\ expanding = Open(stack)
            BY DEF IInv, OpenNames
        <3>3. Len(stack) = 1
            BY <3>1, <3>2, TopOK
        <3>4. Waits(stack) = {}
            BY <3>3 DEF Waits
        <3> QED BY <3>1, <3>2, <3>4 DEF Open, NothingLeftOpen
    <2>2. CASE Next /\ ~Finish
        BY <2>2, OnlyFinishEnds DEF NothingLeftOpen
    <2>3. CASE UNCHANGED vars
        BY <2>3 DEF vars, NothingLeftOpen
    <2> QED BY <2>1, <2>2, <2>3
<1> QED BY <1>1, <1>2, Initially, IInvKept, PTL DEF Spec

\* Every branch but two leaves the names that are given up as they are.
LEMMA FrozenKept ==
    ASSUME Next, ~Invoke, ~Freeze
    PROVE  frozen' = frozen
<1>1. CASE Read
    <2>1. CASE Define \/ Delete
        BY <2>1 DEF Define, Delete
    <2>2. CASE UserPanic \/ Warn \/ Count \/ Evaluate \/ Stringify
        BY <2>2 DEF UserPanic, Warn, Count, Evaluate, Stringify, Names
    <2>3. CASE Concat \/ If \/ Repeat \/ IsDefined
        BY <2>3 DEF Concat, If, Repeat, IsDefined, Names
    <2>4. CASE Copy \/ Enter
        BY <2>4 DEF Copy, Enter, Names
    <2> QED BY <1>1, <2>1, <2>2, <2>3, <2>4 DEF Read
<1>2. CASE Again \/ Finish \/ Expanded \/ Concatenated
    BY <1>2 DEF Again, Finish, Expanded, Concatenated, Names
<1>3. CASE Decided \/ Timed \/ Repeated
    BY <1>3 DEF Decided, Timed, Repeated, Names
<1> QED BY <1>1, <1>2, <1>3 DEF Next, Return

\* Only a name met inside its own expansion is given up, and with it the names
\* around it and no others.
THEOREM FrozenAreCyclic == Spec => OnlyOpenFreeze
<1> DEFINE Kept == frozen' # frozen =>
                      Cur.s \in Open(stack) /\ frozen' = frozen \cup Open(stack)
<1>1. IInv /\ Next => Kept
    <2> SUFFICES ASSUME IInv, Next
                 PROVE  Kept
        OBVIOUS
    <2>1. expanding = Open(stack)
        BY DEF IInv, OpenNames
    <2>2. CASE Invoke
        <3>1. PICK j, args : InvokeWith(Cur.s, preprocessors[Cur.s], j, args)
            BY <2>2 DEF Invoke
        <3>2. frozen' = frozen \/ (Cur.s \in expanding /\ GiveUp(Cur.s))
            BY <3>1 DEF InvokeWith
        <3> QED BY <2>1, <3>2 DEF GiveUp
    <2>3. CASE Freeze
        BY <2>1, <2>3 DEF Freeze, GiveUp
    <2>4. CASE ~Invoke /\ ~Freeze
        BY <2>4, FrozenKept
    <2> QED BY <2>2, <2>3, <2>4
<1>2. IInv /\ [Next]_vars => [Kept]_vars
    BY <1>1
<1> QED BY <1>2, Initially, IInvKept, PTL DEF Spec, OnlyOpenFreeze
=============================================================================
