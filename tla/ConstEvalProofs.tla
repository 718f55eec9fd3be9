-------------------------- MODULE ConstEvalProofs --------------------------
(***************************************************************************)
(* The stack of the compile-time evaluator, for every well-formed crate:   *)
(* ConstEval's TypeOK, HandlersInOrder, Chained and ResumeAnswersItsRaise  *)
(* are invariants of Spec.                                                 *)
(*                                                                         *)
(* The argument.  A raise takes contexts off the stack and a resume puts   *)
(* them back, perhaps on another context, while each keeps the index of    *)
(* the context that called it.  What saves the chain is that the index     *)
(* never names a context further down than the caller (Linked): a resume   *)
(* can only be reached in the context that handled the raise or below it   *)
(* (SuspFits), because no function is entered at a block that leads to a   *)
(* resume, and because evaluating a call leaves the control flow of its    *)
(* block as it was (BlocksInv).  If handlers call nothing, it is reached   *)
(* in that very context (QuietFits).                                       *)
(*                                                                         *)
(* Then results and meaning: ConstEvalMeaning's ResultIsExact and          *)
(* MeaningPreserved are invariants of Spec, for every set of crates that   *)
(* keeps the named conditions.                                             *)
(***************************************************************************)
EXTENDS ConstEvalMeaning, IntervalRecursion, SequenceTheorems

-----------------------------------------------------------------------------
(* Sequences. *)

\* The elements of t are elements of s at positions of I, in their order.
Picked(t, s, I) ==
    /\ \A i \in 1..Len(t) : \E k \in I \cap 1..Len(s) : t[i] = s[k]
    /\ \A i, j \in 1..Len(t) : i < j =>
          \E k, m \in I \cap 1..Len(s) : k < m /\ t[i] = s[k] /\ t[j] = s[m]

LEMMA PicksProperties ==
    ASSUME NEW X, NEW s \in Seq(X), NEW I
    PROVE  Picks(s, I) \in Seq(X) /\ Picked(Picks(s, I), s, I)
<1> DEFINE N == Len(s)
           V == Seq(X)
           Onward(v, n) == IF n \in I THEN Append(v, s[n]) ELSE v
           Def(P) == P = [n \in 0..N |-> IF n = 0 THEN <<>>
                          ELSE IF n \in I THEN Append(P[n - 1], s[n]) ELSE P[n - 1]]
           G == [n \in 1..N |-> [v \in V |-> Onward(v, n)]]
           a == <<>>
<1>1. N \in Nat /\ a \in V /\ \A v \in V, n \in 1..N : Onward(v, n) \in V
    OBVIOUS
<1> HIDE DEF V
<1>2. PICK f : IsIterate(f, V, N, a, G)
    <2>1. StaysIn(V, N, G)
        <3> HIDE DEF Onward
        <3> QED BY <1>1 DEF StaysIn
    <2> HIDE DEF N, G, a
    <2> QED BY <1>1, <2>1, IntervalRecursion
<1>3. \A n \in 1..N : f[n] = Onward(f[n - 1], n)
    <2> HIDE DEF Onward
    <2> TAKE n \in 1..N
    <2>1. f[n - 1] \in V
        BY <1>1, <1>2 DEF IsIterate
    <2> QED BY <1>2, <2>1 DEF IsIterate
<1>4. Def(f)
    <2>1. \A n \in 0..N : n # 0 => n \in 1..N
        BY <1>1
    <2>2. f \in [0..N -> V] /\ f[0] = <<>>
        BY <1>2 DEF IsIterate
    <2> QED BY <1>3, <2>1, <2>2, Zenon
<1> DEFINE P == CHOOSE P : Def(P)
<1>5. Def(P) /\ Picks(s, I) = P[N]
    BY <1>4, Zenon DEF Picks
<1> HIDE DEF P
<1>6. P[0] = <<>> /\ \A n \in 1..N : P[n] = Onward(P[n - 1], n)
    <2>1. \A n \in 0..N : P[n] = IF n = 0 THEN <<>> ELSE Onward(P[n - 1], n)
        BY <1>5, Zenon
    <2>2. 0 \in 0..N /\ \A n \in 1..N : n \in 0..N /\ n # 0
        BY <1>1
    <2> HIDE DEF Onward
    <2> QED BY <2>1, <2>2
<1> DEFINE Some(p, n) == \A i \in 1..Len(p) : \E k \in I \cap 1..n : p[i] = s[k]
           Ordered(p, n) == \A i, j \in 1..Len(p) : i < j =>
                               \E k, m \in I \cap 1..n : k < m /\ p[i] = s[k] /\ p[j] = s[m]
           S == {n \in 0..N : P[n] \in Seq(X) /\ Some(P[n], n) /\ Ordered(P[n], n)}
<1>7. 0 \in S
    <2>1. 0 \in 0..N /\ <<>> \in Seq(X) /\ P[0] = <<>> /\ Len(<<>>) = 0
        BY <1>1, <1>6
    <2>2. 1..0 = {}
        OBVIOUS
    <2>3. Some(<<>>, 0) /\ Ordered(<<>>, 0)
        BY <2>1, <2>2
    <2> HIDE DEF Some, Ordered
    <2> QED BY <2>1, <2>3
<1>8. ASSUME NEW n \in 1..N, n - 1 \in S
      PROVE  n \in S
    <2> DEFINE p == P[n - 1]
               q == P[n]
    <2>1. n \in 0..N /\ p \in Seq(X) /\ Some(p, n - 1) /\ Ordered(p, n - 1) /\ Len(p) \in Nat
        BY <1>1, <1>8
    <2>2. \A k \in I \cap 1..(n - 1) : k \in I \cap 1..n /\ k < n
        BY <1>1
    <2>3. CASE n \notin I
        <3>1. q = p
            BY <1>6, <2>3
        <3>2. Some(p, n) /\ Ordered(p, n)
            <4> HIDE DEF p
            <4>1. Some(p, n)
                BY <2>1, <2>2
            <4>2. Ordered(p, n)
                <5> SUFFICES ASSUME NEW i \in 1..Len(p), NEW j \in 1..Len(p), i < j
                             PROVE  \E k, m \in I \cap 1..n : k < m /\ p[i] = s[k] /\ p[j] = s[m]
                    OBVIOUS
                <5> QED BY <2>1, <2>2
            <4> QED BY <4>1, <4>2
        <3> HIDE DEF Some, Ordered
        <3> QED BY <2>1, <3>1, <3>2
    <2>4. CASE n \in I
        <3>0. s[n] \in X
            OBVIOUS
        <3>1. q = Append(p, s[n])
            BY <1>6, <2>4
        <3> HIDE DEF p, q
        <3>2. /\ q \in Seq(X) /\ Len(q) = Len(p) + 1 /\ q[Len(q)] = s[n]
              /\ \A i \in 1..Len(p) : q[i] = p[i]
            BY <2>1, <3>0, <3>1
        <3>3. /\ \A i \in 1..Len(q) : i = Len(q) \/ i \in 1..Len(p)
              /\ \A i, j \in 1..Len(q) : i < j => i \in 1..Len(p)
            BY <2>1, <3>2
        <3>4. n \in I \cap 1..n
            BY <1>1, <2>4
        <3>5. Some(q, n)
            <4> SUFFICES ASSUME NEW i \in 1..Len(q)
                         PROVE  \E k \in I \cap 1..n : q[i] = s[k]
                OBVIOUS
            <4>1. CASE i = Len(q)
                BY <3>2, <3>4, <4>1
            <4>2. CASE i \in 1..Len(p)
                <5>1. PICK k \in I \cap 1..(n - 1) : p[i] = s[k]
                    BY <2>1, <4>2
                <5> QED BY <2>2, <3>2, <4>2, <5>1
            <4> QED BY <3>3, <4>1, <4>2
        <3>6. Ordered(q, n)
            <4> SUFFICES ASSUME NEW i \in 1..Len(q), NEW j \in 1..Len(q), i < j
                         PROVE  \E k, m \in I \cap 1..n : k < m /\ q[i] = s[k] /\ q[j] = s[m]
                OBVIOUS
            <4>1. i \in 1..Len(p) /\ q[i] = p[i]
                BY <3>2, <3>3
            <4>2. CASE j = Len(q)
                <5>1. PICK k \in I \cap 1..(n - 1) : p[i] = s[k]
                    BY <2>1, <4>1
                <5> QED BY <2>2, <3>2, <3>4, <4>1, <4>2, <5>1
            <4>3. CASE j \in 1..Len(p)
                <5>1. PICK k \in I \cap 1..(n - 1), m \in I \cap 1..(n - 1) :
                         k < m /\ p[i] = s[k] /\ p[j] = s[m]
                    BY <2>1, <4>1, <4>3
                <5> QED BY <2>2, <3>2, <4>1, <4>3, <5>1
            <4> QED BY <3>3, <4>2, <4>3
        <3> QED BY <2>1, <3>2, <3>5, <3>6 DEF q
    <2> QED BY <2>3, <2>4
<1>9. N \in S
    <2> HIDE DEF S, N
    <2> QED BY <1>1, <1>7, <1>8, IntervalInduction
<1>10. P[N] \in Seq(X) /\ Some(P[N], N) /\ Ordered(P[N], N)
    BY <1>9
<1>11. Picks(s, I) \in Seq(X) /\ Some(Picks(s, I), Len(s)) /\ Ordered(Picks(s, I), Len(s))
    <2> HIDE DEF Some, Ordered
    <2> QED BY <1>5, <1>10
<1> HIDE DEF N
<1> QED BY <1>11 DEF Picked

-----------------------------------------------------------------------------
(* The inductive invariant. *)

\* The call of a block, with where its result goes.
IsCall(c, b, dest, target) ==
    /\ b \in 1..Len(c.blocks) /\ \E f \in 1..Len(c.funs) : b \in BlocksOf(c, f)
    /\ c.blocks[b].term.kind = "call"
    /\ c.blocks[b].term.dest = dest /\ c.blocks[b].term.target = target

\* A context runs a consteval function, is at a block of it, and was made
\* by a call of the crate.
Frames(c) ==
    {k \in [fun : 1..Len(c.funs), block : Nat, locals : Seq(Value), caller : Nat,
            dest : Nat, target : Nat, callBlock : Nat] :
        /\ c.funs[k.fun].consteval
        /\ k.block \in BlocksOf(c, k.fun)
        /\ Len(k.locals) = c.funs[k.fun].size
        /\ IsCall(c, k.callBlock, k.dest, k.target)}

Jobs(c) ==
    {j \in [block : Nat, func : 1..Len(c.funs), args : Seq(Value), dest : Nat, target : Nat] :
        c.funs[j.func].consteval /\ IsCall(c, j.block, j.dest, j.target)}

Handlers(c) == [control : Nat, ctx : Nat \ {0}, block : 1..Len(c.blocks), merge : Nat]

Continuations(c) ==
    {k \in [frames : Seq(Frames(c)), target : Nat, dest : Nat, ctx : Nat \ {0}] :
        k.frames # <<>> => k.target \in BlocksOf(c, k.frames[Len(k.frames)].fun)}

\* A block keeps the type of its function; its terminator is the one it was
\* given, unless that was a call which has been evaluated.
BlocksInv ==
    /\ blocks = [b \in 1..Len(crate.blocks) |-> blocks[b]]
    /\ \A f \in 1..Len(crate.funs) : \A b \in BlocksOf(crate, f) : blocks[b] \in BlockOf(crate, f)
    /\ \A b \in 1..Len(crate.blocks) :
          \/ blocks[b].term = crate.blocks[b].term
          \/ /\ crate.blocks[b].term.kind = "call"
             /\ blocks[b].term.kind \in {"goto", "unreachable"}
             /\ Succs(blocks[b].term) \subseteq Succs(crate.blocks[b].term)

Typed ==
    /\ crate \in Crates
    /\ phase \in {"collect", "next", "run", "done", "panic"}
    /\ todo \subseteq 1..Len(crate.funs)
    /\ BlocksInv
    /\ pending \in Seq(Jobs(crate))
    /\ stack \in Seq(Frames(crate))
    /\ handlers \in Seq(Handlers(crate))
    /\ susp \in Seq(Continuations(crate)) /\ Len(susp) <= 1

\* Where control may return to in a function.
Returns(c, f) == {0} \cup BlocksOf(c, f)

\* The contexts of fs, at the positions above n, were each called from the
\* one below or from one that is not below any more: a result never goes
\* further down than the context that made the call.
Linked(c, fs, n) ==
    /\ \A i \in 1..Len(fs) : fs[i].caller >= n + i - 1
    /\ \A i \in 2..Len(fs) : fs[i].caller = n + i - 1 =>
          fs[i].target \in Returns(c, fs[i - 1].fun)

\* The i-th context is in a handler that may resume, or will be when the
\* context above it returns.
InHandler(c, st, i) ==
    \/ i = Len(st) /\ st[i].block \in Answering(c)
    \/ i < Len(st) /\ st[i + 1].target \in Answering(c)

\* Each handler belongs to a context of the stack, is a block of its
\* function, and comes after those of the contexts below.
HandlersFit(c, hs, st) ==
    /\ \A i \in 1..Len(hs) :
          /\ hs[i].ctx \in 1..Len(st)
          /\ hs[i].block \in BlocksOf(c, st[hs[i].ctx].fun)
    /\ \A i, j \in 1..Len(hs) : i < j => hs[i].ctx <= hs[j].ctx

\* No context above the one that handled the suspended raise is in a
\* handler, and if that one still is, what was captured returns to it.
SuspFits(c, su, st) ==
    \A s \in 1..Len(su) : LET k == su[s] IN
        /\ Linked(c, k.frames, k.ctx)
        /\ \A i \in 1..Len(st) : i > k.ctx => ~InHandler(c, st, i)
        /\ k.ctx \in 1..Len(st) /\ InHandler(c, st, k.ctx) /\ k.frames # <<>>
              /\ k.frames[1].caller = k.ctx =>
                 k.frames[1].target \in Returns(c, st[k.ctx].fun)

StackInv ==
    /\ stack # <<>> /\ pending # <<>>
    /\ Linked(crate, stack, 0)
    /\ HandlersFit(crate, handlers, stack)
    /\ SuspFits(crate, susp, stack)

\* With quiet handlers only the top context is ever in one, the one that
\* handled the suspended raise.
QuietFits(c, st, su) ==
    /\ \A i \in 1..Len(st) : st[i].caller = i - 1
    /\ \A s \in 1..Len(su) : LET k == su[s] IN
          \A i \in 1..Len(k.frames) : k.frames[i].caller = k.ctx + i - 1
    /\ \A i \in 1..Len(st) : InHandler(c, st, i) =>
          i = Len(st) /\ \A s \in 1..Len(su) : su[s].ctx = i

IInv ==
    /\ Typed
    /\ phase = "run" => StackInv /\ (QuietHandlers => QuietFits(crate, stack, susp))

-----------------------------------------------------------------------------
(* Crates. *)

\* What WellFormed says, by its parts.
LEMMA CrateTypes ==
    ASSUME NEW c \in Crates
    PROVE  /\ Len(c.blocks) \in Nat /\ Len(c.funs) \in Nat /\ c.main \in 1..Len(c.funs)
           /\ c.blocks = [b \in 1..Len(c.blocks) |-> c.blocks[b]]
           /\ \A f \in 1..Len(c.funs) :
                 /\ c.funs[f].ret \in 1..c.funs[f].size /\ c.funs[f].size \in Nat
                 /\ c.funs[f].blocks \in Seq(1..Len(c.blocks))
                 /\ Len(c.funs[f].blocks) \in Nat
                 /\ c.funs[f].blocks[1] \in BlocksOf(c, f)
                 /\ c.funs[f].blocks[1] \notin Answering(c)
                 /\ c.funs[f].span \in Nat \ {0} /\ c.funs[f].low \in Word
                 /\ c.funs[f].low + c.funs[f].span <= Half
                 /\ BlocksOf(c, f) \subseteq 1..Len(c.blocks)
                 /\ \A b \in BlocksOf(c, f) : c.blocks[b] \in BlockOf(c, f)
<1> USE CratesAssumption DEF WellFormed
<1>1. /\ c.main \in 1..Len(c.funs)
      /\ c.blocks \in Seq({c.blocks[b] : b \in 1..Len(c.blocks)})
    OBVIOUS
<1>2. Len(c.blocks) \in Nat /\ c.blocks = [b \in 1..Len(c.blocks) |-> c.blocks[b]]
    BY <1>1
<1> DEFINE B == Seq(1..Len(c.blocks))
           Fun == [blocks : B, ret : Nat, size : Nat, consteval : BOOLEAN,
                   ty : {"unit", "int", "bool", "enum"}, low : Word, span : Nat \ {0}]
<1>3. c.funs \in Seq(Fun)
    OBVIOUS
<1>4. ASSUME NEW f \in 1..Len(c.funs)
      PROVE  /\ c.funs[f].size \in Nat
             /\ c.funs[f].blocks \in Seq(1..Len(c.blocks))
             /\ c.funs[f].span \in Nat \ {0} /\ c.funs[f].low \in Word
    <2>1. c.funs[f] \in Fun
        <3> HIDE DEF Fun
        <3> QED BY ONLY <1>3, f \in 1..Len(c.funs)
    <2> HIDE DEF B
    <2>2. /\ c.funs[f].size \in Nat /\ c.funs[f].blocks \in B /\ c.funs[f].span \in Nat \ {0}
          /\ c.funs[f].low \in Word
        BY ONLY <2>1
    <2> QED BY <2>2 DEF B
<1>5. ASSUME NEW f \in 1..Len(c.funs)
      PROVE  /\ c.funs[f].ret \in 1..c.funs[f].size
             /\ c.funs[f].low + c.funs[f].span <= Half
             /\ Len(c.funs[f].blocks) >= 1
             /\ c.funs[f].blocks[1] \notin Answering(c)
             /\ \A b \in BlocksOf(c, f) : c.blocks[b] \in BlockOf(c, f)
    OBVIOUS
<1>6. ASSUME NEW f \in 1..Len(c.funs)
      PROVE  /\ Len(c.funs[f].blocks) \in Nat
             /\ c.funs[f].blocks[1] \in BlocksOf(c, f)
             /\ BlocksOf(c, f) \subseteq 1..Len(c.blocks)
    BY <1>4, <1>5 DEF BlocksOf
<1>7. Len(c.funs) \in Nat
    <2> HIDE DEF Fun
    <2> QED BY ONLY <1>3
<1> QED BY <1>1, <1>2, <1>4, <1>5, <1>6, <1>7

\* The parts of a block, and of its terminator.
LEMMA BlockTypes ==
    ASSUME NEW c, NEW f, NEW b \in BlockOf(c, f)
    PROVE  LET n == c.funs[f].size
               B == BlocksOf(c, f)
               t == b.term
           IN  /\ b = [params |-> b.params, stmts |-> b.stmts, term |-> t]
               /\ b.params \in Seq(1..n) /\ b.stmts \in Seq(Statements(n))
               /\ t \in Terminators(c, f)
               /\ t.kind = "goto" => t.target \in B /\ t.args \in Seq(Rvalues(n))
               /\ t.kind = "switch" => /\ t.disc \in Rvalues(n) /\ t.default \in B
                                       /\ t.targets \in Seq(Value \X B)
               /\ t.kind = "call" => /\ t.func \in 1..Len(c.funs) /\ t.args \in Seq(Rvalues(n))
                                     /\ t.dest \in 1..n /\ t.target \in B \cup {0}
               /\ t.kind = "install" => t.handler \in B /\ t.next \in B /\ t.control \in Nat
               /\ t.kind = "raise" => /\ t.control \in Nat /\ t.args \in Seq(Rvalues(n))
                                      /\ t.dest \in 1..n
               /\ t.kind = "resume" => t.place \in 1..n /\ t.target \in B
<1> DEFINE n == c.funs[f].size
           B == BlocksOf(c, f)
           t == b.term
<1>1. /\ b = [params |-> b.params, stmts |-> b.stmts, term |-> t]
      /\ b.params \in Seq(1..n) /\ b.stmts \in Seq(Statements(n)) /\ t \in Terminators(c, f)
    BY DEF BlockOf
<1> DEFINE R == Rvalues(n)
<1>2. t \in [kind : {"return", "unreachable", "callptr"}]
        \cup [kind : {"goto"}, target : B, args : Seq(R)]
        \cup [kind : {"switch"}, disc : R, targets : Seq(Value \X B), default : B]
        \cup [kind : {"call"}, func : 1..Len(c.funs), args : Seq(R), dest : 1..n,
              target : B \cup {0}]
        \cup [kind : {"install"}, handler : B, next : B, control : Nat]
        \cup [kind : {"raise"}, control : Nat, args : Seq(R), dest : 1..n]
        \cup [kind : {"resume"}, place : 1..n, target : B]
    BY <1>1 DEF Terminators
<1> HIDE DEF R, B, n, t
<1>3. /\ t.kind = "goto" => t.target \in B /\ t.args \in Seq(R)
      /\ t.kind = "switch" => t.disc \in R /\ t.default \in B /\ t.targets \in Seq(Value \X B)
    BY <1>2
<1>4. t.kind = "call" => /\ t.func \in 1..Len(c.funs) /\ t.args \in Seq(R)
                         /\ t.dest \in 1..n /\ t.target \in B \cup {0}
    BY <1>2
<1>5. /\ t.kind = "install" => t.handler \in B /\ t.next \in B /\ t.control \in Nat
      /\ t.kind = "raise" => t.control \in Nat /\ t.args \in Seq(R) /\ t.dest \in 1..n
      /\ t.kind = "resume" => t.place \in 1..n /\ t.target \in B
    BY <1>2
<1> QED BY <1>1, <1>3, <1>4, <1>5 DEF R, B, n, t

-----------------------------------------------------------------------------
(* Values. *)

MaybeValue == Value \cup {Bad}

LEMMA ValueTypes ==
    /\ UnitValue \in Value /\ Bad \notin Value /\ Word \subseteq Int
    /\ \A n \in Word : IntValue(n) \in Value
    /\ \A p \in BOOLEAN : BoolValue(p) \in Value
    /\ \A v \in Value : v.n \in Word
<1>1. Word \subseteq Int /\ 0 \in Word /\ 1 \in Word
    BY WordAssumption DEF Word
<1> QED BY <1>1 DEF Value, UnitValue, IntValue, BoolValue, Bad, val

\* Wrapping stays in its range, and leaves what is in it alone.
LEMMA WrapType ==
    ASSUME NEW n \in Int, NEW low \in Int, NEW span \in Nat \ {0}
    PROVE  /\ Wrap(n, low, span) \in Int
           /\ low <= Wrap(n, low, span) /\ Wrap(n, low, span) < low + span
           /\ low <= n /\ n < low + span => Wrap(n, low, span) = n
<1> DEFINE m == n - low
<1>1. m \in Int /\ m % span \in 0..(span - 1)
    OBVIOUS
<1>2. m >= 0 /\ m < span => m % span = m
    OBVIOUS
<1>3. Wrap(n, low, span) = low + (m % span) /\ n = low + m
    BY DEF Wrap
<1> HIDE DEF m
<1> QED BY <1>1, <1>2, <1>3

LEMMA SumType ==
    ASSUME NEW n \in Int
    PROVE  Sum(n) \in MaybeValue /\ Quotient(n) \in MaybeValue
<1>1. Wrap(n, -Half, 2 * Half) \in Word
    <2> DEFINE low == -Half
               span == 2 * Half
               m == Wrap(n, low, span)
    <2>1. low \in Int /\ span \in Nat \ {0} /\ low + span = Half
        BY WordAssumption
    <2>2. m \in Int /\ low <= m /\ m < low + span
        <3> HIDE DEF low, span
        <3> QED BY <2>1, WrapType
    <2> HIDE DEF m
    <2>3. m \in Word
        BY <2>1, <2>2, WordAssumption DEF Word
    <2> QED BY <2>3 DEF m
<1> QED BY <1>1, ValueTypes DEF Sum, Quotient, MaybeValue

LEMMA ArithType ==
    ASSUME NEW f \in {"add", "sub", "mul", "div"}, NEW x \in Int, NEW y \in Int,
           f = "div" => y # 0
    PROVE  Arith(f, x, y) \in Int
<1>1. CASE f = "add"
    BY <1>1 DEF Arith
<1>2. CASE f = "sub"
    BY <1>2 DEF Arith
<1>3. CASE f = "mul"
    <2>1. x * y \in Int
        OBVIOUS
    <2> QED BY <1>3, <2>1 DEF Arith
<1>4. CASE f = "div"
    <2>1. Abs(x) \in Nat /\ Abs(y) \in Nat /\ Abs(y) > 0
        BY <1>4 DEF Abs
    <2>2. Abs(x) \div Abs(y) \in Int
        <3> HIDE DEF Abs
        <3> QED BY <2>1
    <2> QED BY <1>4, <2>2 DEF Arith
<1> QED BY <1>1, <1>2, <1>3, <1>4

LEMMA BinaryType ==
    ASSUME NEW f \in BinaryOps, NEW x \in Value, NEW y \in Value
    PROVE  Binary(f, x, y) \in MaybeValue
<1>0. x.n \in Int /\ y.n \in Int
    BY ValueTypes
<1>1. CASE f \in {"add", "sub", "mul"}
    <2>1. Sum(Arith(f, x.n, y.n)) \in MaybeValue
        BY <1>0, <1>1, ArithType, SumType
    <2> QED BY <1>1, <2>1 DEF Binary, MaybeValue
<1>2. CASE f = "div"
    <2>1. y.n # 0 => Quotient(Arith(f, x.n, y.n)) \in MaybeValue
        BY <1>0, <1>2, ArithType, SumType
    <2> QED BY <1>2, <2>1 DEF Binary, MaybeValue
<1>3. CASE f \in {"eq", "ne", "lt", "le"}
    <2>1. Binary(f, x, y) \in {BoolValue(TRUE), BoolValue(FALSE), Bad}
        BY <1>3 DEF Binary, BoolValue
    <2> QED BY <2>1, ValueTypes DEF MaybeValue
<1> QED BY <1>1, <1>2, <1>3 DEF BinaryOps

LEMMA UnaryType ==
    ASSUME NEW f \in {"neg", "not"}, NEW x \in Value
    PROVE  Unary(f, x) \in MaybeValue
<1>1. x.n \in Int /\ -x.n \in Int
    <2>1. x.n \in Int
        BY ValueTypes
    <2> QED BY <2>1
<1>2. Sum(-x.n) \in MaybeValue /\ BoolValue(x.n = 0) \in Value
    BY <1>1, SumType, ValueTypes
<1> QED BY <1>2 DEF Unary, MaybeValue

LEMMA AtomType ==
    ASSUME NEW n \in Nat, NEW a \in Atoms(n), NEW locals \in [1..n -> Value],
           NEW params \in Seq(1..n)
    PROVE  Atom(a, locals, params) \in MaybeValue
<1>1. CASE a.op = "const"
    BY <1>1 DEF Atom, Atoms, MaybeValue
<1>2. CASE a.op = "local"
    BY <1>2 DEF Atom, Atoms, MaybeValue
<1>3. CASE a.op = "arg"
    <2>1. a.id \in Nat \ {0}
        BY <1>3 DEF Atoms
    <2>2. a.id <= Len(params) => params[a.id] \in 1..n
        BY <2>1
    <2> QED BY <1>3, <2>2 DEF Atom, MaybeValue
<1> QED BY <1>1, <1>2, <1>3 DEF Atoms

\* An rvalue is a value or cannot be evaluated.
LEMMA EvalType ==
    ASSUME NEW n \in Nat, NEW rv \in Rvalues(n), NEW locals \in [1..n -> Value],
           NEW params \in Seq(1..n)
    PROVE  Eval(rv, locals, params) \in MaybeValue
<1>1. CASE rv \in Atoms(n)
    <2>1. rv.op \in {"const", "local", "arg"}
        BY <1>1 DEF Atoms
    <2>2. Atom(rv, locals, params) \in MaybeValue
        BY <1>1, AtomType
    <2> QED BY <2>1, <2>2 DEF Eval
<1>2. CASE rv \in [op : {"binary"}, f : BinaryOps, l : Atoms(n), r : Atoms(n)]
    <2> DEFINE x == Atom(rv.l, locals, params)
               y == Atom(rv.r, locals, params)
    <2>1. rv.op = "binary" /\ rv.f \in BinaryOps /\ rv.l \in Atoms(n) /\ rv.r \in Atoms(n)
        BY <1>2
    <2>2. x \in MaybeValue /\ y \in MaybeValue
        BY <2>1, AtomType
    <2>3. x # Bad /\ y # Bad => Binary(rv.f, x, y) \in MaybeValue
        BY <2>1, <2>2, BinaryType DEF MaybeValue
    <2>4. Eval(rv, locals, params) = IF x = Bad \/ y = Bad THEN Bad ELSE Binary(rv.f, x, y)
        BY <2>1 DEF Eval
    <2> QED BY <2>3, <2>4 DEF MaybeValue
<1>3. CASE rv \in [op : {"unary"}, f : {"neg", "not"}, r : Atoms(n)]
    <2> DEFINE x == Atom(rv.r, locals, params)
    <2>1. rv.op = "unary" /\ rv.f \in {"neg", "not"} /\ rv.r \in Atoms(n)
        BY <1>3
    <2>2. x \in MaybeValue
        BY <2>1, AtomType
    <2>3. x # Bad => Unary(rv.f, x) \in MaybeValue
        BY <2>1, <2>2, UnaryType DEF MaybeValue
    <2>4. Eval(rv, locals, params) = IF x = Bad THEN Bad ELSE Unary(rv.f, x)
        BY <2>1 DEF Eval
    <2> QED BY <2>3, <2>4 DEF MaybeValue
<1>4. CASE rv \in [op : {"bad"}]
    BY <1>4 DEF Eval, MaybeValue
<1> QED BY <1>1, <1>2, <1>3, <1>4 DEF Rvalues

\* The arguments of a call, if all can be evaluated.
LEMMA EvalAllType ==
    ASSUME NEW n \in Nat, NEW rvs \in Seq(Rvalues(n)), NEW locals \in [1..n -> Value],
           NEW params \in Seq(1..n), AllGood(EvalAll(rvs, locals, params))
    PROVE  EvalAll(rvs, locals, params) \in Seq(Value)
<1> DEFINE vs == EvalAll(rvs, locals, params)
<1>1. vs = [i \in 1..Len(rvs) |-> Eval(rvs[i], locals, params)] /\ Len(rvs) \in Nat
    BY DEF EvalAll
<1>2. Len(vs) = Len(rvs)
    BY <1>1
<1>3. ASSUME NEW i \in 1..Len(rvs)
      PROVE  vs[i] \in Value
    <2>1. rvs[i] \in Rvalues(n)
        OBVIOUS
    <2>2. vs[i] \in MaybeValue
        BY <1>1, <2>1, EvalType
    <2>3. vs[i] # Bad
        BY <1>2 DEF AllGood
    <2> QED BY <2>2, <2>3 DEF MaybeValue
<1> HIDE DEF vs
<1>4. vs \in [1..Len(rvs) -> Value]
    BY <1>1, <1>3
<1>5. vs \in Seq(Value)
    BY <1>1, <1>4
<1> QED BY <1>5 DEF vs

LEMMA ToConstType ==
    ASSUME NEW v \in Value, NEW f, f.span \in Nat \ {0}, f.low \in Word, f.low + f.span <= Half
    PROVE  ToConst(v, f) \in MaybeValue
<1>1. v.n \in Int /\ f.low \in Int
    BY ValueTypes
<1> DEFINE n == Wrap(v.n, f.low, f.span)
<1>2. n \in Int /\ f.low <= n /\ n < f.low + f.span
    BY <1>1, WrapType
<1> HIDE DEF n
<1>3. n \in Word
    BY <1>1, <1>2, WordAssumption DEF Word
<1>4. IntValue(n) \in Value
    BY <1>3, ValueTypes
<1> QED BY <1>4 DEF ToConst, MaybeValue, n

\* What one statement makes of the locals.
AfterOne(prev, st, params) ==
    LET v == Eval(st.rv, prev, params)
    IN  IF prev = Failed \/ v = Bad THEN Failed ELSE [prev EXCEPT ![st.local] = v]

MaybeLocals(n) == [1..n -> Value] \cup {Failed}

LEMMA AfterOneType ==
    ASSUME NEW n \in Nat, NEW params \in Seq(1..n), NEW st \in Statements(n),
           NEW prev \in MaybeLocals(n)
    PROVE  AfterOne(prev, st, params) \in MaybeLocals(n)
<1> DEFINE v == Eval(st.rv, prev, params)
<1>1. st.rv \in Rvalues(n) /\ st.local \in 1..n
    BY DEF Statements
<1>2. CASE prev # Failed /\ v # Bad
    <2>1. prev \in [1..n -> Value]
        BY <1>2 DEF MaybeLocals
    <2>2. v \in Value
        BY <1>1, <1>2, <2>1, EvalType DEF MaybeValue
    <2> HIDE DEF v
    <2>3. [prev EXCEPT ![st.local] = v] \in [1..n -> Value]
        BY <1>1, <2>1, <2>2
    <2>4. AfterOne(prev, st, params) = [prev EXCEPT ![st.local] = v]
        BY <1>2 DEF AfterOne, v
    <2> QED BY <2>3, <2>4 DEF MaybeLocals
<1>3. CASE prev = Failed \/ v = Bad
    BY <1>3 DEF AfterOne, MaybeLocals
<1> QED BY <1>2, <1>3

\* L has the locals after each statement of b.
IsRun(L, b, locals, n) ==
    /\ L[0] = locals
    /\ \A i \in 1..Len(b.stmts) : L[i] = AfterOne(L[i - 1], b.stmts[i], b.params)
    /\ \A i \in 0..Len(b.stmts) : L[i] \in MaybeLocals(n)

LEMMA AfterRun ==
    ASSUME NEW n \in Nat, NEW b, b.params \in Seq(1..n), b.stmts \in Seq(Statements(n)),
           NEW locals \in [1..n -> Value]
    PROVE  \E L : IsRun(L, b, locals, n) /\ AfterStatements(b, locals) = L[Len(b.stmts)]
<1> DEFINE N == Len(b.stmts)
           V == MaybeLocals(n)
           Onward(prev, i) == AfterOne(prev, b.stmts[i], b.params)
           Def(L) == L = [i \in 0..N |-> IF i = 0 THEN locals
                          ELSE LET prev == L[i - 1]
                                   v == Eval(b.stmts[i].rv, prev, b.params)
                               IN  IF prev = Failed \/ v = Bad THEN Failed
                                   ELSE [prev EXCEPT ![b.stmts[i].local] = v]]
           G == [i \in 1..N |-> [v \in V |-> Onward(v, i)]]
<1>0. 0 \in 0..N /\ \A i \in 1..N : i \in 0..N /\ i - 1 \in 0..N
    OBVIOUS
<1>1. N \in Nat /\ locals \in V
    BY DEF MaybeLocals
<1>2. ASSUME NEW i \in 1..N, NEW prev \in V
      PROVE  Onward(prev, i) \in V
    <2>1. b.stmts[i] \in Statements(n)
        OBVIOUS
    <2> QED BY <2>1, AfterOneType
<1> HIDE DEF V
<1>3. PICK f : IsIterate(f, V, N, locals, G)
    <2>1. StaysIn(V, N, G)
        <3> HIDE DEF Onward
        <3> QED BY <1>2 DEF StaysIn
    <2> HIDE DEF N, G
    <2> QED BY <1>1, <2>1, IntervalRecursion
<1>4. \A i \in 1..N : f[i] = Onward(f[i - 1], i)
    <2> HIDE DEF Onward
    <2> TAKE i \in 1..N
    <2> HIDE DEF N
    <2>1. f[i - 1] \in V
        BY <1>0, <1>3 DEF IsIterate
    <2> QED BY <1>3, <2>1 DEF IsIterate
<1>5. Def(f)
    <2>1. \A i \in 0..N : i # 0 => i \in 1..N
        BY <1>1
    <2>2. f \in [0..N -> V] /\ f[0] = locals
        BY <1>3 DEF IsIterate
    <2> QED BY <1>4, <2>1, <2>2, Zenon DEF AfterOne
<1> DEFINE L == CHOOSE L : Def(L)
<1>6. Def(L) /\ AfterStatements(b, locals) = L[N]
    BY <1>5, Zenon DEF AfterStatements
<1> HIDE DEF L
<1>7. L[0] = locals /\ \A i \in 1..N : L[i] = Onward(L[i - 1], i)
    <2>1. \A i \in 0..N : L[i] = IF i = 0 THEN locals ELSE Onward(L[i - 1], i)
        BY <1>6, Zenon DEF AfterOne
    <2>2. 0 \in 0..N /\ \A i \in 1..N : i \in 0..N /\ i # 0
        BY <1>1
    <2> HIDE DEF Onward
    <2> QED BY <2>1, <2>2
<1> DEFINE S == {i \in 0..N : L[i] \in V}
<1>8. \A i \in 0..N : i \in S
    <2>1. 0 \in S
        BY <1>0, <1>1, <1>7
    <2>2. \A i \in 1..N : i - 1 \in S => i \in S
        <3> HIDE DEF Onward, N
        <3> QED BY <1>0, <1>2, <1>7
    <2> HIDE DEF S, N
    <2> QED BY <1>1, <2>1, <2>2, IntervalInduction
<1>9. IsRun(L, b, locals, n)
    <2> HIDE DEF Onward, N
    <2>1. \A i \in 0..N : L[i] \in V
        BY <1>8
    <2>2. \A i \in 1..N : L[i] = AfterOne(L[i - 1], b.stmts[i], b.params)
        BY <1>7 DEF Onward
    <2> QED BY <1>7, <2>1, <2>2 DEF IsRun, N, V
<1> QED BY <1>6, <1>9 DEF N

\* The statements of a block fail, or leave the locals with values.
LEMMA AfterType ==
    ASSUME NEW n \in Nat, NEW b, b.params \in Seq(1..n), b.stmts \in Seq(Statements(n)),
           NEW locals \in [1..n -> Value]
    PROVE  AfterStatements(b, locals) \in [1..n -> Value] \cup {Failed}
<1>1. PICK L : IsRun(L, b, locals, n) /\ AfterStatements(b, locals) = L[Len(b.stmts)]
    BY AfterRun
<1>2. Len(b.stmts) \in 0..Len(b.stmts)
    OBVIOUS
<1> QED BY <1>1, <1>2 DEF IsRun, MaybeLocals

\* The functions main may come to.
LEMMA ReachableType ==
    ASSUME NEW c \in Crates
    PROVE  Reachable(c) \subseteq 1..Len(c.funs)
<1> DEFINE N == Len(c.funs)
           V == SUBSET (1..N)
           Onward(prev) == prev \cup UNION {Calls(c, f) : f \in prev}
           Def(R) == R = [n \in 0..N |-> IF n = 0 THEN {c.main}
                          ELSE LET prev == R[n - 1] IN prev \cup UNION {Calls(c, f) : f \in prev}]
           G == [n \in 1..N |-> [v \in V |-> Onward(v)]]
           a == {c.main}
<1>0. 0 \in 0..N /\ \A n \in 1..N : n \in 0..N /\ n - 1 \in 0..N
    OBVIOUS
<1>1. N \in Nat /\ a \in V
    BY CrateTypes
<1>2. \A f \in 1..N : Calls(c, f) \subseteq 1..N
    <2> SUFFICES ASSUME NEW f \in 1..N, NEW b \in BlocksOf(c, f), c.blocks[b].term.kind = "call"
                 PROVE  c.blocks[b].term.func \in 1..N
        BY DEF Calls
    <2>1. c.blocks[b] \in BlockOf(c, f)
        BY CrateTypes
    <2> QED BY <2>1, BlockTypes
<1>3. \A prev \in V : Onward(prev) \in V
    BY <1>2
<1> HIDE DEF V
<1>4. PICK f : IsIterate(f, V, N, a, G)
    <2>1. StaysIn(V, N, G)
        <3> HIDE DEF Onward
        <3> QED BY <1>3 DEF StaysIn
    <2> HIDE DEF N, G, a
    <2> QED BY <1>1, <2>1, IntervalRecursion
<1>5. \A n \in 1..N : f[n] = Onward(f[n - 1])
    <2> HIDE DEF Onward
    <2> TAKE n \in 1..N
    <2> HIDE DEF N
    <2>1. f[n - 1] \in V
        BY <1>0, <1>4 DEF IsIterate
    <2> QED BY <1>4, <2>1 DEF IsIterate
<1>6. Def(f)
    <2>1. \A n \in 0..N : n # 0 => n \in 1..N
        BY <1>1
    <2>2. f \in [0..N -> V] /\ f[0] = {c.main}
        BY <1>4 DEF IsIterate
    <2> QED BY <1>5, <2>1, <2>2, Zenon
<1> DEFINE R == CHOOSE R : Def(R)
<1>7. Def(R) /\ Reachable(c) = R[N]
    BY <1>6, Zenon DEF Reachable
<1> HIDE DEF R
<1>8. R[0] = a /\ \A n \in 1..N : R[n] = Onward(R[n - 1])
    <2>1. \A n \in 0..N : R[n] = IF n = 0 THEN {c.main} ELSE Onward(R[n - 1])
        BY <1>7, Zenon
    <2>2. 0 \in 0..N /\ \A n \in 1..N : n \in 0..N /\ n # 0
        BY <1>1
    <2> HIDE DEF Onward
    <2> QED BY <2>1, <2>2
<1> DEFINE S == {n \in 0..N : R[n] \in V}
<1>9. \A n \in 0..N : n \in S
    <2>1. 0 \in S
        BY <1>0, <1>1, <1>8
    <2>2. \A n \in 1..N : n - 1 \in S => n \in S
        <3> HIDE DEF Onward, N
        <3> QED BY <1>0, <1>3, <1>8
    <2> HIDE DEF S, N
    <2> QED BY <1>1, <2>1, <2>2, IntervalInduction
<1>10. R[N] \in V
    BY <1>1, <1>9
<1> QED BY <1>7, <1>10 DEF V

\* A block that may come to one that may answer may answer.
LEMMA AnsweringClosed ==
    ASSUME NEW c \in Crates
    PROVE  /\ Answering(c) \subseteq 1..Len(c.blocks)
           /\ \A b \in 1..Len(c.blocks) :
                 \/ c.blocks[b].term.kind = "resume"
                 \/ Succs(c.blocks[b].term) \cap Answering(c) # {}
                 => b \in Answering(c)
<1> DEFINE N == Len(c.blocks)
           U == 1..N
           V == SUBSET U
           Before(S) == {b \in 1..Len(c.blocks) : Succs(c.blocks[b].term) \cap S # {}}
           a == {b \in 1..Len(c.blocks) : c.blocks[b].term.kind = "resume"}
           Def(A) == A = [n \in 0..Len(c.blocks) |->
                            IF n = 0 THEN a ELSE LET S == A[n - 1] IN S \cup Before(S)]
           H == [S \in V |-> S \cup Before(S)]
           G == [n \in 1..N |-> H]
<1>0. N \in Nat
    BY CrateTypes
<1>1. 0 \in 0..N /\ N \in 0..N /\ \A n \in 1..N : n \in 0..N /\ n - 1 \in 0..N /\ n # 0
    BY <1>0
<1>2. a \in V /\ (\A S \in V : S \cup Before(S) \in V)
    OBVIOUS
<1> HIDE DEF Before, a
<1>3. PICK f : IsIterate(f, V, N, a, G)
    <2>1. \A S \in V : H[S] \in V
        BY <1>2
    <2>2. StaysIn(V, N, G)
        <3> HIDE DEF H, V
        <3> QED BY <2>1 DEF StaysIn
    <2> HIDE DEF N, G, V
    <2> QED BY <1>0, <1>2, <2>2, IntervalRecursion
<1>4. \A n \in 1..N : f[n] = f[n - 1] \cup Before(f[n - 1])
    <2> TAKE n \in 1..N
    <2> HIDE DEF N, V
    <2>1. f[n - 1] \in V
        BY <1>1, <1>3 DEF IsIterate
    <2>2. G[n] = H
        OBVIOUS
    <2>3. f[n] = H[f[n - 1]]
        <3> HIDE DEF G, H
        <3> QED BY <1>3, <2>2 DEF IsIterate
    <2> QED BY <2>1, <2>3
<1>5. Def(f)
    <2>1. \A n \in 0..N : n # 0 => n \in 1..N
        BY <1>0
    <2>2. f \in [0..N -> V] /\ f[0] = a
        BY <1>3 DEF IsIterate
    <2> QED BY <1>4, <2>1, <2>2, Zenon
<1> DEFINE A == CHOOSE A : Def(A)
<1>6. Def(A) /\ Answering(c) = A[N]
    <2>1. Def(A)
        BY <1>5, Zenon
    <2>2. Answering(c) = A[N]
        BY Zenon DEF Answering, Before, a
    <2> QED BY <2>1, <2>2
<1> HIDE DEF A
<1>7. A[0] = a /\ \A n \in 1..N : A[n] = A[n - 1] \cup Before(A[n - 1])
    <2>1. \A n \in 0..N : A[n] = IF n = 0 THEN a ELSE A[n - 1] \cup Before(A[n - 1])
        BY <1>6, Zenon
    <2> HIDE DEF N
    <2> QED BY <1>1, <2>1
<1>8. \A n \in 0..N : A[n] \in V
    <2> DEFINE S == {n \in 0..N : A[n] \in V}
    <2> HIDE DEF V, N
    <2>1. 0 \in S
        BY <1>1, <1>2, <1>7
    <2>2. \A n \in 1..N : n - 1 \in S => n \in S
        BY <1>1, <1>2, <1>7
    <2>3. \A n \in 0..N : n \in S
        <3> HIDE DEF S
        <3> QED BY <1>0, <2>1, <2>2, IntervalInduction
    <2> QED BY <2>3
<1>9. \A n \in 0..N : a \subseteq A[n]
    <2> DEFINE S == {n \in 0..N : a \subseteq A[n]}
    <2> HIDE DEF N
    <2>1. 0 \in S
        BY <1>1, <1>7
    <2>2. \A n \in 1..N : n - 1 \in S => n \in S
        BY <1>1, <1>7
    <2>3. \A n \in 0..N : n \in S
        <3> HIDE DEF S
        <3> QED BY <1>0, <2>1, <2>2, IntervalInduction
    <2> QED BY <2>3
<1>10. A[N] \subseteq U /\ H[A[N]] = A[N]
    <2>1. IsFiniteSet(U) /\ Cardinality(U) <= N
        <3>1. /\ IsFiniteSet(1..N)
              /\ Cardinality(1..N) = IF 1 > N THEN 0 ELSE N - 1 + 1
            <4> HIDE DEF N
            <4> QED BY <1>0, FS_Interval
        <3> QED
            <4> HIDE DEF N
            <4> QED BY <1>0, <3>1
    <2>2. \A X \in SUBSET U : X \subseteq H[X] /\ H[X] \subseteq U
        <3> TAKE X \in SUBSET U
        <3>1. H[X] = X \cup Before(X) /\ X \cup Before(X) \in V
            BY <1>2
        <3> HIDE DEF H
        <3> QED BY <3>1
    <2>3. \A n \in 1..N : A[n] = H[A[n - 1]]
        <3> TAKE n \in 1..N
        <3> HIDE DEF N, V
        <3>1. A[n - 1] \in V
            BY <1>1, <1>8
        <3> QED BY <1>7, <3>1
    <2>4. A[0] \subseteq U
        BY <1>2, <1>7
    <2> HIDE DEF U, H, N
    <2>5. GrowsIn(U, H) /\ Repeats(A, U, N, H)
        BY <2>2, <2>3, <2>4 DEF GrowsIn, Repeats
    <2> QED BY <1>0, <2>1, <2>5, GrowthStops
<1>11. A[N] \cup Before(A[N]) = A[N] /\ a \subseteq A[N]
    <2> HIDE DEF N, V
    <2>1. A[N] \in V
        BY <1>1, <1>8
    <2> QED BY <1>1, <1>9, <1>10, <2>1
<1>12. ASSUME NEW b \in 1..Len(c.blocks),
              \/ c.blocks[b].term.kind = "resume"
              \/ Succs(c.blocks[b].term) \cap A[N] # {}
       PROVE  b \in A[N]
    <2>1. b \in a \/ b \in Before(A[N])
        BY <1>12 DEF Before, a
    <2> QED BY <1>11, <2>1
<1> QED BY <1>6, <1>10, <1>12

-----------------------------------------------------------------------------
(* The calls to evaluate. *)

\* A local that is taken for a constant has a value.
LEMMA ExtractType ==
    ASSUME NEW c \in Crates, NEW f \in 1..Len(c.funs), NEW rv \in Rvalues(c.funs[f].size)
    PROVE  Extract(c, f, rv) \in MaybeValue
<1> DEFINE n == c.funs[f].size
<1>1. \A r \in Rvalues(n) : r.op = "const" => r.v \in Value
    BY DEF Rvalues, Atoms
<1>2. ASSUME NEW p \in Lets(c, f)
      PROVE  LetAt(c, f, p).rv \in Rvalues(n)
    <2>1. PICK i \in 1..Len(c.funs[f].blocks) :
             p \in {i} \X (1..Len(c.blocks[c.funs[f].blocks[i]].stmts))
        BY DEF Lets
    <2> DEFINE b == c.funs[f].blocks[i]
    <2>2. p[1] = i /\ p[2] \in 1..Len(c.blocks[b].stmts)
        BY <2>1
    <2>3. b \in BlocksOf(c, f)
        BY DEF BlocksOf
    <2>4. c.blocks[b].stmts \in Seq(Statements(n))
        BY <2>3, CrateTypes, BlockTypes
    <2>5. LetAt(c, f, p) = c.blocks[b].stmts[p[2]]
        BY <2>2 DEF LetAt
    <2> HIDE DEF b, n
    <2>6. LetAt(c, f, p) \in Statements(n)
        BY <2>2, <2>4, <2>5
    <2> QED BY <2>6 DEF Statements
<1>3. ASSUME NEW l
      PROVE  ConstOf(c, f, l) \in MaybeValue
    <2> DEFINE mine == {p \in Lets(c, f) : LetAt(c, f, p).local = l}
               last == {p \in mine : \A q \in mine : q[1] < p[1] \/ (q[1] = p[1] /\ q[2] <= p[2])}
               good == {p \in last : LetAt(c, f, p).rv.op = "const"}
               chosen == CHOOSE p \in good : TRUE
    <2>1. good \subseteq Lets(c, f)
        OBVIOUS
    <2>2. ConstOf(c, f, l) = IF good = {} THEN Bad ELSE LetAt(c, f, chosen).rv.v
        BY DEF ConstOf
    <2>3. \A p \in good : LetAt(c, f, p).rv.op = "const"
        OBVIOUS
    <2> HIDE DEF good
    <2>4. good # {} => chosen \in good
        OBVIOUS
    <2> HIDE DEF chosen, n
    <2>5. good # {} => LetAt(c, f, chosen).rv.v \in Value
        BY <1>1, <1>2, <2>1, <2>3, <2>4
    <2> QED BY <2>2, <2>5 DEF MaybeValue
<1>4. Extract(c, f, rv) \in {rv.v, ConstOf(c, f, rv.id), Bad}
      /\ (Extract(c, f, rv) = rv.v => rv.op = "const" \/ Extract(c, f, rv) \in MaybeValue)
    <2>1. ConstOf(c, f, rv.id) \in MaybeValue /\ Bad \in MaybeValue
        BY <1>3 DEF MaybeValue
    <2> QED BY <2>1 DEF Extract
<1> QED BY <1>1, <1>3, <1>4 DEF MaybeValue

LEMMA ConstCallsType ==
    ASSUME NEW c \in Crates, NEW f \in 1..Len(c.funs)
    PROVE  ConstCalls(c, f) \in Seq(Jobs(c))
<1> DEFINE job(b) == [block |-> b, func |-> c.blocks[b].term.func,
                      args  |-> [i \in 1..Len(c.blocks[b].term.args) |->
                                    Extract(c, f, c.blocks[b].term.args[i])],
                      dest  |-> c.blocks[b].term.dest, target |-> c.blocks[b].term.target]
           isJob(b) == /\ c.blocks[b].term.kind = "call"
                       /\ c.funs[c.blocks[b].term.func].consteval
                       /\ AllGood(job(b).args)
           all == c.funs[f].blocks
           I == {i \in 1..Len(all) : isJob(all[i])}
           bs == Picks(all, I)
           n == c.funs[f].size
<1>1. all \in Seq(BlocksOf(c, f)) /\ BlocksOf(c, f) \subseteq 1..Len(c.blocks) /\ Len(c.blocks) \in Nat
    <2>1. all \in Seq(1..Len(c.blocks))
        BY CrateTypes
    <2>2. \A i \in 1..Len(all) : all[i] \in BlocksOf(c, f)
        BY DEF BlocksOf
    <2>3. all \in Seq(BlocksOf(c, f))
        BY <2>1, <2>2
    <2> QED BY <2>3, CrateTypes
<1>2. ASSUME NEW b \in BlocksOf(c, f), isJob(b)
      PROVE  job(b) \in Jobs(c)
    <2> DEFINE t == c.blocks[b].term
               args == [i \in 1..Len(t.args) |-> Extract(c, f, t.args[i])]
    <2>1. /\ t.kind = "call" /\ t.func \in 1..Len(c.funs) /\ t.args \in Seq(Rvalues(n))
          /\ t.dest \in Nat /\ t.target \in Nat /\ b \in Nat /\ b \in 1..Len(c.blocks)
        <3>1. c.blocks[b] \in BlockOf(c, f) /\ n \in Nat
            BY CrateTypes
        <3>2. t.func \in 1..Len(c.funs) /\ t.args \in Seq(Rvalues(n)) /\ t.dest \in 1..n
              /\ t.target \in BlocksOf(c, f) \cup {0}
            BY <1>2, <3>1, BlockTypes
        <3>3. t.target \in Nat /\ b \in Nat /\ b \in 1..Len(c.blocks)
            <4> HIDE DEF t
            <4> QED BY <1>1, <3>2
        <3>4. t.dest \in Nat
            <4> HIDE DEF t, n
            <4> QED BY <3>1, <3>2
        <3> QED BY <1>2, <3>2, <3>3, <3>4
    <2>2. args \in Seq(Value)
        <3>1. Len(t.args) \in Nat /\ Len(args) = Len(t.args)
            BY <2>1
        <3>2. ASSUME NEW i \in 1..Len(t.args)
              PROVE  args[i] \in Value
            <4>1. t.args[i] \in Rvalues(n)
                BY <2>1
            <4>2. args[i] \in MaybeValue
                BY <4>1, ExtractType
            <4>3. args[i] # Bad
                BY <1>2, <3>1 DEF AllGood
            <4> QED BY <4>2, <4>3 DEF MaybeValue
        <3>3. args \in [1..Len(t.args) -> Value]
            BY <3>2
        <3> QED BY <3>1, <3>3
    <2>3. IsCall(c, b, t.dest, t.target) /\ c.funs[t.func].consteval
        BY <1>2, <2>1 DEF IsCall
    <2> DEFINE j == [block |-> b, func |-> t.func, args |-> args, dest |-> t.dest,
                     target |-> t.target]
    <2>4. job(b) = j
        OBVIOUS
    <2> HIDE DEF args, t
    <2>5. j \in [block : Nat, func : 1..Len(c.funs), args : Seq(Value), dest : Nat, target : Nat]
        BY <2>1, <2>2
    <2>6. j \in Jobs(c)
        BY <2>3, <2>5 DEF Jobs
    <2> HIDE DEF j, job
    <2> QED BY <2>4, <2>6
<1>3. bs \in Seq(BlocksOf(c, f)) /\ \A i \in 1..Len(bs) : isJob(bs[i])
    <2>1. \A k \in I : isJob(all[k])
        OBVIOUS
    <2> HIDE DEF I, isJob, all
    <2>2. bs \in Seq(BlocksOf(c, f)) /\ Picked(bs, all, I)
        BY <1>1, PicksProperties
    <2> HIDE DEF bs
    <2>3. \A i \in 1..Len(bs) : \E k \in I : bs[i] = all[k]
        BY <2>2 DEF Picked
    <2> QED BY <2>1, <2>2, <2>3
<1>4. ConstCalls(c, f) = [i \in 1..Len(bs) |-> job(bs[i])]
    BY DEF ConstCalls
<1> HIDE DEF bs, job, isJob
<1>5. Len(bs) \in Nat /\ \A i \in 1..Len(bs) : bs[i] \in BlocksOf(c, f)
    BY <1>3
<1>6. \A i \in 1..Len(bs) : job(bs[i]) \in Jobs(c)
    BY <1>2, <1>3, <1>5
<1>7. ConstCalls(c, f) \in [1..Len(bs) -> Jobs(c)]
    BY <1>4, <1>6
<1> QED BY <1>5, <1>7

-----------------------------------------------------------------------------
(* Contexts. *)

LEMMA FrameTypes ==
    ASSUME NEW c \in Crates, NEW k \in Frames(c)
    PROVE  /\ k = [fun |-> k.fun, block |-> k.block, locals |-> k.locals, caller |-> k.caller,
                   dest |-> k.dest, target |-> k.target, callBlock |-> k.callBlock]
           /\ k.fun \in 1..Len(c.funs) /\ c.funs[k.fun].consteval
           /\ k.block \in BlocksOf(c, k.fun) /\ k.block \in 1..Len(c.blocks)
           /\ k.locals \in [1..c.funs[k.fun].size -> Value]
           /\ k.caller \in Nat /\ k.dest \in Nat /\ k.target \in Nat
           /\ IsCall(c, k.callBlock, k.dest, k.target)
<1>1. /\ k \in [fun : 1..Len(c.funs), block : Nat, locals : Seq(Value), caller : Nat,
                dest : Nat, target : Nat, callBlock : Nat]
      /\ c.funs[k.fun].consteval
      /\ k.block \in BlocksOf(c, k.fun)
      /\ Len(k.locals) = c.funs[k.fun].size
      /\ IsCall(c, k.callBlock, k.dest, k.target)
    BY DEF Frames
<1>2. /\ k = [fun |-> k.fun, block |-> k.block, locals |-> k.locals, caller |-> k.caller,
              dest |-> k.dest, target |-> k.target, callBlock |-> k.callBlock]
      /\ k.fun \in 1..Len(c.funs) /\ k.locals \in Seq(Value)
      /\ k.caller \in Nat /\ k.dest \in Nat /\ k.target \in Nat
    BY <1>1
<1>3. k.locals \in [1..c.funs[k.fun].size -> Value]
    BY <1>1, <1>2
<1>4. k.block \in 1..Len(c.blocks)
    BY <1>1, <1>2, CrateTypes
<1> QED BY <1>1, <1>2, <1>3, <1>4

LEMMA FrameMade ==
    ASSUME NEW c \in Crates, NEW f \in 1..Len(c.funs), c.funs[f].consteval,
           NEW b \in BlocksOf(c, f), NEW l \in [1..c.funs[f].size -> Value],
           NEW caller \in Nat, NEW dest \in Nat, NEW target \in Nat, NEW callBlock,
           IsCall(c, callBlock, dest, target)
    PROVE  [fun |-> f, block |-> b, locals |-> l, caller |-> caller,
            dest |-> dest, target |-> target, callBlock |-> callBlock] \in Frames(c)
<1>1. c.funs[f].size \in Nat /\ b \in 1..Len(c.blocks) /\ Len(c.blocks) \in Nat
    BY CrateTypes
<1>2. l \in Seq(Value) /\ Len(l) = c.funs[f].size
    BY <1>1
<1>3. callBlock \in Nat /\ b \in Nat
    BY <1>1 DEF IsCall
<1> QED BY <1>2, <1>3 DEF Frames

\* What the calls of a stack are is told by these fields.
SameCalls(st, st2) ==
    /\ Len(st2) = Len(st)
    /\ \A i \in 1..Len(st) :
          st2[i].fun = st[i].fun /\ st2[i].caller = st[i].caller /\ st2[i].target = st[i].target

\* A context that is put at another block with other locals.
Moved(st, i, b, l) == [st EXCEPT ![i].block = b, ![i].locals = l]

LEMMA MovedContext ==
    ASSUME NEW c \in Crates, NEW st \in Seq(Frames(c)), NEW i \in 1..Len(st),
           NEW b \in BlocksOf(c, st[i].fun), NEW l \in [1..c.funs[st[i].fun].size -> Value]
    PROVE  LET st2 == Moved(st, i, b, l) IN
           /\ st2 \in Seq(Frames(c))
           /\ SameCalls(st, st2)
           /\ st2[i].block = b /\ st2[i].locals = l
           /\ \A j \in 1..Len(st) : j # i => st2[j] = st[j]
<1> DEFINE st2 == Moved(st, i, b, l)
<1>0. st2 = [st EXCEPT ![i].block = b, ![i].locals = l]
    BY DEF Moved
<1> HIDE DEF st2
<1> DEFINE k == st[i]
           k2 == [fun |-> k.fun, block |-> b, locals |-> l, caller |-> k.caller,
                  dest |-> k.dest, target |-> k.target, callBlock |-> k.callBlock]
<1>1. k \in Frames(c)
    OBVIOUS
<1>2. k2 \in Frames(c)
    <2>1. b \in BlocksOf(c, k.fun) /\ l \in [1..c.funs[k.fun].size -> Value]
        OBVIOUS
    <2> HIDE DEF k
    <2>2. /\ k.fun \in 1..Len(c.funs) /\ c.funs[k.fun].consteval
          /\ k.caller \in Nat /\ k.dest \in Nat /\ k.target \in Nat
          /\ IsCall(c, k.callBlock, k.dest, k.target)
        BY <1>1, FrameTypes
    <2> QED BY <2>1, <2>2, FrameMade
<1>3. st2 = [st EXCEPT ![i] = k2]
    <2>1. k = [fun |-> k.fun, block |-> k.block, locals |-> k.locals, caller |-> k.caller,
               dest |-> k.dest, target |-> k.target, callBlock |-> k.callBlock]
        BY <1>1, FrameTypes
    <2>2. st2 = [st EXCEPT ![i] = [[k EXCEPT !.block = b] EXCEPT !.locals = l]]
        BY <1>0
    <2>3. [[k EXCEPT !.block = b] EXCEPT !.locals = l] = k2
        <3> HIDE DEF k
        <3> DEFINE R == [fun |-> k.fun, block |-> k.block, locals |-> k.locals,
                         caller |-> k.caller, dest |-> k.dest, target |-> k.target,
                         callBlock |-> k.callBlock]
                   R1 == [fun |-> k.fun, block |-> b, locals |-> k.locals,
                          caller |-> k.caller, dest |-> k.dest, target |-> k.target,
                          callBlock |-> k.callBlock]
        <3>1. [R EXCEPT !.block = b] = R1 /\ [R1 EXCEPT !.locals = l] = k2
            <4>1. [R EXCEPT !.block = b] = R1
                OBVIOUS
            <4>2. [R1 EXCEPT !.locals = l] = k2
                OBVIOUS
            <4> QED BY <4>1, <4>2
        <3>2. k = R
            BY <2>1
        <3> HIDE DEF R, R1, k2
        <3> QED BY <3>1, <3>2
    <2> HIDE DEF k2, k
    <2> QED BY <2>2, <2>3
<1>4. k2.fun = k.fun /\ k2.caller = k.caller /\ k2.target = k.target /\ k2.block = b /\ k2.locals = l
    OBVIOUS
<1> HIDE DEF k2
<1>5. /\ st2 \in Seq(Frames(c)) /\ Len(st2) = Len(st) /\ st2[i] = k2
      /\ \A j \in 1..Len(st) : j # i => st2[j] = st[j]
    <2> DEFINE F == Frames(c)
    <2>1. st \in Seq(F) /\ k2 \in F
        BY <1>2
    <2> DEFINE st3 == [st EXCEPT ![i] = k2]
    <2> HIDE DEF F
    <2>2. /\ st3 \in Seq(F) /\ Len(st3) = Len(st)
          /\ \A j \in 1..Len(st) : st3[j] = IF j = i THEN k2 ELSE st[j]
        BY <2>1, ExceptSeq
    <2> HIDE DEF st3
    <2>3. st2 = st3
        BY <1>3 DEF st3
    <2> QED BY <2>2, <2>3 DEF F
<1> QED BY <1>4, <1>5 DEF SameCalls, st2

LEMMA MaxExists ==
    ASSUME NEW n \in Nat, NEW I \in SUBSET (1..n), I # {}
    PROVE  \E i \in I : \A j \in I : j <= i
<1> DEFINE T == {n - i : i \in I}
<1>0. \A i \in I : i \in Int /\ n - i \in Nat
    OBVIOUS
<1>1. T \in SUBSET Nat /\ T # {}
    BY <1>0
<1>2. PICK m \in T : \A k \in T : m <= k
    <2> HIDE DEF T
    <2> QED BY <1>1, LeastNumber
<1>3. PICK i \in I : m = n - i
    BY <1>2
<1>4. ASSUME NEW j \in I
      PROVE  j <= i
    <2>1. n - i <= n - j
        BY <1>2, <1>3
    <2>2. i \in Int /\ j \in Int
        BY <1>0
    <2> QED BY <2>1, <2>2
<1> QED BY <1>4

-----------------------------------------------------------------------------
(* The running context. *)

LEMMA RunFacts ==
    ASSUME Typed, stack # <<>>
    PROVE  LET n == Funs[Ctx.fun].size IN
           /\ crate \in Crates /\ Top \in Nat /\ Top \in 1..Top
           /\ Ctx \in Frames(crate)
           /\ n \in Nat /\ Ctx.fun \in 1..Len(Funs)
           /\ Ctx.block \in BlocksOf(crate, Ctx.fun) /\ Ctx.block \in 1..Len(crate.blocks)
           /\ Ctx.locals \in [1..n -> Value]
           /\ Code \in BlockOf(crate, Ctx.fun)
           /\ Code.params \in Seq(1..n)
           /\ Locals # Failed => Locals \in [1..n -> Value]
<1> DEFINE n == Funs[Ctx.fun].size
<1>1. crate \in Crates /\ stack \in Seq(Frames(crate)) /\ BlocksInv
    BY DEF Typed
<1>2. Top \in Nat /\ Top \in 1..Top /\ Ctx \in Frames(crate)
    BY <1>1 DEF Top, Ctx
<1>3. /\ Ctx.fun \in 1..Len(Funs) /\ Ctx.block \in BlocksOf(crate, Ctx.fun)
      /\ Ctx.block \in 1..Len(crate.blocks) /\ Ctx.locals \in [1..n -> Value]
    BY <1>1, <1>2, FrameTypes DEF Funs
<1>4. n \in Nat
    BY <1>1, <1>3, CrateTypes DEF Funs
<1>5. Code \in BlockOf(crate, Ctx.fun)
    BY <1>1, <1>3 DEF Code, BlocksInv, Funs
<1>6. Code.params \in Seq(1..n) /\ Code.stmts \in Seq(Statements(n))
    BY <1>5, BlockTypes DEF Funs
<1>7. Locals \in [1..n -> Value] \cup {Failed}
    <2> HIDE DEF n
    <2> QED BY <1>3, <1>4, <1>6, AfterType DEF Locals
<1> QED BY <1>1, <1>2, <1>3, <1>4, <1>5, <1>6, <1>7

\* The blocks control goes to in the code as it has been rewritten are those
\* it went to before.
LEMMA FlowKept ==
    ASSUME Typed, NEW b \in 1..Len(crate.blocks),
           \/ blocks[b].term.kind = "resume"
           \/ Succs(blocks[b].term) \cap Answering(crate) # {}
    PROVE  b \in Answering(crate)
<1>1. crate \in Crates /\ BlocksInv
    BY DEF Typed
<1>2. CASE blocks[b].term = crate.blocks[b].term
    BY <1>1, <1>2, AnsweringClosed
<1>3. CASE /\ crate.blocks[b].term.kind = "call"
           /\ blocks[b].term.kind \in {"goto", "unreachable"}
           /\ Succs(blocks[b].term) \subseteq Succs(crate.blocks[b].term)
    <2>1. Succs(crate.blocks[b].term) \cap Answering(crate) # {}
        BY <1>3
    <2> QED BY <1>1, <2>1, AnsweringClosed
<1> QED BY <1>1, <1>2, <1>3 DEF BlocksInv

LEMMA FirstElement ==
    ASSUME NEW X, NEW s \in Seq(X), s # <<>>
    PROVE  s[1] \in X /\ Len(s) \in Nat /\ Len(s) >= 1
OBVIOUS

LEMMA Prefix ==
    ASSUME NEW X, NEW s \in Seq(X), NEW n \in 0..Len(s)
    PROVE  /\ SubSeq(s, 1, n) \in Seq(X) /\ Len(SubSeq(s, 1, n)) = n
           /\ \A i \in 1..n : SubSeq(s, 1, n)[i] = s[i]
<1>1. \A i \in 1..n : s[i] \in X
    OBVIOUS
<1>2. /\ SubSeq(s, 1, n) \in Seq(X) /\ Len(SubSeq(s, 1, n)) = IF 1 <= n THEN n - 1 + 1 ELSE 0
      /\ \A i \in 1..(n - 1 + 1) : SubSeq(s, 1, n)[i] = s[1 + i - 1]
    BY <1>1, SubSeqProperties
<1>3. n - 1 + 1 = n /\ \A i \in 1..n : 1 + i - 1 = i
    OBVIOUS
<1> QED BY <1>2, <1>3

LEMMA Suffix ==
    ASSUME NEW X, NEW s \in Seq(X), NEW m \in 0..Len(s)
    PROVE  /\ SubSeq(s, m + 1, Len(s)) \in Seq(X) /\ Len(SubSeq(s, m + 1, Len(s))) = Len(s) - m
           /\ \A i \in 1..(Len(s) - m) : SubSeq(s, m + 1, Len(s))[i] = s[m + i]
<1> DEFINE t == SubSeq(s, m + 1, Len(s))
<1>1. Len(s) \in Nat /\ m + 1 \in Int /\ \A i \in (m + 1)..Len(s) : s[i] \in X
    OBVIOUS
<1>2. /\ t \in Seq(X)
      /\ Len(t) = IF m + 1 <= Len(s) THEN Len(s) - (m + 1) + 1 ELSE 0
      /\ \A i \in 1..(Len(s) - (m + 1) + 1) : t[i] = s[(m + 1) + i - 1]
    BY <1>1, SubSeqProperties
<1>3. Len(s) - (m + 1) + 1 = Len(s) - m /\ \A i \in Nat : (m + 1) + i - 1 = m + i
    BY <1>1
<1> HIDE DEF t
<1>4. Len(t) = Len(s) - m
    BY <1>1, <1>2
<1>5. ASSUME NEW i \in 1..(Len(s) - m)
      PROVE  t[i] = s[m + i]
    <2>1. i \in 1..(Len(s) - (m + 1) + 1)
        BY <1>3
    <2>2. t[i] = s[(m + 1) + i - 1]
        BY <1>2, <2>1
    <2>3. (m + 1) + i - 1 = m + i
        BY <1>1
    <2> QED BY <2>2, <2>3
<1> QED BY <1>2, <1>4, <1>5 DEF t

\* maybe_pop_handler may drop the last handler.
LEMMA LiveFacts ==
    ASSUME handlers \in Seq(Handlers(crate))
    PROVE  /\ Live \in Seq(Handlers(crate)) /\ Len(Live) \in Nat /\ Len(Live) <= Len(handlers)
           /\ \A i \in 1..Len(Live) : i \in 1..Len(handlers) /\ Live[i] = handlers[i]
<1> DEFINE H == Handlers(crate)
<1>1. handlers \in Seq(H) /\ Len(handlers) \in Nat
    OBVIOUS
<1>2. CASE Live = handlers
    BY <1>1, <1>2
<1>3. CASE handlers # <<>> /\ Live = SubSeq(handlers, 1, Len(handlers) - 1)
    <2> HIDE DEF H
    <2>1. Len(handlers) >= 1
        BY <1>1, <1>3
    <2>2. /\ Live \in Seq(H) /\ Len(Live) = Len(handlers) - 1
          /\ \A i \in 1..Len(Live) : Live[i] = handlers[i]
        <3>1. Len(handlers) - 1 \in 0..Len(handlers)
            BY <1>1, <2>1
        <3> QED BY <1>1, <1>3, <3>1, Prefix
    <2> QED BY <1>1, <2>1, <2>2 DEF H
<1> QED BY <1>2, <1>3 DEF Live

\* A context of a function in a block that may answer.
LEMMA TopInHandler ==
    ASSUME Typed, stack # <<>>
    PROVE  InHandler(crate, stack, Top) <=> Ctx.block \in Answering(crate)
BY RunFacts DEF InHandler, Ctx, Top

\* What Linked says is about the calls alone.
LEMMA LinkedSame ==
    ASSUME NEW c, NEW st, NEW st2, Len(st) \in Nat, SameCalls(st, st2), NEW n, Linked(c, st, n)
    PROVE  Linked(c, st2, n)
<1>1. \A i \in 2..Len(st) : i \in 1..Len(st) /\ i - 1 \in 1..Len(st)
    OBVIOUS
<1> QED BY <1>1 DEF Linked, SameCalls

\* A context further down is in a handler as it was.
LEMMA InHandlerSame ==
    ASSUME NEW c, NEW st, NEW st2, Len(st) \in Nat, SameCalls(st, st2), NEW i \in 1..Len(st)
    PROVE  /\ i # Len(st) => (InHandler(c, st2, i) <=> InHandler(c, st, i))
           /\ i = Len(st) => (InHandler(c, st2, i) <=> st2[i].block \in Answering(c))
<1>1. i # Len(st) => i + 1 \in 1..Len(st) /\ i < Len(st)
    OBVIOUS
<1> QED BY <1>1 DEF InHandler, SameCalls

\* As long as no context comes to a handler, what is suspended fits.
LEMMA SuspStays ==
    ASSUME NEW c, NEW st, NEW st2, NEW su, Len(st) \in Nat, SameCalls(st, st2),
           \A i \in 1..Len(st) : InHandler(c, st2, i) => InHandler(c, st, i),
           SuspFits(c, su, st)
    PROVE  SuspFits(c, su, st2)
<1> SUFFICES ASSUME NEW s \in 1..Len(su)
             PROVE  LET k == su[s] IN
                    /\ Linked(c, k.frames, k.ctx)
                    /\ \A i \in 1..Len(st2) : i > k.ctx => ~InHandler(c, st2, i)
                    /\ k.ctx \in 1..Len(st2) /\ InHandler(c, st2, k.ctx) /\ k.frames # <<>>
                          /\ k.frames[1].caller = k.ctx =>
                             k.frames[1].target \in Returns(c, st2[k.ctx].fun)
    BY DEF SuspFits
<1> DEFINE k == su[s]
<1>1. /\ Linked(c, k.frames, k.ctx)
      /\ \A i \in 1..Len(st) : i > k.ctx => ~InHandler(c, st, i)
      /\ k.ctx \in 1..Len(st) /\ InHandler(c, st, k.ctx) /\ k.frames # <<>>
            /\ k.frames[1].caller = k.ctx =>
               k.frames[1].target \in Returns(c, st[k.ctx].fun)
    BY DEF SuspFits
<1> HIDE DEF k
<1>2. Len(st2) = Len(st) /\ \A i \in 1..Len(st) : st2[i].fun = st[i].fun
    BY DEF SameCalls
<1> QED BY <1>1, <1>2 DEF k

LEMMA QuietStays ==
    ASSUME NEW c, NEW st, NEW st2, NEW su, Len(st) \in Nat, SameCalls(st, st2),
           \A i \in 1..Len(st) : InHandler(c, st2, i) => InHandler(c, st, i),
           QuietFits(c, st, su)
    PROVE  QuietFits(c, st2, su)
BY DEF QuietFits, SameCalls

\* Handlers that are some of those there were, in their order.
SomeOf(hs2, hs) == \E I : Picked(hs2, hs, I)

LEMMA SomeOfFacts ==
    ASSUME NEW hs, NEW hs2, SomeOf(hs2, hs)
    PROVE  /\ \A i \in 1..Len(hs2) : \E k \in 1..Len(hs) : hs2[i] = hs[k]
           /\ \A i, j \in 1..Len(hs2) : i < j =>
                 \E k, m \in 1..Len(hs) : k < m /\ hs2[i] = hs[k] /\ hs2[j] = hs[m]
<1>1. PICK I : Picked(hs2, hs, I)
    BY DEF SomeOf
<1> QED BY <1>1 DEF Picked

LEMMA HandlersStay ==
    ASSUME NEW c, NEW st, NEW st2, NEW hs, NEW hs2, HandlersFit(c, hs, st), SomeOf(hs2, hs),
           \A i \in 1..Len(hs2) : hs2[i].ctx \in 1..Len(st) =>
              hs2[i].ctx \in 1..Len(st2) /\ st2[hs2[i].ctx].fun = st[hs2[i].ctx].fun
    PROVE  HandlersFit(c, hs2, st2)
<1>1. ASSUME NEW i \in 1..Len(hs2)
      PROVE  hs2[i].ctx \in 1..Len(st2) /\ hs2[i].block \in BlocksOf(c, st2[hs2[i].ctx].fun)
    <2>1. PICK k \in 1..Len(hs) : hs2[i] = hs[k]
        BY SomeOfFacts
    <2>2. hs2[i].ctx \in 1..Len(st) /\ hs2[i].block \in BlocksOf(c, st[hs2[i].ctx].fun)
        BY <2>1 DEF HandlersFit
    <2> QED BY <2>2
<1>2. ASSUME NEW i \in 1..Len(hs2), NEW j \in 1..Len(hs2), i < j
      PROVE  hs2[i].ctx <= hs2[j].ctx
    <2>1. PICK k \in 1..Len(hs), m \in 1..Len(hs) : k < m /\ hs2[i] = hs[k] /\ hs2[j] = hs[m]
        BY <1>2, SomeOfFacts
    <2> QED BY <2>1 DEF HandlersFit
<1> QED BY <1>1, <1>2 DEF HandlersFit

LEMMA LiveSomeOf ==
    ASSUME handlers \in Seq(Handlers(crate))
    PROVE  SomeOf(Live, handlers)
<1>1. \A i \in 1..Len(Live) : i \in 1..Len(handlers) /\ Live[i] = handlers[i]
    BY LiveFacts
<1>2. Picked(Live, handlers, 1..Len(handlers))
    BY <1>1 DEF Picked
<1> QED BY <1>2 DEF SomeOf

LEMMA PicksSomeOf ==
    ASSUME NEW X, NEW hs \in Seq(X), NEW I
    PROVE  SomeOf(Picks(hs, I), hs)
BY PicksProperties DEF SomeOf

-----------------------------------------------------------------------------
(* Steps inside a context. *)

\* A context that goes on at a block that leads to a resume only if the one
\* it was at does.
LEMMA GoesOn ==
    ASSUME IInv, phase = "run", NEW b \in BlocksOf(crate, Ctx.fun),
           b \in Answering(crate) => Ctx.block \in Answering(crate),
           NEW l \in [1..Funs[Ctx.fun].size -> Value], NEW st2, st2 = Continue(b, l)
    PROVE  /\ st2 \in Seq(Frames(crate)) /\ SameCalls(stack, st2) /\ Len(st2) = Top
           /\ st2[Top].block = b /\ st2[Top].locals = l /\ st2[Top].fun = Ctx.fun
           /\ \A j \in 1..Top : j # Top => st2[j] = stack[j]
           /\ Linked(crate, st2, 0)
           /\ HandlersFit(crate, Live, st2)
           /\ SuspFits(crate, susp, st2)
           /\ QuietHandlers => QuietFits(crate, st2, susp)
<1>1. /\ Typed /\ StackInv /\ (QuietHandlers => QuietFits(crate, stack, susp))
      /\ stack # <<>> /\ stack \in Seq(Frames(crate)) /\ crate \in Crates
      /\ Linked(crate, stack, 0) /\ HandlersFit(crate, handlers, stack)
      /\ SuspFits(crate, susp, stack) /\ handlers \in Seq(Handlers(crate))
    BY DEF IInv, StackInv, Typed
<1>2. Top \in Nat /\ Top \in 1..Top /\ Top = Len(stack) /\ Ctx = stack[Top]
    BY <1>1, RunFacts DEF Top, Ctx
<1>3. /\ b \in BlocksOf(crate, stack[Top].fun)
      /\ l \in [1..crate.funs[stack[Top].fun].size -> Value]
      /\ st2 = Moved(stack, Top, b, l)
    BY <1>2 DEF Funs, Continue, Moved
<1>4. /\ st2 \in Seq(Frames(crate)) /\ SameCalls(stack, st2)
      /\ st2[Top].block = b /\ st2[Top].locals = l
      /\ \A j \in 1..Top : j # Top => st2[j] = stack[j]
    <2> HIDE DEF Top
    <2>1. Top \in 1..Len(stack) /\ 1..Len(stack) = 1..Top
        BY <1>2
    <2> QED BY <1>1, <1>3, <2>1, MovedContext
<1>5. Len(st2) = Top /\ st2[Top].fun = Ctx.fun
    BY <1>2, <1>4 DEF SameCalls
<1>6. \A i \in 1..Len(stack) : InHandler(crate, st2, i) => InHandler(crate, stack, i)
    <2> TAKE i \in 1..Len(stack)
    <2>1. CASE i # Len(stack)
        BY <1>2, <1>4, <2>1, InHandlerSame
    <2>2. CASE i = Len(stack)
        <3>1. InHandler(crate, st2, i) <=> b \in Answering(crate)
            BY <1>2, <1>4, <2>2, InHandlerSame
        <3>2. InHandler(crate, stack, i) <=> Ctx.block \in Answering(crate)
            BY <1>1, <1>2, <2>2, TopInHandler
        <3> QED BY <3>1, <3>2
    <2> QED BY <2>1, <2>2
<1>7. Linked(crate, st2, 0)
    BY <1>1, <1>2, <1>4, LinkedSame
<1>8. SuspFits(crate, susp, st2)
    BY <1>1, <1>2, <1>4, <1>6, SuspStays
<1>9. QuietHandlers => QuietFits(crate, st2, susp)
    BY <1>1, <1>2, <1>4, <1>6, QuietStays
<1>10. HandlersFit(crate, Live, st2)
    <2>1. SomeOf(Live, handlers)
        BY <1>1, LiveSomeOf
    <2>2. \A i \in 1..Len(stack) : i \in 1..Len(st2) /\ st2[i].fun = stack[i].fun
        BY <1>4 DEF SameCalls
    <2> QED BY <1>1, <2>1, <2>2, HandlersStay
<1> QED BY <1>4, <1>5, <1>7, <1>8, <1>9, <1>10

\* The invariant after a step that goes on running, from its parts.
LEMMA Reassembled ==
    ASSUME IInv, phase = "run", crate' = crate, phase' = phase, todo' = todo, pending' = pending,
           BlocksInv',
           stack' \in Seq(Frames(crate)), stack' # <<>>, Linked(crate, stack', 0),
           handlers' \in Seq(Handlers(crate)), HandlersFit(crate, handlers', stack'),
           susp' \in Seq(Continuations(crate)), Len(susp') <= 1,
           SuspFits(crate, susp', stack'),
           QuietHandlers => QuietFits(crate, stack', susp')
    PROVE  IInv'
<1>1. QuietHandlers' <=> QuietHandlers
    BY DEF QuietHandlers
<1>2. Typed'
    BY DEF IInv, Typed
<1>3. StackInv'
    BY DEF IInv, StackInv
<1> QED BY <1>1, <1>2, <1>3 DEF IInv

\* The same when the blocks are left alone.
LEMMA Assembled ==
    ASSUME IInv, phase = "run", Unchanged,
           stack' \in Seq(Frames(crate)), stack' # <<>>, Linked(crate, stack', 0),
           handlers' \in Seq(Handlers(crate)), HandlersFit(crate, handlers', stack'),
           susp' \in Seq(Continuations(crate)), Len(susp') <= 1,
           SuspFits(crate, susp', stack'),
           QuietHandlers => QuietFits(crate, stack', susp')
    PROVE  IInv'
<1>1. /\ crate' = crate /\ blocks' = blocks /\ phase' = phase /\ todo' = todo
      /\ pending' = pending
    BY DEF Unchanged
<1>2. BlocksInv'
    BY <1>1 DEF IInv, Typed, BlocksInv
<1> QED BY <1>1, <1>2, Reassembled

LEMMA PanicKeeps == ASSUME IInv, Panic PROVE IInv'
<1>1. /\ crate' = crate /\ blocks' = blocks /\ phase' = "panic" /\ todo' = todo
      /\ pending' = pending /\ stack' = stack /\ handlers' = handlers /\ susp' = susp
    BY DEF Panic
<1>2. Typed'
    BY <1>1 DEF IInv, Typed, BlocksInv
<1> QED BY <1>1, <1>2 DEF IInv

\* Going on at a successor of the current block.
LEMMA ContinueKeeps ==
    ASSUME IInv, phase = "run", Locals # Failed, NEW b \in BlocksOf(crate, Ctx.fun),
           b \in Succs(Code.term), NEW l \in [1..Funs[Ctx.fun].size -> Value],
           stack' = Continue(b, l), KeepHandlers, Unchanged
    PROVE  IInv'
<1>1. Typed /\ StackInv /\ stack # <<>> /\ Ctx.block \in 1..Len(crate.blocks)
    BY RunFacts DEF IInv, StackInv
<1>2. b \in Answering(crate) => Ctx.block \in Answering(crate)
    <2> SUFFICES ASSUME b \in Answering(crate) PROVE Ctx.block \in Answering(crate)
        OBVIOUS
    <2>1. Succs(blocks[Ctx.block].term) \cap Answering(crate) # {}
        BY DEF Code
    <2> QED BY <1>1, <2>1, FlowKept
<1>3. /\ stack' \in Seq(Frames(crate)) /\ Len(stack') = Top
      /\ Linked(crate, stack', 0) /\ HandlersFit(crate, Live, stack')
      /\ SuspFits(crate, susp, stack')
      /\ QuietHandlers => QuietFits(crate, stack', susp)
    BY <1>2, GoesOn
<1>4. stack' # <<>>
    BY <1>1, <1>3, RunFacts
<1>5. handlers' = Live /\ susp' = susp /\ Live \in Seq(Handlers(crate))
    BY <1>1, LiveFacts DEF KeepHandlers, Typed
<1>6. susp \in Seq(Continuations(crate)) /\ Len(susp) <= 1
    BY <1>1 DEF Typed
<1> QED BY <1>3, <1>4, <1>5, <1>6, Assembled

\* The facts a step of a running context starts from.
LEMMA EndsFacts ==
    ASSUME IInv, NEW k, Ends(k)
    PROVE  LET n == Funs[Ctx.fun].size IN
           /\ phase = "run" /\ Locals # Failed /\ Code.term.kind = k
           /\ Typed /\ StackInv /\ stack # <<>>
           /\ crate \in Crates /\ Top \in Nat /\ Top >= 1 /\ n \in Nat
           /\ Ctx \in Frames(crate) /\ Ctx.fun \in 1..Len(crate.funs)
           /\ Ctx.block \in BlocksOf(crate, Ctx.fun) /\ Ctx.block \in 1..Len(crate.blocks)
           /\ Code \in BlockOf(crate, Ctx.fun) /\ Code.params \in Seq(1..n)
           /\ Locals \in [1..n -> Value]
           /\ \A rv \in Rvalues(n) : At(rv) \in MaybeValue
<1>1. phase = "run" /\ Locals # Failed /\ Code.term.kind = k
    BY DEF Ends
<1>2. Typed /\ StackInv /\ stack # <<>>
    BY <1>1 DEF IInv, StackInv
<1> DEFINE n == Funs[Ctx.fun].size
<1>3. /\ crate \in Crates /\ Top \in Nat /\ Top >= 1 /\ n \in Nat
      /\ Ctx \in Frames(crate) /\ Ctx.fun \in 1..Len(crate.funs)
      /\ Ctx.block \in BlocksOf(crate, Ctx.fun) /\ Ctx.block \in 1..Len(crate.blocks)
      /\ Code \in BlockOf(crate, Ctx.fun) /\ Code.params \in Seq(1..n)
      /\ Locals \in [1..n -> Value]
    <2>1. Funs = crate.funs
        BY DEF Funs
    <2>2. Top \in 1..Top => Top >= 1
        OBVIOUS
    <2> QED BY <1>1, <1>2, <2>1, <2>2, RunFacts
<1>4. \A rv \in Rvalues(n) : At(rv) \in MaybeValue
    <2> HIDE DEF n
    <2> QED BY <1>3, EvalType DEF At
<1> QED BY <1>1, <1>2, <1>3, <1>4

LEMMA GotoKeeps == ASSUME IInv, Goto PROVE IInv'
<1> DEFINE n == Funs[Ctx.fun].size
           t == Code.term
           prm == blocks[t.target].params
<1>1. Ends("goto")
    BY DEF Goto
<1>2. t.target \in BlocksOf(crate, Ctx.fun) /\ t.args \in Seq(Rvalues(n))
    BY <1>1, EndsFacts, BlockTypes DEF Funs
<1>3. t.target \in Succs(Code.term)
    BY <1>1, EndsFacts DEF Succs
<1>4. prm \in Seq(1..n)
    <2>1. blocks[t.target] \in BlockOf(crate, Ctx.fun)
        BY <1>1, <1>2, EndsFacts DEF Typed, BlocksInv
    <2> QED BY <2>1, BlockTypes DEF Funs
<1>5. Locals \in [1..n -> Value] /\ Locals # Failed /\ phase = "run"
    BY <1>1, EndsFacts
<1>6. CASE t.args # <<>> /\ prm # <<>>
    <2>1. CASE At(t.args[1]) = Bad
        BY <1>6, <2>1, PanicKeeps DEF Goto
    <2>2. CASE At(t.args[1]) # Bad
        <3>1. t.args[1] \in Rvalues(n) /\ prm[1] \in 1..n
            <4> DEFINE args == t.args
            <4>1. args \in Seq(Rvalues(n)) /\ args # <<>>
                BY <1>2, <1>6
            <4> HIDE DEF prm, n, args
            <4>2. args[1] \in Rvalues(n) /\ prm[1] \in 1..n
                BY <4>1, <1>4, <1>6, FirstElement
            <4> QED BY <4>2 DEF args
        <3>2. At(t.args[1]) \in Value
            BY <1>1, <2>2, <3>1, EndsFacts DEF MaybeValue
        <3> DEFINE l == [Locals EXCEPT ![prm[1]] = At(t.args[1])]
        <3>3. l \in [1..n -> Value]
            BY <1>5, <3>1, <3>2
        <3>4. stack' = Continue(t.target, l) /\ KeepHandlers /\ Unchanged
            BY <1>6, <2>2 DEF Goto
        <3> HIDE DEF l, t, prm
        <3> QED BY <1>2, <1>3, <1>5, <3>3, <3>4, ContinueKeeps
    <2> QED BY <2>1, <2>2
<1>7. CASE ~(t.args # <<>> /\ prm # <<>>)
    <2>1. stack' = Continue(t.target, Locals) /\ KeepHandlers /\ Unchanged
        BY <1>7 DEF Goto
    <2> HIDE DEF t, prm
    <2> QED BY <1>2, <1>3, <1>5, <2>1, ContinueKeeps
<1> QED BY <1>6, <1>7

LEMMA SwitchIntKeeps == ASSUME IInv, SwitchInt PROVE IInv'
<1> DEFINE n == Funs[Ctx.fun].size
           t == Code.term
           B == BlocksOf(crate, Ctx.fun)
           d == At(t.disc)
           v == IF d.k = "enum" THEN IntValue(d.n) ELSE d
           hits == {i \in 1..Len(t.targets) : t.targets[i][1] = v}
           first == CHOOSE i \in hits : \A j \in hits : i <= j
           next == IF hits = {} THEN t.default ELSE t.targets[first][2]
<1>1. Ends("switch")
    BY DEF SwitchInt
<1>2. t.kind = "switch" /\ t.default \in B /\ t.targets \in Seq(Value \X B)
    BY <1>1, EndsFacts, BlockTypes
<1>3. Locals \in [1..n -> Value] /\ Locals # Failed /\ phase = "run"
    BY <1>1, EndsFacts
<1>4. hits # {} => first \in hits
    <2>1. hits \in SUBSET Nat
        OBVIOUS
    <2> HIDE DEF hits
    <2>2. hits # {} => \E i \in hits : \A j \in hits : i <= j
        BY <2>1, LeastNumber
    <2> QED BY <2>2
<1>5. next \in B /\ next \in Succs(t)
    <2>1. CASE hits = {}
        BY <1>2, <2>1 DEF Succs
    <2>2. CASE hits # {}
        <3>1. first \in 1..Len(t.targets)
            BY <1>4, <2>2
        <3> HIDE DEF first
        <3>2. t.targets[first] \in Value \X B /\ t.targets[first][2] \in B
            BY <1>2, <3>1
        <3>3. t.targets[first][2] \in Succs(t)
            BY <1>2, <3>1 DEF Succs
        <3> QED BY <2>2, <3>2, <3>3
    <2> QED BY <2>1, <2>2
<1>6. CASE d = Bad
    BY <1>6, PanicKeeps DEF SwitchInt
<1>7. CASE d # Bad
    <2>1. stack' = Continue(next, Locals) /\ KeepHandlers /\ Unchanged
        BY <1>7 DEF SwitchInt
    <2> HIDE DEF next
    <2> QED BY <1>3, <1>5, <2>1, ContinueKeeps
<1> QED BY <1>6, <1>7

\* The order of handlers when one is installed in the top context.
LEMMA HandlerAppended ==
    ASSUME NEW c, NEW X, NEW hs \in Seq(X), NEW st, NEW h \in X, Len(st) \in Nat, Len(st) >= 1,
           HandlersFit(c, hs, st), h.ctx = Len(st), h.block \in BlocksOf(c, st[Len(st)].fun)
    PROVE  HandlersFit(c, Append(hs, h), st)
<1> DEFINE hs2 == Append(hs, h)
<1>1. /\ Len(hs) \in Nat /\ Len(hs2) = Len(hs) + 1 /\ hs2[Len(hs2)] = h
      /\ \A i \in 1..Len(hs) : hs2[i] = hs[i]
    OBVIOUS
<1> HIDE DEF hs2
<1>2. \A i \in 1..Len(hs2) : i = Len(hs2) \/ i \in 1..Len(hs)
    BY <1>1
<1>3. /\ \A i \in 1..Len(hs) : hs[i].ctx \in 1..Len(st) /\ hs[i].block \in BlocksOf(c, st[hs[i].ctx].fun)
      /\ \A i, j \in 1..Len(hs) : i < j => hs[i].ctx <= hs[j].ctx
    BY DEF HandlersFit
<1>4. ASSUME NEW i \in 1..Len(hs2)
      PROVE  hs2[i].ctx \in 1..Len(st) /\ hs2[i].block \in BlocksOf(c, st[hs2[i].ctx].fun)
    BY <1>1, <1>2, <1>3
<1>5. ASSUME NEW i \in 1..Len(hs2), NEW j \in 1..Len(hs2), i < j
      PROVE  hs2[i].ctx <= hs2[j].ctx
    <2>1. i \in 1..Len(hs) /\ hs2[i].ctx \in 1..Len(st)
        BY <1>1, <1>2, <1>4, <1>5
    <2>2. CASE j = Len(hs2)
        BY <1>1, <2>1, <2>2
    <2>3. CASE j \in 1..Len(hs)
        BY <1>1, <1>3, <1>5, <2>1, <2>3
    <2> QED BY <1>2, <2>2, <2>3
<1>6. HandlersFit(c, hs2, st)
    BY <1>4, <1>5 DEF HandlersFit
<1> QED BY <1>6 DEF hs2

LEMMA InstallHandlerKeeps == ASSUME IInv, InstallHandler PROVE IInv'
<1> DEFINE t == Code.term
           first == blocks[t.handler].term
           B == BlocksOf(crate, Ctx.fun)
           h == [control |-> t.control, ctx |-> Top, block |-> t.handler, merge |-> first.target]
<1>1. Ends("install")
    BY DEF InstallHandler
<1>2. t.handler \in B /\ t.next \in B /\ t.control \in Nat /\ t.next \in Succs(Code.term)
    <2>1. t.kind = "install"
        BY <1>1, EndsFacts
    <2> QED BY <1>1, <2>1, EndsFacts, BlockTypes DEF Succs
<1>3. Locals \in [1..Funs[Ctx.fun].size -> Value] /\ Locals # Failed /\ phase = "run"
    BY <1>1, EndsFacts
<1>4. CASE first.kind \notin {"goto", "resume"}
    BY <1>4, PanicKeeps DEF InstallHandler
<1>5. CASE first.kind \in {"goto", "resume"}
    <2>1. /\ handlers' = Append(Live, h) /\ stack' = Continue(t.next, Locals) /\ susp' = susp
          /\ Unchanged
        BY <1>5 DEF InstallHandler
    <2>2. /\ crate \in Crates /\ Typed /\ StackInv /\ Top \in Nat /\ Top >= 1
          /\ Ctx.fun \in 1..Len(crate.funs) /\ Ctx.block \in 1..Len(crate.blocks)
          /\ B \subseteq 1..Len(crate.blocks) /\ Len(crate.blocks) \in Nat
        BY <1>1, EndsFacts, CrateTypes
    <2>3. first.target \in Nat
        <3>1. blocks[t.handler] \in BlockOf(crate, Ctx.fun)
            BY <1>2, <2>2 DEF Typed, BlocksInv
        <3>2. first.target \in B
            BY <1>5, <3>1, BlockTypes
        <3> QED BY <2>2, <3>2
    <2>4. h \in Handlers(crate)
        <3>1. t.handler \in 1..Len(crate.blocks) /\ Top \in Nat \ {0}
            BY <1>2, <2>2
        <3> HIDE DEF t, first
        <3> QED BY <1>2, <2>3, <3>1 DEF Handlers
    <2>5. Live \in Seq(Handlers(crate))
        BY <2>2, LiveFacts DEF Typed
    <2>6. t.next \in Answering(crate) => Ctx.block \in Answering(crate)
        <3> SUFFICES ASSUME t.next \in Answering(crate) PROVE Ctx.block \in Answering(crate)
            OBVIOUS
        <3>1. Succs(blocks[Ctx.block].term) \cap Answering(crate) # {}
            BY <1>2 DEF Code
        <3> QED BY <2>2, <3>1, FlowKept
    <2>7. /\ stack' \in Seq(Frames(crate)) /\ Len(stack') = Top /\ stack'[Top].fun = Ctx.fun
          /\ Linked(crate, stack', 0) /\ HandlersFit(crate, Live, stack')
          /\ SuspFits(crate, susp, stack')
          /\ QuietHandlers => QuietFits(crate, stack', susp)
        BY <1>2, <1>3, <2>1, <2>6, GoesOn
    <2>8. h.ctx = Len(stack') /\ h.block \in BlocksOf(crate, stack'[Len(stack')].fun)
        BY <1>2, <2>7
    <2> HIDE DEF h
    <2>9. handlers' \in Seq(Handlers(crate)) /\ HandlersFit(crate, handlers', stack')
        <3>1. Append(Live, h) \in Seq(Handlers(crate))
            BY <2>4, <2>5, AppendProperties
        <3>2. HandlersFit(crate, Append(Live, h), stack')
            BY <2>2, <2>4, <2>5, <2>7, <2>8, HandlerAppended
        <3> QED BY <2>1, <3>1, <3>2
    <2>10. stack' # <<>>
        BY <2>2, <2>7
    <2>11. susp \in Seq(Continuations(crate)) /\ Len(susp) <= 1
        BY <2>2 DEF Typed
    <2> QED BY <1>3, <2>1, <2>7, <2>9, <2>10, <2>11, Assembled
<1> QED BY <1>4, <1>5

-----------------------------------------------------------------------------
(* Calls. *)

LEMMA FirstLocalsType ==
    ASSUME NEW fun, fun.size \in Nat, fun.ret \in 1..fun.size, NEW args \in Seq(Value)
    PROVE  FirstLocals(fun, args) \in [1..fun.size -> Value]
BY ValueTypes DEF FirstLocals

LEMMA ContextType ==
    ASSUME crate \in Crates, NEW f \in 1..Len(crate.funs), crate.funs[f].consteval,
           NEW args \in Seq(Value), NEW caller \in Nat, NEW dest \in Nat,
           NEW target \in Nat, NEW callBlock, IsCall(crate, callBlock, dest, target)
    PROVE  LET k == Context(f, args, caller, dest, target, callBlock) IN
           /\ k \in Frames(crate) /\ k.block \notin Answering(crate)
           /\ k.fun = f /\ k.caller = caller /\ k.target = target
<1> DEFINE n == crate.funs[f].size
           b == crate.funs[f].blocks[1]
           l == FirstLocals(crate.funs[f], args)
           k == [fun |-> f, block |-> b, locals |-> l, caller |-> caller,
                 dest |-> dest, target |-> target, callBlock |-> callBlock]
<1>1. Context(f, args, caller, dest, target, callBlock) = k
    BY DEF Context, Funs
<1>2. b \in BlocksOf(crate, f) /\ b \notin Answering(crate)
    BY CrateTypes
<1>3. l \in [1..n -> Value]
    BY FirstLocalsType, CrateTypes
<1>4. k.fun = f /\ k.caller = caller /\ k.target = target /\ k.block = b
    OBVIOUS
<1> HIDE DEF l, b
<1>5. k \in Frames(crate)
    BY <1>2, <1>3, FrameMade
<1> HIDE DEF k
<1> QED BY <1>1, <1>2, <1>4, <1>5

\* A context put on top of the one that calls it.
LEMMA Pushed ==
    ASSUME NEW c, NEW X, NEW st \in Seq(X), NEW k \in X, NEW hs, NEW su,
           Len(st) >= 1, k.caller = Len(st), k.block \notin Answering(c),
           k.target \in Returns(c, st[Len(st)].fun),
           k.target \in Answering(c) => st[Len(st)].block \in Answering(c),
           Linked(c, st, 0), HandlersFit(c, hs, st), SuspFits(c, su, st)
    PROVE  LET st2 == Append(st, k) IN
           /\ Linked(c, st2, 0) /\ HandlersFit(c, hs, st2) /\ SuspFits(c, su, st2)
           /\ k.target \notin Answering(c) /\ QuietFits(c, st, su) => QuietFits(c, st2, su)
<1> DEFINE st2 == Append(st, k)
<1>1. /\ Len(st) \in Nat /\ Len(st2) = Len(st) + 1 /\ st2[Len(st2)] = k
      /\ \A i \in 1..Len(st) : st2[i] = st[i]
    OBVIOUS
<1> HIDE DEF st2
<1>2. /\ \A i \in 1..Len(st2) : i = Len(st2) \/ i \in 1..Len(st)
      /\ \A i \in 1..Len(st) : i \in 1..Len(st2) /\ i < Len(st2) /\ i # Len(st2)
      /\ Len(st) \in 1..Len(st) /\ Len(st2) - 1 = Len(st) /\ Len(st2) >= 2
    BY <1>1
<1>3. /\ ~InHandler(c, st2, Len(st2))
      /\ \A i \in 1..Len(st) : i # Len(st) => (InHandler(c, st2, i) <=> InHandler(c, st, i))
      /\ InHandler(c, st2, Len(st)) <=> k.target \in Answering(c)
      /\ InHandler(c, st, Len(st)) <=> st[Len(st)].block \in Answering(c)
    <2>1. ~InHandler(c, st2, Len(st2))
        BY <1>1 DEF InHandler
    <2>2. ASSUME NEW i \in 1..Len(st), i # Len(st)
          PROVE  InHandler(c, st2, i) <=> InHandler(c, st, i)
        <3>1. i + 1 \in 1..Len(st) /\ i < Len(st) /\ i # Len(st2) /\ i < Len(st2)
            BY <1>1, <2>2
        <3>2. st2[i + 1] = st[i + 1]
            BY <1>1, <3>1
        <3> QED BY <3>1, <3>2 DEF InHandler
    <2>3. InHandler(c, st2, Len(st)) <=> k.target \in Answering(c)
        <3>1. Len(st) # Len(st2) /\ Len(st) < Len(st2) /\ st2[Len(st) + 1] = k
            BY <1>1
        <3> QED BY <3>1 DEF InHandler
    <2>4. InHandler(c, st, Len(st)) <=> st[Len(st)].block \in Answering(c)
        BY <1>1 DEF InHandler
    <2> QED BY <2>1, <2>2, <2>3, <2>4
<1>4. \A i \in 1..Len(st2) : InHandler(c, st2, i) => i \in 1..Len(st) /\ InHandler(c, st, i)
    BY <1>2, <1>3
<1>5. Linked(c, st2, 0)
    <2>1. \A i \in 1..Len(st) : st[i].caller >= 0 + i - 1
        BY DEF Linked
    <2>2. \A i \in 2..Len(st) : st[i].caller = 0 + i - 1 => st[i].target \in Returns(c, st[i - 1].fun)
        BY DEF Linked
    <2>3. ASSUME NEW i \in 1..Len(st2)
          PROVE  st2[i].caller >= 0 + i - 1
        <3>1. CASE i = Len(st2)
            BY <1>1, <3>1
        <3>2. CASE i \in 1..Len(st)
            BY <1>1, <2>1, <3>2
        <3> QED BY <1>2, <3>1, <3>2
    <2>4. ASSUME NEW i \in 2..Len(st2), st2[i].caller = 0 + i - 1
          PROVE  st2[i].target \in Returns(c, st2[i - 1].fun)
        <3>1. CASE i = Len(st2)
            <4>1. st2[i] = k /\ st2[i - 1] = st[Len(st)]
                BY <1>1, <1>2, <3>1
            <4> QED BY <4>1
        <3>2. CASE i \in 1..Len(st)
            <4>1. i \in 2..Len(st) /\ i - 1 \in 1..Len(st)
                BY <3>2
            <4>2. st2[i] = st[i] /\ st2[i - 1] = st[i - 1]
                BY <1>1, <4>1, <3>2
            <4> QED BY <2>2, <2>4, <4>1, <4>2
        <3> QED BY <1>2, <3>1, <3>2
    <2> QED BY <2>3, <2>4 DEF Linked
<1>6. HandlersFit(c, hs, st2)
    BY <1>1, <1>2 DEF HandlersFit
<1>7. SuspFits(c, su, st2)
    <2> SUFFICES ASSUME NEW s \in 1..Len(su)
                 PROVE  LET e == su[s] IN
                        /\ Linked(c, e.frames, e.ctx)
                        /\ \A i \in 1..Len(st2) : i > e.ctx => ~InHandler(c, st2, i)
                        /\ e.ctx \in 1..Len(st2) /\ InHandler(c, st2, e.ctx) /\ e.frames # <<>>
                              /\ e.frames[1].caller = e.ctx =>
                                 e.frames[1].target \in Returns(c, st2[e.ctx].fun)
        BY DEF SuspFits
    <2> DEFINE e == su[s]
    <2>1. /\ Linked(c, e.frames, e.ctx)
          /\ \A i \in 1..Len(st) : i > e.ctx => ~InHandler(c, st, i)
          /\ e.ctx \in 1..Len(st) /\ InHandler(c, st, e.ctx) /\ e.frames # <<>>
                /\ e.frames[1].caller = e.ctx =>
                   e.frames[1].target \in Returns(c, st[e.ctx].fun)
        BY DEF SuspFits
    <2> HIDE DEF e
    <2>2. \A i \in 1..Len(st2) : i > e.ctx => ~InHandler(c, st2, i)
        BY <1>4, <2>1
    <2>3. e.ctx \in 1..Len(st2) /\ InHandler(c, st2, e.ctx) /\ e.frames # <<>>
             /\ e.frames[1].caller = e.ctx =>
                e.frames[1].target \in Returns(c, st2[e.ctx].fun)
        BY <1>1, <1>4, <2>1
    <2> QED BY <2>1, <2>2, <2>3 DEF e
<1>8. ASSUME k.target \notin Answering(c), QuietFits(c, st, su)
      PROVE  QuietFits(c, st2, su)
    <2>1. /\ \A i \in 1..Len(st) : st[i].caller = i - 1
          /\ \A s \in 1..Len(su) : LET e == su[s] IN
                \A i \in 1..Len(e.frames) : e.frames[i].caller = e.ctx + i - 1
          /\ \A i \in 1..Len(st) : InHandler(c, st, i) => i = Len(st)
        BY <1>8 DEF QuietFits
    <2>2. \A i \in 1..Len(st2) : st2[i].caller = i - 1
        BY <1>1, <1>2, <2>1
    <2>3. \A i \in 1..Len(st2) : ~InHandler(c, st2, i)
        BY <1>2, <1>3, <1>8, <2>1
    <2> QED BY <2>1, <2>2, <2>3 DEF QuietFits
<1> QED BY <1>5, <1>6, <1>7, <1>8 DEF st2

LEMMA CallKeeps == ASSUME IInv, Call PROVE IInv'
<1> DEFINE t == Code.term
           n == Funs[Ctx.fun].size
           args == EvalAll(t.args, Locals, Code.params)
           st == Continue(Ctx.block, Locals)
           k == Context(t.func, args, Top, t.dest, t.target, Ctx.block)
<1>1. Ends("call")
    BY DEF Call
<1>2. CASE ~(Funs[t.func].consteval /\ AllGood(args) /\ Fits(Funs[t.func], args))
    BY <1>2, PanicKeeps DEF Call
<1>3. CASE Funs[t.func].consteval /\ AllGood(args) /\ Fits(Funs[t.func], args)
    <2>1. stack' = Append(st, k) /\ handlers' = Live /\ susp' = susp /\ Unchanged
        BY <1>3 DEF Call, KeepHandlers
    <2>2. /\ phase = "run" /\ Locals # Failed /\ t.kind = "call"
          /\ crate \in Crates /\ Typed /\ StackInv /\ Top \in Nat /\ Top >= 1 /\ n \in Nat
          /\ Ctx.fun \in 1..Len(crate.funs) /\ Ctx.block \in 1..Len(crate.blocks)
          /\ Ctx.block \in BlocksOf(crate, Ctx.fun) /\ Code.params \in Seq(1..n)
          /\ Locals \in [1..n -> Value]
        BY <1>1, EndsFacts
    <2>3. /\ t.func \in 1..Len(crate.funs) /\ t.args \in Seq(Rvalues(n))
          /\ t.dest \in 1..n /\ t.target \in BlocksOf(crate, Ctx.fun) \cup {0}
        BY <1>1, <2>2, EndsFacts, BlockTypes DEF Funs
    <2>4. t.dest \in Nat /\ t.target \in Nat
        <3>1. BlocksOf(crate, Ctx.fun) \subseteq 1..Len(crate.blocks) /\ Len(crate.blocks) \in Nat
            BY <2>2, CrateTypes
        <3> QED BY <2>2, <2>3, <3>1
    <2>5. crate.blocks[Ctx.block].term = t
        <3>1. Code.term = crate.blocks[Ctx.block].term \/ Code.term.kind \in {"goto", "unreachable"}
            BY <2>2 DEF Typed, BlocksInv, Code
        <3> QED BY <2>2, <3>1
    <2>6. IsCall(crate, Ctx.block, t.dest, t.target)
        BY <2>2, <2>5 DEF IsCall
    <2>7. args \in Seq(Value)
        BY <1>3, <2>2, <2>3, EvalAllType
    <2>8. /\ k \in Frames(crate) /\ k.block \notin Answering(crate)
          /\ k.caller = Top /\ k.target = t.target
        <3>1. crate.funs[t.func].consteval /\ Fits(crate.funs[t.func], args)
            BY <1>3 DEF Funs
        <3>2. crate \in Crates /\ t.func \in 1..Len(crate.funs) /\ Top \in Nat
            BY <2>2, <2>3
        <3>3. k = Context(t.func, args, Top, t.dest, t.target, Ctx.block)
            OBVIOUS
        <3> HIDE DEF t, args, k
        <3> QED BY <2>4, <2>6, <2>7, <3>1, <3>2, <3>3, ContextType
    <2>9. t.target \in Answering(crate) => Ctx.block \in Answering(crate)
        <3> SUFFICES ASSUME t.target \in Answering(crate) PROVE Ctx.block \in Answering(crate)
            OBVIOUS
        <3>1. Succs(blocks[Ctx.block].term) \cap Answering(crate) # {}
            BY <2>2 DEF Code, Succs
        <3> QED BY <2>2, <3>1, FlowKept
    <2>10. QuietHandlers => t.target \notin Answering(crate)
        BY <2>2, <2>5, <2>9 DEF QuietHandlers
    <2>11. /\ st \in Seq(Frames(crate)) /\ Len(st) = Top
           /\ st[Top].block = Ctx.block /\ st[Top].fun = Ctx.fun
           /\ Linked(crate, st, 0) /\ HandlersFit(crate, Live, st)
           /\ SuspFits(crate, susp, st)
           /\ QuietHandlers => QuietFits(crate, st, susp)
        <3> DEFINE b == Ctx.block
                   l == Locals
        <3>1. /\ phase = "run" /\ b \in BlocksOf(crate, Ctx.fun) /\ b = Ctx.block
              /\ l \in [1..Funs[Ctx.fun].size -> Value] /\ st = Continue(b, l)
            BY <2>2 DEF Funs
        <3> HIDE DEF b, l, st
        <3>2. /\ st \in Seq(Frames(crate)) /\ Len(st) = Top
              /\ st[Top].block = b /\ st[Top].fun = Ctx.fun
              /\ Linked(crate, st, 0) /\ HandlersFit(crate, Live, st)
              /\ SuspFits(crate, susp, st)
              /\ QuietHandlers => QuietFits(crate, st, susp)
            BY <3>1, GoesOn
        <3> QED BY <3>1, <3>2
    <2> HIDE DEF st, k
    <2>12. k.target \in Returns(crate, st[Len(st)].fun)
        BY <2>3, <2>8, <2>11 DEF Returns
    <2>13. LET st2 == Append(st, k) IN
           /\ Linked(crate, st2, 0) /\ HandlersFit(crate, Live, st2) /\ SuspFits(crate, susp, st2)
           /\ k.target \notin Answering(crate) /\ QuietFits(crate, st, susp) =>
                 QuietFits(crate, st2, susp)
        BY <2>2, <2>8, <2>9, <2>11, <2>12, Pushed
    <2>14. stack' \in Seq(Frames(crate)) /\ stack' # <<>>
        BY <2>1, <2>8, <2>11, AppendProperties
    <2>15. /\ Live \in Seq(Handlers(crate)) /\ susp \in Seq(Continuations(crate))
           /\ Len(susp) <= 1
        BY <2>2, LiveFacts DEF Typed
    <2>16. /\ Linked(crate, stack', 0) /\ HandlersFit(crate, handlers', stack')
           /\ SuspFits(crate, susp', stack')
           /\ QuietHandlers => QuietFits(crate, stack', susp')
        BY <2>1, <2>8, <2>10, <2>11, <2>13
    <2> QED BY <2>1, <2>2, <2>14, <2>15, <2>16, Assembled
<1> QED BY <1>2, <1>3

LEMMA CollectKeeps == ASSUME IInv, Collect PROVE IInv'
<1>1. PICK f \in todo : /\ pending' = pending \o ConstCalls(crate, f)
                        /\ todo' = todo \ {f}
    BY DEF Collect
<1>2. /\ phase' \in {"next", "collect"} /\ crate' = crate /\ blocks' = blocks /\ stack' = stack
      /\ handlers' = handlers /\ susp' = susp
    BY DEF Collect
<1>3. pending' \in Seq(Jobs(crate))
    <2>1. f \in 1..Len(crate.funs) /\ crate \in Crates /\ pending \in Seq(Jobs(crate))
        BY DEF IInv, Typed
    <2>2. ConstCalls(crate, f) \in Seq(Jobs(crate))
        BY <2>1, ConstCallsType
    <2> QED BY <1>1, <2>1, <2>2, ConcatProperties
<1>4. BlocksInv'
    BY <1>2 DEF IInv, Typed, BlocksInv
<1>5. todo' \subseteq 1..Len(crate.funs)
    BY <1>1 DEF IInv, Typed
<1>6. Typed'
    BY <1>2, <1>3, <1>4, <1>5 DEF IInv, Typed
<1> QED BY <1>2, <1>6 DEF IInv

LEMMA StartJobKeeps == ASSUME IInv, StartJob PROVE IInv'
<1> DEFINE j == Head(pending)
           k == Context(j.func, j.args, 0, j.dest, j.target, j.block)
<1>1. CASE ~Fits(Funs[j.func], j.args)
    BY <1>1, PanicKeeps DEF StartJob
<1>2. CASE Fits(Funs[j.func], j.args)
    <2>1. /\ stack' = <<k>> /\ handlers' = <<>> /\ susp' = <<>> /\ phase' = "run"
          /\ crate' = crate /\ blocks' = blocks /\ todo' = todo /\ pending' = pending
          /\ pending # <<>>
        BY <1>2 DEF StartJob
    <2>2. Typed /\ crate \in Crates /\ pending \in Seq(Jobs(crate))
        BY DEF IInv, Typed
    <2>3. j \in Jobs(crate)
        BY <2>1, <2>2, HeadTailProperties
    <2>4. /\ j.func \in 1..Len(crate.funs) /\ crate.funs[j.func].consteval
          /\ j.args \in Seq(Value) /\ j.dest \in Nat /\ j.target \in Nat
          /\ IsCall(crate, j.block, j.dest, j.target)
        <3> HIDE DEF j
        <3> QED BY <2>3 DEF Jobs
    <2>5. k \in Frames(crate) /\ k.block \notin Answering(crate) /\ k.caller = 0
        <3>1. k = Context(j.func, j.args, 0, j.dest, j.target, j.block) /\ 0 \in Nat
            OBVIOUS
        <3>2. crate \in Crates
            BY <2>2
        <3> DEFINE f == j.func
                   args == j.args
                   dest == j.dest
                   target == j.target
                   callBlock == j.block
                   c == Context(f, args, 0, dest, target, callBlock)
        <3>3. c \in Frames(crate) /\ c.block \notin Answering(crate) /\ c.caller = 0
            <4>1. /\ f \in 1..Len(crate.funs) /\ crate.funs[f].consteval /\ args \in Seq(Value)
                  /\ dest \in Nat /\ target \in Nat /\ IsCall(crate, callBlock, dest, target)
                BY <2>4
            <4> HIDE DEF j, k, f, args, dest, target, callBlock
            <4> QED BY <3>1, <3>2, <4>1, ContextType
        <3>4. c = k
            OBVIOUS
        <3> HIDE DEF j, k, c
        <3> QED BY <3>3, <3>4
    <2> HIDE DEF k
    <2>6. stack' \in Seq(Frames(crate)) /\ Len(stack') = 1 /\ stack'[1] = k /\ stack' # <<>>
        BY <2>1, <2>5
    <2>7. \A i \in 1..Len(stack') : i = 1
        BY <2>6
    <2>8. Linked(crate, stack', 0)
        <3>1. \A i \in 2..Len(stack') : FALSE
            BY <2>6
        <3> QED BY <2>5, <2>6, <2>7, <3>1 DEF Linked
    <2>9. Len(handlers') = 0 /\ Len(susp') = 0
        BY <2>1
    <2>10. HandlersFit(crate, handlers', stack') /\ SuspFits(crate, susp', stack')
        BY <2>9 DEF HandlersFit, SuspFits
    <2>11. QuietFits(crate, stack', susp')
        <3>1. \A i \in 1..Len(stack') : stack'[i].caller = i - 1
            BY <2>5, <2>6, <2>7
        <3>2. \A i \in 1..Len(stack') : ~InHandler(crate, stack', i)
            BY <2>5, <2>6, <2>7 DEF InHandler
        <3> QED BY <2>9, <3>1, <3>2 DEF QuietFits
    <2>12. BlocksInv'
        BY <2>1, <2>2 DEF Typed, BlocksInv
    <2>13. handlers' \in Seq(Handlers(crate)) /\ susp' \in Seq(Continuations(crate)) /\ Len(susp') <= 1
        BY <2>1
    <2>14. Typed'
        BY <2>1, <2>2, <2>6, <2>12, <2>13 DEF Typed
    <2>15. StackInv'
        BY <2>1, <2>6, <2>8, <2>10 DEF StackInv
    <2> QED BY <2>1, <2>11, <2>14, <2>15 DEF IInv
<1> QED BY <1>1, <1>2

-----------------------------------------------------------------------------
(* Returns. *)

\* The block of a call that has been evaluated keeps its type and its flow.
LEMMA RewrittenKeeps ==
    ASSUME Typed, NEW b, NEW dest, NEW target, IsCall(crate, b, dest, target), NEW v \in Value,
           blocks' = Rewritten(b, dest, v, target), crate' = crate
    PROVE  BlocksInv'
<1> DEFINE N == Len(crate.blocks)
           stmt == [kind |-> "let", local |-> dest, rv |-> [op |-> "const", v |-> v]]
           T == IF target = 0 THEN [kind |-> "unreachable"]
                ELSE [kind |-> "goto", target |-> target, args |-> <<>>]
           old == blocks[b]
           new == [params |-> old.params, stmts |-> Append(old.stmts, stmt), term |-> T]
<1>1. /\ crate \in Crates /\ b \in 1..N /\ blocks = [i \in 1..N |-> blocks[i]]
      /\ \A f \in 1..Len(crate.funs) : \A i \in BlocksOf(crate, f) : blocks[i] \in BlockOf(crate, f)
      /\ \A i \in 1..N :
            \/ blocks[i].term = crate.blocks[i].term
            \/ /\ crate.blocks[i].term.kind = "call"
               /\ blocks[i].term.kind \in {"goto", "unreachable"}
               /\ Succs(blocks[i].term) \subseteq Succs(crate.blocks[i].term)
    BY DEF Typed, BlocksInv, IsCall
<1>2. PICK g \in 1..Len(crate.funs) : b \in BlocksOf(crate, g)
    BY DEF IsCall
<1>3. old = [params |-> old.params, stmts |-> old.stmts, term |-> old.term]
    BY <1>1, <1>2, BlockTypes
<1>4. blocks' = [blocks EXCEPT ![b] = new]
    <2> DEFINE s2 == Append(old.stmts, stmt)
    <2>1. blocks' = [blocks EXCEPT ![b] = [[old EXCEPT !.stmts = s2] EXCEPT !.term = T]]
        BY <1>1 DEF Rewritten
    <2>2. [[old EXCEPT !.stmts = s2] EXCEPT !.term = T]
             = [params |-> old.params, stmts |-> s2, term |-> T]
        <3> HIDE DEF s2, T, old
        <3> DEFINE R == [params |-> old.params, stmts |-> old.stmts, term |-> old.term]
                   R1 == [params |-> old.params, stmts |-> s2, term |-> old.term]
        <3>1. [R EXCEPT !.stmts = s2] = R1
            OBVIOUS
        <3>2. [R1 EXCEPT !.term = T] = [params |-> old.params, stmts |-> s2, term |-> T]
            OBVIOUS
        <3>3. old = R
            BY <1>3
        <3> HIDE DEF R, R1
        <3> QED BY <3>1, <3>2, <3>3
    <2> QED BY <2>1, <2>2
<1>5. \A i \in 1..N : blocks'[i] = IF i = b THEN new ELSE blocks[i]
    <2> HIDE DEF new
    <2> QED BY <1>1, <1>4
<1>6. blocks' = [i \in 1..N |-> blocks'[i]]
    <2> HIDE DEF new, N
    <2> QED BY <1>1, <1>4
<1>7. ASSUME NEW f \in 1..Len(crate.funs), b \in BlocksOf(crate, f)
      PROVE  new \in BlockOf(crate, f)
    <2> DEFINE n == crate.funs[f].size
    <2>1. crate.blocks[b] \in BlockOf(crate, f) /\ n \in Nat
        BY <1>1, <1>7, CrateTypes
    <2>2. dest \in 1..n /\ target \in BlocksOf(crate, f) \cup {0}
        BY <2>1, BlockTypes DEF IsCall
    <2>3. old.params \in Seq(1..n) /\ old.stmts \in Seq(Statements(n))
        BY <1>1, <1>7, BlockTypes
    <2>4. stmt \in Statements(n)
        <3>1. [op |-> "const", v |-> v] \in Rvalues(n)
            BY DEF Rvalues, Atoms
        <3> QED BY <2>2, <3>1 DEF Statements
    <2> HIDE DEF stmt
    <2>5. Append(old.stmts, stmt) \in Seq(Statements(n))
        BY <2>3, <2>4, AppendProperties
    <2>6. T \in Terminators(crate, f)
        <3>1. CASE target = 0
            BY <3>1 DEF Terminators
        <3>2. CASE target # 0
            <4>1. target \in BlocksOf(crate, f) /\ <<>> \in Seq(Rvalues(n))
                BY <2>2, <3>2
            <4> QED BY <3>2, <4>1 DEF Terminators
        <3> QED BY <3>1, <3>2
    <2> HIDE DEF T, old
    <2> QED BY <2>3, <2>5, <2>6 DEF BlockOf
<1>8. /\ crate.blocks[b].term.kind = "call" /\ new.term.kind \in {"goto", "unreachable"}
      /\ Succs(new.term) \subseteq Succs(crate.blocks[b].term)
    <2>1. crate.blocks[b].term.kind = "call" /\ crate.blocks[b].term.target = target
        BY DEF IsCall
    <2>2. Succs(crate.blocks[b].term) = {target}
        BY <2>1 DEF Succs
    <2>3. new.term = T
        OBVIOUS
    <2>4. CASE target = 0
        BY <2>1, <2>2, <2>3, <2>4 DEF Succs
    <2>5. CASE target # 0
        BY <2>1, <2>2, <2>3, <2>5 DEF Succs
    <2> QED BY <2>4, <2>5
<1> HIDE DEF new
<1>9. \A f \in 1..Len(crate.funs) : \A i \in BlocksOf(crate, f) : blocks'[i] \in BlockOf(crate, f)
    <2>1. \A f \in 1..Len(crate.funs) : BlocksOf(crate, f) \subseteq 1..N
        BY <1>1, CrateTypes
    <2> QED BY <1>1, <1>5, <1>7, <2>1
<1>10. \A i \in 1..N :
          \/ blocks'[i].term = crate.blocks[i].term
          \/ /\ crate.blocks[i].term.kind = "call"
             /\ blocks'[i].term.kind \in {"goto", "unreachable"}
             /\ Succs(blocks'[i].term) \subseteq Succs(crate.blocks[i].term)
    BY <1>1, <1>5, <1>8
<1> QED BY <1>6, <1>9, <1>10 DEF BlocksInv

-----------------------------------------------------------------------------
(* The other steps that leave the stack alone. *)

LEMMA InitKeeps == ASSUME Init PROVE IInv
<1>1. crate \in Crates /\ blocks = crate.blocks /\ phase = "collect" /\ todo = Reachable(crate)
      /\ pending = <<>> /\ stack = <<>> /\ handlers = <<>> /\ susp = <<>>
    BY DEF Init
<1>2. todo \subseteq 1..Len(crate.funs)
    BY <1>1, ReachableType
<1>3. BlocksInv
    BY <1>1, CrateTypes DEF BlocksInv
<1>4. /\ pending \in Seq(Jobs(crate)) /\ stack \in Seq(Frames(crate))
      /\ handlers \in Seq(Handlers(crate)) /\ susp \in Seq(Continuations(crate))
      /\ Len(susp) <= 1
    BY <1>1
<1> QED BY <1>1, <1>2, <1>3, <1>4 DEF IInv, Typed

LEMMA AllDoneKeeps == ASSUME IInv, AllDone PROVE IInv'
<1>1. /\ crate' = crate /\ blocks' = blocks /\ phase' = "done" /\ todo' = todo
      /\ pending' = pending /\ stack' = stack /\ handlers' = handlers /\ susp' = susp
    BY DEF AllDone
<1>2. Typed'
    BY <1>1 DEF IInv, Typed, BlocksInv
<1> QED BY <1>1, <1>2 DEF IInv

LEMMA ReturnTopKeeps == ASSUME IInv, ReturnTop PROVE IInv'
<1> DEFINE v == Locals[Funs[Ctx.fun].ret]
           j == Head(pending)
           const == ToConst(v, Funs[j.func])
<1>1. Ends("return")
    BY DEF ReturnTop
<1>2. CASE const = Bad
    BY <1>2, PanicKeeps DEF ReturnTop
<1>3. CASE const # Bad
    <2>1. /\ stack' = SubSeq(stack, 1, Top - 1) /\ handlers' = NoneOf(Live, Top)
          /\ blocks' = Rewritten(j.block, j.dest, const, j.target)
          /\ pending' = Tail(pending) /\ phase' = "next" /\ crate' = crate /\ todo' = todo
          /\ susp' = susp
        BY <1>3 DEF ReturnTop
    <2>2. /\ Typed /\ crate \in Crates /\ stack \in Seq(Frames(crate)) /\ Top \in Nat /\ Top >= 1
          /\ pending \in Seq(Jobs(crate)) /\ pending # <<>>
          /\ handlers \in Seq(Handlers(crate)) /\ Top = Len(stack)
        BY <1>1, EndsFacts DEF Typed, StackInv, Top
    <2>3. j \in Jobs(crate) /\ pending' \in Seq(Jobs(crate))
        BY <2>1, <2>2, HeadTailProperties
    <2>4. j.func \in 1..Len(crate.funs) /\ IsCall(crate, j.block, j.dest, j.target)
        <3> HIDE DEF j
        <3> QED BY <2>3 DEF Jobs
    <2>5. v \in Value
        <3>1. Ctx.fun \in 1..Len(crate.funs) /\ Locals \in [1..crate.funs[Ctx.fun].size -> Value]
            BY <1>1, EndsFacts DEF Funs
        <3>2. crate.funs[Ctx.fun].ret \in 1..crate.funs[Ctx.fun].size
            BY <2>2, <3>1, CrateTypes
        <3> QED BY <3>1, <3>2 DEF Funs
    <2>6. const \in Value
        <3> HIDE DEF j, v
        <3>1. /\ crate.funs[j.func].span \in Nat \ {0} /\ crate.funs[j.func].low \in Word
              /\ crate.funs[j.func].low + crate.funs[j.func].span <= Half
            BY <2>2, <2>4, CrateTypes
        <3>2. ToConst(v, crate.funs[j.func]) \in MaybeValue
            BY <2>5, <3>1, ToConstType
        <3> QED BY <1>3, <3>2 DEF Funs, MaybeValue
    <2>7. BlocksInv'
        <3> HIDE DEF j, const
        <3> QED BY <2>1, <2>2, <2>4, <2>6, RewrittenKeeps
    <2>8. stack' \in Seq(Frames(crate))
        <3>1. Top - 1 \in 0..Len(stack)
            BY <2>2
        <3> QED BY <2>1, <2>2, <3>1, Prefix
    <2>9. handlers' \in Seq(Handlers(crate))
        BY <2>1, <2>2, LiveFacts, PicksProperties DEF NoneOf
    <2>10. Typed'
        BY <2>1, <2>2, <2>3, <2>7, <2>8, <2>9 DEF Typed
    <2> QED BY <2>1, <2>10 DEF IInv
<1> QED BY <1>2, <1>3

-----------------------------------------------------------------------------
(* Steps that take contexts off the stack. *)

\* The stack without the contexts above the m-th, which goes on at b.
IsCut(c, st, m, b, st2) ==
    /\ st2 \in Seq(Frames(c)) /\ Len(st2) = m /\ st2[m].block = b
    /\ \A i \in 1..m : /\ st2[i].fun = st[i].fun /\ st2[i].caller = st[i].caller
                       /\ st2[i].target = st[i].target
    /\ Linked(c, st2, 0)
    /\ \A i \in 1..m : i # m => (InHandler(c, st2, i) <=> InHandler(c, st, i))
    /\ InHandler(c, st2, m) <=> b \in Answering(c)

LEMMA Cut ==
    ASSUME NEW c \in Crates, NEW st \in Seq(Frames(c)), NEW m \in 1..Len(st),
           NEW b \in BlocksOf(c, st[m].fun), NEW l \in [1..c.funs[st[m].fun].size -> Value],
           Linked(c, st, 0)
    PROVE  IsCut(c, st, m, b, Moved(SubSeq(st, 1, m), m, b, l))
<1> DEFINE st2 == Moved(SubSeq(st, 1, m), m, b, l)
<1>0. st2 = Moved(SubSeq(st, 1, m), m, b, l)
    OBVIOUS
<1> HIDE DEF st2
<1> DEFINE F == Frames(c)
           sub == SubSeq(st, 1, m)
<1>1. st \in Seq(F) /\ m \in 0..Len(st) /\ m \in Nat /\ m >= 1 /\ Len(st) \in Nat
    OBVIOUS
<1>2. sub \in Seq(F) /\ Len(sub) = m /\ \A i \in 1..m : sub[i] = st[i]
    <2> HIDE DEF F
    <2> QED BY <1>1, Prefix
<1>3. b \in BlocksOf(c, sub[m].fun) /\ l \in [1..c.funs[sub[m].fun].size -> Value]
    <2>1. sub[m] = st[m]
        BY <1>1, <1>2
    <2> QED BY <2>1
<1> HIDE DEF sub
<1>4. st2 \in Seq(F) /\ SameCalls(sub, st2) /\ st2[m].block = b
    <2>1. m \in 1..Len(sub) /\ st2 = Moved(sub, m, b, l)
        BY <1>0, <1>1, <1>2 DEF sub
    <2> QED BY <1>2, <1>3, <2>1, MovedContext
<1>5. Len(st2) = m
    BY <1>2, <1>4 DEF SameCalls
<1>6. \A i \in 1..m : /\ st2[i].fun = st[i].fun /\ st2[i].caller = st[i].caller
                      /\ st2[i].target = st[i].target
    BY <1>2, <1>4 DEF SameCalls
<1>7. Linked(c, st2, 0)
    <2>1. \A i \in 1..m : i \in 1..Len(st)
        BY <1>1
    <2>2. \A i \in 2..m : i \in 2..Len(st) /\ i \in 1..m /\ i - 1 \in 1..m
        BY <1>1
    <2> QED BY <1>5, <1>6, <2>1, <2>2 DEF Linked
<1>8. ASSUME NEW i \in 1..m, i # m
      PROVE  InHandler(c, st2, i) <=> InHandler(c, st, i)
    <2>1. i + 1 \in 1..m /\ i < m /\ i < Len(st) /\ i # Len(st)
        BY <1>1, <1>8
    <2> QED BY <1>5, <1>6, <1>8, <2>1 DEF InHandler
<1>9. InHandler(c, st2, m) <=> b \in Answering(c)
    BY <1>1, <1>4, <1>5 DEF InHandler
<1> QED BY <1>4, <1>5, <1>6, <1>7, <1>8, <1>9 DEF IsCut, st2

LEMMA SuspCut ==
    ASSUME NEW c, NEW st, NEW st2, NEW su, Len(st) \in Nat, Len(st2) \in Nat, Len(st2) <= Len(st),
           \A i \in 1..Len(st2) : st2[i].fun = st[i].fun,
           \A i \in 1..Len(st2) : InHandler(c, st2, i) => InHandler(c, st, i),
           SuspFits(c, su, st)
    PROVE  SuspFits(c, su, st2)
<1> SUFFICES ASSUME NEW s \in 1..Len(su)
             PROVE  LET k == su[s] IN
                    /\ Linked(c, k.frames, k.ctx)
                    /\ \A i \in 1..Len(st2) : i > k.ctx => ~InHandler(c, st2, i)
                    /\ k.ctx \in 1..Len(st2) /\ InHandler(c, st2, k.ctx) /\ k.frames # <<>>
                          /\ k.frames[1].caller = k.ctx =>
                             k.frames[1].target \in Returns(c, st2[k.ctx].fun)
    BY DEF SuspFits
<1> DEFINE k == su[s]
<1>1. /\ Linked(c, k.frames, k.ctx)
      /\ \A i \in 1..Len(st) : i > k.ctx => ~InHandler(c, st, i)
      /\ k.ctx \in 1..Len(st) /\ InHandler(c, st, k.ctx) /\ k.frames # <<>>
            /\ k.frames[1].caller = k.ctx =>
               k.frames[1].target \in Returns(c, st[k.ctx].fun)
    BY DEF SuspFits
<1> HIDE DEF k
<1>2. \A i \in 1..Len(st2) : i \in 1..Len(st)
    OBVIOUS
<1> QED BY <1>1, <1>2 DEF k

\* A context that a result comes to.
Given(st, i, d, v, b) == [st EXCEPT ![i].locals[d] = v, ![i].block = b]
WithLocal(l, d, v) == [l EXCEPT ![d] = v]

LEMMA Received ==
    ASSUME NEW c \in Crates, NEW st \in Seq(Frames(c)), NEW i \in 1..Len(st), NEW b, NEW d, NEW v
    PROVE  Given(st, i, d, v, b) = Moved(st, i, b, WithLocal(st[i].locals, d, v))
<1> DEFINE k == st[i]
           l == [k.locals EXCEPT ![d] = v]
<1>1. k = [fun |-> k.fun, block |-> k.block, locals |-> k.locals, caller |-> k.caller,
           dest |-> k.dest, target |-> k.target, callBlock |-> k.callBlock]
    <2>1. k \in Frames(c)
        OBVIOUS
    <2> HIDE DEF k
    <2> QED BY <2>1, FrameTypes
<1>2. Given(st, i, d, v, b) = [st EXCEPT ![i] = [[k EXCEPT !.locals = l] EXCEPT !.block = b]]
    BY DEF Given
<1>3. Moved(st, i, b, l) = [st EXCEPT ![i] = [[k EXCEPT !.block = b] EXCEPT !.locals = l]]
    BY DEF Moved
<1>4. [[k EXCEPT !.locals = l] EXCEPT !.block = b] = [[k EXCEPT !.block = b] EXCEPT !.locals = l]
    <2> HIDE DEF k, l
    <2> DEFINE R == [fun |-> k.fun, block |-> k.block, locals |-> k.locals,
                     caller |-> k.caller, dest |-> k.dest, target |-> k.target,
                     callBlock |-> k.callBlock]
               R1 == [fun |-> k.fun, block |-> b, locals |-> k.locals,
                      caller |-> k.caller, dest |-> k.dest, target |-> k.target,
                      callBlock |-> k.callBlock]
               R2 == [fun |-> k.fun, block |-> k.block, locals |-> l,
                      caller |-> k.caller, dest |-> k.dest, target |-> k.target,
                      callBlock |-> k.callBlock]
               R3 == [fun |-> k.fun, block |-> b, locals |-> l,
                      caller |-> k.caller, dest |-> k.dest, target |-> k.target,
                      callBlock |-> k.callBlock]
    <2>1. [R EXCEPT !.block = b] = R1
        OBVIOUS
    <2>2. [R1 EXCEPT !.locals = l] = R3
        OBVIOUS
    <2>3. [R EXCEPT !.locals = l] = R2
        OBVIOUS
    <2>4. [R2 EXCEPT !.block = b] = R3
        OBVIOUS
    <2>5. k = R
        BY <1>1
    <2> HIDE DEF R, R1, R2, R3
    <2> QED BY <2>1, <2>2, <2>3, <2>4, <2>5
<1>5. Given(st, i, d, v, b) = Moved(st, i, b, l)
    <2> HIDE DEF k, l
    <2> QED BY <1>2, <1>3, <1>4
<1> QED BY <1>5 DEF WithLocal

LEMMA ReturnKeeps == ASSUME IInv, Return PROVE IInv'
<1> DEFINE f == Ctx.fun
           v == Locals[Funs[f].ret]
           const == ToConst(v, Funs[f])
           below == SubSeq(stack, 1, Top - 1)
           m == Top - 1
<1>1. Ends("return") /\ Ctx.caller # 0
    BY DEF Return
<1>2. CASE Ctx.target = 0 \/ const = Bad \/ Ctx.caller >= Top
    BY <1>2, PanicKeeps DEF Return
<1>3. CASE ~(Ctx.target = 0 \/ const = Bad \/ Ctx.caller >= Top)
    <2>1. /\ stack' = [below EXCEPT ![Ctx.caller].locals[Ctx.dest] = v,
                                    ![Ctx.caller].block = Ctx.target]
          /\ blocks' = Rewritten(Ctx.callBlock, Ctx.dest, const, Ctx.target)
          /\ handlers' = NoneOf(Live, Top)
          /\ crate' = crate /\ phase' = phase /\ todo' = todo /\ pending' = pending /\ susp' = susp
        BY <1>3 DEF Return
    <2>2. /\ Typed /\ crate \in Crates /\ stack \in Seq(Frames(crate)) /\ Top \in Nat /\ Top >= 1
          /\ f \in 1..Len(crate.funs) /\ Locals \in [1..crate.funs[f].size -> Value]
          /\ Ctx \in Frames(crate) /\ phase = "run" /\ stack # <<>>
          /\ Linked(crate, stack, 0) /\ HandlersFit(crate, handlers, stack)
          /\ SuspFits(crate, susp, stack) /\ handlers \in Seq(Handlers(crate))
          /\ susp \in Seq(Continuations(crate)) /\ Len(susp) <= 1
          /\ QuietHandlers => QuietFits(crate, stack, susp)
        BY <1>1, EndsFacts DEF Funs, Typed, StackInv, IInv
    <2>3. v \in Value /\ const \in Value
        <3>1. /\ crate.funs[f].ret \in 1..crate.funs[f].size
              /\ crate.funs[f].span \in Nat \ {0} /\ crate.funs[f].low \in Word
              /\ crate.funs[f].low + crate.funs[f].span <= Half
            BY <2>2, CrateTypes
        <3>2. v \in Value
            BY <2>2, <3>1 DEF Funs
        <3>3. ToConst(v, crate.funs[f]) \in MaybeValue
            <4> HIDE DEF v, f
            <4> QED BY <3>1, <3>2, ToConstType
        <3> QED BY <1>3, <3>2, <3>3 DEF Funs, MaybeValue
    <2>4. /\ Ctx.caller \in Nat /\ Ctx.target \in Nat
          /\ IsCall(crate, Ctx.callBlock, Ctx.dest, Ctx.target)
        BY <2>2, FrameTypes
    <2>5. BlocksInv'
        <3> HIDE DEF const
        <3> QED BY <2>1, <2>2, <2>3, <2>4, RewrittenKeeps
    <2>6. /\ Ctx.caller = m /\ m \in Nat /\ m >= 1 /\ m \in 1..Len(stack) /\ m < Len(stack)
          /\ m + 1 = Len(stack) /\ Ctx = stack[m + 1] /\ Len(stack) = Top
        <3>1. stack[Top].caller >= 0 + Top - 1
            BY <2>2 DEF Linked, Top
        <3> QED BY <1>1, <1>3, <2>2, <2>4, <3>1 DEF Top, Ctx
    <2>7. Ctx.target \in BlocksOf(crate, stack[m].fun)
        <3>1. Top \in 2..Len(stack) /\ stack[Top].caller = 0 + Top - 1
            BY <2>2, <2>6
        <3>2. Ctx.target \in Returns(crate, stack[m].fun)
            BY <2>2, <2>6, <3>1 DEF Linked
        <3> QED BY <1>3, <3>2 DEF Returns
    <2> DEFINE F == Frames(crate)
               l == WithLocal(below[m].locals, Ctx.dest, v)
    <2>8. below \in Seq(F) /\ Len(below) = m /\ below[m] = stack[m] /\ stack[m] \in F
        <3>1. m \in 0..Len(stack) /\ m \in 1..m /\ stack \in Seq(F)
            BY <2>2, <2>6
        <3> HIDE DEF F, m
        <3> QED BY <2>6, <3>1, Prefix DEF m
    <2>9. l \in [1..crate.funs[stack[m].fun].size -> Value]
        <3>1. stack[m].locals \in [1..crate.funs[stack[m].fun].size -> Value]
            BY <2>2, <2>8, FrameTypes
        <3> HIDE DEF m, v
        <3> QED BY <2>3, <2>8, <3>1 DEF WithLocal
    <2>10. stack' = Moved(SubSeq(stack, 1, m), m, Ctx.target, l)
        <3>1. m \in 1..Len(below)
            BY <2>6, <2>8
        <3>2. stack' = Given(below, m, Ctx.dest, v, Ctx.target)
            BY <2>1, <2>6 DEF Given
        <3>3. crate \in Crates /\ below \in Seq(Frames(crate))
            BY <2>2, <2>8
        <3> HIDE DEF m, v, below
        <3>4. stack' = Moved(below, m, Ctx.target, l)
            BY <3>1, <3>2, <3>3, Received
        <3> QED BY <3>4 DEF below, m
    <2> HIDE DEF l, m
    <2>11. /\ stack' \in Seq(Frames(crate)) /\ Len(stack') = m
           /\ \A i \in 1..m : /\ stack'[i].fun = stack[i].fun
                              /\ stack'[i].caller = stack[i].caller
           /\ Linked(crate, stack', 0)
           /\ \A i \in 1..m : i # m => (InHandler(crate, stack', i) <=> InHandler(crate, stack, i))
           /\ InHandler(crate, stack', m) <=> Ctx.target \in Answering(crate)
        <3>1. /\ crate \in Crates /\ stack \in Seq(Frames(crate)) /\ Linked(crate, stack, 0)
              /\ m \in 1..Len(stack)
            BY <2>2, <2>6
        <3>2. IsCut(crate, stack, m, Ctx.target, stack')
            BY <2>7, <2>9, <2>10, <3>1, Cut
        <3> QED BY <3>2 DEF IsCut
    <2>12. \A i \in 1..m : InHandler(crate, stack', i) => InHandler(crate, stack, i)
        <3>1. InHandler(crate, stack, m) <=> Ctx.target \in Answering(crate)
            BY <2>6 DEF InHandler
        <3> QED BY <2>11, <3>1
    <2>13. SuspFits(crate, susp, stack')
        <3>1. /\ Len(stack) \in Nat /\ Len(stack') \in Nat /\ Len(stack') <= Len(stack)
              /\ \A i \in 1..Len(stack') : stack'[i].fun = stack[i].fun
              /\ \A i \in 1..Len(stack') : InHandler(crate, stack', i) => InHandler(crate, stack, i)
            <4>1. Len(stack) \in Nat /\ m \in Nat /\ m <= Len(stack) /\ Len(stack') = m
                BY <2>6, <2>11
            <4> QED BY <2>11, <2>12, <4>1
        <3> DEFINE st2 == stack'
        <3> HIDE DEF st2
        <3>2. /\ Len(stack) \in Nat /\ Len(st2) \in Nat /\ Len(st2) <= Len(stack)
              /\ \A i \in 1..Len(st2) : st2[i].fun = stack[i].fun
              /\ \A i \in 1..Len(st2) : InHandler(crate, st2, i) => InHandler(crate, stack, i)
            BY <3>1 DEF st2
        <3>3. SuspFits(crate, susp, st2)
            BY <2>2, <3>2, SuspCut
        <3> QED BY <3>3 DEF st2
    <2>14. QuietHandlers => QuietFits(crate, stack', susp)
        <3>1. \A i \in 1..m : i \in 1..Len(stack) /\ i # Len(stack)
            BY <2>6
        <3> QED BY <2>2, <2>11, <2>12, <3>1 DEF QuietFits
    <2>15. handlers' \in Seq(Handlers(crate)) /\ HandlersFit(crate, handlers', stack')
        <3>1. Live \in Seq(Handlers(crate)) /\ SomeOf(Live, handlers)
            BY <2>2, LiveFacts, LiveSomeOf
        <3>2. HandlersFit(crate, Live, stack)
            BY <2>2, <3>1, HandlersStay
        <3> DEFINE I == {i \in 1..Len(Live) : Live[i].ctx # Top}
        <3>3. handlers' = Picks(Live, I)
            BY <2>1 DEF NoneOf
        <3>4. \A k \in I : Live[k].ctx # Top
            OBVIOUS
        <3> HIDE DEF I
        <3>5. /\ handlers' \in Seq(Handlers(crate)) /\ SomeOf(handlers', Live)
              /\ Picked(handlers', Live, I)
            BY <3>1, <3>3, PicksProperties, PicksSomeOf
        <3>6. \A i \in 1..Len(handlers') : handlers'[i].ctx # Top
            BY <3>4, <3>5 DEF Picked
        <3>7. \A i \in 1..Len(handlers') : handlers'[i].ctx \in 1..Len(stack) =>
                 /\ handlers'[i].ctx \in 1..Len(stack')
                 /\ stack'[handlers'[i].ctx].fun = stack[handlers'[i].ctx].fun
            <4>1. \A x \in 1..Len(stack) : x # Top => x \in 1..m
                BY <2>6
            <4> QED BY <2>11, <3>6, <4>1
        <3> QED BY <3>2, <3>5, <3>7, HandlersStay
    <2>16. stack' # <<>>
        BY <2>6, <2>11
    <2> QED BY <2>1, <2>2, <2>5, <2>11, <2>13, <2>14, <2>15, <2>16, Reassembled
<1> QED BY <1>2, <1>3

\* What a raise suspends fits the context that handles it.
LEMMA CaptureFits ==
    ASSUME NEW c \in Crates, NEW st \in Seq(Frames(c)), NEW m \in 1..Len(st),
           Linked(c, st, 0), NEW b, NEW st2, IsCut(c, st, m, b, st2),
           NEW target \in BlocksOf(c, st[Len(st)].fun), NEW dest \in Nat, NEW k,
           k = [frames |-> Captured(st, m), target |-> target, dest |-> dest, ctx |-> m]
    PROVE  /\ k \in Continuations(c) /\ SuspFits(c, <<k>>, st2)
           /\ \A su : QuietFits(c, st, su) => QuietFits(c, st2, <<k>>)
<1> DEFINE F == Frames(c)
           fs == Captured(st, m)
           su2 == <<k>>
<1>0. k.frames = fs /\ k.target = target /\ k.dest = dest /\ k.ctx = m
    OBVIOUS
<1>1. st \in Seq(F) /\ m \in 0..Len(st) /\ m \in Nat /\ m >= 1 /\ Len(st) \in Nat
    OBVIOUS
<1>2. fs \in Seq(F) /\ Len(fs) = Len(st) - m /\ \A i \in 1..(Len(st) - m) : fs[i] = st[m + i]
    <2> HIDE DEF F
    <2> QED BY <1>1, Suffix DEF Captured
<1> HIDE DEF fs
<1>3. Len(fs) \in Nat /\ \A i \in 1..Len(fs) : fs[i] = st[m + i] /\ m + i \in 1..Len(st)
    BY <1>1, <1>2
<1>4. \A i \in 2..Len(fs) : i - 1 \in 1..Len(fs) /\ i \in 1..Len(fs) /\ m + i \in 2..Len(st)
                            /\ (m + i) - 1 = m + (i - 1)
    BY <1>1, <1>3
<1>5. k \in Continuations(c)
    <2>1. fs # <<>> => target \in BlocksOf(c, fs[Len(fs)].fun)
        <3> SUFFICES ASSUME fs # <<>> PROVE target \in BlocksOf(c, fs[Len(fs)].fun)
            OBVIOUS
        <3>1. Len(fs) \in 1..Len(fs)
            BY <1>2, <1>3
        <3>2. m + Len(fs) = Len(st)
            BY <1>1, <1>2
        <3> QED BY <1>3, <3>1, <3>2
    <2>2. target \in Nat
        <3>1. st[Len(st)] \in Frames(c)
            BY <1>1
        <3>2. target \in 1..Len(c.blocks) /\ Len(c.blocks) \in Nat
            BY <3>1, FrameTypes, CrateTypes
        <3> QED BY <3>2
    <2>3. k \in [frames : Seq(F), target : Nat, dest : Nat, ctx : Nat \ {0}]
        BY <1>1, <1>2, <2>2 DEF fs
    <2> HIDE DEF F
    <2> QED BY <1>0, <2>1, <2>3 DEF Continuations, F
<1>6. /\ \A i \in 1..Len(st) : st[i].caller >= 0 + i - 1
      /\ \A i \in 2..Len(st) : st[i].caller = 0 + i - 1 => st[i].target \in Returns(c, st[i - 1].fun)
    BY DEF Linked
<1>7. Linked(c, fs, m)
    <2>1. ASSUME NEW i \in 1..Len(fs)
          PROVE  fs[i].caller >= m + i - 1
        <3>1. st[m + i].caller >= 0 + (m + i) - 1
            BY <1>3, <1>6
        <3>2. 0 + (m + i) - 1 = m + i - 1
            BY <1>1
        <3> QED BY <1>3, <3>1, <3>2
    <2>2. ASSUME NEW i \in 2..Len(fs), fs[i].caller = m + i - 1
          PROVE  fs[i].target \in Returns(c, fs[i - 1].fun)
        <3>1. fs[i] = st[m + i] /\ fs[i - 1] = st[(m + i) - 1]
            BY <1>3, <1>4
        <3>2. m + i \in 2..Len(st) /\ 0 + (m + i) - 1 = m + i - 1
            BY <1>1, <1>4
        <3> QED BY <1>6, <2>2, <3>1, <3>2
    <2> QED BY <2>1, <2>2 DEF Linked
<1>8. fs # <<>> /\ fs[1].caller = m => fs[1].target \in Returns(c, st2[m].fun)
    <2> SUFFICES ASSUME fs # <<>>, fs[1].caller = m
                 PROVE  fs[1].target \in Returns(c, st2[m].fun)
        OBVIOUS
    <2>1. 1 \in 1..Len(fs)
        BY <1>2, <1>3
    <2>2. fs[1] = st[m + 1] /\ m + 1 \in 2..Len(st) /\ 0 + (m + 1) - 1 = m /\ (m + 1) - 1 = m
        BY <1>1, <1>3, <2>1
    <2>3. fs[1].target \in Returns(c, st[m].fun)
        BY <1>6, <2>2
    <2>4. st2[m].fun = st[m].fun
        BY <1>1 DEF IsCut
    <2> QED BY <2>3, <2>4
<1>9. Len(su2) = 1 /\ su2[1] = k /\ \A s \in 1..Len(su2) : s = 1
    OBVIOUS
<1> HIDE DEF su2
<1>10. Len(st2) = m
    BY DEF IsCut
<1>11. SuspFits(c, su2, st2)
    <2>1. \A i \in 1..Len(st2) : ~(i > m)
        BY <1>1, <1>10
    <2> QED BY <1>0, <1>7, <1>8, <1>9, <2>1 DEF SuspFits
<1>12. ASSUME NEW su, QuietFits(c, st, su)
       PROVE  QuietFits(c, st2, su2)
    <2>1. /\ \A i \in 1..Len(st) : st[i].caller = i - 1
          /\ \A i \in 1..Len(st) : InHandler(c, st, i) => i = Len(st)
        BY <1>12 DEF QuietFits
    <2>2. \A i \in 1..m : i \in 1..Len(st) /\ st2[i].caller = i - 1
        BY <1>1, <2>1 DEF IsCut
    <2>3. ASSUME NEW i \in 1..Len(fs)
          PROVE  fs[i].caller = m + i - 1
        BY <1>1, <1>3, <2>1
    <2>4. ASSUME NEW i \in 1..m, InHandler(c, st2, i)
          PROVE  i = m
        <3> SUFFICES ASSUME i # m PROVE FALSE
            OBVIOUS
        <3>1. InHandler(c, st, i)
            BY <2>4 DEF IsCut
        <3> QED BY <1>1, <2>1, <2>2, <3>1
    <2> QED BY <1>0, <1>9, <1>10, <2>2, <2>3, <2>4 DEF QuietFits
<1> QED BY <1>5, <1>11, <1>12 DEF su2

\* The context that handles a raise, with what it receives.
Handling(st, i, b, vals) == [st EXCEPT ![i].block = b, ![i].locals = Receive(b, vals, @)]

LEMMA HandlingMoves ==
    ASSUME NEW c \in Crates, NEW st \in Seq(Frames(c)), NEW i \in 1..Len(st), NEW b, NEW vals
    PROVE  Handling(st, i, b, vals) = Moved(st, i, b, Receive(b, vals, st[i].locals))
<1> DEFINE k == st[i]
<1>1. k = [fun |-> k.fun, block |-> k.block, locals |-> k.locals, caller |-> k.caller,
           dest |-> k.dest, target |-> k.target, callBlock |-> k.callBlock]
    <2>1. k \in Frames(c)
        OBVIOUS
    <2> HIDE DEF k
    <2> QED BY <2>1, FrameTypes
<1> DEFINE k2 == [k EXCEPT !.block = b]
<1>2. k2.locals = k.locals
    <2> HIDE DEF k
    <2> QED BY <1>1
<1>3. Handling(st, i, b, vals) = [st EXCEPT ![i] = [k2 EXCEPT !.locals = Receive(b, vals, k2.locals)]]
    BY DEF Handling
<1>4. Moved(st, i, b, Receive(b, vals, k.locals))
         = [st EXCEPT ![i] = [k2 EXCEPT !.locals = Receive(b, vals, k.locals)]]
    BY DEF Moved
<1> HIDE DEF k, k2
<1> QED BY <1>2, <1>3, <1>4 DEF k

LEMMA ReceiveType ==
    ASSUME NEW b, NEW P, blocks[b].params \in Seq(P), NEW vals \in Seq(Value), NEW n \in Nat,
           NEW locals \in [1..n -> Value]
    PROVE  Receive(b, vals, locals) \in [1..n -> Value]
<1> DEFINE prm == blocks[b].params
           mine(l) == {i \in 1..Len(prm) : prm[i] = l}
           last(l) == CHOOSE i \in mine(l) : \A j \in mine(l) : j <= i
<1>1. Len(locals) = n /\ Len(prm) \in Nat /\ UnitValue \in Value
    BY ValueTypes
<1>2. Receive(b, vals, locals)
        = [l \in 1..n |-> IF mine(l) = {} THEN locals[l]
                          ELSE IF last(l) <= Len(vals) THEN vals[last(l)] ELSE UnitValue]
    BY <1>1 DEF Receive
<1>3. ASSUME NEW l \in 1..n, mine(l) # {}
      PROVE  last(l) \in Nat /\ last(l) >= 1
    <2>1. mine(l) \in SUBSET (1..Len(prm))
        OBVIOUS
    <2> DEFINE I == mine(l)
    <2>2. \E i \in I : \A j \in I : j <= i
        <3> HIDE DEF I
        <3>1. I \in SUBSET (1..Len(prm)) /\ I # {}
            BY <1>3, <2>1 DEF I
        <3> HIDE DEF prm
        <3> QED BY <1>1, <3>1, MaxExists
    <2>3. last(l) \in mine(l)
        BY <2>2
    <2> HIDE DEF last
    <2> QED BY <1>1, <2>3
<1>4. ASSUME NEW l \in 1..n, mine(l) # {}, last(l) <= Len(vals)
      PROVE  vals[last(l)] \in Value
    <2>1. last(l) \in Nat /\ last(l) >= 1
        BY <1>3, <1>4
    <2>2. last(l) <= Len(vals)
        BY <1>4
    <2> HIDE DEF last
    <2> QED BY <2>1, <2>2
<1>5. \A l \in 1..n : locals[l] \in Value
    OBVIOUS
<1> HIDE DEF mine, last, prm
<1> QED BY <1>1, <1>2, <1>4, <1>5

LEMMA RaiseKeeps == ASSUME IInv, Raise PROVE IInv'
<1> DEFINE t == Code.term
           n == Funs[Ctx.fun].size
           vals == EvalAll(t.args, Locals, Code.params)
           order == Funs[Ctx.fun].blocks
           pos == IndexOf(order, Ctx.block)
           now == Continue(Ctx.block, Locals)
           x == Innermost(t.control)
           h == Live[x]
           m == h.ctx
           captured == Captured(now, m)
           dropped == {captured[i].fun : i \in 1..Len(captured)}
           kept == {i \in 1..Len(Live) : /\ i # Innermost(t.control)
                                         /\ Live[i].ctx \notin dropped
                                         /\ Live[i].ctx <= h.ctx}
           k == [frames |-> captured, target |-> order[pos + 1], dest |-> t.dest, ctx |-> m]
<1>1. Ends("raise")
    BY DEF Raise
<1>2. CASE Installed(t.control) = {} \/ ~AllGood(vals) \/ pos = Len(order)
    BY <1>2, PanicKeeps DEF Raise
<1>3. CASE ~(Installed(t.control) = {} \/ ~AllGood(vals) \/ pos = Len(order))
    <2>1. /\ stack' = Handling(SubSeq(now, 1, m), m, h.block, vals)
          /\ handlers' = Picks(Live, kept) /\ susp' = <<k>> /\ Unchanged
        BY <1>3 DEF Raise, Handling
    <2>2. /\ crate \in Crates /\ Typed /\ phase = "run" /\ n \in Nat
          /\ Ctx.fun \in 1..Len(crate.funs) /\ Ctx.block \in BlocksOf(crate, Ctx.fun)
          /\ Code.params \in Seq(1..n) /\ Locals \in [1..n -> Value]
          /\ t.args \in Seq(Rvalues(n)) /\ t.dest \in Nat /\ Funs = crate.funs
          /\ Top \in Nat /\ Top >= 1 /\ Top \in 1..Top
        <3>1. /\ crate \in Crates /\ Typed /\ phase = "run" /\ n \in Nat
              /\ Ctx.fun \in 1..Len(crate.funs) /\ Ctx.block \in BlocksOf(crate, Ctx.fun)
              /\ Code.params \in Seq(1..n) /\ Locals \in [1..n -> Value]
              /\ Code \in BlockOf(crate, Ctx.fun) /\ t.kind = "raise"
              /\ Top \in Nat /\ Top >= 1
            BY <1>1, EndsFacts
        <3>2. t.args \in Seq(Rvalues(n)) /\ t.dest \in 1..n
            BY <3>1, BlockTypes DEF Funs
        <3> QED BY <3>1, <3>2 DEF Funs
    <2>3. vals \in Seq(Value)
        <3>1. AllGood(vals)
            BY <1>3
        <3> HIDE DEF n
        <3> QED BY <2>2, <3>1, EvalAllType
    <2>4. order[pos + 1] \in BlocksOf(crate, Ctx.fun)
        <3>1. order \in Seq(1..Len(crate.blocks)) /\ Len(order) \in Nat
            BY <2>2, CrateTypes
        <3>2. \E i \in 1..Len(order) : order[i] = Ctx.block
            BY <2>2 DEF BlocksOf
        <3>3. pos \in 1..Len(order)
            <4> HIDE DEF order
            <4> QED BY <3>2 DEF IndexOf
        <3>4. pos + 1 \in 1..Len(order)
            <4> HIDE DEF order, pos
            <4> QED BY <1>3, <3>1, <3>3 DEF order, pos
        <3> HIDE DEF pos
        <3> QED BY <2>2, <3>4 DEF BlocksOf
    <2>5. /\ now \in Seq(Frames(crate)) /\ Len(now) = Top /\ now[Top].fun = Ctx.fun
          /\ Linked(crate, now, 0) /\ HandlersFit(crate, Live, now)
          /\ QuietHandlers => QuietFits(crate, now, susp)
        BY <2>2, GoesOn
    <2>6. Live \in Seq(Handlers(crate)) /\ Len(Live) \in Nat
        BY <2>2, LiveFacts DEF Typed
    <2>7. x \in 1..Len(Live)
        <3> DEFINE I == Installed(t.control)
        <3>1. I \in SUBSET (1..Len(Live)) /\ I # {}
            BY <1>3 DEF Installed
        <3>2. x = CHOOSE i \in I : \A j \in I : j <= i
            BY DEF Innermost
        <3> HIDE DEF I, x
        <3>3. \E i \in I : \A j \in I : j <= i
            BY <2>6, <3>1, MaxExists
        <3> QED BY <3>1, <3>2, <3>3
    <2> HIDE DEF x
    <2>8. m \in 1..Len(now) /\ h.block \in BlocksOf(crate, now[m].fun) /\ h.block \in 1..Len(crate.blocks)
        <3>1. h \in Handlers(crate)
            BY <2>6, <2>7
        <3>2. h.ctx \in 1..Len(now) /\ h.block \in BlocksOf(crate, now[h.ctx].fun)
            BY <2>5, <2>7 DEF HandlersFit
        <3> HIDE DEF h
        <3> QED BY <3>1, <3>2 DEF Handlers
    <2> DEFINE l == Receive(h.block, vals, now[m].locals)
    <2>9. l \in [1..crate.funs[now[m].fun].size -> Value]
        <3>1. now[m] \in Frames(crate)
            BY <2>5, <2>8
        <3>2. /\ now[m].locals \in [1..crate.funs[now[m].fun].size -> Value]
              /\ now[m].fun \in 1..Len(crate.funs) /\ crate.funs[now[m].fun].size \in Nat
            BY <2>2, <3>1, FrameTypes, CrateTypes
        <3>3. blocks[h.block].params \in Seq(1..crate.funs[now[m].fun].size)
            <4>1. blocks[h.block] \in BlockOf(crate, now[m].fun)
                BY <2>2, <2>8, <3>2 DEF Typed, BlocksInv
            <4> QED BY <4>1, BlockTypes
        <3> HIDE DEF h, m, vals, now
        <3> QED BY <2>3, <3>2, <3>3, ReceiveType
    <2>10. stack' = Moved(SubSeq(now, 1, m), m, h.block, l)
        <3> DEFINE sub == SubSeq(now, 1, m)
                   F == Frames(crate)
        <3>1. now \in Seq(F) /\ m \in 0..Len(now) /\ m \in 1..m
            BY <2>5, <2>8
        <3> HIDE DEF F, now, m
        <3>2. sub \in Seq(F) /\ Len(sub) = m /\ sub[m] = now[m]
            BY <3>1, Prefix
        <3> HIDE DEF sub, vals, h
        <3>3. Handling(sub, m, h.block, vals) = Moved(sub, m, h.block, Receive(h.block, vals, sub[m].locals))
            <4>1. m \in 1..Len(sub) /\ sub \in Seq(Frames(crate)) /\ crate \in Crates
                BY <2>2, <3>1, <3>2 DEF F
            <4> QED BY <4>1, HandlingMoves
        <3> QED BY <2>1, <3>2, <3>3 DEF sub
    <2> HIDE DEF l
    <2>11. IsCut(crate, now, m, h.block, stack')
        <3> HIDE DEF now, h, m
        <3> QED BY <2>2, <2>5, <2>8, <2>9, <2>10, Cut
    <2>12. /\ k \in Continuations(crate) /\ SuspFits(crate, <<k>>, stack')
           /\ \A su : QuietFits(crate, now, su) => QuietFits(crate, stack', <<k>>)
        <3> DEFINE st2 == stack'
                   target == order[pos + 1]
                   dest == t.dest
        <3>1. /\ k = [frames |-> Captured(now, m), target |-> target, dest |-> dest, ctx |-> m]
              /\ dest \in Nat /\ crate \in Crates /\ now \in Seq(Frames(crate))
              /\ m \in 1..Len(now) /\ Linked(crate, now, 0) /\ IsCut(crate, now, m, h.block, st2)
            BY <2>2, <2>5, <2>8, <2>11
        <3>2. target \in BlocksOf(crate, now[Len(now)].fun)
            BY <2>4, <2>5
        <3> HIDE DEF now, h, m, k, target, dest, st2
        <3>3. /\ k \in Continuations(crate) /\ SuspFits(crate, <<k>>, st2)
              /\ \A su : QuietFits(crate, now, su) => QuietFits(crate, st2, <<k>>)
            BY <3>1, <3>2, CaptureFits
        <3> QED BY <3>3 DEF st2
    <2> HIDE DEF k, now
    <2>13. susp' \in Seq(Continuations(crate)) /\ Len(susp') <= 1
        BY <2>1, <2>12
    <2>14. handlers' \in Seq(Handlers(crate)) /\ HandlersFit(crate, handlers', stack')
        <3>1. \A i \in kept : Live[i].ctx <= m
            OBVIOUS
        <3> HIDE DEF kept, m
        <3>2. /\ handlers' \in Seq(Handlers(crate)) /\ SomeOf(handlers', Live)
              /\ Picked(handlers', Live, kept)
            BY <2>1, <2>6, PicksProperties, PicksSomeOf
        <3>3. \A i \in 1..Len(handlers') : handlers'[i].ctx <= m
            BY <3>1, <3>2 DEF Picked
        <3>4. \A i \in 1..Len(handlers') : handlers'[i].ctx \in 1..Len(now) =>
                 /\ handlers'[i].ctx \in 1..Len(stack')
                 /\ stack'[handlers'[i].ctx].fun = now[handlers'[i].ctx].fun
            <4>1. \A y \in 1..Len(now) : y <= m => y \in 1..m
                BY <2>2, <2>5, <2>8
            <4> QED BY <2>11, <3>3, <4>1 DEF IsCut
        <3> QED BY <2>5, <3>2, <3>4, HandlersStay
    <2>15. stack' \in Seq(Frames(crate)) /\ stack' # <<>> /\ Linked(crate, stack', 0)
        BY <2>2, <2>5, <2>8, <2>11 DEF IsCut
    <2>16. SuspFits(crate, susp', stack') /\ (QuietHandlers => QuietFits(crate, stack', susp'))
        BY <2>1, <2>5, <2>12
    <2> QED BY <2>1, <2>2, <2>13, <2>14, <2>15, <2>16, Assembled
<1> QED BY <1>2, <1>3

-----------------------------------------------------------------------------
(* Resume. *)

\* With quiet handlers no call returns to a handler.
LEMMA QuietTarget ==
    ASSUME crate \in Crates, QuietHandlers, NEW k \in Frames(crate)
    PROVE  k.target \notin Answering(crate)
<1> SUFFICES ASSUME k.target \in Answering(crate) PROVE FALSE
    OBVIOUS
<1> DEFINE b == k.callBlock
<1>1. IsCall(crate, b, k.dest, k.target)
    BY FrameTypes
<1>2. /\ b \in 1..Len(crate.blocks) /\ crate.blocks[b].term.kind = "call"
      /\ crate.blocks[b].term.target = k.target
    BY <1>1 DEF IsCall
<1>3. Succs(crate.blocks[b].term) = {k.target}
    BY <1>2 DEF Succs
<1> HIDE DEF b
<1>4. b \in Answering(crate)
    BY <1>2, <1>3, AnsweringClosed
<1> QED BY <1>2, <1>4 DEF QuietHandlers

\* A stack on which contexts are put back.
LEMMA GrownFits ==
    ASSUME NEW c, NEW F, NEW st \in Seq(F), NEW fs \in Seq(F), NEW m \in Nat, NEW hs,
           Len(st) <= m, Len(st) >= 1, Linked(c, st, 0), Linked(c, fs, m),
           \A i \in 1..Len(fs) : fs[i].caller \in Nat,
           m = Len(st) /\ fs # <<>> /\ fs[1].caller = m => fs[1].target \in Returns(c, st[m].fun),
           HandlersFit(c, hs, st)
    PROVE  LET g == st \o fs IN
           /\ g \in Seq(F) /\ Len(g) = Len(st) + Len(fs)
           /\ \A i \in 1..Len(st) : g[i] = st[i]
           /\ \A i \in 1..Len(fs) : g[Len(st) + i] = fs[i]
           /\ Linked(c, g, 0) /\ HandlersFit(c, hs, g)
<1> DEFINE g == st \o fs
           n == Len(st)
<1>1. /\ g \in Seq(F) /\ Len(g) = n + Len(fs) /\ n \in Nat /\ Len(fs) \in Nat
      /\ \A i \in 1..Len(g) : g[i] = IF i <= n THEN st[i] ELSE fs[i - n]
    BY ConcatProperties
<1> HIDE DEF g
<1>2. /\ \A i \in 1..n : g[i] = st[i] /\ i \in 1..Len(g)
      /\ \A i \in 1..Len(fs) : g[n + i] = fs[i]
    <2>1. ASSUME NEW i \in 1..n
          PROVE  g[i] = st[i] /\ i \in 1..Len(g)
        BY <1>1
    <2>2. ASSUME NEW i \in 1..Len(fs)
          PROVE  g[n + i] = fs[i]
        <3>1. n + i \in 1..Len(g) /\ ~(n + i <= n) /\ (n + i) - n = i
            BY <1>1
        <3> QED BY <1>1, <3>1
    <2> QED BY <2>1, <2>2
<1>3. /\ \A i \in 1..n : st[i].caller >= 0 + i - 1
      /\ \A i \in 2..n : st[i].caller = 0 + i - 1 => st[i].target \in Returns(c, st[i - 1].fun)
      /\ \A i \in 1..Len(fs) : fs[i].caller >= m + i - 1
      /\ \A i \in 2..Len(fs) : fs[i].caller = m + i - 1 =>
            fs[i].target \in Returns(c, fs[i - 1].fun)
    BY DEF Linked
<1>4. Linked(c, g, 0)
    <2>1. \A i \in 1..Len(g) : i \in 1..n \/ (i - n \in 1..Len(fs) /\ i = n + (i - n))
        BY <1>1
    <2>2. ASSUME NEW i \in 1..Len(g)
          PROVE  g[i].caller >= 0 + i - 1
        <3>1. CASE i \in 1..n
            BY <1>2, <1>3, <3>1
        <3>2. CASE i - n \in 1..Len(fs) /\ i = n + (i - n)
            <4> DEFINE j == i - n
            <4>1. j \in 1..Len(fs) /\ i = n + j /\ m + j - 1 >= 0 + i - 1
                BY <1>1, <3>2
            <4> HIDE DEF j
            <4>2. g[i] = fs[j] /\ fs[j].caller >= m + j - 1 /\ fs[j].caller \in Nat
                BY <1>2, <1>3, <4>1
            <4> QED BY <1>1, <4>1, <4>2
        <3> QED BY <2>1, <3>1, <3>2
    <2>3. ASSUME NEW i \in 2..Len(g), g[i].caller = 0 + i - 1
          PROVE  g[i].target \in Returns(c, g[i - 1].fun)
        <3>0. i \in 1..Len(g)
            BY <1>1
        <3>1. CASE i \in 1..n
            <4>1. i \in 2..n /\ i - 1 \in 1..n
                BY <1>1, <3>1
            <4>2. g[i] = st[i] /\ g[i - 1] = st[i - 1]
                BY <1>2, <3>1, <4>1
            <4> QED BY <1>3, <2>3, <4>1, <4>2
        <3>2. CASE i - n \in 1..Len(fs) /\ i = n + (i - n)
            <4> DEFINE j == i - n
            <4>1. j \in 1..Len(fs) /\ i = n + j /\ 0 + i - 1 = n + j - 1
                BY <1>1, <3>2
            <4> HIDE DEF j
            <4>2. g[i] = fs[j] /\ fs[j].caller >= m + j - 1 /\ fs[j].caller = n + j - 1
                BY <1>2, <1>3, <2>3, <4>1
            <4>3. m = n
                BY <1>1, <4>1, <4>2
            <4>4. CASE j = 1
                <5>1. g[i - 1] = st[m] /\ fs # <<>> /\ fs[1].caller = m
                    <6>1. i - 1 = n /\ n \in 1..n
                        <7>1. n \in Nat /\ n >= 1 /\ i = n + 1
                            BY <1>1, <4>1, <4>4
                        <7> HIDE DEF n
                        <7> QED BY <7>1
                    <6>2. Len(fs) >= 1
                        BY <1>1, <4>1
                    <6>3. fs # <<>>
                        BY <6>2
                    <6> QED BY <1>1, <1>2, <4>2, <4>3, <4>4, <6>1, <6>3
                <5> QED BY <4>2, <4>3, <4>4, <5>1
            <4>5. CASE j # 1
                <5>1. j \in 2..Len(fs) /\ j - 1 \in 1..Len(fs) /\ i - 1 = n + (j - 1)
                    BY <1>1, <4>1, <4>5
                <5>2. g[i - 1] = fs[j - 1] /\ fs[j].caller = m + j - 1
                    BY <1>2, <4>2, <4>3, <5>1
                <5> QED BY <1>3, <4>2, <5>1, <5>2
            <4> QED BY <4>4, <4>5
        <3> QED BY <2>1, <3>0, <3>1, <3>2
    <2> QED BY <2>2, <2>3 DEF Linked
<1>5. HandlersFit(c, hs, g)
    BY <1>2 DEF HandlersFit
<1> QED BY <1>1, <1>2, <1>4, <1>5 DEF g

\* The top of the stack that grew receives the answer, and the context that
\* resumes goes on at the merge block.
Answered(g, T, d, v, b, b2) ==
    [g EXCEPT ![Len(g)].locals[d] = v, ![Len(g)].block = b, ![T].block = b2]

LEMMA AnsweredBelow ==
    ASSUME NEW c \in Crates, NEW g \in Seq(Frames(c)), NEW T \in 1..Len(g), T # Len(g),
           NEW d, NEW v \in Value, NEW b \in BlocksOf(c, g[Len(g)].fun),
           NEW b2 \in BlocksOf(c, g[T].fun)
    PROVE  LET st2 == Answered(g, T, d, v, b, b2) IN
           st2 \in Seq(Frames(c)) /\ SameCalls(g, st2)
<1> DEFINE n == Len(g)
           g1 == Given(g, n, d, v, b)
           st2 == Answered(g, T, d, v, b, b2)
           l == WithLocal(g[n].locals, d, v)
<1>0. n \in Nat /\ n \in 1..Len(g) /\ g[n] \in Frames(c) /\ g[T] \in Frames(c)
    OBVIOUS
<1>1. l \in [1..c.funs[g[n].fun].size -> Value]
    <2>1. g[n].locals \in [1..c.funs[g[n].fun].size -> Value]
        BY <1>0, FrameTypes
    <2> QED BY <2>1 DEF WithLocal
<1>2. g1 = Moved(g, n, b, l)
    BY <1>0, Received
<1> HIDE DEF l, g1
<1>3. g1 \in Seq(Frames(c)) /\ SameCalls(g, g1) /\ g1[T] = g[T] /\ Len(g1) = Len(g)
    BY <1>0, <1>1, <1>2, MovedContext DEF SameCalls
<1> DEFINE k == g1[T]
<1>4. k \in Frames(c)
    BY <1>0, <1>3
<1>5. st2 = [g1 EXCEPT ![T].block = b2]
    BY DEF Answered, g1, Given
<1>6. [g1 EXCEPT ![T].block = b2] = Moved(g1, T, b2, k.locals)
    <2>1. k = [fun |-> k.fun, block |-> k.block, locals |-> k.locals, caller |-> k.caller,
               dest |-> k.dest, target |-> k.target, callBlock |-> k.callBlock]
        BY <1>4, FrameTypes
    <2>2. [g1 EXCEPT ![T].block = b2] = [g1 EXCEPT ![T] = [k EXCEPT !.block = b2]]
        OBVIOUS
    <2>3. Moved(g1, T, b2, k.locals)
             = [g1 EXCEPT ![T] = [[k EXCEPT !.block = b2] EXCEPT !.locals = k.locals]]
        BY DEF Moved
    <2>4. [[k EXCEPT !.block = b2] EXCEPT !.locals = k.locals] = [k EXCEPT !.block = b2]
        <3> HIDE DEF k
        <3> DEFINE R == [fun |-> k.fun, block |-> k.block, locals |-> k.locals,
                         caller |-> k.caller, dest |-> k.dest, target |-> k.target,
                         callBlock |-> k.callBlock]
                   R1 == [fun |-> k.fun, block |-> b2, locals |-> k.locals,
                          caller |-> k.caller, dest |-> k.dest, target |-> k.target,
                          callBlock |-> k.callBlock]
        <3>1. [R EXCEPT !.block = b2] = R1
            OBVIOUS
        <3>2. [R1 EXCEPT !.locals = k.locals] = R1
            OBVIOUS
        <3>3. k = R
            BY <2>1
        <3> HIDE DEF R, R1
        <3> QED BY <3>1, <3>2, <3>3
    <2> HIDE DEF k
    <2> QED BY <2>2, <2>3, <2>4
<1>7. /\ T \in 1..Len(g1) /\ b2 \in BlocksOf(c, g1[T].fun)
      /\ k.locals \in [1..c.funs[g1[T].fun].size -> Value]
    BY <1>3, <1>4, FrameTypes
<1> HIDE DEF k, st2
<1>8. st2 \in Seq(Frames(c)) /\ SameCalls(g1, st2)
    <2>1. st2 = Moved(g1, T, b2, k.locals)
        BY <1>5, <1>6
    <2> QED BY <1>3, <1>7, <2>1, MovedContext
<1>9. SameCalls(g, st2)
    BY <1>3, <1>8 DEF SameCalls
<1> QED BY <1>8, <1>9 DEF st2

\* A context at block b with the locals l.
Placed(k, b, l) == [fun |-> k.fun, block |-> b, locals |-> l, caller |-> k.caller,
                    dest |-> k.dest, target |-> k.target, callBlock |-> k.callBlock]

LEMMA MovedPlaced ==
    ASSUME NEW c \in Crates, NEW st \in Seq(Frames(c)), NEW i \in 1..Len(st), NEW b, NEW l
    PROVE  Moved(st, i, b, l) = [st EXCEPT ![i] = Placed(st[i], b, l)]
<1> DEFINE k == st[i]
<1>1. k = Placed(k, k.block, k.locals)
    <2>1. k \in Frames(c)
        OBVIOUS
    <2> HIDE DEF k
    <2> QED BY <2>1, FrameTypes DEF Placed
<1>2. Moved(st, i, b, l) = [st EXCEPT ![i] = [[k EXCEPT !.block = b] EXCEPT !.locals = l]]
    BY DEF Moved
<1>3. [[k EXCEPT !.block = b] EXCEPT !.locals = l] = Placed(k, b, l)
    <2> HIDE DEF k
    <2> DEFINE R == Placed(k, k.block, k.locals)
               R1 == Placed(k, b, k.locals)
    <2>1. [R EXCEPT !.block = b] = R1
        BY DEF Placed
    <2>2. [R1 EXCEPT !.locals = l] = Placed(k, b, l)
        BY DEF Placed
    <2>3. k = R
        BY <1>1
    <2> HIDE DEF R, R1
    <2> QED BY <2>1, <2>2, <2>3
<1> HIDE DEF k
<1> QED BY <1>2, <1>3 DEF k

LEMMA AnsweredHere ==
    ASSUME NEW c \in Crates, NEW st \in Seq(Frames(c)), NEW i \in 1..Len(st),
           NEW b0, NEW l, NEW d, NEW v, NEW b, NEW b2, Len(Moved(st, i, b0, l)) = i
    PROVE  Answered(Moved(st, i, b0, l), i, d, v, b, b2) = Moved(st, i, b2, WithLocal(l, d, v))
<1> DEFINE k == st[i]
           l2 == WithLocal(l, d, v)
           g == Moved(st, i, b0, l)
           k0 == Placed(k, b0, l)
           k2 == Placed(k, b2, l2)
<1>1. /\ g = [st EXCEPT ![i] = k0]
      /\ Moved(st, i, b2, l2) = [st EXCEPT ![i] = k2]
    <2> HIDE DEF l2
    <2> QED BY MovedPlaced
<1>2. Answered(g, i, d, v, b, b2) = [g EXCEPT ![i].locals[d] = v, ![i].block = b, ![i].block = b2]
    BY DEF Answered
<1> HIDE DEF g, k0
<1>3. g[i] = k0 /\ i \in DOMAIN g
    BY <1>1
<1>4. [g EXCEPT ![i].locals[d] = v, ![i].block = b, ![i].block = b2]
         = [g EXCEPT ![i] = [[[g[i] EXCEPT !.locals[d] = v] EXCEPT !.block = b] EXCEPT !.block = b2]]
    BY <1>3
<1>5. [[[k0 EXCEPT !.locals[d] = v] EXCEPT !.block = b] EXCEPT !.block = b2] = k2
    <2> HIDE DEF k
    <2> DEFINE R == Placed(k, b0, l2)
               R1 == Placed(k, b, l2)
    <2>1. [k0 EXCEPT !.locals[d] = v] = R
        <3>1. [k0 EXCEPT !.locals[d] = v] = [k0 EXCEPT !.locals = [k0.locals EXCEPT ![d] = v]]
            OBVIOUS
        <3>2. k0.locals = l
            BY DEF k0, Placed
        <3>3. [k0 EXCEPT !.locals = l2] = R
            <4> HIDE DEF l2
            <4> QED BY DEF k0, Placed
        <3> HIDE DEF R
        <3> QED BY <3>1, <3>2, <3>3 DEF WithLocal
    <2> HIDE DEF l2
    <2>2. [R EXCEPT !.block = b] = R1
        BY DEF Placed
    <2>3. [R1 EXCEPT !.block = b2] = k2
        BY DEF Placed
    <2> HIDE DEF R, R1, k2
    <2> QED BY <2>1, <2>2, <2>3
<1> HIDE DEF k2
<1>6. [g EXCEPT ![i] = k2] = [st EXCEPT ![i] = k2]
    BY <1>1
<1>7. Answered(g, i, d, v, b, b2) = Moved(st, i, b2, l2)
    <2> HIDE DEF l2
    <2> QED BY <1>1, <1>2, <1>3, <1>4, <1>5, <1>6
<1> QED BY <1>7 DEF g

LEMMA ResumeKeeps == ASSUME IInv, Resume PROVE IInv'
<1> DEFINE t == Code.term
           n == Funs[Ctx.fun].size
           B == BlocksOf(crate, Ctx.fun)
           k == susp[1]
           fs == k.frames
           now == Continue(Ctx.block, Locals)
           grown == now \o fs
           v == Locals[t.place]
<1>1. Ends("resume")
    BY DEF Resume
<1>2. CASE susp = <<>>
    BY <1>2, PanicKeeps DEF Resume
<1>3. CASE susp # <<>>
    <2>1. /\ stack' = Answered(grown, Top, k.dest, v, k.target, t.target)
          /\ susp' = <<>> /\ handlers' = Live /\ Unchanged
        BY <1>3 DEF Resume, Answered
    <2>2. /\ crate \in Crates /\ Typed /\ StackInv /\ phase = "run" /\ n \in Nat
          /\ stack # <<>> /\ stack \in Seq(Frames(crate)) /\ SuspFits(crate, susp, stack)
          /\ Ctx.fun \in 1..Len(crate.funs) /\ Ctx.block \in B
          /\ Ctx.block \in 1..Len(crate.blocks)
          /\ Locals \in [1..n -> Value] /\ Top \in Nat /\ Top >= 1 /\ Top = Len(stack)
          /\ Code \in BlockOf(crate, Ctx.fun) /\ t.kind = "resume" /\ Ctx = stack[Top]
          /\ QuietHandlers => QuietFits(crate, stack, susp)
        BY <1>1, EndsFacts DEF Typed, StackInv, Top, Ctx, IInv
    <2>3. t.place \in 1..n /\ t.target \in B /\ v \in Value
        BY <2>2, BlockTypes DEF Funs
    <2>4. k \in Continuations(crate) /\ 1 \in 1..Len(susp)
        BY <1>3, <2>2, FirstElement DEF Typed
    <2>5. /\ fs \in Seq(Frames(crate)) /\ k.ctx \in Nat
          /\ fs # <<>> => k.target \in BlocksOf(crate, fs[Len(fs)].fun)
        <3> HIDE DEF k
        <3> QED BY <2>4 DEF Continuations
    <2>6. InHandler(crate, stack, Top) /\ Ctx.block \in Answering(crate)
        <3>1. Ctx.block \in Answering(crate)
            BY <2>2, FlowKept DEF Code
        <3> QED BY <2>2, <3>1, TopInHandler
    <2>7. /\ Linked(crate, fs, k.ctx) /\ Top <= k.ctx
          /\ k.ctx = Top /\ fs # <<>> /\ fs[1].caller = k.ctx =>
                fs[1].target \in Returns(crate, stack[Top].fun)
        <3>1. /\ Linked(crate, k.frames, k.ctx)
              /\ \A i \in 1..Len(stack) : i > k.ctx => ~InHandler(crate, stack, i)
              /\ k.ctx \in 1..Len(stack) /\ InHandler(crate, stack, k.ctx) /\ k.frames # <<>>
                    /\ k.frames[1].caller = k.ctx =>
                       k.frames[1].target \in Returns(crate, stack[k.ctx].fun)
            BY <2>2, <2>4 DEF SuspFits
        <3> HIDE DEF k
        <3>2. Top \in 1..Len(stack)
            BY <2>2
        <3>3. Top <= k.ctx
            BY <2>2, <2>5, <2>6, <3>1, <3>2
        <3> QED BY <2>6, <3>1, <3>2, <3>3
    <2>8. /\ now \in Seq(Frames(crate)) /\ Len(now) = Top /\ now[Top].fun = Ctx.fun
          /\ Linked(crate, now, 0) /\ HandlersFit(crate, Live, now)
          /\ QuietHandlers => QuietFits(crate, now, susp)
        BY <2>2, GoesOn
    <2>9. Live \in Seq(Handlers(crate)) /\ susp' \in Seq(Continuations(crate)) /\ Len(susp') = 0
        BY <2>1, <2>2, LiveFacts DEF Typed
    <2>10. \A st : SuspFits(crate, susp', st)
        BY <2>9 DEF SuspFits
    <2>11. CASE fs = <<>>
        <3> DEFINE l == WithLocal(Locals, k.dest, v)
        <3>1. l \in [1..n -> Value]
            <4> HIDE DEF k, v
            <4> QED BY <2>2, <2>3 DEF WithLocal
        <3>2. stack' = Continue(t.target, l)
            <4>1. grown = now
                <5> HIDE DEF now
                <5> QED BY <2>8, <2>11
            <4>2. now = Moved(stack, Top, Ctx.block, Locals) /\ Top \in 1..Len(stack)
                BY <2>2 DEF Continue, Moved
            <4>3. stack' = Answered(Moved(stack, Top, Ctx.block, Locals), Top, k.dest, v,
                                    k.target, t.target)
                BY <2>1, <4>1, <4>2
            <4>4. Len(Moved(stack, Top, Ctx.block, Locals)) = Top
                BY <2>8, <4>2
            <4> HIDE DEF k, v, t, now, l
            <4>5. stack' = Moved(stack, Top, t.target, WithLocal(Locals, k.dest, v))
                BY <2>2, <4>2, <4>3, <4>4, AnsweredHere
            <4> QED BY <4>5 DEF Continue, Moved, l
        <3> HIDE DEF l
        <3>3. /\ stack' \in Seq(Frames(crate)) /\ Len(stack') = Top
              /\ Linked(crate, stack', 0) /\ HandlersFit(crate, Live, stack')
              /\ QuietHandlers => QuietFits(crate, stack', susp)
            BY <2>2, <2>3, <2>6, <3>1, <3>2, GoesOn
        <3>4. QuietHandlers => QuietFits(crate, stack', susp')
            BY <2>9, <3>3 DEF QuietFits
        <3>5. stack' # <<>>
            BY <2>2, <3>3
        <3> QED BY <2>1, <2>2, <2>9, <2>10, <3>3, <3>4, <3>5, Assembled
    <2>12. CASE fs # <<>>
        <3> DEFINE F == Frames(crate)
                   g == grown
        <3>1. \A i \in 1..Len(fs) : fs[i] \in Frames(crate) /\ fs[i].caller \in Nat
            <4> TAKE i \in 1..Len(fs)
            <4>1. fs[i] \in Frames(crate)
                BY <2>5
            <4> HIDE DEF fs
            <4> QED BY <2>2, <4>1, FrameTypes
        <3>2. /\ grown \in Seq(F) /\ Len(grown) = Top + Len(fs)
              /\ \A i \in 1..Top : grown[i] = now[i]
              /\ \A i \in 1..Len(fs) : grown[Top + i] = fs[i]
              /\ Linked(crate, grown, 0) /\ HandlersFit(crate, Live, grown)
            <4>1. now \in Seq(F) /\ fs \in Seq(F) /\ Len(now) >= 1 /\ Len(now) <= k.ctx
                BY <2>2, <2>5, <2>7, <2>8
            <4>2. \A i \in 1..Len(fs) : fs[i].caller \in Nat
                BY <3>1
            <4> DEFINE m == k.ctx
            <4>3. m = Len(now) /\ fs # <<>> /\ fs[1].caller = m =>
                     fs[1].target \in Returns(crate, now[m].fun)
                BY <2>2, <2>7, <2>8
            <4>4. m \in Nat /\ Linked(crate, fs, m) /\ Linked(crate, now, 0)
                  /\ HandlersFit(crate, Live, now) /\ Len(now) <= m
                BY <2>5, <2>7, <2>8, <4>1
            <4> HIDE DEF F, now, fs, m
            <4>5. LET gg == now \o fs IN
                  /\ gg \in Seq(F) /\ Len(gg) = Len(now) + Len(fs)
                  /\ \A i \in 1..Len(now) : gg[i] = now[i]
                  /\ \A i \in 1..Len(fs) : gg[Len(now) + i] = fs[i]
                  /\ Linked(crate, gg, 0) /\ HandlersFit(crate, Live, gg)
                BY <4>1, <4>2, <4>3, <4>4, GrownFits
            <4> QED BY <2>8, <4>5
        <3>3. Len(fs) \in Nat /\ Len(fs) >= 1 /\ Len(fs) \in 1..Len(fs)
            BY <2>5, <2>12
        <3> HIDE DEF now, fs, grown
        <3>4. /\ Top \in 1..Len(grown) /\ Top # Len(grown) /\ Len(grown) \in Nat
              /\ k.target \in BlocksOf(crate, grown[Len(grown)].fun)
              /\ t.target \in BlocksOf(crate, grown[Top].fun)
            <4>1. grown[Len(grown)] = fs[Len(fs)]
                BY <3>2, <3>3
            <4>2. grown[Top] = now[Top]
                BY <2>2, <3>2
            <4> QED BY <2>2, <2>3, <2>5, <2>8, <2>12, <3>2, <3>3, <4>1, <4>2
        <3>5. stack' \in Seq(Frames(crate)) /\ SameCalls(grown, stack')
            <4>1. grown \in Seq(Frames(crate))
                BY <3>2
            <4> HIDE DEF t, k, v, F
            <4> QED BY <2>1, <2>2, <2>3, <3>4, <4>1, AnsweredBelow
        <3>6. Len(stack') = Len(grown) /\ stack' # <<>>
            BY <3>4, <3>5 DEF SameCalls
        <3>7. Linked(crate, stack', 0)
            BY <3>2, <3>4, <3>5, LinkedSame
        <3>8. HandlersFit(crate, Live, stack')
            BY <3>2, <3>5 DEF HandlersFit, SameCalls
        <3>9. QuietHandlers => QuietFits(crate, stack', susp')
            <4> SUFFICES ASSUME QuietHandlers PROVE QuietFits(crate, stack', susp')
                OBVIOUS
            <4>1. /\ k.ctx = Top
                  /\ \A i \in 1..Len(fs) : fs[i].caller = k.ctx + i - 1
                <5>1. /\ \A s \in 1..Len(susp) : LET e == susp[s] IN
                            \A i \in 1..Len(e.frames) : e.frames[i].caller = e.ctx + i - 1
                      /\ \A i \in 1..Len(stack) : InHandler(crate, stack, i) =>
                            i = Len(stack) /\ \A s \in 1..Len(susp) : susp[s].ctx = i
                    BY <2>2 DEF QuietFits
                <5>2. Top \in 1..Len(stack)
                    BY <2>2
                <5> QED BY <2>4, <2>6, <5>1, <5>2 DEF fs
            <4>2. \A i \in 1..Top : now[i].caller = i - 1
                BY <2>8 DEF QuietFits
            <4>3. ASSUME NEW i \in 1..Len(stack')
                  PROVE  stack'[i].caller = i - 1
                <5>1. i \in 1..Len(grown) /\ stack'[i].caller = grown[i].caller
                    BY <3>5, <3>6 DEF SameCalls
                <5>2. CASE i \in 1..Top
                    BY <3>2, <4>2, <5>1, <5>2
                <5>3. CASE i \notin 1..Top
                    <6> DEFINE j == i - Top
                    <6>1. j \in 1..Len(fs) /\ i = Top + j /\ Top + j - 1 = i - 1
                        BY <2>2, <3>2, <3>3, <5>1, <5>3
                    <6> HIDE DEF j
                    <6>2. grown[i] = fs[j] /\ fs[j].caller = Top + j - 1
                        BY <3>2, <4>1, <6>1
                    <6> QED BY <5>1, <6>1, <6>2
                <5> QED BY <5>2, <5>3
            <4>4. ASSUME NEW i \in 1..Len(stack'), InHandler(crate, stack', i)
                  PROVE  i = Len(stack')
                <5> SUFFICES ASSUME i # Len(stack') PROVE FALSE
                    OBVIOUS
                <5>1. i < Len(stack') /\ i + 1 \in 1..Len(stack')
                    BY <3>4, <3>6
                <5>2. stack'[i + 1].target \in Answering(crate)
                    BY <4>4 DEF InHandler
                <5>3. stack'[i + 1] \in Frames(crate)
                    BY <3>5, <5>1
                <5> QED BY <2>2, <5>2, <5>3, QuietTarget
            <4> QED BY <2>9, <4>3, <4>4 DEF QuietFits
        <3>10. /\ phase = "run" /\ Unchanged /\ handlers' = Live
               /\ stack' \in Seq(Frames(crate)) /\ SuspFits(crate, susp', stack')
               /\ Live \in Seq(Handlers(crate)) /\ susp' \in Seq(Continuations(crate))
               /\ Len(susp') <= 1
            BY <2>1, <2>2, <2>9, <2>10, <3>5
        <3> QED BY <3>6, <3>7, <3>8, <3>9, <3>10, Assembled
    <2> QED BY <2>11, <2>12
<1> QED BY <1>2, <1>3

-----------------------------------------------------------------------------
(* The theorems. *)

LEMMA StepKeeps == IInv /\ [Next]_vars => IInv'
<1> SUFFICES ASSUME IInv, [Next]_vars PROVE IInv'
    OBVIOUS
<1>1. CASE Collect
    BY <1>1, CollectKeeps
<1>2. CASE StartJob
    BY <1>2, StartJobKeeps
<1>3. CASE AllDone
    BY <1>3, AllDoneKeeps
<1>4. CASE StatementFails
    BY <1>4, PanicKeeps DEF StatementFails
<1>5. CASE Goto
    BY <1>5, GotoKeeps
<1>6. CASE SwitchInt
    BY <1>6, SwitchIntKeeps
<1>7. CASE Call
    BY <1>7, CallKeeps
<1>8. CASE Return
    BY <1>8, ReturnKeeps
<1>9. CASE ReturnTop
    BY <1>9, ReturnTopKeeps
<1>10. CASE InstallHandler
    BY <1>10, InstallHandlerKeeps
<1>11. CASE Raise
    BY <1>11, RaiseKeeps
<1>12. CASE Resume
    BY <1>12, ResumeKeeps
<1>13. CASE Stuck
    BY <1>13, PanicKeeps DEF Stuck
<1>14. CASE UNCHANGED vars
    <2>1. /\ crate' = crate /\ blocks' = blocks /\ phase' = phase /\ todo' = todo
          /\ pending' = pending /\ stack' = stack /\ handlers' = handlers /\ susp' = susp
        BY <1>14 DEF vars
    <2>2. Typed' /\ StackInv' = StackInv /\ QuietHandlers' = QuietHandlers
        BY <2>1 DEF IInv, Typed, BlocksInv, StackInv, QuietHandlers
    <2> QED BY <2>1, <2>2 DEF IInv
<1> QED BY <1>1, <1>2, <1>3, <1>4, <1>5, <1>6, <1>7, <1>8, <1>9, <1>10, <1>11, <1>12, <1>13, <1>14
        DEF Next

\* The evaluator only reaches states of the inductive invariant.
THEOREM EvaluatorInvariance == Spec => []IInv
<1>1. Init => IInv
    BY InitKeeps
<1>2. IInv /\ [Next]_vars => IInv'
    BY StepKeeps
<1> QED BY <1>1, <1>2, PTL DEF Spec

\* Every context runs a function that may run at compile time, at a block
\* of it and with a value in each of its locals, whatever was called,
\* raised, captured and put back on the stack.
THEOREM EvaluatorTypes == Spec => []TypeOK
<1>1. IInv => TypeOK
    <2> SUFFICES ASSUME IInv PROVE TypeOK
        OBVIOUS
    <2>1. Typed /\ crate \in Crates /\ (phase = "run" => stack # <<>>)
        BY DEF IInv, Typed, StackInv
    <2>2. Len(blocks) = Len(crate.blocks)
        <3>1. Len(crate.blocks) \in Nat
            BY <2>1, CrateTypes
        <3>2. blocks = [b \in 1..Len(crate.blocks) |-> blocks[b]]
            BY <2>1 DEF Typed, BlocksInv
        <3> QED BY <3>1, <3>2
    <2>3. ASSUME NEW i \in 1..Len(stack)
          PROVE  LET c == stack[i] IN
                 /\ c.fun \in 1..Len(Funs) /\ Funs[c.fun].consteval
                 /\ c.block \in BlocksOf(crate, c.fun)
                 /\ c.locals \in [1..Funs[c.fun].size -> Value]
        <3>1. stack[i] \in Frames(crate)
            BY <2>1 DEF Typed
        <3> QED BY <2>1, <3>1, FrameTypes DEF Funs
    <2>4. ASSUME NEW i \in 1..Len(handlers)
          PROVE  handlers[i].block \in 1..Len(blocks)
        <3>1. handlers[i] \in Handlers(crate)
            BY <2>1 DEF Typed
        <3> QED BY <2>2, <3>1 DEF Handlers
    <2> QED BY <2>1, <2>2, <2>3, <2>4 DEF TypeOK, Typed, Funs
<1> QED BY <1>1, EvaluatorInvariance, PTL

\* The handlers of the contexts that are left on the stack, and only those,
\* are installed, from the outermost to the innermost.
THEOREM HandlersStayInOrder == Spec => []HandlersInOrder
<1>1. IInv => HandlersInOrder
    BY DEF IInv, StackInv, HandlersFit, HandlersInOrder
<1> QED BY <1>1, EvaluatorInvariance, PTL

\* Without calls, raises and installs in what leads to a resume, each
\* context was pushed by the one below it.
THEOREM ContextsAreChained == Spec => []Chained
<1>1. IInv => Chained
    BY DEF IInv, QuietFits, Chained
<1> QED BY <1>1, EvaluatorInvariance, PTL

\* Under the same condition the context that resumes is the one that
\* handled the suspended raise, and gets back what was right above it.
THEOREM ResumesAnswerTheirRaise == Spec => []ResumeAnswersItsRaise
<1>1. IInv => ResumeAnswersItsRaise
    <2> SUFFICES ASSUME IInv, QuietHandlers, phase = "run", Ends("resume"), susp # <<>>
                 PROVE  /\ susp[1].ctx = Top
                        /\ \A i \in 1..Len(susp[1].frames) : susp[1].frames[i].caller = Top + i - 1
        BY DEF ResumeAnswersItsRaise
    <2>1. /\ Typed /\ stack # <<>> /\ QuietFits(crate, stack, susp) /\ Top \in Nat /\ Top >= 1
          /\ Ctx.block \in 1..Len(crate.blocks) /\ Code.term.kind = "resume"
        BY EndsFacts DEF IInv
    <2>2. InHandler(crate, stack, Top)
        <3>1. Ctx.block \in Answering(crate)
            BY <2>1, FlowKept DEF Code
        <3> QED BY <2>1, <3>1, TopInHandler
    <2>3. 1 \in 1..Len(susp) /\ Top \in 1..Len(stack)
        <3>1. susp \in Seq(Continuations(crate)) /\ Top = Len(stack)
            BY <2>1 DEF Typed, Top
        <3>2. Len(susp) \in Nat /\ Len(susp) >= 1
            BY <3>1, FirstElement
        <3> QED BY <2>1, <3>1, <3>2
    <2>4. susp[1].ctx = Top
        BY <2>1, <2>2, <2>3 DEF QuietFits
    <2>5. \A i \in 1..Len(susp[1].frames) : susp[1].frames[i].caller = susp[1].ctx + i - 1
        BY <2>1, <2>3 DEF QuietFits
    <2> QED BY <2>4, <2>5
<1> QED BY <1>1, EvaluatorInvariance, PTL

\* In every crate, also where handlers call functions that raise: a context
\* that returns gives its result to the context right below it, or the
\* evaluation panics because its caller is not on the stack any more.
ResultsGoBelow ==
    phase = "run" /\ Ends("return") /\ Ctx.caller # 0 => Ctx.caller = Top - 1 \/ Ctx.caller >= Top

THEOREM ResultsGoToTheCaller == Spec => []ResultsGoBelow
<1>1. IInv => ResultsGoBelow
    <2> SUFFICES ASSUME IInv, Ends("return"), Ctx.caller # 0
                 PROVE  Ctx.caller = Top - 1 \/ Ctx.caller >= Top
        BY DEF ResultsGoBelow
    <2>1. /\ crate \in Crates /\ Ctx \in Frames(crate) /\ Top \in Nat /\ Top >= 1
          /\ Linked(crate, stack, 0)
        BY EndsFacts DEF StackInv
    <2>2. Ctx.caller \in Nat
        BY <2>1, FrameTypes
    <2>3. stack[Top].caller >= 0 + Top - 1
        BY <2>1 DEF Linked, Top
    <2> QED BY <2>1, <2>2, <2>3 DEF Ctx
<1> QED BY <1>1, EvaluatorInvariance, PTL

-----------------------------------------------------------------------------
(* The reference. *)

\* Blocks that keep to the types of the functions that have them.
GoodBlocks(c, bs) == \A f \in 1..Len(c.funs) : \A b \in BlocksOf(c, f) : bs[b] \in BlockOf(c, f)

LEMMA StateMade ==
    ASSUME NEW c \in Crates, NEW f \in 1..Len(c.funs), NEW b \in BlocksOf(c, f),
           NEW l \in [1..c.funs[f].size -> Value]
    PROVE  /\ State(f, b, l) \in States(c)
           /\ State(f, b, l).fun = f /\ State(f, b, l).block = b /\ State(f, b, l).locals = l
<1>1. b \in 1..Len(c.blocks) /\ c.funs[f].size \in Nat
    BY CrateTypes
<1>2. l \in Seq(Value) /\ Len(l) = c.funs[f].size
    BY <1>1
<1> QED BY <1>1, <1>2 DEF State, States

LEMMA StateTypes ==
    ASSUME NEW c \in Crates, NEW s \in States(c)
    PROVE  /\ s.fun \in 1..Len(c.funs) /\ s.block \in BlocksOf(c, s.fun)
           /\ s.block \in 1..Len(c.blocks)
           /\ s.locals \in [1..c.funs[s.fun].size -> Value]
           /\ c.funs[s.fun].size \in Nat /\ c.funs[s.fun].ret \in 1..c.funs[s.fun].size
           /\ s = State(s.fun, s.block, s.locals)
<1>1. s.fun \in 1..Len(c.funs) /\ s.block \in BlocksOf(c, s.fun) /\ s.block \in 1..Len(c.blocks)
      /\ s.locals \in Seq(Value) /\ Len(s.locals) = c.funs[s.fun].size
      /\ s = State(s.fun, s.block, s.locals)
    BY DEF States, State
<1>2. s.locals \in [1..c.funs[s.fun].size -> Value]
    BY <1>1
<1> QED BY <1>1, <1>2, CrateTypes

\* A function begins at a state.
LEMMA StartType ==
    ASSUME NEW c \in Crates, NEW f \in 1..Len(c.funs), NEW args \in Seq(Value)
    PROVE  /\ Start(c, f, args) \in States(c)
           /\ Start(c, f, args).fun = f /\ Start(c, f, args).block = c.funs[f].blocks[1]
<1> DEFINE l == FirstLocals(c.funs[f], args)
<1>1. l \in [1..c.funs[f].size -> Value]
    BY CrateTypes, FirstLocalsType
<1>2. c.funs[f].blocks[1] \in BlocksOf(c, f)
    BY CrateTypes
<1> HIDE DEF l
<1>3. /\ State(f, c.funs[f].blocks[1], l) \in States(c)
      /\ State(f, c.funs[f].blocks[1], l).fun = f
      /\ State(f, c.funs[f].blocks[1], l).block = c.funs[f].blocks[1]
    BY <1>1, <1>2, StateMade
<1> QED BY <1>3 DEF Start, l

\* A state and what its block computes.
LEMMA StateFacts ==
    ASSUME NEW c \in Crates, NEW bs, GoodBlocks(c, bs), NEW s \in States(c)
    PROVE  LET n == c.funs[s.fun].size IN
           /\ bs[s.block] \in BlockOf(c, s.fun) /\ bs[s.block].params \in Seq(1..n)
           /\ bs[s.block].stmts \in Seq(Statements(n))
           /\ n \in Nat /\ n >= 1
           /\ After(bs, s) # Failed => After(bs, s) \in [1..n -> Value]
           /\ After(bs, s) # Failed => \A rv \in Rvalues(n) : Worth(bs, s, rv) \in MaybeValue
<1> DEFINE n == c.funs[s.fun].size
           b == bs[s.block]
<1>1. b \in BlockOf(c, s.fun) /\ n \in Nat /\ n >= 1 /\ s.locals \in [1..n -> Value]
    BY StateTypes DEF GoodBlocks
<1>2. b.params \in Seq(1..n) /\ b.stmts \in Seq(Statements(n))
    BY <1>1, BlockTypes
<1>3. After(bs, s) \in [1..n -> Value] \cup {Failed}
    <2> HIDE DEF n, b
    <2>1. AfterStatements(b, s.locals) \in [1..n -> Value] \cup {Failed}
        BY <1>1, <1>2, AfterType
    <2> QED BY <2>1 DEF After, b
<1>4. ASSUME After(bs, s) # Failed, NEW rv \in Rvalues(n)
      PROVE  Worth(bs, s, rv) \in MaybeValue
    <2>1. After(bs, s) \in [1..n -> Value]
        BY <1>3, <1>4
    <2> DEFINE l == After(bs, s)
    <2>2. Worth(bs, s, rv) = Eval(rv, l, b.params)
        BY DEF Worth
    <2> HIDE DEF n, b, l
    <2>3. Eval(rv, l, b.params) \in MaybeValue
        BY <1>1, <1>2, <1>4, <2>1, EvalType DEF l
    <2> QED BY <2>2, <2>3
<1> QED BY <1>1, <1>2, <1>3, <1>4

\* The states a block leads to.
LEMMA GoneType ==
    ASSUME NEW c \in Crates, NEW bs, GoodBlocks(c, bs), NEW s \in States(c), NEW t,
           t = Term(bs, s), After(bs, s) # Failed, t.kind = "goto",
           Passes(bs, t) => Worth(bs, s, t.args[1]) # Bad
    PROVE  /\ Gone(bs, s, t) \in States(c) /\ t.target \in BlocksOf(c, s.fun)
           /\ Gone(bs, s, t).fun = s.fun /\ Gone(bs, s, t).block = t.target
           /\ Passes(bs, t) => /\ bs[t.target].params[1] \in 1..c.funs[s.fun].size
                               /\ Worth(bs, s, t.args[1]) \in Value
<1> DEFINE n == c.funs[s.fun].size
           l == After(bs, s)
           p == bs[t.target].params
           w == Worth(bs, s, t.args[1])
<1>1. /\ s.fun \in 1..Len(c.funs) /\ t = bs[s.block].term /\ bs[s.block] \in BlockOf(c, s.fun)
      /\ n \in Nat /\ l \in [1..n -> Value] /\ \A rv \in Rvalues(n) : Worth(bs, s, rv) \in MaybeValue
    BY StateFacts, StateTypes DEF Term
<1>2. t.target \in BlocksOf(c, s.fun) /\ t.args \in Seq(Rvalues(n))
    BY <1>1, BlockTypes
<1>3. p \in Seq(1..n)
    <2>1. bs[t.target] \in BlockOf(c, s.fun)
        BY <1>1, <1>2 DEF GoodBlocks
    <2> QED BY <2>1, BlockTypes
<1>4. CASE Passes(bs, t)
    <2>1. p # <<>> /\ t.args # <<>>
        BY <1>4 DEF Passes
    <2>2. p[1] \in 1..n /\ t.args[1] \in Rvalues(n)
        <3> DEFINE args == t.args
                   R == Rvalues(n)
                   P == 1..n
        <3>1. p \in Seq(P) /\ args \in Seq(R) /\ p # <<>> /\ args # <<>>
            BY <1>2, <1>3, <2>1
        <3> HIDE DEF p, args, P, R
        <3>2. p[1] \in P /\ args[1] \in R
            BY <3>1, FirstElement
        <3> QED BY <3>2 DEF args, R, P
    <2>3. w \in Value
        BY <1>1, <1>4, <2>2 DEF MaybeValue
    <2> DEFINE l2 == [l EXCEPT ![p[1]] = w]
    <2>4. l2 \in [1..n -> Value]
        <3> HIDE DEF w, l, p
        <3> QED BY <1>1, <2>2, <2>3
    <2>5. Gone(bs, s, t) = State(s.fun, t.target, l2)
        BY <1>4 DEF Gone
    <2> HIDE DEF l2, w, p
    <2>6. /\ State(s.fun, t.target, l2) \in States(c) /\ State(s.fun, t.target, l2).fun = s.fun
          /\ State(s.fun, t.target, l2).block = t.target
        <3> DEFINE f == s.fun
                   b == t.target
        <3>1. f \in 1..Len(c.funs) /\ b \in BlocksOf(c, f) /\ l2 \in [1..c.funs[f].size -> Value]
            BY <1>1, <1>2, <2>4
        <3> HIDE DEF f, b
        <3>2. State(f, b, l2) \in States(c) /\ State(f, b, l2).fun = f /\ State(f, b, l2).block = b
            BY <3>1, StateMade
        <3> QED BY <3>2 DEF f, b
    <2> QED BY <1>2, <2>2, <2>3, <2>5, <2>6 DEF p, w
<1>5. CASE ~Passes(bs, t)
    <2>1. Gone(bs, s, t) = State(s.fun, t.target, l)
        BY <1>5 DEF Gone
    <2> HIDE DEF l
    <2>2. /\ State(s.fun, t.target, l) \in States(c) /\ State(s.fun, t.target, l).fun = s.fun
          /\ State(s.fun, t.target, l).block = t.target
        BY <1>1, <1>2, StateMade
    <2> QED BY <1>2, <1>5, <2>1, <2>2
<1> QED BY <1>4, <1>5

LEMMA CaseAmong ==
    ASSUME NEW t, NEW v
    PROVE  CaseOf(t, v) = t.default \/ \E i \in 1..Len(t.targets) : CaseOf(t, v) = t.targets[i][2]
<1>1. CASE Hits(t, v) = {}
    BY <1>1 DEF CaseOf
<1>2. CASE Hits(t, v) # {}
    <2>1. Hits(t, v) \in SUBSET Nat
        BY DEF Hits
    <2> DEFINE i == CHOOSE i \in Hits(t, v) : \A j \in Hits(t, v) : i <= j
    <2>2. i \in Hits(t, v)
        BY <1>2, <2>1, LeastNumber
    <2>3. CaseOf(t, v) = t.targets[i][2]
        BY <1>2 DEF CaseOf
    <2> HIDE DEF i
    <2>4. i \in 1..Len(t.targets)
        BY <2>2 DEF Hits
    <2> QED BY <2>3, <2>4
<1> QED BY <1>1, <1>2

LEMMA CaseType ==
    ASSUME NEW B, NEW t, t.default \in B, t.targets \in Seq(Value \X B), NEW v
    PROVE  CaseOf(t, v) \in B
<1>1. \A i \in 1..Len(t.targets) : t.targets[i][2] \in B
    <2> TAKE i \in 1..Len(t.targets)
    <2>1. t.targets[i] \in Value \X B
        OBVIOUS
    <2> QED BY <2>1
<1> QED BY <1>1, CaseAmong

LEMMA SwitchedType ==
    ASSUME NEW c \in Crates, NEW bs, GoodBlocks(c, bs), NEW s \in States(c), NEW t,
           t = Term(bs, s), After(bs, s) # Failed, t.kind = "switch"
    PROVE  /\ Switched(bs, s, t) \in States(c) /\ Switched(bs, s, t).fun = s.fun
           /\ Switched(bs, s, t).block = CaseOf(t, Worth(bs, s, t.disc))
           /\ Worth(bs, s, t.disc) \in MaybeValue
<1> DEFINE n == c.funs[s.fun].size
           l == After(bs, s)
           b == CaseOf(t, Worth(bs, s, t.disc))
<1>1. /\ s.fun \in 1..Len(c.funs) /\ t = bs[s.block].term /\ bs[s.block] \in BlockOf(c, s.fun)
      /\ l \in [1..n -> Value] /\ \A rv \in Rvalues(n) : Worth(bs, s, rv) \in MaybeValue
    BY StateFacts, StateTypes DEF Term
<1>2. /\ t.disc \in Rvalues(n) /\ t.default \in BlocksOf(c, s.fun)
      /\ t.targets \in Seq(Value \X BlocksOf(c, s.fun))
    BY <1>1, BlockTypes
<1>3. b \in BlocksOf(c, s.fun)
    BY <1>2, CaseType
<1>4. Switched(bs, s, t) = State(s.fun, b, l)
    BY DEF Switched
<1>5. Worth(bs, s, t.disc) \in MaybeValue
    BY <1>1, <1>2
<1> HIDE DEF b, l, n
<1>6. /\ State(s.fun, b, l) \in States(c) /\ State(s.fun, b, l).fun = s.fun
      /\ State(s.fun, b, l).block = b
    BY <1>1, <1>3, StateMade DEF n
<1> QED BY <1>4, <1>5, <1>6 DEF b

LEMMA CallStates ==
    ASSUME NEW c \in Crates, NEW bs, GoodBlocks(c, bs), NEW s \in States(c), NEW t,
           t = Term(bs, s), After(bs, s) # Failed, t.kind = "call"
    PROVE  /\ t.func \in 1..Len(c.funs) /\ t.dest \in 1..c.funs[s.fun].size
           /\ t.args \in Seq(Rvalues(c.funs[s.fun].size))
           /\ t.target \in BlocksOf(c, s.fun) \cup {0}
           /\ AllGood(Args(bs, s)) => /\ Args(bs, s) \in Seq(Value)
                                      /\ Start(c, t.func, Args(bs, s)) \in States(c)
           /\ t.target # 0 => \A v \in Value : /\ Back(bs, s, t, v) \in States(c)
                                               /\ Back(bs, s, t, v).fun = s.fun
                                               /\ Back(bs, s, t, v).block = t.target
<1> DEFINE n == c.funs[s.fun].size
           l == After(bs, s)
           p == bs[s.block].params
<1>1. /\ s.fun \in 1..Len(c.funs) /\ t = bs[s.block].term /\ bs[s.block] \in BlockOf(c, s.fun)
      /\ n \in Nat /\ l \in [1..n -> Value] /\ p \in Seq(1..n)
    BY StateFacts, StateTypes DEF Term
<1>2. /\ t.func \in 1..Len(c.funs) /\ t.dest \in 1..n /\ t.args \in Seq(Rvalues(n))
      /\ t.target \in BlocksOf(c, s.fun) \cup {0}
    BY <1>1, BlockTypes
<1>3. ASSUME AllGood(Args(bs, s))
      PROVE  Args(bs, s) \in Seq(Value)
    <2>1. Args(bs, s) = EvalAll(t.args, l, p)
        BY DEF Args
    <2> HIDE DEF n, l, p
    <2> QED BY <1>1, <1>2, <1>3, <2>1, EvalAllType
<1>4. ASSUME t.target # 0, NEW v \in Value
      PROVE  /\ Back(bs, s, t, v) \in States(c) /\ Back(bs, s, t, v).fun = s.fun
             /\ Back(bs, s, t, v).block = t.target
    <2> DEFINE l2 == [l EXCEPT ![t.dest] = v]
    <2>1. l2 \in [1..n -> Value] /\ t.target \in BlocksOf(c, s.fun)
        <3> HIDE DEF l
        <3> QED BY <1>1, <1>2, <1>4
    <2>2. Back(bs, s, t, v) = State(s.fun, t.target, l2)
        BY DEF Back
    <2> HIDE DEF l2
    <2>3. /\ State(s.fun, t.target, l2) \in States(c) /\ State(s.fun, t.target, l2).fun = s.fun
          /\ State(s.fun, t.target, l2).block = t.target
        <3> DEFINE f == s.fun
                   b == t.target
        <3>1. f \in 1..Len(c.funs) /\ b \in BlocksOf(c, f) /\ l2 \in [1..c.funs[f].size -> Value]
            BY <1>1, <2>1
        <3> HIDE DEF f, b
        <3>2. State(f, b, l2) \in States(c) /\ State(f, b, l2).fun = f /\ State(f, b, l2).block = b
            BY <3>1, StateMade
        <3> QED BY <3>2 DEF f, b
    <2> QED BY <2>2, <2>3
<1> QED BY <1>2, <1>3, <1>4, StartType

\* A step gives a value or nothing.
Answers(c) == [States(c) -> MaybeValue]

LEMMA StepType ==
    ASSUME NEW c \in Crates, NEW bs, GoodBlocks(c, bs), NEW r \in Answers(c), NEW s \in States(c)
    PROVE  Step(c, bs, r, s) \in MaybeValue
<1> DEFINE t == Term(bs, s)
<1>1. Bad \in MaybeValue /\ \A x \in States(c) : r[x] \in MaybeValue
    BY DEF MaybeValue, Answers
<1>2. CASE After(bs, s) = Failed
    BY <1>1, <1>2 DEF Step
<1>3. CASE After(bs, s) # Failed
    <2>0. Step(c, bs, r, s) = Ended(c, bs, r, s, t)
        BY <1>3 DEF Step
    <2>1. CASE t.kind = "return"
        <3> DEFINE l == After(bs, s)
                   f == c.funs[s.fun]
        <3>1. l \in [1..f.size -> Value] /\ f.ret \in 1..f.size
            BY <1>3, StateFacts, StateTypes
        <3>2. f.span \in Nat \ {0} /\ f.low \in Word /\ f.low + f.span <= Half
            BY StateTypes, CrateTypes
        <3>3. Ended(c, bs, r, s, t) = ToConst(l[f.ret], f)
            BY <2>1 DEF Ended
        <3> HIDE DEF l, f
        <3> QED BY <2>0, <3>1, <3>2, <3>3, ToConstType
    <2>2. CASE t.kind = "goto"
        <3>1. CASE Passes(bs, t) /\ Worth(bs, s, t.args[1]) = Bad
            BY <1>1, <2>0, <2>2, <3>1 DEF Ended
        <3>2. CASE ~(Passes(bs, t) /\ Worth(bs, s, t.args[1]) = Bad)
            <4>1. Ended(c, bs, r, s, t) = r[Gone(bs, s, t)]
                BY <2>2, <3>2 DEF Ended
            <4> HIDE DEF t
            <4>2. Gone(bs, s, t) \in States(c)
                BY <1>3, <2>2, <3>2, GoneType DEF t
            <4> QED BY <1>1, <2>0, <4>1, <4>2
        <3> QED BY <3>1, <3>2
    <2>3. CASE t.kind = "switch"
        <3>1. Ended(c, bs, r, s, t) \in {Bad, r[Switched(bs, s, t)]}
            BY <2>3 DEF Ended
        <3> HIDE DEF t
        <3>2. Switched(bs, s, t) \in States(c)
            BY <1>3, <2>3, SwitchedType DEF t
        <3> QED BY <1>1, <2>0, <3>1, <3>2
    <2>4. CASE t.kind = "call"
        <3>1. Ended(c, bs, r, s, t) = Called(c, bs, r, s, t)
            BY <2>4 DEF Ended
        <3> DEFINE e == Start(c, t.func, Args(bs, s))
                   v == r[e]
        <3> HIDE DEF t
        <3>2. CASE AllGood(Args(bs, s)) /\ Fits(c.funs[t.func], Args(bs, s)) /\ t.target # 0 /\ v # Bad
            <4>1. e \in States(c)
                BY <1>3, <2>4, <3>2, CallStates DEF t
            <4>2. v \in Value
                <5> HIDE DEF e
                <5> QED BY <1>1, <3>2, <4>1 DEF MaybeValue
            <4>3. Called(c, bs, r, s, t) = r[Back(bs, s, t, v)]
                BY <3>2 DEF Called
            <4> HIDE DEF v
            <4>4. Back(bs, s, t, v) \in States(c)
                BY <1>3, <2>4, <3>2, <4>2, CallStates DEF t
            <4> QED BY <1>1, <2>0, <3>1, <4>3, <4>4
        <3>3. CASE ~(AllGood(Args(bs, s)) /\ Fits(c.funs[t.func], Args(bs, s)) /\ t.target # 0 /\ v # Bad)
            <4>1. Called(c, bs, r, s, t) = Bad
                BY <3>3 DEF Called
            <4> QED BY <1>1, <2>0, <3>1, <4>1
        <3> QED BY <3>2, <3>3
    <2>5. CASE t.kind \notin {"return", "goto", "switch", "call"}
        BY <1>1, <2>0, <2>5 DEF Ended
    <2> QED BY <2>1, <2>2, <2>3, <2>4, <2>5
<1> QED BY <1>2, <1>3

\* What Within computes.
Deepens(c, bs, W) ==
    /\ W \in [Nat -> Answers(c)]
    /\ W[0] = [s \in States(c) |-> Bad]
    /\ \A n \in Nat : W[n + 1] = [s \in States(c) |-> Step(c, bs, W[n], s)]

LEMMA WithinDef ==
    ASSUME NEW c \in Crates, NEW bs, GoodBlocks(c, bs)
    PROVE  Deepens(c, bs, Within(c, bs))
<1> DEFINE V == Answers(c)
           S == States(c)
           a == [s \in S |-> Bad]
           Next1(r) == [s \in S |-> Step(c, bs, r, s)]
           H == [r \in V |-> Next1(r)]
           Def(R) == R = [n \in Nat |-> IF n = 0 THEN a ELSE Next1(R[n - 1])]
<1>1. a \in V
    BY DEF Answers, MaybeValue
<1>2. \A r \in V : Next1(r) \in V
    BY StepType DEF Answers
<1> HIDE DEF V, a, Next1
<1>3. \A r \in V : H[r] \in V /\ H[r] = Next1(r)
    BY <1>2
<1>4. PICK f : f \in [Nat -> V] /\ f[0] = a /\ \A n \in Nat : f[n + 1] = H[f[n]]
    <2>1. ClosedUnder(V, H)
        BY <1>3 DEF ClosedUnder
    <2> HIDE DEF H
    <2>2. PICK f : IsOrbit(f, V, a, H)
        BY <1>1, <2>1, NatRecursion
    <2> QED BY <2>2 DEF IsOrbit
<1>5. \A n \in Nat : f[n + 1] = Next1(f[n])
    BY <1>3, <1>4
<1>6. \A n \in Nat : n # 0 => n - 1 \in Nat /\ (n - 1) + 1 = n
    OBVIOUS
<1>7. \A n \in Nat : n # 0 => f[n] = Next1(f[n - 1])
    BY <1>5, <1>6
<1>8. Def(f)
    <2> HIDE DEF H
    <2> QED BY <1>4, <1>7, Zenon
<1> DEFINE R == CHOOSE R : Def(R)
<1>9. Def(R) /\ Within(c, bs) = R
    <2>1. Def(R)
        BY <1>8, Zenon
    <2>2. Within(c, bs) = R
        BY Zenon DEF Within, Next1, a
    <2> QED BY <2>1, <2>2
<1> HIDE DEF R
<1>10. R[0] = a
    BY <1>9
<1>11. \A n \in Nat : R[n + 1] = Next1(R[n])
    <2>1. \A n \in Nat : n + 1 \in Nat /\ n + 1 # 0 /\ (n + 1) - 1 = n
        OBVIOUS
    <2>2. \A n \in Nat : R[n] = IF n = 0 THEN a ELSE Next1(R[n - 1])
        BY <1>9, Zenon
    <2> QED BY <2>1, <2>2
<1>12. R \in [Nat -> V]
    <2> DEFINE T == {n \in Nat : R[n] \in V}
    <2>1. 0 \in T
        BY <1>1, <1>10
    <2>2. \A n \in Nat : n \in T => n + 1 \in T
        BY <1>2, <1>11
    <2>3. Nat \subseteq T
        <3> HIDE DEF T
        <3> QED BY <2>1, <2>2, NatSetInduction
    <2>4. R = [n \in Nat |-> R[n]]
        <3>1. \E g : R = [n \in Nat |-> g[n]]
            <4> DEFINE g == [n \in Nat |-> IF n = 0 THEN a ELSE Next1(R[n - 1])]
            <4>1. R = g
                BY <1>9
            <4>2. g = [n \in Nat |-> g[n]]
                OBVIOUS
            <4> HIDE DEF g
            <4> QED BY <4>1, <4>2
        <3> QED BY <3>1
    <2> QED BY <2>3, <2>4
<1> QED BY <1>9, <1>10, <1>11, <1>12 DEF Deepens, Next1, a, V

\* r2 answers all that r answers, and the same.
Refines(c, r, r2) == \A s \in States(c) : r[s] # Bad => r2[s] = r[s]

LEMMA StepRefines ==
    ASSUME NEW c \in Crates, NEW bs, GoodBlocks(c, bs), NEW r \in Answers(c),
           NEW r2 \in Answers(c), Refines(c, r, r2), NEW s \in States(c),
           Step(c, bs, r, s) # Bad
    PROVE  Step(c, bs, r2, s) = Step(c, bs, r, s)
<1> DEFINE t == Term(bs, s)
<1>1. After(bs, s) # Failed
    BY DEF Step
<1>2. Step(c, bs, r, s) = Ended(c, bs, r, s, t) /\ Step(c, bs, r2, s) = Ended(c, bs, r2, s, t)
    BY <1>1 DEF Step
<1>3. \A x \in States(c) : r[x] # Bad => r2[x] = r[x]
    BY DEF Refines
<1>4. CASE t.kind = "return"
    BY <1>2, <1>4 DEF Ended
<1>5. CASE t.kind = "goto"
    <2>1. Ended(c, bs, r, s, t) = IF Passes(bs, t) /\ Worth(bs, s, t.args[1]) = Bad THEN Bad
                                  ELSE r[Gone(bs, s, t)]
        BY <1>5 DEF Ended
    <2>2. Ended(c, bs, r2, s, t) = IF Passes(bs, t) /\ Worth(bs, s, t.args[1]) = Bad THEN Bad
                                   ELSE r2[Gone(bs, s, t)]
        BY <1>5 DEF Ended
    <2> HIDE DEF t
    <2>3. Passes(bs, t) => Worth(bs, s, t.args[1]) # Bad
        BY <1>2, <2>1
    <2>4. Gone(bs, s, t) \in States(c)
        BY <1>1, <1>5, <2>3, GoneType DEF t
    <2> QED BY <1>2, <1>3, <2>1, <2>2, <2>3, <2>4
<1>6. CASE t.kind = "switch"
    <2>1. Ended(c, bs, r, s, t) = IF Worth(bs, s, t.disc) = Bad THEN Bad ELSE r[Switched(bs, s, t)]
        BY <1>6 DEF Ended
    <2>2. Ended(c, bs, r2, s, t) = IF Worth(bs, s, t.disc) = Bad THEN Bad ELSE r2[Switched(bs, s, t)]
        BY <1>6 DEF Ended
    <2> HIDE DEF t
    <2>3. Switched(bs, s, t) \in States(c)
        BY <1>1, <1>6, SwitchedType DEF t
    <2> QED BY <1>2, <1>3, <2>1, <2>2, <2>3
<1>7. CASE t.kind = "call"
    <2>1. Ended(c, bs, r, s, t) = Called(c, bs, r, s, t) /\ Ended(c, bs, r2, s, t) = Called(c, bs, r2, s, t)
        BY <1>7 DEF Ended
    <2> DEFINE e == Start(c, t.func, Args(bs, s))
               v == r[e]
    <2>2. /\ AllGood(Args(bs, s)) /\ Fits(c.funs[t.func], Args(bs, s)) /\ t.target # 0 /\ v # Bad
          /\ Called(c, bs, r, s, t) = r[Back(bs, s, t, v)]
        BY <1>2, <2>1 DEF Called
    <2>3. e \in States(c)
        <3> HIDE DEF t
        <3> QED BY <1>1, <1>7, <2>2, CallStates DEF t
    <2>4. r2[e] = v
        <3> HIDE DEF e
        <3> QED BY <1>3, <2>2, <2>3
    <2>5. v \in Value
        <3> HIDE DEF e
        <3> QED BY <2>2, <2>3 DEF MaybeValue, Answers
    <2>6. Called(c, bs, r2, s, t) = r2[Back(bs, s, t, v)]
        <3> HIDE DEF t, v
        <3> QED BY <2>2, <2>4 DEF Called
    <2> HIDE DEF t, v, e
    <2>7. Back(bs, s, t, v) \in States(c)
        BY <1>1, <1>7, <2>2, <2>5, CallStates DEF t
    <2> QED BY <1>2, <1>3, <2>1, <2>2, <2>6, <2>7
<1>8. CASE t.kind \notin {"return", "goto", "switch", "call"}
    BY <1>2, <1>8 DEF Ended
<1> QED BY <1>4, <1>5, <1>6, <1>7, <1>8

\* More depth never changes an answer.
LEMMA Deeper ==
    ASSUME NEW c \in Crates, NEW bs, GoodBlocks(c, bs), NEW n \in Nat, NEW m \in Nat, n <= m
    PROVE  Refines(c, Within(c, bs)[n], Within(c, bs)[m])
<1> DEFINE W == Within(c, bs)
<1>0. Deepens(c, bs, W)
    BY WithinDef
<1> HIDE DEF W
<1>1. \A k \in Nat : W[k] \in Answers(c)
    BY <1>0 DEF Deepens
<1> DEFINE T == {k \in Nat : Refines(c, W[k], W[k + 1])}
<1>2. 0 \in T
    BY <1>0 DEF Deepens, Refines
<1>3. ASSUME NEW k \in Nat, k \in T
      PROVE  k + 1 \in T
    <2> DEFINE r == W[k]
               r2 == W[k + 1]
    <2>1. Refines(c, r, r2) /\ r \in Answers(c) /\ r2 \in Answers(c)
        BY <1>1, <1>3
    <2>2. W[k + 1] = [s \in States(c) |-> Step(c, bs, r, s)]
          /\ W[(k + 1) + 1] = [s \in States(c) |-> Step(c, bs, r2, s)]
        BY <1>0 DEF Deepens
    <2> HIDE DEF r, r2
    <2>3. \A s \in States(c) : Step(c, bs, r, s) # Bad => Step(c, bs, r2, s) = Step(c, bs, r, s)
        BY <2>1, StepRefines
    <2>4. Refines(c, W[k + 1], W[(k + 1) + 1])
        BY <2>2, <2>3 DEF Refines
    <2> QED BY <2>4
<1>4. \A k \in Nat : k \in T
    <2> HIDE DEF T
    <2> QED BY <1>2, <1>3, NatSetInduction
<1> DEFINE U == {k \in Nat : Refines(c, W[n], W[n + k])}
<1>5. 0 \in U
    BY DEF Refines
<1>6. ASSUME NEW k \in Nat, k \in U
      PROVE  k + 1 \in U
    <2>1. n + k \in T /\ n + (k + 1) = (n + k) + 1
        BY <1>4
    <2> QED BY <1>6, <2>1 DEF Refines
<1>7. \A k \in Nat : k \in U
    <2> HIDE DEF U
    <2> QED BY <1>5, <1>6, NatSetInduction
<1>8. m - n \in U /\ n + (m - n) = m
    BY <1>7
<1> QED BY <1>8 DEF W

-----------------------------------------------------------------------------
(* What a state of the crate as it was given comes to, at any depth. *)

Yields(c, s, v) ==
    s \in States(c) /\ v \in Value /\ \E n \in Nat : Within(c, c.blocks)[n][s] = v

LEMMA GivenBlocks ==
    ASSUME NEW c \in Crates
    PROVE  GoodBlocks(c, c.blocks)
BY CrateTypes DEF GoodBlocks

LEMMA YieldsTogether ==
    ASSUME NEW c \in Crates, NEW s, NEW v, Yields(c, s, v), NEW s2, NEW v2, Yields(c, s2, v2)
    PROVE  \E n \in Nat : Within(c, c.blocks)[n][s] = v /\ Within(c, c.blocks)[n][s2] = v2
<1> DEFINE W == Within(c, c.blocks)
<1>1. /\ s \in States(c) /\ s2 \in States(c) /\ v # Bad /\ v2 # Bad
      /\ \E n \in Nat : W[n][s] = v
      /\ \E n \in Nat : W[n][s2] = v2
    BY ValueTypes DEF Yields
<1>2. \A n, m \in Nat : n <= m => Refines(c, W[n], W[m])
    BY GivenBlocks, Deeper
<1> HIDE DEF W
<1>3. PICK n \in Nat : W[n][s] = v
    BY <1>1
<1>4. PICK m \in Nat : W[m][s2] = v2
    BY <1>1
<1>5. CASE n <= m
    <2>1. W[m][s] = v
        BY <1>1, <1>2, <1>3, <1>5 DEF Refines
    <2> QED BY <1>4, <2>1 DEF W
<1>6. CASE m <= n
    <2>1. W[n][s2] = v2
        BY <1>1, <1>2, <1>4, <1>6 DEF Refines
    <2> QED BY <1>3, <2>1 DEF W
<1> QED BY <1>5, <1>6

LEMMA YieldsUnique ==
    ASSUME NEW c \in Crates, NEW s, NEW v, Yields(c, s, v), NEW w, Yields(c, s, w)
    PROVE  v = w
BY YieldsTogether

\* A state comes to what a step makes of what is known.
LEMMA YieldsStep ==
    ASSUME NEW c \in Crates, NEW s \in States(c), NEW n \in Nat, NEW v \in Value,
           Step(c, c.blocks, Within(c, c.blocks)[n], s) = v
    PROVE  Yields(c, s, v)
<1> DEFINE W == Within(c, c.blocks)
<1>1. Deepens(c, c.blocks, W)
    BY GivenBlocks, WithinDef
<1> HIDE DEF W
<1>2. W[n + 1][s] = v
    BY <1>1 DEF Deepens, W
<1> QED BY <1>2 DEF Yields, W

LEMMA YieldsReturn ==
    ASSUME NEW c \in Crates, NEW s \in States(c), After(c.blocks, s) # Failed,
           Term(c.blocks, s).kind = "return", NEW v \in Value,
           v = ToConst(After(c.blocks, s)[c.funs[s.fun].ret], c.funs[s.fun])
    PROVE  Yields(c, s, v)
<1>1. Step(c, c.blocks, Within(c, c.blocks)[0], s) = v
    BY DEF Step, Ended
<1> QED BY <1>1, YieldsStep

LEMMA YieldsGoto ==
    ASSUME NEW c \in Crates, NEW s \in States(c), After(c.blocks, s) # Failed, NEW t,
           t = Term(c.blocks, s), t.kind = "goto",
           Passes(c.blocks, t) => Worth(c.blocks, s, t.args[1]) # Bad,
           NEW v, Yields(c, Gone(c.blocks, s, t), v)
    PROVE  Yields(c, s, v)
<1>1. PICK n \in Nat : Within(c, c.blocks)[n][Gone(c.blocks, s, t)] = v
    BY DEF Yields
<1>2. Step(c, c.blocks, Within(c, c.blocks)[n], s) = v
    BY <1>1 DEF Step, Ended
<1> QED BY <1>2, YieldsStep DEF Yields

LEMMA YieldsSwitch ==
    ASSUME NEW c \in Crates, NEW s \in States(c), After(c.blocks, s) # Failed, NEW t,
           t = Term(c.blocks, s), t.kind = "switch", Worth(c.blocks, s, t.disc) # Bad,
           NEW v, Yields(c, Switched(c.blocks, s, t), v)
    PROVE  Yields(c, s, v)
<1>1. PICK n \in Nat : Within(c, c.blocks)[n][Switched(c.blocks, s, t)] = v
    BY DEF Yields
<1>2. Step(c, c.blocks, Within(c, c.blocks)[n], s) = v
    BY <1>1 DEF Step, Ended
<1> QED BY <1>2, YieldsStep DEF Yields

LEMMA YieldsCall ==
    ASSUME NEW c \in Crates, NEW s \in States(c), After(c.blocks, s) # Failed, NEW t,
           t = Term(c.blocks, s), t.kind = "call", t.target # 0,
           AllGood(Args(c.blocks, s)), Fits(c.funs[t.func], Args(c.blocks, s)),
           NEW u, Yields(c, Start(c, t.func, Args(c.blocks, s)), u),
           NEW v, Yields(c, Back(c.blocks, s, t, u), v)
    PROVE  Yields(c, s, v)
<1> DEFINE e == Start(c, t.func, Args(c.blocks, s))
           k == Back(c.blocks, s, t, u)
<1>1. PICK n \in Nat : Within(c, c.blocks)[n][e] = u /\ Within(c, c.blocks)[n][k] = v
    <2> HIDE DEF e, k
    <2> QED BY YieldsTogether DEF e, k
<1>2. u # Bad /\ v \in Value
    BY ValueTypes DEF Yields
<1>3. Called(c, c.blocks, Within(c, c.blocks)[n], s, t) = v
    BY <1>1, <1>2 DEF Called
<1>4. Step(c, c.blocks, Within(c, c.blocks)[n], s) = v
    BY <1>3 DEF Step, Ended
<1> QED BY <1>2, <1>4, YieldsStep

\* e comes to whatever s comes to.
Tells(c, s, e) == \A v : Yields(c, s, v) => Yields(c, e, v)

-----------------------------------------------------------------------------
(* A block to which the result of its call was added. *)

\* Two blocks begin with the same k statements.
BeginAlike(b, b2, k) ==
    /\ b.params = b2.params
    /\ Len(b.stmts) \in Nat /\ k <= Len(b.stmts) /\ Len(b2.stmts) \in Nat /\ k <= Len(b2.stmts)
    /\ \A i \in 1..k : b.stmts[i] = b2.stmts[i]

LEMMA RunsAgree ==
    ASSUME NEW n, NEW b, NEW b2, NEW l, NEW L, NEW L2, IsRun(L, b, l, n), IsRun(L2, b2, l, n),
           NEW k \in Nat, BeginAlike(b, b2, k)
    PROVE  L[k] = L2[k]
<1> USE DEF BeginAlike
<1> DEFINE S == {i \in 0..k : L[i] = L2[i]}
<1>1. 0 \in S
    BY DEF IsRun
<1>2. ASSUME NEW i \in 1..k, i - 1 \in S
      PROVE  i \in S
    <2>1. i \in 1..Len(b.stmts) /\ i \in 1..Len(b2.stmts) /\ i \in 0..k
        OBVIOUS
    <2>2. /\ L[i] = AfterOne(L[i - 1], b.stmts[i], b.params)
          /\ L2[i] = AfterOne(L2[i - 1], b2.stmts[i], b2.params)
        BY <2>1 DEF IsRun
    <2> QED BY <1>2, <2>1, <2>2
<1>3. \A i \in 0..k : i \in S
    <2> HIDE DEF S
    <2> QED BY <1>1, <1>2, IntervalInduction
<1> QED BY <1>3

LEMMA AfterAppended ==
    ASSUME NEW n \in Nat, NEW b, b.params \in Seq(1..n), b.stmts \in Seq(Statements(n)),
           NEW l \in [1..n -> Value], NEW st \in Statements(n), NEW b2,
           b2.params = b.params, b2.stmts = Append(b.stmts, st)
    PROVE  AfterStatements(b2, l) = AfterOne(AfterStatements(b, l), st, b.params)
<1> DEFINE N == Len(b.stmts)
<1>1. /\ N \in Nat /\ Len(b2.stmts) = N + 1 /\ b2.stmts \in Seq(Statements(n))
      /\ \A i \in 1..N : b2.stmts[i] = b.stmts[i]
      /\ b2.stmts[N + 1] = st /\ b2.params \in Seq(1..n)
    <2> HIDE DEF Statements
    <2> QED OBVIOUS
<1>2. PICK L : IsRun(L, b, l, n) /\ AfterStatements(b, l) = L[N]
    BY AfterRun
<1>3. PICK L2 : IsRun(L2, b2, l, n) /\ AfterStatements(b2, l) = L2[Len(b2.stmts)]
    BY <1>1, AfterRun
<1> HIDE DEF N
<1>4. L[N] = L2[N]
    <2>1. BeginAlike(b, b2, N)
        BY <1>1 DEF BeginAlike, N
    <2> QED BY <1>1, <1>2, <1>3, <2>1, RunsAgree
<1>5. L2[N + 1] = AfterOne(L2[(N + 1) - 1], b2.stmts[N + 1], b2.params)
    <2>1. N + 1 \in 1..Len(b2.stmts)
        BY <1>1
    <2>2. \A i \in 1..Len(b2.stmts) : L2[i] = AfterOne(L2[i - 1], b2.stmts[i], b2.params)
        BY <1>3 DEF IsRun
    <2> QED BY <2>1, <2>2
<1>6. (N + 1) - 1 = N
    BY <1>1
<1> QED BY <1>1, <1>2, <1>3, <1>4, <1>5, <1>6

\* The locals with a result in one of them, when there are any.
Stored(l, dest, v) == IF l = Failed THEN Failed ELSE [l EXCEPT ![dest] = v]

AddsResult(new, old, dest, v) ==
    /\ new.params = old.params
    /\ new.stmts = Append(old.stmts, [kind |-> "let", local |-> dest, rv |-> [op |-> "const", v |-> v]])

LEMMA AfterResult ==
    ASSUME NEW n \in Nat, NEW b, b.params \in Seq(1..n), b.stmts \in Seq(Statements(n)),
           NEW l \in [1..n -> Value], NEW dest \in 1..n, NEW v \in Value, NEW b2,
           AddsResult(b2, b, dest, v)
    PROVE  AfterStatements(b2, l) = Stored(AfterStatements(b, l), dest, v)
<1> DEFINE rv == [op |-> "const", v |-> v]
           st == [kind |-> "let", local |-> dest, rv |-> rv]
           a == AfterStatements(b, l)
<1>1. rv \in Rvalues(n)
    BY DEF Rvalues, Atoms
<1>2. st \in Statements(n)
    <2> HIDE DEF rv
    <2> QED BY <1>1 DEF Statements
<1>3. Eval(rv, a, b.params) = v /\ v # Bad /\ st.rv = rv /\ st.local = dest
    BY ValueTypes DEF Eval, Atom
<1> HIDE DEF rv
<1>4. AfterOne(a, st, b.params) = Stored(a, dest, v)
    <2> HIDE DEF st, a
    <2> QED BY <1>3 DEF AfterOne, Stored
<1>5. b2.params = b.params /\ b2.stmts = Append(b.stmts, st)
    BY DEF rv, AddsResult
<1> HIDE DEF st, a
<1>6. AfterStatements(b2, l) = AfterOne(AfterStatements(b, l), st, b.params)
    BY <1>2, <1>5, AfterAppended
<1> QED BY <1>4, <1>6 DEF a

-----------------------------------------------------------------------------
(* Locals that are taken for constants. *)

\* Before a local is set, control goes to blocks before it is set.
LEMMA UnsetClosed ==
    ASSUME NEW c \in Crates, NEW f \in 1..Len(c.funs), NEW l
    PROVE  /\ c.funs[f].blocks[1] \in Unset(c, f, l)
           /\ \A a \in Unset(c, f, l) : ~Sets(c, a, l) =>
                 \A b \in 1..Len(c.blocks) : b \in Succs(c.blocks[a].term) => b \in Unset(c, f, l)
<1> DEFINE N == Len(c.blocks)
           U == 1..N
           V == SUBSET U
           Next1(S) == {b \in 1..Len(c.blocks) :
                          \E a \in S : ~Sets(c, a, l) /\ b \in Succs(c.blocks[a].term)}
           a0 == {c.funs[f].blocks[1]}
           Def(A) == A = [n \in 0..Len(c.blocks) |->
                            IF n = 0 THEN a0 ELSE LET S == A[n - 1] IN S \cup Next1(S)]
           H == [S \in V |-> S \cup Next1(S)]
           G == [n \in 1..N |-> H]
<1>0. N \in Nat
    BY CrateTypes
<1>1. 0 \in 0..N /\ N \in 0..N /\ \A n \in 1..N : n \in 0..N /\ n - 1 \in 0..N /\ n # 0
    BY <1>0
<1>2. a0 \in V /\ (\A S \in V : S \cup Next1(S) \in V)
    <2>1. c.funs[f].blocks[1] \in U
        BY CrateTypes
    <2> QED BY <2>1
<1> HIDE DEF Next1, a0
<1>3. PICK g : IsIterate(g, V, N, a0, G)
    <2>1. \A S \in V : H[S] \in V
        BY <1>2
    <2>2. StaysIn(V, N, G)
        <3> HIDE DEF H, V
        <3> QED BY <2>1 DEF StaysIn
    <2> HIDE DEF N, G, V
    <2> QED BY <1>0, <1>2, <2>2, IntervalRecursion
<1>4. \A n \in 1..N : g[n] = g[n - 1] \cup Next1(g[n - 1])
    <2> TAKE n \in 1..N
    <2> HIDE DEF N, V
    <2>1. g[n - 1] \in V
        BY <1>1, <1>3 DEF IsIterate
    <2>2. G[n] = H
        OBVIOUS
    <2>3. g[n] = H[g[n - 1]]
        <3> HIDE DEF G, H
        <3> QED BY <1>3, <2>2 DEF IsIterate
    <2> QED BY <2>1, <2>3
<1>5. Def(g)
    <2>1. \A n \in 0..N : n # 0 => n \in 1..N
        BY <1>0
    <2>2. g \in [0..N -> V] /\ g[0] = a0
        BY <1>3 DEF IsIterate
    <2> QED BY <1>4, <2>1, <2>2, Zenon
<1> DEFINE A == CHOOSE A : Def(A)
<1>6. Def(A) /\ Unset(c, f, l) = A[N]
    <2>1. Def(A)
        BY <1>5, Zenon
    <2>2. Unset(c, f, l) = A[N]
        BY Zenon DEF Unset, Next1, a0
    <2> QED BY <2>1, <2>2
<1> HIDE DEF A
<1>7. A[0] = a0 /\ \A n \in 1..N : A[n] = A[n - 1] \cup Next1(A[n - 1])
    <2>1. \A n \in 0..N : A[n] = IF n = 0 THEN a0 ELSE A[n - 1] \cup Next1(A[n - 1])
        BY <1>6, Zenon
    <2> HIDE DEF N
    <2> QED BY <1>1, <2>1
<1>8. \A n \in 0..N : A[n] \in V
    <2> DEFINE S == {n \in 0..N : A[n] \in V}
    <2> HIDE DEF V, N
    <2>1. 0 \in S
        BY <1>1, <1>2, <1>7
    <2>2. \A n \in 1..N : n - 1 \in S => n \in S
        BY <1>1, <1>2, <1>7
    <2>3. \A n \in 0..N : n \in S
        <3> HIDE DEF S
        <3> QED BY <1>0, <2>1, <2>2, IntervalInduction
    <2> QED BY <2>3
<1>9. \A n \in 0..N : a0 \subseteq A[n]
    <2> DEFINE S == {n \in 0..N : a0 \subseteq A[n]}
    <2> HIDE DEF N
    <2>1. 0 \in S
        BY <1>1, <1>7
    <2>2. \A n \in 1..N : n - 1 \in S => n \in S
        BY <1>1, <1>7
    <2>3. \A n \in 0..N : n \in S
        <3> HIDE DEF S
        <3> QED BY <1>0, <2>1, <2>2, IntervalInduction
    <2> QED BY <2>3
<1>10. A[N] \subseteq U /\ H[A[N]] = A[N]
    <2>1. IsFiniteSet(U) /\ Cardinality(U) <= N
        <3>1. 1 \in Int /\ N \in Int
            BY <1>0
        <3> HIDE DEF N
        <3>2. IsFiniteSet(1..N) /\ Cardinality(1..N) = IF 1 > N THEN 0 ELSE N - 1 + 1
            BY <3>1, FS_Interval
        <3> QED BY <1>0, <3>2
    <2>2. \A X \in SUBSET U : X \subseteq H[X] /\ H[X] \subseteq U
        <3> TAKE X \in SUBSET U
        <3>1. H[X] = X \cup Next1(X) /\ X \cup Next1(X) \in V
            BY <1>2
        <3> HIDE DEF H
        <3> QED BY <3>1
    <2>3. \A n \in 1..N : A[n] = H[A[n - 1]]
        <3> TAKE n \in 1..N
        <3> HIDE DEF N, V
        <3>1. A[n - 1] \in V
            BY <1>1, <1>8
        <3> QED BY <1>7, <3>1
    <2>4. A[0] \subseteq U
        BY <1>2, <1>7
    <2> HIDE DEF U, H, N
    <2>5. GrowsIn(U, H) /\ Repeats(A, U, N, H)
        BY <2>2, <2>3, <2>4 DEF GrowsIn, Repeats
    <2> QED BY <1>0, <2>1, <2>5, GrowthStops
<1>11. A[N] \cup Next1(A[N]) = A[N] /\ a0 \subseteq A[N]
    <2> HIDE DEF N, V
    <2>1. A[N] \in V
        BY <1>1, <1>8
    <2> QED BY <1>1, <1>9, <1>10, <2>1
<1>12. ASSUME NEW a \in A[N], ~Sets(c, a, l), NEW b \in 1..Len(c.blocks),
              b \in Succs(c.blocks[a].term)
       PROVE  b \in A[N]
    <2>1. b \in Next1(A[N])
        BY <1>12 DEF Next1
    <2> QED BY <1>11, <2>1
<1> QED BY <1>6, <1>11, <1>12 DEF a0

LEMMA AfterConstant ==
    ASSUME NEW c \in Crates, ConstantsStay(c), NEW s \in States(c), After(c.blocks, s) # Failed,
           NEW x \in 1..c.funs[s.fun].size, IsConstant(c, s.fun, x)
    PROVE  After(c.blocks, s)[x] =
              IF Sets(c, s.block, x) THEN ConstOf(c, s.fun, x) ELSE s.locals[x]
<1> DEFINE n == c.funs[s.fun].size
           b == c.blocks[s.block]
           N == Len(b.stmts)
           k == ConstOf(c, s.fun, x)
<1>1. /\ n \in Nat /\ b.params \in Seq(1..n) /\ b.stmts \in Seq(Statements(n))
      /\ s.locals \in [1..n -> Value] /\ s.fun \in 1..Len(c.funs) /\ s.block \in BlocksOf(c, s.fun)
    BY GivenBlocks, StateFacts, StateTypes
<1>2. \A i \in 1..N : /\ b.stmts[i].local = x => b.stmts[i].rv = [op |-> "const", v |-> k]
                      /\ b.stmts[i].local \in 1..n
    <2>1. \A i \in 1..N : b.stmts[i].local = x => b.stmts[i].rv = [op |-> "const", v |-> k]
        BY <1>1 DEF ConstantsStay
    <2>2. \A i \in 1..N : b.stmts[i] \in Statements(n)
        BY <1>1
    <2> QED BY <2>1, <2>2 DEF Statements
<1>3. N \in Nat /\ x \in 1..n
    BY <1>1
<1> HIDE DEF n, b
<1>4. PICK L : IsRun(L, b, s.locals, n) /\ AfterStatements(b, s.locals) = L[N]
    BY <1>1, AfterRun
<1> DEFINE set(i) == \E j \in 1..i : b.stmts[j].local = x
           P(i) == L[i] # Failed => L[i][x] = IF set(i) THEN k ELSE s.locals[x]
           S == {i \in 0..N : P(i)}
<1> HIDE DEF N, k
<1>5. 0 \in S
    <2>1. L[0] = s.locals /\ ~set(0)
        BY <1>4 DEF IsRun
    <2> QED BY <1>3, <2>1
<1>6. ASSUME NEW i \in 1..N, i - 1 \in S
      PROVE  i \in S
    <2> DEFINE st == b.stmts[i]
               prev == L[i - 1]
               v == Eval(st.rv, prev, b.params)
    <2>1. L[i] = AfterOne(prev, st, b.params) /\ prev \in MaybeLocals(n)
        <3>1. i - 1 \in 0..N
            BY <1>3
        <3> QED BY <1>4, <3>1 DEF IsRun, N
    <2>2. set(i) <=> set(i - 1) \/ st.local = x
        <3>1. \A j \in 1..i : j \in 1..(i - 1) \/ j = i
            BY <1>3
        <3>2. i \in 1..i /\ \A j \in 1..(i - 1) : j \in 1..i
            BY <1>3
        <3> QED BY <3>1, <3>2
    <2>3. P(i - 1)
        BY <1>6
    <2>4. ASSUME L[i] # Failed
          PROVE  L[i][x] = IF set(i) THEN k ELSE s.locals[x]
        <3>1. prev # Failed /\ L[i] = [prev EXCEPT ![st.local] = v]
            BY <2>1, <2>4 DEF AfterOne
        <3>2. prev \in [1..n -> Value]
            BY <2>1, <3>1 DEF MaybeLocals
        <3>3. prev[x] = IF set(i - 1) THEN k ELSE s.locals[x]
            BY <2>3, <3>1
        <3>4. CASE st.local = x
            <4>1. st.rv = [op |-> "const", v |-> k]
                BY <1>2, <3>4 DEF N
            <4>2. v = k
                BY <4>1 DEF Eval, Atom
            <4> HIDE DEF v, prev, st, set
            <4> QED BY <1>3, <2>2, <3>1, <3>2, <3>4, <4>2
        <3>5. CASE st.local # x
            <4> HIDE DEF v, prev, st, set
            <4> QED BY <1>3, <2>2, <3>1, <3>2, <3>3, <3>5
        <3> QED BY <3>4, <3>5
    <2>5. i \in 0..N
        BY <1>3
    <2> QED BY <2>4, <2>5
<1>7. \A i \in 0..N : i \in S
    <2> HIDE DEF S
    <2> QED BY <1>3, <1>5, <1>6, IntervalInduction
<1>8. P(N)
    BY <1>3, <1>7
<1>9. set(N) <=> Sets(c, s.block, x)
    BY DEF Sets, N, b
<1>10. After(c.blocks, s) = L[N]
    BY <1>4 DEF After, b
<1> HIDE DEF set
<1> QED BY <1>8, <1>9, <1>10 DEF k

\* In f, at the beginning of block b, the locals l that are constants and
\* have been set on every way to b have their values.
Holds(c, f, b, l) ==
    \A x \in 1..c.funs[f].size :
        IsConstant(c, f, x) /\ b \notin Unset(c, f, x) => l[x] = ConstOf(c, f, x)

HoldsAt(c, s) == Holds(c, s.fun, s.block, s.locals)

LEMMA HoldsAfter ==
    ASSUME NEW c \in Crates, ConstantsStay(c), NEW s \in States(c), After(c.blocks, s) # Failed,
           HoldsAt(c, s), NEW b \in Succs(Term(c.blocks, s)), b \in 1..Len(c.blocks)
    PROVE  Holds(c, s.fun, b, After(c.blocks, s))
<1> SUFFICES ASSUME NEW x \in 1..c.funs[s.fun].size, IsConstant(c, s.fun, x),
                    b \notin Unset(c, s.fun, x)
             PROVE  After(c.blocks, s)[x] = ConstOf(c, s.fun, x)
    BY DEF Holds
<1>1. s.fun \in 1..Len(c.funs)
    BY StateTypes
<1>2. Sets(c, s.block, x) \/ s.block \notin Unset(c, s.fun, x)
    BY <1>1, UnsetClosed DEF Term
<1>3. After(c.blocks, s)[x] = IF Sets(c, s.block, x) THEN ConstOf(c, s.fun, x) ELSE s.locals[x]
    BY AfterConstant
<1> QED BY <1>2, <1>3 DEF HoldsAt, Holds

LEMMA HoldsStored ==
    ASSUME NEW c \in Crates, NEW f \in 1..Len(c.funs), NEW b, NEW l \in [1..c.funs[f].size -> Value],
           Holds(c, f, b, l), NEW d, ~IsConstant(c, f, d), NEW v
    PROVE  Holds(c, f, b, [l EXCEPT ![d] = v])
BY DEF Holds

LEMMA HoldsStart ==
    ASSUME NEW c \in Crates, NEW f \in 1..Len(c.funs), NEW args
    PROVE  HoldsAt(c, Start(c, f, args))
<1>1. \A x : c.funs[f].blocks[1] \in Unset(c, f, x)
    BY UnsetClosed
<1> QED BY <1>1 DEF HoldsAt, Holds, Start, State

\* It stays so wherever control goes.
LEMMA HoldsGone ==
    ASSUME NEW c \in Crates, ConstantsStay(c), NEW s \in States(c), After(c.blocks, s) # Failed,
           HoldsAt(c, s), NEW t, t = Term(c.blocks, s), t.kind = "goto",
           Passes(c.blocks, t) => Worth(c.blocks, s, t.args[1]) # Bad
    PROVE  HoldsAt(c, Gone(c.blocks, s, t))
<1> DEFINE l == After(c.blocks, s)
           w == Worth(c.blocks, s, t.args[1])
           p == c.blocks[t.target].params[1]
<1>1. t.target \in BlocksOf(c, s.fun) /\ s.fun \in 1..Len(c.funs) /\ l \in [1..c.funs[s.fun].size -> Value]
    BY GivenBlocks, GoneType, StateTypes, StateFacts
<1>2. t.target \in Succs(t) /\ t.target \in 1..Len(c.blocks)
    BY <1>1, CrateTypes DEF Succs
<1>3. Holds(c, s.fun, t.target, l)
    BY <1>2, HoldsAfter
<1>4. CASE Passes(c.blocks, t)
    <2>1. ~IsConstant(c, s.fun, p)
        <3>1. s.block \in BlocksOf(c, s.fun) /\ c.blocks[s.block].term = t
            BY StateTypes DEF Term
        <3> QED BY <1>1, <1>4, <3>1 DEF ConstantsStay
    <2>2. Gone(c.blocks, s, t) = State(s.fun, t.target, [l EXCEPT ![p] = w])
        BY <1>4 DEF Gone
    <2> HIDE DEF l, w, p
    <2>3. Holds(c, s.fun, t.target, [l EXCEPT ![p] = w])
        BY <1>1, <1>3, <2>1, HoldsStored
    <2> QED BY <2>2, <2>3 DEF HoldsAt, State
<1>5. CASE ~Passes(c.blocks, t)
    BY <1>3, <1>5 DEF Gone, HoldsAt, State
<1> QED BY <1>4, <1>5

LEMMA HoldsSwitched ==
    ASSUME NEW c \in Crates, ConstantsStay(c), NEW s \in States(c), After(c.blocks, s) # Failed,
           HoldsAt(c, s), NEW t, t = Term(c.blocks, s), t.kind = "switch"
    PROVE  HoldsAt(c, Switched(c.blocks, s, t))
<1> DEFINE b == CaseOf(t, Worth(c.blocks, s, t.disc))
<1>1. Switched(c.blocks, s, t) \in States(c) /\ Switched(c.blocks, s, t).block = b
    BY GivenBlocks, SwitchedType
<1>2. b \in 1..Len(c.blocks)
    BY <1>1, StateTypes
<1>3. b \in Succs(t)
    BY CaseAmong DEF Succs
<1> HIDE DEF b
<1>4. Holds(c, s.fun, b, After(c.blocks, s))
    BY <1>2, <1>3, HoldsAfter
<1> QED BY <1>4 DEF Switched, HoldsAt, State, b

LEMMA HoldsBack ==
    ASSUME NEW c \in Crates, ConstantsStay(c), NEW s \in States(c), After(c.blocks, s) # Failed,
           HoldsAt(c, s), NEW t, t = Term(c.blocks, s), t.kind = "call", t.target # 0, NEW v
    PROVE  HoldsAt(c, Back(c.blocks, s, t, v))
<1> DEFINE l == After(c.blocks, s)
<1>1. t.target \in BlocksOf(c, s.fun) /\ s.fun \in 1..Len(c.funs) /\ l \in [1..c.funs[s.fun].size -> Value]
    BY GivenBlocks, CallStates, StateTypes, StateFacts
<1>2. t.target \in Succs(t) /\ t.target \in 1..Len(c.blocks)
    BY <1>1, CrateTypes DEF Succs
<1>3. Holds(c, s.fun, t.target, l)
    BY <1>2, HoldsAfter
<1>4. ~IsConstant(c, s.fun, t.dest)
    <2>1. s.block \in BlocksOf(c, s.fun) /\ c.blocks[s.block].term = t
        BY StateTypes DEF Term
    <2> QED BY <1>1, <2>1 DEF ConstantsStay
<1>5. Back(c.blocks, s, t, v) = State(s.fun, t.target, [l EXCEPT ![t.dest] = v])
    BY DEF Back
<1> HIDE DEF l
<1>6. Holds(c, s.fun, t.target, [l EXCEPT ![t.dest] = v])
    BY <1>1, <1>3, <1>4, HoldsStored
<1> QED BY <1>5, <1>6 DEF HoldsAt, State

\* The arguments of a call as they are known without running anything.
Owner(c, b) == CHOOSE f \in 1..Len(c.funs) : b \in BlocksOf(c, f)

KnownArgs(c, b) ==
    [i \in 1..Len(c.blocks[b].term.args) |-> Extract(c, Owner(c, b), c.blocks[b].term.args[i])]

\* The function of the call of b with these arguments, about to begin.
Entry(c, b) == Start(c, c.blocks[b].term.func, KnownArgs(c, b))

LEMMA OwnerIs ==
    ASSUME NEW c, BlocksApart(c), NEW f \in 1..Len(c.funs), NEW b \in BlocksOf(c, f)
    PROVE  Owner(c, b) = f
BY DEF Owner, BlocksApart

\* They are the arguments it has.
LEMMA ArgumentsAreKnown ==
    ASSUME NEW c \in Crates, Promised(c), NEW s \in States(c), After(c.blocks, s) # Failed,
           HoldsAt(c, s), NEW t, t = Term(c.blocks, s), t.kind = "call",
           AllGood(KnownArgs(c, s.block))
    PROVE  Args(c.blocks, s) = KnownArgs(c, s.block)
<1> DEFINE n == c.funs[s.fun].size
           l == After(c.blocks, s)
           p == c.blocks[s.block].params
<1>1. /\ s.fun \in 1..Len(c.funs) /\ s.block \in BlocksOf(c, s.fun) /\ c.blocks[s.block].term = t
      /\ t.args \in Seq(Rvalues(n)) /\ BlocksApart(c) /\ ConstantsStay(c) /\ ConstantsAreSet(c)
    BY GivenBlocks, CallStates, StateTypes DEF Term, Promised
<1>2. Owner(c, s.block) = s.fun
    BY <1>1, OwnerIs
<1>3. ASSUME NEW i \in 1..Len(t.args)
      PROVE  Eval(t.args[i], l, p) = Extract(c, s.fun, t.args[i])
    <2> DEFINE a == t.args[i]
    <2>1. a \in Rvalues(n)
        BY <1>1
    <2>2. Extract(c, s.fun, a) # Bad
        <3> DEFINE K == [j \in 1..Len(t.args) |-> Extract(c, s.fun, t.args[j])]
        <3>1. KnownArgs(c, s.block) = K
            BY <1>1, <1>2 DEF KnownArgs
        <3>2. Len(t.args) \in Nat
            BY <1>1
        <3>3. Len(K) = Len(t.args) /\ K[i] = Extract(c, s.fun, a)
            BY <3>2
        <3> HIDE DEF K
        <3> QED BY <3>1, <3>3 DEF AllGood
    <2>3. CASE a.op = "const"
        BY <2>3 DEF Extract, Eval, Atom
    <2>4. CASE a.op = "local"
        <3>1. Extract(c, s.fun, a) = ConstOf(c, s.fun, a.id) /\ IsConstant(c, s.fun, a.id)
            BY <2>2, <2>4 DEF Extract, IsConstant
        <3>2. a.id \in 1..n
            BY <2>1, <2>4 DEF Rvalues, Atoms
        <3>3. Sets(c, s.block, a.id) \/ s.block \notin Unset(c, s.fun, a.id)
            BY <1>1, <2>4, <3>1 DEF ConstantsAreSet
        <3>4. l[a.id] = IF Sets(c, s.block, a.id) THEN ConstOf(c, s.fun, a.id) ELSE s.locals[a.id]
            BY <1>1, <3>1, <3>2, AfterConstant
        <3>5. l[a.id] = ConstOf(c, s.fun, a.id)
            BY <3>1, <3>2, <3>3, <3>4 DEF HoldsAt, Holds
        <3>6. Eval(a, l, p) = l[a.id]
            BY <2>4 DEF Eval, Atom
        <3> QED BY <3>1, <3>5, <3>6
    <2>5. CASE a.op \notin {"const", "local"}
        BY <2>2, <2>5 DEF Extract
    <2> QED BY <2>3, <2>4, <2>5
<1>4. Args(c.blocks, s) = [i \in 1..Len(t.args) |-> Eval(t.args[i], l, p)]
    BY DEF Args, EvalAll
<1>5. KnownArgs(c, s.block) = [i \in 1..Len(t.args) |-> Extract(c, s.fun, t.args[i])]
    BY <1>1, <1>2 DEF KnownArgs
<1> HIDE DEF l, p
<1> QED BY <1>3, <1>4, <1>5

-----------------------------------------------------------------------------
(* Blocks rewritten with results that are exact. *)

\* A call whose arguments are known.
Known(c, b) ==
    /\ b \in 1..Len(c.blocks) /\ \E f \in 1..Len(c.funs) : b \in BlocksOf(c, f)
    /\ c.blocks[b].term.kind = "call"
    /\ AllGood(KnownArgs(c, b))

KnownFits(c, b) == Known(c, b) /\ Fits(c.funs[c.blocks[b].term.func], KnownArgs(c, b))

\* The code of block b is what it was with the result v in place of its
\* call, and v is what the call comes to.
RewrittenAs(c, code, b, v) ==
    LET t == c.blocks[b].term IN
    /\ KnownFits(c, b) /\ Yields(c, Entry(c, b), v)
    /\ code.params = c.blocks[b].params
    /\ code.term = IF t.target = 0 THEN [kind |-> "unreachable"]
                   ELSE [kind |-> "goto", target |-> t.target, args |-> <<>>]
    /\ \A l \in [1..c.funs[Owner(c, b)].size -> Value] :
          AfterStatements(code, l) = Stored(AfterStatements(c.blocks[b], l), t.dest, v)

ExactBlocks(c, bs) ==
    \A b \in 1..Len(c.blocks) : bs[b] = c.blocks[b] \/ \E v : RewrittenAs(c, bs[b], b, v)

LEMMA ParamsKept ==
    ASSUME NEW c, NEW bs, ExactBlocks(c, bs), NEW b \in 1..Len(c.blocks)
    PROVE  bs[b].params = c.blocks[b].params
BY DEF ExactBlocks, RewrittenAs

\* A block that was not rewritten does what it did.
LEMMA AtOriginal ==
    ASSUME NEW c \in Crates, NEW bs, GoodBlocks(c, bs), ExactBlocks(c, bs), NEW s \in States(c),
           bs[s.block] = c.blocks[s.block], NEW t, t = Term(c.blocks, s)
    PROVE  /\ Term(bs, s) = t /\ After(bs, s) = After(c.blocks, s) /\ Args(bs, s) = Args(c.blocks, s)
           /\ \A rv : Worth(bs, s, rv) = Worth(c.blocks, s, rv)
           /\ After(c.blocks, s) # Failed /\ t.kind = "goto" =>
                 /\ Passes(bs, t) = Passes(c.blocks, t) /\ Gone(bs, s, t) = Gone(c.blocks, s, t)
           /\ Switched(bs, s, t) = Switched(c.blocks, s, t)
           /\ \A v : Back(bs, s, t, v) = Back(c.blocks, s, t, v)
<1>1. Term(bs, s) = t /\ After(bs, s) = After(c.blocks, s)
    BY DEF Term, After
<1>2. Args(bs, s) = Args(c.blocks, s) /\ \A rv : Worth(bs, s, rv) = Worth(c.blocks, s, rv)
    BY <1>1 DEF Args, Worth
<1>3. ASSUME After(c.blocks, s) # Failed, t.kind = "goto"
      PROVE  Passes(bs, t) = Passes(c.blocks, t) /\ Gone(bs, s, t) = Gone(c.blocks, s, t)
    <2>1. bs[t.target].params = c.blocks[t.target].params
        <3>1. t.target \in BlocksOf(c, s.fun)
            <4>1. /\ c.blocks[s.block] \in BlockOf(c, s.fun) /\ t = c.blocks[s.block].term
                BY GivenBlocks, StateFacts DEF Term
            <4> QED BY <1>3, <4>1, BlockTypes
        <3>2. t.target \in 1..Len(c.blocks)
            BY <3>1, StateTypes, CrateTypes
        <3> QED BY <3>2, ParamsKept
    <2> QED BY <1>1, <1>2, <2>1 DEF Passes, Gone
<1>4. Switched(bs, s, t) = Switched(c.blocks, s, t)
    BY <1>1, <1>2 DEF Switched
<1>5. \A v : Back(bs, s, t, v) = Back(c.blocks, s, t, v)
    BY <1>1 DEF Back
<1> QED BY <1>1, <1>2, <1>3, <1>4, <1>5

\* A block that was rewritten goes where its call would have returned to.
LEMMA AtRewritten ==
    ASSUME NEW c \in Crates, Promised(c), NEW bs, NEW s \in States(c), HoldsAt(c, s),
           NEW v, RewrittenAs(c, bs[s.block], s.block, v), NEW t, t = Term(c.blocks, s)
    PROVE  /\ After(bs, s) = Failed <=> After(c.blocks, s) = Failed
           /\ t.kind = "call" /\ AllGood(KnownArgs(c, s.block))
           /\ Fits(c.funs[t.func], KnownArgs(c, s.block))
           /\ Yields(c, Entry(c, s.block), v)
           /\ After(c.blocks, s) # Failed =>
                 Args(c.blocks, s) = KnownArgs(c, s.block)
                 /\ Start(c, t.func, Args(c.blocks, s)) = Entry(c, s.block)
           /\ Term(bs, s).kind = IF t.target = 0 THEN "unreachable" ELSE "goto"
           /\ ~Passes(bs, Term(bs, s)) \/ t.target = 0
           /\ After(c.blocks, s) # Failed /\ t.target # 0 =>
                 Gone(bs, s, Term(bs, s)) = Back(c.blocks, s, t, v)
<1> DEFINE code == bs[s.block]
           b == s.block
           t2 == Term(bs, s)
<1>1. /\ s.fun \in 1..Len(c.funs) /\ b \in BlocksOf(c, s.fun) /\ t = c.blocks[b].term
      /\ s.locals \in [1..c.funs[s.fun].size -> Value] /\ t2 = code.term /\ BlocksApart(c)
    BY StateTypes DEF Term, Promised
<1>2. /\ KnownFits(c, b) /\ Yields(c, Entry(c, b), v)
      /\ t2 = IF t.target = 0 THEN [kind |-> "unreachable"]
              ELSE [kind |-> "goto", target |-> t.target, args |-> <<>>]
      /\ \A l \in [1..c.funs[Owner(c, b)].size -> Value] :
            AfterStatements(code, l) = Stored(AfterStatements(c.blocks[b], l), t.dest, v)
    BY <1>1 DEF RewrittenAs
<1>3. Owner(c, b) = s.fun
    BY <1>1, OwnerIs
<1>4. After(bs, s) = Stored(After(c.blocks, s), t.dest, v)
    BY <1>1, <1>2, <1>3 DEF After
<1>5. t.kind = "call" /\ AllGood(KnownArgs(c, b)) /\ Fits(c.funs[t.func], KnownArgs(c, b))
    BY <1>1, <1>2 DEF KnownFits, Known
<1>6. ASSUME After(c.blocks, s) # Failed
      PROVE  After(bs, s) # Failed /\ After(bs, s) = [After(c.blocks, s) EXCEPT ![t.dest] = v]
    <2> DEFINE l == After(c.blocks, s)
               n == c.funs[s.fun].size
    <2>1. l \in [1..n -> Value] /\ n \in Nat /\ n >= 1
        BY <1>6, GivenBlocks, StateFacts
    <2> HIDE DEF l, n
    <2>2. [l EXCEPT ![t.dest] = v] # <<>>
        <3>1. DOMAIN [l EXCEPT ![t.dest] = v] = 1..n /\ 1 \in 1..n
            BY <2>1
        <3>2. DOMAIN <<>> = {}
            OBVIOUS
        <3> QED BY <3>1, <3>2
    <2> QED BY <1>4, <1>6, <2>2 DEF Stored, Failed, l
<1>7. After(c.blocks, s) = Failed => After(bs, s) = Failed
    BY <1>4 DEF Stored
<1>8. After(c.blocks, s) # Failed =>
         Args(c.blocks, s) = KnownArgs(c, b) /\ Start(c, t.func, Args(c.blocks, s)) = Entry(c, b)
    <2>1. After(c.blocks, s) # Failed => Args(c.blocks, s) = KnownArgs(c, b)
        BY <1>5, ArgumentsAreKnown
    <2> QED BY <1>1, <2>1 DEF Entry
<1>9. t2.kind = IF t.target = 0 THEN "unreachable" ELSE "goto"
    BY <1>2
<1>10. ASSUME t.target # 0
       PROVE  t2.target = t.target /\ ~Passes(bs, t2)
    <2> HIDE DEF t2
    <2>1. t2.args = <<>> /\ t2.target = t.target
        BY <1>2, <1>10
    <2> QED BY <2>1 DEF Passes
<1>11. After(c.blocks, s) # Failed /\ t.target # 0 => Gone(bs, s, t2) = Back(c.blocks, s, t, v)
    <2> HIDE DEF t2
    <2> QED BY <1>6, <1>10 DEF Gone, Back
<1> HIDE DEF t2
<1> QED BY <1>2, <1>5, <1>6, <1>7, <1>8, <1>9, <1>10, <1>11 DEF t2

\* r2 answers what r answers of the states in which constants are constant.
AgreesWith(c, r2, r) == \A s \in States(c) : HoldsAt(c, s) /\ r[s] # Bad => r2[s] = r[s]

Sound(c, r) == \A s \in States(c) : r[s] # Bad => Yields(c, s, r[s])

LEMMA StepAgrees ==
    ASSUME NEW c \in Crates, Promised(c), NEW bs, GoodBlocks(c, bs), ExactBlocks(c, bs),
           NEW r \in Answers(c), NEW r2 \in Answers(c), AgreesWith(c, r2, r), Sound(c, r),
           NEW s \in States(c), HoldsAt(c, s), Step(c, c.blocks, r, s) # Bad
    PROVE  Step(c, bs, r2, s) = Step(c, c.blocks, r, s)
<1> DEFINE B == c.blocks
           t == Term(B, s)
<1>1. After(B, s) # Failed /\ Step(c, B, r, s) = Ended(c, B, r, s, t) /\ Ended(c, B, r, s, t) # Bad
    BY DEF Step
<1>2. /\ \A x \in States(c) : HoldsAt(c, x) /\ r[x] # Bad => r2[x] = r[x]
      /\ \A x \in States(c) : r[x] # Bad => Yields(c, x, r[x])
      /\ ConstantsStay(c)
      /\ \A x \in States(c) : r[x] # Bad => r[x] \in Value
    BY DEF AgreesWith, Sound, Promised, Answers, MaybeValue
<1>3. GoodBlocks(c, B)
    BY GivenBlocks
<1>4. CASE bs[s.block] = B[s.block]
    <2>0. /\ Term(bs, s) = t /\ After(bs, s) = After(B, s) /\ Args(bs, s) = Args(B, s)
          /\ \A rv : Worth(bs, s, rv) = Worth(B, s, rv)
          /\ t.kind = "goto" => Passes(bs, t) = Passes(B, t) /\ Gone(bs, s, t) = Gone(B, s, t)
          /\ Switched(bs, s, t) = Switched(B, s, t)
          /\ \A v : Back(bs, s, t, v) = Back(B, s, t, v)
        <3> HIDE DEF t
        <3> QED BY <1>1, <1>4, AtOriginal DEF t
    <2>1. Step(c, bs, r2, s) = Ended(c, bs, r2, s, t)
        BY <1>1, <2>0 DEF Step
    <2>2. CASE t.kind = "return"
        <3> DEFINE f == c.funs[s.fun]
        <3>1. Ended(c, B, r, s, t) = ToConst(After(B, s)[f.ret], f)
            BY <2>2 DEF Ended
        <3>2. Ended(c, bs, r2, s, t) = ToConst(After(bs, s)[f.ret], f)
            BY <2>2 DEF Ended
        <3> HIDE DEF f, t
        <3> QED BY <1>1, <2>0, <2>1, <3>1, <3>2
    <2>3. CASE t.kind = "goto"
        <3>1. Ended(c, B, r, s, t) = r[Gone(B, s, t)] /\ (Passes(B, t) => Worth(B, s, t.args[1]) # Bad)
            BY <1>1, <2>3 DEF Ended
        <3>2. Ended(c, bs, r2, s, t) = r2[Gone(B, s, t)]
            BY <2>0, <2>3, <3>1 DEF Ended
        <3> HIDE DEF t
        <3>3. Gone(B, s, t) \in States(c) /\ HoldsAt(c, Gone(B, s, t))
            BY <1>1, <1>2, <1>3, <2>3, <3>1, GoneType, HoldsGone DEF t
        <3> QED BY <1>1, <1>2, <2>1, <3>1, <3>2, <3>3
    <2>4. CASE t.kind = "switch"
        <3>1. Ended(c, B, r, s, t) = r[Switched(B, s, t)] /\ Worth(B, s, t.disc) # Bad
            BY <1>1, <2>4 DEF Ended
        <3>2. Ended(c, bs, r2, s, t) = r2[Switched(B, s, t)]
            BY <2>0, <2>4, <3>1 DEF Ended
        <3> HIDE DEF t
        <3>3. Switched(B, s, t) \in States(c) /\ HoldsAt(c, Switched(B, s, t))
            BY <1>1, <1>2, <1>3, <2>4, SwitchedType, HoldsSwitched DEF t
        <3> QED BY <1>1, <1>2, <2>1, <3>1, <3>2, <3>3
    <2>5. CASE t.kind = "call"
        <3> DEFINE e == Start(c, t.func, Args(B, s))
                   v == r[e]
        <3>1. Ended(c, B, r, s, t) = Called(c, B, r, s, t) /\ Ended(c, bs, r2, s, t) = Called(c, bs, r2, s, t)
            BY <2>5 DEF Ended
        <3>2. /\ AllGood(Args(B, s)) /\ Fits(c.funs[t.func], Args(B, s)) /\ t.target # 0 /\ v # Bad
              /\ Called(c, B, r, s, t) = r[Back(B, s, t, v)]
            <4> HIDE DEF t
            <4> QED BY <1>1, <3>1 DEF Called
        <3>3. e \in States(c) /\ HoldsAt(c, e)
            <4> HIDE DEF t
            <4>1. t.func \in 1..Len(c.funs) /\ e \in States(c)
                BY <1>1, <1>3, <2>5, <3>2, CallStates DEF t
            <4> QED BY <4>1, HoldsStart
        <3>4. r2[e] = v /\ v \in Value
            <4> HIDE DEF e
            <4> QED BY <1>2, <3>2, <3>3
        <3>5. Called(c, bs, r2, s, t) = r2[Back(B, s, t, v)]
            <4> HIDE DEF t, v
            <4> QED BY <2>0, <3>2, <3>4 DEF Called
        <3> HIDE DEF t, v, e
        <3>6. Back(B, s, t, v) \in States(c) /\ HoldsAt(c, Back(B, s, t, v))
            BY <1>1, <1>2, <1>3, <2>5, <3>2, <3>4, CallStates, HoldsBack DEF t
        <3> QED BY <1>1, <1>2, <2>1, <3>1, <3>2, <3>5, <3>6
    <2>6. CASE t.kind \notin {"return", "goto", "switch", "call"}
        BY <1>1, <2>6 DEF Ended
    <2> QED BY <2>2, <2>3, <2>4, <2>5, <2>6
<1>5. ASSUME NEW v, RewrittenAs(c, bs[s.block], s.block, v)
      PROVE  Step(c, bs, r2, s) = Step(c, B, r, s)
    <2> DEFINE e == Start(c, t.func, Args(B, s))
               t2 == Term(bs, s)
    <2>1. /\ After(bs, s) # Failed /\ t.kind = "call" /\ Yields(c, e, v)
          /\ t2.kind = IF t.target = 0 THEN "unreachable" ELSE "goto"
          /\ ~Passes(bs, t2) \/ t.target = 0
          /\ t.target # 0 => Gone(bs, s, t2) = Back(B, s, t, v)
        <3> HIDE DEF t
        <3> QED BY <1>1, <1>5, AtRewritten DEF t
    <2>2. Ended(c, B, r, s, t) = Called(c, B, r, s, t)
        BY <2>1 DEF Ended
    <2> HIDE DEF t, t2
    <2>3. /\ t.target # 0 /\ r[e] # Bad /\ Called(c, B, r, s, t) = r[Back(B, s, t, r[e])]
        BY <1>1, <2>2 DEF Called
    <2> HIDE DEF e
    <2>4. r[e] = v
        <3>1. e \in States(c)
            BY <2>1 DEF Yields
        <3>2. Yields(c, e, r[e])
            BY <1>2, <2>3, <3>1
        <3> QED BY <2>1, <3>2, YieldsUnique
    <2>5. Step(c, bs, r2, s) = r2[Back(B, s, t, v)]
        <3>1. Ended(c, bs, r2, s, t2) = r2[Gone(bs, s, t2)]
            BY <2>1, <2>3 DEF Ended
        <3> QED BY <2>1, <2>3, <3>1 DEF Step, t2
    <2>6. Back(B, s, t, v) \in States(c) /\ HoldsAt(c, Back(B, s, t, v))
        <3>1. v \in Value
            BY <2>1 DEF Yields
        <3> QED BY <1>1, <1>2, <1>3, <2>1, <2>3, <3>1, CallStates, HoldsBack DEF t
    <2> QED BY <1>1, <1>2, <2>2, <2>3, <2>4, <2>5, <2>6
<1> QED
    <2>1. s.block \in 1..Len(c.blocks)
        BY StateTypes
    <2> QED BY <1>4, <1>5, <2>1 DEF ExactBlocks

\* At every depth, what has a value keeps it when calls are replaced.
LEMMA MeaningKept ==
    ASSUME NEW c \in Crates, Promised(c), NEW bs, GoodBlocks(c, bs), ExactBlocks(c, bs), NEW n \in Nat
    PROVE  AgreesWith(c, Within(c, bs)[n], Within(c, c.blocks)[n])
<1> DEFINE W == Within(c, c.blocks)
           W2 == Within(c, bs)
<1>1. Deepens(c, c.blocks, W) /\ Deepens(c, bs, W2)
    BY GivenBlocks, WithinDef
<1>2. \A k \in Nat : Sound(c, W[k])
    <2> SUFFICES ASSUME NEW k \in Nat, NEW s \in States(c), W[k][s] # Bad
                 PROVE  Yields(c, s, W[k][s])
        BY DEF Sound
    <2>1. W[k] \in Answers(c)
        BY <1>1 DEF Deepens
    <2>2. W[k][s] \in Value
        BY <2>1 DEF Answers, MaybeValue
    <2> QED BY <2>2 DEF Yields
<1> HIDE DEF W, W2
<1>3. \A k \in Nat : W[k] \in Answers(c) /\ W2[k] \in Answers(c)
    BY <1>1 DEF Deepens
<1> DEFINE T == {k \in Nat : AgreesWith(c, W2[k], W[k])}
<1>4. 0 \in T
    BY <1>1 DEF Deepens, AgreesWith
<1>5. ASSUME NEW k \in Nat, k \in T
      PROVE  k + 1 \in T
    <2> DEFINE r == W[k]
               r2 == W2[k]
    <2>1. r \in Answers(c) /\ r2 \in Answers(c) /\ AgreesWith(c, r2, r) /\ Sound(c, r)
        BY <1>2, <1>3, <1>5
    <2>2. W[k + 1] = [s \in States(c) |-> Step(c, c.blocks, r, s)]
          /\ W2[k + 1] = [s \in States(c) |-> Step(c, bs, r2, s)]
        BY <1>1 DEF Deepens
    <2> HIDE DEF r, r2
    <2>3. \A s \in States(c) : HoldsAt(c, s) /\ Step(c, c.blocks, r, s) # Bad =>
             Step(c, bs, r2, s) = Step(c, c.blocks, r, s)
        BY <2>1, StepAgrees
    <2>4. AgreesWith(c, W2[k + 1], W[k + 1])
        BY <2>2, <2>3 DEF AgreesWith
    <2> QED BY <2>4
<1>6. \A k \in Nat : k \in T
    <2> HIDE DEF T
    <2> QED BY <1>4, <1>5, NatSetInduction
<1> QED BY <1>6 DEF W, W2

-----------------------------------------------------------------------------
(* A step of the evaluator, on blocks that have been rewritten: what the   *)
(* next state comes to, the state comes to.                                *)

Leads(c, s2, s) == HoldsAt(c, s2) /\ Tells(c, s2, s)

LEMMA GotoTells ==
    ASSUME NEW c \in Crates, Promised(c), NEW bs, GoodBlocks(c, bs), ExactBlocks(c, bs),
           NEW s \in States(c), HoldsAt(c, s), After(bs, s) # Failed, NEW t, t = Term(bs, s),
           t.kind = "goto", Passes(bs, t) => Worth(bs, s, t.args[1]) # Bad
    PROVE  Leads(c, Gone(bs, s, t), s)
<1> DEFINE B == c.blocks
           t0 == Term(B, s)
<1>0. ConstantsStay(c) /\ GoodBlocks(c, B) /\ s.block \in 1..Len(c.blocks)
    BY GivenBlocks, StateTypes DEF Promised
<1>1. CASE bs[s.block] = B[s.block]
    <2>0. Term(bs, s) = t0 /\ After(bs, s) = After(B, s)
          /\ \A rv : Worth(bs, s, rv) = Worth(B, s, rv)
        BY <1>1, AtOriginal
    <2>1. t0 = t /\ After(B, s) # Failed
        BY <2>0
    <2>2. Passes(bs, t) = Passes(B, t) /\ Gone(bs, s, t) = Gone(B, s, t)
        <3> HIDE DEF t0
        <3> QED BY <1>1, <2>1, AtOriginal DEF t0
    <2>3. Passes(B, t) => Worth(B, s, t.args[1]) # Bad
        BY <2>0, <2>2
    <2>4. HoldsAt(c, Gone(B, s, t))
        <3> HIDE DEF t0
        <3> QED BY <1>0, <2>1, <2>3, HoldsGone DEF t0
    <2>5. \A v : Yields(c, Gone(B, s, t), v) => Yields(c, s, v)
        <3> HIDE DEF t0
        <3> QED BY <2>1, <2>3, YieldsGoto DEF t0
    <2> QED BY <2>2, <2>4, <2>5 DEF Leads, Tells
<1>2. ASSUME NEW v, RewrittenAs(c, bs[s.block], s.block, v)
      PROVE  Leads(c, Gone(bs, s, t), s)
    <2>1. /\ After(B, s) # Failed /\ t0.kind = "call" /\ AllGood(KnownArgs(c, s.block))
          /\ Fits(c.funs[t0.func], KnownArgs(c, s.block)) /\ Yields(c, Entry(c, s.block), v)
          /\ Args(B, s) = KnownArgs(c, s.block)
          /\ Start(c, t0.func, Args(B, s)) = Entry(c, s.block)
          /\ t.kind = IF t0.target = 0 THEN "unreachable" ELSE "goto"
          /\ t0.target # 0 => Gone(bs, s, t) = Back(B, s, t0, v)
        <3> HIDE DEF t0
        <3> QED BY <1>2, AtRewritten DEF t0
    <2> HIDE DEF t0
    <2>2. t0.target # 0 /\ Gone(bs, s, t) = Back(B, s, t0, v)
        BY <2>1
    <2>3. HoldsAt(c, Back(B, s, t0, v))
        BY <1>0, <2>1, <2>2, HoldsBack DEF t0
    <2>4. \A w : Yields(c, Back(B, s, t0, v), w) => Yields(c, s, w)
        BY <2>1, <2>2, YieldsCall DEF t0
    <2> QED BY <2>2, <2>3, <2>4 DEF Leads, Tells
<1> QED BY <1>0, <1>1, <1>2 DEF ExactBlocks

\* What does not end in a goto was not rewritten.
LEMMA OtherIsOriginal ==
    ASSUME NEW c, NEW bs, ExactBlocks(c, bs), NEW b \in 1..Len(c.blocks),
           bs[b].term.kind \notin {"goto", "unreachable"}
    PROVE  bs[b] = c.blocks[b]
<1>1. ASSUME NEW v, RewrittenAs(c, bs[b], b, v)
      PROVE  bs[b].term.kind \in {"goto", "unreachable"}
    <2>1. \/ bs[b].term = [kind |-> "unreachable"]
          \/ bs[b].term = [kind |-> "goto", target |-> c.blocks[b].term.target, args |-> <<>>]
        BY <1>1 DEF RewrittenAs
    <2> QED BY <2>1
<1> QED BY <1>1 DEF ExactBlocks

LEMMA SwitchTells ==
    ASSUME NEW c \in Crates, Promised(c), NEW bs, GoodBlocks(c, bs), ExactBlocks(c, bs),
           NEW s \in States(c), HoldsAt(c, s), After(bs, s) # Failed, NEW t, t = Term(bs, s),
           t.kind = "switch", Worth(bs, s, t.disc) # Bad
    PROVE  Leads(c, Switched(bs, s, t), s)
<1> DEFINE B == c.blocks
<1>0. ConstantsStay(c) /\ s.block \in 1..Len(c.blocks)
    BY StateTypes DEF Promised
<1>1. bs[s.block] = B[s.block]
    BY <1>0, OtherIsOriginal DEF Term
<1>2. t = Term(B, s)
    BY <1>1 DEF Term
<1>3. After(B, s) # Failed /\ Worth(B, s, t.disc) # Bad /\ Switched(bs, s, t) = Switched(B, s, t)
    BY <1>1, <1>2, AtOriginal
<1>4. HoldsAt(c, Switched(B, s, t))
    BY <1>0, <1>2, <1>3, HoldsSwitched
<1>5. \A v : Yields(c, Switched(B, s, t), v) => Yields(c, s, v)
    BY <1>2, <1>3, YieldsSwitch
<1> QED BY <1>3, <1>4, <1>5 DEF Leads, Tells

\* A call inside a consteval function: its arguments are known, and where
\* it returns to with what they come to leads on.
LEMMA CallTells ==
    ASSUME NEW c \in Crates, Promised(c), NEW bs, GoodBlocks(c, bs), ExactBlocks(c, bs),
           NEW s \in States(c), HoldsAt(c, s), c.funs[s.fun].consteval,
           After(bs, s) # Failed, NEW t, t = Term(bs, s),
           t.kind = "call", AllGood(Args(bs, s)), Fits(c.funs[t.func], Args(bs, s))
    PROVE  /\ KnownFits(c, s.block) /\ t = c.blocks[s.block].term
           /\ Start(c, t.func, Args(bs, s)) = Entry(c, s.block)
           /\ t.target # 0 => \A u \in Value : Yields(c, Entry(c, s.block), u) =>
                 Leads(c, Back(bs, s, t, u), s)
<1> DEFINE B == c.blocks
<1>0. /\ ConstantsStay(c) /\ CallsAreFixed(c) /\ BlocksApart(c) /\ s.block \in 1..Len(c.blocks)
      /\ s.fun \in 1..Len(c.funs) /\ s.block \in BlocksOf(c, s.fun)
    BY StateTypes DEF Promised
<1>1. bs[s.block] = B[s.block]
    BY <1>0, OtherIsOriginal DEF Term
<1>2. t = Term(B, s) /\ t = B[s.block].term
    BY <1>1 DEF Term
<1>3. After(B, s) # Failed /\ Args(bs, s) = Args(B, s) /\ \A v : Back(bs, s, t, v) = Back(B, s, t, v)
    <2> HIDE DEF B
    <2>1. After(bs, s) = After(B, s) /\ Args(bs, s) = Args(B, s)
        BY <1>1, <1>2, AtOriginal DEF B
    <2>2. \A v : Back(bs, s, t, v) = Back(B, s, t, v)
        BY <2>1 DEF Back
    <2> QED BY <2>1, <2>2
<1>4. AllGood(KnownArgs(c, s.block))
    <2>1. \A i \in 1..Len(t.args) : Extract(c, s.fun, t.args[i]) # Bad
        BY <1>0, <1>2 DEF CallsAreFixed
    <2>2. Owner(c, s.block) = s.fun
        BY <1>0, OwnerIs
    <2> DEFINE K == [i \in 1..Len(t.args) |-> Extract(c, s.fun, t.args[i])]
    <2>3. KnownArgs(c, s.block) = K
        BY <1>2, <2>2 DEF KnownArgs
    <2>4. Len(t.args) \in Nat
        <3>1. t.args \in Seq(Rvalues(c.funs[s.fun].size))
            BY <1>2, <1>3, GivenBlocks, CallStates
        <3> QED BY <3>1
    <2>5. Len(K) = Len(t.args) /\ \A i \in 1..Len(t.args) : K[i] = Extract(c, s.fun, t.args[i])
        BY <2>4
    <2> HIDE DEF K
    <2> QED BY <2>1, <2>3, <2>5 DEF AllGood
<1>5. Args(B, s) = KnownArgs(c, s.block)
    BY <1>2, <1>3, <1>4, ArgumentsAreKnown
<1>6. KnownFits(c, s.block)
    BY <1>0, <1>2, <1>3, <1>4, <1>5 DEF KnownFits, Known
<1>7. Start(c, t.func, Args(bs, s)) = Entry(c, s.block) /\ Start(c, t.func, Args(B, s)) = Entry(c, s.block)
    BY <1>2, <1>3, <1>5 DEF Entry
<1>8. ASSUME t.target # 0, NEW u \in Value, Yields(c, Entry(c, s.block), u)
      PROVE  Leads(c, Back(bs, s, t, u), s)
    <2>1. HoldsAt(c, Back(B, s, t, u))
        BY <1>0, <1>2, <1>3, <1>8, HoldsBack
    <2>2. ASSUME NEW v, Yields(c, Back(B, s, t, u), v)
          PROVE  Yields(c, s, v)
        <3>1. Yields(c, Start(c, t.func, Args(B, s)), u)
            BY <1>7, <1>8
        <3>2. AllGood(Args(B, s)) /\ Fits(c.funs[t.func], Args(B, s))
            BY <1>3
        <3> QED BY <1>2, <1>3, <1>8, <2>2, <3>1, <3>2, YieldsCall
    <2> QED BY <1>3, <2>1, <2>2 DEF Leads, Tells
<1> QED BY <1>2, <1>6, <1>7, <1>8

\* No result is truncated.
LEMMA ResultKept ==
    ASSUME NEW c \in Crates, ResultsFit(c), NEW f \in 1..Len(c.funs), NEW v \in Value,
           ToConst(v, c.funs[f]) # Bad
    PROVE  ToConst(v, c.funs[f]) = v
<1>1. v.k = c.funs[f].ty
    BY DEF ToConst
<1>2. CASE v.k = "int"
    <2> DEFINE low == -Half
               span == 2 * Half
    <2>1. c.funs[f].low = low /\ c.funs[f].span = span
        BY <1>1, <1>2 DEF ResultsFit
    <2>2. low \in Int /\ span \in Nat \ {0} /\ v.n \in Int /\ low <= v.n /\ v.n < low + span
        BY ValueTypes, WordAssumption DEF Word
    <2> HIDE DEF low, span
    <2>3. Wrap(v.n, low, span) = v.n
        BY <2>2, WrapType
    <2>4. ToConst(v, c.funs[f]) = IntValue(v.n)
        BY <1>1, <1>2, <2>1, <2>3 DEF ToConst
    <2>5. v = IntValue(v.n)
        BY <1>2 DEF IntValue, val, Value
    <2> QED BY <2>4, <2>5
<1>3. CASE v.k # "int"
    BY <1>1, <1>3 DEF ToConst
<1> QED BY <1>2, <1>3

LEMMA ReturnTells ==
    ASSUME NEW c \in Crates, Promised(c), NEW bs, GoodBlocks(c, bs), ExactBlocks(c, bs),
           NEW s \in States(c), After(bs, s) # Failed, NEW t, t = Term(bs, s), t.kind = "return",
           NEW v, v = After(bs, s)[c.funs[s.fun].ret], ToConst(v, c.funs[s.fun]) # Bad
    PROVE  v \in Value /\ ToConst(v, c.funs[s.fun]) = v /\ Yields(c, s, v)
<1> DEFINE B == c.blocks
           f == c.funs[s.fun]
<1>0. /\ ResultsFit(c) /\ s.block \in 1..Len(c.blocks) /\ s.fun \in 1..Len(c.funs)
      /\ f.ret \in 1..f.size
    BY StateTypes DEF Promised
<1>1. bs[s.block] = B[s.block]
    BY <1>0, OtherIsOriginal DEF Term
<1>2. t = Term(B, s)
    BY <1>1 DEF Term
<1>3. After(bs, s) = After(B, s)
    BY <1>1, <1>2, AtOriginal
<1>4. v \in Value
    <2>1. After(bs, s) \in [1..f.size -> Value]
        BY StateFacts
    <2> HIDE DEF f
    <2> QED BY <1>0, <2>1 DEF f
<1>5. ToConst(v, f) = v
    BY <1>0, <1>4, ResultKept
<1>6. v = ToConst(After(B, s)[f.ret], f)
    BY <1>3, <1>5
<1>7. Yields(c, s, v)
    BY <1>2, <1>3, <1>4, <1>6, YieldsReturn
<1> QED BY <1>4, <1>5, <1>7

-----------------------------------------------------------------------------
(* The invariant. *)

KnownFrames(c) ==
    {k \in Frames(c) : KnownFits(c, k.callBlock) /\ k.fun = c.blocks[k.callBlock].term.func}

KnownJobs(c) ==
    {j \in Jobs(c) : /\ Known(c, j.block) /\ j.func = c.blocks[j.block].term.func
                     /\ j.args = KnownArgs(c, j.block)}

ExactResults(c) ==
    {r \in [func : 1..Len(c.funs), args : Seq(Value), value : Value] :
        Yields(c, Start(c, r.func, r.args), r.value)}

\* The state a context is in.
StateOf(k) == State(k.fun, k.block, k.locals)

\* The call that made a context comes to what the context comes to.
OnTop(c, k) == Leads(c, StateOf(k), Entry(c, k.callBlock))

\* So it will when the context above returns with its result.
Resumed(k, a, u) == State(k.fun, a.target, WithLocal(k.locals, a.dest, u))

Awaits(c, k, a) ==
    a.target # 0 => \A u \in Value : Yields(c, Entry(c, a.callBlock), u) =>
        Leads(c, Resumed(k, a, u), Entry(c, k.callBlock))

\* The stack, from the pending call up.
Waits(c, st, pend) ==
    /\ st \in Seq(KnownFrames(c)) /\ st # <<>>
    /\ \A i \in 1..Len(st) : st[i].caller = i - 1
    /\ \A i \in 2..Len(st) : Awaits(c, st[i - 1], st[i])
    /\ pend # <<>> /\ st[1].callBlock = Head(pend).block

RunsExactly(c, st, pend) == Waits(c, st, pend) /\ OnTop(c, st[Len(st)])

ExactInv ==
    /\ ExactBlocks(crate, blocks)
    /\ pending \in Seq(KnownJobs(crate))
    /\ results \in Seq(ExactResults(crate))
    /\ phase = "run" => RunsExactly(crate, stack, pending)

PromiseInv == Promised(crate) => ExactInv

\* A promised crate that has kept its promise so far.
Kept == IInv /\ Promised(crate) /\ ExactInv

-----------------------------------------------------------------------------
(* Rewriting a block with an exact result. *)

LEMMA StoredTwice ==
    ASSUME NEW n \in Nat, NEW l \in MaybeLocals(n), NEW d, NEW v, n >= 1
    PROVE  Stored(Stored(l, d, v), d, v) = Stored(l, d, v)
<1>1. CASE l = Failed
    BY <1>1 DEF Stored
<1>2. CASE l # Failed
    <2> DEFINE l2 == [l EXCEPT ![d] = v]
    <2>1. l \in [1..n -> Value]
        BY <1>2 DEF MaybeLocals
    <2>2. DOMAIN l2 = 1..n /\ 1 \in 1..n /\ DOMAIN <<>> = {}
        BY <2>1
    <2>3. [l2 EXCEPT ![d] = v] = l2
        BY <2>1
    <2> HIDE DEF l2
    <2>4. l2 # Failed
        BY <2>2 DEF Failed
    <2> QED BY <1>2, <2>3, <2>4 DEF Stored, l2
<1> QED BY <1>1, <1>2

\* One block, to which its result is added, perhaps once more.
LEMMA ResultAdded ==
    ASSUME NEW c \in Crates, BlocksApart(c), NEW f \in 1..Len(c.funs), NEW b \in BlocksOf(c, f),
           NEW old \in BlockOf(c, f), old = c.blocks[b] \/ \E w : RewrittenAs(c, old, b, w),
           KnownFits(c, b), NEW v, Yields(c, Entry(c, b), v), NEW t, t = c.blocks[b].term,
           NEW new, new.params = old.params,
           new.stmts = Append(old.stmts, [kind |-> "let", local |-> t.dest, rv |-> [op |-> "const", v |-> v]]),
           new.term = IF t.target = 0 THEN [kind |-> "unreachable"]
                      ELSE [kind |-> "goto", target |-> t.target, args |-> <<>>]
    PROVE  RewrittenAs(c, new, b, v)
<1> DEFINE n == c.funs[f].size
           d == t.dest
<1>0. /\ c.blocks[b] \in BlockOf(c, f) /\ n \in Nat /\ c.funs[f].ret \in 1..n /\ b \in 1..Len(c.blocks)
    BY CrateTypes
<1>1. /\ c.blocks[b] \in BlockOf(c, f) /\ n \in Nat /\ n >= 1 /\ b \in 1..Len(c.blocks)
      /\ t.kind = "call" /\ v \in Value
    <2>1. t.kind = "call"
        BY DEF KnownFits, Known
    <2>2. v \in Value
        BY DEF Yields
    <2> HIDE DEF n
    <2> QED BY <1>0, <2>1, <2>2
<1>2. d \in 1..n
    BY <1>1, BlockTypes
<1>3. Owner(c, b) = f
    BY OwnerIs
<1>4. /\ old.params \in Seq(1..n) /\ old.stmts \in Seq(Statements(n))
      /\ c.blocks[b].params \in Seq(1..n) /\ c.blocks[b].stmts \in Seq(Statements(n))
    BY <1>1, BlockTypes
<1>5. AddsResult(new, old, d, v)
    BY DEF AddsResult
<1> HIDE DEF n, d
<1>6. \A l \in [1..n -> Value] : AfterStatements(new, l) = Stored(AfterStatements(old, l), d, v)
    <2> TAKE l \in [1..n -> Value]
    <2> QED BY <1>1, <1>2, <1>4, <1>5, AfterResult
<1>7. CASE old = c.blocks[b]
    BY <1>3, <1>6, <1>7 DEF RewrittenAs, n, d
<1>8. ASSUME NEW w, RewrittenAs(c, old, b, w)
      PROVE  RewrittenAs(c, new, b, v)
    <2>1. w = v
        BY <1>8, YieldsUnique DEF RewrittenAs
    <2>2. /\ old.params = c.blocks[b].params
          /\ \A l \in [1..n -> Value] :
                AfterStatements(old, l) = Stored(AfterStatements(c.blocks[b], l), d, v)
        BY <1>3, <1>8, <2>1 DEF RewrittenAs, n, d
    <2>3. \A l \in [1..n -> Value] :
             AfterStatements(new, l) = Stored(AfterStatements(c.blocks[b], l), d, v)
        <3> TAKE l \in [1..n -> Value]
        <3> DEFINE a == AfterStatements(c.blocks[b], l)
        <3>1. a \in [1..n -> Value] \cup {Failed}
            BY <1>1, <1>4, AfterType
        <3> HIDE DEF a
        <3>2. a \in MaybeLocals(n)
            BY <3>1 DEF MaybeLocals
        <3>3. Stored(Stored(a, d, v), d, v) = Stored(a, d, v)
            BY <1>1, <3>2, StoredTwice
        <3> QED BY <1>6, <2>2, <3>3 DEF a
    <2> QED BY <1>3, <2>2, <2>3 DEF RewrittenAs, n, d
<1> QED BY <1>7, <1>8

LEMMA RewritingIsExact ==
    ASSUME IInv, Promised(crate), ExactBlocks(crate, blocks), NEW b, KnownFits(crate, b), NEW v,
           Yields(crate, Entry(crate, b), v), NEW dest, NEW target,
           dest = crate.blocks[b].term.dest, target = crate.blocks[b].term.target,
           blocks' = Rewritten(b, dest, v, target)
    PROVE  ExactBlocks(crate, blocks')
<1> DEFINE N == Len(crate.blocks)
           stmt == [kind |-> "let", local |-> dest, rv |-> [op |-> "const", v |-> v]]
           T == IF target = 0 THEN [kind |-> "unreachable"]
                ELSE [kind |-> "goto", target |-> target, args |-> <<>>]
           old == blocks[b]
           s2 == Append(old.stmts, stmt)
           new == [params |-> old.params, stmts |-> s2, term |-> T]
<1>1. /\ crate \in Crates /\ b \in 1..N /\ blocks = [i \in 1..N |-> blocks[i]] /\ BlocksApart(crate)
      /\ \A f \in 1..Len(crate.funs) : \A i \in BlocksOf(crate, f) : blocks[i] \in BlockOf(crate, f)
    BY DEF IInv, Typed, BlocksInv, KnownFits, Known, Promised
<1>2. PICK g \in 1..Len(crate.funs) : b \in BlocksOf(crate, g)
    BY DEF KnownFits, Known
<1>3. old \in BlockOf(crate, g) /\ old = [params |-> old.params, stmts |-> old.stmts, term |-> old.term]
    BY <1>1, <1>2, BlockTypes
<1>4. blocks' = [blocks EXCEPT ![b] = new]
    <2>1. blocks' = [blocks EXCEPT ![b] = [[old EXCEPT !.stmts = s2] EXCEPT !.term = T]]
        BY <1>1 DEF Rewritten
    <2>2. [[old EXCEPT !.stmts = s2] EXCEPT !.term = T] = new
        <3> HIDE DEF s2, T, old
        <3> DEFINE R == [params |-> old.params, stmts |-> old.stmts, term |-> old.term]
                   R1 == [params |-> old.params, stmts |-> s2, term |-> old.term]
        <3>1. [R EXCEPT !.stmts = s2] = R1
            OBVIOUS
        <3>2. [R1 EXCEPT !.term = T] = new
            OBVIOUS
        <3>3. old = R
            BY <1>3
        <3> HIDE DEF R, R1, new
        <3> QED BY <3>1, <3>2, <3>3
    <2> QED BY <2>1, <2>2
<1>5. \A i \in 1..N : blocks'[i] = IF i = b THEN new ELSE blocks[i]
    <2> HIDE DEF new
    <2> QED BY <1>1, <1>4
<1>6. RewrittenAs(crate, new, b, v)
    <2>1. old = crate.blocks[b] \/ \E w : RewrittenAs(crate, old, b, w)
        BY <1>1 DEF ExactBlocks
    <2>2. new.params = old.params /\ new.stmts = s2 /\ new.term = T
        OBVIOUS
    <2> HIDE DEF new, old
    <2>3. crate \in Crates /\ BlocksApart(crate)
        BY <1>1
    <2> QED BY <1>2, <1>3, <2>1, <2>2, <2>3, ResultAdded
<1> HIDE DEF new
<1> QED BY <1>5, <1>6 DEF ExactBlocks

-----------------------------------------------------------------------------
(* The stack. *)

LEMMA FramesKnown ==
    ASSUME NEW c \in Crates, NEW st, NEW pend, Waits(c, st, pend)
    PROVE  /\ st \in Seq(Frames(c)) /\ Len(st) \in Nat /\ Len(st) >= 1
           /\ \A i \in 1..Len(st) : st[i] \in KnownFrames(c) /\ st[i] \in Frames(c)
<1> DEFINE K == KnownFrames(c)
           F == Frames(c)
<1>1. st \in Seq(K) /\ st # <<>>
    BY DEF Waits
<1>2. \A k \in K : k \in F
    BY DEF KnownFrames
<1> HIDE DEF K, F
<1>3. \A i \in 1..Len(st) : st[i] \in K /\ st[i] \in F
    BY <1>1, <1>2
<1>4. st \in Seq(F)
    BY <1>1, <1>3
<1> QED BY <1>1, <1>3, <1>4, FirstElement DEF K, F

LEMMA KnownFrame ==
    ASSUME NEW c, NEW k
    PROVE  k \in KnownFrames(c) <=> /\ k \in Frames(c) /\ KnownFits(c, k.callBlock)
                                    /\ k.fun = c.blocks[k.callBlock].term.func
BY DEF KnownFrames

LEMMA PlacedKnown ==
    ASSUME NEW c \in Crates, NEW k \in KnownFrames(c), NEW b \in BlocksOf(c, k.fun),
           NEW l \in [1..c.funs[k.fun].size -> Value]
    PROVE  Placed(k, b, l) \in KnownFrames(c)
<1> DEFINE k2 == Placed(k, b, l)
<1>1. k2.fun = k.fun /\ k2.callBlock = k.callBlock
    BY DEF Placed
<1>2. /\ k \in Frames(c) /\ KnownFits(c, k.callBlock)
      /\ k.fun = c.blocks[k.callBlock].term.func
    BY KnownFrame
<1>3. k2 \in Frames(c)
    <2>1. /\ k.fun \in 1..Len(c.funs) /\ c.funs[k.fun].consteval
          /\ k.caller \in Nat /\ k.dest \in Nat /\ k.target \in Nat
          /\ IsCall(c, k.callBlock, k.dest, k.target)
        BY <1>2, FrameTypes
    <2> QED BY <2>1, FrameMade DEF Placed
<1> HIDE DEF k2
<1>4. KnownFits(c, k2.callBlock) /\ k2.fun = c.blocks[k2.callBlock].term.func
    BY <1>1, <1>2
<1>5. k2 \in KnownFrames(c)
    BY <1>3, <1>4, KnownFrame
<1> QED BY <1>5 DEF k2

LEMMA AwaitsPlaced ==
    ASSUME NEW c, NEW k, NEW a, Awaits(c, k, a), NEW b, NEW l
    PROVE  Awaits(c, k, Placed(a, b, l))
<1> DEFINE a2 == Placed(a, b, l)
<1>1. a2.target = a.target /\ a2.dest = a.dest /\ a2.callBlock = a.callBlock
    BY DEF Placed
<1> HIDE DEF a2
<1>2. Awaits(c, k, a2)
    BY <1>1 DEF Awaits, Resumed
<1> QED BY <1>2 DEF a2

LEMMA WaitsMoved ==
    ASSUME NEW c \in Crates, NEW st, NEW pend, Waits(c, st, pend), NEW T, T = Len(st),
           NEW k, k = st[T], NEW b \in BlocksOf(c, k.fun), NEW l \in [1..c.funs[k.fun].size -> Value]
    PROVE  LET st2 == Moved(st, T, b, l) IN
           Waits(c, st2, pend) /\ Len(st2) = T /\ st2[T] = Placed(k, b, l)
<1> DEFINE k2 == Placed(k, b, l)
           K == KnownFrames(c)
           st2 == [st EXCEPT ![T] = k2]
<1>1. /\ st \in Seq(Frames(c)) /\ T \in Nat /\ T >= 1 /\ T \in 1..Len(st) /\ st \in Seq(K)
      /\ k \in K /\ k \in Frames(c)
    BY FramesKnown DEF Waits
<1>2. Moved(st, T, b, l) = st2
    BY <1>1, MovedPlaced
<1>3. k2.caller = k.caller /\ k2.callBlock = k.callBlock
    BY DEF Placed
<1>4. k2 \in K
    BY <1>1, PlacedKnown
<1> HIDE DEF K, k2
<1>5. /\ st2 \in Seq(K) /\ Len(st2) = Len(st)
      /\ \A j \in 1..Len(st) : st2[j] = IF j = T THEN k2 ELSE st[j]
    BY <1>1, <1>4, ExceptSeq
<1> HIDE DEF st2
<1>6. \A i \in 1..T : st2[i].caller = i - 1
    <2>1. \A i \in 1..T : st[i].caller = i - 1
        BY DEF Waits
    <2> QED BY <1>3, <1>5, <2>1
<1>7. ASSUME NEW i \in 2..T
      PROVE  Awaits(c, st2[i - 1], st2[i])
    <2>1. Awaits(c, st[i - 1], st[i])
        BY DEF Waits
    <2>2. i \in 1..T /\ i - 1 \in 1..T /\ i - 1 # T
        BY <1>1
    <2>3. st2[i - 1] = st[i - 1]
        BY <1>5, <2>2
    <2>4. CASE i = T
        <3>1. Awaits(c, st[i - 1], k2)
            BY <2>1, <2>4, AwaitsPlaced DEF k2
        <3> QED BY <1>5, <2>2, <2>3, <2>4, <3>1
    <2>5. CASE i # T
        BY <1>5, <2>1, <2>2, <2>3, <2>5
    <2> QED BY <2>4, <2>5
<1>8. pend # <<>> /\ st2[1].callBlock = Head(pend).block
    <2>1. pend # <<>> /\ st[1].callBlock = Head(pend).block
        BY DEF Waits
    <2>2. st2[1] = st[1] \/ (T = 1 /\ st2[1] = k2)
        BY <1>1, <1>5
    <2> QED BY <1>3, <2>1, <2>2
<1>9. st2 # <<>> /\ st2[T] = k2
    BY <1>1, <1>5
<1> QED BY <1>1, <1>2, <1>5, <1>6, <1>7, <1>8, <1>9 DEF Waits, K, k2

LEMMA WaitsPushed ==
    ASSUME NEW c \in Crates, NEW st, NEW pend, Waits(c, st, pend), NEW T, T = Len(st),
           NEW k \in KnownFrames(c), k.caller = T, Awaits(c, st[T], k)
    PROVE  LET st2 == Append(st, k) IN
           Waits(c, st2, pend) /\ Len(st2) = T + 1 /\ st2[T + 1] = k
<1> DEFINE st2 == Append(st, k)
           K == KnownFrames(c)
<1>1. T \in Nat /\ T >= 1 /\ st \in Seq(K)
    BY FramesKnown DEF Waits
<1> HIDE DEF K
<1>2. /\ st2 \in Seq(K) /\ Len(st2) = T + 1 /\ st2[T + 1] = k
      /\ \A i \in 1..T : st2[i] = st[i]
    BY <1>1, AppendProperties DEF K
<1> HIDE DEF st2
<1>3. \A i \in 1..Len(st2) : st2[i].caller = i - 1
    <2>1. \A i \in 1..T : st[i].caller = i - 1
        BY DEF Waits
    <2>2. \A i \in 1..Len(st2) : i \in 1..T \/ i = T + 1
        BY <1>1, <1>2
    <2> QED BY <1>1, <1>2, <2>1, <2>2
<1>4. ASSUME NEW i \in 2..Len(st2)
      PROVE  Awaits(c, st2[i - 1], st2[i])
    <2>1. i - 1 \in 1..T /\ (i \in 2..T \/ i = T + 1)
        BY <1>1, <1>2
    <2>2. st2[i - 1] = st[i - 1]
        BY <1>2, <2>1
    <2>3. CASE i \in 2..T
        <3>1. Awaits(c, st[i - 1], st[i])
            BY <2>3 DEF Waits
        <3>2. st2[i] = st[i]
            BY <1>1, <1>2, <2>3
        <3> QED BY <2>2, <3>1, <3>2
    <2>4. CASE i = T + 1
        <3>1. i - 1 = T
            BY <1>1, <2>4
        <3> QED BY <1>2, <2>2, <2>4, <3>1
    <2> QED BY <2>1, <2>3, <2>4
<1>5. st2[1] = st[1] /\ st2 # <<>>
    BY <1>1, <1>2
<1>6. pend # <<>> /\ st2[1].callBlock = Head(pend).block
    BY <1>5 DEF Waits
<1> QED BY <1>2, <1>3, <1>4, <1>5, <1>6 DEF Waits, K, st2

LEMMA WaitsCut ==
    ASSUME NEW c \in Crates, NEW st, NEW pend, Waits(c, st, pend), NEW m \in 1..Len(st)
    PROVE  LET st2 == SubSeq(st, 1, m) IN
           Waits(c, st2, pend) /\ Len(st2) = m /\ \A i \in 1..m : st2[i] = st[i]
<1> DEFINE st2 == SubSeq(st, 1, m)
           K == KnownFrames(c)
<1>1. Len(st) \in Nat /\ st \in Seq(K) /\ m \in 0..Len(st) /\ m \in Nat /\ m >= 1 /\ m <= Len(st)
    BY FramesKnown DEF Waits
<1> HIDE DEF K
<1>2. st2 \in Seq(K) /\ Len(st2) = m /\ \A i \in 1..m : st2[i] = st[i]
    BY <1>1, Prefix
<1> HIDE DEF st2
<1>3. ASSUME NEW i \in 1..m
      PROVE  st2[i].caller = i - 1
    <2>1. i \in 1..Len(st) /\ st2[i] = st[i]
        BY <1>1, <1>2
    <2> QED BY <2>1 DEF Waits
<1>4. ASSUME NEW i \in 2..m
      PROVE  Awaits(c, st2[i - 1], st2[i])
    <2>1. i \in 2..Len(st) /\ i \in 1..m /\ i - 1 \in 1..m
        BY <1>1
    <2>2. Awaits(c, st[i - 1], st[i])
        BY <2>1 DEF Waits
    <2> QED BY <1>2, <2>1, <2>2
<1>5. st2[1] = st[1] /\ st2 # <<>>
    BY <1>1, <1>2
<1>6. pend # <<>> /\ st2[1].callBlock = Head(pend).block
    BY <1>5 DEF Waits
<1> QED BY <1>2, <1>3, <1>4, <1>5, <1>6 DEF Waits, K, st2

-----------------------------------------------------------------------------
(* Steps that leave the blocks alone. *)

LEMMA LeadsOn ==
    ASSUME NEW c, NEW s2, NEW s, Leads(c, s2, s), NEW e, Leads(c, s, e)
    PROVE  Leads(c, s2, e)
BY DEF Leads, Tells

\* A running context, as a state of the reference.
LEMMA Running ==
    ASSUME Kept, NEW k, Ends(k)
    PROVE  LET s == StateOf(Ctx) IN
           /\ crate \in Crates /\ Promised(crate) /\ GoodBlocks(crate, blocks)
           /\ ExactBlocks(crate, blocks) /\ phase = "run"
           /\ s \in States(crate) /\ s.fun = Ctx.fun /\ s.block = Ctx.block
           /\ HoldsAt(crate, s) /\ Leads(crate, s, Entry(crate, Ctx.callBlock))
           /\ After(blocks, s) = Locals /\ Locals # Failed
           /\ Term(blocks, s) = Code.term /\ Code.term.kind = k
           /\ Args(blocks, s) = EvalAll(Code.term.args, Locals, Code.params)
           /\ \A rv : Worth(blocks, s, rv) = At(rv)
           /\ Waits(crate, stack, pending) /\ Top = Len(stack) /\ Ctx = stack[Top]
<1> DEFINE s == StateOf(Ctx)
<1>1. IInv /\ Promised(crate) /\ ExactInv
    BY DEF Kept
<1>2. /\ phase = "run" /\ Locals # Failed /\ Code.term.kind = k /\ Typed /\ crate \in Crates
      /\ Ctx \in Frames(crate)
    BY <1>1, EndsFacts
<1>3. ExactBlocks(crate, blocks) /\ RunsExactly(crate, stack, pending)
    BY <1>1, <1>2 DEF ExactInv
<1>4. Top = Len(stack) /\ Ctx = stack[Top]
    BY DEF Top, Ctx
<1>5. Waits(crate, stack, pending) /\ OnTop(crate, Ctx)
    BY <1>3, <1>4 DEF RunsExactly
<1>6. GoodBlocks(crate, blocks)
    BY <1>2 DEF GoodBlocks, Typed, BlocksInv
<1>7. s \in States(crate) /\ s.fun = Ctx.fun /\ s.block = Ctx.block /\ s.locals = Ctx.locals
    BY <1>2, FrameTypes, StateMade DEF StateOf
<1>8. Leads(crate, s, Entry(crate, Ctx.callBlock)) /\ HoldsAt(crate, s)
    BY <1>5 DEF OnTop, Leads
<1> HIDE DEF s
<1>9. After(blocks, s) = Locals /\ Term(blocks, s) = Code.term
    BY <1>7 DEF After, Term, Locals, Code
<1>10. Args(blocks, s) = EvalAll(Code.term.args, Locals, Code.params)
    BY <1>7, <1>9 DEF Args, Code
<1>11. \A rv : Worth(blocks, s, rv) = At(rv)
    BY <1>7, <1>9 DEF Worth, At, Code
<1> QED BY <1>1, <1>2, <1>3, <1>4, <1>5, <1>6, <1>7, <1>8, <1>9, <1>10, <1>11 DEF s

LEMMA PanicExact == ASSUME Kept, Panic PROVE ExactInv'
<1>1. /\ crate' = crate /\ blocks' = blocks /\ phase' = "panic" /\ pending' = pending
      /\ results' = results
    BY DEF Panic
<1> QED BY <1>1 DEF Kept, ExactInv

\* The stack of a step that leaves the rest of the invariant alone.
LEMMA StackExact ==
    ASSUME Kept, Unchanged, phase = "run" => RunsExactly(crate, stack', pending)
    PROVE  ExactInv'
<1>1. /\ crate' = crate /\ blocks' = blocks /\ phase' = phase /\ pending' = pending
      /\ results' = results
    BY DEF Unchanged
<1> QED BY <1>1 DEF Kept, ExactInv

\* The top context goes on where its state leads.
LEMMA ContinueExact ==
    ASSUME Kept, NEW k, Ends(k), NEW s2 \in States(crate), s2.fun = Ctx.fun,
           Leads(crate, s2, StateOf(Ctx)), stack' = Continue(s2.block, s2.locals), Unchanged
    PROVE  ExactInv'
<1> DEFINE b == s2.block
           l == s2.locals
<1>1. /\ crate \in Crates /\ Leads(crate, StateOf(Ctx), Entry(crate, Ctx.callBlock))
      /\ Waits(crate, stack, pending) /\ Top = Len(stack) /\ Ctx = stack[Top]
    BY Running
<1>2. /\ b \in BlocksOf(crate, Ctx.fun) /\ l \in [1..crate.funs[Ctx.fun].size -> Value]
      /\ s2 = State(Ctx.fun, b, l)
    BY <1>1, StateTypes
<1> HIDE DEF b, l
<1>3. stack' = Moved(stack, Top, b, l)
    BY DEF Continue, Moved, b, l
<1>4. Waits(crate, stack', pending) /\ Len(stack') = Top /\ stack'[Top] = Placed(Ctx, b, l)
    BY <1>1, <1>2, <1>3, WaitsMoved
<1>5. OnTop(crate, Placed(Ctx, b, l))
    <2>1. Leads(crate, s2, Entry(crate, Ctx.callBlock))
        BY <1>1, LeadsOn
    <2> DEFINE p == Placed(Ctx, b, l)
    <2>2. p.fun = Ctx.fun /\ p.block = b /\ p.locals = l /\ p.callBlock = Ctx.callBlock
        BY DEF Placed
    <2> HIDE DEF p
    <2>3. OnTop(crate, p)
        BY <1>2, <2>1, <2>2 DEF OnTop, StateOf
    <2> QED BY <2>3 DEF p
<1>6. RunsExactly(crate, stack', pending)
    BY <1>4, <1>5 DEF RunsExactly
<1> QED BY <1>6, StackExact

LEMMA GotoExact == ASSUME Kept, Goto PROVE ExactInv'
<1> DEFINE t == Code.term
           s == StateOf(Ctx)
           s2 == Gone(blocks, s, t)
<1>1. Ends("goto")
    BY DEF Goto
<1>2. /\ crate \in Crates /\ Promised(crate) /\ GoodBlocks(crate, blocks)
      /\ ExactBlocks(crate, blocks) /\ s \in States(crate) /\ s.fun = Ctx.fun
      /\ HoldsAt(crate, s) /\ After(blocks, s) = Locals /\ Locals # Failed
      /\ t = Term(blocks, s) /\ t.kind = "goto" /\ \A rv : Worth(blocks, s, rv) = At(rv)
    BY <1>1, Running
<1>3. CASE Passes(blocks, t) /\ At(t.args[1]) = Bad
    <2>1. Panic
        BY <1>3 DEF Goto, Passes
    <2> QED BY <2>1, PanicExact
<1>4. CASE ~(Passes(blocks, t) /\ At(t.args[1]) = Bad)
    <2>1. /\ Unchanged
          /\ stack' = Continue(t.target,
                IF Passes(blocks, t) THEN [Locals EXCEPT ![blocks[t.target].params[1]] = At(t.args[1])]
                ELSE Locals)
        BY <1>4 DEF Goto, Passes
    <2>2. Passes(blocks, t) => Worth(blocks, s, t.args[1]) # Bad
        BY <1>2, <1>4
    <2>3. /\ s2.block = t.target
          /\ s2.locals = IF Passes(blocks, t)
                         THEN [Locals EXCEPT ![blocks[t.target].params[1]] = At(t.args[1])]
                         ELSE Locals
        BY <1>2 DEF Gone, State
    <2> HIDE DEF s, t
    <2>4. s2 \in States(crate) /\ s2.fun = s.fun
        BY <1>2, <2>2, GoneType
    <2>5. Leads(crate, s2, s)
        BY <1>2, <2>2, GotoTells
    <2> HIDE DEF s2
    <2>6. stack' = Continue(s2.block, s2.locals) /\ Unchanged
        BY <2>1, <2>3
    <2> QED BY <1>1, <1>2, <2>4, <2>5, <2>6, ContinueExact DEF s
<1> QED BY <1>3, <1>4

LEMMA SwitchIntExact == ASSUME Kept, SwitchInt PROVE ExactInv'
<1> DEFINE t == Code.term
           s == StateOf(Ctx)
           s2 == Switched(blocks, s, t)
           d == At(t.disc)
<1>1. Ends("switch")
    BY DEF SwitchInt
<1>2. /\ crate \in Crates /\ Promised(crate) /\ GoodBlocks(crate, blocks)
      /\ ExactBlocks(crate, blocks) /\ s \in States(crate) /\ s.fun = Ctx.fun
      /\ HoldsAt(crate, s) /\ After(blocks, s) = Locals /\ Locals # Failed
      /\ t = Term(blocks, s) /\ t.kind = "switch" /\ \A rv : Worth(blocks, s, rv) = At(rv)
    BY <1>1, Running
<1>3. CASE d = Bad
    <2>1. Panic
        BY <1>3 DEF SwitchInt
    <2> QED BY <2>1, PanicExact
<1>4. CASE d # Bad
    <2>1. stack' = Continue(CaseOf(t, d), Locals) /\ Unchanged
        <3> DEFINE v == IF d.k = "enum" THEN IntValue(d.n) ELSE d
                   hits == {i \in 1..Len(t.targets) : t.targets[i][1] = v}
                   next == IF hits = {} THEN t.default
                           ELSE t.targets[CHOOSE i \in hits : \A j \in hits : i <= j][2]
        <3>1. stack' = Continue(next, Locals) /\ Unchanged
            BY <1>4 DEF SwitchInt
        <3>2. hits = Hits(t, d)
            BY DEF Hits
        <3> HIDE DEF hits, t, d
        <3>3. next = CaseOf(t, d)
            BY <3>2 DEF CaseOf
        <3> QED BY <3>1, <3>3
    <2>2. s2.block = CaseOf(t, d) /\ s2.locals = Locals
        BY <1>2 DEF Switched, State
    <2>3. Worth(blocks, s, t.disc) # Bad
        BY <1>2, <1>4
    <2> HIDE DEF s, t
    <2>4. s2 \in States(crate) /\ s2.fun = s.fun
        BY <1>2, SwitchedType
    <2>5. Leads(crate, s2, s)
        BY <1>2, <2>3, SwitchTells
    <2> HIDE DEF s2
    <2>6. stack' = Continue(s2.block, s2.locals) /\ Unchanged
        BY <2>1, <2>2
    <2> QED BY <1>1, <1>2, <2>4, <2>5, <2>6, ContinueExact DEF s
<1> QED BY <1>3, <1>4

-----------------------------------------------------------------------------
(* Calls and returns. *)

\* A context that was just made by a call whose arguments are known.
LEMMA ContextKnown ==
    ASSUME crate \in Crates, NEW b, KnownFits(crate, b), NEW f \in 1..Len(crate.funs),
           f = crate.blocks[b].term.func, crate.funs[f].consteval, NEW args \in Seq(Value),
           Start(crate, f, args) = Entry(crate, b), NEW caller \in Nat, NEW dest \in Nat,
           NEW target \in Nat, IsCall(crate, b, dest, target)
    PROVE  LET k == Context(f, args, caller, dest, target, b) IN
           /\ k \in KnownFrames(crate) /\ OnTop(crate, k)
           /\ k.caller = caller /\ k.dest = dest /\ k.target = target /\ k.callBlock = b
<1> DEFINE k == Context(f, args, caller, dest, target, b)
<1>1. k \in Frames(crate)
    BY ContextType
<1>2. /\ k.fun = f /\ k.caller = caller /\ k.dest = dest /\ k.target = target /\ k.callBlock = b
      /\ k.block = crate.funs[f].blocks[1] /\ k.locals = FirstLocals(crate.funs[f], args)
    BY DEF Context, Funs
<1> HIDE DEF k
<1>3. k \in KnownFrames(crate)
    BY <1>1, <1>2, KnownFrame
<1>4. StateOf(k) = Entry(crate, b)
    <2>1. StateOf(k) = Start(crate, f, args)
        BY <1>2 DEF StateOf, Start
    <2> QED BY <2>1
<1>5. HoldsAt(crate, Entry(crate, b))
    <2>1. HoldsAt(crate, Start(crate, f, args))
        BY HoldsStart
    <2> QED BY <2>1
<1>6. OnTop(crate, k)
    BY <1>2, <1>4, <1>5 DEF OnTop, Leads, Tells
<1> QED BY <1>2, <1>3, <1>6 DEF k

LEMMA KnownCall ==
    ASSUME NEW c, NEW b, KnownFits(c, b), NEW t, t = c.blocks[b].term
    PROVE  IsCall(c, b, t.dest, t.target) /\ t.kind = "call"
BY DEF IsCall, KnownFits, Known

LEMMA CallExact == ASSUME Kept, Call PROVE ExactInv'
<1> DEFINE t == Code.term
           s == StateOf(Ctx)
           args == EvalAll(t.args, Locals, Code.params)
           st == Continue(Ctx.block, Locals)
           k == Context(t.func, args, Top, t.dest, t.target, Ctx.block)
<1>1. Ends("call")
    BY DEF Call
<1>2. CASE ~(Funs[t.func].consteval /\ AllGood(args) /\ Fits(Funs[t.func], args))
    <2>1. Panic
        BY <1>2 DEF Call
    <2> QED BY <2>1, PanicExact
<1>3. CASE Funs[t.func].consteval /\ AllGood(args) /\ Fits(Funs[t.func], args)
    <2>1. stack' = Append(st, k) /\ Unchanged
        BY <1>3 DEF Call
    <2>2. /\ crate \in Crates /\ Promised(crate) /\ GoodBlocks(crate, blocks)
          /\ ExactBlocks(crate, blocks) /\ s \in States(crate) /\ s.fun = Ctx.fun
          /\ s.block = Ctx.block /\ Leads(crate, s, Entry(crate, Ctx.callBlock))
          /\ HoldsAt(crate, s) /\ After(blocks, s) = Locals /\ Locals # Failed
          /\ t = Term(blocks, s) /\ t.kind = "call" /\ Args(blocks, s) = args
          /\ Waits(crate, stack, pending) /\ Top = Len(stack) /\ Ctx = stack[Top]
        BY <1>1, Running
    <2>3. /\ Ctx \in Frames(crate) /\ Top \in Nat /\ Ctx.block \in BlocksOf(crate, Ctx.fun)
          /\ Locals \in [1..crate.funs[Ctx.fun].size -> Value]
        BY <1>1, EndsFacts DEF Kept, Funs
    <2>4. Ctx.fun \in 1..Len(crate.funs) /\ crate.funs[Ctx.fun].consteval
        BY <2>2, <2>3, FrameTypes
    <2>5. /\ crate.funs[t.func].consteval /\ AllGood(Args(blocks, s))
          /\ Fits(crate.funs[t.func], Args(blocks, s))
        BY <1>3, <2>2 DEF Funs
    <2> HIDE DEF t, s
    <2>6. /\ t.func \in 1..Len(crate.funs) /\ t.dest \in 1..crate.funs[s.fun].size
          /\ t.target \in BlocksOf(crate, s.fun) \cup {0} /\ Args(blocks, s) \in Seq(Value)
        BY <2>2, <2>5, CallStates
    <2>7. /\ KnownFits(crate, s.block) /\ t = crate.blocks[s.block].term
          /\ Start(crate, t.func, Args(blocks, s)) = Entry(crate, s.block)
          /\ t.target # 0 => \A u \in Value : Yields(crate, Entry(crate, s.block), u) =>
                Leads(crate, Back(blocks, s, t, u), s)
        BY <2>2, <2>4, <2>5, CallTells
    <2>8. t.dest \in Nat /\ t.target \in Nat
        <3>1. BlocksOf(crate, Ctx.fun) \subseteq 1..Len(crate.blocks)
            BY <2>2, <2>4, CrateTypes
        <3>2. t.target \in BlocksOf(crate, Ctx.fun) \cup {0} /\ t.dest \in 1..crate.funs[Ctx.fun].size
            BY <2>2, <2>6
        <3> QED BY <3>1, <3>2
    <2>9. IsCall(crate, Ctx.block, t.dest, t.target)
        <3>1. KnownFits(crate, Ctx.block) /\ t = crate.blocks[Ctx.block].term
            BY <2>2, <2>7
        <3> QED BY <3>1, KnownCall
    <2>10. /\ k \in KnownFrames(crate) /\ OnTop(crate, k)
           /\ k.caller = Top /\ k.dest = t.dest /\ k.target = t.target /\ k.callBlock = Ctx.block
        <3> DEFINE f == t.func
                   dest == t.dest
                   target == t.target
                   b == Ctx.block
        <3>1. /\ f \in 1..Len(crate.funs) /\ dest \in Nat /\ target \in Nat
              /\ args \in Seq(Value) /\ KnownFits(crate, b) /\ f = crate.blocks[b].term.func
              /\ Start(crate, f, args) = Entry(crate, b) /\ IsCall(crate, b, dest, target)
              /\ crate.funs[f].consteval
            <4> HIDE DEF args, k
            <4>1. args = Args(blocks, s) /\ b = s.block
                BY <2>2
            <4>2. f \in 1..Len(crate.funs) /\ dest \in Nat /\ target \in Nat /\ args \in Seq(Value)
                BY <2>6, <2>8, <4>1
            <4>3. /\ KnownFits(crate, b) /\ f = crate.blocks[b].term.func
                  /\ Start(crate, f, args) = Entry(crate, b)
                BY <2>7, <4>1
            <4> QED BY <2>5, <2>9, <4>2, <4>3
        <3>2. k = Context(f, args, Top, dest, target, b)
            OBVIOUS
        <3> HIDE DEF f, dest, target, b, args, k
        <3>3. /\ k \in KnownFrames(crate) /\ OnTop(crate, k)
              /\ k.caller = Top /\ k.dest = dest /\ k.target = target /\ k.callBlock = b
            <4>1. crate \in Crates /\ Top \in Nat
                BY <2>2, <2>3
            <4> DEFINE top == Top
            <4> HIDE DEF top
            <4>2. top \in Nat /\ k = Context(f, args, top, dest, target, b)
                BY <3>2, <4>1 DEF top
            <4>3. /\ k \in KnownFrames(crate) /\ OnTop(crate, k)
                  /\ k.caller = top /\ k.dest = dest /\ k.target = target /\ k.callBlock = b
                BY <3>1, <4>1, <4>2, ContextKnown
            <4> QED BY <4>3 DEF top
        <3> QED BY <3>3 DEF dest, target, b
    <2> DEFINE p == Placed(Ctx, Ctx.block, Locals)
    <2>11. Waits(crate, st, pending) /\ Len(st) = Top /\ st[Top] = p
        <3>1. st = Moved(stack, Top, Ctx.block, Locals)
            BY DEF Continue, Moved
        <3> QED BY <2>2, <2>3, <3>1, WaitsMoved
    <2>12. p.fun = Ctx.fun /\ p.locals = Locals /\ p.callBlock = Ctx.callBlock
        BY DEF Placed
    <2> HIDE DEF k, st, p
    <2>13. Awaits(crate, p, k)
        <3> SUFFICES ASSUME k.target # 0, NEW u \in Value, Yields(crate, Entry(crate, k.callBlock), u)
                     PROVE  Leads(crate, Resumed(p, k, u), Entry(crate, p.callBlock))
            BY DEF Awaits
        <3>1. Leads(crate, Back(blocks, s, t, u), s)
            BY <2>2, <2>7, <2>10
        <3>2. Resumed(p, k, u) = Back(blocks, s, t, u)
            BY <2>2, <2>10, <2>12 DEF Resumed, Back, WithLocal
        <3> QED BY <2>2, <2>12, <3>1, <3>2, LeadsOn
    <2>14. Waits(crate, stack', pending) /\ stack'[Len(stack')] = k
        <3>1. k.caller = Top /\ k \in KnownFrames(crate) /\ Awaits(crate, st[Top], k)
            BY <2>10, <2>11, <2>13
        <3>2. /\ Waits(crate, Append(st, k), pending) /\ Len(Append(st, k)) = Top + 1
              /\ Append(st, k)[Top + 1] = k
            BY <2>2, <2>11, <3>1, WaitsPushed
        <3> QED BY <2>1, <3>2
    <2>15. RunsExactly(crate, stack', pending)
        BY <2>10, <2>14 DEF RunsExactly
    <2> QED BY <2>1, <2>15, StackExact
<1> QED BY <1>2, <1>3

\* A context that returns gives the call that made it its value.
LEMMA ReturnedValue ==
    ASSUME Kept, Ends("return"), NEW v, v = Locals[crate.funs[Ctx.fun].ret],
           ToConst(v, crate.funs[Ctx.fun]) # Bad
    PROVE  /\ v \in Value /\ ToConst(v, crate.funs[Ctx.fun]) = v
           /\ Yields(crate, Entry(crate, Ctx.callBlock), v)
<1> DEFINE s == StateOf(Ctx)
<1>1. /\ crate \in Crates /\ Promised(crate) /\ GoodBlocks(crate, blocks)
      /\ ExactBlocks(crate, blocks) /\ s \in States(crate) /\ s.fun = Ctx.fun
      /\ Leads(crate, s, Entry(crate, Ctx.callBlock)) /\ After(blocks, s) = Locals
      /\ Locals # Failed /\ Term(blocks, s).kind = "return"
    BY Running
<1> HIDE DEF s
<1> DEFINE t == Term(blocks, s)
<1>2. v = After(blocks, s)[crate.funs[s.fun].ret] /\ ToConst(v, crate.funs[s.fun]) # Bad
    BY <1>1
<1>3. t = Term(blocks, s) /\ t.kind = "return"
    BY <1>1
<1> HIDE DEF t
<1>4. v \in Value /\ ToConst(v, crate.funs[s.fun]) = v /\ Yields(crate, s, v)
    BY <1>1, <1>2, <1>3, ReturnTells
<1>5. Yields(crate, Entry(crate, Ctx.callBlock), v)
    BY <1>1, <1>4 DEF Leads, Tells
<1> QED BY <1>1, <1>4, <1>5

LEMMA ReturnExact == ASSUME Kept, Return PROVE ExactInv'
<1> DEFINE f == Ctx.fun
           v == Locals[Funs[f].ret]
           const == ToConst(v, Funs[f])
           below == SubSeq(stack, 1, Top - 1)
           m == Top - 1
<1>1. Ends("return") /\ Ctx.caller # 0
    BY DEF Return
<1>2. CASE Ctx.target = 0 \/ const = Bad \/ Ctx.caller >= Top
    <2>1. Panic
        BY <1>2 DEF Return
    <2> QED BY <2>1, PanicExact
<1>3. CASE ~(Ctx.target = 0 \/ const = Bad \/ Ctx.caller >= Top)
    <2>1. /\ stack' = [below EXCEPT ![Ctx.caller].locals[Ctx.dest] = v,
                                    ![Ctx.caller].block = Ctx.target]
          /\ blocks' = Rewritten(Ctx.callBlock, Ctx.dest, const, Ctx.target)
          /\ crate' = crate /\ phase' = phase /\ pending' = pending /\ results' = results
        BY <1>3 DEF Return
    <2>2. /\ crate \in Crates /\ Promised(crate) /\ ExactBlocks(crate, blocks)
          /\ Waits(crate, stack, pending) /\ Top = Len(stack) /\ Ctx = stack[Top]
        BY <1>1, Running
    <2>3. IInv /\ pending \in Seq(KnownJobs(crate)) /\ results \in Seq(ExactResults(crate))
        BY DEF Kept, ExactInv
    <2>4. /\ Top \in Nat /\ Ctx \in KnownFrames(crate) /\ Ctx \in Frames(crate)
          /\ stack \in Seq(Frames(crate)) /\ Top \in 1..Len(stack)
        BY <2>2, FramesKnown
    <2>5. /\ Ctx.caller = m /\ m \in Nat /\ m >= 1 /\ m \in 1..Len(stack) /\ Top \in 2..Len(stack)
        <3>1. Ctx.caller = Top - 1
            BY <2>2, <2>4 DEF Waits
        <3> QED BY <1>1, <2>2, <2>4, <3>1
    <2>6. v \in Value /\ const = v /\ Yields(crate, Entry(crate, Ctx.callBlock), v)
        BY <1>1, <1>3, ReturnedValue DEF Funs
    <2>7. ExactBlocks(crate, blocks')
        <3>1. KnownFits(crate, Ctx.callBlock) /\ IsCall(crate, Ctx.callBlock, Ctx.dest, Ctx.target)
            BY <2>2, <2>4, KnownFrame, FrameTypes
        <3> DEFINE b == Ctx.callBlock
                   dest == Ctx.dest
                   target == Ctx.target
        <3>2. dest = crate.blocks[b].term.dest /\ target = crate.blocks[b].term.target
            BY <3>1 DEF IsCall
        <3>3. blocks' = Rewritten(b, dest, v, target) /\ KnownFits(crate, b)
              /\ Yields(crate, Entry(crate, b), v)
            BY <2>1, <2>6, <3>1
        <3> HIDE DEF b, dest, target, v
        <3> QED BY <2>2, <2>3, <3>2, <3>3, RewritingIsExact
    <2>8. Ctx.target \in BlocksOf(crate, stack[m].fun)
        <3>1. Linked(crate, stack, 0) /\ stack[Top].caller = 0 + Top - 1
            BY <1>1, <2>2, <2>3, <2>4, <2>5, EndsFacts DEF StackInv
        <3>2. Ctx.target \in Returns(crate, stack[m].fun)
            BY <2>2, <2>5, <3>1 DEF Linked
        <3> QED BY <1>3, <3>2 DEF Returns
    <2> HIDE DEF const
    <2>9. Waits(crate, below, pending) /\ Len(below) = m /\ below[m] = stack[m]
        <3>1. m \in 1..m
            BY <2>5
        <3> QED BY <2>2, <2>5, <3>1, WaitsCut
    <2> DEFINE k == stack[m]
               l == WithLocal(k.locals, Ctx.dest, v)
               p == Placed(k, Ctx.target, l)
    <2>10. l \in [1..crate.funs[k.fun].size -> Value]
        <3>1. k \in Frames(crate)
            BY <2>4, <2>5
        <3>2. k.locals \in [1..crate.funs[k.fun].size -> Value]
            BY <2>2, <3>1, FrameTypes
        <3> HIDE DEF k, v
        <3> QED BY <2>6, <3>2 DEF WithLocal
    <2>11. stack' = Moved(below, m, Ctx.target, l)
        <3>1. m \in 1..Len(below) /\ below \in Seq(Frames(crate))
            BY <2>2, <2>5, <2>9, FramesKnown
        <3>2. stack' = Given(below, m, Ctx.dest, v, Ctx.target)
            BY <2>1, <2>5 DEF Given
        <3> HIDE DEF m, v, below
        <3>3. stack' = Moved(below, m, Ctx.target, WithLocal(below[m].locals, Ctx.dest, v))
            BY <2>2, <3>1, <3>2, Received
        <3> QED BY <2>9, <3>3
    <2>12. Leads(crate, State(k.fun, Ctx.target, l), Entry(crate, k.callBlock))
        <3>1. Awaits(crate, k, Ctx)
            BY <2>2, <2>5 DEF Waits
        <3>2. Resumed(k, Ctx, v) = State(k.fun, Ctx.target, l)
            BY DEF Resumed
        <3> HIDE DEF k, v, l
        <3> QED BY <1>3, <2>6, <3>1, <3>2 DEF Awaits
    <2> HIDE DEF l, m, v, below, k
    <2>13. Waits(crate, stack', pending) /\ Len(stack') = m /\ stack'[m] = p
        <3>1. k = below[m] /\ Ctx.target \in BlocksOf(crate, k.fun)
            BY <2>8, <2>9 DEF k
        <3> QED BY <2>2, <2>9, <2>10, <2>11, <3>1, WaitsMoved
    <2>14. OnTop(crate, p)
        <3>1. p.fun = k.fun /\ p.block = Ctx.target /\ p.locals = l /\ p.callBlock = k.callBlock
            BY DEF Placed
        <3> HIDE DEF p
        <3> QED BY <2>12, <3>1 DEF OnTop, StateOf
    <2>15. RunsExactly(crate, stack', pending)
        BY <2>13, <2>14 DEF RunsExactly
    <2> QED BY <2>1, <2>3, <2>7, <2>15 DEF ExactInv
<1> QED BY <1>2, <1>3

-----------------------------------------------------------------------------
(* The calls to evaluate. *)

LEMMA JobTypes ==
    ASSUME NEW c, NEW j \in KnownJobs(c)
    PROVE  /\ j.func \in 1..Len(c.funs) /\ c.funs[j.func].consteval /\ j.args \in Seq(Value)
           /\ j.dest \in Nat /\ j.target \in Nat /\ IsCall(c, j.block, j.dest, j.target)
           /\ Known(c, j.block) /\ j.func = c.blocks[j.block].term.func
           /\ j.args = KnownArgs(c, j.block)
           /\ Start(c, j.func, j.args) = Entry(c, j.block)
<1>1. /\ j \in Jobs(c) /\ Known(c, j.block) /\ j.func = c.blocks[j.block].term.func
      /\ j.args = KnownArgs(c, j.block)
    BY DEF KnownJobs
<1>2. /\ j.func \in 1..Len(c.funs) /\ j.args \in Seq(Value) /\ j.dest \in Nat /\ j.target \in Nat
    BY <1>1 DEF Jobs
<1>3. c.funs[j.func].consteval /\ IsCall(c, j.block, j.dest, j.target)
    BY <1>1 DEF Jobs
<1>4. Start(c, j.func, j.args) = Entry(c, j.block)
    BY <1>1 DEF Entry
<1> QED BY <1>1, <1>2, <1>3, <1>4

LEMMA ExactResult ==
    ASSUME NEW c, NEW f \in 1..Len(c.funs), NEW args \in Seq(Value), NEW v \in Value,
           Yields(c, Start(c, f, args), v)
    PROVE  [func |-> f, args |-> args, value |-> v] \in ExactResults(c)
<1> DEFINE r == [func |-> f, args |-> args, value |-> v]
<1>1. r.func = f /\ r.args = args /\ r.value = v
    OBVIOUS
<1>2. r \in [func : 1..Len(c.funs), args : Seq(Value), value : Value]
    OBVIOUS
<1> HIDE DEF r
<1>3. r \in ExactResults(c)
    BY <1>1, <1>2 DEF ExactResults
<1> QED BY <1>3 DEF r

LEMMA ReturnTopExact == ASSUME Kept, ReturnTop PROVE ExactInv'
<1> DEFINE v == Locals[Funs[Ctx.fun].ret]
           j == Head(pending)
           const == ToConst(v, Funs[j.func])
<1>1. Ends("return") /\ Ctx.caller = 0
    BY DEF ReturnTop
<1>2. CASE const = Bad
    <2>1. Panic
        BY <1>2 DEF ReturnTop
    <2> QED BY <2>1, PanicExact
<1>3. CASE const # Bad
    <2>1. /\ blocks' = Rewritten(j.block, j.dest, const, j.target)
          /\ results' = Append(results, [func |-> j.func, args |-> j.args, value |-> const])
          /\ pending' = Tail(pending) /\ phase' = "next" /\ crate' = crate
        BY <1>3 DEF ReturnTop
    <2>2. /\ crate \in Crates /\ Promised(crate) /\ ExactBlocks(crate, blocks)
          /\ Waits(crate, stack, pending) /\ Top = Len(stack) /\ Ctx = stack[Top]
        BY <1>1, Running
    <2>3. IInv /\ pending \in Seq(KnownJobs(crate)) /\ results \in Seq(ExactResults(crate))
        BY DEF Kept, ExactInv
    <2>4. Top \in Nat /\ Ctx \in KnownFrames(crate) /\ Top \in 1..Len(stack)
        BY <2>2, FramesKnown
    <2>5. Top = 1
        <3>1. Ctx.caller = Top - 1
            BY <2>2, <2>4 DEF Waits
        <3> QED BY <1>1, <2>4, <3>1
    <2>6. pending # <<>> /\ Ctx.callBlock = j.block
        BY <2>2, <2>5 DEF Waits
    <2>7. j \in KnownJobs(crate) /\ pending' \in Seq(KnownJobs(crate))
        BY <2>1, <2>3, <2>6, HeadTailProperties
    <2> HIDE DEF j
    <2>8. /\ j.func \in 1..Len(crate.funs) /\ j.args \in Seq(Value)
          /\ IsCall(crate, j.block, j.dest, j.target)
          /\ j.func = crate.blocks[j.block].term.func
          /\ Start(crate, j.func, j.args) = Entry(crate, j.block)
        BY <2>7, JobTypes
    <2>9. KnownFits(crate, j.block) /\ Ctx.fun = j.func
        BY <2>4, <2>6, <2>8, KnownFrame
    <2>10. v \in Value /\ const = v /\ Yields(crate, Entry(crate, j.block), v)
        BY <1>1, <1>3, <2>6, <2>9, ReturnedValue DEF Funs
    <2> HIDE DEF const, v
    <2>11. ExactBlocks(crate, blocks')
        <3> DEFINE b == j.block
                   dest == j.dest
                   target == j.target
        <3>1. dest = crate.blocks[b].term.dest /\ target = crate.blocks[b].term.target
            BY <2>8 DEF IsCall
        <3>2. blocks' = Rewritten(b, dest, v, target) /\ KnownFits(crate, b)
              /\ Yields(crate, Entry(crate, b), v)
            BY <2>1, <2>9, <2>10
        <3> HIDE DEF b, dest, target
        <3> QED BY <2>2, <2>3, <3>1, <3>2, RewritingIsExact
    <2>12. results' \in Seq(ExactResults(crate))
        <3> DEFINE r == [func |-> j.func, args |-> j.args, value |-> const]
        <3>1. r \in ExactResults(crate)
            <4> DEFINE f == j.func
                       args == j.args
            <4>1. /\ f \in 1..Len(crate.funs) /\ args \in Seq(Value) /\ const \in Value
                  /\ Yields(crate, Start(crate, f, args), const)
                BY <2>8, <2>10
            <4> HIDE DEF f, args
            <4>2. [func |-> f, args |-> args, value |-> const] \in ExactResults(crate)
                BY <4>1, ExactResult
            <4> QED BY <4>2 DEF f, args
        <3>2. results' = Append(results, r)
            BY <2>1
        <3> HIDE DEF r
        <3> QED BY <2>3, <3>1, <3>2, AppendProperties
    <2> QED BY <2>1, <2>7, <2>11, <2>12 DEF ExactInv
<1> QED BY <1>2, <1>3

LEMMA WaitsAlone ==
    ASSUME NEW c, NEW k \in KnownFrames(c), k.caller = 0, OnTop(c, k), NEW pend, pend # <<>>,
           k.callBlock = Head(pend).block
    PROVE  RunsExactly(c, <<k>>, pend)
<1> DEFINE st == <<k>>
<1>1. st \in Seq(KnownFrames(c)) /\ st # <<>> /\ Len(st) = 1 /\ st[1] = k
    OBVIOUS
<1> HIDE DEF st
<1>2. \A i \in 1..Len(st) : st[i].caller = i - 1
    BY <1>1
<1>3. \A i \in 2..Len(st) : FALSE
    BY <1>1
<1>4. Waits(c, st, pend)
    BY <1>1, <1>2, <1>3 DEF Waits
<1> QED BY <1>1, <1>4 DEF RunsExactly, st

LEMMA StartJobExact == ASSUME Kept, StartJob PROVE ExactInv'
<1> DEFINE j == Head(pending)
           k == Context(j.func, j.args, 0, j.dest, j.target, j.block)
<1>1. CASE ~Fits(Funs[j.func], j.args)
    <2>1. Panic
        BY <1>1 DEF StartJob
    <2> QED BY <2>1, PanicExact
<1>2. CASE Fits(Funs[j.func], j.args)
    <2>1. /\ stack' = <<k>> /\ crate' = crate /\ blocks' = blocks /\ pending' = pending
          /\ results' = results /\ pending # <<>>
        BY <1>2 DEF StartJob
    <2>2. /\ crate \in Crates /\ ExactBlocks(crate, blocks)
          /\ pending \in Seq(KnownJobs(crate)) /\ results \in Seq(ExactResults(crate))
        BY DEF Kept, ExactInv, IInv, Typed
    <2>3. j \in KnownJobs(crate)
        BY <2>1, <2>2, HeadTailProperties
    <2> DEFINE f == j.func
               args == j.args
               dest == j.dest
               target == j.target
               b == j.block
    <2>4. /\ f \in 1..Len(crate.funs) /\ crate.funs[f].consteval /\ args \in Seq(Value)
          /\ dest \in Nat /\ target \in Nat /\ IsCall(crate, b, dest, target)
          /\ f = crate.blocks[b].term.func /\ Start(crate, f, args) = Entry(crate, b)
          /\ Known(crate, b) /\ args = KnownArgs(crate, b)
        <3> HIDE DEF j
        <3> QED BY <2>3, JobTypes
    <2>5. KnownFits(crate, b)
        BY <1>2, <2>4 DEF KnownFits, Funs
    <2>6. k \in KnownFrames(crate) /\ OnTop(crate, k) /\ k.caller = 0 /\ k.callBlock = b
        <3>1. k = Context(f, args, 0, dest, target, b) /\ 0 \in Nat
            OBVIOUS
        <3> HIDE DEF k, f, args, dest, target, b
        <3> QED BY <2>2, <2>4, <2>5, <3>1, ContextKnown
    <2> HIDE DEF k
    <2>7. RunsExactly(crate, stack', pending)
        BY <2>1, <2>6, WaitsAlone
    <2> QED BY <2>1, <2>2, <2>7 DEF ExactInv
<1> QED BY <1>1, <1>2

LEMMA SeqAmong ==
    ASSUME NEW X, NEW s \in Seq(X), NEW Y, \A i \in 1..Len(s) : s[i] \in Y
    PROVE  s \in Seq(Y)
OBVIOUS

LEMMA ConstCallsKnown ==
    ASSUME NEW c \in Crates, BlocksApart(c), NEW f \in 1..Len(c.funs)
    PROVE  ConstCalls(c, f) \in Seq(KnownJobs(c))
<1> DEFINE job(b) == [block |-> b, func |-> c.blocks[b].term.func,
                      args  |-> [i \in 1..Len(c.blocks[b].term.args) |->
                                    Extract(c, f, c.blocks[b].term.args[i])],
                      dest  |-> c.blocks[b].term.dest, target |-> c.blocks[b].term.target]
           isJob(b) == /\ c.blocks[b].term.kind = "call"
                       /\ c.funs[c.blocks[b].term.func].consteval
                       /\ AllGood(job(b).args)
           all == c.funs[f].blocks
           I == {i \in 1..Len(all) : isJob(all[i])}
           bs == Picks(all, I)
           jobs == ConstCalls(c, f)
<1>1. all \in Seq(BlocksOf(c, f)) /\ BlocksOf(c, f) \subseteq 1..Len(c.blocks)
    <2>1. all \in Seq(1..Len(c.blocks))
        BY CrateTypes
    <2>2. \A i \in 1..Len(all) : all[i] \in BlocksOf(c, f)
        BY DEF BlocksOf
    <2>3. BlocksOf(c, f) \subseteq 1..Len(c.blocks)
        BY CrateTypes
    <2> HIDE DEF all
    <2>4. all \in Seq(BlocksOf(c, f))
        BY <2>1, <2>2, SeqAmong
    <2> QED BY <2>3, <2>4
<1>2. ASSUME NEW b \in BlocksOf(c, f), isJob(b)
      PROVE  /\ Known(c, b) /\ job(b).block = b /\ job(b).func = c.blocks[b].term.func
             /\ job(b).args = KnownArgs(c, b)
    <2>1. job(b).args = KnownArgs(c, b)
        <3>1. Owner(c, b) = f
            BY OwnerIs
        <3> QED BY <3>1 DEF KnownArgs
    <2>2. b \in 1..Len(c.blocks) /\ c.blocks[b].term.kind = "call" /\ AllGood(job(b).args)
        BY <1>1, <1>2
    <2>3. Known(c, b)
        BY <2>1, <2>2 DEF Known
    <2> QED BY <2>1, <2>3
<1>3. bs \in Seq(BlocksOf(c, f)) /\ \A i \in 1..Len(bs) : isJob(bs[i])
    <2> HIDE DEF isJob, all
    <2>1. \A k \in I : isJob(all[k])
        OBVIOUS
    <2> HIDE DEF I
    <2>2. bs \in Seq(BlocksOf(c, f)) /\ Picked(bs, all, I)
        BY <1>1, PicksProperties
    <2> HIDE DEF bs
    <2>3. \A i \in 1..Len(bs) : \E k \in I : bs[i] = all[k]
        BY <2>2 DEF Picked
    <2> QED BY <2>1, <2>2, <2>3
<1>4. jobs = [i \in 1..Len(bs) |-> job(bs[i])]
    BY DEF ConstCalls
<1>5. jobs \in Seq(Jobs(c))
    BY ConstCallsType
<1> HIDE DEF bs, job, isJob, jobs
<1>6. Len(bs) \in Nat /\ Len(jobs) = Len(bs) /\ \A i \in 1..Len(bs) : bs[i] \in BlocksOf(c, f)
    BY <1>3, <1>4
<1>7. ASSUME NEW i \in 1..Len(jobs)
      PROVE  jobs[i] \in KnownJobs(c)
    <2> DEFINE b == bs[i]
               j == jobs[i]
    <2>1. b \in BlocksOf(c, f) /\ isJob(b) /\ j = job(b) /\ j \in Jobs(c)
        BY <1>3, <1>4, <1>5, <1>6
    <2> HIDE DEF b, j
    <2>2. Known(c, b) /\ j.block = b /\ j.func = c.blocks[b].term.func /\ j.args = KnownArgs(c, b)
        BY <1>2, <2>1
    <2>3. j \in KnownJobs(c)
        BY <2>1, <2>2 DEF KnownJobs
    <2> QED BY <2>3 DEF j
<1>8. jobs \in Seq(KnownJobs(c))
    BY <1>5, <1>7
<1> QED BY <1>8 DEF jobs

LEMMA CollectExact == ASSUME Kept, Collect PROVE ExactInv'
<1>1. PICK f \in todo : pending' = pending \o ConstCalls(crate, f)
    BY DEF Collect
<1>2. /\ phase = "collect" /\ phase' = (IF todo' = {} THEN "next" ELSE "collect")
      /\ crate' = crate /\ blocks' = blocks /\ results' = results
    BY DEF Collect
<1>3. /\ crate \in Crates /\ BlocksApart(crate) /\ f \in 1..Len(crate.funs)
      /\ ExactBlocks(crate, blocks) /\ pending \in Seq(KnownJobs(crate))
      /\ results \in Seq(ExactResults(crate))
    BY DEF Kept, IInv, Typed, Promised, ExactInv
<1>4. pending' \in Seq(KnownJobs(crate))
    BY <1>1, <1>3, ConstCallsKnown, ConcatProperties
<1> QED BY <1>2, <1>3, <1>4 DEF ExactInv

-----------------------------------------------------------------------------
(* Every step. *)

\* Without effects no block ends in one.
LEMMA EffectsNever ==
    ASSUME Kept
    PROVE  ~Ends("install") /\ ~Ends("raise") /\ ~Ends("resume")
<1> SUFFICES ASSUME NEW k \in {"install", "raise", "resume"}, Ends(k) PROVE FALSE
    OBVIOUS
<1>1. /\ Code.term.kind = k /\ Ctx.block \in 1..Len(crate.blocks) /\ Typed
    BY EndsFacts DEF Kept
<1>2. NoEffects(crate)
    BY DEF Kept, Promised
<1>3. Code.term = crate.blocks[Ctx.block].term
    BY <1>1 DEF Typed, BlocksInv, Code
<1> QED BY <1>1, <1>2, <1>3 DEF NoEffects

LEMMA RaiseFacts == ASSUME Raise PROVE Ends("raise") /\ (Panic \/ Unchanged)
<1>1. Ends("raise")
    BY DEF Raise
<1>2. CASE \/ Installed(Code.term.control) = {}
           \/ ~AllGood(EvalAll(Code.term.args, Locals, Code.params))
           \/ IndexOf(Funs[Ctx.fun].blocks, Ctx.block) = Len(Funs[Ctx.fun].blocks)
    BY <1>2 DEF Raise
<1>3. CASE ~(\/ Installed(Code.term.control) = {}
             \/ ~AllGood(EvalAll(Code.term.args, Locals, Code.params))
             \/ IndexOf(Funs[Ctx.fun].blocks, Ctx.block) = Len(Funs[Ctx.fun].blocks))
    BY <1>3 DEF Raise
<1> QED BY <1>1, <1>2, <1>3

LEMMA ResumeFacts == ASSUME Resume PROVE Ends("resume") /\ (Panic \/ Unchanged)
<1>1. Ends("resume")
    BY DEF Resume
<1>2. CASE susp = <<>>
    BY <1>2 DEF Resume
<1>3. CASE susp # <<>>
    BY <1>3 DEF Resume
<1> QED BY <1>1, <1>2, <1>3

LEMMA StepExact ==
    ASSUME Kept, [Next]_vars
    PROVE  ExactInv'
<1>1. CASE Collect
    BY <1>1, CollectExact
<1>2. CASE StartJob
    BY <1>2, StartJobExact
<1>3. CASE AllDone
    <2>1. /\ crate' = crate /\ blocks' = blocks /\ phase' = "done" /\ pending' = pending
          /\ results' = results
        BY <1>3 DEF AllDone
    <2> QED BY <2>1 DEF Kept, ExactInv
<1>4. CASE StatementFails
    BY <1>4, PanicExact DEF StatementFails
<1>5. CASE Goto
    BY <1>5, GotoExact
<1>6. CASE SwitchInt
    BY <1>6, SwitchIntExact
<1>7. CASE Call
    BY <1>7, CallExact
<1>8. CASE Return
    BY <1>8, ReturnExact
<1>9. CASE ReturnTop
    BY <1>9, ReturnTopExact
<1>10. CASE InstallHandler
    <2>1. Ends("install")
        BY <1>10 DEF InstallHandler
    <2> QED BY <2>1, EffectsNever
<1>11. CASE Raise
    BY <1>11, RaiseFacts, EffectsNever
<1>12. CASE Resume
    BY <1>12, ResumeFacts, EffectsNever
<1>13. CASE Stuck
    BY <1>13, PanicExact DEF Stuck
<1>14. CASE UNCHANGED vars
    <2>1. /\ crate' = crate /\ blocks' = blocks /\ phase' = phase /\ pending' = pending
          /\ stack' = stack /\ results' = results
        BY <1>14 DEF vars
    <2> QED BY <2>1 DEF Kept, ExactInv
<1> QED BY <1>1, <1>2, <1>3, <1>4, <1>5, <1>6, <1>7, <1>8, <1>9, <1>10, <1>11, <1>12, <1>13, <1>14
        DEF Next

\* The crate never changes.
LEMMA CrateStays ==
    ASSUME [Next]_vars
    PROVE  crate' = crate
<1>0. ASSUME Panic \/ Unchanged PROVE crate' = crate
    BY <1>0 DEF Panic, Unchanged
<1>1. CASE Collect
    BY <1>0, <1>1 DEF Collect
<1>2. CASE StartJob
    BY <1>0, <1>2 DEF StartJob
<1>3. CASE AllDone
    BY <1>0, <1>3 DEF AllDone
<1>4. CASE StatementFails
    BY <1>0, <1>4 DEF StatementFails
<1>5. CASE Goto
    BY <1>0, <1>5 DEF Goto
<1>6. CASE SwitchInt
    BY <1>0, <1>6 DEF SwitchInt
<1>7. CASE Call
    BY <1>0, <1>7 DEF Call
<1>8. CASE Return
    BY <1>0, <1>8 DEF Return
<1>9. CASE ReturnTop
    BY <1>0, <1>9 DEF ReturnTop
<1>10. CASE InstallHandler
    BY <1>0, <1>10 DEF InstallHandler
<1>11. CASE Raise
    BY <1>0, <1>11, RaiseFacts
<1>12. CASE Resume
    BY <1>0, <1>12, ResumeFacts
<1>13. CASE Stuck
    BY <1>0, <1>13 DEF Stuck
<1>14. CASE UNCHANGED vars
    BY <1>14 DEF vars
<1> QED BY <1>1, <1>2, <1>3, <1>4, <1>5, <1>6, <1>7, <1>8, <1>9, <1>10, <1>11, <1>12, <1>13, <1>14 DEF Next

\* In a crate for which the evaluator keeps its promise, whatever has been
\* evaluated is exact: what waits on the stack, what was recorded and what
\* the blocks were rewritten with.
THEOREM PromiseInvariance == Spec => [](IInv /\ PromiseInv)
<1>1. Init => IInv /\ PromiseInv
    <2> SUFFICES ASSUME Init PROVE IInv /\ PromiseInv
        OBVIOUS
    <2>1. IInv
        BY InitKeeps
    <2>2. blocks = crate.blocks /\ phase = "collect" /\ pending = <<>> /\ results = <<>>
        BY DEF Init
    <2>3. ExactBlocks(crate, blocks)
        BY <2>2 DEF ExactBlocks
    <2>4. pending \in Seq(KnownJobs(crate)) /\ results \in Seq(ExactResults(crate))
        BY <2>2
    <2> QED BY <2>1, <2>2, <2>3, <2>4 DEF PromiseInv, ExactInv
<1>2. (IInv /\ PromiseInv) /\ [Next]_vars => (IInv /\ PromiseInv)'
    <2> SUFFICES ASSUME IInv, PromiseInv, [Next]_vars PROVE IInv' /\ PromiseInv'
        OBVIOUS
    <2>1. IInv'
        BY StepKeeps
    <2>2. Promised(crate') => ExactInv'
        <3> SUFFICES ASSUME Promised(crate') PROVE ExactInv'
            OBVIOUS
        <3>1. Promised(crate)
            BY CrateStays
        <3> QED BY <3>1, StepExact DEF Kept, PromiseInv
    <2> QED BY <2>1, <2>2 DEF PromiseInv
<1> QED BY <1>1, <1>2, PTL DEF Spec

\* Every call evaluated at compile time gives what it gives at run time, on
\* the crate as it was written; here with no bound on how long it takes.
THEOREM ResultsAreExact ==
    ASSUME Depths = Nat
    PROVE  Spec => []ResultIsExact
<1>1. IInv /\ PromiseInv => ResultIsExact
    <2> SUFFICES ASSUME IInv, PromiseInv, Promised(crate), NEW i \in 1..Len(results)
                 PROVE  \E n \in Depths :
                           results[i].value =
                              Meaning(crate, crate.blocks, n, results[i].func, results[i].args)
        BY DEF ResultIsExact
    <2>1. results \in Seq(ExactResults(crate))
        BY DEF PromiseInv, ExactInv
    <2> DEFINE r == results[i]
    <2>2. r \in ExactResults(crate)
        BY <2>1
    <2> HIDE DEF r
    <2>3. Yields(crate, Start(crate, r.func, r.args), r.value)
        BY <2>2 DEF ExactResults
    <2>4. PICK n \in Nat : Within(crate, crate.blocks)[n][Start(crate, r.func, r.args)] = r.value
        BY <2>3 DEF Yields
    <2> QED BY <2>4 DEF Meaning, r
<1> QED BY <1>1, PromiseInvariance, PTL

\* While the calls are replaced one by one, every function of the crate
\* returns what it returned before, on all the arguments it is compared on.
THEOREM MeaningIsPreserved == Spec => []MeaningPreserved
<1>1. IInv /\ PromiseInv => MeaningPreserved
    <2> SUFFICES ASSUME IInv, PromiseInv, Promised(crate), NEW f \in 1..Len(Funs),
                        NEW args \in Params(crate, f), NEW n \in Depths,
                        Meaning(crate, crate.blocks, n, f, args) # Bad
                 PROVE  Meaning(crate, blocks, n, f, args) = Meaning(crate, crate.blocks, n, f, args)
        BY DEF MeaningPreserved
    <2>1. /\ crate \in Crates /\ GoodBlocks(crate, blocks) /\ ExactBlocks(crate, blocks)
        BY DEF IInv, Typed, BlocksInv, GoodBlocks, PromiseInv, ExactInv
    <2>2. n \in Nat /\ f \in 1..Len(crate.funs)
        BY SamplesAssumption DEF Funs
    <2>3. args \in Seq(Value)
        <3>1. CASE args = <<>>
            BY <3>1
        <3>2. CASE \E m \in Samples : args = <<IntValue(m)>>
            <4>1. PICK m \in Samples : args = <<IntValue(m)>>
                BY <3>2
            <4>2. IntValue(m) \in Value
                BY SamplesAssumption, ValueTypes
            <4> QED BY <4>1, <4>2
        <3> QED BY <3>1, <3>2 DEF Params
    <2> DEFINE s == Start(crate, f, args)
    <2>4. s \in States(crate) /\ HoldsAt(crate, s)
        BY <2>1, <2>2, <2>3, StartType, HoldsStart
    <2> HIDE DEF s
    <2>5. AgreesWith(crate, Within(crate, blocks)[n], Within(crate, crate.blocks)[n])
        BY <2>1, <2>2, MeaningKept
    <2>6. Within(crate, crate.blocks)[n][s] # Bad
        BY DEF Meaning, s
    <2>7. Within(crate, blocks)[n][s] = Within(crate, crate.blocks)[n][s]
        BY <2>4, <2>5, <2>6 DEF AgreesWith
    <2> QED BY <2>7 DEF Meaning, s
<1> QED BY <1>1, PromiseInvariance, PTL
=============================================================================
