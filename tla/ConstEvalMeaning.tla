-------------------------- MODULE ConstEvalMeaning --------------------------
(***************************************************************************)
(* What the evaluator promises of a crate without effects: evaluating a    *)
(* call and replacing it by its result changes nothing of what any         *)
(* function of the crate returns.  The reference gives a function its      *)
(* value by recursion, one call inside the other, over blocks that never   *)
(* change, and gives every result the width of the function's return type, *)
(* as the C code does.                                                     *)
(***************************************************************************)
EXTENDS ConstEval

CONSTANTS Depths,   \* how many blocks, one after the other or inside calls, a run may execute
          Samples   \* the integers functions are compared on

ASSUME SamplesAssumption == Depths \subseteq Nat /\ Samples \subseteq Word

\* A function of crate c about to execute one of its blocks.
States(c) ==
    {s \in [fun : 1..Len(c.funs), block : 1..Len(c.blocks), locals : Seq(Value)] :
        s.block \in BlocksOf(c, s.fun) /\ Len(s.locals) = c.funs[s.fun].size}

State(f, b, locals) == [fun |-> f, block |-> b, locals |-> locals]

\* The state a call comes to.
Start(c, f, args) == State(f, c.funs[f].blocks[1], FirstLocals(c.funs[f], args))

\* With blocks bs: the locals at the end of a block, and what it ends with.
After(bs, s) == AfterStatements(bs[s.block], s.locals)
Term(bs, s) == bs[s.block].term
Worth(bs, s, rv) == Eval(rv, After(bs, s), bs[s.block].params)
Args(bs, s) == EvalAll(Term(bs, s).args, After(bs, s), bs[s.block].params)

\* Where a goto leads, with the value it passes.
Passes(bs, t) == t.args # <<>> /\ bs[t.target].params # <<>>

Gone(bs, s, t) ==
    State(s.fun, t.target,
          IF Passes(bs, t)
          THEN [After(bs, s) EXCEPT ![bs[t.target].params[1]] = Worth(bs, s, t.args[1])]
          ELSE After(bs, s))

\* Where a switch leads: an enum is compared by its tag.
Hits(t, v) == {i \in 1..Len(t.targets) : t.targets[i][1] = IF v.k = "enum" THEN IntValue(v.n) ELSE v}
CaseOf(t, v) ==
    IF Hits(t, v) = {} THEN t.default
    ELSE t.targets[CHOOSE i \in Hits(t, v) : \A j \in Hits(t, v) : i <= j][2]

Switched(bs, s, t) == State(s.fun, CaseOf(t, Worth(bs, s, t.disc)), After(bs, s))

\* Where a call returns to with its result.
Back(bs, s, t, v) == State(s.fun, t.target, [After(bs, s) EXCEPT ![t.dest] = v])

\* What a state comes to, when r tells it of the states that follow: Bad if
\* something cannot be evaluated or the depth was reached.
Called(c, bs, r, s, t) ==
    IF ~AllGood(Args(bs, s)) \/ ~Fits(c.funs[t.func], Args(bs, s)) \/ t.target = 0 THEN Bad
    ELSE LET v == r[Start(c, t.func, Args(bs, s))] IN
         IF v = Bad THEN Bad ELSE r[Back(bs, s, t, v)]

Ended(c, bs, r, s, t) ==
    CASE t.kind = "return" -> ToConst(After(bs, s)[c.funs[s.fun].ret], c.funs[s.fun])
      [] t.kind = "goto" ->
            IF Passes(bs, t) /\ Worth(bs, s, t.args[1]) = Bad THEN Bad ELSE r[Gone(bs, s, t)]
      [] t.kind = "switch" ->
            IF Worth(bs, s, t.disc) = Bad THEN Bad ELSE r[Switched(bs, s, t)]
      [] t.kind = "call" -> Called(c, bs, r, s, t)
      [] OTHER -> Bad

Step(c, bs, r, s) == IF After(bs, s) = Failed THEN Bad ELSE Ended(c, bs, r, s, Term(bs, s))

\* What every state comes to within n blocks.
Within(c, bs) ==
    LET R[n \in Nat] ==
            IF n = 0 THEN [s \in States(c) |-> Bad]
            ELSE [s \in States(c) |-> Step(c, bs, R[n - 1], s)]
    IN  R

\* The value of a function of c on arguments, with blocks bs.
Meaning(c, bs, n, f, args) == Within(c, bs)[n][Start(c, f, args)]

Params(c, f) == IF f = c.main THEN {<<>>} ELSE {<<IntValue(n)>> : n \in Samples}

-----------------------------------------------------------------------------
(* The crates for which the evaluator keeps its promise. *)

IsConstant(c, f, l) == ConstOf(c, f, l) # Bad

\* A block inside a consteval function is rewritten once for all its calls:
\* each call it makes must have the same arguments every time.
CallsAreFixed(c) ==
    \A f \in {g \in 1..Len(c.funs) : c.funs[g].consteval} : \A b \in BlocksOf(c, f) :
        LET t == c.blocks[b].term IN
        t.kind = "call" => \A i \in 1..Len(t.args) : Extract(c, f, t.args[i]) # Bad

\* A local that is taken for a constant has no other value, ...
ConstantsStay(c) ==
    \A f \in 1..Len(c.funs) : \A b \in BlocksOf(c, f) :
        LET code == c.blocks[b]
            t == code.term
        IN  /\ \A i \in 1..Len(code.stmts) :
                  LET l == code.stmts[i].local IN
                  IsConstant(c, f, l) => code.stmts[i].rv = [op |-> "const", v |-> ConstOf(c, f, l)]
            /\ t.kind = "call" => ~IsConstant(c, f, t.dest)
            /\ t.kind = "goto" /\ Passes(c.blocks, t) =>
                  ~IsConstant(c, f, c.blocks[t.target].params[1])

\* ... and is set when a call reads it.
Sets(c, b, l) == \E i \in 1..Len(c.blocks[b].stmts) : c.blocks[b].stmts[i].local = l

\* The blocks of f that can be reached before local l is set.
Unset(c, f, l) ==
    LET U[n \in 0..Len(c.blocks)] ==
            IF n = 0 THEN {c.funs[f].blocks[1]}
            ELSE LET S == U[n - 1] IN
                 S \cup {b \in 1..Len(c.blocks) :
                            \E a \in S : ~Sets(c, a, l) /\ b \in Succs(c.blocks[a].term)}
    IN  U[Len(c.blocks)]

ConstantsAreSet(c) ==
    \A f \in 1..Len(c.funs) : \A b \in BlocksOf(c, f) :
        LET t == c.blocks[b].term IN
        t.kind = "call" =>
            \A i \in 1..Len(t.args) :
                t.args[i].op = "local" /\ IsConstant(c, f, t.args[i].id) =>
                    Sets(c, b, t.args[i].id) \/ b \notin Unset(c, f, t.args[i].id)

\* No result is truncated to the width of its type: run_stack lets the
\* caller go on with the untruncated value.
ResultsFit(c) ==
    \A f \in 1..Len(c.funs) : c.funs[f].ty = "int" => c.funs[f].low = -Half /\ c.funs[f].span = 2 * Half

\* The reference knows calls and branches, not effects.
NoEffects(c) ==
    \A b \in 1..Len(c.blocks) : c.blocks[b].term.kind \notin {"raise", "resume", "install"}

\* No block belongs to two functions, as MirLower makes them.
BlocksApart(c) ==
    \A f, g \in 1..Len(c.funs) : f # g => BlocksOf(c, f) \cap BlocksOf(c, g) = {}

Promised(c) ==
    /\ NoEffects(c) /\ BlocksApart(c) /\ ResultsFit(c)
    /\ CallsAreFixed(c) /\ ConstantsStay(c) /\ ConstantsAreSet(c)

\* Every call evaluated at compile time gives what it gives at run time.
ResultIsExact ==
    Promised(crate) => \A i \in 1..Len(results) : \E n \in Depths :
        results[i].value = Meaning(crate, crate.blocks, n, results[i].func, results[i].args)

\* While the calls are replaced one by one, in whatever order the hash set
\* gives, every function of the crate keeps its meaning.
MeaningPreserved ==
    Promised(crate) => \A f \in 1..Len(Funs) : \A args \in Params(crate, f) : \A n \in Depths :
        Meaning(crate, crate.blocks, n, f, args) # Bad =>
            Meaning(crate, blocks, n, f, args) = Meaning(crate, crate.blocks, n, f, args)

\* The same of every crate: a consteval function may be called ("non-consteval
\* call not allowed", lib.rs 1034, is the only restriction), so what
\* evaluating its calls gives is what it returns.
EveryResultIsExact ==
    \A i \in 1..Len(results) : \E n \in Depths :
        results[i].value = Meaning(crate, crate.blocks, n, results[i].func, results[i].args)
=============================================================================
