------------------------------ MODULE ConstEval ------------------------------
(***************************************************************************)
(* The compile-time evaluator of MIR (leaf_mir_consteval).  eval collects  *)
(* the calls of consteval functions whose arguments are constants, runs    *)
(* each on a stack of contexts, and replaces the call by its result.  A    *)
(* step of run_stack is one action: it may pop a handler, then executes    *)
(* the statements of the current block and its terminator.                 *)
(*                                                                         *)
(* Blocks, functions, locals and contexts are numbered as in the code, but *)
(* from 1, and 0 stands for None.  A value is a kind and a number: the     *)
(* payload of an enum, strings, floats, tuples and structs are left out,   *)
(* an operation on them is "bad", like all those the evaluator rejects.    *)
(***************************************************************************)
EXTENDS Integers, Sequences, FiniteSets

CONSTANTS
    Crates,         \* the programs given to the pass
    Half,           \* the evaluator's integers are -Half .. Half - 1; 2^63 in the code
    OverflowChecks  \* the compiler was built to stop when one overflows, or to wrap it

ASSUME WordAssumption == Half \in Nat /\ Half >= 2 /\ OverflowChecks \in BOOLEAN

Word == -Half .. Half - 1
Value == [k : {"unit", "int", "bool", "enum"}, n : Word]
val(kind, n) == [k |-> kind, n |-> n]
UnitValue == val("unit", 0)
IntValue(n) == val("int", n)
BoolValue(b) == val("bool", IF b THEN 1 ELSE 0)
Bad == val("bad", 0)

-----------------------------------------------------------------------------
(* Crates (MirFun, MirBlock).  An integer return type has the `span'       *)
(* values from `low' on.  An unsigned one of the widest is read back as    *)
(* signed (const_to_value), and is counted among the signed.               *)

Atoms(n) == [op : {"const"}, v : Value] \cup [op : {"local"}, id : 1..n]
            \cup [op : {"arg"}, id : Nat \ {0}]
BinaryOps == {"add", "sub", "mul", "div", "eq", "ne", "lt", "le"}
Rvalues(n) == Atoms(n) \cup [op : {"binary"}, f : BinaryOps, l : Atoms(n), r : Atoms(n)]
              \cup [op : {"unary"}, f : {"neg", "not"}, r : Atoms(n)] \cup [op : {"bad"}]
Statements(n) == [kind : {"let", "store"}, local : 1..n, rv : Rvalues(n)]

\* The terminators of a block of function f, which stays in its function.
BlocksOf(c, f) == {c.funs[f].blocks[i] : i \in 1..Len(c.funs[f].blocks)}

Terminators(c, f) ==
    LET n == c.funs[f].size
        B == BlocksOf(c, f)
    IN  [kind : {"return", "unreachable", "callptr"}]
        \cup [kind : {"goto"}, target : B, args : Seq(Rvalues(n))]
        \cup [kind : {"switch"}, disc : Rvalues(n), targets : Seq(Value \X B), default : B]
        \cup [kind : {"call"}, func : 1..Len(c.funs), args : Seq(Rvalues(n)), dest : 1..n,
              target : B \cup {0}]
        \cup [kind : {"install"}, handler : B, next : B, control : Nat]
        \cup [kind : {"raise"}, control : Nat, args : Seq(Rvalues(n)), dest : 1..n]
        \cup [kind : {"resume"}, place : 1..n, target : B]

BlockOf(c, f) ==
    [params : Seq(1..c.funs[f].size), stmts : Seq(Statements(c.funs[f].size)),
     term : Terminators(c, f)]

\* The blocks control may go to next inside a function.
Succs(t) ==
    CASE t.kind \in {"goto", "resume"} -> {t.target}
      [] t.kind = "switch"  -> {t.targets[i][2] : i \in 1..Len(t.targets)} \cup {t.default}
      [] t.kind = "call"    -> {t.target}
      [] t.kind = "install" -> {t.next}
      [] OTHER -> {}

\* The blocks from which a function may come to a resume.
Answering(c) ==
    LET A[n \in 0..Len(c.blocks)] ==
            IF n = 0 THEN {b \in 1..Len(c.blocks) : c.blocks[b].term.kind = "resume"}
            ELSE LET S == A[n - 1] IN
                 S \cup {b \in 1..Len(c.blocks) : Succs(c.blocks[b].term) \cap S # {}}
    IN  A[Len(c.blocks)]

\* Lowering writes a resume only in a handler ("resume outside handler",
\* MirLower 2089), whose blocks control reaches by a raise alone: no
\* function begins with one.
WellFormed(c) ==
    LET F == 1..Len(c.funs) IN
    /\ c.main \in F
    /\ c.blocks \in Seq({c.blocks[b] : b \in 1..Len(c.blocks)})
    /\ c.funs \in Seq([blocks : Seq(1..Len(c.blocks)), ret : Nat, size : Nat,
                       consteval : BOOLEAN, ty : {"unit", "int", "bool", "enum"},
                       low : Word, span : Nat \ {0}])
    /\ \A f \in F :
          /\ c.funs[f].ret \in 1..c.funs[f].size
          /\ c.funs[f].low + c.funs[f].span <= Half
          /\ Len(c.funs[f].blocks) >= 1
          /\ c.funs[f].blocks[1] \notin Answering(c)
          /\ \A b \in BlocksOf(c, f) : c.blocks[b] \in BlockOf(c, f)

ASSUME CratesAssumption == \A c \in Crates : WellFormed(c)

-----------------------------------------------------------------------------
(* Rvalues (eval_rvalue): an atom is a constant, a local or an argument of *)
(* the handler whose parameters are those of the block; a binary operator  *)
(* has two atoms, as MirLower builds them.                                 *)

Abs(n) == IF n < 0 THEN -n ELSE n

Arith(f, x, y) ==
    CASE f = "add" -> x + y
      [] f = "sub" -> x - y
      [] f = "mul" -> x * y
      [] f = "div" -> LET q == Abs(x) \div Abs(y) IN IF (x < 0) = (y < 0) THEN q ELSE -q

\* The number of low .. low + span - 1 that has the low bits of n.
Wrap(n, low, span) == low + ((n - low) % span)

\* Whether a sum that does not fit stops the compiler or wraps, its build
\* settles; a quotient that does not fit always stops it.
Sum(n) ==
    IF n \in Word THEN IntValue(n)
    ELSE IF OverflowChecks THEN Bad ELSE IntValue(Wrap(n, -Half, 2 * Half))

Quotient(n) == IF n \in Word THEN IntValue(n) ELSE Bad

Binary(f, x, y) ==
    CASE f \in {"add", "sub", "mul"} ->
            IF x.k = "int" /\ y.k = "int" THEN Sum(Arith(f, x.n, y.n)) ELSE Bad
      [] f = "div" ->
            IF x.k = "int" /\ y.k = "int" /\ y.n # 0 THEN Quotient(Arith(f, x.n, y.n)) ELSE Bad
      [] f = "eq" -> BoolValue(x = y)
      [] f = "ne" -> BoolValue(x # y)
      [] f = "lt" -> IF x.k = "int" /\ y.k = "int" THEN BoolValue(x.n < y.n) ELSE Bad
      [] f = "le" -> IF x.k = "int" /\ y.k = "int" THEN BoolValue(x.n <= y.n) ELSE Bad

Unary(f, x) ==
    CASE f = "neg" -> IF x.k = "int" THEN Sum(-x.n) ELSE Bad
      [] f = "not" -> IF x.k = "bool" THEN BoolValue(x.n = 0) ELSE Bad

Atom(a, locals, params) ==
    CASE a.op = "const" -> a.v
      [] a.op = "local" -> locals[a.id]
      [] a.op = "arg"   -> IF a.id <= Len(params) THEN locals[params[a.id]] ELSE Bad

Eval(rv, locals, params) ==
    CASE rv.op \in {"const", "local", "arg"} -> Atom(rv, locals, params)
      [] rv.op = "binary" ->
            LET x == Atom(rv.l, locals, params)
                y == Atom(rv.r, locals, params)
            IN  IF x = Bad \/ y = Bad THEN Bad ELSE Binary(rv.f, x, y)
      [] rv.op = "unary" ->
            LET x == Atom(rv.r, locals, params)
            IN  IF x = Bad THEN Bad ELSE Unary(rv.f, x)
      [] rv.op = "bad" -> Bad

EvalAll(rvs, locals, params) == [i \in 1..Len(rvs) |-> Eval(rvs[i], locals, params)]
AllGood(vs) == \A i \in 1..Len(vs) : vs[i] # Bad

\* The locals after the statements of a block, Failed if one cannot be
\* evaluated.  A function has at least one local, its return value.
Failed == <<>>
AfterStatements(b, locals) ==
    LET L[i \in 0..Len(b.stmts)] ==
            IF i = 0 THEN locals
            ELSE LET prev == L[i - 1]
                     v == Eval(b.stmts[i].rv, prev, b.params)
                 IN  IF prev = Failed \/ v = Bad THEN Failed
                     ELSE [prev EXCEPT ![b.stmts[i].local] = v]
    IN  L[Len(b.stmts)]

\* value_to_const keeps the low bits of an integer (`as i8` and so on), and
\* rejects a value that is not of the function's return type.
ToConst(v, f) ==
    IF v.k # f.ty THEN Bad
    ELSE IF v.k = "int" THEN IntValue(Wrap(v.n, f.low, f.span)) ELSE v

-----------------------------------------------------------------------------
VARIABLES
    crate,      \* the crate as it was given
    blocks,     \* its blocks, rewritten as calls are evaluated
    phase,      \* "collect", "next", "run", "done" or "panic"
    todo,       \* the reachable functions not yet collected from
    pending,    \* the calls to evaluate
    stack,      \* context_stack
    handlers,   \* global_handlers
    susp,       \* suspended_raise, as a sequence of at most one
    results     \* history: what each evaluated call gave

vars == <<crate, blocks, phase, todo, pending, stack, handlers, susp, results>>

Funs == crate.funs

\* The functions main reaches by Call terminators, whatever the blocks that
\* hold them (reachable_functions).
Calls(c, f) ==
    {c.blocks[b].term.func : b \in {x \in BlocksOf(c, f) : c.blocks[x].term.kind = "call"}}

Reachable(c) ==
    LET R[n \in 0..Len(c.funs)] ==
            IF n = 0 THEN {c.main}
            ELSE LET prev == R[n - 1] IN prev \cup UNION {Calls(c, f) : f \in prev}
    IN  R[Len(c.funs)]

Init ==
    /\ crate \in Crates
    /\ blocks = crate.blocks
    /\ phase = "collect"
    /\ todo = Reachable(crate)
    /\ pending = <<>>
    /\ stack = <<>> /\ handlers = <<>> /\ susp = <<>>
    /\ results = <<>>

\* The last Let of a local in the order of the function's blocks, if it
\* gives the local a constant (build_local_const_map); a Store is not seen.
LetAt(c, f, p) == c.blocks[c.funs[f].blocks[p[1]]].stmts[p[2]]
Lets(c, f) ==
    UNION {{p \in {i} \X (1..Len(c.blocks[c.funs[f].blocks[i]].stmts)) : LetAt(c, f, p).kind = "let"} :
              i \in 1..Len(c.funs[f].blocks)}

ConstOf(c, f, l) ==
    LET mine == {p \in Lets(c, f) : LetAt(c, f, p).local = l}
        last == {p \in mine : \A q \in mine : q[1] < p[1] \/ (q[1] = p[1] /\ q[2] <= p[2])}
        good == {p \in last : LetAt(c, f, p).rv.op = "const"}
    IN  IF good = {} THEN Bad ELSE LetAt(c, f, CHOOSE p \in good : TRUE).rv.v

Extract(c, f, rv) ==
    CASE rv.op = "const" -> rv.v
      [] rv.op = "local" -> ConstOf(c, f, rv.id)
      [] OTHER -> Bad

\* The elements of s at the positions of I, in their order.
Picks(s, I) ==
    LET P[n \in 0..Len(s)] ==
            IF n = 0 THEN <<>>
            ELSE IF n \in I THEN Append(P[n - 1], s[n]) ELSE P[n - 1]
    IN  P[Len(s)]

\* The calls of consteval functions in f whose arguments are constants.
ConstCalls(c, f) ==
    LET job(b) == [block |-> b, func |-> c.blocks[b].term.func,
                   args  |-> [i \in 1..Len(c.blocks[b].term.args) |->
                                 Extract(c, f, c.blocks[b].term.args[i])],
                   dest  |-> c.blocks[b].term.dest, target |-> c.blocks[b].term.target]
        isJob(b) == /\ c.blocks[b].term.kind = "call"
                    /\ c.funs[c.blocks[b].term.func].consteval
                    /\ AllGood(job(b).args)
        all == c.funs[f].blocks
        bs == Picks(all, {i \in 1..Len(all) : isJob(all[i])})
    IN  [i \in 1..Len(bs) |-> job(bs[i])]

\* The reachable functions are in a hash set: any order.
Collect ==
    /\ phase = "collect"
    /\ \E f \in todo :
          /\ pending' = pending \o ConstCalls(crate, f)
          /\ todo' = todo \ {f}
    /\ phase' = IF todo' = {} THEN "next" ELSE "collect"
    /\ UNCHANGED <<crate, blocks, stack, handlers, susp, results>>

-----------------------------------------------------------------------------
(* The stack of contexts (push_context). *)

Fits(fun, args) == fun.ret + Len(args) <= fun.size

FirstLocals(fun, args) ==
    [l \in 1..fun.size |-> IF l - fun.ret \in 1..Len(args) THEN args[l - fun.ret] ELSE UnitValue]

Context(f, args, caller, dest, target, callBlock) ==
    [fun |-> f, block |-> Funs[f].blocks[1], locals |-> FirstLocals(Funs[f], args), caller |-> caller,
     dest |-> dest, target |-> target, callBlock |-> callBlock]

Panic ==
    /\ phase' = "panic"
    /\ UNCHANGED <<crate, blocks, todo, pending, stack, handlers, susp, results>>

\* eval takes the next call.  The error of push_context is not looked at,
\* and run_stack meets an empty stack.
StartJob ==
    /\ phase = "next" /\ pending # <<>>
    /\ LET j == Head(pending) IN
       IF Fits(Funs[j.func], j.args)
       THEN /\ stack' = <<Context(j.func, j.args, 0, j.dest, j.target, j.block)>>
            /\ handlers' = <<>> /\ susp' = <<>>
            /\ phase' = "run"
            /\ UNCHANGED <<crate, blocks, todo, pending, results>>
       ELSE Panic

AllDone ==
    /\ phase = "next" /\ pending = <<>>
    /\ phase' = "done"
    /\ UNCHANGED <<crate, blocks, todo, pending, stack, handlers, susp, results>>

Top == Len(stack)
Ctx == stack[Top]
Code == blocks[Ctx.block]
Locals == AfterStatements(Code, Ctx.locals)
At(rv) == Eval(rv, Locals, Code.params)

\* maybe_pop_handler, at the head of every step.
Live ==
    IF /\ handlers # <<>>
       /\ handlers[Len(handlers)].ctx = Top
       /\ handlers[Len(handlers)].merge = Ctx.block
    THEN SubSeq(handlers, 1, Len(handlers) - 1) ELSE handlers

\* A step that ends in a terminator of kind k.
Ends(k) == phase = "run" /\ Code.term.kind = k /\ Locals # Failed

\* The current context goes on at block b with locals l.
Continue(b, l) == [stack EXCEPT ![Top].block = b, ![Top].locals = l]

KeepHandlers == handlers' = Live /\ UNCHANGED susp
Unchanged == UNCHANGED <<crate, blocks, phase, todo, pending, results>>

\* A statement that cannot be evaluated: run_stack returns an error, which
\* eval unwraps.
StatementFails == phase = "run" /\ Locals = Failed /\ Panic

\* Goto passes its first argument to the first parameter of its target.
Goto ==
    /\ Ends("goto")
    /\ LET t == Code.term
           prm == blocks[t.target].params
       IN IF t.args # <<>> /\ prm # <<>>
          THEN IF At(t.args[1]) = Bad THEN Panic
               ELSE /\ stack' = Continue(t.target, [Locals EXCEPT ![prm[1]] = At(t.args[1])])
                    /\ KeepHandlers /\ Unchanged
          ELSE stack' = Continue(t.target, Locals) /\ KeepHandlers /\ Unchanged

\* Faulty: the cases are not looked at.
SwitchIntDefault ==
    /\ Ends("switch")
    /\ IF At(Code.term.disc) = Bad THEN Panic
       ELSE stack' = Continue(Code.term.default, Locals) /\ KeepHandlers /\ Unchanged

\* The first case equal to the discriminant; an enum is compared by its tag.
SwitchInt ==
    /\ Ends("switch")
    /\ LET t == Code.term
           d == At(t.disc)
           v == IF d.k = "enum" THEN IntValue(d.n) ELSE d
           hits == {i \in 1..Len(t.targets) : t.targets[i][1] = v}
           next == IF hits = {} THEN t.default
                   ELSE t.targets[CHOOSE i \in hits : \A j \in hits : i <= j][2]
       IN IF d = Bad THEN Panic
          ELSE stack' = Continue(next, Locals) /\ KeepHandlers /\ Unchanged

\* Faulty: any function can be called.
CallAny ==
    /\ Ends("call")
    /\ LET t == Code.term
           args == EvalAll(t.args, Locals, Code.params)
       IN IF AllGood(args) /\ Fits(Funs[t.func], args)
          THEN /\ stack' = Append(Continue(Ctx.block, Locals),
                                  Context(t.func, args, Top, t.dest, t.target, Ctx.block))
               /\ KeepHandlers /\ Unchanged
          ELSE Panic

\* Only a consteval function can be called; its context goes on top.
Call ==
    /\ Ends("call")
    /\ LET t == Code.term
           args == EvalAll(t.args, Locals, Code.params)
       IN IF Funs[t.func].consteval /\ AllGood(args) /\ Fits(Funs[t.func], args)
          THEN /\ stack' = Append(Continue(Ctx.block, Locals),
                                  Context(t.func, args, Top, t.dest, t.target, Ctx.block))
               /\ KeepHandlers /\ Unchanged
          ELSE Panic

-----------------------------------------------------------------------------
(* Return.  The block that made the call is rewritten: its result becomes  *)
(* a Let at its end and the call a Goto.                                   *)

\* Faulty: a context that returns leaves its handlers behind.
NoneOfKept(hs, c) == hs

NoneOf(hs, c) == Picks(hs, {i \in 1..Len(hs) : hs[i].ctx # c})

\* Faulty: the call is skipped and its result is not stored.
RewrittenNoLet(b, dest, v, target) ==
    [blocks EXCEPT ![b].term = [kind |-> "goto", target |-> target, args |-> <<>>]]

Rewritten(b, dest, v, target) ==
    [blocks EXCEPT
        ![b].stmts = Append(@, [kind |-> "let", local |-> dest,
                                rv |-> [op |-> "const", v |-> v]]),
        ![b].term = IF target = 0 THEN [kind |-> "unreachable"]
                    ELSE [kind |-> "goto", target |-> target, args |-> <<>>]]

\* Inside the evaluation: the caller goes on with the value as it is, the
\* block keeps it as a constant of the return type.  A caller index past
\* the end of the stack panics like the other errors.
Return ==
    /\ Ends("return") /\ Ctx.caller # 0
    /\ LET v == Locals[Funs[Ctx.fun].ret]
           const == ToConst(v, Funs[Ctx.fun])
           below == SubSeq(stack, 1, Top - 1)
       IN IF Ctx.target = 0 \/ const = Bad \/ Ctx.caller >= Top THEN Panic
          ELSE /\ stack' = [below EXCEPT ![Ctx.caller].locals[Ctx.dest] = v,
                                         ![Ctx.caller].block = Ctx.target]
               /\ blocks' = Rewritten(Ctx.callBlock, Ctx.dest, const, Ctx.target)
               /\ handlers' = NoneOf(Live, Top)
               /\ UNCHANGED <<crate, phase, todo, pending, susp, results>>

\* The evaluated call itself: eval rewrites the block that made it.
ReturnTop ==
    /\ Ends("return") /\ Ctx.caller = 0
    /\ LET v == Locals[Funs[Ctx.fun].ret]
           j == Head(pending)
           const == ToConst(v, Funs[j.func])
       IN IF const = Bad THEN Panic
          ELSE /\ stack' = SubSeq(stack, 1, Top - 1)
               /\ handlers' = NoneOf(Live, Top)
               /\ blocks' = Rewritten(j.block, j.dest, const, j.target)
               /\ results' = Append(results, [func |-> j.func, args |-> j.args, value |-> const])
               /\ pending' = Tail(pending)
               /\ phase' = "next"
               /\ UNCHANGED <<crate, todo, susp>>

-----------------------------------------------------------------------------
(* Effects. *)

\* The merge block of a handler is where its first block goes next.
\* (args_dest repeats the parameters of the handler's block.)
InstallHandler ==
    /\ Ends("install")
    /\ LET t == Code.term
           first == blocks[t.handler].term
       IN IF first.kind \in {"goto", "resume"}
          THEN /\ handlers' = Append(Live, [control |-> t.control, ctx |-> Top, block |-> t.handler,
                                            merge |-> first.target])
               /\ stack' = Continue(t.next, Locals)
               /\ UNCHANGED susp /\ Unchanged
          ELSE Panic

IndexOf(seq, x) == CHOOSE i \in 1..Len(seq) : seq[i] = x

\* The innermost handler of a control, by its position.
Installed(control) == {i \in 1..Len(Live) : Live[i].control = control}
Innermost(control) == CHOOSE i \in Installed(control) : \A j \in Installed(control) : j <= i

\* The values raised are written to the parameters of the handler's block.
Receive(b, vals, locals) ==
    [l \in 1..Len(locals) |->
        LET mine == {i \in 1..Len(blocks[b].params) : blocks[b].params[i] = l} IN
        IF mine = {} THEN locals[l]
        ELSE LET i == CHOOSE i \in mine : \A j \in mine : j <= i
             IN  IF i <= Len(vals) THEN vals[i] ELSE UnitValue]

\* Faulty: the handler's own context is captured too.
CapturedWithHandler(st, ctx) == SubSeq(st, ctx, Len(st))

\* Faulty: the context right above the handler's is lost.
CapturedLosingOne(st, ctx) == SubSeq(st, ctx + 2, Len(st))

\* What a continuation captures of a stack.
Captured(st, ctx) == SubSeq(st, ctx + 1, Len(st))

\* The contexts above the handler's become the continuation, to go on at
\* the block after the raising one in the order of the function.  As they
\* are captured, handlers are dropped whose context has the number of a
\* captured context's function (fun_id at line 834).
Raise ==
    /\ Ends("raise")
    /\ LET t == Code.term
           vals == EvalAll(t.args, Locals, Code.params)
           order == Funs[Ctx.fun].blocks
           pos == IndexOf(order, Ctx.block)
           now == Continue(Ctx.block, Locals)
       IN IF Installed(t.control) = {} \/ ~AllGood(vals) \/ pos = Len(order) THEN Panic
          ELSE LET h == Live[Innermost(t.control)]
                   captured == Captured(now, h.ctx)
                   dropped == {captured[i].fun : i \in 1..Len(captured)}
                   kept == {i \in 1..Len(Live) : /\ i # Innermost(t.control)
                                                 /\ Live[i].ctx \notin dropped
                                                 /\ Live[i].ctx <= h.ctx}
               IN /\ stack' = [SubSeq(now, 1, h.ctx) EXCEPT
                                 ![h.ctx].block = h.block,
                                 ![h.ctx].locals = Receive(h.block, vals, @)]
                  /\ handlers' = Picks(Live, kept)
                  /\ susp' = <<[frames |-> captured, target |-> order[pos + 1],
                                dest |-> t.dest, ctx |-> h.ctx]>>
                  /\ Unchanged

\* The continuation goes back on the stack; the handler's context will go
\* on at the merge block.  When no context was captured the two are one,
\* and the merge block wins (line 1122 after line 1121).
Resume ==
    /\ Ends("resume")
    /\ IF susp = <<>> THEN Panic
       ELSE LET k == susp[1]
                grown == Continue(Ctx.block, Locals) \o k.frames
            IN /\ stack' = [grown EXCEPT ![Len(grown)].locals[k.dest] = Locals[Code.term.place],
                                         ![Len(grown)].block = k.target,
                                         ![Top].block = Code.term.target]
               /\ susp' = <<>>
               /\ handlers' = Live
               /\ Unchanged

\* A call by pointer, or code marked unreachable.
Stuck == (Ends("callptr") \/ Ends("unreachable")) /\ Panic

Next ==
    \/ Collect \/ StartJob \/ AllDone
    \/ StatementFails \/ Goto \/ SwitchInt \/ Call \/ Return \/ ReturnTop
    \/ InstallHandler \/ Raise \/ Resume \/ Stuck

Spec == Init /\ [][Next]_vars

-----------------------------------------------------------------------------
\* Types of the evaluator's state.
TypeOK ==
    /\ phase \in {"collect", "next", "run", "done", "panic"}
    /\ todo \subseteq 1..Len(Funs)
    /\ Len(blocks) = Len(crate.blocks)
    /\ \A i \in 1..Len(stack) :
          LET c == stack[i] IN
          /\ c.fun \in 1..Len(Funs) /\ Funs[c.fun].consteval
          /\ c.block \in BlocksOf(crate, c.fun)
          /\ c.locals \in [1..Funs[c.fun].size -> Value]
    /\ \A i \in 1..Len(handlers) : handlers[i].block \in 1..Len(blocks)
    /\ Len(susp) <= 1
    /\ phase = "run" => stack # <<>>

\* Between the raise and the resume that answers it nothing is called,
\* raised or installed: there is one suspended_raise for the whole stack.
QuietHandlers ==
    \A b \in Answering(crate) : crate.blocks[b].term.kind \notin {"call", "raise", "install"}

\* Each context was pushed by the one below it, also after a continuation
\* went back on the stack: Return gives its value to the context that made
\* the call (caller_ctx_idx, line 950).
Chained ==
    QuietHandlers /\ phase = "run" => \A i \in 1..Len(stack) : stack[i].caller = i - 1

\* Every handler belongs to a context of the stack, and an inner context's
\* handlers come after an outer one's: rposition finds the innermost.
HandlersInOrder ==
    phase = "run" =>
        /\ \A i \in 1..Len(handlers) : handlers[i].ctx \in 1..Len(stack)
        /\ \A i, j \in 1..Len(handlers) : i < j => handlers[i].ctx <= handlers[j].ctx

\* Resume answers a raise that was handled by the context that resumes,
\* and gives back the contexts that were captured from right above it; any
\* other resume is to be reported ("resume without matching raise", lib.rs
\* 1087).  Without QuietHandlers it does not hold: a raise of a function the
\* handler calls replaces the one suspended_raise.
ResumeAnswersItsRaise ==
    QuietHandlers /\ phase = "run" /\ Ends("resume") /\ susp # <<>> =>
        /\ susp[1].ctx = Top
        /\ \A i \in 1..Len(susp[1].frames) : susp[1].frames[i].caller = Top + i - 1

\* A handler is only installed while the body of its `with` runs: the step
\* that executes the merge block of the `with` begins by removing it, which
\* is what maybe_pop_handler (called at line 878) tests for
\* (last.merge_block == current_block, line 782).  Live is what that step
\* finds installed.
HandlersAreScoped ==
    phase = "run" =>
        \A i \in 1..Len(Live) :
            Live[i].ctx = Top => Ctx.block # crate.merge[Live[i].block]

=============================================================================
