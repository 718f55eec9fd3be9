------------------------------ MODULE MirLower ------------------------------
(***************************************************************************)
(* leaf_mir_lower: how declarations and expressions become functions and   *)
(* basic blocks.  lower_decls is one action per declaration; compile_expr  *)
(* is the recursion of the code over the state of the lowering, low.  Only *)
(* the decision trees of `match` and `is` are left to MatchTree.           *)
(*                                                                         *)
(* Of types only what the lowering asks them is kept: how many references  *)
(* stand before a struct or a function, and the struct of a field.         *)
(* Blocks, functions and locals are numbered from 1; local 1 is the value  *)
(* returned.  Three ghosts have no counterpart in MIR: goto.leave (how     *)
(* many handlers end here), goto.abort (a clause that does not resume) and *)
(* raise.after (the block to resume at).  low.astray collects what the     *)
(* lowering is known to get wrong in a program: MirRun sets these aside.   *)
(***************************************************************************)
EXTENDS HirProgram

VARIABLES next, low
lowVars == <<next, low>>

\* A place is a local and the steps from it; NoPlace stands for None.
Local(l) == [root |-> l, path |-> <<>>]
NoPlace == Local(0)
StepTo(p, kind, i) == [p EXCEPT !.path = Append(@, [s |-> kind, i |-> i])]
Derefs(p, n) == [p EXCEPT !.path = @ \o [i \in 1..n |-> [s |-> "deref", i |-> 0]]]
Kept(places) == SelectSeq(places, LAMBDA p : p # NoPlace)

Rvalue(op, v, args) == [op |-> op, v |-> v, args |-> args]
Unreachable == [t |-> "unreachable"]
Goto(b, args) == [t |-> "goto", target |-> b, args |-> args, leave |-> 0, abort |-> FALSE]

Start == [blocks |-> <<>>, cur |-> 1, stmts |-> <<>>, own |-> <<>>,
          size |-> 0, names |-> <<>>, resume |-> 0,
          funs |-> <<>>, fnOf |-> <<>>, fields |-> <<>>, tags |-> <<>>, controls |-> <<>>,
          pubs |-> <<>>, ok |-> TRUE, astray |-> {}]

-----------------------------------------------------------------------------
(* Blocks. *)

Astray(m, why) == [m EXCEPT !.astray = @ \cup {why}]
AstrayIf(b, m, why) == IF b THEN Astray(m, why) ELSE m

NewBlock(m) ==
    [m EXCEPT !.blocks = Append(@, [params |-> <<>>, stmts |-> <<>>, term |-> Unreachable]),
              !.own = Append(@, Len(m.blocks) + 1)]
Newest(m) == Len(m.blocks)

\* The statements not yet in a block are forgotten.
StartBlock(m, b) ==
    AstrayIf(m.stmts # <<>>, [m EXCEPT !.cur = b, !.stmts = <<>>], "statements")

\* finish_block: a block that already has a terminator gets another one.
SetTerminator(m, t) ==
    AstrayIf(m.blocks[m.cur].term # Unreachable,
             [m EXCEPT !.blocks[m.cur].stmts = m.stmts, !.blocks[m.cur].term = t, !.stmts = <<>>],
             "statements")

Push(m, l, rv) == [m EXCEPT !.stmts = Append(@, [local |-> l, rv |-> rv])]
NewLocal(m) == [m EXCEPT !.size = @ + 1]
Bind(m, sym, l) == [m EXCEPT !.names = (sym :> l) @@ @]

\* What compiling an expression gives.
Result(m, p) == [m |-> m, place |-> p]
Fail(m) == Result([m EXCEPT !.ok = FALSE], NoPlace)

\* The `?` of the code: what follows happens only after a success.
AndThen(r, Then(_)) == IF r.m.ok THEN Then(r) ELSE Fail(r.m)
Temp(m, rv) == Result(Push(NewLocal(m), m.size + 1, rv), Local(m.size + 1))

\* Terminates the current block and goes on in a new one.
GoOn(m, term) == StartBlock(SetTerminator(NewBlock(m), term), Newest(m) + 1)

\* A new block with nothing but its end.
OnlyEnd(m, term) == SetTerminator(StartBlock(NewBlock(m), Newest(m) + 1), term)

-----------------------------------------------------------------------------
(* Expressions. *)
RECURSIVE Compile(_, _)

CompileAll(es, m) ==
    LET C[n \in 0..Len(es)] ==
            IF n = 0 THEN [m |-> m, places |-> <<>>]
            ELSE LET prev == C[n - 1] IN
                 IF ~prev.m.ok THEN prev
                 ELSE LET r == Compile(es[n], prev.m)
                      IN  [m |-> r.m, places |-> Append(prev.places, r.place)]
    IN  C[Len(es)]

\* lookup_place, then the functions declared so far.
Name(e, m) ==
    IF e.sym \in DOMAIN m.names THEN Result(m, Local(m.names[e.sym]))
    ELSE IF e.sym \in DOMAIN m.fnOf THEN Temp(m, Rvalue("const", Val("fun", m.fnOf[e.sym], <<>>), <<>>))
    ELSE Fail(m)

\* Operands without a place: some expressions require one, others leave them out.
Required(a) == a.m.ok /\ \A i \in 1..Len(a.places) : a.places[i] # NoPlace
Dropping(a) == AstrayIf(\E i \in 1..Len(a.places) : a.places[i] = NoPlace, a.m, "dropped")

\* Unary and binary operators; `and` and `or` have both operands evaluated.
Operation(e, m) ==
    LET a == CompileAll(e.args, m)
    IN  IF Required(a) THEN Temp(a.m, Rvalue(e.f, Unit, a.places)) ELSE Fail(a.m)

\* move, copy, ref, mut ref, share and a cast of what has a place.
Wrap(e, m) ==
    LET r == Compile(e.args[1], m)
    IN  IF r.m.ok /\ r.place # NoPlace THEN Temp(r.m, Rvalue(e.f, Unit, <<r.place>>)) ELSE Fail(r.m)

Tuple(e, m) ==
    LET a == CompileAll(e.args, m)
    IN  IF a.m.ok THEN Temp(Dropping(a), Rvalue("tuple", Unit, Kept(a.places))) ELSE Fail(a.m)

\* The fields are given in the order in which they are written.
MakeStruct(e, m) ==
    LET a == CompileAll(e.args, m)
        inOrder == \A i \in 1..Len(e.fields) : m.fields[<<e.decl, e.fields[i]>>] = i
    IN  IF a.m.ok
        THEN Temp(AstrayIf(~inOrder, Dropping(a), "fields"), Rvalue("tuple", Unit, Kept(a.places)))
        ELSE Fail(a.m)

Variant(e, m) ==
    IF e.ctor \notin DOMAIN m.tags THEN Fail(m)
    ELSE LET a == CompileAll(e.args, m)
         IN  IF a.m.ok THEN Temp(a.m, Rvalue("variant", Val("enum", m.tags[e.ctor], <<>>), Kept(a.places)))
             ELSE Fail(a.m)

FieldAccess(e, m) ==
    LET a == CompileAll(e.args, m)
        key == <<e.decl, e.field>>
    IN  IF Required(a) /\ key \in DOMAIN m.fields
        THEN Result(a.m, StepTo(Derefs(a.places[1], e.derefs), "field", m.fields[key]))
        ELSE Fail(a.m)

TupleIndex(e, m) ==
    LET a == CompileAll(e.args, m)
    IN  IF Required(a) THEN Result(a.m, StepTo(a.places[1], "field", e.i)) ELSE Fail(a.m)

\* A let whose initial value has no place binds nothing.
Let(e, m) ==
    LET a == CompileAll(e.args, m)
        n == Bind(NewLocal(a.m), e.sym, a.m.size + 1)
    IN  IF ~a.m.ok THEN Fail(a.m)
        ELSE IF a.places[1] = NoPlace THEN Result(a.m, NoPlace)
        ELSE Result(Push(n, n.size, Rvalue("move", Unit, a.places)), NoPlace)

Block(e, m) ==
    LET a == CompileAll(e.args, m)
    IN  IF ~a.m.ok THEN Fail(a.m)
        ELSE Result(a.m, IF e.args = <<>> THEN NoPlace ELSE a.places[Len(e.args)])

\* Faulty: a value is stored only when there is another one.
StoreResultLate(m, places) ==
    IF Len(Kept(places)) < 2 THEN m ELSE Push(m, 1, Rvalue("move", Unit, Kept(places)))

StoreResult(m, places) ==
    IF Kept(places) = <<>> THEN m ELSE Push(m, 1, Rvalue("move", Unit, Kept(places)))

\* Faulty: what follows goes to the block that has ended.
ReturnStays(e, m) ==
    LET a == CompileAll(e.args, m)
    IN  IF ~a.m.ok THEN Fail(a.m)
        ELSE Result(SetTerminator(StoreResult(a.m, a.places), [t |-> "return"]), NoPlace)

Return(e, m) ==
    LET a == CompileAll(e.args, m)
    IN  IF ~a.m.ok THEN Fail(a.m)
        ELSE Result(GoOn(StoreResult(a.m, a.places), [t |-> "return"]), NoPlace)

\* The call, its arguments evaluated, of a function by its number or by the
\* place of its pointer, behind its references.
CallWith(e, args, fun, m) ==
    AndThen(IF fun # 0 THEN Result(m, NoPlace) ELSE Compile(e.callee, m), LAMBDA f :
        IF fun = 0 /\ f.place = NoPlace THEN Fail(f.m)
        ELSE Result(StartBlock(SetTerminator(f.m,
                        [t |-> "call", fun |-> fun, place |-> IF fun # 0 THEN NoPlace ELSE Derefs(f.place, e.derefs),
                         args |-> args, dest |-> m.size, target |-> Newest(m)]), Newest(m)),
                    Local(m.size)))

\* A name declared as a function so far is called directly, everything else
\* by pointer; the arguments come first.
Call(e, m) ==
    LET a == CompileAll(e.args, m)
        direct == e.callee.e = "name" /\ e.callee.sym \in DOMAIN m.fnOf
    IN  IF ~a.m.ok THEN Fail(a.m)
        ELSE CallWith(e, Kept(a.places), IF direct THEN m.fnOf[e.callee.sym] ELSE 0,
                      NewBlock(NewLocal(Dropping(a))))

\* Faulty: the value of the branch is not passed on.
GotoWithNothing(b, place) == Goto(b, <<>>)

\* A place, or unit, for the parameter of the merge block.
GotoWith(b, place) == Goto(b, <<place>>)

\* The two blocks after a condition, the first of them begun.
Switch(c) ==
    StartBlock(SetTerminator(NewBlock(NewBlock(c.m)),
                             [t |-> "switch", place |-> c.place, yes |-> Newest(c.m) + 1, no |-> Newest(c.m) + 2]),
               Newest(c.m) + 1)

\* The i-th condition of an `if` and what follows, in the current block.
RECURSIVE Branches(_, _, _, _)
Branches(e, i, merge, m) ==
    IF i > Len(e.conds)
    THEN LET r == CompileAll(e.otherwise, m)
         IN  IF ~r.m.ok THEN Fail(r.m)
             ELSE Result(SetTerminator(r.m, GotoWith(merge, IF r.places = <<>> THEN NoPlace ELSE r.places[1])), NoPlace)
    ELSE AndThen(Compile(e.conds[i], m), LAMBDA c :
             IF c.place = NoPlace THEN Fail(c.m)
             ELSE AndThen(Compile(e.thens[i], Switch(c)), LAMBDA r :
                      Branches(e, i + 1, merge,
                               StartBlock(SetTerminator(r.m, GotoWith(merge, r.place)), Newest(c.m) + 2))))

\* The merge block takes the value of the branch.
If(e, m) ==
    LET merge == Newest(m) + 1
    IN  AndThen(Branches(e, 1, merge, NewBlock(m)), LAMBDA r :
            Result(StartBlock([NewLocal(r.m) EXCEPT !.blocks[merge].params = <<r.m.size + 1>>], merge),
                   Local(r.m.size + 1)))

-----------------------------------------------------------------------------
(* Effects. *)

\* get_control_param_ty: a parameter beyond those of the control is an error.
ParamsFit(c) == Len(c.params) <= c.arity

\* The block of a handler, which takes the arguments of the raise, and then
\* another one for the body.
HandlerEntry(c, m) ==
    LET k == Len(c.params)
        P[j \in 0..k] ==
            IF j = 0 THEN StartBlock([NewBlock(m) EXCEPT !.size = @ + k,
                                          !.blocks[Newest(m) + 1].params = [i \in 1..k |-> m.size + i]],
                                     Newest(m) + 1)
            ELSE LET prev == P[j - 1]
                 IN  Push(Bind(prev, c.params[j], m.size + j), m.size + j, Rvalue("arg", Val("int", j, <<>>), <<>>))
    IN  GoOn(P[k], Goto(Newest(m) + 2, <<>>))

\* A body that does not resume gives unit to the merge block.
EndClause(b, merge) ==
    IF b.m.blocks[b.m.cur].term # Unreachable THEN b.m
    ELSE AstrayIf(b.place # NoPlace,
                  SetTerminator(b.m, [GotoWith(merge, NoPlace) EXCEPT !.abort = TRUE]), "value")

\* The i-th clause of a `with`: its handler, its body and a block that
\* installs the handler and goes on to then.
Clause(e, i, merge, then, m) ==
    LET c == e.clauses[i] IN
    IF c.control \notin DOMAIN m.controls \/ ~ParamsFit(c) THEN Fail(m)
    ELSE AndThen(Compile(c.body, [HandlerEntry(c, m) EXCEPT !.resume = merge]), LAMBDA b :
             Result(OnlyEnd([EndClause(b, merge) EXCEPT !.resume = m.resume],
                            [t |-> "install", handler |-> Newest(m) + 1, target |-> then,
                             control |-> m.controls[c.control], nth |-> i]),
                    NoPlace))

\* The last clause is installed last.
Clauses(e, merge, body, m) ==
    LET C[n \in 0..Len(e.clauses)] ==
            IF n = 0 THEN Result(m, NoPlace)
            ELSE AndThen(C[n - 1], LAMBDA prev :
                     Clause(e, Len(e.clauses) + 1 - n, merge, IF n = 1 THEN body ELSE Newest(prev.m), prev.m))
    IN  C[Len(e.clauses)]

\* The body is compiled before the block that led to it gets its end, and
\* what that block held so far is lost.
WithEntry(m) ==
    StartBlock(SetTerminator(StartBlock([NewBlock(NewBlock(NewBlock(NewLocal(m)))) EXCEPT
                                             !.blocks[Newest(m) + 1].params = <<m.size + 1>>],
                                        Newest(m) + 2),
                             Goto(Newest(m) + 3, <<>>)),
               Newest(m) + 3)

With(e, m) ==
    LET merge == Newest(m) + 1
        body == Newest(m) + 2
    IN  AndThen(Compile(e.body, WithEntry(m)), LAMBDA b :
        AndThen(Clauses(e, merge, body,
                        SetTerminator(b.m, [GotoWith(merge, b.place) EXCEPT !.leave = Len(e.clauses)])), LAMBDA c :
            Result(StartBlock(SetTerminator(StartBlock(c.m, m.cur),
                                            Goto(IF e.clauses = <<>> THEN body ELSE Newest(c.m), <<>>)),
                              merge),
                   Local(m.size + 1))))

Raise(e, m) ==
    IF e.control \notin DOMAIN m.controls THEN Fail(m)
    ELSE LET a == CompileAll(e.args, m)
         IN  IF ~a.m.ok THEN Fail(a.m)
             ELSE Result(GoOn(NewLocal(Dropping(a)),
                              [t |-> "raise", control |-> m.controls[e.control], args |-> Kept(a.places),
                               dest |-> a.m.size + 1, after |-> Newest(a.m) + 1]),
                         Local(a.m.size + 1))

\* The only terminator after which no block is started.
Resume(e, m) ==
    LET a == CompileAll(e.args, m)
    IN  IF m.resume = 0 \/ ~a.m.ok THEN Fail(m)
        ELSE Result(SetTerminator(Push(NewLocal(a.m), a.m.size + 1,
                                       IF Kept(a.places) = <<>> THEN Rvalue("tuple", Unit, <<>>)
                                       ELSE Rvalue("move", Unit, a.places)),
                                  [t |-> "resume", local |-> a.m.size + 1, target |-> m.resume]),
                    NoPlace)

-----------------------------------------------------------------------------
(* Functions. *)

Fun(sym, params, m, never) ==
    [sym |-> sym, params |-> params, size |-> m.size, blocks |-> m.own, external |-> FALSE, never |-> never]

\* A fresh function with its entry block.
Enter(params, m) ==
    LET n == NewBlock([m EXCEPT !.own = <<>>, !.size = 1 + Len(params), !.stmts = <<>>,
                                !.names = [s \in {params[i] : i \in 1..Len(params)} |->
                                              1 + CHOOSE i \in 1..Len(params) : params[i] = s]])
    IN  StartBlock(n, Newest(n))

\* make_const_eval_fun: the expression becomes a function without parameters,
\* which takes the next number, and the lowering goes on where it was.
ConstFun(d, m) ==
    [m EXCEPT !.blocks = d.blocks, !.astray = d.astray, !.resume = d.resume, !.size = @ + 1,
              !.funs = Append(d.funs, Fun("const", <<>>, d, FALSE))]

CallConst(m) ==
    Result(GoOn(m, [t |-> "call", fun |-> Len(m.funs), place |-> NoPlace, args |-> <<>>,
                    dest |-> m.size, target |-> Newest(m) + 1]),
           Local(m.size))

ConstEval(e, m) ==
    AndThen(Compile(e.args[1], Enter(<<>>, m)), LAMBDA r :
        CallConst(ConstFun(SetTerminator(StoreResult(r.m, <<r.place>>), [t |-> "return"]), m)))

Compile(e, m) ==
    CASE e.e = "lit"     -> Temp(m, Rvalue("const", e.v, <<>>))
      [] e.e = "name"    -> Name(e, m)
      [] e.e = "op"      -> Operation(e, m)
      [] e.e = "wrap"    -> Wrap(e, m)
      [] e.e = "tuple"   -> Tuple(e, m)
      [] e.e = "struct"  -> MakeStruct(e, m)
      [] e.e = "variant" -> Variant(e, m)
      [] e.e = "field"   -> FieldAccess(e, m)
      [] e.e = "index"   -> TupleIndex(e, m)
      [] e.e = "let"     -> Let(e, m)
      [] e.e = "block"   -> Block(e, m)
      [] e.e = "return"  -> Return(e, m)
      [] e.e = "call"    -> Call(e, m)
      [] e.e = "if"      -> If(e, m)
      [] e.e = "with"    -> With(e, m)
      [] e.e = "raise"   -> Raise(e, m)
      [] e.e = "resume"  -> Resume(e, m)
      [] e.e = "const"   -> ConstEval(e, m)

\* lower_function: the value of the last expression is returned unless the
\* function never returns.  The number of the function was taken before.
EndFunction(d, r) ==
    IF r.m.blocks[r.m.cur].term # Unreachable \/ d.never THEN r.m
    ELSE SetTerminator(StoreResult(r.m, <<r.place>>), [t |-> "return"])
AddFunction(d, m) == [m EXCEPT !.funs = Append(@, Fun(d.sym, d.params, m, d.never))]

Function(d, m) ==
    AndThen(Block([args |-> d.body], Enter(d.params, m)), LAMBDA r :
        Result(AddFunction(d, EndFunction(d, r)), NoPlace)).m

-----------------------------------------------------------------------------
(* Declarations (lower_decls), in their order; the first error ends it. *)

Init == next = 1 /\ low = Start

Decl(kind) ==
    /\ low.ok
    /\ next <= Len(prog) /\ prog[next].d = kind
    /\ next' = next + 1
    /\ UNCHANGED prog

LowerExternal ==
    /\ Decl("external")
    /\ LET d == prog[next] IN
       low' = [low EXCEPT !.fnOf = (d.sym :> Len(low.funs) + 1) @@ @,
                          !.funs = Append(@, [Fun(d.sym, <<>>, low, FALSE) EXCEPT
                                                 !.external = TRUE, !.blocks = <<>>])]

\* Numbered before its body is lowered, so that it may call itself.
Lowering(d, id, m) ==
    [AstrayIf(Len(m.funs) # id, m, "number") EXCEPT !.pubs = IF m.ok /\ d.pub THEN Append(@, id) ELSE @]

LowerFun ==
    /\ Decl("fun")
    /\ LET d == prog[next]
           id == Len(low.funs) + 1
       IN  low' = Lowering(d, id, Function(d, [low EXCEPT !.fnOf = (d.sym :> id) @@ @]))

LowerStruct ==
    /\ Decl("struct")
    /\ LET d == prog[next]
           keys == {<<d.sym, d.fields[i]>> : i \in 1..Len(d.fields)}
       IN  low' = [low EXCEPT !.fields = [k \in keys |-> CHOOSE i \in 1..Len(d.fields) : d.fields[i] = k[2]] @@ @]

LowerADT ==
    /\ Decl("adt")
    /\ LET d == prog[next]
           ctors == {d.ctors[i] : i \in 1..Len(d.ctors)}
       IN  low' = [low EXCEPT !.tags = [c \in ctors |-> CHOOSE i \in 1..Len(d.ctors) : d.ctors[i] = c] @@ @]

\* Controls are numbered over the whole crate.
LowerEffect ==
    /\ Decl("effect")
    /\ LET d == prog[next]
           n == Cardinality(DOMAIN low.controls)
           cs == {d.controls[i] : i \in 1..Len(d.controls)}
       IN  low' = [low EXCEPT !.controls = [c \in cs |-> n + CHOOSE i \in 1..Len(d.controls) : d.controls[i] = c] @@ @]

\* A global or a constant: its value is todo!().
LowerStatic ==
    /\ Decl("static")
    /\ low' = Fail(low).m

\* Other types are none of the lowering's.
LowerOther ==
    /\ \E kind \in {"alias", "opaque"} : Decl(kind)
    /\ UNCHANGED low

LowerNext == LowerOther \/ LowerExternal \/ LowerFun \/ LowerStruct \/ LowerADT \/ LowerEffect \/ LowerStatic

Lowered == next > Len(prog) \/ ~low.ok

=============================================================================
