--------------------------- MODULE TypeInference ---------------------------
(***************************************************************************)
(* leaf_type_checker: declarations and expressions.  check is one action   *)
(* per declaration, infer_expr a recursion over the state of the checker,  *)
(* c.  What TypePool shows of nodes and representatives is taken for       *)
(* granted: a type is a head and its arguments, or a variable.  Patterns   *)
(* (match, is) are left to Usefulness.                                     *)
(*                                                                         *)
(* An error ends the declaration it is met in and leaves the checker as it *)
(* is then.  reported is the collector of diagnostics, and a program is    *)
(* accepted when it is empty.  loose is a ghost: the ways in which the     *)
(* checker accepted something it has not compared.                         *)
(***************************************************************************)
EXTENDS HirProgram
LOCAL INSTANCE SequencesExt

VARIABLES checking,   \* the next declaration
          tc        \* the state of the checker
inferVars == <<checking, tc>>

\* Types: v is the number of a variable or 0, and h the head of other types:
\* a builtin, the name of a struct or an ADT, or how it is made.
Ty(h, args) == [v |-> 0, h |-> h, args |-> args]
Var(x) == [v |-> x, h |-> "var", args |-> <<>>]
NoType == Ty("none", <<>>)
IntTy == Ty("I32", <<>>)
BoolTy == Ty("Bool", <<>>)
NeverTy == Ty("Never", <<>>)
UnitTy == Ty("tuple", <<>>)
FunTy(params, ret) == Ty("fun", Append(params, ret))
BuiltinArity == [I32 |-> 0, I64 |-> 0, Bool |-> 0, Never |-> 0, RawPtr |-> 1]
Pointers == {"ref", "mutref", "share"}

\* A type for all q; names and declarations have schemes.
Scheme(q, body) == [q |-> q, body |-> body]
Mono(t) == Scheme(<<>>, t)

Typed(c, ty) == [c |-> c, ty |-> ty]
Typeds(c, tys) == [c |-> c, tys |-> tys]
Error(c) == [c EXCEPT !.ok = FALSE, !.reported = TRUE]
Panic(c) == [Error(c) EXCEPT !.panic = TRUE]
Failed(c) == Typed(Error(c), NoType)
LoosenIf(b, why, c) == IF b THEN [c EXCEPT !.loose = @ \cup {why}] ELSE c

Rest(s) == IF s = <<>> THEN <<>> ELSE Tail(s)

\* The `?` of the code: what follows happens only after a success.
Then(r, Do(_)) == IF r.c.ok THEN Do(r) ELSE Typed(r.c, NoType)
IfOk(c, Do(_)) == IF c.ok THEN Do(c) ELSE c

-----------------------------------------------------------------------------
(* Variables. *)

NewVars(n, c) ==
    Typeds([c EXCEPT !.vars = @ \o [i \in 1..n |-> [level |-> c.level, is |-> NoType]]],
           [i \in 1..n |-> Var(Len(c.vars) + i)])
FirstOf(r) == Typed(r.c, r.tys[1])
NewVar(c) == FirstOf(NewVars(1, c))

RECURSIVE Root(_, _)
Root(t, c) == IF t.v = 0 \/ c.vars[t.v].is = NoType THEN t ELSE Root(c.vars[t.v].is, c)
Rooted(r) == Typed(r.c, Root(r.ty, r.c))

\* The variables of a type, not looking into the types of the heads in skip.
RECURSIVE VarsIn(_, _, _)
VarsOfRoot(r, skip, c) ==
    IF r.v # 0 THEN {r.v}
    ELSE IF r.h \in skip THEN {}
    ELSE UNION {VarsIn(r.args[i], skip, c) : i \in 1..Len(r.args)}
VarsIn(t, skip, c) == VarsOfRoot(Root(t, c), skip, c)

\* collect_free_vars and check_occurs do not look into ADTs.
Free(t, c) == VarsIn(t, Symbols("adt"), c)

RECURSIVE Copy(_, _, _)
CopyOfRoot(r, subst, c) ==
    IF r.v \in DOMAIN subst THEN subst[r.v]
    ELSE [r EXCEPT !.args = [i \in 1..Len(@) |-> Copy(@[i], subst, c)]]
Copy(t, subst, c) == CopyOfRoot(Root(t, c), subst, c)

Assoc(q, tys) ==
    [x \in {q[i] : i \in 1..Len(q)} |-> tys[CHOOSE i \in 1..Len(q) : q[i] = x]]

\* The copy of a type that leads to itself does not come to an end.
RECURSIVE Endless(_, _)
EndlessRoot(r, c) == r.h \in c.endless \/ \E i \in 1..Len(r.args) : Endless(r.args[i], c)
Endless(t, c) == EndlessRoot(Root(t, c), c)

Substituted(t, subst, c) ==
    [c |-> IF Endless(t, c) THEN Panic(c) ELSE c, ty |-> Copy(t, subst, c), subst |-> subst]
ForAll(s, n) == Substituted(s.body, Assoc(s.q, n.tys), n.c)
Instantiate(s, c) ==
    IF s.q = <<>> THEN [c |-> c, ty |-> s.body, subst |-> <<>>]
    ELSE ForAll(s, NewVars(Len(s.q), c))

Generalize(t, c) ==
    Scheme(SetToSortSeq({x \in Free(t, c) : c.vars[x].level > c.level}, <), t)

\* A type that contains itself below an ADT passes the occurs check; the
\* model stops there.
SetVar(x, t, c) ==
    IF x \in Free(t, c) THEN Error(c)
    ELSE IF x \in VarsIn(t, {}, c) THEN Panic(c)
    ELSE [LoosenIf(t = NeverTy, "never", c) EXCEPT !.vars[x].is = t]

\* Never on the left agrees with everything.  That is too much for a value
\* which a variable was bound to, and for a parameter.
RECURSIVE Unify(_, _, _)
UnifyAll(as, bs, c) ==
    LET U[n \in 0..Len(as)] ==
            IF n = 0 THEN c ELSE IfOk(U[n - 1], LAMBDA prev : Unify(as[n], bs[n], prev))
    IN  U[Len(as)]
TakesNever(a, b, c) ==
    a.h = "fun" /\ \E i \in 1..Len(a.args) - 1 : Root(a.args[i], c) = NeverTy /\ Root(b.args[i], c) # NeverTy
UnifyRoots(a, b, c) ==
    IF a = b \/ a = NeverTy THEN c
    ELSE IF a.v # 0 /\ b.v # 0
    THEN IF c.vars[a.v].level <= c.vars[b.v].level
         THEN [c EXCEPT !.vars[b.v].is = a] ELSE [c EXCEPT !.vars[a.v].is = b]
    ELSE IF a.v # 0 \/ b.v # 0
    THEN SetVar(IF a.v # 0 THEN a.v ELSE b.v, IF a.v # 0 THEN b ELSE a, c)
    ELSE IF a.h # b.h \/ Len(a.args) # Len(b.args) THEN Error(c)
    ELSE UnifyAll(a.args, b.args, LoosenIf(TakesNever(a, b, c), "never", c))
Unify(t1, t2, c) == UnifyRoots(Root(t1, c), Root(t2, c), c)

\* Through references: the type behind them and their number.
RECURSIVE Behind(_, _, _)
Behind(r, n, c) ==
    IF r.h \in Pointers THEN Behind(Root(r.args[1], c), n + 1, c) ELSE [ty |-> r, n |-> n]
Stripped(t, c) == Behind(Root(t, c), 0, c)

-----------------------------------------------------------------------------
(* Names. *)

Define(sym, scheme, c) == [c EXCEPT !.names = (sym :> scheme) @@ @]
Forget(syms, c) == [c EXCEPT !.names = [s \in DOMAIN @ \ syms |-> @[s]]]
NamesOf(gs) == {gs[i].sym : i \in 1..Len(gs)}

\* Generic parameters stand for given types.
Given(gs, tys, c) ==
    [c EXCEPT !.names = [s \in NamesOf(gs) |->
                            Mono(tys[CHOOSE i \in 1..Len(tys) : gs[i].sym = s])] @@ @]

\* A declaration not checked so far has a scheme without a type.
Declare(sym, scheme, c) == [c EXCEPT !.decls[sym] = scheme, !.done = @ \cup {sym}]
Used(sym, c) == IF sym \in c.done THEN c ELSE [c EXCEPT !.early = @ \cup {sym}]

\* Constructors and controls are names; so are parameters and variables.
Named(sym, c) == IF sym \in DOMAIN c.names THEN Instantiate(c.names[sym], c) ELSE Failed(c)
SchemeOf(sym, c) == IF sym \in DOMAIN c.names THEN c.names[sym] ELSE c.decls[sym]
Known(sym, c) ==
    IF sym \in DOMAIN c.names \cup DOMAIN c.decls
    THEN Instantiate(SchemeOf(sym, c), IF sym \in DOMAIN c.names THEN c ELSE Used(sym, c))
    ELSE Failed(c)

RECURSIVE Infer(_, _, _), InferAll(_, _, _), FieldsGiven(_, _, _, _), InferBranches(_, _, _, _),
    InferClauses(_, _, _), ResolveName(_, _), ResolveAll(_, _), Constraints(_, _, _, _), Met(_, _, _)

ResolveAll(ts, c) ==
    IF ts = <<>> THEN Typeds(c, <<>>)
    ELSE Then(ResolveName(Head(ts), c), LAMBDA r :
         Then(ResolveAll(Tail(ts), r.c), LAMBDA a : Typeds(a.c, <<r.ty>> \o a.tys)))

\* The first alternative that the type can be unified with.  What those
\* before it reported stays reported.
OrElse(r, Do(_)) == IF r.c.ok \/ r.c.panic THEN r ELSE Do(r)
Met(ts, t, c) ==
    IF ts = <<>> THEN Failed(c)
    ELSE Then(ResolveName(Head(ts), c), LAMBDA r :
         OrElse(Typed(Unify(t, r.ty, r.c), t), LAMBDA u :
             Met(Tail(ts), t, [r.c EXCEPT !.reported = TRUE])))

Restored(sym, old, c) == IF sym \in DOMAIN old THEN Define(sym, old[sym], c) ELSE Forget({sym}, c)
Constrained(g, t, c) ==
    IF g.constraints = <<>> THEN Typed(c, t)
    ELSE Then(Met(g.constraints, t, Define(g.sym, Mono(t), c)), LAMBDA r :
             Typed(Restored(g.sym, c.names, r.c), t))

\* check_generic_constraints; r is the result if all goes well.
Constraints(gs, q, subst, r) ==
    IF Len(q) # Len(gs) THEN IF gs = <<>> THEN r ELSE Failed(r.c)
    ELSE IF gs = <<>> THEN r
    ELSE Then(Constrained(Head(gs), IF Head(q) \in DOMAIN subst THEN subst[Head(q)] ELSE Var(Head(q)), r.c),
              LAMBDA g :
             Constraints(Tail(gs), Tail(q), subst, Typed(g.c, r.ty)))

HasGenerics == UNION {DeclsOf(kind) : kind \in {"fun", "struct", "adt", "alias"}}
GenericsOf(sym) ==
    IF \E i \in HasGenerics : prog[i].sym = sym
    THEN prog[CHOOSE i \in HasGenerics : prog[i].sym = sym].generics ELSE <<>>
WithArguments(sym, q, args, r) == Constraints(GenericsOf(sym), q, Assoc(q, args), r)

ResolveDecl(t, s, c) ==
    IF Len(s.q) # Len(t.args) THEN Failed(c)
    ELSE Then(ResolveAll(t.args, Used(t.sym, c)), LAMBDA a :
         Then(Substituted(s.body, Assoc(s.q, a.tys), a.c), LAMBDA copy :
             WithArguments(t.sym, s.q, a.tys, Typed(copy.c, copy.ty))))

ResolveHead(h, args, c) == Then(ResolveAll(args, c), LAMBDA a : Typed(a.c, Ty(h, a.tys)))

\* resolve_type_name
ResolveName(t, c) ==
    CASE t.t = "_" -> NewVar(c)
      [] t.t = "typeof" -> Infer(t.e, NoType, c)
      [] t.t = "impl" -> Typed(Panic(c), NoType)
      [] t.t \in {"tuple", "fun"} \cup Pointers -> ResolveHead(t.t, t.args, c)
      [] t.t = "name" ->
            IF t.sym \in DOMAIN c.names THEN IF t.args # <<>> THEN Failed(c) ELSE Named(t.sym, c)
            ELSE IF t.sym \in DOMAIN BuiltinArity
            THEN IF Len(t.args) # BuiltinArity[t.sym] THEN Failed(c) ELSE ResolveHead(t.sym, t.args, c)
            ELSE IF t.sym \in DOMAIN c.decls THEN ResolveDecl(t, c.decls[t.sym], c)
            ELSE Failed(c)

-----------------------------------------------------------------------------
(* Expressions; exp is the type expected of one, or NoType. *)

InferAll(es, exps, c) ==
    IF es = <<>> THEN Typeds(c, <<>>)
    ELSE Then(Infer(Head(es), Head(exps), c), LAMBDA r :
         Then(InferAll(Tail(es), Tail(exps), r.c), LAMBDA a : Typeds(a.c, <<r.ty>> \o a.tys)))
InferEach(es, exp, c) == InferAll(es, [i \in 1..Len(es) |-> exp], c)

\* Arithmetic and comparisons take whatever two types are the same.
InferBinary(e, c) ==
    Then(InferEach(e.args, NoType, c), LAMBDA a :
        IF e.f \in {"and", "or"} THEN Typed(UnifyAll(a.tys, <<BoolTy, BoolTy>>, a.c), BoolTy)
        ELSE Typed(Unify(a.tys[1], a.tys[2], a.c), IF e.f \in {"add", "sub"} THEN a.tys[1] ELSE BoolTy))

InferUnary(e, c) ==
    Then(Infer(e.args[1], NoType, c), LAMBDA r :
        IF e.f = "neg" THEN r ELSE Typed(Unify(r.ty, BoolTy, r.c), BoolTy))

\* A cast compares nothing.
InferWrap(e, exp, c) ==
    IF e.f \in {"move", "copy"} THEN Infer(e.args[1], exp, c)
    ELSE IF e.f # "cast" THEN Then(Infer(e.args[1], NoType, c), LAMBDA r : Typed(r.c, Ty(e.f, <<r.ty>>)))
    ELSE Then(ResolveName(e.to, c), LAMBDA t :
         Then(Infer(e.args[1], NoType, t.c), LAMBDA r :
             Typed(LoosenIf(Root(r.ty, r.c) # Root(t.ty, r.c), "cast", r.c), t.ty)))

IsTuple(t, n) == t.h = "tuple" /\ Len(t.args) = n
InferElements(es, exp, t, c) ==
    Then(InferAll(es, IF IsTuple(t, Len(es)) THEN t.args ELSE [i \in 1..Len(es) |-> NoType], c), LAMBDA a :
        Typed(a.c, IF IsTuple(t, Len(es)) THEN exp ELSE Ty("tuple", a.tys)))
InferTuple(e, exp, c) == InferElements(e.args, exp, Root(exp, c), c)

\* A type known only as a variable is no tuple.
InferIndex(e, c) ==
    Then(Infer(e.args[1], NoType, c), LAMBDA r :
    Then(Rooted(r), LAMBDA t :
        IF t.ty.h = "tuple" /\ e.i <= Len(t.ty.args) THEN Typed(t.c, t.ty.args[e.i]) ELSE Failed(t.c)))

FieldOf(d, name) == {i \in 1..Len(d.fields) : d.fields[i] = name}
TypeOfField(d, name, c) ==
    IF FieldOf(d, name) = {} THEN Failed(c) ELSE ResolveName(d.ftys[CHOOSE i \in FieldOf(d, name) : TRUE], c)

FieldIn(s, name, c) ==
    IF s.h \notin Symbols("struct") THEN Failed(c)
    ELSE Then(TypeOfField(DeclOf("struct", s.h), name, Given(GenericsOf(s.h), s.args, c)), LAMBDA t :
             Typed(Forget(NamesOf(GenericsOf(s.h)), t.c), t.ty))

InferField(e, c) ==
    Then(Infer(e.args[1], NoType, c), LAMBDA r :
    Then([c |-> r.c, s |-> Stripped(r.ty, r.c)], LAMBDA o :
        FieldIn(o.s.ty, e.field, LoosenIf(o.s.n # e.derefs \/ o.s.ty.h # e.decl, "annotation", o.c))))

\* As many fields as the struct has, each one of its fields.
FieldsGiven(fields, es, d, c) ==
    IF fields = <<>> THEN Typed(c, NoType)
    ELSE Then(TypeOfField(d, Head(fields), c), LAMBDA t :
         Then(Infer(Head(es), t.ty, t.c), LAMBDA r : FieldsGiven(Tail(fields), Tail(es), d, r.c)))

Twice(fields) == Cardinality({fields[i] : i \in 1..Len(fields)}) # Len(fields)

StructOf(e, s, sym, args, c) ==
    IF sym \notin Symbols("struct") \/ Len(e.fields) # Len(DeclOf("struct", sym).fields) THEN Failed(c)
    ELSE Then(FieldsGiven(e.fields, e.args, DeclOf("struct", sym), Given(GenericsOf(sym), args, c)),
              LAMBDA r :
             WithArguments(sym, c.decls[sym].q, args,
                           Typed(Forget(NamesOf(GenericsOf(sym)), LoosenIf(Twice(e.fields), "twice", r.c)), s)))
InferStruct(e, c) ==
    Then(Known(e.decl, c), LAMBDA s :
    Then(Rooted(s), LAMBDA t : StructOf(e, s.ty, t.ty.h, t.ty.args, s.c)))

\* A constructor is a function to its ADT, or a value of it that takes unit.
VariantOf(ctor, arg, c) ==
    IF ctor.h \notin {"fun"} \cup Symbols("adt") THEN Failed(c)
    ELSE Then(Typed(Unify(arg, IF ctor.h = "fun" THEN ctor.args[1] ELSE UnitTy, c),
                    IF ctor.h = "fun" THEN ctor.args[2] ELSE ctor), LAMBDA u :
         Then(Rooted(u), LAMBDA adt :
             IF adt.ty.h \notin Symbols("adt") THEN u
             ELSE WithArguments(adt.ty.h, adt.c.decls[adt.ty.h].q, adt.ty.args, u)))
InferVariant(e, c) ==
    Then(Named(e.ctor, c), LAMBDA s :
    Then(Infer(e.args[1], NoType, s.c), LAMBDA r : VariantOf(Root(s.ty, r.c), r.ty, r.c)))

\* The type of what is called.
Callee(e, c) ==
    IF e.callee.e = "name" THEN Known(e.callee.sym, c) ELSE Infer(e.callee, NoType, c)
Called(e, s, type, r) ==
    Typed(Unify(s.ty, type, LoosenIf(s.n # e.derefs, "annotation", r.c)), r.ty)

\* The result comes before the arguments, and may be decided by them.  The
\* generics of a function are constrained if it is called by its name.
InferCall(e, exp, c) ==
    Then(Callee(e, c), LAMBDA f :
    Then(NewVars(Len(e.args), f.c), LAMBDA n :
    Then(IF exp = NoType THEN NewVar(n.c) ELSE Typed(n.c, exp), LAMBDA ret :
    Then(Called(e, Stripped(f.ty, ret.c), FunTy(n.tys, ret.ty), ret), LAMBDA u :
    Then(InferAll(e.args, n.tys, u.c), LAMBDA a :
        IF e.callee.e = "name" /\ e.callee.sym \in Symbols("fun")
        THEN Constraints(GenericsOf(e.callee.sym), SchemeOf(e.callee.sym, c).q, f.subst, Typed(a.c, ret.ty))
        ELSE Typed(a.c, ret.ty))))))

\* Statements but the last are of type unit.
InferBlock(es, exp, c) ==
    IF es = <<>> THEN Typed(c, UnitTy)
    ELSE Then(InferAll(es, [i \in 1..Len(es) |-> IF i = Len(es) THEN exp ELSE UnitTy], c), LAMBDA a :
             Typed(a.c, a.tys[Len(es)]))

Annotated(ann, r) ==
    IF ann = <<>> THEN r ELSE Then(ResolveName(ann[1], r.c), LAMBDA a : Typed(Unify(r.ty, a.ty, a.c), r.ty))

\* Variables of clauses around the let are taken for its own.
LetBe(sym, s, c) == Typed(Define(sym, s, LoosenIf(s.q # <<>>, "escape", c)), UnitTy)
InferLet(e, c) ==
    Then(Infer(e.args[1], NoType, c), LAMBDA r :
    Then(Annotated(e.ann, r), LAMBDA a : LetBe(e.sym, Generalize(a.ty, a.c), a.c)))

InferReturn(e, c) ==
    IF c.returns = NoType THEN Failed(c)
    ELSE IF e.args = <<>> THEN Typed(Unify(UnitTy, c.returns, c), NeverTy)
    ELSE Then(Infer(e.args[1], c.returns, c), LAMBDA r : Typed(r.c, NeverTy))

\* Faulty: what the branches give is not compared.
FaultyBranch(cond, branch, exp, prev) ==
    Then(IF cond = <<>> THEN prev ELSE Infer(cond[1], BoolTy, prev.c), LAMBDA b :
    Then(Infer(branch, exp, b.c), LAMBDA r : Typeds(r.c, Append(prev.tys, r.ty))))

\* The type of the first branch.  If it leaves, the others may be anything.
InferBranch(cond, branch, exp, prev) ==
    Then(IF cond = <<>> THEN prev ELSE Infer(cond[1], BoolTy, prev.c), LAMBDA b :
    Then(Infer(branch, exp, b.c), LAMBDA r :
        Typeds(IF prev.tys = <<>> THEN r.c ELSE Unify(prev.tys[1], r.ty, r.c), Append(prev.tys, r.ty))))
Leaves(t, c) == Root(t, c) = NeverTy
Branched(exp, tys, c) ==
    Typed(LoosenIf(exp = NoType /\ Leaves(tys[1], c) /\ \E i \in 1..Len(tys) : ~Leaves(tys[i], c),
                   "never", c), tys[1])
InferBranches(conds, branches, exp, prev) ==
    IF branches = <<>> THEN prev
    ELSE Then(InferBranch(IF conds = <<>> THEN <<>> ELSE <<Head(conds)>>, Head(branches), exp, prev),
              LAMBDA r :
             InferBranches(Rest(conds), Tail(branches), exp, r))
InferIf(e, exp, c) ==
    Then(InferBranches(e.conds, e.thens \o e.otherwise, exp, Typeds(c, <<>>)), LAMBDA last :
        IF e.otherwise # <<>> THEN Branched(exp, last.tys, last.c)
        ELSE Branched(exp, Append(last.tys, UnitTy), Unify(last.tys[1], UnitTy, last.c)))

-----------------------------------------------------------------------------
(* Effects. *)

RaiseOf(f, tys, c) ==
    IF f.h # "fun" \/ Len(tys) # Len(f.args) - 1 THEN Failed(c)
    ELSE Typed(UnifyAll(tys, SubSeq(f.args, 1, Len(tys)), c), f.args[Len(f.args)])
InferRaise(e, c) ==
    Then(Named(e.control, c), LAMBDA s :
    Then(InferEach(e.args, NoType, s.c), LAMBDA a : RaiseOf(Root(s.ty, a.c), a.tys, a.c)))

\* A clause resumes once at most in its text, and unless the control gives
\* unit it has to.
ResumeTo(f, arg, c) ==
    Then(Infer(arg, f.args[1], c), LAMBDA r : Typed(Unify(r.ty, f.args[1], r.c), f.args[2]))
InferResume(e, c) ==
    IF c.resume.ty = NoType \/ c.resume.called THEN Failed(c)
    ELSE ResumeTo(c.resume.ty, e.args[1], [c EXCEPT !.resume.called = TRUE])

NoResume == [ty |-> NoType, called |-> FALSE]

Entered(cl, f, body, c) ==
    [c EXCEPT !.level = @ + 1,
              !.names = [x \in {cl.params[i] : i \in 1..Len(cl.params)} |->
                            Mono(f.args[CHOOSE i \in 1..Len(cl.params) : cl.params[i] = x])] @@ @,
              !.resume = [ty |-> FunTy(<<f.args[Len(f.args)]>>, body), called |-> FALSE]]

\* A `with` in the clause has forgotten what resume means, and unwrap fails.
Left(cl, ret, level, b) ==
    IF b.c.resume.ty = NoType THEN Typed(Panic(b.c), NoType)
    ELSE IF ~b.c.resume.called /\ Root(ret, b.c) # UnitTy THEN Failed(b.c)
    ELSE Typed([Forget({cl.params[i] : i \in 1..Len(cl.params)}, b.c) EXCEPT
                   !.level = level, !.resume = NoResume], b.ty)

\* Faulty: the rest stands for one argument at least, none of them missed.
FaultyFit(cl, n) == IF cl.rest THEN Len(cl.params) <= n + 1 ELSE Len(cl.params) = n

Fit(cl, n) == IF cl.rest THEN Len(cl.params) <= n ELSE Len(cl.params) = n
ClauseOf(cl, f, body, c) ==
    IF f.h # "fun" \/ ~Fit(cl, Len(f.args) - 1) THEN Failed(c)
    ELSE Then(Infer(cl.body, body,
                    Entered(cl, f, body, LoosenIf(cl.arity # Len(f.args) - 1, "annotation", c))), LAMBDA r :
         Then(Typed(Unify(r.ty, body, r.c), body), LAMBDA b : Left(cl, f.args[Len(f.args)], c.level, b)))
InferClause(cl, body, c) ==
    Then(Named(cl.control, c), LAMBDA s : ClauseOf(cl, Root(s.ty, s.c), body, s.c))

InferClauses(cls, body, c) ==
    IF cls = <<>> THEN Typed(c, body)
    ELSE Then(InferClause(Head(cls), body, c), LAMBDA r : InferClauses(Tail(cls), body, r.c))
InferWith(e, exp, c) ==
    Then(Infer(e.body, exp, c), LAMBDA b : InferClauses(e.clauses, b.ty, b.c))

InferKind(e, exp, c) ==
    CASE e.e = "lit"     -> Typed(c, IF e.v.c = "int" THEN IntTy ELSE BoolTy)
      [] e.e = "name"    -> Known(e.sym, c)
      [] e.e = "op"      -> IF Len(e.args) = 2 THEN InferBinary(e, c) ELSE InferUnary(e, c)
      [] e.e = "wrap"    -> InferWrap(e, exp, c)
      [] e.e = "tuple"   -> InferTuple(e, exp, c)
      [] e.e = "struct"  -> InferStruct(e, c)
      [] e.e = "variant" -> InferVariant(e, c)
      [] e.e = "field"   -> InferField(e, c)
      [] e.e = "index"   -> InferIndex(e, c)
      [] e.e = "let"     -> InferLet(e, c)
      [] e.e = "block"   -> InferBlock(e.args, exp, c)
      [] e.e = "return"  -> InferReturn(e, c)
      [] e.e = "call"    -> InferCall(e, exp, c)
      [] e.e = "if"      -> InferIf(e, exp, c)
      [] e.e = "with"    -> InferWith(e, exp, c)
      [] e.e = "raise"   -> InferRaise(e, c)
      [] e.e = "resume"  -> InferResume(e, c)
      [] e.e = "const"   -> Infer(e.args[1], exp, c)

\* What is expected of an expression is compared with what it is.
Infer(e, exp, c) ==
    Then(InferKind(e, exp, c), LAMBDA r :
        Typed(IF exp = NoType THEN r.c ELSE Unify(r.ty, exp, r.c), r.ty))

-----------------------------------------------------------------------------
(* Declarations.  Each operator checks one and gives the state after it. *)

\* Parameters are known to the annotations after them; without one, a
\* parameter has a type of its own.
Wildcard == [t |-> "_"]
RECURSIVE Params(_, _, _)
Params(syms, anns, c) ==
    IF anns = <<>> THEN Typeds(c, <<>>)
    ELSE Then(ResolveName(IF Head(anns) = <<>> THEN Wildcard ELSE Head(anns)[1], c), LAMBDA t :
         Then(Params(Rest(syms), Tail(anns),
                     IF syms = <<>> THEN t.c ELSE Define(Head(syms), Mono(t.ty), t.c)), LAMBDA p :
             Typeds(p.c, <<t.ty>> \o p.tys)))

\* One level down, with variables for the generics.
Inside(gs, c) ==
    Then(NewVars(Len(gs), [c EXCEPT !.level = @ + 1]), LAMBDA n : Typeds(Given(gs, n.tys, n.c), n.tys))
Outside(syms, level, c) == [Forget(syms, c) EXCEPT !.level = level]
Quantified(tys) == [i \in 1..Len(tys) |-> tys[i].v]
SymsOf(d) == {d.params[i] : i \in 1..Len(d.params)}

Unannotated(d) == \E a \in {d.rt} \cup {d.ptys[i] : i \in 1..Len(d.ptys)} : a = <<>>
FunDeclared(d, t, c) ==
    Then(Typed(Declare(d.sym, Generalize(t, c), c), t), LAMBDA r :
        IF d.pub /\ Unannotated(d) THEN Failed(r.c) ELSE r)

\* The result is an annotation like those of the parameters.
FunChecked(d, c) ==
    Then(Inside(d.generics, c), LAMBDA g :
    Then(Params(d.params, Append(d.ptys, d.rt), g.c), LAMBDA p :
    Then(InferBlock(d.body, p.tys[Len(p.tys)], [p.c EXCEPT !.returns = p.tys[Len(p.tys)]]), LAMBDA b :
    Then(Typed(Unify(b.ty, p.tys[Len(p.tys)], [b.c EXCEPT !.returns = NoType]), Ty("fun", p.tys)), LAMBDA u :
        FunDeclared(d, u.ty, Outside(NamesOf(d.generics) \cup SymsOf(d), c.level, u.c))))))

StructChecked(d, c) ==
    Then(Inside(d.generics, c), LAMBDA g :
    Then(ResolveAll(d.ftys, g.c), LAMBDA f :
        Typed(Declare(d.sym, Scheme(Quantified(g.tys), Ty(d.sym, g.tys)),
                      Outside(NamesOf(d.generics), c.level, f.c)), NoType)))

\* A constructor: its own generics, what it takes and what it makes.
CtorChecked(k, gs, adt, c) ==
    Then(NewVars(Len(k.generics), c), LAMBDA n :
    Then(ResolveAll(k.from \o k.ret, Given(k.generics, n.tys, n.c)), LAMBDA f :
    Then(Typed(f.c, IF k.ret = <<>> THEN adt ELSE f.tys[Len(f.tys)]), LAMBDA r :
        Typed(Define(k.sym, Scheme(Quantified(gs \o n.tys),
                                   IF k.from = <<>> THEN r.ty ELSE FunTy(<<f.tys[1]>>, r.ty)),
                     Forget(NamesOf(k.generics), r.c)), NoType))))

RECURSIVE ContainsSelfRef(_, _)
ContainsSelfRef(t, sym) ==
    /\ t.t \notin {"_", "typeof"}
    /\ \/ t.t = "name" /\ t.sym = sym
       \/ \E i \in 1..Len(t.args) : ContainsSelfRef(t.args[i], sym)

\* The type is known to the types of its constructors.  Without generics it
\* is one node, which then leads to itself.
LeadsToItself(d) ==
    /\ d.generics = <<>>
    /\ \E i \in 1..Len(d.defs) : d.defs[i].from # <<>> /\ ContainsSelfRef(d.defs[i].from[1], d.sym)
RECURSIVE CtorsChecked(_, _, _, _)
CtorsChecked(ks, gs, adt, c) ==
    IF ks = <<>> THEN Typed(c, adt)
    ELSE Then(CtorChecked(Head(ks), gs, adt, c), LAMBDA r : CtorsChecked(Tail(ks), gs, adt, r.c))
ADTChecked(d, c) ==
    Then(Inside(d.generics, c), LAMBDA g :
    Then(CtorsChecked(d.defs, g.tys, Ty(d.sym, g.tys),
                      Declare(d.sym, Scheme(Quantified(g.tys), Ty(d.sym, g.tys)), g.c)), LAMBDA last :
        Typed([Outside(NamesOf(d.generics), c.level, last.c) EXCEPT
                  !.endless = IF LeadsToItself(d) THEN @ \cup {d.sym} ELSE @], NoType)))

ExternalChecked(d, c) ==
    IF \E i \in 1..Len(d.ptys) : d.ptys[i] = <<>> THEN Failed(c)
    ELSE Then(ResolveAll([i \in 1..Len(d.ptys) |-> d.ptys[i][1]] \o d.rt, c), LAMBDA a :
             Typed(Declare(d.sym, Mono(Ty("fun", a.tys)), a.c), NoType))

AliasChecked(d, c) ==
    IF ContainsSelfRef(d.for, d.sym) THEN Failed([c EXCEPT !.level = @ + 1])
    ELSE Then(Inside(d.generics, c), LAMBDA g :
         Then(ResolveName(d.for, g.c), LAMBDA t :
             Typed(Declare(d.sym, Scheme(Quantified(g.tys), t.ty),
                           Outside(NamesOf(d.generics), c.level, t.c)), NoType)))

\* A global or a constant.
StaticDeclared(sym, s, c) == Typed(Define(sym, s, Declare(sym, s, c)), NoType)
StaticChecked(d, c) ==
    Then(Infer(d.expr, NoType, [c EXCEPT !.level = @ + 1]), LAMBDA r :
    Then(Annotated(d.ann, r), LAMBDA a :
    Then(Typed(Outside({}, c.level, a.c), a.ty), LAMBDA o :
        StaticDeclared(d.sym, Generalize(o.ty, o.c), o.c))))

\* A control without a result gives unit; parameters without a type have
\* one for the whole program.
UnitName == [t |-> "tuple", args |-> <<>>]
SigOf(s) == Append(s.ptys, IF s.rt = <<>> THEN <<UnitName>> ELSE s.rt)
RECURSIVE ControlsChecked(_, _, _)
ControlsChecked(controls, sigs, c) ==
    IF controls = <<>> THEN Typed(c, NoType)
    ELSE Then(Params(<<>>, SigOf(Head(sigs)), c), LAMBDA p :
             ControlsChecked(Tail(controls), Tail(sigs), Define(Head(controls), Mono(Ty("fun", p.tys)), p.c)))
EffectChecked(d, c) == ControlsChecked(d.controls, d.sigs, c)

-----------------------------------------------------------------------------
(* The checker (check), which looks at no declaration twice. *)

\* What was used before it was checked must have turned out to be what it
\* is, and nothing outside may hold a variable of the declaration.
IsGround(t, c) == VarsIn(t, {}, c) = {}
Surmised(c) ==
    \E s \in c.early :
        \/ ~IsGround(Var(c.first[s]), c)
        \/ s \in c.done /\ ~Then(Instantiate(c.decls[s], c), LAMBDA i :
                                Typed(Unify(Var(c.first[s]), i.ty, i.c), i.ty)).c.ok
Controls == UNION {{prog[i].controls[j] : j \in 1..Len(prog[i].controls)} : i \in DeclsOf("effect")}
Shares(c) ==
    \E k \in Controls \cap DOMAIN c.names :
        \E x \in VarsIn(c.names[k].body, {}, c) : c.vars[x].level > 0

Watched(c) == LoosenIf(Shares(c), "escape", LoosenIf(Surmised(c), "early", c))
After(c) == Watched([c EXCEPT !.ok = TRUE])

\* A declaration that names itself, and one used before its turn, has a
\* variable for a type.
Predeclared ==
    LET n == Len(prog)
        index(s) == CHOOSE i \in 1..n : prog[i].sym = s
        size(i) == Len(GenericsOf(prog[i].sym)) + 1
        last[i \in 0..n] == IF i = 0 THEN 0 ELSE last[i - 1] + size(i)
        syms == {prog[i].sym : i \in 1..n}
    IN  [vars |-> [x \in 1..last[n] |-> [level |-> 0, is |-> NoType]], level |-> 0,
         names |-> <<>>,
         decls |-> [s \in syms |-> Scheme([i \in 1..(size(index(s)) - 1) |-> last[index(s) - 1] + i],
                                          Var(last[index(s)]))],
         first |-> [s \in syms |-> last[index(s)]], done |-> {}, early |-> {}, endless |-> {},
         returns |-> NoType, resume |-> NoResume,
         ok |-> TRUE, reported |-> FALSE, panic |-> FALSE, loose |-> {}]

InferInit == checking = 1 /\ tc = Predeclared

Checking(kind) ==
    /\ ~tc.panic
    /\ checking <= Len(prog) /\ prog[checking].d = kind
    /\ checking' = checking + 1
    /\ UNCHANGED prog

CheckFun == Checking("fun") /\ tc' = After(FunChecked(prog[checking], tc).c)
CheckStruct == Checking("struct") /\ tc' = After(StructChecked(prog[checking], tc).c)
CheckADT == Checking("adt") /\ tc' = After(ADTChecked(prog[checking], tc).c)
CheckExternal == Checking("external") /\ tc' = After(ExternalChecked(prog[checking], tc).c)
CheckAlias == Checking("alias") /\ tc' = After(AliasChecked(prog[checking], tc).c)
CheckStatic == Checking("static") /\ tc' = After(StaticChecked(prog[checking], tc).c)
CheckEffect == Checking("effect") /\ tc' = After(EffectChecked(prog[checking], tc).c)
CheckOpaque == Checking("opaque") /\ tc' = tc
CheckAbstract == Checking("abstract") /\ tc' = Panic(tc)

CheckNext ==
    \/ CheckFun \/ CheckStruct \/ CheckADT \/ CheckExternal \/ CheckAlias
    \/ CheckStatic \/ CheckEffect \/ CheckOpaque \/ CheckAbstract

Checked == checking > Len(prog) \/ tc.panic
Accepted == Checked /\ ~tc.reported

\* What a value of a type looks like.
RECURSIVE HasType(_, _, _)
HaveTypes(vs, ts, c) == Len(vs) = Len(ts) /\ \A i \in 1..Len(vs) : HasType(vs[i], ts[i], c)
PayloadHasType(v, t, s) ==
    IF s.ty.h # "fun" THEN v.parts = <<Unit>>
    ELSE HaveTypes(v.parts, <<s.ty.args[1]>>, Unify(s.ty.args[2], t, s.c))
FieldsHaveTypes(v, d, t, c) ==
    HaveTypes(v.parts, [i \in 1..Len(d.fields) |-> FieldIn(t, d.fields[i], c).ty], c)
HasRootType(v, t, c) ==
    CASE t.v # 0 -> TRUE
      [] t.h \in Symbols("struct") -> v.c = "tuple" /\ FieldsHaveTypes(v, DeclOf("struct", t.h), t, c)
      [] t.h \in Symbols("adt") -> v.c = "enum" /\ PayloadHasType(v, t, Named(DeclOf("adt", t.h).ctors[v.n], c))
      [] t.h = "I32" -> v.c = "int"
      [] t.h = "Bool" -> v.c = "bool"
      [] t.h = "tuple" -> v.c = "tuple" /\ HaveTypes(v.parts, t.args, c)
      [] t.h \in Pointers -> v.c = "ref" /\ HaveTypes(v.parts, t.args, c)
      [] t.h = "fun" -> v.c = "fun"
      [] OTHER -> FALSE
HasType(v, ty, c) == HasRootType(v, Root(ty, c), c)

=============================================================================
