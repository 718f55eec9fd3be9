---------------------------- MODULE LexicalScope ----------------------------
(***************************************************************************)
(* What the names of a crate mean by lexical scoping, without scopes or    *)
(* symbols: an environment gives each visible name the place it was        *)
(* declared at, and a `let' or an `is' extends it for what follows in the  *)
(* same block.  The meaning of a declaration is the HIR it should become,  *)
(* with places for symbols.                                               *)
(***************************************************************************)
EXTENDS HirNames

Tree(k, name, sym, subs) == [k |-> k, name |-> name, sym |-> sym, subs |-> subs]
Plainly(k, subs) == Tree(k, "", <<>>, subs)

\* What a name stands for: its place, its kind, the names inside it and, of a
\* function, those of its parameters.  Nothing has the name that was looked for.
Thing(def, kind, inner, params) == [def |-> def, kind |-> kind, inner |-> inner, params |-> params]
NoThing(kind, name) == Thing(<<>>, kind, << >>, <<name>>)

FirstOf(declared) ==
    [n \in {declared[i].name : i \in DOMAIN declared} |->
        declared[CHOOSE i \in DOMAIN declared :
                    declared[i].name = n /\ \A j \in 1 .. i - 1 : declared[j].name # n].thing]

Inner(d, at) ==
    IF d.k \in {"struct", "adt", "effect"}
    THEN FirstOf([i \in DOMAIN d.members |->
            [name |-> d.members[i].name,
             thing |-> Thing(Append(Members(at), i), d.k, << >>, <<>>)]])
    ELSE << >>

DeclThing(d, at) ==
    Thing(at, d.k \o " itself", Inner(d, at), [i \in DOMAIN d.members |-> d.members[i].name])

\* What a file declares: its declarations and the constructors among them.
OwnNames(f) ==
    LET ds == crate[f].decls
        Declared(i) == (ds[i].name :> DeclThing(ds[i], <<f, i>>))
                       @@ IF ds[i].k = "adt" THEN Inner(ds[i], <<f, i>>) ELSE << >>
    IN FoldLeftDomain(LAMBDA env, i : env @@ Declared(i), << >>, ds)

FileCalled(module) == {f \in DOMAIN crate : crate[f].name = module}

ImportedBy(req) ==
    IF ~req.open \/ FileCalled(req.module) = {} THEN << >>
    ELSE LET f == CHOOSE g \in FileCalled(req.module) : TRUE
             asked == Range(Asked(req, f)) \cap DOMAIN OwnNames(f)
         IN [n \in asked |-> OwnNames(f)[n]]

FileNames(f) ==
    FoldLeft(LAMBDA env, req : env @@ ImportedBy(req), OwnNames(f), crate[f].requires)
    @@ FirstOf([g \in DOMAIN crate |->
                   [name |-> crate[g].name, thing |-> Thing(<<g>>, "file", OwnNames(g), <<>>)]])
-----------------------------------------------------------------------------
(* An environment also knows the names declared further on in the blocks   *)
(* around, and whether it is inside a tuple.  This code gives a name the   *)
(* same declaration in all of its block, and does not look for blocks in   *)
(* tuples, so three things are not settled: a use before the declaration,  *)
(* a second declaration in a block, and a declaration within a tuple.      *)

Env(known) == [vars |-> known, ahead |-> {}, hidden |-> FALSE]

Look(name, env) ==
    IF name \in env.ahead THEN NoThing("unsettled", name)
    ELSE IF name \in DOMAIN env.vars THEN env.vars[name]
    ELSE NoThing("undefined", name)

Lost == {"unsettled", "undefined"}

Reach(path, env) ==
    IF path = <<>> THEN NoThing("undefined", "")
    ELSE FoldLeft(LAMBDA t, seg : CASE t.kind \in Lost -> t
                                    [] seg \in DOMAIN t.inner -> t.inner[seg]
                                    [] OTHER -> NoThing("undefined", seg),
                  Look(Head(path), env), Tail(path))

\* A tree for what a thing is, or a mark that it is nothing.
Known(k, name, thing, subs) ==
    IF thing.kind \in Lost THEN Tree(thing.kind, thing.params[1], <<>>, subs)
    ELSE Tree(k, name, thing.def, subs)

KnownPath(k, path, env, subs) ==
    Known(k, IF path = <<>> THEN "" ELSE Last(path), Reach(path, env), subs)

\* Adding declarations to an environment; each must have been ahead.
AddOne(env, name, at) ==
    [env EXCEPT !.vars = (name :> Thing(at, "local", << >>, <<>>)) @@ @, !.ahead = @ \ {name}]

AddAll(env, bindings) ==
    FoldRight(LAMBDA b, e : AddOne(e, b.name, b.at), bindings, env)

\* The names a pattern binds: both sides of an alternative bind the same.
RECURSIVE BoundBy(_)
BoundBy(p) ==
    LET inner == FoldLeft(LAMBDA ns, q : ns \o BoundBy(q), <<>>, p.subs)
    IN CASE p.k \in {"bind", "alias"} -> <<p.name>> \o inner
         [] p.k = "or" -> LET left == BoundBy(p.subs[1])
                          IN left \o SelectSeq(BoundBy(p.subs[2]), LAMBDA n : n \notin Range(left))
         [] OTHER -> inner

RECURSIVE Lets(_)
LetsIn(es) == UNION {Lets(es[i]) : i \in DOMAIN es}
Lets(e) ==
    CASE e.k \in {"do", "tuple"} -> {}
      [] e.k = "let" -> {e.name} \cup LetsIn(e.subs)
      [] e.k = "is" -> Range(BoundBy(e.pat)) \cup LetsIn(e.subs)
      [] OTHER -> LetsIn(e.subs)

\* Entering a block, with the names it binds at once.
Enter(env, bindings, es) ==
    LET bound == {bindings[i].name : i \in DOMAIN bindings}
    IN AddAll([env EXCEPT !.ahead = @ \cup (LetsIn(es) \ bound)], bindings)

Fresh(env, ns) ==
    /\ ~env.hidden
    /\ Range(ns) \subseteq env.ahead
    /\ \A i, j \in DOMAIN ns : ns[i] = ns[j] => i = j
-----------------------------------------------------------------------------
(* Expressions: the HIR and the environment after.                         *)

RECURSIVE Meant(_, _, _)
Followed(r, next) == [hir |-> Append(r.hir, next.hir), env |-> next.env]

MeantAll(es, at, env) ==
    LET M[n \in 0 .. Len(es)] ==
            IF n = 0 THEN [hir |-> <<>>, env |-> env]
            ELSE LET r == M[n - 1] IN Followed(r, Meant(es[n], Append(at, n), r.env))
    IN M[Len(es)]

RECURSIVE MeantType(_, _, _)
MeantTypes(ts, at, env) == [i \in DOMAIN ts |-> MeantType(ts[i], at, env)]
MeantType(t, at, env) ==
    CASE t.k = "named" -> KnownPath("type", t.path, env, MeantTypes(t.args, at, env))
      [] t.k = "typeof" -> Plainly("typeof", MeantAll(t.expr, at, env).hir)
      [] OTHER -> Plainly(t.k, MeantTypes(t.args, at, env))

MeantAnnotation(t, at, env) == IF IsTypeEmpty(t) THEN <<>> ELSE <<MeantType(t, at, env)>>

RECURSIVE MeantPattern(_, _)
MeantPattern(p, env) ==
    LET subs == [i \in DOMAIN p.subs |-> MeantPattern(p.subs[i], env)]
    IN CASE p.k \in {"bind", "alias"} -> Known(p.k, p.name, Look(p.name, env), subs)
         [] p.k = "con" -> KnownPath("con", p.path, env, subs)
         [] p.k = "struct" ->
               KnownPath("struct", p.path, env,
                         [i \in DOMAIN subs |-> Tree("field", p.names[i], <<>>, <<subs[i]>>)])
         [] OTHER -> Plainly(p.k, subs)

\* The longest part of a path that means something; what follows are fields,
\* for the type checker to find.  A module has no fields.
MeantBase(thing, name) ==
    IF thing.kind = "adt" THEN Tree("variant", name, thing.def, <<Plainly("tuple", <<>>)>>)
    ELSE Tree("name", name, thing.def, <<>>)

RECURSIVE AsMembers(_, _)
AsMembers(object, fields) ==
    IF fields = <<>> THEN object
    ELSE AsMembers(Tree("member", Head(fields), <<>>, <<object>>), Tail(fields))

MeantUpTo(n, thing, path, env) ==
    IF thing.kind = "file" /\ n < Len(path) THEN KnownPath("name", SubSeq(path, 1, n + 1), env, <<>>)
    ELSE AsMembers(MeantBase(thing, path[n]), SubSeq(path, n + 1, Len(path)))

MeantLongest(known, path, env) ==
    IF known = {} THEN KnownPath("name", path, env, <<>>)
    ELSE LET n == CHOOSE i \in known : \A j \in known : j <= i
         IN MeantUpTo(n, Reach(SubSeq(path, 1, n), env), path, env)

MeantPath(path, env) ==
    MeantLongest({i \in 1 .. Len(path) : Reach(SubSeq(path, 1, i), env).kind \notin Lost}, path, env)

\* The way to give arguments to parameters: a named one to its own, the others
\* in order to the rest.
Ways(given, params) ==
    {a \in [DOMAIN params -> DOMAIN given] :
        /\ Range(a) = DOMAIN given
        /\ Len(given) = Len(params)
        /\ \A i \in DOMAIN params : given[a[i]] \in {"", params[i]}
        /\ \A i, j \in DOMAIN params :
              i < j /\ given[a[i]] = "" /\ given[a[j]] = "" => a[i] < a[j]}

MeantCall(callee, thing, args, given) ==
    LET ways == Ways(given, thing.params)
        way == CHOOSE a \in ways : TRUE
    IN CASE thing.kind = "adt" ->
              IF Len(args) = 1 /\ given = <<"">> THEN Tree("variant", callee.name, thing.def, args)
              ELSE Tree("undefined", callee.name, <<>>, <<>>)
         [] thing.kind # "adt" /\ Range(given) \subseteq {""} -> Plainly("call", <<callee>> \o args)
         [] OTHER -> IF ways = {} THEN Tree("undefined", callee.name, <<>>, <<>>)
                     ELSE Plainly("call", <<callee>> \o [i \in DOMAIN thing.params |-> args[way[i]]])

CalleeThing(e, env) == IF e.k = "path" THEN Reach(e.path, env) ELSE NoThing("undefined", "")

\* A pipe to a constructor or to a call with named arguments is lowered as
\* written and not as meant: not settled.
PipeTo(right, thing, left, call) ==
    CASE right.k \notin {"path", "call"} -> Tree("undefined", "", <<>>, <<>>)
      [] right.k = "path" /\ thing.kind # "adt" -> Plainly("call", <<call, left>>)
      [] right.k = "call" /\ thing.kind # "adt" /\ Range(right.names) \subseteq {""} ->
           Plainly("call", <<Head(call.subs), left>> \o Tail(call.subs))
      [] OTHER -> Tree("unsettled", "", <<>>, <<>>)

MeantPipe(right, parts, env) ==
    PipeTo(right, CalleeThing(IF right.k = "call" THEN Head(right.subs) ELSE right, env), parts[1], parts[2])

ArmTree(arm, k, subs, inner) ==
    CASE ~IsInjective(BoundBy(arm.pat)) -> Tree("unsettled", "", <<>>, <<>>)
      [] IsInjective(BoundBy(arm.pat)) /\ k = "match" -> Plainly("arm", subs)
      [] OTHER -> KnownPath("clause", arm.path, inner, subs)

ArmWithin(arm, k, at, inner) ==
    ArmTree(arm, k, <<MeantPattern(arm.pat, inner)>> \o MeantAll(arm.subs, at, inner).hir, inner)

MeantArm(arm, k, at, env) ==
    ArmWithin(arm, k, at, Enter(env, Bindings(arm.pat, PatternAt(at)), arm.subs))

MeantBlock(k, es, at, inner, env) == [hir |-> Plainly(k, MeantAll(es, at, inner).hir), env |-> env]

\* An expression that binds nothing itself, from the parts r of it.
MeantFrom(e, at, r, env) ==
    CASE e.k = "name" -> Known("name", e.name, Look(e.name, env), <<>>)
      [] e.k = "path" -> MeantPath(e.path, env)
      [] e.k = "call" -> MeantCall(Head(r.hir), CalleeThing(e.subs[1], env), Tail(r.hir), e.names)
      [] e.k = "pipe" -> MeantPipe(e.subs[2], r.hir, env)
      [] e.k = "cast" -> Plainly("cast", Append(r.hir, MeantType(e.type, at, r.env)))
      [] e.k = "make" ->
           Plainly("make", <<Head(r.hir)>>
                   \o [i \in DOMAIN e.names |-> Tree("field", e.names[i], <<>>, <<r.hir[i + 1]>>)])
      [] e.k = "raise" -> KnownPath("raise", Append(e.path, e.name), env, r.hir)
      [] e.k \in {"match", "with"} ->
           Plainly(e.k, r.hir \o [i \in DOMAIN e.arms |-> MeantArm(e.arms[i], e.k, ArmAt(e, at, i), r.env)])
      [] OTHER -> Tree(e.k, e.name, <<>>, r.hir)

\* A let, or an `is', and what it adds for what follows.
MeantLet(e, at, r, env) ==
    [hir |-> IF Fresh(env, <<e.name>>)
             THEN Tree("let", e.name, at, r.hir \o MeantAnnotation(e.type, at, r.env))
             ELSE Tree("unsettled", e.name, <<>>, <<>>),
     env |-> AddOne(r.env, e.name, at)]

MeantIs(e, r, env, after) ==
    [hir |-> IF Fresh(env, BoundBy(e.pat)) THEN Plainly("is", Append(r.hir, MeantPattern(e.pat, after)))
             ELSE Tree("unsettled", "", <<>>, <<>>),
     env |-> after]

MeantWith(e, at, r, env) ==
    CASE e.k = "let" -> MeantLet(e, at, r, env)
      [] e.k = "is" -> MeantIs(e, r, env, AddAll(r.env, Bindings(e.pat, PatternAt(at))))
      [] OTHER -> [hir |-> MeantFrom(e, at, r, env), env |-> r.env]

Meant(e, at, env) ==
    CASE e.k = "do" -> MeantBlock("do", e.subs, at, Enter(env, <<>>, e.subs), env)
      [] e.k = "tuple" -> MeantBlock("tuple", e.subs, at, [env EXCEPT !.hidden = TRUE], env)
      [] OTHER -> MeantWith(e, at, MeantAll(e.subs, at, env), env)
-----------------------------------------------------------------------------
(* Declarations.                                                           *)

Placed(items, at) == [i \in DOMAIN items |-> [name |-> items[i].name, at |-> Append(at, i)]]

MeantGenerics(gs, at, env) ==
    Plainly("group", [i \in DOMAIN gs |->
        Tree("generic", gs[i].name, Append(at, i), MeantTypes(gs[i].bounds, at, env))])

MeantParams(ps, at, env) ==
    Plainly("group", [i \in DOMAIN ps |->
        Tree("param", ps[i].name, Append(at, i), MeantAnnotation(ps[i].type, at, env))])

\* A field, a constructor, a method or a control.
MeantMember(m, k, at, outer) ==
    LET env == AddAll(outer, Placed(m.generics, Generics(at)) \o Placed(m.members, Members(at)))
    IN CASE k = "struct" -> Tree("field", m.name, at, <<MeantType(m.type, at, env)>>)
         [] k = "adt" ->
              Tree("ctor", m.name, at, <<MeantGenerics(m.generics, Generics(at), env)>>
                   \o MeantAnnotation(m.from, at, env) \o MeantAnnotation(m.type, at, env))
         [] OTHER ->
              Tree("method", m.name, at, <<MeantParams(m.members, Members(at), env)>>
                   \o MeantAnnotation(m.type, at, env))

\* The parts of a declaration, in its environment.
PartsOf(k, generics, has, params, members, type, body) ==
    CASE k \in {"fun", "fundecl"} -> <<generics, params>> \o type \o body
      [] k \in {"struct", "adt", "abstract"} -> <<generics, has>> \o members
      [] k = "alias" -> <<generics>> \o type
      [] k = "effect" -> members
      [] k \in {"const", "global"} -> body \o type
      [] k = "external" -> <<params>> \o type
      [] OTHER -> <<>>

MeantParts(d, at, env) ==
    PartsOf(d.k, MeantGenerics(d.generics, Generics(at), env),
            Plainly("group", [j \in DOMAIN d.has |-> KnownPath("has", <<d.has[j]>>, env, <<>>)]),
            MeantParams(d.members, Members(at), env),
            [j \in DOMAIN d.members |-> MeantMember(d.members[j], d.k, Append(Members(at), j), env)],
            MeantAnnotation(d.type, at, env), MeantAll(d.body, Body(at), env).hir)

MeantDecl(d, at) ==
    LET params == IF d.k \in {"fun", "fundecl", "external"} THEN Placed(d.members, Members(at)) ELSE <<>>
    IN Tree(IF d.k = "fundecl" THEN "fun" ELSE d.k, d.name, <<>>,
            MeantParts(d, at, Enter(Env(FileNames(at[1])), Placed(d.generics, Generics(at)) \o params,
                                    IF d.k = "fun" THEN d.body ELSE <<>>)))

MeantDecls ==
    FoldLeftDomain(LAMBDA ds, f : ds \o [i \in DOMAIN crate[f].decls |-> MeantDecl(crate[f].decls[i], <<f, i>>)], <<>>, crate)

RECURSIVE Marks(_, _)
Marks(kind, t) ==
    (IF t.k = kind THEN {t.name} ELSE {}) \cup UNION {Marks(kind, t.subs[i]) : i \in DOMAIN t.subs}
Marked(kind, decls) == UNION {Marks(kind, decls[i]) : i \in DOMAIN decls}
=============================================================================
