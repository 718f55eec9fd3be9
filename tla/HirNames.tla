------------------------------ MODULE HirNames ------------------------------
(***************************************************************************)
(* leaf_hir_lower: the lowering of a crate to HIR, which looks every name  *)
(* up again in the scopes the name pass made.  It runs when that pass has  *)
(* reported nothing; the driver that calls both is unfinished.             *)
(*                                                                         *)
(* The HIR is kept as trees [k, name, sym, subs] instead of identifiers    *)
(* into pools: `sym' is the symbol a node names, 0 when it names none.     *)
(* Operators, literals and spans are left out.  An error a declaration     *)
(* cannot be lowered with meets an unwrap and ends the compiler.           *)
(***************************************************************************)
EXTENDS NamePass

VARIABLE hir     \* [params, decls, exports, main, errors] of the crate lowered

vars == <<passVars, hir>>

Symbol(id) == names.pool.symbols[id]
Find(scope, name) == Lookup(names.pool, scope, name).symbol

\* What lowering something gives: whether it could be, its HIR, and how many
\* errors were reported on the way.
Failed == [ok |-> FALSE, hir |-> <<>>, errors |-> 1]
Nothing == [ok |-> TRUE, hir |-> <<>>, errors |-> 0]

\* Parts lowered one after the other, up to the first that fails.
Joined(done, r) ==
    IF ~done.ok THEN done
    ELSE [ok |-> r.ok, hir |-> Append(done.hir, r.hir), errors |-> done.errors + r.errors]

All(parts) ==
    LET A[n \in 0 .. Len(parts)] == IF n = 0 THEN Nothing ELSE Joined(A[n - 1], parts[n])
    IN A[Len(parts)]

Node(k, name, sym, parts) ==
    [parts EXCEPT !.hir = [k |-> k, name |-> name, sym |-> sym, subs |-> @]]

\* A node for the symbol found, if one was.
Named(k, sym, parts) == IF sym = 0 THEN Failed ELSE Node(k, Symbol(sym).name, sym, parts)

LowerName(k, name, scope, parts) == Named(k, Find(scope, name), parts)
-----------------------------------------------------------------------------
\* Paths: the symbol, or 0.  Here types and effects are entered too.
Inside(id, name) ==
    LET s == Symbol(id)
        own == SelectSeq(s.of, LAMBDA m : Symbol(m).name = name)
    IN CASE s.kind = "File" -> Find(names.fileScope[s.of[1]], name)
         [] s.kind = "Effect" -> Find(s.of[1], name)
         [] s.kind \in {"Struct", "ADT"} -> IF own = <<>> THEN 0 ELSE Head(own)
         [] OTHER -> 0

RECURSIVE Follow(_, _)
Follow(id, path) == IF path = <<>> \/ id = 0 THEN id ELSE Follow(Inside(id, Head(path)), Tail(path))

ResolvePath(path, scope) ==
    IF path = <<>> THEN 0 ELSE Follow(Find(scope, Head(path)), Tail(path))

RECURSIVE LowerExpr(_, _)
LowerExprs(es, scope) == [i \in DOMAIN es |-> LowerExpr(es[i], scope)]

\* Types.
RECURSIVE LowerType(_, _)
LowerTypes(ts, scope) == [i \in DOMAIN ts |-> LowerType(ts[i], scope)]

LowerType(t, scope) ==
    CASE t.k = "named" -> Named("type", ResolvePath(t.path, scope), All(LowerTypes(t.args, scope)))
      [] t.k = "typeof" -> Node("typeof", "", 0, All(LowerExprs(t.expr, scope)))
      [] OTHER -> Node(t.k, "", 0, All(LowerTypes(t.args, scope)))

IsTypeEmpty(t) == t.k = "named" /\ t.path = <<>>
Annotation(t, scope) == IF IsTypeEmpty(t) THEN <<>> ELSE <<LowerType(t, scope)>>

\* Patterns: a binding is whatever its name finds.  Of the field of a struct
\* pattern only the name is read later, but it must name something where the
\* pattern stands.
RECURSIVE LowerPattern(_, _)
LowerPatterns(ps, scope) == [i \in DOMAIN ps |-> LowerPattern(ps[i], scope)]

LowerField(p, i, scope) ==
    IF Find(scope, p.names[i]) = 0 THEN Failed
    ELSE Node("field", p.names[i], 0, All(<<LowerPattern(p.subs[i], scope)>>))

LowerPattern(p, scope) ==
    CASE p.k \in {"bind", "alias"} ->
            LowerName(p.k, p.name, scope, All(LowerPatterns(p.subs, scope)))
      [] p.k = "con" ->
            Named("con", ResolvePath(p.path, scope), All(LowerPatterns(p.subs, scope)))
      [] p.k = "struct" ->
            Named("struct", ResolvePath(p.path, scope),
                  All([i \in DOMAIN p.subs |-> LowerField(p, i, scope)]))
      [] OTHER -> Node(p.k, "", 0, All(LowerPatterns(p.subs, scope)))
-----------------------------------------------------------------------------
\* A value's path.  The first attempt, for constructors, leaves its error
\* behind when it fails.
IsConstructor(id) == id # 0 /\ Symbol(id).kind = "Constructor"

Variant(id, parts) == Named("variant", id, All(parts))
Unit == Node("tuple", "", 0, Nothing)

\* How many leading segments are namespaces, or -1 when one is not found.
\* Every segment is looked up in the scope the one before was found in.
RECURSIVE Greedy(_, _, _)
Greedy(path, scope, taken) ==
    IF taken = Len(path) THEN taken
    ELSE LET found == Lookup(names.pool, scope, path[taken + 1])
         IN CASE found.symbol = 0 -> -1
              [] found.symbol # 0 /\ Symbol(found.symbol).kind \in {"File", "Struct", "ADT", "Effect"}
                    -> Greedy(path, found.scope, taken + 1)
              [] OTHER -> taken

\* The rest of a path is fields of what comes before.
FieldsOf(base, fields) ==
    FoldLeft(LAMBDA object, f : Node("member", f, 0, All(<<object>>)), base, fields)

NameThenFields(path, scope, taken) ==
    CASE taken < 0 -> Failed
      [] taken = 0 -> FieldsOf(LowerName("name", path[1], scope, Nothing), Tail(path))
      [] OTHER -> FieldsOf(Named("name", ResolvePath(SubSeq(path, 1, taken), scope), Nothing),
                           SubSeq(path, taken + 1, Len(path)))

PathTo(whole, path, scope) ==
    IF IsConstructor(whole) THEN Variant(whole, <<Unit>>)
    ELSE IF path = <<>> THEN Failed
    ELSE [NameThenFields(path, scope, Greedy(path, scope, 0)) EXCEPT
             !.errors = @ + IF whole = 0 THEN 1 ELSE 0]

LowerPath(path, scope) == PathTo(ResolvePath(path, scope), path, scope)

\* Calls.  Named arguments go where the parameters of the function stand, the
\* others fill what is left in order.
Order(args, given, params) ==
    LET positional == SelectSeq([i \in DOMAIN args |-> i], LAMBDA i : given[i] = "")
        used == {i \in DOMAIN args : given[i] # ""}
        free == SelectSeq([i \in DOMAIN params |-> i],
                          LAMBDA i : \A u \in used : given[u] # params[i])
        ArgOf(i) == IF \E u \in used : given[u] = params[i]
                    THEN args[CHOOSE u \in used : given[u] = params[i]]
                    ELSE args[positional[CHOOSE j \in DOMAIN free : free[j] = i]]
        fits == /\ \A u, v \in used : given[u] = given[v] => u = v
                /\ \A u \in used : given[u] \in Range(params)
                /\ Len(args) = Len(params)
    IN IF fits THEN [ok |-> TRUE, args |-> [i \in DOMAIN params |-> ArgOf(i)]]
       ELSE [ok |-> FALSE, args |-> <<>>]

Ordered(args, given, func) ==
    IF Range(given) \subseteq {""} THEN [ok |-> TRUE, args |-> args]
    ELSE IF func \in DOMAIN hir.params THEN Order(args, given, hir.params[func])
    ELSE [ok |-> FALSE, args |-> <<>>]

\* A call of what the first attempt found, func, its arguments in order.
Applied(func, callee, args, scope) ==
    IF ~IsConstructor(func) THEN Node("call", "", 0, All(<<LowerExpr(callee, scope)>> \o args))
    ELSE IF Len(args) = 1 THEN Variant(func, args) ELSE Failed

CallOf(func, ordered, callee, scope) ==
    IF ~ordered.ok THEN Failed
    ELSE [Applied(func, callee, LowerExprs(ordered.args, scope), scope) EXCEPT
             !.errors = @ + IF callee.k = "path" /\ func = 0 THEN 1 ELSE 0]

OrderedCall(func, e, scope) == CallOf(func, Ordered(Tail(e.subs), e.names, func), Head(e.subs), scope)

LowerCall(e, scope) ==
    OrderedCall(IF Head(e.subs).k = "path" THEN ResolvePath(Head(e.subs).path, scope) ELSE 0, e, scope)

\* What is piped is the first argument; the names of the others are ignored.
LowerPipe(e, scope) ==
    LET left == LowerExpr(e.subs[1], scope)
        right == e.subs[2]
    IN CASE right.k = "path" -> Node("call", "", 0, All(<<LowerExpr(right, scope), left>>))
         [] right.k = "call" ->
              LET parts == LowerExprs(right.subs, scope)
              IN Node("call", "", 0, All(<<Head(parts), left>> \o Tail(parts)))
         [] OTHER -> Failed

\* An arm or a clause is lowered in the scope recorded for it.
LowerArm(arm, k) ==
    IF arm \notin DOMAIN names.scopeOf THEN Failed
    ELSE LET own == names.scopeOf[arm]
             parts == <<LowerPattern(arm.pat, own)>> \o LowerExprs(arm.subs, own)
         IN IF k = "match" THEN Node("arm", "", 0, All(parts))
            ELSE Named("clause", ResolvePath(arm.path, own), All(parts))

\* A block the name pass has not seen is lowered in the scope around it.
LowerDo(e, scope) ==
    LET own == IF e \in DOMAIN names.scopeOf THEN names.scopeOf[e] ELSE scope
    IN Node("do", "", 0, All(LowerExprs(e.subs, own)))

LowerLet(e, scope) ==
    LowerName("let", e.name, scope, All(LowerExprs(e.subs, scope) \o Annotation(e.type, scope)))

LowerMake(e, scope) ==
    LET parts == LowerExprs(e.subs, scope)
    IN Node("make", "", 0,
            All(<<Head(parts)>> \o [i \in DOMAIN e.names
                                      |-> Node("field", e.names[i], 0, All(<<parts[i + 1]>>))]))

LowerRaise(e, scope) ==
    Named("raise", ResolvePath(Append(e.path, e.name), scope), All(LowerExprs(e.subs, scope)))

LowerExpr(e, scope) ==
    CASE e.k = "name" -> LowerName("name", e.name, scope, Nothing)
      [] e.k = "path" -> LowerPath(e.path, scope)
      [] e.k = "call" -> LowerCall(e, scope)
      [] e.k = "pipe" -> LowerPipe(e, scope)
      [] e.k = "do" -> LowerDo(e, scope)
      [] e.k = "let" -> LowerLet(e, scope)
      [] e.k = "make" -> LowerMake(e, scope)
      [] e.k = "raise" -> LowerRaise(e, scope)
      [] e.k = "is" ->
            Node("is", "", 0, All(Append(LowerExprs(e.subs, scope), LowerPattern(e.pat, scope))))
      [] e.k = "cast" ->
            Node("cast", "", 0, All(Append(LowerExprs(e.subs, scope), LowerType(e.type, scope))))
      [] e.k \in {"match", "with"} ->
            Node(e.k, "", 0, All(LowerExprs(e.subs, scope)
                                 \o [i \in DOMAIN e.arms |-> LowerArm(e.arms[i], e.k)]))
      [] OTHER -> Node(e.k, e.name, 0, All(LowerExprs(e.subs, scope)))
-----------------------------------------------------------------------------
\* Declarations, in the scope recorded for them or else in that of the file.
DeclScope == IF Decl \in DOMAIN names.scopeOf THEN names.scopeOf[Decl] ELSE FileScope

Group(parts) == Node("group", "", 0, All(parts))

LowerGeneric(g, scope) == LowerName("generic", g.name, scope, All(LowerTypes(g.bounds, scope)))
LowerGenerics(gs, scope) == Group([i \in DOMAIN gs |-> LowerGeneric(gs[i], scope)])

LowerParam(p, scope) == LowerName("param", p.name, scope, All(Annotation(p.type, scope)))
LowerParams(ps, scope) == Group([i \in DOMAIN ps |-> LowerParam(ps[i], scope)])

LowerFieldDef(f, scope) == LowerName("field", f.name, scope, All(<<LowerType(f.type, scope)>>))

\* A method, or a control: its parameters are looked up in the same scope.
LowerMethod(m, scope) ==
    LowerName("method", m.name, scope,
              All(<<LowerParams(m.members, scope)>> \o Annotation(m.type, scope)))

LowerConstructor(c, scope) ==
    LowerName("ctor", c.name, scope,
              All(<<LowerGenerics(c.generics, scope)>> \o Annotation(c.from, scope)
                  \o Annotation(c.type, scope)))

Has(d, scope) == Group([i \in DOMAIN d.has |-> Named("has", ResolvePath(<<d.has[i]>>, scope), Nothing)])

LowerFun(d, scope) ==
    <<LowerGenerics(d.generics, scope), LowerParams(d.members, scope)>>
    \o Annotation(d.type, scope) \o LowerExprs(d.body, scope)

LowerStruct(d, scope) ==
    <<LowerGenerics(d.generics, scope), Has(d, scope)>>
    \o [i \in DOMAIN d.members |-> LowerFieldDef(d.members[i], scope)]

LowerAlias(d, scope) == <<LowerGenerics(d.generics, scope), LowerType(d.type, scope)>>

LowerADT(d, scope) ==
    <<LowerGenerics(d.generics, scope), Has(d, scope)>>
    \o [i \in DOMAIN d.members |-> LowerConstructor(d.members[i], scope)]

LowerAbstract(d, scope) ==
    <<LowerGenerics(d.generics, scope), Has(d, scope)>>
    \o [i \in DOMAIN d.members |-> LowerMethod(d.members[i], scope)]

LowerEffect(d, scope) == [i \in DOMAIN d.members |-> LowerMethod(d.members[i], scope)]

LowerStatic(d, scope) == LowerExprs(d.body, scope) \o Annotation(d.type, scope)

LowerExternal(d, scope) == <<LowerParams(d.members, scope), LowerType(d.type, scope)>>

DeclParts(d, scope) ==
    CASE d.k \in {"fun", "fundecl"} -> LowerFun(d, scope)
      [] d.k = "struct" -> LowerStruct(d, scope)
      [] d.k = "alias" -> LowerAlias(d, scope)
      [] d.k = "adt" -> LowerADT(d, scope)
      [] d.k = "abstract" -> LowerAbstract(d, scope)
      [] d.k = "effect" -> LowerEffect(d, scope)
      [] d.k \in {"const", "global"} -> LowerStatic(d, scope)
      [] d.k = "external" -> LowerExternal(d, scope)
      [] OTHER -> <<>>

LowerDecl(d, scope) ==
    Node(IF d.k = "fundecl" THEN "fun" ELSE d.k, d.name, 0, All(DeclParts(d, scope)))
-----------------------------------------------------------------------------
HirInit == Init /\ hir = [params |-> << >>, decls |-> <<>>, exports |-> <<>>, main |-> 0, errors |-> 0]

\* The names of the parameters of every function, under the first symbol its
\* name finds.
ParamNames ==
    LET Add(params, f, d) ==
            IF d.k \notin {"fun", "fundecl"} THEN params
            ELSE (Find(names.fileScope[f], d.name) :> [i \in DOMAIN d.members |-> d.members[i].name])
                 @@ params
    IN FoldLeftDomain(LAMBDA params, f :
                          FoldLeft(LAMBDA ps, d : Add(ps, f, d), params, crate[f].decls),
                      << >>, crate)

CollectParams ==
    /\ phase = "resolved"
    /\ hir' = [hir EXCEPT !.params = ParamNames]
    /\ phase' = "lower"
    /\ UNCHANGED <<crate, file, item, names, diag>>

Lower ==
    /\ phase = "lower" /\ item \in DOMAIN File.decls
    /\ \E lowered \in {LowerDecl(Decl, DeclScope)} :
          IF lowered.ok
          THEN /\ hir' = [hir EXCEPT
                    !.decls = Append(@, lowered.hir),
                    !.exports = IF Decl.pub THEN Append(@, Len(hir.decls) + 1) ELSE @,
                    !.main = IF Decl.k = "fun" /\ Decl.name = "main" THEN Len(hir.decls) + 1 ELSE @,
                    !.errors = @ + lowered.errors]
               /\ item' = item + 1 /\ UNCHANGED phase
          ELSE phase' = "panicked" /\ UNCHANGED <<hir, item>>
    /\ UNCHANGED <<crate, file, names, diag>>

EndLower ==
    /\ phase = "lower" /\ item > Len(File.decls)
    /\ IF file < Len(crate) THEN file' = file + 1 /\ item' = 1 /\ UNCHANGED phase
       ELSE phase' = "lowered" /\ UNCHANGED <<file, item>>
    /\ UNCHANGED <<crate, names, diag, hir>>

Over == phase \in {"rejected", "panicked", "lowered"} /\ UNCHANGED vars

Next ==
    \/ Pass /\ UNCHANGED hir
    \/ CollectParams
    \/ Lower
    \/ EndLower
    \/ Over

Spec == HirInit /\ [][Next]_vars
=============================================================================
