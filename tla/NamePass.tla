------------------------------ MODULE NamePass ------------------------------
(***************************************************************************)
(* leaf_name_pass: build_scope makes the scopes and symbols of a crate,    *)
(* file by file, and resolve then looks up the names its bodies use.       *)
(*                                                                         *)
(* A crate is a sequence of files [name, decls, requires].  Its nodes:     *)
(*   declaration  [k, name, pub, generics, members, type, body, has, lang] *)
(*                with the parameters, fields, constructors, methods or    *)
(*                controls as members [name, generics, members, from,      *)
(*                type], and generics [name, bounds]                       *)
(*   expression   [k, name, path, subs, pat, arms, names, type]; of kind   *)
(*                "each" are those that only visit their operands          *)
(*   pattern      [k, name, path, subs, names]                             *)
(*   arm          [path, pat, subs]: of a match, with its guard, if any,   *)
(*                and its body, and no path; or a clause of a with, whose  *)
(*                pattern is the tuple of its parameters                   *)
(*   type         [k, path, args, expr]                                    *)
(* A node's place in the crate, a sequence of numbers, stands for its span.*)
(* The parser no longer builds these nodes; they are what the two passes   *)
(* take apart.  Maps keyed by a node compare its content.                  *)
(***************************************************************************)
EXTENDS ScopePool, TLC

CONSTANT Crates       \* the crates given to the pass

VARIABLES
    crate,       \* ast_module
    phase,       \* "build", "resolve", "resolved" or "rejected"
    file,        \* the file at hand
    item,        \* its item at hand: 0, a declaration, or a require after them
    names,       \* ResolvedNames: the pool and the maps into it
    diag         \* the errors reported, each a name and its place

passVars == <<crate, phase, file, item, names, diag>>

File == crate[file]
Decl == File.decls[item]
At == <<file, item>>
CrateScope == 1
FileScope == names.fileScope[file]

Init ==
    /\ crate \in Crates
    /\ phase = "build" /\ file = 1 /\ item = 0
    /\ names = [pool |-> PushScope(EmptyPool, 0), scopeOf |-> << >>,
                fileScope |-> << >>, lang |-> << >>]
    /\ diag = <<>>
-----------------------------------------------------------------------------
\* Declaring names.
Declare(n, scope, name, at, kind, of) ==
    [n EXCEPT !.pool = AddSymbol(@, scope, [name |-> name, def |-> at, kind |-> kind, of |-> of])]

DeclareAll(n, scope, items, at, kind) ==
    FoldLeftDomain(LAMBDA m, i : Declare(m, scope, items[i].name, Append(at, i), kind, <<>>),
                   n, items)

\* Faulty: the scope around is forgotten.
OpenAtTop(n, parent, node) ==
    [n EXCEPT !.pool = PushScope(@, CrateScope),
              !.scopeOf = (node :> Newest(n.pool) + 1) @@ @]

\* A new scope, recorded for the node.
Open(n, parent, node) ==
    [n EXCEPT !.pool = PushScope(@, parent),
              !.scopeOf = (node :> Newest(n.pool) + 1) @@ @]

RECURSIVE Bindings(_, _)
Bindings(p, at) ==
    LET inner == FoldLeftDomain(LAMBDA bs, i : bs \o Bindings(p.subs[i], Append(at, i)),
                                <<>>, p.subs)
    IN IF p.k \in {"bind", "alias"} THEN <<[name |-> p.name, at |-> at]>> \o inner ELSE inner

Bind(n, scope, bindings) ==
    FoldLeft(LAMBDA m, b : Declare(m, scope, b.name, b.at, "Local", <<>>), n, bindings)

\* What an arm or a clause stands at, after the operands of its expression.
ArmAt(e, at, i) == Append(at, Len(e.subs) + i)
PatternAt(at) == Append(at, 0)

RECURSIVE BuildExpr(_, _, _, _)
BuildAll(n, es, at, scope) ==
    FoldLeftDomain(LAMBDA m, i : BuildExpr(m, es[i], Append(at, i), scope), n, es)

\* An arm of a match, or a clause of a with.
BuildArm(n, arm, at, scope) ==
    LET opened == Open(n, scope, arm)
        own == Newest(opened.pool)
    IN BuildAll(Bind(opened, own, Bindings(arm.pat, PatternAt(at))), arm.subs, at, own)

BuildArms(n, e, at, scope) ==
    FoldLeftDomain(LAMBDA m, i : BuildArm(m, e.arms[i], ArmAt(e, at, i), scope), n, e.arms)

\* The elements of a tuple are not visited.
BuildExpr(n, e, at, scope) ==
    CASE e.k = "tuple" -> n
      [] e.k = "do" ->
            LET opened == Open(n, scope, e)
            IN BuildAll(opened, e.subs, at, Newest(opened.pool))
      [] e.k = "let" -> BuildAll(Declare(n, scope, e.name, at, "Local", <<>>), e.subs, at, scope)
      [] e.k = "is" ->
            Bind(BuildAll(n, e.subs, at, scope), scope, Bindings(e.pat, PatternAt(at)))
      [] e.k \in {"match", "with"} ->
            BuildArms(BuildAll(n, e.subs, at, scope), e, at, scope)
      [] OTHER -> BuildAll(n, e.subs, at, scope)
-----------------------------------------------------------------------------
\* build_scope.
Generics(at) == Append(at, 1)
Members(at) == Append(at, 2)
Body(at) == Append(at, 3)

Building == phase = "build" /\ UNCHANGED <<crate, phase, diag>>
BuildingA(kind) == Building /\ item \in DOMAIN File.decls /\ Decl.k = kind
Built(n) == names' = n /\ item' = item + 1 /\ UNCHANGED file

\* The declaration's own symbol, in the scope of its file.
Own(n, kind, of) == Declare(n, FileScope, Decl.name, At, kind, of)
OpenOwn(n) == Open(n, FileScope, Decl)
GenericsOf(n) == DeclareAll(n, Newest(n.pool), Decl.generics, Generics(At), "Generic")
MembersOf(n, kind) == DeclareAll(n, Newest(n.pool), Decl.members, Members(At), kind)

\* The symbols made between two states of the pool, of one kind.
Made(old, new, kind) ==
    SelectSeq([i \in 1 .. Len(new.pool.symbols) - Len(old.pool.symbols)
                 |-> Len(old.pool.symbols) + i],
              LAMBDA id : new.pool.symbols[id].kind = kind)

StartFile ==
    /\ Building /\ item = 0
    /\ LET opened == [names EXCEPT !.pool = PushScope(@, CrateScope)]
       IN Built([Declare(opened, CrateScope, File.name, <<file>>, "File", <<file>>)
                    EXCEPT !.fileScope = (file :> Newest(opened.pool)) @@ @])

BuildFun ==
    /\ BuildingA("fun")
    /\ LET opened == MembersOf(GenericsOf(OpenOwn(Own(names, "Function", <<>>))), "Local")
       IN Built(BuildAll(opened, Decl.body, Body(At), Newest(opened.pool)))

\* A function without a body gets no scope.
BuildFunDecl == BuildingA("fundecl") /\ Built(Own(names, "Function", <<>>))

BuildStruct ==
    /\ BuildingA("struct")
    /\ LET generic == GenericsOf(OpenOwn(names))
           full == MembersOf(generic, "Field")
       IN Built(Own(full, "Struct", Made(generic, full, "Field")))

\* A constructor's scope is recorded for the whole declaration, its symbol is
\* declared in the file.
BuildConstructor(n, adt, i) ==
    LET opened == Open(n, adt, Decl)
        ctor == Decl.members[i]
        at == Append(Members(At), i)
    IN Declare(DeclareAll(opened, Newest(opened.pool), ctor.generics, Generics(at), "Generic"),
               FileScope, ctor.name, at, "Constructor", <<>>)

BuildADT ==
    /\ BuildingA("adt")
    /\ LET generic == GenericsOf(OpenOwn(names))
           adt == Newest(generic.pool)
           full == FoldLeftDomain(LAMBDA n, i : BuildConstructor(n, adt, i),
                                  generic, Decl.members)
       IN Built(Own(full, "ADT", Made(generic, full, "Constructor")))

BuildAlias == BuildingA("alias") /\ Built(Own(GenericsOf(OpenOwn(names)), "TypeAlias", <<>>))

BuildCType == BuildingA("ctype") /\ Built(Own(names, "CTypeDef", <<>>))

\* Faulty: the parameters are not declared.
BuildExternalBare ==
    /\ BuildingA("external")
    /\ Built(OpenOwn(Own(names, "External", <<>>)))

BuildExternal ==
    /\ BuildingA("external")
    /\ Built(MembersOf(OpenOwn(Own(names, "External", <<>>)), "Local"))

\* Neither its generics nor the parameters of its methods are declared.
BuildAbstract ==
    /\ BuildingA("abstract")
    /\ Built(MembersOf(OpenOwn(Own(names, "Abstract", <<>>)), "Method"))

\* The controls and all their parameters share the scope of the effect.
BuildEffect ==
    /\ BuildingA("effect")
    /\ LET opened == OpenOwn(names)
           scope == Newest(opened.pool)
           BuildControl(n, i) ==
               LET at == Append(Members(At), i)
               IN DeclareAll(Declare(n, scope, Decl.members[i].name, at, "Control", <<>>),
                             scope, Decl.members[i].members, Members(at), "Local")
       IN Built(FoldLeftDomain(BuildControl, Own(opened, "Effect", <<scope>>), Decl.members))

BuildConst ==
    /\ BuildingA("const")
    /\ Built(BuildAll(Own(names, "Const", <<>>), Decl.body, Body(At), FileScope))

BuildGlobal ==
    /\ BuildingA("global")
    /\ Built(BuildAll(Own(names, "Global", <<>>), Decl.body, Body(At), FileScope))

\* A type of the language is remembered under the name its annotation gives.
BuildTypeDecl ==
    /\ BuildingA("type")
    /\ LET own == Own(names, "TypeDecl", <<>>)
       IN Built(IF Decl.lang = "" THEN own
                ELSE [own EXCEPT !.lang = (Decl.lang :> Len(own.pool.symbols)) @@ @])

\* The names a require asks for: those listed, or every public declaration.
\* The constructors of an ADT are not among its file's declarations.
Asked(req, target) ==
    IF req.only # <<>> THEN req.only
    ELSE LET public == SelectSeq(crate[target].decls, LAMBDA d : d.pub)
         IN [i \in DOMAIN public |-> public[i].name]

\* The module must have been built: one of a later file is not found, and
\* nothing is said of it.
BuildRequire ==
    /\ Building /\ item > Len(File.decls) /\ item - Len(File.decls) \in DOMAIN File.requires
    /\ LET req == File.requires[item - Len(File.decls)]
           module == Lookup(names.pool, CrateScope, req.module).symbol
           target == names.pool.symbols[module].of[1]
           asked == Asked(req, target)
           found == [i \in DOMAIN asked
                       |-> Lookup(names.pool, names.fileScope[target], asked[i]).symbol]
       IN Built(IF module = 0 \/ ~req.open THEN names
                ELSE [names EXCEPT !.pool =
                         Import(@, FileScope, SelectSeq(found, LAMBDA id : id # 0))])

EndFile ==
    /\ phase = "build" /\ item > Len(File.decls) + Len(File.requires)
    /\ IF file < Len(crate) THEN file' = file + 1 /\ item' = 0 /\ UNCHANGED phase
       ELSE file' = 1 /\ item' = 1 /\ phase' = "resolve"
    /\ UNCHANGED <<crate, names, diag>>
-----------------------------------------------------------------------------
\* resolve: what a body uses and no scope around it declares, in the order the
\* pass comes to it.
RECURSIVE Descend(_, _, _)
Descend(id, path, at) ==
    IF path = <<>> \/ names.pool.symbols[id].kind # "File" THEN <<>>
    ELSE LET inFile == names.fileScope[names.pool.symbols[id].of[1]]
             next == Lookup(names.pool, inFile, Head(path)).symbol
         IN IF next = 0 THEN <<[name |-> Head(path), at |-> at]>>
            ELSE Descend(next, Tail(path), at)

\* Only modules are entered; what follows a type is taken for granted.
PathUndefined(path, at, scope) ==
    IF path = <<>> THEN <<>>
    ELSE LET id == Lookup(names.pool, scope, Head(path)).symbol
         IN IF id = 0 THEN <<[name |-> Head(path), at |-> at]>>
            ELSE Descend(id, Tail(path), at)

NameUndefined(name, at, scope) ==
    IF Lookup(names.pool, scope, name).symbol = 0 THEN <<[name |-> name, at |-> at]>> ELSE <<>>

RECURSIVE PatternUndefined(_, _, _)
PatternUndefined(p, at, scope) ==
    PathUndefined(p.path, at, scope)
    \o FoldLeftDomain(LAMBDA us, i : us \o PatternUndefined(p.subs[i], Append(at, i), scope),
                      <<>>, p.subs)

RECURSIVE Undefined(_, _, _)
AllUndefined(es, at, scope) ==
    FoldLeftDomain(LAMBDA us, i : us \o Undefined(es[i], Append(at, i), scope), <<>>, es)

ArmUndefined(arm, at) ==
    LET own == names.scopeOf[arm]
    IN PathUndefined(arm.path, at, own)
       \o PatternUndefined(arm.pat, PatternAt(at), own)
       \o AllUndefined(arm.subs, at, own)

\* Of a raise the effect is looked up, the control is not.
Undefined(e, at, scope) ==
    CASE e.k = "tuple" -> <<>>
      [] e.k = "name" -> NameUndefined(e.name, at, scope)
      [] e.k = "do" -> AllUndefined(e.subs, at, names.scopeOf[e])
      [] e.k = "is" ->
            AllUndefined(e.subs, at, scope) \o PatternUndefined(e.pat, PatternAt(at), scope)
      [] e.k \in {"match", "with"} ->
            AllUndefined(e.subs, at, scope)
            \o FoldLeftDomain(LAMBDA us, i : us \o ArmUndefined(e.arms[i], ArmAt(e, at, i)),
                              <<>>, e.arms)
      [] OTHER -> PathUndefined(e.path, at, scope) \o AllUndefined(e.subs, at, scope)

\* The functions, constants and globals are resolved.  The first undefined
\* name ends the pass.
Resolve ==
    /\ phase = "resolve" /\ item \in DOMAIN File.decls
    /\ LET scope == IF Decl.k = "fun" THEN names.scopeOf[Decl] ELSE FileScope
           undefined == IF Decl.k \in {"fun", "const", "global"}
                        THEN AllUndefined(Decl.body, Body(At), scope) ELSE <<>>
       IN IF undefined = <<>>
          THEN item' = item + 1 /\ UNCHANGED <<phase, diag>>
          ELSE diag' = <<Head(undefined)>> /\ phase' = "rejected" /\ UNCHANGED item
    /\ UNCHANGED <<crate, file, names>>

EndResolve ==
    /\ phase = "resolve" /\ item > Len(File.decls)
    /\ IF file < Len(crate) THEN file' = file + 1 /\ item' = 1 /\ UNCHANGED phase
       ELSE file' = 1 /\ item' = 1 /\ phase' = "resolved"
    /\ UNCHANGED <<crate, names, diag>>

Pass ==
    \/ StartFile \/ BuildFun \/ BuildFunDecl \/ BuildStruct \/ BuildADT \/ BuildAlias
    \/ BuildCType \/ BuildExternal \/ BuildAbstract \/ BuildEffect \/ BuildConst
    \/ BuildGlobal \/ BuildTypeDecl \/ BuildRequire \/ EndFile
    \/ Resolve \/ EndResolve
=============================================================================
