----------------------------- MODULE NamesAgree -----------------------------
(***************************************************************************)
(* What the two passes over names promise: the properties of NamePass and  *)
(* HirNames, against the meaning LexicalScope gives.                       *)
(***************************************************************************)
EXTENDS LexicalScope, FiniteSets

\* Places for symbols.
RECURSIVE Declared(_)
Declared(t) ==
    [t EXCEPT !.sym = IF t.sym = 0 THEN <<>> ELSE Symbol(t.sym).def,
              !.subs = [i \in DOMAIN t.subs |-> Declared(t.subs[i])]]

AllDecls == UNION {Range(crate[f].decls) : f \in DOMAIN crate}

\* Every block, arm, clause and declaration has a scope of its own: the maps
\* compare nodes, so one of two equal nodes loses its scope to the other.
NothingShared ==
    LET opened == Len(names.pool.scopes) - 1 - Len(crate)
        again == UNION {{<<d, i>> : i \in DOMAIN d.members} : d \in {d \in AllDecls : d.k = "adt"}}
    IN opened = Cardinality(DOMAIN names.scopeOf) + Cardinality(again)

\* Open requires name files that come before.
InOrder ==
    \A f \in DOMAIN crate : \A req \in Range(crate[f].requires) :
        req.open => \A g \in FileCalled(req.module) : g <= f

\* No name is declared twice in a file, nor in one of its declarations.
NamesOf(items) == [i \in DOMAIN items |-> items[i].name]
FileLevel(ds) ==
    FoldLeft(LAMBDA ns, d : Append(ns, d.name) \o IF d.k = "adt" THEN NamesOf(d.members) ELSE <<>>,
             <<>>, ds)
NamesWithin(d) ==
    FoldLeft(LAMBDA ns, m : ns \o NamesOf(m.generics) \o NamesOf(m.members),
             NamesOf(d.generics) \o NamesOf(d.members), d.members)
DeclaredOnce ==
    /\ \A f \in DOMAIN crate : IsInjective(FileLevel(crate[f].decls))
    /\ \A d \in AllDecls : IsInjective(NamesWithin(d))

\* Generics and parameters that are given no scope are not found by what else
\* has their name.
NothingClaimed ==
    \A f \in DOMAIN crate : \A d \in Range(crate[f].decls) :
        d.k \in {"fundecl", "abstract"} => Range(NamesWithin(d)) \cap DOMAIN FileNames(f) = {}

Settled(meant) == Marked("unsettled", meant) = {} /\ NothingShared /\ InOrder /\ DeclaredOnce /\ NothingClaimed

(***************************************************************************)
(* The crates this code takes: nothing is undefined, and none of what it   *)
(* cannot lower occurs.                                                    *)
(***************************************************************************)
RECURSIVE Within(_)
WithinAll(es) == UNION {Within(es[i]) : i \in DOMAIN es}
Within(e) == {e} \cup WithinAll(e.subs) \cup UNION {WithinAll(e.arms[i].subs) : i \in DOMAIN e.arms}

RECURSIVE PatternsIn(_)
PatternsIn(p) == {p} \cup UNION {PatternsIn(p.subs[i]) : i \in DOMAIN p.subs}

Constructors == UNION {{d.members[i].name : i \in DOMAIN d.members} : d \in {d \in AllDecls : d.k = "adt"}}

\* A path of several segments is a constructor's; a tuple has no arms in it;
\* the fields of a struct pattern bind their own names.
PlainExpr(e) ==
    /\ e.k = "path" => Len(e.path) = 1 \/ Last(e.path) \in Constructors
    /\ e.k = "tuple" => \A inner \in Within(e) : inner.arms = <<>>
    /\ \A p \in PatternsIn(e.pat) \cup UNION {PatternsIn(e.arms[i].pat) : i \in DOMAIN e.arms} :
          p.k = "struct" => \A i \in DOMAIN p.subs : p.subs[i].k = "bind" /\ p.subs[i].name = p.names[i]

\* A function without a body has no parameters or generics, nor have methods;
\* an external one has a type; and only the last constructor of an ADT has
\* generics of its own.
PlainDecl(d) ==
    /\ d.k = "fundecl" => d.members = <<>> /\ d.generics = <<>>
    /\ d.k = "external" => ~IsTypeEmpty(d.type)
    /\ d.k = "abstract" => d.generics = <<>> /\ \A i \in DOMAIN d.members : d.members[i].members = <<>>
    /\ d.k = "adt" => \A i \in 1 .. Len(d.members) - 1 : d.members[i].generics = <<>>
    /\ \A e \in WithinAll(d.body) : PlainExpr(e)

Plain(meant) == Settled(meant) /\ Marked("undefined", meant) = {} /\ \A d \in AllDecls : PlainDecl(d)
-----------------------------------------------------------------------------
\* The scopes form a tree in which every lookup ends, and hold symbols that
\* exist; a node's scope and a file's are among them.  This is what the
\* indexing of ScopePool::lookup relies on.
NamesTypeOK ==
    /\ PoolOK(names.pool)
    /\ Range(names.scopeOf) \cup Range(names.fileScope) \subseteq DOMAIN names.pool.scopes
    /\ Range(names.lang) \subseteq DOMAIN names.pool.symbols
    /\ Len(diag) <= 1

\* Of a crate that is lowered, every declaration, binding and use has the
\* symbol of the declaration that lexical scoping gives it, and every argument
\* is given to its parameter: leaf_hir_lower looks every name up again by its
\* text, in scopes found by the content of nodes, after all of the scopes have
\* been filled and the imports appended.
AsMeant(meant) ==
    Settled(meant) => meant = [i \in DOMAIN hir.decls |-> Declared(hir.decls[i])]
LoweredAsMeant == phase = "lowered" => AsMeant(MeantDecls)

\* What the name pass rejects uses a name that is declared nowhere around it,
\* and the name it reports is such a one: resolve runs only once every file
\* has been built, so neither the order of files nor of declarations counts.
Undeclared(meant) == Settled(meant) => diag[1].name \in Marked("undefined", meant)
RejectedIsUndefined == phase = "rejected" => Undeclared(MeantDecls)

\* A crate whose names are all declared, and that keeps to what this code can
\* lower, is lowered to the end without an error: every name the lowering
\* looks up is in a scope the name pass filled, so no unwrap is met.
PlainIsLowered ==
    phase \in {"rejected", "panicked", "lowered"} /\ Plain(MeantDecls) =>
        phase = "lowered" /\ hir.errors = 0
=============================================================================
