----------------------------- MODULE ScopePool -----------------------------
(***************************************************************************)
(* The ScopePool of leaf_coreapi: the scopes of a crate, each with its     *)
(* parent and the symbols it declares or imports, and the symbols.  Scopes *)
(* and symbols are numbered in the order of their making, from 1; the      *)
(* parent of a scope without one is 0.  The children of a scope, its kind  *)
(* and its span are never read, and left out.  A symbol is                 *)
(* [name, def, kind, of]: the place it was declared at, and what its kind  *)
(* carries (the fields, the constructors, the scope, the file).            *)
(***************************************************************************)
EXTENDS Integers, Sequences, SequencesExt

EmptyPool == [scopes |-> <<>>, symbols |-> <<>>]

PushScope(pool, parent) ==
    [pool EXCEPT !.scopes = Append(@, [parent |-> parent, symbols |-> <<>>])]

Newest(pool) == Len(pool.scopes)

\* Faulty: the counter has moved on when the scope is told.
AddSymbolLate(pool, scope, symbol) ==
    [pool EXCEPT !.symbols = Append(@, symbol),
                 !.scopes[scope].symbols = Append(@, Len(pool.symbols) + 2)]

AddSymbol(pool, scope, symbol) ==
    [pool EXCEPT !.symbols = Append(@, symbol),
                 !.scopes[scope].symbols = Append(@, Len(pool.symbols) + 1)]

Import(pool, scope, ids) == [pool EXCEPT !.scopes[scope].symbols = @ \o ids]

Missing == [symbol |-> 0, scope |-> 0]

\* The i-th symbol of a scope has the name.
IsNamed(pool, s, i, name) == pool.symbols[pool.scopes[s].symbols[i]].name = name

\* Faulty: the last symbol of the name.
LookupLast(pool, scope, name) ==
    LET from[s \in 0 .. Len(pool.scopes)] ==
            IF s = 0 THEN Missing
            ELSE LET ids == pool.scopes[s].symbols IN
                 IF \A i \in DOMAIN ids : ~IsNamed(pool, s, i, name) THEN from[pool.scopes[s].parent]
                 ELSE [symbol |-> ids[CHOOSE i \in DOMAIN ids :
                                         /\ IsNamed(pool, s, i, name)
                                         /\ \A j \in i + 1 .. Len(ids) : ~IsNamed(pool, s, j, name)],
                       scope |-> s]
    IN from[scope]

\* The first symbol of the name in the innermost scope that has one, and that
\* scope.
Lookup(pool, scope, name) ==
    LET from[s \in 0 .. Len(pool.scopes)] ==
            IF s = 0 THEN Missing
            ELSE LET ids == pool.scopes[s].symbols IN
                 IF \A i \in DOMAIN ids : ~IsNamed(pool, s, i, name) THEN from[pool.scopes[s].parent]
                 ELSE [symbol |-> ids[CHOOSE i \in DOMAIN ids :
                                         /\ IsNamed(pool, s, i, name)
                                         /\ \A j \in 1 .. i - 1 : ~IsNamed(pool, s, j, name)],
                       scope |-> s]
    IN from[scope]

\* A lookup ends because parents are older, and finds symbols that exist.
PoolOK(pool) ==
    \A s \in DOMAIN pool.scopes :
        /\ pool.scopes[s].parent \in 0 .. s - 1
        /\ Range(pool.scopes[s].symbols) \subseteq DOMAIN pool.symbols
=============================================================================
