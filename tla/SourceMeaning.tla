--------------------------- MODULE SourceMeaning ---------------------------
(***************************************************************************)
(* What a program means, read from its expressions: operands from left to  *)
(* right, both operands of `and` and `or`, one branch of an `if`, a `with` *)
(* has the value of its body, in which a raise has the value its handler   *)
(* resumes with; a handler that does not resume ends the `with`.           *)
(*                                                                         *)
(* An outcome is [k, v, env, out]: "value" goes on; "return" ends the      *)
(* function, "resume" a clause and "abort" the with whose handlers stand   *)
(* above the first at; "unhandled" ends the program, and so does "stuck":  *)
(* values the expression has no meaning for, v telling which.  out is what *)
(* external functions were given so far.                                   *)
(***************************************************************************)
EXTENDS MirLower

Outcome(k, v, s) == [k |-> k, v |-> v, env |-> s.env, out |-> s.out, at |-> 0]
Stuck(why, s) == Outcome("stuck", Val(why, 0, <<>>), s)

Bool(b) == Val("bool", IF b THEN 1 ELSE 0, <<>>)
Operate(f, vs) ==
    CASE f = "add" -> Val("int", vs[1].n + vs[2].n, <<>>)
      [] f = "sub" -> Val("int", vs[1].n - vs[2].n, <<>>)
      [] f = "lt"  -> Bool(vs[1].n < vs[2].n)
      [] f = "eq"  -> Bool(vs[1] = vs[2])
      [] f = "and" -> Bool(vs[1].n = 1 /\ vs[2].n = 1)
      [] f = "or"  -> Bool(vs[1].n = 1 \/ vs[2].n = 1)
      [] f = "neg" -> Val("int", -vs[1].n, <<>>)
      [] f = "not" -> Bool(vs[1].n = 0)
      [] f \in {"move", "copy", "cast"} -> vs[1]
      [] f \in {"ref", "share"} -> Val("ref", 0, <<vs[1]>>)

\* Through n references.
Strip(v, n) ==
    LET S[i \in 0..n] ==
            IF i = 0 THEN v
            ELSE LET prev == S[i - 1] IN IF prev.c = "ref" THEN prev.parts[1] ELSE Val("none", 0, <<>>)
    IN  S[n]

FieldNo(decl, name) ==
    LET fs == DeclOf("struct", decl).fields IN CHOOSE i \in 1..Len(fs) : fs[i] = name
HasField(decl, name) ==
    /\ decl \in Symbols("struct")
    /\ \E i \in 1..Len(DeclOf("struct", decl).fields) : DeclOf("struct", decl).fields[i] = name
WithCtor(ctor) == {i \in DeclsOf("adt") : \E j \in 1..Len(prog[i].ctors) : prog[i].ctors[j] = ctor}
TagOf(ctor) ==
    LET d == prog[CHOOSE i \in WithCtor(ctor) : TRUE]
    IN  CHOOSE j \in 1..Len(d.ctors) : d.ctors[j] = ctor

\* Functions have a number, their place among the functions.
Callables == DeclsOf("fun") \cup DeclsOf("external")
NumberOf(i) == Cardinality({j \in Callables : j <= i})
CallableNo(n) == prog[CHOOSE i \in Callables : NumberOf(i) = n]

\* What keeps an expression from having a value, its operands being vs.
AllAre(c, vs) == \A i \in 1..Len(vs) : vs[i].c = c
Wrong(e, vs) ==
    CASE e.e = "op" /\ e.f \in {"add", "sub", "neg", "lt"} /\ ~AllAre("int", vs) -> "number"
      [] e.e = "op" /\ e.f \in {"and", "or", "not"} /\ ~AllAre("bool", vs) -> "boolean"
      [] e.e = "op" /\ e.f = "eq" /\ vs[1].c # vs[2].c -> "kinds"
      [] e.e = "struct" /\ \E i \in 1..Len(e.fields) : ~HasField(e.decl, e.fields[i]) -> "field"
      [] e.e = "struct" /\ {FieldNo(e.decl, e.fields[i]) : i \in 1..Len(e.fields)} # 1..Len(vs) -> "field"
      [] e.e = "variant" /\ WithCtor(e.ctor) = {} -> "name"
      [] e.e = "field" /\ ~HasField(e.decl, e.field) -> "field"
      [] e.e = "field" /\ FieldNo(e.decl, e.field) > Len(Strip(vs[1], e.derefs).parts) -> "field"
      [] e.e = "index" /\ (vs[1].c # "tuple" \/ e.i > Len(vs[1].parts)) -> "field"
      [] OTHER -> "nothing"

RECURSIVE Mean(_, _, _)

\* The outcomes of a sequence of expressions, up to the first that is no value.
MeanAll(es, hs, s) ==
    LET M[n \in 0..Len(es)] ==
            IF n = 0 THEN [last |-> Outcome("value", Unit, s), vs |-> <<>>]
            ELSE LET prev == M[n - 1] IN
                 IF prev.last.k # "value" THEN prev
                 ELSE LET o == Mean(es[n], hs, prev.last)
                      IN  [last |-> o, vs |-> Append(prev.vs, o.v)]
    IN  M[Len(es)]

\* A function by name on given arguments.
Apply(sym, vs, hs, s) ==
    IF sym \in Symbols("external")
    THEN LET ts == DeclOf("external", sym).ptys
         IN  IF Len(ts) # Len(vs) \/ \E i \in 1..Len(ts) : ts[i] = <<IntName>> /\ vs[i].c # "int"
             THEN Stuck("argument", s)
             ELSE [Outcome("value", Unit, s) EXCEPT !.out = Append(@, [to |-> sym, vs |-> vs])]
    ELSE LET d == DeclOf("fun", sym)
             env == [x \in {d.params[i] : i \in 1..Len(d.params)} |->
                        vs[CHOOSE i \in 1..Len(vs) : d.params[i] = x]]
             o == MeanAll(d.body, hs, [s EXCEPT !.env = env]).last
         IN  IF Len(d.params) # Len(vs) THEN Stuck("argument", s)
             ELSE IF o.k = "resume" THEN Stuck("resume", s)
             ELSE [o EXCEPT !.env = s.env, !.k = IF @ = "return" THEN "value" ELSE @]

\* A raise: the innermost handler of its control, run outside of its with.
Handle(c, vs, hs, s) ==
    LET mine == {i \in 1..Len(hs) : hs[i].control = c}
        h == hs[CHOOSE i \in mine : \A j \in mine : j <= i]
        env == [i \in DOMAIN h.env \cup {h.params[j] : j \in 1..Len(h.params)} |->
                   IF \E j \in 1..Len(h.params) : h.params[j] = i
                   THEN vs[CHOOSE j \in 1..Len(h.params) : h.params[j] = i] ELSE h.env[i]]
        o == Mean(h.body, SubSeq(hs, 1, h.base), [s EXCEPT !.env = env])
        back == [o EXCEPT !.env = s.env]
    IN  IF mine = {} THEN Outcome("unhandled", Unit, s)
        ELSE IF Len(h.params) > Len(vs) THEN Stuck("argument", s)
        ELSE IF o.k = "resume" THEN [back EXCEPT !.k = "value"]
        ELSE IF o.k = "value" THEN [back EXCEPT !.k = "abort", !.at = h.base]
        ELSE back

RECURSIVE MeanIf(_, _, _, _)
MeanIf(e, i, hs, s) ==
    IF i > Len(e.conds) THEN MeanAll(e.otherwise, hs, s).last
    ELSE LET c == Mean(e.conds[i], hs, s)
         IN  IF c.k # "value" THEN c
             ELSE IF c.v.c # "bool" THEN Stuck("boolean", s)
             ELSE IF c.v.n = 1 THEN Mean(e.thens[i], hs, c)
             ELSE MeanIf(e, i + 1, hs, c)

Mean(e, hs, s) ==
    LET a == MeanAll(IF e.e \in {"lit", "name", "if", "with"} THEN <<>> ELSE e.args, hs, s)
        v(x) == [a.last EXCEPT !.v = x]
    IN
    IF a.last.k # "value" THEN a.last
    ELSE IF Wrong(e, a.vs) # "nothing" THEN Stuck(Wrong(e, a.vs), s)
    ELSE CASE e.e = "lit"   -> v(e.v)
      [] e.e = "name"  ->
            IF e.sym \in DOMAIN s.env THEN v(s.env[e.sym])
            ELSE IF \E i \in Callables : prog[i].sym = e.sym
            THEN v(Val("fun", NumberOf(CHOOSE i \in Callables : prog[i].sym = e.sym), <<>>))
            ELSE IF e.sym \in Symbols("static") THEN Mean(DeclOf("static", e.sym).expr, hs, s)
            ELSE Stuck("name", s)
      [] e.e \in {"op", "wrap"} -> v(Operate(e.f, a.vs))
      [] e.e = "tuple" -> v(Val("tuple", 0, a.vs))
      [] e.e = "struct" ->
            v(Val("tuple", 0, [i \in 1..Len(e.fields) |->
                                  a.vs[CHOOSE j \in 1..Len(e.fields) : FieldNo(e.decl, e.fields[j]) = i]]))
      [] e.e = "variant" -> v(Val("enum", TagOf(e.ctor), a.vs))
      [] e.e = "field" -> v(Strip(a.vs[1], e.derefs).parts[FieldNo(e.decl, e.field)])
      [] e.e = "index" -> v(a.vs[1].parts[e.i])
      [] e.e = "let"   -> [v(Unit) EXCEPT !.env = (e.sym :> a.vs[1]) @@ @]
      [] e.e = "block" -> a.last
      [] e.e = "return" -> [a.last EXCEPT !.k = "return"]
      [] e.e = "resume" -> [a.last EXCEPT !.k = "resume"]
      [] e.e = "const" -> a.last
      [] e.e = "raise" -> Handle(e.control, a.vs, hs, a.last)
      [] e.e = "call"  ->
            LET f == Mean(e.callee, hs, a.last)
                to == Strip(f.v, e.derefs)
            IN  IF f.k # "value" THEN f
                ELSE IF to.c # "fun" THEN Stuck("function", s)
                ELSE Apply(CallableNo(to.n).sym, a.vs, hs, f)
      [] e.e = "if" -> MeanIf(e, 1, hs, s)
      [] e.e = "with" ->
            LET n == Len(e.clauses)
                own == [i \in 1..n |-> [control |-> e.clauses[i].control, params |-> e.clauses[i].params,
                                        body |-> e.clauses[i].body, env |-> s.env, base |-> Len(hs)]]
                o == Mean(e.body, hs \o own, a.last)
            IN  IF o.k = "abort" /\ o.at = Len(hs) THEN [o EXCEPT !.k = "value", !.env = s.env] ELSE o

\* The function main, which takes nothing.
Meaning == Apply("main", <<>>, <<>>, [env |-> <<>>, out |-> <<>>])

=============================================================================
