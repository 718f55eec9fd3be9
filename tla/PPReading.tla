----------------------------- MODULE PPReading -----------------------------
(***************************************************************************)
(* What a stream of tokens means when it is read once from left to right:  *)
(* a directive takes effect where it stands, and what replaces a call, a   *)
(* name or a conditional is read in its place at once.  The preprocessor   *)
(* reads in passes instead.  Tidy are the streams for which both must come *)
(* to the same.                                                            *)
(***************************************************************************)
EXTENDS Preprocessor

CONSTANT Tidy
ASSUME TidyAssumption == Tidy \subseteq Sources

-----------------------------------------------------------------------------
(* The value of an expression: it is split at the last operator of the     *)
(* weakest kind it has.  <<>> is no value.                                 *)

Weakest(e) ==
  LET binary(ops) == {p \in 2..(Len(e) - 1) : e[p].k \in ops /\ e[p - 1].k = "int"}
      levels == <<{"or"}, {"and"}, Comparisons, {"+", "-"}, {"*", "/"}>>
      used == {n \in DOMAIN levels : binary(levels[n]) # {}}
  IN IF used = {} THEN 0 ELSE Max(binary(levels[Min(used)]))

Combine(op, a, b) ==
  CASE op = "or" -> <<Bit(a # 0 \/ b # 0)>>
    [] op = "and" -> <<Bit(a # 0 /\ b # 0)>>
    [] op \in Comparisons -> <<Bit(Compare(op, a, b))>>
    [] op = "+" -> <<a + b>>
    [] op = "-" -> <<a - b>>
    [] op = "*" -> <<a * b>>
    [] op = "/" -> IF b = 0 THEN <<>> ELSE <<Quotient(a, b)>>

RECURSIVE Value(_)
Value(e) ==
  IF Len(e) = 1 /\ e[1].k = "int" THEN <<e[1].n>>
  ELSE IF Weakest(e) # 0
    THEN LET p == Weakest(e)
             left == Value(SubSeq(e, 1, p - 1))
             right == Value(SubSeq(e, p + 1, Len(e)))
         IN IF left = <<>> \/ right = <<>> THEN <<>>
            ELSE Combine(e[p].k, left[1], right[1])
  ELSE IF Kind(e, 1) = "-"
    THEN LET v == Value(Tail(e)) IN IF v = <<>> THEN <<>> ELSE <<-v[1]>>
  ELSE <<>>

-----------------------------------------------------------------------------
(* The reading.  m is what is known so far: the tokens out, the macros, the *)
(* next number and whether all is well.                                     *)

\* The body of a macro with every parameter replaced by its argument.
Replaced(def, args) ==
  LET rest == Separated(SubSeq(args, Len(def.params) + 1, Len(args)),
                        Token(",", ",", 0, 0))
      dropped(i) == \E o \in 1..i :
                      /\ def.body[o].s = "__only_has_rest_args"
                      /\ i <= Close(def.body, o + 2)
                      /\ rest = <<>> \/ i \in {o, o + 1, Close(def.body, o + 2)}
      meaning(i) == IF dropped(i) THEN <<>>
                    ELSE IF def.has_rest_args /\ def.body[i].s = "__rest_args" THEN rest
                    ELSE IF def.body[i].s \in Range(def.params)
                      THEN args[CHOOSE n \in DOMAIN def.params :
                                  def.params[n] = def.body[i].s]
                    ELSE <<def.body[i]>>
  IN FlattenSeq([i \in DOMAIN def.body |-> meaning(i)])

RECURSIVE Means(_, _), Joined(_, _)

\* The texts of the arguments of `__concat`, each read on its own.
Joined(parts, m) ==
  FoldLeft(LAMBDA x, part :
             FoldLeft(LAMBDA y, token : y \o token.s, x,
                      Means(part, [m EXCEPT !.out = <<>>]).out),
           "", parts)

Means(t, m) ==
  LET h == t[1]
      keyword == IF h.k = "id" THEN h.s ELSE ""
      j == Close(t, 3)
      inner == SubSeq(t, 3, j - 1)
      from(i) == SubSeq(t, i, Len(t))
      wrong == [m EXCEPT !.ok = FALSE]
      emit(token, i) == Means(from(i), [m EXCEPT !.out = Append(@, token)])
      line == LineEnd(t, 2)
      cond == Means(SubSeq(t, 2, line - 1), [m EXCEPT !.out = <<>>])
      e == BranchEnd(t, line + 1, {"__endif", "__elif", "__else"})
      endif == BranchEnd(t, e + 1, {"__endif"})
      after == IF Kind(t, e) # "none" /\ t[e].s = "__endif" THEN from(e + 1)
               ELSE from(endif + 1)
  IN
  IF t = <<>> \/ ~m.ok THEN m ELSE
  CASE keyword = "__define" ->
         LET bracket == Kind(t, 3) = "("
             p == IF bracket THEN Parameters(t, 4)
                  ELSE [params |-> <<>>, rest |-> FALSE, next |-> 3]
             def == [params |-> p.params, has_rest_args |-> p.rest,
                     body |-> SubSeq(t, p.next, line - 1)]
         IN Means(from(line), [m EXCEPT !.defs = @ @@ (t[2].s :> def)])
    [] keyword = "__delete" ->
         Means(from(3), [m EXCEPT !.defs = Restrict(@, DOMAIN @ \ {t[2].s})])
    [] keyword = "__panic" -> wrong
    [] keyword = "__warning" -> Means(from(3), m)
    [] keyword = "__counter" ->
         Means(from(2), [m EXCEPT !.out = Append(@, Number(m.n, 0)), !.n = @ + 1])
    [] keyword = "__eval" ->
         IF Value(inner) = <<>> THEN wrong
         ELSE emit(Number(Value(inner)[1], 0), j + 1)
    [] keyword = "__to_string" ->
         emit(Token("str", inner[1].s, 0, 0), j + 1)
    [] keyword = "__concat" ->
         Means(<<Ident(Joined(Parts(t, 3, j), m), 0)>> \o from(j + 1), m)
    [] keyword = "__repeat" ->
         LET comma == Min(Commas(t, 3, j))
             times == Value(Means(SubSeq(t, 3, comma - 1), [m EXCEPT !.out = <<>>]).out)
             body == SubSeq(t, comma + 1, j - 1)
         IN IF times = <<>> \/ (times # <<>> /\ times[1] < 0) THEN wrong
            ELSE Means(FlattenSeq([n \in 1..times[1] |-> body]) \o from(j + 1), m)
    [] keyword = "__is_defined" ->
         emit(Number(Bit(t[2].s \in DOMAIN m.defs), 0), 3)
    [] keyword = "__if" ->
         IF ~cond.ok \/ Value(cond.out) = <<>> THEN wrong
         ELSE IF Value(cond.out)[1] > 0
           THEN Means(SubSeq(t, line + 1, e - 1) \o after, m)
         ELSE IF e > Len(t) THEN wrong
         ELSE IF t[e].s = "__elif" THEN Means(<<h>> \o from(e + 1), m)
         ELSE IF t[e].s = "__else" THEN Means(SubSeq(t, e + 1, endif - 1) \o after, m)
         ELSE Means(after, m)
    [] h.k = "id" /\ h.s \in DOMAIN m.defs ->
         LET def == m.defs[h.s]
             args == Arguments(t, 3, j)
             count == Len(def.params)
             called == Kind(t, 2) = "("
         IN IF ~called THEN Means(def.body \o from(2), m)
            ELSE IF j > Len(t) \/ Len(args) < count
                      \/ (Len(args) > count /\ ~def.has_rest_args) THEN wrong
            ELSE Means(Replaced(def, args) \o from(j + 1), m)
    [] OTHER -> emit(h, 2)

Meaning(t) ==
  Means(t, [out |-> <<>>, defs |-> PreDefines, n |-> 0, ok |-> TRUE])

-----------------------------------------------------------------------------
(* Properties. *)

Shown(t) == [i \in DOMAIN t |-> <<t[i].k, t[i].s>>]

\* Reading in passes is reading once from left to right: for a tidy stream
\* the preprocessor ends with the tokens of its meaning, and with an error
\* only where the meaning has one.  (expand_all starts again while anything
\* changed, and must neither stop a pass too early nor read in a later pass
\* what belonged to an earlier one.)
Agrees ==
  phase # "run" /\ source \in Tidy =>
    LET m == Meaning(source)
    IN /\ m.ok = (phase = "done")
       /\ phase = "done" => Shown(Top.res) = Shown(m.out)

\* The bodies of the definitions of the stream, each cut at the end of its
\* line, and the names each name leads to.
Defined(n) == {i \in DOMAIN source : /\ source[i].s = n
                                     /\ i > 1 /\ source[i - 1].s = "__define"}
Mentions(n) == {source[p].s : p \in UNION {(i + 1)..(LineEnd(source, i) - 1) : i \in Defined(n)}}

RECURSIVE LeadsTo(_, _)
LeadsTo(known, new) ==
  IF new \subseteq known THEN known
  ELSE LeadsTo(known \union new, UNION {Mentions(n) : n \in new})
Reach(n) == LeadsTo({}, Mentions(n))

\* No macro makes names or macros: its body would not show what it leads to.
AsWritten ==
  \A i, j \in DOMAIN source :
    source[i].s = "__define" /\ i < j /\ j < LineEnd(source, i)
      => source[j].s \notin {"__define", "__concat"}

\* A name is given up only if its body leads to a name that leads to itself.
\* (`frozen` is filled from all of `expanding` and never emptied: a name left
\* behind in `expanding` would freeze macros that have nothing to do with a
\* cycle, for the rest of the stream.)
OnlyCyclesFreeze ==
  AsWritten => \A n \in frozen : \E c \in Reach(n) \union {n} : c \in Reach(c)

\* The streams in which a macro that is called leads back to itself.  Such
\* cycles are not recognised: a call is replaced by its body without being
\* expanded, and has left `expanding` when the next pass meets the body.
\* Two macros that call each other alternate for ever.  Only a body that is
\* nothing but the call itself comes to rest, as the pass writes what it read.
OnlyItself(n) ==
  \A i \in Defined(n) :
    Texts(SubSeq(source, i + 1, LineEnd(source, i) - 1)) = <<n, "(", ")">>

CallsLeadBack ==
  \E i \in 1..(Len(source) - 1) :
    LET n == source[i].s
    IN source[i + 1].k = "(" /\ n \in Reach(n) /\ ~OnlyItself(n)

\* Every other stream comes to an end: cycles of names are cut by `frozen`,
\* and the passes stop when they have nothing more to do.
Ends == ~CallsLeadBack => <>(phase # "run")
=============================================================================
