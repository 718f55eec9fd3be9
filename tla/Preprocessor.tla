---------------------------- MODULE Preprocessor ----------------------------
(***************************************************************************)
(* leaf_preprocessor: macros, conditionals and the functions on tokens.    *)
(*                                                                         *)
(* expand_all reads a list of tokens into another list and starts again on *)
(* that list until a pass changes nothing.  It calls itself for the body   *)
(* of a macro, the condition of an `__if` and the arguments of `__concat`  *)
(* and `__repeat`.  The calls that are under way are the frames of `stack`:*)
(*                                                                         *)
(*   toks, i       the list of the pass and the index in it                *)
(*   res, changed  what the pass has written, and whether it changed       *)
(*                 anything                                                *)
(*   then          what the caller does with the result                    *)
(*                                                                         *)
(* One action per branch of the loop of expand_all.  The maps of macros,   *)
(* of names being expanded and of names given up (`frozen`) belong to the  *)
(* preprocessor and outlive passes and calls.  Every error ends the        *)
(* compiler: pass answers it with todo!().                                 *)
(***************************************************************************)
EXTENDS PPEval, FiniteSets, SequencesExt

CONSTANT Sources   \* the token streams to preprocess

VARIABLES
  source,         \* the tokens handed to pass
  stack,          \* the calls of expand_all, the innermost last
  preprocessors,  \* name -> [params, has_rest_args, body]
  expanding,      \* the object-like names whose bodies are being expanded
  frozen,         \* the names that are left alone for good
  counter,        \* the next value of __counter
  phase           \* "run", "done", or "panic"

vars == <<source, stack, preprocessors, expanding, frozen, counter, phase>>

-----------------------------------------------------------------------------
(* Tokens and where the parts of a directive end. *)

Token(k, s, n, at) == [k |-> k, s |-> s, n |-> n, at |-> at]
Ident(s, at) == Token("id", s, 0, at)
Number(n, at) == Token("int", ToString(n), n, at)

Texts(t) == [i \in DOMAIN t |-> t[i].s]

Least(S, otherwise) == IF S = {} THEN otherwise ELSE Min(S)

Opened(t, i, j) ==
  Cardinality({p \in i..j : t[p].k = "("}) - Cardinality({p \in i..j : t[p].k = ")"})

\* The bracket that closes the one before i, or the end of the list.
Close(t, i) == Least({j \in i..Len(t) : Opened(t, i, j) < 0}, Len(t) + 1)

\* The commas of t[i..j-1] that stand in no further bracket.
Commas(t, i, j) == {p \in i..(j - 1) : t[p].k = "," /\ Opened(t, i, p) = 0}

\* What stands between those commas.
Between(t, cuts) == [n \in 1..(Len(cuts) - 1) |-> SubSeq(t, cuts[n] + 1, cuts[n + 1] - 1)]
Parts(t, i, j) == Between(t, <<i - 1>> \o SetToSortSeq(Commas(t, i, j), <) \o <<j>>)

Ifs(t, i, j) ==
  Cardinality({p \in i..j : t[p].s = "__if"})
    - Cardinality({p \in i..j : t[p].s = "__endif"})

\* The first of the stops that belongs to the `__if` before i.  Texts are
\* compared and kinds are not.
BranchEnd(t, i, stops) ==
  Least({j \in i..Len(t) : t[j].s \in stops /\ Ifs(t, i, j - 1) = 0}, Len(t) + 1)

LineEnd(t, i) == Least({j \in i..Len(t) : t[j].k = "nl"}, Len(t) + 1)

-----------------------------------------------------------------------------
(* A call of a macro. *)

NoDef == [params |-> <<>>, has_rest_args |-> FALSE, body |-> <<>>]

\* `F()` has no argument, any other call one more than commas.
Arguments(t, i, j) == IF i >= j THEN <<>> ELSE Parts(t, i, j)

Separated(args, comma) ==
  FoldLeft(LAMBDA r, n : r \o (IF n > 1 THEN <<comma>> ELSE <<>>) \o args[n],
           <<>>, [n \in DOMAIN args |-> n])

\* The parameters that still have their argument: an argument is moved into
\* the body where its parameter first occurs (arg_map.remove), and a later
\* occurrence of the parameter stays as it is.
Substitute(def, args, rest) ==
  LET b == def.body
      optional(i, j) == IF rest = <<>> THEN <<>> ELSE SubSeq(b, i + 2, j - 1)
      named(i, s) == b[i].k = "id" /\ b[i].s = s
      from[i \in Nat, left \in SUBSET DOMAIN args] ==
        IF i > Len(b) THEN <<>>
        ELSE IF named(i, "__rest_args") /\ def.has_rest_args
          THEN rest \o from[i + 1, left]
        ELSE IF b[i].k = "id" /\ b[i].s \in left
          THEN args[b[i].s] \o from[i + 1, left \ {b[i].s}]
        ELSE IF ~named(i, "__only_has_rest_args")
          THEN <<b[i]>> \o from[i + 1, left]
        ELSE IF Kind(b, i + 1) # "("
          THEN from[i + 1, left]
        ELSE optional(i, Close(b, i + 2)) \o from[Close(b, i + 2) + 1, left]
  IN from[1, DOMAIN args]

\* The parameters after the bracket before j.  `next` is 0 after an error.
\* What follows `...` is taken for the closing bracket.
Parameters(t, first) ==
  LET from[j \in Nat, params \in Seq(STRING)] ==
        CASE Kind(t, j) = ")" -> [params |-> params, rest |-> FALSE, next |-> j + 1]
          [] Kind(t, j) = "..." -> [params |-> params, rest |-> TRUE, next |-> j + 2]
          [] Kind(t, j) \notin {")", "...", "none"} /\ Kind(t, j + 1) = "," ->
               from[j + 2, Append(params, t[j].s)]
          [] Kind(t, j) \notin {")", "...", "none"} /\ Kind(t, j + 1) = ")" ->
               from[j + 1, Append(params, t[j].s)]
          [] OTHER -> [params |-> params, rest |-> FALSE, next |-> 0]
  IN from[first, <<>>]

-----------------------------------------------------------------------------
(* The calls of expand_all. *)

Frame(toks, then) ==
  [toks |-> toks, i |-> 1, res |-> <<>>, changed |-> FALSE, then |-> then]

Top == Last(stack)
Caller == stack[Len(stack) - 1]
Cur == Top.toks[Top.i]

\* The frame f with its index moved to n and `out` written.
Ahead(f, n, out, changed) ==
  [f EXCEPT !.i = n, !.res = @ \o out, !.changed = @ \/ changed]

Advance(n, out, changed) ==
  stack' = Append(Front(stack), Ahead(Top, n, out, changed))

\* Move the index to n and expand `toks` before going on.
CallFrom(frames, n, toks, then) ==
  Append(Append(Front(frames), [Last(frames) EXCEPT !.i = n]), Frame(toks, then))

Call(n, toks, then) == stack' = CallFrom(stack, n, toks, then)

\* Go on with the caller where it stands or from n.
Answer(n, out, changed) ==
  stack' = Append(Front(Front(stack)), Ahead(Caller, n, out, changed))

Panic == phase' = "panic" /\ UNCHANGED stack

Names == <<preprocessors, expanding, frozen>>

-----------------------------------------------------------------------------
(* The branches of the loop. *)

Reading == phase = "run" /\ Top.i <= Len(Top.toks)

IsCall ==
  /\ Cur.k = "id"
  /\ Cur.s \in DOMAIN preprocessors
  /\ Kind(Top.toks, Top.i + 1) = "("

Keywords == {"__define", "__delete", "__panic", "__warning", "__counter", "__eval",
             "__to_string", "__concat", "__if", "__repeat", "__is_defined"}

At(keyword) == Reading /\ ~IsCall /\ Cur.k = "id" /\ Cur.s = keyword

\* A cycle: the name and every name around it are left alone from now on.
GiveUp(name) == frozen' = frozen \union expanding \union {name}

\* The arguments fill the parameters, and are followed by a token if there
\* is room for more.
Fits(def, args, closed, followed) ==
  /\ closed
  /\ IF def.has_rest_args THEN followed /\ Len(args) >= Len(def.params)
     ELSE Len(args) = Len(def.params)

Given(params, args) ==
  [p \in Range(params) |-> args[Max({n \in DOMAIN params : params[n] = p})]]

\* What is left of the arguments, its commas made from the token at after.
Rest(def, args, t, after) ==
  IF ~def.has_rest_args THEN <<>>
  ELSE Separated(SubSeq(args, Len(def.params) + 1, Len(args)), Token(",", ",", 0, t[after].at))

\* A name of a macro before a bracket, which closes before j.  The body
\* replaces the call and is looked at in the next pass.
InvokeWith(name, def, j, args) ==
  LET t == Top.toks
      kept == SubSeq(t, Top.i, j)
  IN \/ /\ ~Fits(def, args, j <= Len(t), j < Len(t))
        /\ Panic /\ UNCHANGED frozen
     \/ /\ Fits(def, args, j <= Len(t), j < Len(t))
        /\ \/ /\ name \in frozen
              /\ Advance(j + 1, kept, FALSE)
              /\ UNCHANGED <<frozen, phase>>
           \/ /\ name \in expanding \ frozen
              /\ GiveUp(name)
              /\ Advance(j + 1, kept, FALSE)
              /\ UNCHANGED phase
           \/ /\ name \notin expanding \union frozen
              /\ Advance(j + 1, Substitute(def, Given(def.params, args), Rest(def, args, t, j + 1)), TRUE)
              /\ UNCHANGED <<frozen, phase>>

Invoke ==
  /\ Reading /\ IsCall
  /\ UNCHANGED <<source, preprocessors, expanding, counter>>
  /\ \E j \in {Close(Top.toks, Top.i + 2)} :
       InvokeWith(Cur.s, preprocessors[Cur.s], j, Arguments(Top.toks, Top.i + 2, j))

\* `__define name(params) body` up to the end of the line, which stays.  The
\* first definition of a name is kept.
Define ==
  LET t == Top.toks
      name == t[Top.i + 1].s
      bracket == Kind(t, Top.i + 2) = "("
      p == IF bracket THEN Parameters(t, Top.i + 3)
           ELSE [params |-> <<>>, rest |-> FALSE, next |-> Top.i + 2]
      end == LineEnd(t, p.next)
      def == [params |-> p.params, has_rest_args |-> p.rest,
              body |-> SubSeq(t, p.next, end - 1)]
      fits == Top.i + 2 <= Len(t) /\ p.next # 0 /\ end <= Len(t)
  IN /\ At("__define")
     /\ UNCHANGED <<source, expanding, frozen, counter>>
     /\ \/ ~fits /\ Panic /\ UNCHANGED preprocessors
        \/ /\ fits
           /\ preprocessors' = preprocessors @@ (name :> def)
           /\ Advance(end, <<>>, FALSE)
           /\ UNCHANGED phase

\* The directives that need the token after them.
Operand == Kind(Top.toks, Top.i + 1) # "none"

Delete ==
  /\ At("__delete")
  /\ UNCHANGED <<source, expanding, frozen, counter>>
  /\ \/ ~Operand /\ Panic /\ UNCHANGED preprocessors
     \/ /\ Operand
        /\ preprocessors' =
             Restrict(preprocessors, DOMAIN preprocessors \ {Top.toks[Top.i + 1].s})
        /\ Advance(Top.i + 2, <<>>, FALSE)
        /\ UNCHANGED phase

UserPanic == At("__panic") /\ Panic /\ UNCHANGED <<source, Names, counter>>

Warn ==
  /\ At("__warning")
  /\ UNCHANGED <<source, Names, counter>>
  /\ IF Operand THEN Advance(Top.i + 2, <<>>, FALSE) /\ UNCHANGED phase ELSE Panic

\* A new number does not count as a change.
Count ==
  /\ At("__counter")
  /\ Advance(Top.i + 1, <<Number(counter, Cur.at)>>, FALSE)
  /\ counter' = counter + 1
  /\ UNCHANGED <<source, Names, phase>>

\* The operand is evaluated as it stands, before any name in it is expanded.
Evaluate ==
  LET t == Top.toks
      j == Close(t, Top.i + 2)
  IN /\ At("__eval")
     /\ UNCHANGED <<source, Names, counter>>
     /\ \E r \in {Eval(SubSeq(t, Top.i + 2, j - 1))} :
          IF Failed(r) THEN Panic
          ELSE Advance(j + 1, <<Number(r.v, t[Top.i + 2].at)>>, FALSE) /\ UNCHANGED phase

Stringify ==
  LET t == Top.toks
      j == Close(t, Top.i + 2)
      arg == SubSeq(t, Top.i + 2, j - 1)
  IN /\ At("__to_string")
     /\ UNCHANGED <<source, Names, counter>>
     /\ IF Len(arg) # 1 \/ Kind(arg, 1) # "id" THEN Panic
        ELSE /\ Advance(j + 1, <<Token("str", arg[1].s, 0, Cur.at)>>, TRUE)
             /\ UNCHANGED phase

\* The parts are expanded one after the other and their texts joined; a last
\* one that is empty or not closed is left out.
Concat ==
  /\ At("__concat")
  /\ UNCHANGED <<source, Names, counter, phase>>
  /\ \E j \in {Close(Top.toks, Top.i + 2)} :
     \E parts \in {Parts(Top.toks, Top.i + 2, j)} :
     \E given \in {IF j > Len(Top.toks) \/ Last(parts) = <<>> THEN Front(parts) ELSE parts} :
       IF given = <<>> THEN Advance(j + 1, <<Ident("", Cur.at)>>, TRUE)
       ELSE Call(j + 1, Head(given),
                 [k |-> "concat", left |-> Tail(given), text |-> "", at |-> Cur.at])

\* `__if` and, for a branch that is not taken, `__elif`: the condition is the
\* rest of the line.
IfFrom(frames, i) ==
  LET t == Last(frames).toks
      end == LineEnd(t, i)
  IN CallFrom(frames, end + 1, SubSeq(t, i, end - 1), [k |-> "if"])

If ==
  /\ At("__if")
  /\ stack' = IfFrom(stack, Top.i + 1)
  /\ UNCHANGED <<source, Names, counter, phase>>

\* `__repeat(times, body)`: first the times.
Repeat ==
  LET t == Top.toks
      j == Close(t, Top.i + 2)
      e == Least(Commas(t, Top.i + 2, j), j)
  IN /\ At("__repeat")
     /\ Call(IF e < j THEN e + 1 ELSE e, SubSeq(t, Top.i + 2, e - 1), [k |-> "times"])
     /\ UNCHANGED <<source, Names, counter, phase>>

\* The name that is asked for stays in the list and is read next.
IsDefined ==
  LET asked == Top.toks[Top.i + 1]
  IN /\ At("__is_defined")
     /\ UNCHANGED <<source, Names, counter>>
     /\ IF ~Operand THEN Panic
        ELSE /\ Advance(Top.i + 1,
                        <<Number(Bit(asked.s \in DOMAIN preprocessors), asked.at)>>, FALSE)
             /\ UNCHANGED phase

-----------------------------------------------------------------------------
(* expand_one: any other token.  It is looked up by its text, whatever its *)
(* kind.                                                                   *)

Other == Reading /\ ~IsCall /\ ~(Cur.k = "id" /\ Cur.s \in Keywords)

Copy ==
  /\ Other
  /\ Cur.s \notin DOMAIN preprocessors \ frozen
  /\ Advance(Top.i + 1, <<Cur>>, FALSE)
  /\ UNCHANGED <<source, Names, counter, phase>>

Freeze ==
  /\ Other
  /\ Cur.s \in (DOMAIN preprocessors \intersect expanding) \ frozen
  /\ GiveUp(Cur.s)
  /\ Advance(Top.i + 1, <<Cur>>, FALSE)
  /\ UNCHANGED <<source, preprocessors, expanding, counter, phase>>

\* Faulty: a name is expanded inside its own expansion.
ExpandableAgain == Cur.s \in DOMAIN preprocessors \ frozen

Expandable == Cur.s \in DOMAIN preprocessors \ (expanding \union frozen)

Enter ==
  LET body == preprocessors[Cur.s].body
  IN /\ Other
     /\ Expandable
     /\ UNCHANGED <<source, preprocessors, frozen, counter, phase>>
     /\ \/ /\ body = <<>>
           /\ Advance(Top.i + 1, <<>>, TRUE)
           /\ UNCHANGED expanding
        \/ /\ body # <<>>
           /\ Call(Top.i, body, [k |-> "name"])
           /\ expanding' = expanding \union {Cur.s}

-----------------------------------------------------------------------------
(* The end of a pass, and of a call. *)

PassEnds == phase = "run" /\ Top.i > Len(Top.toks)

\* Faulty: one pass is taken to be enough.
SettledAtOnce == TRUE

\* Faulty: a pass that writes what it read still counts as a change.
SettledUnchanged == ~Top.changed

Settled == ~Top.changed \/ Top.res = Top.toks

Returns(k) == PassEnds /\ Settled /\ Top.then.k = k

Again ==
  /\ PassEnds /\ ~Settled
  /\ stack' = Append(Front(stack), Frame(Top.res, Top.then))
  /\ UNCHANGED <<source, Names, counter, phase>>

Finish ==
  /\ Returns("main")
  /\ phase' = "done"
  /\ UNCHANGED <<source, stack, Names, counter>>

\* Faulty: the name stays among those being expanded.
ExpandedStays ==
  LET token == Caller.toks[Caller.i]
  IN /\ Returns("name")
     /\ Answer(Caller.i + 1, Top.res, Top.res # <<token>>)
     /\ UNCHANGED <<source, Names, counter, phase>>

Expanded ==
  LET token == Caller.toks[Caller.i]
  IN /\ Returns("name")
     /\ expanding' = expanding \ {token.s}
     /\ Answer(Caller.i + 1, Top.res, Top.res # <<token>>)
     /\ UNCHANGED <<source, preprocessors, frozen, counter, phase>>

Concatenated ==
  LET then == Top.then
      text == FoldLeft(LAMBDA x, token : x \o token.s, then.text, Top.res)
  IN /\ Returns("concat")
     /\ IF then.left = <<>> THEN Answer(Caller.i, <<Ident(text, then.at)>>, TRUE)
        ELSE stack' = Append(Front(stack),
                             Frame(Head(then.left),
                                   [then EXCEPT !.left = Tail(@), !.text = text]))
     /\ UNCHANGED <<source, Names, counter, phase>>

\* The branch of process_if once its condition is known.  The tokens of the
\* branch are written as they are: the next pass reads them.
Branch(cond, t, i, e) ==
  LET endif(n) == BranchEnd(t, n, {"__endif"})
      ends(keyword) == e <= Len(t) /\ t[e].s = keyword
  IN \/ Failed(cond) /\ Panic
     \/ /\ ~Failed(cond) /\ cond.v > 0
        /\ Answer(endif(e) + 1, SubSeq(t, i, e - 1), TRUE)
        /\ UNCHANGED phase
     \/ /\ ~Failed(cond) /\ cond.v <= 0
        /\ \/ e > Len(t) /\ Panic
           \/ /\ ends("__endif")
              /\ Answer(e + 1, <<>>, TRUE)
              /\ UNCHANGED phase
           \/ /\ ends("__elif")
              /\ stack' = IfFrom(Front(stack), e + 1)
              /\ UNCHANGED phase
           \/ /\ ends("__else")
              /\ \E last \in {endif(e + 1)} : Answer(last + 1, SubSeq(t, e + 1, last - 1), TRUE)
              /\ UNCHANGED phase

Decided ==
  /\ Returns("if")
  /\ UNCHANGED <<source, Names, counter>>
  /\ \E cond \in {Eval(Top.res)} :
     \E e \in {BranchEnd(Caller.toks, Caller.i, {"__endif", "__elif", "__else"})} :
       Branch(cond, Caller.toks, Caller.i, e)

\* The times of `__repeat` are known; the body ends at the closing bracket.
RepeatBody(times, body, after) ==
  \/ (Failed(times) \/ times.v < 0) /\ Panic
  \/ /\ ~Failed(times) /\ times.v = 0
     /\ Answer(after, <<>>, TRUE)
     /\ UNCHANGED phase
  \/ /\ ~Failed(times) /\ times.v > 0
     /\ stack' = CallFrom(Front(stack), after, body, [k |-> "repeat", left |-> times.v - 1, body |-> body])
     /\ UNCHANGED phase

Timed ==
  /\ Returns("times")
  /\ UNCHANGED <<source, Names, counter>>
  /\ \E times \in {Eval(Top.res)} : \E j \in {Close(Caller.toks, Caller.i)} :
       RepeatBody(times, SubSeq(Caller.toks, Caller.i, j - 1), j + 1)

Repeated ==
  LET then == Top.then
      caller == Ahead(Caller, Caller.i, Top.res, TRUE)
  IN /\ Returns("repeat")
     /\ stack' = IF then.left = 0 THEN Append(Front(Front(stack)), caller)
                 ELSE Append(Append(Front(Front(stack)), caller),
                             Frame(then.body, [then EXCEPT !.left = @ - 1]))
     /\ UNCHANGED <<source, Names, counter, phase>>

-----------------------------------------------------------------------------

\* pre_definitions: the names every stream starts with, here those of a
\* build for Linux on 64 bits.
PreDefines ==
  LET means(n) == [NoDef EXCEPT !.body = <<Number(n, 0)>>]
  IN ("__linux" :> means(1)) @@ ("__target_pointer_width" :> means(64))
       @@ ("version" :> means(1))

Init ==
  /\ source \in Sources
  /\ stack = <<Frame(source, [k |-> "main"])>>
  /\ preprocessors = PreDefines
  /\ expanding = {}
  /\ frozen = {}
  /\ counter = 0
  /\ phase = "run"

Read ==
  \/ Invoke \/ Define \/ Delete \/ UserPanic \/ Warn \/ Count \/ Evaluate
  \/ Stringify \/ Concat \/ If \/ Repeat \/ IsDefined
  \/ Copy \/ Freeze \/ Enter

Return == Finish \/ Expanded \/ Concatenated \/ Decided \/ Timed \/ Repeated

Next == Read \/ Again \/ Return

\* expand_all does not pause: while a stream is being read, there is a next
\* step.  (This is WF_vars(Next), since Next is enabled as long as the phase
\* is "run"; TLC would evaluate ENABLED Next by far more slowly.)
Fairness == []<>(phase # "run") \/ []<><<Next>>_vars

Spec == Init /\ [][Next]_vars /\ Fairness

-----------------------------------------------------------------------------
(* The calls that wait for the body of a name, and the name. *)

Waits(st) == {k \in 1..(Len(st) - 1) : st[k + 1].then.k = "name"}
NameAt(st, k) == st[k].toks[st[k].i].s
Open(st) == {NameAt(st, k) : k \in Waits(st)}

\* A name is being expanded if and only if a call waits for its body, and then
\* one call only.  (expand_one puts the name into `expanding` before it calls
\* expand_all for the body and takes it out afterwards; the passes that start
\* again, the conditions and arguments expanded in between and the names given up
\* inside must neither leave one behind nor begin an expansion within itself.)
OpenNames ==
  /\ expanding = Open(stack)
  /\ \A j, k \in Waits(stack) : NameAt(stack, j) = NameAt(stack, k) => j = k
=============================================================================
