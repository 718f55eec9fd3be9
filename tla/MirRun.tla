------------------------------- MODULE MirRun -------------------------------
(***************************************************************************)
(* The checking and the lowering of a program followed by a run of what    *)
(* was built, against what the program means.  A step of the run is a      *)
(* block: its statements and its terminator.  A program that is rejected,  *)
(* known to be accepted unseen (tc.loose), without a meaning, or known to  *)
(* be lowered to something else (low.astray) is set aside.                 *)
(***************************************************************************)
EXTENDS SourceMeaning, TypeInference

CONSTANTS Plain       \* the programs in which nothing may go astray

VARIABLES frames,     \* the calls in progress
          handlers,   \* the handlers in place, the innermost last
          susp,       \* the raises whose handlers run
          said,       \* history: the calls of external functions
          outcome,    \* [k, v], of kind "none" at first
          meaning     \* history: what the program means

runVars == <<frames, handlers, susp, said, outcome, meaning>>
compiler == <<prog, checking, tc, next, low>>
vars == <<prog, checking, tc, next, low, frames, handlers, susp, said, outcome, meaning>>

Unset == Val("unset", 0, <<>>)
OutcomeOf(k, v) == [k |-> k, v |-> v]

RInit ==
    /\ prog \in Programs
    /\ InferInit
    /\ Init
    /\ frames = <<>> /\ handlers = <<>> /\ susp = <<>> /\ said = <<>>
    /\ outcome = OutcomeOf("none", Unit)
    /\ \E m \in {Meaning} : meaning = [k |-> m.k, v |-> m.v, out |-> m.out]

Waiting == frames = <<>> /\ outcome.k = "none"

CheckStep == ~Checked /\ CheckNext /\ UNCHANGED lowVars /\ UNCHANGED runVars

Sound == Accepted /\ tc.loose = {} /\ meaning.k # "stuck"

LowerStep == Sound /\ LowerNext /\ UNCHANGED inferVars /\ UNCHANGED runVars

Frame(f, args, dest, target) ==
    [fun |-> f, block |-> low.funs[f].blocks[1], dest |-> dest, target |-> target, args |-> <<>>,
     locals |-> [l \in 1..low.funs[f].size |->
                    IF l = 1 THEN Unit ELSE IF l - 1 <= Len(args) THEN args[l - 1] ELSE Unset]]

Reject ==
    /\ Waiting
    /\ \/ Checked /\ ~Sound
       \/ Lowered /\ (~low.ok \/ low.astray # {})
    /\ outcome' = OutcomeOf("rejected", Unit)
    /\ UNCHANGED <<compiler, frames, handlers, susp, said, meaning>>

Begin ==
    /\ Waiting /\ Sound /\ Lowered
    /\ low.ok /\ low.astray = {}
    /\ frames' = <<Frame(low.fnOf["main"], <<>>, 1, 1)>>
    /\ UNCHANGED <<compiler, handlers, susp, said, outcome, meaning>>

-----------------------------------------------------------------------------
(* A block. *)

ValueOf(p, locals) ==
    LET V[n \in 0..Len(p.path)] ==
            IF n = 0 THEN locals[p.root]
            ELSE LET prev == V[n - 1]
                     i == IF p.path[n].s = "deref" THEN 1 ELSE p.path[n].i
                 IN  IF i \in 1..Len(prev.parts) THEN prev.parts[i] ELSE Unset
    IN  IF p = NoPlace THEN Unit ELSE V[Len(p.path)]

RvalueOf(rv, locals, args) ==
    LET vs == [i \in 1..Len(rv.args) |-> ValueOf(rv.args[i], locals)]
    IN  IF \E i \in 1..Len(vs) : vs[i] = Unset THEN Unset
        ELSE CASE rv.op = "const"   -> rv.v
               [] rv.op = "arg"     -> IF rv.v.n <= Len(args) THEN args[rv.v.n] ELSE Unset
               [] rv.op = "tuple"   -> Val("tuple", 0, vs)
               [] rv.op = "variant" -> [rv.v EXCEPT !.parts = IF vs = <<>> THEN <<Unit>> ELSE vs]
               [] OTHER             -> Operate(rv.op, vs)

Top == Len(frames)
F == frames[Top]
Code == low.blocks[F.block]

\* The locals after the statements, <<>> if one has no value.
Locals ==
    LET L[n \in 0..Len(Code.stmts)] ==
            IF n = 0 THEN F.locals
            ELSE LET prev == L[n - 1]
                     v == RvalueOf(Code.stmts[n].rv, prev, F.args)
                 IN  IF prev = <<>> \/ v = Unset THEN <<>>
                     ELSE [prev EXCEPT ![Code.stmts[n].local] = v]
    IN  L[Len(Code.stmts)]

Running == outcome.k = "none" /\ frames # <<>>
At(t) == Code.term.t = t

ArgsOf(places, locals) == [i \in 1..Len(places) |-> ValueOf(places[i], locals)]
Continue(b, locals) == [frames EXCEPT ![Top].block = b, ![Top].locals = locals]
Quiet == UNCHANGED <<compiler, said, outcome, meaning>>

RunGoto(locals) ==
    /\ At("goto")
    /\ LET t == Code.term
           prm == low.blocks[t.target].params
       IN  frames' = Continue(t.target,
                              IF t.args # <<>> /\ prm # <<>>
                              THEN [locals EXCEPT ![prm[1]] = ValueOf(t.args[1], locals)] ELSE locals)
    /\ handlers' = SubSeq(handlers, 1, Len(handlers) - Code.term.leave)
    /\ susp' = IF Code.term.abort THEN SubSeq(susp, 1, susp[Len(susp)].below) ELSE susp
    /\ Quiet

RunSwitch(locals) ==
    /\ At("switch")
    /\ LET t == Code.term
       IN  frames' = Continue(IF ValueOf(t.place, locals).n = 1 THEN t.yes ELSE t.no, locals)
    /\ UNCHANGED <<handlers, susp>> /\ Quiet

\* Otherwise, as at a value never given or a block never filled, the run
\* stops: a deadlock.
Callable(f) ==
    /\ f \in 1..Len(low.funs)
    /\ ~low.funs[f].external => Len(Code.term.args) = Len(low.funs[f].params)

RunCall(f, locals) ==
    /\ Callable(f)
    /\ ~low.funs[f].external
    /\ frames' = Append(Continue(F.block, locals),
                        Frame(f, ArgsOf(Code.term.args, locals), Code.term.dest, Code.term.target))
    /\ UNCHANGED <<handlers, susp>> /\ Quiet

RunExternal(f, locals) ==
    /\ Callable(f)
    /\ low.funs[f].external
    /\ said' = Append(said, [to |-> low.funs[f].sym, vs |-> ArgsOf(Code.term.args, locals)])
    /\ frames' = Continue(Code.term.target, [locals EXCEPT ![Code.term.dest] = Unit])
    /\ UNCHANGED <<compiler, handlers, susp, outcome, meaning>>

RunAnyCall(locals) ==
    /\ At("call")
    /\ LET t == Code.term IN
       \E f \in {IF t.place = NoPlace THEN t.fun ELSE ValueOf(t.place, locals).n} :
           RunCall(f, locals) \/ RunExternal(f, locals)

RunReturn(locals) ==
    /\ At("return") /\ Top > 1
    /\ frames' = [SubSeq(frames, 1, Top - 1) EXCEPT ![Top - 1].locals[F.dest] = locals[1],
                                                    ![Top - 1].block = F.target]
    /\ UNCHANGED <<handlers, susp>> /\ Quiet

RunEnd(locals) ==
    /\ At("return") /\ Top = 1
    /\ outcome' = OutcomeOf("value", locals[1])
    /\ UNCHANGED <<compiler, frames, handlers, susp, said, meaning>>

-----------------------------------------------------------------------------
(* Effects.  MIR says where a handler begins; the ghosts of MirLower say   *)
(* where it ends and where a raise is resumed.                             *)

RunInstall(locals) ==
    /\ At("install")
    /\ LET t == Code.term IN
       /\ handlers' = Append(handlers, [control |-> t.control, block |-> t.handler, depth |-> Top,
                                        base |-> Len(handlers) + 1 - t.nth, below |-> Len(susp)])
       /\ frames' = Continue(t.target, locals)
    /\ UNCHANGED susp /\ Quiet

Mine == {i \in 1..Len(handlers) : handlers[i].control = Code.term.control}

\* The handler runs in the call that installed it; those above wait.
RunRaise(locals) ==
    /\ At("raise")
    /\ \E i \in Mine :
          LET h == handlers[i] IN
          /\ \A j \in Mine : j <= i
          /\ susp' = Append(susp, [frames |-> Continue(Code.term.after, locals), handlers |-> handlers,
                                   dest |-> Code.term.dest, below |-> h.below])
          /\ frames' = [SubSeq(Continue(F.block, locals), 1, h.depth) EXCEPT
                           ![h.depth].block = h.block, ![h.depth].args = ArgsOf(Code.term.args, locals)]
          /\ handlers' = SubSeq(handlers, 1, h.base)
    /\ Quiet

RunUnhandled ==
    /\ At("raise") /\ Mine = {}
    /\ outcome' = OutcomeOf("unhandled", Unit)
    /\ UNCHANGED <<compiler, frames, handlers, susp, said, meaning>>

\* Back to where the raise was, with what the handler's call has by now.
RunResume(locals) ==
    /\ At("resume") /\ susp # <<>>
    /\ LET s == susp[Len(susp)] IN
       /\ frames' = [[s.frames EXCEPT ![Top].locals = locals] EXCEPT
                        ![Len(s.frames)].locals[s.dest] = locals[Code.term.local]]
       /\ handlers' = s.handlers
    /\ susp' = SubSeq(susp, 1, Len(susp) - 1)
    /\ Quiet

Run ==
    /\ Running
    /\ \E locals \in {Locals} :
          /\ locals # <<>>
          /\ \/ RunGoto(locals) \/ RunSwitch(locals) \/ RunAnyCall(locals) \/ RunReturn(locals)
             \/ RunEnd(locals) \/ RunInstall(locals) \/ RunRaise(locals) \/ RunUnhandled \/ RunResume(locals)

Done == outcome.k # "none" /\ UNCHANGED vars

RNext == CheckStep \/ LowerStep \/ Reject \/ Begin \/ Run \/ Done

Spec == RInit /\ [][RNext]_vars

-----------------------------------------------------------------------------
\* The run of an accepted program says what the program says, in its order,
\* and ends with its value: the blocks of compile_expr, start_block and
\* set_terminator keep every statement of every path and its place in it,
\* and a name, a field and a function stand for what they stood for.
Promised == INSTANCE PromisedRun WITH promise <- meaning
KeepsItsPromise == Promised!Spec

\* A program the checker accepted, comparing all there is, is never without a
\* meaning but for arithmetic: every value is what the place it is used in
\* needs, however far it has come, through calls, handlers and resumes.
AcceptedIsNotStuck ==
    Accepted /\ tc.loose = {} /\ meaning.k = "stuck" => meaning.v.c = "number"

\* The value of main has the type that was found for it.
ResultHasItsType ==
    Accepted /\ tc.loose = {} /\ next = 1 /\ meaning.k = "value" =>
        \E t \in {Root(tc.decls["main"].body, tc)} : HasType(meaning.v, t.args[Len(t.args)], tc)

\* Programs with each `with` at the start of a block, each `resume` at the
\* end of a clause, calls only of functions already declared, fields in the
\* order of their declaration and no constant expressions are accepted, and
\* nothing of them goes astray, however deep these are nested.
PlainIsKept ==
    \/ /\ low.ok /\ low.astray = {}
       /\ Checked => Accepted /\ tc.loose = {}
    \/ prog \notin Plain

\* The blocks of a function are its own: control never leaves them but by a
\* call or a return, no path from its entry or from a handler ends in a block
\* never filled, and every jump gives its target the arguments it takes.
Targets(t) ==
    CASE t.t = "goto"    -> {t.target}
      [] t.t = "switch"  -> {t.yes, t.no}
      [] t.t = "call"    -> {t.target}
      [] t.t = "install" -> {t.target, t.handler}
      [] t.t = "raise"   -> {t.after}
      [] t.t = "resume"  -> {t.target}
      [] OTHER           -> {}

Reached(f) ==
    LET R[n \in 0..Len(f.blocks)] ==
            IF n = 0 THEN {f.blocks[1]}
            ELSE LET prev == R[n - 1] IN prev \cup UNION {Targets(low.blocks[b].term) : b \in prev}
    IN  R[Len(f.blocks)]

BlocksAreClosed ==
    low.ok /\ low.astray = {} =>
        \A i \in 1..Len(low.funs) :
            LET f == low.funs[i] IN
            f.blocks # <<>> =>
                \A b \in Reached(f) :
                    /\ \E j \in 1..Len(f.blocks) : f.blocks[j] = b
                    /\ low.blocks[b].term = Unreachable => f.never
                    /\ \A s \in 1..Len(low.blocks[b].stmts) : low.blocks[b].stmts[s].local <= f.size
                    /\ low.blocks[b].term.t = "goto" =>
                          Len(low.blocks[low.blocks[b].term.target].params) <= Len(low.blocks[b].term.args)

=============================================================================
