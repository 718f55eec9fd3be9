# leafc in TLA+

leafc compiles Leaf, a small functional language with algebraic data types,
pattern matching, compile-time evaluation and effects (`with ... catch`,
`raise`, `resume`), to C.  It is a sequential Rust program: there are no threads
and no messages.  What makes it hard is elsewhere.  Its passes are fixpoints,
recursions over matrices, and an interpreter that rewrites the program it is
running; each keeps state (stacks, worklists, tables of blocks, lists of
handlers) that a later step trusts.  The programs it compiles do have unusual
control flow: a raise leaves the frames of its callers suspended and a resume
goes back into them.

The modules here model such passes, check them on small programs, compare each
of them with an independent definition of what it should compute, and prove what
users rely on without testing it: what the lifetime checker accepts does not use
moved values, and it rejects exactly what its equations reject; the blocks of a
file are as deep as its lines are indented; no sequence of unifications makes a
type contain itself, types found equal stay equal, and unification is most
general; the stack of the compile-time evaluator stays a chain of calls through
every raise and resume; and, on named conditions, what it evaluates is what the
crate computes at run time and its rewriting changes no function.

Source paths are below `src/leaf/`; `lib.rs` of a pass is `leaf_<pass>/src/lib.rs`.
PROJECT.json maps every definition to the lines it stands for.

## The system

A project of crates goes through these passes, in this order.  Each takes the
result of the one before and reports to a collector of diagnostics.  At this
commit the front is being rewritten: the parser emits events for a new tree,
the passes behind it still take the old one, and `check`, `build` and the queries
of the driver are `todo!()`.  A pass is modelled from its own code; where the
missing driver matters (is HIR lowering run after an error of the name pass?)
the module says what it assumes.

| Component | State it keeps | Operations | Hard behaviour | What makes it correct |
|---|---|---|---|---|
| Driver `leaf_compiler/src/lib.rs`, ids, metadata | crates and their dependency graph, sources | `build_crate_graph`, `collect_source_files`; `check` and `build` are unwritten | a dependency reached on two ways is queued twice and gets two ids | each crate is compiled after what it imports |
| Source manager `coreapi/source.rs` | file texts, cached line starts | add, update, position of an offset | the cache after an update | a position is in the text it is shown with |
| Diagnostics `diagnose.rs`, `en_diag.toml` | list of reports | report, emit | none | wording only |
| Preprocessor `leaf_preprocessor` | definitions, macros, the token list being rewritten | `process_if`, `eval_*`, `expand_all` | nested conditionals, macros that expand to macros, passes that read again what earlier ones wrote | the passes come to what one reading from left to right means; expansion ends |
| Lexer `leaf_lexer` | line state, `indent_level`, tokens, errors | `main_loop`, `tokenize` | blank lines, widths that are no multiple, end of file | Indent and Dedent nest and say how deep a line is |
| Operators `operators.rs` | table of user operators | declare, look up | declared after use | one precedence for one operator |
| Parser `leaf_parser`, `ast.rs` | position in the tokens | descent, `parse_expr_bp`, recovery | precedence against associativity, recovery that moves on | the tree has the operators' precedence; parsing ends |
| Scopes and names `scope.rs`, `leaf_name_pass` | pool of scopes, symbols, imports | `push_scope`, `add_symbol`, `lookup` | imports between files, shadowing, scopes found again by the content of a node | a name resolves to its innermost declaration |
| HIR lowering `leaf_hir_lower`, `hir.rs` | arenas of HIR nodes | one lowering per AST node | looks every name up again, in scopes that are complete by then; unwraps what it does not find | each use has the symbol lexical scoping gives it; no unwrap fails after the name pass reported nothing |
| Type checker `leaf_type_checker`, `type_ctx.rs` | type pool (variables, representatives, interned types), schemes | `unify`, `generalize`, `instantiate`, `infer_expr`, pattern checks | the order of unifications, occurs check, generic constraints, names used before their turn; recursion over pattern matrices | unified types are equal; what is accepted never meets a value of another kind, and gives a value of the type found; a match is accepted iff its arms take every value |
| MIR lowering `leaf_mir_lower`, `mir.rs` | function under construction, current block, scopes of locals | `compile_expr`, `compile_matrix` | blocks allocated before they are filled, statements pending when a block starts; decision trees | every block gets its terminator; what is built does what the program means; the tree runs the first arm that matches |
| Monomorphisation `leaf_mir_mono` | map from instances to functions, map of blocks | collect, clone, substitute | recursion through instances | each instance once; no generic left |
| Constant evaluation `leaf_mir_consteval` | stack of contexts, handlers, suspended raise, the blocks it rewrites | `eval`, `run_stack`, `handle_raise` | evaluates code it has rewritten; captured contexts | a rewritten program means what it meant |
| Lifetime checker `leaf_mir_lifetime_checker` | worklist, in states, errors | `analyze_function` | joins, loops, blocks that report | accepted functions use no moved value; it ends |
| C code generation `leaf_c_codegen` | output text | one emission per MIR node | raise and resume in C | the C code does what the MIR says |
| Runtime `leaf_runtime` | stack of handlers (256), coroutines | `push`, `pop`, `raise`, `resume` | switching between stacks | a raise reaches the innermost handler |

## Modules

`LifetimeChecker` is the pass on one function.  A statement or terminator is the
sequence of events (move, copy, init, reference, and those the code overlooks)
its operands cause in the order the code visits them; `work`, `inState`,
`hadError` are the variables of `analyze_function`, `outState`, `cur` and
`pending` the state of its inner loop over successors, one action per iteration.
`LifetimeExactness` has the reference: the least solution of the may-moved
equations.  `LifetimeSoundness` composes the checker with an execution of the
function it accepted, which sees every operand and takes any branch: this is the
abstract promise, stated as behaviour and not as the equations.
`LifetimeProofs` has the proofs, about this composition and about the comparison
with the least solution.  `MCLifetime` gives the functions.

`LexLayout` is the automaton of lines and levels: each step is one round of
`main_loop` in state Start, Line or Indent, then what `tokenize` pushes at the
end.  A line is its width and what it holds.  `LexLayoutProofs` has the proofs,
`MCLexLayout` gives the files.

`ConstEval` is the evaluator: the collection of constant calls from a hash set
(any order), one job at a time, a stack of contexts, one action per statement
batch and terminator of `run_stack`, the rewriting of call blocks, and handlers,
raise and resume with the list of contexts a raise captures.  Integers are the
words `-Half..Half-1`; arithmetic that leaves them wraps, or panics when the
compiler was built with `OverflowChecks`.  A function that returns an integer says
by `low` and `span` which words its type has.  `ConstEvalMeaning` has the
reference: what a function comes to within `n` blocks (`Within`), a call inside
the other, over blocks that never change and without a stack.  It compares every
result and every rewritten function with it.  `MCConstEval` and `MCConstEvalEffects` give crates; the second are laid
out as `leaf_mir_lower` lays out `with`.  What a crate may be is `WellFormed`,
which TLC evaluates on all of these.  `ConstEvalProofs` has the proofs, about the
stack first and then about results and meaning.

`IntervalRecursion` models no code.  It has what the proofs about recursive
functions need: induction and recursion over `0..n` and over a set whose elements
have a rank, and fixed points of what only grows, stated for sets and functions.

`Patterns` is the syntax of patterns and what matching means.  Its constants are
the program: the declarations of ADTs (`Decls`), the types with the tags of their
values and the types of the parts (`Shape`), the values (`Inhabitants`), and the
patterns (`Pats`), with a `Size` that says that they are finite.  `Usefulness` is
`check_match_exhaustiveness` with the recursions of the code over rows, and
`UsefulnessProofs` has the proofs about it, and the lemmas on patterns and rows.
`MatchTree` extends it: a match it accepts is lowered by `compile_matrix` to a
tree of tests and bindings, and the tree is run on every value of the
scrutinee's type, guards being true or false.  `MatchTreeProofs` has the proofs,
`MCMatchTree` gives the matches.

`TypePool` is the type checker's pool of types as the rest of the checker uses
it: variables and rigid variables with levels, types that are shared by
`intern_type` unless a variable is directly below them, `representative` with
its path compression, and `unify`, one step per comparison of two roots; what
its recursion still has to compare is `agenda`.  `Ask` with `try` is a
constraint alternative of `check_generic_constraints`, after whose failure the
pool is taken back.  A type is a head and its arguments, which is all that
`unify` tells apart.  `TypePoolMeaning` says what it should do: a type with
variables stands for the ground types it becomes under a substitution, which is
a function on the pool, since types are made of older ones.  `TypePoolProofs` has
the proofs, `MCTypePool` gives the pools.

`Preprocessor` is `expand_all`: one action per branch of its loop, its recursive
calls as a stack of frames, and the maps of macros, of names being expanded and
of frozen names, which outlive the calls.  `PPEval` is the evaluator of
expressions over tokens.  `PPReading` has the reference: the stream read once
from left to right, each directive taking effect where it stands.
`PreprocessorProofs` has the proofs, `MCPreprocessor` gives the streams.

`ScopePool` has the operations of `scope.rs`; `NamePass` is `build_scope`, one
action per declaration and per require, and `resolve`; `HirNames` is the
lowering to HIR, kept as trees of nodes with the symbols they name.
`LexicalScope` says what names mean with environments and no scopes, and
`NamesAgree` compares.  `MCNames` gives the crates.

`HirProgram` is the program that the type checker and the lowering share:
declarations in the order of the HIR pool, expressions as trees, names resolved.
`TypeInference` is the rest of the type checker: `check`, one action per kind of
declaration, and `infer_expr` as a recursion over the state of the checker, `tc`
(variables with their levels, schemes of names and of declarations, what
`return` and `resume` expect).  It takes from `TypePool` that a type is a head
and its arguments or a variable.  An error ends its declaration and the next
one goes on, as in the code; `reported` is the collector and `panic` an unwrap
or a `todo!()` that is reached.  The ghost `loose` collects the ways in which
something was accepted without being compared (see "Conditions").

`MirLower` is `lower_decls`, one action per declaration, and `compile_expr` as a
recursion over the state of the lowering.  `SourceMeaning` is a direct
interpreter of the same expressions, which gives "stuck" where a value is not
what its place needs.  `MirRun` composes: a program is checked, one that is
accepted and not loose is lowered, and what is lowered is run against what it
means.  It runs the blocks that were built,
a block a step, with frames, handlers and suspended raises.  `PromisedRun` is
the abstract specification: a program is rejected, or says to external
functions what it promises, one call after the other, and ends as it promises.
`MirRun` implements it (`KeepsItsPromise`), where the promise is what
`SourceMeaning` says of the program: `INSTANCE PromisedRun WITH promise <-
meaning`, the other variables under their own names.  `MCMirLower` gives the
programs.  Three ghosts in the MIR stand for what no terminator says: which
handlers a `Goto` leaves, whether a clause ends without resuming, and the block
after a raise.

`Followed`, `Complete` and the roots in `Comparing` test what holds by the way
`Root`, `Path` and `Below` are computed, and never fail; the proofs take from
them what would otherwise need an induction over the pool.

Steps that only exist so that a property can be shown to depend on the code
(`...NoRequeue`, `...NoBind` and so on, each after the comment "Faulty") are
never part of a specification; each is a plausible mistake in the definition
that follows it, and breaks the property PROJECT.json names.

## Runs

| Run | Properties | Bounds, and why they are enough |
|---|---|---|
| `lifetime` (63,703 states) | `STypeOK`; `VerdictIsExact`: rejected iff some path uses a moved value, although a block that reports passes nothing on; `FixpointReached`: accepted means the least fixpoint whatever the queue order; `AcceptedIsSafe`, `AnalysisCoversRun`: execution never uses a moved local and stays within the in states; `Terminates` | four blocks in the shapes of `if`, `match` with fall-through, early return and a loop; two locals, bodies of two events. A join of two predecessors, a loop, dead code and a block that is queued twice all occur, and the analysis treats each local apart |
| `lex_layout` | `TypeOK`; `Balanced`; `LayoutFaithful`; `StatementsEnd` | all files of up to four lines out of eight kinds: two levels up, down by two, a width that is no multiple, blank, CR, comment and bad lines. `LayoutFaithful` is about every Token and NewLine: each line stands as deep as the last line up to it that is not empty is indented, so a blank line, however wide, opens and closes nothing |
| `consteval` (45,906 states) | `TypeOK`; `ResultIsExact`; `MeaningPreserved`; `Chained`; `HandlersInOrder`; `ResumeAnswersItsRaise` | crates of three functions with recursion, two calls from `main`, arithmetic that overflows its type or the word, and of six functions with two controls, raises from nested calls, a second raise after a resume, handlers that leave. Words of four bits (`Half`) stand for the 64 of the code, with types of four and of three; 30 blocks (`Depths`) bound the reference only and are more than any call of these crates that ends takes |
| `match_tree` (59,789 states) | `UnreachableIsDead`, `PassedIsLive`, `OkIsExhaustive`: the verdicts are exact; `ArmIsFirst`; `AcceptedMatchRuns`; `IsDecides`; `VariablesAreBound` | 8,200 matches of two to five arms on a nested ADT, pairs of booleans, pairs of an ADT and a boolean, structs, and an ADT with a pair below a constructor. Two levels of nesting and two columns are what the column heuristic and the place bookkeeping tell apart |
| `preprocessor` (28,905 states) | `OpenNames`: the names being expanded are those of the calls that wait for a body; `OnlyCyclesFreeze`: no name is given up but for a cycle of macros, as they are written; `Agrees`: a tidy stream comes to what one reading means; `Ends`: a stream without recursive calls comes to an end | 2,000 streams: all conditionals of up to five lines, all expressions of up to three operands, macros with rest parameters, cycles of two and three names, every other directive. A macro whose body is a macro, a definition inside a branch and a second pass all occur |
| `names` (27,390 states) | `NamesTypeOK`; `LoweredAsMeant`: each use in a lowered crate has the symbol of its declaration; `RejectedIsUndefined`: what is rejected uses an undeclared name; `PlainIsLowered`: no unwrap of the lowering fails | 1,889 crates of one to three files, with every kind of declaration, expression, pattern and type the two passes take apart; two names, so that shadowing, capture by a later `let` and clashes of imports occur |
| `mir_lower` (64,638 states) | `AcceptedIsNotStuck`: a program that was accepted, everything compared, never meets a value of the wrong kind, but in arithmetic; `ResultHasItsType`: `main` gives a value of the type found for it; `PlainIsKept`: a plain program is accepted and nothing of it goes astray; `BlocksAreClosed`: control stays in blocks that were filled; `KeepsItsPromise`: the refinement | 3,350 programs. 1,148 are constructs nested two deep around operands that call, raise, resume, leave and return, so that every construct meets every way of leaving each of its operands. 2,075 have an operand of each type in each of 31 places, alone and inside another place, so that every comparison of `infer_expr` is met by a type that fits and by one that does not. The rest are functions, structs and enums of every type, constraints, aliases, opaque types, names used before their turn, and clauses with every number of parameters |
| `type_pool` (87,555 states) | `TypeOK`; `Acyclic`: no type contains itself; `Unified`: types once unified stay the same type through every later unification, failure and pool taken back; `MostGeneral`: whatever solves the questions asked is still possible, and a question that has a solution does not fail | 72 pools of a builtin, Never or a variable, variables of two levels or a rigid variable, and two types sharing them; one more type or variable, two questions out of eight, tried or not. Two questions are what an order of bindings and a path compressed after a binding need; a wrong occurs check, a binding left by a failed alternative and a shared type with a late id are all found |

Four runs end in a counterexample, and are listed as findings:

| Run | What it shows |
|---|---|
| `lifetime_hidden` | a local moved into two structs or tuples is accepted: `check_rvalue` has no case for aggregates (lib.rs 93) |
| `consteval_varying` | a call inside a consteval function is replaced for good by the result of one evaluation (lib.rs 964), so `f(n) { g(n) }` gives `g` of the first argument for ever |
| `consteval_scoped` | a handler stays installed after its `with`, because the block taken for the merge block is the handler's own body (lib.rs 1055): `HandlersAreScoped` reads what the step at the merge block still finds after its own `maybe_pop_handler` |
| `match_tree_alias` | constructors in an alias or an or-pattern are counted again (type checker lib.rs 1583-1591), so a match that leaves one out is accepted and runs into `__builtin_unreachable` |

## Conditions

Several properties hold only where the code is right, and say so by a named
condition on the program.  Each condition is a disagreement with what a user
expects, met while modelling:

- `Visible` (LifetimeSoundness): no operand of an aggregate, of `raise` or of a
  call by pointer, and no handler edge.
- `Promised` (ConstEvalMeaning).  `CallsAreFixed`: a call in a consteval function
  has constant arguments.  `ConstantsStay`: a `let` taken for a constant is not
  assigned later (`build_local_const_map`, lib.rs 1151, looks only at `let`), and
  `ConstantsAreSet`: a call that reads it comes after it.  `ResultsFit`: the
  integers that functions return have the width of the word, so that no result is
  cut: the caller would go on with the uncut value.  `NoEffects` and `BlocksApart`
  are no faults: the reference knows no handlers, and the lowering gives no block
  to two functions.
- `QuietHandlers` (ConstEval): nothing is called or raised between a raise and
  its resume, since there is one `suspended_raise` for the stack (lib.rs 1081).
- `CountedOnce` (Usefulness): a constructor that is an alternative or has an alias
  stands in no other arm, and the alternatives in its arm exclude each other, see
  `match_tree_alias`.  The second half came out of the proof: with pairs of a
  boolean and one of `A`, `B`, `C`, the arms `(true | _, C as x)`, `(_, A)`,
  `(false, B)` are accepted though `(true, B)` is missing, since the row of the
  first arm is there twice under `true` and `C` counts for two.  `StructsFirst`:
  struct patterns stand in the first arm only and list the same fields; any second
  struct pattern is called unreachable, because `is_useful` drops its fields (type
  checker lib.rs 1311).  `PassedIsLive`, and that a match called not exhaustive
  is not, need only the latter.
- `ElementsArePlain`, `RecordsApart` (MatchTree): a wildcard gives one sub-pattern
  whatever the arity (mir_lower lib.rs 245), and sub-patterns go to the front of a
  row while their places stay at the column (592), so `(x, Some(y))` binds the wrong
  parts, and `(x, true), (true, y), _` panics, as does `Some((x, true)), _`, where
  the wildcard stands above the place of the tuple.  The pattern `()` leaves its
  block without a terminator (744).  `AliasesAreSimple`: only the first pattern of a
  row is split at its alternatives, and only if no alias is above them (93), so
  `(A | B) as x` is tested as if it were `A as x`; an alias of a constructor with a
  tuple in it is bound where there is no tuple (252).  `GuardsTest`: the places of a
  specialised matrix are those of the first pattern that may match (569), and a
  wildcard has none; `A, _ if g, B(true), _` panics, as nothing is left to test once
  `g` is false under `B`.  `Tested`: `x => ...` after an arm that tests is lowered
  with `x` unbound (487).  `OnePlace`: an alias is bound before the tests decide
  which alternative of its arm matches (543, 696), and a name is one variable in all
  of them, so after `(true, false as y, false) | (_ as y, _, true)` `y` is what the
  alternative that failed bound to it.  The run's types are too flat to show it; an
  attempt to prove `VariablesAreBound` without the condition did.
- `Opaque` (TypePool): `check_occurs` has no case for ADTs (type checker lib.rs
  755), so `x = Some(x)` binds `x` to a type that contains it; `Acyclic` is about
  all other types.  After a question fails that was not tried, the machine stops,
  while the code reports the error and goes on to the next declaration with what
  was bound on the way.  `NeverFree` (TypePoolMeaning): a Never on the left agrees
  with every type and decides nothing (514), so only pools without it are solved.
- `Tidy` (PPReading).  A definition in a taken branch is read a pass later, so it
  loses to later definitions and later conditions do not see it; a use before a
  definition is expanded only if another pass happens; a parameter is taken out
  of the map at its first use (`arg_map.remove`, lib.rs 540), so a second use of
  it stays; `not 0` is -1 and so not true; an expression has one `and` or `or`
  and one comparison, what follows is ignored; string literals and keywords whose
  text is a macro's name are replaced.  `CallsLeadBack`: function-like macros that
  call one another are expanded for ever, since a call leaves nothing in
  `expanding`.  `AsWritten`: a macro whose body makes a name (`__concat`) or a
  macro (`__define`) may be part of a cycle that the text of the definitions does
  not show.
- `Settled` (NamesAgree): no use before its `let`, no second `let` of a name, no
  `let` in a tuple (the name pass skips tuples, lib.rs 214), no name twice in a
  pattern; `NothingShared`: no two equal nodes, since scopes are found by content
  (lib.rs 276); `InOrder`: a file is required after it was built, and `open` does
  not pass on what the file itself imported.
- `Plain` (NamesAgree): in addition, paths of several segments only for
  constructors (the loop at hir_lower lib.rs 1048-1078 looks a segment up in the
  scope the one before it was found in, and every `p.x` leaves an error), no
  `match` or `with` in tuples, no shorthand in struct patterns (415), function
  declarations without parameters (name pass 692), traits without generics,
  generics only in the last constructor (marked fixme, 765).
- `Plain` (MCMirLower): a `with` stands at the start of a block, as
  `start_block` (lib.rs 857) clears the statements pending; `resume` ends its
  clause; functions are declared before their calls; fields are given in the
  order of the declaration.  All other programs are lowered too and must either
  be kept or be marked by the lowering itself (`astray`).  A clause that does not
  resume gives unit to the merge block whatever its value.
- `tc.loose = {}` (TypeInference): the checker has compared all there is.  Each
  member is a place where it has not.  "never": Never on the left agrees with
  every type (type checker lib.rs 514), so a variable bound to it, a parameter of
  type Never and an `if` whose first branch leaves (2446) take any value.
  "early": a name used before its declaration was checked gets a bare variable
  that is never compared with the type found later (3121), so `count(true)` is
  accepted in the declaration of `count`.  "escape": `let` and clauses generalise
  over variables that an outer binding still holds, as binding a variable does
  not move the levels below it (2440), and the parameters of a control without a
  type are shared by the whole program.  "cast": a cast compares nothing.
  "twice": a field given twice stands for one left out (1901).  "annotation" is
  not the checker's: HIR lowering counts references and parameters before the
  types are known, and the program at hand counted others.
- Arithmetic and comparisons take any two equal types (2311), which is why
  `AcceptedIsNotStuck` leaves out operations on what are no numbers.
- Constraints are matched with parameters by the order of variable numbers (821),
  which changes when one variable gives way to another, so with `A: I32, B: Bool`
  a function may accept `pick(true, 2)` and reject `pick(1, true)`; a constraint
  met by its second alternative is reported for the first all the same (863); a
  literal of a generic struct inside another one of it takes the names of its
  parameters away (1916); a `with` inside a clause makes the next
  `resume_state.unwrap()` fail (2189); an enum without generics that holds itself
  is copied for ever (378, 2723; `endless`); an opaque type keeps the variable it
  was declared with (2541); `impl` types and abstract declarations are `todo!()`.
  These reject, report or stop: no property asks for more, and the model does as
  the code does.
- A comment-only line takes part in the layout (lexer lib.rs 470), although the
  test `blank_and_comment_only_lines_do_not_affect_indentation` suggests not.

## Fairness

Two runs check liveness.  In `lifetime` the checker's steps are weakly fair:
`analyze_function` is a loop of one thread that nothing interrupts, so it takes a
step whenever it can; the executed function gets no fairness, it may stop or
loop.  In `preprocessor` the loop of `expand_all` gets the same, written as
`[]<>(phase # "run") \/ []<><<Next>>_vars`: some action is enabled whenever the
phase is "run" (the actions are the branches of the loop), so this is weak
fairness of `Next`.  That `unify` ends is not checked as liveness; what it could
loop on is a type that contains itself, which `Acyclic` excludes.  The other
systems end by construction of their inputs.  `names` and `mir_lower` check
deadlock: a crate or a program is always brought to an end.  The other passes
stop when done and their configurations say so.

## Proofs

`LifetimeProofs` holds for every set of blocks and locals and every set of
well-formed functions (`ProgramsAssumption`: a function has an entry and its
edges stay inside its own blocks, which `build_cfg` and MirLower guarantee).

- `TypeCorrect`: `SSpec => []STypeOK`.
- `Invariance`: `SSpec => []IInv`.  `AcceptedIsSafe` is not inductive: nothing in
  it says why an in state is large enough.  `IInv` adds, for the checker, that
  every block that is not in the worklist and was clean has passed its out
  state on to its successors, except for those still `pending`, and that an
  accepted function has an empty worklist and no report (`CheckInv`); and for
  the execution, that what is moved is covered by the in state of the block
  carried through the events executed so far (`RunInv`).  The steps are one
  lemma for the checker (`CheckStep`, resting on `PropagateSettled` and on
  `MovedMonotone`: a larger in state gives a larger out state) and one each for
  `Step`, `Jump` and `Check` of the execution.
- `Soundness` and `Coverage`: `AcceptedIsSafe` and `AnalysisCoversRun` follow.

`TypePoolProofs` holds for every set of heads, levels, shapes and questions, with
any bounds, and for every initial pool that is well formed and has no cycle
(`PoolsAssumption`).  `UnifyIsMostGeneral` also needs initial pools in which types
are made of older types and nothing is bound (`BuiltinsAssumption`;
`create_builtins` pushes each type with itself as its parent), and a set of
ground types that has the parts of its members and none that is a part of itself
(`GroundAssumption`, which says what ground types are).

- `PoolTypeCorrect`: `Spec => []TypeOK`: every reference, also from the table of
  shared types after a pool was taken back, is to a node of the pool.
- `PoolAcyclic`: `Spec => []Acyclic`.  `Acyclic` says that every set of nodes has a
  node that visits none of the set, which needs no induction: `GroundedIf` turns
  a bottomless set of the changed pool into one of the old.  Compression adds no
  such set (`CompressGrounded`); a new node is visited by no old one
  (`PushedGrounded`); a variable bound to a type that avoids it closes no cycle,
  since the nodes below that type form a complete set without the variable
  (`BindTypeGrounded`), and two roots do not visit each other
  (`BindVarGrounded`).
- `PoolInvariance`: the invariant `IInv` adds only that the pool kept for taking
  back has no cycle.

- `SettledInvariance`: `Spec => []Settlement`.  `Unified` speaks of an empty agenda
  only.  `Settlement` says that there is a relation `R` with the questions asked:
  each pair in it has one representative, or the same head and parts that are
  again pairs of `R`, or is still on the agenda.  A comparison takes its pair off
  the agenda and has an answer for it (`ComparedAnswers`), and whatever changes the
  pool only merges representatives, and of those only variables' (`Extends`), so
  that what was settled stays settled (`SettledKept`).  The pool kept for taking
  back has a relation of its own, with all questions but the last.
- `RootFound`, on which this rests: `representative`, which follows parents, finds
  a root, because a pool without cycles has exactly one above each node
  (`OneRoot`).  `CompressRoots`, `PushedRoots` and `BoundRoots` say what the changes
  of the pool do to it.
- `UnifiedStays`: `Spec => []Unified`.  With an empty agenda `R` is a relation under
  which types are the same to every depth (`SettledSame`, by induction over the
  depth).  `Unified` compares to the depth of the number of nodes, which only a
  type that contains itself through an ADT exceeds; `Settlement` has no such bound.
- `GeneralInvariance` and `UnifyIsMostGeneral`: `Spec => []MostGeneral`.  What the
  types may stand for is a function on the nodes (`Reads`); it is admitted if it
  makes the types asked for equal and keeps rigid variables in scope.  `General`
  says that whatever is admitted gives a variable and what it is bound to the same
  type, and so the two sides of all that is still on the agenda; that after a
  failure nothing is admitted; and the same of the pool kept for taking back, with
  all questions but the last.  One comparison (`ComparedMeans`) takes equal types
  apart into equal parts, and refuses only what no admitted function makes equal.
  For the occurs check this is the proof that it refuses rightly: what it visits
  is all there is below the type and nothing else (`BelowIsReach`, since a pool
  without cycles has one solution of its recursion), and a variable found there
  stands for a proper part of the type and so not for the type (`OccursNever`).
- `OlderInvariance`: types are made of older types.  Hence what the variables stand
  for says what every type becomes (`BecomesFound`, by induction over the nodes).

`LexLayoutProofs` holds for every file and every width of a level that is
positive (`LayoutAssumption`).

- `LayoutInvariance`: `Spec => []IInv`.  The level is at most the number of open
  blocks and equal to it while nothing was reported (`Open`): a line of a bad
  width sets the level back to 0 without closing what is open (lib.rs 478-491), so
  after an error it is a lower bound only.  Every Dedent is pushed at a level
  above 0 and so closes something; a line's first token is pushed at the level
  the line asks for (`AtLevel`), and an empty line leaves the level to the line
  before it.
- `LayoutTypeCorrect`, `LayoutBalanced`, `LayoutIsFaithful`, `EveryStatementEnds`
  follow for the four properties of the run.  `Depth` counts tokens, so the
  lemmas are about how a count changes when a token is pushed.

The rest of `LifetimeProofs` compares with the least solution of the may-moved
equations, the intersection of all solutions; that it is a solution is proved
(`LeastIsSolution`), since the effect of a block is monotone.

- `ExactInvariance`: no in state exceeds the least solution, and a block reports
  only what faults there.
- `Fixpoint`: `FixpointReached`; with the other half, that an empty worklist
  without reports is a solution, accepted means equal.
- `Exactness`: `VerdictIsExact`.  The code stops at a block that reports and does
  not pass its out state on, so a rejected function has in states that are too
  small; the first block that reports does so in the least solution too, as its
  in state is within it.

`ConstEvalProofs` holds for every set of well-formed crates (`CratesAssumption`):
terminators stay inside their function and refer to its locals, and no function
begins with a block from which a `resume` is reached without a raise.  The lowering
guarantees the second: a `resume` outside of a clause is the error
`ResumeOutsideHandler` (mir_lower lib.rs 2085-2092), and the blocks of a clause are
entered by a raise only.

- `EvaluatorInvariance`: `Spec => []IInv`.  The properties are not inductive: a
  raise takes contexts off the stack, a resume puts them back on a stack that may
  be another one, while each keeps the index of its caller.  `IInv` adds four
  things.  `BlocksInv`: the block of an evaluated call keeps the type of its
  function and goes nowhere it did not go before, so control reaches a resume
  from the same blocks as in the crate as given.  `Linked`: the index of the
  caller is never below the context right underneath, in the stack and in what is
  suspended.  `SuspFits`: no context above the one that handled the suspended
  raise is, or returns to, where a resume may come; hence a resume puts frames
  back at their old height or lower, and `Linked` survives.  `QuietFits`: with
  quiet handlers the height is the same.
- `EvaluatorTypes`, `HandlersStayInOrder`, `ContextsAreChained` and
  `ResumesAnswerTheirRaise` follow for four properties of the run.
  `ResultsGoToTheCaller` needs no quiet handlers: whatever a clause calls and
  raises, a result goes to the context right below, or its caller is past the end
  of the stack, where the code indexes out of bounds.

What `ConstEvalProofs` says of results holds in addition for every width of words
and both ways of building the compiler (`WordAssumption`), and for every set of
samples.

- `PromiseInvariance`: `Spec => [](IInv /\ PromiseInv)`.  What a state of a
  function comes to grows with the depth and then stays (`Yields` is what it comes
  to at some depth).  The invariant says of a crate that is `Promised`: every block
  is as it was written or has become a goto with the value of its call, which is
  exact (`RewrittenAs`); the innermost context is in a state that gives what its
  call gives (`Leads`), and each one below waits in the block of the call above it;
  and a `let` taken for a constant has its value wherever control may have come
  past it (`Holds`, which rests on `UnsetClosed`: the blocks reached before the
  `let` are closed under successors).  That is why a rewriting is sound at all: the
  arguments a block was rewritten with are those of every other visit.
- `MeaningKept` is the lemma behind it: with blocks rewritten by exact results, a
  state in which constants hold comes within `n` blocks to what it came to before,
  by induction over `n`.  A rewritten call ends earlier than the call itself, so
  this is about states that come to something within `n` as written.
- `ResultsAreExact`: `ResultIsExact`, when the depths are all naturals.
  `MeaningIsPreserved`: `MeaningPreserved`, for every set of depths.

`UsefulnessProofs` holds for all types, patterns of any depth and matches with any
number of arms.  `PatternAssumption` says that patterns are finite trees;
`TypeAssumption` that a type has a value, and all values its parts make, that
declarations are finite and share no constructor, and that a type of literals is
that of the booleans or has more values than a program can name;
`MatchAssumption` that `check_pattern` has been through the arms.

- `UsefulIsRight`: `is_useful` says yes exactly if some vector of values fits the
  pattern vector and no row.  The code specialises the rows to a constructor, under
  a wildcard to each one it has collected, or goes on with the rows that start with
  a wildcard.  Specialising takes the vectors with that tag to those of the parts
  and back (`CoveredUnder`); if the collected constructors are not all there are,
  some tag is missing and a value that has it fits only the rows with a wildcard
  (`OneIsMissing`, `CoveredDefault`).  Whether they are all there is counted, so
  this half needs rows in which what is appended without looking stands once
  (`Tidy`), which specialising preserves (`TidyUnder`, `TidyDefault`).  No number
  grows smaller in all calls, because a wildcard becomes as many wildcards as a
  constructor has parts: the induction is over a bound for the patterns of each
  column (`RightUpTo`).
- `UInv`, the invariant: the matrix has the patterns of the arms looked at that
  have no guard (`MatrixIsArms`), hence what it leaves is what these do not take
  (`LiveIsLeft`); the verdict is the answer for them (`VerdictIsAnswer`); and every
  arm that passed is live (`ArmsAreLive`).
- `UnreachableArmsAreDead`, `PassedArmsAreLive` and `AcceptedIsExhaustive` are the
  three properties of the run.

`MatchTreeProofs` holds for the same types, patterns and matches, if a constructor
has one payload or none (the code knows no other, mir.rs 96) and `check_pattern` has
been through the patterns of `is` (`TreeAssumption`).  The theorems carry `InStep`,
as the properties do: without it the code does go wrong (see above).  The proof
showed that these conditions had been too weak, and the run's matches too small to
tell.

- `CompileDef` (in `UsefulnessProofs`, with all that is about patterns and rows
  alone): `compile_matrix` ends, and its node is what its definition says.  A
  column that is tested leaves in the rows the parts of its patterns, in place of a
  wildcard another wildcard, and splitting alternatives makes more rows, so neither
  the patterns nor the rows nor the places grow fewer in every call.  The weight of
  a matrix does (`Weigh`): a row weighs two to the power of what its patterns hold
  (`Bulk`), so the rows an alternative is split into weigh less together, and each
  place counts once.
- `IsGood` says of a matrix what the code relies on and `InStep` is for: each row has
  a pattern for each place, of the type of the place; where there are several
  places all patterns are without parts; no wildcard stands above what a tuple is
  taken apart into; and no guard can fail where what follows would have more parts.
  `CompilesWell`: of such a matrix no error is made, and all others its node needs
  are good (`UnderKey`, `DefaultGood`, `OthersGood`), but for one case: under a
  constructor that the first row takes whole, the arm is settled (`IsSettled`).
- `Follows` relates a matrix to one below it, for a value that is sent there: a row
  of the one fits where the row it is made of does.  So the node at which control is
  stays right for the value (`RightNode`): it is made of a good matrix whose fitting
  rows are those of the arms that match and were not refused, or there are no such
  arms, or it is the first of them (`RightArm`, `RightGuard`, `RightSwitch`,
  `RightGoto`, `RightEnd`).
- `MInv` is the invariant: while `InStep`, the node is right or the outcome is, the
  refused arms have guards, and before the match is lowered `UInv` holds of its
  check.  `FirstArmRuns`, `AcceptedMatchEnds` and `IsGivesTheAnswer` follow; the second
  needs `VerdictIsAnswer` as well, as only an exhaustive match has an open arm for
  every value.
- `BodiesFindTheirVariables` is about what was bound on the way from the root.
  `BInv` adds to `MInv` what a node owes the body that will run (`BoundNode`): its
  matrix `Carries` the variables if, for each row that is the first of its arm to
  fit, each binding of the arm is still to come from a pattern of the row, or was
  made and is not made again by a row of the arm (`Accounted`), or is of a variable
  whose place is tested (`Loose`).  The tested column binds what its aliases name,
  and the matrices below carry the rest (`UnderCarries`, `DefaultCarries`,
  `OthersCarries`); an arm binds what is left of its row (`FirstBound`,
  `SettledBound`).  A row that does not fit binds at the same places as the one that
  does, since a name of an arm stands at one place (`Scoped`): this is `OnePlace`.

`PreprocessorProofs` holds for every set of token streams, without an assumption.
The functions on tokens (`Substitute`, `Parameters`, `Eval`) are recursive, and
nothing in the proofs depends on what they give.

- `NamesAreOpen`: `Spec => []OpenNames`.  The invariant adds that the first frame
  and no other is that of `pass`, and that every frame says what its caller does
  with the result (`StackOK`).  A branch of the loop changes the innermost frame
  and at most the index of its caller, and begins or ends a call.  As long as that
  call is not the expansion of a name, the frames that wait for a name stay as they
  are (`Stays`, `SteadyIsKept`); this is shown once for each of the four ways to
  change the stack, and each branch is one of them (`ReadIsSteady`,
  `ReturnIsSteady`).  What is left is `EnterKeeps`, whose guard keeps a name from
  being entered twice, and `ExpandedKeeps`, which needs just that: the name taken
  out is no other call's.
- `NoneLeftOpen`: at the end `expanding` is empty.
- `FrozenAreCyclic`: `Spec => OnlyOpenFreeze`, an action property: names are given up
  only where one is met inside its own expansion, and then exactly those around
  it.  `OnlyCyclesFreeze` says the same of the text of the macros, by a recursion
  over it, and stays with TLC.

What stays with TLC: `Terminates` and `Ends`, since fairness and ENABLED are
beyond the prover; `AcceptedIsNotStuck` and `ResultHasItsType`, since checking and
meaning are recursions over programs; the refinement `KeepsItsPromise`; of the
preprocessor `Agrees` and `OnlyCyclesFreeze`, whose references are recursive
readings; and everything about names, type inference and lowering, whose modules
use RECURSIVE operators, as the code recurses over trees.
`ScopePool` and `PromisedRun` use none and are next to be proved about.

## Plan

The modules were chosen by risk: first the pass that promises safety, then the
evaluator that rewrites code, then pattern matching, layout and unification;
then, with each an independent meaning to compare with, the preprocessor, names,
and the inference of types and the lowering to MIR, whose blocks are run.  Runs are kept few: one passing
run for each component, one more where the code disagrees.  Left, in this order:

1. Theorems: that the pool of `ScopePool` stays well formed under its operations;
   that `PromisedRun` never says anything but a beginning of its promise.
2. `check_pattern` in `TypeInference`, with the rigid copies of constructors that
   have a type of their own; so far patterns are typed by construction of their
   inputs.
3. Monomorphisation, once it has a caller.

Not modelled, and why:

- The effect runtime and what C code generation writes for it: the code for
  `with`, raise and resume (c_codegen lib.rs 545-590, 1091-1135) names labels and
  fields `ae.h` does not have (69, 145-148), so no behaviour is determined.  The
  rest of code generation is text, one emission per MIR node.
- The driver: mostly `todo!()`.  What exists, `build_crate_graph` (267-320), queues
  a dependency once for each user and gives it an id each time.
- The parser: see "The system"; the tree its events stand for is built by no one
  yet.  Operators are a table filled once.
- The typing of `match` and `is` (`check_pattern`, type checker lib.rs) and the
  rigid variables of a match on a constructor with a type of its own: the
  patterns of `Usefulness` and `MatchTree` are well typed, and what `unify` does
  with rigid variables is in `TypePool`.
- Monomorphisation: `MirMono::new` and `mono` are private and nothing calls them,
  so what they are given is not determined.  As written, `mono` makes one round
  over the calls without a work list, so a generic function called by a generic
  one gets no instance of its own; a later copy of a function overwrites the map
  of blocks an earlier one uses; and calls of functions that are not generic keep
  the number the function had before.
- Diagnostics' wording, spans, the scanning of literals, the source manager's
  cache of line starts.
