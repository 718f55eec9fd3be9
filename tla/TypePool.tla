------------------------------- MODULE TypePool -------------------------------
(***************************************************************************)
(* The type checker's pool of types: type variables with their             *)
(* representatives, interned types, and `unify`.  The pool is a graph; a   *)
(* type is a node, and equal types may be different nodes.                 *)
(*                                                                         *)
(* The machine is the pool as the rest of the checker uses it: it makes    *)
(* variables and types, asks that two types be equal, and tries            *)
(* constraints, taking the pool back when one fails.  One step of `unify`  *)
(* is one comparison of two nodes; what its recursion still has to compare *)
(* is `agenda`.                                                            *)
(***************************************************************************)
EXTENDS Integers, Sequences, FiniteSets

CONSTANTS Heads,      \* the type constructors: builtins, "tuple", "fun", the ADTs...
          Opaque,     \* those whose arguments check_occurs does not visit: the ADTs
          Levels,     \* the levels of let and function bodies
          Pools,      \* the pools the machine starts from
          Shapes,     \* the types <<head, args>> it may make
          Questions,  \* the pairs of types it may unify
          MaxNodes, MaxGoals    \* bounds on nodes and on questions

VARIABLES pool,       \* type_pool
          intern,     \* type_intern
          agenda,     \* the pairs unify still has to compare
          trying,     \* whether a failure takes the pool back
          saved,      \* the pool to take back
          goals,      \* the questions asked and not taken back
          failed      \* a question that was not tried has failed

ASSUME LevelsAssumption == Levels \subseteq Nat

ASSUME ShapesAssumption == Shapes \subseteq Heads \X Seq(Nat)

vars == <<pool, intern, agenda, saved, trying, goals, failed>>

\* TypeNode: args has the parts of a Fun, Tuple, Ref... and the subst of a struct or ADT.
Node == [kind: {"var", "rigid", "con"}, head: Heads \cup {""}, args: Seq(Nat), parent: Nat, level: Nat]

Variable(kind, i, level) == [kind |-> kind, head |-> "", args |-> <<>>, parent |-> i, level |-> level]
Con(i, head, args) == [kind |-> "con", head |-> head, args |-> args, parent |-> i, level |-> 0]

IsVar(p, i) == p[i].kind = "var"
IsRigid(p, i) == p[i].kind = "rigid"
IsNever(p, i) == p[i].kind = "con" /\ p[i].head = "never"
-----------------------------------------------------------------------------
(* Representatives. *)

Root(p, i) ==
    LET root[j \in DOMAIN p] == IF p[j].parent = j THEN j ELSE root[p[j].parent] IN root[i]

\* The nodes visited from the nodes in S to their roots.
Path(p, S) ==
    LET path[j \in DOMAIN p] == IF p[j].parent = j THEN {j} ELSE {j} \cup path[p[j].parent]
    IN UNION {path[i] : i \in S}

Roots(p) == {i \in DOMAIN p : p[i].parent = i}

\* A path is followed to its root.  This is how Root and Path are computed.
Followed(p, path) ==
    \A j \in path :
        /\ p[j].parent \in path /\ Root(p, j) \in DOMAIN p
        /\ Root(p, j) = IF p[j].parent = j THEN j ELSE Root(p, p[j].parent)

\* The pool after `representative` of each of S: what was visited points to its root.
Compress(p, S) ==
    LET path == Path(p, S)
    IN IF Followed(p, path)
       THEN [j \in DOMAIN p |-> IF j \in path /\ j \notin Roots(p)
                                THEN [p[j] EXCEPT !.parent = Root(p, j)] ELSE p[j]]
       ELSE p
-----------------------------------------------------------------------------
(* Making types. *)

\* push_type_node, new_type_var and new_rigid_var
Pushed(p, node) == Append(p, node)

\* Faulty: the id is taken after the node is pushed.
InternLate(p, table, head, args) ==
    LET roots == [k \in DOMAIN args |-> Root(p, args[k])]
    IN [pool |-> Pushed(p, Con(Len(p) + 1, head, roots)), id |-> Len(p) + 2,
        intern |-> [k \in DOMAIN table \cup {<<head, roots>>} |->
                       IF k = <<head, roots>> THEN Len(p) + 2 ELSE table[k]]]

\* intern_type: a type with a variable directly below it is never shared.
Intern(p, table, head, args) ==
    LET q == Compress(p, {args[k] : k \in DOMAIN args})
        roots == [k \in DOMAIN args |-> Root(p, args[k])]
        key == <<head, roots>>
        new == Len(p) + 1
    IN CASE \E k \in DOMAIN roots : IsVar(p, roots[k]) ->
                [pool |-> Pushed(q, Con(new, head, roots)), intern |-> table, id |-> new]
         [] (\A k \in DOMAIN roots : ~IsVar(p, roots[k])) /\ key \in DOMAIN table ->
                [pool |-> q, intern |-> table, id |-> table[key]]
         [] OTHER ->
                [pool |-> Pushed(q, Con(new, head, roots)), id |-> new,
                 intern |-> [k \in DOMAIN table \cup {key} |-> IF k = key THEN new ELSE table[k]]]
-----------------------------------------------------------------------------
(* unify *)

\* The nodes below node i that check_occurs visits next.
Visited(p, i) ==
    IF p[i].parent # i THEN {p[i].parent}
    ELSE IF p[i].head \in Opaque THEN {} ELSE {p[i].args[k] : k \in DOMAIN p[i].args}

Below(p, i) ==
    LET below[j \in DOMAIN p] == {j} \cup UNION {below[k] : k \in Visited(p, j)} IN below[i]

Complete(p, S) == \A j \in S : Visited(p, j) \subseteq S

\* check_occurs succeeds: variable v is not in type t.  (It also shortens the paths
\* it follows, which changes no representative and is left out here.)
Avoids(p, v, t) == LET S == Below(p, t) IN t \in S /\ Complete(p, S) /\ v \notin S

Equal == [ok |-> TRUE, bind |-> {}, more |-> <<>>]
Unequal == [ok |-> FALSE, bind |-> {}, more |-> <<>>]
Bind(v, t) == [ok |-> TRUE, bind |-> {<<v, t>>}, more |-> <<>>]
Parts(xs, ys) == [ok |-> TRUE, bind |-> {}, more |-> [k \in DOMAIN xs |-> <<xs[k], ys[k]>>]]

\* A variable that is older than the rigid variable would let it escape.
BindRigid(p, v, r) == IF Avoids(p, v, r) /\ p[v].level > p[r].level THEN Bind(v, r) ELSE Unequal

\* Faulty: the occurs check is forgotten.
BindAnyType(p, v, t) == Bind(v, t)

BindType(p, v, t) == IF Avoids(p, v, t) THEN Bind(v, t) ELSE Unequal

\* The older of two variables represents both.
BindVars(p, r, s) == IF p[r].level <= p[s].level THEN Bind(s, r) ELSE Bind(r, s)

\* Faulty: Never is taken for equal to every type on either side.
NeverEither(p, r, s) ==
    CASE r = s \/ IsNever(p, r) \/ IsNever(p, s) -> Equal
      [] IsVar(p, r) /\ IsVar(p, s) /\ r # s -> BindVars(p, r, s)
      [] IsVar(p, r) /\ p[s].kind = "con" /\ ~IsNever(p, s) -> BindType(p, r, s)
      [] ~IsNever(p, r) /\ p[r].kind = "con" /\ IsVar(p, s) -> BindType(p, s, r)
      [] OTHER -> Unequal

\* Two roots compared: what is bound and what has to be compared next.
Compared(p, r, s) ==
    CASE r = s \/ IsNever(p, r) -> Equal
      [] IsRigid(p, r) /\ IsVar(p, s) -> BindRigid(p, s, r)
      [] IsVar(p, r) /\ IsRigid(p, s) -> BindRigid(p, r, s)
      [] r # s /\ IsVar(p, r) /\ IsVar(p, s) -> BindVars(p, r, s)
      [] IsVar(p, r) /\ p[s].kind = "con" -> BindType(p, r, s)
      [] ~IsNever(p, r) /\ p[r].kind = "con" /\ IsVar(p, s) -> BindType(p, s, r)
      [] r # s /\ ~IsNever(p, r) /\ p[r].kind = "con" /\ p[s].kind = "con"
            /\ p[r].head = p[s].head /\ Len(p[r].args) = Len(p[s].args) -> Parts(p[r].args, p[s].args)
      [] OTHER -> Unequal

Bound(p, bind) == [j \in DOMAIN p |-> IF \E t \in DOMAIN p : <<j, t>> \in bind
                                      THEN [p[j] EXCEPT !.parent = CHOOSE t \in DOMAIN p : <<j, t>> \in bind]
                                      ELSE p[j]]
-----------------------------------------------------------------------------
Refers(p, i) ==
    /\ p[i].parent \in DOMAIN p
    /\ \A k \in DOMAIN p[i].args : p[i].args[k] \in DOMAIN p
    /\ p[i].kind # "con" => p[i].args = <<>>
    /\ p[i].kind # "var" => p[i].parent = i

WellFormed(p) == p \in Seq(Node) /\ \A i \in DOMAIN p : Refers(p, i)

\* No node is below itself: in every set of nodes there is one with nothing
\* below it that is in the set.
Grounded(p) == \A S \in SUBSET DOMAIN p : S # {} => \E i \in S : Visited(p, i) \cap S = {}

\* create_builtins gives a pool without variables.
ASSUME PoolsAssumption == \A p \in Pools : WellFormed(p) /\ Grounded(p)
-----------------------------------------------------------------------------
(* The machine. *)

Idle == agenda = <<>> /\ ~failed

Init ==
    /\ pool \in Pools
    /\ intern = <<>>
    /\ agenda = <<>>
    /\ saved = <<>>
    /\ trying = FALSE
    /\ goals = <<>>
    /\ failed = FALSE

NewVariable(kind, level) ==
    /\ Idle /\ Len(pool) < MaxNodes
    /\ pool' = Pushed(pool, Variable(kind, Len(pool) + 1, level))
    /\ UNCHANGED <<intern, agenda, saved, trying, goals, failed>>

NewType(head, args) ==
    /\ Idle /\ Len(pool) < MaxNodes
    /\ \A k \in DOMAIN args : args[k] \in DOMAIN pool /\ Root(pool, args[k]) \in Roots(pool)
    /\ LET made == Intern(pool, intern, head, args) IN pool' = made.pool /\ intern' = made.intern
    /\ UNCHANGED <<agenda, saved, trying, goals, failed>>

\* unify is called; check_generic_constraints keeps the pool for the next alternative.
Ask(a, b, try) ==
    /\ Idle /\ Len(goals) < MaxGoals
    /\ a \in DOMAIN pool /\ b \in DOMAIN pool
    /\ agenda' = <<<<a, b>>>>
    /\ goals' = Append(goals, <<a, b>>)
    /\ saved' = IF try THEN pool ELSE <<>>
    /\ trying' = try
    /\ UNCHANGED <<pool, intern, failed>>

\* The comparison at the head of the agenda: its roots, and the pool it leaves.
Left == Root(pool, Head(agenda)[1])
Right == Root(pool, Head(agenda)[2])
Shortened == Compress(pool, {Head(agenda)[1], Head(agenda)[2]})
Found == Compared(Shortened, Left, Right)

Comparing == agenda # <<>> /\ {Left, Right} \subseteq Roots(Shortened)

Agree ==
    LET rest == Found.more \o Tail(agenda)
    IN /\ Comparing /\ Found.ok
       /\ pool' = Bound(Shortened, Found.bind)
       /\ agenda' = rest
       /\ trying' = (trying /\ rest # <<>>)
       /\ saved' = IF rest # <<>> THEN saved ELSE <<>>
       /\ UNCHANGED <<intern, goals, failed>>

\* The error reaches check_decl; what was bound on the way stays bound.
Fail ==
    /\ Comparing /\ ~Found.ok /\ ~trying
    /\ pool' = Shortened
    /\ agenda' = <<>>
    /\ failed' = TRUE
    /\ UNCHANGED <<intern, saved, trying, goals>>

\* Faulty: the pool is not taken back.
TakeNothingBack ==
    /\ Comparing /\ ~Found.ok /\ trying
    /\ pool' = Shortened
    /\ agenda' = <<>>
    /\ goals' = SubSeq(goals, 1, Len(goals) - 1)
    /\ trying' = FALSE
    /\ saved' = <<>>
    /\ UNCHANGED <<intern, failed>>

\* The alternative does not hold: check_generic_constraints takes the pool back.
TakeBack ==
    /\ Comparing /\ ~Found.ok /\ trying
    /\ pool' = saved
    /\ agenda' = <<>>
    /\ goals' = SubSeq(goals, 1, Len(goals) - 1)
    /\ trying' = FALSE
    /\ saved' = <<>>
    /\ UNCHANGED <<intern, failed>>

Next ==
    \/ \E kind \in {"var", "rigid"}, level \in Levels : NewVariable(kind, level)
    \/ \E shape \in Shapes : NewType(shape[1], shape[2])
    \/ \E q \in Questions, try \in BOOLEAN : Ask(q[1], q[2], try)
    \/ Agree
    \/ Fail
    \/ TakeBack

Spec == Init /\ [][Next]_vars
-----------------------------------------------------------------------------
\* Every reference is to a node of the pool, and only variables are bound.
TypeOK ==
    /\ WellFormed(pool)
    /\ trying => WellFormed(saved) /\ DOMAIN saved = DOMAIN pool
    /\ DOMAIN intern \subseteq Heads \X Seq(Nat)
    /\ \A key \in DOMAIN intern : intern[key] \in DOMAIN pool
    /\ agenda \in Seq((DOMAIN pool) \X (DOMAIN pool))
    /\ trying \in BOOLEAN /\ failed \in BOOLEAN

\* No type contains itself, the arguments of ADTs left aside, so that `representative` and every walk over a type
\* end, whatever was unified and also after a failure and a pool taken back.
Acyclic == Grounded(pool)

\* On top a and b are the same, and their parts are as `parts` says.  Never is taken
\* for the same as whatever it is compared with.
SameTop(p, parts, a, b) ==
    LET r == Root(p, a)
        s == Root(p, b)
    IN \/ r = s \/ IsNever(p, r)
       \/ /\ p[r].kind = "con" /\ p[s].kind = "con" /\ p[r].head = p[s].head
          /\ Len(p[r].args) = Len(p[s].args)
          /\ \A k \in DOMAIN p[r].args : parts[<<p[r].args[k], p[s].args[k]>>]

\* The same down to a depth that only a type with itself below an ADT exceeds.
SameType(p, a, b) ==
    LET same[d \in 0 .. Len(p)] ==
            [x \in (DOMAIN p) \X (DOMAIN p) |-> d = 0 \/ SameTop(p, same[d - 1], x[1], x[2])]
    IN same[Len(p)][<<a, b>>]

\* When unify has succeeded its types are the same type, and they stay so whatever
\* is made, unified or tried afterwards.
Unified == Idle => \A n \in DOMAIN goals : SameType(pool, goals[n][1], goals[n][2])
=============================================================================
