--------------------------- MODULE TypePoolMeaning ---------------------------
(***************************************************************************)
(* What unification is: a type with variables stands for the ground types  *)
(* it becomes when they are replaced; two types are unified if they become *)
(* the same, and nothing else is decided about a variable.                 *)
(***************************************************************************)
EXTENDS TypePool

CONSTANT Ground    \* ground types

term(head, args) == [head |-> head, id |-> 0, args |-> args]
rigidTerm(r) == [head |-> "rigid", id |-> r, args |-> <<>>]

\* The parts of a ground type are ground types, and none is a part of itself.
ASSUME GroundAssumption ==
    /\ \A t \in Ground : \A k \in DOMAIN t.args : t.args[k] \in Ground
    /\ \A S \in SUBSET Ground : S # {} => \E t \in S : \A k \in DOMAIN t.args : t.args[k] \notin S

\* Types are made of older types.
MadeOfOlder(p) == \A i \in DOMAIN p : \A k \in DOMAIN p[i].args : p[i].args[k] < i

\* create_builtins binds nothing.
ASSUME BuiltinsAssumption == \A p \in Pools : MadeOfOlder(p) /\ Roots(p) = DOMAIN p

Variables(p) == {i \in DOMAIN p : IsVar(p, i)}

\* What every type of the pool becomes when sigma says what its variables stand for.
Becomes(p, sigma) ==
    LET types[i \in DOMAIN p] ==
            CASE p[i].kind = "var" -> sigma[i]
              [] p[i].kind = "rigid" -> rigidTerm(i)
              [] OTHER -> term(p[i].head, [k \in DOMAIN p[i].args |-> types[p[i].args[k]]])
    IN  types

\* A rigid variable stands only for what was made after it.
InScope(p, sigma) ==
    \A v \in Variables(p), r \in DOMAIN p :
        IsRigid(p, r) /\ sigma[v] = rigidTerm(r) => p[v].level > p[r].level

Solves(asked, types) == \A n \in DOMAIN asked : types[asked[n][1]] = types[asked[n][2]]

\* What a variable was bound to is what it stands for.
Respects(p, types) == \A i \in DOMAIN p : p[i].parent # i => types[i] = types[p[i].parent]

\* Never is below every type (unify returns at once when it is on the left).
NeverFree(p) == \A i \in DOMAIN p : ~IsNever(p, i)

\* Unify decides no more than what it was asked: whatever makes the types asked for
\* equal is still possible, and if anything does, no question has failed.  A
\* constraint that was tried in vain leaves nothing behind.
MostGeneral ==
    agenda = <<>> /\ NeverFree(pool) =>
        \A sigma \in [Variables(pool) -> Ground] :
            LET types == Becomes(pool, sigma) IN
            Solves(goals, types) /\ InScope(pool, sigma) => ~failed /\ Respects(pool, types)
=============================================================================
