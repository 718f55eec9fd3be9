-------------------------- MODULE LifetimeExactness --------------------------
(***************************************************************************)
(* The worklist algorithm against its reference: the least solution of the *)
(* may-moved equations over the control-flow graph, which knows nothing of *)
(* a worklist, of an order of the blocks or of errors.                     *)
(***************************************************************************)
EXTENDS LifetimeChecker

\* The assignments of moved locals to blocks that the equations allow: a
\* block may start with whatever a predecessor of it may end with.
Solutions(p) ==
    {M \in [Blocks -> SUBSET Locals] :
        \A b \in Elems(p.blocks) : LET out == Out(p, b, M[b]) IN
            \A s \in Elems(p.succs[b]) : out \subseteq M[s]}

\* The least of them: what every solution says of a block, and no more.
Least(p) ==
    LET sols == Solutions(p) IN
    [b \in Blocks |-> {l \in Locals : \A M \in sols : l \in M[b]}]

MayMoved == [p \in Programs |-> Least(p)]

NoRefs(p) == \A b \in Elems(p.blocks) : Refs(p, b) = {}

\* Some path through the function uses a moved local.
UseAfterMove(p) ==
    \E b \in Elems(p.blocks) : Faults(p.body[b], MayMoved[p][b]) # {}

\* The verdict is exact: although a block that reports an error passes
\* nothing on to its successors (`continue` at lib.rs 257), the function is
\* rejected exactly when some path of it uses a moved value.
VerdictIsExact ==
    Done /\ NoRefs(prog) => (phase = "rejected" <=> UseAfterMove(prog))

\* An accepted function was analysed to the least fixpoint, whatever the
\* order in which its blocks were queued and queued again.
FixpointReached ==
    phase = "accepted" =>
        \A b \in FunBlocks : inState[b] = MayMoved[prog][b]

\* The analysis comes to an end: a block is queued again only when its in
\* state has grown.
Terminates == <>Done
=============================================================================
