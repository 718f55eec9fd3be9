--------------------------- MODULE LifetimeChecker ---------------------------
(***************************************************************************)
(* The MIR lifetime checker (leaf_mir_lifetime_checker) on one function:   *)
(* the escape check, then a forward may-moved analysis driven by a FIFO    *)
(* worklist of basic blocks.                                               *)
(*                                                                         *)
(* A function is a record.  Only what the checker tells apart is kept of a *)
(* statement or terminator: the sequence of EVENTS its operands cause, in  *)
(* the order the code visits them (a binary operator visits its left       *)
(* operand first; a Let, a Store to a local and a call initialise their    *)
(* destination after their operands):                                      *)
(*   "move"   Rvalue::Move of a place rooted at the local                  *)
(*   "copy"   Rvalue::Copy or Cast of a place rooted at the local          *)
(*   "init"   the destination of Let, Store or a call becomes valid        *)
(*   "ref"    Rvalue::Ref or RefMut of a place rooted at the local         *)
(*   "opaque" a move the code never looks at: an operand of a struct,      *)
(*            tuple, variant or gc rvalue, the callee of CallByPtr, an     *)
(*            argument of Raise, the place of Resume                       *)
(*   "peek"   a read the code never looks at: Index, Field, Len, Tag       *)
(* A diagnostic is a pair of a block and a position: the code repeats it    *)
(* each time it processes the block, the set `reports` keeps it once.      *)
(* `hidden` holds the control-flow edges of InstallHandler and Resume,     *)
(* which build_cfg leaves out of the graph.                                *)
(***************************************************************************)
EXTENDS Naturals, Sequences

CONSTANTS Blocks,      \* identifiers of basic blocks (MirBasicBlockId)
          Locals,      \* identifiers of locals (MirLocalId)
          Programs     \* the functions given to the checker

Ops == {"move", "copy", "init", "ref", "opaque", "peek"}
Event == [op : Ops, loc : Locals]

Program ==
    [blocks : Seq(Blocks),                 \* MirFun::blocks, entry first
     body   : [Blocks -> Seq(Event)],      \* statements, then the terminator
     succs  : [Blocks -> Seq(Blocks)],     \* what build_cfg collects
     params : [Blocks -> SUBSET Locals],   \* block_params a Goto writes
     hidden : [Blocks -> SUBSET Blocks]]   \* edges build_cfg ignores

Elems(s) == {s[i] : i \in 1..Len(s)}

\* A function has an entry block and its edges stay inside its own blocks.
WellFormed(p) ==
    /\ p.blocks # <<>>
    /\ \A b \in Elems(p.blocks) :
          Elems(p.succs[b]) \cup p.hidden[b] \subseteq Elems(p.blocks)

ASSUME ProgramsAssumption ==
    \A p \in Programs : p \in Program /\ WellFormed(p)

-----------------------------------------------------------------------------
(* The effect of a block on the set of moved locals (transfer_block).      *)

Uses(e, l)  == e.op \in {"move", "copy"} /\ e.loc = l
Moves(e, l) == e.op = "move" /\ e.loc = l
Inits(e, l) == e.op = "init" /\ e.loc = l

\* The locals in state Moved after the first n events of es, when those of
\* S were Moved before: the last event that sets the state of a local wins.
MovedAfter(es, n, S) ==
    {l \in Locals :
        \/ \E i \in 1..n : /\ Moves(es[i], l)
                           /\ \A k \in (i + 1)..n : ~Inits(es[k], l)
        \/ l \in S /\ \A k \in 1..n : ~Inits(es[k], l)}

\* The positions at which check_rvalue reports "use of moved value".
Faults(es, S) ==
    {i \in 1..Len(es) : \E l \in Locals :
        Uses(es[i], l) /\ l \in MovedAfter(es, i - 1, S)}

\* Faulty: the block starts from a fresh state and not from its in state.
OutFresh(p, b, S) == MovedAfter(p.body[b], Len(p.body[b]), {})

Out(p, b, S) == MovedAfter(p.body[b], Len(p.body[b]), S)

\* Faulty: positions counted from zero.
RefsFromZero(p, b) == {i \in 0..(Len(p.body[b]) - 1) : p.body[b][i + 1].op = "ref"}

\* The positions check_rvalue_escape rejects.
Refs(p, b) == {i \in 1..Len(p.body[b]) : p.body[b][i].op = "ref"}

-----------------------------------------------------------------------------
VARIABLES
    prog,       \* the function under analysis
    phase,      \* "escape", "flow", "propagate", "accepted" or "rejected"
    work,       \* the worklist
    inState,    \* in_states: the locals Moved at the start of each block
    cur,        \* the block whose successors are being updated
    outState,   \* its out state
    pending,    \* the successors still to be updated
    hadError,   \* some block reported a use of a moved value
    reports     \* diagnostics, as pairs <<block, position>>

vars == <<prog, phase, work, inState, cur, outState, pending, hadError, reports>>

FunBlocks == Elems(prog.blocks)
Entry == Head(prog.blocks)

Init ==
    /\ prog \in Programs
    /\ phase = "escape"
    /\ work = <<>>
    /\ inState = [b \in Blocks |-> {}]
    /\ cur = Entry
    /\ outState = {}
    /\ pending = <<>>
    /\ hadError = FALSE
    /\ reports = {}

\* Some block takes a reference: the first one is reported and the function
\* is given up, its moves unexamined.
EscapeFound ==
    /\ phase = "escape"
    /\ \E j \in 1..Len(prog.blocks) :
          LET b == prog.blocks[j] IN
          /\ Refs(prog, b) # {}
          /\ \A k \in 1..(j - 1) : Refs(prog, prog.blocks[k]) = {}
          /\ \E i \in Refs(prog, b) :
                /\ \A k \in Refs(prog, b) : i <= k
                /\ reports' = {<<b, i>>}
    /\ phase' = "rejected"
    /\ UNCHANGED <<prog, work, inState, cur, outState, pending, hadError>>

\* Faulty: only the entry is queued.
EscapeCleanEntryOnly ==
    /\ phase = "escape"
    /\ \A b \in FunBlocks : Refs(prog, b) = {}
    /\ phase' = "flow"
    /\ work' = <<Entry>>
    /\ UNCHANGED <<prog, inState, cur, outState, pending, hadError, reports>>

\* No reference anywhere: every block is queued once, in order.
EscapeClean ==
    /\ phase = "escape"
    /\ \A b \in FunBlocks : Refs(prog, b) = {}
    /\ phase' = "flow"
    /\ work' = prog.blocks
    /\ UNCHANGED <<prog, inState, cur, outState, pending, hadError, reports>>

\* Faulty: the block that reported stays at the head of the worklist.
TransferErrorNoPop ==
    /\ phase = "flow" /\ work # <<>>
    /\ Faults(prog.body[Head(work)], inState[Head(work)]) # {}
    /\ reports' = reports \cup {<<Head(work), 1>>}
    /\ hadError' = TRUE
    /\ UNCHANGED <<prog, phase, work, inState, cur, outState, pending>>

\* A popped block uses a moved local: every such use is reported and the
\* block's out state is dropped, so its successors learn nothing from it.
TransferError ==
    /\ phase = "flow" /\ work # <<>>
    /\ LET b == Head(work)
           es == prog.body[b]
       IN /\ Faults(es, inState[b]) # {}
          /\ reports' = reports \cup {<<b, i>> : i \in Faults(es, inState[b])}
    /\ hadError' = TRUE
    /\ work' = Tail(work)
    /\ UNCHANGED <<prog, phase, inState, cur, outState, pending>>

\* A popped block is clean: its out state is computed.
TransferOk ==
    /\ phase = "flow" /\ work # <<>>
    /\ Faults(prog.body[Head(work)], inState[Head(work)]) = {}
    /\ phase' = "propagate"
    /\ cur' = Head(work)
    /\ outState' = Out(prog, Head(work), inState[Head(work)])
    /\ pending' = prog.succs[Head(work)]
    /\ work' = Tail(work)
    /\ UNCHANGED <<prog, inState, hadError, reports>>

\* Faulty: a successor whose in state grew is not queued again.
PropagateNoRequeue ==
    /\ phase = "propagate" /\ pending # <<>>
    /\ inState' = [inState EXCEPT ![Head(pending)] = @ \cup outState]
    /\ pending' = Tail(pending)
    /\ UNCHANGED <<prog, phase, work, cur, outState, hadError, reports>>

\* Faulty: the last predecessor overwrites what the others said.
PropagateOverwrite ==
    /\ phase = "propagate" /\ pending # <<>>
    /\ inState' = [inState EXCEPT ![Head(pending)] = outState]
    /\ work' = IF outState \subseteq inState[Head(pending)] THEN work
                ELSE Append(work, Head(pending))
    /\ pending' = Tail(pending)
    /\ UNCHANGED <<prog, phase, cur, outState, hadError, reports>>

\* The next successor absorbs the out state; it is queued if it changed.
Propagate ==
    /\ phase = "propagate" /\ pending # <<>>
    /\ LET s == Head(pending) IN
       /\ inState' = [inState EXCEPT ![s] = @ \cup outState]
       /\ work' = IF outState \subseteq inState[s] THEN work ELSE Append(work, s)
    /\ pending' = Tail(pending)
    /\ UNCHANGED <<prog, phase, cur, outState, hadError, reports>>

PropagateDone ==
    /\ phase = "propagate" /\ pending = <<>>
    /\ phase' = "flow"
    /\ UNCHANGED <<prog, work, inState, cur, outState, pending, hadError, reports>>

\* The worklist is empty: the verdict is whether some block reported.
Finish ==
    /\ phase = "flow" /\ work = <<>>
    /\ phase' = IF hadError THEN "rejected" ELSE "accepted"
    /\ UNCHANGED <<prog, work, inState, cur, outState, pending, hadError, reports>>

Next ==
    \/ EscapeFound \/ EscapeClean
    \/ TransferError \/ TransferOk
    \/ Propagate \/ PropagateDone
    \/ Finish

Spec == Init /\ [][Next]_vars

Done == phase \in {"accepted", "rejected"}

\* Types of the checker's state.
TypeOK ==
    /\ prog \in Programs
    /\ phase \in {"escape", "flow", "propagate", "accepted", "rejected"}
    /\ work \in Seq(FunBlocks)
    /\ inState \in [Blocks -> SUBSET Locals]
    /\ cur \in FunBlocks
    /\ outState \in SUBSET Locals
    /\ pending \in Seq(FunBlocks)
    /\ hadError \in BOOLEAN
    /\ reports \subseteq FunBlocks \X (Nat \ {0})
=============================================================================
