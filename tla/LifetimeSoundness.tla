-------------------------- MODULE LifetimeSoundness --------------------------
(***************************************************************************)
(* What the lifetime checker promises: a function it accepts never uses a  *)
(* moved local, whichever way its branches go.  The checker runs first;    *)
(* once it has accepted, the function is executed one event at a time over *)
(* its control-flow graph, every branch being possible.  `moved` is the    *)
(* set of locals moved out of and not initialised since, and `fault`       *)
(* records the use of one.                                                 *)
(***************************************************************************)
EXTENDS LifetimeChecker

VARIABLES at,       \* the block being executed
          idx,      \* how many of its events have happened
          moved,    \* the locals whose value has been moved away
          fault     \* a moved local has been used

evars == <<at, idx, moved, fault>>
svars == <<vars, evars>>

\* An execution, unlike the checker, sees every operand.
ReallyUses(e, l)  == e.op # "init" /\ e.loc = l
ReallyMoves(e, l) == e.op \in {"move", "opaque"} /\ e.loc = l

SInit ==
    /\ Init
    /\ at = Entry /\ idx = 0 /\ moved = {} /\ fault = FALSE

\* One operand is read or one destination is written.
Step ==
    /\ phase = "accepted"
    /\ idx < Len(prog.body[at])
    /\ LET e == prog.body[at][idx + 1] IN
       /\ fault' = (fault \/ \E l \in moved : ReallyUses(e, l))
       /\ moved' = {l \in Locals : \/ ReallyMoves(e, l)
                                   \/ l \in moved /\ ~Inits(e, l)}
    /\ idx' = idx + 1
    /\ UNCHANGED <<vars, at>>

\* Faulty: the next block is entered where the last one was left.
JumpKeepsIdx ==
    /\ phase = "accepted"
    /\ idx = Len(prog.body[at])
    /\ \E s \in Elems(prog.succs[at]) \cup prog.hidden[at] :
          at' = s /\ moved' = moved \ prog.params[s]
    /\ UNCHANGED <<vars, idx, fault>>

\* Control leaves the block for a successor, whose parameters are written.
Jump ==
    /\ phase = "accepted"
    /\ idx = Len(prog.body[at])
    /\ \E s \in Elems(prog.succs[at]) \cup prog.hidden[at] :
          /\ at' = s
          /\ moved' = moved \ prog.params[s]
    /\ idx' = 0
    /\ UNCHANGED <<vars, fault>>

Check == Next /\ UNCHANGED evars

SNext == Check \/ Step \/ Jump

SSpec == SInit /\ [][SNext]_svars

\* The checker is one sequential loop: it keeps taking steps while it can.
FairSSpec == SSpec /\ WF_svars(Check)

STypeOK ==
    /\ TypeOK
    /\ at \in FunBlocks
    /\ idx \in 0..Len(prog.body[at])
    /\ moved \in SUBSET Locals
    /\ fault \in BOOLEAN

-----------------------------------------------------------------------------
\* The checker looks at every operand of the function and at every edge of
\* its control-flow graph: the part of MIR its analysis covers.
Visible(p) ==
    \A b \in Elems(p.blocks) :
        /\ p.hidden[b] = {}
        /\ \A i \in 1..Len(p.body[b]) : p.body[b][i].op \notin {"opaque", "peek"}

\* An accepted function never uses a moved local, on any path, provided all
\* its operands and edges are ones the checker looks at (analyze_function
\* returning Ok, lib.rs 230-287).
AcceptedIsSafe == Visible(prog) /\ phase = "accepted" => ~fault

\* While an accepted function runs, what has really been moved is within
\* what the analysis computed for that point of that block: the fixpoint is
\* a proof that can be followed along the execution.
AnalysisCoversRun ==
    Visible(prog) /\ phase = "accepted" =>
        moved \subseteq MovedAfter(prog.body[at], idx, inState[at])

\* The same promise with no condition on the function: what "use of moved
\* value" (lib.rs 62) reports is every use of a moved value.
NoUseAfterMove == phase = "accepted" => ~fault
=============================================================================
