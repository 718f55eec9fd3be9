--------------------------- MODULE LifetimeProofs ---------------------------
(***************************************************************************)
(* The lifetime checker is sound, for every set of blocks, of locals and   *)
(* of functions, and exact: LifetimeSoundness's AcceptedIsSafe and         *)
(* AnalysisCoversRun, and LifetimeExactness's FixpointReached and          *)
(* VerdictIsExact are invariants of SSpec.                                 *)
(*                                                                         *)
(* The argument.  A block that is not in the worklist is Stable: it        *)
(* reports nothing from its in state and its out state is within the in    *)
(* state of each successor (CheckInv).  When the worklist is empty and     *)
(* nothing was reported every block is Stable, and an execution that       *)
(* starts with nothing moved stays within the computed states, one event   *)
(* (MovedStep) or one edge at a time (RunInv).                             *)
(*                                                                         *)
(* For exactness: the intersection of the solutions of the may-moved       *)
(* equations is a solution (LeastIsSolution), because a larger in state    *)
(* gives a larger out state.  The in states never leave it (Within):       *)
(* whatever is merged into a successor, whenever it is, is in every        *)
(* solution.  So a block that reports is one that the least solution       *)
(* rejects too, although its out state is dropped.  If no block reports,   *)
(* the worklist empties only with every block stable: the in states are a  *)
(* solution, within the least one, hence the least one.                    *)
(***************************************************************************)
EXTENDS LifetimeSoundness, LifetimeExactness, SequenceTheorems, TLAPS

-----------------------------------------------------------------------------
(* Sequences as worklists. *)

LEMMA ElemsHeadTail ==
    ASSUME NEW S, NEW s \in Seq(S), s # <<>>
    PROVE  /\ Head(s) \in S
           /\ Tail(s) \in Seq(S)
           /\ Elems(s) = {Head(s)} \cup Elems(Tail(s))
<1>1. Len(s) \in Nat /\ Len(s) >= 1 /\ Head(s) = s[1] /\ Head(s) \in S
    OBVIOUS
<1>2. /\ Tail(s) \in Seq(S) /\ Len(Tail(s)) = Len(s) - 1
      /\ \A i \in 1..Len(Tail(s)) : Tail(s)[i] = s[i + 1]
    OBVIOUS
<1>3. ASSUME NEW i \in 1..Len(s) PROVE s[i] \in {Head(s)} \cup Elems(Tail(s))
    <2>1. CASE i = 1
        BY <2>1, <1>1
    <2>2. CASE i # 1
        <3>1. i - 1 \in 1..Len(Tail(s)) /\ Tail(s)[i - 1] = s[i]
            BY <2>2, <1>1, <1>2
        <3> QED BY <3>1 DEF Elems
    <2> QED BY <2>1, <2>2
<1>4. ASSUME NEW i \in 1..Len(Tail(s)) PROVE Tail(s)[i] \in Elems(s)
    <2>1. i + 1 \in 1..Len(s)
        BY <1>1, <1>2
    <2> QED BY <2>1, <1>2 DEF Elems
<1>5. Head(s) \in Elems(s)
    BY <1>1 DEF Elems
<1> QED BY <1>1, <1>2, <1>3, <1>4, <1>5 DEF Elems

LEMMA ElemsAppend ==
    ASSUME NEW S, NEW s \in Seq(S), NEW e \in S
    PROVE  /\ Append(s, e) \in Seq(S)
           /\ Elems(Append(s, e)) = Elems(s) \cup {e}
<1>1. /\ Append(s, e) \in Seq(S) /\ Len(Append(s, e)) = Len(s) + 1
      /\ Len(s) \in Nat /\ Append(s, e)[Len(s) + 1] = e
      /\ \A i \in 1..Len(s) : Append(s, e)[i] = s[i]
    OBVIOUS
<1> QED BY <1>1 DEF Elems

LEMMA ElemsEmpty == Elems(<<>>) = {}
BY DEF Elems

-----------------------------------------------------------------------------
(* The transfer function of a block (transfer_block, check_rvalue). *)

\* A larger in state gives a larger out state.
LEMMA MovedMonotone ==
    ASSUME NEW es, NEW n, NEW S, NEW T, S \subseteq T
    PROVE  MovedAfter(es, n, S) \subseteq MovedAfter(es, n, T)
BY DEF MovedAfter

\* Before any event the state is the in state.
LEMMA MovedNone ==
    ASSUME NEW es, NEW S \in SUBSET Locals
    PROVE  MovedAfter(es, 0, S) = S
<1>1. 1..0 = {}
    OBVIOUS
<1> QED BY <1>1 DEF MovedAfter

\* One more event moves a local or initialises one: the closed form is the
\* loop over the statements.
LEMMA MovedStep ==
    ASSUME NEW es, NEW n \in Nat, NEW S \in SUBSET Locals
    PROVE  \A l \in Locals :
              l \in MovedAfter(es, n + 1, S) <=>
                 \/ Moves(es[n + 1], l)
                 \/ l \in MovedAfter(es, n, S) /\ ~Inits(es[n + 1], l)
<1> DEFINE m == n + 1
<1>1. /\ m \in Nat
      /\ \A i \in 1..m : i \in 1..n \/ i = m
      /\ \A i \in 1..n : i \in 1..m
      /\ m \in 1..m
    OBVIOUS
<1>2. \A k \in (m + 1)..m : FALSE
    BY <1>1
<1>3. /\ \A i \in 1..n : \A k \in (i + 1)..m : k \in (i + 1)..n \/ k = m
      /\ \A i \in 1..n : \A k \in (i + 1)..n : k \in (i + 1)..m
      /\ \A i \in 1..n : m \in (i + 1)..m
    BY <1>1
<1>4. SUFFICES ASSUME NEW l \in Locals
               PROVE  l \in MovedAfter(es, m, S) <=>
                         \/ Moves(es[m], l)
                         \/ l \in MovedAfter(es, n, S) /\ ~Inits(es[m], l)
    BY DEF MovedAfter
<1>5. CASE Moves(es[m], l)
    BY <1>1, <1>2, <1>5 DEF MovedAfter
<1>6. CASE ~Moves(es[m], l)
    <2>1. (\E i \in 1..m : /\ Moves(es[i], l)
                           /\ \A k \in (i + 1)..m : ~Inits(es[k], l))
          <=> (\E i \in 1..n : /\ Moves(es[i], l)
                               /\ \A k \in (i + 1)..n : ~Inits(es[k], l))
              /\ ~Inits(es[m], l)
        BY <1>1, <1>3, <1>6
    <2>2. (\A k \in 1..m : ~Inits(es[k], l))
          <=> (\A k \in 1..n : ~Inits(es[k], l)) /\ ~Inits(es[m], l)
        BY <1>1
    <2> QED BY <1>6, <2>1, <2>2 DEF MovedAfter
<1> QED BY <1>5, <1>6

-----------------------------------------------------------------------------
(* The inductive invariant. *)

\* The block reports nothing and has told its successors all it knows.
Stable(b) ==
    /\ Faults(prog.body[b], inState[b]) = {}
    /\ \A s \in Elems(prog.succs[b]) : Out(prog, b, inState[b]) \subseteq inState[s]

Settled(b) == b \in Elems(work) \/ Stable(b)

NoRefInv ==
    phase \in {"flow", "propagate", "accepted"} =>
        \A b \in FunBlocks : Refs(prog, b) = {}

FlowInv == phase = "flow" /\ ~hadError => \A b \in FunBlocks : Settled(b)

\* Between the transfer of cur and the last of its successors.
PropagateInv ==
    phase = "propagate" /\ ~hadError =>
        /\ \A b \in FunBlocks : b # cur => Settled(b)
        /\ \/ cur \in Elems(work)
           \/ /\ Faults(prog.body[cur], inState[cur]) = {}
              /\ outState = Out(prog, cur, inState[cur])
        /\ \A s \in Elems(prog.succs[cur]) :
              s \in Elems(pending) \/ outState \subseteq inState[s]

AcceptInv == phase = "accepted" => \A b \in FunBlocks : Stable(b)

CheckInv == NoRefInv /\ FlowInv /\ PropagateInv /\ AcceptInv

RunInv ==
    /\ phase # "accepted" => at = Entry /\ idx = 0 /\ moved = {} /\ ~fault
    /\ Visible(prog) /\ phase = "accepted" =>
          /\ moved \subseteq MovedAfter(prog.body[at], idx, inState[at])
          /\ ~fault

IInv == STypeOK /\ CheckInv /\ RunInv

-----------------------------------------------------------------------------
(* Types. *)

\* A sequence is one over any set that holds its elements.
LEMMA SeqOfElems ==
    ASSUME NEW S, NEW s \in Seq(S), NEW T, Elems(s) \subseteq T
    PROVE  s \in Seq(T)
<1>1. Len(s) \in Nat /\ s \in [1..Len(s) -> S]
    BY LenProperties
<1>2. \A i \in 1..Len(s) : s[i] \in T
    BY DEF Elems
<1>3. s \in [1..Len(s) -> T]
    BY <1>1, <1>2
<1> QED BY <1>1, <1>3, SeqDef

\* What ProgramsAssumption says of the function under analysis.
LEMMA ProgTypes ==
    ASSUME prog \in Programs
    PROVE  /\ prog.blocks \in Seq(FunBlocks)
           /\ FunBlocks \subseteq Blocks
           /\ Entry \in FunBlocks
           /\ \A b \in FunBlocks : /\ prog.succs[b] \in Seq(FunBlocks)
                                   /\ Elems(prog.succs[b]) \subseteq FunBlocks
                                   /\ prog.hidden[b] \subseteq FunBlocks
                                   /\ prog.body[b] \in Seq(Event)
                                   /\ Len(prog.body[b]) \in Nat
<1>1. prog \in Program /\ WellFormed(prog)
    BY ProgramsAssumption
<1>2. /\ prog.blocks \in Seq(Blocks)
      /\ prog.body \in [Blocks -> Seq(Event)]
      /\ prog.succs \in [Blocks -> Seq(Blocks)]
    BY <1>1 DEF Program
<1>3. FunBlocks \subseteq Blocks
    BY <1>2, ElementOfSeq DEF FunBlocks, Elems
<1>4. prog.blocks \in Seq(FunBlocks)
    BY <1>2, SeqOfElems DEF FunBlocks
<1>5. Entry \in FunBlocks
    BY <1>1, <1>4, ElemsHeadTail DEF Entry, WellFormed
<1>6. ASSUME NEW b \in FunBlocks
      PROVE  /\ prog.succs[b] \in Seq(FunBlocks)
             /\ Elems(prog.succs[b]) \subseteq FunBlocks
             /\ prog.hidden[b] \subseteq FunBlocks
             /\ prog.body[b] \in Seq(Event)
             /\ Len(prog.body[b]) \in Nat
    <2>1. b \in Blocks /\ prog.succs[b] \in Seq(Blocks) /\ prog.body[b] \in Seq(Event)
        BY <1>2, <1>3
    <2>2. Elems(prog.succs[b]) \subseteq FunBlocks /\ prog.hidden[b] \subseteq FunBlocks
        BY <1>1 DEF WellFormed, FunBlocks
    <2>3. prog.succs[b] \in Seq(FunBlocks)
        BY <2>1, <2>2, SeqOfElems
    <2> QED BY <2>1, <2>2, <2>3, LenProperties
<1> QED BY <1>3, <1>4, <1>5, <1>6

\* The checker and the execution start well typed.
LEMMA InitType == SInit => STypeOK
<1> SUFFICES ASSUME SInit PROVE STypeOK
    OBVIOUS
<1>1. prog \in Programs
    BY DEF SInit, Init
<1>2. <<>> \in Seq(FunBlocks)
    BY EmptySeq
<1>3. 0 \in 0..Len(prog.body[Entry])
    BY <1>1, ProgTypes
<1> QED BY <1>1, <1>2, <1>3, ProgTypes DEF SInit, Init, STypeOK, TypeOK

\* Every step of the checker keeps its state well typed.
LEMMA CheckType ==
    ASSUME TypeOK, Next
    PROVE  TypeOK'
<1> USE DEF TypeOK
<1> prog' = prog /\ FunBlocks' = FunBlocks
    BY DEF Next, EscapeFound, EscapeClean, TransferError, TransferOk, Propagate,
           PropagateDone, Finish, FunBlocks
<1>1. CASE EscapeFound
    <2>1. reports' \subseteq FunBlocks \X (Nat \ {0})
        <3>1. PICK j \in 1..Len(prog.blocks) :
                 \E i \in Refs(prog, prog.blocks[j]) : reports' = {<<prog.blocks[j], i>>}
            BY <1>1 DEF EscapeFound
        <3>2. prog.blocks[j] \in FunBlocks
            BY DEF FunBlocks, Elems
        <3>3. Refs(prog, prog.blocks[j]) \subseteq Nat \ {0}
            BY <3>2, ProgTypes DEF Refs
        <3> QED BY <3>1, <3>2, <3>3
    <2> QED BY <1>1, <2>1 DEF EscapeFound
<1>2. CASE EscapeClean
    BY <1>2, ProgTypes DEF EscapeClean
<1>3. CASE TransferError
    <2>1. Head(work) \in FunBlocks /\ Tail(work) \in Seq(FunBlocks)
        BY <1>3, ElemsHeadTail DEF TransferError
    <2>2. Faults(prog.body[Head(work)], inState[Head(work)]) \subseteq Nat \ {0}
        BY <2>1, ProgTypes DEF Faults
    <2> QED BY <1>3, <2>1, <2>2 DEF TransferError
<1>4. CASE TransferOk
    <2>1. Head(work) \in FunBlocks /\ Tail(work) \in Seq(FunBlocks)
        BY <1>4, ElemsHeadTail DEF TransferOk
    <2>2. Out(prog, Head(work), inState[Head(work)]) \subseteq Locals
        BY DEF Out, MovedAfter
    <2> QED BY <1>4, <2>1, <2>2, ProgTypes DEF TransferOk
<1>5. CASE Propagate
    <2>1. Head(pending) \in FunBlocks /\ Tail(pending) \in Seq(FunBlocks)
        BY <1>5, ElemsHeadTail DEF Propagate
    <2>2. work' \in Seq(FunBlocks)
        BY <1>5, <2>1, ElemsAppend DEF Propagate
    <2>3. inState' \in [Blocks -> SUBSET Locals]
        BY <1>5, <2>1, ProgTypes DEF Propagate
    <2> QED BY <1>5, <2>1, <2>2, <2>3 DEF Propagate
<1>6. CASE PropagateDone
    BY <1>6 DEF PropagateDone
<1>7. CASE Finish
    BY <1>7 DEF Finish
<1> QED BY <1>1, <1>2, <1>3, <1>4, <1>5, <1>6, <1>7 DEF Next

\* So does every step of the checker or of the execution.
LEMMA NextType ==
    ASSUME STypeOK, [SNext]_svars
    PROVE  STypeOK'
<1>1. TypeOK' /\ prog' = prog /\ FunBlocks' = FunBlocks
    <2>1. CASE Check
        <3>1. prog' = prog
            BY <2>1 DEF Check, Next, EscapeFound, EscapeClean, TransferError, TransferOk,
                        Propagate, PropagateDone, Finish
        <3> QED BY <2>1, <3>1, CheckType DEF Check, STypeOK, FunBlocks
    <2>2. CASE UNCHANGED vars
        BY <2>2 DEF vars, STypeOK, TypeOK, FunBlocks
    <2> QED BY <2>1, <2>2 DEF SNext, Step, Jump, svars
<1>2. CASE Check \/ UNCHANGED svars
    BY <1>1, <1>2 DEF Check, evars, svars, STypeOK
<1>3. CASE Step
    <2>1. idx + 1 \in 0..Len(prog.body[at])
        BY <1>3, ProgTypes DEF Step, STypeOK, TypeOK
    <2> QED BY <1>1, <1>3, <2>1 DEF Step, STypeOK
<1>4. CASE Jump
    <2>1. at' \in FunBlocks
        BY <1>4, ProgTypes DEF Jump, STypeOK, TypeOK
    <2>2. 0 \in 0..Len(prog.body[at'])
        BY <2>1, ProgTypes DEF STypeOK, TypeOK
    <2> QED BY <1>1, <1>4, <2>1, <2>2 DEF Jump, STypeOK
<1> QED BY <1>2, <1>3, <1>4 DEF SNext

\* The state of the checker and of the execution always has its type.
THEOREM TypeCorrect == SSpec => []STypeOK
<1>1. SInit => STypeOK
    BY InitType
<1>2. STypeOK /\ [SNext]_svars => STypeOK'
    BY NextType
<1> QED BY <1>1, <1>2, PTL DEF SSpec

-----------------------------------------------------------------------------
(* The checker keeps CheckInv. *)

\* Nothing has been claimed of any block before the first step.
LEMMA InitCheck == SInit => CheckInv
BY DEF SInit, Init, CheckInv, NoRefInv, FlowInv, PropagateInv, AcceptInv

\* A step that leaves the in states alone leaves the stable blocks stable.
LEMMA StableUnchanged ==
    ASSUME prog' = prog, inState' = inState, NEW b
    PROVE  Stable(b)' <=> Stable(b)
BY DEF Stable

\* Merging an out state into a successor settles no block's account twice:
\* a block other than the successor stays stable, and the successor itself
\* is queued unless it learnt nothing.
LEMMA PropagateSettled ==
    ASSUME TypeOK, Propagate, NEW b \in FunBlocks, Settled(b)
    PROVE  Settled(b)'
<1> DEFINE s == Head(pending)
<1> USE DEF TypeOK
<1>1. /\ s \in FunBlocks /\ s \in Blocks /\ b \in Blocks
      /\ \A t \in FunBlocks : t \in Blocks
    BY ElemsHeadTail, ProgTypes DEF Propagate
<1>2. prog' = prog
    BY DEF Propagate
<1>3. CASE outState \subseteq inState[s]
    <2>1. inState' = inState /\ work' = work
        BY <1>1, <1>3 DEF Propagate
    <2> QED BY <2>1, <1>2, StableUnchanged DEF Settled
<1>4. CASE ~(outState \subseteq inState[s])
    <2>1. Elems(work') = Elems(work) \cup {s}
        BY <1>1, <1>4, ElemsAppend DEF Propagate
    <2>2. CASE b \in Elems(work) \/ b = s
        BY <2>1, <2>2 DEF Settled
    <2>3. CASE Stable(b) /\ b # s
        <3>1. inState'[b] = inState[b]
            BY <1>1, <2>3 DEF Propagate
        <3>2. \A t \in FunBlocks : inState[t] \subseteq inState'[t]
            BY <1>1 DEF Propagate
        <3>3. Elems(prog.succs[b]) \subseteq FunBlocks
            BY ProgTypes
        <3>4. Stable(b)'
            BY <1>2, <2>3, <3>1, <3>2, <3>3 DEF Stable
        <3> QED BY <3>4 DEF Settled
    <2> QED BY <2>2, <2>3 DEF Settled
<1> QED BY <1>3, <1>4

\* Every step of the checker keeps the accounts of the blocks in order.
LEMMA CheckStep ==
    ASSUME TypeOK, CheckInv, Next
    PROVE  CheckInv'
<1> USE DEF CheckInv
<1>0. prog' = prog /\ FunBlocks' = FunBlocks
    BY DEF Next, EscapeFound, EscapeClean, TransferError, TransferOk, Propagate,
           PropagateDone, Finish, FunBlocks
<1>1. CASE EscapeFound
    BY <1>1 DEF EscapeFound, NoRefInv, FlowInv, PropagateInv, AcceptInv
<1>2. CASE EscapeClean
    <2>1. NoRefInv'
        BY <1>0, <1>2 DEF EscapeClean, NoRefInv
    <2>2. FlowInv'
        <3>1. Elems(work') = FunBlocks
            BY <1>2 DEF EscapeClean, FunBlocks
        <3> QED BY <1>0, <3>1 DEF FlowInv, Settled
    <2> QED BY <1>2, <2>1, <2>2 DEF EscapeClean, PropagateInv, AcceptInv
<1>3. CASE TransferError
    <2>1. hadError' /\ phase' = phase
        BY <1>3 DEF TransferError
    <2>2. NoRefInv'
        BY <1>0, <2>1 DEF NoRefInv
    <2> QED BY <1>3, <2>1, <2>2 DEF TransferError, FlowInv, PropagateInv, AcceptInv
<1>4. CASE TransferOk
    <2> DEFINE b == Head(work)
    <2>1. /\ b \in FunBlocks
          /\ Elems(work) = {b} \cup Elems(work')
          /\ inState' = inState /\ cur' = b /\ hadError' = hadError /\ phase = "flow"
          /\ phase' = "propagate"
        BY <1>4, ElemsHeadTail DEF TransferOk, TypeOK
    <2>2. NoRefInv'
        BY <1>0, <2>1 DEF NoRefInv
    <2>3. ASSUME ~hadError, NEW c \in FunBlocks, c # b
          PROVE  Settled(c)'
        BY <1>0, <2>1, <2>3, StableUnchanged DEF FlowInv, Settled
    <2>4. /\ Faults(prog'.body[cur'], inState'[cur']) = {}
          /\ outState' = Out(prog', cur', inState'[cur'])
          /\ \A s \in Elems(prog'.succs[cur']) : s \in Elems(pending')
        BY <1>0, <1>4, <2>1 DEF TransferOk
    <2>5. PropagateInv'
        BY <1>0, <2>1, <2>3, <2>4 DEF PropagateInv
    <2> QED BY <2>1, <2>2, <2>5 DEF FlowInv, AcceptInv
<1>5. CASE Propagate
    <2> DEFINE s == Head(pending)
    <2>1. /\ s \in FunBlocks /\ s \in Blocks
          /\ Elems(pending) = {s} \cup Elems(pending')
          /\ phase = "propagate" /\ phase' = "propagate"
          /\ cur' = cur /\ outState' = outState /\ hadError' = hadError
        BY <1>5, ElemsHeadTail, ProgTypes DEF Propagate, TypeOK
    <2>2. NoRefInv'
        BY <1>0, <2>1 DEF NoRefInv
    <2>3. SUFFICES ASSUME ~hadError PROVE PropagateInv'
        BY <2>1, <2>2 DEF PropagateInv, FlowInv, AcceptInv
    <2>4. \A b \in FunBlocks : b # cur => Settled(b)'
        BY <1>5, <2>1, <2>3, PropagateSettled DEF PropagateInv
    <2>5. /\ cur \in FunBlocks /\ \A t \in FunBlocks : t \in Blocks
          /\ Elems(prog.succs[cur]) \subseteq FunBlocks
        BY ProgTypes DEF TypeOK
    <2>6. \/ cur \in Elems(work')
          \/ /\ Faults(prog.body[cur], inState'[cur]) = {}
             /\ outState = Out(prog, cur, inState'[cur])
        <3>1. CASE outState \subseteq inState[s]
            <4>1. inState' = inState /\ work' = work
                BY <1>5, <2>1, <3>1 DEF Propagate, TypeOK
            <4> QED BY <2>1, <2>3, <4>1 DEF PropagateInv
        <3>2. CASE ~(outState \subseteq inState[s])
            <4>1. Elems(work') = Elems(work) \cup {s}
                BY <1>5, <2>1, <3>2, ElemsAppend DEF Propagate, TypeOK
            <4>2. cur # s => inState'[cur] = inState[cur]
                BY <1>5, <2>1, <2>5 DEF Propagate, TypeOK
            <4> QED BY <2>1, <2>3, <4>1, <4>2 DEF PropagateInv
        <3> QED BY <3>1, <3>2
    <2>7. \A t \in Elems(prog.succs[cur]) :
             t \in Elems(pending') \/ outState \subseteq inState'[t]
        <3>1. \A t \in FunBlocks : inState[t] \subseteq inState'[t]
            BY <1>5, <2>5 DEF Propagate, TypeOK
        <3>2. outState \subseteq inState'[s]
            BY <1>5, <2>1 DEF Propagate, TypeOK
        <3> QED BY <2>1, <2>3, <2>5, <3>1, <3>2 DEF PropagateInv
    <2> QED BY <1>0, <2>1, <2>4, <2>6, <2>7 DEF PropagateInv
<1>6. CASE PropagateDone
    <2>1. /\ phase = "propagate" /\ phase' = "flow" /\ pending = <<>>
          /\ work' = work /\ inState' = inState /\ hadError' = hadError
        BY <1>6 DEF PropagateDone
    <2>2. NoRefInv'
        BY <1>0, <2>1 DEF NoRefInv
    <2>3. ASSUME ~hadError, NEW b \in FunBlocks
          PROVE  Settled(b)
        BY <2>1, <2>3, ElemsEmpty DEF PropagateInv, Settled, Stable
    <2>4. FlowInv'
        BY <1>0, <2>1, <2>3, StableUnchanged DEF FlowInv, Settled
    <2> QED BY <2>1, <2>2, <2>4 DEF PropagateInv, AcceptInv
<1>7. CASE Finish
    <2>1. /\ phase = "flow" /\ work = <<>> /\ inState' = inState
          /\ phase' = IF hadError THEN "rejected" ELSE "accepted"
        BY <1>7 DEF Finish
    <2>2. NoRefInv'
        BY <1>0, <2>1 DEF NoRefInv
    <2>3. AcceptInv'
        BY <1>0, <2>1, ElemsEmpty, StableUnchanged DEF FlowInv, AcceptInv, Settled, TypeOK
    <2> QED BY <2>1, <2>2, <2>3 DEF FlowInv, PropagateInv
<1> QED BY <1>1, <1>2, <1>3, <1>4, <1>5, <1>6, <1>7 DEF Next

-----------------------------------------------------------------------------
(* An execution follows the accounts. *)

\* One event: what it uses was not moved, and what it moves is accounted for.
LEMMA StepCovered ==
    ASSUME STypeOK, CheckInv, RunInv, Step
    PROVE  RunInv'
<1> DEFINE es == prog.body[at]
           S  == inState[at]
           e  == es[idx + 1]
<1> SUFFICES ASSUME Visible(prog)
             PROVE  moved' \subseteq MovedAfter(es, idx + 1, S) /\ ~fault'
    BY DEF RunInv, Step, vars
<1>1. /\ at \in FunBlocks /\ at \in Blocks /\ S \in SUBSET Locals
      /\ es \in Seq(Event) /\ Len(es) \in Nat /\ idx \in Nat
      /\ idx + 1 \in 1..Len(es)
      /\ moved \in SUBSET Locals /\ phase = "accepted"
    BY ProgTypes DEF STypeOK, TypeOK, Step
<1>2. e.op \in {"move", "copy", "init"}
    <2>1. e \in Event
        BY <1>1, ElementOfSeq
    <2>2. e.op \notin {"opaque", "peek"}
        BY <1>1 DEF Visible, FunBlocks
    <2>3. idx + 1 \notin Refs(prog, at)
        BY <1>1 DEF CheckInv, NoRefInv
    <2> QED BY <1>1, <2>1, <2>2, <2>3 DEF Event, Ops, Refs
<1>3. /\ moved \subseteq MovedAfter(es, idx, S) /\ ~fault
      /\ Faults(es, S) = {}
    BY <1>1 DEF RunInv, CheckInv, AcceptInv, Stable
<1>4. ASSUME NEW l \in moved, ReallyUses(e, l)
      PROVE  FALSE
    <2>1. Uses(e, l) /\ l \in Locals /\ l \in MovedAfter(es, (idx + 1) - 1, S)
        BY <1>1, <1>2, <1>3, <1>4 DEF ReallyUses, Uses
    <2> QED BY <1>1, <1>3, <2>1 DEF Faults
<1>5. ~fault'
    BY <1>3, <1>4 DEF Step
<1>6. moved' \subseteq MovedAfter(es, idx + 1, S)
    <2>1. \A l \in Locals :
             l \in MovedAfter(es, idx + 1, S) <=>
                \/ Moves(e, l)
                \/ l \in MovedAfter(es, idx, S) /\ ~Inits(e, l)
        BY <1>1, MovedStep
    <2>2. \A l \in Locals : ReallyMoves(e, l) => Moves(e, l)
        BY <1>2 DEF ReallyMoves, Moves
    <2>3. moved' = {l \in Locals : ReallyMoves(e, l) \/ (l \in moved /\ ~Inits(e, l))}
        BY DEF Step
    <2> QED BY <1>3, <2>1, <2>2, <2>3
<1> QED BY <1>5, <1>6

\* One edge: the out state of the block left is within the in state of the
\* block entered.
LEMMA JumpCovered ==
    ASSUME STypeOK, CheckInv, RunInv, Jump
    PROVE  RunInv'
<1> SUFFICES ASSUME Visible(prog)
             PROVE  moved' \subseteq MovedAfter(prog.body[at'], 0, inState[at']) /\ ~fault'
    BY DEF RunInv, Jump, vars
<1>1. /\ at \in FunBlocks /\ phase = "accepted" /\ idx = Len(prog.body[at])
      /\ prog.hidden[at] = {} /\ moved' \subseteq moved /\ fault' = fault
      /\ at' \in Elems(prog.succs[at])
    BY DEF STypeOK, Jump, Visible, FunBlocks
<1>2. moved \subseteq Out(prog, at, inState[at]) /\ ~fault
    BY <1>1 DEF RunInv, Out
<1>3. Out(prog, at, inState[at]) \subseteq inState[at']
    BY <1>1 DEF CheckInv, AcceptInv, Stable
<1>4. MovedAfter(prog.body[at'], 0, inState[at']) = inState[at']
    <2>1. at' \in Blocks /\ inState[at'] \in SUBSET Locals
        BY <1>1, ProgTypes DEF STypeOK, TypeOK
    <2> QED BY <2>1, MovedNone
<1> QED BY <1>1, <1>2, <1>3, <1>4

\* A step of the checker finds the execution not yet begun and leaves it so.
LEMMA CheckCovered ==
    ASSUME STypeOK, RunInv, Check
    PROVE  RunInv'
<1>1. phase # "accepted" /\ prog' = prog /\ UNCHANGED evars
    BY DEF Check, Next, EscapeFound, EscapeClean, TransferError, TransferOk,
           Propagate, PropagateDone, Finish
<1>2. at' = Entry' /\ idx' = 0 /\ moved' = {} /\ ~fault'
    BY <1>1 DEF RunInv, evars, Entry
<1> QED BY <1>2 DEF RunInv

\* IInv holds at the start.
LEMMA InitIInv == SInit => IInv
<1> SUFFICES ASSUME SInit PROVE IInv
    OBVIOUS
<1>1. RunInv
    BY DEF SInit, Init, RunInv
<1> QED BY <1>1, InitType, InitCheck DEF IInv

\* IInv is inductive.
LEMMA NextIInv ==
    ASSUME IInv, [SNext]_svars
    PROVE  IInv'
<1> USE DEF IInv
<1>1. STypeOK'
    BY NextType
<1>2. CheckInv' /\ RunInv'
    <2>1. CASE Check
        BY <2>1, CheckStep, CheckCovered DEF Check, STypeOK
    <2>2. CASE UNCHANGED vars
        <3>1. CheckInv'
            <4>1. \A b \in FunBlocks : Stable(b)' = Stable(b) /\ Settled(b)' = Settled(b)
                BY <2>2 DEF vars, Stable, Settled
            <4> QED BY <2>2, <4>1 DEF CheckInv, NoRefInv, FlowInv, PropagateInv,
                                      AcceptInv, vars, FunBlocks
        <3>2. CASE Step
            BY <3>1, <3>2, StepCovered
        <3>3. CASE Jump
            BY <3>1, <3>3, JumpCovered
        <3>4. CASE UNCHANGED svars
            BY <3>1, <3>4 DEF svars, evars, vars, RunInv, Entry
        <3>5. CASE Check
            BY <2>1, <3>5
        <3> QED BY <3>2, <3>3, <3>4, <3>5 DEF SNext
    <2> QED BY <2>1, <2>2 DEF SNext, Step, Jump, svars
<1> QED BY <1>1, <1>2

\* The inductive invariant holds in every reachable state.
THEOREM Invariance == SSpec => []IInv
<1>1. SInit => IInv
    BY InitIInv
<1>2. IInv /\ [SNext]_svars => IInv'
    BY NextIInv
<1> QED BY <1>1, <1>2, PTL DEF SSpec

\* A function the checker accepts never uses a moved local, whichever path
\* it takes, if the checker looks at all its operands and edges.
THEOREM Soundness == SSpec => []AcceptedIsSafe
<1>1. IInv => AcceptedIsSafe
    BY DEF IInv, RunInv, AcceptedIsSafe
<1> QED BY <1>1, Invariance, PTL

\* At every point of every execution of an accepted function, what has been
\* moved is among what the checker computed for that point.
THEOREM Coverage == SSpec => []AnalysisCoversRun
<1>1. IInv => AnalysisCoversRun
    BY DEF IInv, RunInv, AnalysisCoversRun
<1> QED BY <1>1, Invariance, PTL

-----------------------------------------------------------------------------
(* The may-moved equations. *)

\* More locals moved before a block, more of its events are faults.
LEMMA FaultsMonotone ==
    ASSUME NEW es, NEW S, NEW T, S \subseteq T
    PROVE  Faults(es, S) \subseteq Faults(es, T)
BY MovedMonotone DEF Faults

\* The least solution is within every solution, block by block.
LEMMA LeastIsLeast ==
    ASSUME NEW p \in Programs, NEW M \in Solutions(p), NEW b \in Blocks
    PROVE  MayMoved[p][b] \subseteq M[b]
BY DEF MayMoved, Least

\* The least solution is a solution: the equations are closed under
\* intersection.
LEMMA LeastIsSolution ==
    ASSUME NEW p \in Programs
    PROVE  MayMoved[p] \in Solutions(p)
<1> DEFINE L == MayMoved[p]
<1>1. L \in [Blocks -> SUBSET Locals]
    BY DEF MayMoved, Least
<1>2. /\ Elems(p.blocks) \subseteq Blocks
      /\ \A b \in Elems(p.blocks) : Elems(p.succs[b]) \subseteq Blocks
    <2>1. p \in Program /\ WellFormed(p)
        BY ProgramsAssumption
    <2>2. Elems(p.blocks) \subseteq Blocks
        BY <2>1, ElementOfSeq DEF Program, Elems
    <2> QED BY <2>1, <2>2 DEF WellFormed
<1>3. ASSUME NEW b \in Elems(p.blocks), NEW s \in Elems(p.succs[b]),
             NEW l \in Out(p, b, L[b])
      PROVE  l \in L[s]
    <2>1. b \in Blocks /\ s \in Blocks /\ l \in Locals
        BY <1>2 DEF Out, MovedAfter
    <2>2. ASSUME NEW M \in Solutions(p)
          PROVE  l \in M[s]
        <3>1. L[b] \subseteq M[b]
            BY <2>1, LeastIsLeast
        <3>2. Out(p, b, L[b]) \subseteq Out(p, b, M[b])
            BY <3>1, MovedMonotone DEF Out
        <3> QED BY <3>2 DEF Solutions
    <2> QED BY <2>1, <2>2 DEF MayMoved, Least
<1> QED BY <1>1, <1>3 DEF Solutions

-----------------------------------------------------------------------------
(* The inductive invariant. *)

\* What the checker has computed, and what it is about to merge, is within
\* the least solution.
Within ==
    /\ \A b \in FunBlocks : inState[b] \subseteq MayMoved[prog][b]
    /\ phase = "propagate" =>
          \A s \in Elems(pending) : outState \subseteq MayMoved[prog][s]

\* An error was reported for a reason, and a function without references is
\* rejected for no other.
Reported ==
    /\ hadError => UseAfterMove(prog)
    /\ phase = "rejected" /\ NoRefs(prog) => hadError

EInv == Within /\ Reported

LEMMA InitEInv == SInit => EInv
<1> SUFFICES ASSUME SInit PROVE EInv
    OBVIOUS
<1>1. \A b \in FunBlocks : inState[b] = {}
    <2>1. FunBlocks \subseteq Blocks
        BY ProgTypes DEF SInit, Init
    <2> QED BY <2>1 DEF SInit, Init
<1> QED BY <1>1 DEF SInit, Init, EInv, Within, Reported

\* Every step of the checker stays within the least solution.
LEMMA CheckEInv ==
    ASSUME TypeOK, EInv, Next
    PROVE  EInv'
<1> USE DEF EInv
<1>0. /\ prog' = prog /\ FunBlocks' = FunBlocks
      /\ prog \in Programs
      /\ NoRefs(prog)' = NoRefs(prog) /\ UseAfterMove(prog)' = UseAfterMove(prog)
      /\ MayMoved' = MayMoved
    BY DEF Next, EscapeFound, EscapeClean, TransferError, TransferOk, Propagate,
           PropagateDone, Finish, FunBlocks, TypeOK
<1>1. CASE EscapeFound
    <2>1. ~NoRefs(prog)
        BY <1>1 DEF EscapeFound, NoRefs, Elems
    <2> QED BY <1>0, <1>1, <2>1 DEF EscapeFound, Within, Reported
<1>2. CASE EscapeClean
    BY <1>0, <1>2 DEF EscapeClean, Within, Reported
<1>3. CASE TransferError
    <2> DEFINE b == Head(work)
    <2>1. b \in FunBlocks
        BY <1>3, ElemsHeadTail DEF TransferError, TypeOK
    <2>2. Faults(prog.body[b], MayMoved[prog][b]) # {}
        BY <1>3, <2>1, FaultsMonotone DEF TransferError, Within
    <2>3. UseAfterMove(prog)
        BY <2>1, <2>2 DEF UseAfterMove, FunBlocks
    <2> QED BY <1>0, <1>3, <2>3 DEF TransferError, Within, Reported
<1>4. CASE TransferOk
    <2> DEFINE b == Head(work)
    <2>1. b \in FunBlocks /\ inState' = inState /\ pending' = prog.succs[b]
        BY <1>4, ElemsHeadTail DEF TransferOk, TypeOK
    <2>2. outState' = Out(prog, b, inState[b])
        BY <1>4 DEF TransferOk
    <2>3. outState' \subseteq Out(prog, b, MayMoved[prog][b])
        BY <2>1, <2>2, MovedMonotone DEF Within, Out
    <2>4. \A s \in Elems(prog.succs[b]) :
             Out(prog, b, MayMoved[prog][b]) \subseteq MayMoved[prog][s]
        BY <1>0, <2>1, LeastIsSolution DEF Solutions, FunBlocks
    <2>5. Within'
        BY <1>0, <2>1, <2>3, <2>4 DEF Within
    <2> QED BY <1>0, <1>4, <2>5 DEF TransferOk, Reported
<1>5. CASE Propagate
    <2> DEFINE s == Head(pending)
    <2>1. /\ s \in FunBlocks /\ FunBlocks \subseteq Blocks
          /\ Elems(pending) = {s} \cup Elems(pending')
          /\ phase = "propagate" /\ phase' = phase
          /\ outState' = outState /\ hadError' = hadError
        BY <1>5, ElemsHeadTail, ProgTypes DEF Propagate, TypeOK
    <2>2. outState \subseteq MayMoved[prog][s]
        BY <2>1 DEF Within
    <2>3. \A b \in FunBlocks :
             inState'[b] = IF b = s THEN inState[b] \cup outState ELSE inState[b]
        BY <1>5, <2>1 DEF Propagate, TypeOK
    <2>4. Within'
        BY <1>0, <2>1, <2>2, <2>3 DEF Within
    <2> QED BY <1>0, <2>1, <2>4 DEF Reported
<1>6. CASE PropagateDone
    BY <1>0, <1>6 DEF PropagateDone, Within, Reported
<1>7. CASE Finish
    BY <1>0, <1>7 DEF Finish, Within, Reported
<1> QED BY <1>1, <1>2, <1>3, <1>4, <1>5, <1>6, <1>7 DEF Next

\* An execution changes nothing of the checker.
LEMMA NextEInv ==
    ASSUME STypeOK, EInv, [SNext]_svars
    PROVE  EInv'
<1>1. CASE Check
    BY <1>1, CheckEInv DEF Check, STypeOK
<1>2. CASE UNCHANGED vars
    BY <1>2 DEF vars, EInv, Within, Reported, FunBlocks
<1> QED BY <1>1, <1>2 DEF SNext, Step, Jump, svars

THEOREM ExactInvariance == SSpec => [](IInv /\ EInv)
<1>1. SInit => EInv
    BY InitEInv
<1>2. IInv /\ EInv /\ [SNext]_svars => EInv'
    BY NextEInv DEF IInv
<1> QED BY <1>1, <1>2, Invariance, PTL DEF SSpec

-----------------------------------------------------------------------------
(* The verdict. *)

\* The in states of an accepted function are the least solution.
LEMMA AcceptedIsLeast ==
    ASSUME IInv, EInv, phase = "accepted", NEW b \in FunBlocks
    PROVE  inState[b] = MayMoved[prog][b]
<1>1. prog \in Programs /\ inState \in [Blocks -> SUBSET Locals]
    BY DEF IInv, STypeOK, TypeOK
<1>2. inState \in Solutions(prog)
    BY <1>1 DEF IInv, CheckInv, AcceptInv, Stable, Solutions, FunBlocks
<1>3. b \in Blocks
    BY <1>1, ProgTypes
<1>4. MayMoved[prog][b] \subseteq inState[b]
    BY <1>1, <1>2, <1>3, LeastIsLeast
<1> QED BY <1>4 DEF EInv, Within

\* An accepted function was analysed to the least solution of the may-moved
\* equations, whatever the order in which its blocks were queued.
THEOREM Fixpoint == SSpec => []FixpointReached
<1>1. IInv /\ EInv => FixpointReached
    BY AcceptedIsLeast DEF FixpointReached
<1> QED BY <1>1, ExactInvariance, PTL

\* A function without references is rejected exactly when some path of it
\* uses a moved local.
THEOREM Exactness == SSpec => []VerdictIsExact
<1>1. ASSUME IInv, EInv, phase = "accepted"
      PROVE  ~UseAfterMove(prog)
    <2>1. \A b \in FunBlocks : Faults(prog.body[b], MayMoved[prog][b]) = {}
        BY <1>1, AcceptedIsLeast DEF IInv, CheckInv, AcceptInv, Stable
    <2> QED BY <2>1 DEF UseAfterMove, FunBlocks
<1>2. IInv /\ EInv => VerdictIsExact
    BY <1>1 DEF EInv, Reported, VerdictIsExact, Done
<1> QED BY <1>2, ExactInvariance, PTL
=============================================================================
