---------------------------- MODULE PromisedRun ----------------------------
(***************************************************************************)
(* What a run of a program looks like from outside: the program is         *)
(* rejected, or it gives values to external functions, one after the       *)
(* other, and ends, all as it promises.                                    *)
(***************************************************************************)
EXTENDS Integers, Sequences

VARIABLES promise,    \* [k, v, out]: how it ends, with which value, after which calls
          said,       \* the calls of external functions so far
          outcome     \* [k, v], of kind "none" while it runs

vars == <<promise, said, outcome>>

Running == outcome.k = "none"

Init == said = <<>> /\ Running

Reject ==
    /\ Running /\ said = <<>>
    /\ outcome' = [outcome EXCEPT !.k = "rejected"]
    /\ UNCHANGED <<promise, said>>

Say ==
    /\ Running
    /\ Len(said) < Len(promise.out)
    /\ said' = Append(said, promise.out[Len(said) + 1])
    /\ UNCHANGED <<promise, outcome>>

End ==
    /\ Running /\ said = promise.out
    /\ outcome' = [k |-> promise.k, v |-> promise.v]
    /\ UNCHANGED <<promise, said>>

Next == Reject \/ Say \/ End

Spec == Init /\ [][Next]_vars

=============================================================================
