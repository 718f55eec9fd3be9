------------------------------- MODULE PPEval -------------------------------
(***************************************************************************)
(* The arithmetic of `__if`, `__eval` and `__repeat`: the recursive        *)
(* descent of leaf_preprocessor over a list of tokens.                     *)
(*                                                                         *)
(* A token is [k |-> its kind, s |-> its text, n |-> the number an integer *)
(* stands for, at |-> its span].  The kind of an operator or a bracket is  *)
(* its text.  A span is a number: it tells two tokens of the same text     *)
(* apart, as the comparison of tokens in the code does.                    *)
(*                                                                         *)
(* Each operator takes the list and the index where to start, and gives    *)
(* the value and the index after what it read.  Errors and a division by   *)
(* zero are Fails: both end the compiler, the first in the todo!() of      *)
(* pass.  Numbers stay far below the width of isize.                       *)
(***************************************************************************)
EXTENDS Integers, Sequences

Kind(t, i) == IF i \in DOMAIN t THEN t[i].k ELSE "none"

Fails == [v |-> 0, i |-> 0]
Failed(r) == r.i = 0

Bit(b) == IF b THEN 1 ELSE 0

\* Division of isize, which rounds towards zero.
Quotient(a, b) ==
  LET q == (IF a < 0 THEN -a ELSE a) \div (IF b < 0 THEN -b ELSE b)
  IN IF (a < 0) = (b < 0) THEN q ELSE -q

EvalPrimary(t, i) ==
  IF Kind(t, i) = "int" THEN [v |-> t[i].n, i |-> i + 1] ELSE Fails

EvalUnary(t, i) ==
  LET unary[j \in Nat] ==
        IF Kind(t, j) # "-" THEN EvalPrimary(t, j) ELSE [unary[j + 1] EXCEPT !.v = -@]
  IN unary[i]

Result == [v : Int, i : Nat]

\* The loop of eval_mul_div once its left operand is read.
MulDivAfter(t, first) ==
  LET after[left \in Result] ==
        LET right == EvalUnary(t, left.i + 1)
            times == Kind(t, left.i) = "*"
        IN IF Failed(left) \/ Kind(t, left.i) \notin {"*", "/"} THEN left
           ELSE IF Failed(right) \/ (~times /\ right.v = 0) THEN Fails
           ELSE after[[v |-> IF times THEN left.v * right.v ELSE Quotient(left.v, right.v),
                       i |-> right.i]]
  IN after[first]

EvalMulDiv(t, i) == MulDivAfter(t, EvalUnary(t, i))

AddSubAfter(t, first) ==
  LET after[left \in Result] ==
        LET right == EvalMulDiv(t, left.i + 1)
        IN IF Failed(left) \/ Kind(t, left.i) \notin {"+", "-"} THEN left
           ELSE IF Failed(right) THEN Fails
           ELSE after[[v |-> IF Kind(t, left.i) = "+" THEN left.v + right.v ELSE left.v - right.v,
                       i |-> right.i]]
  IN after[first]

EvalAddSub(t, i) == AddSubAfter(t, EvalMulDiv(t, i))

Comparisons == {"==", "!=", ">", "<", ">=", "<="}

Compare(op, a, b) ==
  \/ op = "==" /\ a = b
  \/ op = "!=" /\ a # b
  \/ op = ">" /\ a > b
  \/ op = "<" /\ a < b
  \/ op = ">=" /\ a >= b
  \/ op = "<=" /\ a <= b

CompareTo(op, left, right) ==
  IF Failed(right) THEN Fails
  ELSE [v |-> Bit(Compare(op, left.v, right.v)), i |-> right.i]

\* One comparison only: `1 < 2 < 3` stops before the second `<`.
ComparisonAfter(t, left) ==
  IF Failed(left) \/ Kind(t, left.i) \notin Comparisons THEN left
  ELSE CompareTo(Kind(t, left.i), left, EvalAddSub(t, left.i + 1))

EvalComparison(t, i) == ComparisonAfter(t, EvalAddSub(t, i))

\* The complement of all bits: `not 0` is -1, which is not > 0.
Complement(r) == IF Failed(r) THEN Fails ELSE [r EXCEPT !.v = -@ - 1]

EvalNot(t, i) ==
  IF Kind(t, i) # "not" THEN EvalComparison(t, i) ELSE Complement(EvalComparison(t, i + 1))

Connect(op, left, right) ==
  IF Failed(right) THEN Fails
  ELSE [v |-> Bit(IF op = "and" THEN left.v # 0 /\ right.v # 0 ELSE left.v # 0 \/ right.v # 0),
        i |-> right.i]

\* One `and` or `or` only: the loop returns after the first.
LogicAfter(t, left) ==
  IF Failed(left) \/ Kind(t, left.i) \notin {"and", "or"} THEN left
  ELSE Connect(Kind(t, left.i), left, EvalNot(t, left.i + 1))

EvalLogic(t, i) == LogicAfter(t, EvalNot(t, i))

\* What follows the expression is ignored.
Eval(t) == EvalLogic(t, 1)
=============================================================================
