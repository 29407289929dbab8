-------------------------------- MODULE Values --------------------------------
(***************************************************************************)
(* The values of DM as far as control depends on them, and the parameters   *)
(* that the meaning of a program (Structured) and its execution (Machine)   *)
(* share.  A value is a number, Null or a list of values.                   *)
(***************************************************************************)
EXTENDS Integers

CONSTANTS
  Null,
  Fail,        \* the answer of a native operation that raises a runtime
  StackTrace,  \* the procedure whose CRASH ends it and nothing else
  MaxDepth     \* ExecutionLimits.max_call_depth

Truthy(v) == v # Null /\ v # 0
Number(v) == IF v = Null THEN 0 ELSE v
Bit(b) == IF b THEN 1 ELSE 0

Operate(op, a, b) ==
  CASE op = "Add" -> Number(a) + Number(b)
    [] op = "LessEqual" -> Bit(Number(a) <= Number(b))
    [] op = "GreaterEqual" -> Bit(Number(a) >= Number(b))
    [] op = "Less" -> Bit(Number(a) < Number(b))
    [] op = "Equal" -> Bit(a = b)
    [] op = "And" -> Bit(Truthy(a) /\ Truthy(b))
    [] op = "Or" -> Bit(Truthy(a) \/ Truthy(b))

=============================================================================
