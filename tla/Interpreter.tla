----------------------------- MODULE Interpreter ------------------------------
(***************************************************************************)
(* The bytecode interpreter (Machine) on what Lowering emits, compared with *)
(* the structured meaning of the program it was lowered from.               *)
(***************************************************************************)
EXTENDS Structured, Machine

CONSTANT Programs   \* a sequence of programs: functions from names to procedures

ASSUME InterpreterAssumption ==
  \A n \in DOMAIN Programs : "main" \in DOMAIN Programs[n]

Init ==
  /\ prog \in DOMAIN Programs
  /\ module = [p \in DOMAIN Programs[prog] |-> CompileProc(Programs[prog][p])]
  /\ Started

Spec == Init /\ [][Next]_vars

-----------------------------------------------------------------------------
(* Properties. *)

Finished == frames = <<>> /\ queue = <<>>
Asking == Running({"Ask"})

\* Whenever the bytecode waits for an answer, or everything has ended, the
\* structured meaning of the program, given the same answers, has shown the
\* same outputs and the same ends of threads, and waits or has ended as well:
\* jumps, patch lists, slots, the fused list header, handlers and unwinding
\* lose nothing and add nothing.
SameBehaviour ==
  Asking \/ Finished =>
    LET r == Meaning(Programs[prog], asked)
    IN  trace = r.m.trace /\ Finished = (r.sig = "ok")

\* The depths of the operand stack that data flow finds from d: at each point
\* reached, whatever one of its predecessors leaves.
RECURSIVE Flow(_, _)
Flow(code, d) ==
  LET reached == UNION {{<<m, d[n] - Takes(code[n]) + Leaves(code[n])>> :
                            m \in Successors(code, n)} \cup
                        {<<m, 0>> : m \in Entries(code[n])} : n \in DOMAIN d}
      new == {r[1] : r \in reached} \ DOMAIN d
  IN  IF new \cap DOMAIN code = {} THEN d
      ELSE Flow(code, [n \in DOMAIN d \cup (new \cap DOMAIN code) |->
             IF n \in DOMAIN d THEN d[n] ELSE (CHOOSE r \in reached : r[1] = n)[2]])

\* The code loaded when execution starts, as the lowering emitted it, is
\* verified code, so the machine's theorems are about it: on every path to an
\* instruction the same operands are on the stack, whichever construct
\* interrupted which, no jump enters a try from outside, and the end of a try is
\* inside it and no other that it encloses.
LoweringIsVerified ==
  Started => Verified(module, [p \in DOMAIN module |-> Flow(module[p].code, [n \in {1} |-> 0])])

=============================================================================
