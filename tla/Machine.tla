------------------------------- MODULE Machine --------------------------------
(***************************************************************************)
(* The bytecode interpreter's control (dm-vm/src/execution/interpreter.rs,  *)
(* run.rs, frame.rs): frames, operand stacks, local slots, exception        *)
(* handlers, calls, spawned threads and the unwinding of runtime failures.  *)
(* It executes any module; Interpreter runs it on what Lowering emits.      *)
(*                                                                         *)
(* A native operation is the instruction Ask: the environment answers with  *)
(* a value or with Fail, the failure every instruction can raise.  Spawned  *)
(* threads run after the thread that spawned them, in order (the Scheduler  *)
(* module is about when).                                                   *)
(***************************************************************************)
EXTENDS Values, Sequences, SequencesExt

CONSTANTS
  Answers,    \* what a native operation may answer, Fail included
  MaxAsks     \* bound: how many answers one run may take

ASSUME MachineAssumption ==
  /\ MaxDepth \in Nat \ {0}
  /\ MaxAsks \in Nat

VARIABLES
  prog,     \* which program runs; the machine does not look at it
  module,   \* its procedures, compiled
  frames,   \* the running thread's call frames, the innermost last
  queue,    \* the frames of the threads waiting to run
  asked,    \* the answers so far
  trace     \* what an observer sees: outputs, and how each thread ended

loaded == <<prog, module>>
vars == <<loaded, frames, queue, asked, trace>>

-----------------------------------------------------------------------------
(* Frames. *)

\* make_frame: parameters are bound, the other slots are null.
MakeFrame(p, args) ==
  LET m == module[p]
  IN  [proc |-> p, pc |-> 1, stack |-> <<>>, dot |-> Null, handlers |-> <<>>,
       locals |-> [n \in 1..m.slots |-> IF n <= Len(args) /\ n <= m.params
                                        THEN args[n] ELSE Null],
       supplied |-> {n \in 1..m.params : n <= Len(args)}]

Top == Last(frames)
Code == module[Top.proc].code
Instr == Code[Top.pc]
Running(ops) == frames # <<>> /\ Top.pc \in DOMAIN Code /\ Instr.op \in ops

WithTop(f) == [frames EXCEPT ![Len(frames)] = f]
Advance(f) == [f EXCEPT !.pc = @ + 1]
Pop(f, n) == [f EXCEPT !.stack = SubSeq(@, 1, Len(@) - n)]
PushOn(f, v) == [f EXCEPT !.stack = Append(@, v)]
Operand(f, n) == f.stack[Len(f.stack) - n]    \* Operand(f, 0) is the top

Step(f) == frames' = WithTop(f)

-----------------------------------------------------------------------------
(* Failures. *)

\* find_active_exception_handler in one frame: the last handler whose
\* protected range covers the frame's instruction; 0 when there is none.
Covering(f) ==
  {n \in DOMAIN f.handlers : f.handlers[n].start <= f.pc /\ f.pc <= f.handlers[n].end}

Selected(f) ==
  IF Covering(f) = {} THEN 0 ELSE CHOOSE n \in Covering(f) : \A o \in Covering(f) : o <= n

Catching(fs) == {n \in DOMAIN fs : Selected(fs[n]) # 0}

\* Mutants: the operands of the interrupted expression stay on the stack; all
\* handlers of the frame go with the one selected.
DeliverDirty(f, v) ==
  LET n == Selected(f)
      h == f.handlers[n]
  IN  [f EXCEPT !.handlers = SubSeq(@, 1, n - 1), !.pc = h.catch,
         !.locals = [s \in DOMAIN @ |-> IF h.slot # <<>> /\ s = h.slot[1] THEN v ELSE @[s]]]
DeliverClearing(f, v) ==
  LET n == Selected(f)
      h == f.handlers[n]
  IN  [f EXCEPT !.handlers = <<>>, !.pc = h.catch, !.stack = SubSeq(@, 1, h.depth),
         !.locals = [s \in DOMAIN @ |-> IF h.slot # <<>> /\ s = h.slot[1] THEN v ELSE @[s]]]

\* deliver_to_exception_handler.
Deliver(f, v) ==
  LET n == Selected(f)
      h == f.handlers[n]
  IN  [f EXCEPT !.handlers = SubSeq(@, 1, n - 1), !.pc = h.catch,
         !.stack = SubSeq(@, 1, h.depth),
         !.locals = [s \in DOMAIN @ |-> IF h.slot # <<>> /\ s = h.slot[1] THEN v ELSE @[s]]]

\* finish_frame: the caller gets the value and goes on after its call; the
\* thread ends with its outermost frame.
FinishFrame(fs, v) ==
  IF Len(fs) = 1
  THEN frames' = <<>> /\ trace' = Append(trace, [what |-> "end", v |-> v])
  ELSE /\ frames' = [Front(fs) EXCEPT ![Len(fs) - 1] = Advance(PushOn(@, v))]
       /\ UNCHANGED trace

Fatal == frames' = <<>> /\ trace' = Append(trace, [what |-> "fatal", v |-> Null])

\* unwind_runtime_failure, for a recoverable failure.
Unwind(fs, v) ==
  LET at == CHOOSE n \in Catching(fs) : \A o \in Catching(fs) : o <= n
  IN  IF Catching(fs) # {}
      THEN frames' = Append(SubSeq(fs, 1, at - 1), Deliver(fs[at], v)) /\ UNCHANGED trace
      ELSE IF Len(fs) < 2 THEN Fatal ELSE FinishFrame(fs, Null)

-----------------------------------------------------------------------------
(* Instructions. *)

\* The thread a module starts with.
Started ==
  /\ frames = <<MakeFrame("main", <<>>)>>
  /\ queue = <<>> /\ asked = <<>> /\ trace = <<>>

Load ==
  /\ Running({"Push", "LoadLocal", "LoadResult", "Duplicate"})
  /\ Step(Advance(PushOn(Top, CASE Instr.op = "Push" -> Instr.value
                                [] Instr.op = "LoadLocal" -> Top.locals[Instr.slot]
                                [] Instr.op = "LoadResult" -> Top.dot
                                [] Instr.op = "Duplicate" -> Operand(Top, 0))))
  /\ UNCHANGED <<loaded, queue, asked, trace>>

StoreTop ==
  /\ Running({"StoreLocal", "StoreResult", "Pop"})
  /\ LET f == Advance(Pop(Top, 1))
         v == Operand(Top, 0)
     IN  Step(CASE Instr.op = "StoreLocal" -> [f EXCEPT !.locals[Instr.slot] = v]
                [] Instr.op = "StoreResult" -> [f EXCEPT !.dot = v]
                [] Instr.op = "Pop" -> f)
  /\ UNCHANGED <<loaded, queue, asked, trace>>

Output ==
  /\ Running({"Output"})
  /\ Step(Advance(Pop(Top, 2)))
  /\ trace' = Append(trace, [what |-> "out", v |-> Operand(Top, 0)])
  /\ UNCHANGED <<loaded, queue, asked>>

Operators == {"Add", "LessEqual", "GreaterEqual", "Less", "Equal", "And", "Or"}

Compute ==
  /\ Running(Operators)
  /\ Step(Advance(PushOn(Pop(Top, 2), Operate(Instr.op, Operand(Top, 1), Operand(Top, 0)))))
  /\ UNCHANGED <<loaded, queue, asked, trace>>

Branch ==
  /\ Running({"Jump", "JumpIfFalse", "JumpIfArgumentSupplied"})
  /\ LET taken == CASE Instr.op = "Jump" -> TRUE
                    [] Instr.op = "JumpIfFalse" -> ~Truthy(Operand(Top, 0))
                    [] Instr.op = "JumpIfArgumentSupplied" ->
                         Instr.parameter \in Top.supplied /\ Top.locals[Instr.parameter] # Null
         f == IF Instr.op = "JumpIfFalse" THEN Pop(Top, 1) ELSE Top
     IN  Step(IF taken THEN [f EXCEPT !.pc = Instr.target] ELSE Advance(f))
  /\ UNCHANGED <<loaded, queue, asked, trace>>

\* PrepareIteration leaves a private list; lists are values here.
PrepareIteration ==
  /\ Running({"PrepareIteration"})
  /\ Step(Advance(Top))
  /\ UNCHANGED <<loaded, queue, asked, trace>>

\* The fused header: test, fetch, store, and over the six it stands for.
NextLocalListIteration ==
  /\ Running({"NextLocalListIteration"})
  /\ LET list == Top.locals[Instr.list]
         at == Top.locals[Instr.index]
     IN  Step(IF at > Len(list) THEN [Top EXCEPT !.pc = Instr.exit]
              ELSE [Top EXCEPT !.locals[Instr.item] = list[at], !.pc = @ + 7])
  /\ UNCHANGED <<loaded, queue, asked, trace>>

BeginTry ==
  /\ Running({"BeginTry"})
  /\ Step(Advance([Top EXCEPT !.handlers = Append(@,
       [start |-> Top.pc + 1, end |-> Instr.end, catch |-> Instr.catch,
        slot |-> Instr.slot, depth |-> Len(Top.stack)])]))
  /\ UNCHANGED <<loaded, queue, asked, trace>>

\* EndTry pops the newest handler, whichever it is.
EndTry ==
  /\ Running({"EndTry"})
  /\ Step(Advance([Top EXCEPT !.handlers = Front(@)]))
  /\ UNCHANGED <<loaded, queue, asked, trace>>

\* Throw and Crash pop the value and unwind; the CRASH of the stack-trace
\* helper ends that helper without looking for a handler.
Raise ==
  /\ Running({"Throw", "Crash"})
  /\ LET fs == WithTop(Pop(Top, 1))
         v == Operand(Top, 0)
     IN  IF Instr.op = "Crash" /\ Top.proc = StackTrace THEN FinishFrame(fs, Null)
         ELSE Unwind(fs, v)
  /\ UNCHANGED <<loaded, queue, asked>>

\* A native operation answers, or raises a runtime that unwinds like a throw.
Native ==
  /\ Running({"Ask"})
  /\ Len(asked) < MaxAsks
  /\ \E v \in Answers :
       /\ asked' = Append(asked, v)
       /\ IF v = Fail THEN Unwind(frames, Fail)
          ELSE Step(Advance(PushOn(Top, v))) /\ UNCHANGED trace
  /\ UNCHANGED <<loaded, queue>>

\* A call beyond the depth limit is not recoverable: no handler is asked.
Call ==
  /\ Running({"Call"})
  /\ IF Len(frames) >= MaxDepth THEN Fatal
     ELSE /\ frames' = Append(WithTop(Pop(Top, Instr.count)),
                MakeFrame(Instr.proc, SubSeq(Top.stack, Len(Top.stack) - Instr.count + 1,
                                             Len(Top.stack))))
          /\ UNCHANGED trace
  /\ UNCHANGED <<loaded, queue, asked>>

ReturnFrom ==
  /\ Running({"Return"})
  /\ FinishFrame(frames, Operand(Top, 0))
  /\ UNCHANGED <<loaded, queue, asked>>

\* The spawned thread is a copy of the frame, its stack empty, at the entry.
SpawnThread ==
  /\ Running({"Spawn"})
  /\ Step(Advance(Pop(Top, 1)))
  /\ queue' = Append(queue, [Top EXCEPT !.pc = Instr.target, !.stack = <<>>])
  /\ UNCHANGED <<loaded, asked, trace>>

NextThread ==
  /\ frames = <<>> /\ queue # <<>>
  /\ frames' = <<Head(queue)>> /\ queue' = Tail(queue)
  /\ UNCHANGED <<loaded, asked, trace>>

Next ==
  \/ Load \/ StoreTop \/ Output \/ Compute \/ Branch
  \/ PrepareIteration \/ NextLocalListIteration
  \/ BeginTry \/ EndTry \/ Raise \/ Native
  \/ Call \/ ReturnFrom \/ SpawnThread \/ NextThread

-----------------------------------------------------------------------------
(* What the machine's properties ask of the code it executes.  Nothing below *)
(* is checked at run time but the targets, by module_codec.rs               *)
(* (validate_program); the rest is what the lowering is to keep, statement   *)
(* by statement.                                                            *)

\* The tries whose protected range holds an instruction, by their BeginTry.
Tries(code, pc) ==
  {b \in DOMAIN code : code[b].op = "BeginTry" /\ b < pc /\ pc <= code[b].end}

Targets(i) ==
  CASE i.op = "BeginTry" -> {i.catch, i.end}
    [] i.op \in {"Jump", "JumpIfFalse", "Spawn", "JumpIfArgumentSupplied"} -> {i.target}
    [] OTHER -> {}

\* How many operands an instruction takes from the stack and leaves there.
Takes(i) ==
  CASE i.op \in {"Duplicate", "StoreLocal", "StoreResult", "Pop", "JumpIfFalse",
                 "Throw", "Crash", "Return", "Spawn"} -> 1
    [] i.op \in {"Output"} \cup Operators -> 2
    [] i.op = "Call" -> i.count
    [] OTHER -> 0

Leaves(i) ==
  CASE i.op = "Duplicate" -> 2
    [] i.op \in {"Push", "LoadLocal", "LoadResult", "Ask", "Call"} \cup Operators -> 1
    [] OTHER -> 0

\* Where the frame goes on when the instruction at n succeeds.
Successors(code, n) ==
  LET i == code[n]
  IN  CASE i.op \in {"Throw", "Crash", "Return"} -> {}
        [] i.op = "Jump" -> {i.target}
        [] i.op \in {"JumpIfFalse", "JumpIfArgumentSupplied"} -> {n + 1, i.target}
        [] i.op = "NextLocalListIteration" -> {n + 7, i.exit}
        [] OTHER -> {n + 1}

\* Where a failure, or another thread, goes on with an empty stack.
Entries(i) ==
  CASE i.op = "BeginTry" -> {i.catch}
    [] i.op = "Spawn" -> {i.target}
    [] OTHER -> {}

\* One instruction of code: depth gives, for every instruction that can be
\* reached, the operands on the stack before it.
VerifiedAt(code, depth, n, procs) ==
  LET i == code[n]
  IN  /\ depth[n] \in Nat /\ Takes(i) \in Nat /\ Takes(i) <= depth[n]
      /\ \A m \in Successors(code, n) :
           /\ m \in DOMAIN depth /\ depth[m] = depth[n] - Takes(i) + Leaves(i)
           /\ Tries(code, m) \subseteq Tries(code, n) \cup {n}
      /\ \A m \in Entries(i) :
           /\ m \in DOMAIN depth /\ depth[m] = 0
           /\ Tries(code, m) \subseteq Tries(code, n)
      /\ i.op \in {"BeginTry", "EndTry", "NextLocalListIteration"} => depth[n] = 0
      /\ i.op = "Return" => depth[n] = 1
      /\ i.op = "Call" => i.proc \in procs
      /\ i.op = "EndTry" =>
           \E b \in Tries(code, n) : code[b].end = n /\ \A o \in Tries(code, n) : o <= b

\* Targets inside, tries properly nested, every instruction reached sound.
VerifiedCode(code, depth, procs) ==
  /\ Len(code) \in Nat /\ DOMAIN code = 1 .. Len(code)
  /\ \A n \in DOMAIN code : Targets(code[n]) \subseteq DOMAIN code
  /\ \A n \in DOMAIN code : code[n].op = "BeginTry" =>
       code[n].end \in Nat /\ \A o \in Tries(code, n) : code[n].end <= code[o].end
  /\ DOMAIN depth \subseteq DOMAIN code
  /\ 1 \in DOMAIN depth /\ depth[1] = 0
  /\ \A n \in DOMAIN depth : VerifiedAt(code, depth, n, procs)

Verified(m, depths) ==
  /\ "main" \in DOMAIN m
  /\ \A p \in DOMAIN m : VerifiedCode(m[p].code, depths[p], DOMAIN m)

\* The machine on any verified module.
VerifiedInit == (\E depths : Verified(module, depths)) /\ Started
VerifiedSpec == VerifiedInit /\ [][Next]_vars

-----------------------------------------------------------------------------
(* Properties. *)

\* A handler left behind by a break or a continue out of its try never shadows
\* the one in force: in every frame the handler a failure would select is the
\* one of the innermost try whose protected range holds the instruction, and
\* there is one exactly when there is such a try.
InnermostCatches ==
  \A n \in DOMAIN frames :
    LET f == frames[n]
        tries == Tries(module[f.proc].code, f.pc)
    IN  IF tries = {} THEN Selected(f) = 0
        ELSE /\ Selected(f) # 0
             /\ f.handlers[Selected(f)].start = 1 + CHOOSE b \in tries : \A o \in tries : o <= b

\* Statements leave the operand stack as they found it, also when a failure
\* interrupts an expression whose operands are on it: at both ends of a try and
\* at the head of a list loop it is empty, and a return finds just its value.
StackBalanced ==
  /\ Running({"BeginTry", "EndTry", "NextLocalListIteration"}) => Top.stack = <<>>
  /\ Running({"Return"}) => Len(Top.stack) = 1

\* Every target the encoder checks (module_codec.rs validate_program) is inside
\* the procedure, and execution never runs off its end.
TargetsInside ==
  /\ \A p \in DOMAIN module : \A n \in DOMAIN module[p].code :
       Targets(module[p].code[n]) \subseteq DOMAIN module[p].code
  /\ frames # <<>> => Top.pc \in DOMAIN Code

=============================================================================
