------------------------------- MODULE Lowering -------------------------------
(***************************************************************************)
(* The lowering of DM statements and expressions to bytecode               *)
(* (dm-vm/src/compile.rs, compile_stmt.rs, compile_expr.rs): one pass over  *)
(* the statement tree that appends instructions, remembers the indices of   *)
(* the jumps whose target is not known yet, and patches them.               *)
(*                                                                         *)
(* A procedure is [params, body]; a parameter is [x, default] where default *)
(* is a sequence of at most one expression.  Blocks are sequences of        *)
(* statements.  Statements and expressions are records tagged by k; the     *)
(* constructors below build them.  Indentation, inline bodies and tokens    *)
(* are the parser's business: the tree is what the source text denotes.     *)
(* Instruction indices are 1-based here and 0-based in the code.            *)
(***************************************************************************)
EXTENDS Values, Sequences, SequencesExt

-----------------------------------------------------------------------------
(* The syntax tree. *)
Num(n) == [k |-> "num", n |-> n]
Nil == [k |-> "num", n |-> Null]
Ask == [k |-> "ask"]
Var(x) == [k |-> "var", x |-> x]
Dot == [k |-> "dot"]
Bin(op, a, b) == [k |-> "bin", op |-> op, a |-> a, b |-> b]
AndAlso(a, b) == [k |-> "and", a |-> a, b |-> b]
OrElse(a, b) == [k |-> "or", a |-> a, b |-> b]
Cond(c, a, b) == [k |-> "cond", c |-> c, a |-> a, b |-> b]
Assign(x, a) == [k |-> "set", x |-> x, a |-> a]
OrAssign(x, a) == [k |-> "orset", x |-> x, a |-> a]
Invoke(p, args) == [k |-> "call", p |-> p, args |-> args]
Items(vs) == [k |-> "num", n |-> vs]

Discard(e) == [k |-> "discard", e |-> e]
Declare(x, e) == [k |-> "declare", x |-> x, e |-> e]
Let(x, e) == [k |-> "let", x |-> x, e |-> e]
LetDot(e) == [k |-> "letdot", e |-> e]
Out(e) == [k |-> "out", e |-> e]
Incr(x) == [k |-> "incr", x |-> x]
If(c, then, else) == [k |-> "if", c |-> c, then |-> then, else |-> else]
While(c, body) == [k |-> "while", c |-> c, body |-> body]
DoWhile(body, c) == [k |-> "do", c |-> c, body |-> body]
For(init, c, next, body) ==
  [k |-> "for", init |-> init, c |-> c, next |-> next, body |-> body]
ForTo(x, declared, a, b, step, body) ==
  [k |-> "forto", x |-> x, declared |-> declared, a |-> a, b |-> b,
   step |-> step, body |-> body]
ForIn(x, declared, e, body) ==
  [k |-> "forin", x |-> x, declared |-> declared, e |-> e, body |-> body]
Switch(e, cases, else) == [k |-> "switch", e |-> e, cases |-> cases, else |-> else]
Try(body, x, handler) == [k |-> "try", body |-> body, x |-> x, handler |-> handler]
Throw(e) == [k |-> "throw", e |-> e]
Crash(e) == [k |-> "crash", e |-> e]
Return(e) == [k |-> "return", e |-> e]
Break(n) == [k |-> "break", n |-> n]
Continue(n) == [k |-> "continue", n |-> n]
Spawn(body) == [k |-> "spawn", body |-> body]

-----------------------------------------------------------------------------
(* The compiler's state c: the code so far, the enclosing loops, the number  *)
(* of local slots handed out, the names in scope, and whether the end of     *)
(* what was compiled can be reached (the code's falls_through).              *)

Unpatched == 0

I(op) == [op |-> op]
Jump(op, target) == [op |-> op, target |-> target]
At(op, slot) == [op |-> op, slot |-> slot]
Push(v) == [op |-> "Push", value |-> v]

Here(c) == Len(c.code) + 1
Emit(c, i) == [c EXCEPT !.code = Append(@, i)]
EmitAll(c, is) == [c EXCEPT !.code = @ \o is]

\* patch_jump over a set of instruction indices.
Patch(c, ats, target) ==
  LET code == c.code
  IN  [c EXCEPT !.code = [n \in DOMAIN code |->
         IF n \in ats THEN [code[n] EXCEPT !.target = target] ELSE code[n]]]

\* LocalTable::declare_hidden: the next slot is c.slots + 1.
Hidden(c, n) == [c EXCEPT !.slots = @ + n]
Bind(c, x, slot) ==
  LET names == c.names
  IN  [c EXCEPT !.names = [y \in DOMAIN names \cup {x} |->
         IF y = x THEN slot ELSE names[y]]]
DeclareLocal(c, x) == Bind(Hidden(c, 1), x, c.slots + 1)
Unbind(c, x) ==
  LET names == c.names
  IN  [c EXCEPT !.names = [y \in DOMAIN names \ {x} |-> names[y]]]
Live(c, live) == [c EXCEPT !.live = live]

RECURSIVE EmitExpression(_, _)
EmitExpression(c, e) ==
  CASE e.k = "num" -> Emit(c, Push(e.n))
    [] e.k = "ask" -> Emit(c, I("Ask"))
    [] e.k = "var" -> Emit(c, At("LoadLocal", c.names[e.x]))
    [] e.k = "dot" -> Emit(c, I("LoadResult"))
    [] e.k = "bin" -> Emit(EmitExpression(EmitExpression(c, e.a), e.b), I(e.op))
    [] e.k = "and" ->
         LET left == Emit(EmitExpression(c, e.a), I("Duplicate"))
             test == EmitAll(left, <<Jump("JumpIfFalse", Unpatched), I("Pop")>>)
             right == EmitExpression(test, e.b)
         IN  Patch(right, {Here(left)}, Here(right))
    [] e.k = "or" ->
         LET left == Emit(EmitExpression(c, e.a), I("Duplicate"))
             test == EmitAll(left, <<Jump("JumpIfFalse", Here(left) + 2),
                                     Jump("Jump", Unpatched), I("Pop")>>)
             right == EmitExpression(test, e.b)
         IN  Patch(right, {Here(left) + 1}, Here(right))
    [] e.k = "cond" ->
         LET test == EmitExpression(c, e.c)
             yes == EmitExpression(Emit(test, Jump("JumpIfFalse", Unpatched)), e.a)
             skip == Emit(yes, Jump("Jump", Unpatched))
             no == EmitExpression(Patch(skip, {Here(test)}, Here(skip)), e.b)
         IN  Patch(no, {Here(yes)}, Here(no))
    [] e.k = "set" ->
         EmitAll(EmitExpression(c, e.a), <<I("Duplicate"), At("StoreLocal", c.names[e.x])>>)
    [] e.k = "orset" ->
         LET slot == c.names[e.x]
             test == Emit(c, At("LoadLocal", slot))
             skip == EmitAll(test, <<Jump("JumpIfFalse", Here(test) + 3),
                                     At("LoadLocal", slot), Jump("Jump", Unpatched)>>)
             value == EmitAll(EmitExpression(skip, e.a),
                              <<I("Duplicate"), At("StoreLocal", slot)>>)
         IN  Patch(value, {Here(test) + 2}, Here(value))
    [] e.k = "call" ->
         Emit(FoldLeft(EmitExpression, c, e.args),
              [op |-> "Call", proc |-> e.p, count |-> Len(e.args)])

-----------------------------------------------------------------------------
(* Loop contexts.  A while loop knows its continue target when its body is   *)
(* compiled; the others collect the continue jumps and patch them.           *)

EnterLoop(c, target) ==
  [c EXCEPT !.loops = Append(@, [target |-> target, continues |-> {}, breaks |-> {}])]
LeaveLoop(c) == [c EXCEPT !.loops = Front(@)]
Context(c) == Last(c.loops)

\* The back edge, and the exits it makes known: the failed test and the breaks.
CloseLoop(c, ctx, back, test) ==
  LET d == Emit(c, Jump("Jump", back))
  IN  Live(Patch(d, {test} \cup ctx.breaks, Here(d)), TRUE)

BreakJump(c, depth) ==
  LET l == Len(c.loops) + 1 - depth
  IN  Live([Emit(c, Jump("Jump", Unpatched))
              EXCEPT !.loops[l].breaks = @ \cup {Here(c)}], FALSE)

\* Mutant: a continue whose target is still unknown is not remembered by the
\* loop it names but by the innermost one.
ContinueJumpInnermost(c, depth) ==
  LET l == Len(c.loops)
      ctx == c.loops[l]
      d == Emit(c, Jump("Jump", ctx.target))
  IN  Live(IF ctx.target # Unpatched THEN d
           ELSE [d EXCEPT !.loops[l].continues = @ \cup {Here(c)}], FALSE)

ContinueJump(c, depth) ==
  LET l == Len(c.loops) + 1 - depth
      ctx == c.loops[l]
      d == Emit(c, Jump("Jump", ctx.target))
  IN  Live(IF ctx.target # Unpatched THEN d
           ELSE [d EXCEPT !.loops[l].continues = @ \cup {Here(c)}], FALSE)

\* The test of an inclusive range: with a step, its sign picks the comparison.
RangeTest(current, last, step) ==
  IF step = <<>>
  THEN <<At("LoadLocal", current), At("LoadLocal", last), I("LessEqual")>>
  ELSE <<At("LoadLocal", step[1]), Push(0), I("GreaterEqual"),
         At("LoadLocal", current), At("LoadLocal", last), I("LessEqual"), I("And"),
         At("LoadLocal", step[1]), Push(0), I("Less"),
         At("LoadLocal", current), At("LoadLocal", last), I("GreaterEqual"), I("And"),
         I("Or")>>

\* Mutant: the results are joined one too often.
JoinAlways(n) == <<I("Or")>>

\* The result of the n-th alternative joins those before it.
Join(n) == IF n > 1 THEN <<I("Or")>> ELSE <<>>

\* emit_switch_case_condition: alternatives are values or ranges, joined by
\* the strict Or; an alternative is [lo, hi] with hi a sequence of at most one.
CaseTest(c, selector, alts) ==
  LET Compared(low, alt) ==
        IF alt.hi = <<>> THEN Emit(low, I("Equal"))
        ELSE EmitAll(EmitExpression(
               EmitAll(low, <<I("GreaterEqual"), At("LoadLocal", selector)>>),
               alt.hi[1]), <<I("LessEqual"), I("And")>>)
      Alternative(d, n) ==
        EmitAll(Compared(EmitExpression(Emit(d, At("LoadLocal", selector)), alts[n].lo), alts[n]),
                Join(n))
  IN  FoldLeft(Alternative, c, [n \in DOMAIN alts |-> n])

\* Mutant: the jump over the else arm (or the catch) is emitted whether or not
\* the first arm can reach it.
SkipArmAlways(c, live) == Emit(c, Jump("Jump", Unpatched))

\* end_jump of compile_if and compile_try: only a live arm needs it.
SkipArm(c, live) == IF live THEN Emit(c, Jump("Jump", Unpatched)) ELSE c

-----------------------------------------------------------------------------
RECURSIVE CompileBlock(_, _), CompileStatement(_, _)

CompileIf(c, s) ==
  LET test == EmitExpression(c, s.c)
      then == CompileBlock(Emit(test, Jump("JumpIfFalse", Unpatched)), s.then)
      skip == SkipArm(then, then.live)
      else == CompileBlock(Patch(skip, {Here(test)}, Here(skip)), s.else[1])
      end == IF then.live THEN {Here(then)} ELSE {}
  IN  IF s.else = <<>>
      THEN Live(Patch(then, {Here(test)}, Here(then)), TRUE)
      ELSE Live(Patch(else, end, Here(else)), then.live \/ else.live)

CompileWhile(c, s) ==
  LET test == EmitExpression(c, s.c)
      d == CompileBlock(EnterLoop(Emit(test, Jump("JumpIfFalse", Unpatched)), Here(c)),
                        s.body)
  IN  CloseLoop(LeaveLoop(d), Context(d), Here(c), Here(test))

CompileDoWhile(c, s) ==
  LET d == CompileBlock(EnterLoop(c, Unpatched), s.body)
      test == EmitExpression(Patch(LeaveLoop(d), Context(d).continues, Here(d)), s.c)
  IN  CloseLoop(Emit(test, Jump("JumpIfFalse", Unpatched)), Context(d), Here(c), Here(test))

CompileFor(c, s) ==
  LET init == CompileStatement(c, s.init)
      test == EmitExpression(init, s.c)
      d == CompileBlock(EnterLoop(Emit(test, Jump("JumpIfFalse", Unpatched)), Unpatched),
                        s.body)
      next == CompileStatement(Patch(LeaveLoop(d), Context(d).continues, Here(d)), s.next)
      end == CloseLoop(next, Context(d), Here(init), Here(test))
  IN  IF s.init.k = "declare" THEN Unbind(end, s.init.x) ELSE end

CompileForTo(c, s) ==
  LET named == IF s.declared THEN DeclareLocal(c, s.x) ELSE c
      item == named.names[s.x]
      current == named.slots + 1
      last == named.slots + 2
      step == IF s.step = <<>> THEN <<>> ELSE <<named.slots + 3>>
      start == Emit(EmitExpression(Hidden(named, 2 + Len(s.step)), s.a),
                    At("StoreLocal", current))
      bound == Emit(EmitExpression(start, s.b), At("StoreLocal", last))
      init == IF s.step = <<>> THEN bound
              ELSE Emit(EmitExpression(bound, s.step[1]), At("StoreLocal", step[1]))
      test == EmitAll(init, RangeTest(current, last, step))
      enter == EmitAll(test, <<Jump("JumpIfFalse", Unpatched),
                               At("LoadLocal", current), At("StoreLocal", item)>>)
      d == CompileBlock(EnterLoop(enter, Unpatched), s.body)
      next == EmitAll(Patch(LeaveLoop(d), Context(d).continues, Here(d)),
                <<At("LoadLocal", item),
                  IF s.step = <<>> THEN Push(1) ELSE At("LoadLocal", step[1]),
                  I("Add"), At("StoreLocal", current)>>)
      end == CloseLoop(next, Context(d), Here(init), Here(test))
  IN  IF s.declared THEN Unbind(end, s.x) ELSE end

CompileForIn(c, s) ==
  LET named == IF s.declared THEN DeclareLocal(c, s.x) ELSE c
      list == named.slots + 1
      index == named.slots + 2
      init == EmitAll(EmitExpression(Hidden(named, 2), s.e),
                <<I("PrepareIteration"), At("StoreLocal", list),
                  Push(1), At("StoreLocal", index)>>)
      test == Here(init) + 3
      enter == EmitAll(init,
                <<At("LoadLocal", index), At("ListLengthLocal", list), I("LessEqual"),
                  Jump("JumpIfFalse", Unpatched),
                  At("LoadLocal", index), At("IndexLocalList", list),
                  At("StoreLocal", named.names[s.x])>>)
      d == CompileBlock(EnterLoop(enter, Unpatched), s.body)
      next == EmitAll(Patch(LeaveLoop(d), Context(d).continues, Here(d)),
                <<At("LoadLocal", index), Push(1), I("Add"), At("StoreLocal", index)>>)
      end == CloseLoop(next, Context(d), Here(init), test)
  IN  IF s.declared THEN Unbind(end, s.x) ELSE end

CompileSwitch(c, s) ==
  LET selector == c.slots + 1
      head == Emit(Hidden(EmitExpression(c, s.e), 1), At("StoreLocal", selector))
      Tested(ends, test, body) ==
        LET end == Emit(body, Jump("Jump", Unpatched))
        IN  [c |-> Patch(end, {Here(test)}, Here(end)), ends |-> ends \cup {Here(body)}]
      Arm(acc, case, test) ==
        Tested(acc.ends, test, CompileBlock(Emit(test, Jump("JumpIfFalse", Unpatched)), case.body))
      Close(ends, all) == Live(Patch(all, ends, Here(all)), TRUE)
      Else(arms) ==
        Close(arms.ends, IF s.else = <<>> THEN arms.c ELSE CompileBlock(arms.c, s.else[1]))
  IN  Else(FoldLeft(LAMBDA acc, case : Arm(acc, case, CaseTest(acc.c, selector, case.alts)),
                    [c |-> head, ends |-> {}], s.cases))

CompileTry(c, s) ==
  LET begin == [op |-> "BeginTry", catch |-> Unpatched, end |-> Unpatched, slot |-> <<>>]
      try == CompileBlock(Emit(c, begin), s.body)
      bound == IF s.x = <<>> THEN try ELSE Hidden(try, 1)
      slot == IF s.x = <<>> THEN <<>> ELSE <<bound.slots>>
      closed == SkipArm(Emit(bound, I("EndTry")), try.live)
      known == [closed EXCEPT !.code[Here(c)] =
                  [begin EXCEPT !.catch = Here(closed), !.end = Here(try), !.slot = slot]]
      scope == IF s.x = <<>> THEN known ELSE Bind(known, s.x[1], bound.slots)
      catch == [CompileBlock(scope, s.handler) EXCEPT !.names = c.names]
      end == IF try.live THEN {Here(try) + 1} ELSE {}
  IN  Live(Patch(catch, end, Here(catch)), try.live \/ catch.live)

CompileSpawn(c, s) ==
  LET head == EmitAll(c, <<Push(0), Jump("Spawn", Here(c) + 3), Jump("Jump", Unpatched)>>)
      body == EmitAll(CompileBlock(head, s.body), <<Push(Null), I("Return")>>)
  IN  Live(Patch(body, {Here(c) + 2}, Here(body)), TRUE)

\* compile_block_inner: one arm per statement.
CompileStatement(c, s) ==
  CASE s.k = "discard" -> Live(Emit(EmitExpression(c, s.e), I("Pop")), TRUE)
    [] s.k = "declare" ->
         LET d == DeclareLocal(c, s.x)
         IN  Live(Emit(EmitExpression(d, s.e), At("StoreLocal", d.names[s.x])), TRUE)
    [] s.k = "let" -> Live(Emit(EmitExpression(c, s.e), At("StoreLocal", c.names[s.x])), TRUE)
    [] s.k = "letdot" -> Live(Emit(EmitExpression(c, s.e), I("StoreResult")), TRUE)
    [] s.k = "out" -> Live(Emit(EmitExpression(Emit(c, Push(Null)), s.e), I("Output")), TRUE)
    [] s.k = "incr" ->
         Live(EmitAll(c, <<At("LoadLocal", c.names[s.x]), Push(1), I("Add"),
                           At("StoreLocal", c.names[s.x])>>), TRUE)
    [] s.k = "if" -> CompileIf(c, s)
    [] s.k = "while" -> CompileWhile(c, s)
    [] s.k = "do" -> CompileDoWhile(c, s)
    [] s.k = "for" -> CompileFor(c, s)
    [] s.k = "forto" -> CompileForTo(c, s)
    [] s.k = "forin" -> CompileForIn(c, s)
    [] s.k = "switch" -> CompileSwitch(c, s)
    [] s.k = "try" -> CompileTry(c, s)
    [] s.k = "throw" -> Live(Emit(EmitExpression(c, s.e), I("Throw")), FALSE)
    [] s.k = "crash" -> Live(Emit(EmitExpression(c, s.e), I("Crash")), FALSE)
    [] s.k = "return" ->
         Live(Emit(IF s.e = <<>> THEN Emit(c, I("LoadResult")) ELSE EmitExpression(c, s.e[1]),
                   I("Return")), FALSE)
    [] s.k = "break" -> BreakJump(c, s.n)
    [] s.k = "continue" -> ContinueJump(c, s.n)
    [] s.k = "spawn" -> CompileSpawn(c, s)

\* compile_block: names declared in a block leave scope with it; the block's
\* end is dead once one of its statements is.
CompileBlock(c, block) ==
  LET After(d, e) == Live(e, d.live /\ e.live)
      Next(d, s) == After(d, CompileStatement(d, s))
  IN  [FoldLeft(Next, Live(c, TRUE), block) EXCEPT !.names = c.names]

-----------------------------------------------------------------------------
(* Procedures. *)

\* specialize_local_list_iteration_headers: the first of the seven header
\* instructions is replaced, the other six stay where they are.
Specialize(code) ==
  LET Fused(n) ==
        /\ n + 6 <= Len(code)
        /\ [m \in 1..7 |-> code[n + m - 1].op] =
             <<"LoadLocal", "ListLengthLocal", "LessEqual", "JumpIfFalse",
               "LoadLocal", "IndexLocalList", "StoreLocal">>
        /\ code[n].slot = code[n + 4].slot
        /\ code[n + 1].slot = code[n + 5].slot
  IN  [n \in DOMAIN code |->
         IF Fused(n)
         THEN [op |-> "NextLocalListIteration", list |-> code[n + 1].slot,
               index |-> code[n].slot, item |-> code[n + 6].slot, exit |-> code[n + 3].target]
         ELSE code[n]]

\* compile_parameter_defaults.
Default(c, n, e) ==
  LET value == Emit(EmitExpression(
                 Emit(c, [op |-> "JumpIfArgumentSupplied", parameter |-> n,
                          target |-> Unpatched]), e), At("StoreLocal", n))
  IN  Patch(value, {Here(c)}, Here(value))

CompileProc(p) ==
  LET count == Len(p.params)
      names == [x \in {p.params[n].x : n \in 1..count} |->
                  CHOOSE n \in 1..count : p.params[n].x = x]
      start == [code |-> <<>>, loops |-> <<>>, slots |-> count + 1, names |-> names,
                live |-> TRUE]
      Bound(c, n) == IF p.params[n].default = <<>> THEN c
                     ELSE Default(c, n, p.params[n].default[1])
      Ended(body) == IF body.live THEN EmitAll(body, <<I("LoadResult"), I("Return")>>) ELSE body
      Finished(done) == [code |-> Specialize(done.code), slots |-> done.slots, params |-> count]
  IN  Finished(Ended(CompileBlock(FoldLeft(Bound, start, [n \in 1..count |-> n]), p.body)))

=============================================================================
