------------------------------ MODULE Structured ------------------------------
(***************************************************************************)
(* What a DM procedure means: the structured semantics the bytecode is      *)
(* compared with.  There is no code, stack, jump or handler table here; a    *)
(* statement ends normally or with a signal (break, continue, return,        *)
(* throw, ...), and the construct it is for consumes it.  The answers of the *)
(* environment come from a sequence; a run that needs one more is "dry".     *)
(***************************************************************************)
EXTENDS Lowering

Signal(sig, v, m) == [sig |-> sig, v |-> v, m |-> m]
Ok(v, m) == Signal("ok", v, m)
Store(m, x, v) ==
  LET vars == m.vars
  IN  [m EXCEPT !.vars = [y \in DOMAIN vars \cup {x} |-> IF y = x THEN v ELSE vars[y]]]
Scoped(r, names) ==
  LET vars == r.m.vars IN [r EXCEPT !.m.vars = [x \in names |-> vars[x]]]

\* A loop goes round after its body ended normally or with its own continue,
\* and otherwise ends: its own break is consumed, an outer one loses a level.
GoesRound(r) == r.sig = "ok" \/ (r.sig = "continue" /\ r.v = 1)
AfterLoop(r) ==
  CASE r.sig = "break" /\ r.v = 1 -> Ok(Null, r.m)
    [] r.sig \in {"break", "continue"} -> [r EXCEPT !.v = @ - 1]
    [] OTHER -> r

\* What follows a normal end, and what follows a round of a loop.
Then(r, F(_)) == IF r.sig = "ok" THEN F(r) ELSE r
Round(r, F(_)) == IF GoesRound(r) THEN F(r) ELSE AfterLoop(r)

(* The context k of a piece of code: its procedure, whether a try of a       *)
(* caller is active, and what encloses the code in the procedure, the        *)
(* innermost construct last.  A failure that no try claims ends only the     *)
(* procedure that raised it.                                                 *)
Outermost(p, guard) == [proc |-> p, guard |-> guard, within |-> <<>>]
Inside(k, f) == [k EXCEPT !.within = Append(@, f)]
Guarded(k) == k.guard \/ \E n \in DOMAIN k.within : k.within[n].k = "try"

\* What a call that ended with r is to its caller, whose machine was m.
Returned(r, m, k) ==
  LET back == [r.m EXCEPT !.vars = m.vars, !.dot = m.dot, !.depth = m.depth]
  IN  CASE r.sig = "ok" -> Ok(r.m.dot, back)
        [] r.sig = "return" -> Ok(r.v, back)
        [] r.sig = "throw" -> IF Guarded(k) THEN Signal("throw", r.v, back) ELSE Ok(Null, back)
        [] OTHER -> Signal(r.sig, r.v, back)

\* m is the machine: variables, result, answers left, trace, threads spawned,
\* call depth.  P is the program.
RECURSIVE Eval(_, _, _, _), EvalAll(_, _, _, _, _), Apply(_, _, _, _, _),
          Exec(_, _, _, _), ExecBlock(_, _, _, _), After(_, _, _, _), Looping(_, _, _, _),
          Ranging(_, _, _, _, _), Visiting(_, _, _, _), Matching(_, _, _, _, _)

Eval(P, e, m, k) ==
  CASE e.k = "num" -> Ok(e.n, m)
    [] e.k = "var" -> Ok(m.vars[e.x], m)
    [] e.k = "dot" -> Ok(m.dot, m)
    [] e.k = "ask" ->
         IF m.left = <<>> THEN Signal("dry", Null, m)
         ELSE Signal(IF Head(m.left) = Fail THEN "throw" ELSE "ok", Head(m.left),
                     [m EXCEPT !.left = Tail(@)])
    [] e.k = "bin" ->
         Then(Eval(P, e.a, m, k), LAMBDA a :
           Then(Eval(P, e.b, a.m, k), LAMBDA b : Ok(Operate(e.op, a.v, b.v), b.m)))
    [] e.k \in {"and", "or"} ->
         Then(Eval(P, e.a, m, k), LAMBDA a :
           IF Truthy(a.v) = (e.k = "or") THEN a ELSE Eval(P, e.b, a.m, k))
    [] e.k = "cond" ->
         Then(Eval(P, e.c, m, k), LAMBDA c : Eval(P, IF Truthy(c.v) THEN e.a ELSE e.b, c.m, k))
    [] e.k = "set" ->
         Then(Eval(P, e.a, m, k), LAMBDA a : Ok(a.v, Store(a.m, e.x, a.v)))
    [] e.k = "orset" ->
         IF Truthy(m.vars[e.x]) THEN Ok(m.vars[e.x], m) ELSE Eval(P, Assign(e.x, e.a), m, k)
    [] e.k = "call" ->
         Then(EvalAll(P, e.args, <<>>, m, k), LAMBDA args : Apply(P, e.p, args.v, args.m, k))

EvalAll(P, es, vs, m, k) ==
  IF es = <<>> THEN Ok(vs, m)
  ELSE Then(Eval(P, Head(es), m, k), LAMBDA r : EvalAll(P, Tail(es), Append(vs, r.v), r.m, k))

\* A call.  A parameter that was not supplied, or supplied as null, takes its
\* default, which may use the parameters before it.
Apply(P, p, args, m, k) ==
  LET ps == P[p].params
      Given(n) == IF n <= Len(args) THEN args[n] ELSE Null
      defaults == SelectSeq([n \in 1..Len(ps) |-> n],
                    LAMBDA n : ps[n].default # <<>> /\ Given(n) = Null)
      callee == [m EXCEPT !.vars = [x \in {ps[n].x : n \in 1..Len(ps)} |->
                     Given(CHOOSE n \in 1..Len(ps) : ps[n].x = x)],
                   !.dot = Null, !.depth = @ + 1]
      body == [n \in DOMAIN defaults |->
                 Let(ps[defaults[n]].x, ps[defaults[n]].default[1])] \o P[p].body
  IN  IF m.depth >= MaxDepth THEN Signal("limit", Null, m)
      ELSE Returned(ExecBlock(P, body, callee, Outermost(p, Guarded(k))), m, k)

\* A block, one statement after the other.
ExecBlock(P, block, m, k) ==
  After(P, [k |-> "block", block |-> block, names |-> DOMAIN m.vars], Ok(Null, m), k)

\* What follows in the construct f, itself in k, once the statement or block
\* of it that was executed has ended with r.
After(P, f, r, k) ==
  Scoped(
    CASE f.k = "block" ->
           IF r.sig # "ok" \/ f.block = <<>> THEN r
           ELSE LET next == [f EXCEPT !.block = Tail(@)]
                IN  After(P, next, Exec(P, Head(f.block), r.m, Inside(k, next)), k)
      [] f.k \in {"while", "for"} ->
           Round(r, LAMBDA b :
             Then(IF f.k = "for" THEN Exec(P, f.s.next, b.m, k) ELSE Ok(Null, b.m), LAMBDA n :
               Looping(P, f, n.m, k)))
      [] f.k = "do" ->
           Round(r, LAMBDA b :
             Then(Eval(P, f.s.c, b.m, k), LAMBDA c :
               IF Truthy(c.v) THEN Exec(P, f.s, c.m, k) ELSE Ok(Null, c.m)))
      [] f.k = "forto" ->
           Round(r, LAMBDA b : Ranging(P, f, Number(b.m.vars[f.s.x]) + f.step, b.m, k))
      [] f.k = "forin" -> Round(r, LAMBDA b : Visiting(P, f, b.m, k))
      [] f.k = "try" ->
           IF r.sig # "throw" THEN r
           ELSE ExecBlock(P, f.s.handler,
                          IF f.s.x = <<>> THEN r.m ELSE Store(r.m, f.s.x[1], r.v), k),
    f.names)

\* The body s.body of the construct f.
Enter(P, f, m, k) == After(P, f, ExecBlock(P, f.s.body, m, Inside(k, f)), k)

\* while and for(;;): s.next is the step of the latter.
Looping(P, f, m, k) ==
  Then(Eval(P, f.s.c, m, k), LAMBDA c :
    IF Truthy(c.v) THEN Enter(P, f, c.m, k) ELSE Ok(Null, c.m))

Ranging(P, f, at, m, k) ==
  IF IF f.step >= 0 THEN at > f.last ELSE at < f.last THEN Ok(Null, m)
  ELSE Enter(P, f, Store(m, f.s.x, at), k)

Visiting(P, f, m, k) ==
  IF f.items = <<>> THEN Ok(Null, m)
  ELSE Enter(P, [f EXCEPT !.items = Tail(@)], Store(m, f.s.x, Head(f.items)), k)

Matching(P, s, v, m, k) ==
  LET Matches(alt) == IF alt.hi = <<>> THEN alt.lo.n = v
                      ELSE Number(v) >= alt.lo.n /\ Number(v) <= alt.hi[1].n
      hits == {n \in DOMAIN s.cases : \E a \in DOMAIN s.cases[n].alts :
                                         Matches(s.cases[n].alts[a])}
  IN  IF hits # {}
      THEN ExecBlock(P, s.cases[CHOOSE n \in hits : \A o \in hits : n <= o].body, m, k)
      ELSE IF s.else # <<>> THEN ExecBlock(P, s.else[1], m, k) ELSE Ok(Null, m)

Exec(P, s, m, k) ==
  LET With(F(_)) == Then(Eval(P, s.e, m, k), F)
      names == DOMAIN m.vars
      this == [k |-> s.k, s |-> s, names |-> names]
  IN
  CASE s.k = "discard" -> With(LAMBDA r : Ok(Null, r.m))
    [] s.k \in {"declare", "let"} -> With(LAMBDA r : Ok(Null, Store(r.m, s.x, r.v)))
    [] s.k = "letdot" -> With(LAMBDA r : Ok(Null, [r.m EXCEPT !.dot = r.v]))
    [] s.k = "out" ->
         With(LAMBDA r : Ok(Null, [r.m EXCEPT !.trace = Append(@, [what |-> "out", v |-> r.v])]))
    [] s.k = "incr" -> Ok(Null, Store(m, s.x, Number(m.vars[s.x]) + 1))
    [] s.k = "if" ->
         Then(Eval(P, s.c, m, k), LAMBDA c :
           ExecBlock(P, IF Truthy(c.v) THEN s.then
                        ELSE IF s.else = <<>> THEN <<>> ELSE s.else[1], c.m, k))
    [] s.k = "while" -> Looping(P, this, m, k)
    [] s.k \in {"do", "try"} -> Enter(P, this, m, k)
    [] s.k = "for" ->
         Then(Exec(P, s.init, m, k), LAMBDA i : Scoped(Looping(P, this, i.m, k), names))
    [] s.k = "forto" ->
         Then(EvalAll(P, <<s.a, s.b>> \o s.step, <<>>, m, k), LAMBDA b :
           Scoped(Ranging(P, [k |-> s.k, s |-> s, names |-> names, last |-> Number(b.v[2]),
                              step |-> IF s.step = <<>> THEN 1 ELSE Number(b.v[3])],
                          Number(b.v[1]), b.m, k), names))
    [] s.k = "forin" ->
         With(LAMBDA r : Visiting(P, [k |-> s.k, s |-> s, names |-> names, items |-> r.v], r.m, k))
    [] s.k = "switch" -> With(LAMBDA r : Matching(P, s, r.v, r.m, k))
    [] s.k = "throw" -> With(LAMBDA r : Signal("throw", r.v, r.m))
    [] s.k = "crash" ->
         With(LAMBDA r : IF k.proc = StackTrace THEN Signal("return", Null, r.m)
                         ELSE Signal("throw", r.v, r.m))
    [] s.k = "return" ->
         IF s.e = <<>> THEN Signal("return", m.dot, m)
         ELSE Then(Eval(P, s.e[1], m, k), LAMBDA r : Signal("return", r.v, r.m))
    [] s.k \in {"break", "continue"} -> Signal(s.k, s.n, m)
    [] s.k = "spawn" ->
         Ok(Null, [m EXCEPT !.queue = Append(@, [body |-> s.body, vars |-> m.vars, dot |-> m.dot,
                                            k |-> [k EXCEPT !.guard = FALSE]])])

(* A spawned body has its thread to itself, and ends it; but it is still     *)
(* within the constructs around the spawn: what leaves it otherwise, a       *)
(* throw to a try or a break to a loop, goes on there, in the new thread,    *)
(* with the rest of the procedure.                                           *)
RECURSIVE Onward(_, _, _)
Onward(P, r, k) ==
  IF k.within = <<>> \/ r.sig \in {"return", "dry"} THEN r
  ELSE LET out == [k EXCEPT !.within = Front(@)]
       IN  Onward(P, After(P, Last(k.within), r, out), out)

RunThread(P, t, m) ==
  LET r == ExecBlock(P, t.body, m, t.k)
  IN  IF r.sig = "ok" /\ t.k.within # <<>> THEN Signal("return", Null, r.m)
      ELSE Onward(P, r, t.k)

\* The trace after a thread that ended with r.
ThreadEnd(r) ==
  Append(r.m.trace,
         [what |-> IF r.sig \in {"ok", "return"} THEN "end" ELSE "fatal",
          v |-> CASE r.sig = "return" -> r.v
                  [] r.sig = "ok" -> r.m.dot
                  [] OTHER -> Null])

\* One thread after the other: main, then what was spawned, in order.
RECURSIVE RunThreads(_, _)
RunThreads(P, m) ==
  IF m.queue = <<>> THEN Ok(Null, m)
  ELSE LET t == Head(m.queue)
           Next(r) == IF r.sig = "dry" THEN r
                      ELSE RunThreads(P, [r.m EXCEPT !.trace = ThreadEnd(r)])
       IN  Next(RunThread(P, t, [m EXCEPT !.queue = Tail(@), !.vars = t.vars,
                                   !.dot = t.dot, !.depth = 1]))

Meaning(P, answers) ==
  RunThreads(P, [vars |-> <<>>, dot |-> Null, left |-> answers, trace |-> <<>>, depth |-> 1,
                 queue |-> <<[body |-> P["main"].body, vars |-> <<>>, dot |-> Null,
                              k |-> Outermost("main", FALSE)]>>])

=============================================================================
