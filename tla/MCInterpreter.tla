---------------------------- MODULE MCInterpreter -----------------------------
(* The programs the lowering is checked on, each the smallest that makes its *)
(* constructs meet; every Ask branches three ways.                           *)
EXTENDS Interpreter

Params(xs) == [n \in DOMAIN xs |-> [x |-> xs[n], default |-> <<>>]]
Proc(xs, body) == [params |-> Params(xs), body |-> body]
Main(body) == [p \in {"main"} |-> Proc(<<>>, body)]
With(main, name, proc) == [p \in {"main", name} |-> IF p = "main" THEN Proc(<<>>, main) ELSE proc]

\* A try inside a loop left by continue and by break, a catch that goes on.
TryInLoop == Main(<<
  ForTo("i", TRUE, Num(1), Num(3), <<>>, <<
    Try(<<If(Ask, <<Continue(1)>>, <<<<If(Ask, <<Break(1)>>, <<>>)>>>>), Out(Var("i"))>>,
        <<"e">>, <<Out(Num(7))>>)>>),
  Out(Num(9)), Throw(Ask)>>)

\* Nested tries, a throw out of the inner catch, handlers left by a loop.
NestedTry == Main(<<
  Try(<<
    While(Ask, <<Try(<<If(Ask, <<Continue(1)>>, <<>>), Discard(Ask)>>, <<>>,
                     <<Throw(Num(5))>>)>>),
    Discard(Bin("Add", Num(1), Ask))>>,
    <<"e">>, <<Out(Var("e"))>>),
  Out(Ask)>>)

\* A failure in a callee: caught across frames or ending the callee only.
AcrossFrames == With(<<
    Declare("x", Bin("Add", Num(3), Invoke("f", <<Ask, Num(4)>>))),
    Try(<<Let("x", Bin("Add", Var("x"), Invoke("f", <<Num(0)>>))), Return(<<Var("x")>>)>>,
        <<"e">>, <<Out(Var("e")), LetDot(Var("x"))>>)>>,
  "f", [params |-> <<[x |-> "a", default |-> <<>>], [x |-> "b", default |-> <<Ask>>]>>,
        body |-> <<If(Var("a"), <<Throw(Var("b"))>>, <<>>), LetDot(Var("b"))>>])

\* Labelled breaks and continues through a list loop, a do loop and a switch.
Labels == Main(<<
  Declare("n", Num(0)),
  ForIn("v", TRUE, Items(<<4, 5, 6>>), <<
    DoWhile(<<
      Incr("n"),
      Switch(Bin("Add", Ask, Ask), <<[alts |-> <<[lo |-> Num(1), hi |-> <<>>]>>, body |-> <<Continue(2)>>],
                    [alts |-> <<[lo |-> Num(5), hi |-> <<>>], [lo |-> Num(2), hi |-> <<Num(3)>>]>>,
                     body |-> <<Break(2)>>]>>,
             <<<<If(Bin("LessEqual", Num(3), Var("n")), <<Continue(1)>>, <<>>)>>>>)>>,
      AndAlso(Bin("Less", Var("n"), Num(4)), Ask)),
    Out(Var("v"))>>),
  Return(<<Var("n")>>)>>)

\* Short circuits, the conditional, the logical assignment, a shadowed scope.
Expressions == Main(<<
  Declare("x", OrElse(Ask, AndAlso(Ask, Num(6)))),
  Discard(OrAssign("x", Cond(Ask, Num(4), Nil))),
  If(Bin("Equal", Var("x"), Num(4)), <<Declare("y", Assign("x", Num(8))), Out(Var("y"))>>,
     <<<<Declare("y", Nil), Out(OrElse(Var("y"), Var("x")))>>>>),
  LetDot(Var("x")), Return(<<>>)>>)

\* Threads copy the variables of the frame; loops with a step and clauses.
Threads == Main(<<
  For(Declare("i", Num(0)), Bin("Less", Var("i"), Num(2)), Incr("i"), <<
    If(Ask, <<Spawn(<<Let("i", Bin("Add", Var("i"), Num(10))), Out(Var("i")),
                      If(Ask, <<Return(<<Var("i")>>)>>, <<>>)>>)>>, <<>>),
    If(Ask, <<Continue(1)>>, <<>>), Out(Var("i"))>>),
  Declare("k", Nil),
  ForTo("k", FALSE, Num(3), Num(1), <<Num(-1)>>, <<Out(Var("k")), Let("k", Bin("Add", Var("k"), Ask))>>),
  ForTo("k", FALSE, Num(2), Num(1), <<>>, <<Out(Num(99))>>),
  Return(<<Var("k")>>)>>)

\* Recursion against the depth limit, and both arms of an if that end.
Depth == With(<<Try(<<Out(Invoke("f", <<Ask>>))>>, <<>>, <<Out(Num(1))>>)>>,
  "f", Proc(<<"a">>, <<If(Ask, <<Return(<<Bin("Add", Num(1), Invoke("f", <<Num(0)>>))>>)>>,
                          <<<<Try(<<Return(<<Ask>>)>>, <<>>, <<Throw(Num(3))>>)>>>>)>>))

\* The stack-trace helper is not claimed by a try; any other CRASH is.
Traces == With(<<
    Try(<<Out(Bin("Add", Num(2), Invoke("trace", <<>>))),
          If(Ask, <<Crash(Num(4))>>, <<>>), Discard(Invoke("trace", <<Ask>>))>>,
        <<"e">>, <<Out(Var("e"))>>)>>,
  "trace", Proc(<<"m">>, <<Crash(Var("m"))>>))

\* Spawned bodies in a try: a throw out of one goes on in the catch and the
\* rest of the loop, in the new thread, and there spawns the next.
SpawnInTry == Main(<<
  Declare("n", Num(0)),
  ForIn("v", TRUE, Items(<<4, 5>>), <<
    Try(<<Spawn(<<If(Ask, <<Throw(Var("v"))>>, <<>>), Out(Num(8))>>),
          If(Bin("Equal", Var("v"), Num(5)), <<Discard(Ask)>>, <<>>)>>,
        <<"e">>, <<Out(Var("e")), Let("n", Bin("Add", Var("n"), Num(1)))>>)>>),
  Return(<<Var("n")>>)>>)

\* The tries of the procedure are the thread's, those of its callers are not,
\* nor is the try in whose catch the spawn is.
SpawnInCallee == With(<<
    Try(<<Out(Invoke("f", <<Ask>>))>>, <<"e">>, <<Out(Var("e"))>>),
    Out(Num(6))>>,
  "f", Proc(<<"a">>, <<
    Spawn(<<Discard(Ask), Out(Num(1))>>),
    Try(<<Spawn(<<Discard(Ask), Out(Num(2))>>), If(Var("a"), <<Throw(Num(5))>>, <<>>)>>,
        <<>>, <<Spawn(<<Discard(Ask), Out(Num(3))>>), Throw(Num(7))>>)>>))

\* A spawn in a spawned body, and a try around each.
NestedSpawn == Main(<<
  Try(<<Spawn(<<Try(<<Spawn(<<If(Ask, <<Throw(Num(5))>>, <<>>)>>), Out(Ask)>>,
                    <<>>, <<Throw(Ask)>>), Out(Num(4))>>)>>,
      <<"e">>, <<Out(Var("e"))>>),
  Out(Num(9))>>)

\* Every way for a statement to end, inside every loop, under a try in the
\* loop, under a second loop, and with the whole under a try or not.
Endings == <<Out(Num(5)), Discard(Ask), Break(1), Continue(1), Throw(Num(2)), Return(<<Num(3)>>)>>
Ending(n) == <<If(Ask, <<Endings[n]>>, <<>>)>>
OuterEndings == <<Break(2), Continue(2)>>

Loop(n, x, body) ==
  CASE n = 1 -> While(Ask, body)
    [] n = 2 -> DoWhile(body, Ask)
    [] n = 3 -> For(Declare(x, Num(1)), Bin("LessEqual", Var(x), Num(2)), Incr(x), body)
    [] n = 4 -> ForTo(x, TRUE, Num(1), Num(2), <<>>, body)
    [] n = 5 -> ForIn(x, TRUE, Items(<<6, 7>>), body)

\* 1-6: an ending; 7-42: an ending in a try, another in its catch; 43-52: a
\* break or continue of the outer loop from an inner one, in a try; 53-88: an
\* ending of a body spawned in a try, another in the catch.
Bodies == 88
Body(n) ==
  CASE n <= 6 -> Ending(n)
    [] n \in 7..42 ->
         <<Try(Ending(1 + (n - 7) \div 6) \o <<Discard(Ask)>>, <<"e">>, Ending(1 + ((n - 7) % 6)))>>
    [] n \in 43..52 ->
         <<Loop(1 + (n - 43) \div 2, "j",
                <<Try(<<If(Ask, <<OuterEndings[1 + (n % 2)]>>, <<>>), Out(Num(8))>>, <<>>, <<>>)>>)>>
    [] n \in 53..88 ->
         <<Try(<<Spawn(Ending(1 + (n - 53) \div 6) \o <<Out(Num(1))>>)>>,
               <<"e">>, Ending(1 + ((n - 53) % 6)))>>

Generated(n) ==
  LET loop == 1 + ((n - 1) % 5)
      body == 1 + (((n - 1) \div 5) % Bodies)
      whole == Loop(loop, "i", Body(body) \o <<Out(Num(4))>>)
  IN  Main(IF n > 5 * Bodies THEN <<Try(<<whole>>, <<"e">>, <<Out(Var("e"))>>), Out(Num(9))>>
           ELSE <<whole, Out(Num(9))>>)

MCAnswers == {0, 1, Fail}

MCPrograms ==
  <<TryInLoop, NestedTry, AcrossFrames, Labels, Expressions, Threads, Depth, Traces,
    SpawnInTry, SpawnInCallee, NestedSpawn>>
    \o [n \in 1..10 * Bodies |-> Generated(n)]

=============================================================================
