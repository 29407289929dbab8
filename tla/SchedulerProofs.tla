-------------------------- MODULE SchedulerProofs --------------------------
(* Proofs about the scheduler, for any number of threads, clients, walkers  *)
(* and any slice limits: no continuation is lost or doubled, the idle       *)
(* advance runs nothing, and the scheduler implements TimerQueue.           *)
EXTENDS Scheduler, TLAPS

USE SchedulerAssumption

(* The inductive invariant.                                                 *)
SchedInv ==
    /\ TypeOK
    /\ OneContinuation
    /\ Known
    /\ OnTime
    /\ IdleOutside
    /\ TailIsIdle

LEMMA SchedInitInv == Init => SchedInv
<1> SUFFICES ASSUME Init PROVE SchedInv
  OBVIOUS
<1>1. TypeOK
  BY DEF Init, TypeOK, NoWalk
<1>2. OneContinuation
  BY DEF Init, OneContinuation, Waiting
<1>3. Known /\ OnTime
  BY DEF Init, Known, OnTime, Waiting
<1>4. IdleOutside /\ TailIsIdle
  BY DEF Init, IdleOutside, TailIsIdle
<1> QED
  BY <1>1, <1>2, <1>3, <1>4 DEF SchedInv

(* The delay of a thread is a number of ticks.                              *)
LEMMA DelayIsNat == \A d \in Int : DelayTicks(d) \in Nat
  BY DEF DelayTicks

(* schedule_frames appends a thread that is not late and that comes after   *)
(* everything in flight.                                                    *)
LEMMA ScheduleOrder ==
    ASSUME SchedInv, NEW th \in Thread, NEW d \in Int, Schedule(th, d),
           UNCHANGED <<tick, inflight>>
    PROVE  /\ sequence' \in Nat
           /\ scheduled' \subseteq Task
           /\ OnTime'
           /\ \A t \in Waiting' : t.seq < sequence'
           /\ \A t, u \in Waiting' : t.seq = u.seq => t = u
<1> DEFINE new == [thread |-> th, due |-> tick + DelayTicks(d), seq |-> sequence]
<1>1. DelayTicks(d) \in Nat
  BY DelayIsNat
<1>2. /\ new \in Task /\ new.due >= tick /\ new.seq = sequence
      /\ scheduled' = scheduled \cup {new} /\ sequence' = sequence + 1
  BY <1>1 DEF SchedInv, TypeOK, Task, Schedule
<1> HIDE DEF new
<1>3. /\ tick \in Nat /\ sequence \in Nat
      /\ scheduled \subseteq Task /\ inflight \subseteq Task
      /\ \A t \in Waiting : t.seq < sequence
      /\ \A t \in Task : t.seq \in Nat /\ t.due \in Nat
      /\ Waiting' = Waiting \cup {new}
  BY <1>2 DEF SchedInv, TypeOK, Known, Waiting, Task
<1>4. OnTime'
  BY <1>2, <1>3 DEF SchedInv, OnTime, Waiting
<1>5. \A t \in Waiting' : t.seq < sequence'
  BY <1>2, <1>3 DEF Waiting
<1>6. \A t, u \in Waiting' : t.seq = u.seq => t = u
  BY <1>2, <1>3 DEF SchedInv, Known, Waiting
<1> QED
  BY <1>2, <1>3, <1>4, <1>5, <1>6

(* Time does not move and nothing new waits.                                *)
LEMMA OrderKept ==
    ASSUME SchedInv, UNCHANGED queue
    PROVE  /\ OnTime'
           /\ \A t \in Waiting' : t.seq < sequence'
           /\ \A t, u \in Waiting' : t.seq = u.seq => t = u
  BY DEF SchedInv, OnTime, Known, Waiting, queue

-----------------------------------------------------------------------------
(* Where the threads are.  A new thread is nowhere yet.                     *)
LEMMA NewThreadIsNew ==
    ASSUME TypeOK, Known
    PROVE  /\ threads \in Nat
           /\ running # threads + 1
           /\ threads + 1 \notin ended
           /\ \A t \in Waiting : t.thread # threads + 1
           /\ \A p \in prompts : p.thread # threads + 1
           /\ \A th \in 1 .. threads + 1 : th = threads + 1 \/ th \in 1 .. threads
  BY DEF TypeOK, Known, Waiting, Task, Prompt, Thread

(* A new thread waits.                                                      *)
LEMMA ThreadAdded ==
    ASSUME TypeOK, Known, OneContinuation, NEW t, t.thread = threads + 1,
           Waiting' = Waiting \cup {t}, threads' = threads + 1,
           UNCHANGED <<running, ended, prompts>>
    PROVE  OneContinuation'
<1>1. /\ running # threads + 1
      /\ threads + 1 \notin ended
      /\ \A u \in Waiting : u.thread # threads + 1
      /\ \A p \in prompts : p.thread # threads + 1
      /\ \A th \in 1 .. threads + 1 : th = threads + 1 \/ th \in 1 .. threads
  BY NewThreadIsNew
<1>2. \A th \in 1 .. threads' :
         \/ th = running' \/ th \in ended'
         \/ \E u \in Waiting' : u.thread = th
         \/ \E p \in prompts' : p.thread = th
  BY <1>1 DEF OneContinuation
<1> QED
  BY <1>1, <1>2 DEF OneContinuation

(* A new thread asks.                                                       *)
LEMMA ThreadAsks ==
    ASSUME TypeOK, Known, OneContinuation, NEW q, q.thread = threads + 1,
           prompts' = prompts \cup {q}, threads' = threads + 1,
           \A p \in prompts : p.id # q.id,
           Waiting' = Waiting, UNCHANGED <<running, ended>>
    PROVE  OneContinuation'
<1>1. /\ running # threads + 1
      /\ threads + 1 \notin ended
      /\ \A u \in Waiting : u.thread # threads + 1
      /\ \A p \in prompts : p.thread # threads + 1
      /\ \A th \in 1 .. threads + 1 : th = threads + 1 \/ th \in 1 .. threads
  BY NewThreadIsNew
<1>2. \A th \in 1 .. threads' :
         \/ th = running' \/ th \in ended'
         \/ \E u \in Waiting' : u.thread = th
         \/ \E p \in prompts' : p.thread = th
  BY <1>1 DEF OneContinuation
<1> QED
  BY <1>1, <1>2 DEF OneContinuation

(* Numbers are only handed out, never taken back.                           *)
LEMMA KnownGrows ==
    ASSUME TypeOK, Known,
           threads' \in Nat, threads <= threads',
           promptNo' \in Nat, promptNo <= promptNo',
           running' <= threads',
           \A th \in ended' : th \in ended \/ th \in 1 .. threads',
           \A t \in Waiting' : t \in Waiting \/ t.thread <= threads',
           \A p \in prompts' :
               p \in prompts \/ (p.thread <= threads' /\ p.id <= promptNo'),
           \A t \in Waiting' : t.seq < sequence',
           \A t, u \in Waiting' : t.seq = u.seq => t = u
    PROVE  Known'
<1>1. \A t \in Waiting : t.thread <= threads'
  <2>1. \A t \in Waiting : t.thread \in Nat /\ t.thread <= threads
    BY DEF TypeOK, Known, Waiting, Task, Thread
  <2> QED
    BY <2>1 DEF TypeOK
<1>2. \A p \in prompts : p.thread <= threads' /\ p.id <= promptNo'
  <2>1. \A p \in prompts : /\ p.thread \in Nat /\ p.thread <= threads
                           /\ p.id \in Nat /\ p.id <= promptNo
    BY DEF TypeOK, Known, Prompt, Thread
  <2> QED
    BY <2>1 DEF TypeOK
<1>3. ended' \subseteq 1 .. threads'
  <2>1. \A th \in 1 .. threads : th \in 1 .. threads'
    BY DEF TypeOK
  <2>2. \A th \in ended : th \in 1 .. threads'
    BY <2>1 DEF Known
  <2> QED
    BY <2>2
<1>4. \A t \in Waiting' : t.thread <= threads' /\ t.seq < sequence'
  BY <1>1
<1>5. \A p \in prompts' : p.thread <= threads' /\ p.id <= promptNo'
  BY <1>2
<1> QED
  BY <1>3, <1>4, <1>5 DEF Known

(* What waits is only taken out, or put back as a whole.                    *)
LEMMA OrderShrinks ==
    ASSUME SchedInv, Waiting' \subseteq Waiting, inflight' \subseteq inflight,
           inflight' = {} \/ scheduled' = scheduled, UNCHANGED <<tick, sequence>>
    PROVE  /\ OnTime'
           /\ \A t \in Waiting' : t.seq < sequence'
           /\ \A t, u \in Waiting' : t.seq = u.seq => t = u
  BY DEF SchedInv, OnTime, Known

(* The idle thread number is no thread.                                     *)
LEMMA ZeroIsNoThread ==
    ASSUME TypeOK
    PROVE  /\ 0 \notin ended
           /\ \A t \in Waiting : t.thread # 0
           /\ \A p \in prompts : p.thread # 0
           /\ \A t \in Waiting : t.thread \in Thread
           /\ \A p \in prompts : p.thread \in Thread
  BY DEF TypeOK, Waiting, Task, Prompt, Thread

(* A waiting thread starts.                                                 *)
LEMMA ThreadStarts ==
    ASSUME TypeOK, OneContinuation, running = 0, NEW t \in Waiting,
           Waiting' = Waiting \ {t}, running' = t.thread,
           UNCHANGED <<ended, prompts, threads>>
    PROVE  OneContinuation'
<1>1. \A u \in Waiting' : u.thread # t.thread
  BY DEF OneContinuation
<1>2. \A th \in 1 .. threads' : th # 0
  BY DEF TypeOK
<1>3. \A th \in 1 .. threads' :
         \/ th = running' \/ th \in ended'
         \/ \E u \in Waiting' : u.thread = th
         \/ \E p \in prompts' : p.thread = th
  BY <1>2 DEF OneContinuation
<1> QED
  BY <1>1, <1>3 DEF OneContinuation

(* The running thread waits again.                                          *)
LEMMA ThreadSleeps ==
    ASSUME TypeOK, OneContinuation, running # 0, NEW t, t.thread = running,
           Waiting' = Waiting \cup {t}, running' = 0,
           UNCHANGED <<ended, prompts, threads>>
    PROVE  OneContinuation'
  BY ZeroIsNoThread DEF OneContinuation

(* The running thread asks the player.                                      *)
LEMMA ThreadPrompts ==
    ASSUME TypeOK, OneContinuation, running # 0, NEW q, q.thread = running,
           \A p \in prompts : p.id # q.id,
           prompts' = prompts \cup {q}, Waiting' = Waiting, running' = 0,
           UNCHANGED <<ended, threads>>
    PROVE  OneContinuation'
  BY ZeroIsNoThread DEF OneContinuation

(* The running thread ends.                                                 *)
LEMMA ThreadEnds ==
    ASSUME TypeOK, OneContinuation, running # 0, ended' = ended \cup {running},
           running' = 0, Waiting' = Waiting, UNCHANGED <<prompts, threads>>
    PROVE  OneContinuation'
  BY ZeroIsNoThread DEF OneContinuation

(* A prompt is cancelled with its thread.                                   *)
LEMMA PromptCancelled ==
    ASSUME TypeOK, OneContinuation, NEW p \in prompts,
           prompts' = prompts \ {p}, ended' = ended \cup {p.thread},
           Waiting' = Waiting, UNCHANGED <<running, threads>>
    PROVE  OneContinuation'
  BY DEF OneContinuation

(* A prompt is replaced by the next one of its thread.                      *)
LEMMA PromptReplaced ==
    ASSUME TypeOK, OneContinuation, NEW p \in prompts, NEW q,
           q.thread = p.thread, \A r \in prompts : r.id # q.id,
           prompts' = (prompts \ {p}) \cup {q},
           Waiting' = Waiting, UNCHANGED <<running, threads, ended>>
    PROVE  OneContinuation'
  BY DEF OneContinuation

(* A prompt is answered and its thread waits to run.                        *)
LEMMA PromptAnswered ==
    ASSUME TypeOK, OneContinuation, NEW p \in prompts, NEW t,
           t.thread = p.thread, prompts' = prompts \ {p},
           Waiting' = Waiting \cup {t}, UNCHANGED <<running, threads, ended>>
    PROVE  OneContinuation'
  BY DEF OneContinuation

-----------------------------------------------------------------------------
(* The host's tick boundary.                                                *)
LEMMA HostCallInv == SchedInv /\ HostCall => SchedInv'
<1> SUFFICES ASSUME SchedInv, HostCall PROVE SchedInv'
  OBVIOUS
<1>t. TypeOK /\ OneContinuation /\ Known /\ IdleOutside /\ TailIsIdle
  BY DEF SchedInv
<1>n. threads + 1 \in Thread /\ threads' = threads + 1 /\ threads \in Nat
  BY <1>t DEF HostCall, NewThread, TypeOK, Thread
<1>s. /\ sequence' \in Nat /\ scheduled' \subseteq Task /\ OnTime'
      /\ \A t \in Waiting' : t.seq < sequence'
      /\ \A t, u \in Waiting' : t.seq = u.seq => t = u
  BY <1>n, ScheduleOrder DEF HostCall
<1>w. \E t : t.thread = threads + 1 /\ Waiting' = Waiting \cup {t}
  BY DEF HostCall, Schedule, Waiting
<1>1. TypeOK'
  BY <1>t, <1>n, <1>s DEF HostCall, TypeOK, Thread, prompting, slice
<1>2. OneContinuation'
  BY <1>t, <1>n, <1>w, ThreadAdded DEF HostCall, prompting
<1>3. Known'
  <2>1. running' <= threads'
    BY <1>t, <1>n DEF HostCall, TypeOK, Known
  <2> QED
    BY <1>t, <1>n, <1>s, <1>w, <2>1, KnownGrows DEF HostCall, TypeOK, prompting
<1>4. IdleOutside' /\ TailIsIdle'
  BY <1>t DEF HostCall, IdleOutside, TailIsIdle, Dispatching, slice
<1> QED
  BY <1>1, <1>2, <1>3, <1>4, <1>s DEF SchedInv

(* A prompt under a new number.                                             *)
LEMMA AskedIsNew ==
    ASSUME TypeOK, Known, NEW th \in Thread, NEW c \in Client, NEW k \in Nat,
           NEW b \in BOOLEAN,
           Ask(th, c, k, b)
    PROVE  /\ promptNo' \in Nat /\ promptNo' = promptNo + 1
           /\ prompts' \subseteq Prompt
           /\ \E q : /\ q.thread = th /\ q.id = promptNo'
                     /\ prompts' = prompts \cup {q}
                     /\ \A p \in prompts : p.id # q.id
<1> DEFINE q == [id |-> promptNo + 1, thread |-> th, client |-> c,
                 missing |-> k, cancel |-> b]
<1>1. q.thread = th /\ q.id = promptNo + 1
  OBVIOUS
<1>2. q \in Prompt
  BY DEF TypeOK, Prompt
<1>3. prompts' = prompts \cup {q} /\ promptNo' = promptNo + 1
  BY DEF Ask
<1> HIDE DEF q
<1>4. \A p \in prompts : p.id # promptNo + 1
  BY DEF TypeOK, Known, Prompt
<1> QED
  BY <1>1, <1>2, <1>3, <1>4 DEF TypeOK

LEMMA HostVerbInv ==
    ASSUME SchedInv, NEW c \in Client, NEW k \in {1, 2}, HostVerb(c, k)
    PROVE  SchedInv'
<1>t. TypeOK /\ OneContinuation /\ Known /\ IdleOutside /\ TailIsIdle
  BY DEF SchedInv
<1>n. threads + 1 \in Thread /\ threads' = threads + 1 /\ threads \in Nat
  BY <1>t DEF HostVerb, NewThread, TypeOK, Thread
<1>q. /\ promptNo' \in Nat /\ promptNo' = promptNo + 1 /\ prompts' \subseteq Prompt
      /\ \E q : /\ q.thread = threads + 1 /\ q.id = promptNo'
                /\ prompts' = prompts \cup {q}
                /\ \A p \in prompts : p.id # q.id
  <2>1. Ask(threads + 1, c, k, TRUE)
    BY Zenon DEF HostVerb
  <2>2. k \in Nat
    OBVIOUS
  <2> QED
    BY <1>t, <1>n, <2>1, <2>2, AskedIsNew
<1>s. /\ OnTime'
      /\ \A t \in Waiting' : t.seq < sequence'
      /\ \A t, u \in Waiting' : t.seq = u.seq => t = u
      /\ Waiting' = Waiting
  BY OrderKept DEF HostVerb, queue, Waiting
<1>1. TypeOK'
  BY <1>t, <1>n, <1>q DEF HostVerb, TypeOK, Thread, queue, slice
<1>2. OneContinuation'
  BY <1>t, <1>n, <1>s, <1>q, ThreadAsks DEF HostVerb
<1>3. Known'
  <2>1. running' <= threads' /\ threads <= threads' /\ promptNo <= promptNo'
    BY <1>t, <1>n, <1>q DEF HostVerb, TypeOK, Known
  <2>2. \A p \in prompts' : p \in prompts \/ (p.thread <= threads' /\ p.id <= promptNo')
    BY <1>n, <1>q
  <2>3. threads' \in Nat /\ ended' = ended
    BY <1>n DEF HostVerb
  <2> QED
    BY <1>t, <1>q, <1>s, <2>1, <2>2, <2>3, KnownGrows
<1>4. IdleOutside' /\ TailIsIdle'
  BY <1>t DEF HostVerb, IdleOutside, TailIsIdle, Dispatching, slice, queue
<1> QED
  BY <1>1, <1>2, <1>3, <1>4, <1>s DEF SchedInv

LEMMA AnswerInv ==
    ASSUME SchedInv, NEW c \in Client, NEW id \in 1 .. promptNo,
           NEW r \in Response, Answer(c, id, r)
    PROVE  SchedInv'
<1>t. TypeOK /\ OneContinuation /\ Known /\ IdleOutside /\ TailIsIdle
  BY DEF SchedInv
<1>u. UNCHANGED <<tick, inflight, running, walks, slice, threads>>
  BY DEF Answer
<1>p. PICK p \in prompts :
          IF r = "null" /\ p.missing > 0
          THEN /\ prompts' = prompts \ {p}
               /\ ended' = ended \cup {p.thread}
               /\ UNCHANGED <<promptNo, sequence, scheduled>>
          ELSE IF p.missing > 1
          THEN /\ prompts' = (prompts \ {p}) \cup
                     {[p EXCEPT !.id = promptNo + 1, !.missing = @ - 1]}
               /\ promptNo' = promptNo + 1
               /\ UNCHANGED <<ended, sequence, scheduled>>
          ELSE /\ prompts' = prompts \ {p}
               /\ Schedule(p.thread, 0)
               /\ UNCHANGED <<promptNo, ended>>
  BY DEF Answer
<1>h. /\ p \in Prompt /\ p.thread \in Thread /\ p.thread \in 1 .. threads
      /\ threads \in Nat /\ promptNo \in Nat /\ running <= threads
      /\ threads <= threads /\ promptNo <= promptNo /\ p.thread <= threads
  BY <1>t DEF TypeOK, Known, Prompt, Thread
<1>i. IdleOutside' /\ TailIsIdle'
  BY <1>t, <1>u DEF IdleOutside, TailIsIdle, Dispatching, slice
<1>1. CASE r = "null" /\ p.missing > 0
  <2>1. /\ prompts' = prompts \ {p} /\ ended' = ended \cup {p.thread}
        /\ UNCHANGED <<promptNo, sequence, scheduled>>
    BY <1>1, <1>p
  <2>s. /\ OnTime'
        /\ \A t \in Waiting' : t.seq < sequence'
        /\ \A t, u \in Waiting' : t.seq = u.seq => t = u
        /\ Waiting' = Waiting
    BY <1>u, <2>1, OrderKept DEF queue, Waiting
  <2>2. TypeOK'
    BY <1>t, <1>u, <1>h, <2>1 DEF TypeOK, slice
  <2>3. OneContinuation'
    BY <1>t, <1>u, <2>1, <2>s, PromptCancelled
  <2>4. Known'
    BY <1>t, <1>u, <1>h, <2>1, <2>s, KnownGrows
  <2> QED
    BY <1>i, <2>2, <2>3, <2>4, <2>s DEF SchedInv
<1>2. CASE ~(r = "null" /\ p.missing > 0) /\ p.missing > 1
  <2> DEFINE q == [p EXCEPT !.id = promptNo + 1, !.missing = @ - 1]
  <2>1. /\ prompts' = (prompts \ {p}) \cup {q} /\ promptNo' = promptNo + 1
        /\ UNCHANGED <<ended, sequence, scheduled>>
    BY <1>2, <1>p
  <2>2. q \in Prompt /\ q.thread = p.thread /\ q.id = promptNo + 1
    <3>1. promptNo + 1 \in Nat /\ p.missing - 1 \in Nat
      BY <1>2, <1>h DEF Prompt
    <3>2. p \in [id : Nat, thread : Thread, client : Client, missing : Nat,
                 cancel : BOOLEAN]
      BY <1>h DEF Prompt
    <3>3. q \in [id : Nat, thread : Thread, client : Client, missing : Nat,
                 cancel : BOOLEAN]
      BY <3>1, <3>2, Zenon
    <3>4. q.thread = p.thread /\ q.id = promptNo + 1
      BY <3>2, Zenon
    <3> QED
      BY <3>3, <3>4 DEF Prompt
  <2> HIDE DEF q
  <2>3. \A x \in prompts : x.id # q.id
    BY <1>t, <2>2 DEF TypeOK, Known, Prompt
  <2>s. /\ OnTime'
        /\ \A t \in Waiting' : t.seq < sequence'
        /\ \A t, u \in Waiting' : t.seq = u.seq => t = u
        /\ Waiting' = Waiting
    BY <1>u, <2>1, OrderKept DEF queue, Waiting
  <2>4. TypeOK'
    BY <1>t, <1>u, <1>h, <2>1, <2>2 DEF TypeOK, slice
  <2>5. OneContinuation'
    BY <1>t, <1>u, <2>1, <2>2, <2>3, <2>s, PromptReplaced
  <2>6. Known'
    <3>1. promptNo' \in Nat /\ promptNo <= promptNo' /\ q.id <= promptNo'
      BY <1>h, <2>1, <2>2
    <3>2. \A x \in prompts' : x \in prompts \/ (x.thread <= threads' /\ x.id <= promptNo')
      BY <1>h, <1>u, <2>1, <2>2, <3>1
    <3> QED
      BY <1>t, <1>u, <1>h, <2>1, <2>s, <3>1, <3>2, KnownGrows
  <2> QED
    BY <1>i, <2>4, <2>5, <2>6, <2>s DEF SchedInv
<1>3. CASE ~(r = "null" /\ p.missing > 0) /\ ~(p.missing > 1)
  <2>1. /\ prompts' = prompts \ {p} /\ Schedule(p.thread, 0)
        /\ UNCHANGED <<promptNo, ended>>
    BY <1>3, <1>p
  <2>s. /\ sequence' \in Nat /\ scheduled' \subseteq Task /\ OnTime'
        /\ \A t \in Waiting' : t.seq < sequence'
        /\ \A t, u \in Waiting' : t.seq = u.seq => t = u
    BY <1>u, <1>h, <2>1, ScheduleOrder
  <2>w. \E t : t.thread = p.thread /\ Waiting' = Waiting \cup {t}
    BY <1>u, <2>1 DEF Schedule, Waiting
  <2>2. TypeOK'
    BY <1>t, <1>u, <2>1, <2>s DEF TypeOK, slice
  <2>3. OneContinuation'
    BY <1>t, <1>u, <2>1, <2>w, PromptAnswered
  <2>4. Known'
    <3>1. \A t \in Waiting' : t \in Waiting \/ t.thread <= threads'
      BY <1>u, <1>h, <2>w
    <3> QED
      BY <1>t, <1>u, <1>h, <2>1, <2>s, <3>1, KnownGrows
  <2> QED
    BY <1>i, <2>2, <2>3, <2>4, <2>s DEF SchedInv
<1> QED
  BY <1>1, <1>2, <1>3

LEMMA BeginSliceInv == SchedInv /\ BeginSlice => SchedInv'
<1> SUFFICES ASSUME SchedInv, BeginSlice PROVE SchedInv'
  OBVIOUS
<1>1. TypeOK'
  BY DEF SchedInv, TypeOK, BeginSlice, queue, prompting
<1>2. OneContinuation' /\ Known' /\ OnTime'
  BY DEF SchedInv, OneContinuation, Known, OnTime, Waiting, BeginSlice, queue, prompting
<1>3. IdleOutside' /\ TailIsIdle'
  BY DEF SchedInv, IdleOutside, TailIsIdle, Dispatching, BeginSlice, queue
<1> QED
  BY <1>1, <1>2, <1>3 DEF SchedInv

-----------------------------------------------------------------------------
(* The clock moves.                                                         *)
LEMMA WalkDueIsNat ==
    \A n, due \in Nat : \A lag \in Nat \ {0} :
        due <= n => due + lag * ((n - due) \div lag + 1) \in Nat
<1>1. \A a \in Nat : \A b \in Nat \ {0} : a \div b \in Nat
  OBVIOUS
<1>2. \A a, b \in Nat : a * b \in Nat
  OBVIOUS
<1> QED
  BY <1>1, <1>2

LEMMA WalksTyped ==
    ASSUME walks \in [Movable -> [due : Nat, lag : Nat]], NEW n \in Nat,
           AdvanceWalks(n)
    PROVE  walks' \in [Movable -> [due : Nat, lag : Nat]]
<1> DEFINE W == [due : Nat, lag : Nat]
<1>1. PICK stopped \in SUBSET Movable :
        walks' = [m \in Movable |->
            IF walks[m].lag = 0 \/ walks[m].due > n THEN walks[m]
            ELSE IF m \in stopped THEN NoWalk
            ELSE [walks[m] EXCEPT !.due = @ + walks[m].lag *
                        ((n - walks[m].due) \div walks[m].lag + 1)]]
  BY DEF AdvanceWalks
<1>2. NoWalk \in W
  BY DEF NoWalk
<1>3. ASSUME NEW m \in Movable, ~(walks[m].lag = 0 \/ walks[m].due > n)
      PROVE  [walks[m] EXCEPT !.due = @ + walks[m].lag *
                        ((n - walks[m].due) \div walks[m].lag + 1)] \in W
  <2>1. walks[m] \in W /\ walks[m].due \in Nat /\ walks[m].lag \in Nat \ {0}
        /\ walks[m].due <= n
    BY <1>3
  <2>2. walks[m].due + walks[m].lag *
                        ((n - walks[m].due) \div walks[m].lag + 1) \in Nat
    BY <2>1, WalkDueIsNat
  <2> QED
    BY <2>1, <2>2, Zenon
<1> QED
  BY <1>1, <1>2, <1>3, Zenon

(* advance_scheduler moves the clock up to the first deadline.              *)
LEMMA AdvanceKeeps ==
    ASSUME SchedInv, NEW n \in Nat, n >= tick, ~Dispatching,
           \A t \in scheduled : t.due >= n,
           AdvanceTo(n), UNCHANGED <<sequence, running, prompting, threads, ended>>
    PROVE  /\ Waiting' = Waiting
           /\ tick' \in Nat /\ scheduled' \subseteq Task /\ inflight' \subseteq Task
           /\ walks' \in [Movable -> [due : Nat, lag : Nat]]
           /\ OneContinuation' /\ Known' /\ OnTime'
<1>1. inflight = {} /\ running = 0
  BY DEF SchedInv, IdleOutside
<1>2. \A t \in scheduled : t.due \in Nat
  BY DEF SchedInv, TypeOK, Task
<1>3. /\ tick' = n /\ inflight' = {t \in scheduled : t.due <= n}
      /\ scheduled' = {t \in scheduled : t.due > n}
  BY DEF AdvanceTo
<1>4. Waiting' = Waiting
  BY <1>1, <1>2, <1>3 DEF Waiting
<1>5. walks' \in [Movable -> [due : Nat, lag : Nat]]
  BY WalksTyped DEF SchedInv, TypeOK, AdvanceTo
<1>6. OnTime'
  BY <1>1, <1>2, <1>3, <1>4 DEF OnTime, Waiting
<1>7. OneContinuation' /\ Known'
  BY <1>4 DEF SchedInv, OneContinuation, Known, prompting
<1>8. scheduled' \subseteq Task /\ inflight' \subseteq Task
  BY <1>3 DEF SchedInv, TypeOK
<1> QED
  BY <1>3, <1>4, <1>5, <1>6, <1>7, <1>8

(* The end of a slice with nothing due before its limit.                    *)
LEMMA TailInv ==
    ASSUME SchedInv, pc = "loop", \A t \in scheduled : t.due > limit, Tail,
           UNCHANGED <<sequence, running, prompting, limit, rounds, threads, ended>>
    PROVE  SchedInv'
<1>1. CASE tick < limit
  <2>1. AdvanceTo(limit) /\ pc' = "tail"
    BY <1>1 DEF Tail
  <2>2. /\ limit \in Nat /\ limit >= tick /\ ~Dispatching
        /\ \A t \in scheduled : t.due >= limit
    BY <1>1 DEF SchedInv, TypeOK, Task, Dispatching
  <2>3. /\ Waiting' = Waiting
        /\ tick' \in Nat /\ scheduled' \subseteq Task /\ inflight' \subseteq Task
        /\ walks' \in [Movable -> [due : Nat, lag : Nat]]
        /\ OneContinuation' /\ Known' /\ OnTime'
    BY <2>1, <2>2, AdvanceKeeps
  <2>4. TypeOK'
    BY <2>1, <2>3 DEF SchedInv, TypeOK, prompting
  <2>5. inflight' = {}
    BY <2>1 DEF AdvanceTo, SchedInv, TypeOK, Task
  <2>6. IdleOutside' /\ TailIsIdle'
    BY <2>2, <2>5 DEF SchedInv, IdleOutside, TailIsIdle
  <2> QED
    BY <2>3, <2>4, <2>6 DEF SchedInv
<1>2. CASE ~(tick < limit)
  <2>1. pc' = "host" /\ UNCHANGED <<tick, inflight, scheduled, walks>>
    BY <1>2 DEF Tail
  <2>2. TypeOK'
    BY <2>1 DEF SchedInv, TypeOK, prompting
  <2>3. OneContinuation' /\ Known' /\ OnTime'
    BY <2>1 DEF SchedInv, OneContinuation, Known, OnTime, Waiting, prompting
  <2>4. IdleOutside' /\ TailIsIdle'
    BY <2>1 DEF SchedInv, IdleOutside, TailIsIdle, Dispatching
  <2> QED
    BY <2>2, <2>3, <2>4 DEF SchedInv
<1> QED
  BY <1>1, <1>2

LEMMA LoopInv == SchedInv /\ LoopNext => SchedInv'
<1> SUFFICES ASSUME SchedInv, LoopNext PROVE SchedInv'
  OBVIOUS
<1>1. CASE LoopIdle
  BY <1>1, TailInv DEF LoopIdle, NoTasks
<1>2. CASE LoopRoundLimit \/ LoopPanic
  <2>1. TypeOK'
    BY <1>2 DEF SchedInv, TypeOK, LoopRoundLimit, LoopPanic, queue, prompting
  <2>2. OneContinuation' /\ Known' /\ OnTime'
    <3>1. UNCHANGED <<tick, sequence, scheduled, inflight, running, prompts,
                      promptNo, threads, ended>>
      BY <1>2 DEF LoopRoundLimit, LoopPanic, queue, prompting
    <3> QED
      BY <3>1 DEF SchedInv, OneContinuation, Known, OnTime, Waiting
  <2>3. IdleOutside' /\ TailIsIdle'
    BY <1>2 DEF SchedInv, IdleOutside, TailIsIdle, Dispatching,
                LoopRoundLimit, LoopPanic, queue
  <2> QED
    BY <2>1, <2>2, <2>3 DEF SchedInv
<1>3. CASE LoopTickLimit
  BY <1>3, TailInv DEF LoopTickLimit, Dues
<1>4. CASE LoopDispatch
  <2>1. PICK n \in Dues : /\ \A d \in Dues : n <= d
                          /\ n <= limit
                          /\ AdvanceTo(IF n > tick THEN n ELSE tick)
    BY <1>4 DEF LoopDispatch
  <2> DEFINE m == IF n > tick THEN n ELSE tick
  <2>2. /\ pc = "loop" /\ pc' = "dispatch" /\ rounds' = rounds + 1
        /\ UNCHANGED <<sequence, running, prompting, limit, threads, ended>>
    BY <1>4 DEF LoopDispatch
  <2>3. n \in Nat
    BY DEF SchedInv, TypeOK, Dues, Walking, Task
  <2>4. m \in Nat /\ m >= tick /\ ~Dispatching
    BY <2>2, <2>3 DEF SchedInv, TypeOK, Dispatching
  <2>5. \A t \in scheduled : t.due >= m
    <3>1. \A t \in scheduled : t.due \in Nat /\ t.due >= tick /\ n <= t.due
      BY <2>1 DEF SchedInv, OnTime, Waiting, TypeOK, Task, Dues
    <3> QED
      BY <3>1, <2>3 DEF SchedInv, TypeOK
  <2>6. AdvanceTo(m)
    BY <2>1
  <2> HIDE DEF m
  <2>7. /\ tick' \in Nat /\ scheduled' \subseteq Task /\ inflight' \subseteq Task
        /\ walks' \in [Movable -> [due : Nat, lag : Nat]]
        /\ OneContinuation' /\ Known' /\ OnTime'
    BY <2>2, <2>4, <2>5, <2>6, AdvanceKeeps
  <2>8. TypeOK'
    BY <2>2, <2>7 DEF SchedInv, TypeOK, prompting
  <2>9. IdleOutside' /\ TailIsIdle'
    BY <2>2 DEF IdleOutside, TailIsIdle, Dispatching
  <2> QED
    BY <2>7, <2>8, <2>9 DEF SchedInv
<1> QED
  BY <1>1, <1>2, <1>3, <1>4 DEF LoopNext

-----------------------------------------------------------------------------
(* The dispatch and the running thread.                                     *)
LEMMA StartTaskInv == ASSUME SchedInv, NEW t \in inflight, StartTask(t)
                      PROVE  SchedInv'
<1>t. TypeOK /\ OneContinuation /\ Known /\ IdleOutside /\ TailIsIdle
  BY DEF SchedInv
<1>u. /\ Dispatching /\ running = 0 /\ inflight' = inflight \ {t}
      /\ running' = t.thread
      /\ UNCHANGED <<tick, sequence, scheduled, prompting, walks, slice,
                     threads, ended>>
  BY DEF StartTask
<1>h. t \in Waiting /\ t.thread \in Thread /\ t.thread <= threads
      /\ threads \in Nat /\ promptNo \in Nat
      /\ threads <= threads /\ promptNo <= promptNo
  BY <1>t DEF TypeOK, Known, Waiting, Task, Thread
<1>n. t \notin scheduled
  <2>1. /\ \A x \in inflight : x.due = tick
        /\ \A x \in inflight, y \in scheduled : y.due = tick => x.seq < y.seq
    BY DEF SchedInv, OnTime
  <2>2. t.seq \in Nat
    BY <1>t DEF TypeOK, Task
  <2> QED
    BY <2>1, <2>2
<1>w. Waiting' = Waiting \ {t}
  BY <1>u, <1>n DEF Waiting
<1>s. /\ OnTime'
      /\ \A x \in Waiting' : x.seq < sequence'
      /\ \A x, y \in Waiting' : x.seq = y.seq => x = y
  BY <1>u, <1>w, OrderShrinks
<1>1. TypeOK'
  BY <1>t, <1>u, <1>h DEF TypeOK, Thread, prompting, slice
<1>2. OneContinuation'
  BY <1>t, <1>u, <1>h, <1>w, ThreadStarts DEF prompting
<1>3. Known'
  <2>1. UNCHANGED <<prompts, promptNo, ended, threads>> /\ running' <= threads'
    BY <1>u, <1>h DEF prompting
  <2>2. \A x \in Waiting' : x \in Waiting
    BY <1>w
  <2> QED
    BY <1>t, <1>h, <1>s, <2>1, <2>2, KnownGrows
<1>4. IdleOutside'
  BY <1>u DEF IdleOutside, Dispatching, slice
<1>5. TailIsIdle'
  BY <1>t, <1>u DEF TailIsIdle, slice
<1> QED
  BY <1>1, <1>2, <1>3, <1>4, <1>5, <1>s DEF SchedInv

LEMMA BudgetOutInv == SchedInv /\ BudgetOut => SchedInv'
<1> SUFFICES ASSUME SchedInv, BudgetOut PROVE SchedInv'
  OBVIOUS
<1>u. /\ running = 0 /\ scheduled' = scheduled \cup inflight /\ inflight' = {}
      /\ UNCHANGED <<tick, sequence, running, prompts, promptNo, walks, pc,
                     limit, rounds, threads, ended>>
  BY DEF BudgetOut, prompting, slice
<1>w. Waiting' = Waiting
  BY <1>u DEF Waiting
<1>s. OnTime'
  BY <1>u, <1>w, OrderShrinks
<1>1. TypeOK'
  BY <1>u DEF SchedInv, TypeOK
<1>2. OneContinuation' /\ Known'
  BY <1>u, <1>w DEF SchedInv, OneContinuation, Known
<1>3. IdleOutside' /\ TailIsIdle'
  BY <1>u DEF IdleOutside, TailIsIdle
<1> QED
  BY <1>1, <1>2, <1>3, <1>s DEF SchedInv

LEMMA EndDispatchInv == SchedInv /\ EndDispatch => SchedInv'
<1> SUFFICES ASSUME SchedInv, EndDispatch PROVE SchedInv'
  OBVIOUS
<1>u. /\ running = 0 /\ inflight = {} /\ pc' \in {"loop", "host"}
      /\ UNCHANGED <<tick, sequence, scheduled, inflight, running, prompts,
                     promptNo, walks, limit, rounds, threads, ended>>
  BY DEF EndDispatch, queue, prompting
<1>1. TypeOK'
  BY <1>u DEF SchedInv, TypeOK
<1>2. OneContinuation' /\ Known' /\ OnTime'
  BY <1>u DEF SchedInv, OneContinuation, Known, OnTime, Waiting
<1>3. IdleOutside' /\ TailIsIdle'
  BY <1>u DEF IdleOutside, TailIsIdle
<1> QED
  BY <1>1, <1>2, <1>3 DEF SchedInv

(* A thread runs only in a dispatch that is not the idle advance.           *)
LEMMA RunsInDispatch ==
    ASSUME SchedInv, running # 0
    PROVE  pc = "dispatch"
  BY DEF SchedInv, TypeOK, IdleOutside, TailIsIdle, Dispatching

LEMMA RunSpawnInv == ASSUME SchedInv, NEW d \in Delay, RunSpawn(d)
                     PROVE  SchedInv'
<1>t. TypeOK /\ OneContinuation /\ Known /\ IdleOutside /\ TailIsIdle
  BY DEF SchedInv
<1>n. threads + 1 \in Thread /\ threads' = threads + 1 /\ threads \in Nat
  BY <1>t DEF RunSpawn, NewThread, TypeOK, Thread
<1>s. /\ sequence' \in Nat /\ scheduled' \subseteq Task /\ OnTime'
      /\ \A t \in Waiting' : t.seq < sequence'
      /\ \A t, u \in Waiting' : t.seq = u.seq => t = u
  BY <1>n, ScheduleOrder DEF RunSpawn
<1>w. \E t : t.thread = threads + 1 /\ Waiting' = Waiting \cup {t}
  BY DEF RunSpawn, Schedule, Waiting
<1>1. TypeOK'
  BY <1>t, <1>n, <1>s DEF RunSpawn, TypeOK, Thread, prompting, slice
<1>2. OneContinuation'
  BY <1>t, <1>n, <1>w, ThreadAdded DEF RunSpawn, prompting
<1>3. Known'
  <2>1. running' <= threads'
    BY <1>t, <1>n DEF RunSpawn, TypeOK, Known
  <2> QED
    BY <1>t, <1>n, <1>s, <1>w, <2>1, KnownGrows DEF RunSpawn, TypeOK, prompting
<1>4. IdleOutside' /\ TailIsIdle'
  BY RunsInDispatch DEF RunSpawn, IdleOutside, TailIsIdle, Dispatching, slice
<1> QED
  BY <1>1, <1>2, <1>3, <1>4, <1>s DEF SchedInv

LEMMA RunSpawnAsksInv ==
    ASSUME SchedInv, NEW c \in Client, NEW b \in BOOLEAN, RunSpawnAsks(c, b)
    PROVE  SchedInv'
<1>t. TypeOK /\ OneContinuation /\ Known
  BY DEF SchedInv
<1>n. threads + 1 \in Thread /\ threads' = threads + 1 /\ threads \in Nat
  BY <1>t DEF RunSpawnAsks, NewThread, TypeOK, Thread
<1>q. /\ promptNo' \in Nat /\ promptNo' = promptNo + 1 /\ prompts' \subseteq Prompt
      /\ \E q : /\ q.thread = threads + 1 /\ q.id = promptNo'
                /\ prompts' = prompts \cup {q}
                /\ \A p \in prompts : p.id # q.id
  <2>1. Ask(threads + 1, c, 0, b)
    BY Zenon DEF RunSpawnAsks
  <2> QED
    BY <1>t, <1>n, <2>1, AskedIsNew
<1>u. UNCHANGED <<queue, running, walks, slice, ended>> /\ running # 0
  BY Zenon DEF RunSpawnAsks
<1>s. /\ OnTime'
      /\ \A t \in Waiting' : t.seq < sequence'
      /\ \A t, u \in Waiting' : t.seq = u.seq => t = u
      /\ Waiting' = Waiting
  BY <1>u, OrderKept DEF queue, Waiting
<1>1. TypeOK'
  BY <1>t, <1>n, <1>q, <1>u DEF TypeOK, Thread, queue, slice
<1>2. OneContinuation'
  BY <1>t, <1>n, <1>s, <1>q, <1>u, ThreadAsks
<1>3. Known'
  <2>1. running' <= threads' /\ threads <= threads' /\ promptNo <= promptNo'
    BY <1>t, <1>n, <1>q, <1>u DEF TypeOK, Known
  <2>2. \A p \in prompts' : p \in prompts \/ (p.thread <= threads' /\ p.id <= promptNo')
    BY <1>n, <1>q
  <2>3. threads' \in Nat /\ ended' = ended
    BY <1>n, <1>u
  <2> QED
    BY <1>t, <1>q, <1>s, <2>1, <2>2, <2>3, KnownGrows
<1>4. IdleOutside' /\ TailIsIdle'
  BY <1>u, RunsInDispatch DEF IdleOutside, TailIsIdle, Dispatching, slice
<1> QED
  BY <1>1, <1>2, <1>3, <1>4, <1>s DEF SchedInv

(* Walks share the sequence numbers of the threads and nothing else.        *)
LEMMA WalkInv ==
    ASSUME SchedInv, running # 0,
           walks' \in [Movable -> [due : Nat, lag : Nat]],
           sequence' \in Nat, sequence <= sequence',
           UNCHANGED <<tick, scheduled, inflight, running, prompting, slice,
                       threads, ended>>
    PROVE  SchedInv'
<1>1. TypeOK'
  BY DEF SchedInv, TypeOK, prompting, slice
<1>2. OneContinuation' /\ OnTime'
  BY DEF SchedInv, OneContinuation, OnTime, Waiting, prompting
<1>3. Known'
  <2>1. \A t \in Waiting : t.seq \in Nat /\ t.seq < sequence
    BY DEF SchedInv, TypeOK, Known, Waiting, Task
  <2>2. \A t \in Waiting' : t.seq < sequence'
    BY <2>1 DEF SchedInv, TypeOK, Waiting
  <2> QED
    BY <2>2 DEF SchedInv, Known, Waiting, prompting
<1>4. IdleOutside' /\ TailIsIdle'
  BY DEF SchedInv, IdleOutside, TailIsIdle, Dispatching, slice
<1> QED
  BY <1>1, <1>2, <1>3, <1>4 DEF SchedInv

LEMMA RunWalkInv ==
    ASSUME SchedInv, NEW m \in Movable, NEW lag \in {1, 2},
           RunWalk(m, lag) \/ RunStopWalk(m)
    PROVE  SchedInv'
<1>1. [due |-> tick + lag, lag |-> lag] \in [due : Nat, lag : Nat]
      /\ NoWalk \in [due : Nat, lag : Nat]
  BY DEF SchedInv, TypeOK, NoWalk
<1>2. walks' \in [Movable -> [due : Nat, lag : Nat]]
  BY <1>1 DEF SchedInv, TypeOK, RunWalk, RunStopWalk
<1>3. sequence' \in Nat /\ sequence <= sequence'
  BY DEF SchedInv, TypeOK, RunWalk, RunStopWalk, queue
<1> QED
  BY <1>2, <1>3, WalkInv DEF RunWalk, RunStopWalk, queue

LEMMA RunSleepInv == ASSUME SchedInv, NEW d \in Delay, RunSleep(d)
                     PROVE  SchedInv'
<1>t. TypeOK /\ OneContinuation /\ Known
  BY DEF SchedInv
<1>h. /\ running \in Thread /\ running <= threads /\ threads \in Nat
      /\ promptNo \in Nat /\ threads <= threads /\ promptNo <= promptNo
      /\ 0 <= threads
  BY <1>t DEF RunSleep, TypeOK, Known, Thread
<1>u. /\ Schedule(running, d) /\ running' = 0 /\ running # 0
      /\ UNCHANGED <<tick, inflight, prompts, promptNo, walks, pc, limit,
                     rounds, threads, ended>>
  BY DEF RunSleep, prompting, slice
<1>s. /\ sequence' \in Nat /\ scheduled' \subseteq Task /\ OnTime'
      /\ \A t \in Waiting' : t.seq < sequence'
      /\ \A t, u \in Waiting' : t.seq = u.seq => t = u
  BY <1>h, <1>u, ScheduleOrder
<1>w. \E t : t.thread = running /\ Waiting' = Waiting \cup {t}
  BY <1>u DEF Schedule, Waiting
<1>1. TypeOK'
  BY <1>t, <1>u, <1>s DEF TypeOK
<1>2. OneContinuation'
  BY <1>t, <1>u, <1>w, ThreadSleeps
<1>3. Known'
  <2>1. \A t \in Waiting' : t \in Waiting \/ t.thread <= threads'
    BY <1>h, <1>u, <1>w
  <2> QED
    BY <1>t, <1>h, <1>u, <1>s, <2>1, KnownGrows
<1>4. IdleOutside' /\ TailIsIdle'
  BY <1>u, RunsInDispatch DEF IdleOutside, TailIsIdle, Dispatching
<1> QED
  BY <1>1, <1>2, <1>3, <1>4, <1>s DEF SchedInv

LEMMA RunAsksInv ==
    ASSUME SchedInv, NEW c \in Client, NEW b \in BOOLEAN, RunAsks(c, b)
    PROVE  SchedInv'
<1>t. TypeOK /\ OneContinuation /\ Known
  BY DEF SchedInv
<1>u. running # 0 /\ running' = 0 /\ UNCHANGED <<queue, walks, slice, threads, ended>>
  BY Zenon DEF RunAsks
<1>h. /\ running \in Thread /\ running <= threads /\ threads \in Nat
      /\ threads <= threads /\ 0 <= threads
  BY <1>t, <1>u DEF TypeOK, Known, Thread
<1>q. /\ promptNo' \in Nat /\ promptNo' = promptNo + 1 /\ prompts' \subseteq Prompt
      /\ \E q : /\ q.thread = running /\ q.id = promptNo'
                /\ prompts' = prompts \cup {q}
                /\ \A p \in prompts : p.id # q.id
  <2>1. Ask(running, c, 0, b)
    BY Zenon DEF RunAsks
  <2> QED
    BY <1>t, <1>h, <2>1, AskedIsNew
<1>s. /\ OnTime'
      /\ \A t \in Waiting' : t.seq < sequence'
      /\ \A t, u \in Waiting' : t.seq = u.seq => t = u
      /\ Waiting' = Waiting
  BY <1>u, OrderKept DEF queue, Waiting
<1>1. TypeOK'
  BY <1>t, <1>q, <1>u DEF TypeOK, queue, slice
<1>2. OneContinuation'
  BY <1>t, <1>s, <1>q, <1>u, ThreadPrompts
<1>3. Known'
  <2>1. promptNo <= promptNo' /\ running' <= threads'
    BY <1>t, <1>h, <1>q, <1>u DEF TypeOK
  <2>2. \A p \in prompts' : p \in prompts \/ (p.thread <= threads' /\ p.id <= promptNo')
    BY <1>h, <1>q, <1>u
  <2> QED
    BY <1>t, <1>h, <1>q, <1>s, <1>u, <2>1, <2>2, KnownGrows
<1>4. IdleOutside' /\ TailIsIdle'
  BY <1>u, RunsInDispatch DEF IdleOutside, TailIsIdle, Dispatching, slice
<1> QED
  BY <1>1, <1>2, <1>3, <1>4, <1>s DEF SchedInv

LEMMA RunEndsInv ==
    ASSUME SchedInv, NEW fatal \in BOOLEAN, RunComplete \/ RunFails(fatal)
    PROVE  SchedInv'
<1>t. TypeOK /\ OneContinuation /\ Known
  BY DEF SchedInv
<1>u. /\ running # 0 /\ running' = 0 /\ ended' = ended \cup {running}
      /\ UNCHANGED <<tick, sequence, prompts, promptNo, walks, limit, rounds,
                     threads>>
  BY DEF RunComplete, RunFails, queue, prompting, slice
<1>v. \/ UNCHANGED <<scheduled, inflight, pc>>
      \/ /\ scheduled' = scheduled \cup inflight /\ inflight' = {}
         /\ pc' \in {"panicked", "stopped", "loop"}
  BY DEF RunComplete, RunFails, queue, slice
<1>w. Waiting' = Waiting
  BY <1>v DEF Waiting
<1>s. /\ OnTime'
      /\ \A t \in Waiting' : t.seq < sequence'
      /\ \A t, u \in Waiting' : t.seq = u.seq => t = u
  BY <1>u, <1>v, <1>w, OrderShrinks
<1>h. /\ running \in Thread /\ running \in 1 .. threads /\ threads \in Nat
      /\ promptNo \in Nat /\ threads <= threads /\ promptNo <= promptNo
      /\ 0 <= threads
  BY <1>t, <1>u DEF TypeOK, Known, Thread
<1>1. TypeOK'
  BY <1>t, <1>u, <1>v, <1>h DEF TypeOK
<1>2. OneContinuation'
  BY <1>t, <1>u, <1>w, ThreadEnds
<1>3. Known'
  BY <1>t, <1>h, <1>u, <1>w, <1>s, KnownGrows
<1>4. IdleOutside' /\ TailIsIdle'
  BY <1>u, <1>v, RunsInDispatch DEF IdleOutside, TailIsIdle, Dispatching
<1> QED
  BY <1>1, <1>2, <1>3, <1>4, <1>s DEF SchedInv

-----------------------------------------------------------------------------
LEMMA SchedNextInv == SchedInv /\ [Next]_vars => SchedInv'
<1> SUFFICES ASSUME SchedInv, [Next]_vars PROVE SchedInv'
  OBVIOUS
<1>1. CASE HostNext
  BY <1>1, HostCallInv, HostVerbInv, AnswerInv, BeginSliceInv DEF HostNext
<1>2. CASE LoopNext
  BY <1>2, LoopInv
<1>3. CASE (\E t \in inflight : StartTask(t)) \/ BudgetOut \/ EndDispatch
  BY <1>3, StartTaskInv, BudgetOutInv, EndDispatchInv
<1>4. CASE RunNext
  <2>1. CASE \E d \in Delay : RunSpawn(d) \/ RunSleep(d)
    BY <2>1, RunSpawnInv, RunSleepInv
  <2>2. CASE \E c \in Client, b \in BOOLEAN : RunSpawnAsks(c, b) \/ RunAsks(c, b)
    BY <2>2, RunSpawnAsksInv, RunAsksInv, Zenon
  <2>3. CASE \E m \in Movable : RunWalk(m, 1) \/ RunWalk(m, 2) \/ RunStopWalk(m)
    BY <2>3, RunWalkInv
  <2>4. CASE RunComplete \/ \E fatal \in BOOLEAN : RunFails(fatal)
    BY <2>4, RunEndsInv, Zenon
  <2> QED
    BY <1>4, <2>1, <2>2, <2>3, <2>4 DEF RunNext
<1>5. CASE UNCHANGED vars
  <2>1. UNCHANGED <<tick, sequence, scheduled, inflight, running, prompts,
                    promptNo, walks, pc, limit, rounds, threads, ended>>
    BY <1>5 DEF vars, queue, prompting, slice
  <2>2. TypeOK'
    BY <2>1 DEF SchedInv, TypeOK
  <2>3. OneContinuation' /\ Known' /\ OnTime'
    BY <2>1 DEF SchedInv, OneContinuation, Known, OnTime, Waiting
  <2>4. IdleOutside' /\ TailIsIdle'
    BY <2>1 DEF SchedInv, IdleOutside, TailIsIdle, Dispatching
  <2> QED
    BY <2>2, <2>3, <2>4 DEF SchedInv
<1> QED
  BY <1>1, <1>2, <1>3, <1>4, <1>5 DEF Next

(* The strengthened invariant of the scheduler, for any number of threads,  *)
(* clients and walkers, any delays and any slice limits.                    *)
THEOREM SchedInvariant == Spec => []SchedInv
<1>1. SchedInv /\ [Next]_vars => SchedInv'
  BY SchedNextInv
<1> QED
  BY SchedInitInv, <1>1, PTL DEF Spec

(* Type correctness: no delay, negative or not, makes a deadline that is no *)
(* tick of the clock.                                                       *)
THEOREM SchedTypeCorrect == Spec => []TypeOK
<1>1. SchedInv => TypeOK
  BY DEF SchedInv
<1> QED
  BY SchedInvariant, <1>1, PTL

(* schedule_frames, advance_scheduler, the prompts and their answers never  *)
(* lose a continuation and never have one twice.                            *)
THEOREM SchedOneContinuation == Spec => []OneContinuation
<1>1. SchedInv => OneContinuation
  BY DEF SchedInv
<1> QED
  BY SchedInvariant, <1>1, PTL

(* The idle advance of drain_persistent_scheduler runs no DM code.          *)
THEOREM SchedTailIsIdle == Spec => []TailIsIdle
<1>1. SchedInv => TailIsIdle
  BY DEF SchedInv
<1> QED
  BY SchedInvariant, <1>1, PTL

-----------------------------------------------------------------------------
(* The scheduler implements TimerQueue: scheduling a thread adds to the     *)
(* queue, starting one takes its first, advancing passes time, and all the  *)
(* rest, putting due threads back included, is invisible.                   *)
LEMMA ScheduleAdds ==
    ASSUME SchedInv, NEW th, NEW d \in Int, Schedule(th, d),
           UNCHANGED <<tick, inflight>>
    PROVE  TQ!QueueNext
<1> DEFINE new == [thread |-> th, due |-> tick + DelayTicks(d), seq |-> sequence]
<1>1. DelayTicks(d) \in Nat /\ tick \in Nat
  BY DelayIsNat DEF SchedInv, TypeOK
<1>2. /\ new.due >= tick /\ new.seq = sequence
      /\ scheduled' = scheduled \cup {new} /\ sequence' = sequence + 1
  BY <1>1 DEF Schedule
<1> HIDE DEF new
<1>3. \A t \in Waiting : t.seq \in Nat /\ t.seq < sequence
  BY DEF SchedInv, TypeOK, Known, Waiting, Task
<1>4. new \notin Waiting
  BY <1>2, <1>3 DEF SchedInv, TypeOK
<1>5. Waiting' = Waiting \cup {new}
  BY <1>2 DEF Waiting
<1>6. TQ!Add(new)
  BY <1>2, <1>5 DEF TQ!Add
<1> QED
  BY <1>4, <1>5, <1>6 DEF TQ!QueueNext

LEMMA StartTakes ==
    ASSUME SchedInv, NEW t \in inflight, StartTask(t)
    PROVE  TQ!QueueNext
<1>1. /\ First(t, inflight) /\ inflight' = inflight \ {t}
      /\ UNCHANGED <<tick, sequence, scheduled>>
  BY DEF StartTask
<1>2. /\ t.due = tick /\ t.seq \in Nat /\ tick \in Nat
      /\ \A u \in scheduled : /\ u.due \in Nat /\ u.due >= tick
                              /\ u.due = tick => t.seq < u.seq
  BY DEF SchedInv, TypeOK, OnTime, Waiting, Task
<1>3. Waiting' = Waiting \ {t} /\ t \in Waiting
  BY <1>1, <1>2 DEF Waiting
<1>4. \A u \in inflight \ {t} : TQ!Before(t, u)
  BY <1>1 DEF First, TQ!Before
<1>5. \A u \in scheduled : TQ!Before(t, u)
  BY <1>2 DEF TQ!Before
<1>6. TQ!Take(t)
  BY <1>1, <1>2, <1>3, <1>4, <1>5 DEF TQ!Take, Waiting
<1> QED
  BY <1>3, <1>6 DEF TQ!QueueNext

LEMMA AdvancePasses ==
    ASSUME SchedInv, NEW n \in Nat, n >= tick, ~Dispatching,
           \A t \in scheduled : t.due >= n,
           AdvanceTo(n), UNCHANGED <<sequence, running, prompting, threads, ended>>
    PROVE  TQ!QueueNext \/ UNCHANGED TQ!queueVars
<1>1. Waiting' = Waiting /\ tick' = n /\ tick \in Nat
  BY AdvanceKeeps DEF AdvanceTo, SchedInv, TypeOK
<1>2. \A u \in Waiting : u.due >= n
  BY DEF SchedInv, IdleOutside, Waiting
<1>3. CASE n = tick
  BY <1>1, <1>3 DEF TQ!queueVars
<1>4. CASE n > tick
  <2>1. TQ!Pass
    BY <1>1, <1>2, <1>4 DEF TQ!Pass
  <2> QED
    BY <2>1 DEF TQ!QueueNext
<1> QED
  BY <1>1, <1>3, <1>4

LEMMA LoopPasses == SchedInv /\ LoopNext => TQ!QueueNext \/ UNCHANGED TQ!queueVars
<1> SUFFICES ASSUME SchedInv, LoopNext
             PROVE  TQ!QueueNext \/ UNCHANGED TQ!queueVars
  OBVIOUS
<1>1. CASE LoopRoundLimit \/ LoopPanic
  BY <1>1 DEF LoopRoundLimit, LoopPanic, queue, Waiting, TQ!queueVars
<1>2. CASE LoopIdle \/ LoopTickLimit
  <2>1. /\ pc = "loop" /\ Tail
        /\ UNCHANGED <<sequence, running, prompting, threads, ended>>
    BY <1>2 DEF LoopIdle, LoopTickLimit
  <2>2. \A t \in scheduled : t.due > limit /\ t.due \in Nat
    BY <1>2 DEF LoopIdle, LoopTickLimit, NoTasks, Dues, SchedInv, TypeOK, Task
  <2>3. CASE tick < limit
    <3>1. /\ limit \in Nat /\ limit >= tick /\ ~Dispatching
          /\ \A t \in scheduled : t.due >= limit
      BY <2>1, <2>2, <2>3 DEF SchedInv, TypeOK, Dispatching
    <3> QED
      BY <2>1, <2>3, <3>1, AdvancePasses DEF Tail
  <2>4. CASE ~(tick < limit)
    BY <2>1, <2>4 DEF Tail, Waiting, TQ!queueVars
  <2> QED
    BY <2>3, <2>4
<1>3. CASE LoopDispatch
  <2>1. PICK n \in Dues : /\ \A d \in Dues : n <= d
                          /\ n <= limit
                          /\ AdvanceTo(IF n > tick THEN n ELSE tick)
    BY <1>3 DEF LoopDispatch
  <2> DEFINE m == IF n > tick THEN n ELSE tick
  <2>2. n \in Nat /\ tick \in Nat
    BY DEF SchedInv, TypeOK, Dues, Walking, Task
  <2>3. m \in Nat /\ m >= tick /\ ~Dispatching
    BY <1>3, <2>2 DEF LoopDispatch, Dispatching
  <2>4. \A t \in scheduled : t.due >= m
    <3>1. \A t \in scheduled : t.due \in Nat /\ t.due >= tick /\ n <= t.due
      BY <2>1 DEF SchedInv, OnTime, Waiting, TypeOK, Task, Dues
    <3> QED
      BY <3>1, <2>2
  <2>5. AdvanceTo(m)
    BY <2>1
  <2>6. UNCHANGED <<sequence, running, prompting, threads, ended>>
    BY <1>3 DEF LoopDispatch
  <2> HIDE DEF m
  <2> QED
    BY <2>3, <2>4, <2>5, <2>6, AdvancePasses
<1> QED
  BY <1>1, <1>2, <1>3 DEF LoopNext

(* advance_scheduler, schedule_frames and drain_persistent_scheduler        *)
(* implement the queue by deadline and source order, at every slice limit:  *)
(* a thread starts at its deadline, in order, and none is overtaken.        *)
THEOREM SchedImplementsQueue == Spec => ImplementsTimerQueue
<1>1. Init => TQ!QueueInit
  BY DEF Init, Waiting, TQ!QueueInit
<1>2. SchedInv /\ [Next]_vars => [TQ!QueueNext]_(TQ!queueVars)
  <2> SUFFICES ASSUME SchedInv, [Next]_vars
               PROVE  TQ!QueueNext \/ UNCHANGED TQ!queueVars
    OBVIOUS
  <2>1. CASE HostNext
    <3>1. CASE HostCall
      BY <3>1, ScheduleAdds DEF HostCall
    <3>2. CASE \E c \in Client : HostVerb(c, 1) \/ HostVerb(c, 2)
      BY <3>2 DEF HostVerb, queue, Waiting, TQ!queueVars
    <3>3. CASE \E c \in Client, id \in 1 .. promptNo, r \in Response : Answer(c, id, r)
      <4>1. /\ UNCHANGED <<tick, inflight>>
            /\ \/ UNCHANGED <<sequence, scheduled>>
               \/ \E p \in prompts : Schedule(p.thread, 0)
        BY <3>3 DEF Answer
      <4> QED
        BY <4>1, ScheduleAdds DEF Waiting, TQ!queueVars
    <3>4. CASE BeginSlice
      BY <3>4 DEF BeginSlice, queue, Waiting, TQ!queueVars
    <3> QED
      BY <2>1, <3>1, <3>2, <3>3, <3>4 DEF HostNext
  <2>2. CASE LoopNext
    BY <2>2, LoopPasses
  <2>3. CASE \E t \in inflight : StartTask(t)
    BY <2>3, StartTakes
  <2>4. CASE BudgetOut \/ EndDispatch
    BY <2>4 DEF BudgetOut, EndDispatch, queue, Waiting, TQ!queueVars
  <2>5. CASE RunNext
    <3>1. CASE \E d \in Delay : RunSpawn(d) \/ RunSleep(d)
      BY <3>1, ScheduleAdds DEF RunSpawn, RunSleep
    <3>2. CASE \E c \in Client, b \in BOOLEAN : RunSpawnAsks(c, b) \/ RunAsks(c, b)
      <4>1. UNCHANGED queue
        BY <3>2, Zenon DEF RunSpawnAsks, RunAsks
      <4> QED
        BY <4>1 DEF queue, Waiting, TQ!queueVars
    <3>3. CASE \E m \in Movable : RunWalk(m, 1) \/ RunWalk(m, 2)
      BY <3>3 DEF RunWalk, Waiting, TQ!QueueNext, TQ!Skip
    <3>4. CASE (\E m \in Movable : RunStopWalk(m)) \/ RunComplete
      BY <3>4 DEF RunStopWalk, RunComplete, queue, Waiting, TQ!queueVars
    <3>5. CASE \E fatal \in BOOLEAN : RunFails(fatal)
      BY <3>5 DEF RunFails, Waiting, TQ!queueVars
    <3> QED
      BY <2>5, <3>1, <3>2, <3>3, <3>4, <3>5 DEF RunNext
  <2>6. CASE UNCHANGED vars
    BY <2>6 DEF vars, queue, Waiting, TQ!queueVars
  <2> QED
    BY <2>1, <2>2, <2>3, <2>4, <2>5, <2>6 DEF Next
<1> QED
  BY SchedInvariant, <1>1, <1>2, PTL DEF Spec, ImplementsTimerQueue, TQ!QueueSpec

=============================================================================
