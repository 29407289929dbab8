----------------------------- MODULE Scheduler -----------------------------
(***************************************************************************)
(* The deterministic scheduler of DM threads: advance_scheduler and        *)
(* schedule_frames (crates/dm-vm/src/execution/scheduler.rs), driven slice *)
(* by slice by drain_persistent_scheduler                                  *)
(* (crates/dm-lifecycle/src/scheduler.rs), with the native walks of        *)
(* builtins/spatial.rs and the modal prompts of local_client.rs that       *)
(* suspend a thread until the client answers.                              *)
(*                                                                         *)
(* A DM thread is one continuation (a stack of call frames).  It waits in  *)
(* scheduled_spawns, or among the due ones of the running dispatch, or in  *)
(* a prompt; or it runs; or it has ended.  Between two slices the host     *)
(* applies client requests at its tick boundary.                           *)
(***************************************************************************)
EXTENDS Integers, FiniteSets

CONSTANTS
    Client,        \* the interactive local clients
    Movable,       \* the movables that may walk
    Delay,         \* delays DM code asks for, in the unit of world.tick_lag
    TickLag,       \* world.tick_lag
    SliceTicks,    \* SchedulerDrainLimits.max_ticks
    SliceRounds,   \* SchedulerDrainLimits.max_rounds
    MaxThreads,    \* bound on the DM threads of the model
    MaxSequence,   \* bound on the sequence numbers of the model
    MaxTick        \* bound on the clock of the model

ASSUME SchedulerAssumption ==
    /\ Delay \subseteq Int
    /\ TickLag \in Nat \ {0}
    /\ SliceTicks \in Nat
    /\ SliceRounds \in Nat
    /\ MaxThreads \in Nat
    /\ MaxSequence \in Nat
    /\ MaxTick \in Nat

VARIABLES
    tick,        \* scheduler_tick
    sequence,    \* scheduler_sequence
    scheduled,   \* scheduled_spawns
    inflight,    \* scheduler_inflight: due, not yet run in this dispatch
    running,     \* the thread inside run_frames, 0 for none
    prompts,     \* pending_local_prompts
    promptNo,    \* local_prompt_sequence
    walks,       \* native_walks; lag 0 stands for no walk
    pc,          \* where the owner thread is
    limit,       \* tick_limit of the running slice
    rounds,      \* drain.rounds of the running slice
    threads,     \* history: the threads created so far
    ended        \* history: the threads that completed, failed or were cancelled

queue    == <<tick, sequence, scheduled, inflight>>
prompting == <<prompts, promptNo>>
slice    == <<pc, limit, rounds>>
vars     == <<queue, running, prompting, walks, slice, threads, ended>>

Thread == 1 .. MaxThreads
Task   == [thread : Thread, due : Nat, seq : Nat]
Prompt == [id : Nat, thread : Thread, client : Client,
           missing : Nat,         \* unsupplied verb parameters, 0 for input()
           cancel : BOOLEAN]      \* can_cancel
NoWalk == [due |-> 0, lag |-> 0]

Walking == {m \in Movable : walks[m].lag > 0}

Init ==
    /\ tick = 0
    /\ sequence = 0
    /\ scheduled = {}
    /\ inflight = {}
    /\ running = 0
    /\ prompts = {}
    /\ promptNo = 0
    /\ walks = [m \in Movable |-> NoWalk]
    /\ pc = "host"
    /\ limit = 0
    /\ rounds = 0
    /\ threads = 0
    /\ ended = {}

-----------------------------------------------------------------------------
(* A positive delay is at least one tick, any other is none. *)
DelayTicks(d) ==
    IF d > 0 THEN (IF d \div TickLag > 1 THEN d \div TickLag ELSE 1) ELSE 0

(* schedule_frames. *)
Schedule(th, d) ==
    /\ sequence < MaxSequence
    /\ scheduled' = scheduled \cup
          {[thread |-> th, due |-> tick + DelayTicks(d), seq |-> sequence]}
    /\ sequence' = sequence + 1

(* A thread suspended by input(), alert() or a verb with missing arguments. *)
Ask(th, c, missing, cancel) ==
    /\ prompts' = prompts \cup
          {[id |-> promptNo + 1, thread |-> th, client |-> c,
            missing |-> missing, cancel |-> cancel]}
    /\ promptNo' = promptNo + 1

NewThread == threads < MaxThreads /\ threads' = threads + 1

-----------------------------------------------------------------------------
(* The host's tick boundary: a pointer event, a topic, /client/New() ... *)
HostCall ==
    /\ pc = "host"
    /\ NewThread
    /\ Schedule(threads + 1, 0)
    /\ UNCHANGED <<tick, inflight, running, prompting, walks, slice, ended>>

(* ... a verb the client calls without all of its arguments ... *)
HostVerb(c, missing) ==
    /\ pc = "host"
    /\ NewThread
    /\ Ask(threads + 1, c, missing, TRUE)
    /\ UNCHANGED <<queue, running, walks, slice, ended>>

(* Mutant: the prompt is read, not taken. *)
AnswerKeeps(c, id, response) ==
    /\ pc = "host"
    /\ \E p \in prompts :
       /\ p.id = id
       /\ p.client = c
       /\ response = "valid" \/ (response = "null" /\ p.cancel)
       /\ Schedule(p.thread, 0)
       /\ UNCHANGED <<prompts, promptNo, ended>>
    /\ UNCHANGED <<tick, inflight, running, walks, slice, threads>>

(* ... and submit_local_prompt_response.  An unknown or foreign prompt, an *)
(* invalid value and the cancellation of a required prompt change nothing: *)
(* the prompt is registered again.  Cancelling a verb drops its invocation;*)
(* otherwise the thread is scheduled without delay, or asks for the next   *)
(* missing argument under a new prompt.                                    *)
Answer(c, id, response) ==
    /\ pc = "host"
    /\ \E p \in prompts :
       /\ p.id = id
       /\ p.client = c
       /\ response = "valid" \/ (response = "null" /\ p.cancel)
       /\ IF response = "null" /\ p.missing > 0
          THEN /\ prompts' = prompts \ {p}
               /\ ended' = ended \cup {p.thread}
               /\ UNCHANGED <<promptNo, sequence, scheduled>>
          ELSE IF p.missing > 1
          THEN /\ prompts' = (prompts \ {p}) \cup
                     {[p EXCEPT !.id = promptNo + 1, !.missing = @ - 1]}
               /\ promptNo' = promptNo + 1
               /\ UNCHANGED <<ended, sequence, scheduled>>
          ELSE /\ prompts' = prompts \ {p}
               /\ Schedule(p.thread, 0)
               /\ UNCHANGED <<promptNo, ended>>
    /\ UNCHANGED <<tick, inflight, running, walks, slice, threads>>

(* A slice of the persistent loop begins. *)
BeginSlice ==
    /\ pc = "host"
    /\ tick < MaxTick \/ \E t \in scheduled : t.due <= tick
    /\ pc' = "loop"
    /\ limit' = tick + SliceTicks
    /\ rounds' = 0
    /\ UNCHANGED <<queue, running, prompting, walks, threads, ended>>

-----------------------------------------------------------------------------
(* advance_native_walks at tick n: a due walk takes its steps, up to n, or *)
(* ends with one that fails or arrives.                                    *)
AdvanceWalks(n) ==
    \E stopped \in SUBSET Movable :
        walks' = [m \in Movable |->
            LET w == walks[m] IN
            IF w.lag = 0 \/ w.due > n THEN w
            ELSE IF m \in stopped THEN NoWalk
            ELSE [w EXCEPT !.due = @ + w.lag * ((n - w.due) \div w.lag + 1)]]

(* advance_scheduler up to its loop: the clock moves to n and the due      *)
(* threads become the ones in flight.                                      *)
AdvanceTo(n) ==
    /\ tick' = n
    /\ inflight' = {t \in scheduled : t.due <= n}
    /\ scheduled' = {t \in scheduled : t.due > n}
    /\ AdvanceWalks(n)

(* scheduled_task_count() = 0: prompts count, walks do not. *)
NoTasks == scheduled = {} /\ prompts = {}

(* What next_scheduled_tick looks at: walks count, prompts do not. *)
Dues == {t.due : t \in scheduled} \cup {walks[m].due : m \in Walking}

(* The end of a slice that was not cut by its round limit: an idle clock   *)
(* advances to the tick limit.                                             *)
Tail ==
    IF tick < limit
    THEN AdvanceTo(limit) /\ pc' = "tail"
    ELSE pc' = "host" /\ UNCHANGED <<tick, inflight, scheduled, walks>>

(* The loop of drain_persistent_scheduler: nothing to do, ... *)
LoopIdle ==
    /\ pc = "loop"
    /\ NoTasks
    /\ Tail
    /\ UNCHANGED <<sequence, running, prompting, limit, rounds, threads, ended>>

(* Mutant: the idle clock advances after the round limit, too. *)
LoopRoundLimitTail ==
    /\ pc = "loop"
    /\ ~NoTasks
    /\ rounds >= SliceRounds
    /\ Tail
    /\ UNCHANGED <<sequence, running, prompting, limit, rounds, threads, ended>>

(* ... the round limit, which keeps the clock, ... *)
LoopRoundLimit ==
    /\ pc = "loop"
    /\ ~NoTasks
    /\ rounds >= SliceRounds
    /\ pc' = "host"
    /\ UNCHANGED <<queue, running, prompting, walks, limit, rounds, threads, ended>>

(* ... the expect on next_scheduled_tick, ... *)
LoopPanic ==
    /\ pc = "loop"
    /\ ~NoTasks
    /\ rounds < SliceRounds
    /\ Dues = {}
    /\ pc' = "panicked"
    /\ UNCHANGED <<queue, running, prompting, walks, limit, rounds, threads, ended>>

(* ... the tick limit, ... *)
LoopTickLimit ==
    /\ pc = "loop"
    /\ ~NoTasks
    /\ rounds < SliceRounds
    /\ Dues # {}
    /\ \A d \in Dues : d > limit
    /\ Tail
    /\ UNCHANGED <<sequence, running, prompting, limit, rounds, threads, ended>>

(* ... or one dispatch at the earliest deadline. *)
LoopDispatch ==
    /\ pc = "loop"
    /\ ~NoTasks
    /\ rounds < SliceRounds
    /\ \E n \in Dues :
       /\ \A d \in Dues : n <= d
       /\ n <= limit
       /\ AdvanceTo(IF n > tick THEN n ELSE tick)
    /\ rounds' = rounds + 1
    /\ pc' = "dispatch"
    /\ UNCHANGED <<sequence, running, prompting, limit, threads, ended>>

-----------------------------------------------------------------------------
Dispatching == pc \in {"dispatch", "tail"}

(* Mutant: the sorted threads are not reversed before they are popped. *)
FirstUnreversed(t, tasks) ==
    /\ t \in tasks
    /\ \A u \in tasks \ {t} :
         t.due > u.due \/ (t.due = u.due /\ t.seq > u.seq)

(* The loop of advance_scheduler pops the due threads by (due, sequence). *)
First(t, tasks) ==
    /\ t \in tasks
    /\ \A u \in tasks \ {t} :
         t.due < u.due \/ (t.due = u.due /\ t.seq < u.seq)

StartTask(t) ==
    /\ Dispatching
    /\ running = 0
    /\ First(t, inflight)
    /\ inflight' = inflight \ {t}
    /\ running' = t.thread
    /\ UNCHANGED <<tick, sequence, scheduled, prompting, walks, slice, threads,
                   ended>>

(* The wall-clock budget is used up: everything due goes back. *)
BudgetOut ==
    /\ Dispatching
    /\ running = 0
    /\ inflight # {}
    /\ scheduled' = scheduled \cup inflight
    /\ inflight' = {}
    /\ UNCHANGED <<tick, sequence, running, prompting, walks, slice, threads,
                   ended>>

EndDispatch ==
    /\ Dispatching
    /\ running = 0
    /\ inflight = {}
    /\ pc' = IF pc = "dispatch" THEN "loop" ELSE "host"
    /\ UNCHANGED <<queue, running, prompting, walks, limit, rounds, threads,
                   ended>>

(* What DM code does while it runs: spawn(d), a call of a waitfor = 0 proc *)
(* that sleeps, or the block of a spawn(-1) that sleeps ...                *)
RunSpawn(d) ==
    /\ running # 0
    /\ NewThread
    /\ Schedule(threads + 1, d)
    /\ UNCHANGED <<tick, inflight, running, prompting, walks, slice, ended>>

(* ... or one that asks the player ... *)
RunSpawnAsks(c, cancel) ==
    /\ running # 0
    /\ NewThread
    /\ Ask(threads + 1, c, 0, cancel)
    /\ UNCHANGED <<queue, running, walks, slice, ended>>

(* ... walk() and its variants start or stop a native walk.  *)
RunWalk(m, lag) ==
    /\ running # 0
    /\ sequence < MaxSequence
    /\ walks' = [walks EXCEPT ![m] = [due |-> tick + lag, lag |-> lag]]
    /\ sequence' = sequence + 1
    /\ UNCHANGED <<tick, scheduled, inflight, running, prompting, slice,
                   threads, ended>>

RunStopWalk(m) ==
    /\ running # 0
    /\ walks' = [walks EXCEPT ![m] = NoWalk]
    /\ UNCHANGED <<queue, running, prompting, slice, threads, ended>>

(* How a run ends: it sleeps, or yields because its step or wall budget is *)
(* used up (no delay), ...                                                 *)
RunSleep(d) ==
    /\ running # 0
    /\ Schedule(running, d)
    /\ running' = 0
    /\ UNCHANGED <<tick, inflight, prompting, walks, slice, threads, ended>>

(* ... asks the player (input() or alert()), ... *)
RunAsks(c, cancel) ==
    /\ running # 0
    /\ Ask(running, c, 0, cancel)
    /\ running' = 0
    /\ UNCHANGED <<queue, walks, slice, threads, ended>>

(* ... completes, ... *)
RunComplete ==
    /\ running # 0
    /\ running' = 0
    /\ ended' = ended \cup {running}
    /\ UNCHANGED <<queue, prompting, walks, slice, threads>>

(* Mutant: a failing thread takes the later due ones with it. *)
RunFailsDrops(fatal) ==
    /\ running # 0
    /\ running' = 0
    /\ ended' = ended \cup {running}
    /\ inflight' = {}
    /\ pc' = "loop"
    /\ UNCHANGED <<tick, sequence, scheduled, prompting, walks, limit, rounds,
                   threads>>

(* ... or fails with an uncaught runtime error.  advance_scheduler drops   *)
(* that thread, puts the later due ones back and returns; the drain goes   *)
(* on unless Master.Initialize was unwound, and the idle advance at the    *)
(* end of a slice expects no error.                                        *)
RunFails(fatal) ==
    /\ running # 0
    /\ running' = 0
    /\ ended' = ended \cup {running}
    /\ scheduled' = scheduled \cup inflight
    /\ inflight' = {}
    /\ pc' = IF pc = "tail" THEN "panicked"
             ELSE IF fatal THEN "stopped" ELSE "loop"
    /\ UNCHANGED <<tick, sequence, prompting, walks, limit, rounds, threads>>

Response == {"valid", "null"}

HostNext ==
    \/ HostCall
    \/ \E c \in Client : HostVerb(c, 1) \/ HostVerb(c, 2)
    \/ \E c \in Client, id \in 1 .. promptNo, r \in Response : Answer(c, id, r)
    \/ BeginSlice

LoopNext == LoopIdle \/ LoopRoundLimit \/ LoopPanic \/ LoopTickLimit
                \/ LoopDispatch

RunNext ==
    \/ \E d \in Delay : RunSpawn(d) \/ RunSleep(d)
    \/ \E c \in Client, b \in BOOLEAN : RunSpawnAsks(c, b) \/ RunAsks(c, b)
    \/ \E m \in Movable : RunWalk(m, 1) \/ RunWalk(m, 2) \/ RunStopWalk(m)
    \/ RunComplete
    \/ \E fatal \in BOOLEAN : RunFails(fatal)

Next ==
    \/ HostNext
    \/ LoopNext
    \/ \E t \in inflight : StartTask(t)
    \/ BudgetOut
    \/ EndDispatch
    \/ RunNext

Spec == Init /\ [][Next]_vars

(* The owner thread keeps running.  A run ends because its step and wall   *)
(* budgets are finite.  Strong fairness of StartTask: the wall budget (50  *)
(* milliseconds by default) does not run out before the first due thread   *)
(* starts in every dispatch for ever.                                      *)
RunEnds ==
    \/ \E d \in Delay : RunSleep(d)
    \/ \E c \in Client, b \in BOOLEAN : RunAsks(c, b)
    \/ RunComplete
    \/ \E fatal \in BOOLEAN : RunFails(fatal)

FairSpec ==
    /\ Spec
    /\ WF_vars(BeginSlice)
    /\ WF_vars(LoopNext)
    /\ WF_vars(EndDispatch)
    /\ WF_vars(RunEnds)
    /\ SF_vars(\E t \in inflight : StartTask(t))

-----------------------------------------------------------------------------
(* Type correctness of the scheduler. *)
TypeOK ==
    /\ tick \in Nat
    /\ sequence \in Nat
    /\ scheduled \subseteq Task
    /\ inflight \subseteq Task
    /\ running \in 0 .. MaxThreads
    /\ prompts \subseteq Prompt
    /\ promptNo \in Nat
    /\ walks \in [Movable -> [due : Nat, lag : Nat]]
    /\ pc \in {"host", "loop", "dispatch", "tail", "stopped", "panicked"}
    /\ limit \in Nat
    /\ rounds \in Nat
    /\ threads \in 0 .. MaxThreads
    /\ ended \subseteq Thread

Waiting == scheduled \cup inflight

(* Whatever is rescheduled, put back, prompted or answered, and however    *)
(* often a prompt is answered, every thread that has not ended is suspended *)
(* or running exactly once: no continuation is lost and none runs twice.   *)
OneContinuation ==
    /\ \A th \in 1 .. threads :
         \/ th = running
         \/ th \in ended
         \/ \E t \in Waiting : t.thread = th
         \/ \E p \in prompts : p.thread = th
    /\ running \notin ended
    /\ \A t \in Waiting : t.thread # running /\ t.thread \notin ended
    /\ \A p \in prompts : p.thread # running /\ p.thread \notin ended
    /\ \A t, u \in Waiting : t.thread = u.thread => t = u
    /\ \A p, q \in prompts : p.thread = q.thread \/ p.id = q.id => p = q
    /\ \A t \in Waiting, p \in prompts : t.thread # p.thread

(* What is known of the identities: nothing refers to a thread, a sequence *)
(* number or a prompt number that was not handed out, and the waiting ones *)
(* have numbers of their own.                                              *)
Known ==
    /\ running <= threads
    /\ ended \subseteq 1 .. threads
    /\ \A t \in Waiting : t.thread <= threads /\ t.seq < sequence
    /\ \A p \in prompts : p.thread <= threads /\ p.id <= promptNo
    /\ \A t, u \in Waiting : t.seq = u.seq => t = u

(* No deadline has passed; the threads in flight are due now, and what is   *)
(* scheduled for the same tick while they run comes after them.             *)
OnTime ==
    /\ \A t \in Waiting : t.due >= tick
    /\ \A t \in inflight : t.due = tick
    /\ \A t \in inflight, u \in scheduled : u.due = tick => t.seq < u.seq

(* Outside a dispatch nothing is in flight and nothing runs. *)
IdleOutside == ~Dispatching => inflight = {} /\ running = 0

(* "no scheduled task is due before the validated persistent tick          *)
(* boundary": the idle advance at the end of a slice never runs DM code,   *)
(* so its expect cannot fire.                                              *)
TailIsIdle == pc = "tail" => inflight = {} /\ running = 0

(* "Tasks with the same deadline retain source order": the scheduler       *)
(* implements a queue ordered by deadline and source order, whose threads  *)
(* run exactly at their deadline, across budget exhaustion, failing        *)
(* threads, round limits and idle advances.                                *)
TQ == INSTANCE TimerQueue WITH now <- tick, pending <- Waiting, next <- sequence
ImplementsTimerQueue == TQ!QueueSpec

(* A due thread runs, whatever other threads do, unless the server ends.   *)
DueThreadRuns ==
    \A th \in Thread :
        (\E t \in Waiting : t.thread = th /\ t.due <= tick)
            ~> (running = th \/ pc \in {"stopped", "panicked"})

(* "a non-empty scheduler has an earliest task": the expect of the drain   *)
(* never fires.                                                            *)
SchedulerHasEarliestTask == pc # "panicked"

=============================================================================
