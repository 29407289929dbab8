----------------------------- MODULE TimerQueue -----------------------------
(***************************************************************************)
(* What the DM scheduler promises: a queue of suspended DM threads ordered *)
(* by deadline, and by the order of scheduling among equal deadlines.  A   *)
(* thread is taken at exactly its deadline, before everything ordered      *)
(* after it, and the clock never passes the deadline of a waiting thread.  *)
(***************************************************************************)
EXTENDS Integers

VARIABLES
    now,       \* the clock, in ticks
    pending,   \* the waiting threads: [thread, due, seq]
    next       \* the next sequence number

queueVars == <<now, pending, next>>

(* The order of the queue. *)
Before(t, u) == t.due < u.due \/ (t.due = u.due /\ t.seq < u.seq)

QueueInit == now = 0 /\ pending = {} /\ next = 0

(* A thread starts to wait; its deadline is not in the past. *)
Add(t) ==
    /\ t.seq = next
    /\ t.due >= now
    /\ pending' = pending \cup {t}
    /\ next' = next + 1
    /\ UNCHANGED now

(* A sequence number is used for something else (a native walk). *)
Skip == next' = next + 1 /\ UNCHANGED <<now, pending>>

(* The first thread of the queue is taken, at its deadline. *)
Take(t) ==
    /\ t \in pending
    /\ t.due = now
    /\ \A u \in pending \ {t} : Before(t, u)
    /\ pending' = pending \ {t}
    /\ UNCHANGED <<now, next>>

(* Time passes, up to the first deadline. *)
Pass ==
    /\ now' > now
    /\ \A u \in pending : u.due >= now'
    /\ UNCHANGED <<pending, next>>

QueueNext ==
    \/ \E t \in pending' \ pending : Add(t)
    \/ Skip
    \/ \E t \in pending : Take(t)
    \/ Pass

QueueSpec == QueueInit /\ [][QueueNext]_queueVars

=============================================================================
