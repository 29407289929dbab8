----------------------------- MODULE Collector -----------------------------
(***************************************************************************)
(* The reachability collector and its roots (crates/dm-vm/src/execution/   *)
(* heap_gc.rs, frame.rs, interpreter.rs and the mark phase in dm-value).   *)
(*                                                                         *)
(* A collection may run whenever DM code sleeps or exhausts its budget.    *)
(* It sees the frames of the run that sleeps, the continuations the        *)
(* scheduler, a scheduling round or a prompt owns, and host_value_roots.   *)
(* It does not see the interpreters further down the native stack: `new`,  *)
(* del, replacetext with a callback and spawn(-1) re-enter the VM, and     *)
(* copy their frames to host_value_roots first and cut them off again      *)
(* afterwards.  Other operations that run field initializers re-enter it   *)
(* without: their frames are exposed.                                      *)
(*                                                                         *)
(* The values in the frames of a continuation are one set.  The heap       *)
(* hands out no identity twice (Arena), so a stale handle reads as null:   *)
(* destroying an object takes it out of every place that holds it.  The    *)
(* weak tables that a collection prunes hold such handles only.            *)
(***************************************************************************)
EXTENDS Naturals, Sequences, FiniteSets

CONSTANTS
    Obj,        \* datums and lists
    Thread,     \* continuations
    MaxRoots    \* bound on the entries of host_value_roots

ASSUME CollectorAssumption == MaxRoots \in Nat

VARIABLES
    live,       \* the allocated objects
    ref,        \* the fields and entries of an object
    globals,    \* global variables and the other permanent roots
    place,      \* where a continuation is
    held,       \* the values in its frames: locals, stack, result, arguments
    src,        \* of these, the src of its frames
    stack,      \* the nested run_frames calls, the active one last
    hostRoots,  \* host_value_roots, one set per extension
    deleting    \* deleting_datums

vars == <<live, ref, globals, place, held, src, stack, hostRoots, deleting>>

heapVars == <<live, ref, globals>>

Suspended == {"scheduled", "inflight", "prompt"}

(* One run_frames call.  busy: it re-entered the VM and holds `hand` in    *)
(* Rust variables only; rooted: it first copied its frames to              *)
(* host_value_roots, from root_len on; ret is what the nested call gave    *)
(* back, victim what del destroys afterwards.                              *)
Run(t) == [thread |-> t, busy |-> FALSE, rooted |-> FALSE, root_len |-> 0,
           hand |-> {}, ret |-> {}, victim |-> {}]

Top == stack[Len(stack)]
Active(t) == stack # <<>> /\ Top.thread = t /\ ~Top.busy
Idle == stack = <<>>
Quiet == Idle /\ \A t \in Thread : place[t] # "inflight"
Below == SubSeq(stack, 1, Len(stack) - 1)

\* The continuations whose frames no root names while a nested call runs
Exposed == {stack[i].thread : i \in {j \in DOMAIN stack : stack[j].busy /\ ~stack[j].rooted}}

Init ==
    /\ live = {}
    /\ ref = [o \in Obj |-> {}]
    /\ globals = {}
    /\ place = [t \in Thread |-> "free"]
    /\ held = [t \in Thread |-> {}]
    /\ src = [t \in Thread |-> {}]
    /\ stack = <<>>
    /\ hostRoots = <<>>
    /\ deleting = {}
-----------------------------------------------------------------------------
(* The collection.                                                         *)

\* Mutant: the continuations of a scheduling round are not roots.
RootsOfQueues(active) ==
    active \cup globals \cup deleting
        \cup (UNION {hostRoots[i].vals : i \in DOMAIN hostRoots})
        \cup UNION {held[t] : t \in {u \in Thread : place[u] \in {"scheduled", "prompt"}}}

Roots(active) ==
    active \cup globals \cup deleting
        \cup (UNION {hostRoots[i].vals : i \in DOMAIN hostRoots})
        \cup UNION {held[t] : t \in {u \in Thread : place[u] \in Suspended}}

\* What the mark phase reaches: the least set that holds the live roots and
\* whatever its members refer to.
Closed(S) == \A x \in S : ref[x] \subseteq S
Reach(roots) == {o \in live : \A S \in SUBSET live :
                                roots \cap live \subseteq S /\ Closed(S) => o \in S}

\* maybe_collect_unreachable_lists: nothing happens below the threshold.
Collect(active) ==
    \/ UNCHANGED <<live, ref>>
    \/ /\ live' = Reach(Roots(active))
       /\ ref' = [o \in Obj |-> IF o \in live' THEN ref[o] ELSE {}]
-----------------------------------------------------------------------------
(* DM code: the active run works on what its frames hold.                  *)

\* Handles are generational: one that anything still names is not handed out
Fresh == Obj \ (live \cup deleting \cup (UNION {stack[i].hand : i \in DOMAIN stack})
                    \cup UNION {held[t] : t \in Thread})

Load(t, o) ==
    /\ Active(t)
    /\ o \in globals \cup UNION {ref[x] : x \in held[t]}
    /\ held' = [held EXCEPT ![t] = @ \cup {o}]
    /\ UNCHANGED <<heapVars, place, src, stack, hostRoots, deleting>>

Drop(t, o) ==
    /\ Active(t)
    /\ o \in held[t] \ src[t]
    /\ held' = [held EXCEPT ![t] = @ \ {o}]
    /\ UNCHANGED <<heapVars, place, src, stack, hostRoots, deleting>>

Allocate(t, o) ==
    /\ Active(t)
    /\ o \in Fresh
    /\ live' = live \cup {o}
    /\ held' = [held EXCEPT ![t] = @ \cup {o}]
    /\ UNCHANGED <<ref, globals, place, src, stack, hostRoots, deleting>>

Store(t, x, y) ==
    /\ Active(t)
    /\ {x, y} \subseteq held[t]
    /\ ref' = [ref EXCEPT ![x] = @ \cup {y}]
    /\ UNCHANGED <<live, globals, place, held, src, stack, hostRoots, deleting>>

Erase(t, x, y) ==
    /\ Active(t)
    /\ x \in held[t]
    /\ y \in ref[x]
    /\ ref' = [ref EXCEPT ![x] = @ \ {y}]
    /\ UNCHANGED <<live, globals, place, held, src, stack, hostRoots, deleting>>

SetGlobal(t, S) ==
    /\ Active(t)
    /\ S \subseteq globals \cup held[t]
    /\ globals' = S
    /\ UNCHANGED <<live, ref, place, held, src, stack, hostRoots, deleting>>
-----------------------------------------------------------------------------
(* Calls that re-enter the VM.                                             *)

\* Mutant: the frames further down are not preserved.
PreserveNothing(t) == hostRoots' = Append(hostRoots, [by |-> "frames", vals |-> {}])

\* preserve_reentrant_frame_roots, for the values left in the frames.
PreserveFrames(t) == hostRoots' = Append(hostRoots, [by |-> "frames", vals |-> held'[t]])

Enter(t, u, rooted, hand, victim) ==
    /\ place' = [place EXCEPT ![u] = "running"]
    /\ stack' = Append(Append(Below, [thread |-> t, busy |-> TRUE, rooted |-> rooted,
                                      root_len |-> Len(hostRoots), hand |-> hand,
                                      ret |-> {}, victim |-> victim]),
                       Run(u))

CanEnter(t, u) == Active(t) /\ place[u] = "free" /\ Len(hostRoots) < MaxRoots

(* The initializers of the new datum d run; the arguments have left the    *)
(* operand stack, and may still be in a local.                             *)
Initialize(t, u, arguments, d) ==
    /\ CanEnter(t, u)
    /\ arguments \subseteq held[t] \ src[t]
    /\ d \in Fresh
    /\ live' = live \cup {d}
    /\ \E left \in {held[t], held[t] \ arguments} :
           held' = [held EXCEPT ![t] = left, ![u] = {d}]
    /\ src' = [src EXCEPT ![u] = {d}]
    /\ UNCHANGED <<ref, deleting>>

(* AllocateDatum and AllocateCurrentDatum; replacetext runs its callback in *)
(* the same way.                                                           *)
EnterNew(t, u, arguments, d) ==
    /\ Initialize(t, u, arguments, d)
    /\ PreserveFrames(t)
    /\ Enter(t, u, TRUE, arguments \cup {d}, {})
    /\ UNCHANGED globals

(* `new /regex`, MakeRegex, MakeFilter, initial() on a type and a store to *)
(* world.maxx call initialize_existing_datum and save no frames.  The run  *)
(* gets a regex or a filter; the prototype of initial() and the cells of   *)
(* the world go to the roots (initial_prototypes, world_turfs).            *)
EnterUnrooted(t, u, arguments, d) ==
    /\ Initialize(t, u, arguments, d)
    /\ \E kept \in {{}, {d}} :
           /\ globals' = globals \cup kept
           /\ Enter(t, u, FALSE, arguments \cup ({d} \ kept), {})
    /\ UNCHANGED hostRoots

(* execute_del runs Del() of o unless a deletion of o is under way. *)
EnterDel(t, u, o) ==
    /\ CanEnter(t, u)
    /\ o \in held[t] \ deleting
    /\ deleting' = deleting \cup {o}
    /\ \E left \in {held[t], held[t] \ ({o} \ src[t])} :
           held' = [held EXCEPT ![t] = left, ![u] = {o}]
    /\ src' = [src EXCEPT ![u] = {o}]
    /\ PreserveFrames(t)
    /\ Enter(t, u, TRUE, {}, {o})
    /\ UNCHANGED heapVars

(* spawn(-1) runs a copy of the frame until it blocks. *)
EnterSpawn(t, u) ==
    /\ CanEnter(t, u)
    /\ held' = [held EXCEPT ![u] = held[t]]
    /\ src' = [src EXCEPT ![u] = src[t]]
    /\ PreserveFrames(t)
    /\ Enter(t, u, TRUE, {}, {})
    /\ UNCHANGED <<heapVars, deleting>>

(* The object is gone and every handle to it reads as null. *)
Destroyed(S) ==
    /\ live' = live \ S
    /\ ref' = [o \in Obj |-> IF o \in S THEN {} ELSE ref[o] \ S]
    /\ globals' = globals \ S
    /\ src' = [t \in Thread |-> src[t] \ S]

\* Mutant: the copied frames stay in host_value_roots.
KeepRoots == UNCHANGED hostRoots

\* host_value_roots.truncate(root_len)
CutRoots ==
    hostRoots' = [i \in 1..Top.root_len |-> [hostRoots[i] EXCEPT !.vals = @ \ Top.victim]]

(* The nested call has returned: host_value_roots is cut off, del destroys *)
(* its object, and the run goes on with its arguments and the result.      *)
Resume ==
    /\ stack # <<>>
    /\ Top.busy /\ Top.rooted
    /\ CutRoots
    /\ Destroyed(Top.victim)
    /\ deleting' = deleting \ Top.victim
    /\ held' = [t \in Thread |->
                  (IF t = Top.thread
                   THEN held[t] \cup (Top.hand \cap live) \cup Top.ret ELSE held[t]) \ Top.victim]
    /\ stack' = Append([i \in 1..Len(stack) - 1 |->
                           [stack[i] EXCEPT !.hand = @ \ Top.victim, !.ret = @ \ Top.victim]],
                       Run(Top.thread))
    /\ UNCHANGED place

(* The nested initializers have returned to a run that saved no frames: it *)
(* goes on with what is left of them; a collected handle reads as null.    *)
ResumeUnrooted ==
    /\ stack # <<>>
    /\ Top.busy /\ ~Top.rooted
    /\ held' = [held EXCEPT ![Top.thread] = ((@ \cup Top.hand) \cap live) \cup Top.ret]
    /\ src' = [src EXCEPT ![Top.thread] = @ \cap live]
    /\ stack' = Append(Below, Run(Top.thread))
    /\ UNCHANGED <<heapVars, place, hostRoots, deleting>>

(* del of an object whose deletion is under way destroys it at once. *)
DestroyNow(t, o) ==
    /\ Active(t)
    /\ o \in held[t] \cap deleting
    /\ Destroyed({o})
    /\ held' = [u \in Thread |-> held[u] \ {o}]
    /\ stack' = [i \in DOMAIN stack |->
                    [stack[i] EXCEPT !.hand = @ \ {o}, !.ret = @ \ {o}]]
    /\ hostRoots' = [i \in DOMAIN hostRoots |-> [hostRoots[i] EXCEPT !.vals = @ \ {o}]]
    /\ UNCHANGED <<place, deleting>>
-----------------------------------------------------------------------------
(* How a run ends, and what the scheduler and the host do in between.      *)

Leave(to) ==
    /\ place' = [place EXCEPT ![Top.thread] = to]
    /\ stack' = Below

(* Sleep, and the end of a step or wall-clock budget: the continuation     *)
(* goes to the scheduler, after a collection with its frames as roots.     *)
Suspend(t) ==
    /\ Active(t)
    /\ Collect(held[t])
    /\ Leave("scheduled")
    /\ UNCHANGED <<globals, held, src, hostRoots, deleting>>

\* input() and its like: a pending prompt owns the continuation.
Ask(t) ==
    /\ Active(t)
    /\ Leave("prompt")
    /\ UNCHANGED <<heapVars, held, src, hostRoots, deleting>>

(* The run completes; its value stays in host_value_roots and goes to the  *)
(* call it was nested in.                                                  *)
Complete(t, value) ==
    /\ Active(t)
    /\ Len(hostRoots) < MaxRoots
    /\ value \in {{}} \cup {{o} : o \in held[t]}
    /\ hostRoots' = Append(hostRoots, [by |-> "result", vals |-> value])
    /\ place' = [place EXCEPT ![t] = "free"]
    /\ held' = [held EXCEPT ![t] = {}]
    /\ src' = [src EXCEPT ![t] = {}]
    /\ stack' = IF Len(stack) = 1 THEN <<>>
                ELSE [Below EXCEPT ![Len(stack) - 1].ret = value]
    /\ UNCHANGED <<heapVars, deleting>>

(* Sleep in a waitfor = 0 procedure, or spawn with a delay: a part of the  *)
(* frames goes to the scheduler, without a collection.                     *)
Detach(t, u, S) ==
    /\ Active(t)
    /\ place[u] = "free"
    /\ S \subseteq held[t]
    /\ place' = [place EXCEPT ![u] = "scheduled"]
    /\ held' = [held EXCEPT ![u] = S]
    /\ UNCHANGED <<heapVars, src, stack, hostRoots, deleting>>

(* The host calls a procedure, with objects it knows. *)
HostCall(t, S) ==
    /\ Quiet
    /\ place[t] = "free"
    /\ S \subseteq globals \cup UNION {hostRoots[i].vals : i \in DOMAIN hostRoots}
    /\ place' = [place EXCEPT ![t] = "running"]
    /\ held' = [held EXCEPT ![t] = S]
    /\ stack' = <<Run(t)>>
    /\ UNCHANGED <<heapVars, src, hostRoots, deleting>>

(* A scheduling round takes the due continuations, runs them one by one,   *)
(* and gives back the rest when its budget ends or one fails.              *)
TakeDue(due) ==
    /\ Quiet
    /\ due # {}
    /\ \A t \in due : place[t] = "scheduled"
    /\ place' = [t \in Thread |-> IF t \in due THEN "inflight" ELSE place[t]]
    /\ UNCHANGED <<heapVars, held, src, stack, hostRoots, deleting>>

RunDue(t) ==
    /\ Idle
    /\ place[t] = "inflight"
    /\ place' = [place EXCEPT ![t] = "running"]
    /\ stack' = <<Run(t)>>
    /\ UNCHANGED <<heapVars, held, src, hostRoots, deleting>>

GiveBack ==
    /\ Idle
    /\ \E t \in Thread : place[t] = "inflight"
    /\ place' = [t \in Thread |-> IF place[t] = "inflight" THEN "scheduled" ELSE place[t]]
    /\ UNCHANGED <<heapVars, held, src, stack, hostRoots, deleting>>

Answer(t) ==
    /\ Quiet
    /\ place[t] = "prompt"
    /\ place' = [place EXCEPT ![t] = "scheduled"]
    /\ UNCHANGED <<heapVars, held, src, stack, hostRoots, deleting>>

(* compact_quiescent_heap and release_host_value_roots, between calls. *)
CompactQuiescent ==
    /\ Quiet
    /\ live' = Reach(Roots({}))
    /\ ref' = [o \in Obj |-> IF o \in live' THEN ref[o] ELSE {}]
    /\ UNCHANGED <<globals, place, held, src, stack, hostRoots, deleting>>

ReleaseHostRoots ==
    /\ Quiet
    /\ hostRoots' = <<>>
    /\ UNCHANGED <<heapVars, place, held, src, stack, deleting>>

Next ==
    \/ \E t \in Thread, o \in Obj : Load(t, o) \/ Drop(t, o) \/ Allocate(t, o) \/ DestroyNow(t, o)
    \/ \E t \in Thread, x, y \in Obj : Store(t, x, y) \/ Erase(t, x, y)
    \/ \E t \in Thread, S \in SUBSET Obj : SetGlobal(t, S) \/ HostCall(t, S)
    \/ \E t, u \in Thread, S \in SUBSET Obj, d \in Obj :
           EnterNew(t, u, S, d) \/ EnterUnrooted(t, u, S, d)
    \/ \E t, u \in Thread, o \in Obj : EnterDel(t, u, o)
    \/ \E t, u \in Thread : EnterSpawn(t, u)
    \/ \E t, u \in Thread, S \in SUBSET Obj : Detach(t, u, S)
    \/ \E t \in Thread, S \in SUBSET Obj : Complete(t, S)
    \/ \E t \in Thread : Suspend(t) \/ Ask(t) \/ RunDue(t) \/ Answer(t)
    \/ \E due \in SUBSET Thread : TakeDue(due)
    \/ Resume \/ ResumeUnrooted \/ GiveBack \/ CompactQuiescent \/ ReleaseHostRoots

Spec == Init /\ [][Next]_vars
-----------------------------------------------------------------------------
Places == {"free", "running"} \cup Suspended

TypeOK ==
    /\ live \subseteq Obj
    /\ ref \in [Obj -> SUBSET Obj]
    /\ globals \subseteq Obj
    /\ place \in [Thread -> Places]
    /\ held \in [Thread -> SUBSET Obj]
    /\ src \in [Thread -> SUBSET Obj]
    /\ stack \in Seq([thread : Thread, busy : BOOLEAN, rooted : BOOLEAN, root_len : Nat,
                      hand : SUBSET Obj, ret : SUBSET Obj, victim : SUBSET Obj])
    /\ hostRoots \in Seq([by : {"frames", "result"}, vals : SUBSET Obj])
    /\ deleting \subseteq Obj

(* No live object, global or frame refers to a collected object: neither   *)
(* the frames of the run that slept, nor those saved further down the      *)
(* native stack, nor those the scheduler, the round or a prompt owns.      *)
NothingDangles ==
    /\ globals \subseteq live
    /\ \A o \in live : ref[o] \subseteq live
    /\ \A t \in Thread \ Exposed : held[t] \subseteq live
    /\ \A i \in DOMAIN stack : stack[i].ret \subseteq live

(* A call that re-entered the VM and saved its frames has them in          *)
(* host_value_roots for as long as it waits, at the place it cuts off      *)
(* afterwards, whatever nested calls leave there; when nothing runs, only  *)
(* results of completed calls are left.                                    *)
RootsBalanced ==
    /\ \A i \in DOMAIN stack : stack[i].busy /\ stack[i].rooted =>
           /\ stack[i].root_len + 1 \in DOMAIN hostRoots
           /\ hostRoots[stack[i].root_len + 1] =
                 [by |-> "frames", vals |-> held[stack[i].thread]]
    /\ Cardinality({i \in DOMAIN hostRoots : hostRoots[i].by = "frames"}) =
           Cardinality({i \in DOMAIN stack : stack[i].busy /\ stack[i].rooted})

(* A collection cannot be observed: what disappears from the heap and was  *)
(* reachable for DM code is being deleted by DM code.  The exception is    *)
(* what only exposed frames reach (FramesRetained).                        *)
CollectionTransparent ==
    [][(live \ live') \cap Reach(globals \cup UNION {held[t] : t \in Thread \ Exposed})
          \subseteq deleting]_vars

(* What interpreter.rs says of field initializers that re-enter the VM:    *)
(* the frames of the interpreter below them are retained until the         *)
(* initialization returns.  False for EnterUnrooted.                       *)
FramesRetained == \A t \in Thread : held[t] \subseteq live

(* Not an invariant: the arguments of a call that re-entered the VM stand  *)
(* in a Rust variable only, and a nested collection takes those nothing    *)
(* else refers to (README, section 5).                                     *)
ArgumentsLive == \A i \in DOMAIN stack : stack[i].hand \subseteq live
=============================================================================
