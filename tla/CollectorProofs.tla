--------------------------- MODULE CollectorProofs ---------------------------
(***************************************************************************)
(* Proofs about the collector and its roots, for any objects, any          *)
(* continuations, any depth of nested calls and any bound on the entries   *)
(* of host_value_roots.                                                    *)
(***************************************************************************)
EXTENDS Collector, FiniteSetTheorems, FunctionTheorems, SequenceTheorems, TLAPS

(* The run on top of the native stack is the only one that may work on its *)
(* frames; a continuation runs at most once, and only the call that waits  *)
(* to be resumed holds a returned value.                                   *)
StackOK ==
  /\ \A i \in DOMAIN stack : ~stack[i].busy => i = Len(stack) /\ ~stack[i].rooted
  /\ \A i \in DOMAIN stack : stack[i].ret # {} => stack[i].busy /\ i = Len(stack)
  /\ \A i, j \in DOMAIN stack : stack[i].thread = stack[j].thread => i = j
  /\ \A t \in Thread : place[t] = "running" <=> \E i \in DOMAIN stack : stack[i].thread = t

(* The calls that saved their frames own the copies in host_value_roots,   *)
(* one each, in the order in which they were entered.                      *)
RootsOK ==
  /\ \A i \in DOMAIN stack : stack[i].rooted =>
         /\ stack[i].root_len + 1 \in DOMAIN hostRoots
         /\ hostRoots[stack[i].root_len + 1].by = "frames"
         /\ hostRoots[stack[i].root_len + 1].vals = held[stack[i].thread]
  /\ \A i, j \in DOMAIN stack :
       stack[i].rooted /\ stack[j].rooted /\ i < j => stack[i].root_len < stack[j].root_len
  /\ \A k \in DOMAIN hostRoots : hostRoots[k].by = "frames" =>
       \E i \in DOMAIN stack : stack[i].rooted /\ stack[i].root_len + 1 = k

(* What a del destroys when it is resumed is being deleted, by it alone.   *)
VictimsOK ==
  /\ \A i \in DOMAIN stack : stack[i].victim \subseteq deleting
  /\ \A i, j \in DOMAIN stack : i # j => stack[i].victim \cap stack[j].victim = {}

(* Nothing but an exposed frame names what is not in the heap, and only    *)
(* continuations that run or wait hold anything.                           *)
HeapOK ==
  /\ NothingDangles
  /\ \A o \in Obj \ live : ref[o] = {}
  /\ \A i \in DOMAIN hostRoots : hostRoots[i].vals \subseteq live
  /\ \A t \in Thread : place[t] = "free" => held[t] = {}

(* The inductive invariant.                                                *)
CollectorInv == TypeOK /\ StackOK /\ RootsOK /\ VictimsOK /\ HeapOK

Call == [thread : Thread, busy : BOOLEAN, rooted : BOOLEAN, root_len : Nat,
         hand : SUBSET Obj, ret : SUBSET Obj, victim : SUBSET Obj]
Copy == [by : {"frames", "result"}, vals : SUBSET Obj]
-----------------------------------------------------------------------------
(* Sequences and reachability.                                             *)

(* A function on 1 .. n is a sequence of length n.                         *)
LEMMA FunctionIsSeq ==
  ASSUME NEW S, NEW n \in Nat, NEW f \in [1 .. n -> S]
  PROVE  f \in Seq(S) /\ Len(f) = n /\ DOMAIN f = 1 .. n
OBVIOUS

(* One entry more at the end of a sequence.                                *)
LEMMA Appended ==
  ASSUME NEW S, NEW seq \in Seq(S), NEW elt \in S
  PROVE  /\ Append(seq, elt) \in Seq(S)
         /\ DOMAIN Append(seq, elt) = 1 .. Len(seq) + 1
         /\ \A k \in 1 .. Len(seq) : Append(seq, elt)[k] = seq[k]
         /\ Append(seq, elt)[Len(seq) + 1] = elt
BY AppendProperties, LenProperties

(* The calls of the native stack and the entries of host_value_roots.      *)
LEMMA Entries ==
  ASSUME TypeOK
  PROVE  /\ stack \in Seq(Call) /\ hostRoots \in Seq(Copy)
         /\ Len(stack) \in Nat /\ DOMAIN stack = 1 .. Len(stack)
         /\ Len(hostRoots) \in Nat /\ DOMAIN hostRoots = 1 .. Len(hostRoots)
         /\ \A i \in DOMAIN stack :
              /\ stack[i] \in Call
              /\ stack[i].thread \in Thread
              /\ stack[i].busy \in BOOLEAN /\ stack[i].rooted \in BOOLEAN
              /\ stack[i].root_len \in Nat
              /\ stack[i].hand \subseteq Obj /\ stack[i].ret \subseteq Obj
              /\ stack[i].victim \subseteq Obj
         /\ \A k \in DOMAIN hostRoots :
              /\ hostRoots[k] \in Copy
              /\ hostRoots[k].by \in {"frames", "result"} /\ hostRoots[k].vals \subseteq Obj
<1>1. stack \in Seq(Call) /\ hostRoots \in Seq(Copy)
  BY DEF TypeOK, Call, Copy
<1>2. /\ Len(stack) \in Nat /\ DOMAIN stack = 1 .. Len(stack)
      /\ Len(hostRoots) \in Nat /\ DOMAIN hostRoots = 1 .. Len(hostRoots)
  BY <1>1, LenProperties
<1>3. /\ \A i \in DOMAIN stack : stack[i] \in Call
      /\ \A k \in DOMAIN hostRoots : hostRoots[k] \in Copy
  BY <1>1, <1>2, ElementOfSeq
<1>4. \A c \in Call : /\ c.thread \in Thread /\ c.busy \in BOOLEAN
                      /\ c.rooted \in BOOLEAN /\ c.root_len \in Nat
        /\ c.hand \subseteq Obj /\ c.ret \subseteq Obj /\ c.victim \subseteq Obj
  BY DEF Call
<1>5. \A c \in Copy : c.by \in {"frames", "result"} /\ c.vals \subseteq Obj
  BY DEF Copy
<1> QED
  BY <1>1, <1>2, <1>3, <1>4, <1>5

(* The active run and the calls below it.                                  *)
LEMMA TopAndBelow ==
  ASSUME TypeOK, stack # <<>>
  PROVE  /\ Len(stack) \in Nat \ {0} /\ DOMAIN stack = 1 .. Len(stack)
         /\ Len(stack) \in DOMAIN stack /\ Top = stack[Len(stack)] /\ Top \in Call
         /\ Below \in Seq(Call)
         /\ Len(Below) = Len(stack) - 1
         /\ DOMAIN Below = 1 .. Len(stack) - 1
         /\ \A i \in 1 .. Len(stack) - 1 : Below[i] = stack[i]
<1>1. stack \in Seq(Call)
  BY DEF TypeOK, Call
<1>2. Len(stack) \in Nat \ {0} /\ DOMAIN stack = 1 .. Len(stack)
      /\ \A i \in 1 .. Len(stack) : stack[i] \in Call
  BY <1>1, EmptySeq, LenProperties, ElementOfSeq
<1> DEFINE m == Len(stack) - 1
<1>3. m \in Nat /\ 1 \in Int /\ m \in Int /\ \A i \in 1 .. m : stack[i] \in Call
  BY <1>2
<1> HIDE DEF m
<1>4. /\ SubSeq(stack, 1, m) \in Seq(Call)
      /\ Len(SubSeq(stack, 1, m)) = m
      /\ \A i \in 1 .. m : SubSeq(stack, 1, m)[i] = stack[i]
  BY <1>3
<1>5. /\ Below \in Seq(Call)
      /\ Len(Below) = Len(stack) - 1
      /\ \A i \in 1 .. Len(stack) - 1 : Below[i] = stack[i]
  BY <1>4 DEF Below, m
<1>6. DOMAIN Below = 1 .. Len(stack) - 1
  BY <1>5, LenProperties
<1>7. Len(stack) \in DOMAIN stack /\ Top = stack[Len(stack)] /\ Top \in Call
  BY <1>2 DEF Top
<1> QED
  BY <1>2, <1>5, <1>6, <1>7

(* The mark phase keeps the live roots and whatever the objects it keeps   *)
(* refer to, and only live objects.                                        *)
LEMMA ReachFacts ==
  ASSUME \A o \in live : ref[o] \subseteq live, NEW roots
  PROVE  /\ Reach(roots) \subseteq live
         /\ roots \cap live \subseteq Reach(roots)
         /\ \A x \in Reach(roots) : ref[x] \subseteq Reach(roots)
<1>1. ASSUME NEW x \in Reach(roots), NEW y \in ref[x]
      PROVE  y \in Reach(roots)
  BY DEF Reach, Closed
<1> QED
  BY <1>1 DEF Reach

(* More roots reach more.                                                  *)
LEMMA ReachMonotone ==
  ASSUME NEW R, NEW S, R \subseteq S
  PROVE  Reach(R) \subseteq Reach(S)
BY DEF Reach
-----------------------------------------------------------------------------
(* Steps that leave the native stack and host_value_roots alone.           *)

(* The active run is not one of those that wait, and no call waits for a   *)
(* value to be taken.                                                      *)
LEMMA ActiveFacts ==
  ASSUME CollectorInv, NEW t \in Thread, Active(t)
  PROVE  /\ stack # <<>> /\ Top.thread = t /\ ~Top.busy
         /\ place[t] = "running"
         /\ \A i \in DOMAIN stack : stack[i].busy => stack[i].thread # t
         /\ \A i \in DOMAIN stack : stack[i].ret = {}
         /\ \A i \in DOMAIN stack : stack[i].busy <=> i # Len(stack)
         /\ \A i \in DOMAIN stack : stack[i].rooted => i # Len(stack)
         /\ t \notin Exposed
<1>1. stack # <<>> /\ Top.thread = t /\ ~Top.busy
  BY DEF Active
<1>2. Len(stack) \in DOMAIN stack /\ Top = stack[Len(stack)]
  BY <1>1, TopAndBelow DEF CollectorInv, Top
<1>3. \A i \in DOMAIN stack : stack[i].busy => stack[i].thread # t
  BY <1>1, <1>2 DEF CollectorInv, StackOK
<1>4. t \notin Exposed
  BY <1>3 DEF Exposed
<1> QED
  BY <1>1, <1>2, <1>3, <1>4 DEF CollectorInv, StackOK

LEMMA StackUnchanged ==
  ASSUME CollectorInv, UNCHANGED <<stack, hostRoots, deleting>>,
         \A i \in DOMAIN stack :
           stack[i].busy => held'[stack[i].thread] = held[stack[i].thread],
         \A t \in Thread : place'[t] = "running" <=> place[t] = "running"
  PROVE  StackOK' /\ RootsOK' /\ VictimsOK' /\ Exposed' = Exposed
<1>1. \A i \in DOMAIN stack : stack[i].rooted => stack[i].busy
  BY DEF CollectorInv, StackOK
<1>2. RootsOK'
  BY <1>1 DEF CollectorInv, RootsOK
<1> QED
  BY <1>2 DEF CollectorInv, StackOK, VictimsOK, Exposed

(* The same, for the steps of the active run that change its frames only.  *)
LEMMA ActiveFrames ==
  ASSUME CollectorInv, NEW t \in Thread, Active(t),
         UNCHANGED <<place, stack, hostRoots, deleting>>,
         \A u \in Thread : u # t => held'[u] = held[u]
  PROVE  StackOK' /\ RootsOK' /\ VictimsOK' /\ Exposed' = Exposed
<1>1. \A i \in DOMAIN stack : stack[i].busy => stack[i].thread # t
  BY ActiveFacts
<1>2. \A i \in DOMAIN stack : stack[i].thread \in Thread
  BY Entries DEF CollectorInv
<1> QED
  BY <1>1, <1>2, StackUnchanged

LEMMA LoadInv == ASSUME CollectorInv, NEW t \in Thread, NEW o \in Obj, Load(t, o)
                 PROVE  CollectorInv'
<1>1. Active(t) /\ UNCHANGED <<heapVars, place, src, stack, hostRoots, deleting>>
      /\ o \in globals \cup UNION {ref[x] : x \in held[t]}
      /\ held' = [held EXCEPT ![t] = @ \cup {o}]
  BY DEF Load
<1>2. TypeOK'
  BY <1>1 DEF CollectorInv, TypeOK, heapVars
<1>3. o \in live
  BY <1>1, ActiveFacts DEF CollectorInv, HeapOK, NothingDangles
<1>4. StackOK' /\ RootsOK' /\ VictimsOK' /\ Exposed' = Exposed
  BY <1>1, ActiveFrames DEF CollectorInv, TypeOK
<1>5. place[t] = "running"
  BY <1>1, ActiveFacts
<1>6. HeapOK'
  BY <1>1, <1>3, <1>4, <1>5 DEF CollectorInv, TypeOK, HeapOK, NothingDangles, heapVars
<1> QED
  BY <1>2, <1>4, <1>6 DEF CollectorInv

LEMMA DropInv == ASSUME CollectorInv, NEW t \in Thread, NEW o \in Obj, Drop(t, o)
                 PROVE  CollectorInv'
<1>1. Active(t) /\ UNCHANGED <<heapVars, place, src, stack, hostRoots, deleting>>
      /\ held' = [held EXCEPT ![t] = @ \ {o}]
  BY DEF Drop
<1>2. TypeOK'
  BY <1>1 DEF CollectorInv, TypeOK, heapVars
<1>3. StackOK' /\ RootsOK' /\ VictimsOK' /\ Exposed' = Exposed
  BY <1>1, ActiveFrames DEF CollectorInv, TypeOK
<1>4. HeapOK'
  <2>1. \A u \in Thread : held'[u] \subseteq held[u]
    BY <1>1 DEF CollectorInv, TypeOK
  <2> QED
    BY <1>1, <1>3, <2>1 DEF CollectorInv, HeapOK, NothingDangles, heapVars
<1> QED
  BY <1>2, <1>3, <1>4 DEF CollectorInv

LEMMA AllocateInv == ASSUME CollectorInv, NEW t \in Thread, NEW o \in Obj, Allocate(t, o)
                     PROVE  CollectorInv'
<1>1. Active(t) /\ UNCHANGED <<ref, globals, place, src, stack, hostRoots, deleting>>
      /\ live' = live \cup {o} /\ o \notin live
      /\ held' = [held EXCEPT ![t] = @ \cup {o}]
  BY DEF Allocate, Fresh
<1>2. TypeOK'
  BY <1>1 DEF CollectorInv, TypeOK
<1>3. StackOK' /\ RootsOK' /\ VictimsOK' /\ Exposed' = Exposed
  BY <1>1, ActiveFrames DEF CollectorInv, TypeOK
<1>4. place[t] = "running"
  BY <1>1, ActiveFacts
<1>5. ref[o] = {}
  BY <1>1 DEF CollectorInv, HeapOK
<1>6. HeapOK'
  BY <1>1, <1>3, <1>4, <1>5 DEF CollectorInv, TypeOK, HeapOK, NothingDangles
<1> QED
  BY <1>2, <1>3, <1>6 DEF CollectorInv

LEMMA FieldsInv ==
  ASSUME CollectorInv, NEW t \in Thread, NEW x \in Obj, NEW y \in Obj,
         Store(t, x, y) \/ Erase(t, x, y)
  PROVE  CollectorInv'
<1>1. Active(t) /\ UNCHANGED <<live, globals, place, held, src, stack, hostRoots, deleting>>
      /\ x \in held[t]
      /\ \/ y \in held[t] /\ ref' = [ref EXCEPT ![x] = @ \cup {y}]
         \/ ref' = [ref EXCEPT ![x] = @ \ {y}]
  BY DEF Store, Erase
<1>2. TypeOK'
  BY <1>1 DEF CollectorInv, TypeOK
<1>3. StackOK' /\ RootsOK' /\ VictimsOK' /\ Exposed' = Exposed
  BY <1>1, ActiveFrames DEF CollectorInv, TypeOK
<1>4. x \in live /\ (y \in held[t] => y \in live)
  BY <1>1, ActiveFacts DEF CollectorInv, HeapOK, NothingDangles
<1>5. ref \in [Obj -> SUBSET Obj] /\ \A o \in live : ref[o] \subseteq live
  BY DEF CollectorInv, TypeOK, HeapOK, NothingDangles
<1>6. \A o \in live : ref'[o] \subseteq live
  <2> SUFFICES ASSUME NEW o \in live PROVE ref'[o] \subseteq live
    OBVIOUS
  <2>1. o \in Obj
    BY DEF CollectorInv, TypeOK
  <2>2. CASE o # x
    BY <1>1, <1>5, <2>1, <2>2
  <2>3. CASE o = x
    BY <1>1, <1>4, <1>5, <2>1, <2>3
  <2> QED
    BY <2>2, <2>3
<1>7. \A o \in Obj \ live : ref'[o] = {}
  <2>1. \A o \in Obj \ live : ref[o] = {} /\ o # x
    BY <1>4 DEF CollectorInv, HeapOK
  <2> QED
    BY <1>1, <1>5, <2>1
<1>8. HeapOK'
  BY <1>1, <1>3, <1>6, <1>7 DEF CollectorInv, HeapOK, NothingDangles
<1> QED
  BY <1>2, <1>3, <1>8 DEF CollectorInv

LEMMA SetGlobalInv ==
  ASSUME CollectorInv, NEW t \in Thread, NEW S \in SUBSET Obj, SetGlobal(t, S)
  PROVE  CollectorInv'
<1>1. Active(t) /\ UNCHANGED <<live, ref, place, held, src, stack, hostRoots, deleting>>
      /\ globals' = S /\ S \subseteq globals \cup held[t]
  BY DEF SetGlobal
<1>2. TypeOK'
  BY <1>1 DEF CollectorInv, TypeOK
<1>3. StackOK' /\ RootsOK' /\ VictimsOK' /\ Exposed' = Exposed
  BY <1>1, ActiveFrames
<1>4. t \notin Exposed
  BY <1>1, ActiveFacts
<1>5. HeapOK'
  BY <1>1, <1>3, <1>4 DEF CollectorInv, HeapOK, NothingDangles
<1> QED
  BY <1>2, <1>3, <1>5 DEF CollectorInv

(* Sleep in a waitfor = 0 procedure and spawn with a delay hand on values  *)
(* the running frames hold.                                                *)
LEMMA DetachInv ==
  ASSUME CollectorInv, NEW t \in Thread, NEW u \in Thread, NEW S \in SUBSET Obj,
         Detach(t, u, S)
  PROVE  CollectorInv'
<1>1. Active(t) /\ UNCHANGED <<heapVars, src, stack, hostRoots, deleting>>
      /\ place[u] = "free" /\ S \subseteq held[t]
      /\ place' = [place EXCEPT ![u] = "scheduled"]
      /\ held' = [held EXCEPT ![u] = S]
  BY DEF Detach
<1>2. TypeOK'
  BY <1>1 DEF CollectorInv, TypeOK, heapVars, Places, Suspended
<1>3. \A i \in DOMAIN stack : stack[i].thread \in Thread /\ stack[i].thread # u
  <2>1. \A i \in DOMAIN stack : stack[i].thread \in Thread
    BY Entries DEF CollectorInv
  <2>2. \A i \in DOMAIN stack : place[stack[i].thread] = "running"
    BY <2>1 DEF CollectorInv, StackOK
  <2> QED
    BY <1>1, <2>1, <2>2
<1>4. StackOK' /\ RootsOK' /\ VictimsOK' /\ Exposed' = Exposed
  <2>1. \A v \in Thread : v # u => held'[v] = held[v]
    BY <1>1 DEF CollectorInv, TypeOK
  <2>2. \A v \in Thread : place'[v] = "running" <=> place[v] = "running"
    BY <1>1 DEF CollectorInv, TypeOK
  <2> QED
    BY <1>1, <1>3, <2>1, <2>2, StackUnchanged
<1>5. t \notin Exposed
  BY <1>1, ActiveFacts
<1>6. HeapOK'
  BY <1>1, <1>4, <1>5 DEF CollectorInv, TypeOK, HeapOK, NothingDangles, heapVars
<1> QED
  BY <1>2, <1>4, <1>6 DEF CollectorInv

(* Taking the due continuations, giving the rest back and the answer to a  *)
(* prompt move continuations between the queues.                           *)
LEMMA QueuesInv ==
  ASSUME CollectorInv, GiveBack \/ (\E t \in Thread : Answer(t))
                         \/ (\E due \in SUBSET Thread : TakeDue(due))
  PROVE  CollectorInv'
<1>1. UNCHANGED <<heapVars, held, src, stack, hostRoots, deleting>>
  BY DEF GiveBack, Answer, TakeDue
<1>2. place' \in [Thread -> Places]
      /\ \A t \in Thread : place'[t] = place[t] \/ {place[t], place'[t]} \subseteq Suspended
  <2>1. place \in [Thread -> Places] /\ Suspended \subseteq Places
    BY DEF CollectorInv, TypeOK, Places
  <2>2. {"scheduled", "inflight", "prompt"} = Suspended
    BY DEF Suspended
  <2>3. CASE GiveBack
    BY <2>1, <2>2, <2>3 DEF GiveBack
  <2>4. CASE \E t \in Thread : Answer(t)
    BY <2>1, <2>2, <2>4 DEF Answer
  <2>5. CASE \E due \in SUBSET Thread : TakeDue(due)
    BY <2>1, <2>2, <2>5 DEF TakeDue
  <2> QED
    BY <2>3, <2>4, <2>5
<1>3. \A t \in Thread : /\ place'[t] = "running" <=> place[t] = "running"
                        /\ place'[t] = "free" <=> place[t] = "free"
  BY <1>2 DEF Suspended
<1>4. StackOK' /\ RootsOK' /\ VictimsOK' /\ Exposed' = Exposed
  BY <1>1, <1>3, StackUnchanged
<1>5. TypeOK' /\ HeapOK'
  BY <1>1, <1>2, <1>3, <1>4 DEF CollectorInv, TypeOK, HeapOK, NothingDangles, heapVars
<1> QED
  BY <1>4, <1>5 DEF CollectorInv
-----------------------------------------------------------------------------
(* Collections.                                                            *)

(* Every value a frame holds that is not exposed is a root of a collection *)
(* that gets the frames of the run that does not wait: those of the calls  *)
(* that wait are in host_value_roots, the rest belongs to suspended        *)
(* continuations.                                                          *)
LEMMA FramesAreRoots ==
  ASSUME CollectorInv, NEW active,
         \A i \in DOMAIN stack : ~stack[i].busy => held[stack[i].thread] \subseteq active
  PROVE  globals \cup UNION {held[t] : t \in Thread \ Exposed} \subseteq Roots(active)
<1>1. globals \subseteq Roots(active) /\ active \subseteq Roots(active)
  BY DEF Roots
<1>2. ASSUME NEW t \in Thread \ Exposed PROVE held[t] \subseteq Roots(active)
  <2>1. CASE place[t] = "free"
    BY <2>1 DEF CollectorInv, HeapOK
  <2>2. CASE place[t] \in Suspended
    BY <2>2 DEF Roots
  <2>3. CASE place[t] = "running"
    <3>1. PICK i \in DOMAIN stack : stack[i].thread = t
      BY <2>3 DEF CollectorInv, StackOK
    <3>2. CASE stack[i].busy
      <4>1. stack[i].rooted
        BY <3>1, <3>2 DEF Exposed
      <4>2. stack[i].root_len + 1 \in DOMAIN hostRoots
            /\ hostRoots[stack[i].root_len + 1].vals = held[t]
        BY <3>1, <4>1 DEF CollectorInv, RootsOK
      <4> QED
        BY <4>2 DEF Roots
    <3>3. CASE ~stack[i].busy
      BY <1>1, <3>1, <3>3
    <3> QED
      BY <3>2, <3>3
  <2>4. place[t] \in {"free", "running"} \cup Suspended
    BY DEF CollectorInv, TypeOK, Places
  <2> QED
    BY <2>1, <2>2, <2>3, <2>4
<1> QED
  BY <1>1, <1>2

(* So a collection leaves nothing dangling.                                *)
LEMMA CollectHeap ==
  ASSUME CollectorInv, NEW active,
         \A i \in DOMAIN stack : ~stack[i].busy => held[stack[i].thread] \subseteq active,
         \A i \in DOMAIN stack' : stack'[i].ret = {},
         \A t \in Thread : place'[t] = "free" => place[t] = "free",
         live' = Reach(Roots(active)),
         ref' = [o \in Obj |-> IF o \in live' THEN ref[o] ELSE {}],
         UNCHANGED <<globals, held, hostRoots>>, Exposed \subseteq Exposed'
  PROVE  HeapOK' /\ live' \subseteq Obj /\ ref' \in [Obj -> SUBSET Obj]
<1>1. \A o \in live : ref[o] \subseteq live
  BY DEF CollectorInv, HeapOK, NothingDangles
<1>2. /\ live' \subseteq live
      /\ Roots(active) \cap live \subseteq live'
      /\ \A x \in live' : ref[x] \subseteq live'
  BY <1>1, ReachFacts
<1>3. live \subseteq Obj /\ ref \in [Obj -> SUBSET Obj]
  BY DEF CollectorInv, TypeOK
<1>4. globals \subseteq live' /\ \A t \in Thread \ Exposed : held[t] \subseteq live'
  BY <1>2, FramesAreRoots DEF CollectorInv, HeapOK, NothingDangles
<1>5. ASSUME NEW i \in DOMAIN hostRoots PROVE hostRoots[i].vals \subseteq live'
  <2>1. hostRoots[i].vals \subseteq Roots(active)
    BY DEF Roots
  <2> QED
    BY <1>2, <2>1 DEF CollectorInv, HeapOK
<1>6. NothingDangles'
  BY <1>2, <1>3, <1>4 DEF NothingDangles
<1>7. \A o \in Obj \ live' : ref'[o] = {}
  BY <1>3
<1>8. HeapOK'
  BY <1>5, <1>6, <1>7 DEF CollectorInv, HeapOK
<1> QED
  BY <1>2, <1>3, <1>8

(* What a collection takes, no DM code could reach.                        *)
LEMMA CollectTransparent ==
  ASSUME CollectorInv, NEW active,
         \A i \in DOMAIN stack : ~stack[i].busy => held[stack[i].thread] \subseteq active,
         live' = Reach(Roots(active))
  PROVE  (live \ live') \cap Reach(globals \cup UNION {held[t] : t \in Thread \ Exposed}) = {}
<1>1. Reach(globals \cup UNION {held[t] : t \in Thread \ Exposed}) \subseteq Reach(Roots(active))
  BY FramesAreRoots, ReachMonotone
<1> QED
  BY <1>1

(* A run that is suspended leaves the native stack to the call below it.   *)
LEMMA LeaveInv ==
  ASSUME CollectorInv, NEW t \in Thread, Active(t), NEW to \in Suspended, Leave(to),
         UNCHANGED <<held, hostRoots, deleting>>
  PROVE  /\ StackOK' /\ RootsOK' /\ VictimsOK'
         /\ stack' \in Seq(Call) /\ place' \in [Thread -> Places]
         /\ \A i \in DOMAIN stack' : stack'[i].ret = {}
         /\ \A u \in Thread : place'[u] = "free" => place[u] = "free"
         /\ Exposed \subseteq Exposed'
<1> DEFINE n == Len(stack)
<1>1. /\ stack # <<>> /\ stack[n].thread = t
      /\ place[t] = "running"
      /\ \A i \in DOMAIN stack : stack[i].ret = {}
      /\ \A i \in DOMAIN stack : stack[i].busy <=> i # n
      /\ \A i \in DOMAIN stack : stack[i].rooted => stack[i].busy
  BY ActiveFacts DEF Top
<1>2. /\ n \in Nat \ {0} /\ DOMAIN stack = 1 .. n
      /\ Below \in Seq(Call) /\ Len(Below) = n - 1 /\ DOMAIN Below = 1 .. n - 1
      /\ \A i \in 1 .. n - 1 : Below[i] = stack[i]
  BY <1>1, TopAndBelow DEF CollectorInv
<1> HIDE DEF n
<1>3. stack' = Below /\ place' = [place EXCEPT ![t] = to]
  BY <1>1 DEF Leave, Top, n
<1>4. to # "running" /\ to # "free" /\ to \in Places
  BY DEF Suspended, Places
<1>5. /\ place' \in [Thread -> Places] /\ place'[t] = to
      /\ \A u \in Thread : u # t => place'[u] = place[u]
  BY <1>3, <1>4 DEF CollectorInv, TypeOK
<1>6. /\ stack' \in Seq(Call) /\ DOMAIN stack' = 1 .. n - 1 /\ Len(stack') = n - 1
      /\ \A i \in DOMAIN stack' : i \in DOMAIN stack /\ stack'[i] = stack[i] /\ i # n
      /\ n \in DOMAIN stack
      /\ \A i \in DOMAIN stack : i # n => i \in DOMAIN stack'
  BY <1>2, <1>3
<1>7. \A i \in DOMAIN stack' : stack'[i].ret = {} /\ stack'[i].busy
  BY <1>1, <1>6
<1>8. StackOK'
  <2>1. \A i, j \in DOMAIN stack' : stack'[i].thread = stack'[j].thread => i = j
    BY <1>6 DEF CollectorInv, StackOK
  <2>2. ASSUME NEW u \in Thread
        PROVE  place'[u] = "running" <=> \E i \in DOMAIN stack' : stack'[i].thread = u
    <3>1. CASE u = t
      <4>1. \A i \in DOMAIN stack' : stack'[i].thread # t
        BY <1>1, <1>6 DEF CollectorInv, StackOK
      <4> QED
        BY <1>4, <1>5, <3>1, <4>1
    <3>2. CASE u # t
      <4>1. place[u] = "running" <=> \E i \in DOMAIN stack : stack[i].thread = u
        BY DEF CollectorInv, StackOK
      <4> QED
        BY <1>1, <1>5, <1>6, <3>2, <4>1
    <3> QED
      BY <3>1, <3>2
  <2> QED
    BY <1>7, <2>1, <2>2 DEF StackOK
<1>9. RootsOK'
  <2>1. \A i \in DOMAIN stack : stack[i].rooted => i \in DOMAIN stack' /\ stack'[i] = stack[i]
    BY <1>1, <1>6
  <2> QED
    BY <1>6, <2>1 DEF CollectorInv, RootsOK
<1>10. VictimsOK'
  BY <1>6 DEF CollectorInv, VictimsOK
<1>11. \A u \in Thread : place'[u] = "free" => place[u] = "free"
  BY <1>4, <1>5
<1>12. Exposed \subseteq Exposed'
  <2>1. \A i \in DOMAIN stack : stack[i].busy => i \in DOMAIN stack' /\ stack'[i] = stack[i]
    BY <1>1, <1>6
  <2> QED
    BY <2>1 DEF Exposed
<1> QED
  BY <1>5, <1>6, <1>7, <1>8, <1>9, <1>10, <1>11, <1>12

(* The frames of the active run are the only ones a collection is given.   *)
LEMMA ActiveIsGiven ==
  ASSUME CollectorInv, NEW t \in Thread, Active(t)
  PROVE  \A i \in DOMAIN stack : ~stack[i].busy => held[stack[i].thread] \subseteq held[t]
BY ActiveFacts DEF Top

LEMMA SuspendInv ==
  ASSUME CollectorInv, NEW t \in Thread, Suspend(t)
  PROVE  CollectorInv'
<1>1. /\ Active(t) /\ Collect(held[t]) /\ Leave("scheduled")
      /\ UNCHANGED <<globals, held, src, hostRoots, deleting>>
      /\ "scheduled" \in Suspended
  BY DEF Suspend, Suspended
<1>2. /\ StackOK' /\ RootsOK' /\ VictimsOK'
      /\ stack' \in Seq(Call) /\ place' \in [Thread -> Places]
      /\ \A i \in DOMAIN stack' : stack'[i].ret = {}
      /\ \A u \in Thread : place'[u] = "free" => place[u] = "free"
      /\ Exposed \subseteq Exposed'
  BY <1>1, LeaveInv
<1>3. HeapOK' /\ live' \subseteq Obj /\ ref' \in [Obj -> SUBSET Obj]
  <2>1. CASE UNCHANGED <<live, ref>>
    BY <1>1, <1>2, <2>1 DEF CollectorInv, TypeOK, HeapOK, NothingDangles
  <2>2. CASE ~UNCHANGED <<live, ref>>
    <3>1. /\ live' = Reach(Roots(held[t]))
          /\ ref' = [o \in Obj |-> IF o \in live' THEN ref[o] ELSE {}]
      BY <1>1, <2>2 DEF Collect
    <3> QED
      BY <1>1, <1>2, <3>1, ActiveIsGiven, CollectHeap
  <2> QED
    BY <2>1, <2>2
<1>4. TypeOK'
  BY <1>1, <1>2, <1>3 DEF CollectorInv, TypeOK, Call
<1> QED
  BY <1>2, <1>3, <1>4 DEF CollectorInv

LEMMA AskInv ==
  ASSUME CollectorInv, NEW t \in Thread, Ask(t)
  PROVE  CollectorInv'
<1>1. /\ Active(t) /\ Leave("prompt") /\ "prompt" \in Suspended
      /\ UNCHANGED <<heapVars, held, src, hostRoots, deleting>>
  BY DEF Ask, Suspended
<1>2. /\ StackOK' /\ RootsOK' /\ VictimsOK'
      /\ stack' \in Seq(Call) /\ place' \in [Thread -> Places]
      /\ \A i \in DOMAIN stack' : stack'[i].ret = {}
      /\ \A u \in Thread : place'[u] = "free" => place[u] = "free"
      /\ Exposed \subseteq Exposed'
  BY <1>1, LeaveInv
<1>3. HeapOK'
  BY <1>1, <1>2 DEF CollectorInv, HeapOK, NothingDangles, heapVars
<1>4. TypeOK'
  BY <1>1, <1>2 DEF CollectorInv, TypeOK, Call, heapVars
<1> QED
  BY <1>2, <1>3, <1>4 DEF CollectorInv

(* compact_quiescent_heap runs with an empty native stack.                 *)
LEMMA CompactInv ==
  ASSUME CollectorInv, CompactQuiescent
  PROVE  CollectorInv'
<1>1. /\ stack = <<>>
      /\ live' = Reach(Roots({}))
      /\ ref' = [o \in Obj |-> IF o \in live' THEN ref[o] ELSE {}]
      /\ UNCHANGED <<globals, place, held, src, stack, hostRoots, deleting>>
  BY DEF CompactQuiescent, Quiet, Idle
<1>2. DOMAIN stack = {}
  BY <1>1
<1>3. HeapOK' /\ live' \subseteq Obj /\ ref' \in [Obj -> SUBSET Obj]
  <2>1. Exposed' = Exposed
    BY <1>1 DEF Exposed
  <2> QED
    BY <1>1, <1>2, <2>1, CollectHeap
<1>4. StackOK' /\ RootsOK' /\ VictimsOK'
  BY <1>1, StackUnchanged
<1>5. TypeOK'
  BY <1>1, <1>3 DEF CollectorInv, TypeOK
<1> QED
  BY <1>3, <1>4, <1>5 DEF CollectorInv
-----------------------------------------------------------------------------
(* The bottom of the native stack.                                         *)

(* A fresh call of run_frames: it waits for nothing and holds nothing.     *)
LEMMA RunFacts ==
  ASSUME NEW t \in Thread
  PROVE  /\ Run(t) \in Call
         /\ Run(t).thread = t /\ Run(t).busy = FALSE /\ Run(t).rooted = FALSE
         /\ Run(t).ret = {} /\ Run(t).victim = {}
BY DEF Run, Call

(* The scheduler or the host enters a continuation on an empty stack.      *)
LEMMA StartInv ==
  ASSUME CollectorInv, stack = <<>>, NEW t \in Thread, stack' = <<Run(t)>>,
         place' = [place EXCEPT ![t] = "running"], UNCHANGED <<hostRoots, deleting>>
  PROVE  /\ StackOK' /\ RootsOK' /\ VictimsOK'
         /\ stack' \in Seq(Call) /\ place' \in [Thread -> Places]
         /\ \A i \in DOMAIN stack' : stack'[i].ret = {}
         /\ \A u \in Thread : place'[u] = "free" => u # t /\ place[u] = "free"
         /\ Exposed = {}
<1>1. /\ stack' \in Seq(Call) /\ DOMAIN stack' = {1} /\ Len(stack') = 1
      /\ stack'[1] = Run(t)
  <2>1. ASSUME NEW c \in Call
        PROVE  <<c>> \in Seq(Call) /\ DOMAIN <<c>> = {1} /\ Len(<<c>>) = 1 /\ <<c>>[1] = c
    OBVIOUS
  <2>2. Run(t) \in Call
    BY RunFacts
  <2> QED
    BY <2>1, <2>2
<1>2. /\ stack'[1].thread = t /\ stack'[1].busy = FALSE /\ stack'[1].rooted = FALSE
      /\ stack'[1].ret = {} /\ stack'[1].victim = {}
  BY <1>1, RunFacts
<1>3. /\ place' \in [Thread -> Places] /\ place'[t] = "running"
      /\ \A u \in Thread : u # t => place'[u] = place[u]
  BY DEF CollectorInv, TypeOK, Places
<1>4. DOMAIN stack = {}
  OBVIOUS
<1>5. StackOK'
  <2>1. \A u \in Thread : place[u] # "running"
    BY <1>4 DEF CollectorInv, StackOK
  <2> QED
    BY <1>1, <1>2, <1>3, <2>1 DEF StackOK
<1>6. RootsOK'
  BY <1>1, <1>2, <1>4 DEF CollectorInv, RootsOK
<1>7. VictimsOK'
  BY <1>1, <1>2 DEF VictimsOK
<1>8. Exposed = {}
  BY <1>4 DEF Exposed
<1> QED
  BY <1>1, <1>2, <1>3, <1>5, <1>6, <1>7, <1>8

LEMMA RunDueInv ==
  ASSUME CollectorInv, NEW t \in Thread, RunDue(t)
  PROVE  CollectorInv'
<1>1. /\ stack = <<>> /\ stack' = <<Run(t)>>
      /\ place' = [place EXCEPT ![t] = "running"]
      /\ UNCHANGED <<heapVars, held, src, hostRoots, deleting>>
  BY DEF RunDue, Idle
<1>2. /\ StackOK' /\ RootsOK' /\ VictimsOK'
      /\ stack' \in Seq(Call) /\ place' \in [Thread -> Places]
      /\ \A i \in DOMAIN stack' : stack'[i].ret = {}
      /\ \A u \in Thread : place'[u] = "free" => u # t /\ place[u] = "free"
      /\ Exposed = {}
  BY <1>1, StartInv
<1>3. HeapOK'
  BY <1>1, <1>2 DEF CollectorInv, HeapOK, NothingDangles, heapVars
<1>4. TypeOK'
  BY <1>1, <1>2 DEF CollectorInv, TypeOK, Call, heapVars
<1> QED
  BY <1>2, <1>3, <1>4 DEF CollectorInv

(* The objects the host knows are globals or in host_value_roots.          *)
LEMMA HostCallInv ==
  ASSUME CollectorInv, NEW t \in Thread, NEW S \in SUBSET Obj, HostCall(t, S)
  PROVE  CollectorInv'
<1>1. /\ stack = <<>> /\ stack' = <<Run(t)>>
      /\ place' = [place EXCEPT ![t] = "running"]
      /\ held' = [held EXCEPT ![t] = S]
      /\ S \subseteq globals \cup UNION {hostRoots[i].vals : i \in DOMAIN hostRoots}
      /\ UNCHANGED <<heapVars, src, hostRoots, deleting>>
  BY DEF HostCall, Quiet, Idle
<1>2. /\ StackOK' /\ RootsOK' /\ VictimsOK'
      /\ stack' \in Seq(Call) /\ place' \in [Thread -> Places]
      /\ \A i \in DOMAIN stack' : stack'[i].ret = {}
      /\ \A u \in Thread : place'[u] = "free" => u # t /\ place[u] = "free"
      /\ Exposed = {}
  BY <1>1, StartInv
<1>3. /\ held' \in [Thread -> SUBSET Obj] /\ held'[t] = S
      /\ \A u \in Thread : u # t => held'[u] = held[u]
  BY <1>1 DEF CollectorInv, TypeOK
<1>4. S \subseteq live
  BY <1>1 DEF CollectorInv, HeapOK, NothingDangles
<1>5. NothingDangles'
  BY <1>1, <1>2, <1>3, <1>4 DEF CollectorInv, HeapOK, NothingDangles, heapVars
<1>6. HeapOK'
  BY <1>1, <1>2, <1>3, <1>5 DEF CollectorInv, HeapOK, heapVars
<1>7. TypeOK'
  BY <1>1, <1>2, <1>3 DEF CollectorInv, TypeOK, Call, heapVars
<1> QED
  BY <1>2, <1>6, <1>7 DEF CollectorInv

(* release_host_value_roots runs when no call waits.                       *)
LEMMA ReleaseInv ==
  ASSUME CollectorInv, ReleaseHostRoots
  PROVE  CollectorInv'
<1>1. /\ stack = <<>> /\ hostRoots' = <<>>
      /\ UNCHANGED <<heapVars, place, held, src, stack, deleting>>
  BY DEF ReleaseHostRoots, Quiet, Idle
<1>2. DOMAIN stack = {} /\ DOMAIN hostRoots' = {} /\ hostRoots' \in Seq(Copy)
  BY <1>1
<1>3. TypeOK'
  BY <1>1, <1>2 DEF CollectorInv, TypeOK, Copy, heapVars
<1>4. StackOK' /\ VictimsOK'
  BY <1>1 DEF CollectorInv, StackOK, VictimsOK
<1>5. RootsOK'
  BY <1>1, <1>2 DEF RootsOK
<1>6. HeapOK'
  <2>1. Exposed' = Exposed
    BY <1>1 DEF Exposed
  <2> QED
    BY <1>1, <1>2, <2>1 DEF CollectorInv, HeapOK, NothingDangles, heapVars
<1> QED
  BY <1>3, <1>4, <1>5, <1>6 DEF CollectorInv
-----------------------------------------------------------------------------
(* Calls that re-enter the VM.                                             *)

(* The run t waits, its frames are copied to host_value_roots or exposed,  *)
(* and a fresh call is on top of it.                                       *)
LEMMA EnterInv ==
  ASSUME CollectorInv, NEW t \in Thread, NEW u \in Thread, CanEnter(t, u),
         NEW hand \in SUBSET Obj, NEW victim \in SUBSET Obj,
         \/ Enter(t, u, TRUE, hand, victim) /\ PreserveFrames(t)
         \/ Enter(t, u, FALSE, hand, victim) /\ UNCHANGED hostRoots,
         held' \in [Thread -> SUBSET Obj],
         \A v \in Thread : v # t /\ v # u => held'[v] = held[v],
         victim \cap deleting = {}, deleting' = deleting \cup victim
  PROVE  /\ StackOK' /\ RootsOK' /\ VictimsOK'
         /\ stack' \in Seq(Call) /\ place' \in [Thread -> Places]
         /\ hostRoots' \in Seq(Copy)
         /\ \A i \in DOMAIN stack' : stack'[i].ret = {}
         /\ \A v \in Thread : place'[v] = "free" => v # t /\ v # u /\ place[v] = "free"
         /\ \A k \in DOMAIN hostRoots' :
              \/ hostRoots'[k].vals = held'[t]
              \/ k \in DOMAIN hostRoots /\ hostRoots'[k] = hostRoots[k]
         /\ t \notin Exposed /\ Exposed \subseteq Exposed'
<1>0. PICK rooted \in BOOLEAN :
      /\ Enter(t, u, rooted, hand, victim)
      /\ rooted => PreserveFrames(t)
      /\ ~rooted => UNCHANGED hostRoots
  OBVIOUS
<1> DEFINE n == Len(stack)
           m == Len(hostRoots)
           c == [thread |-> t, busy |-> TRUE, rooted |-> rooted, root_len |-> m,
                 hand |-> hand, ret |-> {}, victim |-> victim]
           copy == [by |-> "frames", vals |-> held'[t]]
<1>1. /\ Active(t) /\ place[u] = "free"
  BY DEF CanEnter
<1>2. /\ stack # <<>> /\ stack[n].thread = t
      /\ place[t] = "running"
      /\ \A i \in DOMAIN stack : stack[i].ret = {}
      /\ \A i \in DOMAIN stack : stack[i].busy <=> i # n
      /\ \A i \in DOMAIN stack : stack[i].rooted => i # n
      /\ t \notin Exposed
  BY <1>1, ActiveFacts DEF Top
<1>3. /\ n \in Nat \ {0} /\ DOMAIN stack = 1 .. n
      /\ Below \in Seq(Call) /\ Len(Below) = n - 1 /\ DOMAIN Below = 1 .. n - 1
      /\ \A i \in 1 .. n - 1 : Below[i] = stack[i]
  BY <1>2, TopAndBelow DEF CollectorInv
<1>4. /\ m \in Nat /\ hostRoots \in Seq(Copy) /\ DOMAIN hostRoots = 1 .. m
      /\ \A i \in DOMAIN stack : stack[i].thread \in Thread /\ stack[i].root_len \in Nat
  BY Entries DEF CollectorInv
<1>5. /\ rooted => hostRoots' = Append(hostRoots, copy)
      /\ ~rooted => hostRoots' = hostRoots
      /\ stack' = Append(Append(Below, c), Run(u))
      /\ place' = [place EXCEPT ![u] = "running"]
  BY <1>0 DEF PreserveFrames, Enter
<1>6. c \in Call /\ copy \in Copy
  BY <1>4 DEF Call, Copy
<1>7. /\ c.thread = t /\ c.busy = TRUE /\ c.rooted = rooted
      /\ c.root_len = m /\ c.ret = {} /\ c.victim = victim
      /\ copy.by = "frames" /\ copy.vals = held'[t]
  OBVIOUS
<1> HIDE DEF n, m, c, copy
<1>8. /\ stack' \in Seq(Call) /\ Len(stack') = n + 1 /\ DOMAIN stack' = 1 .. n + 1
      /\ \A i \in 1 .. n - 1 : stack'[i] = stack[i]
      /\ stack'[n] = c /\ stack'[n + 1] = Run(u)
  <2> DEFINE s == Append(Below, c)
  <2>1. /\ s \in Seq(Call) /\ Len(s) = n
        /\ \A i \in 1 .. n - 1 : s[i] = Below[i]
        /\ s[n] = c
    BY <1>3, <1>6, AppendProperties
  <2> HIDE DEF s
  <2>2. /\ stack' \in Seq(Call) /\ Len(stack') = n + 1
        /\ \A i \in 1 .. n : stack'[i] = s[i]
        /\ stack'[n + 1] = Run(u)
    <3>1. stack' = Append(s, Run(u)) /\ Run(u) \in Call
      BY <1>5, RunFacts DEF s
    <3> QED
      BY <2>1, <3>1, AppendProperties
  <2> QED
    BY <1>3, <2>1, <2>2, LenProperties
<1>9. /\ hostRoots' \in Seq(Copy)
      /\ \A k \in 1 .. m : k \in DOMAIN hostRoots' /\ hostRoots'[k] = hostRoots[k]
      /\ \A k \in DOMAIN hostRoots' : k \in 1 .. m \/ (rooted /\ k = m + 1)
      /\ rooted => m + 1 \in DOMAIN hostRoots' /\ hostRoots'[m + 1] = copy
  <2>1. CASE rooted
    <3>1. hostRoots' = Append(hostRoots, copy)
      BY <1>5, <2>1
    <3>2. /\ hostRoots' \in Seq(Copy) /\ DOMAIN hostRoots' = 1 .. m + 1
          /\ \A k \in 1 .. m : hostRoots'[k] = hostRoots[k]
          /\ hostRoots'[m + 1] = copy
      <4>1. hostRoots \in Seq(Copy) /\ copy \in Copy /\ m = Len(hostRoots)
        BY <1>4, <1>6 DEF m
      <4>2. \A e \in Copy :
              /\ Append(hostRoots, e) \in Seq(Copy)
              /\ DOMAIN Append(hostRoots, e) = 1 .. Len(hostRoots) + 1
              /\ \A k \in 1 .. Len(hostRoots) : Append(hostRoots, e)[k] = hostRoots[k]
              /\ Append(hostRoots, e)[Len(hostRoots) + 1] = e
        BY <4>1, Appended, Zenon
      <4>3. hostRoots' \in Seq(Copy) /\ DOMAIN hostRoots' = 1 .. m + 1
        BY <3>1, <4>1, <4>2, Zenon
      <4>4. (\A k \in 1 .. m : hostRoots'[k] = hostRoots[k]) /\ hostRoots'[m + 1] = copy
        BY <3>1, <4>1, <4>2, Zenon
      <4> QED
        BY <4>3, <4>4
    <3>3. /\ \A k \in 1 .. m : k \in 1 .. m + 1
          /\ \A k \in 1 .. m + 1 : k \in 1 .. m \/ k = m + 1
          /\ m + 1 \in 1 .. m + 1
      BY <1>4
    <3> QED
      BY <2>1, <3>2, <3>3
  <2>2. CASE ~rooted
    BY <1>4, <1>5, <2>2
  <2> QED
    BY <2>1, <2>2
<1>10. /\ place' \in [Thread -> Places] /\ place'[u] = "running" /\ u # t
       /\ \A v \in Thread : v # u => place'[v] = place[v]
  BY <1>1, <1>2, <1>5 DEF CollectorInv, TypeOK, Places
<1>11. \A i \in 1 .. n - 1 :
         /\ i \in DOMAIN stack /\ i \in DOMAIN stack' /\ stack'[i] = stack[i]
         /\ stack[i].busy
         /\ stack[i].thread # t /\ stack[i].thread # u
         /\ stack[i].rooted => stack[i].root_len + 1 \in 1 .. m
  <2>1. \A i \in DOMAIN stack : place[stack[i].thread] = "running"
    BY <1>4 DEF CollectorInv, StackOK
  <2>2. \A i \in 1 .. n - 1 : i \in DOMAIN stack /\ i # n /\ n \in DOMAIN stack
    BY <1>3
  <2> QED
    <3> SUFFICES ASSUME NEW i \in 1 .. n - 1
                 PROVE  /\ i \in DOMAIN stack /\ i \in DOMAIN stack' /\ stack'[i] = stack[i]
                        /\ stack[i].busy
                        /\ stack[i].thread # t /\ stack[i].thread # u
                        /\ stack[i].rooted => stack[i].root_len + 1 \in 1 .. m
      OBVIOUS
    <3>1. i \in DOMAIN stack /\ i \in 1 .. n + 1 /\ stack[i].busy
      BY <1>2, <1>3, <2>2
    <3>2. stack[i].thread # t
      BY <1>2, <2>2, <3>1 DEF CollectorInv, StackOK
    <3>3. stack[i].thread # u
      BY <1>1, <2>1, <3>1
    <3>4. stack[i].rooted => stack[i].root_len + 1 \in 1 .. m
      BY <1>4, <3>1 DEF CollectorInv, RootsOK
    <3> QED
      BY <1>8, <3>1, <3>2, <3>3, <3>4
<1>12. \A i \in DOMAIN stack' : i \in 1 .. n - 1 \/ i = n \/ i = n + 1
  BY <1>3, <1>8
<1>13. /\ stack'[n + 1].thread = u
       /\ stack'[n + 1].busy = FALSE /\ stack'[n + 1].rooted = FALSE
       /\ stack'[n + 1].ret = {} /\ stack'[n + 1].victim = {}
       /\ n \in DOMAIN stack' /\ n + 1 \in DOMAIN stack'
  <2>1. /\ Run(u).thread = u /\ Run(u).busy = FALSE /\ Run(u).rooted = FALSE
        /\ Run(u).ret = {} /\ Run(u).victim = {}
    BY RunFacts
  <2>2. n \in 1 .. n + 1 /\ n + 1 \in 1 .. n + 1
    BY <1>3
  <2> QED
    BY <1>8, <2>1, <2>2
<1>14. \A i \in DOMAIN stack' : stack'[i].ret = {}
  BY <1>2, <1>7, <1>8, <1>11, <1>12, <1>13
<1>15. StackOK'
  <2>1. \A i \in DOMAIN stack' : ~stack'[i].busy => i = Len(stack') /\ ~stack'[i].rooted
    BY <1>7, <1>8, <1>11, <1>12, <1>13
  <2>2. \A i, j \in DOMAIN stack' : stack'[i].thread = stack'[j].thread => i = j
    BY <1>7, <1>8, <1>10, <1>11, <1>12, <1>13 DEF CollectorInv, StackOK
  <2>3. ASSUME NEW v \in Thread
        PROVE  place'[v] = "running" <=> \E i \in DOMAIN stack' : stack'[i].thread = v
    <3>1. CASE v = u
      BY <1>10, <1>13, <3>1
    <3>2. CASE v = t
      BY <1>2, <1>7, <1>8, <1>10, <1>13, <3>2
    <3>3. CASE v # u /\ v # t
      <4>1. place[v] = "running" <=> \E i \in DOMAIN stack : stack[i].thread = v
        BY DEF CollectorInv, StackOK
      <4>2. \A i \in DOMAIN stack : stack[i].thread = v => i \in 1 .. n - 1
        BY <1>2, <1>3, <3>3
      <4> QED
        BY <1>7, <1>8, <1>10, <1>11, <1>12, <1>13, <3>3, <4>1, <4>2
    <3> QED
      BY <3>1, <3>2, <3>3
  <2> QED
    BY <1>14, <2>1, <2>2, <2>3 DEF StackOK
<1>16. RootsOK'
  <2>1. ASSUME NEW i \in DOMAIN stack', stack'[i].rooted
        PROVE  /\ stack'[i].root_len + 1 \in DOMAIN hostRoots'
               /\ hostRoots'[stack'[i].root_len + 1].by = "frames"
               /\ hostRoots'[stack'[i].root_len + 1].vals = held'[stack'[i].thread]
    <3>1. CASE i \in 1 .. n - 1
      <4>1. /\ hostRoots[stack[i].root_len + 1].by = "frames"
            /\ hostRoots[stack[i].root_len + 1].vals = held[stack[i].thread]
        BY <1>11, <2>1, <3>1 DEF CollectorInv, RootsOK
      <4>2. held'[stack[i].thread] = held[stack[i].thread]
        BY <1>4, <1>11, <3>1
      <4>3. stack[i].root_len + 1 \in 1 .. m
        BY <1>11, <2>1, <3>1
      <4>4. stack[i].root_len + 1 \in DOMAIN hostRoots'
        BY <1>4, <1>9, <4>3
      <4> QED
        BY <1>9, <1>11, <3>1, <4>1, <4>2, <4>3, <4>4
    <3>2. CASE i = n
      BY <1>4, <1>7, <1>8, <1>9, <2>1, <3>2
    <3> QED
      BY <1>12, <1>13, <2>1, <3>1, <3>2
  <2>2. ASSUME NEW i \in DOMAIN stack', NEW j \in DOMAIN stack',
               stack'[i].rooted, stack'[j].rooted, i < j
        PROVE  stack'[i].root_len < stack'[j].root_len
    <3>1. i \in 1 .. n - 1 /\ (j \in 1 .. n - 1 \/ j = n)
      BY <1>3, <1>12, <1>13, <2>2
    <3>2. CASE j \in 1 .. n - 1
      BY <1>11, <2>2, <3>1, <3>2 DEF CollectorInv, RootsOK
    <3>3. CASE j = n
      <4>1. stack[i].root_len \in Nat /\ stack[i].root_len + 1 \in 1 .. m
        BY <1>4, <1>11, <2>2, <3>1
      <4> QED
        BY <1>4, <1>7, <1>8, <1>11, <3>1, <3>3, <4>1
    <3> QED
      BY <3>1, <3>2, <3>3
  <2>3. ASSUME NEW k \in DOMAIN hostRoots', hostRoots'[k].by = "frames"
        PROVE  \E i \in DOMAIN stack' : stack'[i].rooted /\ stack'[i].root_len + 1 = k
    <3>1. CASE rooted /\ k = m + 1
      BY <1>7, <1>8, <1>13, <3>1
    <3>2. CASE k \in 1 .. m
      <4>1. PICK i \in DOMAIN stack : stack[i].rooted /\ stack[i].root_len + 1 = k
        BY <1>4, <1>9, <2>3, <3>2 DEF CollectorInv, RootsOK
      <4>2. i \in 1 .. n - 1
        BY <1>2, <1>3, <4>1
      <4> QED
        BY <1>11, <4>1, <4>2
    <3> QED
      BY <1>4, <1>9, <3>1, <3>2
  <2> QED
    BY <2>1, <2>2, <2>3 DEF RootsOK
<1>17. VictimsOK'
  <2>1. \A i \in 1 .. n - 1 : stack'[i].victim \subseteq deleting
    BY <1>11 DEF CollectorInv, VictimsOK
  <2>2. \A i, j \in 1 .. n - 1 : i # j => stack'[i].victim \cap stack'[j].victim = {}
    BY <1>11 DEF CollectorInv, VictimsOK
  <2>3. stack'[n].victim = victim /\ stack'[n + 1].victim = {}
    BY <1>7, <1>8, <1>13
  <2> QED
    BY <1>12, <2>1, <2>2, <2>3 DEF VictimsOK
<1>18. \A k \in DOMAIN hostRoots' :
         \/ hostRoots'[k].vals = held'[t]
         \/ k \in DOMAIN hostRoots /\ hostRoots'[k] = hostRoots[k]
  BY <1>4, <1>7, <1>9
<1>19. \A v \in Thread : place'[v] = "free" => v # t /\ v # u /\ place[v] = "free"
  BY <1>2, <1>10
<1>20. Exposed \subseteq Exposed'
  <2>1. \A i \in DOMAIN stack : stack[i].busy => i \in DOMAIN stack' /\ stack'[i] = stack[i]
    BY <1>2, <1>3, <1>11
  <2> QED
    BY <2>1 DEF Exposed
<1> QED
  BY <1>2, <1>8, <1>9, <1>10, <1>14, <1>15, <1>16, <1>17, <1>18, <1>19, <1>20

(* The heap after such a call: t keeps what it held, u gets its arguments, *)
(* and new has allocated at most one object.                               *)
LEMMA EnterHeap ==
  ASSUME CollectorInv, NEW t \in Thread, NEW u \in Thread,
         held' \in [Thread -> SUBSET Obj],
         \A v \in Thread : v # t /\ v # u => held'[v] = held[v],
         NEW fresh \in SUBSET (Obj \ live), live' = live \cup fresh,
         held'[t] \subseteq held[t], held'[u] \subseteq held[t] \cup fresh,
         UNCHANGED ref, globals \subseteq globals', globals' \subseteq globals \cup fresh,
         t \notin Exposed, Exposed \subseteq Exposed',
         \A i \in DOMAIN stack' : stack'[i].ret = {},
         \A v \in Thread : place'[v] = "free" => v # t /\ v # u /\ place[v] = "free",
         \A k \in DOMAIN hostRoots' :
           \/ hostRoots'[k].vals = held'[t]
           \/ k \in DOMAIN hostRoots /\ hostRoots'[k] = hostRoots[k]
  PROVE  HeapOK'
<1>1. \A v \in Thread \ Exposed : held'[v] \subseteq live'
  BY DEF CollectorInv, HeapOK, NothingDangles
<1>2. \A o \in live' : ref'[o] \subseteq live'
  BY DEF CollectorInv, HeapOK, NothingDangles
<1>3. NothingDangles'
  BY <1>1, <1>2 DEF CollectorInv, HeapOK, NothingDangles
<1>4. \A k \in DOMAIN hostRoots' : hostRoots'[k].vals \subseteq live'
  BY <1>1 DEF CollectorInv, HeapOK
<1> QED
  BY <1>3, <1>4 DEF CollectorInv, HeapOK

(* The datum whose initializers run is new, and its run holds nothing else. *)
LEMMA InitializeFacts ==
  ASSUME CollectorInv, NEW t \in Thread, NEW u \in Thread,
         NEW arguments \in SUBSET Obj, NEW d \in Obj, Initialize(t, u, arguments, d)
  PROVE  /\ CanEnter(t, u) /\ UNCHANGED <<ref, deleting>>
         /\ d \notin live /\ live' = live \cup {d}
         /\ held' \in [Thread -> SUBSET Obj]
         /\ held'[t] \subseteq held[t] /\ held'[u] = {d}
         /\ \A v \in Thread : v # t /\ v # u => held'[v] = held[v]
         /\ src' \in [Thread -> SUBSET Obj]
<1>1. /\ CanEnter(t, u) /\ UNCHANGED <<ref, deleting>>
      /\ d \notin live /\ live' = live \cup {d}
      /\ src' = [src EXCEPT ![u] = {d}]
  BY DEF Initialize, Fresh
<1>2. PICK left \in {held[t], held[t] \ arguments} :
        held' = [held EXCEPT ![t] = left, ![u] = {d}]
  BY DEF Initialize
<1>3. t # u
  BY <1>1, ActiveFacts DEF CanEnter
<1> QED
  BY <1>1, <1>2, <1>3 DEF CollectorInv, TypeOK

(* Both ways to run the initializers of a datum keep the invariant.        *)
LEMMA InitializerInv ==
  ASSUME CollectorInv, NEW t \in Thread, NEW u \in Thread,
         NEW arguments \in SUBSET Obj, NEW d \in Obj,
         NEW hand \in SUBSET Obj, NEW kept \in SUBSET {d},
         Initialize(t, u, arguments, d),
         \/ Enter(t, u, TRUE, hand, {}) /\ PreserveFrames(t)
         \/ Enter(t, u, FALSE, hand, {}) /\ UNCHANGED hostRoots,
         globals' = globals \cup kept
  PROVE  CollectorInv'
<1>1. /\ CanEnter(t, u) /\ UNCHANGED <<ref, deleting>>
      /\ d \notin live /\ live' = live \cup {d}
      /\ held' \in [Thread -> SUBSET Obj]
      /\ held'[t] \subseteq held[t] /\ held'[u] = {d}
      /\ \A v \in Thread : v # t /\ v # u => held'[v] = held[v]
      /\ src' \in [Thread -> SUBSET Obj]
  BY InitializeFacts
<1> DEFINE victim == {}
           fresh == {d}
<1>2. /\ victim \in SUBSET Obj /\ victim \cap deleting = {}
      /\ deleting' = deleting \cup victim
      /\ fresh \in SUBSET (Obj \ live) /\ live' = live \cup fresh
      /\ held'[u] \subseteq held[t] \cup fresh
      /\ \/ Enter(t, u, TRUE, hand, victim) /\ PreserveFrames(t)
         \/ Enter(t, u, FALSE, hand, victim) /\ UNCHANGED hostRoots
      /\ globals \subseteq globals' /\ globals' \subseteq globals \cup fresh
  BY <1>1
<1> HIDE DEF victim, fresh
<1>3. /\ StackOK' /\ RootsOK' /\ VictimsOK'
      /\ stack' \in Seq(Call) /\ place' \in [Thread -> Places]
      /\ hostRoots' \in Seq(Copy)
      /\ \A i \in DOMAIN stack' : stack'[i].ret = {}
      /\ \A v \in Thread : place'[v] = "free" => v # t /\ v # u /\ place[v] = "free"
      /\ \A k \in DOMAIN hostRoots' :
           \/ hostRoots'[k].vals = held'[t]
           \/ k \in DOMAIN hostRoots /\ hostRoots'[k] = hostRoots[k]
      /\ t \notin Exposed /\ Exposed \subseteq Exposed'
  BY <1>1, <1>2, EnterInv
<1>4. HeapOK'
  BY <1>1, <1>2, <1>3, EnterHeap
<1>5. TypeOK'
  BY <1>1, <1>3 DEF CollectorInv, TypeOK, Call, Copy
<1> QED
  BY <1>3, <1>4, <1>5 DEF CollectorInv

LEMMA EnterNewInv ==
  ASSUME CollectorInv, NEW t \in Thread, NEW u \in Thread,
         NEW arguments \in SUBSET Obj, NEW d \in Obj, EnterNew(t, u, arguments, d)
  PROVE  CollectorInv'
<1> DEFINE kept == {}
           hand == arguments \cup {d}
<1>1. /\ Initialize(t, u, arguments, d)
      /\ Enter(t, u, TRUE, hand, {}) /\ PreserveFrames(t)
      /\ globals' = globals \cup kept
      /\ kept \in SUBSET {d} /\ hand \in SUBSET Obj
  BY DEF EnterNew
<1> HIDE DEF kept, hand
<1> QED
  BY <1>1, InitializerInv

LEMMA EnterUnrootedInv ==
  ASSUME CollectorInv, NEW t \in Thread, NEW u \in Thread,
         NEW arguments \in SUBSET Obj, NEW d \in Obj, EnterUnrooted(t, u, arguments, d)
  PROVE  CollectorInv'
<1>1. PICK kept \in {{}, {d}} :
        /\ globals' = globals \cup kept
        /\ Enter(t, u, FALSE, arguments \cup ({d} \ kept), {})
  BY DEF EnterUnrooted
<1> DEFINE hand == arguments \cup ({d} \ kept)
<1>2. /\ Initialize(t, u, arguments, d)
      /\ Enter(t, u, FALSE, hand, {}) /\ UNCHANGED hostRoots
      /\ kept \in SUBSET {d} /\ hand \in SUBSET Obj
  BY <1>1 DEF EnterUnrooted
<1> HIDE DEF hand
<1> QED
  BY <1>1, <1>2, InitializerInv

LEMMA EnterDelInv ==
  ASSUME CollectorInv, NEW t \in Thread, NEW u \in Thread, NEW o \in Obj,
         EnterDel(t, u, o)
  PROVE  CollectorInv'
<1>1. /\ CanEnter(t, u) /\ PreserveFrames(t) /\ Enter(t, u, TRUE, {}, {o})
      /\ o \in held[t] /\ o \notin deleting /\ deleting' = deleting \cup {o}
      /\ src' = [src EXCEPT ![u] = {o}]
      /\ UNCHANGED heapVars
  BY DEF EnterDel
<1>2. PICK left \in {held[t], held[t] \ ({o} \ src[t])} :
        held' = [held EXCEPT ![t] = left, ![u] = {o}]
  BY DEF EnterDel
<1>3. t # u
  BY <1>1, ActiveFacts DEF CanEnter
<1>4. /\ held' \in [Thread -> SUBSET Obj]
      /\ held'[t] \subseteq held[t] /\ held'[u] = {o}
      /\ \A v \in Thread : v # t /\ v # u => held'[v] = held[v]
  BY <1>2, <1>3 DEF CollectorInv, TypeOK
<1> DEFINE victim == {o}
           hand == {}
           fresh == {}
<1>5. /\ victim \in SUBSET Obj /\ victim \cap deleting = {} /\ hand \in SUBSET Obj
      /\ deleting' = deleting \cup victim
      /\ fresh \in SUBSET (Obj \ live) /\ live' = live \cup fresh
      /\ held'[u] \subseteq held[t] \cup fresh
      /\ Enter(t, u, TRUE, hand, victim)
      /\ UNCHANGED ref /\ globals \subseteq globals' /\ globals' \subseteq globals \cup fresh
  BY <1>1, <1>4 DEF heapVars
<1> HIDE DEF victim, hand, fresh
<1>6. /\ StackOK' /\ RootsOK' /\ VictimsOK'
      /\ stack' \in Seq(Call) /\ place' \in [Thread -> Places]
      /\ hostRoots' \in Seq(Copy)
      /\ \A i \in DOMAIN stack' : stack'[i].ret = {}
      /\ \A v \in Thread : place'[v] = "free" => v # t /\ v # u /\ place[v] = "free"
      /\ \A k \in DOMAIN hostRoots' :
           \/ hostRoots'[k].vals = held'[t]
           \/ k \in DOMAIN hostRoots /\ hostRoots'[k] = hostRoots[k]
      /\ t \notin Exposed /\ Exposed \subseteq Exposed'
  BY <1>1, <1>4, <1>5, EnterInv
<1>7. HeapOK'
  BY <1>4, <1>5, <1>6, EnterHeap
<1>8. TypeOK'
  BY <1>1, <1>4, <1>6 DEF CollectorInv, TypeOK, Call, Copy, heapVars
<1> QED
  BY <1>6, <1>7, <1>8 DEF CollectorInv

LEMMA EnterSpawnInv ==
  ASSUME CollectorInv, NEW t \in Thread, NEW u \in Thread, EnterSpawn(t, u)
  PROVE  CollectorInv'
<1>1. /\ CanEnter(t, u) /\ PreserveFrames(t) /\ Enter(t, u, TRUE, {}, {})
      /\ held' = [held EXCEPT ![u] = held[t]]
      /\ src' = [src EXCEPT ![u] = src[t]]
      /\ UNCHANGED <<heapVars, deleting>>
  BY DEF EnterSpawn
<1>2. t # u
  BY <1>1, ActiveFacts DEF CanEnter
<1>3. /\ held' \in [Thread -> SUBSET Obj]
      /\ held'[t] \subseteq held[t] /\ held'[u] = held[t]
      /\ \A v \in Thread : v # t /\ v # u => held'[v] = held[v]
  BY <1>1, <1>2 DEF CollectorInv, TypeOK
<1> DEFINE victim == {}
           hand == {}
           fresh == {}
<1>4. /\ victim \in SUBSET Obj /\ victim \cap deleting = {} /\ hand \in SUBSET Obj
      /\ deleting' = deleting \cup victim
      /\ fresh \in SUBSET (Obj \ live) /\ live' = live \cup fresh
      /\ held'[u] \subseteq held[t] \cup fresh
      /\ Enter(t, u, TRUE, hand, victim)
      /\ UNCHANGED ref /\ globals \subseteq globals' /\ globals' \subseteq globals \cup fresh
  BY <1>1, <1>3 DEF heapVars
<1> HIDE DEF victim, hand, fresh
<1>5. /\ StackOK' /\ RootsOK' /\ VictimsOK'
      /\ stack' \in Seq(Call) /\ place' \in [Thread -> Places]
      /\ hostRoots' \in Seq(Copy)
      /\ \A i \in DOMAIN stack' : stack'[i].ret = {}
      /\ \A v \in Thread : place'[v] = "free" => v # t /\ v # u /\ place[v] = "free"
      /\ \A k \in DOMAIN hostRoots' :
           \/ hostRoots'[k].vals = held'[t]
           \/ k \in DOMAIN hostRoots /\ hostRoots'[k] = hostRoots[k]
      /\ t \notin Exposed /\ Exposed \subseteq Exposed'
  BY <1>1, <1>3, <1>4, EnterInv
<1>6. HeapOK'
  BY <1>3, <1>4, <1>5, EnterHeap
<1>7. TypeOK'
  BY <1>1, <1>3, <1>5 DEF CollectorInv, TypeOK, Call, Copy, heapVars
<1> QED
  BY <1>5, <1>6, <1>7 DEF CollectorInv
-----------------------------------------------------------------------------
(* Returns and destruction.                                                *)

(* destroy_datum: every handle to the destroyed objects reads as null.     *)
LEMMA DestroyedHeap ==
  ASSUME CollectorInv, NEW S, Destroyed(S),
         \A t \in Thread \ Exposed' : held'[t] \subseteq live',
         \A t \in Thread : place'[t] = "free" => held'[t] = {},
         \A i \in DOMAIN stack' : stack'[i].ret \subseteq live',
         \A i \in DOMAIN hostRoots' : hostRoots'[i].vals \subseteq live'
  PROVE  /\ HeapOK'
         /\ live' \subseteq Obj /\ ref' \in [Obj -> SUBSET Obj]
         /\ globals' \subseteq Obj /\ src' \in [Thread -> SUBSET Obj]
<1>1. /\ live' = live \ S
      /\ ref' = [o \in Obj |-> IF o \in S THEN {} ELSE ref[o] \ S]
      /\ globals' = globals \ S
      /\ src' = [t \in Thread |-> src[t] \ S]
  BY DEF Destroyed
<1>2. /\ live \subseteq Obj /\ ref \in [Obj -> SUBSET Obj]
      /\ globals \subseteq Obj /\ src \in [Thread -> SUBSET Obj]
  BY DEF CollectorInv, TypeOK
<1>3. /\ globals' \subseteq live'
      /\ \A o \in live' : ref'[o] \subseteq live'
      /\ \A o \in Obj \ live' : ref'[o] = {}
  BY <1>1, <1>2 DEF CollectorInv, HeapOK, NothingDangles
<1>4. HeapOK'
  BY <1>3 DEF HeapOK, NothingDangles
<1>5. ref' \in [Obj -> SUBSET Obj] /\ src' \in [Thread -> SUBSET Obj]
  BY <1>1, <1>2
<1> QED
  BY <1>1, <1>2, <1>4, <1>5

(* The nested call has returned: its copy is the last one in               *)
(* host_value_roots, and cutting it off leaves those of the calls below.   *)
LEMMA ResumeInv ==
  ASSUME CollectorInv, Resume
  PROVE  CollectorInv'
<1> DEFINE n == Len(stack)
           T == Top.thread
           L == Top.root_len
           V == Top.victim
           back(i) == [stack[i] EXCEPT !.hand = @ \ V, !.ret = @ \ V]
           cut(i) == [hostRoots[i] EXCEPT !.vals = @ \ V]
<1>1. /\ stack # <<>> /\ Top.busy /\ Top.rooted
      /\ hostRoots' = [i \in 1 .. L |-> cut(i)]
      /\ Destroyed(V)
      /\ deleting' = deleting \ V
      /\ held' = [t \in Thread |->
           (IF t = T THEN held[t] \cup (Top.hand \cap live) \cup Top.ret ELSE held[t]) \ V]
      /\ stack' = Append([i \in 1 .. n - 1 |-> back(i)], Run(T))
      /\ place' = place
  BY DEF Resume, CutRoots
<1>2. n \in Nat \ {0} /\ DOMAIN stack = 1 .. n /\ Top = stack[n] /\ n \in DOMAIN stack
  BY <1>1, TopAndBelow DEF CollectorInv
<1> HIDE DEF n
<1>3. /\ \A i \in DOMAIN stack :
           /\ stack[i] \in Call /\ stack[i].thread \in Thread /\ stack[i].root_len \in Nat
           /\ stack[i].hand \subseteq Obj /\ stack[i].ret \subseteq Obj
           /\ stack[i].victim \subseteq Obj
      /\ \A k \in DOMAIN hostRoots :
           hostRoots[k] \in Copy /\ hostRoots[k].vals \subseteq Obj
      /\ DOMAIN hostRoots = 1 .. Len(hostRoots) /\ Len(hostRoots) \in Nat
  BY Entries DEF CollectorInv
<1>4. T \in Thread /\ L \in Nat /\ L + 1 \in DOMAIN hostRoots
  BY <1>1, <1>2, <1>3 DEF CollectorInv, RootsOK
<1>5. ASSUME NEW i \in 1 .. n - 1
      PROVE  /\ i \in DOMAIN stack /\ stack[i].busy
             /\ stack[i].ret = {} /\ stack[i].thread # T
             /\ stack[i].rooted => stack[i].root_len < L
             /\ stack[i].victim \cap V = {}
  <2>1. i \in DOMAIN stack /\ i # n /\ i < n
    BY <1>2
  <2>2. stack[i].busy /\ stack[i].ret = {} /\ stack[i].thread # T
    BY <1>2, <2>1 DEF CollectorInv, StackOK
  <2>3. stack[i].rooted => stack[i].root_len < L
    BY <1>1, <1>2, <2>1 DEF CollectorInv, RootsOK
  <2>4. stack[i].victim \cap V = {}
    BY <1>2, <2>1 DEF CollectorInv, VictimsOK
  <2> QED
    BY <2>1, <2>2, <2>3, <2>4
<1>6. ASSUME NEW i \in 1 .. n - 1
      PROVE  /\ back(i) \in Call
             /\ back(i).thread = stack[i].thread /\ back(i).busy = stack[i].busy
             /\ back(i).rooted = stack[i].rooted
             /\ back(i).root_len = stack[i].root_len
             /\ back(i).ret = {} /\ back(i).victim = stack[i].victim
  <2>1. i \in DOMAIN stack /\ stack[i].ret = {}
    BY <1>5
  <2>2. stack[i] \in Call
    BY <1>3, <2>1
  <2> QED
    BY <2>1, <2>2 DEF Call
<1>7. ASSUME NEW k \in 1 .. L
      PROVE  /\ k \in DOMAIN hostRoots /\ cut(k) \in Copy
             /\ cut(k).by = hostRoots[k].by /\ cut(k).vals = hostRoots[k].vals \ V
  <2>1. k \in DOMAIN hostRoots
    BY <1>3, <1>4
  <2>2. hostRoots[k] \in Copy
    BY <1>3, <2>1
  <2> QED
    BY <2>1, <2>2 DEF Copy
<1> HIDE DEF T, L, V, back, cut
<1>8. /\ stack' \in Seq(Call) /\ Len(stack') = n /\ DOMAIN stack' = 1 .. n
      /\ \A i \in 1 .. n - 1 : stack'[i] = back(i)
      /\ stack'[n] = Run(T)
  <2> DEFINE s == [i \in 1 .. n - 1 |-> back(i)]
  <2>1. n - 1 \in Nat /\ s \in [1 .. n - 1 -> Call]
    BY <1>2, <1>6
  <2>2. \A i \in 1 .. n - 1 : s[i] = back(i)
    OBVIOUS
  <2>3. stack' = Append(s, Run(T)) /\ Run(T) \in Call
    BY <1>1, <1>4, RunFacts
  <2> HIDE DEF s
  <2>4. s \in Seq(Call) /\ Len(s) = n - 1
    BY <2>1, FunctionIsSeq
  <2>5. /\ stack' \in Seq(Call) /\ Len(stack') = n - 1 + 1
        /\ \A i \in 1 .. n - 1 : stack'[i] = s[i]
        /\ stack'[n - 1 + 1] = Run(T)
    BY <2>3, <2>4, AppendProperties
  <2>6. n - 1 + 1 = n
    BY <1>2
  <2> QED
    BY <2>2, <2>5, <2>6, LenProperties
<1>9. /\ hostRoots' \in Seq(Copy) /\ DOMAIN hostRoots' = 1 .. L
      /\ \A k \in 1 .. L : hostRoots'[k] = cut(k)
  <2>1. hostRoots' \in [1 .. L -> Copy]
    BY <1>1, <1>7
  <2> QED
    BY <1>1, <1>4, <2>1, FunctionIsSeq
<1>10. /\ stack'[n].thread = T
       /\ stack'[n].busy = FALSE /\ stack'[n].rooted = FALSE
       /\ stack'[n].ret = {} /\ stack'[n].victim = {}
       /\ n \in DOMAIN stack'
       /\ \A i \in DOMAIN stack' : i = n \/ i \in 1 .. n - 1
  <2>1. /\ Run(T).thread = T /\ Run(T).busy = FALSE /\ Run(T).rooted = FALSE
        /\ Run(T).ret = {} /\ Run(T).victim = {}
    BY <1>4, RunFacts
  <2> QED
    BY <1>2, <1>8, <2>1
<1>11. ASSUME NEW i \in 1 .. n - 1
       PROVE  /\ stack'[i].thread = stack[i].thread /\ stack'[i].busy
              /\ stack'[i].rooted = stack[i].rooted
              /\ stack'[i].root_len = stack[i].root_len
              /\ stack'[i].ret = {} /\ stack'[i].victim = stack[i].victim
              /\ stack'[i].thread # T
  BY <1>5, <1>6, <1>8
<1>12. StackOK'
  <2>1. \A i, j \in DOMAIN stack' : stack'[i].thread = stack'[j].thread => i = j
    BY <1>5, <1>10, <1>11 DEF CollectorInv, StackOK
  <2>2. ASSUME NEW v \in Thread
        PROVE  place'[v] = "running" <=> \E i \in DOMAIN stack' : stack'[i].thread = v
    <3>1. place[v] = "running" <=> \E i \in DOMAIN stack : stack[i].thread = v
      BY DEF CollectorInv, StackOK
    <3>2. stack[n].thread = T
      BY <1>2 DEF T
    <3>3. \A i \in DOMAIN stack : i = n \/ i \in 1 .. n - 1
      BY <1>2
    <3>4. \A i \in DOMAIN stack' : stack'[i].thread = stack[i].thread /\ i \in DOMAIN stack
      BY <1>2, <1>5, <1>10, <1>11, <3>2
    <3>5. DOMAIN stack' = DOMAIN stack
      BY <1>2, <1>8
    <3> QED
      BY <1>1, <3>1, <3>4, <3>5
  <2> QED
    BY <1>8, <1>10, <1>11, <2>1, <2>2 DEF StackOK
<1>13. /\ held' \in [Thread -> SUBSET Obj]
       /\ \A t \in Thread : t # T => held'[t] = held[t] \ V
       /\ held'[T] \subseteq (held[T] \cup live \cup Top.ret) \ V
  BY <1>1, <1>2, <1>3, <1>4 DEF CollectorInv, TypeOK
<1>14. RootsOK'
  <2>1. ASSUME NEW i \in DOMAIN stack', stack'[i].rooted
        PROVE  /\ stack'[i].root_len + 1 \in DOMAIN hostRoots'
               /\ hostRoots'[stack'[i].root_len + 1].by = "frames"
               /\ hostRoots'[stack'[i].root_len + 1].vals = held'[stack'[i].thread]
    <3>1. i \in 1 .. n - 1
      BY <1>10, <2>1
    <3>2. i \in DOMAIN stack /\ stack[i].root_len < L /\ stack[i].root_len \in Nat
          /\ stack[i].thread \in Thread /\ stack[i].rooted
      BY <1>3, <1>5, <1>11, <2>1, <3>1
    <3> DEFINE k == stack[i].root_len + 1
    <3>3. k \in 1 .. L
      BY <1>4, <3>2
    <3>4. hostRoots[k].by = "frames" /\ hostRoots[k].vals = held[stack[i].thread]
      BY <3>2 DEF CollectorInv, RootsOK
    <3>5. held'[stack[i].thread] = held[stack[i].thread] \ V
      BY <1>5, <1>13, <3>1, <3>2
    <3> HIDE DEF k
    <3>6. hostRoots'[k].by = "frames" /\ hostRoots'[k].vals = held[stack[i].thread] \ V
      BY <1>7, <1>9, <3>3, <3>4
    <3> QED
      BY <1>9, <1>11, <3>1, <3>3, <3>5, <3>6 DEF k
  <2>2. \A i, j \in DOMAIN stack' :
          stack'[i].rooted /\ stack'[j].rooted /\ i < j => stack'[i].root_len < stack'[j].root_len
    BY <1>5, <1>10, <1>11 DEF CollectorInv, RootsOK
  <2>3. ASSUME NEW k \in DOMAIN hostRoots', hostRoots'[k].by = "frames"
        PROVE  \E i \in DOMAIN stack' : stack'[i].rooted /\ stack'[i].root_len + 1 = k
    <3>1. k \in 1 .. L /\ k \in DOMAIN hostRoots /\ hostRoots[k].by = "frames"
      BY <1>7, <1>9, <2>3
    <3>2. PICK i \in DOMAIN stack : stack[i].rooted /\ stack[i].root_len + 1 = k
      BY <3>1 DEF CollectorInv, RootsOK
    <3>3. i # n
      BY <1>2, <1>4, <3>1, <3>2 DEF L
    <3>4. i \in 1 .. n - 1
      BY <1>2, <3>3
    <3> QED
      BY <1>8, <1>11, <3>2, <3>4, <1>2
  <2> QED
    BY <2>1, <2>2, <2>3 DEF RootsOK
<1>15. VictimsOK'
  <2>1. \A i \in 1 .. n - 1 : stack'[i].victim \subseteq deleting \ V
    BY <1>5, <1>11 DEF CollectorInv, VictimsOK
  <2>2. \A i, j \in 1 .. n - 1 : i # j => stack'[i].victim \cap stack'[j].victim = {}
    BY <1>5, <1>11 DEF CollectorInv, VictimsOK
  <2> QED
    BY <1>1, <1>10, <2>1, <2>2 DEF VictimsOK
<1>16. /\ HeapOK'
       /\ live' \subseteq Obj /\ ref' \in [Obj -> SUBSET Obj]
       /\ globals' \subseteq Obj /\ src' \in [Thread -> SUBSET Obj]
  <2>1. /\ live' = live \ V /\ Top.ret \subseteq live
        /\ \A t \in Thread \ Exposed : held[t] \subseteq live
    BY <1>1, <1>2 DEF Destroyed, CollectorInv, HeapOK, NothingDangles
  <2>2. \A t \in Thread \ Exposed' : held'[t] \subseteq live'
    <3>1. T \notin Exposed
      BY <1>1, <1>2 DEF Exposed, CollectorInv, StackOK, T
    <3>2. ASSUME NEW i \in DOMAIN stack, stack[i].busy, ~stack[i].rooted
          PROVE  stack[i].thread \in Exposed'
      <4>1. i \in 1 .. n - 1
        BY <1>1, <1>2, <3>2
      <4>2. /\ i \in DOMAIN stack' /\ stack'[i].busy /\ ~stack'[i].rooted
            /\ stack'[i].thread = stack[i].thread
        BY <1>2, <1>8, <1>11, <3>2, <4>1
      <4> QED
        BY <4>2 DEF Exposed
    <3>3. Exposed \subseteq Exposed'
      <4> SUFFICES ASSUME NEW v \in Exposed PROVE v \in Exposed'
        OBVIOUS
      <4>1. PICK i \in DOMAIN stack : stack[i].thread = v /\ stack[i].busy /\ ~stack[i].rooted
        BY DEF Exposed
      <4> QED
        BY <3>2, <4>1
    <3> QED
      BY <1>4, <1>13, <2>1, <3>1, <3>3
  <2>3. ASSUME NEW t \in Thread, place'[t] = "free" PROVE held'[t] = {}
    <3>1. place[T] = "running"
      BY <1>2, <1>4 DEF CollectorInv, StackOK, T
    <3>2. t # T /\ held[t] = {}
      BY <1>1, <2>3, <3>1 DEF CollectorInv, HeapOK
    <3> QED
      BY <1>13, <3>2
  <2>4. \A i \in DOMAIN stack' : stack'[i].ret \subseteq live'
    BY <1>10, <1>11
  <2>5. \A k \in DOMAIN hostRoots' : hostRoots'[k].vals \subseteq live'
    BY <1>7, <1>9, <2>1 DEF CollectorInv, HeapOK
  <2> QED
    BY <1>1, <2>2, <2>3, <2>4, <2>5, DestroyedHeap
<1>17. TypeOK'
  BY <1>1, <1>8, <1>9, <1>13, <1>16 DEF CollectorInv, TypeOK, Call, Copy
<1> QED
  BY <1>12, <1>14, <1>15, <1>16, <1>17 DEF CollectorInv

(* The initializers of a run that saved no frames have returned: what its  *)
(* frames still name is in the heap again.                                 *)
LEMMA ResumeUnrootedInv ==
  ASSUME CollectorInv, ResumeUnrooted
  PROVE  CollectorInv'
<1> DEFINE n == Len(stack)
           T == Top.thread
<1>1. /\ stack # <<>> /\ Top.busy /\ ~Top.rooted
      /\ held' = [held EXCEPT ![T] = ((@ \cup Top.hand) \cap live) \cup Top.ret]
      /\ src' = [src EXCEPT ![T] = @ \cap live]
      /\ stack' = Append(Below, Run(T))
      /\ UNCHANGED <<heapVars, place, hostRoots, deleting>>
  BY DEF ResumeUnrooted
<1>2. /\ n \in Nat \ {0} /\ DOMAIN stack = 1 .. n /\ Top = stack[n] /\ n \in DOMAIN stack
      /\ Below \in Seq(Call) /\ Len(Below) = n - 1
      /\ \A i \in 1 .. n - 1 : Below[i] = stack[i]
  BY <1>1, TopAndBelow DEF CollectorInv
<1> HIDE DEF n
<1>3. /\ \A i \in DOMAIN stack : stack[i].thread \in Thread
      /\ T \in Thread /\ stack[n].thread = T
  BY <1>2, Entries DEF CollectorInv
<1>4. ASSUME NEW i \in 1 .. n - 1
      PROVE  /\ i \in DOMAIN stack /\ stack[i].busy
             /\ stack[i].ret = {} /\ stack[i].thread # T
  <2>1. i \in DOMAIN stack /\ i # n
    BY <1>2
  <2> QED
    BY <1>2, <1>3, <2>1 DEF CollectorInv, StackOK
<1> HIDE DEF T
<1>5. /\ stack' \in Seq(Call) /\ Len(stack') = n /\ DOMAIN stack' = 1 .. n
      /\ \A i \in 1 .. n - 1 : stack'[i] = stack[i]
      /\ stack'[n] = Run(T)
  <2>1. Run(T) \in Call
    BY <1>3, RunFacts
  <2>2. /\ stack' \in Seq(Call) /\ Len(stack') = n - 1 + 1
        /\ \A i \in 1 .. n - 1 : stack'[i] = Below[i]
        /\ stack'[n - 1 + 1] = Run(T)
    BY <1>1, <1>2, <2>1, AppendProperties
  <2>3. n - 1 + 1 = n
    BY <1>2
  <2> QED
    BY <1>2, <2>2, <2>3, LenProperties
<1>6. /\ stack'[n].thread = T /\ stack'[n].busy = FALSE /\ stack'[n].rooted = FALSE
      /\ stack'[n].ret = {} /\ stack'[n].victim = {}
      /\ DOMAIN stack' = DOMAIN stack
      /\ \A i \in DOMAIN stack : i = n \/ i \in 1 .. n - 1
  <2>1. /\ Run(T).thread = T /\ Run(T).busy = FALSE /\ Run(T).rooted = FALSE
        /\ Run(T).ret = {} /\ Run(T).victim = {}
    BY <1>3, RunFacts
  <2> QED
    BY <1>2, <1>5, <2>1
<1>7. /\ held' \in [Thread -> SUBSET Obj]
      /\ held'[T] = ((held[T] \cup Top.hand) \cap live) \cup Top.ret
      /\ \A t \in Thread : t # T => held'[t] = held[t]
      /\ src' \in [Thread -> SUBSET Obj]
  <2>1. Top.ret \subseteq Obj /\ Top.hand \subseteq Obj
    BY <1>2, Entries DEF CollectorInv
  <2> QED
    BY <1>1, <1>3, <2>1 DEF CollectorInv, TypeOK
<1>8. StackOK'
  <2>1. \A i \in DOMAIN stack' : stack'[i].thread = stack[i].thread
    BY <1>3, <1>5, <1>6
  <2>2. \A i, j \in DOMAIN stack' : stack'[i].thread = stack'[j].thread => i = j
    BY <1>6, <2>1 DEF CollectorInv, StackOK
  <2>3. \A v \in Thread : place'[v] = "running" <=> \E i \in DOMAIN stack' : stack'[i].thread = v
    <3>1. \A v \in Thread : place[v] = "running" <=> \E i \in DOMAIN stack : stack[i].thread = v
      BY DEF CollectorInv, StackOK
    <3>2. place' = place
      BY <1>1
    <3>3. DOMAIN stack' = DOMAIN stack
      BY <1>6
    <3> QED
      BY <2>1, <3>1, <3>2, <3>3
  <2>4. \A i \in DOMAIN stack' : ~stack'[i].busy => i = Len(stack') /\ ~stack'[i].rooted
    BY <1>4, <1>5, <1>6
  <2>5. \A i \in DOMAIN stack' : stack'[i].ret = {}
    BY <1>4, <1>5, <1>6
  <2> QED
    BY <2>2, <2>3, <2>4, <2>5 DEF StackOK
<1>9. RootsOK'
  <2>1. ASSUME NEW i \in DOMAIN stack, stack[i].rooted \/ stack'[i].rooted
        PROVE  /\ i \in DOMAIN stack' /\ stack'[i] = stack[i]
               /\ held'[stack[i].thread] = held[stack[i].thread]
    BY <1>1, <1>2, <1>3, <1>4, <1>5, <1>6, <1>7, <2>1
  <2>2. \A i \in DOMAIN stack' : stack'[i].rooted => i \in DOMAIN stack /\ stack[i].rooted
    BY <1>6, <2>1
  <2>3. hostRoots' = hostRoots
    BY <1>1
  <2>4. \A i \in DOMAIN stack' : stack'[i].rooted =>
          /\ stack'[i].root_len + 1 \in DOMAIN hostRoots'
          /\ hostRoots'[stack'[i].root_len + 1].by = "frames"
          /\ hostRoots'[stack'[i].root_len + 1].vals = held'[stack'[i].thread]
    BY <2>1, <2>2, <2>3 DEF CollectorInv, RootsOK
  <2>5. \A i, j \in DOMAIN stack' :
          stack'[i].rooted /\ stack'[j].rooted /\ i < j => stack'[i].root_len < stack'[j].root_len
    BY <2>1, <2>2 DEF CollectorInv, RootsOK
  <2>6. \A k \in DOMAIN hostRoots' : hostRoots'[k].by = "frames" =>
          \E i \in DOMAIN stack' : stack'[i].rooted /\ stack'[i].root_len + 1 = k
    BY <2>1, <2>3 DEF CollectorInv, RootsOK
  <2> QED
    BY <2>4, <2>5, <2>6 DEF RootsOK
<1>10. VictimsOK'
  <2>1. \A i \in DOMAIN stack' : i \in DOMAIN stack /\ stack'[i].victim \subseteq stack[i].victim
    BY <1>5, <1>6
  <2> QED
    BY <1>1, <2>1 DEF CollectorInv, VictimsOK
<1>11. Exposed \subseteq Exposed' \cup {T}
  <2>1. \A i \in DOMAIN stack : i = n \/ (i \in DOMAIN stack' /\ stack'[i] = stack[i])
    BY <1>5, <1>6
  <2> QED
    BY <1>3, <2>1 DEF Exposed
<1>12. HeapOK'
  <2>1. Top.ret \subseteq live
    BY <1>2 DEF CollectorInv, HeapOK, NothingDangles
  <2>2. \A t \in Thread \ Exposed' : held'[t] \subseteq live
    BY <1>7, <1>11, <2>1 DEF CollectorInv, HeapOK, NothingDangles
  <2>3. \A i \in DOMAIN stack' : stack'[i].ret = {}
    BY <1>4, <1>5, <1>6
  <2>4. place[T] = "running"
    BY <1>2, <1>3 DEF CollectorInv, StackOK
  <2>5. NothingDangles'
    BY <1>1, <2>2, <2>3 DEF CollectorInv, HeapOK, NothingDangles, heapVars
  <2> QED
    BY <1>1, <1>7, <2>4, <2>5 DEF CollectorInv, HeapOK, heapVars
<1>13. TypeOK'
  BY <1>1, <1>5, <1>7 DEF CollectorInv, TypeOK, Call, heapVars
<1> QED
  BY <1>8, <1>9, <1>10, <1>12, <1>13 DEF CollectorInv

(* del of an object that is already being deleted destroys it under the    *)
(* calls that wait.                                                        *)
LEMMA DestroyNowInv ==
  ASSUME CollectorInv, NEW t \in Thread, NEW o \in Obj, DestroyNow(t, o)
  PROVE  CollectorInv'
<1> DEFINE back(i) == [stack[i] EXCEPT !.hand = @ \ {o}, !.ret = @ \ {o}]
           cut(i) == [hostRoots[i] EXCEPT !.vals = @ \ {o}]
           S == {o}
<1>1. /\ Active(t) /\ Destroyed(S)
      /\ held' = [u \in Thread |-> held[u] \ {o}]
      /\ stack' = [i \in DOMAIN stack |-> back(i)]
      /\ hostRoots' = [i \in DOMAIN hostRoots |-> cut(i)]
      /\ UNCHANGED <<place, deleting>>
  BY DEF DestroyNow
<1>2. /\ DOMAIN stack = 1 .. Len(stack) /\ Len(stack) \in Nat
      /\ DOMAIN hostRoots = 1 .. Len(hostRoots) /\ Len(hostRoots) \in Nat
      /\ \A i \in DOMAIN stack : stack[i] \in Call /\ stack[i].thread \in Thread
      /\ \A k \in DOMAIN hostRoots : hostRoots[k] \in Copy
  BY Entries DEF CollectorInv
<1>3. ASSUME NEW i \in DOMAIN stack
      PROVE  /\ back(i) \in Call
             /\ back(i).thread = stack[i].thread /\ back(i).busy = stack[i].busy
             /\ back(i).rooted = stack[i].rooted
             /\ back(i).root_len = stack[i].root_len
             /\ back(i).ret = stack[i].ret \ {o} /\ back(i).victim = stack[i].victim
  <2>1. stack[i] \in Call
    BY <1>2
  <2> QED
    BY <2>1 DEF Call
<1>4. ASSUME NEW k \in DOMAIN hostRoots
      PROVE  /\ cut(k) \in Copy
             /\ cut(k).by = hostRoots[k].by /\ cut(k).vals = hostRoots[k].vals \ {o}
  <2>1. hostRoots[k] \in Copy
    BY <1>2
  <2> QED
    BY <2>1 DEF Copy
<1> HIDE DEF back, cut, S
<1>5. /\ stack' \in Seq(Call) /\ Len(stack') = Len(stack) /\ DOMAIN stack' = DOMAIN stack
      /\ \A i \in DOMAIN stack : stack'[i] = back(i)
  <2>1. stack' \in [1 .. Len(stack) -> Call]
    BY <1>1, <1>2, <1>3
  <2> QED
    BY <1>1, <1>2, <2>1, FunctionIsSeq
<1>6. /\ hostRoots' \in Seq(Copy) /\ DOMAIN hostRoots' = DOMAIN hostRoots
      /\ \A k \in DOMAIN hostRoots : hostRoots'[k] = cut(k)
  <2>1. hostRoots' \in [1 .. Len(hostRoots) -> Copy]
    BY <1>1, <1>2, <1>4
  <2> QED
    BY <1>1, <1>2, <2>1, FunctionIsSeq
<1>7. \A i \in DOMAIN stack :
        /\ stack'[i].thread = stack[i].thread /\ stack'[i].busy = stack[i].busy
        /\ stack'[i].rooted = stack[i].rooted
        /\ stack'[i].root_len = stack[i].root_len
        /\ stack'[i].ret = {} /\ stack'[i].victim = stack[i].victim
  BY <1>1, <1>3, <1>5, ActiveFacts
<1>8. StackOK' /\ VictimsOK'
  <2>1. place' = place /\ deleting' = deleting
    BY <1>1
  <2>2. StackOK'
    BY <1>5, <1>7, <2>1 DEF CollectorInv, StackOK
  <2>3. VictimsOK'
    BY <1>5, <1>7, <2>1 DEF CollectorInv, VictimsOK
  <2> QED
    BY <2>2, <2>3
<1>9. held' \in [Thread -> SUBSET Obj] /\ \A u \in Thread : held'[u] = held[u] \ {o}
  BY <1>1 DEF CollectorInv, TypeOK
<1>10. RootsOK'
  <2>1. ASSUME NEW i \in DOMAIN stack', stack'[i].rooted
        PROVE  /\ stack'[i].root_len + 1 \in DOMAIN hostRoots'
               /\ hostRoots'[stack'[i].root_len + 1].by = "frames"
               /\ hostRoots'[stack'[i].root_len + 1].vals = held'[stack'[i].thread]
    <3> DEFINE k == stack[i].root_len + 1
    <3>1. i \in DOMAIN stack /\ stack[i].rooted /\ stack[i].thread \in Thread
      BY <1>2, <1>5, <1>7, <2>1
    <3>2. /\ k \in DOMAIN hostRoots /\ hostRoots[k].by = "frames"
          /\ hostRoots[k].vals = held[stack[i].thread]
      BY <3>1 DEF CollectorInv, RootsOK
    <3> HIDE DEF k
    <3>3. hostRoots'[k].by = "frames" /\ hostRoots'[k].vals = held[stack[i].thread] \ {o}
      BY <1>4, <1>6, <3>2
    <3> QED
      BY <1>6, <1>7, <1>9, <3>1, <3>2, <3>3 DEF k
  <2>2. \A i, j \in DOMAIN stack' :
          stack'[i].rooted /\ stack'[j].rooted /\ i < j => stack'[i].root_len < stack'[j].root_len
    BY <1>5, <1>7 DEF CollectorInv, RootsOK
  <2>3. \A k \in DOMAIN hostRoots' : hostRoots'[k].by = "frames" =>
          \E i \in DOMAIN stack' : stack'[i].rooted /\ stack'[i].root_len + 1 = k
    BY <1>4, <1>5, <1>6, <1>7 DEF CollectorInv, RootsOK
  <2> QED
    BY <2>1, <2>2, <2>3 DEF RootsOK
<1>11. /\ HeapOK'
       /\ live' \subseteq Obj /\ ref' \in [Obj -> SUBSET Obj]
       /\ globals' \subseteq Obj /\ src' \in [Thread -> SUBSET Obj]
  <2>1. live' = live \ {o}
    BY <1>1 DEF Destroyed, S
  <2>2. \A u \in Thread \ Exposed' : held'[u] \subseteq live'
    <3>1. Exposed \subseteq Exposed'
      BY <1>5, <1>7 DEF Exposed
    <3> QED
      BY <1>9, <2>1, <3>1 DEF CollectorInv, HeapOK, NothingDangles
  <2>3. \A u \in Thread : place'[u] = "free" => held'[u] = {}
    BY <1>1, <1>9 DEF CollectorInv, HeapOK
  <2>4. \A i \in DOMAIN stack' : stack'[i].ret \subseteq live'
    BY <1>5, <1>7
  <2>5. \A k \in DOMAIN hostRoots' : hostRoots'[k].vals \subseteq live'
    BY <1>4, <1>6, <2>1 DEF CollectorInv, HeapOK
  <2> QED
    BY <1>1, <2>2, <2>3, <2>4, <2>5, DestroyedHeap
<1>12. TypeOK'
  BY <1>1, <1>5, <1>6, <1>9, <1>11 DEF CollectorInv, TypeOK, Call, Copy
<1> QED
  BY <1>8, <1>10, <1>11, <1>12 DEF CollectorInv

(* A run that completes leaves its value in host_value_roots, above the    *)
(* copies of the calls that wait.                                          *)
LEMMA CompleteInv ==
  ASSUME CollectorInv, NEW t \in Thread, NEW value \in SUBSET Obj, Complete(t, value)
  PROVE  CollectorInv'
<1> DEFINE n == Len(stack)
           m == Len(hostRoots)
           copy == [by |-> "result", vals |-> value]
           taken == [stack[n - 1] EXCEPT !.ret = value]
<1>1. /\ Active(t) /\ value \in {{}} \cup {{o} : o \in held[t]}
      /\ hostRoots' = Append(hostRoots, copy)
      /\ place' = [place EXCEPT ![t] = "free"]
      /\ held' = [held EXCEPT ![t] = {}]
      /\ src' = [src EXCEPT ![t] = {}]
      /\ stack' = IF n = 1 THEN <<>> ELSE [Below EXCEPT ![n - 1].ret = value]
      /\ UNCHANGED <<heapVars, deleting>>
  BY DEF Complete
<1>2. /\ stack # <<>> /\ stack[n].thread = t
      /\ place[t] = "running"
      /\ \A i \in DOMAIN stack : stack[i].ret = {}
      /\ \A i \in DOMAIN stack : stack[i].busy <=> i # n
      /\ \A i \in DOMAIN stack : stack[i].rooted => i # n
      /\ t \notin Exposed
  BY <1>1, ActiveFacts DEF Top
<1>3. /\ n \in Nat \ {0} /\ DOMAIN stack = 1 .. n /\ n \in DOMAIN stack
      /\ Below \in Seq(Call) /\ Len(Below) = n - 1 /\ DOMAIN Below = 1 .. n - 1
      /\ \A i \in 1 .. n - 1 : Below[i] = stack[i]
  BY <1>2, TopAndBelow DEF CollectorInv
<1>4. /\ m \in Nat /\ hostRoots \in Seq(Copy) /\ DOMAIN hostRoots = 1 .. m
      /\ \A i \in DOMAIN stack :
           stack[i] \in Call /\ stack[i].thread \in Thread /\ stack[i].root_len \in Nat
  BY Entries DEF CollectorInv
<1>5. copy \in Copy /\ copy.by = "result" /\ copy.vals = value
  BY DEF Copy
<1> HIDE DEF n, m, copy
<1>6. /\ hostRoots' \in Seq(Copy) /\ DOMAIN hostRoots' = 1 .. m + 1
      /\ \A k \in 1 .. m : hostRoots'[k] = hostRoots[k]
      /\ hostRoots'[m + 1] = copy
  BY <1>1, <1>4, <1>5, AppendProperties, LenProperties DEF m
<1>7. \A i \in 1 .. n - 1 : i \in DOMAIN stack /\ i # n /\ stack[i].busy
  BY <1>2, <1>3
<1>8. /\ stack' \in Seq(Call) /\ Len(stack') = n - 1 /\ DOMAIN stack' = 1 .. n - 1
      /\ \A i \in 1 .. n - 1 : stack'[i] = IF i = n - 1 THEN taken ELSE stack[i]
  <2>1. CASE n = 1
    <3>1. stack' = <<>> /\ 1 .. n - 1 = {}
      BY <1>1, <2>1
    <3> QED
      BY <2>1, <3>1
  <2>2. CASE n # 1
    <3>1. n - 1 \in 1 .. Len(Below) /\ n - 1 \in DOMAIN Below /\ n - 1 \in DOMAIN stack
      BY <1>3, <2>2
    <3>2. Below[n - 1] = stack[n - 1]
      BY <1>3, <3>1
    <3>3. taken \in Call
      <4>1. stack[n - 1] \in Call
        BY <1>4, <3>1
      <4> QED
        BY <4>1 DEF Call
    <3>4. stack' = [Below EXCEPT ![n - 1] = taken]
      BY <1>1, <2>2, <3>1, <3>2
    <3> HIDE DEF taken
    <3>5. /\ stack' \in Seq(Call) /\ Len(stack') = Len(Below)
          /\ \A j \in 1 .. Len(Below) : stack'[j] = IF j = n - 1 THEN taken ELSE Below[j]
      BY <1>3, <3>1, <3>3, <3>4, ExceptSeq
    <3> QED
      BY <1>3, <3>5, LenProperties
  <2> QED
    BY <2>1, <2>2
<1>9. ASSUME NEW i \in 1 .. n - 1
      PROVE  /\ stack'[i].thread = stack[i].thread /\ stack'[i].busy = stack[i].busy
             /\ stack'[i].rooted = stack[i].rooted
             /\ stack'[i].root_len = stack[i].root_len
             /\ stack'[i].victim = stack[i].victim
             /\ stack'[i].ret = IF i = n - 1 THEN value ELSE {}
  <2>1. i \in DOMAIN stack /\ stack[i] \in Call /\ stack[i].ret = {}
    BY <1>2, <1>4, <1>7
  <2>2. CASE i = n - 1
    <3>1. stack'[i] = [stack[i] EXCEPT !.ret = value]
      BY <1>8, <2>2
    <3> QED
      BY <2>1, <2>2, <3>1 DEF Call
  <2>3. CASE i # n - 1
    BY <1>8, <2>1, <2>3
  <2> QED
    BY <2>2, <2>3
<1> HIDE DEF taken
<1>10. /\ place' \in [Thread -> Places] /\ place'[t] = "free"
       /\ \A v \in Thread : v # t => place'[v] = place[v]
       /\ held' \in [Thread -> SUBSET Obj] /\ held'[t] = {}
       /\ \A v \in Thread : v # t => held'[v] = held[v]
       /\ src' \in [Thread -> SUBSET Obj]
  BY <1>1 DEF CollectorInv, TypeOK, Places
<1>11. \A i \in 1 .. n - 1 : stack[i].thread # t
  BY <1>2, <1>3, <1>7 DEF CollectorInv, StackOK
<1>12. \A i \in DOMAIN stack : i = n \/ i \in 1 .. n - 1
  BY <1>3
<1>13. StackOK'
  <2>1. \A i, j \in DOMAIN stack' : stack'[i].thread = stack'[j].thread => i = j
    BY <1>7, <1>8, <1>9 DEF CollectorInv, StackOK
  <2>2. \A i \in DOMAIN stack' : stack'[i].busy
    BY <1>7, <1>8, <1>9
  <2>3. \A i \in DOMAIN stack' : stack'[i].ret # {} => i = Len(stack')
    BY <1>8, <1>9
  <2>4. ASSUME NEW v \in Thread
        PROVE  place'[v] = "running" <=> \E i \in DOMAIN stack' : stack'[i].thread = v
    <3>1. CASE v = t
      BY <1>8, <1>9, <1>10, <1>11, <3>1
    <3>2. CASE v # t
      <4>1. place[v] = "running" <=> \E i \in DOMAIN stack : stack[i].thread = v
        BY DEF CollectorInv, StackOK
      <4>2. (\E i \in DOMAIN stack : stack[i].thread = v)
              <=> (\E i \in DOMAIN stack' : stack'[i].thread = v)
        BY <1>2, <1>7, <1>8, <1>9, <1>12, <3>2
      <4> QED
        BY <1>10, <3>2, <4>1, <4>2
    <3> QED
      BY <3>1, <3>2
  <2> QED
    BY <2>1, <2>2, <2>3, <2>4 DEF StackOK
<1>14. RootsOK'
  <2>1. ASSUME NEW i \in DOMAIN stack', stack'[i].rooted
        PROVE  /\ stack'[i].root_len + 1 \in DOMAIN hostRoots'
               /\ hostRoots'[stack'[i].root_len + 1].by = "frames"
               /\ hostRoots'[stack'[i].root_len + 1].vals = held'[stack'[i].thread]
    <3> DEFINE k == stack[i].root_len + 1
    <3>1. i \in 1 .. n - 1 /\ i \in DOMAIN stack /\ stack[i].rooted /\ stack[i].thread # t
          /\ stack[i].thread \in Thread
      BY <1>4, <1>7, <1>8, <1>9, <1>11, <2>1
    <3>2. /\ k \in 1 .. m /\ hostRoots[k].by = "frames"
          /\ hostRoots[k].vals = held[stack[i].thread]
      BY <1>4, <3>1 DEF CollectorInv, RootsOK
    <3> HIDE DEF k
    <3>3. hostRoots'[k] = hostRoots[k] /\ k \in DOMAIN hostRoots'
      BY <1>4, <1>6, <3>2
    <3> QED
      BY <1>9, <1>10, <3>1, <3>2, <3>3 DEF k
  <2>2. \A i, j \in DOMAIN stack' :
          stack'[i].rooted /\ stack'[j].rooted /\ i < j => stack'[i].root_len < stack'[j].root_len
    BY <1>7, <1>8, <1>9 DEF CollectorInv, RootsOK
  <2>3. ASSUME NEW k \in DOMAIN hostRoots', hostRoots'[k].by = "frames"
        PROVE  \E i \in DOMAIN stack' : stack'[i].rooted /\ stack'[i].root_len + 1 = k
    <3>1. k \in 1 .. m
      BY <1>4, <1>5, <1>6, <2>3
    <3>2. PICK i \in DOMAIN stack : stack[i].rooted /\ stack[i].root_len + 1 = k
      BY <1>4, <1>6, <2>3, <3>1 DEF CollectorInv, RootsOK
    <3>3. i \in 1 .. n - 1
      BY <1>2, <1>12, <3>2
    <3> QED
      BY <1>8, <1>9, <3>2, <3>3
  <2> QED
    BY <2>1, <2>2, <2>3 DEF RootsOK
<1>15. VictimsOK'
  <2>1. \A i \in DOMAIN stack' : i \in DOMAIN stack /\ stack'[i].victim = stack[i].victim
    BY <1>7, <1>8, <1>9
  <2> QED
    BY <1>1, <2>1 DEF CollectorInv, VictimsOK
<1>16. value \subseteq live
  BY <1>1, <1>2 DEF CollectorInv, HeapOK, NothingDangles
<1>17. HeapOK'
  <2>1. \A v \in Thread : held'[v] \subseteq held[v]
    BY <1>10
  <2>2. \A i \in DOMAIN stack' : stack'[i].ret \subseteq live
    BY <1>8, <1>9, <1>16
  <2>3. NothingDangles'
    <3>1. Exposed \subseteq Exposed'
      <4>1. ASSUME NEW i \in DOMAIN stack, stack[i].busy, ~stack[i].rooted
            PROVE  stack[i].thread \in Exposed'
        <5>1. i \in 1 .. n - 1
          BY <1>2, <1>12, <4>1
        <5> QED
          BY <1>8, <1>9, <4>1, <5>1 DEF Exposed
      <4> QED
        BY <4>1 DEF Exposed
    <3> QED
      BY <1>1, <2>1, <2>2, <3>1 DEF CollectorInv, HeapOK, NothingDangles, heapVars
  <2>4. \A k \in DOMAIN hostRoots' : hostRoots'[k].vals \subseteq live
    BY <1>4, <1>5, <1>6, <1>16 DEF CollectorInv, HeapOK
  <2>5. \A v \in Thread : place'[v] = "free" => held'[v] = {}
    BY <1>10 DEF CollectorInv, HeapOK
  <2> QED
    BY <1>1, <2>3, <2>4, <2>5 DEF CollectorInv, HeapOK, heapVars
<1>18. TypeOK'
  BY <1>1, <1>6, <1>8, <1>10 DEF CollectorInv, TypeOK, Call, Copy, heapVars
<1> QED
  BY <1>13, <1>14, <1>15, <1>17, <1>18 DEF CollectorInv
-----------------------------------------------------------------------------
(* The invariant and the properties.                                       *)

LEMMA CollectorInit == Init => CollectorInv
<1> SUFFICES ASSUME Init PROVE CollectorInv
  OBVIOUS
<1>1. /\ live = {} /\ globals = {} /\ deleting = {}
      /\ ref = [o \in Obj |-> {}]
      /\ place = [t \in Thread |-> "free"]
      /\ held = [t \in Thread |-> {}]
      /\ src = [t \in Thread |-> {}]
      /\ stack = <<>> /\ hostRoots = <<>>
  BY DEF Init
<1>2. DOMAIN stack = {} /\ DOMAIN hostRoots = {}
      /\ stack \in Seq(Call) /\ hostRoots \in Seq(Copy)
  BY <1>1
<1>3. TypeOK
  BY <1>1, <1>2 DEF TypeOK, Places, Call, Copy
<1>4. StackOK /\ RootsOK /\ VictimsOK
  BY <1>1, <1>2 DEF StackOK, RootsOK, VictimsOK
<1>5. HeapOK
  BY <1>1, <1>2 DEF HeapOK, NothingDangles
<1> QED
  BY <1>3, <1>4, <1>5 DEF CollectorInv

LEMMA CollectorStutter == CollectorInv /\ UNCHANGED vars => CollectorInv'
<1> SUFFICES ASSUME CollectorInv, UNCHANGED vars PROVE CollectorInv'
  OBVIOUS
<1>1. StackOK' /\ RootsOK' /\ VictimsOK'
  BY StackUnchanged DEF vars
<1>2. TypeOK' /\ HeapOK'
  BY DEF CollectorInv, TypeOK, HeapOK, NothingDangles, Exposed, vars
<1> QED
  BY <1>1, <1>2 DEF CollectorInv

(* Every step keeps the invariant.                                         *)
LEMMA CollectorNext == CollectorInv /\ [Next]_vars => CollectorInv'
<1> SUFFICES ASSUME CollectorInv, Next PROVE CollectorInv'
  BY CollectorStutter
<1>1. CASE \E t \in Thread, o \in Obj :
             Load(t, o) \/ Drop(t, o) \/ Allocate(t, o) \/ DestroyNow(t, o)
  BY <1>1, LoadInv, DropInv, AllocateInv, DestroyNowInv
<1>2. CASE \E t \in Thread, x, y \in Obj : Store(t, x, y) \/ Erase(t, x, y)
  BY <1>2, FieldsInv
<1>3. CASE \E t \in Thread, S \in SUBSET Obj : SetGlobal(t, S) \/ HostCall(t, S)
  BY <1>3, SetGlobalInv, HostCallInv
<1>4. CASE \E t, u \in Thread, S \in SUBSET Obj, d \in Obj :
             EnterNew(t, u, S, d) \/ EnterUnrooted(t, u, S, d)
  BY <1>4, EnterNewInv, EnterUnrootedInv
<1>5. CASE \E t, u \in Thread, o \in Obj : EnterDel(t, u, o)
  BY <1>5, EnterDelInv
<1>6. CASE \E t, u \in Thread : EnterSpawn(t, u)
  BY <1>6, EnterSpawnInv
<1>7. CASE \E t, u \in Thread, S \in SUBSET Obj : Detach(t, u, S)
  BY <1>7, DetachInv
<1>8. CASE \E t \in Thread, S \in SUBSET Obj : Complete(t, S)
  BY <1>8, CompleteInv
<1>9. CASE \E t \in Thread : Suspend(t) \/ Ask(t) \/ RunDue(t) \/ Answer(t)
  BY <1>9, SuspendInv, AskInv, RunDueInv, QueuesInv
<1>10. CASE \E due \in SUBSET Thread : TakeDue(due)
  BY <1>10, QueuesInv
<1>11. CASE Resume \/ ResumeUnrooted \/ GiveBack \/ CompactQuiescent \/ ReleaseHostRoots
  BY <1>11, ResumeInv, ResumeUnrootedInv, QueuesInv, CompactInv, ReleaseInv
<1> QED
  BY <1>1, <1>2, <1>3, <1>4, <1>5, <1>6, <1>7, <1>8, <1>9, <1>10, <1>11 DEF Next

(* In every reachable state the inductive invariant holds.                 *)
THEOREM Invariant == Spec => []CollectorInv
BY CollectorInit, CollectorNext, PTL DEF Spec

(* The native stack, host_value_roots and the queues have their types.     *)
THEOREM TypeCorrect == Spec => []TypeOK
<1>1. CollectorInv => TypeOK
  BY DEF CollectorInv
<1> QED
  BY <1>1, Invariant, PTL

(* No collection takes an object that a live object, a global, a returned  *)
(* value or a frame refers to, except for the frames below a re-entry that *)
(* saves none: preserve_reentrant_frame_roots covers the others, however   *)
(* deeply calls re-enter the VM and wherever the other continuations wait. *)
THEOREM NothingDanglesHolds == Spec => []NothingDangles
<1>1. CollectorInv => NothingDangles
  BY DEF CollectorInv, HeapOK
<1> QED
  BY <1>1, Invariant, PTL

(* The copies of frames in host_value_roots correspond one to one to the   *)
(* waiting calls that saved them: host_value_roots.truncate(root_len)      *)
(* never cuts off another call's copy and leaves none behind.              *)
LEMMA CopiesMatchCalls == CollectorInv => RootsBalanced
<1> SUFFICES ASSUME CollectorInv PROVE RootsBalanced
  OBVIOUS
<1> DEFINE B == {i \in DOMAIN stack : stack[i].busy /\ stack[i].rooted}
           F == {k \in DOMAIN hostRoots : hostRoots[k].by = "frames"}
           f == [i \in B |-> stack[i].root_len + 1]
<1>1. /\ DOMAIN stack = 1 .. Len(stack) /\ Len(stack) \in Nat
      /\ \A i \in DOMAIN stack : stack[i].root_len \in Nat /\ stack[i].thread \in Thread
      /\ \A k \in DOMAIN hostRoots : hostRoots[k] \in Copy
  BY Entries DEF CollectorInv
<1>2. ASSUME NEW i \in DOMAIN stack, stack[i].rooted
      PROVE  /\ stack[i].busy /\ stack[i].root_len + 1 \in DOMAIN hostRoots
             /\ hostRoots[stack[i].root_len + 1] =
                   [by |-> "frames", vals |-> held[stack[i].thread]]
  <2> DEFINE k == stack[i].root_len + 1
  <2>1. /\ k \in DOMAIN hostRoots /\ hostRoots[k].by = "frames"
        /\ hostRoots[k].vals = held[stack[i].thread]
    BY <1>2 DEF CollectorInv, RootsOK
  <2>2. hostRoots[k] \in Copy
    BY <1>1, <2>1
  <2> HIDE DEF k
  <2>3. hostRoots[k] = [by |-> "frames", vals |-> held[stack[i].thread]]
    BY <2>1, <2>2 DEF Copy
  <2>4. stack[i].busy
    BY <1>2 DEF CollectorInv, StackOK
  <2> QED
    BY <2>1, <2>3, <2>4 DEF k
<1>3. f \in [B -> F]
  BY <1>2 DEF CollectorInv, RootsOK
<1>4. \A i, j \in B : f[i] = f[j] => i = j
  <2> SUFFICES ASSUME NEW i \in B, NEW j \in B, f[i] = f[j], i # j PROVE FALSE
    OBVIOUS
  <2>1. stack[i].root_len = stack[j].root_len
    BY <1>1
  <2>2. i < j \/ j < i
    BY <1>1
  <2> QED
    BY <1>1, <2>1, <2>2 DEF CollectorInv, RootsOK
<1>5. \A k \in F : \E i \in B : f[i] = k
  BY <1>2 DEF CollectorInv, RootsOK
<1> HIDE DEF f
<1>6. f \in Bijection(B, F)
  <2> HIDE DEF B, F
  <2> QED
    BY <1>3, <1>4, <1>5, Fun_IsBij
<1>7. ExistsBijection(B, F)
  BY <1>6 DEF ExistsBijection
<1>8. IsFiniteSet(B)
  <2>1. IsFiniteSet(1 .. Len(stack))
    BY <1>1, FS_Interval
  <2>2. B \subseteq 1 .. Len(stack)
    BY <1>1
  <2> QED
    BY <2>1, <2>2, FS_Subset
<1>9. Cardinality(F) = Cardinality(B)
  BY <1>7, <1>8, FS_Bijection
<1> QED
  BY <1>2, <1>9 DEF RootsBalanced

(* Every waiting call that saved its frames has them in host_value_roots   *)
(* where it will cut them off, and no copy outlives its call; a re-entry   *)
(* that saves none changes nothing in this.                                *)
THEOREM RootsBalancedHolds == Spec => []RootsBalanced
BY CopiesMatchCalls, Invariant, PTL

(* What leaves the heap was unreachable for DM code, but for its exposed   *)
(* frames, or is being deleted by it, in every step.                       *)
LEMMA TransparentStep ==
  CollectorInv /\ [Next]_vars =>
    [(live \ live') \cap Reach(globals \cup UNION {held[t] : t \in Thread \ Exposed})
        \subseteq deleting]_vars
<1> SUFFICES ASSUME CollectorInv, Next
             PROVE  (live \ live') \cap Reach(globals \cup UNION {held[t] : t \in Thread \ Exposed})
                      \subseteq deleting
  OBVIOUS
<1>1. ASSUME NEW t \in Thread, Suspend(t)
      PROVE  (live \ live') \cap Reach(globals \cup UNION {held[u] : u \in Thread \ Exposed})
               \subseteq deleting
  <2>1. Active(t) /\ Collect(held[t])
    BY <1>1 DEF Suspend
  <2>2. CASE live' = live
    BY <2>2
  <2>3. CASE live' # live
    <3>1. live' = Reach(Roots(held[t]))
      BY <2>1, <2>3 DEF Collect
    <3> QED
      BY <2>1, <3>1, ActiveIsGiven, CollectTransparent
  <2> QED
    BY <2>2, <2>3
<1>2. ASSUME CompactQuiescent
      PROVE  (live \ live') \cap Reach(globals \cup UNION {held[t] : t \in Thread \ Exposed})
               \subseteq deleting
  <2>1. DOMAIN stack = {} /\ live' = Reach(Roots({}))
    BY <1>2 DEF CompactQuiescent, Quiet, Idle
  <2> QED
    BY <2>1, CollectTransparent
<1>3. ASSUME Resume PROVE live \ live' \subseteq deleting
  <2>1. live' = live \ Top.victim /\ stack # <<>>
    BY <1>3 DEF Resume, Destroyed
  <2>2. Len(stack) \in DOMAIN stack /\ Top = stack[Len(stack)]
    BY <2>1, TopAndBelow DEF CollectorInv
  <2> QED
    BY <2>1, <2>2 DEF CollectorInv, VictimsOK
<1>4. ASSUME NEW t \in Thread, NEW o \in Obj, DestroyNow(t, o)
      PROVE  live \ live' \subseteq deleting
  BY <1>4 DEF DestroyNow, Destroyed
<1>5. ASSUME \E t, u \in Thread, S \in SUBSET Obj, d \in Obj :
               EnterNew(t, u, S, d) \/ EnterUnrooted(t, u, S, d)
      PROVE  live \subseteq live'
  <2>1. PICK t, u \in Thread, S \in SUBSET Obj, d \in Obj :
          EnterNew(t, u, S, d) \/ EnterUnrooted(t, u, S, d)
    BY <1>5
  <2>2. Initialize(t, u, S, d)
    BY <2>1 DEF EnterNew, EnterUnrooted
  <2> QED
    BY <2>2 DEF Initialize
<1>6. ASSUME ResumeUnrooted PROVE live' = live
  BY <1>6 DEF ResumeUnrooted, heapVars
<1>7. \/ \E t \in Thread : Suspend(t)
      \/ CompactQuiescent \/ Resume \/ ResumeUnrooted
      \/ \E t \in Thread, o \in Obj : DestroyNow(t, o)
      \/ \E t, u \in Thread, S \in SUBSET Obj, d \in Obj :
           EnterNew(t, u, S, d) \/ EnterUnrooted(t, u, S, d)
      \/ live \subseteq live'
  BY DEF Next, Load, Drop, Allocate, Store, Erase, SetGlobal, HostCall,
         EnterDel, EnterSpawn, Detach, Complete, Ask, RunDue, Answer, TakeDue,
         GiveBack, ReleaseHostRoots, heapVars
<1> QED
  BY <1>1, <1>2, <1>3, <1>4, <1>5, <1>6, <1>7

(* A collection cannot be observed by DM code: what it takes is not        *)
(* reachable from any global or any frame, except from a frame below a     *)
(* re-entry that saves none.                                               *)
THEOREM CollectionTransparentHolds == Spec => CollectionTransparent
BY TransparentStep, Invariant, PTL DEF Spec, CollectionTransparent
=============================================================================
