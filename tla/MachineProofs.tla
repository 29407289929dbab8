---------------------------- MODULE MachineProofs -----------------------------
(***************************************************************************)
(* Proofs about the bytecode interpreter on verified code, for any module,  *)
(* any answers of the native operations and any depth of calls.             *)
(***************************************************************************)
EXTENDS Machine, SequenceTheorems, WellFoundedInduction, TLAPS

-----------------------------------------------------------------------------
(* Sequences whose elements have no type.                                  *)

IsSeq(s) == Len(s) \in Nat /\ s = [n \in 1 .. Len(s) |-> s[n]]

LEMMA SeqTyped == ASSUME NEW S, NEW s \in Seq(S) PROVE IsSeq(s)
  BY DEF IsSeq

(* Anything can be appended.                                               *)
LEMMA SeqAppend ==
  ASSUME NEW s, IsSeq(s), NEW v
  PROVE  /\ IsSeq(Append(s, v)) /\ Len(Append(s, v)) = Len(s) + 1
         /\ \A n \in 1 .. Len(s) : Append(s, v)[n] = s[n]
         /\ Append(s, v)[Len(s) + 1] = v
<1> DEFINE S == {s[n] : n \in 1 .. Len(s)} \cup {v}
<1>1. s \in Seq(S)
  BY DEF IsSeq
<1> HIDE DEF S
<1>2. v \in S
  BY DEF S
<1>3. /\ Append(s, v) \in Seq(S) /\ Len(Append(s, v)) = Len(s) + 1
      /\ \A n \in 1 .. Len(s) : Append(s, v)[n] = s[n]
      /\ Append(s, v)[Len(s) + 1] = v
  BY <1>1, <1>2, AppendProperties
<1> QED
  BY <1>3, SeqTyped

(* A prefix is kept.                                                       *)
LEMMA SeqPrefix ==
  ASSUME NEW s, IsSeq(s), NEW n \in 0 .. Len(s)
  PROVE  /\ IsSeq(SubSeq(s, 1, n)) /\ Len(SubSeq(s, 1, n)) = n
         /\ \A k \in 1 .. n : SubSeq(s, 1, n)[k] = s[k]
<1> DEFINE S == {s[k] : k \in 1 .. Len(s)}
<1>1. s \in Seq(S)
  BY DEF IsSeq
<1> HIDE DEF S
<1>2. Len(s) \in Nat
  BY <1>1
<1>3. SubSeq(s, 1, n) \in Seq(S) /\ Len(SubSeq(s, 1, n)) = n
  BY <1>1, <1>2, SubSeqProperties
<1> QED
  BY <1>1, <1>2, <1>3 DEF IsSeq

(* One element is replaced.                                                *)
LEMMA SeqReplace ==
  ASSUME NEW s, IsSeq(s), NEW i \in 1 .. Len(s), NEW v
  PROVE  /\ IsSeq([s EXCEPT ![i] = v]) /\ Len([s EXCEPT ![i] = v]) = Len(s)
         /\ \A n \in 1 .. Len(s) : [s EXCEPT ![i] = v][n] = IF n = i THEN v ELSE s[n]
<1> DEFINE S == {s[n] : n \in 1 .. Len(s)} \cup {v}
<1>1. s \in Seq(S)
  BY DEF IsSeq
<1> HIDE DEF S
<1>2. v \in S
  BY DEF S
<1>3. /\ [s EXCEPT ![i] = v] \in Seq(S) /\ Len([s EXCEPT ![i] = v]) = Len(s)
      /\ \A n \in 1 .. Len(s) : [s EXCEPT ![i] = v][n] = IF n = i THEN v ELSE s[n]
  BY <1>1, <1>2, ExceptSeq
<1> QED
  BY <1>3, SeqTyped

(* The first element goes.                                                 *)
LEMMA SeqTail ==
  ASSUME NEW s, IsSeq(s), s # << >>
  PROVE  /\ IsSeq(Tail(s)) /\ Len(Tail(s)) = Len(s) - 1 /\ Len(s) >= 1
         /\ Head(s) = s[1] /\ \A n \in 1 .. Len(s) - 1 : Tail(s)[n] = s[n + 1]
<1> DEFINE S == {s[n] : n \in 1 .. Len(s)}
<1>1. s \in Seq(S)
  BY DEF IsSeq
<1> HIDE DEF S
<1>2. /\ Tail(s) \in Seq(S) /\ Len(Tail(s)) = Len(s) - 1
      /\ \A n \in 1 .. Len(Tail(s)) : Tail(s)[n] = s[n + 1]
  BY <1>1, HeadTailProperties
<1>3. Head(s) = s[1] /\ Len(s) >= 1
  BY <1>1
<1> QED
  BY <1>2, <1>3, SeqTyped

LEMMA SeqSmall ==
  /\ IsSeq(<< >>) /\ Len(<< >>) = 0
  /\ \A v : IsSeq(<<v>>) /\ Len(<<v>>) = 1 /\ <<v>>[1] = v
  /\ \A s : IsSeq(s) /\ Len(s) = 0 => s = << >>
<1>1. ASSUME NEW v PROVE IsSeq(<<v>>) /\ Len(<<v>>) = 1 /\ <<v>>[1] = v
  BY DEF IsSeq
<1>2. ASSUME NEW s, IsSeq(s), Len(s) = 0 PROVE s = << >>
  BY <1>2 DEF IsSeq
<1> QED
  BY <1>1, <1>2 DEF IsSeq

LEMMA SeqDomain == ASSUME NEW s, IsSeq(s) PROVE DOMAIN s = 1 .. Len(s) /\ Len(s) \in Nat
  BY DEF IsSeq

(* A non-empty set of natural numbers with an upper bound has a greatest.  *)
LEMMA Greatest ==
  ASSUME NEW N \in Nat, NEW S \in SUBSET (1 .. N), S # {}
  PROVE  \E x \in S : \A y \in S : y <= x
<1> DEFINE T == {N - x : x \in S}
           R == {ss \in Nat \X Nat : ss[1] < ss[2]}
<1>1. T \in SUBSET Nat /\ T # {}
  <2>1. \A x \in S : x \in 1 .. N /\ N - x \in Nat
    OBVIOUS
  <2>2. PICK x \in S : TRUE
    OBVIOUS
  <2> QED
    BY <2>1, <2>2
<1>2. IsWellFoundedOn(R, Nat)
  BY NatLessThanWellFounded, Zenon DEF OpToRel
<1> HIDE DEF R, T
<1>3. PICK x \in T : \A y \in T : <<y, x>> \notin R
  BY <1>1, <1>2, WFMin, Zenon
<1>4. PICK g \in S : x = N - g
  BY <1>3 DEF T
<1>5. ASSUME NEW y \in S PROVE y <= g
  <2>1. <<N - y, x>> \notin R
    BY <1>3, <1>5 DEF T
  <2> QED
    BY <1>4, <1>5, <2>1 DEF R
<1> QED
  BY <1>5

-----------------------------------------------------------------------------
(* The inductive invariant.  depths gives, for every procedure, the operands *)
(* on the stack before each of its instructions that can be reached.         *)

IsFrame(f) ==
  f = [proc |-> f.proc, pc |-> f.pc, stack |-> f.stack, dot |-> f.dot,
       handlers |-> f.handlers, locals |-> f.locals, supplied |-> f.supplied]

(* Every handler was installed by a try that was reached.                  *)
FromTries(hs, code, depth) ==
  /\ IsSeq(hs)
  /\ \A n \in DOMAIN hs : \E b \in DOMAIN depth :
       /\ code[b].op = "BeginTry"
       /\ hs[n] = [start |-> b + 1, end |-> code[b].end, catch |-> code[b].catch,
                   slot |-> code[b].slot, depth |-> 0]

(* Each of the tries has a handler after which there is none of a try      *)
(* around it: what a jump left behind may come last, but shadows nothing.  *)
InForce(hs, tries) ==
  \A b \in tries : \E i \in DOMAIN hs :
    /\ hs[i].start = b + 1
    /\ \A j \in DOMAIN hs : j > i /\ hs[j].start - 1 \in tries => hs[j].start >= b + 1

FrameOK(f, m, depths) ==
  /\ IsFrame(f)
  /\ f.proc \in DOMAIN m /\ f.pc \in DOMAIN depths[f.proc]
  /\ IsSeq(f.stack)
  /\ FromTries(f.handlers, m[f.proc].code, depths[f.proc])
  /\ InForce(f.handlers, Tries(m[f.proc].code, f.pc))

(* The frame runs: its operands are those of its instruction.  It waits:   *)
(* the operands of its call are with the frame it called.                  *)
Runs(f, depths) == Len(f.stack) = depths[f.proc][f.pc]
Waits(f, m, depths) ==
  LET i == m[f.proc].code[f.pc]
  IN  i.op = "Call" /\ Len(f.stack) = depths[f.proc][f.pc] - i.count

(* The call frames of a thread, but for the operands of the last.          *)
FramesOK(fs, m, depths) ==
  /\ IsSeq(fs)
  /\ \A n \in 1 .. Len(fs) : FrameOK(fs[n], m, depths)
  /\ \A n \in 1 .. Len(fs) - 1 : Waits(fs[n], m, depths)

ThreadOK(fs, m, depths) ==
  FramesOK(fs, m, depths) /\ (Len(fs) > 0 => Runs(fs[Len(fs)], depths))

MachineInv(depths) ==
  /\ Verified(module, depths)
  /\ ThreadOK(frames, module, depths)
  /\ IsSeq(queue)
  /\ \A n \in 1 .. Len(queue) : FrameOK(queue[n], module, depths) /\ Runs(queue[n], depths)

-----------------------------------------------------------------------------
(* Frames.                                                                 *)

LEMMA AdvanceFrame ==
  ASSUME NEW f, IsFrame(f)
  PROVE  /\ IsFrame(Advance(f)) /\ Advance(f).proc = f.proc /\ Advance(f).pc = f.pc + 1
         /\ Advance(f).stack = f.stack /\ Advance(f).handlers = f.handlers
<1> DEFINE g == Advance(f)
<1>1. g = [proc |-> f.proc, pc |-> f.pc + 1, stack |-> f.stack, dot |-> f.dot,
           handlers |-> f.handlers, locals |-> f.locals, supplied |-> f.supplied]
  BY DEF Advance, IsFrame
<1> HIDE DEF g
<1>2. IsFrame(g) /\ g.proc = f.proc /\ g.pc = f.pc + 1 /\ g.stack = f.stack
        /\ g.handlers = f.handlers
  BY <1>1 DEF IsFrame
<1> QED
  BY <1>2 DEF g

(* Only the operands of a frame change.                                    *)
LEMMA StackFrame ==
  ASSUME NEW f, IsFrame(f), NEW s
  PROVE  LET g == [f EXCEPT !.stack = s]
         IN  IsFrame(g) /\ g.proc = f.proc /\ g.pc = f.pc /\ g.stack = s
               /\ g.handlers = f.handlers
<1> DEFINE g == [f EXCEPT !.stack = s]
<1>1. g = [proc |-> f.proc, pc |-> f.pc, stack |-> s, dot |-> f.dot,
           handlers |-> f.handlers, locals |-> f.locals, supplied |-> f.supplied]
  BY DEF IsFrame
<1> HIDE DEF g
<1>2. IsFrame(g) /\ g.proc = f.proc /\ g.pc = f.pc /\ g.stack = s
        /\ g.handlers = f.handlers
  BY <1>1 DEF IsFrame
<1> QED
  BY <1>2 DEF g

LEMMA PushFrame ==
  ASSUME NEW f, IsFrame(f), IsSeq(f.stack), NEW v
  PROVE  /\ IsFrame(PushOn(f, v)) /\ PushOn(f, v).proc = f.proc /\ PushOn(f, v).pc = f.pc
         /\ PushOn(f, v).handlers = f.handlers
         /\ IsSeq(PushOn(f, v).stack) /\ Len(PushOn(f, v).stack) = Len(f.stack) + 1
<1> DEFINE s == Append(f.stack, v)
<1>1. IsSeq(s) /\ Len(s) = Len(f.stack) + 1
  BY SeqAppend
<1>2. PushOn(f, v) = [f EXCEPT !.stack = s]
  BY DEF PushOn
<1> HIDE DEF s
<1> DEFINE g == [f EXCEPT !.stack = s]
<1>3. /\ IsFrame(g) /\ g.proc = f.proc /\ g.pc = f.pc /\ g.stack = s
      /\ g.handlers = f.handlers
  BY StackFrame
<1> HIDE DEF g
<1> QED
  BY <1>1, <1>2, <1>3 DEF g

LEMMA PopFrame ==
  ASSUME NEW f, IsFrame(f), IsSeq(f.stack), NEW n \in 0 .. Len(f.stack)
  PROVE  /\ IsFrame(Pop(f, n)) /\ Pop(f, n).proc = f.proc /\ Pop(f, n).pc = f.pc
         /\ Pop(f, n).handlers = f.handlers
         /\ IsSeq(Pop(f, n).stack) /\ Len(Pop(f, n).stack) = Len(f.stack) - n
<1> DEFINE s == SubSeq(f.stack, 1, Len(f.stack) - n)
<1>1. Len(f.stack) \in Nat /\ Len(f.stack) - n \in 0 .. Len(f.stack)
  BY SeqDomain
<1>2. IsSeq(s) /\ Len(s) = Len(f.stack) - n
  BY <1>1, SeqPrefix
<1>3. Pop(f, n) = [f EXCEPT !.stack = s]
  BY DEF Pop
<1> HIDE DEF s
<1> DEFINE g == [f EXCEPT !.stack = s]
<1>4. /\ IsFrame(g) /\ g.proc = f.proc /\ g.pc = f.pc /\ g.stack = s
      /\ g.handlers = f.handlers
  BY StackFrame
<1> HIDE DEF g
<1> QED
  BY <1>2, <1>3, <1>4 DEF g

LEMMA PopAdvanceFrame ==
  ASSUME NEW f, IsFrame(f), IsSeq(f.stack), NEW n \in 0 .. Len(f.stack)
  PROVE  LET g == Advance(Pop(f, n))
         IN  /\ IsFrame(g) /\ g.proc = f.proc /\ g.pc = f.pc + 1 /\ g.handlers = f.handlers
             /\ IsSeq(g.stack) /\ Len(g.stack) = Len(f.stack) - n
<1> DEFINE p == Pop(f, n)
           g == Advance(p)
<1>1. /\ IsFrame(p) /\ p.proc = f.proc /\ p.pc = f.pc /\ p.handlers = f.handlers
      /\ IsSeq(p.stack) /\ Len(p.stack) = Len(f.stack) - n
  BY PopFrame
<1> HIDE DEF p
<1>2. /\ IsFrame(g) /\ g.proc = p.proc /\ g.pc = p.pc + 1 /\ g.handlers = p.handlers
      /\ g.stack = p.stack
  BY <1>1, AdvanceFrame
<1> HIDE DEF g
<1>3. /\ IsFrame(g) /\ g.proc = f.proc /\ g.pc = f.pc + 1 /\ g.handlers = f.handlers
      /\ IsSeq(g.stack) /\ Len(g.stack) = Len(f.stack) - n
  BY <1>1, <1>2
<1> QED
  BY <1>3 DEF g, p

(* Fewer tries and the same handlers.                                      *)
LEMMA InForceFewer ==
  ASSUME NEW hs, NEW T, NEW U, InForce(hs, T), U \subseteq T
  PROVE  InForce(hs, U)
<1> SUFFICES ASSUME NEW b \in U
             PROVE  \E i \in DOMAIN hs :
                      /\ hs[i].start = b + 1
                      /\ \A j \in DOMAIN hs : j > i /\ hs[j].start - 1 \in U => hs[j].start >= b + 1
  BY DEF InForce
<1>1. PICK i \in DOMAIN hs :
        /\ hs[i].start = b + 1
        /\ \A j \in DOMAIN hs : j > i /\ hs[j].start - 1 \in T => hs[j].start >= b + 1
  BY DEF InForce
<1> QED
  BY <1>1

(* What is known of the code of a frame and of its instruction.            *)
LEMMA CodeOf ==
  ASSUME NEW m, NEW depths, Verified(m, depths), NEW f, FrameOK(f, m, depths)
  PROVE  /\ VerifiedCode(m[f.proc].code, depths[f.proc], DOMAIN m)
         /\ VerifiedAt(m[f.proc].code, depths[f.proc], f.pc, DOMAIN m)
         /\ f.pc \in DOMAIN m[f.proc].code /\ f.pc \in Nat
         /\ DOMAIN m[f.proc].code \subseteq Nat
  BY DEF Verified, FrameOK, VerifiedCode

(* A frame goes on at a successor, its handlers as they were.              *)
LEMMA GoOn ==
  ASSUME NEW m, NEW depths, Verified(m, depths), NEW f, FrameOK(f, m, depths),
         NEW g, IsFrame(g), g.proc = f.proc, g.handlers = f.handlers, IsSeq(g.stack),
         m[f.proc].code[f.pc].op \notin {"BeginTry", "EndTry"},
         g.pc \in Successors(m[f.proc].code, f.pc),
         Len(g.stack) = depths[f.proc][f.pc] - Takes(m[f.proc].code[f.pc])
                          + Leaves(m[f.proc].code[f.pc])
  PROVE  FrameOK(g, m, depths) /\ Runs(g, depths)
<1> DEFINE code == m[f.proc].code
<1>1. /\ g.pc \in DOMAIN depths[f.proc]
      /\ depths[f.proc][g.pc] = depths[f.proc][f.pc] - Takes(code[f.pc]) + Leaves(code[f.pc])
      /\ Tries(code, g.pc) \subseteq Tries(code, f.pc) \cup {f.pc}
  <2>1. VerifiedAt(code, depths[f.proc], f.pc, DOMAIN m)
    BY CodeOf
  <2> QED
    BY <2>1 DEF VerifiedAt
<1>2. f.pc \notin Tries(code, g.pc)
  BY DEF Tries
<1>3. InForce(g.handlers, Tries(code, g.pc))
  BY <1>1, <1>2, InForceFewer DEF FrameOK
<1> QED
  BY <1>1, <1>3 DEF FrameOK, Runs

(* A frame as it starts.                                                   *)
LEMMA StartsOK ==
  ASSUME NEW m, NEW depths, Verified(m, depths), NEW f, IsFrame(f), f.proc \in DOMAIN m,
         f.pc = 1, f.stack = << >>, f.handlers = << >>
  PROVE  FrameOK(f, m, depths) /\ Runs(f, depths)
<1> DEFINE code == m[f.proc].code
<1>1. VerifiedCode(code, depths[f.proc], DOMAIN m)
  BY DEF Verified
<1>2. Tries(code, 1) = {}
  BY <1>1 DEF Tries, VerifiedCode
<1>3. 1 \in DOMAIN depths[f.proc] /\ depths[f.proc][1] = 0
  BY <1>1 DEF VerifiedCode
<1>4. FromTries(f.handlers, code, depths[f.proc])
  BY SeqSmall DEF FromTries
<1>5. InForce(f.handlers, Tries(code, 1))
  BY <1>2 DEF InForce
<1> QED
  BY <1>3, <1>4, <1>5, SeqSmall DEF FrameOK, Runs

-----------------------------------------------------------------------------
(* Failures.                                                               *)

(* The handler selected covers the instruction, and is the last that does. *)
LEMMA SelectedLast ==
  ASSUME NEW f, IsSeq(f.handlers)
  PROVE  /\ Covering(f) \subseteq 1 .. Len(f.handlers) /\ Len(f.handlers) \in Nat
         /\ Selected(f) = 0 <=> Covering(f) = {}
         /\ Selected(f) # 0 => Selected(f) \in Covering(f)
                                /\ \A o \in Covering(f) : o <= Selected(f)
<1>1. Covering(f) \subseteq 1 .. Len(f.handlers) /\ Len(f.handlers) \in Nat
  BY SeqDomain DEF Covering
<1>2. ASSUME Covering(f) # {}
      PROVE  Selected(f) \in Covering(f) /\ \A o \in Covering(f) : o <= Selected(f)
  <2>1. \E n \in Covering(f) : \A o \in Covering(f) : o <= n
    BY <1>1, <1>2, Greatest
  <2> QED
    BY <1>2, <2>1 DEF Selected
<1>3. Covering(f) = {} => Selected(f) = 0
  BY DEF Selected
<1>4. 0 \notin Covering(f)
  BY <1>1
<1> QED
  BY <1>1, <1>2, <1>3, <1>4

(* The handlers of a frame that cover its instruction are those of the     *)
(* tries that do.                                                          *)
LEMMA CoveringTries ==
  ASSUME NEW m, NEW depths, Verified(m, depths), NEW f, FrameOK(f, m, depths)
  PROVE  /\ \A n \in Covering(f) : f.handlers[n].start - 1 \in Tries(m[f.proc].code, f.pc)
         /\ \A n \in DOMAIN f.handlers, b \in Tries(m[f.proc].code, f.pc) :
              f.handlers[n].start = b + 1 => n \in Covering(f)
<1> DEFINE code == m[f.proc].code
<1>1. f.pc \in Nat /\ DOMAIN code \subseteq Nat /\ DOMAIN depths[f.proc] \subseteq DOMAIN code
  BY CodeOf DEF VerifiedCode
<1>2. ASSUME NEW n \in DOMAIN f.handlers
      PROVE  \E b \in DOMAIN code : code[b].op = "BeginTry" /\ f.handlers[n].start = b + 1
                                      /\ f.handlers[n].end = code[b].end
  <2>1. PICK b \in DOMAIN depths[f.proc] :
          /\ code[b].op = "BeginTry"
          /\ f.handlers[n] = [start |-> b + 1, end |-> code[b].end, catch |-> code[b].catch,
                              slot |-> code[b].slot, depth |-> 0]
    BY <1>2 DEF FrameOK, FromTries
  <2>2. f.handlers[n].start = b + 1 /\ f.handlers[n].end = code[b].end
    BY <2>1
  <2> QED
    BY <1>1, <2>1, <2>2
<1>3. ASSUME NEW n \in Covering(f)
      PROVE  f.handlers[n].start - 1 \in Tries(code, f.pc)
  <2>1. n \in DOMAIN f.handlers /\ f.handlers[n].start <= f.pc /\ f.pc <= f.handlers[n].end
    BY <1>3 DEF Covering
  <2>2. PICK b \in DOMAIN code : code[b].op = "BeginTry" /\ f.handlers[n].start = b + 1
                                   /\ f.handlers[n].end = code[b].end
    BY <1>2, <2>1
  <2>3. b \in Nat /\ b < f.pc /\ f.pc <= code[b].end /\ f.handlers[n].start - 1 = b
    BY <1>1, <2>1, <2>2
  <2> QED
    BY <2>2, <2>3 DEF Tries
<1>4. ASSUME NEW n \in DOMAIN f.handlers, NEW b \in Tries(code, f.pc), f.handlers[n].start = b + 1
      PROVE  n \in Covering(f)
  <2>1. b \in Nat /\ b < f.pc /\ f.pc <= code[b].end
    BY <1>1, <1>4 DEF Tries
  <2>2. PICK c \in DOMAIN code : f.handlers[n].start = c + 1 /\ f.handlers[n].end = code[c].end
    BY <1>2
  <2>3. c = b
    BY <1>1, <1>4, <2>1, <2>2
  <2> QED
    BY <1>1, <1>4, <2>1, <2>2, <2>3 DEF Covering
<1> QED
  BY <1>3, <1>4

(* The handler that is delivered to leaves those of the tries around its   *)
(* catch in force, and its frame with no operands.                         *)
LEMMA DeliverOK ==
  ASSUME NEW m, NEW depths, Verified(m, depths), NEW f, FrameOK(f, m, depths),
         Selected(f) # 0, NEW v
  PROVE  FrameOK(Deliver(f, v), m, depths) /\ Runs(Deliver(f, v), depths)
<1> DEFINE code == m[f.proc].code
           depth == depths[f.proc]
           hs == f.handlers
           n == Selected(f)
           g == Deliver(f, v)
<1>1. IsFrame(f) /\ IsSeq(hs) /\ IsSeq(f.stack)
  BY DEF FrameOK, FromTries
<1>2. /\ n \in 1 .. Len(hs) /\ Len(hs) \in Nat /\ DOMAIN hs = 1 .. Len(hs)
      /\ n \in Covering(f) /\ \A o \in Covering(f) : o <= n
  BY <1>1, SelectedLast, SeqDomain
<1>3. PICK b \in DOMAIN depth :
        /\ code[b].op = "BeginTry"
        /\ hs[n] = [start |-> b + 1, end |-> code[b].end, catch |-> code[b].catch,
                    slot |-> code[b].slot, depth |-> 0]
  BY <1>2 DEF FrameOK, FromTries
<1>4. /\ hs[n].start = b + 1 /\ hs[n].catch = code[b].catch /\ hs[n].depth = 0
  BY <1>3
<1>5. /\ IsFrame(g) /\ g.proc = f.proc /\ g.pc = code[b].catch
      /\ g.handlers = SubSeq(hs, 1, n - 1) /\ g.stack = SubSeq(f.stack, 1, 0)
  <2> DEFINE h == hs[n]
             locals == [s \in DOMAIN f.locals |->
                          IF h.slot # << >> /\ s = h.slot[1] THEN v ELSE f.locals[s]]
  <2>1. g = [f EXCEPT !.handlers = SubSeq(f.handlers, 1, n - 1), !.pc = h.catch,
                      !.stack = SubSeq(f.stack, 1, h.depth), !.locals = locals]
    BY DEF Deliver
  <2> HIDE DEF locals
  <2>2. g = [proc |-> f.proc, pc |-> h.catch, stack |-> SubSeq(f.stack, 1, h.depth),
             dot |-> f.dot, handlers |-> SubSeq(f.handlers, 1, n - 1), locals |-> locals,
             supplied |-> f.supplied]
    BY <1>1, <2>1, Zenon DEF IsFrame
  <2>3. h.catch = code[b].catch /\ h.depth = 0
    BY <1>4
  <2> HIDE DEF g, h, n, code
  <2> QED
    BY <2>2, <2>3 DEF IsFrame
<1>6. /\ IsSeq(g.handlers) /\ DOMAIN g.handlers = 1 .. n - 1
      /\ \A k \in 1 .. n - 1 : g.handlers[k] = hs[k]
  <2>1. n - 1 \in 0 .. Len(hs)
    BY <1>2
  <2>2. /\ IsSeq(g.handlers) /\ Len(g.handlers) = n - 1
        /\ \A k \in 1 .. n - 1 : g.handlers[k] = hs[k]
    BY <1>1, <1>5, <2>1, SeqPrefix
  <2> QED
    BY <2>2, SeqDomain
<1>7. IsSeq(g.stack) /\ Len(g.stack) = 0
  <2>1. 0 \in 0 .. Len(f.stack)
    BY <1>1, SeqDomain
  <2> QED
    BY <1>1, <1>5, <2>1, SeqPrefix
<1>8. VerifiedCode(code, depth, DOMAIN m) /\ b \in DOMAIN code /\ b \in Nat
  BY <1>3, CodeOf DEF VerifiedCode
<1>9. VerifiedAt(code, depth, b, DOMAIN m)
  BY <1>3, <1>8 DEF VerifiedCode
<1>10. /\ code[b].catch \in DOMAIN depth /\ depth[code[b].catch] = 0
       /\ Tries(code, code[b].catch) \subseteq Tries(code, b)
  <2>1. code[b].catch \in Entries(code[b])
    BY <1>3 DEF Entries
  <2> QED
    BY <1>9, <2>1 DEF VerifiedAt
<1>11. b \in Tries(code, f.pc)
  <2>1. hs[n].start - 1 \in Tries(code, f.pc)
    BY <1>2, CoveringTries
  <2>2. hs[n].start - 1 = b
    BY <1>4, <1>8
  <2> QED
    BY <2>1, <2>2
<1>12. ASSUME NEW o \in Tries(code, b) PROVE o \in Tries(code, f.pc) /\ o < b
  <2>1. /\ o \in DOMAIN code /\ code[o].op = "BeginTry" /\ o < b /\ b <= code[o].end
    BY <1>12 DEF Tries
  <2>2. code[o].end \in Nat /\ code[b].end \in Nat /\ code[b].end <= code[o].end /\ o \in Nat
    <3>1. VerifiedCode(code, depth, DOMAIN m) /\ b \in DOMAIN code /\ code[b].op = "BeginTry"
      BY <1>3, <1>8
    <3>2. \A x \in DOMAIN code : code[x].op = "BeginTry" =>
            x \in Nat /\ code[x].end \in Nat /\ \A y \in Tries(code, x) : code[x].end <= code[y].end
      BY <3>1 DEF VerifiedCode
    <3> QED
      BY <1>12, <2>1, <3>1, <3>2
  <2>3. b < f.pc /\ f.pc <= code[b].end /\ f.pc \in Nat
    BY <1>11, CodeOf DEF Tries
  <2> QED
    BY <1>8, <2>1, <2>2, <2>3 DEF Tries
<1>13. FromTries(g.handlers, code, depth)
  <2>1. FromTries(hs, code, depth)
    BY DEF FrameOK
  <2>2. \A k \in DOMAIN g.handlers : k \in DOMAIN hs /\ g.handlers[k] = hs[k]
    BY <1>2, <1>6
  <2> HIDE DEF g, hs, code, depth
  <2> QED
    BY <1>6, <2>1, <2>2 DEF FromTries
<1>14. InForce(g.handlers, Tries(code, g.pc))
  <2> SUFFICES ASSUME NEW o \in Tries(code, g.pc)
               PROVE  \E i \in DOMAIN g.handlers :
                        /\ g.handlers[i].start = o + 1
                        /\ \A j \in DOMAIN g.handlers :
                             j > i /\ g.handlers[j].start - 1 \in Tries(code, g.pc)
                               => g.handlers[j].start >= o + 1
    BY DEF InForce
  <2>1. o \in Tries(code, f.pc) /\ o < b /\ o \in Nat
    <3>1. o \in Tries(code, b)
      BY <1>5, <1>10
    <3>2. o \in DOMAIN code
      BY DEF Tries
    <3>3. o \in Nat
      BY <1>8, <3>2 DEF VerifiedCode
    <3> QED
      BY <1>12, <3>1, <3>3
  <2>2. PICK i \in DOMAIN hs :
          /\ hs[i].start = o + 1
          /\ \A j \in DOMAIN hs : j > i /\ hs[j].start - 1 \in Tries(code, f.pc)
                                    => hs[j].start >= o + 1
    BY <2>1 DEF FrameOK, InForce
  <2>3. i \in Covering(f)
    BY <2>1, <2>2, CoveringTries
  <2>4. i # n
    BY <1>4, <1>8, <2>1, <2>2
  <2>5. i \in 1 .. n - 1
    BY <1>2, <2>2, <2>3, <2>4
  <2>6. Tries(code, g.pc) \subseteq Tries(code, f.pc)
    BY <1>5, <1>10, <1>12
  <2>7. ASSUME NEW j \in 1 .. n - 1, j > i, g.handlers[j].start - 1 \in Tries(code, g.pc)
        PROVE  g.handlers[j].start >= o + 1
    BY <1>2, <1>6, <2>2, <2>6, <2>7
  <2> QED
    BY <1>6, <2>2, <2>5, <2>7
<1> QED
  BY <1>5, <1>7, <1>10, <1>13, <1>14 DEF FrameOK, Runs

-----------------------------------------------------------------------------
(* Threads.                                                                *)

(* The last frame goes on.                                                 *)
LEMMA TopReplaced ==
  ASSUME NEW m, NEW depths, NEW fs, FramesOK(fs, m, depths), Len(fs) > 0,
         NEW g, FrameOK(g, m, depths)
  PROVE  /\ FramesOK([fs EXCEPT ![Len(fs)] = g], m, depths)
         /\ Len([fs EXCEPT ![Len(fs)] = g]) = Len(fs)
         /\ [fs EXCEPT ![Len(fs)] = g][Len(fs)] = g
<1> DEFINE gs == [fs EXCEPT ![Len(fs)] = g]
<1>1. IsSeq(fs) /\ Len(fs) \in 1 .. Len(fs) /\ Len(fs) \in Nat
  BY SeqDomain DEF FramesOK
<1>2. /\ IsSeq(gs) /\ Len(gs) = Len(fs)
      /\ \A n \in 1 .. Len(fs) : gs[n] = IF n = Len(fs) THEN g ELSE fs[n]
  <2>1. IsSeq(gs)
    BY <1>1, SeqReplace, Zenon
  <2>2. Len(gs) = Len(fs)
    BY <1>1, SeqReplace, SMT
  <2>3. \A n \in 1 .. Len(fs) : gs[n] = IF n = Len(fs) THEN g ELSE fs[n]
    BY <1>1, SeqReplace, SMT
  <2> QED
    BY <2>1, <2>2, <2>3
<1> HIDE DEF gs
<1>3. ASSUME NEW n \in 1 .. Len(fs) PROVE FrameOK(gs[n], m, depths)
  BY <1>2, <1>3 DEF FramesOK
<1>4. ASSUME NEW n \in 1 .. Len(fs) - 1 PROVE Waits(gs[n], m, depths)
  <2>1. n \in 1 .. Len(fs) /\ n # Len(fs)
    BY <1>1, <1>4
  <2> QED
    BY <1>2, <1>4, <2>1 DEF FramesOK
<1>5. FramesOK(gs, m, depths) /\ Len(gs) = Len(fs) /\ gs[Len(fs)] = g
  BY <1>1, <1>2, <1>3, <1>4 DEF FramesOK
<1> QED
  BY <1>5 DEF gs

(* The last frames go.                                                     *)
LEMMA FramesPrefix ==
  ASSUME NEW m, NEW depths, NEW fs, FramesOK(fs, m, depths), NEW k \in 0 .. Len(fs)
  PROVE  /\ FramesOK(SubSeq(fs, 1, k), m, depths) /\ Len(SubSeq(fs, 1, k)) = k
         /\ \A n \in 1 .. k : SubSeq(fs, 1, k)[n] = fs[n]
         /\ k < Len(fs) /\ k > 0 => Waits(SubSeq(fs, 1, k)[k], m, depths)
<1>1. IsSeq(fs) /\ Len(fs) \in Nat
  BY SeqDomain DEF FramesOK
<1>2. /\ IsSeq(SubSeq(fs, 1, k)) /\ Len(SubSeq(fs, 1, k)) = k
      /\ \A n \in 1 .. k : SubSeq(fs, 1, k)[n] = fs[n]
  BY <1>1, SeqPrefix
<1> QED
  BY <1>1, <1>2 DEF FramesOK

(* A frame is called by a thread whose last frame waits.                   *)
LEMMA FramePushed ==
  ASSUME NEW m, NEW depths, NEW fs, FramesOK(fs, m, depths),
         Len(fs) > 0 => Waits(fs[Len(fs)], m, depths),
         NEW g, FrameOK(g, m, depths), Runs(g, depths)
  PROVE  ThreadOK(Append(fs, g), m, depths)
<1>1. IsSeq(fs) /\ Len(fs) \in Nat
  BY SeqDomain DEF FramesOK
<1>2. /\ IsSeq(Append(fs, g)) /\ Len(Append(fs, g)) = Len(fs) + 1
      /\ \A n \in 1 .. Len(fs) : Append(fs, g)[n] = fs[n]
      /\ Append(fs, g)[Len(fs) + 1] = g
  BY <1>1, SeqAppend
<1>3. ASSUME NEW n \in 1 .. Len(fs) + 1 PROVE FrameOK(Append(fs, g)[n], m, depths)
  BY <1>1, <1>2, <1>3 DEF FramesOK
<1>4. ASSUME NEW n \in 1 .. Len(fs) PROVE Waits(Append(fs, g)[n], m, depths)
  <2>1. CASE n = Len(fs)
    BY <1>1, <1>2, <2>1
  <2>2. CASE n # Len(fs)
    BY <1>1, <1>2, <2>2 DEF FramesOK
  <2> QED
    BY <2>1, <2>2
<1> QED
  BY <1>1, <1>2, <1>3, <1>4 DEF ThreadOK, FramesOK

LEMMA NoFrames == ASSUME NEW m, NEW depths PROVE ThreadOK(<< >>, m, depths)
  BY SeqSmall DEF ThreadOK, FramesOK

(* A frame ends: its caller's call leaves the value.                       *)
LEMMA FinishOK ==
  ASSUME NEW depths, Verified(module, depths), NEW fs, FramesOK(fs, module, depths),
         Len(fs) > 0, NEW v, FinishFrame(fs, v)
  PROVE  ThreadOK(frames', module, depths)
<1>1. IsSeq(fs) /\ Len(fs) \in Nat
  BY SeqDomain DEF FramesOK
<1>2. CASE Len(fs) = 1
  BY <1>2, NoFrames DEF FinishFrame
<1>3. CASE Len(fs) # 1
  <2> DEFINE k == Len(fs) - 1
             rest == SubSeq(fs, 1, k)
             f == fs[k]
             g == Advance(PushOn(f, v))
             code == module[f.proc].code
  <2>1. k \in 1 .. Len(fs) - 1 /\ k \in 0 .. Len(fs) /\ k \in 1 .. Len(fs) /\ k > 0
    <3> DEFINE l == Len(fs)
    <3>1. l \in Nat /\ l > 0 /\ l # 1
      BY <1>1, <1>3
    <3> HIDE DEF l
    <3>2. l - 1 \in 1 .. l - 1 /\ l - 1 \in 0 .. l /\ l - 1 \in 1 .. l /\ l - 1 > 0
      BY <3>1
    <3> QED
      BY <3>2 DEF l
  <2>2. FramesOK(rest, module, depths) /\ Len(rest) = k /\ rest[k] = f
    BY <2>1, FramesPrefix
  <2>3. frames' = [rest EXCEPT ![Len(rest)] = g]
    BY <1>3, <2>2 DEF FinishFrame, Front
  <2>4. FrameOK(f, module, depths) /\ Waits(f, module, depths)
    BY <2>1 DEF FramesOK
  <2>5. IsSeq(f.stack) /\ IsFrame(f)
    BY <2>4 DEF FrameOK
  <2>6. /\ IsFrame(PushOn(f, v)) /\ PushOn(f, v).proc = f.proc /\ PushOn(f, v).pc = f.pc
        /\ PushOn(f, v).handlers = f.handlers
        /\ IsSeq(PushOn(f, v).stack) /\ Len(PushOn(f, v).stack) = Len(f.stack) + 1
    BY <2>5, PushFrame
  <2>7. /\ IsFrame(g) /\ g.proc = f.proc /\ g.handlers = f.handlers /\ g.pc = f.pc + 1
        /\ IsSeq(g.stack) /\ Len(g.stack) = Len(f.stack) + 1
    BY <2>6, AdvanceFrame
  <2>8. VerifiedAt(code, depths[f.proc], f.pc, DOMAIN module)
    BY <2>4, CodeOf
  <2>9. /\ code[f.pc].op \notin {"BeginTry", "EndTry"} /\ g.pc \in Successors(code, f.pc)
        /\ Takes(code[f.pc]) = code[f.pc].count /\ Leaves(code[f.pc]) = 1
    BY <2>4, <2>7 DEF Waits, Successors, Takes, Leaves, Operators
  <2>10. Len(g.stack) = depths[f.proc][f.pc] - Takes(code[f.pc]) + Leaves(code[f.pc])
    BY <2>4, <2>7, <2>9 DEF Waits
  <2>11. FrameOK(g, module, depths) /\ Runs(g, depths)
    BY <2>4, <2>7, <2>9, <2>10, GoOn
  <2> HIDE DEF k, rest, g
  <2>12. /\ FramesOK(frames', module, depths) /\ Len(frames') = k
         /\ frames'[k] = g
    <3>1. FramesOK(rest, module, depths) /\ Len(rest) = k /\ Len(rest) > 0
      BY <2>1, <2>2
    <3>2. FrameOK(g, module, depths)
      BY <2>11
    <3>3. /\ FramesOK([rest EXCEPT ![Len(rest)] = g], module, depths)
          /\ Len([rest EXCEPT ![Len(rest)] = g]) = Len(rest)
          /\ [rest EXCEPT ![Len(rest)] = g][Len(rest)] = g
      BY <3>1, <3>2, TopReplaced, ZenonT(60)
    <3> QED
      BY <2>3, <3>1, <3>3, Zenon
  <2> QED
    BY <2>11, <2>12 DEF ThreadOK
<1> QED
  BY <1>2, <1>3

(* A failure: the frames above the one that catches it go.                 *)
LEMMA UnwindOK ==
  ASSUME NEW depths, Verified(module, depths), NEW fs, FramesOK(fs, module, depths),
         Len(fs) > 0, NEW v, Unwind(fs, v)
  PROVE  ThreadOK(frames', module, depths)
<1>1. IsSeq(fs) /\ Len(fs) \in Nat /\ DOMAIN fs = 1 .. Len(fs)
  BY SeqDomain DEF FramesOK
<1>2. CASE Catching(fs) # {}
  <2> DEFINE at == CHOOSE n \in Catching(fs) : \A o \in Catching(fs) : o <= n
  <2>1. Catching(fs) \in SUBSET (1 .. Len(fs))
    BY <1>1 DEF Catching
  <2>2. at \in Catching(fs)
    BY <1>1, <1>2, <2>1, Greatest
  <2>3. frames' = Append(SubSeq(fs, 1, at - 1), Deliver(fs[at], v))
    BY <1>2 DEF Unwind
  <2> HIDE DEF at
  <2>4. at \in 1 .. Len(fs) /\ Selected(fs[at]) # 0
    BY <2>1, <2>2 DEF Catching
  <2>5. FrameOK(fs[at], module, depths)
    BY <2>4 DEF FramesOK
  <2>6. FrameOK(Deliver(fs[at], v), module, depths) /\ Runs(Deliver(fs[at], v), depths)
    BY <2>4, <2>5, DeliverOK
  <2>7. at - 1 \in 0 .. Len(fs) /\ at - 1 < Len(fs)
    BY <1>1, <2>4
  <2>8. /\ FramesOK(SubSeq(fs, 1, at - 1), module, depths)
        /\ Len(SubSeq(fs, 1, at - 1)) = at - 1
        /\ at - 1 > 0 => Waits(SubSeq(fs, 1, at - 1)[at - 1], module, depths)
    BY <2>7, FramesPrefix
  <2> QED
    BY <2>3, <2>6, <2>8, FramePushed
<1>3. CASE Catching(fs) = {}
  BY <1>3, FinishOK, NoFrames DEF Unwind, Fatal
<1> QED
  BY <1>2, <1>3

-----------------------------------------------------------------------------
(* Steps.                                                                  *)

LEMMA TopFacts ==
  ASSUME NEW depths, MachineInv(depths), frames # << >>
  PROVE  /\ Len(frames) \in Nat /\ Len(frames) > 0 /\ Top = frames[Len(frames)]
         /\ FramesOK(frames, module, depths)
         /\ FrameOK(Top, module, depths) /\ Runs(Top, depths)
         /\ IsFrame(Top) /\ IsSeq(Top.stack) /\ Len(Top.stack) \in Nat /\ IsSeq(Top.handlers)
         /\ Code = module[Top.proc].code /\ Instr = Code[Top.pc]
         /\ VerifiedAt(Code, depths[Top.proc], Top.pc, DOMAIN module)
         /\ Takes(Instr) \in Nat /\ Takes(Instr) <= Len(Top.stack)
<1>1. FramesOK(frames, module, depths) /\ Verified(module, depths) /\ IsSeq(frames)
  BY DEF MachineInv, ThreadOK, FramesOK
<1>2. Len(frames) \in Nat /\ Len(frames) > 0
  <2>1. Len(frames) \in Nat /\ Len(frames) # 0
    BY <1>1, SeqSmall, SeqDomain
  <2> QED
    BY <2>1
<1>3. Top = frames[Len(frames)]
  BY DEF Top, Last
<1>4. FrameOK(Top, module, depths) /\ Runs(Top, depths)
  BY <1>1, <1>2, <1>3 DEF MachineInv, ThreadOK, FramesOK
<1>5. IsFrame(Top) /\ IsSeq(Top.stack) /\ IsSeq(Top.handlers)
  BY <1>4 DEF FrameOK, FromTries
<1>6. Code = module[Top.proc].code /\ Instr = Code[Top.pc]
  BY DEF Code, Instr
<1>7. VerifiedAt(Code, depths[Top.proc], Top.pc, DOMAIN module)
  BY <1>1, <1>4, <1>6, CodeOf
<1>8. Takes(Instr) \in Nat /\ Takes(Instr) <= Len(Top.stack)
  BY <1>4, <1>6, <1>7 DEF VerifiedAt, Runs
<1> QED
  BY <1>1, <1>2, <1>3, <1>4, <1>5, <1>6, <1>7, <1>8, SeqDomain

LEMMA InvKept ==
  ASSUME NEW depths, MachineInv(depths), ThreadOK(frames', module, depths),
         UNCHANGED <<loaded, queue>>
  PROVE  MachineInv(depths)'
BY DEF MachineInv, loaded

(* The running frame becomes one that runs.                                *)
LEMMA StepTo ==
  ASSUME NEW depths, MachineInv(depths), frames # << >>, NEW g,
         FrameOK(g, module, depths), Runs(g, depths), Step(g), UNCHANGED <<loaded, queue>>
  PROVE  MachineInv(depths)'
<1>1. FramesOK(frames, module, depths) /\ Len(frames) > 0
  BY TopFacts
<1>2. /\ FramesOK([frames EXCEPT ![Len(frames)] = g], module, depths)
      /\ Len([frames EXCEPT ![Len(frames)] = g]) = Len(frames)
      /\ [frames EXCEPT ![Len(frames)] = g][Len(frames)] = g
  BY <1>1, TopReplaced
<1>3. frames' = [frames EXCEPT ![Len(frames)] = g]
  BY DEF Step, WithTop
<1>4. ThreadOK(frames', module, depths)
  <2> DEFINE gs == [frames EXCEPT ![Len(frames)] = g]
  <2> HIDE DEF gs
  <2>1. FramesOK(gs, module, depths) /\ gs[Len(gs)] = g
    BY <1>2 DEF gs
  <2>2. ThreadOK(gs, module, depths)
    BY <2>1 DEF ThreadOK
  <2> QED
    BY <1>3, <2>2 DEF gs
<1> QED
  BY <1>4, InvKept

(* The running frame goes on at a successor of its instruction.            *)
LEMMA StepOn ==
  ASSUME NEW depths, MachineInv(depths), frames # << >>,
         NEW g, IsFrame(g), g.proc = Top.proc, g.handlers = Top.handlers, IsSeq(g.stack),
         Instr.op \notin {"BeginTry", "EndTry"},
         g.pc \in Successors(Code, Top.pc),
         Len(g.stack) = Len(Top.stack) - Takes(Instr) + Leaves(Instr),
         Step(g), UNCHANGED <<loaded, queue>>
  PROVE  MachineInv(depths)'
<1>1. Verified(module, depths)
  BY DEF MachineInv
<1>2. /\ FrameOK(Top, module, depths) /\ Runs(Top, depths)
      /\ Code = module[Top.proc].code /\ Instr = Code[Top.pc]
  BY TopFacts
<1>3. Len(g.stack) = depths[Top.proc][Top.pc] - Takes(Instr) + Leaves(Instr)
  BY <1>2 DEF Runs
<1>4. FrameOK(g, module, depths) /\ Runs(g, depths)
  BY <1>1, <1>2, <1>3, GoOn
<1> QED
  BY <1>4, StepTo

LEMMA LoadStep == ASSUME NEW depths, MachineInv(depths), Load PROVE MachineInv(depths)'
<1> DEFINE v == CASE Instr.op = "Push" -> Instr.value
                  [] Instr.op = "LoadLocal" -> Top.locals[Instr.slot]
                  [] Instr.op = "LoadResult" -> Top.dot
                  [] Instr.op = "Duplicate" -> Operand(Top, 0)
           g == Advance(PushOn(Top, v))
<1>1. /\ frames # << >> /\ Instr.op \in {"Push", "LoadLocal", "LoadResult", "Duplicate"}
      /\ Step(g) /\ UNCHANGED <<loaded, queue>>
  BY DEF Load, Running
<1> HIDE DEF v
<1>2. IsFrame(Top) /\ IsSeq(Top.stack) /\ Instr = Code[Top.pc] /\ Len(Top.stack) \in Nat
  BY <1>1, TopFacts
<1>3. /\ IsFrame(g) /\ g.proc = Top.proc /\ g.handlers = Top.handlers /\ g.pc = Top.pc + 1
      /\ IsSeq(g.stack) /\ Len(g.stack) = Len(Top.stack) + 1
  BY <1>2, PushFrame, AdvanceFrame
<1>4. /\ Instr.op \notin {"BeginTry", "EndTry"} /\ g.pc \in Successors(Code, Top.pc)
      /\ Takes(Instr) \in Nat /\ Leaves(Instr) = Takes(Instr) + 1
  BY <1>1, <1>2, <1>3 DEF Successors, Takes, Leaves, Operators
<1>5. Len(g.stack) = Len(Top.stack) - Takes(Instr) + Leaves(Instr)
  BY <1>2, <1>3, <1>4
<1> HIDE DEF g
<1> QED
  BY <1>1, <1>3, <1>4, <1>5, StepOn

(* One operand goes and a local slot, or the result, changes.              *)
LEMMA StoreTopStep == ASSUME NEW depths, MachineInv(depths), StoreTop PROVE MachineInv(depths)'
<1> DEFINE f == Advance(Pop(Top, 1))
           v == Operand(Top, 0)
           g == CASE Instr.op = "StoreLocal" -> [f EXCEPT !.locals[Instr.slot] = v]
                  [] Instr.op = "StoreResult" -> [f EXCEPT !.dot = v]
                  [] Instr.op = "Pop" -> f
<1>1. /\ frames # << >> /\ Instr.op \in {"StoreLocal", "StoreResult", "Pop"}
      /\ Step(g) /\ UNCHANGED <<loaded, queue>>
  BY DEF StoreTop, Running
<1>2. /\ IsFrame(Top) /\ IsSeq(Top.stack) /\ Instr = Code[Top.pc] /\ Len(Top.stack) \in Nat
      /\ Takes(Instr) <= Len(Top.stack)
  BY <1>1, TopFacts
<1>3. Takes(Instr) = 1 /\ Leaves(Instr) = 0 /\ Instr.op \notin {"BeginTry", "EndTry"}
        /\ Top.pc + 1 \in Successors(Code, Top.pc)
  BY <1>1, <1>2 DEF Successors, Takes, Leaves, Operators
<1>4. 1 \in 0 .. Len(Top.stack)
  BY <1>2, <1>3
<1>5. /\ IsFrame(f) /\ f.proc = Top.proc /\ f.handlers = Top.handlers /\ f.pc = Top.pc + 1
      /\ IsSeq(f.stack) /\ Len(f.stack) = Len(Top.stack) - 1
  BY <1>2, <1>4, PopAdvanceFrame
<1> HIDE DEF f, v
<1>6. /\ IsFrame(g) /\ g.proc = f.proc /\ g.pc = f.pc /\ g.stack = f.stack
      /\ g.handlers = f.handlers
  <2>1. CASE Instr.op = "StoreLocal"
    <3> DEFINE locals == [f.locals EXCEPT ![Instr.slot] = v]
    <3>1. g = [f EXCEPT !.locals = locals]
      BY <2>1
    <3> HIDE DEF g, locals
    <3>2. g = [proc |-> f.proc, pc |-> f.pc, stack |-> f.stack, dot |-> f.dot,
               handlers |-> f.handlers, locals |-> locals, supplied |-> f.supplied]
      BY <1>5, <3>1 DEF IsFrame
    <3> QED
      BY <3>2 DEF IsFrame
  <2>2. CASE Instr.op = "StoreResult"
    <3>1. g = [f EXCEPT !.dot = v]
      BY <2>2
    <3> HIDE DEF g
    <3>2. g = [proc |-> f.proc, pc |-> f.pc, stack |-> f.stack, dot |-> v,
               handlers |-> f.handlers, locals |-> f.locals, supplied |-> f.supplied]
      BY <1>5, <3>1 DEF IsFrame
    <3> QED
      BY <3>2 DEF IsFrame
  <2>3. CASE Instr.op = "Pop"
    BY <1>5, <2>3
  <2> QED
    BY <1>1, <2>1, <2>2, <2>3
<1> HIDE DEF g
<1>7. Len(g.stack) = Len(Top.stack) - Takes(Instr) + Leaves(Instr)
  BY <1>2, <1>3, <1>5, <1>6
<1> QED
  BY <1>1, <1>3, <1>5, <1>6, <1>7, StepOn

LEMMA OutputStep == ASSUME NEW depths, MachineInv(depths), Output PROVE MachineInv(depths)'
<1> DEFINE g == Advance(Pop(Top, 2))
<1>1. frames # << >> /\ Instr.op = "Output" /\ Step(g) /\ UNCHANGED <<loaded, queue>>
  BY DEF Output, Running
<1>2. /\ IsFrame(Top) /\ IsSeq(Top.stack) /\ Instr = Code[Top.pc] /\ Len(Top.stack) \in Nat
      /\ Takes(Instr) <= Len(Top.stack)
  BY <1>1, TopFacts
<1>3. Takes(Instr) = 2 /\ Leaves(Instr) = 0 /\ Instr.op \notin {"BeginTry", "EndTry"}
        /\ Top.pc + 1 \in Successors(Code, Top.pc)
  BY <1>1, <1>2 DEF Successors, Takes, Leaves, Operators
<1>4. 2 \in 0 .. Len(Top.stack)
  BY <1>2, <1>3
<1>5. /\ IsFrame(g) /\ g.proc = Top.proc /\ g.handlers = Top.handlers /\ g.pc = Top.pc + 1
      /\ IsSeq(g.stack) /\ Len(g.stack) = Len(Top.stack) - 2
  BY <1>2, <1>4, PopAdvanceFrame
<1> HIDE DEF g
<1>6. Len(g.stack) = Len(Top.stack) - Takes(Instr) + Leaves(Instr)
  BY <1>2, <1>3, <1>5
<1> QED
  BY <1>1, <1>3, <1>5, <1>6, StepOn

LEMMA ComputeStep == ASSUME NEW depths, MachineInv(depths), Compute PROVE MachineInv(depths)'
<1> DEFINE v == Operate(Instr.op, Operand(Top, 1), Operand(Top, 0))
           f == Pop(Top, 2)
           g == Advance(PushOn(f, v))
<1>1. frames # << >> /\ Instr.op \in Operators /\ Step(g) /\ UNCHANGED <<loaded, queue>>
  BY DEF Compute, Running
<1> HIDE DEF v
<1>2. /\ IsFrame(Top) /\ IsSeq(Top.stack) /\ Instr = Code[Top.pc] /\ Len(Top.stack) \in Nat
      /\ Takes(Instr) <= Len(Top.stack)
  BY <1>1, TopFacts
<1>3. Takes(Instr) = 2 /\ Leaves(Instr) = 1 /\ Instr.op \notin {"BeginTry", "EndTry"}
        /\ Top.pc + 1 \in Successors(Code, Top.pc)
  BY <1>1, <1>2 DEF Successors, Takes, Leaves, Operators
<1>4. 2 \in 0 .. Len(Top.stack)
  BY <1>2, <1>3
<1>5. /\ IsFrame(f) /\ f.proc = Top.proc /\ f.handlers = Top.handlers /\ f.pc = Top.pc
      /\ IsSeq(f.stack) /\ Len(f.stack) = Len(Top.stack) - 2
  BY <1>2, <1>4, PopFrame
<1> HIDE DEF f
<1>6. /\ IsFrame(g) /\ g.proc = f.proc /\ g.handlers = f.handlers /\ g.pc = f.pc + 1
      /\ IsSeq(g.stack) /\ Len(g.stack) = Len(f.stack) + 1
  BY <1>5, PushFrame, AdvanceFrame
<1> HIDE DEF g
<1>7. Len(g.stack) = Len(Top.stack) - Takes(Instr) + Leaves(Instr)
  BY <1>2, <1>3, <1>5, <1>6
<1> QED
  BY <1>1, <1>3, <1>5, <1>6, <1>7, StepOn

LEMMA BranchStep == ASSUME NEW depths, MachineInv(depths), Branch PROVE MachineInv(depths)'
<1> DEFINE taken == CASE Instr.op = "Jump" -> TRUE
                      [] Instr.op = "JumpIfFalse" -> ~Truthy(Operand(Top, 0))
                      [] Instr.op = "JumpIfArgumentSupplied" ->
                           Instr.parameter \in Top.supplied /\ Top.locals[Instr.parameter] # Null
           f == IF Instr.op = "JumpIfFalse" THEN Pop(Top, 1) ELSE Top
           g == IF taken THEN [f EXCEPT !.pc = Instr.target] ELSE Advance(f)
<1>1. /\ frames # << >> /\ Instr.op \in {"Jump", "JumpIfFalse", "JumpIfArgumentSupplied"}
      /\ Step(g) /\ UNCHANGED <<loaded, queue>>
  BY DEF Branch, Running
<1>2. /\ IsFrame(Top) /\ IsSeq(Top.stack) /\ Instr = Code[Top.pc] /\ Len(Top.stack) \in Nat
      /\ Takes(Instr) <= Len(Top.stack)
  BY <1>1, TopFacts
<1>3. /\ Takes(Instr) = (IF Instr.op = "JumpIfFalse" THEN 1 ELSE 0) /\ Leaves(Instr) = 0
      /\ Instr.op \notin {"BeginTry", "EndTry"} /\ Instr.target \in Successors(Code, Top.pc)
      /\ Instr.op # "Jump" => Top.pc + 1 \in Successors(Code, Top.pc)
  BY <1>1, <1>2 DEF Successors, Takes, Leaves, Operators
<1>4. Instr.op = "Jump" => taken
  OBVIOUS
<1>5. /\ IsFrame(f) /\ f.proc = Top.proc /\ f.handlers = Top.handlers /\ f.pc = Top.pc
      /\ IsSeq(f.stack) /\ Len(f.stack) = Len(Top.stack) - Takes(Instr)
  <2>1. CASE Instr.op = "JumpIfFalse"
    <3>1. 1 \in 0 .. Len(Top.stack)
      BY <1>2, <1>3, <2>1
    <3> QED
      BY <1>2, <1>3, <2>1, <3>1, PopFrame
  <2>2. CASE Instr.op # "JumpIfFalse"
    BY <1>2, <1>3, <2>2
  <2> QED
    BY <2>1, <2>2
<1> HIDE DEF f, taken
<1>6. /\ IsFrame(g) /\ g.proc = f.proc /\ g.handlers = f.handlers /\ g.stack = f.stack
      /\ g.pc = IF taken THEN Instr.target ELSE f.pc + 1
  <2>1. CASE taken
    <3>1. g = [f EXCEPT !.pc = Instr.target]
      BY <2>1
    <3> HIDE DEF g
    <3>2. g = [proc |-> f.proc, pc |-> Instr.target, stack |-> f.stack, dot |-> f.dot,
               handlers |-> f.handlers, locals |-> f.locals, supplied |-> f.supplied]
      BY <1>5, <3>1 DEF IsFrame
    <3> QED
      BY <2>1, <3>2 DEF IsFrame
  <2>2. CASE ~taken
    BY <1>5, <2>2, AdvanceFrame
  <2> QED
    BY <2>1, <2>2
<1> HIDE DEF g
<1>7. Len(g.stack) = Len(Top.stack) - Takes(Instr) + Leaves(Instr)
  <2>1. Takes(Instr) \in Nat /\ Leaves(Instr) = 0
    BY <1>3
  <2>2. Len(g.stack) = Len(Top.stack) - Takes(Instr)
    BY <1>5, <1>6
  <2> QED
    BY <1>2, <2>1, <2>2
<1>8. g.pc \in Successors(Code, Top.pc)
  BY <1>1, <1>3, <1>4, <1>5, <1>6
<1> QED
  BY <1>1, <1>3, <1>5, <1>6, <1>7, <1>8, StepOn

LEMMA PrepareStep ==
  ASSUME NEW depths, MachineInv(depths), PrepareIteration PROVE MachineInv(depths)'
<1> DEFINE g == Advance(Top)
<1>1. /\ frames # << >> /\ Instr.op = "PrepareIteration" /\ Step(g)
      /\ UNCHANGED <<loaded, queue>>
  BY DEF PrepareIteration, Running
<1>2. /\ IsFrame(Top) /\ IsSeq(Top.stack) /\ Instr = Code[Top.pc] /\ Len(Top.stack) \in Nat
  BY <1>1, TopFacts
<1>3. Takes(Instr) = 0 /\ Leaves(Instr) = 0 /\ Instr.op \notin {"BeginTry", "EndTry"}
        /\ Top.pc + 1 \in Successors(Code, Top.pc)
  BY <1>1, <1>2 DEF Successors, Takes, Leaves, Operators
<1>4. /\ IsFrame(g) /\ g.proc = Top.proc /\ g.handlers = Top.handlers /\ g.pc = Top.pc + 1
      /\ g.stack = Top.stack
  BY <1>2, AdvanceFrame
<1> HIDE DEF g
<1>5. Len(g.stack) = Len(Top.stack) - Takes(Instr) + Leaves(Instr)
  BY <1>2, <1>3, <1>4
<1> QED
  BY <1>1, <1>2, <1>3, <1>4, <1>5, StepOn

LEMMA NextLocalStep ==
  ASSUME NEW depths, MachineInv(depths), NextLocalListIteration PROVE MachineInv(depths)'
<1> DEFINE list == Top.locals[Instr.list]
           at == Top.locals[Instr.index]
           done == at > Len(list)
           locals == [Top.locals EXCEPT ![Instr.item] = list[at]]
           g == IF done THEN [Top EXCEPT !.pc = Instr.exit]
                ELSE [Top EXCEPT !.locals[Instr.item] = list[at], !.pc = @ + 7]
<1>1. /\ frames # << >> /\ Instr.op = "NextLocalListIteration" /\ Step(g)
      /\ UNCHANGED <<loaded, queue>>
  BY DEF NextLocalListIteration, Running
<1>2. /\ IsFrame(Top) /\ IsSeq(Top.stack) /\ Instr = Code[Top.pc] /\ Len(Top.stack) \in Nat
  BY <1>1, TopFacts
<1>3. /\ Takes(Instr) = 0 /\ Leaves(Instr) = 0 /\ Instr.op \notin {"BeginTry", "EndTry"}
      /\ Instr.exit \in Successors(Code, Top.pc) /\ Top.pc + 7 \in Successors(Code, Top.pc)
  BY <1>1, <1>2 DEF Successors, Takes, Leaves, Operators
<1>4. /\ IsFrame(g) /\ g.proc = Top.proc /\ g.handlers = Top.handlers /\ g.stack = Top.stack
      /\ g.pc \in {Instr.exit, Top.pc + 7}
  <2>1. CASE done
    <3>1. g = [Top EXCEPT !.pc = Instr.exit]
      BY <2>1
    <3> HIDE DEF g
    <3>2. g = [proc |-> Top.proc, pc |-> Instr.exit, stack |-> Top.stack, dot |-> Top.dot,
               handlers |-> Top.handlers, locals |-> Top.locals, supplied |-> Top.supplied]
      BY <1>2, <3>1 DEF IsFrame
    <3> QED
      BY <3>2 DEF IsFrame
  <2>2. CASE ~done
    <3>1. g = [Top EXCEPT !.locals = locals, !.pc = Top.pc + 7]
      BY <2>2
    <3> HIDE DEF g, locals
    <3>2. g = [proc |-> Top.proc, pc |-> Top.pc + 7, stack |-> Top.stack, dot |-> Top.dot,
               handlers |-> Top.handlers, locals |-> locals, supplied |-> Top.supplied]
      BY <1>2, <3>1 DEF IsFrame
    <3> QED
      BY <3>2 DEF IsFrame
  <2> QED
    BY <2>1, <2>2
<1> HIDE DEF g
<1>5. Len(g.stack) = Len(Top.stack) - Takes(Instr) + Leaves(Instr)
  BY <1>2, <1>3, <1>4
<1> QED
  BY <1>1, <1>2, <1>3, <1>4, <1>5, StepOn

(* A try begins: its handler is the last.                                  *)
LEMMA BeginTryStep ==
  ASSUME NEW depths, MachineInv(depths), BeginTry PROVE MachineInv(depths)'
<1> DEFINE pc == Top.pc
           hs == Top.handlers
           depth == depths[Top.proc]
           h == [start |-> pc + 1, end |-> Instr.end, catch |-> Instr.catch,
                 slot |-> Instr.slot, depth |-> Len(Top.stack)]
           f == [Top EXCEPT !.handlers = Append(hs, h)]
           g == Advance(f)
<1>1. frames # << >> /\ Instr.op = "BeginTry" /\ Step(g) /\ UNCHANGED <<loaded, queue>>
  BY DEF BeginTry, Running
<1>2. /\ FrameOK(Top, module, depths) /\ Runs(Top, depths)
      /\ IsFrame(Top) /\ IsSeq(Top.stack) /\ IsSeq(hs) /\ Instr = Code[pc]
      /\ Code = module[Top.proc].code /\ VerifiedAt(Code, depth, pc, DOMAIN module)
  BY <1>1, TopFacts
<1>3. /\ pc \in DOMAIN depth /\ pc \in Nat /\ pc \in DOMAIN Code
      /\ DOMAIN Code \subseteq Nat /\ VerifiedCode(Code, depth, DOMAIN module)
  <2>1. Verified(module, depths)
    BY DEF MachineInv
  <2> QED
    BY <1>2, <2>1, CodeOf DEF FrameOK
<1>4. pc + 1 \in Successors(Code, pc) /\ Takes(Instr) = 0 /\ Leaves(Instr) = 0
  BY <1>1, <1>2 DEF Successors, Takes, Leaves, Operators
<1>5. /\ pc + 1 \in DOMAIN depth /\ depth[pc] = 0 /\ depth[pc + 1] = 0
      /\ Tries(Code, pc + 1) \subseteq Tries(Code, pc) \cup {pc}
  <2>1. VerifiedAt(Code, depth, pc, DOMAIN module)
    BY <1>2
  <2>2. Code[pc].op = "BeginTry" /\ Takes(Code[pc]) = 0 /\ Leaves(Code[pc]) = 0
    BY <1>1, <1>2, <1>4
  <2> HIDE DEF pc, depth
  <2>3. depth[pc] = 0
    BY <2>1, <2>2 DEF VerifiedAt
  <2>4. /\ pc + 1 \in DOMAIN depth
        /\ depth[pc + 1] = depth[pc] - Takes(Code[pc]) + Leaves(Code[pc])
        /\ Tries(Code, pc + 1) \subseteq Tries(Code, pc) \cup {pc}
    BY <1>4, <2>1 DEF VerifiedAt
  <2> QED
    BY <2>2, <2>3, <2>4
<1>6. Len(Top.stack) = 0
  BY <1>2, <1>5 DEF Runs
<1>7. /\ IsSeq(Append(hs, h)) /\ Len(Append(hs, h)) = Len(hs) + 1 /\ Len(hs) \in Nat
      /\ \A n \in 1 .. Len(hs) : Append(hs, h)[n] = hs[n]
      /\ Append(hs, h)[Len(hs) + 1] = h
  BY <1>2, SeqAppend, SeqDomain
<1>8. h.start = pc + 1
  OBVIOUS
<1>9. h = [start |-> pc + 1, end |-> Code[pc].end, catch |-> Code[pc].catch,
           slot |-> Code[pc].slot, depth |-> 0]
  BY <1>2, <1>6
<1> HIDE DEF h
<1> DEFINE ks == Append(hs, h)
<1>10. /\ IsFrame(g) /\ g.proc = Top.proc /\ g.pc = pc + 1 /\ g.stack = Top.stack
       /\ g.handlers = ks
  <2> HIDE DEF ks
  <2>1. f = [proc |-> Top.proc, pc |-> pc, stack |-> Top.stack, dot |-> Top.dot,
             handlers |-> ks, locals |-> Top.locals, supplied |-> Top.supplied]
    <3>1. IsFrame(Top) /\ f = [Top EXCEPT !.handlers = ks]
      BY <1>2 DEF ks
    <3> HIDE DEF f
    <3> QED
      BY <3>1 DEF IsFrame
  <2> HIDE DEF f
  <2>2. /\ IsFrame(f) /\ f.proc = Top.proc /\ f.pc = pc /\ f.stack = Top.stack
        /\ f.handlers = ks
    BY <2>1 DEF IsFrame
  <2> QED
    BY <2>2, AdvanceFrame
<1>11. DOMAIN ks = 1 .. Len(hs) + 1 /\ DOMAIN hs = 1 .. Len(hs)
  BY <1>2, <1>7, SeqDomain
<1>12. FromTries(ks, Code, depth)
  <2> HIDE DEF ks
  <2>1. FromTries(hs, Code, depth)
    BY <1>2 DEF FrameOK
  <2>2. ASSUME NEW n \in DOMAIN ks
        PROVE  \E b \in DOMAIN depth :
                 /\ Code[b].op = "BeginTry"
                 /\ ks[n] = [start |-> b + 1, end |-> Code[b].end, catch |-> Code[b].catch,
                             slot |-> Code[b].slot, depth |-> 0]
    <3>1. CASE n = Len(hs) + 1
      <4>1. ks[n] = h
        BY <1>7, <3>1 DEF ks
      <4> QED
        BY <1>1, <1>2, <1>3, <1>9, <4>1
    <3>2. CASE n # Len(hs) + 1
      <4>1. n \in DOMAIN hs /\ ks[n] = hs[n]
        BY <1>7, <1>11, <2>2, <3>2 DEF ks
      <4> QED
        BY <2>1, <4>1 DEF FromTries
    <3> QED
      BY <3>1, <3>2
  <2> QED
    BY <1>7, <2>2 DEF FromTries, ks
<1>13. InForce(ks, Tries(Code, pc + 1))
  <2> SUFFICES ASSUME NEW b \in Tries(Code, pc + 1)
               PROVE  \E i \in DOMAIN ks :
                        /\ ks[i].start = b + 1
                        /\ \A j \in DOMAIN ks :
                             j > i /\ ks[j].start - 1 \in Tries(Code, pc + 1)
                               => ks[j].start >= b + 1
    BY DEF InForce
  <2>1. b \in Nat
    BY <1>3 DEF Tries
  <2> HIDE DEF ks
  <2>2. /\ \A n \in 1 .. Len(hs) : ks[n] = hs[n]
        /\ ks[Len(hs) + 1] = h
    BY <1>7 DEF ks
  <2>3. CASE b = pc
    <3>1. ks[Len(hs) + 1].start = b + 1 /\ Len(hs) + 1 \in DOMAIN ks
      BY <1>7, <1>8, <1>11, <2>2, <2>3
    <3>2. \A j \in DOMAIN ks : ~(j > Len(hs) + 1)
      BY <1>7, <1>11
    <3> QED
      BY <3>1, <3>2
  <2>4. CASE b # pc
    <3>1. b \in Tries(Code, pc) /\ b < pc
      BY <1>5, <2>4 DEF Tries
    <3>2. PICK i \in DOMAIN hs :
            /\ hs[i].start = b + 1
            /\ \A j \in DOMAIN hs : j > i /\ hs[j].start - 1 \in Tries(Code, pc)
                                      => hs[j].start >= b + 1
      BY <1>2, <3>1 DEF FrameOK, InForce
    <3>3. i \in DOMAIN ks /\ ks[i].start = b + 1
      BY <1>7, <1>11, <2>2, <3>2
    <3>4. ASSUME NEW j \in DOMAIN ks, j > i, ks[j].start - 1 \in Tries(Code, pc + 1)
          PROVE  ks[j].start >= b + 1
      <4>1. CASE j = Len(hs) + 1
        BY <1>3, <1>8, <2>1, <2>2, <3>1, <4>1
      <4>2. CASE j # Len(hs) + 1
        <5>1. j \in DOMAIN hs /\ ks[j] = hs[j]
          BY <1>7, <1>11, <2>2, <4>2
        <5>2. CASE hs[j].start - 1 = pc
          <6>1. PICK c \in DOMAIN depth : hs[j].start = c + 1
            <7>1. PICK c \in DOMAIN depth :
                    hs[j] = [start |-> c + 1, end |-> Code[c].end, catch |-> Code[c].catch,
                             slot |-> Code[c].slot, depth |-> 0]
              BY <1>2, <5>1 DEF FrameOK, FromTries
            <7> QED
              BY <7>1
          <6>2. c \in Nat
            BY <1>3 DEF VerifiedCode
          <6> QED
            BY <1>3, <2>1, <3>1, <5>1, <5>2, <6>1, <6>2
        <5>3. CASE hs[j].start - 1 # pc
          BY <1>5, <3>2, <3>4, <5>1, <5>3
        <5> QED
          BY <5>2, <5>3
      <4> QED
        BY <4>1, <4>2
    <3> QED
      BY <3>3, <3>4
  <2> QED
    BY <2>3, <2>4
<1> HIDE DEF g, ks
<1>14. FrameOK(g, module, depths) /\ Runs(g, depths)
  BY <1>2, <1>5, <1>6, <1>10, <1>12, <1>13 DEF FrameOK, Runs
<1> QED
  BY <1>1, <1>14, StepTo

(* A try ends: the last handler goes, which is its own or one that is no   *)
(* longer in force.                                                        *)
LEMMA EndTryStep ==
  ASSUME NEW depths, MachineInv(depths), EndTry PROVE MachineInv(depths)'
<1> DEFINE pc == Top.pc
           hs == Top.handlers
           depth == depths[Top.proc]
           ks == Front(hs)
           f == [Top EXCEPT !.handlers = ks]
           g == Advance(f)
<1>1. frames # << >> /\ Instr.op = "EndTry" /\ Step(g) /\ UNCHANGED <<loaded, queue>>
  BY DEF EndTry, Running
<1>2. /\ FrameOK(Top, module, depths) /\ Runs(Top, depths)
      /\ IsFrame(Top) /\ IsSeq(Top.stack) /\ IsSeq(hs) /\ Instr = Code[pc]
      /\ Code = module[Top.proc].code /\ VerifiedAt(Code, depth, pc, DOMAIN module)
  BY <1>1, TopFacts
<1>3. /\ pc \in DOMAIN depth /\ pc \in Nat /\ pc \in DOMAIN Code
      /\ DOMAIN Code \subseteq Nat /\ VerifiedCode(Code, depth, DOMAIN module)
  <2>1. Verified(module, depths)
    BY DEF MachineInv
  <2> QED
    BY <1>2, <2>1, CodeOf DEF FrameOK
<1>4. pc + 1 \in Successors(Code, pc) /\ Takes(Instr) = 0 /\ Leaves(Instr) = 0
  BY <1>1, <1>2 DEF Successors, Takes, Leaves, Operators
<1>5. /\ pc + 1 \in DOMAIN depth /\ depth[pc] = 0 /\ depth[pc + 1] = 0
      /\ Tries(Code, pc + 1) \subseteq Tries(Code, pc) \cup {pc}
      /\ \E b \in Tries(Code, pc) : Code[b].end = pc /\ \A o \in Tries(Code, pc) : o <= b
  <2>1. VerifiedAt(Code, depth, pc, DOMAIN module)
    BY <1>2
  <2>2. Code[pc].op = "EndTry" /\ Takes(Code[pc]) = 0 /\ Leaves(Code[pc]) = 0
    BY <1>1, <1>2, <1>4
  <2> HIDE DEF pc, depth
  <2>3. depth[pc] = 0
    BY <2>1, <2>2 DEF VerifiedAt
  <2>4. /\ pc + 1 \in DOMAIN depth
        /\ depth[pc + 1] = depth[pc] - Takes(Code[pc]) + Leaves(Code[pc])
        /\ Tries(Code, pc + 1) \subseteq Tries(Code, pc) \cup {pc}
    BY <1>4, <2>1 DEF VerifiedAt
  <2>5. \E b \in Tries(Code, pc) : Code[b].end = pc /\ \A o \in Tries(Code, pc) : o <= b
    BY <2>1, <2>2 DEF VerifiedAt
  <2> QED
    BY <2>2, <2>3, <2>4, <2>5
<1>6. PICK c \in Tries(Code, pc) : Code[c].end = pc /\ \A o \in Tries(Code, pc) : o <= c
  BY <1>5
<1>7. PICK k \in DOMAIN hs :
        /\ hs[k].start = c + 1
        /\ \A j \in DOMAIN hs : j > k /\ hs[j].start - 1 \in Tries(Code, pc)
                                  => hs[j].start >= c + 1
  BY <1>2 DEF FrameOK, InForce
<1>8. Len(hs) \in Nat /\ DOMAIN hs = 1 .. Len(hs) /\ k \in 1 .. Len(hs)
  BY <1>2, <1>7, SeqDomain
<1>9. /\ IsSeq(ks) /\ Len(ks) = Len(hs) - 1 /\ DOMAIN ks = 1 .. Len(hs) - 1
      /\ \A n \in 1 .. Len(hs) - 1 : ks[n] = hs[n]
  <2>1. Len(hs) - 1 \in 0 .. Len(hs) /\ ks = SubSeq(hs, 1, Len(hs) - 1)
    BY <1>8 DEF Front
  <2>2. /\ IsSeq(ks) /\ Len(ks) = Len(hs) - 1
        /\ \A n \in 1 .. Len(hs) - 1 : ks[n] = hs[n]
    BY <1>2, <2>1, SeqPrefix
  <2> QED
    BY <2>2, SeqDomain
<1> HIDE DEF ks
<1>10. /\ IsFrame(g) /\ g.proc = Top.proc /\ g.pc = pc + 1 /\ g.stack = Top.stack
       /\ g.handlers = ks
  <2>1. f = [proc |-> Top.proc, pc |-> pc, stack |-> Top.stack, dot |-> Top.dot,
             handlers |-> ks, locals |-> Top.locals, supplied |-> Top.supplied]
    BY <1>2 DEF IsFrame
  <2> HIDE DEF f
  <2>2. /\ IsFrame(f) /\ f.proc = Top.proc /\ f.pc = pc /\ f.stack = Top.stack
        /\ f.handlers = ks
    BY <2>1 DEF IsFrame
  <2> QED
    BY <2>2, AdvanceFrame
<1>11. FromTries(ks, Code, depth)
  BY <1>2, <1>8, <1>9 DEF FrameOK, FromTries
<1>12. c \in Nat /\ Tries(Code, pc + 1) \subseteq Tries(Code, pc) /\ c \notin Tries(Code, pc + 1)
  <2>1. pc \notin Tries(Code, pc + 1)
    BY <1>1, <1>2 DEF Tries
  <2>2. c \in Nat
    BY <1>3, <1>6 DEF Tries
  <2>3. c \notin Tries(Code, pc + 1)
    BY <1>3, <1>6 DEF Tries
  <2> QED
    BY <1>5, <2>1, <2>2, <2>3
<1>13. InForce(ks, Tries(Code, pc + 1))
  <2> SUFFICES ASSUME NEW b \in Tries(Code, pc + 1)
               PROVE  \E i \in DOMAIN ks :
                        /\ ks[i].start = b + 1
                        /\ \A j \in DOMAIN ks :
                             j > i /\ ks[j].start - 1 \in Tries(Code, pc + 1)
                               => ks[j].start >= b + 1
    BY DEF InForce
  <2>1. b \in Nat /\ b \in Tries(Code, pc) /\ b <= c /\ b # c
    BY <1>3, <1>6, <1>12 DEF Tries
  <2>2. PICK i \in DOMAIN hs :
          /\ hs[i].start = b + 1
          /\ \A j \in DOMAIN hs : j > i /\ hs[j].start - 1 \in Tries(Code, pc)
                                    => hs[j].start >= b + 1
    BY <1>2, <2>1 DEF FrameOK, InForce
  <2>3. ~(i > k)
    <3>1. hs[i].start - 1 = b /\ ~(hs[i].start >= c + 1)
      BY <1>12, <2>1, <2>2
    <3> QED
      BY <1>7, <2>1, <2>2, <3>1
  <2>4. i # k
    BY <1>7, <1>12, <2>1, <2>2
  <2>5. i \in 1 .. Len(hs) - 1
    BY <1>8, <2>2, <2>3, <2>4
  <2>6. ASSUME NEW j \in DOMAIN ks, j > i, ks[j].start - 1 \in Tries(Code, pc + 1)
        PROVE  ks[j].start >= b + 1
    <3>1. j \in DOMAIN hs /\ ks[j] = hs[j]
      BY <1>8, <1>9, <2>6
    <3> QED
      BY <1>12, <2>2, <2>6, <3>1
  <2> QED
    BY <1>9, <2>2, <2>5, <2>6
<1>14. Len(Top.stack) = 0
  BY <1>2, <1>5 DEF Runs
<1> HIDE DEF g
<1>15. FrameOK(g, module, depths) /\ Runs(g, depths)
  BY <1>2, <1>5, <1>10, <1>11, <1>13, <1>14 DEF FrameOK, Runs
<1> QED
  BY <1>1, <1>15, StepTo

(* The operands of the last frame go with a failure.                       *)
LEMMA PoppedFrames ==
  ASSUME NEW depths, MachineInv(depths), frames # << >>, NEW n \in 0 .. Len(Top.stack)
  PROVE  /\ FramesOK(WithTop(Pop(Top, n)), module, depths)
         /\ Len(WithTop(Pop(Top, n))) > 0
         /\ WithTop(Pop(Top, n))[Len(WithTop(Pop(Top, n)))] = Pop(Top, n)
         /\ Pop(Top, n).proc = Top.proc /\ Pop(Top, n).pc = Top.pc
         /\ Len(Pop(Top, n).stack) = Len(Top.stack) - n
<1> DEFINE p == Pop(Top, n)
<1>1. /\ FramesOK(frames, module, depths) /\ Len(frames) > 0 /\ FrameOK(Top, module, depths)
      /\ IsFrame(Top) /\ IsSeq(Top.stack)
  BY TopFacts
<1>2. /\ IsFrame(p) /\ p.proc = Top.proc /\ p.pc = Top.pc /\ p.handlers = Top.handlers
      /\ IsSeq(p.stack) /\ Len(p.stack) = Len(Top.stack) - n
  BY <1>1, PopFrame
<1> HIDE DEF p
<1>3. FrameOK(p, module, depths)
  BY <1>1, <1>2 DEF FrameOK
<1> DEFINE fs == [frames EXCEPT ![Len(frames)] = p]
<1>4. FramesOK(fs, module, depths) /\ Len(fs) = Len(frames) /\ fs[Len(frames)] = p
  BY <1>1, <1>3, TopReplaced
<1>5. WithTop(p) = fs
  BY DEF WithTop
<1> HIDE DEF fs
<1>6. /\ FramesOK(WithTop(p), module, depths) /\ Len(WithTop(p)) > 0
      /\ WithTop(p)[Len(WithTop(p))] = p
  BY <1>1, <1>4, <1>5
<1> QED
  BY <1>2, <1>6 DEF p

LEMMA RaiseStep == ASSUME NEW depths, MachineInv(depths), Raise PROVE MachineInv(depths)'
<1> DEFINE fs == WithTop(Pop(Top, 1))
           v == Operand(Top, 0)
<1>1. /\ frames # << >> /\ Instr.op \in {"Throw", "Crash"} /\ UNCHANGED <<loaded, queue>>
      /\ FinishFrame(fs, Null) \/ Unwind(fs, v)
  BY DEF Raise, Running
<1> HIDE DEF v
<1>2. Takes(Instr) <= Len(Top.stack) /\ Len(Top.stack) \in Nat /\ Takes(Instr) = 1
  BY <1>1, TopFacts DEF Takes, Operators
<1>3. FramesOK(fs, module, depths) /\ Len(fs) > 0
  <2>1. 1 \in 0 .. Len(Top.stack)
    BY <1>2
  <2> QED
    BY <1>1, <2>1, PoppedFrames
<1> HIDE DEF fs
<1>4. Verified(module, depths)
  BY DEF MachineInv
<1>5. ThreadOK(frames', module, depths)
  <2>1. CASE FinishFrame(fs, Null)
    BY <1>3, <1>4, <2>1, FinishOK
  <2>2. CASE Unwind(fs, v)
    BY <1>3, <1>4, <2>2, UnwindOK
  <2> QED
    BY <1>1, <2>1, <2>2
<1> QED
  BY <1>1, <1>5, InvKept

LEMMA NativeStep == ASSUME NEW depths, MachineInv(depths), Native PROVE MachineInv(depths)'
<1>1. frames # << >> /\ Instr.op = "Ask" /\ UNCHANGED <<loaded, queue>>
  BY DEF Native, Running
<1>2. PICK v \in Answers :
        IF v = Fail THEN Unwind(frames, Fail)
        ELSE Step(Advance(PushOn(Top, v))) /\ UNCHANGED trace
  BY DEF Native
<1>3. /\ FramesOK(frames, module, depths) /\ Len(frames) > 0
      /\ IsFrame(Top) /\ IsSeq(Top.stack) /\ Instr = Code[Top.pc] /\ Len(Top.stack) \in Nat
  BY <1>1, TopFacts
<1>4. CASE v = Fail
  <2>1. Verified(module, depths) /\ Unwind(frames, Fail)
    BY <1>2, <1>4 DEF MachineInv
  <2>2. ThreadOK(frames', module, depths)
    BY <1>3, <2>1, UnwindOK
  <2> QED
    BY <1>1, <2>2, InvKept
<1>5. CASE v # Fail
  <2> DEFINE g == Advance(PushOn(Top, v))
  <2>1. Step(g)
    BY <1>2, <1>5
  <2>2. /\ IsFrame(g) /\ g.proc = Top.proc /\ g.handlers = Top.handlers /\ g.pc = Top.pc + 1
        /\ IsSeq(g.stack) /\ Len(g.stack) = Len(Top.stack) + 1
    BY <1>3, PushFrame, AdvanceFrame
  <2>3. /\ Instr.op \notin {"BeginTry", "EndTry"} /\ Top.pc + 1 \in Successors(Code, Top.pc)
        /\ Takes(Instr) = 0 /\ Leaves(Instr) = 1
    BY <1>1, <1>3 DEF Successors, Takes, Leaves, Operators
  <2> HIDE DEF g
  <2>4. Len(g.stack) = Len(Top.stack) - Takes(Instr) + Leaves(Instr)
    BY <1>3, <2>2, <2>3
  <2> QED
    BY <1>1, <2>1, <2>2, <2>3, <2>4, StepOn
<1> QED
  BY <1>4, <1>5

LEMMA MakeFrameOK ==
  ASSUME NEW depths, Verified(module, depths), NEW p \in DOMAIN module, NEW args
  PROVE  FrameOK(MakeFrame(p, args), module, depths) /\ Runs(MakeFrame(p, args), depths)
<1> DEFINE g == MakeFrame(p, args)
<1>1. IsFrame(g) /\ g.proc = p /\ g.pc = 1 /\ g.stack = << >> /\ g.handlers = << >>
  BY DEF MakeFrame, IsFrame
<1> HIDE DEF g
<1>2. FrameOK(g, module, depths) /\ Runs(g, depths)
  BY <1>1, StartsOK
<1> QED
  BY <1>2 DEF g

LEMMA CallStep == ASSUME NEW depths, MachineInv(depths), Call PROVE MachineInv(depths)'
<1> DEFINE n == Instr.count
           fs == WithTop(Pop(Top, n))
           args == SubSeq(Top.stack, Len(Top.stack) - n + 1, Len(Top.stack))
           g == MakeFrame(Instr.proc, args)
<1>1. /\ frames # << >> /\ Instr.op = "Call" /\ UNCHANGED <<loaded, queue>>
      /\ Fatal \/ frames' = Append(fs, g)
  BY DEF Call, Running
<1> HIDE DEF args
<1>2. /\ Runs(Top, depths) /\ Instr = Code[Top.pc] /\ Code = module[Top.proc].code
      /\ VerifiedAt(Code, depths[Top.proc], Top.pc, DOMAIN module)
      /\ Takes(Instr) \in Nat /\ Takes(Instr) <= Len(Top.stack) /\ Len(Top.stack) \in Nat
  BY <1>1, TopFacts
<1>3. Takes(Instr) = n
  BY <1>1 DEF Takes, Operators
<1>4. Instr.proc \in DOMAIN module
  <2>1. Code[Top.pc].op = "Call" => Code[Top.pc].proc \in DOMAIN module
    BY <1>2 DEF VerifiedAt
  <2> QED
    BY <1>1, <1>2, <2>1
<1>5. Verified(module, depths)
  BY DEF MachineInv
<1>6. /\ FramesOK(fs, module, depths) /\ fs[Len(fs)] = Pop(Top, n)
      /\ Pop(Top, n).proc = Top.proc /\ Pop(Top, n).pc = Top.pc
      /\ Len(Pop(Top, n).stack) = Len(Top.stack) - n
  <2>1. n \in 0 .. Len(Top.stack)
    BY <1>2, <1>3
  <2> QED
    BY <1>1, <2>1, PoppedFrames
<1>7. Waits(fs[Len(fs)], module, depths)
  BY <1>1, <1>2, <1>6 DEF Waits, Runs
<1>8. FrameOK(g, module, depths) /\ Runs(g, depths)
  BY <1>4, <1>5, MakeFrameOK
<1> HIDE DEF fs, g
<1>9. ThreadOK(frames', module, depths)
  <2>1. CASE Fatal
    BY <2>1, NoFrames DEF Fatal
  <2>2. CASE frames' = Append(fs, g)
    BY <1>6, <1>7, <1>8, <2>2, FramePushed
  <2> QED
    BY <1>1, <2>1, <2>2
<1> QED
  BY <1>1, <1>9, InvKept

LEMMA ReturnStep == ASSUME NEW depths, MachineInv(depths), ReturnFrom PROVE MachineInv(depths)'
<1>1. frames # << >> /\ FinishFrame(frames, Operand(Top, 0)) /\ UNCHANGED <<loaded, queue>>
  BY DEF ReturnFrom, Running
<1>2. FramesOK(frames, module, depths) /\ Len(frames) > 0 /\ Verified(module, depths)
  BY <1>1, TopFacts DEF MachineInv
<1>3. ThreadOK(frames', module, depths)
  BY <1>1, <1>2, FinishOK
<1> QED
  BY <1>1, <1>3, InvKept

(* The frame that was copied starts with no operands where the other       *)
(* thread's part begins, its handlers those in force there.                *)
LEMMA SpawnStep == ASSUME NEW depths, MachineInv(depths), SpawnThread PROVE MachineInv(depths)'
<1> DEFINE g == Advance(Pop(Top, 1))
           s == [Top EXCEPT !.pc = Instr.target, !.stack = << >>]
           depth == depths[Top.proc]
<1>1. /\ frames # << >> /\ Instr.op = "Spawn" /\ Step(g) /\ UNCHANGED loaded
      /\ queue' = Append(queue, s)
  BY DEF SpawnThread, Running
<1>2. /\ FramesOK(frames, module, depths) /\ Len(frames) > 0
      /\ FrameOK(Top, module, depths) /\ Runs(Top, depths) /\ IsFrame(Top) /\ IsSeq(Top.stack)
      /\ Code = module[Top.proc].code /\ Instr = Code[Top.pc]
      /\ VerifiedAt(Code, depth, Top.pc, DOMAIN module)
      /\ Takes(Instr) <= Len(Top.stack) /\ Len(Top.stack) \in Nat
  BY <1>1, TopFacts
<1>3. Takes(Instr) = 1 /\ Leaves(Instr) = 0 /\ Instr.op \notin {"BeginTry", "EndTry"}
        /\ Top.pc + 1 \in Successors(Code, Top.pc) /\ Instr.target \in Entries(Code[Top.pc])
  BY <1>1, <1>2 DEF Successors, Takes, Leaves, Operators, Entries
<1>4. 1 \in 0 .. Len(Top.stack)
  BY <1>2, <1>3
<1>5. /\ IsFrame(g) /\ g.proc = Top.proc /\ g.handlers = Top.handlers /\ g.pc = Top.pc + 1
      /\ IsSeq(g.stack) /\ Len(g.stack) = Len(Top.stack) - 1
  BY <1>2, <1>4, PopAdvanceFrame
<1> HIDE DEF g
<1>6. Verified(module, depths)
  BY DEF MachineInv
<1>7. FrameOK(g, module, depths) /\ Runs(g, depths)
  <2>1. Len(g.stack) = depth[Top.pc] - Takes(Instr) + Leaves(Instr)
    BY <1>2, <1>3, <1>5 DEF Runs
  <2> QED
    BY <1>2, <1>3, <1>5, <1>6, <2>1, GoOn
<1>8. ThreadOK(frames', module, depths)
  <2> DEFINE gs == [frames EXCEPT ![Len(frames)] = g]
  <2>1. FramesOK(gs, module, depths) /\ Len(gs) = Len(frames) /\ gs[Len(frames)] = g
    BY <1>2, <1>7, TopReplaced
  <2>2. frames' = gs
    BY <1>1 DEF Step, WithTop
  <2> HIDE DEF gs
  <2> QED
    BY <1>7, <2>1, <2>2 DEF ThreadOK
<1>9. /\ IsFrame(s) /\ s.proc = Top.proc /\ s.pc = Instr.target /\ s.stack = << >>
      /\ s.handlers = Top.handlers
  <2> DEFINE none == << >>
             t == Instr.target
  <2>1. s = [Top EXCEPT !.pc = t, !.stack = none]
    OBVIOUS
  <2> HIDE DEF s, none, t
  <2>2. s = [proc |-> Top.proc, pc |-> t, stack |-> none, dot |-> Top.dot,
             handlers |-> Top.handlers, locals |-> Top.locals, supplied |-> Top.supplied]
    BY <1>2, <2>1 DEF IsFrame
  <2>3. /\ IsFrame(s) /\ s.proc = Top.proc /\ s.pc = t /\ s.stack = none
        /\ s.handlers = Top.handlers
    BY <2>2 DEF IsFrame
  <2> QED
    BY <2>3 DEF none, t
<1> HIDE DEF s
<1>10. FrameOK(s, module, depths) /\ Runs(s, depths)
  <2>1. /\ Instr.target \in DOMAIN depth /\ depth[Instr.target] = 0
        /\ Tries(Code, Instr.target) \subseteq Tries(Code, Top.pc)
    BY <1>2, <1>3 DEF VerifiedAt
  <2>2. InForce(s.handlers, Tries(Code, Instr.target))
    BY <1>2, <1>9, <2>1, InForceFewer DEF FrameOK
  <2> QED
    BY <1>2, <1>9, <2>1, <2>2, SeqSmall DEF FrameOK, Runs
<1>11. /\ IsSeq(queue) /\ Len(queue) \in Nat
       /\ \A n \in 1 .. Len(queue) : FrameOK(queue[n], module, depths) /\ Runs(queue[n], depths)
  BY SeqDomain DEF MachineInv
<1>12. /\ IsSeq(queue') /\ Len(queue') = Len(queue) + 1
       /\ \A n \in 1 .. Len(queue) : queue'[n] = queue[n]
       /\ queue'[Len(queue) + 1] = s
  BY <1>1, <1>11, SeqAppend
<1>13. ASSUME NEW n \in 1 .. Len(queue')
       PROVE  FrameOK(queue'[n], module, depths) /\ Runs(queue'[n], depths)
  <2>1. CASE n = Len(queue) + 1
    BY <1>10, <1>12, <2>1
  <2>2. CASE n # Len(queue) + 1
    <3>1. n \in 1 .. Len(queue)
      BY <1>11, <1>12, <1>13, <2>2
    <3> QED
      BY <1>11, <1>12, <3>1
  <2> QED
    BY <2>1, <2>2
<1>14. module' = module
  BY <1>1 DEF loaded
<1> QED
  BY <1>6, <1>8, <1>12, <1>13, <1>14 DEF MachineInv

LEMMA NextThreadStep ==
  ASSUME NEW depths, MachineInv(depths), NextThread PROVE MachineInv(depths)'
<1>1. queue # << >> /\ frames' = <<Head(queue)>> /\ queue' = Tail(queue) /\ module' = module
  BY DEF NextThread, loaded
<1>2. /\ IsSeq(queue) /\ Len(queue) \in Nat /\ Verified(module, depths)
      /\ \A n \in 1 .. Len(queue) : FrameOK(queue[n], module, depths) /\ Runs(queue[n], depths)
  BY SeqDomain DEF MachineInv
<1>3. Len(queue) > 0
  <2>1. Len(queue) # 0
    BY <1>1, <1>2, SeqSmall
  <2> QED
    BY <1>2, <2>1
<1>4. FrameOK(Head(queue), module, depths) /\ Runs(Head(queue), depths)
  <2>1. Head(queue) = queue[1] /\ 1 \in 1 .. Len(queue)
    BY <1>2, <1>3, SeqTail
  <2> QED
    BY <1>2, <2>1
<1>5. /\ IsSeq(frames') /\ Len(frames') = 1 /\ frames'[1] = Head(queue)
  BY <1>1, SeqSmall
<1>6. ThreadOK(frames', module, depths)
  <2>1. ASSUME NEW n \in 1 .. Len(frames') PROVE FrameOK(frames'[n], module, depths)
    <3>1. n = 1
      BY <1>5
    <3> QED
      BY <1>4, <1>5, <3>1
  <2>2. 1 .. Len(frames') - 1 = {}
    BY <1>5
  <2> QED
    BY <1>4, <1>5, <2>1, <2>2 DEF ThreadOK, FramesOK
<1>7. /\ IsSeq(queue') /\ Len(queue') = Len(queue) - 1
      /\ \A n \in 1 .. Len(queue) - 1 : queue'[n] = queue[n + 1]
  BY <1>1, <1>2, <1>3, SeqTail
<1>8. ASSUME NEW n \in 1 .. Len(queue')
      PROVE  FrameOK(queue'[n], module, depths) /\ Runs(queue'[n], depths)
  <2>1. n \in 1 .. Len(queue) - 1 /\ n + 1 \in 1 .. Len(queue)
    BY <1>2, <1>7
  <2> QED
    BY <1>2, <1>7, <2>1
<1> QED
  BY <1>1, <1>2, <1>6, <1>7, <1>8 DEF MachineInv

(* The depths of the operand stacks are those of the code, so that no step  *)
(* changes them.                                                           *)
MachineInvariant == \E depths : MachineInv(depths)

LEMMA MachineStart == VerifiedInit => MachineInvariant
<1> SUFFICES ASSUME NEW depths, Verified(module, depths), Started
             PROVE  MachineInv(depths)
  BY DEF VerifiedInit, MachineInvariant
<1> DEFINE g == MakeFrame("main", << >>)
<1>1. frames = <<g>> /\ queue = << >>
  BY DEF Started
<1>2. FrameOK(g, module, depths) /\ Runs(g, depths)
  BY MakeFrameOK DEF Verified
<1> HIDE DEF g
<1>3. IsSeq(frames) /\ Len(frames) = 1 /\ frames[1] = g
  BY <1>1, SeqSmall
<1>4. IsSeq(queue) /\ Len(queue) = 0
  BY <1>1, SeqSmall
<1>5. ThreadOK(frames, module, depths)
  BY <1>2, <1>3 DEF ThreadOK, FramesOK
<1> QED
  BY <1>4, <1>5 DEF MachineInv

LEMMA MachineStep ==
  ASSUME NEW depths, MachineInv(depths), [Next]_vars PROVE MachineInv(depths)'
<1>1. CASE Load
  BY <1>1, LoadStep
<1>2. CASE StoreTop
  BY <1>2, StoreTopStep
<1>3. CASE Output
  BY <1>3, OutputStep
<1>4. CASE Compute
  BY <1>4, ComputeStep
<1>5. CASE Branch
  BY <1>5, BranchStep
<1>6. CASE PrepareIteration
  BY <1>6, PrepareStep
<1>7. CASE NextLocalListIteration
  BY <1>7, NextLocalStep
<1>8. CASE BeginTry
  BY <1>8, BeginTryStep
<1>9. CASE EndTry
  BY <1>9, EndTryStep
<1>10. CASE Raise
  BY <1>10, RaiseStep
<1>11. CASE Native
  BY <1>11, NativeStep
<1>12. CASE Call
  BY <1>12, CallStep
<1>13. CASE ReturnFrom
  BY <1>13, ReturnStep
<1>14. CASE SpawnThread
  BY <1>14, SpawnStep
<1>15. CASE NextThread
  BY <1>15, NextThreadStep
<1>16. CASE UNCHANGED vars
  BY <1>16 DEF vars, loaded, MachineInv
<1> QED
  BY <1>1, <1>2, <1>3, <1>4, <1>5, <1>6, <1>7, <1>8, <1>9, <1>10, <1>11, <1>12, <1>13,
     <1>14, <1>15, <1>16 DEF Next

-----------------------------------------------------------------------------
(* What the invariant implies.                                             *)

LEMMA FrameCatches ==
  ASSUME NEW m, NEW depths, Verified(m, depths), NEW f, FrameOK(f, m, depths)
  PROVE  LET tries == Tries(m[f.proc].code, f.pc)
         IN  IF tries = {} THEN Selected(f) = 0
             ELSE /\ Selected(f) # 0
                  /\ f.handlers[Selected(f)].start
                       = 1 + CHOOSE b \in tries : \A o \in tries : o <= b
<1> DEFINE code == m[f.proc].code
           tries == Tries(code, f.pc)
           hs == f.handlers
           b == CHOOSE x \in tries : \A o \in tries : o <= x
<1>1. IsSeq(hs)
  BY DEF FrameOK, FromTries
<1>2. /\ Covering(f) \subseteq 1 .. Len(hs) /\ Len(hs) \in Nat /\ DOMAIN hs = 1 .. Len(hs)
      /\ Selected(f) = 0 <=> Covering(f) = {}
      /\ Selected(f) # 0 => Selected(f) \in Covering(f)
                             /\ \A o \in Covering(f) : o <= Selected(f)
  BY <1>1, SelectedLast, SeqDomain
<1>3. /\ \A n \in Covering(f) : hs[n].start - 1 \in tries
      /\ \A n \in DOMAIN hs, o \in tries : hs[n].start = o + 1 => n \in Covering(f)
  BY CoveringTries
<1>4. ASSUME tries = {} PROVE Selected(f) = 0
  BY <1>2, <1>3, <1>4
<1>5. ASSUME tries # {} PROVE Selected(f) # 0 /\ hs[Selected(f)].start = 1 + b
  <2>1. Len(code) \in Nat /\ tries \in SUBSET (1 .. Len(code))
    BY CodeOf DEF VerifiedCode, Tries
  <2>2. \E x \in tries : \A o \in tries : o <= x
    BY <1>5, <2>1, Greatest
  <2>3. b \in tries /\ \A o \in tries : o <= b
    BY <2>2
  <2> HIDE DEF b
  <2>4. b \in Nat
    BY <2>1, <2>3
  <2>5. PICK i \in DOMAIN hs :
          /\ hs[i].start = b + 1
          /\ \A j \in DOMAIN hs : j > i /\ hs[j].start - 1 \in tries => hs[j].start >= b + 1
    BY <2>3 DEF FrameOK, InForce
  <2>6. i \in Covering(f)
    BY <1>3, <2>3, <2>5
  <2>7. Selected(f) \in Covering(f) /\ i <= Selected(f) /\ Selected(f) # 0
    BY <1>2, <2>6
  <2> DEFINE k == Selected(f)
  <2>8. k \in DOMAIN hs /\ k \in Nat /\ i \in Nat /\ hs[k].start - 1 \in tries
    BY <1>2, <1>3, <2>7
  <2>9. PICK c \in DOMAIN depths[f.proc] : hs[k].start = c + 1
    <3>1. PICK c \in DOMAIN depths[f.proc] :
            hs[k] = [start |-> c + 1, end |-> code[c].end, catch |-> code[c].catch,
                     slot |-> code[c].slot, depth |-> 0]
      BY <2>8 DEF FrameOK, FromTries
    <3> QED
      BY <3>1
  <2>10. c \in Nat
    BY CodeOf DEF VerifiedCode
  <2>11. c <= b
    BY <2>3, <2>8, <2>9, <2>10
  <2> HIDE DEF k
  <2>12. hs[k].start = b + 1
    <3>1. CASE k = i
      BY <2>5, <3>1
    <3>2. CASE k # i
      <4>1. k > i
        <5>1. i <= k
          BY <2>7 DEF k
        <5>2. i \in Nat /\ k \in Nat
          BY <2>8
        <5> QED
          BY <3>2, <5>1, <5>2
      <4>2. hs[k].start >= b + 1
        BY <2>5, <2>8, <4>1
      <4> QED
        BY <2>4, <2>9, <2>10, <2>11, <4>2
    <3> QED
      BY <3>1, <3>2
  <2> QED
    BY <2>4, <2>7, <2>12 DEF k
<1> QED
  BY <1>4, <1>5

LEMMA InvCatches == ASSUME MachineInvariant PROVE InnermostCatches
<1> PICK depths : MachineInv(depths)
  BY DEF MachineInvariant
<1>1. Verified(module, depths) /\ FramesOK(frames, module, depths)
  BY DEF MachineInv, ThreadOK
<1>2. ASSUME NEW n \in DOMAIN frames PROVE FrameOK(frames[n], module, depths)
  BY <1>1, <1>2, SeqDomain DEF FramesOK
<1> QED
  BY <1>1, <1>2, FrameCatches DEF InnermostCatches

LEMMA InvBalanced == ASSUME MachineInvariant PROVE StackBalanced
<1> PICK depths : MachineInv(depths)
  BY DEF MachineInvariant
<1>1. ASSUME frames # << >>
      PROVE  /\ Instr.op \in {"BeginTry", "EndTry", "NextLocalListIteration"}
                  => Top.stack = << >>
             /\ Instr.op = "Return" => Len(Top.stack) = 1
  <2> DEFINE d == depths[Top.proc][Top.pc]
  <2>1. /\ VerifiedAt(Code, depths[Top.proc], Top.pc, DOMAIN module)
        /\ Instr = Code[Top.pc] /\ Runs(Top, depths) /\ IsSeq(Top.stack)
    BY <1>1, TopFacts
  <2>2. /\ Instr.op \in {"BeginTry", "EndTry", "NextLocalListIteration"} => d = 0
        /\ Instr.op = "Return" => d = 1
    BY <2>1 DEF VerifiedAt
  <2>3. Len(Top.stack) = d
    BY <2>1 DEF Runs
  <2> QED
    BY <2>1, <2>2, <2>3, SeqSmall
<1> QED
  BY <1>1 DEF StackBalanced, Running

LEMMA InvTargets == ASSUME MachineInvariant PROVE TargetsInside
<1> PICK depths : MachineInv(depths)
  BY DEF MachineInvariant
<1>1. Verified(module, depths)
  BY DEF MachineInv
<1>2. ASSUME NEW p \in DOMAIN module, NEW n \in DOMAIN module[p].code
      PROVE  Targets(module[p].code[n]) \subseteq DOMAIN module[p].code
  BY <1>1 DEF Verified, VerifiedCode
<1>3. frames # << >> => Top.pc \in DOMAIN Code
  BY <1>1, TopFacts, CodeOf
<1> QED
  BY <1>2, <1>3 DEF TargetsInside

-----------------------------------------------------------------------------
(* On any verified module, whatever the native operations answer, however   *)
(* deep the calls and however many threads are spawned, the frames stay as   *)
(* the invariant says: every handler is that of a try of its procedure, the  *)
(* tries around the instruction have theirs in force, and the operands are   *)
(* as many as the instruction expects.                                      *)
THEOREM VerifiedRuns == VerifiedSpec => []MachineInvariant
<1>1. VerifiedInit => MachineInvariant
  BY MachineStart
<1>2. MachineInvariant /\ [Next]_vars => MachineInvariant'
  BY MachineStep DEF MachineInvariant
<1> QED
  BY <1>1, <1>2, PTL DEF VerifiedSpec

(* A failure is caught by the innermost try around the instruction, though   *)
(* a break or a continue leaves the handlers of its tries behind.           *)
THEOREM VerifiedCatches == VerifiedSpec => []InnermostCatches
<1>1. MachineInvariant => InnermostCatches
  BY InvCatches
<1> QED
  BY <1>1, VerifiedRuns, PTL

(* The operand stack is empty at both ends of a try and at the head of a     *)
(* list loop, and holds one value at a return, also after failures that      *)
(* interrupted an expression.                                               *)
THEOREM VerifiedBalanced == VerifiedSpec => []StackBalanced
<1>1. MachineInvariant => StackBalanced
  BY InvBalanced
<1> QED
  BY <1>1, VerifiedRuns, PTL

(* Execution stays inside its procedure: no jump, catch, spawned thread or   *)
(* successor leaves it.                                                     *)
THEOREM VerifiedTargets == VerifiedSpec => []TargetsInside
<1>1. MachineInvariant => TargetsInside
  BY InvTargets
<1> QED
  BY <1>1, VerifiedRuns, PTL

=============================================================================
