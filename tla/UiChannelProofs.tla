--------------------------- MODULE UiChannelProofs ---------------------------
(***************************************************************************)
(* Proofs about the UI channel, for any number of sessions and events, any *)
(* owner queue and any replay: first the server half (UiOutbox) alone,     *)
(* then the channel end to end, whose server half is the one of UiOutbox   *)
(* and whose client keeps the order of what it receives.                   *)
(***************************************************************************)
EXTENDS UiChannel, FiniteSetTheorems, SequenceTheorems, TLAPS

-----------------------------------------------------------------------------
(* The server half, for any number of sessions, events and kinds.          *)

(* A suffix of a sequence: its type, its length and its elements.           *)
LEMMA SuffixProperties ==
    ASSUME NEW S, NEW batch \in Seq(S), NEW n \in 0 .. Len(batch)
    PROVE  LET rest == SubSeq(batch, n + 1, Len(batch))
           IN  /\ rest \in Seq(S)
               /\ Len(rest) = Len(batch) - n
               /\ \A i \in 1 .. Len(rest) : rest[i] = batch[n + i]
<1> DEFINE rest == SubSeq(batch, n + 1, Len(batch))
<1>1. Len(batch) \in Nat
  OBVIOUS
<1>2. Len(rest) = Len(batch) - n
  BY <1>1
<1>3. \A i \in 1 .. Len(rest) : rest[i] = batch[n + i]
  BY <1>1, <1>2
<1>4. rest \in Seq(S)
  BY <1>1
<1> QED
  BY <1>2, <1>3, <1>4

(* What UiAck keeps of a batch with consecutive numbers is a suffix of it,  *)
(* and what it discards has numbers up to the acknowledged one.             *)
LEMMA AboveIsSuffix ==
    ASSUME NEW batch \in Seq(Item), NEW q \in Nat, NEW r \in Int,
           \A i \in 1 .. Len(batch) : batch[i].seq = r + i
    PROVE  \E n \in 0 .. Len(batch) :
             /\ Above(batch, q) = SubSeq(batch, n + 1, Len(batch))
             /\ n = 0 \/ r + n <= q
<1> DEFINE m == Len(batch)
           kept == {i \in 1 .. m : batch[i].seq > q}
           n == IF q <= r THEN 0 ELSE IF q - r >= m THEN m ELSE q - r
           place(k) == CHOOSE i \in kept : Cardinality({j \in kept : j <= i}) = k
           rest == SubSeq(batch, n + 1, m)
<1>1. m \in Nat
  OBVIOUS
<1>2. \A i \in 1 .. m : batch[i].seq = r + i
  OBVIOUS
<1>3. Above(batch, q) = [k \in 1 .. Cardinality(kept) |-> batch[place(k)]]
  BY DEF Above
<1>4. rest \in Seq(Item) /\ Len(rest) = m - n /\ \A i \in 1 .. m - n : rest[i] = batch[n + i]
  <2>1. n \in 0 .. m
    BY <1>1
  <2> HIDE DEF n
  <2> QED
    BY <2>1, SuffixProperties
<1> HIDE DEF m, rest
<1>5. n \in Nat /\ n \in 0 .. m /\ (n = 0 \/ r + n <= q) /\ kept = n + 1 .. m
  <2>1. n \in 0 .. m /\ (n = 0 \/ r + n <= q)
    BY <1>1
  <2>2. \A i \in 1 .. m : r + i > q <=> i > n
    BY <1>1
  <2> HIDE DEF n
  <2>3. \A i \in 1 .. m : batch[i].seq > q <=> i > n
    BY <1>2, <2>2
  <2>4. kept = {i \in 1 .. m : i > n}
    BY <2>3, Zenon
  <2> HIDE DEF kept
  <2>5. \A i : i \in {j \in 1 .. m : j > n} <=> i \in n + 1 .. m
    BY <1>1, <2>1
  <2>6. kept = n + 1 .. m
    BY <2>4, <2>5, Zenon
  <2> QED
    BY <1>1, <2>1, <2>6
<1> HIDE DEF n, kept
<1>6. \A i \in n .. m : Cardinality(n + 1 .. i) = i - n
  <2> SUFFICES ASSUME NEW i \in n .. m PROVE Cardinality(n + 1 .. i) = i - n
    OBVIOUS
  <2>1. n + 1 \in Int /\ i \in Int /\ i >= n
    BY <1>1, <1>5
  <2>2. Cardinality(n + 1 .. i) = IF n + 1 > i THEN 0 ELSE i - (n + 1) + 1
    BY <2>1, FS_Interval
  <2> QED
    BY <1>5, <2>1, <2>2
<1>7. Cardinality(kept) = m - n
  BY <1>1, <1>5, <1>6
<1>8. ASSUME NEW i \in kept PROVE Cardinality({j \in kept : j <= i}) = i - n
  <2>1. i \in n .. m /\ {j \in kept : j <= i} = n + 1 .. i
    BY <1>1, <1>5
  <2> QED
    BY <1>6, <2>1
<1>9. ASSUME NEW k \in 1 .. m - n PROVE place(k) = n + k
  <2>1. n + k \in kept /\ (n + k) - n = k
    BY <1>1, <1>5
  <2>2. \A i \in kept : i - n = k => i = n + k
    BY <1>1, <1>5
  <2> QED
    BY <1>8, <2>1, <2>2
<1> HIDE DEF place
<1>10. Above(batch, q) = [k \in 1 .. m - n |-> rest[k]]
  BY <1>3, <1>4, <1>7, <1>9
<1>11. rest = [k \in 1 .. m - n |-> rest[k]]
  BY <1>4
<1> QED
  BY <1>5, <1>10, <1>11 DEF rest, m

(* The numbered queue: one item per queued event, in queue order.           *)
LEMMA NumberedProperties ==
    ASSUME NEW queue \in Seq(Event), NEW n \in Number
    PROVE  /\ Numbered(queue, n) \in Seq(Item)
           /\ Len(Numbered(queue, n)) = Len(queue)
           /\ \A i \in 1 .. Len(queue) :
                /\ Numbered(queue, n)[i].seq = n + i - 1
                /\ Numbered(queue, n)[i].ev = queue[i]
<1> DEFINE m == Len(queue)
           numbered == [i \in 1 .. m |-> [seq |-> n + i - 1, ev |-> queue[i]]]
<1>1. m \in Nat /\ \A i \in 1 .. m : queue[i] \in Event
  OBVIOUS
<1>2. \A i \in 1 .. m : n + i - 1 \in Number
  BY <1>1 DEF Number
<1>3. \A i \in 1 .. m : [seq |-> n + i - 1, ev |-> queue[i]] \in Item
  BY <1>1, <1>2 DEF Item
<1>4. numbered \in [1 .. m -> Item]
  BY <1>3
<1>5. numbered \in Seq(Item)
  BY <1>1, <1>4, SeqDef
<1>7. Len(numbered) = m
  BY <1>1, <1>5, LenProperties
<1>6. Numbered(queue, n) = numbered
  BY DEF Numbered
<1> QED
  BY <1>5, <1>6, <1>7

(* A session that is not attached yet has no batch.                         *)
FutureSessionsEmpty == \A s \in Session : s > attached => retained[s] = << >>

(* The inductive invariant.                                                 *)
OutboxInv ==
    /\ OutboxTypeOK
    /\ SequencedInOrder
    /\ FutureSessionsEmpty

(* The numbers of a batch are consecutive.                                  *)
LEMMA Consecutive ==
    ASSUME NEW batch \in Seq(Item), NEW queue, NEW next \in Number, NEW count,
           InOrder(batch, queue, next, count)
    PROVE  \E r \in Int : \A i \in 1 .. Len(batch) : batch[i].seq = r + i
<1> DEFINE r == next - Len(batch) - 1
<1>1. Len(batch) \in Nat /\ next \in Int
  BY OutboxAssumption DEF Number
<1>2. r \in Int /\ \A i \in 1 .. Len(batch) : batch[i].seq = r + i
  BY <1>1 DEF InOrder
<1> QED
  BY <1>2

(* Acknowledging keeps the order.                                           *)
LEMMA InOrderSuffix ==
    ASSUME NEW batch \in Seq(Item), NEW queue \in Seq(Event),
           NEW next \in Number, NEW count \in Nat, NEW n \in 0 .. Len(batch),
           InOrder(batch, queue, next, count)
    PROVE  InOrder(SubSeq(batch, n + 1, Len(batch)), queue, next, count)
<1> DEFINE rest == SubSeq(batch, n + 1, Len(batch))
<1>1. /\ Len(batch) \in Nat
      /\ Len(rest) = Len(batch) - n
      /\ \A i \in 1 .. Len(rest) : rest[i] = batch[n + i]
  BY SuffixProperties
<1>2. \A i \in 1 .. Len(rest) : n + i \in 1 .. Len(batch)
  BY <1>1
<1> HIDE DEF rest
<1>4. \A i \in 1 .. Len(rest) : rest[i].seq = next - Len(rest) + i - 1
  <2> TAKE i \in 1 .. Len(rest)
  <2>1. rest[i].seq = next - Len(batch) + (n + i) - 1
    BY <1>1, <1>2 DEF InOrder
  <2> QED
    BY <1>1, <2>1 DEF Number
<1>5. \A i, j \in 1 .. Len(rest) : i < j => rest[i].ev < rest[j].ev
  <2> SUFFICES ASSUME NEW i \in 1 .. Len(rest), NEW j \in 1 .. Len(rest), i < j
               PROVE  batch[n + i].ev < batch[n + j].ev
    BY <1>1
  <2>1. n + i \in 1 .. Len(batch) /\ n + j \in 1 .. Len(batch) /\ n + i < n + j
    BY <1>1, <1>2
  <2> QED
    BY <2>1 DEF InOrder
<1>6. \A i \in 1 .. Len(rest), j \in 1 .. Len(queue) : rest[i].ev < queue[j]
  BY <1>1, <1>2 DEF InOrder
<1>7. \A i \in 1 .. Len(rest) : rest[i].ev <= count
  BY <1>1, <1>2 DEF InOrder
<1>8. InOrder(rest, queue, next, count)
  BY <1>4, <1>5, <1>6, <1>7 DEF InOrder
<1> QED
  BY <1>8 DEF rest

(* Moving the whole queue into an empty batch keeps the order.              *)
LEMMA InOrderTake ==
    ASSUME NEW queue \in Seq(Event), NEW next \in Number, NEW count \in Nat,
           InOrder(<< >>, queue, next, count)
    PROVE  InOrder(Numbered(queue, next), << >>, next + Len(queue), count)
<1> DEFINE batch == Numbered(queue, next)
<1>1. /\ Len(batch) = Len(queue)
      /\ Len(queue) \in Nat
      /\ \A i \in 1 .. Len(queue) :
           batch[i].seq = next + i - 1 /\ batch[i].ev = queue[i]
  BY NumberedProperties
<1> HIDE DEF batch
<1>2. \A i \in 1 .. Len(batch) :
        batch[i].seq = (next + Len(queue)) - Len(batch) + i - 1
  BY <1>1 DEF Number
<1>3. \A i, j \in 1 .. Len(batch) : i < j => batch[i].ev < batch[j].ev
  <2>1. \A i, j \in 1 .. Len(queue) : i < j => queue[i] < queue[j]
    BY DEF InOrder
  <2> QED
    BY <1>1, <2>1
<1>6. \A i \in 1 .. Len(batch) : batch[i].ev <= count
  <2>1. \A i \in 1 .. Len(queue) : queue[i] <= count
    BY DEF InOrder
  <2> QED
    BY <1>1, <2>1
<1>4. Len(<< >>) = 0
  OBVIOUS
<1>5. InOrder(batch, << >>, next + Len(queue), count)
  BY <1>2, <1>3, <1>4, <1>6 DEF InOrder
<1> QED
  BY <1>5 DEF batch

(* Losing the queue keeps the order of what is left.                        *)
LEMMA InOrderDrop ==
    ASSUME NEW batch, NEW queue, NEW next, NEW count,
           InOrder(batch, queue, next, count)
    PROVE  InOrder(batch, << >>, next, count)
<1>1. Len(<< >>) = 0
  OBVIOUS
<1> QED
  BY <1>1 DEF InOrder

(* Emitting the next event keeps the order.                                 *)
LEMMA InOrderEmit ==
    ASSUME NEW batch \in Seq(Item), NEW queue \in Seq(Event),
           NEW next \in Number, NEW count \in Nat, count + 1 \in Event,
           InOrder(batch, queue, next, count)
    PROVE  InOrder(batch, Append(queue, count + 1), next, count + 1)
<1> DEFINE longer == Append(queue, count + 1)
<1>1. /\ Len(queue) \in Nat
      /\ Len(longer) = Len(queue) + 1
      /\ \A j \in 1 .. Len(queue) : longer[j] = queue[j]
      /\ longer[Len(queue) + 1] = count + 1
  BY AppendProperties
<1> HIDE DEF longer
<1>2. \A j \in 1 .. Len(longer) : j \in 1 .. Len(queue) \/ j = Len(queue) + 1
  BY <1>1
<1>3. /\ \A j \in 1 .. Len(queue) : queue[j] \in Int /\ queue[j] <= count
      /\ \A i \in 1 .. Len(batch) : batch[i].ev \in Int /\ batch[i].ev <= count
  <2>1. \A j \in 1 .. Len(queue) : queue[j] \in Event
    OBVIOUS
  <2>2. \A i \in 1 .. Len(batch) : batch[i] \in Item
    OBVIOUS
  <2>3. \A i \in 1 .. Len(batch) : batch[i].ev \in Event
    BY <2>2 DEF Item
  <2>4. \A e \in Event : e \in Int
    BY OutboxAssumption DEF Event
  <2> QED
    BY <2>1, <2>3, <2>4 DEF InOrder
<1>4. \A j \in 1 .. Len(longer) : longer[j] <= count + 1
  <2> SUFFICES ASSUME NEW j \in 1 .. Len(longer) PROVE longer[j] <= count + 1
    OBVIOUS
  <2>1. CASE j \in 1 .. Len(queue)
    <3>1. longer[j] \in Int /\ longer[j] <= count
      BY <1>1, <1>3, <2>1
    <3> QED
      BY <3>1
  <2>2. CASE j = Len(queue) + 1
    BY <1>1, <2>2
  <2> QED
    BY <1>2, <2>1, <2>2
<1>5. \A i \in 1 .. Len(batch) : batch[i].ev <= count + 1
  BY <1>3
<1>6. \A i \in 1 .. Len(batch), j \in 1 .. Len(longer) : batch[i].ev < longer[j]
  <2> SUFFICES ASSUME NEW i \in 1 .. Len(batch), NEW j \in 1 .. Len(longer)
               PROVE  batch[i].ev < longer[j]
    OBVIOUS
  <2>1. CASE j \in 1 .. Len(queue)
    <3>1. batch[i].ev < queue[j]
      BY <2>1 DEF InOrder
    <3> QED
      BY <1>1, <2>1, <3>1
  <2>2. CASE j = Len(queue) + 1
    <3>1. longer[j] = count + 1
      BY <1>1, <2>2
    <3>2. batch[i].ev \in Int /\ batch[i].ev <= count
      BY <1>3
    <3> QED
      BY <3>1, <3>2
  <2> QED
    BY <1>2, <2>1, <2>2
<1>7. \A i, j \in 1 .. Len(longer) : i < j => longer[i] < longer[j]
  <2> SUFFICES ASSUME NEW i \in 1 .. Len(longer), NEW j \in 1 .. Len(longer),
                      i < j
               PROVE  longer[i] < longer[j]
    OBVIOUS
  <2>1. i \in 1 .. Len(queue)
    BY <1>1
  <2>2. CASE j \in 1 .. Len(queue)
    BY <1>1, <2>1, <2>2 DEF InOrder
  <2>3. CASE j = Len(queue) + 1
    <3>1. longer[j] = count + 1 /\ longer[i] = queue[i]
      BY <1>1, <2>1, <2>3
    <3>2. queue[i] \in Int /\ queue[i] <= count
      BY <1>3, <2>1
    <3> QED
      BY <3>1, <3>2
  <2> QED
    BY <1>2, <2>2, <2>3
<1>8. InOrder(batch, longer, next, count + 1)
  BY <1>4, <1>5, <1>6, <1>7 DEF InOrder
<1> QED
  BY <1>8 DEF longer

LEMMA OutboxInitInv == OutboxInit => OutboxInv
  BY OutboxAssumption, EmptySeq
     DEF OutboxInit, OutboxInv, OutboxTypeOK, SequencedInOrder, FutureSessionsEmpty,
         InOrder, Number

(* One step of the server keeps the invariant: one case per request.        *)
LEMMA OutboxNextInv == OutboxInv /\ [OutboxNext]_outboxVars => OutboxInv'
<1> SUFFICES ASSUME OutboxInv, [OutboxNext]_outboxVars
             PROVE  OutboxInv'
  OBVIOUS
<1> USE OutboxAssumption DEF OutboxInv, Number
<1>t. /\ attached \in 0 .. MaxSessions
      /\ emitted \in [Session -> Seq(Kind)]
      /\ outbox \in [Session -> Seq(Event)]
      /\ uiSeq \in [Session -> Number]
      /\ retained \in [Session -> Seq(Item)]
      /\ \A s \in Session : Len(emitted[s]) <= MaxEvents
  BY DEF OutboxTypeOK
<1>o. \A s \in Session :
        InOrder(retained[s], outbox[s], uiSeq[s], Len(emitted[s]))
  BY DEF SequencedInOrder
<1>1. ASSUME NEW s \in Session, Attach(s)
      PROVE  OutboxInv'
  <2>1. OutboxTypeOK'
    BY <1>1, <1>t, EmptySeq, SMTT(30) DEF Attach, OutboxTypeOK, Session
  <2>2. InOrder(<< >>, outbox[s], 1, Len(emitted[s]))
    <3>1. Len(<< >>) = 0
      OBVIOUS
    <3> QED
      BY <1>o, <3>1 DEF InOrder
  <2>3. SequencedInOrder'
    BY <1>1, <1>t, <1>o, <2>2 DEF Attach, SequencedInOrder
  <2>4. FutureSessionsEmpty'
    BY <1>1, <1>t DEF Attach, FutureSessionsEmpty, Session
  <2> QED
    BY <2>1, <2>3, <2>4
<1>2. ASSUME NEW s \in Session, NEW k \in Kind, Emit(s, k)
      PROVE  OutboxInv'
  <2>1. /\ Len(emitted[s]) \in Nat
        /\ Len(emitted[s]) + 1 \in Event
    BY <1>2, <1>t DEF Emit, Event
  <2>2. /\ emitted'[s] \in Seq(Kind)
        /\ Len(emitted'[s]) = Len(emitted[s]) + 1
    BY <1>2, <1>t, AppendProperties DEF Emit
  <2>3. outbox'[s] = Append(outbox[s], Len(emitted[s]) + 1)
    BY <1>2, <1>t DEF Emit
  <2>4. outbox'[s] \in Seq(Event)
    BY <1>t, <2>1, <2>3, AppendProperties
  <2>5. OutboxTypeOK'
    BY <1>2, <1>t, <2>1, <2>2, <2>4 DEF Emit, OutboxTypeOK, Event
  <2>6. InOrder(retained[s], outbox'[s], uiSeq[s], Len(emitted'[s]))
    BY <1>t, <1>o, <2>1, <2>2, <2>3, InOrderEmit
  <2>7. SequencedInOrder'
    BY <1>2, <1>t, <1>o, <2>6 DEF Emit, SequencedInOrder
  <2>8. FutureSessionsEmpty'
    BY <1>2 DEF Emit, FutureSessionsEmpty
  <2> QED
    BY <2>5, <2>7, <2>8
<1>3. ASSUME NEW s \in Session, UiEvents(s)
      PROVE  OutboxInv'
  <2>1. CASE retained[s] # << >>
    BY <1>3, <2>1
       DEF UiEvents, OutboxTypeOK, SequencedInOrder, FutureSessionsEmpty
  <2>2. CASE retained[s] = << >>
    <3> DEFINE batch == Numbered(outbox[s], uiSeq[s])
    <3>1. batch \in Seq(Item) /\ Len(outbox[s]) \in Nat
      BY <1>t, NumberedProperties
    <3>2. InOrder(batch, << >>, uiSeq[s] + Len(outbox[s]), Len(emitted[s]))
      <4>1. InOrder(<< >>, outbox[s], uiSeq[s], Len(emitted[s]))
        BY <1>o, <2>2
      <4> QED
        BY <1>t, <4>1, InOrderTake
    <3> HIDE DEF batch
    <3>3. /\ retained' = [retained EXCEPT ![s] = batch]
          /\ uiSeq' = [uiSeq EXCEPT ![s] = @ + Len(outbox[s])]
          /\ outbox' = [t \in Session |-> << >>]
          /\ UNCHANGED <<attached, emitted>>
      BY <1>3, <2>2 DEF UiEvents, batch
    <3>4. OutboxTypeOK'
      BY <1>t, <3>1, <3>3, EmptySeq DEF OutboxTypeOK
    <3>5. \A t \in Session : InOrder(retained[t], << >>, uiSeq[t], Len(emitted[t]))
      BY <1>o, InOrderDrop
    <3>6. SequencedInOrder'
      BY <1>t, <3>2, <3>3, <3>5 DEF SequencedInOrder
    <3>7. FutureSessionsEmpty'
      <4>1. s <= attached
        BY <1>3 DEF UiEvents
      <4>2. \A t \in Session : t > attached => t # s
        BY <1>t, <4>1 DEF Session
      <4> QED
        BY <1>t, <3>3, <4>2 DEF FutureSessionsEmpty
    <3> QED
      BY <3>4, <3>6, <3>7
  <2> QED
    BY <2>1, <2>2
<1>4. ASSUME NEW s \in Session, NEW q \in 0 .. MaxEvents, UiAck(s, q)
      PROVE  OutboxInv'
  <2>1. PICK n \in 0 .. Len(retained[s]) :
          Above(retained[s], q) = SubSeq(retained[s], n + 1, Len(retained[s]))
    <3>1. retained[s] \in Seq(Item) /\ q \in Nat
      BY <1>t
    <3>2. PICK r \in Int : \A i \in 1 .. Len(retained[s]) : retained[s][i].seq = r + i
      <4>1. uiSeq[s] \in Number /\ InOrder(retained[s], outbox[s], uiSeq[s], Len(emitted[s]))
        BY <1>t, <1>o
      <4> QED
        BY <3>1, <4>1, Consecutive
    <3> QED
      BY <3>1, <3>2, AboveIsSuffix
  <2> DEFINE rest == SubSeq(retained[s], n + 1, Len(retained[s]))
  <2>2. rest \in Seq(Item)
    BY <1>t, SuffixProperties
  <2>3. InOrder(rest, outbox[s], uiSeq[s], Len(emitted[s]))
    BY <1>t, <1>o, InOrderSuffix
  <2>4. /\ retained' = [retained EXCEPT ![s] = rest]
        /\ UNCHANGED <<attached, emitted, outbox, uiSeq>>
    BY <1>4, <2>1 DEF UiAck
  <2> HIDE DEF rest
  <2>5. OutboxTypeOK'
    BY <1>t, <2>2, <2>4 DEF OutboxTypeOK
  <2>6. SequencedInOrder'
    BY <1>t, <1>o, <2>3, <2>4 DEF SequencedInOrder
  <2>7. FutureSessionsEmpty'
    BY <1>4, <1>t, <2>4 DEF UiAck, FutureSessionsEmpty, Session
  <2> QED
    BY <2>5, <2>6, <2>7
<1>5. CASE UNCHANGED outboxVars
  BY <1>5 DEF outboxVars, OutboxTypeOK, SequencedInOrder, FutureSessionsEmpty
<1> QED
  BY <1>1, <1>2, <1>3, <1>4, <1>5 DEF OutboxNext

(* A step never touches an unacknowledged batch except at its front.        *)
LEMMA OutboxStepStable ==
    ASSUME OutboxInv, [OutboxNext]_outboxVars,
           NEW s \in Session, retained[s] # << >>
    PROVE  \E n \in 0 .. Len(retained[s]) :
             retained'[s] = SubSeq(retained[s], n + 1, Len(retained[s]))
<1>t. /\ attached \in 0 .. MaxSessions
      /\ retained \in [Session -> Seq(Item)]
  BY DEF OutboxInv, OutboxTypeOK
<1>1. /\ retained[s] \in Seq(Item)
      /\ Len(retained[s]) \in Nat
  BY <1>t
<1>2. CASE retained'[s] = retained[s]
  <2>1. SubSeq(retained[s], 0 + 1, Len(retained[s])) = retained[s]
    BY <1>1, SubSeqFull
  <2>2. 0 \in 0 .. Len(retained[s])
    BY <1>1
  <2> QED
    BY <1>2, <2>1, <2>2
<1>3. ASSUME NEW t \in Session, Attach(t)
      PROVE  retained'[s] = retained[s]
  <2>1. t # s
    BY <1>3, <1>t, OutboxAssumption
       DEF Attach, OutboxInv, FutureSessionsEmpty, Session
  <2> QED
    BY <1>3, <1>t, <2>1 DEF Attach
<1>4. ASSUME NEW t \in Session, NEW k \in Kind, Emit(t, k)
      PROVE  retained'[s] = retained[s]
  BY <1>4 DEF Emit
<1>5. ASSUME NEW t \in Session, UiEvents(t)
      PROVE  retained'[s] = retained[s]
  BY <1>5, <1>t DEF UiEvents
<1>6. ASSUME NEW t \in Session, NEW q \in 0 .. MaxEvents, UiAck(t, q), t # s
      PROVE  retained'[s] = retained[s]
  BY <1>6, <1>t DEF UiAck
<1>7. ASSUME NEW q \in 0 .. MaxEvents, UiAck(s, q)
      PROVE  \E n \in 0 .. Len(retained[s]) :
               retained'[s] = SubSeq(retained[s], n + 1, Len(retained[s]))
  <2>1. retained'[s] = Above(retained[s], q)
    BY <1>7, <1>t DEF UiAck
  <2>2. q \in Nat
    BY OutboxAssumption
  <2>3. PICK r \in Int : \A i \in 1 .. Len(retained[s]) : retained[s][i].seq = r + i
    <3>1. uiSeq[s] \in Number /\ InOrder(retained[s], outbox[s], uiSeq[s], Len(emitted[s]))
      BY DEF OutboxInv, OutboxTypeOK, SequencedInOrder
    <3> QED
      BY <1>1, <3>1, Consecutive
  <2>4. \A b \in Seq(Item) :
          (\A i \in 1 .. Len(b) : b[i].seq = r + i)
            => \E n \in 0 .. Len(b) : Above(b, q) = SubSeq(b, n + 1, Len(b))
    <3> TAKE b \in Seq(Item)
    <3> HAVE \A i \in 1 .. Len(b) : b[i].seq = r + i
    <3>1. r \in Int /\ q \in Nat
      BY <2>2
    <3> QED
      BY <3>1, AboveIsSuffix, Zenon
  <2>5. PICK n \in 0 .. Len(retained[s]) :
          Above(retained[s], q) = SubSeq(retained[s], n + 1, Len(retained[s]))
    BY <1>1, <2>3, <2>4, Zenon
  <2> QED
    BY <2>1, <2>5
<1>8. CASE UNCHANGED outboxVars
  BY <1>2, <1>8 DEF outboxVars
<1> QED
  BY <1>2, <1>3, <1>4, <1>5, <1>6, <1>7, <1>8 DEF OutboxNext

(* The invariant of the server half of the channel holds in every reachable *)
(* state (LoopbackIpc::apply for attach, ui_events and ui_ack, and the VM's *)
(* emit_ui_event).                                                          *)
THEOREM OutboxInvariant == OutboxSpec => []OutboxInv
  BY OutboxInitInv, OutboxNextInv, PTL DEF OutboxSpec

(* Type correctness of the server half of the channel.                      *)
THEOREM OutboxTypeCorrect == OutboxSpec => []OutboxTypeOK
  BY OutboxInvariant, PTL DEF OutboxInv

(* The numbers a session sees follow the order of emission, without gaps    *)
(* and without repetition, for any number of sessions and any requests.     *)
THEOREM OutboxOrder == OutboxSpec => []SequencedInOrder
  BY OutboxInvariant, PTL DEF OutboxInv

(* Polling again replays the same batch: until it is acknowledged, nothing  *)
(* is added to it and nothing in it changes (LoopbackIpc::apply, UiEvents   *)
(* and UiAck).                                                              *)
THEOREM OutboxReplayStable == OutboxSpec => ReplayStable
<1>1. OutboxInv /\ [OutboxNext]_outboxVars
        => [\A s \in Session :
              retained[s] # << >> =>
                \E n \in 0 .. Len(retained[s]) :
                  retained'[s] = SubSeq(retained[s], n + 1, Len(retained[s]))
           ]_outboxVars
  BY OutboxStepStable
<1> QED
  BY <1>1, OutboxInvariant, PTL DEF OutboxSpec, ReplayStable

-----------------------------------------------------------------------------
(* The inductive invariant.                                                *)

(* An item of a session the client was on carries its number: no event of  *)
(* that session went anywhere else.                                        *)
Counted == {item \in Inbound : item.seq = item.ev}

(* Type correctness of the client, with counted items only.                *)
ClientTypeOK ==
  /\ transport \in {"pending", "live", "broken"}
  /\ token \in 0 .. MaxSessions
  /\ request \in {NoRequest}
                 \cup [op : {"ui_events"}, session : Session]
                 \cup [op : {"ui_ack"}, session : Session, seq : Event]
  /\ reply \in {NoReply} \cup [op : {"batch"}, items : Seq(Counted)]
  /\ pc \in {"idle", "poll", "apply", "ack"}
  /\ inbox \in Seq(Counted) /\ deferred \in Seq(Counted) /\ presented \in Seq(Counted)
  /\ committed \in SUBSET Counted
  /\ ackSeq \in 0 .. MaxEvents /\ lastSeq \in Nat
  /\ ownerQ \in Seq([generation : Nat, item : Counted]) /\ Len(ownerQ) <= Capacity
  /\ generation \in Nat /\ 1 <= generation /\ generation <= attached + 1
  /\ startup \in BOOLEAN

(* Nothing was said to a session that is not attached yet.                 *)
FutureSilent ==
  \A s \in Session : s > attached => emitted[s] = << >> /\ outbox[s] = << >>

(* The queue and the batch of a session whose numbers count its events.    *)
Counts(s) ==
  /\ (uiSeq[s] - 1) + Len(outbox[s]) = Len(emitted[s])
  /\ \A j \in 1 .. Len(outbox[s]) : outbox[s][j] = uiSeq[s] + j - 1
  /\ \A i \in 1 .. Len(retained[s]) : retained[s][i].seq = retained[s][i].ev

(* The client is on an attached session, every request is of that session, *)
(* and its numbers count its events.                                       *)
CurrentOK ==
  /\ token <= attached
  /\ token # 0 => Counts(token)
  /\ transport = "live" => token # 0
  /\ request # NoRequest => token # 0 /\ request.session = token

(* The owner queue is empty between two batches, nothing is applied while  *)
(* the startup replay is shown, and what is applied has growing numbers.   *)
AppliedOK ==
  /\ pc # "apply" => ownerQ = << >>
  /\ startup => presented = << >> /\ pc # "apply"
  /\ \A i, j \in 1 .. Len(presented) : i < j => presented[i].seq < presented[j].seq
  /\ \A i \in 1 .. Len(presented) : presented[i].seq <= lastSeq

ChannelInv == OutboxInv /\ ClientTypeOK /\ FutureSilent /\ CurrentOK /\ AppliedOK
-----------------------------------------------------------------------------
(* The server half.                                                        *)

LEMMA ServerTypes ==
  ASSUME OutboxInv
  PROVE  /\ attached \in 0 .. MaxSessions /\ MaxSessions \in Nat /\ MaxEvents \in Nat
         /\ emitted \in [Session -> Seq(Kind)]
         /\ outbox \in [Session -> Seq(Event)]
         /\ uiSeq \in [Session -> Number]
         /\ retained \in [Session -> Seq(Item)]
         /\ \A s \in Session : /\ Len(emitted[s]) \in Nat /\ Len(outbox[s]) \in Nat
                               /\ Len(retained[s]) \in Nat /\ uiSeq[s] \in Nat
                               /\ Len(emitted[s]) <= MaxEvents
         /\ \A s \in Session : s \in Nat /\ 1 <= s /\ s <= MaxSessions
<1>1. /\ attached \in 0 .. MaxSessions
      /\ emitted \in [Session -> Seq(Kind)] /\ outbox \in [Session -> Seq(Event)]
      /\ uiSeq \in [Session -> Number] /\ retained \in [Session -> Seq(Item)]
      /\ \A s \in Session : Len(emitted[s]) <= MaxEvents
  BY DEF OutboxInv, OutboxTypeOK
<1>2. MaxSessions \in Nat /\ MaxEvents \in Nat
  BY OutboxAssumption
<1>3. \A s \in Session : Len(emitted[s]) \in Nat /\ Len(outbox[s]) \in Nat
                         /\ Len(retained[s]) \in Nat
  BY <1>1, LenProperties
<1>4. \A s \in Session : uiSeq[s] \in Nat
  BY <1>1 DEF Number
<1>5. \A s \in Session : s \in Nat /\ 1 <= s /\ s <= MaxSessions
  BY <1>2 DEF Session
<1> QED
  BY <1>1, <1>2, <1>3, <1>4, <1>5

(* A new session has emitted nothing and numbers from 1.                   *)
LEMMA CountsAttach ==
  ASSUME OutboxInv, FutureSilent, NEW t \in Session, Attach(t)
  PROVE  /\ Counts(t)'
         /\ \A s \in Session : s <= attached /\ Counts(s) => Counts(s)'
<1>1. /\ t = attached + 1
      /\ uiSeq' = [uiSeq EXCEPT ![t] = 1] /\ retained' = [retained EXCEPT ![t] = << >>]
      /\ emitted' = emitted /\ outbox' = outbox
  BY DEF Attach
<1>2. emitted[t] = << >> /\ outbox[t] = << >>
  BY <1>1, ServerTypes DEF FutureSilent
<1>3. uiSeq'[t] = 1 /\ retained'[t] = << >>
  BY <1>1, ServerTypes
<1>4. Counts(t)'
  BY <1>1, <1>2, <1>3 DEF Counts
<1>5. ASSUME NEW s \in Session, s <= attached, Counts(s) PROVE Counts(s)'
  <2>1. s # t
    BY <1>1, <1>5, ServerTypes
  <2>2. uiSeq'[s] = uiSeq[s] /\ retained'[s] = retained[s]
    BY <1>1, <2>1, ServerTypes
  <2> QED
    BY <1>1, <1>5, <2>2 DEF Counts
<1> QED
  BY <1>4, <1>5

LEMMA CountsEmit ==
  ASSUME OutboxInv, NEW s \in Session, Counts(s),
         NEW t \in Session, NEW k \in Kind, Emit(t, k)
  PROVE  Counts(s)'
<1>1. /\ emitted' = [emitted EXCEPT ![t] = Append(@, k)]
      /\ outbox' = [outbox EXCEPT ![t] = Append(@, Len(emitted[t]) + 1)]
      /\ uiSeq' = uiSeq /\ retained' = retained
      /\ Len(emitted[t]) < MaxEvents
  BY DEF Emit
<1>2. CASE s # t
  <2>1. emitted'[s] = emitted[s] /\ outbox'[s] = outbox[s]
    BY <1>1, <1>2, ServerTypes
  <2> QED
    BY <1>1, <2>1 DEF Counts
<1>3. CASE s = t
  <2> DEFINE n == Len(emitted[s])
             m == Len(outbox[s])
             u == uiSeq[s]
  <2>1. n \in Nat /\ m \in Nat /\ u \in Nat /\ n + 1 \in Event
    <3>1. n \in Nat /\ m \in Nat /\ u \in Nat
      BY ServerTypes
    <3> QED
      BY <1>1, <1>3, <3>1, ServerTypes DEF Event
  <2>2. emitted'[s] = Append(emitted[s], k) /\ outbox'[s] = Append(outbox[s], n + 1)
    BY <1>1, <1>3, ServerTypes
  <2>3. Len(emitted'[s]) = n + 1
    BY <2>2, ServerTypes, AppendProperties
  <2>4. /\ Len(outbox'[s]) = m + 1 /\ outbox'[s][m + 1] = n + 1
        /\ \A j \in 1 .. m : outbox'[s][j] = outbox[s][j]
    <3>1. outbox[s] \in Seq(Event)
      BY ServerTypes
    <3> QED
      BY <2>1, <2>2, <3>1, AppendProperties
  <2>5. u - 1 + m = n /\ \A j \in 1 .. m : outbox[s][j] = u + j - 1
    BY DEF Counts
  <2> HIDE DEF n, m, u
  <2>6. \A j \in 1 .. m + 1 : outbox'[s][j] = u + j - 1
    <3> SUFFICES ASSUME NEW j \in 1 .. m + 1 PROVE outbox'[s][j] = u + j - 1
      OBVIOUS
    <3>1. CASE j \in 1 .. m
      BY <2>4, <2>5, <3>1
    <3>2. CASE j = m + 1
      BY <2>1, <2>4, <2>5, <3>2
    <3> QED
      BY <2>1, <3>1, <3>2
  <2>7. (u - 1) + (m + 1) = n + 1
    BY <2>1, <2>5
  <2>8. uiSeq'[s] = u
    BY <1>1 DEF u
  <2> QED
    BY <1>1, <2>3, <2>4, <2>6, <2>7, <2>8 DEF Counts
<1> QED
  BY <1>2, <1>3

(* Taking the queue moves the counted events into the batch.               *)
LEMMA CountsUiEvents ==
  ASSUME OutboxInv, NEW s \in Session, Counts(s), UiEvents(s)
  PROVE  Counts(s)'
<1>1. CASE retained[s] # << >>
  BY <1>1 DEF UiEvents, Counts
<1>2. CASE retained[s] = << >>
  <2> DEFINE q == outbox[s]
             u == uiSeq[s]
             batch == Numbered(q, u)
  <2>1. /\ retained' = [retained EXCEPT ![s] = batch]
        /\ uiSeq' = [uiSeq EXCEPT ![s] = @ + Len(q)]
        /\ outbox' = [t \in Session |-> << >>] /\ emitted' = emitted
    BY <1>2 DEF UiEvents
  <2>2. q \in Seq(Event) /\ u \in Number /\ u \in Nat /\ Len(q) \in Nat
    BY ServerTypes
  <2>3. Len(batch) = Len(q) /\ \A i \in 1 .. Len(q) : batch[i].seq = u + i - 1 /\ batch[i].ev = q[i]
    BY <2>2, NumberedProperties
  <2>4. u - 1 + Len(q) = Len(emitted[s]) /\ \A j \in 1 .. Len(q) : q[j] = u + j - 1
    BY DEF Counts
  <2> HIDE DEF batch
  <2>5. retained'[s] = batch /\ uiSeq'[s] = u + Len(q) /\ outbox'[s] = << >>
    BY <2>1, ServerTypes
  <2>6. (u + Len(q) - 1) + 0 = Len(emitted[s])
    BY <2>2, <2>4, ServerTypes
  <2>7. \A i \in 1 .. Len(batch) : batch[i].seq = batch[i].ev
    BY <2>3, <2>4
  <2>8. Len(outbox'[s]) = 0
    BY <2>5
  <2>9. (uiSeq'[s] - 1) + Len(outbox'[s]) = Len(emitted'[s])
    <3>1. uiSeq'[s] = u + Len(q) /\ u + Len(q) \in Nat /\ emitted'[s] = emitted[s]
      BY <2>1, <2>2, <2>5
    <3> QED
      BY <2>2, <2>6, <2>8, <3>1
  <2>10. \A i \in 1 .. Len(retained'[s]) : retained'[s][i].seq = retained'[s][i].ev
    BY <2>5, <2>7
  <2> HIDE DEF q, u
  <2>11. \A j \in 1 .. Len(outbox'[s]) : outbox'[s][j] = uiSeq'[s] + j - 1
    BY <2>8
  <2> QED
    BY <2>9, <2>10, <2>11 DEF Counts
<1> QED
  BY <1>1, <1>2

LEMMA CountsUiAck ==
  ASSUME OutboxInv, NEW s \in Session, Counts(s),
         NEW t \in Session, NEW q \in 0 .. MaxEvents, UiAck(t, q)
  PROVE  Counts(s)'
<1>1. /\ retained' = [retained EXCEPT ![t] = Above(@, q)]
      /\ emitted' = emitted /\ outbox' = outbox /\ uiSeq' = uiSeq
  BY DEF UiAck
<1>2. CASE s # t
  <2>1. retained'[s] = retained[s]
    BY <1>1, <1>2, ServerTypes
  <2> QED
    BY <1>1, <2>1 DEF Counts
<1>3. CASE s = t
  <2> DEFINE b == retained[s]
  <2>1. b \in Seq(Item) /\ q \in Nat
    BY ServerTypes
  <2>2. PICK n \in 0 .. Len(b) : Above(b, q) = SubSeq(b, n + 1, Len(b))
    <3>1. uiSeq[s] \in Number /\ InOrder(b, outbox[s], uiSeq[s], Len(emitted[s]))
      BY DEF OutboxInv, OutboxTypeOK, SequencedInOrder
    <3>2. PICK r \in Int : \A i \in 1 .. Len(b) : b[i].seq = r + i
      BY <2>1, <3>1, Consecutive
    <3> QED
      BY <2>1, <3>2, AboveIsSuffix
  <2> DEFINE rest == SubSeq(b, n + 1, Len(b))
  <2>3. Len(rest) = Len(b) - n /\ \A i \in 1 .. Len(rest) : rest[i] = b[n + i]
    BY <2>1, SuffixProperties
  <2>4. Len(b) \in Nat
    BY ServerTypes
  <2> HIDE DEF rest
  <2>5. \A i \in 1 .. Len(rest) : n + i \in 1 .. Len(b)
    BY <2>3, <2>4
  <2>6. \A i \in 1 .. Len(rest) : rest[i].seq = rest[i].ev
    BY <2>3, <2>5 DEF Counts
  <2>7. retained'[s] = rest
    BY <1>1, <1>3, <2>2, ServerTypes DEF rest
  <2> QED
    BY <1>1, <2>6, <2>7 DEF Counts
<1> QED
  BY <1>2, <1>3

LEMMA RequestFacts ==
  ASSUME ClientTypeOK
  PROVE  /\ request.op = "ui_events" => request # NoRequest /\ request.session \in Session
         /\ request.op = "ui_ack" =>
              request # NoRequest /\ request.session \in Session /\ request.seq \in 0 .. MaxEvents
         /\ reply.op = "batch" => reply.items \in Seq(Counted)
<1>1. Event \in SUBSET (0 .. MaxEvents)
  BY OutboxAssumption DEF Event
<1>2. /\ request.op = "ui_events" => request # NoRequest /\ request.session \in Session
      /\ request.op = "ui_ack" =>
           request # NoRequest /\ request.session \in Session /\ request.seq \in Event
  BY DEF ClientTypeOK, NoRequest
<1>3. reply.op = "batch" => reply.items \in Seq(Counted)
  BY DEF ClientTypeOK, NoReply
<1> QED
  BY <1>1, <1>2, <1>3

(* Every step of the channel is a step of its server half, or leaves it    *)
(* alone: an acknowledgement never names a number that was not given out.  *)
LEMMA ServerStep ==
  ASSUME ChannelInv, [Next]_vars
  PROVE  [OutboxNext]_outboxVars
<1>1. ASSUME NEW s \in Session, Connect(s) \/ ConnectLost(s) PROVE OutboxNext
  BY <1>1 DEF Connect, ConnectLost, OutboxNext
<1>2. ASSUME NEW s \in Session, NEW k \in Kind, ServerEmit(s, k) PROVE OutboxNext
  BY <1>2 DEF ServerEmit, OutboxNext
<1>3. CASE ServeUiEvents
  <2>1. request.session \in Session /\ UiEvents(request.session)
    BY <1>3, RequestFacts DEF ServeUiEvents, ChannelInv
  <2> QED
    BY <2>1 DEF OutboxNext
<1>4. CASE ServeUiAck
  <2>1. /\ request.session \in Session /\ request.seq \in 0 .. MaxEvents
        /\ UiAck(request.session, request.seq)
    BY <1>4, RequestFacts DEF ServeUiAck, ChannelInv
  <2> QED
    BY <2>1 DEF OutboxNext
<1>5. CASE Reconnect \/ Break \/ Poll \/ ReceiveBatch \/ ApplyEvent \/ FinishBatch
           \/ LobbyAvailable
  BY <1>5 DEF Reconnect, Break, Poll, ReceiveBatch, ApplyEvent, FinishBatch, LobbyAvailable
<1>6. CASE UNCHANGED vars
  BY <1>6 DEF vars
<1> QED
  BY <1>1, <1>2, <1>3, <1>4, <1>5, <1>6 DEF Next

LEMMA SilentStep ==
  ASSUME OutboxInv, FutureSilent, [OutboxNext]_outboxVars
  PROVE  FutureSilent'
<1>1. ASSUME NEW t \in Session, Attach(t) PROVE FutureSilent'
  <2>1. attached' = attached + 1 /\ emitted' = emitted /\ outbox' = outbox
    BY <1>1 DEF Attach
  <2>2. \A s \in Session : s > attached' => s > attached
    <3>1. attached \in Nat /\ \A s \in Session : s \in Int
      BY ServerTypes, OutboxAssumption DEF Session
    <3> QED
      BY <2>1, <3>1
  <2> QED
    BY <2>1, <2>2 DEF FutureSilent
<1>2. ASSUME NEW t \in Session, NEW k \in Kind, Emit(t, k) PROVE FutureSilent'
  <2>1. /\ t <= attached /\ attached' = attached
        /\ emitted' = [emitted EXCEPT ![t] = Append(@, k)]
        /\ outbox' = [outbox EXCEPT ![t] = Append(@, Len(emitted[t]) + 1)]
    BY <1>2 DEF Emit
  <2>2. \A s \in Session : s > attached => s # t
    BY <2>1, ServerTypes
  <2>3. \A s \in Session : s # t => emitted'[s] = emitted[s] /\ outbox'[s] = outbox[s]
    BY <2>1, ServerTypes
  <2> QED
    BY <2>1, <2>2, <2>3 DEF FutureSilent
<1>3. ASSUME NEW t \in Session, UiEvents(t) PROVE FutureSilent'
  BY <1>3 DEF UiEvents, FutureSilent
<1>4. ASSUME NEW t \in Session, NEW q \in 0 .. MaxEvents, UiAck(t, q) PROVE FutureSilent'
  BY <1>4 DEF UiAck, FutureSilent
<1>5. CASE UNCHANGED outboxVars
  BY <1>5 DEF outboxVars, FutureSilent
<1> QED
  BY <1>1, <1>2, <1>3, <1>4, <1>5 DEF OutboxNext
-----------------------------------------------------------------------------
(* The client.                                                             *)

ClientInv == ClientTypeOK /\ CurrentOK /\ AppliedOK

LEMMA ConnectClient ==
  ASSUME ChannelInv, NEW s \in Session, Connect(s)
  PROVE  ClientInv'
<1>1. /\ transport = "pending" /\ pc = "idle" /\ request = NoRequest
      /\ Attach(s) /\ s = attached + 1 /\ attached' = s
      /\ transport' = "live" /\ token' = s /\ generation' = generation + 1
      /\ ownerQ' = OfGeneration(ownerQ, generation + 1)
      /\ lastSeq' = IF startup THEN 0 ELSE lastSeq
      /\ UNCHANGED <<request, reply, pc, inbox, ackSeq, startup, deferred, presented, committed>>
  BY DEF Connect, ServerFree, Attach
<1>2. ownerQ = << >> /\ ownerQ' = << >>
  <2>1. ownerQ = << >>
    BY <1>1 DEF ChannelInv, AppliedOK
  <2>2. {i \in 1 .. Len(ownerQ) : ownerQ[i].generation # generation + 1} = {}
    <3>1. 1 .. Len(ownerQ) = {}
      BY <2>1
    <3> QED
      BY <3>1
  <2>3. OfGeneration(ownerQ, generation + 1) = SubSeq(ownerQ, 0 + 1, 0)
    BY <2>1, <2>2, FS_EmptySet DEF OfGeneration
  <2>4. SubSeq(ownerQ, 0 + 1, 0) = << >>
    BY <2>1
  <2> QED
    BY <1>1, <2>1, <2>3, <2>4
<1>3. ClientTypeOK'
  <2>1. s \in 0 .. MaxSessions
    BY ServerTypes DEF ChannelInv
  <2>2. generation' \in Nat /\ 1 <= generation' /\ generation' <= attached' + 1
    <3>1. /\ generation \in Nat /\ generation <= attached + 1 /\ attached \in Nat
          /\ generation' = generation + 1 /\ attached' = attached + 1
      BY <1>1, ServerTypes DEF ChannelInv, ClientTypeOK
    <3> QED
      BY <3>1
  <2>3. lastSeq' \in Nat
    BY <1>1 DEF ChannelInv, ClientTypeOK
  <2>4. ownerQ' \in Seq([generation : Nat, item : Counted]) /\ Len(ownerQ') <= Capacity
    <3>1. Len(ownerQ') = 0 /\ Capacity \in Nat
      BY <1>2, ChannelAssumption
    <3> QED
      BY <1>2, <3>1, EmptySeq
  <2> QED
    BY <1>1, <2>1, <2>2, <2>3, <2>4 DEF ChannelInv, ClientTypeOK
<1>4. CurrentOK'
  <2>1. Counts(s)'
    BY <1>1, CountsAttach DEF ChannelInv
  <2>2. Counts(token)'
    BY <1>1, <2>1 DEF Counts
  <2>3. s <= s /\ s # 0
    BY ServerTypes DEF ChannelInv
  <2> QED
    BY <1>1, <2>2, <2>3 DEF CurrentOK
<1>5. AppliedOK'
  <2>1. startup => Len(presented) = 0
    BY DEF ChannelInv, AppliedOK
  <2>2. \A i \in 1 .. Len(presented) : presented[i].seq <= lastSeq'
    <3>1. CASE startup
      BY <2>1, <3>1
    <3>2. CASE ~startup
      BY <1>1, <3>2 DEF ChannelInv, AppliedOK
    <3> QED
      BY <3>1, <3>2
  <2> QED
    BY <1>1, <1>2, <2>2 DEF ChannelInv, AppliedOK
<1> QED
  BY <1>3, <1>4, <1>5 DEF ClientInv

LEMMA ConnectLostClient ==
  ASSUME ChannelInv, NEW s \in Session, ConnectLost(s)
  PROVE  ClientInv'
<1>1. Attach(s) /\ attached' = attached + 1 /\ UNCHANGED clientVars
  BY DEF ConnectLost, Attach
<1>2. ClientTypeOK'
  <2>1. generation <= attached + 1 /\ generation \in Nat /\ attached \in Nat
    BY ServerTypes DEF ChannelInv, ClientTypeOK
  <2>2. generation <= attached' + 1
    BY <1>1, <2>1
  <2> QED
    BY <1>1, <2>2 DEF ChannelInv, ClientTypeOK, clientVars
<1>3. CurrentOK'
  <2>1. token \in Nat /\ token <= attached /\ token <= attached' /\ attached \in Nat
    BY <1>1, ServerTypes DEF ChannelInv, ClientTypeOK, CurrentOK
  <2>2. ASSUME token # 0 PROVE Counts(token)'
    <3>1. token \in Session
      BY <2>1, <2>2, ServerTypes DEF ChannelInv, Session
    <3>2. Counts(token) /\ token' = token
      BY <1>1, <2>2 DEF ChannelInv, CurrentOK, clientVars
    <3>3. \A t \in Session : t <= attached /\ Counts(t) => Counts(t)'
      BY <1>1, CountsAttach DEF ChannelInv
    <3> QED
      BY <2>1, <3>1, <3>2, <3>3 DEF Counts
  <2> QED
    BY <1>1, <2>1, <2>2 DEF ChannelInv, CurrentOK, clientVars
<1>4. AppliedOK'
  BY <1>1 DEF ChannelInv, AppliedOK, clientVars
<1> QED
  BY <1>2, <1>3, <1>4 DEF ClientInv

LEMMA EmitClient ==
  ASSUME ChannelInv, NEW s \in Session, NEW k \in Kind, ServerEmit(s, k)
  PROVE  ClientInv'
<1>1. Emit(s, k) /\ UNCHANGED clientVars /\ attached' = attached
  BY DEF ServerEmit, Emit
<1>2. ClientTypeOK' /\ AppliedOK'
  BY <1>1 DEF ChannelInv, ClientTypeOK, AppliedOK, clientVars
<1>3. ASSUME token # 0 PROVE Counts(token)'
  <2>1. token \in Session /\ Counts(token) /\ token' = token
    BY <1>1, <1>3, OutboxAssumption DEF ChannelInv, ClientTypeOK, CurrentOK, clientVars, Session
  <2>2. \A t \in Session : Counts(t) => Counts(t)'
    BY <1>1, CountsEmit DEF ChannelInv
  <2> QED
    BY <2>1, <2>2 DEF Counts
<1>4. CurrentOK'
  BY <1>1, <1>3 DEF ChannelInv, CurrentOK, clientVars
<1> QED
  BY <1>2, <1>4 DEF ClientInv

(* The steps of the client that leave the server and what was received     *)
(* alone.                                                                  *)
LEMMA IdleClient ==
  ASSUME ChannelInv,
         Reconnect \/ Break \/ Poll \/ LobbyAvailable \/ UNCHANGED vars
  PROVE  ClientInv'
<1>1. /\ UNCHANGED <<attached, emitted, outbox, uiSeq, retained>>
      /\ UNCHANGED <<token, inbox, ackSeq, lastSeq, ownerQ, generation, deferred, presented,
                     committed>>
  BY DEF Reconnect, Break, Poll, LobbyAvailable, vars, outboxVars, clientVars
<1>2. token \in 0 .. MaxSessions /\ (token # 0 => token \in Session) /\ (transport = "live" => token # 0)
  BY OutboxAssumption DEF ChannelInv, ClientTypeOK, CurrentOK, Session
<1>3. /\ transport' \in {"pending", "live", "broken"}
      /\ transport' = "live" => transport = "live"
      /\ (pc' = "apply") <=> (pc = "apply")
      /\ startup' \in BOOLEAN /\ (startup' => startup)
      /\ reply' \in {reply, NoReply}
  <2>0. transport \in {"pending", "live", "broken"} /\ startup \in BOOLEAN
    BY DEF ChannelInv, ClientTypeOK
  <2>1. CASE Reconnect \/ Poll
    BY <2>0, <2>1 DEF Reconnect, Poll
  <2>2. CASE Break
    BY <2>0, <2>2 DEF Break
  <2>3. CASE LobbyAvailable
    BY <2>0, <2>3 DEF LobbyAvailable
  <2>4. CASE UNCHANGED vars
    BY <2>0, <2>4 DEF vars, clientVars
  <2> QED
    BY <2>1, <2>2, <2>3, <2>4
<1>4. \/ request' \in {request, NoRequest}
      \/ token # 0 /\ request' = [op |-> "ui_events", session |-> token]
  BY <1>2 DEF Reconnect, Break, Poll, LobbyAvailable, vars, clientVars
<1>5. pc' \in {"idle", "poll", "apply", "ack"}
  BY DEF Reconnect, Break, Poll, LobbyAvailable, vars, clientVars, ChannelInv, ClientTypeOK
<1>6. request' \in {NoRequest} \cup [op : {"ui_events"}, session : Session]
                   \cup [op : {"ui_ack"}, session : Session, seq : Event]
  BY <1>2, <1>4 DEF ChannelInv, ClientTypeOK
<1>7. ClientTypeOK'
  BY <1>1, <1>3, <1>5, <1>6 DEF ChannelInv, ClientTypeOK
<1>8. CurrentOK'
  BY <1>1, <1>3, <1>4 DEF ChannelInv, CurrentOK, Counts
<1>9. AppliedOK'
  BY <1>1, <1>3 DEF ChannelInv, AppliedOK
<1> QED
  BY <1>7, <1>8, <1>9 DEF ClientInv

LEMMA TaggedCounted ==
  ASSUME NEW s \in Session, NEW batch \in Seq(Item),
         \A i \in 1 .. Len(batch) : batch[i].seq = batch[i].ev
  PROVE  Tagged(s, batch) \in Seq(Counted)
<1> DEFINE m == Len(batch)
           items == [i \in 1 .. m |-> [session |-> s, seq |-> batch[i].seq, ev |-> batch[i].ev]]
<1>1. m \in Nat /\ \A i \in 1 .. m : batch[i] \in Item
  OBVIOUS
<1>2. \A i \in 1 .. m : [session |-> s, seq |-> batch[i].seq, ev |-> batch[i].ev] \in Counted
  BY <1>1 DEF Item, Inbound, Counted
<1>3. items \in [1 .. m -> Counted]
  BY <1>2
<1>4. items \in Seq(Counted)
  BY <1>1, <1>3, SeqDef
<1> QED
  BY <1>4 DEF Tagged

LEMMA ServeUiEventsClient ==
  ASSUME ChannelInv, OutboxInv', ServeUiEvents
  PROVE  ClientInv'
<1>1. /\ request.op = "ui_events" /\ UiEvents(request.session) /\ attached' = attached
      /\ request' = NoRequest
      /\ reply' = IF pc = "poll" /\ transport = "live"
                  THEN [op |-> "batch",
                        items |-> Tagged(request.session, retained'[request.session])]
                  ELSE NoReply
      /\ UNCHANGED <<transport, token, pc, inbox, ackSeq, lastSeq, ownerQ,
                     generation, startup, deferred, presented, committed>>
  BY DEF ServeUiEvents, UiEvents
<1>2. request.session = token /\ token # 0 /\ token \in Session /\ Counts(token)
  BY <1>1, RequestFacts DEF ChannelInv, CurrentOK
<1>3. \A t \in Session : t = token => Counts(t)'
  BY <1>1, <1>2, CountsUiEvents DEF ChannelInv
<1>4. Counts(token)'
  BY <1>1, <1>2, <1>3 DEF Counts
<1>5. Tagged(token, retained'[token]) \in Seq(Counted)
  <2>1. retained'[token] \in Seq(Item)
    BY <1>2 DEF OutboxInv, OutboxTypeOK
  <2>2. \A i \in 1 .. Len(retained'[token]) : retained'[token][i].seq = retained'[token][i].ev
    BY <1>1, <1>4 DEF Counts
  <2> QED
    BY <1>2, <2>1, <2>2, TaggedCounted
<1>6. reply' \in {NoReply} \cup [op : {"batch"}, items : Seq(Counted)]
  BY <1>1, <1>2, <1>5
<1>7. ClientTypeOK'
  BY <1>1, <1>6 DEF ChannelInv, ClientTypeOK
<1>8. CurrentOK'
  BY <1>1, <1>4 DEF ChannelInv, CurrentOK
<1>9. AppliedOK'
  BY <1>1 DEF ChannelInv, AppliedOK
<1> QED
  BY <1>7, <1>8, <1>9 DEF ClientInv

LEMMA ServeUiAckClient ==
  ASSUME ChannelInv, ServeUiAck
  PROVE  ClientInv'
<1>1. /\ request.op = "ui_ack" /\ UiAck(request.session, request.seq) /\ attached' = attached
      /\ request' = NoRequest /\ pc' = IF pc = "ack" THEN "idle" ELSE pc
      /\ UNCHANGED <<transport, token, reply, inbox, ackSeq, lastSeq, ownerQ,
                     generation, startup, deferred, presented, committed>>
  BY DEF ServeUiAck, UiAck
<1>2. /\ request.session = token /\ token # 0 /\ token \in Session /\ Counts(token)
      /\ request.seq \in 0 .. MaxEvents
  BY <1>1, RequestFacts DEF ChannelInv, CurrentOK
<1>3. \A t \in Session : t = token => Counts(t)'
  BY <1>1, <1>2, CountsUiAck DEF ChannelInv
<1>4. Counts(token)'
  BY <1>1, <1>2, <1>3 DEF Counts
<1>5. ClientTypeOK'
  BY <1>1 DEF ChannelInv, ClientTypeOK
<1>6. CurrentOK'
  BY <1>1, <1>4 DEF ChannelInv, CurrentOK
<1>7. AppliedOK'
  BY <1>1 DEF ChannelInv, AppliedOK
<1> QED
  BY <1>5, <1>6, <1>7 DEF ClientInv

(* What the client does between two requests leaves the server alone.      *)
LEMMA CurrentKept ==
  ASSUME ChannelInv, UNCHANGED <<attached, emitted, outbox, uiSeq, retained>>,
         UNCHANGED <<transport, token>>,
         \/ request' = request
         \/ token # 0 /\ request'.session = token
  PROVE  CurrentOK'
  BY DEF ChannelInv, CurrentOK, Counts

LEMMA ReceiveBatchClient ==
  ASSUME ChannelInv, ReceiveBatch
  PROVE  ClientInv'
<1>1. /\ reply.op = "batch" /\ reply' = NoReply /\ ackSeq' = 0
      /\ \/ startup /\ deferred' = deferred \o reply.items /\ pc' = "idle" /\ inbox' = inbox
         \/ /\ ~startup /\ inbox' = deferred \o reply.items /\ deferred' = << >>
            /\ pc' = "apply"
      /\ UNCHANGED <<attached, emitted, outbox, uiSeq, retained>>
      /\ UNCHANGED <<transport, token, request, lastSeq, ownerQ, generation, startup,
                     presented, committed>>
      /\ pc = "poll"
  BY DEF ReceiveBatch, outboxVars
<1>2. deferred \o reply.items \in Seq(Counted)
  BY <1>1, RequestFacts, ConcatProperties DEF ChannelInv, ClientTypeOK
<1>3. 0 \in 0 .. MaxEvents /\ << >> \in Seq(Counted)
  BY OutboxAssumption, EmptySeq
<1>4. ClientTypeOK'
  BY <1>1, <1>2, <1>3 DEF ChannelInv, ClientTypeOK
<1>5. CurrentOK'
  BY <1>1, CurrentKept
<1>6. AppliedOK'
  BY <1>1 DEF ChannelInv, AppliedOK
<1> QED
  BY <1>4, <1>5, <1>6 DEF ClientInv

LEMMA ApplyEventClient ==
  ASSUME ChannelInv, ApplyEvent
  PROVE  ClientInv'
<1> DEFINE item     == Head(inbox)
           seen     == Seen(item)
           rejected == KindOf(item) = "bad" /\ ~seen
<1>1. /\ pc = "apply" /\ inbox # << >>
      /\ lastSeq' = IF seen \/ rejected THEN lastSeq ELSE item.seq
      /\ presented' = IF seen \/ rejected THEN presented ELSE Append(presented, item)
      /\ ackSeq' \in {ackSeq, item.seq}
      /\ \/ ownerQ' = ownerQ
         \/ HasRoom /\ ownerQ' = Append(ownerQ, Owned(item))
      /\ inbox' \in {<< >>, Tail(inbox)}
      /\ UNCHANGED <<attached, emitted, outbox, uiSeq, retained>>
      /\ UNCHANGED <<transport, token, request, reply, pc, generation, startup, deferred,
                     committed>>
  BY DEF ApplyEvent, outboxVars
<1>2. inbox \in Seq(Counted) /\ presented \in Seq(Counted)
      /\ ownerQ \in Seq([generation : Nat, item : Counted])
      /\ generation \in Nat /\ lastSeq \in Nat /\ ackSeq \in 0 .. MaxEvents
  BY DEF ChannelInv, ClientTypeOK
<1>3. item \in Counted /\ Tail(inbox) \in Seq(Counted) /\ << >> \in Seq(Counted)
  BY <1>1, <1>2, HeadTailProperties, EmptySeq
<1>4. item.seq \in 0 .. MaxEvents /\ item.seq \in Nat
  BY <1>3, OutboxAssumption DEF Counted, Inbound, Event
<1> HIDE DEF item
<1>5. seen \/ rejected \/ item.seq > lastSeq
  BY <1>2, <1>4 DEF Seen
<1> HIDE DEF seen, rejected
<1>6. ownerQ' \in Seq([generation : Nat, item : Counted]) /\ Len(ownerQ') <= Capacity
  <2>1. CASE ownerQ' = ownerQ
    BY <2>1 DEF ChannelInv, ClientTypeOK
  <2>2. CASE HasRoom /\ ownerQ' = Append(ownerQ, Owned(item))
    <3>1. Owned(item) \in [generation : Nat, item : Counted]
      BY <1>2, <1>3 DEF Owned
    <3>2. Len(ownerQ') = Len(ownerQ) + 1 /\ Len(ownerQ) \in Nat
          /\ ownerQ' \in Seq([generation : Nat, item : Counted])
      BY <1>2, <2>2, <3>1, AppendProperties
    <3>3. Len(ownerQ) < Capacity /\ Capacity \in Nat
      BY <2>2, ChannelAssumption DEF HasRoom
    <3> QED
      BY <3>2, <3>3
  <2> QED
    BY <1>1, <2>1, <2>2
<1>7. presented' \in Seq(Counted) /\ lastSeq' \in Nat
  BY <1>1, <1>2, <1>3, <1>4, AppendProperties
<1>8. ClientTypeOK'
  BY <1>1, <1>2, <1>3, <1>4, <1>6, <1>7 DEF ChannelInv, ClientTypeOK
<1>9. CurrentOK'
  BY <1>1, CurrentKept
<1>10. AppliedOK'
  <2>1. ~startup
    BY <1>1 DEF ChannelInv, AppliedOK
  <2>2. /\ \A i, j \in 1 .. Len(presented') : i < j => presented'[i].seq < presented'[j].seq
        /\ \A i \in 1 .. Len(presented') : presented'[i].seq <= lastSeq'
    <3>0. /\ \A i, j \in 1 .. Len(presented) : i < j => presented[i].seq < presented[j].seq
          /\ \A i \in 1 .. Len(presented) : presented[i].seq <= lastSeq
      BY DEF ChannelInv, AppliedOK
    <3>1. CASE seen \/ rejected
      BY <1>1, <3>0, <3>1
    <3>2. CASE ~(seen \/ rejected)
      <4> DEFINE n == Len(presented)
                 seqs == [i \in 1 .. n |-> presented[i].seq]
      <4>1. /\ presented' = Append(presented, item) /\ lastSeq' = item.seq
            /\ item.seq > lastSeq
        BY <1>1, <1>5, <3>2
      <4>2. /\ n \in Nat /\ Len(presented') = n + 1
            /\ presented'[n + 1] = item
            /\ \A i \in 1 .. n : presented'[i] = presented[i]
        BY <1>2, <1>3, <4>1, AppendProperties
      <4>3. \A i \in 1 .. n : presented[i] \in Counted /\ presented[i].seq \in Nat
        BY <1>2 DEF Counted, Inbound, Number
      <4> HIDE DEF n
      <4>4. \A i \in 1 .. n : presented[i].seq <= lastSeq /\ presented[i].seq < item.seq
        BY <1>2, <1>4, <3>0, <4>1, <4>3 DEF n
      <4>5. ASSUME NEW i \in 1 .. n + 1, NEW j \in 1 .. n + 1, i < j
            PROVE  presented'[i].seq < presented'[j].seq
        <5>1. i \in 1 .. n
          BY <4>2, <4>5
        <5>2. CASE j \in 1 .. n
          BY <3>0, <4>2, <4>5, <5>1, <5>2 DEF n
        <5>3. CASE j = n + 1
          BY <4>2, <4>4, <5>1, <5>3
        <5> QED
          BY <4>2, <5>2, <5>3
      <4>6. ASSUME NEW i \in 1 .. n + 1 PROVE presented'[i].seq <= item.seq
        <5>1. CASE i \in 1 .. n
          BY <1>4, <4>2, <4>3, <4>4, <5>1
        <5>2. CASE i = n + 1
          BY <1>4, <4>2, <5>2
        <5> QED
          BY <4>2, <5>1, <5>2
      <4> QED
        BY <4>1, <4>2, <4>5, <4>6
    <3> QED
      BY <3>1, <3>2
  <2> QED
    BY <1>1, <2>1, <2>2 DEF ChannelInv, AppliedOK
<1> QED
  BY <1>8, <1>9, <1>10 DEF ClientInv

LEMMA FinishBatchClient ==
  ASSUME ChannelInv, FinishBatch
  PROVE  ClientInv'
<1>1. /\ pc = "apply" /\ pc' \in {"idle", "ack"}
      /\ committed' = committed \cup Drained /\ ownerQ' = << >>
      /\ \/ request' = request
         \/ /\ ackSeq # 0 /\ transport = "live"
            /\ request' = [op |-> "ui_ack", session |-> token, seq |-> ackSeq]
      /\ UNCHANGED <<attached, emitted, outbox, uiSeq, retained>>
      /\ UNCHANGED <<transport, token, reply, inbox, ackSeq, lastSeq, generation, startup,
                     deferred, presented>>
  BY DEF FinishBatch, outboxVars
<1>2. Drained \in SUBSET Counted
  <2>1. ownerQ \in Seq([generation : Nat, item : Counted])
    BY DEF ChannelInv, ClientTypeOK
  <2>2. \A i \in 1 .. Len(ownerQ) : ownerQ[i].item \in Counted
    <3>1. \A i \in 1 .. Len(ownerQ) : ownerQ[i] \in [generation : Nat, item : Counted]
      BY <2>1, ElementOfSeq
    <3> QED
      BY <3>1
  <2>3. \A x \in Drained : \E i \in 1 .. Len(ownerQ) : x = ownerQ[i].item
    BY DEF Drained
  <2> QED
    BY <2>2, <2>3
<1>3. transport = "live" => token # 0 /\ token \in Session
  BY OutboxAssumption DEF ChannelInv, ClientTypeOK, CurrentOK, Session
<1>4. ackSeq # 0 => ackSeq \in Event
  BY OutboxAssumption DEF ChannelInv, ClientTypeOK, Event
<1>5. request' \in {NoRequest} \cup [op : {"ui_events"}, session : Session]
                   \cup [op : {"ui_ack"}, session : Session, seq : Event]
  BY <1>1, <1>3, <1>4 DEF ChannelInv, ClientTypeOK
<1>6. ownerQ' \in Seq([generation : Nat, item : Counted]) /\ Len(ownerQ') <= Capacity
  <2>1. Len(ownerQ') = 0 /\ Capacity \in Nat
    BY <1>1, ChannelAssumption
  <2> QED
    BY <1>1, <2>1, EmptySeq
<1>7. ClientTypeOK'
  BY <1>1, <1>2, <1>5, <1>6 DEF ChannelInv, ClientTypeOK
<1>8. CurrentOK'
  <2>1. \/ request' = request
        \/ token # 0 /\ request'.session = token
    BY <1>1, <1>3
  <2> QED
    BY <1>1, <2>1, CurrentKept
<1>9. AppliedOK'
  BY <1>1 DEF ChannelInv, AppliedOK
<1> QED
  BY <1>7, <1>8, <1>9 DEF ClientInv
-----------------------------------------------------------------------------
(* The theorems.                                                           *)

LEMMA ChannelStart ==
  ASSUME Init
  PROVE  ChannelInv
<1>1. /\ OutboxInit /\ attached = 0 /\ transport = "pending" /\ token = 0
      /\ request = NoRequest /\ reply = NoReply /\ pc = "idle" /\ inbox = << >>
      /\ ackSeq = 0 /\ startup \in BOOLEAN /\ ownerQ = << >> /\ generation = 1
      /\ deferred = << >> /\ presented = << >> /\ committed = {}
  BY DEF Init, OutboxInit
<1>2. lastSeq \in Nat
  BY ChannelAssumption DEF Init
<1>3. OutboxInv
  BY <1>1, OutboxInitInv
<1>4. FutureSilent
  BY <1>1 DEF OutboxInit, FutureSilent
<1>5. ClientTypeOK
  <2>1. 0 \in 0 .. MaxSessions /\ 0 \in 0 .. MaxEvents
    BY OutboxAssumption
  <2>2. ownerQ \in Seq([generation : Nat, item : Counted]) /\ Len(ownerQ) <= Capacity
    <3>1. Len(ownerQ) = 0 /\ Capacity \in Nat
      BY <1>1, ChannelAssumption
    <3> QED
      BY <1>1, <3>1, EmptySeq
  <2> QED
    BY <1>1, <1>2, <2>1, <2>2, EmptySeq DEF ClientTypeOK
<1>6. CurrentOK
  BY <1>1 DEF CurrentOK
<1>7. AppliedOK
  BY <1>1 DEF AppliedOK
<1> QED
  BY <1>3, <1>4, <1>5, <1>6, <1>7 DEF ChannelInv

LEMMA ChannelStep ==
  ASSUME ChannelInv, [Next]_vars
  PROVE  ChannelInv'
<1>1. OutboxInv' /\ FutureSilent'
  BY ServerStep, OutboxNextInv, SilentStep DEF ChannelInv
<1>2. ClientInv'
  <2>1. ASSUME NEW s \in Session, Connect(s) PROVE ClientInv'
    BY <2>1, ConnectClient
  <2>2. ASSUME NEW s \in Session, ConnectLost(s) PROVE ClientInv'
    BY <2>2, ConnectLostClient
  <2>3. ASSUME NEW s \in Session, NEW k \in Kind, ServerEmit(s, k) PROVE ClientInv'
    BY <2>3, EmitClient
  <2>4. CASE Reconnect \/ Break \/ Poll \/ LobbyAvailable \/ UNCHANGED vars
    BY <2>4, IdleClient
  <2>5. CASE ServeUiEvents
    BY <1>1, <2>5, ServeUiEventsClient
  <2>6. CASE ReceiveBatch
    BY <2>6, ReceiveBatchClient
  <2>7. CASE ApplyEvent
    BY <2>7, ApplyEventClient
  <2>8. CASE FinishBatch
    BY <2>8, FinishBatchClient
  <2>9. CASE ServeUiAck
    BY <2>9, ServeUiAckClient
  <2> QED
    BY <2>1, <2>2, <2>3, <2>4, <2>5, <2>6, <2>7, <2>8, <2>9 DEF Next
<1> QED
  BY <1>1, <1>2 DEF ChannelInv, ClientInv

(* The invariant of the channel in every reachable state: whatever         *)
(* connection broke and whatever was polled twice, an item the client      *)
(* holds carries the number of its event, and the request on the server is *)
(* of the session the client is on (serve, ClientTransport::try_connect).  *)
THEOREM ChannelInvariant == Spec => []ChannelInv
<1>1. Init => ChannelInv
  BY ChannelStart
<1>2. ChannelInv /\ [Next]_vars => ChannelInv'
  BY ChannelStep
<1> QED
  BY <1>1, <1>2, PTL DEF Spec

(* A sequence over a set is one over any larger set.                       *)
LEMMA SeqWiden ==
  ASSUME NEW S, NEW T, S \in SUBSET T, NEW q \in Seq(S)
  PROVE  q \in Seq(T)
<1>1. Len(q) \in Nat /\ q \in [1 .. Len(q) -> S]
  OBVIOUS
<1>2. q \in [1 .. Len(q) -> T]
  BY <1>1
<1> QED
  BY <1>1, <1>2, SeqDef

(* Type correctness of the client; the owner queue never exceeds           *)
(* MAX_UI_OWNER_COMMANDS (UiOwnerCommandQueue::push).                      *)
THEOREM ChannelTypeCorrect == Spec => []ChannelTypeOK
<1>1. ASSUME ChannelInv PROVE ChannelTypeOK
  <2>1. /\ transport \in {"pending", "live", "broken"} /\ token \in 0 .. MaxSessions
        /\ request \in {NoRequest}
                       \cup [op : {"ui_events"}, session : Session]
                       \cup [op : {"ui_ack"}, session : Session, seq : Event]
        /\ reply \in {NoReply} \cup [op : {"batch"}, items : Seq(Counted)]
        /\ pc \in {"idle", "poll", "apply", "ack"}
        /\ inbox \in Seq(Counted) /\ deferred \in Seq(Counted) /\ presented \in Seq(Counted)
        /\ committed \in SUBSET Counted
        /\ ackSeq \in 0 .. MaxEvents /\ lastSeq \in Nat
        /\ ownerQ \in Seq([generation : Nat, item : Counted]) /\ Len(ownerQ) <= Capacity
        /\ generation \in Nat /\ 1 <= generation /\ generation <= attached + 1
        /\ startup \in BOOLEAN
    BY <1>1 DEF ChannelInv, ClientTypeOK
  <2>2. Counted \in SUBSET Inbound
    BY DEF Counted
  <2>3. inbox \in Seq(Inbound) /\ deferred \in Seq(Inbound) /\ presented \in Seq(Inbound)
    BY <2>1, <2>2, SeqWiden
  <2>4. reply \in {NoReply} \cup [op : {"batch"}, items : Seq(Inbound)]
    <3>1. CASE reply = NoReply
      BY <3>1
    <3>2. CASE reply \in [op : {"batch"}, items : Seq(Counted)]
      <4>1. reply.items \in Seq(Counted)
        BY <3>2
      <4>2. reply.items \in Seq(Inbound)
        BY <2>2, <4>1, SeqWiden
      <4> QED
        BY <3>2, <4>2
    <3> QED
      BY <2>1, <3>1, <3>2
  <2>5. ownerQ \in Seq([generation : Nat, item : Inbound])
    <3>1. [generation : Nat, item : Counted] \in SUBSET [generation : Nat, item : Inbound]
      BY <2>2
    <3>2. ownerQ \in Seq([generation : Nat, item : Counted])
      BY <2>1
    <3> QED
      BY <3>1, <3>2, SeqWiden
  <2>6. request \in {NoRequest}
                    \cup [op : {"ui_events"}, session : Session]
                    \cup [op : {"ui_ack"}, session : Session, seq : Number]
    <3>1. Event \in SUBSET Number
      BY OutboxAssumption DEF Event, Number
    <3> QED
      BY <2>1, <3>1
  <2>7. ackSeq \in Nat
    BY <2>1, OutboxAssumption
  <2>8. generation \in 1 .. MaxSessions + 1
    <3>1. attached \in Nat /\ attached <= MaxSessions /\ MaxSessions \in Nat
      BY <1>1, ServerTypes DEF ChannelInv
    <3> QED
      BY <2>1, <3>1
  <2> QED
    BY <2>1, <2>2, <2>3, <2>4, <2>5, <2>6, <2>7, <2>8 DEF ChannelTypeOK
<1> QED
  BY <1>1, ChannelInvariant, PTL

(* The server half does nothing under the client, its reconnects and its   *)
(* lost requests that UiOutbox does not allow: a step of the channel is    *)
(* one of its steps or leaves it alone (LoopbackIpc::apply).               *)
THEOREM ChannelImplementsOutbox == Spec => OutboxSpec
<1>1. Init => OutboxInit
  BY DEF Init
<1>2. ChannelInv /\ [Next]_vars => [OutboxNext]_outboxVars
  BY ServerStep
<1> QED
  BY <1>1, <1>2, ChannelInvariant, PTL DEF Spec, OutboxSpec

(* Hence the order of the numbers holds with the real client, for every    *)
(* session it was ever on.                                                 *)
THEOREM ChannelOrder == Spec => []SequencedInOrder
  BY ChannelImplementsOutbox, OutboxOrder, PTL

(* ... and what a poll replays is what the poll before it gave.            *)
THEOREM ChannelReplayStable == Spec => ReplayStable
  BY ChannelImplementsOutbox, OutboxReplayStable, PTL

(* The poll of an abandoned session never takes the queue of the session   *)
(* the client is on (serve finishes the request of a broken connection     *)
(* before it accepts the next): every event emitted to that session was    *)
(* numbered or is still queued.                                            *)
THEOREM CurrentQueueIntactHolds == Spec => []CurrentQueueIntact
<1>1. ChannelInv => CurrentQueueIntact
  BY DEF ChannelInv, CurrentOK, Counts, CurrentQueueIntact
<1> QED
  BY <1>1, ChannelInvariant, PTL

(* The client applies the events of a session in the order they were       *)
(* emitted and none twice, whatever was polled again, deferred behind a    *)
(* startup replay, cut off by a full owner queue or reconnected            *)
(* (apply_inbound_ui, UiPresentation::apply).                              *)
THEOREM AppliedOnceInOrderHolds == Spec => []AppliedOnceInOrder
<1>1. ASSUME ChannelInv PROVE AppliedOnceInOrder
  <2>1. presented \in Seq(Counted)
    BY <1>1 DEF ChannelInv, ClientTypeOK
  <2>2. \A i \in 1 .. Len(presented) : presented[i].seq = presented[i].ev
    <3>1. \A i \in 1 .. Len(presented) : presented[i] \in Counted
      BY <2>1, ElementOfSeq
    <3> QED
      BY <3>1 DEF Counted
  <2> QED
    BY <1>1, <2>2 DEF ChannelInv, AppliedOK, AppliedOnceInOrder
<1> QED
  BY <1>1, ChannelInvariant, PTL
-----------------------------------------------------------------------------
(* Delivery to the first session the client gets.                          *)

(* Items of session s with numbers below n, each the next one of those     *)
(* before it or of what was applied up to m: nothing is skipped.           *)
Follows(q, s, n, m) ==
  \A i \in 1 .. Len(q) :
    /\ q[i].session = s /\ q[i].seq < n
    /\ \/ q[i].seq <= m + 1
       \/ i > 1 /\ q[i].seq <= q[i - 1].seq + 1

FollowsHere(q) == Follows(q, token, uiSeq[token], lastSeq)

Shown(e) == \E i \in 1 .. Len(presented) : presented[i].session = token /\ presented[i].ev = e

Stored(e) == \E item \in committed : item.session = token /\ item.ev = e

Waiting(e) ==
  \E j \in 1 .. Len(ownerQ) : ownerQ[j].item.session = token /\ ownerQ[j].item.ev = e

ForOwner(e) == emitted[token][e] \in {"browser", "resource"}

(* What the server has dropped of this session.                            *)
Released == uiSeq[token] - 1 - Len(retained[token])

DoneTo(n) == \A e \in 1 .. n : Shown(e) /\ (ForOwner(e) => Stored(e))

(* Everything up to lastSeq was applied, and what the owner queue had to   *)
(* take is stored or still in it; what was or will be acknowledged is      *)
(* stored.                                                                 *)
Delivery ==
  /\ token # 0 /\ lastSeq < uiSeq[token] /\ ackSeq <= lastSeq
  /\ FollowsHere(deferred)
  /\ pc = "apply" => FollowsHere(inbox)
  /\ reply.op = "batch" => FollowsHere(reply.items)
  /\ \A e \in 1 .. lastSeq : Shown(e) /\ (ForOwner(e) => Stored(e) \/ Waiting(e))
  /\ Released <= lastSeq /\ DoneTo(Released)
  /\ request.op = "ui_ack" => request.seq <= lastSeq /\ DoneTo(request.seq)
  /\ \A j \in 1 .. Len(ownerQ) : ownerQ[j].generation = generation

(* Before the first connection nothing has happened.                       *)
Unconnected ==
  /\ token = 0 /\ transport = "pending" /\ pc = "idle" /\ reply = NoReply
  /\ deferred = << >> /\ presented = << >> /\ ackSeq = 0 /\ (startup \/ lastSeq = 0)

(* What a batch can be at most, with everything that was deferred.         *)
RoomOK ==
  /\ reply.op = "batch" => Len(reply.items) <= MaxEvents
  /\ Len(deferred) <= MaxDeferred + MaxEvents
  /\ startup /\ pc = "poll" => Len(deferred) <= MaxDeferred
  /\ pc = "apply" => Len(ownerQ) + Len(inbox) <= MaxDeferred + MaxEvents + MaxEvents

DeliveryInv ==
  /\ RoomOK
  /\ generation = 1 => Unconnected
  /\ generation = 2 => Delivery

(* The numbers of a batch continue from what was released.                 *)
LEMMA BatchFacts ==
  ASSUME NEW b \in Seq(Item), NEW queue \in Seq(Event), NEW u \in Number, NEW c \in Nat,
         InOrder(b, queue, u, c), (u - 1) + Len(queue) = c, c <= MaxEvents,
         \A i \in 1 .. Len(b) : b[i].seq = b[i].ev
  PROVE  /\ u \in Nat /\ Len(b) \in Nat /\ u - 1 - Len(b) \in Nat
         /\ u - 1 <= c /\ Len(b) <= MaxEvents
         /\ \A i \in 1 .. Len(b) :
              b[i].seq = (u - 1 - Len(b)) + i /\ b[i].ev = (u - 1 - Len(b)) + i
<1> DEFINE n == Len(b)
           m == Len(queue)
<1>1. n \in Nat /\ m \in Nat /\ u \in Nat /\ u >= 1 /\ MaxEvents \in Nat
  BY OutboxAssumption DEF Number
<1>2. \A i \in 1 .. n : b[i].seq = u - n + i - 1
  BY DEF InOrder
<1>3. \A i \in 1 .. n : b[i] \in Item
  BY ElementOfSeq
<1> HIDE DEF n, m
<1>4. n <= u - 1
  <2>1. CASE n = 0
    BY <1>1, <2>1
  <2>2. CASE n # 0
    <3>1. 1 \in 1 .. n
      BY <1>1, <2>2
    <3>2. b[1].seq \in Nat /\ b[1].seq # 0
      BY <1>3, <3>1 DEF Item, Number
    <3>3. b[1].seq = u - n
      BY <1>1, <1>2, <3>1
    <3> QED
      BY <1>1, <3>2, <3>3
  <2> QED
    BY <2>1, <2>2
<1>5. (u - 1) + m = c
  BY DEF m
<1>6. u - 1 - n \in Nat /\ u - 1 <= c /\ n <= MaxEvents
  BY <1>1, <1>4, <1>5
<1>7. \A i \in 1 .. n : u - n + i - 1 = (u - 1 - n) + i
  BY <1>1
<1>8. \A i \in 1 .. n : b[i].seq = (u - 1 - n) + i /\ b[i].ev = (u - 1 - n) + i
  BY <1>2, <1>7 DEF n
<1> QED
  BY <1>1, <1>6, <1>8 DEF n

LEMMA BatchNumbers ==
  ASSUME ChannelInv, token # 0
  PROVE  /\ token \in Session /\ Released \in Nat /\ lastSeq \in Nat
         /\ uiSeq[token] \in Nat /\ uiSeq[token] - 1 <= Len(emitted[token])
         /\ Len(retained[token]) \in Nat /\ Len(retained[token]) <= MaxEvents
         /\ \A i \in 1 .. Len(retained[token]) :
              retained[token][i].seq = Released + i /\ retained[token][i].ev = Released + i
<1>1. token \in Session /\ lastSeq \in Nat
  BY OutboxAssumption DEF ChannelInv, ClientTypeOK, Session
<1>2. /\ retained[token] \in Seq(Item) /\ outbox[token] \in Seq(Event)
      /\ uiSeq[token] \in Number /\ Len(emitted[token]) \in Nat
      /\ Len(emitted[token]) <= MaxEvents
  BY <1>1, ServerTypes DEF ChannelInv
<1>3. /\ InOrder(retained[token], outbox[token], uiSeq[token], Len(emitted[token]))
      /\ (uiSeq[token] - 1) + Len(outbox[token]) = Len(emitted[token])
      /\ \A i \in 1 .. Len(retained[token]) : retained[token][i].seq = retained[token][i].ev
  BY <1>1 DEF ChannelInv, OutboxInv, SequencedInOrder, CurrentOK, Counts
<1> QED
  BY <1>1, <1>2, <1>3, BatchFacts DEF Released

(* What follows still does when more is numbered and more was applied.     *)
LEMMA FollowsLater ==
  ASSUME NEW q \in Seq(Counted), NEW s, NEW n \in Nat, NEW l \in Nat, NEW m \in Nat, NEW k \in Nat,
         Follows(q, s, n, m), n <= l, m <= k
  PROVE  Follows(q, s, l, k)
<1>1. \A i \in 1 .. Len(q) : q[i] \in Counted
  BY ElementOfSeq
<1>2. \A i \in 1 .. Len(q) : q[i].seq \in Nat
  BY <1>1 DEF Counted, Inbound, Number
<1>3. \A i \in 1 .. Len(q) : q[i].session = s /\ q[i].seq < l
  BY <1>2 DEF Follows
<1>4. ASSUME NEW i \in 1 .. Len(q)
      PROVE  \/ q[i].seq <= k + 1
             \/ i > 1 /\ q[i].seq <= q[i - 1].seq + 1
  <2>1. \/ q[i].seq <= m + 1
        \/ i > 1 /\ q[i].seq <= q[i - 1].seq + 1
    BY DEF Follows
  <2>2. q[i].seq <= m + 1 => q[i].seq <= k + 1
    BY <1>2
  <2> QED
    BY <2>1, <2>2
<1> QED
  BY <1>3, <1>4 DEF Follows

(* A sequence that follows stays so before another one.                    *)
LEMMA FollowsConcat ==
  ASSUME NEW q \in Seq(Counted), NEW r \in Seq(Counted), NEW s, NEW n \in Nat, NEW m \in Nat,
         Follows(q, s, n, m), Follows(r, s, n, m)
  PROVE  Follows(q \o r, s, n, m)
<1> DEFINE a == Len(q)
           b == Len(r)
           w == q \o r
<1>1. a \in Nat /\ b \in Nat /\ Len(w) = a + b
  BY ConcatProperties
<1>2. /\ \A i \in 1 .. a : w[i] = q[i]
      /\ \A i \in 1 .. b : w[a + i] = r[i]
  BY <1>1
<1> HIDE DEF a, b, w
<1>3. ASSUME NEW i \in 1 .. a + b
      PROVE  /\ w[i].session = s /\ w[i].seq < n
             /\ \/ w[i].seq <= m + 1
                \/ i > 1 /\ w[i].seq <= w[i - 1].seq + 1
  <2>1. CASE i \in 1 .. a
    <3>1. w[i] = q[i] /\ (i > 1 => w[i - 1] = q[i - 1])
      BY <1>1, <1>2, <2>1
    <3> QED
      BY <2>1, <3>1 DEF Follows, a
  <2>2. CASE i \notin 1 .. a
    <3> DEFINE j == i - a
    <3>1. j \in 1 .. b /\ i = a + j
      BY <1>1, <2>2
    <3>2. w[i] = r[j] /\ (j > 1 => w[i - 1] = r[j - 1])
      <4>1. w[i] = r[j]
        BY <1>2, <3>1
      <4>2. ASSUME j > 1 PROVE w[i - 1] = r[j - 1]
        <5>1. j - 1 \in 1 .. b /\ i - 1 = a + (j - 1)
          BY <1>1, <3>1, <4>2
        <5> QED
          BY <1>2, <5>1
      <4> QED
        BY <4>1, <4>2
    <3>3. j > 1 => i > 1
      BY <1>1, <3>1
    <3> HIDE DEF j
    <3> QED
      BY <3>1, <3>2, <3>3 DEF Follows, b
  <2> QED
    BY <2>1, <2>2
<1>4. Len(w) = a + b
  BY <1>1
<1> QED
  BY <1>3, <1>4 DEF Follows, w

(* The session the client is on goes on unchanged while the server works   *)
(* for another one, or emits.                                              *)
LEMMA ServerElsewhere ==
  ASSUME ChannelInv, Delivery, UNCHANGED clientVars,
         uiSeq'[token] = uiSeq[token], retained'[token] = retained[token],
         \A e \in 1 .. lastSeq : emitted'[token][e] = emitted[token][e]
  PROVE  Delivery'
<1>1. token # 0 /\ lastSeq < uiSeq[token] /\ ackSeq <= lastSeq
  BY DEF Delivery
<1>2. /\ Released \in Nat /\ lastSeq \in Nat /\ Released <= lastSeq
      /\ Released' = Released
  BY <1>1, BatchNumbers DEF Delivery, Released, clientVars
<1>3. \A e : (Shown(e)' <=> Shown(e)) /\ (Stored(e)' <=> Stored(e)) /\ (Waiting(e)' <=> Waiting(e))
  BY DEF Shown, Stored, Waiting, clientVars
<1>4. \A e \in 1 .. lastSeq : ForOwner(e)' <=> ForOwner(e)
  BY DEF ForOwner, clientVars
<1>5. \A n \in Nat : n <= lastSeq /\ DoneTo(n) => DoneTo(n)'
  <2> SUFFICES ASSUME NEW n \in Nat, n <= lastSeq, DoneTo(n) PROVE DoneTo(n)'
    OBVIOUS
  <2>1. \A e \in 1 .. n : e \in 1 .. lastSeq
    BY <1>2
  <2> QED
    BY <1>3, <1>4, <2>1 DEF DoneTo
<1>6. \A q : FollowsHere(q) => Follows(q, token', uiSeq'[token'], lastSeq')
  BY DEF FollowsHere, clientVars
<1>7. /\ FollowsHere(deferred)'
      /\ (pc = "apply" => FollowsHere(inbox))'
      /\ (reply.op = "batch" => FollowsHere(reply.items))'
  BY <1>6 DEF Delivery, FollowsHere, clientVars
<1>8. \A e \in 1 .. lastSeq' : (Shown(e) /\ (ForOwner(e) => Stored(e) \/ Waiting(e)))'
  BY <1>3, <1>4 DEF Delivery, clientVars
<1>9. (Released <= lastSeq /\ DoneTo(Released))'
  <2>1. DoneTo(Released)
    BY DEF Delivery
  <2>2. \A n \in Nat : n = Released => DoneTo(n)'
    BY <1>2, <1>5, <2>1
  <2>3. DoneTo(Released)'
    BY <1>2, <2>2 DEF DoneTo
  <2> QED
    BY <1>2, <2>3 DEF clientVars
<1>10. (request.op = "ui_ack" => request.seq <= lastSeq /\ DoneTo(request.seq))'
  <2> SUFFICES ASSUME request.op = "ui_ack" PROVE request.seq <= lastSeq /\ DoneTo(request.seq)'
    BY DEF clientVars
  <2>1. request.seq \in 0 .. MaxEvents /\ request.seq <= lastSeq /\ DoneTo(request.seq)
    BY RequestFacts DEF ChannelInv, Delivery
  <2>2. \A n \in Nat : n = request.seq => DoneTo(n)'
    BY <1>5, <2>1
  <2>3. DoneTo(request.seq)'
    BY <2>1, <2>2 DEF DoneTo, clientVars
  <2> QED
    BY <2>1, <2>3
<1>11. (token # 0 /\ lastSeq < uiSeq[token] /\ ackSeq <= lastSeq)'
  BY <1>1 DEF clientVars
<1>12. (\A j \in 1 .. Len(ownerQ) : ownerQ[j].generation = generation)'
  BY DEF Delivery, clientVars
<1> QED
  BY <1>7, <1>8, <1>9, <1>10, <1>11, <1>12 DEF Delivery

LEMMA EmitDelivery ==
  ASSUME ChannelInv, DeliveryInv, NEW s \in Session, NEW k \in Kind, ServerEmit(s, k)
  PROVE  DeliveryInv'
<1>1. /\ UNCHANGED clientVars /\ uiSeq' = uiSeq /\ retained' = retained
      /\ emitted' = [emitted EXCEPT ![s] = Append(@, k)]
  BY DEF ServerEmit, Emit
<1>2. RoomOK' /\ (generation = 1 => Unconnected)'
  BY <1>1 DEF DeliveryInv, RoomOK, Unconnected, clientVars
<1>3. ASSUME generation = 2 PROVE Delivery'
  <2>1. Delivery /\ token # 0
    BY <1>3 DEF DeliveryInv, Delivery
  <2>2. /\ token \in Session /\ lastSeq \in Nat /\ lastSeq < uiSeq[token]
        /\ uiSeq[token] \in Nat /\ uiSeq[token] - 1 <= Len(emitted[token])
    BY <2>1, BatchNumbers DEF Delivery
  <2>3. ASSUME NEW e \in 1 .. lastSeq PROVE emitted'[token][e] = emitted[token][e]
    <3>1. CASE s # token
      BY <1>1, <3>1
    <3>2. CASE s = token
      <4> DEFINE c == Len(emitted[token])
      <4>1. emitted[token] \in Seq(Kind) /\ c \in Nat /\ emitted'[token] = Append(emitted[token], k)
        BY <1>1, <2>2, <3>2, ServerTypes DEF ChannelInv
      <4>2. e \in 1 .. c
        BY <2>2, <4>1
      <4> QED
        BY <4>1, <4>2, AppendProperties
    <3> QED
      BY <3>1, <3>2
  <2> QED
    BY <1>1, <2>1, <2>3, ServerElsewhere
<1>4. generation' = generation
  BY <1>1 DEF clientVars
<1> QED
  BY <1>2, <1>3, <1>4 DEF DeliveryInv

LEMMA ConnectLostDelivery ==
  ASSUME ChannelInv, DeliveryInv, NEW s \in Session, ConnectLost(s)
  PROVE  DeliveryInv'
<1>1. /\ UNCHANGED clientVars /\ emitted' = emitted /\ s = attached + 1
      /\ uiSeq' = [uiSeq EXCEPT ![s] = 1] /\ retained' = [retained EXCEPT ![s] = << >>]
  BY DEF ConnectLost, Attach
<1>2. RoomOK' /\ (generation = 1 => Unconnected)'
  BY <1>1 DEF DeliveryInv, RoomOK, Unconnected, clientVars
<1>3. ASSUME generation = 2 PROVE Delivery'
  <2>1. Delivery /\ token # 0
    BY <1>3 DEF DeliveryInv, Delivery
  <2>2. token # s /\ token \in Session
    BY <1>1, <2>1, BatchNumbers, ServerTypes DEF ChannelInv, CurrentOK
  <2>3. uiSeq'[token] = uiSeq[token] /\ retained'[token] = retained[token]
    BY <1>1, <2>2, ServerTypes DEF ChannelInv
  <2> QED
    BY <1>1, <2>1, <2>3, ServerElsewhere
<1>4. generation' = generation
  BY <1>1 DEF clientVars
<1> QED
  BY <1>2, <1>3, <1>4 DEF DeliveryInv

LEMMA IdleDelivery ==
  ASSUME ChannelInv, DeliveryInv,
         Reconnect \/ Break \/ Poll \/ LobbyAvailable \/ UNCHANGED vars
  PROVE  DeliveryInv'
<1>1. /\ UNCHANGED <<emitted, uiSeq, retained>>
      /\ UNCHANGED <<token, inbox, ackSeq, lastSeq, ownerQ, generation, deferred, presented,
                     committed>>
  BY DEF Reconnect, Break, Poll, LobbyAvailable, vars, outboxVars, clientVars
<1>2. /\ (pc' = "apply") <=> (pc = "apply")
      /\ reply' \in {reply, NoReply}
      /\ request' = request \/ request'.op # "ui_ack"
      /\ startup' => startup
      /\ startup' /\ pc' = "poll" => Len(deferred) < MaxDeferred \/ (startup /\ pc = "poll")
  <2>0. startup \in BOOLEAN
    BY DEF ChannelInv, ClientTypeOK
  <2>1. CASE Reconnect
    BY <2>0, <2>1 DEF Reconnect
  <2>2. CASE Poll
    BY <2>0, <2>2 DEF Poll
  <2>3. CASE Break
    BY <2>0, <2>3 DEF Break, NoRequest
  <2>4. CASE LobbyAvailable
    BY <2>0, <2>4 DEF LobbyAvailable
  <2>5. CASE UNCHANGED vars
    BY <2>0, <2>5 DEF vars, clientVars
  <2> QED
    BY <2>1, <2>2, <2>3, <2>4, <2>5
<1>3. NoReply.op # "batch"
  BY DEF NoReply
<1>4. RoomOK'
  <2>1. Len(deferred) \in Nat /\ MaxDeferred \in Nat
    BY ChannelAssumption DEF ChannelInv, ClientTypeOK
  <2>2. (startup /\ pc = "poll" => Len(deferred) <= MaxDeferred)'
    BY <1>1, <1>2, <2>1 DEF DeliveryInv, RoomOK
  <2> QED
    BY <1>1, <1>2, <1>3, <2>2 DEF DeliveryInv, RoomOK
<1>5. (generation = 1 => Unconnected)'
  BY <1>1 DEF DeliveryInv, Unconnected, Reconnect, Break, Poll, LobbyAvailable, vars, clientVars
<1>6. ASSUME Delivery PROVE Delivery'
  BY <1>1, <1>2, <1>3, <1>6
     DEF Delivery, FollowsHere, Shown, Stored, Waiting, ForOwner, Released, DoneTo
<1> QED
  BY <1>1, <1>4, <1>5, <1>6 DEF DeliveryInv

LEMMA ConnectDelivery ==
  ASSUME ChannelInv, DeliveryInv, NEW s \in Session, Connect(s)
  PROVE  DeliveryInv'
<1>1. /\ pc = "idle" /\ request = NoRequest
      /\ s = attached + 1 /\ token' = s /\ generation' = generation + 1
      /\ uiSeq' = [uiSeq EXCEPT ![s] = 1] /\ retained' = [retained EXCEPT ![s] = << >>]
      /\ lastSeq' = IF startup THEN 0 ELSE lastSeq
      /\ ownerQ' = OfGeneration(ownerQ, generation + 1)
      /\ UNCHANGED <<request, reply, pc, inbox, ackSeq, startup, deferred, presented, committed>>
  BY DEF Connect, ServerFree, Attach
<1>2. RoomOK'
  BY <1>1 DEF DeliveryInv, RoomOK
<1>3. generation \in Nat /\ generation >= 1
  BY DEF ChannelInv, ClientTypeOK
<1>4. ASSUME generation = 1 PROVE Delivery'
  <2>1. /\ reply = NoReply /\ deferred = << >> /\ ackSeq = 0 /\ lastSeq' = 0
    BY <1>1, <1>4 DEF DeliveryInv, Unconnected
  <2>2. s # 0 /\ uiSeq'[s] = 1 /\ retained'[s] = << >>
    BY <1>1, ServerTypes DEF ChannelInv
  <2>3. Released' = 0
    BY <1>1, <2>2 DEF Released
  <2>4. FollowsHere(deferred)'
    BY <1>1, <2>1 DEF FollowsHere, Follows
  <2>5. ClientInv'
    BY ConnectClient
  <2>6. Len(ownerQ') = 0
    BY <1>1, <2>5 DEF ClientInv, AppliedOK
  <2>7. reply'.op # "batch" /\ request'.op # "ui_ack" /\ pc' # "apply"
    BY <1>1, <2>1 DEF NoReply, NoRequest
  <2>8. DoneTo(Released)' /\ (Released <= lastSeq)'
    BY <2>1, <2>3 DEF DoneTo
  <2>9. (token # 0 /\ lastSeq < uiSeq[token] /\ ackSeq <= lastSeq)'
    BY <1>1, <2>1, <2>2
  <2>10. \A e \in 1 .. lastSeq' : (Shown(e) /\ (ForOwner(e) => Stored(e) \/ Waiting(e)))'
    BY <2>1
  <2>11. (\A j \in 1 .. Len(ownerQ) : ownerQ[j].generation = generation)'
    BY <2>6
  <2> QED
    BY <2>4, <2>7, <2>8, <2>9, <2>10, <2>11 DEF Delivery
<1> QED
  BY <1>1, <1>2, <1>3, <1>4 DEF DeliveryInv

(* What was done of this session stays done when the server hands out its  *)
(* queue or drops a part of its batch.                                     *)
LEMMA DoneKept ==
  ASSUME UNCHANGED <<emitted, token, presented, committed, ownerQ>>
  PROVE  /\ \A n : DoneTo(n) => DoneTo(n)'
         /\ \A e : /\ Shown(e)' <=> Shown(e)
                   /\ Stored(e)' <=> Stored(e)
                   /\ Waiting(e)' <=> Waiting(e)
                   /\ ForOwner(e)' <=> ForOwner(e)
  BY DEF DoneTo, Shown, Stored, Waiting, ForOwner

LEMMA ServeUiEventsDelivery ==
  ASSUME ChannelInv, ChannelInv', DeliveryInv, ServeUiEvents
  PROVE  DeliveryInv'
<1> DEFINE u == uiSeq[token]
           v == uiSeq'[token]
           b == retained'[token]
           r == Released
<1>1. /\ request.op = "ui_events" /\ request' = NoRequest
      /\ UiEvents(request.session) /\ emitted' = emitted
      /\ reply' = IF pc = "poll" /\ transport = "live"
                  THEN [op |-> "batch",
                        items |-> Tagged(request.session, retained'[request.session])]
                  ELSE NoReply
      /\ UNCHANGED <<transport, token, pc, inbox, ackSeq, lastSeq, ownerQ,
                     generation, startup, deferred, presented, committed>>
  BY DEF ServeUiEvents, UiEvents
<1>2. request.session = token /\ token # 0 /\ token \in Session /\ UiEvents(token)
  BY <1>1, RequestFacts DEF ChannelInv, CurrentOK
<1>3. /\ u \in Nat /\ r \in Nat /\ Len(retained[token]) \in Nat /\ lastSeq \in Nat
      /\ r = u - 1 - Len(retained[token])
  BY <1>2, BatchNumbers DEF Released
<1>4. /\ v \in Nat /\ Len(b) \in Nat /\ Len(b) <= MaxEvents /\ Released' = v - 1 - Len(b)
      /\ \A i \in 1 .. Len(b) : b[i].seq = Released' + i
  <2>1. token' # 0 /\ token' = token
    BY <1>1, <1>2
  <2>2. /\ b \in Seq(Item) /\ outbox'[token] \in Seq(Event) /\ v \in Number
        /\ Len(emitted[token]) \in Nat /\ Len(emitted[token]) <= MaxEvents
    BY <1>1, <1>2, ServerTypes DEF ChannelInv, OutboxInv, OutboxTypeOK
  <2>3. /\ InOrder(b, outbox'[token], v, Len(emitted[token]))
        /\ (v - 1) + Len(outbox'[token]) = Len(emitted[token])
        /\ \A i \in 1 .. Len(b) : b[i].seq = b[i].ev
    BY <1>1, <1>2, <2>1 DEF ChannelInv, OutboxInv, SequencedInOrder, CurrentOK, Counts
  <2>4. Released' = v - 1 - Len(b)
    BY <2>1 DEF Released
  <2> HIDE DEF b, v
  <2> QED
    BY <2>2, <2>3, <2>4, BatchFacts
<1>5. u <= v /\ Released' = r
  <2>1. CASE retained[token] # << >>
    BY <1>1, <1>2, <1>3, <1>4, <2>1 DEF UiEvents
  <2>2. CASE retained[token] = << >>
    <3>1. /\ v = u + Len(outbox[token]) /\ b = Numbered(outbox[token], uiSeq[token])
          /\ Len(outbox[token]) \in Nat /\ outbox[token] \in Seq(Event)
          /\ uiSeq[token] \in Number
      BY <1>2, <2>2, ServerTypes DEF UiEvents, ChannelInv
    <3>2. Len(b) = Len(outbox[token])
      BY <3>1, NumberedProperties
    <3>3. Len(retained[token]) = 0
      BY <2>2
    <3> QED
      BY <1>3, <1>4, <3>1, <3>2, <3>3
  <2> QED
    BY <2>1, <2>2
<1> HIDE DEF r, u, v, b
<1>6. reply'.op = "batch" =>
        reply'.items = Tagged(token, b) /\ Len(reply'.items) = Len(b)
  <2>1. reply'.op = "batch" => reply'.items = Tagged(token, b)
    BY <1>1, <1>2 DEF NoReply, b
  <2>2. Len(Tagged(token, b)) = Len(b)
    BY <1>4 DEF Tagged
  <2> QED
    BY <2>1, <2>2
<1>7. RoomOK'
  BY <1>1, <1>4, <1>6 DEF DeliveryInv, RoomOK
<1>8. (generation = 1 => Unconnected)'
  BY <1>1, <1>2 DEF DeliveryInv, Unconnected
<1>9. ASSUME generation = 2 PROVE Delivery'
  <2>1. Delivery
    BY <1>9 DEF DeliveryInv
  <2>2. r <= lastSeq /\ DoneTo(r) /\ lastSeq < u /\ ackSeq <= lastSeq /\ ackSeq \in Nat
    BY <2>1, OutboxAssumption DEF Delivery, r, u, ChannelInv, ClientTypeOK
  <2>3. (reply.op = "batch" => FollowsHere(reply.items))'
    <3> SUFFICES ASSUME reply'.op = "batch"
                 PROVE  Follows(reply'.items, token', uiSeq'[token'], lastSeq')
      BY DEF FollowsHere
    <3>1. \A i \in 1 .. Len(b) : /\ Tagged(token, b)[i].session = token
                                 /\ Tagged(token, b)[i].seq = r + i
      BY <1>4, <1>5 DEF Tagged
    <3>0. /\ Len(b) \in Nat /\ r \in Nat /\ v \in Nat /\ r = v - 1 - Len(b)
          /\ lastSeq \in Nat /\ r <= lastSeq
      BY <1>3, <1>4, <1>5, <2>2
    <3>2. \A i \in 1 .. Len(b) : r + i < v
      BY <3>0
    <3>3. \A i \in 1 .. Len(b) : \/ r + i <= lastSeq + 1
                                 \/ i > 1 /\ r + i <= (r + (i - 1)) + 1
      <4> SUFFICES ASSUME NEW i \in 1 .. Len(b), ~(i > 1) PROVE r + i <= lastSeq + 1
        BY <3>0
      <4>1. i = 1
        BY <3>0
      <4> QED
        BY <3>0, <4>1
    <3>4. \A i \in 1 .. Len(b) : i > 1 => Tagged(token, b)[i - 1].seq = r + (i - 1)
      <4> SUFFICES ASSUME NEW i \in 1 .. Len(b), i > 1
                   PROVE  Tagged(token, b)[i - 1].seq = r + (i - 1)
        OBVIOUS
      <4>1. i - 1 \in 1 .. Len(b)
        BY <1>4
      <4> QED
        BY <3>1, <4>1
    <3>5. Follows(Tagged(token, b), token, v, lastSeq)
      <4>1. Len(Tagged(token, b)) = Len(b)
        BY <1>4 DEF Tagged
      <4> QED
        BY <3>1, <3>2, <3>3, <3>4, <4>1 DEF Follows
    <3> QED
      BY <1>1, <1>6, <3>5 DEF v
  <2>4. FollowsHere(deferred)' /\ (pc = "apply" => FollowsHere(inbox))'
    <3>1. deferred \in Seq(Counted) /\ inbox \in Seq(Counted)
      BY DEF ChannelInv, ClientTypeOK
    <3>2. /\ Follows(deferred, token, u, lastSeq)
          /\ pc = "apply" => Follows(inbox, token, u, lastSeq)
      BY <2>1 DEF Delivery, FollowsHere, u
    <3>3. /\ Follows(deferred, token, v, lastSeq)
          /\ pc = "apply" => Follows(inbox, token, v, lastSeq)
      <4>1. \A q \in Seq(Counted) : Follows(q, token, u, lastSeq) => Follows(q, token, v, lastSeq)
        BY <1>3, <1>4, <1>5, FollowsLater
      <4> QED
        BY <3>1, <3>2, <4>1
    <3> QED
      BY <1>1, <3>3 DEF FollowsHere, v
  <2>5. (Released <= lastSeq /\ DoneTo(Released))'
    <3>1. \A n : n = Released' /\ DoneTo(n)' => DoneTo(Released)'
      BY DEF DoneTo
    <3> QED
      BY <1>1, <1>5, <2>2, <3>1, DoneKept
  <2>6. \A e \in 1 .. lastSeq' : (Shown(e) /\ (ForOwner(e) => Stored(e) \/ Waiting(e)))'
    BY <1>1, <2>1, DoneKept DEF Delivery
  <2>7. (token # 0 /\ lastSeq < uiSeq[token] /\ ackSeq <= lastSeq)'
    BY <1>1, <1>2, <1>3, <1>4, <1>5, <2>2 DEF v
  <2>8. (\A j \in 1 .. Len(ownerQ) : ownerQ[j].generation = generation)'
    BY <1>1, <2>1 DEF Delivery
  <2> QED
    BY <1>1, <2>3, <2>4, <2>5, <2>6, <2>7, <2>8 DEF Delivery, NoRequest
<1> QED
  BY <1>1, <1>7, <1>8, <1>9 DEF DeliveryInv

(* An acknowledgement releases nothing above the number it names.          *)
LEMMA AboveReleases ==
  ASSUME NEW b \in Seq(Item), NEW q \in Nat, NEW r \in Nat,
         \A i \in 1 .. Len(b) : b[i].seq = r + i
  PROVE  /\ Len(Above(b, q)) \in Nat /\ Len(b) \in Nat /\ Len(Above(b, q)) <= Len(b)
         /\ \/ Len(Above(b, q)) = Len(b)
            \/ r + (Len(b) - Len(Above(b, q))) <= q
<1>1. Len(b) \in Nat /\ r \in Int
  OBVIOUS
<1>2. PICK n \in 0 .. Len(b) :
        Above(b, q) = SubSeq(b, n + 1, Len(b)) /\ (n = 0 \/ r + n <= q)
  BY <1>1, AboveIsSuffix, Zenon
<1>3. Len(SubSeq(b, n + 1, Len(b))) = Len(b) - n
  BY SuffixProperties
<1> QED
  BY <1>1, <1>2, <1>3

LEMMA ServeUiAckDelivery ==
  ASSUME ChannelInv, ChannelInv', DeliveryInv, ServeUiAck
  PROVE  DeliveryInv'
<1> DEFINE b == retained[token]
           r == Released
           q == request.seq
<1>1. /\ request.op = "ui_ack" /\ request' = NoRequest
      /\ UiAck(request.session, q) /\ emitted' = emitted /\ uiSeq' = uiSeq
      /\ pc' = IF pc = "ack" THEN "idle" ELSE pc
      /\ UNCHANGED <<transport, token, reply, inbox, ackSeq, lastSeq, ownerQ,
                     generation, startup, deferred, presented, committed>>
  BY DEF ServeUiAck, UiAck
<1>2. /\ request.session = token /\ token # 0 /\ token \in Session /\ q \in Nat
      /\ retained' = [retained EXCEPT ![token] = Above(@, q)]
  <2>1. /\ request # NoRequest /\ request.session \in Session /\ q \in 0 .. MaxEvents
    BY <1>1, RequestFacts DEF ChannelInv
  <2>2. request.session = token /\ token # 0
    BY <2>1 DEF ChannelInv, CurrentOK
  <2>3. q \in Nat
    BY <2>1
  <2> QED
    BY <1>1, <2>1, <2>2, <2>3 DEF UiAck
<1>3. /\ b \in Seq(Item) /\ r \in Nat /\ lastSeq \in Nat /\ uiSeq[token] \in Nat
      /\ r = uiSeq[token] - 1 - Len(b)
      /\ \A i \in 1 .. Len(b) : b[i].seq = r + i
  BY <1>2, BatchNumbers, ServerTypes DEF Released, ChannelInv
<1>4. retained'[token] = Above(b, q)
  BY <1>2, ServerTypes DEF ChannelInv
<1>5. Released' = uiSeq[token] - 1 - Len(Above(b, q))
  BY <1>1, <1>4 DEF Released
<1> HIDE DEF b, r, q
<1>6. Released' \in Nat /\ (Released' = r \/ Released' <= q)
  <2> DEFINE m == Len(Above(b, q))
             n == Len(b)
  <2>1. /\ m \in Nat /\ n \in Nat /\ m <= n
        /\ m = n \/ r + (n - m) <= q
    BY <1>2, <1>3, AboveReleases
  <2>2. Released' = uiSeq[token] - 1 - m /\ r = uiSeq[token] - 1 - n
    BY <1>3, <1>5
  <2> DEFINE p == uiSeq[token]
             t == Released'
  <2>3. p \in Nat /\ r \in Nat /\ q \in Nat
    BY <1>2, <1>3
  <2>4. t = p - 1 - m /\ r = p - 1 - n
    BY <2>2
  <2> HIDE DEF m, n, p, t
  <2>5. t = r + (n - m)
    BY <2>1, <2>3, <2>4
  <2>6. t \in Nat /\ (t = r \/ t <= q)
    BY <2>1, <2>3, <2>5
  <2> QED
    BY <2>6 DEF t
<1>7. RoomOK'
  BY <1>1 DEF DeliveryInv, RoomOK
<1>8. (generation = 1 => Unconnected)'
  BY <1>1, <1>2 DEF DeliveryInv, Unconnected
<1>9. ASSUME generation = 2 PROVE Delivery'
  <2>1. Delivery
    BY <1>9 DEF DeliveryInv
  <2>2. r <= lastSeq /\ DoneTo(r) /\ q <= lastSeq /\ DoneTo(q)
    BY <1>1, <2>1 DEF Delivery, r, q
  <2>3. Released' <= lastSeq /\ DoneTo(Released')
    <3>1. \A n \in Nat : (n = r \/ n <= q) => n <= lastSeq /\ DoneTo(n)
      BY <1>2, <1>3, <2>2 DEF DoneTo
    <3> QED
      BY <1>6, <3>1
  <2>4. DoneTo(Released)'
    <3>1. \A n : n = Released' /\ DoneTo(n)' => DoneTo(Released)'
      BY DEF DoneTo
    <3> QED
      BY <1>1, <2>3, <3>1, DoneKept
  <2>5. \A e \in 1 .. lastSeq' : (Shown(e) /\ (ForOwner(e) => Stored(e) \/ Waiting(e)))'
    BY <1>1, <2>1, DoneKept DEF Delivery
  <2>6. /\ FollowsHere(deferred)' /\ (pc = "apply" => FollowsHere(inbox))'
        /\ (reply.op = "batch" => FollowsHere(reply.items))'
    BY <1>1, <2>1 DEF Delivery, FollowsHere
  <2>7. (token # 0 /\ lastSeq < uiSeq[token] /\ ackSeq <= lastSeq)'
    BY <1>1, <2>1 DEF Delivery
  <2>8. (\A j \in 1 .. Len(ownerQ) : ownerQ[j].generation = generation)'
    BY <1>1, <2>1 DEF Delivery
  <2> QED
    BY <1>1, <2>3, <2>4, <2>5, <2>6, <2>7, <2>8 DEF Delivery, NoRequest
<1> QED
  BY <1>1, <1>7, <1>8, <1>9 DEF DeliveryInv

LEMMA ReceiveBatchDelivery ==
  ASSUME ChannelInv, DeliveryInv, ReceiveBatch
  PROVE  DeliveryInv'
<1> DEFINE all == deferred \o reply.items
<1>1. /\ reply.op = "batch" /\ reply' = NoReply /\ ackSeq' = 0 /\ pc = "poll"
      /\ \/ startup /\ deferred' = all /\ pc' = "idle" /\ inbox' = inbox
         \/ ~startup /\ inbox' = all /\ deferred' = << >> /\ pc' = "apply"
      /\ UNCHANGED <<emitted, uiSeq, retained, token, request, lastSeq, ownerQ, generation,
                     startup, presented, committed>>
  BY DEF ReceiveBatch, outboxVars
<1>2. /\ deferred \in Seq(Counted) /\ reply.items \in Seq(Counted) /\ lastSeq \in Nat
      /\ MaxDeferred \in Nat /\ MaxEvents \in Nat
  BY <1>1, RequestFacts, OutboxAssumption, ChannelAssumption DEF ChannelInv, ClientTypeOK
<1>3. /\ Len(all) = Len(deferred) + Len(reply.items)
      /\ Len(deferred) \in Nat /\ Len(reply.items) \in Nat /\ Len(reply.items) <= MaxEvents
      /\ Len(deferred) <= MaxDeferred + MaxEvents
      /\ startup => Len(deferred) <= MaxDeferred
  BY <1>1, <1>2, ConcatProperties DEF DeliveryInv, RoomOK
<1>4. ownerQ = << >> /\ Len(ownerQ) = 0 /\ Len(<< >>) = 0
  BY <1>1 DEF ChannelInv, AppliedOK
<1> HIDE DEF all
<1>5. RoomOK'
  <2>1. CASE startup
    BY <1>1, <1>2, <1>3, <2>1 DEF RoomOK, NoReply
  <2>2. CASE ~startup
    BY <1>1, <1>2, <1>3, <1>4, <2>2 DEF RoomOK, NoReply
  <2> QED
    BY <2>1, <2>2
<1>6. generation # 1
  BY <1>1 DEF DeliveryInv, Unconnected
<1>7. ASSUME generation = 2 PROVE Delivery'
  <2>1. Delivery
    BY <1>7 DEF DeliveryInv
  <2>2. /\ FollowsHere(deferred) /\ FollowsHere(reply.items)
        /\ token # 0 /\ lastSeq < uiSeq[token]
    BY <1>1, <2>1 DEF Delivery
  <2>3. uiSeq[token] \in Nat
    BY <2>2, BatchNumbers
  <2>4. FollowsHere(all)
    BY <1>2, <2>2, <2>3, FollowsConcat DEF FollowsHere, all
  <2>5. FollowsHere(<< >>)
    BY <1>4 DEF FollowsHere, Follows
  <2>6. FollowsHere(deferred)' /\ (pc = "apply" => FollowsHere(inbox))'
    BY <1>1, <2>4, <2>5 DEF FollowsHere
  <2>7. (token # 0 /\ lastSeq < uiSeq[token] /\ ackSeq <= lastSeq)'
    BY <1>1, <1>2, <2>2
  <2>8. DoneTo(Released)' /\ (Released <= lastSeq)'
        /\ (request.op = "ui_ack" => request.seq <= lastSeq /\ DoneTo(request.seq))'
    BY <1>1, <2>1 DEF Delivery, DoneTo, Released, Shown, Stored, ForOwner
  <2>9. \A e \in 1 .. lastSeq' : (Shown(e) /\ (ForOwner(e) => Stored(e) \/ Waiting(e)))'
    BY <1>1, <2>1, DoneKept DEF Delivery
  <2>10. (\A j \in 1 .. Len(ownerQ) : ownerQ[j].generation = generation)'
    BY <1>1, <2>1 DEF Delivery
  <2>11. reply'.op # "batch"
    BY <1>1 DEF NoReply
  <2> QED
    BY <2>6, <2>7, <2>8, <2>9, <2>10, <2>11 DEF Delivery
<1> QED
  BY <1>1, <1>5, <1>6, <1>7 DEF DeliveryInv

(* Behind its first item, once that one was applied or seen, a sequence    *)
(* follows what was applied by then.                                       *)
LEMMA FollowsTail ==
  ASSUME NEW q \in Seq(Counted), NEW s, NEW n \in Nat, NEW m \in Nat, NEW k \in Nat,
         Follows(q, s, n, m), q # << >>, m <= k, Head(q).seq <= k
  PROVE  Follows(Tail(q), s, n, k)
<1> DEFINE a == Len(q)
           w == Tail(q)
<1>1. a \in Nat /\ a >= 1 /\ Len(w) = a - 1 /\ \A i \in 1 .. a - 1 : w[i] = q[i + 1]
  BY HeadTailProperties
<1>2. \A i \in 1 .. a : q[i].seq \in Nat
  <2>1. \A i \in 1 .. a : q[i] \in Counted
    BY ElementOfSeq
  <2> QED
    BY <2>1 DEF Counted, Inbound, Number
<1>3. q[1].seq <= k
  OBVIOUS
<1>4. \A i \in 1 .. a : /\ q[i].session = s /\ q[i].seq < n
                        /\ \/ q[i].seq <= m + 1
                           \/ i > 1 /\ q[i].seq <= q[i - 1].seq + 1
  BY DEF Follows
<1> HIDE DEF a, w
<1>5. ASSUME NEW i \in 1 .. Len(w)
      PROVE  /\ w[i].session = s /\ w[i].seq < n
             /\ \/ w[i].seq <= k + 1
                \/ i > 1 /\ w[i].seq <= w[i - 1].seq + 1
  <2> DEFINE j == i + 1
  <2>1. j \in 1 .. a /\ j > 1 /\ i \in 1 .. a - 1 /\ j - 1 = i /\ i \in 1 .. a
    BY <1>1
  <2>2. w[i] = q[j]
    BY <1>1, <2>1
  <2>3. q[j].seq <= m + 1 \/ q[j].seq <= q[i].seq + 1
    BY <1>4, <2>1
  <2>4. w[i].session = s /\ w[i].seq < n
    BY <1>4, <2>1, <2>2
  <2>5. CASE i = 1
    <3>1. q[j].seq \in Nat /\ q[i].seq \in Nat /\ q[i].seq <= k
      BY <1>2, <1>3, <2>1, <2>5
    <3>2. q[j].seq <= k + 1
      <4> DEFINE x == q[j].seq
                 y == q[i].seq
      <4>1. x \in Nat /\ y \in Nat /\ y <= k
        BY <3>1
      <4>2. x <= m + 1 \/ x <= y + 1
        BY <2>3
      <4> HIDE DEF x, y
      <4>3. x <= k + 1
        BY <4>1, <4>2
      <4> QED
        BY <4>3 DEF x
    <3> QED
      BY <2>2, <2>4, <3>2
  <2>6. CASE i > 1
    <3>1. i - 1 \in 1 .. a - 1 /\ (i - 1) + 1 = i
      BY <1>1, <2>6
    <3>2. w[i - 1] = q[i]
      BY <1>1, <3>1
    <3>3. q[j].seq <= m + 1 => q[j].seq <= k + 1
      BY <1>2, <2>1
    <3> QED
      BY <2>2, <2>3, <2>4, <2>6, <3>2, <3>3
  <2> QED
    BY <2>1, <2>5, <2>6
<1> QED
  BY <1>5 DEF Follows, w

(* The owner queue is never full for a batch that fits: what is applied    *)
(* reaches it.                                                             *)
LEMMA ApplyFacts ==
  ASSUME ChannelInv, RoomOK, Capacity >= MaxDeferred + MaxEvents + MaxEvents, ApplyEvent
  PROVE  LET item     == Head(inbox)
             rejected == KindOf(item) = "bad" /\ ~Seen(item)
             pushes   == (KindOf(item) = "browser" /\ ~Seen(item)) \/ KindOf(item) = "resource"
         IN  /\ lastSeq' = IF Seen(item) \/ rejected THEN lastSeq ELSE item.seq
             /\ presented' = IF Seen(item) \/ rejected
                             THEN presented ELSE Append(presented, item)
             /\ ackSeq' = IF rejected THEN ackSeq ELSE item.seq
             /\ ownerQ' = IF pushes THEN Append(ownerQ, Owned(item)) ELSE ownerQ
             /\ inbox' = IF rejected THEN << >> ELSE Tail(inbox)
             /\ inbox # << >> /\ item \in Counted
             /\ Len(ownerQ') + Len(inbox') <= MaxDeferred + MaxEvents + MaxEvents
<1> DEFINE item     == Head(inbox)
           rejected == KindOf(item) = "bad" /\ ~Seen(item)
           pushes   == (KindOf(item) = "browser" /\ ~Seen(item)) \/ KindOf(item) = "resource"
           n        == Len(inbox)
           k        == Len(ownerQ)
<1>1. /\ pc = "apply" /\ inbox # << >> /\ inbox \in Seq(Counted)
      /\ ownerQ \in Seq([generation : Nat, item : Counted])
      /\ MaxDeferred \in Nat /\ MaxEvents \in Nat /\ Capacity \in Nat
  BY OutboxAssumption, ChannelAssumption DEF ApplyEvent, ChannelInv, ClientTypeOK
<1>2. /\ n \in Nat /\ n >= 1 /\ k \in Nat /\ item \in Counted
      /\ Tail(inbox) \in Seq(Counted) /\ Len(Tail(inbox)) = n - 1 /\ Len(<< >>) = 0
  BY <1>1, HeadTailProperties
<1>3. k + n <= MaxDeferred + MaxEvents + MaxEvents
  BY <1>1 DEF RoomOK
<1>4. HasRoom
  <2> HIDE DEF k, n
  <2>1. k < Capacity
    BY <1>1, <1>2, <1>3
  <2> QED
    BY <2>1 DEF HasRoom, k
<1>5. Len(Append(ownerQ, Owned(item))) = k + 1
  OBVIOUS
<1>6. /\ lastSeq' = IF Seen(item) \/ rejected THEN lastSeq ELSE item.seq
      /\ presented' = IF Seen(item) \/ rejected THEN presented ELSE Append(presented, item)
      /\ ackSeq' = IF rejected THEN ackSeq ELSE item.seq
      /\ ownerQ' = IF pushes THEN Append(ownerQ, Owned(item)) ELSE ownerQ
      /\ inbox' = IF rejected THEN << >> ELSE Tail(inbox)
  BY <1>4 DEF ApplyEvent
<1>7. ~(rejected /\ pushes)
  OBVIOUS
<1> HIDE DEF item, rejected, pushes, k, n
<1>8. Len(ownerQ') = k \/ (Len(ownerQ') = k + 1 /\ pushes)
  BY <1>5, <1>6 DEF k
<1>9. Len(inbox') = n - 1 \/ (Len(inbox') = 0 /\ rejected)
  BY <1>2, <1>6
<1>10. Len(ownerQ') + Len(inbox') <= k + n
  BY <1>2, <1>7, <1>8, <1>9
<1>11. Len(ownerQ') + Len(inbox') <= MaxDeferred + MaxEvents + MaxEvents
  <2>1. Len(ownerQ') + Len(inbox') \in Int
    BY <1>2, <1>8, <1>9
  <2> QED
    BY <1>1, <1>2, <1>3, <1>10, <2>1
<1> QED
  BY <1>1, <1>2, <1>6, <1>11 DEF item, rejected, pushes

LEMMA ApplyEventDelivery ==
  ASSUME ChannelInv, DeliveryInv, Capacity >= MaxDeferred + MaxEvents + MaxEvents, ApplyEvent
  PROVE  DeliveryInv'
<1> DEFINE item     == Head(inbox)
           kind     == KindOf(item)
           seen     == Seen(item)
           rejected == kind = "bad" /\ ~seen
           pushes   == (kind = "browser" /\ ~seen) \/ kind = "resource"
           n        == Len(presented)
           k        == Len(ownerQ)
<1>1. /\ lastSeq' = IF seen \/ rejected THEN lastSeq ELSE item.seq
      /\ presented' = IF seen \/ rejected THEN presented ELSE Append(presented, item)
      /\ ackSeq' = IF rejected THEN ackSeq ELSE item.seq
      /\ ownerQ' = IF pushes THEN Append(ownerQ, Owned(item)) ELSE ownerQ
      /\ inbox' = IF rejected THEN << >> ELSE Tail(inbox)
      /\ inbox # << >> /\ item \in Counted
      /\ Len(ownerQ') + Len(inbox') <= MaxDeferred + MaxEvents + MaxEvents
  BY ApplyFacts DEF DeliveryInv
<1>2. /\ pc = "apply" /\ ~startup
      /\ UNCHANGED <<emitted, uiSeq, retained, token, request, reply, pc, generation, startup,
                     deferred, committed>>
  BY DEF ApplyEvent, outboxVars, ChannelInv, AppliedOK
<1>3. /\ inbox \in Seq(Counted) /\ deferred \in Seq(Counted) /\ presented \in Seq(Counted)
      /\ ownerQ \in Seq([generation : Nat, item : Counted])
      /\ lastSeq \in Nat /\ ackSeq \in Nat /\ generation \in Nat
      /\ reply.op = "batch" => reply.items \in Seq(Counted)
  BY RequestFacts, OutboxAssumption DEF ChannelInv, ClientTypeOK
<1>4. item.seq \in Nat /\ item.seq = item.ev
  BY <1>1 DEF Counted, Inbound, Number
<1>5. /\ n \in Nat /\ k \in Nat
      /\ \/ presented' = presented
         \/ /\ Len(presented') = n + 1 /\ presented'[n + 1] = item
            /\ \A i \in 1 .. n : presented'[i] = presented[i]
      /\ \/ ownerQ' = ownerQ
         \/ /\ Len(ownerQ') = k + 1 /\ ownerQ'[k + 1] = Owned(item)
            /\ \A j \in 1 .. k : ownerQ'[j] = ownerQ[j]
  <2>1. item \in Counted
    BY <1>1
  <2>2. Owned(item) \in [generation : Nat, item : Counted]
    BY <1>3, <2>1 DEF Owned
  <2>3. n \in Nat /\ k \in Nat
    BY <1>3
  <2> HIDE DEF item
  <2>4. presented' \in {presented, Append(presented, item)}
        /\ ownerQ' \in {ownerQ, Append(ownerQ, Owned(item))}
    BY <1>1
  <2>5. /\ Len(Append(presented, item)) = n + 1 /\ Append(presented, item)[n + 1] = item
        /\ \A i \in 1 .. n : Append(presented, item)[i] = presented[i]
    BY <1>3, <2>1, AppendProperties
  <2>6. /\ Len(Append(ownerQ, Owned(item))) = k + 1
        /\ Append(ownerQ, Owned(item))[k + 1] = Owned(item)
        /\ \A j \in 1 .. k : Append(ownerQ, Owned(item))[j] = ownerQ[j]
    BY <1>3, <2>2, AppendProperties
  <2> HIDE DEF n, k
  <2> QED
    BY <2>3, <2>4, <2>5, <2>6
<1> HIDE DEF item, n, k
<1>6. RoomOK'
  BY <1>1, <1>2 DEF DeliveryInv, RoomOK
<1>7. generation # 1
  BY <1>2 DEF DeliveryInv, Unconnected
<1>8. ASSUME generation = 2 PROVE Delivery'
  <2>1. Delivery
    BY <1>8 DEF DeliveryInv
  <2>2. /\ token # 0 /\ lastSeq < uiSeq[token] /\ ackSeq <= lastSeq
        /\ Follows(inbox, token, uiSeq[token], lastSeq)
        /\ Follows(deferred, token, uiSeq[token], lastSeq)
        /\ reply.op = "batch" => Follows(reply.items, token, uiSeq[token], lastSeq)
    BY <1>2, <2>1 DEF Delivery, FollowsHere
  <2>3. uiSeq[token] \in Nat /\ Released \in Nat
    BY <2>2, BatchNumbers
  <2>4. item.session = token /\ item.seq < uiSeq[token] /\ item.seq <= lastSeq + 1
    <3>1. 1 \in 1 .. Len(inbox) /\ item = inbox[1]
      BY <1>1, <1>3 DEF item
    <3>2. /\ inbox[1].session = token /\ inbox[1].seq < uiSeq[token]
          /\ \/ inbox[1].seq <= lastSeq + 1
             \/ 1 > 1 /\ inbox[1].seq <= inbox[1 - 1].seq + 1
      BY <2>2, <3>1 DEF Follows
    <3> QED
      BY <3>1, <3>2
  <2>5. CASE rejected
    <3>1. /\ ~pushes /\ lastSeq' = lastSeq /\ presented' = presented /\ ackSeq' = ackSeq
          /\ ownerQ' = ownerQ /\ inbox' = << >>
      BY <1>1, <2>5
    <3>2. Len(<< >>) = 0
      OBVIOUS
    <3>3. FollowsHere(inbox)' /\ FollowsHere(deferred)'
          /\ (reply.op = "batch" => FollowsHere(reply.items))'
      BY <1>2, <2>2, <3>1, <3>2 DEF FollowsHere, Follows
    <3>4. DoneTo(Released)' /\ (Released <= lastSeq)'
          /\ (request.op = "ui_ack" => request.seq <= lastSeq /\ DoneTo(request.seq))'
      BY <1>2, <2>1, <3>1 DEF Delivery, DoneTo, Released, Shown, Stored, ForOwner
    <3>5. \A e \in 1 .. lastSeq' : (Shown(e) /\ (ForOwner(e) => Stored(e) \/ Waiting(e)))'
      BY <1>2, <2>1, <3>1, DoneKept DEF Delivery
    <3>6. (token # 0 /\ lastSeq < uiSeq[token] /\ ackSeq <= lastSeq)'
          /\ (\A j \in 1 .. Len(ownerQ) : ownerQ[j].generation = generation)'
      BY <1>2, <2>1, <3>1 DEF Delivery
    <3> QED
      BY <3>3, <3>4, <3>5, <3>6 DEF Delivery
  <2>6. CASE ~rejected
    <3>1. /\ lastSeq' = IF seen THEN lastSeq ELSE item.seq
          /\ presented' = IF seen THEN presented ELSE Append(presented, item)
          /\ ackSeq' = item.seq /\ inbox' = Tail(inbox)
      BY <1>1, <2>6
    <3>2. seen <=> item.seq <= lastSeq
      BY DEF Seen
    <3>3. /\ lastSeq' \in Nat /\ lastSeq <= lastSeq' /\ item.seq <= lastSeq'
          /\ lastSeq' < uiSeq[token]
          /\ lastSeq' = lastSeq \/ (lastSeq' = lastSeq + 1 /\ lastSeq' = item.seq /\ ~seen)
      <4> HIDE DEF seen
      <4> QED
        BY <1>3, <1>4, <2>2, <2>3, <2>4, <3>1, <3>2
    <3> HIDE DEF seen, rejected, pushes, kind
    <3>4. \A e : /\ Shown(e) => Shown(e)'
                 /\ Stored(e) <=> Stored(e)'
                 /\ Waiting(e) => Waiting(e)'
                 /\ ForOwner(e) <=> ForOwner(e)'
      <4>1. \A e : (Stored(e) <=> Stored(e)') /\ (ForOwner(e) <=> ForOwner(e)')
        BY <1>2 DEF Stored, ForOwner
      <4>2. ASSUME NEW e, Shown(e) PROVE Shown(e)'
        <5>1. PICK i \in 1 .. n : presented[i].session = token /\ presented[i].ev = e
          BY <4>2 DEF Shown, n
        <5>2. i \in 1 .. Len(presented') /\ presented'[i] = presented[i]
          BY <1>5, <5>1 DEF n
        <5> QED
          BY <1>2, <5>1, <5>2 DEF Shown
      <4>3. ASSUME NEW e, Waiting(e) PROVE Waiting(e)'
        <5>1. PICK j \in 1 .. k : ownerQ[j].item.session = token /\ ownerQ[j].item.ev = e
          BY <4>3 DEF Waiting, k
        <5>2. j \in 1 .. Len(ownerQ') /\ ownerQ'[j] = ownerQ[j]
          BY <1>5, <5>1 DEF k
        <5> QED
          BY <1>2, <5>1, <5>2 DEF Waiting
      <4> QED
        BY <4>1, <4>2, <4>3
    <3>5. ASSUME NEW e, e = item.ev, ~seen
          PROVE  Shown(e)' /\ (ForOwner(e)' => Waiting(e)')
      <4>1. Shown(e)'
        <5>1. presented' = Append(presented, item)
          BY <3>1, <3>5
        <5>2. Len(presented') = n + 1 /\ presented'[n + 1] = item
          BY <1>1, <1>3, <5>1, AppendProperties DEF n
        <5>3. n + 1 \in 1 .. Len(presented')
          BY <1>5, <5>2
        <5> QED
          BY <1>2, <2>4, <3>5, <5>2, <5>3 DEF Shown
      <4>2. ASSUME ForOwner(e)' PROVE Waiting(e)'
        <5>1. kind \in {"browser", "resource"}
          BY <1>2, <2>4, <3>5, <4>2 DEF ForOwner, kind, KindOf
        <5>2. pushes
          BY <3>5, <5>1 DEF pushes
        <5>3. ownerQ' = Append(ownerQ, Owned(item))
          BY <1>1, <5>2
        <5>4. Owned(item) \in [generation : Nat, item : Counted] /\ Owned(item).item = item
          BY <1>1, <1>3 DEF Owned
        <5>5. Len(ownerQ') = k + 1 /\ ownerQ'[k + 1] = Owned(item)
          BY <1>3, <5>3, <5>4, AppendProperties DEF k
        <5>6. k + 1 \in 1 .. Len(ownerQ')
          BY <1>5, <5>5
        <5> QED
          BY <1>2, <2>4, <3>5, <5>4, <5>5, <5>6 DEF Waiting
      <4> QED
        BY <4>1, <4>2
    <3>6. \A e \in 1 .. lastSeq' : (Shown(e) /\ (ForOwner(e) => Stored(e) \/ Waiting(e)))'
      <4> SUFFICES ASSUME NEW e \in 1 .. lastSeq'
                   PROVE  (Shown(e) /\ (ForOwner(e) => Stored(e) \/ Waiting(e)))'
        OBVIOUS
      <4>1. CASE e \in 1 .. lastSeq
        <5>1. Shown(e) /\ (ForOwner(e) => Stored(e) \/ Waiting(e))
          BY <2>1, <4>1 DEF Delivery
        <5> QED
          BY <3>4, <5>1
      <4>2. CASE e \notin 1 .. lastSeq
        <5>1. e = item.ev /\ ~seen
          BY <1>3, <1>4, <3>3, <4>2
        <5> QED
          BY <3>5, <5>1
      <4> QED
        BY <4>1, <4>2
    <3>7. /\ FollowsHere(deferred)' /\ (pc = "apply" => FollowsHere(inbox))'
          /\ (reply.op = "batch" => FollowsHere(reply.items))'
      <4>1. \A q \in Seq(Counted) :
              Follows(q, token, uiSeq[token], lastSeq) => Follows(q, token, uiSeq[token], lastSeq')
        BY <1>3, <2>3, <3>3, FollowsLater
      <4>2. Follows(Tail(inbox), token, uiSeq[token], lastSeq')
        BY <1>1, <1>3, <2>2, <2>3, <3>3, FollowsTail DEF item
      <4>3. /\ Follows(deferred, token, uiSeq[token], lastSeq')
            /\ reply.op = "batch" => Follows(reply.items, token, uiSeq[token], lastSeq')
        BY <1>3, <2>2, <4>1
      <4> QED
        BY <1>2, <3>1, <4>2, <4>3 DEF FollowsHere
    <3>8. DoneTo(Released)' /\ (Released <= lastSeq)'
      <4>1. DoneTo(Released) /\ Released <= lastSeq /\ Released' = Released
        BY <1>2, <2>1 DEF Delivery, Released
      <4>2. \A m \in Nat : DoneTo(m) => DoneTo(m)'
        BY <3>4 DEF DoneTo
      <4>3. \A m : m = Released' /\ DoneTo(m)' => DoneTo(Released)'
        BY DEF DoneTo
      <4> QED
        BY <1>3, <2>3, <3>3, <4>1, <4>2, <4>3
    <3>9. (request.op = "ui_ack" => request.seq <= lastSeq /\ DoneTo(request.seq))'
      <4> SUFFICES ASSUME request.op = "ui_ack"
                   PROVE  (request.seq <= lastSeq /\ DoneTo(request.seq))'
        BY <1>2
      <4>1. request.seq <= lastSeq /\ DoneTo(request.seq)
        BY <2>1 DEF Delivery
      <4>2. request.seq \in Nat
        BY RequestFacts DEF ChannelInv
      <4>3. \A m \in Nat : DoneTo(m) => DoneTo(m)'
        BY <3>4 DEF DoneTo
      <4>4. \A m : m = request'.seq /\ DoneTo(m)' => DoneTo(request.seq)'
        BY DEF DoneTo
      <4> QED
        BY <1>2, <1>3, <3>3, <4>1, <4>2, <4>3, <4>4
    <3>10. (token # 0 /\ lastSeq < uiSeq[token] /\ ackSeq <= lastSeq)'
      BY <1>2, <2>2, <3>1, <3>3
    <3>11. (\A j \in 1 .. Len(ownerQ) : ownerQ[j].generation = generation)'
      <4>1. \A j \in 1 .. k : ownerQ[j].generation = generation
        BY <2>1 DEF Delivery, k
      <4>2. Owned(item).generation = generation
        BY DEF Owned
      <4> SUFFICES ASSUME NEW j \in 1 .. Len(ownerQ') PROVE ownerQ'[j].generation = generation
        BY <1>2
      <4>3. CASE ownerQ' = ownerQ
        BY <4>1, <4>3 DEF k
      <4>4. CASE ownerQ' # ownerQ
        <5>1. j \in 1 .. k \/ j = k + 1
          BY <1>5, <4>4
        <5> QED
          BY <1>5, <4>1, <4>2, <4>4, <5>1
      <4> QED
        BY <4>3, <4>4
    <3> QED
      BY <3>6, <3>7, <3>8, <3>9, <3>10, <3>11 DEF Delivery
  <2> QED
    BY <2>5, <2>6
<1> QED
  BY <1>2, <1>6, <1>7, <1>8 DEF DeliveryInv

LEMMA FinishBatchDelivery ==
  ASSUME ChannelInv, DeliveryInv, FinishBatch
  PROVE  DeliveryInv'
<1>1. /\ pc = "apply" /\ pc' \in {"idle", "ack"} /\ ~startup
      /\ committed' = committed \cup Drained /\ ownerQ' = << >>
      /\ \/ request' = request
         \/ request' = [op |-> "ui_ack", session |-> token, seq |-> ackSeq]
      /\ UNCHANGED <<emitted, uiSeq, retained, token, reply, inbox, ackSeq, lastSeq, generation,
                     startup, deferred, presented>>
  BY DEF FinishBatch, outboxVars, ChannelInv, AppliedOK
<1>2. RoomOK'
  BY <1>1 DEF DeliveryInv, RoomOK
<1>3. generation # 1
  BY <1>1 DEF DeliveryInv, Unconnected
<1>4. ASSUME generation = 2 PROVE Delivery'
  <2>1. Delivery
    BY <1>4 DEF DeliveryInv
  <2>2. /\ token # 0 /\ lastSeq < uiSeq[token] /\ ackSeq <= lastSeq
        /\ lastSeq \in Nat /\ ackSeq \in Nat /\ Released \in Nat
    BY <2>1, BatchNumbers, OutboxAssumption DEF Delivery, ChannelInv, ClientTypeOK
  <2>3. \A e : /\ Shown(e) <=> Shown(e)'
               /\ Stored(e) => Stored(e)'
               /\ ForOwner(e) <=> ForOwner(e)'
    BY <1>1 DEF Shown, Stored, ForOwner
  <2>4. ASSUME NEW e, Waiting(e) PROVE Stored(e)'
    <3>1. PICK j \in 1 .. Len(ownerQ) : ownerQ[j].item.session = token /\ ownerQ[j].item.ev = e
      BY <2>4 DEF Waiting
    <3>2. ownerQ[j].generation = generation
      BY <2>1 DEF Delivery
    <3>3. ownerQ[j].item \in Drained
      BY <3>2 DEF Drained
    <3> QED
      BY <1>1, <3>1, <3>3 DEF Stored
  <2>5. \A e \in 1 .. lastSeq : Shown(e)' /\ (ForOwner(e)' => Stored(e)')
    BY <2>1, <2>3, <2>4 DEF Delivery
  <2>6. \A m \in Nat : DoneTo(m) => DoneTo(m)'
    BY <2>3 DEF DoneTo
  <2>7. DoneTo(ackSeq)'
    <3>1. \A e \in 1 .. ackSeq : e \in 1 .. lastSeq
      BY <2>2
    <3> QED
      BY <1>1, <2>5, <3>1 DEF DoneTo
  <2>8. (request.op = "ui_ack" => request.seq <= lastSeq /\ DoneTo(request.seq))'
    <3>1. CASE request' = request
      <4> SUFFICES ASSUME request.op = "ui_ack"
                   PROVE  (request.seq <= lastSeq /\ DoneTo(request.seq))'
        BY <3>1
      <4>1. request.seq <= lastSeq /\ DoneTo(request.seq) /\ request.seq \in Nat
        BY <2>1, RequestFacts DEF Delivery, ChannelInv
      <4>2. \A m : m = request'.seq /\ DoneTo(m)' => DoneTo(request.seq)'
        BY DEF DoneTo
      <4> QED
        BY <1>1, <2>6, <3>1, <4>1, <4>2
    <3>2. CASE request' = [op |-> "ui_ack", session |-> token, seq |-> ackSeq]
      <4>1. request'.seq = ackSeq
        BY <3>2
      <4>2. DoneTo(request.seq)'
        BY <1>1, <2>7, <4>1 DEF DoneTo
      <4> QED
        BY <1>1, <2>2, <4>1, <4>2
    <3> QED
      BY <1>1, <3>1, <3>2
  <2>9. DoneTo(Released)' /\ (Released <= lastSeq)'
    <3>1. DoneTo(Released) /\ Released <= lastSeq /\ Released' = Released
      BY <1>1, <2>1 DEF Delivery, Released
    <3>2. \A m : m = Released' /\ DoneTo(m)' => DoneTo(Released)'
      BY DEF DoneTo
    <3> QED
      BY <1>1, <2>2, <2>6, <3>1, <3>2
  <2>10. FollowsHere(deferred)' /\ (reply.op = "batch" => FollowsHere(reply.items))'
    BY <1>1, <2>1 DEF Delivery, FollowsHere
  <2>11. (token # 0 /\ lastSeq < uiSeq[token] /\ ackSeq <= lastSeq)'
    BY <1>1, <2>2
  <2>12. Len(ownerQ') = 0 /\ pc' # "apply"
    BY <1>1
  <2> QED
    BY <1>1, <2>5, <2>8, <2>9, <2>10, <2>11, <2>12 DEF Delivery
<1> QED
  BY <1>1, <1>2, <1>3, <1>4 DEF DeliveryInv

LEMMA DeliveryStart == Init => DeliveryInv
<1> SUFFICES ASSUME Init PROVE DeliveryInv
  OBVIOUS
<1>1. Len(<< >>) = 0 /\ MaxDeferred \in Nat /\ MaxEvents \in Nat
  BY OutboxAssumption, ChannelAssumption
<1>2. Unconnected
  BY DEF Init, Unconnected
<1>3. RoomOK
  BY <1>1 DEF Init, RoomOK, NoReply
<1> QED
  BY <1>2, <1>3 DEF DeliveryInv, Init

LEMMA DeliveryStep ==
  ASSUME Capacity >= MaxDeferred + MaxEvents + MaxEvents,
         ChannelInv, ChannelInv', DeliveryInv, [Next]_vars
  PROVE  DeliveryInv'
<1>1. ASSUME NEW s \in Session, Connect(s) PROVE DeliveryInv'
  BY <1>1, ConnectDelivery
<1>2. ASSUME NEW s \in Session, ConnectLost(s) PROVE DeliveryInv'
  BY <1>2, ConnectLostDelivery
<1>3. ASSUME NEW s \in Session, NEW k \in Kind, ServerEmit(s, k) PROVE DeliveryInv'
  BY <1>3, EmitDelivery
<1>4. CASE ServeUiEvents
  BY <1>4, ServeUiEventsDelivery
<1>5. CASE ReceiveBatch
  BY <1>5, ReceiveBatchDelivery
<1>6. CASE ApplyEvent
  BY <1>6, ApplyEventDelivery
<1>7. CASE FinishBatch
  BY <1>7, FinishBatchDelivery
<1>8. CASE ServeUiAck
  BY <1>8, ServeUiAckDelivery
<1>9. CASE Reconnect \/ Break \/ Poll \/ LobbyAvailable \/ UNCHANGED vars
  BY <1>9, IdleDelivery
<1> QED
  BY <1>1, <1>2, <1>3, <1>4, <1>5, <1>6, <1>7, <1>8, <1>9 DEF Next

(* An event below what was released is handled, one from there to the next *)
(* number is in the batch, and one from the next number on is queued.      *)
LEMMA DeliveryMeans ==
  ASSUME ChannelInv, DeliveryInv, generation <= 2
  PROVE  NoEventLost
<1> SUFFICES ASSUME token # 0, NEW e \in 1 .. Len(emitted[token])
             PROVE  \/ e \in Range(outbox[token])
                    \/ e \in {item.ev : item \in Range(retained[token])}
                    \/ Handled(token, e)
  BY DEF NoEventLost
<1> DEFINE u == uiSeq[token]
           b == retained[token]
           o == outbox[token]
           r == Released
<1>1. /\ token \in Session /\ r \in Nat /\ u \in Nat /\ Len(b) \in Nat /\ r = u - 1 - Len(b)
      /\ \A i \in 1 .. Len(b) : b[i].ev = r + i
  BY BatchNumbers DEF Released
<1>2. /\ o \in Seq(Event) /\ Len(emitted[token]) \in Nat /\ Len(o) \in Nat
      /\ (u - 1) + Len(o) = Len(emitted[token])
      /\ \A j \in 1 .. Len(o) : o[j] = u + j - 1
  BY <1>1, ServerTypes DEF ChannelInv, CurrentOK, Counts
<1>3. Delivery
  <2>1. generation \in Nat /\ 1 <= generation
    BY DEF ChannelInv, ClientTypeOK
  <2>2. generation = 2
    BY <2>1 DEF DeliveryInv, Unconnected
  <2> QED
    BY <2>2 DEF DeliveryInv
<1> HIDE DEF u, b, o, r
<1>4. e <= r \/ (r < e /\ e < u) \/ u <= e
  BY <1>1, <1>2
<1>5. CASE e <= r
  <2>1. Shown(e) /\ (ForOwner(e) => Stored(e))
    <3>1. e \in 1 .. r
      BY <1>1, <1>2, <1>5
    <3>2. DoneTo(r)
      BY <1>3 DEF Delivery, r
    <3> QED
      BY <3>1, <3>2 DEF DoneTo
  <2>2. \E item \in Range(presented) : item.session = token /\ item.ev = e
    BY <2>1 DEF Shown, Range
  <2> QED
    BY <2>1, <2>2 DEF Handled, ForOwner, Stored
<1>6. CASE r < e /\ e < u
  <2> DEFINE i == e - r
  <2>1. i \in 1 .. Len(b) /\ r + i = e
    BY <1>1, <1>2, <1>6
  <2>2. b[i].ev = e
    BY <1>1, <2>1
  <2>3. b[i] \in Range(b)
    <3>1. b \in Seq(Item)
      BY <1>1, ServerTypes DEF ChannelInv, b
    <3> QED
      BY <2>1, <3>1 DEF Range
  <2> HIDE DEF i
  <2> QED
    BY <2>2, <2>3 DEF b
<1>7. CASE u <= e
  <2> DEFINE j == e - u + 1
  <2>1. j \in 1 .. Len(o) /\ u + j - 1 = e
    BY <1>1, <1>2, <1>7
  <2>2. o[j] = e
    BY <1>2, <2>1
  <2>3. o[j] \in Range(o)
    BY <1>2, <2>1 DEF Range
  <2> HIDE DEF j
  <2> QED
    BY <2>2, <2>3 DEF o
<1> QED
  BY <1>4, <1>5, <1>6, <1>7

(* Until it reconnects, a client whose owner queue holds a whole batch     *)
(* with what was deferred loses no event: what left the server was         *)
(* applied, and its browser updates and resources were committed           *)
(* (apply_inbound_ui acknowledges only after it drained the owner queue).  *)
THEOREM FirstSessionLosesNothing ==
  ASSUME Capacity >= MaxDeferred + MaxEvents + MaxEvents
  PROVE  Spec => [](generation <= 2 => NoEventLost)
<1>1. Init => DeliveryInv
  BY DeliveryStart
<1>2. ChannelInv /\ ChannelInv' /\ DeliveryInv /\ [Next]_vars => DeliveryInv'
  BY DeliveryStep
<1>3. ChannelInv /\ DeliveryInv => (generation <= 2 => NoEventLost)
  BY DeliveryMeans
<1> QED
  BY <1>1, <1>2, <1>3, ChannelInvariant, PTL DEF Spec

(* With the single session of the delivery run, at every moment.           *)
THEOREM NoEventLostHolds ==
  ASSUME Capacity >= MaxDeferred + MaxEvents + MaxEvents, MaxSessions = 1
  PROVE  Spec => []NoEventLost
<1>1. ChannelInv => generation <= 2
  BY OutboxAssumption, ServerTypes DEF ChannelInv, ClientTypeOK
<1>2. Spec => [](generation <= 2 => NoEventLost)
  BY FirstSessionLosesNothing
<1> QED
  BY <1>1, <1>2, ChannelInvariant, PTL
=============================================================================
