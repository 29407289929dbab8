---------------------------- MODULE ArenaProofs ----------------------------
(***************************************************************************)
(* Proofs about Arena for every number of slots, every generation width    *)
(* and every set of payloads.                                              *)
(***************************************************************************)
EXTENDS Arena, FiniteSetTheorems, SequenceTheorems, TLAPS

(* What is true of an arena between two operations: the free stack is      *)
(* valid, slots that were never initialized are blank, no handle names a   *)
(* generation its slot has not reached, a free slot's current generation   *)
(* was never issued, and a live slot's was.                                *)
Consistent(g, v, n, f, o, r) ==
    /\ FreeListValid(g, v, n, f)
    /\ \A i \in Index : i >= n => g[i] = 0 /\ v[i] = Vacant
    /\ \A i \in Index, k \in Generation :
         <<i, k>> \in DOMAIN o => i < n /\ k <= g[i]
    /\ \A k \in 1 .. Len(f) : <<f[k], g[f[k]]>> \notin DOMAIN o
    /\ \A i \in Index : v[i] # Vacant => <<i, g[i]>> \in DOMAIN o
    /\ \A i \in Index, k \in Generation :
         <<i, k>> \in DOMAIN o =>
            (IF g[i] = k THEN v[i] ELSE Vacant)
               = (IF <<i, k>> \in r THEN Vacant ELSE o[<<i, k>>])

ConsistentNow == Consistent(gen, val, slotLen, free, owner, removed)

ConsistentSnapshot(s) ==
    Consistent(s.gen, s.val, s.slotLen, s.free, s.owner, s.removed)

(* The part of a streamed restore that was read is the snapshot's prefix.  *)
StreamedPrefix(s) ==
    /\ slotLen <= s.slotLen
    /\ free = << >>
    /\ owner = s.owner
    /\ removed = s.removed
    /\ \A i \in Index :
         /\ gen[i] = IF i < slotLen THEN s.gen[i] ELSE 0
         /\ val[i] = IF i < slotLen THEN s.val[i] ELSE Vacant

(* The inductive invariant. *)
IInv ==
    /\ TypeOK
    /\ LiveCount
    /\ mode # "corrupt"
    /\ mode \in {"running", "sweeping"} => ConsistentNow
    /\ mode = "restoring" => \A s \in snap : StreamedPrefix(s)
    /\ \A s \in snap : ConsistentSnapshot(s)
    /\ \A s, t \in snap : s = t

-----------------------------------------------------------------------------
LEMMA FiniteInUse ==
    ASSUME NEW S \in SUBSET Index
    PROVE  IsFiniteSet(S) /\ Cardinality(S) \in 0 .. MaxSlots
<1>1. IsFiniteSet(Index) /\ Cardinality(Index) = MaxSlots
  BY FS_Interval, ArenaAssumption DEF Index
<1>2. IsFiniteSet(S) /\ Cardinality(S) <= Cardinality(Index)
  BY <1>1, FS_Subset
<1> QED  BY <1>1, <1>2, FS_CardinalityType, ArenaAssumption

LEMMA InitIInv == Init => IInv
<1> SUFFICES ASSUME Init PROVE IInv
  OBVIOUS
<1> USE ArenaAssumption
<1>1. TypeOK
  BY DEF Init, TypeOK, Index, Generation, Cell, Handle, issued
<1>2. InUse = {}
  BY DEF Init, InUse, IsLive, Index
<1>3. LiveCount
  BY <1>2, FS_EmptySet DEF LiveCount, Init
<1>4. ConsistentNow
  BY DEF ConsistentNow, Consistent, FreeListValid, Init, Index, Generation
<1> QED  BY <1>1, <1>3, <1>4 DEF IInv, Init

-----------------------------------------------------------------------------
(* Taking the value of a live slot, by remove or by the sweep, keeps the   *)
(* arena consistent: the new generation was never issued, and a slot whose *)
(* generation is exhausted is left out of the free stack.                  *)
LEMMA TakeValueKeeps ==
    ASSUME TypeOK, LiveCount, ConsistentNow,
           NEW i \in Index, IsLive(i), TakeValue(i),
           slotLen' = slotLen, owner' = owner,
           removed' = removed \cup {<<i, gen[i]>>}
    PROVE  /\ gen' \in [Index -> Generation]
           /\ val' \in [Index -> Cell]
           /\ free' \in Seq(Index)
           /\ live' \in 0 .. MaxSlots
           /\ removed' \in SUBSET issued
           /\ LiveCount'
           /\ ConsistentNow'
<1> USE ArenaAssumption
<1>0. /\ gen \in [Index -> Generation] /\ val \in [Index -> Cell]
      /\ free \in Seq(Index) /\ slotLen \in 0 .. MaxSlots
      /\ live \in 0 .. MaxSlots /\ removed \in SUBSET issued
      /\ issued \in SUBSET Handle /\ owner \in [issued -> Payload]
      /\ i < slotLen /\ val[i] # Vacant
  BY DEF TypeOK, IsLive
<1>1. /\ gen' \in [Index -> Generation]
      /\ val' \in [Index -> Cell]
      /\ free' \in Seq(Index)
  <2>1. gen[i] < MaxGen => gen[i] + 1 \in Generation
    BY <1>0 DEF Generation
  <2>2. Vacant \in Cell /\ Append(free, i) \in Seq(Index)
    BY <1>0 DEF Cell
  <2> QED  BY <1>0, <2>1, <2>2 DEF TakeValue
<1>2. <<i, gen[i]>> \in issued
  BY <1>0 DEF ConsistentNow, Consistent, issued
<1>3. InUse' = InUse \ {i} /\ i \in InUse
  BY <1>0 DEF InUse, IsLive, TakeValue, Cell
<1>4. live' = Cardinality(InUse') /\ live' \in 0 .. MaxSlots
  <2>1. InUse \in SUBSET Index /\ InUse' \in SUBSET Index
    BY <1>3 DEF InUse
  <2>2. IsFiniteSet(InUse) /\ Cardinality(InUse') \in 0 .. MaxSlots
    BY <2>1, FiniteInUse
  <2>3. Cardinality(InUse \ {i}) = Cardinality(InUse) - 1
    BY <2>2, <1>3, FS_RemoveElement
  <2> QED  BY <2>2, <2>3, <1>3 DEF LiveCount, TakeValue
<1>5. FreeListValid(gen, val, slotLen, free)'
  <2>1. FreeListValid(gen, val, slotLen, free)
    BY DEF ConsistentNow, Consistent
  <2>2. \A k \in 1 .. Len(free) : free[k] # i /\ free[k] \in Index
    BY <1>0, <2>1 DEF FreeListValid
  <2>3. CASE gen[i] < MaxGen
    <3>1. /\ free' = Append(free, i) /\ Len(free') = Len(free) + 1
          /\ gen' = [gen EXCEPT ![i] = gen[i] + 1]
          /\ val' = [val EXCEPT ![i] = Vacant]
      BY <1>0, <2>3 DEF TakeValue
    <3>2. /\ free'[Len(free) + 1] = i
          /\ \A k \in 1 .. Len(free) : free'[k] = free[k]
      BY <1>0, <3>1
    <3>3. \A k \in 1 .. Len(free') :
             /\ free'[k] < slotLen
             /\ val'[free'[k]] = Vacant
             /\ \A j \in 1 .. k - 1 : free'[j] # free'[k]
      BY <1>0, <2>1, <2>2, <3>1, <3>2 DEF FreeListValid
    <3>4. \A j \in 0 .. slotLen - 1 :
             val'[j] = Vacant /\ gen'[j] # MaxGen
               => \E k \in 1 .. Len(free') : free'[k] = j
      <4> SUFFICES ASSUME NEW j \in 0 .. slotLen - 1,
                          val'[j] = Vacant, gen'[j] # MaxGen
                   PROVE  \E k \in 1 .. Len(free') : free'[k] = j
        OBVIOUS
      <4>0. Len(free) \in Nat
        BY <1>0
      <4>1. CASE j = i
        BY <4>0, <4>1, <3>1, <3>2
      <4>2. CASE j # i
        <5>1. val[j] = Vacant /\ gen[j] # MaxGen
          BY <1>0, <3>1, <4>2
        <5>2. PICK k \in 1 .. Len(free) : free[k] = j
          BY <5>1, <2>1 DEF FreeListValid
        <5> QED  BY <5>2, <3>1, <3>2, <4>0
      <4> QED  BY <4>1, <4>2
    <3> QED  BY <3>3, <3>4 DEF FreeListValid
  <2>4. CASE ~ (gen[i] < MaxGen)
    <3>1. /\ free' = free /\ gen' = gen
          /\ val' = [val EXCEPT ![i] = Vacant] /\ gen[i] = MaxGen
      BY <1>0, <2>4 DEF TakeValue, Generation
    <3> QED  BY <1>0, <2>1, <2>2, <3>1 DEF FreeListValid
  <2> QED  BY <2>3, <2>4
<1>6. \A j \in Index : j # i => gen'[j] = gen[j] /\ val'[j] = val[j]
  BY <1>0 DEF TakeValue
<1>7. val'[i] = Vacant /\ gen'[i] = IF gen[i] < MaxGen THEN gen[i] + 1 ELSE gen[i]
  BY <1>0 DEF TakeValue
<1>8. \A j \in Index : j >= slotLen => gen'[j] = 0 /\ val'[j] = Vacant
  BY <1>0, <1>6 DEF ConsistentNow, Consistent
<1>9. \A j \in Index, k \in Generation :
         <<j, k>> \in DOMAIN owner => j < slotLen /\ k <= gen'[j]
  BY <1>0, <1>6, <1>7 DEF ConsistentNow, Consistent, Generation
<1>10. \A k \in 1 .. Len(free') : <<free'[k], gen'[free'[k]]>> \notin DOMAIN owner
  <2>1. \A k \in 1 .. Len(free) :
           free[k] \in Index /\ free[k] # i
           /\ <<free[k], gen[free[k]]>> \notin DOMAIN owner
    BY <1>0 DEF ConsistentNow, Consistent, FreeListValid
  <2>2. CASE gen[i] < MaxGen
    <3>1. free' = Append(free, i) /\ gen'[i] = gen[i] + 1
      BY <1>7, <2>2 DEF TakeValue
    <3>2. /\ Len(free') = Len(free) + 1 /\ free'[Len(free) + 1] = i
          /\ \A k \in 1 .. Len(free) : free'[k] = free[k]
      BY <1>0, <3>1
    <3>3. gen[i] + 1 \in Generation /\ <<i, gen[i] + 1>> \notin DOMAIN owner
      BY <1>0, <2>2 DEF ConsistentNow, Consistent, Generation
    <3>4. \A k \in 1 .. Len(free) : gen'[free'[k]] = gen[free[k]]
      BY <2>1, <3>2, <1>6
    <3>5. \A k \in 1 .. Len(free') : k \in 1 .. Len(free) \/ k = Len(free) + 1
      BY <1>0, <3>2
    <3> QED  BY <2>1, <3>1, <3>2, <3>3, <3>4, <3>5
  <2>3. CASE ~ (gen[i] < MaxGen)
    BY <2>1, <2>3, <1>6 DEF TakeValue
  <2> QED  BY <2>2, <2>3
<1>11. \A j \in Index : val'[j] # Vacant => <<j, gen'[j]>> \in DOMAIN owner
  BY <1>0, <1>6, <1>7 DEF ConsistentNow, Consistent
<1>12. \A j \in Index, k \in Generation :
         <<j, k>> \in DOMAIN owner =>
            (IF gen'[j] = k THEN val'[j] ELSE Vacant)
               = (IF <<j, k>> \in removed' THEN Vacant ELSE owner[<<j, k>>])
  <2> SUFFICES ASSUME NEW j \in Index, NEW k \in Generation,
                      <<j, k>> \in DOMAIN owner
               PROVE  (IF gen'[j] = k THEN val'[j] ELSE Vacant)
                        = (IF <<j, k>> \in removed' THEN Vacant ELSE owner[<<j, k>>])
    OBVIOUS
  <2>1. (IF gen[j] = k THEN val[j] ELSE Vacant)
           = (IF <<j, k>> \in removed THEN Vacant ELSE owner[<<j, k>>])
    BY DEF ConsistentNow, Consistent
  <2>2. CASE j # i
    <3>1. <<j, k>> \in removed' <=> <<j, k>> \in removed
      BY <2>2
    <3> QED  BY <2>1, <2>2, <3>1, <1>6
  <2>3. CASE j = i /\ k = gen[i]
    BY <2>3, <1>7
  <2>4. CASE j = i /\ k # gen[i]
    <3>1. <<j, k>> \in removed' <=> <<j, k>> \in removed
      BY <2>4
    <3> QED  BY <2>1, <2>4, <3>1, <1>7
  <2> QED  BY <2>2, <2>3, <2>4
<1>13. ConsistentNow'
  BY <1>5, <1>8, <1>9, <1>10, <1>11, <1>12 DEF ConsistentNow, Consistent
<1> QED  BY <1>0, <1>1, <1>2, <1>4, <1>13 DEF LiveCount

-----------------------------------------------------------------------------
(* Putting a value into a vacant slot whose current generation was never   *)
(* issued: both branches of insert.                                        *)
LEMMA InsertReuseKeeps ==
    ASSUME IInv, NEW v \in Payload, InsertReuse(v)
    PROVE  IInv'
<1> USE ArenaAssumption
<1> DEFINE i == free[Len(free)]
<1>0. /\ gen \in [Index -> Generation] /\ val \in [Index -> Cell]
      /\ free \in Seq(Index) /\ slotLen \in 0 .. MaxSlots
      /\ live \in 0 .. MaxSlots /\ removed \in SUBSET issued
      /\ issued \in SUBSET Handle /\ owner \in [issued -> Payload]
      /\ mode = "running" /\ ConsistentNow /\ LiveCount
  BY DEF IInv, TypeOK, InsertReuse
<1>1. /\ Len(free) \in 1 .. Len(free) /\ Len(free) \in Nat
      /\ i \in Index /\ i < slotLen /\ val[i] = Vacant
      /\ <<i, gen[i]>> \notin DOMAIN owner
      /\ \A k \in 1 .. Len(free) - 1 : free[k] # i
  <2>1. Len(free) \in 1 .. Len(free) /\ Len(free) \in Nat
    BY <1>0 DEF InsertReuse
  <2> QED  BY <1>0, <2>1 DEF ConsistentNow, Consistent, FreeListValid
<1>2. /\ free' = SubSeq(free, 1, Len(free) - 1) /\ free' \in Seq(Index)
      /\ Len(free') = Len(free) - 1
      /\ \A k \in 1 .. Len(free) - 1 : free'[k] = free[k]
  <2>1. free' = SubSeq(free, 1, Len(free) - 1)
    BY DEF InsertReuse
  <2>2. \A k \in 1 .. Len(free) - 1 : free[k] \in Index
    BY <1>0, <1>1
  <2>3. /\ free' \in Seq(Index) /\ Len(free') = Len(free) - 1
    <3>1. /\ Len(free) - 1 \in Int /\ 1 \in Int
          /\ \A k \in 1 .. (Len(free) - 1) : free[k] \in Index
      BY <1>1, <2>2
    <3>2. /\ SubSeq(free, 1, Len(free) - 1) \in Seq(Index)
          /\ Len(SubSeq(free, 1, Len(free) - 1))
               = IF 1 <= Len(free) - 1 THEN (Len(free) - 1) - 1 + 1 ELSE 0
      BY <3>1, SubSeqProperties
    <3>3. free' \in Seq(Index)
      BY <3>2, <2>1
    <3>4. Len(free') = IF 1 <= Len(free) - 1 THEN (Len(free) - 1) - 1 + 1 ELSE 0
      BY <3>2, <2>1, Zenon
    <3>5. Len(free') = Len(free) - 1
      <4>1. \A n \in Nat :
               n >= 1 => (IF 1 <= n - 1 THEN (n - 1) - 1 + 1 ELSE 0) = n - 1
        OBVIOUS
      <4>2. Len(free) \in Nat /\ Len(free) >= 1
        BY <1>1
      <4> QED  BY <4>1, <4>2, <3>4, Zenon
    <3> QED  BY <3>3, <3>5
  <2>4. \A k \in 1 .. Len(free) - 1 : free'[k] = free[k]
    BY <1>0, <1>1, <2>1
  <2> QED  BY <2>1, <2>3, <2>4
<1>3. /\ val' = [val EXCEPT ![i] = v] /\ gen' = gen /\ slotLen' = slotLen
      /\ DOMAIN owner' = issued \cup {<<i, gen[i]>>}
      /\ owner'[<<i, gen[i]>>] = v
      /\ \A h \in issued : owner'[h] = owner[h]
      /\ owner' \in [DOMAIN owner' -> Payload]
      /\ removed' = removed
  BY <1>0, <1>1 DEF InsertReuse, issued
<1>4. TypeOK' /\ LiveCount'
  <2>1. <<i, gen[i]>> \in Handle
    BY <1>0, <1>1 DEF Handle
  <2>2. InUse' = InUse \cup {i} /\ i \notin InUse
    BY <1>0, <1>1, <1>3 DEF InUse, IsLive
  <2>3. InUse \in SUBSET Index /\ InUse' \in SUBSET Index
    BY DEF InUse
  <2>4. IsFiniteSet(InUse) /\ Cardinality(InUse') \in 0 .. MaxSlots
    BY <2>3, FiniteInUse
  <2>5. Cardinality(InUse \cup {i}) = Cardinality(InUse) + 1
    BY <2>2, <2>4, FS_AddElement
  <2>6. live' = Cardinality(InUse') /\ live' \in 0 .. MaxSlots
    BY <2>2, <2>4, <2>5, <1>0 DEF LiveCount, InsertReuse
  <2>7. val' \in [Index -> Cell]
    BY <1>0, <1>3 DEF Cell
  <2>8. /\ DOMAIN owner' \in SUBSET Handle
        /\ removed' \in SUBSET DOMAIN owner'
    BY <1>0, <1>3, <2>1
  <2>9. /\ mode' = mode /\ cursor' = cursor /\ marked' = marked /\ snap' = snap
    BY DEF InsertReuse
  <2> QED  BY <1>0, <1>2, <1>3, <2>6, <2>7, <2>8, <2>9
           DEF IInv, TypeOK, LiveCount, issued, SnapshotTypeOK
<1>5. FreeListValid(gen, val, slotLen, free)'
  <2>1. FreeListValid(gen, val, slotLen, free)
    BY <1>0 DEF ConsistentNow, Consistent
  <2>2. \A k \in 1 .. Len(free') :
           /\ free'[k] < slotLen
           /\ val'[free'[k]] = Vacant
           /\ \A j \in 1 .. k - 1 : free'[j] # free'[k]
    BY <1>0, <1>1, <1>2, <1>3, <2>1 DEF FreeListValid
  <2>3. \A j \in 0 .. slotLen - 1 :
           val'[j] = Vacant /\ gen[j] # MaxGen
             => \E k \in 1 .. Len(free') : free'[k] = j
    <3> SUFFICES ASSUME NEW j \in 0 .. slotLen - 1,
                        val'[j] = Vacant, gen[j] # MaxGen
                 PROVE  \E k \in 1 .. Len(free') : free'[k] = j
      OBVIOUS
    <3>1. j # i /\ val[j] = Vacant
      BY <1>0, <1>1, <1>3
    <3>2. PICK k \in 1 .. Len(free) : free[k] = j
      BY <3>1, <2>1 DEF FreeListValid
    <3>3. k \in 1 .. Len(free')
      BY <3>1, <3>2, <1>1, <1>2
    <3> QED  BY <3>2, <3>3, <1>2
  <2> QED  BY <2>2, <2>3, <1>3 DEF FreeListValid
<1>6. ConsistentNow'
  <2>1. \A j \in Index : j >= slotLen => gen[j] = 0 /\ val'[j] = Vacant
    <3> SUFFICES ASSUME NEW j \in Index, j >= slotLen
                 PROVE  gen[j] = 0 /\ val'[j] = Vacant
      OBVIOUS
    <3>1. j # i
      BY <1>0, <1>1 DEF Index
    <3>2. gen[j] = 0 /\ val[j] = Vacant
      BY <1>0 DEF ConsistentNow, Consistent
    <3> QED  BY <3>1, <3>2, <1>0, <1>3
  <2>2. \A j \in Index, k \in Generation :
          <<j, k>> \in DOMAIN owner' => j < slotLen /\ k <= gen[j]
    BY <1>0, <1>1, <1>3 DEF ConsistentNow, Consistent, issued, Generation
  <2>3. \A k \in 1 .. Len(free') : <<free'[k], gen[free'[k]]>> \notin DOMAIN owner'
    BY <1>0, <1>1, <1>2, <1>3 DEF ConsistentNow, Consistent, issued
  <2>4. \A j \in Index : val'[j] # Vacant => <<j, gen[j]>> \in DOMAIN owner'
    BY <1>0, <1>1, <1>3 DEF ConsistentNow, Consistent, issued
  <2>5. \A j \in Index, k \in Generation :
         <<j, k>> \in DOMAIN owner' =>
            (IF gen[j] = k THEN val'[j] ELSE Vacant)
               = (IF <<j, k>> \in removed THEN Vacant ELSE owner'[<<j, k>>])
    <3> SUFFICES ASSUME NEW j \in Index, NEW k \in Generation,
                        <<j, k>> \in DOMAIN owner'
                 PROVE (IF gen[j] = k THEN val'[j] ELSE Vacant)
                   = (IF <<j, k>> \in removed THEN Vacant ELSE owner'[<<j, k>>])
      OBVIOUS
    <3>1. CASE <<j, k>> = <<i, gen[i]>>
      <4>1. j = i /\ k = gen[i] /\ <<j, k>> \notin removed
        BY <3>1, <1>0, <1>1 DEF issued
      <4> QED  BY <4>1, <1>0, <1>1, <1>3
    <3>2. CASE <<j, k>> # <<i, gen[i]>>
      <4>1. <<j, k>> \in issued
        BY <3>2, <1>3
      <4>2. (IF gen[j] = k THEN val[j] ELSE Vacant)
               = (IF <<j, k>> \in removed THEN Vacant ELSE owner[<<j, k>>])
        BY <4>1, <1>0 DEF ConsistentNow, Consistent, issued
      <4>3. gen[j] = k => j # i
        BY <3>2
      <4> QED  BY <4>1, <4>2, <4>3, <1>0, <1>3
    <3> QED  BY <3>1, <3>2
  <2> QED  BY <1>5, <1>3, <2>1, <2>2, <2>3, <2>4, <2>5
           DEF ConsistentNow, Consistent
<1>7. snap' = snap /\ mode' = "running"
  BY <1>0 DEF InsertReuse
<1> QED  BY <1>4, <1>6, <1>7 DEF IInv, ConsistentSnapshot

LEMMA InsertFreshKeeps ==
    ASSUME IInv, NEW v \in Payload, InsertFresh(v)
    PROVE  IInv'
<1> USE ArenaAssumption
<1> DEFINE i == slotLen
<1>0. /\ gen \in [Index -> Generation] /\ val \in [Index -> Cell]
      /\ slotLen \in 0 .. MaxSlots /\ free = << >>
      /\ live \in 0 .. MaxSlots /\ removed \in SUBSET issued
      /\ issued \in SUBSET Handle /\ owner \in [issued -> Payload]
      /\ mode = "running" /\ ConsistentNow /\ LiveCount
      /\ free' = << >> /\ slotLen' = slotLen + 1
  BY DEF IInv, TypeOK, InsertFresh
<1>1. /\ i \in Index /\ 0 \in Generation /\ val[i] = Vacant /\ gen[i] = 0
      /\ <<i, 0>> \notin DOMAIN owner
  <2>1. i \in Index /\ 0 \in Generation
    BY <1>0 DEF Index, Generation, InsertFresh
  <2> QED  BY <1>0, <2>1 DEF ConsistentNow, Consistent
<1>3. /\ val' = [val EXCEPT ![i] = v] /\ gen' = gen
      /\ DOMAIN owner' = issued \cup {<<i, 0>>}
      /\ owner'[<<i, 0>>] = v
      /\ \A h \in issued : owner'[h] = owner[h]
      /\ owner' \in [DOMAIN owner' -> Payload]
      /\ removed' = removed
  BY <1>0, <1>1 DEF InsertFresh, issued
<1>4. TypeOK' /\ LiveCount'
  <2>1. <<i, 0>> \in Handle
    BY <1>0, <1>1 DEF Handle
  <2>2. InUse' = InUse \cup {i} /\ i \notin InUse
    BY <1>0, <1>1, <1>3 DEF InUse, IsLive, Index
  <2>3. InUse \in SUBSET Index /\ InUse' \in SUBSET Index
    BY DEF InUse
  <2>4. IsFiniteSet(InUse) /\ Cardinality(InUse') \in 0 .. MaxSlots
    BY <2>3, FiniteInUse
  <2>5. Cardinality(InUse \cup {i}) = Cardinality(InUse) + 1
    BY <2>2, <2>4, FS_AddElement
  <2>6. live' = Cardinality(InUse') /\ live' \in 0 .. MaxSlots
    BY <2>2, <2>4, <2>5, <1>0 DEF LiveCount, InsertFresh
  <2>7. val' \in [Index -> Cell] /\ slotLen' \in 0 .. MaxSlots
    BY <1>0, <1>1, <1>3 DEF Cell, InsertFresh
  <2>8. /\ DOMAIN owner' \in SUBSET Handle
        /\ removed' \in SUBSET DOMAIN owner'
    BY <1>0, <1>3, <2>1
  <2>9. /\ mode' = mode /\ cursor' = cursor /\ marked' = marked /\ snap' = snap
        /\ free' = free
    BY DEF InsertFresh
  <2> QED  BY <1>0, <1>3, <2>6, <2>7, <2>8, <2>9
           DEF IInv, TypeOK, LiveCount, issued, SnapshotTypeOK
<1>5. FreeListValid(gen, val, slotLen, free)'
  <2> SUFFICES ASSUME NEW j \in 0 .. slotLen,
                      val'[j] = Vacant, gen[j] # MaxGen
               PROVE  FALSE
    BY <1>0, <1>3 DEF FreeListValid
  <2>1. j # i
    BY <1>0, <1>1, <1>3
  <2>2. j \in 0 .. slotLen - 1 /\ val[j] = Vacant
    BY <2>1, <1>0, <1>1, <1>3
  <2> QED  BY <2>2, <1>0 DEF ConsistentNow, Consistent, FreeListValid
<1>6. ConsistentNow'
  <2>1. \A j \in Index : j >= slotLen' => gen[j] = 0 /\ val'[j] = Vacant
    <3> SUFFICES ASSUME NEW j \in Index, j >= slotLen + 1
                 PROVE  gen[j] = 0 /\ val'[j] = Vacant
      BY <1>0
    <3>1. j # i /\ j >= slotLen
      BY <1>0, <1>1 DEF Index
    <3>2. gen[j] = 0 /\ val[j] = Vacant
      BY <3>1, <1>0 DEF ConsistentNow, Consistent
    <3> QED  BY <3>1, <3>2, <1>0, <1>3
  <2>2. \A j \in Index, k \in Generation :
          <<j, k>> \in DOMAIN owner' => j < slotLen' /\ k <= gen[j]
    BY <1>0, <1>1, <1>3 DEF ConsistentNow, Consistent, issued, Generation, Index
  <2>3. \A j \in Index : val'[j] # Vacant => <<j, gen[j]>> \in DOMAIN owner'
    BY <1>0, <1>1, <1>3 DEF ConsistentNow, Consistent, issued
  <2>4. \A j \in Index, k \in Generation :
         <<j, k>> \in DOMAIN owner' =>
            (IF gen[j] = k THEN val'[j] ELSE Vacant)
               = (IF <<j, k>> \in removed THEN Vacant ELSE owner'[<<j, k>>])
    <3> SUFFICES ASSUME NEW j \in Index, NEW k \in Generation,
                        <<j, k>> \in DOMAIN owner'
                 PROVE (IF gen[j] = k THEN val'[j] ELSE Vacant)
                   = (IF <<j, k>> \in removed THEN Vacant ELSE owner'[<<j, k>>])
      OBVIOUS
    <3>1. CASE <<j, k>> = <<i, 0>>
      <4>1. j = i /\ k = 0 /\ <<j, k>> \notin removed
        BY <3>1, <1>0, <1>1 DEF issued
      <4> QED  BY <4>1, <1>0, <1>1, <1>3
    <3>2. CASE <<j, k>> # <<i, 0>>
      <4>1. <<j, k>> \in issued
        BY <3>2, <1>3
      <4>2. (IF gen[j] = k THEN val[j] ELSE Vacant)
               = (IF <<j, k>> \in removed THEN Vacant ELSE owner[<<j, k>>])
        BY <4>1, <1>0 DEF ConsistentNow, Consistent, issued
      <4>3. gen[j] = k => j # i
        BY <3>2, <1>1
      <4> QED  BY <4>1, <4>2, <4>3, <1>0, <1>3
    <3> QED  BY <3>1, <3>2
  <2> QED  BY <1>5, <1>0, <1>3, <2>1, <2>2, <2>3, <2>4
           DEF ConsistentNow, Consistent
<1>7. snap' = snap /\ mode' = "running"
  BY <1>0 DEF InsertFresh
<1> QED  BY <1>4, <1>6, <1>7 DEF IInv, ConsistentSnapshot

(* A handle that does not resolve was already removed, so removing it      *)
(* again changes nothing.                                                  *)
LEMMA RemoveKeeps ==
    ASSUME IInv, NEW h \in Handle, Remove(h)
    PROVE  IInv'
<1> USE ArenaAssumption
<1>0. /\ TypeOK /\ LiveCount /\ ConsistentNow /\ mode = "running"
      /\ h \in issued /\ mode' = "running" /\ snap' = snap
      /\ slotLen' = slotLen /\ owner' = owner /\ removed' = removed \cup {h}
      /\ cursor' = cursor /\ marked' = marked
  BY DEF IInv, Remove
<1>1. PICK i \in Index, k \in Generation : h = <<i, k>>
  BY DEF Handle
<1>2. CASE Get(h) # Vacant
  <2>1. IsLive(i) /\ gen[i] = k /\ TakeValue(i)
    BY <1>1, <1>2 DEF Get, IsLive, Remove
  <2>2. removed' = removed \cup {<<i, gen[i]>>}
    BY <1>0, <1>1, <2>1
  <2>3. /\ gen' \in [Index -> Generation]
        /\ val' \in [Index -> Cell]
        /\ free' \in Seq(Index)
        /\ live' \in 0 .. MaxSlots
        /\ removed' \in SUBSET issued
        /\ LiveCount'
        /\ ConsistentNow'
    BY <1>0, <2>1, <2>2, TakeValueKeeps
  <2>4. TypeOK'
    BY <1>0, <2>3 DEF TypeOK, issued, SnapshotTypeOK
  <2> QED  BY <1>0, <2>3, <2>4 DEF IInv, ConsistentSnapshot
<1>3. CASE Get(h) = Vacant
  <2>1. /\ gen' = gen /\ val' = val /\ free' = free /\ live' = live
    BY <1>3 DEF Remove
  <2>2. h \in removed
    <3>1. (IF gen[i] = k THEN val[i] ELSE Vacant)
            = (IF <<i, k>> \in removed THEN Vacant ELSE owner[<<i, k>>])
      BY <1>0, <1>1 DEF ConsistentNow, Consistent, issued
    <3>2. (IF gen[i] = k THEN val[i] ELSE Vacant) = Vacant
      BY <1>0, <1>1, <1>3 DEF Get, ConsistentNow, Consistent, issued
    <3>3. owner[<<i, k>>] # Vacant
      BY <1>0, <1>1 DEF TypeOK
    <3> QED  BY <3>1, <3>2, <3>3, <1>1
  <2>3. removed' = removed
    BY <1>0, <2>2
  <2> QED  BY <1>0, <2>1, <2>3 DEF IInv, TypeOK, SnapshotTypeOK, issued,
              LiveCount, InUse, IsLive, ConsistentNow, ConsistentSnapshot
<1> QED  BY <1>2, <1>3

LEMMA SweepBoundaryKeeps ==
    ASSUME IInv, mode \in {"running", "sweeping"},
           mode' \in {"running", "sweeping"},
           cursor' \in 0 .. MaxSlots, marked' \in SUBSET Index,
           UNCHANGED <<gen, val, slotLen, free, live, snap, owner, removed>>
    PROVE  IInv'
<1>1. TypeOK'
  BY DEF IInv, TypeOK, SnapshotTypeOK, issued
<1>2. LiveCount'
  BY DEF IInv, LiveCount, InUse, IsLive
<1>3. ConsistentNow'
  BY DEF IInv, ConsistentNow
<1> QED  BY <1>1, <1>2, <1>3 DEF IInv, ConsistentSnapshot

LEMMA SweepStepKeeps ==
    ASSUME IInv, SweepStep
    PROVE  IInv'
<1> USE ArenaAssumption
<1>0. /\ TypeOK /\ LiveCount /\ ConsistentNow /\ mode = "sweeping"
      /\ mode' = "sweeping" /\ snap' = snap /\ cursor \in Index
      /\ slotLen' = slotLen /\ owner' = owner /\ marked' = marked
      /\ cursor' \in 0 .. MaxSlots
  BY DEF IInv, SweepStep, TypeOK, Index
<1>1. CASE IsLive(cursor) /\ cursor \notin marked
  <2>1. TakeValue(cursor) /\ removed' = removed \cup {<<cursor, gen[cursor]>>}
    BY <1>1 DEF SweepStep
  <2>2. /\ gen' \in [Index -> Generation]
        /\ val' \in [Index -> Cell]
        /\ free' \in Seq(Index)
        /\ live' \in 0 .. MaxSlots
        /\ removed' \in SUBSET issued
        /\ LiveCount'
        /\ ConsistentNow'
    BY <1>0, <1>1, <2>1, TakeValueKeeps
  <2>3. TypeOK'
    BY <1>0, <2>2 DEF TypeOK, issued, SnapshotTypeOK
  <2> QED  BY <1>0, <2>2, <2>3 DEF IInv, ConsistentSnapshot
<1>2. CASE ~ (IsLive(cursor) /\ cursor \notin marked)
  <2>1. /\ gen' = gen /\ val' = val /\ free' = free /\ live' = live
        /\ removed' = removed
    BY <1>2 DEF SweepStep
  <2> QED  BY <1>0, <2>1 DEF IInv, TypeOK, SnapshotTypeOK, issued,
              LiveCount, InUse, IsLive, ConsistentNow, ConsistentSnapshot
<1> QED  BY <1>1, <1>2

LEMMA RestoreBatchKeeps ==
    ASSUME IInv, NEW s \in snap, RestoreBatch(s)
    PROVE  IInv'
<1> USE ArenaAssumption
<1>0. /\ SnapshotTypeOK(s) /\ ConsistentSnapshot(s) /\ snap' = snap
      /\ FreeListValid(s.gen, s.val, s.slotLen, s.free)
  BY DEF IInv, TypeOK, RestoreBatch, ConsistentSnapshot, Consistent
<1>1. /\ gen' = s.gen /\ val' = s.val /\ slotLen' = s.slotLen
      /\ free' = s.free /\ owner' = s.owner /\ removed' = s.removed
      /\ mode' = "running" /\ cursor' = 0 /\ marked' = {}
      /\ live' = Cardinality(LiveSlots(s.val, s.slotLen))
  BY <1>0 DEF RestoreBatch
<1>2. InUse' = LiveSlots(s.val, s.slotLen)
  BY <1>1 DEF InUse, IsLive, LiveSlots
<1>3. live' = Cardinality(InUse') /\ live' \in 0 .. MaxSlots
  <2>1. LiveSlots(s.val, s.slotLen) \in SUBSET Index
    BY DEF LiveSlots
  <2> QED  BY <2>1, <1>1, <1>2, FiniteInUse
<1>4. TypeOK'
  BY <1>0, <1>1, <1>3 DEF IInv, TypeOK, SnapshotTypeOK, issued
<1>5. ConsistentNow'
  BY <1>0, <1>1 DEF ConsistentNow, ConsistentSnapshot
<1> QED  BY <1>0, <1>1, <1>3, <1>4, <1>5 DEF IInv, LiveCount, ConsistentSnapshot

LEMMA StreamBeginKeeps ==
    ASSUME IInv, NEW s \in snap, StreamBegin(s)
    PROVE  IInv'
<1> USE ArenaAssumption
<1>0. /\ SnapshotTypeOK(s) /\ snap' = snap /\ mode' = "restoring"
      /\ \A t \in snap : t = s
  BY DEF IInv, TypeOK, StreamBegin
<1>1. InUse' = {}
  BY DEF StreamBegin, InUse, IsLive, Index
<1>2. LiveCount' /\ live' = 0
  BY <1>1, FS_EmptySet DEF LiveCount, StreamBegin
<1>3. TypeOK'
  BY <1>0, <1>2 DEF StreamBegin, IInv, TypeOK, SnapshotTypeOK, issued, Index,
     Generation, Cell
<1>4. \A t \in snap : StreamedPrefix(t)'
  BY <1>0 DEF StreamBegin, StreamedPrefix, SnapshotTypeOK, Index
<1> QED  BY <1>0, <1>2, <1>3, <1>4 DEF IInv, ConsistentSnapshot

LEMMA StreamSlotKeeps ==
    ASSUME IInv, NEW s \in snap, StreamSlot(s)
    PROVE  IInv'
<1> USE ArenaAssumption
<1> DEFINE i == slotLen
<1>0. /\ SnapshotTypeOK(s) /\ snap' = snap /\ mode' = "restoring"
      /\ mode = "restoring"
      /\ \A t \in snap : t = s
      /\ StreamedPrefix(s) /\ LiveCount /\ TypeOK
  BY DEF IInv, TypeOK, StreamSlot
<1>1. /\ i \in Index /\ slotLen' = slotLen + 1 /\ slotLen' \in 0 .. MaxSlots
      /\ slotLen' <= s.slotLen
  BY <1>0 DEF StreamSlot, TypeOK, SnapshotTypeOK, Index
<1>2. /\ gen' = [gen EXCEPT ![i] = s.gen[i]]
      /\ val' = [val EXCEPT ![i] = s.val[i]]
      /\ gen' \in [Index -> Generation] /\ val' \in [Index -> Cell]
  BY <1>0, <1>1 DEF StreamSlot, TypeOK, SnapshotTypeOK
<1>3. StreamedPrefix(s)'
  <2>1. \A j \in Index :
         /\ gen'[j] = IF j < slotLen' THEN s.gen[j] ELSE 0
         /\ val'[j] = IF j < slotLen' THEN s.val[j] ELSE Vacant
    <3> SUFFICES ASSUME NEW j \in Index
                 PROVE  /\ gen'[j] = IF j < slotLen + 1 THEN s.gen[j] ELSE 0
                        /\ val'[j] = IF j < slotLen + 1 THEN s.val[j] ELSE Vacant
      BY <1>1
    <3>1. CASE j = i
      BY <3>1, <1>0, <1>1, <1>2 DEF TypeOK, Index
    <3>2. CASE j # i
      <4>1. j < slotLen + 1 <=> j < slotLen
        BY <3>2, <1>0, <1>1 DEF TypeOK, Index
      <4>2. gen'[j] = gen[j] /\ val'[j] = val[j]
        BY <3>2, <1>0, <1>2 DEF TypeOK
      <4> QED  BY <4>1, <4>2, <1>0 DEF StreamedPrefix
    <3> QED  BY <3>1, <3>2
  <2> QED  BY <2>1, <1>0, <1>1 DEF StreamedPrefix, StreamSlot
<1>4. live' = Cardinality(InUse') /\ live' \in 0 .. MaxSlots
  <2>1. InUse \in SUBSET Index /\ InUse' \in SUBSET Index
    BY DEF InUse
  <2>2. IsFiniteSet(InUse) /\ Cardinality(InUse') \in 0 .. MaxSlots
    BY <2>1, FiniteInUse
  <2>3. i \notin InUse
    BY <1>0, <1>1 DEF InUse, IsLive, Index
  <2>4. CASE s.val[i] # Vacant
    <3>1. InUse' = InUse \cup {i}
      BY <2>4, <1>0, <1>1, <1>2 DEF InUse, IsLive, TypeOK, Index
    <3>2. Cardinality(InUse \cup {i}) = Cardinality(InUse) + 1
      BY <2>2, <2>3, FS_AddElement
    <3> QED  BY <3>1, <3>2, <2>2, <2>4, <1>0 DEF LiveCount, StreamSlot
  <2>5. CASE s.val[i] = Vacant
    <3>1. InUse' = InUse
      BY <2>5, <1>0, <1>1, <1>2 DEF InUse, IsLive, TypeOK, Index
    <3> QED  BY <3>1, <2>2, <2>5, <1>0 DEF LiveCount, StreamSlot
  <2> QED  BY <2>4, <2>5
<1>5. /\ free' = free /\ cursor' = cursor /\ marked' = marked
      /\ owner' = owner /\ removed' = removed
  BY DEF StreamSlot
<1>6. TypeOK'
  BY <1>0, <1>1, <1>2, <1>4, <1>5 DEF TypeOK, SnapshotTypeOK, issued
<1> QED  BY <1>0, <1>3, <1>4, <1>6 DEF IInv, LiveCount, ConsistentSnapshot

(* The rebuilt arena equals the captured one slot for slot. *)
LEMMA StreamedIsCaptured ==
    ASSUME IInv, NEW s \in snap, mode = "restoring", slotLen = s.slotLen
    PROVE  /\ gen = s.gen /\ val = s.val
           /\ owner = s.owner /\ removed = s.removed
<1>1. /\ SnapshotTypeOK(s) /\ StreamedPrefix(s) /\ TypeOK
      /\ ConsistentSnapshot(s)
  BY DEF IInv, TypeOK
<1>2. \A i \in Index : gen[i] = s.gen[i] /\ val[i] = s.val[i]
  <2> SUFFICES ASSUME NEW i \in Index
               PROVE  gen[i] = s.gen[i] /\ val[i] = s.val[i]
    OBVIOUS
  <2>1. i < slotLen \/ i >= slotLen
    BY <1>1, ArenaAssumption DEF TypeOK, Index
  <2>2. i >= s.slotLen => s.gen[i] = 0 /\ s.val[i] = Vacant
    BY <1>1 DEF ConsistentSnapshot, Consistent
  <2> QED  BY <2>1, <2>2, <1>1 DEF StreamedPrefix
<1>3. gen = s.gen /\ val = s.val
  BY <1>1, <1>2 DEF TypeOK, SnapshotTypeOK
<1> QED  BY <1>1, <1>3 DEF StreamedPrefix

LEMMA StreamFreeKeeps ==
    ASSUME IInv, NEW s \in snap, StreamFree(s)
    PROVE  IInv' /\ mode' = "running" /\ Captured' \in snap
<1> USE ArenaAssumption
<1>0. /\ SnapshotTypeOK(s) /\ snap' = snap /\ TypeOK /\ LiveCount
      /\ FreeListValid(s.gen, s.val, s.slotLen, s.free)
      /\ ConsistentSnapshot(s)
      /\ gen' = gen /\ val' = val /\ slotLen' = slotLen /\ live' = live
      /\ cursor' = cursor /\ marked' = marked
      /\ owner' = owner /\ removed' = removed
  BY DEF IInv, TypeOK, StreamFree, ConsistentSnapshot, Consistent
<1>1. /\ gen = s.gen /\ val = s.val /\ slotLen = s.slotLen
      /\ owner = s.owner /\ removed = s.removed
  BY StreamedIsCaptured DEF StreamFree
<1>2. free' = s.free /\ mode' = "running"
  BY <1>0, <1>1 DEF StreamFree
<1>3. TypeOK'
  BY <1>0, <1>2 DEF TypeOK, SnapshotTypeOK, issued
<1>4. LiveCount'
  BY <1>0 DEF LiveCount, InUse, IsLive
<1>5. ConsistentNow'
  BY <1>0, <1>1, <1>2 DEF ConsistentNow, ConsistentSnapshot
<1>6. Captured' = s
  BY <1>0, <1>1, <1>2 DEF Captured, SnapshotTypeOK
<1> QED  BY <1>0, <1>2, <1>3, <1>4, <1>5, <1>6 DEF IInv, ConsistentSnapshot

LEMMA SnapshotKeeps ==
    ASSUME IInv, Snapshot
    PROVE  IInv'
<1>1. /\ TypeOK /\ LiveCount /\ ConsistentNow /\ mode = "running"
      /\ snap' = {Captured} /\ mode' = mode
      /\ gen' = gen /\ val' = val /\ slotLen' = slotLen /\ free' = free
      /\ live' = live /\ cursor' = cursor /\ marked' = marked
      /\ owner' = owner /\ removed' = removed
  BY DEF IInv, Snapshot, arena, history
<1>2. SnapshotTypeOK(Captured) /\ ConsistentSnapshot(Captured)
  BY <1>1 DEF Captured, SnapshotTypeOK, ConsistentSnapshot, ConsistentNow,
     TypeOK, issued
<1>3. TypeOK' /\ LiveCount' /\ ConsistentNow'
  BY <1>1, <1>2 DEF TypeOK, issued, LiveCount, InUse, IsLive, ConsistentNow,
     SnapshotTypeOK
<1> QED  BY <1>1, <1>2, <1>3 DEF IInv, ConsistentSnapshot

-----------------------------------------------------------------------------
LEMMA NextIInv == IInv /\ [Next]_vars => IInv'
<1> SUFFICES ASSUME IInv, [Next]_vars PROVE IInv'
  OBVIOUS
<1>1. CASE \E v \in Payload : InsertReuse(v) \/ InsertFresh(v)
  BY <1>1, InsertReuseKeeps, InsertFreshKeeps
<1>2. CASE \E h \in Handle : Remove(h)
  BY <1>2, RemoveKeeps
<1>3. CASE \E m \in SUBSET Index : SweepBegin(m)
  <2>1. /\ mode = "running" /\ mode' = "sweeping"
        /\ cursor' \in 0 .. MaxSlots /\ marked' \in SUBSET Index
        /\ UNCHANGED <<gen, val, slotLen, free, live, snap, owner, removed>>
    BY <1>3, ArenaAssumption DEF SweepBegin
  <2> QED  BY <2>1, SweepBoundaryKeeps
<1>4. CASE SweepStep
  BY <1>4, SweepStepKeeps
<1>5. CASE SweepEnd
  <2>1. /\ mode = "sweeping" /\ mode' = "running"
        /\ cursor' \in 0 .. MaxSlots /\ marked' \in SUBSET Index
        /\ UNCHANGED <<gen, val, slotLen, free, live, snap, owner, removed>>
    BY <1>5, ArenaAssumption DEF SweepEnd
  <2> QED  BY <2>1, SweepBoundaryKeeps
<1>6. CASE Snapshot
  BY <1>6, SnapshotKeeps
<1>7. CASE \E s \in snap : RestoreBatch(s) \/ StreamBegin(s)
                              \/ StreamSlot(s) \/ StreamFree(s)
  BY <1>7, RestoreBatchKeeps, StreamBeginKeeps, StreamSlotKeeps,
     StreamFreeKeeps
<1>8. CASE UNCHANGED vars
  BY <1>8 DEF vars, IInv, TypeOK, SnapshotTypeOK, issued, LiveCount, InUse,
     IsLive, ConsistentNow, ConsistentSnapshot, StreamedPrefix
<1> QED  BY <1>1, <1>2, <1>3, <1>4, <1>5, <1>6, <1>7, <1>8 DEF Next

(* Every reachable state of the arena satisfies the inductive invariant. *)
THEOREM ArenaInvariant == Spec => []IInv
  BY InitIInv, NextIInv, PTL DEF Spec

(* Type correctness of the arena and its snapshots (struct Arena). *)
THEOREM ArenaTypeCorrect == Spec => []TypeOK
<1>1. IInv => TypeOK
  BY DEF IInv
<1> QED  BY <1>1, ArenaInvariant, PTL

(* Arena::get resolves exactly the handles whose value was not removed, to *)
(* the value they were issued for, over any run of inserts, removals,      *)
(* sweeps, snapshots and restarts and for any generation width.            *)
THEOREM ArenaIdentity == Spec => []HandleIdentity
<1>1. IInv => HandleIdentity
  <2> SUFFICES ASSUME IInv, mode \in {"running", "sweeping"},
                      NEW h \in issued
               PROVE  Get(h) = IF h \in removed THEN Vacant ELSE owner[h]
    BY DEF HandleIdentity
  <2>1. PICK i \in Index, k \in Generation : h = <<i, k>>
    BY DEF IInv, TypeOK, Handle
  <2> QED  BY <2>1 DEF Get, IInv, ConsistentNow, Consistent, issued
<1> QED  BY <1>1, ArenaInvariant, PTL

(* Arena::len is the number of live slots. *)
THEOREM ArenaLiveCount == Spec => []LiveCount
<1>1. IInv => LiveCount
  BY DEF IInv
<1> QED  BY <1>1, ArenaInvariant, PTL

(* No restart from a snapshot the program wrote is refused as corrupt. *)
THEOREM ArenaNeverCorrupt == Spec => []NeverCorrupt
<1>1. IInv => NeverCorrupt
  BY DEF IInv, NeverCorrupt, ConsistentSnapshot, Consistent
<1> QED  BY <1>1, ArenaInvariant, PTL

(* A streamed restore rebuilds the captured arena, free-stack order        *)
(* included, so later allocations get the same identities.                 *)
THEOREM ArenaRestoreExact == Spec => RestoreIsExact
<1>1. IInv /\ [Next]_vars
        => [mode = "restoring" /\ mode' = "running" => Captured' \in snap]_vars
  <2> SUFFICES ASSUME IInv, Next, mode = "restoring", mode' = "running"
               PROVE  Captured' \in snap
    OBVIOUS
  <2>1. ~ \E v \in Payload : InsertReuse(v) \/ InsertFresh(v)
    BY DEF InsertReuse, InsertFresh
  <2>2. ~ \E h \in Handle : Remove(h)
    BY DEF Remove
  <2>3. /\ ~ \E m \in SUBSET Index : SweepBegin(m)
        /\ ~ SweepStep /\ ~ SweepEnd /\ ~ Snapshot
    BY DEF SweepBegin, SweepStep, SweepEnd, Snapshot
  <2>4. PICK s \in snap : RestoreBatch(s) \/ StreamBegin(s)
                            \/ StreamSlot(s) \/ StreamFree(s)
    BY <2>1, <2>2, <2>3 DEF Next
  <2>5. CASE RestoreBatch(s)
    BY <2>5 DEF RestoreBatch, Captured, IInv, TypeOK, SnapshotTypeOK,
       ConsistentSnapshot, Consistent
  <2>6. CASE StreamBegin(s)
    BY <2>6 DEF StreamBegin
  <2>7. CASE StreamSlot(s)
    BY <2>7 DEF StreamSlot
  <2>8. CASE StreamFree(s)
    BY <2>8, StreamFreeKeeps
  <2> QED  BY <2>4, <2>5, <2>6, <2>7, <2>8
<1> QED  BY <1>1, ArenaInvariant, PTL DEF Spec, RestoreIsExact
=============================================================================
