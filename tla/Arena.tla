------------------------------- MODULE Arena -------------------------------
(***************************************************************************)
(* The generational slot arena that owns every datum and every list of the *)
(* DM heap (crates/dm-value/src/lib.rs, struct Arena).  A handle is the    *)
(* pair <<index, generation>>; removing a value bumps the generation of    *)
(* its slot so that every alias of the old handle becomes stale, and a     *)
(* slot whose u32 generation cannot grow any more is retired.              *)
(*                                                                         *)
(* The collector's sweep visits the slots one by one: it is modelled as a  *)
(* loop with a cursor during which no other operation runs (the code holds *)
(* &mut self).  A heap snapshot survives the process: the world may stop   *)
(* at any point and a new process restores the last snapshot, either in    *)
(* one batch (from_snapshot) or slot by slot (read_snapshot_from).         *)
(***************************************************************************)
EXTENDS Integers, Sequences, FiniteSets

CONSTANTS
    Payload,     \* the values stored in the arena
    Vacant,      \* Option::None, the content of a vacant slot
    MaxSlots,    \* bound on the slots of the model (u32::MAX in the code)
    MaxGen       \* u32::MAX, the last generation of a slot

ASSUME ArenaAssumption ==
    /\ Vacant \notin Payload
    /\ MaxSlots \in Nat
    /\ MaxGen \in Nat

Index      == 0 .. MaxSlots - 1
Generation == 0 .. MaxGen
Handle     == Index \X Generation
Cell       == Payload \cup {Vacant}

VARIABLES
    gen,       \* Slot.generation of every slot
    val,       \* Slot.value of every slot
    slotLen,   \* Arena.slot_len: slots that were initialized at least once
    free,      \* Arena.free: the stack of reusable vacant slots
    live,      \* Arena.live
    mode,      \* "running", or inside a sweep or a restore, or "corrupt"
    cursor,    \* the loop index of the running sweep
    marked,    \* the mark bits given to the running sweep
    snap,      \* the persisted snapshots: at most one, the last one written
    owner,     \* history: the value each issued handle was issued for
    removed    \* history: the issued handles whose value was removed

arena   == <<gen, val, slotLen, free, live>>
history == <<owner, removed>>
vars    == <<gen, val, slotLen, free, live, mode, cursor, marked, snap,
             owner, removed>>

IsLive(i)  == i < slotLen /\ val[i] # Vacant
InUse      == {i \in Index : IsLive(i)}
issued     == DOMAIN owner

(* Arena::get: the value a handle resolves to, Vacant when it is stale. *)
Get(h) == IF h[1] < slotLen /\ gen[h[1]] = h[2] THEN val[h[1]] ELSE Vacant

Init ==
    /\ gen = [i \in Index |-> 0]
    /\ val = [i \in Index |-> Vacant]
    /\ slotLen = 0
    /\ free = << >>
    /\ live = 0
    /\ mode = "running"
    /\ cursor = 0
    /\ marked = {}
    /\ snap = {}
    /\ owner = << >>
    /\ removed = {}

-----------------------------------------------------------------------------
(* Arena::insert, the branch that reuses the slot on top of the free stack. *)
InsertReuse(v) ==
    /\ mode = "running"
    /\ free # << >>
    /\ LET i == free[Len(free)] IN
       /\ val' = [val EXCEPT ![i] = v]
       /\ free' = SubSeq(free, 1, Len(free) - 1)
       /\ owner' = [h \in issued \cup {<<i, gen[i]>>} |->
                      IF h = <<i, gen[i]>> THEN v ELSE owner[h]]
    /\ live' = live + 1
    /\ UNCHANGED <<gen, slotLen, mode, cursor, marked, snap, removed>>

(* Arena::insert, the branch that appends a slot of generation 0. *)
InsertFresh(v) ==
    /\ mode = "running"
    /\ free = << >>
    /\ slotLen < MaxSlots
    /\ val' = [val EXCEPT ![slotLen] = v]
    /\ gen' = [gen EXCEPT ![slotLen] = 0]
    /\ owner' = [h \in issued \cup {<<slotLen, 0>>} |->
                   IF h = <<slotLen, 0>> THEN v ELSE owner[h]]
    /\ slotLen' = slotLen + 1
    /\ live' = live + 1
    /\ UNCHANGED <<free, mode, cursor, marked, snap, removed>>

(* Mutant: the generation wraps around at u32::MAX. *)
TakeValueWrapping(i) ==
    /\ val' = [val EXCEPT ![i] = Vacant]
    /\ live' = live - 1
    /\ gen' = [gen EXCEPT ![i] = (gen[i] + 1) % (MaxGen + 1)]
    /\ free' = Append(free, i)

(* The body of Arena::remove once the handle was found live: the value is  *)
(* taken, the generation is bumped with checked_add, and only a slot that  *)
(* got a new generation goes back on the free stack.                       *)
TakeValue(i) ==
    /\ val' = [val EXCEPT ![i] = Vacant]
    /\ live' = live - 1
    /\ IF gen[i] < MaxGen
       THEN /\ gen' = [gen EXCEPT ![i] = gen[i] + 1]
            /\ free' = Append(free, i)
       ELSE UNCHANGED <<gen, free>>

(* Arena::remove with any handle the program may hold, stale ones included: *)
(* a stale handle removes nothing (destroy_list and destroy_datum report    *)
(* StaleList and StaleDatum).                                               *)
Remove(h) ==
    /\ mode = "running"
    /\ h \in issued
    /\ IF Get(h) # Vacant THEN TakeValue(h[1])
                          ELSE UNCHANGED <<gen, val, free, live>>
    /\ removed' = removed \cup {h}
    /\ UNCHANGED <<slotLen, mode, cursor, marked, snap, owner>>

-----------------------------------------------------------------------------
(* Arena::sweep_unmarked_with: the collector supplies the mark bits ... *)
SweepBegin(m) ==
    /\ mode = "running"
    /\ m \subseteq InUse
    /\ mode' = "sweeping"
    /\ cursor' = 0
    /\ marked' = m
    /\ UNCHANGED <<gen, val, slotLen, free, live, snap, owner, removed>>

(* ... and the loop removes every live unmarked slot in index order. *)
SweepStep ==
    /\ mode = "sweeping"
    /\ cursor < slotLen
    /\ cursor' = cursor + 1
    /\ IF IsLive(cursor) /\ cursor \notin marked
       THEN /\ TakeValue(cursor)
            /\ removed' = removed \cup {<<cursor, gen[cursor]>>}
       ELSE UNCHANGED <<gen, val, free, live, removed>>
    /\ UNCHANGED <<slotLen, mode, marked, snap, owner>>

SweepEnd ==
    /\ mode = "sweeping"
    /\ cursor = slotLen
    /\ mode' = "running"
    /\ cursor' = 0
    /\ marked' = {}
    /\ UNCHANGED <<gen, val, slotLen, free, live, snap, owner, removed>>

-----------------------------------------------------------------------------
(* ValueHeap::snapshot: slots in index order with their generations, vacant *)
(* ones too, and the free stack in order.  The histories are recorded with  *)
(* it because a restored process holds exactly the handles of that moment.  *)
Captured ==
    [gen |-> gen, val |-> val, slotLen |-> slotLen, free |-> free,
     owner |-> owner, removed |-> removed]

Snapshot ==
    /\ mode = "running"
    /\ snap' = {Captured}
    /\ UNCHANGED <<arena, mode, cursor, marked, history>>

(* Mutant: a retired slot is not exempt from the free-list check. *)
FreeListValidStrict(g, v, n, f) ==
    /\ \A k \in 1 .. Len(f) :
         /\ f[k] < n
         /\ v[f[k]] = Vacant
         /\ \A j \in 1 .. k - 1 : f[j] # f[k]
    /\ \A i \in 0 .. n - 1 :
         v[i] = Vacant => \E k \in 1 .. Len(f) : f[k] = i

(* The two validation loops of install_snapshot_free and of                 *)
(* arena_from_snapshot_slots: every free entry is in range, listed once and *)
(* vacant, and every vacant slot that is not retired is listed.             *)
FreeListValid(g, v, n, f) ==
    /\ \A k \in 1 .. Len(f) :
         /\ f[k] < n
         /\ v[f[k]] = Vacant
         /\ \A j \in 1 .. k - 1 : f[j] # f[k]
    /\ \A i \in 0 .. n - 1 :
         v[i] = Vacant /\ g[i] # MaxGen => \E k \in 1 .. Len(f) : f[k] = i

LiveSlots(v, n) == {i \in Index : i < n /\ v[i] # Vacant}

(* ValueHeap::from_snapshot in a new process: validate, then rebuild.       *)
RestoreBatch(s) ==
    /\ s \in snap
    /\ IF FreeListValid(s.gen, s.val, s.slotLen, s.free)
       THEN /\ gen' = s.gen
            /\ val' = s.val
            /\ slotLen' = s.slotLen
            /\ free' = s.free
            /\ live' = Cardinality(LiveSlots(s.val, s.slotLen))
            /\ mode' = "running"
       ELSE /\ mode' = "corrupt"
            /\ UNCHANGED arena
    /\ cursor' = 0
    /\ marked' = {}
    /\ owner' = s.owner
    /\ removed' = s.removed
    /\ UNCHANGED snap

(* ValueHeap::read_snapshot_from in a new process: an empty arena ...       *)
StreamBegin(s) ==
    /\ s \in snap
    /\ gen' = [i \in Index |-> 0]
    /\ val' = [i \in Index |-> Vacant]
    /\ slotLen' = 0
    /\ free' = << >>
    /\ live' = 0
    /\ mode' = "restoring"
    /\ cursor' = 0
    /\ marked' = {}
    /\ owner' = s.owner
    /\ removed' = s.removed
    /\ UNCHANGED snap

(* Mutant: vacant slots are counted as live. *)
StreamSlotCountsAll(s) ==
    /\ mode = "restoring"
    /\ s \in snap
    /\ slotLen < s.slotLen
    /\ gen' = [gen EXCEPT ![slotLen] = s.gen[slotLen]]
    /\ val' = [val EXCEPT ![slotLen] = s.val[slotLen]]
    /\ live' = live + 1
    /\ slotLen' = slotLen + 1
    /\ UNCHANGED <<free, mode, cursor, marked, snap, owner, removed>>

(* ... that push_snapshot_slot grows by one slot per record read ...        *)
StreamSlot(s) ==
    /\ mode = "restoring"
    /\ s \in snap
    /\ slotLen < s.slotLen
    /\ gen' = [gen EXCEPT ![slotLen] = s.gen[slotLen]]
    /\ val' = [val EXCEPT ![slotLen] = s.val[slotLen]]
    /\ live' = IF s.val[slotLen] # Vacant THEN live + 1 ELSE live
    /\ slotLen' = slotLen + 1
    /\ UNCHANGED <<free, mode, cursor, marked, snap, owner, removed>>

(* Mutant: the free stack is rebuilt bottom up. *)
StreamFreeReversed(s) ==
    /\ mode = "restoring"
    /\ s \in snap
    /\ slotLen = s.slotLen
    /\ free' = [k \in 1 .. Len(s.free) |-> s.free[Len(s.free) + 1 - k]]
    /\ mode' = "running"
    /\ UNCHANGED <<gen, val, slotLen, live, cursor, marked, snap, owner,
                   removed>>

(* ... and install_snapshot_free completes or refuses.                      *)
StreamFree(s) ==
    /\ mode = "restoring"
    /\ s \in snap
    /\ slotLen = s.slotLen
    /\ IF FreeListValid(gen, val, slotLen, s.free)
       THEN free' = s.free /\ mode' = "running"
       ELSE mode' = "corrupt" /\ UNCHANGED free
    /\ UNCHANGED <<gen, val, slotLen, live, cursor, marked, snap, owner,
                   removed>>

Next ==
    \/ \E v \in Payload : InsertReuse(v) \/ InsertFresh(v)
    \/ \E h \in Handle : Remove(h)
    \/ \E m \in SUBSET Index : SweepBegin(m)
    \/ SweepStep
    \/ SweepEnd
    \/ Snapshot
    \/ \E s \in snap : RestoreBatch(s) \/ StreamBegin(s)
                         \/ StreamSlot(s) \/ StreamFree(s)

Spec == Init /\ [][Next]_vars

-----------------------------------------------------------------------------
(* The type of a persisted snapshot. *)
SnapshotTypeOK(s) ==
    /\ s = [gen |-> s.gen, val |-> s.val, slotLen |-> s.slotLen,
            free |-> s.free, owner |-> s.owner, removed |-> s.removed]
    /\ s.gen \in [Index -> Generation]
    /\ s.val \in [Index -> Cell]
    /\ s.slotLen \in 0 .. MaxSlots
    /\ s.free \in Seq(Index)
    /\ DOMAIN s.owner \in SUBSET Handle
    /\ s.owner \in [DOMAIN s.owner -> Payload]
    /\ s.removed \in SUBSET DOMAIN s.owner

(* Type correctness of the arena, of its snapshots and of the histories. *)
TypeOK ==
    /\ gen \in [Index -> Generation]
    /\ val \in [Index -> Cell]
    /\ slotLen \in 0 .. MaxSlots
    /\ free \in Seq(Index)
    /\ live \in 0 .. MaxSlots
    /\ mode \in {"running", "sweeping", "restoring", "corrupt"}
    /\ cursor \in 0 .. MaxSlots
    /\ marked \in SUBSET Index
    /\ issued \in SUBSET Handle
    /\ owner \in [issued -> Payload]
    /\ removed \in SUBSET issued
    /\ \A s \in snap : SnapshotTypeOK(s)

(* Identity.  Whatever inserts, removals, sweeps and restarts happened, a  *)
(* handle whose value was removed never resolves again, not even after the *)
(* slot was reused or its generation ran out, and a handle whose value was *)
(* not removed resolves to that very value (Arena::get, insert, remove).   *)
HandleIdentity ==
    mode \in {"running", "sweeping"} =>
        \A h \in issued : Get(h) = IF h \in removed THEN Vacant ELSE owner[h]

(* Arena::len, which drives the collection threshold, is the number of     *)
(* live slots: no path double-counts or forgets one.                       *)
LiveCount == live = Cardinality(InUse)

(* A snapshot the program wrote is always accepted by the validation of    *)
(* both restore paths, retired slots included, so a restart cannot end in  *)
(* CorruptHeapSnapshot.                                                    *)
NeverCorrupt ==
    /\ mode # "corrupt"
    /\ \A s \in snap : FreeListValid(s.gen, s.val, s.slotLen, s.free)

(* The documentation of ValueHeapSnapshot: allocations after a restore     *)
(* produce the same identities as uninterrupted execution.  The restored   *)
(* arena is the captured one, the order of its free stack included.        *)
RestoreIsExact ==
    [][mode = "restoring" /\ mode' = "running" => Captured' \in snap]_vars

=============================================================================
