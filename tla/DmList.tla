------------------------------- MODULE DmList -------------------------------
(***************************************************************************)
(* The storage of a DM list (crates/dm-value/src/lib.rs, DmListStorage).   *)
(* Plain values and associations live in two vectors; `order` is the       *)
(* iteration order and points into them.  Three shortcuts have to stay in  *)
(* step with it: a hash index of the associations, built at a threshold; a *)
(* transient index for repeated removals of plain values, which keeps the  *)
(* positions the list had when it was built and a Fenwick tree of what was *)
(* removed since; and a logically removed prefix of plain values.          *)
(*                                                                         *)
(* A list is a record, the operations are functions of it, and ListSpec is *)
(* what they must amount to.                                               *)
(***************************************************************************)
EXTENDS Integers, SequencesExt, FiniteSetsExt

CONSTANTS
    Keys, Items, NaNs, NullKey, Absent, MaxLen,
    Unhashed,         \* values without a semantic key: modified type paths
    HashOf,           \* semantic_hash of the other keys, collisions included
    IndexThreshold,   \* ASSOCIATIVE_INDEX_THRESHOLD
    RemoveThreshold   \* POSITIONAL_REMOVE_INDEX_THRESHOLD

VARIABLES list, last

vars == <<list, last>>

Hashable == Keys \ (NaNs \cup Unhashed)
Equal(a, b) == a = b /\ a \notin NaNs

ASSUME ListAssumption ==
    /\ NaNs \cup Unhashed \subseteq Keys
    /\ NullKey \in Hashable
    /\ Absent \notin Keys \cup Items
    /\ {MaxLen, IndexThreshold, RemoveThreshold} \subseteq Nat
    /\ DOMAIN HashOf = Hashable

\* ASSOCIATIVE_INDEX_COLLISION: the hash belongs to two different keys.
Collision == 0

NoIndex == [on |-> FALSE, at |-> <<>>]
NoRemoveIndex == [on |-> FALSE, at |-> <<>>, tree |-> <<>>]

Empty == [positional |-> <<>>, associative |-> <<>>, order |-> <<>>,
          index |-> NoIndex, removal |-> NoRemoveIndex, head |-> 0]

Pos(i) == [kind |-> "positional", at |-> i]
Ass(i) == [kind |-> "associative", at |-> i]

KeyOf(L, e) == IF e.kind = "positional" THEN L.positional[e.at] ELSE L.associative[e.at].key
ListLen(L) == Len(L.order) - L.head
Get(L, i) == KeyOf(L, L.order[L.head + i])

\* The entries a reader of the list sees, in iteration order.
Entries(L) ==
    [i \in 1..ListLen(L) |->
        LET e == L.order[L.head + i] IN
        [key |-> KeyOf(L, e),
         val |-> IF e.kind = "positional" THEN Absent ELSE L.associative[e.at].val]]

FirstWhere(n, Test(_)) == IF \E i \in 1..n : Test(i)
                          THEN CHOOSE i \in 1..n : Test(i) /\ \A j \in 1..i - 1 : ~Test(j)
                          ELSE 0
LastWhere(n, Test(_)) == IF \E i \in 1..n : Test(i)
                         THEN CHOOSE i \in 1..n : Test(i) /\ \A j \in i + 1..n : ~Test(j)
                         ELSE 0
-----------------------------------------------------------------------------
(* The lazy prefix and the two indexes.                                    *)

MaterializePrefix(L) ==
    [L EXCEPT !.positional = SubSeq(@, L.head + 1, Len(@)),
              !.order = [i \in 1..Len(@) - L.head |-> Pos(@[L.head + i].at - L.head)],
              !.head = 0]

Materialized(L) == IF L.head = 0 THEN L ELSE MaterializePrefix(L)

DropRemoval(L) == [L EXCEPT !.removal = NoRemoveIndex]

\* The bucket a hash gets when the associations are entered one by one.
Bucket(L, h) ==
    LET same == {i \in 1..Len(L.associative) : /\ L.associative[i].key \in Hashable
                                               /\ HashOf[L.associative[i].key] = h}
        first == Min(same)
    IN IF \A i \in same : Equal(L.associative[first].key, L.associative[i].key)
       THEN first ELSE Collision

RebuildIndex(L) ==
    IF Len(L.associative) < IndexThreshold THEN [L EXCEPT !.index = NoIndex]
    ELSE LET keys == {L.associative[i].key : i \in 1..Len(L.associative)} \cap Hashable
         IN [L EXCEPT !.index = [on |-> TRUE,
                                 at |-> [h \in {HashOf[k] : k \in keys} |-> Bucket(L, h)]]]

\* Mutant: only the association that reaches the threshold is indexed.
IndexLastOnce(L) == IF Len(L.associative) = IndexThreshold THEN RebuildIndex(L) ELSE L

IndexLast(L) ==
    LET n == Len(L.associative)
        k == L.associative[n].key
    IN IF n = IndexThreshold THEN RebuildIndex(L)
       ELSE IF n < IndexThreshold \/ k \notin Hashable THEN L
       ELSE LET h == HashOf[k]
                old == L.index.at
                entry == IF h \notin DOMAIN old THEN n
                         ELSE IF old[h] # Collision /\ ~Equal(L.associative[old[h]].key, k)
                              THEN Collision ELSE old[h]
            IN [L EXCEPT !.index.at = [x \in DOMAIN old \cup {h} |->
                                          IF x = h THEN entry ELSE old[x]]]

Scan(L, k) == FirstWhere(Len(L.associative), LAMBDA i : Equal(L.associative[i].key, k))

\* association_position_for_key; zero when there is none.
FindKey(L, k) ==
    IF L.index.on /\ k \in Hashable
    THEN IF HashOf[k] \notin DOMAIN L.index.at THEN 0
         ELSE LET p == L.index.at[HashOf[k]] IN
              IF p # Collision /\ p <= Len(L.associative) /\ Equal(L.associative[p].key, k)
              THEN p ELSE Scan(L, k)
    ELSE Scan(L, k)

\* The Fenwick tree of PositionalRemoveIndex, cell 0 left out.
LowBit(n) == Max({p \in {1, 2, 4, 8, 16} : n % p = 0})

RemovedBefore(tree, original) ==
    LET sum[c \in 0..Len(tree)] == IF c = 0 THEN 0 ELSE tree[c] + sum[c - LowBit(c)]
    IN sum[original]

MarkRemoved(tree, original) ==
    LET next[c \in 1..2 * Len(tree) + 1] ==
            IF c > Len(tree) THEN {} ELSE {c} \cup next[c + LowBit(c)]
    IN [c \in 1..Len(tree) |-> IF c \in next[original + 1] THEN tree[c] + 1 ELSE tree[c]]
-----------------------------------------------------------------------------
(* The operations.                                                         *)

Shift(order, kind, at) ==
    [i \in DOMAIN order |-> IF order[i].kind = kind /\ order[i].at > at
                            THEN [order[i] EXCEPT !.at = @ - 1] ELSE order[i]]

AddTo(L, k) ==
    [DropRemoval(L) EXCEPT !.order = Append(@, Pos(Len(L.positional) + 1)),
                           !.positional = Append(@, k)]

SetAt(L, i, k) ==
    LET at == L.head + i
        e == L.order[at]
        D == DropRemoval(L)
    IN IF e.kind = "positional" THEN [D EXCEPT !.positional[e.at] = k]
       ELSE RebuildIndex([D EXCEPT
                !.associative = RemoveAt(@, e.at),
                !.positional = Append(@, k),
                !.order = [Shift(@, "associative", e.at) EXCEPT
                              ![at] = Pos(Len(L.positional) + 1)]])

RemoveIndex(L, i) ==
    LET M == DropRemoval(Materialized(L))
        e == M.order[i]
        C == [M EXCEPT !.order = Shift(RemoveAt(@, i), e.kind, e.at)]
    IN IF e.kind = "positional" THEN [C EXCEPT !.positional = RemoveAt(@, e.at)]
       ELSE RebuildIndex([C EXCEPT !.associative = RemoveAt(@, e.at)])

\* Mutant: the prefix is not materialized before the insertion.
InsertToPrefixed(L, i, k) ==
    [DropRemoval(L) EXCEPT !.positional = Append(@, k),
                           !.order = InsertAt(@, i, Pos(Len(L.positional) + 1))]

InsertTo(L, i, k) ==
    LET M == DropRemoval(Materialized(L)) IN
    [M EXCEPT !.positional = Append(@, k),
              !.order = InsertAt(@, i, Pos(Len(M.positional) + 1))]

\* Both vectors without what `drop` (places in order) refers to, and the
\* remaining order renumbered.
Compact(L, drop) ==
    LET gone(kind) == {L.order[i].at : i \in {j \in drop : L.order[j].kind = kind}}
        keep(s, away) == [r \in 1..Len(s) - Cardinality(away) |->
                            s[CHOOSE i \in 1..Len(s) :
                                i \notin away /\ r = i - Cardinality({x \in away : x < i})]]
        moved(e) == [e EXCEPT !.at = @ - Cardinality({x \in gone(e.kind) : x < @})]
        left == keep(L.order, drop)
    IN RebuildIndex([L EXCEPT !.positional = keep(@, gone("positional")),
                              !.associative = keep(@, gone("associative")),
                              !.order = [i \in DOMAIN left |-> moved(left[i])],
                              !.head = 0,
                              !.removal = NoRemoveIndex])

Canonical(L) == \A i \in DOMAIN L.order : L.order[i] = Pos(i)

CutFrom(L, i, j) ==
    IF j <= i THEN L
    ELSE IF i = 1 /\ j = ListLen(L) + 1 THEN Empty
    ELSE IF i = 1 /\ L.associative = <<>> /\ (L.head > 0 \/ Canonical(L))
         THEN [DropRemoval(L) EXCEPT !.head = @ + j - 1]
    ELSE Compact(Materialized(L), i..j - 1)

\* remove_last builds its index only for canonical lists of hashable values.
WithRemovalIndex(L) ==
    IF /\ ~L.removal.on
       /\ L.associative = <<>>
       /\ Len(L.positional) >= RemoveThreshold
       /\ Canonical(L)
       /\ \A i \in DOMAIN L.positional : L.positional[i] \in Hashable
    THEN [L EXCEPT !.removal =
            [on |-> TRUE,
             at |-> [k \in {L.positional[i] : i \in DOMAIN L.positional} |->
                        SetToSortSeq({i - 1 : i \in {x \in DOMAIN L.positional :
                                                       L.positional[x] = k}}, <)],
             tree |-> [c \in 1..Len(L.positional) |-> 0]]]
    ELSE L

LastPlace(L, k) == LastWhere(ListLen(L), LAMBDA i : Equal(Get(L, i), k))

\* The list after remove_last and what it returned.
RemovedLast(L, k) ==
    LET M == WithRemovalIndex(Materialized(L)) IN
    IF k \in Hashable /\ M.removal.on
    THEN IF k \notin DOMAIN M.removal.at \/ M.removal.at[k] = <<>>
         THEN [list |-> M, out |-> Absent]
         ELSE LET original == Last(M.removal.at[k])
                  current == original - RemovedBefore(M.removal.tree, original) + 1
              IN [list |-> [M EXCEPT
                              !.removal.at[k] = Front(@),
                              !.removal.tree = MarkRemoved(@, original),
                              !.order = Front(@),
                              !.positional = RemoveAt(@, current)],
                  out |-> M.positional[current]]
    ELSE IF LastPlace(M, k) = 0 THEN [list |-> M, out |-> Absent]
    ELSE [list |-> RemoveIndex(M, LastPlace(M, k)), out |-> Get(M, LastPlace(M, k))]

\* subtract_entries: walking from the end, an entry goes while the right-hand
\* side still has a quota for its value.
Subtracted(L, ks) ==
    LET quota(k) == Cardinality({m \in DOMAIN ks : Equal(ks[m], k)})
        later(i) == {j \in i..Len(L.order) : Equal(KeyOf(L, L.order[j]), KeyOf(L, L.order[i]))}
        goes == {i \in L.head + 1..Len(L.order) :
                    Cardinality(later(i)) <= quota(KeyOf(L, L.order[i])) /\ later(i) # {}}
    IN IF goes = {} THEN [list |-> L, out |-> 0]
       ELSE [list |-> Compact(L, goes \cup 1..L.head), out |-> Cardinality(goes)]

SwapIn(L, i, j) ==
    LET M == DropRemoval(Materialized(L)) IN
    [M EXCEPT !.order = [@ EXCEPT ![i] = M.order[j], ![j] = M.order[i]]]

ResizeTo(L, n) ==
    LET grown == FoldLeft(AddTo, L, [i \in 1..(IF n > ListLen(L) THEN n - ListLen(L) ELSE 0)
                                        |-> NullKey])
    IN IF ListLen(grown) > n THEN CutFrom(grown, n + 1, ListLen(grown) + 1) ELSE grown

\* The list after set_key and the value that was replaced.
WithKey(L, k, v) ==
    LET M == DropRemoval(Materialized(L))
        found == FindKey(M, k)
        plain == FirstWhere(Len(M.order), LAMBDA i : M.order[i].kind = "positional"
                                                     /\ Equal(KeyOf(M, M.order[i]), k))
        n == Len(M.associative) + 1
        new(key) == [key |-> key, val |-> v]
    IN IF found # 0
       THEN [list |-> [M EXCEPT !.associative[found].val = v],
             out |-> M.associative[found].val]
       ELSE IF plain # 0
       THEN LET at == M.order[plain].at IN
            [list |-> IndexLast([M EXCEPT
                !.positional = RemoveAt(@, at),
                !.order = [Shift(@, "positional", at) EXCEPT ![plain] = Ass(n)],
                !.associative = Append(@, new(M.positional[at]))]),
             out |-> Absent]
       ELSE [list |-> IndexLast([M EXCEPT !.order = Append(@, Ass(n)),
                                          !.associative = Append(@, new(k))]),
             out |-> Absent]

WithoutKey(L, k) ==
    LET M == DropRemoval(Materialized(L))
        at == Scan(M, k)
    IN IF at = 0 THEN [list |-> M, out |-> Absent]
       ELSE [list |-> RebuildIndex([M EXCEPT
                !.associative = RemoveAt(@, at),
                !.order = Shift(RemoveAt(@, FirstWhere(Len(@), LAMBDA i : M.order[i] = Ass(at))),
                                "associative", at)]),
             out |-> M.associative[at].val]

\* Mutant: the removed prefix is searched too.
HasValueInPrefix(L, k) ==
    \/ FindKey(L, k) # 0
    \/ \E i \in 1..Len(L.positional) : Equal(L.positional[i], k)

HasValue(L, k) ==
    \/ FindKey(L, k) # 0
    \/ \E i \in L.head + 1..Len(L.positional) : Equal(L.positional[i], k)

FindPosition(L, k, i, j) ==
    IF \E n \in i..j - 1 : Equal(Get(L, n), k)
    THEN Min({n \in i..j - 1 : Equal(Get(L, n), k)}) ELSE 0

\* Mutant: the range is taken from the storage without the prefix offset.
CopyRangeUnshifted(L, i, j) ==
    LET copied(C, e) == IF e.val = Absent THEN AddTo(C, e.key) ELSE WithKey(C, e.key, e.val).list
    IN FoldLeft(copied, Empty, SubSeq(Entries([L EXCEPT !.head = 0]), i, j - 1))

\* copy_range enters the entries one by one into a new list.
CopyRange(L, i, j) ==
    LET copied(C, e) == IF e.val = Absent THEN AddTo(C, e.key) ELSE WithKey(C, e.key, e.val).list
    IN FoldLeft(copied, Empty, SubSeq(Entries(L), i, j - 1))

\* snapshot_list_entries followed by restore_list_entries.
Restored(L) ==
    LET s == Entries(L)
        before(i, plain) == {j \in 1..i : (s[j].val = Absent) = plain}
        picked(plain) == SelectSeq(s, LAMBDA e : (e.val = Absent) = plain)
    IN RebuildIndex([Empty EXCEPT
            !.positional = [i \in DOMAIN picked(TRUE) |-> picked(TRUE)[i].key],
            !.associative = picked(FALSE),
            !.order = [i \in DOMAIN s |->
                IF s[i].val = Absent THEN Pos(Cardinality(before(i, TRUE)))
                ELSE Ass(Cardinality(before(i, FALSE)))]])
-----------------------------------------------------------------------------
(* The machine: any sequence of operations on one list.                    *)

Does(op, L, result) == list' = L /\ last' = <<op, result>>

Init == list = Empty /\ last = <<"new", Absent>>

\* The positions an index argument may name without an error.
Places == 1..ListLen(list)
Boundaries == 1..ListLen(list) + 1

HasRoom == Len(list.order) < MaxLen

Add(k) == HasRoom /\ Does("add", AddTo(list, k), ListLen(list) + 1)
Set(i, k) == Does("set", SetAt(list, i, k), Get(list, i))
RemovePlace(i) == Does("remove", RemoveIndex(list, i), Get(list, i))
Insert(i, k) == HasRoom /\ Does("insert", InsertTo(list, i, k), i)
CutRange(i, j) == Does("cut", CutFrom(list, i, j), IF i < j THEN j - i ELSE 0)
Extend(ks) == Len(list.order) + Len(ks) <= MaxLen
              /\ Does("extend", FoldLeft(AddTo, list, ks), ListLen(list) + Len(ks))
RemoveFirstEqual(k) ==
    LET i == FirstWhere(ListLen(list), LAMBDA n : Equal(Get(list, n), k)) IN
    IF i = 0 THEN Does("remove_first", list, Absent)
    ELSE Does("remove_first", RemoveIndex(list, i), Get(list, i))
RemoveLast(k) == LET r == RemovedLast(list, k) IN Does("remove_last", r.list, r.out)
Subtract(ks) == LET r == Subtracted(list, ks) IN Does("subtract", r.list, r.out)
Swap(i, j) == Does("swap", SwapIn(list, i, j), Absent)
Resize(n) == n + list.head <= MaxLen /\ Does("resize", ResizeTo(list, n), Absent)
SetKey(k, v) == HasRoom /\ LET r == WithKey(list, k, v) IN Does("set_key", r.list, r.out)
RemoveKey(k) == LET r == WithoutKey(list, k) IN Does("remove_key", r.list, r.out)

\* An index outside the list is refused: by set, cut_range and the readers at
\* once, by insert and swap after the prefix was materialized, by remove after
\* the removal index was dropped too.
BadIndex ==
    /\ list' \in {list, Materialized(list), DropRemoval(Materialized(list))}
    /\ UNCHANGED last

\* compact_and_measure_for_gc: the prefix is dropped when it is large, the
\* removal index when the storage is not shared with a copy of the list.
Collect(large, shared) ==
    LET M == IF large /\ list.head > 0
             THEN IF shared THEN DropRemoval(MaterializePrefix(list)) ELSE MaterializePrefix(list)
             ELSE list
        alone == ~shared \/ (large /\ list.head > 0)
    IN list' = (IF alone THEN DropRemoval(M) ELSE M) /\ UNCHANGED last

SaveAndRestore == list' = Restored(list) /\ UNCHANGED last

Next ==
    \/ \E k \in Keys : Add(k) \/ RemoveFirstEqual(k) \/ RemoveLast(k) \/ RemoveKey(k)
    \/ \E i \in Places, k \in Keys : Set(i, k)
    \/ \E i \in Boundaries, k \in Keys : Insert(i, k)
    \/ \E i \in Places : RemovePlace(i)
    \/ \E i, j \in Boundaries : CutRange(i, j)
    \/ \E i, j \in Places : Swap(i, j)
    \/ \E k, l \in Keys : Extend(<<k, l>>) \/ Subtract(<<k>>) \/ Subtract(<<k, l>>)
    \/ \E n \in 0..MaxLen : Resize(n)
    \/ \E k \in Keys, v \in Items : SetKey(k, v)
    \/ BadIndex
    \/ \E large, shared \in BOOLEAN : Collect(large, shared)
    \/ SaveAndRestore

Spec == Init /\ [][Next]_vars
-----------------------------------------------------------------------------
(* Properties.                                                             *)

Refs(L, kind) == {L.order[i].at : i \in {j \in DOMAIN L.order : L.order[j].kind = kind}}

\* The order names every cell of the two vectors exactly once, a removed prefix
\* or a removal index exists only for plain values in storage order and never
\* both, and an index of the associations exists from the threshold on.
StorageSound ==
    /\ Refs(list, "positional") = DOMAIN list.positional
    /\ Refs(list, "associative") = DOMAIN list.associative
    /\ Len(list.order) = Len(list.positional) + Len(list.associative)
    /\ list.head > 0 \/ list.removal.on => list.associative = <<>> /\ Canonical(list)
    /\ list.head > 0 => ~list.removal.on /\ list.head < Len(list.order)
    /\ list.index.on <=> Len(list.associative) >= IndexThreshold

\* The hash index answers as a scan of the associations does, and no key is
\* associated twice.
KeyIndexAgrees ==
    /\ \A k \in Keys : FindKey(list, k) = Scan(list, k)
    /\ \A i, j \in DOMAIN list.associative :
            Equal(list.associative[i].key, list.associative[j].key) => i = j

\* The stored positions of the removal index, less what the Fenwick tree counts
\* as removed, are where the values are now.
RemovalIndexAgrees ==
    list.removal.on =>
        \A k \in DOMAIN list.removal.at :
            LET at == list.removal.at[k] IN
            {at[i] - RemovedBefore(list.removal.tree, at[i]) + 1 : i \in DOMAIN at}
                = {i \in DOMAIN list.positional : list.positional[i] = k}

(* Whatever sequence of edits a list has seen, its two hidden indexes       *)
(* answer as a scan of its storage would, collisions of the 64-bit hash    *)
(* included, and the storage they point into is sound: every expect and    *)
(* every CorruptListStorage error of DmList rests on this.                 *)
IndexAgrees == StorageSound /\ KeyIndexAgrees /\ RemovalIndexAgrees

(* contains and find_position say of a value what the entries say,         *)
(* whatever prefix of the storage is logically removed.                    *)
ReadersAgree ==
    \A k \in Keys :
        LET places == {i \in 1..ListLen(list) : Equal(Entries(list)[i].key, k)} IN
        /\ HasValue(list, k) <=> places # {}
        /\ FindPosition(list, k, 1, ListLen(list) + 1) = IF places = {} THEN 0 ELSE Min(places)

(* A plain entry of a range stands before an association of its key. *)
Shadowed(s) == \E i, j \in DOMAIN s : /\ i < j
                                       /\ Equal(s[i].key, s[j].key)
                                       /\ s[i].val = Absent
                                       /\ s[j].val # Absent

(* copy_range copies the entries of the range, except that a plain entry   *)
(* before an association of its key is merged with it: the copy is then    *)
(* shorter than the range.  This is exactly when.                          *)
CopyIsFaithful ==
    \A i, j \in 1..ListLen(list) + 1 :
        LET range == SubSeq(Entries(list), i, j - 1)
            copy == Entries(CopyRange(list, i, j))
        IN IF Shadowed(range) THEN Len(copy) < Len(range) ELSE copy = range

(* Every operation, with its result, is the operation of ListSpec on the   *)
(* entries; what the storage does on the side is invisible.                *)
Abstract == INSTANCE ListSpec WITH entries <- Entries(list)
ImplementsList == Abstract!Spec
=============================================================================
