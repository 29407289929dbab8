------------------------------ MODULE ListOps ------------------------------
(***************************************************************************)
(* The list operators and methods of DM (crates/dm-vm/src/builtins/lists.rs)*)
(* on the storage of DmList.  The binary operators build a new list and    *)
(* the compound ones change the left one by other means, Remove and the -= *)
(* operator subtract by different algorithms, and the methods turn the     *)
(* indices of DM code into the boundaries of the storage.                  *)
(***************************************************************************)
EXTENDS DmList

(* What list_operator_snapshot takes from a list: each key with what is    *)
(* associated with it, wherever in the list that association stands.       *)
Snapshot(L) ==
    [i \in 1..ListLen(L) |->
        LET at == FindKey(L, Get(L, i)) IN
        [key |-> Get(L, i), val |-> IF at = 0 THEN Absent ELSE L.associative[at].val]]

\* add_operator_entry; an alist keeps the entry of a key it has.
AddEntry(L, e, onlyIfAbsent, alist) ==
    IF (onlyIfAbsent \/ alist) /\ HasValue(L, e.key) THEN L
    ELSE IF e.val = Absent THEN AddTo(L, e.key)
    ELSE WithKey(L, e.key, e.val).list

AddEntries(L, s, onlyIfAbsent, alist) ==
    FoldLeft(LAMBDA M, e : AddEntry(M, e, onlyIfAbsent, alist), L, s)

\* remove_all_operator_matches: remove_last until it finds nothing more.
WithoutAll(L, k) ==
    LET removal[n \in 0..ListLen(L)] ==
            IF n = 0 THEN L ELSE RemovedLast(removal[n - 1], k).list
    IN removal[ListLen(L)]

HasEntry(s, k) == \E i \in DOMAIN s : Equal(s[i].key, k)
NotIn(s, t) == SelectSeq(s, LAMBDA e : ~HasEntry(t, e.key))
KeysOf(s) == [i \in DOMAIN s |-> s[i].key]

Intersected(L, s) ==
    FoldLeft(LAMBDA M, e : WithoutAll(M, e.key), L, NotIn(Snapshot(L), s))

(* execute_list_binary_operator: the list that L op s allocates. *)
Binary(op, L, s, alist) ==
    CASE op = "+" -> AddEntries(L, s, FALSE, alist)
      [] op = "-" -> Subtracted(L, KeysOf(s)).list
      [] op = "|" -> AddEntries(AddEntries(Empty, Snapshot(L), TRUE, alist), s, TRUE, alist)
      [] op = "&" -> Intersected(L, s)
      [] op = "^" -> AddEntries(AddEntries(Empty, NotIn(Snapshot(L), s), TRUE, alist),
                                NotIn(s, Snapshot(L)), TRUE, alist)

(* execute_list_compound_operator: what L op= s leaves in L. *)
Compound(op, L, s, alist) ==
    CASE op = "+" -> AddEntries(L, s, FALSE, alist)
      [] op = "-" -> Subtracted(L, KeysOf(s)).list
      [] op = "|" -> AddEntries(L, s, TRUE, alist)
      [] op = "&" -> Intersected(L, s)
      [] op = "^" -> FoldLeft(LAMBDA M, e : IF HasEntry(Snapshot(L), e.key)
                                            THEN WithoutAll(M, e.key)
                                            ELSE AddEntry(M, e, TRUE, alist),
                              L, s)

(* list_remove_once with plain arguments. *)
RemoveMethod(L, ks) == FoldLeft(LAMBDA M, k : RemovedLast(M, k).list, L, ks)

(* splice_boundary: an index counts from the end when it is negative, and  *)
(* is clamped to the list.                                                 *)
SpliceBoundary(n, len, zeroIsEnd) ==
    LET limit == len + 1
        from == IF n = 0 /\ zeroIsEnd THEN limit ELSE IF n < 0 THEN limit + n ELSE n
    IN Min({limit, Max({1, from})})

(* Mutant: boundaries the wrong way round are not exchanged. *)
SpliceUnordered(L, from, to, ks) ==
    LET cut == CutFrom(L, SpliceBoundary(from, ListLen(L), FALSE),
                          SpliceBoundary(to, ListLen(L), TRUE))
        index == Min({SpliceBoundary(from, ListLen(L), FALSE), ListLen(cut) + 1})
    IN FoldLeft(LAMBDA M, n : InsertTo(M, index + n - 1, ks[n]), cut, [n \in DOMAIN ks |-> n])

(* list_splice: boundaries the wrong way round are exchanged; then the     *)
(* range is cut and the values are inserted.                               *)
Splice(L, from, to, ks) ==
    LET b == {SpliceBoundary(from, ListLen(L), FALSE), SpliceBoundary(to, ListLen(L), TRUE)}
        cut == CutFrom(L, Min(b), Max(b))
        index == Min({Min(b), ListLen(cut) + 1})
    IN FoldLeft(LAMBDA M, n : InsertTo(M, index + n - 1, ks[n]), cut, [n \in DOMAIN ks |-> n])
-----------------------------------------------------------------------------
(* Right-hand sides: one value, or the snapshot of a list of two entries.  *)
RightSides ==
    LET entry == {e \in [key : Keys, val : Items \cup {Absent}] :
                    e.key \in NaNs => e.val = Absent}
    IN {<<[key |-> k, val |-> Absent]>> : k \in Keys} \cup {<<d, e>> : d, e \in entry}

NaNAssociated(L) == \E i \in DOMAIN L.associative : L.associative[i].key \in NaNs

Repeats(s) == \E i, j \in DOMAIN s : i < j /\ Equal(s[i].key, s[j].key)

\* On a list that holds no value twice, an operator and its compound form leave
\* the same entries in the same order, although one builds a new list and the
\* other edits the left one.  What is associated with a NaN cannot be looked up,
\* so the new lists of | and ^ lose it.
CompoundAgrees ==
    \A op \in {"+", "-", "|", "&", "^"}, s \in RightSides :
        ~Repeats(Entries(list)) /\ ~NaNAssociated(list) =>
            Entries(Binary(op, list, s, FALSE)) = Entries(Compound(op, list, s, FALSE))

\* Remove(), which uses the removal index, and -=, which counts quotas, take the
\* same entries away.
RemoveIsSubtract ==
    \A k, l \in Keys :
        Entries(RemoveMethod(list, <<k, l>>)) = Entries(Subtracted(list, <<k, l>>).list)

\* Whatever the indices, Splice replaces a range by the new values: what stood
\* before and behind it is untouched.
SpliceIsLocal ==
    \A from, to \in -MaxLen - 1 .. MaxLen + 2, k \in Keys :
        LET old == Entries(list)
            new == Entries(Splice(list, from, to, <<k, k>>))
            front == SpliceBoundary(from, Len(old), FALSE)
            back == SpliceBoundary(to, Len(old), TRUE)
        IN new = SubSeq(old, 1, Min({front, back}) - 1)
                    \o [n \in 1..2 |-> [key |-> k, val |-> Absent]]
                    \o SubSeq(old, Max({front, back}), Len(old))

(* In every list the edits can reach, two pieces of code written for one   *)
(* meaning agree: + and +=, - and -=, | and |=, & and &=, ^ and ^= on a    *)
(* list without repeats, Remove() and -=, and Splice with the plain        *)
(* replacement of a range, for indices of either sign and order.           *)
OperatorsAgree == CompoundAgrees /\ RemoveIsSubtract /\ SpliceIsLocal
=============================================================================
