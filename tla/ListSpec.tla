------------------------------ MODULE ListSpec ------------------------------
(***************************************************************************)
(* What a DM list promises, without the storage that makes it fast: one    *)
(* sequence of entries in iteration order.  An entry has a key and, when   *)
(* it is associative, a value.  Every operation is what the comments of    *)
(* DmList in dm-value say it does, stated on that sequence; `last` is the  *)
(* operation's name and what it returned.                                  *)
(***************************************************************************)
EXTENDS Integers, SequencesExt

CONSTANTS
    Keys,       \* the values that entries are made of
    Items,      \* the values that associations map to
    NaNs,       \* values that are not equal to themselves
    NullKey,    \* DM null, one of Keys
    Absent,     \* no value, no result
    MaxLen      \* bound on the length of a list in the model

VARIABLES
    entries,    \* the list, in iteration order
    last        \* <<operation, result>> of the last call

vars == <<entries, last>>

Entry == [key : Keys, val : Items \cup {Absent}]

Plain(k) == [key |-> k, val |-> Absent]

\* Value::semantic_eq: a NaN equals nothing.
SameValue(a, b) == a = b /\ a \notin NaNs

At(s, k) == {i \in 1..Len(s) : SameValue(s[i].key, k)}
Assoc(s, k) == {i \in At(s, k) : s[i].val # Absent}
Least(S) == CHOOSE i \in S : \A j \in S : i <= j
Greatest(S) == CHOOSE i \in S : \A j \in S : j <= i

Cut(s, from, to) == SubSeq(s, 1, from - 1) \o SubSeq(s, to, Len(s))
PutAt(s, i, e) == SubSeq(s, 1, i - 1) \o <<e>> \o SubSeq(s, i, Len(s))
Taken(s, k) == IF At(s, k) = {} THEN s
               ELSE Cut(s, Greatest(At(s, k)), Greatest(At(s, k)) + 1)

\* Subtraction removes, for each value on the right, the last equal entry.
Minus(s, ks) == FoldLeft(Taken, s, ks)

\* A key is associated where it is associated already, else at its first
\* plain occurrence, else at a new entry at the end.
Associate(s, k, v) ==
    IF Assoc(s, k) # {} THEN [s EXCEPT ![Least(Assoc(s, k))].val = v]
    ELSE IF At(s, k) # {} THEN [s EXCEPT ![Least(At(s, k))].val = v]
    ELSE Append(s, [key |-> k, val |-> v])

Returns(op, result) == last' = <<op, result>>

Init == entries = <<>> /\ last = <<"new", Absent>>

Add(k) == /\ entries' = Append(entries, Plain(k))
          /\ Returns("add", Len(entries) + 1)

Set(i, k) == /\ i \in 1..Len(entries)
             /\ entries' = [entries EXCEPT ![i] = Plain(k)]
             /\ Returns("set", entries[i].key)

RemovePlace(i) == /\ i \in 1..Len(entries)
             /\ entries' = Cut(entries, i, i + 1)
             /\ Returns("remove", entries[i].key)

RemoveLast(k) ==
    /\ entries' = Taken(entries, k)
    /\ Returns("remove_last",
               IF At(entries, k) = {} THEN Absent ELSE entries[Greatest(At(entries, k))].key)

Subtract(ks) == /\ entries' = Minus(entries, ks)
                /\ Returns("subtract", Len(entries) - Len(entries'))

Insert(i, k) == /\ i \in 1..Len(entries) + 1
                /\ entries' = PutAt(entries, i, Plain(k))
                /\ Returns("insert", i)

CutRange(i, j) ==
    /\ {i, j} \subseteq 1..Len(entries) + 1
    /\ entries' = IF i < j THEN Cut(entries, i, j) ELSE entries
    /\ Returns("cut", Len(entries) - Len(entries'))

Extend(ks) == /\ entries' = entries \o [i \in DOMAIN ks |-> Plain(ks[i])]
              /\ Returns("extend", Len(entries'))

RemoveFirstEqual(k) ==
    /\ entries' = IF At(entries, k) = {} THEN entries
                  ELSE Cut(entries, Least(At(entries, k)), Least(At(entries, k)) + 1)
    /\ Returns("remove_first",
               IF At(entries, k) = {} THEN Absent ELSE entries[Least(At(entries, k))].key)

Swap(i, j) == /\ {i, j} \subseteq 1..Len(entries)
              /\ entries' = [entries EXCEPT ![i] = entries[j], ![j] = entries[i]]
              /\ Returns("swap", Absent)

Resize(n) ==
    /\ entries' = [i \in 1..n |-> IF i <= Len(entries) THEN entries[i] ELSE Plain(NullKey)]
    /\ Returns("resize", Absent)

SetKey(k, v) ==
    /\ entries' = Associate(entries, k, v)
    /\ Returns("set_key", IF Assoc(entries, k) = {} THEN Absent
                          ELSE entries[Least(Assoc(entries, k))].val)

RemoveKey(k) ==
    /\ entries' = IF Assoc(entries, k) = {} THEN entries
                  ELSE Cut(entries, Least(Assoc(entries, k)), Least(Assoc(entries, k)) + 1)
    /\ Returns("remove_key", IF Assoc(entries, k) = {} THEN Absent
                             ELSE entries[Least(Assoc(entries, k))].val)

Next ==
    \/ \E k \in Keys : Add(k) \/ RemoveFirstEqual(k) \/ RemoveLast(k) \/ RemoveKey(k)
    \/ \E i \in 1..MaxLen, k \in Keys : Set(i, k) \/ Insert(i, k)
    \/ \E i \in 1..MaxLen : RemovePlace(i)
    \/ \E i \in 1..MaxLen + 1, j \in 1..MaxLen + 1 : CutRange(i, j) \/ Swap(i, j)
    \/ \E k, l \in Keys : Extend(<<k, l>>) \/ Subtract(<<k>>) \/ Subtract(<<k, l>>)
    \/ \E n \in 0..MaxLen : Resize(n)
    \/ \E k \in Keys, v \in Items : SetKey(k, v)

Spec == Init /\ [][Next]_vars
=============================================================================
