------------------------------ MODULE Contents ------------------------------
(***************************************************************************)
(* Where every atom of the world is: the loc field of turfs and movables,  *)
(* the contents list of whatever holds them, and the coordinate index of   *)
(* the turfs.  The three are redundant and kept in step by hand, by the    *)
(* moves of dm-vm's builtins/lists.rs and builtins/spatial.rs and by       *)
(* execution/world_geometry.rs.                                            *)
(*                                                                         *)
(* An area's list holds its turfs and what lies on them.  A turf that      *)
(* leaves an area is not taken out of the list of the area at once: it is  *)
(* queued in pending_area_uncontain and subtracted in bulk when the list   *)
(* is next flushed.                                                        *)
(*                                                                         *)
(* A contents list is modelled as the number of times it names each atom:  *)
(* the order of its entries is DmList's subject.  Handles are generational *)
(* (Arena), so a destroyed atom is never taken for a later one; a list may *)
(* name it all the same, since only qdel takes an atom out of the lists    *)
(* before it destroys it, and del does not.                                *)
(***************************************************************************)
EXTENDS Integers, FiniteSets

CONSTANTS
  Area,      \* areas, never destroyed
  Turf,      \* handles turfs are allocated from
  Movable,   \* /obj and /mob datums
  None,      \* the null value
  SpaceArea, \* the area named by world.area
  MaxX       \* bound: the widest world, one row of cells

ASSUME ContentsAssumption ==
  /\ SpaceArea \in Area
  /\ MaxX \in Nat \ {0}
  /\ MaxX =< Cardinality(Turf)
  /\ Area \cap Turf = {} /\ Area \cap Movable = {} /\ Turf \cap Movable = {}
  /\ None \notin Area \cup Turf \cup Movable

Atom == Turf \cup Movable
Holder == Area \cup Turf \cup Movable
Cell == 1 .. MaxX

VARIABLES
  born,       \* handles allocated so far
  alive,      \* turfs and movables not destroyed
  loc,        \* the loc field; history once the datum is destroyed: None, or
              \* the holder del found it in, which only the history below reads
  listed,     \* holders whose contents list is materialized
  contents,   \* how often each list names each atom
  pending,    \* pending_area_uncontain, per area list
  maxx,       \* world.maxx
  worldTurf,  \* world_turfs and its dense lookup, by cell
  worldArea,  \* world_areas, by cell
  stranded    \* history: movables whose turf was destroyed under them

vars == <<born, alive, loc, listed, contents, pending,
          maxx, worldTurf, worldArea, stranded>>

Nothing == [x \in Atom |-> 0]

ContentsTypeOK ==
  /\ alive \subseteq born /\ born \subseteq Atom
  /\ loc \in [Atom -> Holder \cup {None}]
  /\ listed \subseteq Holder
  /\ contents \in [Holder -> [Atom -> Nat]]
  /\ pending \in [Area -> [Atom -> Nat]]
  /\ maxx \in Cell
  /\ worldTurf \in [Cell -> Turf \cup {None}]
  /\ worldArea \in [Cell -> Area \cup {None}]
  /\ stranded \subseteq Movable

-----------------------------------------------------------------------------
(* Lists of atoms, as multisets.                                           *)

\* DmList::add
Plus(c, h, x) == [c EXCEPT ![h][x] = @ + 1]

\* DmList::remove_first: no match, no change
Minus(c, h, x) == [c EXCEPT ![h][x] = IF @ > 0 THEN @ - 1 ELSE 0]

\* A plausible slip: every entry of a queued atom goes, not one per departure
FlushedEvery(c, p, a) ==
  [c EXCEPT ![a] = [x \in Atom |-> IF p[a][x] > 0 THEN 0 ELSE @[x]]]

\* DmList::subtract_entries with the queued atoms of one area
Flushed(c, p, a) ==
  [c EXCEPT ![a] = [x \in Atom |-> IF @[x] > p[a][x] THEN @[x] - p[a][x] ELSE 0]]

\* The list of h, if it has one: the field of a destroyed holder reads as an error
HasList(h) == h # None /\ h \in listed

-----------------------------------------------------------------------------
(* Moves.                                                                  *)

EnclosingArea(l) == IF l \in Turf \cap alive THEN loc[l] ELSE None

\* A plausible slip: an atom sent to null stays in the list it left
SynchronizedIntoHolder(x, old, new) ==
  LET oldArea == EnclosingArea(old)
      newArea == EnclosingArea(new)
      left    == IF new # None /\ HasList(old) THEN Minus(contents, old, x) ELSE contents
      entered == IF new = None THEN left ELSE Plus(left, new, x)
      outOf   == IF HasList(oldArea) THEN Minus(entered, oldArea, x) ELSE entered
      into    == IF HasList(newArea) THEN Plus(outOf, newArea, x) ELSE outOf
  IN  IF oldArea = newArea THEN entered ELSE into

\* synchronize_moved_atom_contents: the old holder, the new holder, then the
\* lists of the areas around them when these differ
Synchronized(x, old, new) ==
  LET oldArea == EnclosingArea(old)
      newArea == EnclosingArea(new)
      left    == IF HasList(old) THEN Minus(contents, old, x) ELSE contents
      entered == IF new = None THEN left ELSE Plus(left, new, x)
      outOf   == IF HasList(oldArea) THEN Minus(entered, oldArea, x) ELSE entered
      into    == IF HasList(newArea) THEN Plus(outOf, newArea, x) ELSE outOf
  IN  IF oldArea = newArea THEN entered ELSE into

\* The store of loc, the lists, and ensure_contents on the new holder
MoveTo(m, h) ==
  /\ loc' = [loc EXCEPT ![m] = h]
  /\ contents' = IF loc[m] = h THEN contents ELSE Synchronized(m, loc[m], h)
  /\ listed' = IF loc[m] = h THEN listed ELSE listed \cup ({h} \ {None})
  /\ UNCHANGED <<born, alive, pending, maxx, worldTurf, worldArea, stranded>>

\* A plausible slip: only the container itself is compared with the movable
UpwardOnce(c) == {c}

\* The movables among the containers the cycle check of move_movable_to_atom
\* visits from c up; above an area or a turf, and in a destroyed container, whose
\* loc cannot be read, there are none
Upward(c) ==
  LET closed(S) == \A x \in S \cap alive : loc[x] \in Movable => loc[x] \in S
  IN  {x \in Movable : \A S \in SUBSET Movable :
         (c \in Movable => c \in S) /\ closed(S) => x \in S}

\* move_movable_to_turf, reached by an assignment of loc, by turf.contents.Add
\* and by step()
MoveToTurf(m, t) == {m, t} \subseteq alive /\ MoveTo(m, t)

\* move_movable_to_atom: a movable never ends up inside itself
MoveToAtom(m, h) ==
  /\ m \in alive
  /\ h \in Area \cup alive
  /\ m \notin Upward(h)
  /\ MoveTo(m, h)

\* loc = null
MoveToNull(m) == m \in alive /\ MoveTo(m, None)

\* note_turf_area: the cell of a turf is known by its coordinates
NoteTurfArea(t, a) ==
  worldArea' = [c \in Cell |-> IF worldTurf[c] = t THEN a ELSE worldArea[c]]

\* move_turf_to_area (area.contents.Add, the map loader): the departure is
\* queued, the arrival applied at once, after the destination's own queue
MoveTurfToArea(t, a) ==
  LET old     == loc[t]
      carried == [x \in Atom |-> IF x = t THEN 1 ELSE contents[t][x]]
      queued  == IF HasList(old)
                 THEN [pending EXCEPT ![old] = [x \in Atom |-> @[x] + carried[x]]]
                 ELSE pending
      flushed == Flushed(contents, queued, a)
  IN  /\ t \in alive
      /\ old # a
      /\ pending' = [queued EXCEPT ![a] = Nothing]
      /\ contents' = [flushed EXCEPT ![a] = [x \in Atom |->
            IF carried[x] > 0 /\ @[x] = 0 THEN 1 ELSE @[x]]]
      /\ listed' = listed \cup {a}
      /\ loc' = [loc EXCEPT ![t] = a]
      /\ NoteTurfArea(t, a)
      /\ UNCHANGED <<born, alive, maxx, worldTurf, stranded>>

-----------------------------------------------------------------------------
(* Destruction and geometry.                                               *)

Drop(c, x) == [c EXCEPT ![x] = Nothing]

\* qdel: unregister_runtime_datum, then destroy_datum
Qdel(m) ==
  /\ m \in alive
  /\ contents' = Drop(Synchronized(m, loc[m], None), m)
  /\ alive' = alive \ {m}
  /\ loc' = [loc EXCEPT ![m] = None]
  /\ listed' = listed \ {m}
  /\ UNCHANGED <<born, pending, maxx, worldTurf, worldArea, stranded>>

\* del, once Del() has run: destroy_datum alone, so that the lists of the
\* holder and of the area go on naming the destroyed movable
Del(m) ==
  /\ m \in alive
  /\ contents' = Drop(contents, m)
  /\ alive' = alive \ {m}
  /\ listed' = listed \ {m}
  /\ UNCHANGED <<born, loc, pending, maxx, worldTurf, worldArea, stranded>>

\* remove_world_cell, for the one cell a shrinking world gives up: the turf
\* leaves its area's list, what lay on it does not
RemoveCell(c) ==
  LET t == worldTurf[c] IN
  /\ contents' = Drop(Minus(contents, worldArea[c], t), t)
  /\ listed' = (listed \cup {worldArea[c]}) \ {t}
  /\ alive' = alive \ {t}
  /\ loc' = [loc EXCEPT ![t] = None]
  /\ worldTurf' = [worldTurf EXCEPT ![c] = None]
  /\ worldArea' = [worldArea EXCEPT ![c] = None]
  /\ stranded' = stranded \cup {m \in Movable : loc[m] = t}

\* resize_world_geometry to one column less
Shrink ==
  /\ maxx > 1
  /\ RemoveCell(maxx)
  /\ maxx' = maxx - 1
  /\ UNCHANGED <<born, pending>>

\* resize_world_geometry to one column more: a fresh turf in world.area's list
Grow ==
  /\ maxx < MaxX
  /\ \E t \in Turf \ born :
       /\ born' = born \cup {t}
       /\ alive' = alive \cup {t}
       /\ loc' = [loc EXCEPT ![t] = SpaceArea]
       /\ contents' = Plus(contents, SpaceArea, t)
       /\ worldTurf' = [worldTurf EXCEPT ![maxx + 1] = t]
       /\ worldArea' = [worldArea EXCEPT ![maxx + 1] = SpaceArea]
  /\ listed' = listed \cup {SpaceArea}
  /\ maxx' = maxx + 1
  /\ UNCHANGED <<pending, stranded>>

\* flush_area_uncontain, before a list method, length(), for-in or "in"
Flush(a) ==
  /\ pending[a] # Nothing
  /\ contents' = Flushed(contents, pending, a)
  /\ pending' = [pending EXCEPT ![a] = Nothing]
  /\ UNCHANGED <<born, alive, loc, listed, maxx, worldTurf, worldArea, stranded>>

\* flush_all_area_uncontain: a scheduler slice, a collection, the end of a map load
FlushAll ==
  /\ \E a \in Area : pending[a] # Nothing
  /\ contents' = [h \in Holder |->
       IF h \in Area THEN Flushed(contents, pending, h)[h] ELSE contents[h]]
  /\ pending' = [a \in Area |-> Nothing]
  /\ UNCHANGED <<born, alive, loc, listed, maxx, worldTurf, worldArea, stranded>>

\* A world of one column after the map is allocated: its turf lies in SpaceArea,
\* whose list the allocation filled; no other list exists yet
Init ==
  /\ \E t \in Turf :
       /\ born = {t} \cup Movable
       /\ loc = [x \in Atom |-> IF x = t THEN SpaceArea ELSE None]
       /\ contents = [h \in Holder |->
            IF h = SpaceArea THEN [Nothing EXCEPT ![t] = 1] ELSE Nothing]
       /\ worldTurf = [c \in Cell |-> IF c = 1 THEN t ELSE None]
       /\ worldArea = [c \in Cell |-> IF c = 1 THEN SpaceArea ELSE None]
  /\ alive = born
  /\ listed = {SpaceArea}
  /\ pending = [a \in Area |-> Nothing]
  /\ maxx = 1
  /\ stranded = {}

Next ==
  \/ \E m \in Movable : \/ \E t \in Turf : MoveToTurf(m, t)
                        \/ \E h \in Area \cup Movable : MoveToAtom(m, h)
                        \/ MoveToNull(m)
                        \/ Qdel(m)
                        \/ Del(m)
  \/ \E t \in Turf, a \in Area : MoveTurfToArea(t, a)
  \/ \E a \in Area : Flush(a)
  \/ FlushAll
  \/ Shrink
  \/ Grow

Spec == Init /\ [][Next]_vars

-----------------------------------------------------------------------------
(* Properties.                                                             *)

\* What a list will name once its queued departures are applied
Effective(a, x) == contents[a][x] - pending[a][x]

Times(P) == IF P THEN 1 ELSE 0

\* Whether x belongs in the list of area a: it lies there, or on a turf of it,
\* or del destroyed it there
BelongsIn(a, x) == loc[x] = a \/ EnclosingArea(loc[x]) = a

\* The contents list of a turf or of a movable names each movable whose loc it
\* is exactly once, each one that del destroyed in it exactly once for good,
\* and nothing else, after any sequence of moves, deletions and resizes
\* (synchronize_moved_atom_contents updates the two by hand, execute_del
\* updates neither).
ContentsMirrorLoc ==
  \A h \in (Turf \cup Movable) \cap alive, x \in Atom :
    contents[h][x] = Times(loc[x] = h)

\* No movable is inside itself, directly or through what it holds: every group
\* of movables has one whose holder is outside the group, so the cycle check of
\* move_movable_to_atom is enough for every order of moves.
NeverInsideItself ==
  \A held \in SUBSET (Movable \cap alive) :
    held # {} => \E m \in held : loc[m] \notin held

\* Once its queue is applied, an area's list names exactly its turfs and what
\* lies on them or was destroyed by del there, once each.
ListsAgree ==
  \A a \in Area, x \in Atom :
    /\ Effective(a, x) >= Times(BelongsIn(a, x))
    /\ x \notin stranded => Effective(a, x) = Times(BelongsIn(a, x))

\* The coordinate index answers for every cell of the world, with a live turf
\* and the area that turf is in.
GeometryAgrees ==
  \A c \in Cell :
    IF c > maxx THEN worldTurf[c] = None /\ worldArea[c] = None
    ELSE worldTurf[c] \in alive /\ worldArea[c] = loc[worldTurf[c]]

\* The three places that know which area a turf is in (its loc, the lists of the
\* areas and the coordinate index) agree, however queued departures
\* (move_turf_to_area), eager removals (remove_first), returns before the flush
\* and resizes interleave: what del destroyed moves with its turf.  Only a
\* movable whose turf a resize destroyed stays behind in an area's list.
AreasAgree == ListsAgree /\ GeometryAgrees
=============================================================================
