---------------------------- MODULE ContentsProofs ----------------------------
(***************************************************************************)
(* Proofs about where the atoms of the world are, for any areas, turfs and *)
(* movables and any width of the world.                                    *)
(***************************************************************************)
EXTENDS Contents, TLAPS

(* A destroyed atom, and a handle not allocated yet, holds nothing and has *)
(* no list.                                                                *)
DeadHoldNothing == \A h \in Atom \ alive : contents[h] = Nothing /\ h \notin listed

(* Whatever is named in a list is named in one that exists.                *)
NamedInLists ==
  \A h \in Holder, x \in Atom : contents[h][x] # 0 => h \in listed

(* A turf is in an area for as long as it exists and nowhere otherwise,    *)
(* and no loc names a handle not allocated yet.                            *)
WellPlaced ==
  /\ \A t \in Turf \cap alive : loc[t] \in Area
  /\ \A t \in Turf \ alive : loc[t] = None
  /\ \A x \in Atom : loc[x] \in Area \cup born \cup {None}
  /\ Movable \subseteq born

(* No turf is in two cells.                                                *)
CellsDistinct ==
  \A c, d \in Cell : worldTurf[c] = worldTurf[d] /\ worldTurf[c] # None => c = d

(* The inductive invariant.                                                *)
ContentsInv ==
  /\ ContentsTypeOK
  /\ DeadHoldNothing
  /\ NamedInLists
  /\ WellPlaced
  /\ CellsDistinct
  /\ ContentsMirrorLoc
  /\ AreasAgree
  /\ NeverInsideItself

Lists == [Holder -> [Atom -> Nat]]
-----------------------------------------------------------------------------
(* The operators on lists.                                                 *)

(* The three kinds of handles and None are different things.               *)
LEMMA Kinds ==
  /\ \A x \in Atom : x \in Holder /\ x # None /\ x \notin Area
  /\ \A x \in Turf : x \in Atom /\ x \notin Movable
  /\ \A x \in Movable : x \in Atom /\ x \notin Turf
  /\ \A a \in Area : a \in Holder /\ a # None /\ a \notin Atom
  /\ \A h \in Holder : h \in Area \/ h \in Atom
  /\ SpaceArea \in Area
BY ContentsAssumption DEF Atom, Holder

(* DmList::add enters one more x in the list of h, and nothing else.       *)
LEMMA PlusAt ==
  ASSUME NEW c \in Lists, NEW h \in Holder, NEW x \in Atom
  PROVE  /\ Plus(c, h, x) \in Lists
         /\ \A g \in Holder, y \in Atom :
              Plus(c, h, x)[g][y] = c[g][y] + Times(g = h /\ y = x)
<1>1. c[h] \in [Atom -> Nat] /\ c[h][x] \in Nat
  BY DEF Lists
<1>2. [c[h] EXCEPT ![x] = @ + 1] \in [Atom -> Nat]
  BY <1>1
<1>3. Plus(c, h, x) = [c EXCEPT ![h] = [c[h] EXCEPT ![x] = @ + 1]]
  BY DEF Plus
<1>4. Plus(c, h, x) \in Lists
  BY <1>2, <1>3 DEF Lists
<1>5. ASSUME NEW g \in Holder, NEW y \in Atom
      PROVE  Plus(c, h, x)[g][y] = c[g][y] + Times(g = h /\ y = x)
  <2>1. c[g] \in [Atom -> Nat] /\ c[g][y] \in Nat
    BY DEF Lists
  <2>2. CASE g = h /\ y = x
    BY <1>1, <1>3, <2>1, <2>2 DEF Lists, Times
  <2>3. CASE g # h
    BY <1>1, <1>3, <2>1, <2>3 DEF Lists, Times
  <2>4. CASE g = h /\ y # x
    BY <1>1, <1>3, <2>1, <2>4 DEF Lists, Times
  <2> QED
    BY <2>2, <2>3, <2>4
<1> QED
  BY <1>4, <1>5

(* DmList::remove_first takes one x out of a list that has one.            *)
LEMMA MinusAt ==
  ASSUME NEW c \in Lists, NEW h \in Holder, NEW x \in Atom, c[h][x] > 0
  PROVE  /\ Minus(c, h, x) \in Lists
         /\ \A g \in Holder, y \in Atom :
              Minus(c, h, x)[g][y] = c[g][y] - Times(g = h /\ y = x)
<1>1. c[h] \in [Atom -> Nat] /\ c[h][x] \in Nat /\ c[h][x] - 1 \in Nat
  BY DEF Lists
<1>2. [c[h] EXCEPT ![x] = c[h][x] - 1] \in [Atom -> Nat]
  BY <1>1
<1>3. Minus(c, h, x) = [c EXCEPT ![h] = [c[h] EXCEPT ![x] = c[h][x] - 1]]
  BY <1>1 DEF Minus
<1>4. Minus(c, h, x) \in Lists
  BY <1>2, <1>3 DEF Lists
<1>5. ASSUME NEW g \in Holder, NEW y \in Atom
      PROVE  Minus(c, h, x)[g][y] = c[g][y] - Times(g = h /\ y = x)
  <2>1. c[g] \in [Atom -> Nat] /\ c[g][y] \in Nat
    BY DEF Lists
  <2>2. CASE g = h /\ y = x
    BY <1>1, <1>3, <2>1, <2>2 DEF Lists, Times
  <2>3. CASE g # h
    BY <1>1, <1>3, <2>1, <2>3 DEF Lists, Times
  <2>4. CASE g = h /\ y # x
    BY <1>1, <1>3, <2>1, <2>4 DEF Lists, Times
  <2> QED
    BY <2>2, <2>3, <2>4
<1> QED
  BY <1>4, <1>5

(* DmList::subtract_entries, when the list names whatever is queued.       *)
LEMMA FlushedAt ==
  ASSUME NEW c \in Lists, NEW p \in [Area -> [Atom -> Nat]], NEW a \in Area,
         \A x \in Atom : c[a][x] >= p[a][x]
  PROVE  /\ Flushed(c, p, a) \in Lists
         /\ \A g \in Holder, y \in Atom :
              Flushed(c, p, a)[g][y] = IF g = a THEN c[a][y] - p[a][y] ELSE c[g][y]
<1> DEFINE rest == [x \in Atom |-> IF c[a][x] > p[a][x] THEN c[a][x] - p[a][x] ELSE 0]
<1>1. a \in Holder
  BY Kinds
<1>2. \A x \in Atom : c[a][x] \in Nat /\ p[a][x] \in Nat
  BY <1>1 DEF Lists
<1>3. \A x \in Atom : rest[x] = c[a][x] - p[a][x] /\ rest[x] \in Nat
  BY <1>2
<1>4. rest \in [Atom -> Nat]
  BY <1>3
<1>5. Flushed(c, p, a) = [c EXCEPT ![a] = rest]
  BY DEF Flushed
<1> HIDE DEF rest
<1> QED
  BY <1>1, <1>3, <1>4, <1>5 DEF Lists

(* An emptied list.                                                        *)
LEMMA DropAt ==
  ASSUME NEW c \in Lists, NEW h \in Holder
  PROVE  /\ Drop(c, h) \in Lists
         /\ Drop(c, h)[h] = Nothing
         /\ \A g \in Holder : g # h => Drop(c, h)[g] = c[g]
BY DEF Drop, Nothing, Lists
-----------------------------------------------------------------------------
(* Moves.                                                                  *)

(* synchronize_moved_atom_contents, in a state where the lists agree with  *)
(* the loc fields: the lists of turfs and movables name x under its new    *)
(* holder only, and the area lists gain and lose one x each where the area *)
(* x is in or on changes.                                                  *)
LEMMA SynchronizedAt ==
  ASSUME ContentsInv, NEW x \in Movable \cap alive,
         NEW new \in Area \cup alive \cup {None}
  PROVE  LET c == Synchronized(x, loc[x], new)
         IN  /\ c \in Lists
             /\ \A h \in Holder, y \in Atom : y # x => c[h][y] = contents[h][y]
             /\ \A h \in Atom \ alive : c[h] = contents[h]
             /\ \A h \in Atom \cap alive : c[h][x] = Times(h = new)
             /\ \A a \in Area : c[a][x] = contents[a][x]
                     - Times(loc[x] = a \/ EnclosingArea(loc[x]) = a)
                     + Times(new = a \/ EnclosingArea(new) = a)
<1> DEFINE old     == loc[x]
           oldArea == EnclosingArea(old)
           newArea == EnclosingArea(new)
           left    == IF HasList(old) THEN Minus(contents, old, x) ELSE contents
           entered == IF new = None THEN left ELSE Plus(left, new, x)
           outOf   == IF HasList(oldArea) THEN Minus(entered, oldArea, x) ELSE entered
           into    == IF HasList(newArea) THEN Plus(outOf, newArea, x) ELSE outOf
           c       == IF oldArea = newArea THEN entered ELSE into
           holds   == old \in Area \cup alive
<1>t. /\ alive \subseteq born /\ born \subseteq Atom
      /\ loc \in [Atom -> Holder \cup {None}]
      /\ contents \in Lists
      /\ pending \in [Area -> [Atom -> Nat]]
      /\ x \in Atom /\ x \in alive /\ x \in Movable
  BY DEF ContentsInv, ContentsTypeOK, Lists, Atom
<1>k. /\ old \in Holder \cup {None}
      /\ new \in Holder \cup {None}
      /\ None \notin Holder
  BY <1>t, Kinds DEF Holder, Atom
<1>a. /\ oldArea \in Area \cup {None}
      /\ newArea \in Area \cup {None}
      /\ oldArea # None => old \in Turf \cap alive /\ oldArea = loc[old]
      /\ newArea # None => new \in Turf \cap alive /\ newArea = loc[new]
  BY DEF EnclosingArea, ContentsInv, WellPlaced
<1>b. \A a \in Area : loc[x] = a \/ EnclosingArea(loc[x]) = a =>
        contents[a][x] >= 1 /\ contents[a][x] \in Nat
  <2> SUFFICES ASSUME NEW a \in Area, loc[x] = a \/ EnclosingArea(loc[x]) = a
               PROVE  contents[a][x] >= 1 /\ contents[a][x] \in Nat
    OBVIOUS
  <2>1. Effective(a, x) >= 1
    BY <1>t DEF ContentsInv, AreasAgree, ListsAgree, BelongsIn, Times
  <2>2. contents[a][x] \in Nat /\ pending[a][x] \in Nat
    BY <1>t, Kinds DEF Lists
  <2> QED
    BY <2>1, <2>2 DEF Effective
<1>c. HasList(old) <=> holds
  <2>1. CASE old \in Area
    BY <1>b, <1>t, <2>1, Kinds DEF ContentsInv, NamedInLists, HasList
  <2>2. CASE old \in Atom /\ old \in alive
    <3>1. contents[old][x] = 1
      BY <1>t, <2>2 DEF ContentsInv, ContentsMirrorLoc, Times, Atom
    <3> QED
      BY <1>t, <2>2, <3>1, Kinds DEF ContentsInv, NamedInLists, HasList
  <2>3. CASE old \in Atom /\ old \notin alive
    BY <2>3, Kinds DEF ContentsInv, DeadHoldNothing, HasList
  <2>4. CASE old = None
    BY <1>t, <2>4, <1>k, Kinds DEF HasList, Holder, Atom
  <2> QED
    BY <1>k, <2>1, <2>2, <2>3, <2>4, Kinds
<1>d. holds => contents[old][x] > 0
  <2>1. CASE old \in Area
    BY <1>b, <2>1
  <2>2. CASE old \in alive
    BY <1>t, <2>2 DEF ContentsInv, ContentsMirrorLoc, Times, Atom
  <2> QED
    BY <2>1, <2>2
<1>e. /\ oldArea # None => HasList(oldArea)
      /\ newArea # None => HasList(newArea)
  <2>1. oldArea # None => HasList(oldArea)
    BY <1>a, <1>b, <1>t, Kinds DEF ContentsInv, NamedInLists, HasList
  <2>2. ASSUME newArea # None
        PROVE  HasList(newArea)
    <3>1. new \in Atom /\ new \in alive /\ newArea = loc[new] /\ newArea \in Area
      BY <1>a, <2>2, Kinds
    <3>2. Effective(newArea, new) >= 1
      BY <3>1 DEF ContentsInv, AreasAgree, ListsAgree, BelongsIn, Times
    <3>3. contents[newArea][new] \in Nat /\ pending[newArea][new] \in Nat
      BY <1>t, <3>1, Kinds DEF Lists
    <3>4. contents[newArea][new] # 0
      BY <3>2, <3>3 DEF Effective
    <3> QED
      BY <3>1, <3>4, Kinds DEF ContentsInv, NamedInLists, HasList
  <2> QED
    BY <2>1, <2>2
<1>n. ~HasList(None)
  BY DEF HasList
<1> HIDE DEF holds
<1>1. /\ left \in Lists
      /\ \A h \in Holder, y \in Atom :
           left[h][y] = contents[h][y] - Times(holds /\ h = old /\ y = x)
  <2>1. CASE holds
    <3>1. old \in Holder
      BY <1>k, <2>1, <1>t, Kinds DEF holds
    <3> QED
      BY <1>t, <1>c, <1>d, <2>1, <3>1, MinusAt
  <2>2. CASE ~holds
    <3>1. \A h \in Holder, y \in Atom : contents[h][y] \in Nat
      BY <1>t DEF Lists
    <3> QED
      BY <1>t, <1>c, <2>2, <3>1 DEF Times
  <2> QED
    BY <2>1, <2>2
<1>2. /\ entered \in Lists
      /\ \A h \in Holder, y \in Atom :
           entered[h][y] = left[h][y] + Times(h = new /\ y = x)
  <2>1. CASE new = None
    <3>1. \A h \in Holder, y \in Atom : left[h][y] \in Nat
      BY <1>1 DEF Lists
    <3> QED
      BY <1>1, <1>k, <2>1, <3>1 DEF Times
  <2>2. CASE new # None
    BY <1>t, <1>1, <1>k, <2>2, PlusAt
  <2> QED
    BY <2>1, <2>2
<1>3. oldArea # None => entered[oldArea][x] > 0
  <2> SUFFICES ASSUME oldArea # None
               PROVE  entered[oldArea][x] > 0
    OBVIOUS
  <2>1. oldArea \in Area /\ oldArea \in Holder /\ oldArea # old
    BY <1>a, Kinds
  <2>2. left[oldArea][x] = contents[oldArea][x] - Times(FALSE)
    BY <1>1, <1>t, <2>1 DEF Times
  <2>3. contents[oldArea][x] >= 1 /\ contents[oldArea][x] \in Nat
    BY <1>b, <2>1
  <2>4. entered[oldArea][x] = left[oldArea][x] + Times(oldArea = new /\ x = x)
    BY <1>2, <1>t, <2>1
  <2> QED
    BY <2>2, <2>3, <2>4 DEF Times
<1> HIDE DEF left, entered
<1>4. /\ outOf \in Lists
      /\ \A h \in Holder, y \in Atom :
           outOf[h][y] = entered[h][y] - Times(h = oldArea /\ y = x)
  <2>1. CASE oldArea = None
    <3>1. \A h \in Holder, y \in Atom : entered[h][y] \in Nat
      BY <1>2 DEF Lists
    <3> QED
      BY <1>2, <1>k, <1>n, <2>1, <3>1 DEF Times
  <2>2. CASE oldArea # None
    <3>1. oldArea \in Holder
      BY <1>a, <2>2, Kinds
    <3> QED
      BY <1>t, <1>2, <1>3, <1>e, <2>2, <3>1, MinusAt
  <2> QED
    BY <2>1, <2>2
<1> HIDE DEF outOf
<1>5. /\ into \in Lists
      /\ \A h \in Holder, y \in Atom :
           into[h][y] = outOf[h][y] + Times(h = newArea /\ y = x)
  <2>1. CASE newArea = None
    <3>1. \A h \in Holder, y \in Atom : outOf[h][y] \in Nat
      BY <1>4 DEF Lists
    <3> QED
      BY <1>4, <1>k, <1>n, <2>1, <3>1 DEF Times
  <2>2. CASE newArea # None
    <3>1. newArea \in Holder
      BY <1>a, <2>2, Kinds
    <3> QED
      BY <1>t, <1>4, <1>e, <2>2, <3>1, PlusAt
  <2> QED
    BY <2>1, <2>2
<1> HIDE DEF into, oldArea, newArea, old
<1>6. \A h \in Holder, y \in Atom : contents[h][y] \in Nat
  BY <1>t DEF Lists
<1>7. c \in Lists
  BY <1>2, <1>5
<1>8. \A h \in Holder :
        c[h][x] = contents[h][x] - Times(holds /\ h = old) + Times(h = new)
                   - Times(h = oldArea) + Times(h = newArea)
  <2> SUFFICES ASSUME NEW h \in Holder
               PROVE  c[h][x] = contents[h][x] - Times(holds /\ h = old)
                         + Times(h = new) - Times(h = oldArea) + Times(h = newArea)
    OBVIOUS
  <2>1. contents[h][x] \in Nat
    BY <1>6, <1>t
  <2>2. /\ left[h][x] = contents[h][x] - Times(holds /\ h = old)
        /\ entered[h][x] = left[h][x] + Times(h = new)
        /\ outOf[h][x] = entered[h][x] - Times(h = oldArea)
        /\ into[h][x] = outOf[h][x] + Times(h = newArea)
    BY <1>1, <1>2, <1>4, <1>5, <1>t DEF Times
  <2>3. CASE oldArea = newArea
    BY <2>1, <2>2, <2>3 DEF Times
  <2>4. CASE oldArea # newArea
    BY <2>1, <2>2, <2>4 DEF Times
  <2> QED
    BY <2>3, <2>4
<1>9. \A h \in Holder, y \in Atom : y # x => c[h][y] = contents[h][y]
  <2> SUFFICES ASSUME NEW h \in Holder, NEW y \in Atom, y # x
               PROVE  c[h][y] = contents[h][y]
    OBVIOUS
  <2>1. contents[h][y] \in Nat
    BY <1>6
  <2>2. /\ left[h][y] = contents[h][y] - Times(FALSE)
        /\ entered[h][y] = left[h][y] + Times(FALSE)
        /\ outOf[h][y] = entered[h][y] - Times(FALSE)
        /\ into[h][y] = outOf[h][y] + Times(FALSE)
    BY <1>1, <1>2, <1>4, <1>5 DEF Times
  <2> QED
    BY <2>1, <2>2 DEF Times
<1>10. \A h \in Atom \ alive : c[h] = contents[h]
  <2> SUFFICES ASSUME NEW h \in Atom, h \notin alive
               PROVE  c[h] = contents[h]
    OBVIOUS
  <2>1. h \in Holder /\ h # new /\ h # oldArea /\ h # newArea /\ ~(holds /\ h = old)
    BY <1>a, Kinds DEF holds
  <2>2. c[h][x] = contents[h][x]
    BY <1>8, <1>6, <1>t, <2>1 DEF Times
  <2>3. \A y \in Atom : c[h][y] = contents[h][y]
    BY <1>9, <2>1, <2>2
  <2>4. c[h] \in [Atom -> Nat] /\ contents[h] \in [Atom -> Nat]
    BY <1>7, <1>t, <2>1 DEF Lists
  <2> HIDE DEF c
  <2> QED
    BY <2>3, <2>4
<1>11. \A h \in Atom \cap alive : c[h][x] = Times(h = new)
  <2> SUFFICES ASSUME NEW h \in Atom, h \in alive
               PROVE  c[h][x] = Times(h = new)
    OBVIOUS
  <2>1. h \in Holder /\ h # oldArea /\ h # newArea /\ (h = old => holds)
    BY <1>a, Kinds DEF holds
  <2>2. contents[h][x] = Times(h = old)
    BY <1>t DEF ContentsInv, ContentsMirrorLoc, Times, Atom, old
  <2> QED
    BY <1>8, <2>1, <2>2 DEF Times
<1>12. ASSUME NEW a \in Area
       PROVE  c[a][x] = contents[a][x] - Times(old = a \/ oldArea = a)
                          + Times(new = a \/ newArea = a)
  <2>1. /\ a \in Holder /\ (a = old => holds)
        /\ ~(a = old /\ a = oldArea)
        /\ ~(a = new /\ a = newArea)
    BY <1>a, Kinds DEF holds
  <2>2. contents[a][x] \in Nat
    BY <1>6, <1>t, <2>1
  <2>3. c[a][x] = contents[a][x] - Times(holds /\ a = old) + Times(a = new)
                   - Times(a = oldArea) + Times(a = newArea)
    BY <1>8, <2>1
  <2> HIDE DEF c
  <2>4. Times(old = a \/ oldArea = a) = Times(holds /\ a = old) + Times(a = oldArea)
    BY <2>1 DEF Times
  <2>5. Times(new = a \/ newArea = a) = Times(a = new) + Times(a = newArea)
    BY <2>1 DEF Times
  <2> QED
    BY <2>2, <2>3, <2>4, <2>5 DEF Times
<1>13. c = Synchronized(x, loc[x], new)
  BY DEF Synchronized, c, into, outOf, entered, left, oldArea, newArea, old
<1> HIDE DEF c
<1> QED
  BY <1>7, <1>9, <1>10, <1>11, <1>12, <1>13 DEF oldArea, newArea, old

LEMMA UnchangedInv == ContentsInv /\ UNCHANGED vars => ContentsInv'
BY DEF ContentsInv, ContentsTypeOK, DeadHoldNothing, NamedInLists, WellPlaced,
       CellsDistinct, ContentsMirrorLoc, AreasAgree, ListsAgree, GeometryAgrees,
       NeverInsideItself, Effective, BelongsIn, EnclosingArea, Times, vars

(* Upward stands for the movables the cycle check visits: the first one is *)
(* among them, and the holder of each.                                     *)
LEMMA UpwardClosed ==
  ASSUME NEW c \in Movable
  PROVE  /\ c \in Upward(c)
         /\ Upward(c) \subseteq Movable
         /\ \A x \in Upward(c) \cap alive : loc[x] \in Movable => loc[x] \in Upward(c)
BY DEF Upward

(* A movable that goes into a holder the cycle check admits is inside      *)
(* nothing that is inside it: a group closed under "holder of" afterwards  *)
(* has one among the visited containers that was closed before.            *)
LEMMA MoveKeepsOrder ==
  ASSUME ContentsTypeOK, NeverInsideItself,
         NEW m \in Movable \cap alive, NEW h,
         h \in Movable => m \notin Upward(h),
         loc' = [loc EXCEPT ![m] = h], alive' = alive
  PROVE  NeverInsideItself'
<1> SUFFICES ASSUME NEW held \in SUBSET (Movable \cap alive), held # {},
                    \A x \in held : loc'[x] \in held
             PROVE  FALSE
  BY DEF NeverInsideItself
<1>t. loc \in [Atom -> Holder \cup {None}] /\ Movable \subseteq Atom
  BY DEF ContentsTypeOK, Atom
<1>1. loc'[m] = h /\ \A x \in held : x # m => loc'[x] = loc[x]
  BY <1>t
<1>2. m \in held
  BY <1>1 DEF NeverInsideItself
<1>3. h \in held /\ h \in Movable /\ m \notin Upward(h)
  BY <1>1, <1>2
<1> DEFINE inside == held \cap Upward(h)
<1>4. h \in inside /\ inside \in SUBSET (Movable \cap alive)
  BY <1>3, UpwardClosed
<1>5. \A x \in inside : loc[x] \in inside
  BY <1>1, <1>3, UpwardClosed
<1> QED
  BY <1>4, <1>5 DEF NeverInsideItself

(* The store of loc and the lists, for each caller of MoveTo.              *)
LEMMA MoveToInv ==
  ASSUME ContentsInv, NEW m \in Movable \cap alive,
         NEW h \in Area \cup alive \cup {None},
         h \in Movable => m \notin Upward(h),
         MoveTo(m, h)
  PROVE  ContentsInv'
<1>1. CASE loc[m] = h
  <2>1. loc' = loc
    BY <1>1 DEF MoveTo, ContentsInv, ContentsTypeOK
  <2>2. UNCHANGED vars
    BY <1>1, <2>1 DEF MoveTo, vars
  <2> QED
    BY <2>2, UnchangedInv
<1>2. CASE loc[m] # h
  <2>t. /\ alive \subseteq born /\ born \subseteq Atom
        /\ loc \in [Atom -> Holder \cup {None}]
        /\ listed \subseteq Holder
        /\ contents \in Lists
        /\ pending \in [Area -> [Atom -> Nat]]
        /\ m \in Atom /\ m \in alive /\ m \in Movable
        /\ h \in Holder \cup {None}
    BY Kinds DEF ContentsInv, ContentsTypeOK, Lists, Atom, Holder
  <2>u. UNCHANGED <<born, alive, pending, maxx, worldTurf, worldArea, stranded>>
    BY DEF MoveTo
  <2>l. /\ loc' = [loc EXCEPT ![m] = h]
        /\ loc'[m] = h
        /\ \A y \in Atom : y # m => loc'[y] = loc[y]
        /\ listed' = listed \cup ({h} \ {None})
    BY <1>2, <2>t DEF MoveTo
  <2>c. /\ contents' \in Lists
        /\ \A g \in Holder, y \in Atom : y # m => contents'[g][y] = contents[g][y]
        /\ \A g \in Atom \ alive : contents'[g] = contents[g]
        /\ \A g \in Atom \cap alive : contents'[g][m] = Times(g = h)
        /\ \A a \in Area : contents'[a][m] = contents[a][m]
                - Times(loc[m] = a \/ EnclosingArea(loc[m]) = a)
                + Times(h = a \/ EnclosingArea(h) = a)
    BY <1>2, SynchronizedAt DEF MoveTo
  <2>e. /\ \A t \in Turf : loc'[t] = loc[t]
        /\ \A l : (IF l \in Turf \cap alive THEN loc'[l] ELSE None) = EnclosingArea(l)
    BY <2>l, <2>t, Kinds DEF EnclosingArea
  <2>1. ContentsTypeOK'
    BY <2>t, <2>u, <2>l, <2>c DEF ContentsInv, ContentsTypeOK, Lists
  <2>2. DeadHoldNothing'
    BY <2>t, <2>u, <2>l, <2>c, Kinds DEF ContentsInv, DeadHoldNothing
  <2>3. NamedInLists'
    <3> SUFFICES ASSUME NEW g \in Holder, NEW y \in Atom, contents'[g][y] # 0
                 PROVE  g \in listed'
      BY DEF NamedInLists
    <3>1. CASE y # m
      BY <2>c, <2>l, <3>1 DEF ContentsInv, NamedInLists
    <3>2. CASE y = m /\ g \in Atom /\ g \in alive
      BY <2>c, <2>l, <2>t, <3>2, Kinds DEF Times
    <3>3. CASE y = m /\ g \in Atom /\ g \notin alive
      BY <2>c, <2>l, <3>3 DEF ContentsInv, NamedInLists
    <3>4. CASE y = m /\ g \in Area
      <4>1. CASE contents[g][m] # 0
        BY <2>l, <2>t, <3>4, <4>1, Kinds DEF ContentsInv, NamedInLists
      <4>2. CASE h = g
        BY <2>l, <3>4, <4>2, Kinds
      <4>3. CASE h # g /\ EnclosingArea(h) = g
        <5>1. h \in Turf \cap alive /\ h \in Atom /\ loc[h] = g
          BY <3>4, <4>3, Kinds DEF EnclosingArea
        <5>2. Effective(g, h) >= 1
          BY <3>4, <5>1 DEF ContentsInv, AreasAgree, ListsAgree, BelongsIn, Times
        <5>3. contents[g][h] \in Nat /\ pending[g][h] \in Nat
          BY <2>t, <3>4, <5>1, Kinds DEF Lists
        <5>4. contents[g][h] # 0
          BY <5>2, <5>3 DEF Effective
        <5> QED
          BY <2>l, <3>4, <5>1, <5>4, Kinds DEF ContentsInv, NamedInLists
      <4>4. CASE contents[g][m] = 0 /\ h # g /\ EnclosingArea(h) # g
        <5>1. contents'[g][m] = 0 - Times(loc[m] = g \/ EnclosingArea(loc[m]) = g)
          BY <2>c, <3>4, <4>4 DEF Times
        <5>2. contents'[g][m] \in Nat
          BY <2>c, <2>t DEF Lists
        <5>3. contents'[g][m] # 0
          BY <3>4
        <5>4. Times(loc[m] = g \/ EnclosingArea(loc[m]) = g) \in {0, 1}
          BY DEF Times
        <5> QED
          BY <5>1, <5>2, <5>3, <5>4
      <4> QED
        BY <4>1, <4>2, <4>3, <4>4
    <3> QED
      BY <3>1, <3>2, <3>3, <3>4, Kinds
  <2>4. WellPlaced'
    BY <2>t, <2>u, <2>l, <2>e, Kinds DEF ContentsInv, WellPlaced, Holder
  <2>5. CellsDistinct'
    BY <2>u DEF ContentsInv, CellsDistinct
  <2>6. ContentsMirrorLoc'
    <3> SUFFICES ASSUME NEW g \in (Turf \cup Movable) \cap alive, NEW y \in Atom
                 PROVE  contents'[g][y] = Times(loc'[y] = g)
      BY <2>u DEF ContentsMirrorLoc, Times
    <3>1. CASE y # m
      <4>1. contents[g][y] = Times(loc[y] = g)
        BY DEF ContentsInv, ContentsMirrorLoc
      <4> QED
        BY <2>l, <2>c, <3>1, <4>1, Kinds
    <3>2. CASE y = m
      BY <2>l, <2>c, <2>t, <3>2, Kinds DEF Times
    <3> QED
      BY <3>1, <3>2
  <2>7. ListsAgree'
    <3> SUFFICES ASSUME NEW a \in Area, NEW y \in Atom
                 PROVE  /\ Effective(a, y)' >= Times(BelongsIn(a, y))'
                        /\ y \notin stranded' => Effective(a, y)' = Times(BelongsIn(a, y))'
      BY DEF ListsAgree
    <3> DEFINE there == (loc'[y] = a \/ EnclosingArea(loc'[y]) = a)
    <3>1. Times(BelongsIn(a, y))' = Times(there)
      BY <2>u, <2>e DEF Times, BelongsIn, EnclosingArea
    <3>2. /\ Effective(a, y)' = contents'[a][y] - pending[a][y]
          /\ Effective(a, y) = contents[a][y] - pending[a][y]
          /\ contents[a][y] \in Nat /\ contents'[a][y] \in Nat /\ pending[a][y] \in Nat
      BY <2>u, <2>t, <2>c, Kinds DEF Effective, Lists
    <3>3. /\ Effective(a, y) >= Times(BelongsIn(a, y))
          /\ y \notin stranded => Effective(a, y) = Times(BelongsIn(a, y))
      BY DEF ContentsInv, AreasAgree, ListsAgree
    <3>4. CASE y # m
      <4>1. contents'[a][y] = contents[a][y]
        BY <2>c, <3>4, Kinds
      <4>2. Times(there) = Times(BelongsIn(a, y))
        BY <2>l, <3>4 DEF BelongsIn, Times
      <4> QED
        BY <2>u, <3>1, <3>2, <3>3, <4>1, <4>2 DEF Times
    <3>5. CASE y = m
      <4>1. contents'[a][y] = contents[a][y] - Times(BelongsIn(a, y)) + Times(there)
        BY <2>c, <2>l, <2>t, <3>5 DEF BelongsIn, Times
      <4> HIDE DEF there
      <4> QED
        BY <2>u, <3>1, <3>2, <3>3, <4>1 DEF Times
    <3> QED
      BY <3>4, <3>5
  <2>8. GeometryAgrees'
    BY <2>u, <2>e, <2>t, Kinds
       DEF ContentsInv, ContentsTypeOK, AreasAgree, GeometryAgrees
  <2>9. NeverInsideItself'
    BY <2>l, <2>u, MoveKeepsOrder DEF ContentsInv
  <2> QED
    BY <2>1, <2>2, <2>3, <2>4, <2>5, <2>6, <2>7, <2>8, <2>9
       DEF ContentsInv, AreasAgree
<1> QED
  BY <1>1, <1>2

(* Unconditional facts about a state of the invariant, used by the steps   *)
(* that follow.                                                            *)
LEMMA StateFacts ==
  ASSUME ContentsInv
  PROVE  /\ alive \subseteq born /\ born \subseteq Atom
         /\ loc \in [Atom -> Holder \cup {None}]
         /\ listed \subseteq Holder
         /\ contents \in Lists
         /\ pending \in [Area -> [Atom -> Nat]]
         /\ \A h \in Holder, x \in Atom : contents[h][x] \in Nat
         /\ \A a \in Area, x \in Atom :
              /\ pending[a][x] \in Nat
              /\ contents[a][x] >= pending[a][x]
              /\ BelongsIn(a, x) => contents[a][x] >= 1 /\ a \in listed
<1>1. /\ alive \subseteq born /\ born \subseteq Atom
      /\ loc \in [Atom -> Holder \cup {None}]
      /\ listed \subseteq Holder
      /\ contents \in Lists
      /\ pending \in [Area -> [Atom -> Nat]]
  BY DEF ContentsInv, ContentsTypeOK, Lists
<1>2. \A h \in Holder, x \in Atom : contents[h][x] \in Nat
  BY <1>1 DEF Lists
<1>3. ASSUME NEW a \in Area, NEW x \in Atom
      PROVE  /\ pending[a][x] \in Nat
             /\ contents[a][x] >= pending[a][x]
             /\ BelongsIn(a, x) => contents[a][x] >= 1 /\ a \in listed
  <2>1. pending[a][x] \in Nat /\ contents[a][x] \in Nat
    BY <1>1, <1>2, Kinds
  <2>2. IF BelongsIn(a, x) THEN contents[a][x] - pending[a][x] >= 1
                           ELSE contents[a][x] - pending[a][x] >= 0
    BY DEF ContentsInv, AreasAgree, ListsAgree, Effective, Times
  <2>3. contents[a][x] >= pending[a][x]
    BY <2>1, <2>2
  <2>4. BelongsIn(a, x) => contents[a][x] >= 1
    BY <2>1, <2>2
  <2>5. contents[a][x] >= 1 => a \in listed
    BY <2>1, Kinds DEF ContentsInv, NamedInLists
  <2> QED
    BY <2>1, <2>2, <2>3, <2>4, <2>5
<1> QED
  BY <1>1, <1>2, <1>3

(* A turf goes to another area: what is carried is the turf and what lies  *)
(* on it, queued where it leaves and entered where it arrives.             *)
LEMMA MoveTurfInv ==
  ASSUME ContentsInv, NEW t \in Turf, NEW a \in Area, MoveTurfToArea(t, a)
  PROVE  ContentsInv'
<1> DEFINE old     == loc[t]
           goes(x) == x = t \/ (loc[x] = t)
           carried == [x \in Atom |-> IF x = t THEN 1 ELSE contents[t][x]]
           queued  == IF HasList(old)
                      THEN [pending EXCEPT ![old] = [x \in Atom |-> @[x] + carried[x]]]
                      ELSE pending
           flushed == Flushed(contents, queued, a)
<1>t. /\ alive \subseteq born /\ born \subseteq Atom
      /\ loc \in [Atom -> Holder \cup {None}]
      /\ listed \subseteq Holder
      /\ contents \in Lists
      /\ pending \in [Area -> [Atom -> Nat]]
      /\ t \in alive /\ t \in Atom /\ t \in Holder
      /\ old \in Area /\ a # old
  BY StateFacts, Kinds DEF MoveTurfToArea, ContentsInv, WellPlaced
<1>u. UNCHANGED <<born, alive, maxx, worldTurf, stranded>>
  BY DEF MoveTurfToArea
<1>l. /\ listed' = listed \cup {a}
      /\ loc' = [loc EXCEPT ![t] = a]
      /\ loc'[t] = a
      /\ \A x \in Atom : x # t => loc'[x] = loc[x]
      /\ worldArea' = [c \in Cell |-> IF worldTurf[c] = t THEN a ELSE worldArea[c]]
  BY <1>t DEF MoveTurfToArea, NoteTurfArea
<1>1. /\ BelongsIn(old, t)
      /\ HasList(old)
  BY <1>t, StateFacts, Kinds DEF BelongsIn, HasList
<1>2. \A x \in Atom : carried[x] = Times(goes(x))
  BY <1>t, Kinds DEF ContentsInv, ContentsMirrorLoc, Times
<1>3. \A x \in Atom : carried[x] \in {0, 1} /\ (carried[x] = 1 <=> goes(x))
  BY <1>2 DEF Times
<1>4. carried \in [Atom -> Nat]
  BY <1>3
<1> HIDE DEF carried
<1>5. /\ queued \in [Area -> [Atom -> Nat]]
      /\ \A b \in Area, x \in Atom :
           queued[b][x] = IF b = old THEN pending[b][x] + carried[x] ELSE pending[b][x]
  <2>1. \A x \in Atom : pending[old][x] \in Nat /\ carried[x] \in Nat
    BY <1>t, <1>4
  <2>2. [x \in Atom |-> pending[old][x] + carried[x]] \in [Atom -> Nat]
    BY <2>1
  <2>3. queued = [pending EXCEPT ![old] = [x \in Atom |-> pending[old][x] + carried[x]]]
    BY <1>1
  <2> QED
    BY <1>t, <2>2, <2>3
<1> HIDE DEF queued
<1>6. /\ flushed \in Lists
      /\ \A g \in Holder, x \in Atom :
           flushed[g][x] = IF g = a THEN contents[a][x] - pending[a][x] ELSE contents[g][x]
  <2>1. \A x \in Atom : queued[a][x] = pending[a][x] /\ contents[a][x] >= pending[a][x]
    BY <1>5, <1>t, StateFacts
  <2> QED
    BY <2>1, <1>5, <1>t, FlushedAt
<1> HIDE DEF flushed
<1>7. /\ pending' = [queued EXCEPT ![a] = Nothing]
      /\ contents' = [flushed EXCEPT ![a] = [x \in Atom |->
            IF carried[x] > 0 /\ flushed[a][x] = 0 THEN 1 ELSE flushed[a][x]]]
  BY DEF MoveTurfToArea, carried, queued, flushed
<1>8. /\ contents' \in Lists
      /\ \A g \in Holder : g # a => contents'[g] = flushed[g]
      /\ \A x \in Atom : contents'[a][x] =
            IF goes(x) /\ contents[a][x] = pending[a][x] THEN 1
            ELSE contents[a][x] - pending[a][x]
  <2>1. a \in Holder
    BY Kinds
  <2>2. \A x \in Atom : /\ flushed[a][x] = contents[a][x] - pending[a][x]
                        /\ flushed[a][x] \in Nat
                        /\ contents[a][x] \in Nat /\ pending[a][x] \in Nat
    BY <1>6, <2>1, StateFacts
  <2>3. \A x \in Atom : carried[x] > 0 <=> goes(x)
    BY <1>3
  <2>4. \A x \in Atom : flushed[a][x] = 0 <=> contents[a][x] = pending[a][x]
    BY <2>2
  <2>5. [x \in Atom |-> IF carried[x] > 0 /\ flushed[a][x] = 0 THEN 1 ELSE flushed[a][x]]
          \in [Atom -> Nat]
    BY <2>2
  <2> QED
    BY <1>6, <1>7, <2>1, <2>2, <2>3, <2>4, <2>5 DEF Lists
<1>9. /\ pending' \in [Area -> [Atom -> Nat]]
      /\ \A b \in Area, x \in Atom :
           pending'[b][x] = IF b = a THEN 0
                            ELSE IF b = old THEN pending[b][x] + carried[x]
                            ELSE pending[b][x]
  BY <1>5, <1>7, <1>t DEF Nothing
<1>10. \A g \in Holder : g # a => contents'[g] = contents[g]
  <2> SUFFICES ASSUME NEW g \in Holder, g # a
               PROVE  contents'[g] = contents[g]
    OBVIOUS
  <2>1. flushed[g] \in [Atom -> Nat] /\ contents[g] \in [Atom -> Nat]
    BY <1>6, <1>t DEF Lists
  <2>2. \A x \in Atom : flushed[g][x] = contents[g][x]
    BY <1>6
  <2> QED
    BY <1>8, <2>1, <2>2
<1>11. ContentsTypeOK'
  <2>1. worldArea' \in [Cell -> Area \cup {None}]
    BY <1>l DEF ContentsInv, ContentsTypeOK
  <2> QED
    BY <1>t, <1>u, <1>l, <1>8, <1>9, <2>1, Kinds DEF ContentsInv, ContentsTypeOK, Lists
<1>12. DeadHoldNothing'
  BY <1>t, <1>u, <1>l, <1>10, Kinds DEF ContentsInv, DeadHoldNothing
<1>13. NamedInLists'
  BY <1>l, <1>10 DEF ContentsInv, NamedInLists
<1>14. WellPlaced'
  BY <1>t, <1>u, <1>l, Kinds DEF ContentsInv, WellPlaced
<1>15. CellsDistinct'
  BY <1>u DEF ContentsInv, CellsDistinct
<1>16. ContentsMirrorLoc'
  <2> SUFFICES ASSUME NEW g \in (Turf \cup Movable) \cap alive, NEW y \in Atom
               PROVE  contents'[g][y] = Times(loc'[y] = g)
    BY <1>u DEF ContentsMirrorLoc, Times
  <2>1. contents[g][y] = Times(loc[y] = g)
    BY DEF ContentsInv, ContentsMirrorLoc
  <2>2. g \in Holder /\ g \notin Area
    BY Kinds
  <2>3. loc'[y] = g <=> loc[y] = g
    BY <1>l, <1>t, <2>2
  <2> QED
    BY <1>10, <2>1, <2>2, <2>3 DEF Times
<1>17. ASSUME NEW b \in Area, NEW x \in Atom
       PROVE  /\ Effective(b, x)' >= Times(BelongsIn(b, x))'
              /\ x \notin stranded' => Effective(b, x)' = Times(BelongsIn(b, x))'
  <2> DEFINE there == (loc'[x] = b \/ (loc'[x] \in Turf \cap alive
                                                       /\ loc'[loc'[x]] = b))
  <2>1. BelongsIn(b, x)' <=> there
    BY <1>u, Kinds DEF BelongsIn, EnclosingArea
  <2>6. Times(BelongsIn(b, x))' = IF there THEN 1 ELSE 0
    BY <2>1 DEF Times
  <2> HIDE DEF there
  <2>2. /\ Effective(b, x)' = contents'[b][x] - pending'[b][x]
        /\ contents[b][x] \in Nat /\ pending[b][x] \in Nat
        /\ contents[b][x] >= pending[b][x]
        /\ b \in Holder
    BY StateFacts, Kinds DEF Effective
  <2>3. /\ BelongsIn(b, x) => contents[b][x] - pending[b][x] >= 1
        /\ x \notin stranded =>
             contents[b][x] - pending[b][x] = IF BelongsIn(b, x) THEN 1 ELSE 0
    BY DEF ContentsInv, AreasAgree, ListsAgree, Effective, Times
  <2>4. CASE goes(x)
    <3>1. there <=> b = a
      <4>1. CASE x = t
        BY <1>l, <1>t, <4>1, Kinds DEF there
      <4>2. CASE x # t
        <5>1. loc'[x] = t /\ t # b
          BY <1>l, <1>t, <2>4, <4>2, Kinds
        <5> QED
          BY <1>l, <1>t, <5>1 DEF there
      <4> QED
        BY <4>1, <4>2
    <3>2. BelongsIn(b, x) <=> b = old
      <4>1. CASE x = t
        BY <1>t, <4>1, Kinds DEF BelongsIn, EnclosingArea
      <4>2. CASE x # t
        <5>1. loc[x] = t /\ t # b
          BY <1>t, <2>4, <4>2, Kinds
        <5> QED
          BY <1>t, <5>1 DEF BelongsIn, EnclosingArea
      <4> QED
        BY <4>1, <4>2
    <3>3. CASE b = a
      <4>1. contents'[b][x] - pending'[b][x] =
              IF contents[b][x] = pending[b][x] THEN 1 ELSE contents[b][x] - pending[b][x]
        BY <1>8, <1>9, <2>2, <2>4, <3>3
      <4>2. there /\ ~BelongsIn(b, x)
        BY <1>t, <3>1, <3>2, <3>3
      <4>3. Effective(b, x)' >= 1
        BY <2>2, <4>1
      <4>4. x \notin stranded => Effective(b, x)' = 1
        BY <2>2, <2>3, <4>1, <4>2
      <4> QED
        BY <1>u, <2>6, <4>2, <4>3, <4>4
    <3>4. CASE b = old
      <4>1. contents'[b][x] - pending'[b][x] = contents[b][x] - (pending[b][x] + 1)
        BY <1>3, <1>9, <1>10, <1>t, <2>2, <2>4, <3>4
      <4> QED
        BY <1>t, <1>u, <2>2, <2>3, <2>6, <3>1, <3>2, <3>4, <4>1
    <3>5. CASE b # a /\ b # old
      <4>1. contents'[b][x] - pending'[b][x] = contents[b][x] - pending[b][x]
        BY <1>9, <1>10, <2>2, <3>5
      <4> QED
        BY <1>t, <1>u, <2>2, <2>3, <2>6, <3>1, <3>2, <3>5, <4>1
    <3> QED
      BY <3>3, <3>4, <3>5
  <2>5. CASE ~goes(x)
    <3>1. there <=> BelongsIn(b, x)
      BY <1>l, <1>t, <2>5, Kinds DEF there, BelongsIn, EnclosingArea
    <3>2. contents'[b][x] - pending'[b][x] = contents[b][x] - pending[b][x]
      BY <1>3, <1>8, <1>9, <1>10, <1>t, <2>2, <2>5
    <3> QED
      BY <1>u, <2>2, <2>3, <2>6, <3>1, <3>2
  <2> QED
    BY <2>4, <2>5
<1>18. ListsAgree'
  BY <1>17 DEF ListsAgree
<1>19. GeometryAgrees'
  BY <1>t, <1>u, <1>l, Kinds DEF ContentsInv, ContentsTypeOK, AreasAgree, GeometryAgrees
<1>20. NeverInsideItself'
  BY <1>t, <1>u, <1>l, Kinds DEF ContentsInv, NeverInsideItself
<1> QED
  BY <1>11, <1>12, <1>13, <1>14, <1>15, <1>16, <1>18, <1>19, <1>20
     DEF ContentsInv, AreasAgree
-----------------------------------------------------------------------------
(* Destruction and geometry.                                               *)

(* What a step may do to the count of an atom in an area's list: it stays  *)
(* in step with where the atom is, unless the atom is left stranded.       *)
LEMMA ListsAgreeStep ==
  ASSUME ContentsInv,
         \A a \in Area, x \in Atom :
           LET belongs == BelongsIn(a, x)'
               count   == contents'[a][x] - pending'[a][x]
               before  == contents[a][x] - pending[a][x]
           IN  /\ x \notin stranded' => x \notin stranded
               /\ \/ /\ belongs <=> BelongsIn(a, x)
                     /\ count = before
                  \/ /\ belongs /\ ~BelongsIn(a, x)
                     /\ count = before + 1
                  \/ /\ ~belongs /\ BelongsIn(a, x)
                     /\ count = before - 1
                  \/ /\ ~belongs /\ x \in stranded'
                     /\ count = before
  PROVE  ListsAgree'
<1> SUFFICES ASSUME NEW a \in Area, NEW x \in Atom
             PROVE  /\ Effective(a, x)' >= Times(BelongsIn(a, x))'
                    /\ x \notin stranded' =>
                         Effective(a, x)' = Times(BelongsIn(a, x))'
  BY DEF ListsAgree
<1>1. /\ contents[a][x] \in Nat /\ pending[a][x] \in Nat
      /\ contents[a][x] - pending[a][x] >= IF BelongsIn(a, x) THEN 1 ELSE 0
      /\ x \notin stranded =>
           contents[a][x] - pending[a][x] = IF BelongsIn(a, x) THEN 1 ELSE 0
  BY StateFacts, Kinds DEF ContentsInv, AreasAgree, ListsAgree, Effective, Times
<1>2. Effective(a, x)' = contents'[a][x] - pending'[a][x]
  BY DEF Effective
<1>3. Times(BelongsIn(a, x))' = IF BelongsIn(a, x)' THEN 1 ELSE 0
  BY DEF Times
<1> QED
  BY <1>1, <1>2, <1>3

(* qdel takes a movable out of every list, and its own list goes with it.  *)
LEMMA QdelInv ==
  ASSUME ContentsInv, NEW m \in Movable, Qdel(m)
  PROVE  ContentsInv'
<1> DEFINE c == Synchronized(m, loc[m], None)
<1>t. /\ m \in alive /\ m \in Atom /\ m \in Holder /\ m \notin Area /\ m \notin Turf
      /\ None \notin Holder
  BY Kinds, ContentsAssumption DEF Qdel, Holder
<1>s. /\ alive \subseteq born /\ born \subseteq Atom
      /\ loc \in [Atom -> Holder \cup {None}]
      /\ listed \subseteq Holder
      /\ contents \in Lists
      /\ pending \in [Area -> [Atom -> Nat]]
      /\ \A h \in Holder, x \in Atom : contents[h][x] \in Nat
  BY StateFacts
<1>u. /\ UNCHANGED <<born, pending, maxx, worldTurf, worldArea, stranded>>
      /\ alive' = alive \ {m}
      /\ listed' = listed \ {m}
      /\ loc' = [loc EXCEPT ![m] = None]
      /\ loc'[m] = None
      /\ \A x \in Atom : x # m => loc'[x] = loc[x]
  BY <1>s, <1>t DEF Qdel
<1>1. /\ c \in Lists
      /\ \A h \in Holder, y \in Atom : y # m => c[h][y] = contents[h][y]
      /\ \A h \in Atom \ alive : c[h] = contents[h]
      /\ \A h \in Atom \cap alive : c[h][m] = 0
      /\ \A a \in Area : c[a][m] = contents[a][m] - (IF BelongsIn(a, m) THEN 1 ELSE 0)
  <2>1. EnclosingArea(None) = None
    BY Kinds DEF EnclosingArea
  <2>2. \A h \in Holder : h # None
    BY Kinds
  <2>3. /\ c \in Lists
        /\ \A h \in Holder, y \in Atom : y # m => c[h][y] = contents[h][y]
        /\ \A h \in Atom \ alive : c[h] = contents[h]
        /\ \A h \in Atom \cap alive : c[h][m] = Times(h = None)
        /\ \A a \in Area : c[a][m] = contents[a][m]
                - Times(loc[m] = a \/ EnclosingArea(loc[m]) = a)
                + Times(None = a \/ EnclosingArea(None) = a)
    BY <1>t, SynchronizedAt
  <2> HIDE DEF c
  <2>4. \A h \in Atom \cap alive : c[h][m] = 0
    BY <2>2, <2>3, Kinds DEF Times
  <2>5. ASSUME NEW a \in Area
        PROVE  c[a][m] = contents[a][m] - (IF BelongsIn(a, m) THEN 1 ELSE 0)
    <3>1. ~(None = a \/ EnclosingArea(None) = a)
      BY <2>1, Kinds
    <3>2. contents[a][m] \in Nat
      BY <1>s, <1>t, Kinds
    <3> QED
      BY <1>t, <2>3, <3>1, <3>2 DEF Times, BelongsIn
  <2> QED
    BY <2>3, <2>4, <2>5
<1>2. contents' = Drop(c, m)
  BY DEF Qdel
<1> HIDE DEF c
<1>3. /\ contents' \in Lists
      /\ contents'[m] = Nothing
      /\ \A h \in Holder : h # m => contents'[h] = c[h]
  BY <1>1, <1>2, <1>t, DropAt
<1>4. \A h \in Holder : h # m => \A y \in Atom : y # m => contents'[h][y] = contents[h][y]
  BY <1>1, <1>3
<1>5. ContentsTypeOK'
  BY <1>s, <1>u, <1>3 DEF ContentsInv, ContentsTypeOK, Lists
<1>6. DeadHoldNothing'
  BY <1>t, <1>u, <1>1, <1>3, Kinds DEF ContentsInv, DeadHoldNothing
<1>7. NamedInLists'
  <2> SUFFICES ASSUME NEW g \in Holder, NEW y \in Atom, contents'[g][y] # 0
               PROVE  g \in listed'
    BY DEF NamedInLists
  <2>1. g # m
    BY <1>3 DEF Nothing
  <2>2. contents[g][y] # 0
    <3>1. CASE y # m
      BY <1>4, <2>1, <3>1
    <3>2. CASE y = m /\ g \in Atom
      BY <1>1, <1>3, <2>1, <3>2
    <3>3. CASE y = m /\ g \in Area
      <4>1. contents'[g][m] = contents[g][m] - (IF BelongsIn(g, m) THEN 1 ELSE 0)
        BY <1>1, <1>3, <2>1, <3>3
      <4>2. contents'[g][m] \in Nat /\ contents[g][m] \in Nat
        BY <1>3, <1>s, <1>t DEF Lists
      <4>3. contents'[g][m] # 0
        BY <3>3
      <4> QED
        BY <3>3, <4>1, <4>2, <4>3
    <3> QED
      BY <3>1, <3>2, <3>3, Kinds
  <2> QED
    BY <1>u, <2>1, <2>2 DEF ContentsInv, NamedInLists
<1>8. WellPlaced'
  BY <1>u, <1>t, Kinds DEF ContentsInv, WellPlaced
<1>9. CellsDistinct'
  BY <1>u DEF ContentsInv, CellsDistinct
<1>10. ContentsMirrorLoc'
  <2> SUFFICES ASSUME NEW g \in (Turf \cup Movable) \cap alive', NEW y \in Atom
               PROVE  contents'[g][y] = Times(loc'[y] = g)
    BY DEF ContentsMirrorLoc, Times
  <2>1. g \in Atom /\ g \in Holder /\ g \in alive /\ g # m /\ g # None
    BY <1>u, Kinds
  <2>2. CASE y = m
    BY <1>1, <1>3, <1>u, <2>1, <2>2 DEF Times
  <2>3. CASE y # m
    <3>1. contents[g][y] = Times(loc[y] = g)
      BY <2>1 DEF ContentsInv, ContentsMirrorLoc
    <3> QED
      BY <1>4, <1>u, <2>1, <2>3, <3>1 DEF Times
  <2> QED
    BY <2>2, <2>3
<1>11. ListsAgree'
  <2> SUFFICES ASSUME NEW a \in Area, NEW x \in Atom
               PROVE  LET count   == contents'[a][x] - pending'[a][x]
                          before  == contents[a][x] - pending[a][x]
                      IN  \/ /\ BelongsIn(a, x)' <=> BelongsIn(a, x)
                             /\ count = before
                          \/ /\ ~BelongsIn(a, x)' /\ BelongsIn(a, x)
                             /\ count = before - 1
    BY <1>u, ListsAgreeStep
  <2>1. contents[a][x] \in Nat /\ pending[a][x] \in Nat /\ pending'[a][x] = pending[a][x]
    BY <1>u, StateFacts, Kinds
  <2>2. CASE x # m
    <3>1. contents'[a][x] = contents[a][x]
      BY <1>4, <1>t, <2>2, Kinds
    <3>2. BelongsIn(a, x)' <=> BelongsIn(a, x)
      BY <1>t, <1>u, <2>2, Kinds DEF BelongsIn, EnclosingArea
    <3> QED
      BY <2>1, <3>1, <3>2
  <2>3. CASE x = m
    <3>1. contents'[a][x] = contents[a][x] - (IF BelongsIn(a, x) THEN 1 ELSE 0)
      BY <1>1, <1>3, <1>t, <2>3, Kinds
    <3>2. ~BelongsIn(a, x)'
      BY <1>u, <2>3, Kinds DEF BelongsIn, EnclosingArea
    <3> QED
      BY <2>1, <3>1, <3>2
  <2> QED
    BY <2>2, <2>3
<1>12. GeometryAgrees'
  BY <1>t, <1>u, <1>s, Kinds DEF ContentsInv, ContentsTypeOK, AreasAgree, GeometryAgrees
<1>13. NeverInsideItself'
  BY <1>u, Kinds DEF ContentsInv, NeverInsideItself
<1> QED
  BY <1>5, <1>6, <1>7, <1>8, <1>9, <1>10, <1>11, <1>12, <1>13 DEF ContentsInv, AreasAgree

(* del destroys a movable where it is: every list but its own stays as it  *)
(* was, and so does what each of them is to name.                          *)
LEMMA DelInv ==
  ASSUME ContentsInv, NEW m \in Movable, Del(m)
  PROVE  ContentsInv'
<1>t. m \in alive /\ m \in Atom /\ m \in Holder /\ m \notin Area /\ m \notin Turf
  BY Kinds DEF Del
<1>s. /\ alive \subseteq born /\ born \subseteq Atom
      /\ loc \in [Atom -> Holder \cup {None}]
      /\ listed \subseteq Holder
      /\ contents \in Lists
      /\ pending \in [Area -> [Atom -> Nat]]
  BY StateFacts
<1>u. /\ UNCHANGED <<born, loc, pending, maxx, worldTurf, worldArea, stranded>>
      /\ alive' = alive \ {m}
      /\ listed' = listed \ {m}
      /\ contents' = Drop(contents, m)
  BY DEF Del
<1>1. /\ contents' \in Lists
      /\ contents'[m] = Nothing
      /\ \A h \in Holder : h # m => contents'[h] = contents[h]
  BY <1>s, <1>t, <1>u, DropAt
<1>2. \A l : EnclosingArea(l)' = EnclosingArea(l)
  BY <1>t, <1>u DEF EnclosingArea
<1>3. ContentsTypeOK'
  BY <1>s, <1>u, <1>1 DEF ContentsInv, ContentsTypeOK, Lists
<1>4. DeadHoldNothing'
  BY <1>t, <1>u, <1>1, Kinds DEF ContentsInv, DeadHoldNothing
<1>5. NamedInLists'
  BY <1>u, <1>1 DEF ContentsInv, NamedInLists, Nothing
<1>6. WellPlaced'
  BY <1>t, <1>u DEF ContentsInv, WellPlaced
<1>7. CellsDistinct'
  BY <1>u DEF ContentsInv, CellsDistinct
<1>8. ContentsMirrorLoc'
  <2> SUFFICES ASSUME NEW g \in (Turf \cup Movable) \cap alive', NEW y \in Atom
               PROVE  contents'[g][y] = Times(loc[y] = g)
    BY <1>u DEF ContentsMirrorLoc, Times
  <2>1. g \in Holder /\ g \in (Turf \cup Movable) \cap alive /\ g # m
    BY <1>u, Kinds
  <2> QED
    BY <1>1, <2>1 DEF ContentsInv, ContentsMirrorLoc
<1>9. ListsAgree'
  <2> SUFFICES ASSUME NEW a \in Area, NEW x \in Atom
               PROVE  /\ BelongsIn(a, x)' <=> BelongsIn(a, x)
                      /\ contents'[a][x] - pending'[a][x] = contents[a][x] - pending[a][x]
    BY <1>u, ListsAgreeStep
  <2>1. BelongsIn(a, x)' <=> BelongsIn(a, x)
    BY <1>u, <1>2 DEF BelongsIn, EnclosingArea
  <2>2. contents'[a] = contents[a]
    BY <1>1, <1>t, Kinds
  <2> QED
    BY <1>u, <2>1, <2>2
<1>10. GeometryAgrees'
  BY <1>t, <1>u, <1>s, Kinds DEF ContentsInv, ContentsTypeOK, AreasAgree, GeometryAgrees
<1>11. NeverInsideItself'
  BY <1>u DEF ContentsInv, NeverInsideItself
<1> QED
  BY <1>3, <1>4, <1>5, <1>6, <1>7, <1>8, <1>9, <1>10, <1>11 DEF ContentsInv, AreasAgree

(* A world that loses its last column: the turf of that column leaves its  *)
(* area's list, and what lay on it is stranded there.                      *)
LEMMA ShrinkInv ==
  ASSUME ContentsInv, Shrink
  PROVE  ContentsInv'
<1> DEFINE t == worldTurf[maxx]
           A == worldArea[maxx]
           left == Minus(contents, A, t)
<1>s. /\ alive \subseteq born /\ born \subseteq Atom
      /\ loc \in [Atom -> Holder \cup {None}]
      /\ listed \subseteq Holder
      /\ contents \in Lists
      /\ pending \in [Area -> [Atom -> Nat]]
      /\ \A h \in Holder, x \in Atom : contents[h][x] \in Nat
  BY StateFacts
<1>g. /\ maxx \in Cell /\ maxx > 1 /\ MaxX \in Nat
      /\ worldTurf \in [Cell -> Turf \cup {None}]
      /\ worldArea \in [Cell -> Area \cup {None}]
      /\ stranded \subseteq Movable
  BY ContentsAssumption DEF Shrink, ContentsInv, ContentsTypeOK
<1>t. /\ t \in Turf /\ t \in alive /\ t \in Atom /\ t \in Holder
      /\ t \notin Movable /\ t \notin Area /\ t # None
      /\ A \in Area /\ A \in Holder /\ A = loc[t]
  <2>1. t \in alive /\ A = loc[t]
    <3>1. ~(maxx > maxx)
      BY <1>g DEF Cell
    <3> QED
      BY <1>g, <3>1 DEF ContentsInv, AreasAgree, GeometryAgrees
  <2>2. t \in Turf
    BY <1>g, <1>s, <2>1, Kinds
  <2> QED
    BY <2>1, <2>2, Kinds DEF ContentsInv, WellPlaced
<1>u. /\ UNCHANGED <<born, pending>>
      /\ alive' = alive \ {t}
      /\ listed' = (listed \cup {A}) \ {t}
      /\ loc' = [loc EXCEPT ![t] = None]
      /\ loc'[t] = None
      /\ \A x \in Atom : x # t => loc'[x] = loc[x]
      /\ worldTurf' = [worldTurf EXCEPT ![maxx] = None]
      /\ worldArea' = [worldArea EXCEPT ![maxx] = None]
      /\ maxx' = maxx - 1
      /\ stranded' = stranded \cup {m \in Movable : loc[m] = t}
      /\ contents' = Drop(left, t)
  BY <1>s, <1>t DEF Shrink, RemoveCell
<1>1. BelongsIn(A, t) /\ contents[A][t] >= 1
  BY <1>t, StateFacts DEF BelongsIn
<1>2. /\ left \in Lists
      /\ \A g \in Holder, y \in Atom :
           left[g][y] = contents[g][y] - (IF g = A /\ y = t THEN 1 ELSE 0)
  <2>1. contents[A][t] > 0
    BY <1>1, <1>s, <1>t
  <2>2. /\ left \in Lists
        /\ \A g \in Holder, y \in Atom :
             left[g][y] = contents[g][y] - Times(g = A /\ y = t)
    BY <1>s, <1>t, <2>1, MinusAt
  <2> HIDE DEF left
  <2> QED
    BY <2>2 DEF Times
<1> HIDE DEF left
<1>3. /\ contents' \in Lists
      /\ contents'[t] = Nothing
      /\ \A g \in Holder, y \in Atom : g # t =>
           contents'[g][y] = contents[g][y] - (IF g = A /\ y = t THEN 1 ELSE 0)
  <2>1. t \in Holder /\ contents' = Drop(left, t)
    BY <1>t, <1>u
  <2>2. /\ Drop(left, t) \in Lists /\ Drop(left, t)[t] = Nothing
        /\ \A g \in Holder : g # t => Drop(left, t)[g] = left[g]
    BY <1>2, <2>1, DropAt
  <2> QED
    BY <1>2, <2>1, <2>2
<1>4. \A g \in Holder, y \in Atom : g # t /\ (g # A \/ y # t) =>
        contents'[g][y] = contents[g][y]
  BY <1>3, <1>s
<1> HIDE DEF t, A
<1>5. ContentsTypeOK'
  <2>1. maxx' \in Cell
    BY <1>g, <1>u DEF Cell
  <2>2. worldTurf' \in [Cell -> Turf \cup {None}] /\ worldArea' \in [Cell -> Area \cup {None}]
    BY <1>g, <1>u
  <2>3. stranded' \subseteq Movable
    BY <1>g, <1>u
  <2>4. loc' \in [Atom -> Holder \cup {None}]
    BY <1>s, <1>u
  <2> QED
    BY <1>s, <1>t, <1>u, <1>3, <2>1, <2>2, <2>3, <2>4 DEF ContentsTypeOK, Lists
<1>6. DeadHoldNothing'
  <2> SUFFICES ASSUME NEW h \in Atom, h \notin alive'
               PROVE  contents'[h] = Nothing /\ h \notin listed'
    BY DEF DeadHoldNothing
  <2>1. CASE h = t
    BY <1>3, <1>u, <2>1
  <2>2. CASE h # t
    <3>1. h \notin alive /\ h # A /\ h \in Holder
      BY <1>t, <1>u, <2>2, Kinds
    <3>2. contents[h] = Nothing /\ h \notin listed
      BY <3>1 DEF ContentsInv, DeadHoldNothing
    <3>3. \A y \in Atom : contents'[h][y] = contents[h][y]
      BY <1>4, <2>2, <3>1
    <3>4. contents'[h] \in [Atom -> Nat] /\ contents[h] \in [Atom -> Nat]
      BY <1>3, <1>s, <3>1 DEF Lists
    <3>5. contents'[h] = contents[h]
      BY <3>3, <3>4
    <3> QED
      BY <1>u, <2>2, <3>1, <3>2, <3>5
  <2> QED
    BY <2>1, <2>2
<1>7. NamedInLists'
  <2> SUFFICES ASSUME NEW g \in Holder, NEW y \in Atom, contents'[g][y] # 0
               PROVE  g \in listed'
    BY DEF NamedInLists
  <2>1. g # t
    BY <1>3 DEF Nothing
  <2>2. CASE g = A
    BY <1>u, <2>1, <2>2
  <2>3. CASE g # A
    BY <1>4, <1>u, <2>1, <2>3 DEF ContentsInv, NamedInLists
  <2> QED
    BY <2>2, <2>3
<1>8. WellPlaced'
  BY <1>u, <1>t, Kinds DEF ContentsInv, WellPlaced
<1>9. CellsDistinct'
  BY <1>u, <1>g DEF ContentsInv, CellsDistinct
<1>10. ContentsMirrorLoc'
  <2> SUFFICES ASSUME NEW g \in (Turf \cup Movable) \cap alive', NEW y \in Atom
               PROVE  contents'[g][y] = Times(loc'[y] = g)
    BY DEF ContentsMirrorLoc, Times
  <2>1. g \in Atom /\ g \in Holder /\ g \in alive /\ g # t /\ g # A
    BY <1>t, <1>u, Kinds
  <2>2. contents[g][y] = Times(loc[y] = g)
    BY <2>1 DEF ContentsInv, ContentsMirrorLoc
  <2>3. loc'[y] = g <=> loc[y] = g
    BY <1>t, <1>u, <2>1, Kinds
  <2> QED
    BY <1>4, <2>1, <2>2, <2>3 DEF Times
<1>11. ListsAgree'
  <2> SUFFICES ASSUME NEW a \in Area, NEW x \in Atom
               PROVE  LET count   == contents'[a][x] - pending'[a][x]
                          before  == contents[a][x] - pending[a][x]
                      IN  \/ /\ BelongsIn(a, x)' <=> BelongsIn(a, x)
                             /\ count = before
                          \/ /\ ~BelongsIn(a, x)' /\ BelongsIn(a, x)
                             /\ count = before - 1
                          \/ /\ ~BelongsIn(a, x)' /\ x \in stranded'
                             /\ count = before
    BY <1>u, ListsAgreeStep
  <2>1. contents[a][x] \in Nat /\ pending[a][x] \in Nat /\ pending'[a][x] = pending[a][x]
    BY <1>u, StateFacts, Kinds
  <2>2. CASE x = t
    <3>1. ~BelongsIn(a, x)'
      BY <1>u, <2>2, Kinds DEF BelongsIn, EnclosingArea
    <3>2. BelongsIn(a, x) <=> a = A
      BY <1>t, <2>2, Kinds DEF BelongsIn, EnclosingArea
    <3>3. contents'[a][x] = contents[a][x] - (IF a = A THEN 1 ELSE 0)
      BY <1>3, <1>t, <2>2, Kinds
    <3> QED
      BY <2>1, <3>1, <3>2, <3>3
  <2>3. CASE x # t /\ ~(loc[x] = t)
    <3>1. BelongsIn(a, x)' <=> BelongsIn(a, x)
      BY <1>t, <1>u, <2>3, Kinds DEF BelongsIn, EnclosingArea
    <3>2. contents'[a][x] = contents[a][x]
      BY <1>4, <1>t, <2>3, Kinds
    <3> QED
      BY <2>1, <3>1, <3>2
  <2>4. CASE x # t /\ loc[x] = t
    <3>1. x \in Movable
      BY <1>t, <2>4, Kinds DEF ContentsInv, WellPlaced, Atom
    <3>2. ~BelongsIn(a, x)' /\ x \in stranded'
      BY <1>t, <1>u, <2>4, <3>1, Kinds DEF BelongsIn, EnclosingArea
    <3>3. contents'[a][x] = contents[a][x]
      BY <1>4, <1>t, <2>4, Kinds
    <3> QED
      BY <2>1, <3>2, <3>3
  <2> QED
    BY <2>2, <2>3, <2>4
<1>12. GeometryAgrees'
  <2> SUFFICES ASSUME NEW c \in Cell
               PROVE  IF c > maxx' THEN worldTurf'[c] = None /\ worldArea'[c] = None
                      ELSE worldTurf'[c] \in alive' /\ worldArea'[c] = loc'[worldTurf'[c]]
    BY DEF GeometryAgrees
  <2>1. c \in Int /\ maxx \in Int
    BY <1>g DEF Cell
  <2>2. IF c > maxx THEN worldTurf[c] = None /\ worldArea[c] = None
        ELSE worldTurf[c] \in alive /\ worldArea[c] = loc[worldTurf[c]]
    BY DEF ContentsInv, AreasAgree, GeometryAgrees
  <2>3. CASE c = maxx
    BY <1>g, <1>u, <2>1, <2>3
  <2>4. CASE c # maxx
    <3>1. worldTurf'[c] = worldTurf[c] /\ worldArea'[c] = worldArea[c]
      BY <1>g, <1>u, <2>4
    <3>2. c > maxx' <=> c > maxx
      BY <1>u, <2>1, <2>4
    <3>3. worldTurf[c] # t
      BY <1>g, <1>t, <2>4 DEF ContentsInv, CellsDistinct, t
    <3> QED
      BY <1>u, <1>s, <2>2, <3>1, <3>2, <3>3
  <2> QED
    BY <2>3, <2>4
<1>13. NeverInsideItself'
  BY <1>t, <1>u, Kinds DEF ContentsInv, NeverInsideItself
<1> QED
  BY <1>5, <1>6, <1>7, <1>8, <1>9, <1>10, <1>11, <1>12, <1>13 DEF ContentsInv, AreasAgree

(* A world that gains a column: a turf nothing refers to yet, in the area  *)
(* of the world.                                                           *)
LEMMA GrowInv ==
  ASSUME ContentsInv, Grow
  PROVE  ContentsInv'
<1> DEFINE S == SpaceArea
<1>s. /\ alive \subseteq born /\ born \subseteq Atom
      /\ loc \in [Atom -> Holder \cup {None}]
      /\ listed \subseteq Holder
      /\ contents \in Lists
      /\ pending \in [Area -> [Atom -> Nat]]
      /\ \A h \in Holder, x \in Atom : contents[h][x] \in Nat
  BY StateFacts
<1>g. /\ maxx \in Cell /\ maxx + 1 \in Cell /\ \A c \in Cell : c \in Int
      /\ worldTurf \in [Cell -> Turf \cup {None}]
      /\ worldArea \in [Cell -> Area \cup {None}]
      /\ stranded \subseteq Movable
  BY ContentsAssumption DEF Grow, ContentsInv, ContentsTypeOK, Cell
<1>p. PICK t \in Turf \ born :
        /\ born' = born \cup {t}
        /\ alive' = alive \cup {t}
        /\ loc' = [loc EXCEPT ![t] = SpaceArea]
        /\ contents' = Plus(contents, SpaceArea, t)
        /\ worldTurf' = [worldTurf EXCEPT ![maxx + 1] = t]
        /\ worldArea' = [worldArea EXCEPT ![maxx + 1] = SpaceArea]
  BY DEF Grow
<1>t. /\ t \in Turf /\ t \notin born /\ t \notin alive /\ t \in Atom /\ t \in Holder
      /\ t \notin Movable /\ t \notin Area /\ t # None
      /\ SpaceArea \in Area /\ SpaceArea \in Holder
  BY <1>s, Kinds
<1>u. /\ UNCHANGED <<pending, stranded>>
      /\ listed' = listed \cup {SpaceArea}
      /\ maxx' = maxx + 1
      /\ loc'[t] = SpaceArea
      /\ \A x \in Atom : x # t => loc'[x] = loc[x]
  BY <1>s, <1>p, <1>t DEF Grow
<1>1. /\ contents' \in Lists
      /\ \A g \in Holder, y \in Atom :
           contents'[g][y] = contents[g][y] + (IF g = SpaceArea /\ y = t THEN 1 ELSE 0)
  <2>1. /\ contents' \in Lists
        /\ \A g \in Holder, y \in Atom :
             contents'[g][y] = contents[g][y] + Times(g = SpaceArea /\ y = t)
    BY <1>s, <1>p, <1>t, PlusAt
  <2> QED
    BY <2>1 DEF Times
<1>2. \A g \in Holder, y \in Atom : g # SpaceArea \/ y # t =>
        contents'[g][y] = contents[g][y]
  BY <1>1, <1>s
<1>3. \A x \in Atom : loc[x] # t
  BY <1>t DEF ContentsInv, WellPlaced
<1>4. \A x \in alive : x # t
  BY <1>t
<1>5. ContentsTypeOK'
  <2>1. loc' \in [Atom -> Holder \cup {None}]
    BY <1>s, <1>p, <1>t
  <2>2. worldTurf' \in [Cell -> Turf \cup {None}] /\ worldArea' \in [Cell -> Area \cup {None}]
    BY <1>g, <1>p, <1>t
  <2> QED
    BY <1>s, <1>g, <1>p, <1>t, <1>u, <1>1, <2>1, <2>2 DEF ContentsTypeOK, Lists
<1>6. DeadHoldNothing'
  <2> SUFFICES ASSUME NEW h \in Atom, h \notin alive'
               PROVE  contents'[h] = Nothing /\ h \notin listed'
    BY DEF DeadHoldNothing
  <2>1. h \notin alive /\ h # SpaceArea /\ h \in Holder
    BY <1>t, <1>p, Kinds
  <2>2. contents[h] = Nothing /\ h \notin listed
    BY <2>1 DEF ContentsInv, DeadHoldNothing
  <2>3. \A y \in Atom : contents'[h][y] = contents[h][y]
    BY <1>2, <2>1
  <2>4. contents'[h] \in [Atom -> Nat] /\ contents[h] \in [Atom -> Nat]
    BY <1>1, <1>s, <2>1 DEF Lists
  <2>5. contents'[h] = contents[h]
    BY <2>3, <2>4
  <2> QED
    BY <1>u, <2>1, <2>2, <2>5
<1>7. NamedInLists'
  BY <1>2, <1>u DEF ContentsInv, NamedInLists
<1>8. WellPlaced'
  BY <1>p, <1>t, <1>u, <1>s, Kinds DEF ContentsInv, WellPlaced
<1>9. \A c \in Cell : worldTurf[c] # t
  <2> SUFFICES ASSUME NEW c \in Cell
               PROVE  worldTurf[c] # t
    OBVIOUS
  <2>1. worldTurf[c] = None \/ worldTurf[c] \in alive
    BY DEF ContentsInv, AreasAgree, GeometryAgrees
  <2> QED
    BY <1>t, <2>1
<1>10. CellsDistinct'
  BY <1>p, <1>g, <1>9 DEF ContentsInv, CellsDistinct
<1>11. ContentsMirrorLoc'
  <2> SUFFICES ASSUME NEW g \in (Turf \cup Movable) \cap alive', NEW y \in Atom
               PROVE  contents'[g][y] = Times(loc'[y] = g)
    BY DEF ContentsMirrorLoc, Times
  <2>1. g \in Atom /\ g \in Holder /\ g # SpaceArea
    BY <1>t, Kinds
  <2>2. contents'[g][y] = contents[g][y]
    BY <1>2, <2>1
  <2>3. CASE g = t
    <3>1. contents[g][y] = 0
      BY <1>t, <2>3 DEF ContentsInv, DeadHoldNothing, Nothing
    <3>2. loc'[y] # g
      BY <1>t, <1>u, <1>3, <2>3
    <3> QED
      BY <2>2, <3>1, <3>2 DEF Times
  <2>4. CASE g # t
    <3>1. contents[g][y] = Times(loc[y] = g)
      BY <1>p, <2>1, <2>4 DEF ContentsInv, ContentsMirrorLoc
    <3>2. loc'[y] = g <=> loc[y] = g
      <4>1. CASE y = t
        BY <1>t, <1>u, <2>1, <4>1, Kinds DEF ContentsInv, WellPlaced
      <4>2. CASE y # t
        BY <1>u, <4>2
      <4> QED
        BY <4>1, <4>2
    <3> QED
      BY <2>2, <3>1, <3>2 DEF Times
  <2> QED
    BY <2>3, <2>4
<1>12. ListsAgree'
  <2> SUFFICES ASSUME NEW a \in Area, NEW x \in Atom
               PROVE  LET count   == contents'[a][x] - pending'[a][x]
                          before  == contents[a][x] - pending[a][x]
                      IN  \/ /\ BelongsIn(a, x)' <=> BelongsIn(a, x)
                             /\ count = before
                          \/ /\ BelongsIn(a, x)' /\ ~BelongsIn(a, x)
                             /\ count = before + 1
    BY <1>u, ListsAgreeStep
  <2>1. contents[a][x] \in Nat /\ pending[a][x] \in Nat /\ pending'[a][x] = pending[a][x]
    BY <1>u, StateFacts, Kinds
  <2>2. CASE x = t
    <3>1. ~BelongsIn(a, x)
      BY <1>t, <2>2, Kinds DEF BelongsIn, EnclosingArea, ContentsInv, WellPlaced
    <3>2. BelongsIn(a, x)' <=> a = SpaceArea
      BY <1>t, <1>p, <1>u, <2>2, Kinds DEF BelongsIn, EnclosingArea
    <3>3. contents'[a][x] = contents[a][x] + (IF a = SpaceArea THEN 1 ELSE 0)
      BY <1>1, <1>t, <2>2, Kinds
    <3> QED
      BY <2>1, <3>1, <3>2, <3>3
  <2>3. CASE x # t
    <3>1. BelongsIn(a, x)' <=> BelongsIn(a, x)
      <4>1. loc'[x] = loc[x] /\ loc[x] # t
        BY <1>u, <1>3, <2>3
      <4>2. x \in alive' <=> x \in alive
        BY <1>p, <2>3
      <4>3. EnclosingArea(loc[x])' = EnclosingArea(loc[x])
        BY <1>p, <1>u, <4>1, Kinds DEF EnclosingArea
      <4> QED
        BY <1>p, <1>u, <4>1, <4>2, <4>3, Kinds DEF BelongsIn, EnclosingArea
    <3>2. contents'[a][x] = contents[a][x]
      BY <1>2, <1>t, <2>3, Kinds
    <3> QED
      BY <2>1, <3>1, <3>2
  <2> QED
    BY <2>2, <2>3
<1>13. GeometryAgrees'
  <2> SUFFICES ASSUME NEW c \in Cell
               PROVE  IF c > maxx' THEN worldTurf'[c] = None /\ worldArea'[c] = None
                      ELSE worldTurf'[c] \in alive' /\ worldArea'[c] = loc'[worldTurf'[c]]
    BY DEF GeometryAgrees
  <2>1. c \in Int /\ maxx \in Int
    BY <1>g
  <2>2. IF c > maxx THEN worldTurf[c] = None /\ worldArea[c] = None
        ELSE worldTurf[c] \in alive /\ worldArea[c] = loc[worldTurf[c]]
    BY DEF ContentsInv, AreasAgree, GeometryAgrees
  <2>3. CASE c = maxx + 1
    <3>1. worldTurf'[c] = t /\ worldArea'[c] = SpaceArea /\ ~(c > maxx')
      BY <1>g, <1>p, <1>u, <2>1, <2>3
    <3> QED
      BY <1>p, <1>u, <3>1
  <2>4. CASE c # maxx + 1
    <3>1. worldTurf'[c] = worldTurf[c] /\ worldArea'[c] = worldArea[c]
      BY <1>g, <1>p, <2>4
    <3>2. c > maxx' <=> c > maxx
      BY <1>u, <2>1, <2>4
    <3> QED
      BY <1>p, <1>u, <1>s, <1>4, <2>2, <3>1, <3>2
  <2> QED
    BY <2>3, <2>4
<1>14. NeverInsideItself'
  BY <1>p, <1>t, <1>u, Kinds DEF ContentsInv, NeverInsideItself
<1> QED
  BY <1>5, <1>6, <1>7, <1>8, <1>10, <1>11, <1>12, <1>13, <1>14 DEF ContentsInv, AreasAgree

(* Applying queued departures moves nothing: what the lists name once the  *)
(* queue is applied is the same before and after.                          *)
LEMMA FlushedInv ==
  ASSUME ContentsInv, NEW flush \in SUBSET Area,
         contents' \in Lists, pending' \in [Area -> [Atom -> Nat]],
         \A h \in Holder : h \notin flush => contents'[h] = contents[h],
         \A a \in flush, x \in Atom :
           contents'[a][x] = contents[a][x] - pending[a][x] /\ pending'[a][x] = 0,
         \A a \in Area : a \notin flush => pending'[a] = pending[a],
         UNCHANGED <<born, alive, loc, listed, maxx, worldTurf, worldArea, stranded>>
  PROVE  ContentsInv'
<1>1. ContentsTypeOK'
  BY DEF ContentsInv, ContentsTypeOK, Lists
<1>2. DeadHoldNothing'
  BY Kinds DEF ContentsInv, DeadHoldNothing
<1>3. NamedInLists'
  <2> SUFFICES ASSUME NEW h \in Holder, NEW x \in Atom, contents'[h][x] # 0
               PROVE  contents[h][x] # 0
    BY DEF ContentsInv, NamedInLists
  <2>1. CASE h \in flush
    <3>1. contents'[h][x] = contents[h][x] - pending[h][x]
      BY <2>1
    <3>2. /\ contents[h][x] \in Nat /\ pending[h][x] \in Nat
          /\ contents[h][x] >= pending[h][x]
      BY <2>1, StateFacts
    <3> QED
      BY <3>1, <3>2
  <2>2. CASE h \notin flush
    BY <2>2
  <2> QED
    BY <2>1, <2>2
<1>4. WellPlaced' /\ CellsDistinct' /\ GeometryAgrees' /\ NeverInsideItself'
  BY DEF ContentsInv, WellPlaced, CellsDistinct, AreasAgree, GeometryAgrees, NeverInsideItself
<1>5. ContentsMirrorLoc'
  BY Kinds DEF ContentsInv, ContentsMirrorLoc, Times
<1>6. ListsAgree'
  <2> SUFFICES ASSUME NEW a \in Area, NEW x \in Atom
               PROVE  /\ BelongsIn(a, x)' <=> BelongsIn(a, x)
                      /\ contents'[a][x] - pending'[a][x] = contents[a][x] - pending[a][x]
    BY ListsAgreeStep
  <2>1. contents[a][x] \in Nat /\ pending[a][x] \in Nat
    BY StateFacts, Kinds
  <2>2. BelongsIn(a, x)' <=> BelongsIn(a, x)
    BY DEF BelongsIn, EnclosingArea
  <2>3. contents'[a][x] - pending'[a][x] = contents[a][x] - pending[a][x]
    BY <2>1, Kinds
  <2> QED
    BY <2>2, <2>3
<1> QED
  BY <1>1, <1>2, <1>3, <1>4, <1>5, <1>6 DEF ContentsInv, AreasAgree

(* flush_area_uncontain applies the queued departures of one area.         *)
LEMMA FlushInv ==
  ASSUME ContentsInv, NEW a \in Area, Flush(a)
  PROVE  ContentsInv'
<1>1. /\ contents \in Lists
      /\ pending \in [Area -> [Atom -> Nat]]
      /\ \A x \in Atom : contents[a][x] >= pending[a][x]
  BY StateFacts
<1>2. /\ Flushed(contents, pending, a) \in Lists
      /\ \A g \in Holder, y \in Atom :
           Flushed(contents, pending, a)[g][y]
             = IF g = a THEN contents[a][y] - pending[a][y] ELSE contents[g][y]
  BY <1>1, FlushedAt
<1>3. /\ contents' = Flushed(contents, pending, a)
      /\ pending' = [pending EXCEPT ![a] = Nothing]
      /\ UNCHANGED <<born, alive, loc, listed, maxx, worldTurf, worldArea, stranded>>
  BY DEF Flush
<1>4. contents' \in Lists
  BY <1>2, <1>3
<1>5. Nothing \in [Atom -> Nat] /\ \A x \in Atom : Nothing[x] = 0
  BY DEF Nothing
<1>6. pending' \in [Area -> [Atom -> Nat]]
  BY <1>1, <1>3, <1>5
<1>7. \A h \in Holder : h \notin {a} => contents'[h] = contents[h]
  BY <1>3 DEF Flushed, Lists
<1>8. \A b \in {a}, x \in Atom :
        contents'[b][x] = contents[b][x] - pending[b][x] /\ pending'[b][x] = 0
  BY <1>1, <1>2, <1>3, <1>5, Kinds
<1>9. \A b \in Area : b \notin {a} => pending'[b] = pending[b]
  BY <1>1, <1>3
<1> DEFINE flush == {a}
<1>10. flush \in SUBSET Area
  OBVIOUS
<1> QED
  BY <1>3, <1>4, <1>6, <1>7, <1>8, <1>9, <1>10, FlushedInv

(* flush_all_area_uncontain applies the queued departures of every area.   *)
LEMMA FlushAllInv ==
  ASSUME ContentsInv, FlushAll
  PROVE  ContentsInv'
<1>1. /\ contents \in Lists
      /\ pending \in [Area -> [Atom -> Nat]]
      /\ \A a \in Area, x \in Atom : contents[a][x] >= pending[a][x]
  BY StateFacts
<1>2. \A a \in Area :
        /\ Flushed(contents, pending, a) \in Lists
        /\ \A g \in Holder, y \in Atom :
             Flushed(contents, pending, a)[g][y]
               = IF g = a THEN contents[a][y] - pending[a][y] ELSE contents[g][y]
  BY <1>1, FlushedAt
<1>3. /\ contents' = [h \in Holder |->
           IF h \in Area THEN Flushed(contents, pending, h)[h] ELSE contents[h]]
      /\ pending' = [a \in Area |-> Nothing]
      /\ UNCHANGED <<born, alive, loc, listed, maxx, worldTurf, worldArea, stranded>>
  BY DEF FlushAll
<1>4. \A h \in Holder : contents'[h] \in [Atom -> Nat]
  BY <1>1, <1>2, <1>3 DEF Lists
<1>5. contents' \in Lists
  BY <1>3, <1>4 DEF Lists
<1>6. Nothing \in [Atom -> Nat] /\ \A x \in Atom : Nothing[x] = 0
  BY DEF Nothing
<1>7. pending' \in [Area -> [Atom -> Nat]]
  BY <1>3, <1>6
<1>8. \A h \in Holder : h \notin Area => contents'[h] = contents[h]
  BY <1>3
<1>9. ASSUME NEW a \in Area, NEW x \in Atom
      PROVE  contents'[a][x] = contents[a][x] - pending[a][x] /\ pending'[a][x] = 0
  <2>1. a \in Holder
    BY Kinds
  <2>2. contents'[a] = Flushed(contents, pending, a)[a]
    BY <1>3, <2>1
  <2> QED
    BY <1>2, <1>3, <1>6, <2>1, <2>2
<1> DEFINE flush == Area
<1>10. /\ flush \in SUBSET Area
       /\ \A a \in Area : a \notin flush => pending'[a] = pending[a]
  OBVIOUS
<1> QED
  BY <1>3, <1>5, <1>7, <1>8, <1>9, <1>10, FlushedInv
-----------------------------------------------------------------------------
(* The invariant and the properties.                                       *)

(* The world of one column the map allocation leaves.                      *)
LEMMA ContentsInit == Init => ContentsInv
<1> SUFFICES ASSUME Init PROVE ContentsInv
  OBVIOUS
<1>1. PICK t \in Turf :
        /\ born = {t} \cup Movable
        /\ loc = [x \in Atom |-> IF x = t THEN SpaceArea ELSE None]
        /\ contents = [h \in Holder |->
             IF h = SpaceArea THEN [Nothing EXCEPT ![t] = 1] ELSE Nothing]
        /\ worldTurf = [c \in Cell |-> IF c = 1 THEN t ELSE None]
        /\ worldArea = [c \in Cell |-> IF c = 1 THEN SpaceArea ELSE None]
  BY DEF Init
<1>2. /\ alive = born
      /\ listed = {SpaceArea}
      /\ pending = [a \in Area |-> Nothing]
      /\ maxx = 1
      /\ stranded = {}
  BY DEF Init
<1>3. /\ Nothing \in [Atom -> Nat]
      /\ \A x \in Atom : Nothing[x] = 0
      /\ [Nothing EXCEPT ![t] = 1] \in [Atom -> Nat]
      /\ \A x \in Atom : [Nothing EXCEPT ![t] = 1][x] = IF x = t THEN 1 ELSE 0
  BY DEF Nothing
<1>4. MaxX \in Nat \ {0} /\ Cell = 1 .. MaxX /\ 1 \in Cell
  BY ContentsAssumption DEF Cell
<1>5. /\ t \in Atom /\ t # None /\ t \notin Movable /\ t \notin Area
      /\ SpaceArea \in Area /\ SpaceArea \in Holder /\ SpaceArea \notin Atom
      /\ SpaceArea # None
  BY Kinds
<1>6. None \notin Holder
  BY ContentsAssumption DEF Holder
<1>7. ContentsTypeOK
  <2>1. contents \in [Holder -> [Atom -> Nat]]
    BY <1>1, <1>3
  <2>2. loc \in [Atom -> Holder \cup {None}]
    BY <1>1, <1>5
  <2> QED
    BY <1>1, <1>2, <1>3, <1>4, <1>5, <2>1, <2>2, Kinds DEF ContentsTypeOK
<1>8. DeadHoldNothing /\ NamedInLists /\ WellPlaced /\ CellsDistinct
  <2>1. DeadHoldNothing
    BY <1>1, <1>2, <1>5, Kinds DEF DeadHoldNothing
  <2>2. NamedInLists
    BY <1>1, <1>2, <1>3 DEF NamedInLists
  <2>3. WellPlaced
    BY <1>1, <1>2, <1>5, Kinds DEF WellPlaced
  <2>4. CellsDistinct
    BY <1>1, <1>5 DEF CellsDistinct
  <2> QED
    BY <2>1, <2>2, <2>3, <2>4
<1>9. ContentsMirrorLoc
  <2> SUFFICES ASSUME NEW h \in (Turf \cup Movable) \cap alive, NEW x \in Atom
               PROVE  contents[h][x] = Times(loc[x] = h)
    BY DEF ContentsMirrorLoc
  <2>1. h \in Holder /\ h # SpaceArea /\ h # None
    BY <1>5, Kinds DEF Atom
  <2>2. contents[h][x] = 0
    BY <1>1, <1>3, <2>1
  <2>3. loc[x] # h
    BY <1>1, <2>1
  <2> QED
    BY <2>2, <2>3 DEF Times
<1>10. ListsAgree
  <2> SUFFICES ASSUME NEW a \in Area, NEW x \in Atom
               PROVE  Effective(a, x) = Times(BelongsIn(a, x))
                      /\ Times(BelongsIn(a, x)) \in Nat
    BY DEF ListsAgree
  <2>1. a \in Holder /\ a # None
    BY Kinds
  <2>2. pending[a][x] = 0
    BY <1>2, <1>3
  <2>3. contents[a][x] = IF a = SpaceArea /\ x = t THEN 1 ELSE 0
    BY <1>1, <1>3, <2>1
  <2>4. EnclosingArea(loc[x]) = None
    BY <1>1, <1>5, Kinds DEF EnclosingArea
  <2>5. BelongsIn(a, x) <=> a = SpaceArea /\ x = t
    BY <1>1, <1>2, <2>1, <2>4 DEF BelongsIn
  <2>6. CASE a = SpaceArea /\ x = t
    BY <2>2, <2>3, <2>5, <2>6 DEF Effective, Times
  <2>7. CASE ~(a = SpaceArea /\ x = t)
    BY <2>2, <2>3, <2>5, <2>7 DEF Effective, Times
  <2> QED
    BY <2>6, <2>7
<1>11. GeometryAgrees
  BY <1>1, <1>2, <1>4, <1>5 DEF GeometryAgrees, Cell
<1>12. NeverInsideItself
  BY <1>1, <1>6, Kinds DEF NeverInsideItself, Holder
<1> QED
  BY <1>7, <1>8, <1>9, <1>10, <1>11, <1>12 DEF ContentsInv, AreasAgree

(* Every step keeps the invariant.                                         *)
LEMMA ContentsNext == ContentsInv /\ [Next]_vars => ContentsInv'
<1> SUFFICES ASSUME ContentsInv, [Next]_vars PROVE ContentsInv'
  OBVIOUS
<1>1. ASSUME NEW m \in Movable, NEW t \in Turf, MoveToTurf(m, t)
      PROVE  ContentsInv'
  <2>1. t \notin Movable /\ m \in Movable \cap alive /\ t \in Area \cup alive \cup {None}
    BY <1>1, Kinds DEF MoveToTurf
  <2> QED
    BY <1>1, <2>1, MoveToInv DEF MoveToTurf
<1>2. ASSUME NEW m \in Movable, NEW h \in Area \cup Movable, MoveToAtom(m, h)
      PROVE  ContentsInv'
  <2>1. m \in Movable \cap alive /\ h \in Area \cup alive \cup {None}
    BY <1>2 DEF MoveToAtom
  <2> QED
    BY <1>2, <2>1, MoveToInv DEF MoveToAtom
<1>3. ASSUME NEW m \in Movable, MoveToNull(m)
      PROVE  ContentsInv'
  <2>1. m \in Movable \cap alive /\ None \in Area \cup alive \cup {None}
        /\ None \notin Movable
    BY <1>3, ContentsAssumption DEF MoveToNull
  <2> QED
    BY <1>3, <2>1, MoveToInv DEF MoveToNull
<1>4. ASSUME Next PROVE ContentsInv'
  BY <1>1, <1>2, <1>3, <1>4, QdelInv, DelInv, MoveTurfInv, FlushInv, FlushAllInv,
     ShrinkInv, GrowInv DEF Next
<1> QED
  BY <1>4, UnchangedInv

(* In every reachable state the inductive invariant holds.                 *)
THEOREM Invariant == Spec => []ContentsInv
BY ContentsInit, ContentsNext, PTL DEF Spec

(* Every loc, list, queue and cell has its type, whatever the sizes of the *)
(* world and of its populations (remove_first and subtract_entries never   *)
(* leave a count below zero).                                              *)
THEOREM TypeCorrect == Spec => []ContentsTypeOK
<1>1. ContentsInv => ContentsTypeOK
  BY DEF ContentsInv
<1> QED
  BY <1>1, Invariant, PTL

(* The lists of turfs and movables name exactly what lies in them and what *)
(* del destroyed in them, through every order of moves, deletions and      *)
(* resizes: the double update of synchronize_moved_atom_contents never     *)
(* drifts from the loc fields, and execute_del takes nothing out.          *)
THEOREM MirrorHolds == Spec => []ContentsMirrorLoc
<1>1. ContentsInv => ContentsMirrorLoc
  BY DEF ContentsInv
<1> QED
  BY <1>1, Invariant, PTL

(* The loc of a turf, the lists of the areas with their queued departures  *)
(* (pending_area_uncontain) and the coordinate index agree, however        *)
(* move_turf_to_area, the flushes, the resizes, qdel and del interleave.   *)
THEOREM AreasHold == Spec => []AreasAgree
<1>1. ContentsInv => AreasAgree
  BY DEF ContentsInv
<1> QED
  BY <1>1, Invariant, PTL

(* The cycle check of move_movable_to_atom keeps every movable out of      *)
(* itself, at any depth and among any number of movables.                  *)
THEOREM NoneInsideItself == Spec => []NeverInsideItself
<1>1. ContentsInv => NeverInsideItself
  BY DEF ContentsInv
<1> QED
  BY <1>1, Invariant, PTL
=============================================================================
