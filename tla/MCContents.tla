---- MODULE MCContents ----
EXTENDS Contents, TLC
Symmetric == Permutations(Turf) \cup Permutations(Movable)
====
