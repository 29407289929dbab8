---------------------------- MODULE MCCollector ----------------------------
(* Model-checking instances of Collector. *)
EXTENDS Collector, TLC

Symmetry == Permutations(Obj) \cup Permutations(Thread)
=============================================================================
