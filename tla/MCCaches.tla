------------------------------ MODULE MCCaches ------------------------------
(* Model-checking instances of Caches.                                       *)
EXTENDS Caches, TLC

Symmetric == Permutations(Defines)

Source(names, decl) == [procs |-> [n \in names |-> "body"], decls |-> decl]

(* A procedure is added or goes, and with it the dense indices of the others. *)
TwoSources == {Source({1, 2}, "d"), Source({2}, "d")}

(* One procedure; what it reads is declared differently.                     *)
TwoDeclarations == {Source({1}, "d"), Source({1}, "e")}
=============================================================================
