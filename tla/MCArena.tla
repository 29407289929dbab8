------------------------------ MODULE MCArena ------------------------------
(* Model-checking instance of Arena. *)
EXTENDS Arena, TLC

Symmetry == Permutations(Payload)
=============================================================================
