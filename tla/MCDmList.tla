------------------------------ MODULE MCDmList ------------------------------
(* Model-checking instance of DmList and ListOps: two values whose hashes  *)
(* collide, a NaN, and thresholds low enough that both indexes exist.      *)
EXTENDS ListOps

CONSTANTS nul, a, nan, path

Hashes == (nul :> 7) @@ (a :> 7)

\* The label of the last operation decides nothing.
Storage == list
=============================================================================
