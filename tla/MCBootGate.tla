----------------------------- MODULE MCBootGate -----------------------------
(* Model-checking instance of BootGate. *)
EXTENDS BootGate
=============================================================================
