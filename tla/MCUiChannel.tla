---------------------------- MODULE MCUiChannel ----------------------------
(* Model-checking instances of UiChannel. *)
EXTENDS UiChannel
=============================================================================
