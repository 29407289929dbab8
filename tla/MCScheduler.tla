---------------------------- MODULE MCScheduler ----------------------------
(* Model-checking instances of Scheduler. *)
EXTENDS Scheduler

(* Negative, zero, less than a tick, and two ticks. *)
AllDelays == {-4, 0, 1, 4}
=============================================================================
