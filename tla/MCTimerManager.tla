--------------------------- MODULE MCTimerManager ---------------------------
(* Constants of the model-checking runs of TimerManager. *)
EXTENDS TimerManager, TLC

TimerSymmetry == Permutations(Timers)
=============================================================================
