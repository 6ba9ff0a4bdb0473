------------------------ MODULE MCNetworkLoopThread -------------------------
(* Constants of the model-checking runs of NetworkLoopThread. *)
EXTENDS NetworkLoopThread
=============================================================================
