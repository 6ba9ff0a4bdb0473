------------------------------ MODULE MCBuffer ------------------------------
(* Constants of the model-checking runs of Buffer. *)
EXTENDS Buffer
=============================================================================
