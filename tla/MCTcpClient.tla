---------------------------- MODULE MCTcpClient -----------------------------
(* Constants of the model-checking runs of TcpClient. *)
EXTENDS TcpClient
=============================================================================
