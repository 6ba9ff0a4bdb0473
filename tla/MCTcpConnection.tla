-------------------------- MODULE MCTcpConnection ---------------------------
(* Constants of the model-checking runs of TcpConnection. *)
EXTENDS TcpConnection
=============================================================================
