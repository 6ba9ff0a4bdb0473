----------------------------- MODULE MCTcpServer ----------------------------
(* Constants of the model-checking run of TcpServer. *)
EXTENDS TcpServer
=============================================================================
