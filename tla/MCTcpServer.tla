---------------------------- MODULE MCTcpServer ----------------------------
(* TLC instance of TcpServer. *)
EXTENDS TcpServer
=============================================================================
