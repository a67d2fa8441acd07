----------------------------- MODULE MCTcpClient -----------------------------
(* TcpClient as the configurations of TLC instantiate it. *)
EXTENDS TcpClient
===============================================================================
