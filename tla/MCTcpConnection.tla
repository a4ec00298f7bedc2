-------------------------- MODULE MCTcpConnection ---------------------------
(* Small instances of TcpConnection.                                       *)
EXTENDS TcpConnection
=============================================================================
