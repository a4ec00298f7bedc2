---------------------------- MODULE MCTcpServer -----------------------------
(* Thread pools of the small instance of TcpServer.                        *)
EXTENDS TcpServer

SomeThreads == {<<>>, <<"io1", "io2">>}
=============================================================================
