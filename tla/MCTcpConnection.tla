-------------------------- MODULE MCTcpConnection ---------------------------
(* Two sockets, so that two children wait at the same time, or one child and *)
(* the client's; one peer returns while its last socket still exists.        *)
EXTENDS TcpConnection
=============================================================================
