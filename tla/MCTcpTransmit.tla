---------------------------- MODULE MCTcpTransmit ----------------------------
(* Instances of TcpTransmit for TLC.                                         *)
EXTENDS TcpTransmit
=============================================================================
