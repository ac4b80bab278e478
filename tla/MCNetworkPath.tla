---------------------------- MODULE MCNetworkPath ----------------------------
(* NetworkPath on a small instance: the model values of the cfg files.        *)
EXTENDS NetworkPath

=============================================================================
