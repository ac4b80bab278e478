----------------------------- MODULE MCSockets -----------------------------
(* Two tasks compete for two ports: one receives from a UDP socket of its    *)
(* own, the other has a set of one or two UDP sockets, or of a connection,   *)
(* from which it also receives and to which it sends.                        *)
EXTENDS Sockets

MCOwner == [s \in Sockets |-> IF s = "u1" THEN "reader" ELSE "selector"]

MCWants == [s \in Sockets |-> CASE s = "u1" -> {}
                               [] s \in {"u2", "u3"} -> {"READ"}
                               [] s = "c" -> eSELECT_ALL]

MCCasts == {{"u1", "u2"}, {"u2", "u3"}, {"c"}}
=============================================================================
