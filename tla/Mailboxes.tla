------------------------------ MODULE Mailboxes ------------------------------
(* What the UDP ports promise: a port that is taken keeps what arrives for   *)
(* it, in order, until its owner takes it, once, or gives up the port; what  *)
(* arrives for other ports is lost.                                          *)
EXTENDS Sequences

CONSTANTS Ports, Datagrams, Nobody

VARIABLE box  \* what waits at each port, Nobody if the port is free

Init == box = [p \in Ports |-> Nobody]

Claim(p) == /\ box[p] = Nobody
            /\ box' = [box EXCEPT ![p] = <<>>]

Arrive(p) == /\ box[p] # Nobody
             /\ \E d \in Datagrams : box' = [box EXCEPT ![p] = Append(@, d)]

Take(p) == /\ box[p] \notin {Nobody, <<>>}
           /\ box' = [box EXCEPT ![p] = Tail(@)]

Leave(p) == /\ box[p] # Nobody
            /\ box' = [box EXCEPT ![p] = Nobody]

Next == \E p \in Ports : Claim(p) \/ Arrive(p) \/ Take(p) \/ Leave(p)

Spec == Init /\ [][Next]_box
=============================================================================
