----------------------------- MODULE BufferCustody -----------------------------
(***************************************************************************)
(* What the network path promises about its buffers, without descriptors,  *)
(* program counters or queues of events: every buffer is in one place, and *)
(* it moves only along the edges of this graph, one buffer at a time.      *)
(*                                                                         *)
(*      pool --> queue   a frame was received                              *)
(*      pool --> ip      an ARP request is built                           *)
(*      pool --> app     a datagram is built                               *)
(*      app  --> queue   it is handed to the IP task                       *)
(*      queue --> ip     the event is taken up                             *)
(*      ip   --> socket  the payload waits for the user                    *)
(*      socket --> app   the user reads it                                 *)
(*      ip, app --> pool the buffer is released                            *)
(*      ip   --> lost    the answer in it is too long to be sent           *)
(***************************************************************************)
CONSTANT Buffer

VARIABLE place

Move == { << "pool", "queue" >>, << "pool", "ip" >>, << "pool", "app" >>, << "app", "queue" >>,
          << "queue", "ip" >>, << "ip", "socket" >>, << "socket", "app" >>,
          << "ip", "pool" >>, << "app", "pool" >>, << "ip", "lost" >> }

Init == place = [b \in Buffer |-> "pool"]

Next ==
  \E b \in Buffer : \E move \in Move :
    /\ place[b] = move[1]
    /\ place' = [place EXCEPT ![b] = move[2]]

Spec == Init /\ [][Next]_place

=============================================================================
