------------------------ MODULE AcknowledgedTransfer -------------------------
(* What the sending half of a connection promises its owner: the bytes the   *)
(* owner has written reach the peer, none leaves the buffer before the peer  *)
(* has it, at most Capacity are kept, and the connection is finished when    *)
(* all of them have arrived; or it is given up.                              *)
EXTENDS Naturals

CONSTANT Capacity

VARIABLES written,   \* bytes the owner has written
          held,      \* the bytes the peer has
          released,  \* bytes that have left the buffer
          outcome    \* "open", "finished" or "given up"

Init == /\ written = 0 /\ held = {} /\ released = 0
        /\ outcome = "open"

Write == /\ outcome # "finished"
         /\ written' \in written .. released + Capacity
         /\ UNCHANGED <<held, released, outcome>>

Carry == /\ held \subseteq held'
         /\ held' \subseteq 0 .. written - 1
         /\ UNCHANGED <<written, released, outcome>>

Release == /\ released' > released
           /\ 0 .. released' - 1 \subseteq held
           /\ UNCHANGED <<written, held, outcome>>

Finish == /\ outcome = "open" /\ released = written
          /\ outcome' = "finished"
          /\ UNCHANGED <<written, held, released>>

GiveUp == /\ outcome = "open"
          /\ outcome' = "given up"
          /\ UNCHANGED <<written, held, released>>

Next == Write \/ Carry \/ Release \/ Finish \/ GiveUp

Spec == Init /\ [][Next]_<<written, held, released, outcome>>
=============================================================================
