---------------------------- MODULE BufferOwnership ----------------------------
(***************************************************************************)
(* What the network buffer pool promises its callers, without semaphore or *)
(* list: every descriptor has at most one holder, it is handed out only    *)
(* while nobody holds it, and only the Ethernet handler passes a           *)
(* descriptor on to somebody else without the pool in between.             *)
(***************************************************************************)
CONSTANTS Buffer, Task, Handler, Nobody

VARIABLE holder

Holder == Task \cup {Handler}

Init == holder = [b \in Buffer |-> Nobody]

Acquire(h, b) ==
  /\ holder[b] = Nobody
  /\ holder' = [holder EXCEPT ![b] = h]

Release(b) ==
  /\ holder[b] # Nobody
  /\ holder' = [holder EXCEPT ![b] = Nobody]

PassOn(t, b) ==
  /\ holder[b] = Handler
  /\ holder' = [holder EXCEPT ![b] = t]

Next ==
  \E b \in Buffer :
    \/ \E h \in Holder : Acquire(h, b)
    \/ Release(b)
    \/ \E t \in Task : PassOn(t, b)

Spec == Init /\ [][Next]_holder

=============================================================================
