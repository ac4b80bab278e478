---------------------------- MODULE SocketCustody ----------------------------
(* Who may use a TCP socket.  A child of a listening socket is the stack's   *)
(* until it connects, is then offered once and belongs to the task that      *)
(* accepts it; a task's own socket is its from the start.  A task keeps a    *)
(* socket until it asks for it to be closed, and only then is it deleted.    *)
CONSTANT Sockets

VARIABLES free, orphans, offered, owned, closing

vars == <<free, orphans, offered, owned, closing>>

Init == /\ free = Sockets
        /\ orphans = {} /\ offered = {} /\ owned = {} /\ closing = {}

Arrive == \E s \in free : /\ free' = free \ {s}
                          /\ orphans' = orphans \cup {s}
                          /\ UNCHANGED <<offered, owned, closing>>

Open == \E s \in free : /\ free' = free \ {s}
                        /\ owned' = owned \cup {s}
                        /\ UNCHANGED <<orphans, offered, closing>>

Offer == \E s \in orphans : /\ orphans' = orphans \ {s}
                            /\ offered' = offered \cup {s}
                            /\ UNCHANGED <<free, owned, closing>>

Accept == \E s \in offered : /\ offered' = offered \ {s}
                             /\ owned' = owned \cup {s}
                             /\ UNCHANGED <<free, orphans, closing>>

Abandon == \E s \in orphans : /\ orphans' = orphans \ {s}
                              /\ free' = free \cup {s}
                              /\ UNCHANGED <<offered, owned, closing>>

Refuse == \E s \in orphans : /\ orphans' = orphans \ {s}
                             /\ closing' = closing \cup {s}
                             /\ UNCHANGED <<free, offered, owned>>

Close == \E s \in owned : /\ owned' = owned \ {s}
                          /\ closing' = closing \cup {s}
                          /\ UNCHANGED <<free, orphans, offered>>

Delete == \E s \in closing : /\ closing' = closing \ {s}
                             /\ free' = free \cup {s}
                             /\ UNCHANGED <<orphans, offered, owned>>

Next == Arrive \/ Open \/ Offer \/ Accept \/ Abandon \/ Refuse \/ Close \/ Delete

Spec == Init /\ [][Next]_vars
=============================================================================
