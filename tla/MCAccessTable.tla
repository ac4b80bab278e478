---------------------------- MODULE MCAccessTable ----------------------------
(* AccessTable on a small instance: one name is a prefix of another, two names *)
(* of different length share no prefix, and one of them is the server's.       *)
EXTENDS AccessTable, TLC

CONSTANTS t, v, b

MCNames == { << t >>, << t, v >>, << b >> }

MCauthName == << b >>

MCPeer == { [name |-> << t >>, ip |-> 104], [name |-> << t, v >>, ip |-> 105],
            [name |-> << b >>, ip |-> 106] }

=============================================================================
