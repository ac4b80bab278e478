---------------------------- MODULE MCTcpReceive ----------------------------
(* Instances of TcpReceive for TLC.                                          *)
EXTENDS TcpReceive

\* Data in the pieces of one segmentation, acknowledgements without data that
\* run ahead of it, and the FIN alone or with the last piece.
Piece(at, len, fin) == [at |-> at, len |-> len, fin |-> fin]
OneCut == {Piece(0, 2, FALSE), Piece(2, 1, FALSE), Piece(3, 2, FALSE),
           Piece(5, 1, TRUE), Piece(3, 0, FALSE), Piece(6, 0, TRUE)}

\* The peer repeats two pieces as one when it sends them again.
TwoCuts == {Piece(0, 1, FALSE), Piece(1, 1, FALSE), Piece(2, 2, FALSE),
            Piece(0, 3, FALSE)}
=============================================================================
