-------------------------------- MODULE MCRsa --------------------------------
(* Rsa on two words of four bits: numbers with every carry and borrow, full    *)
(* and empty words, and every distance between the lengths of two numbers.     *)
EXTENDS Rsa

MCInstance ==
  [data : {0, 1, 2, 15, 16, 77, 128, 200, 240, 254, 255},
   expo : {0, 1, 2, 15, 16, 17, 100, 128, 143, 255},
   key : {2, 3, 15, 16, 17, 64, 127, 143, 240, 241, 255}]

=============================================================================
