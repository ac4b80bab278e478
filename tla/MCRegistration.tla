---------------------------- MODULE MCRegistration ----------------------------
(* Registration on a small instance: a second attempt while answers to the     *)
(* first are still on their way.                                               *)
EXTENDS Registration

=============================================================================
