---------------------------- MODULE MCBufferPool ----------------------------
(* BufferPool on a small instance: the model values of the cfg files.         *)
EXTENDS BufferPool, TLC

\* No action or property tells one task or one descriptor from another.
Symmetry == Permutations(Task) \cup Permutations(Buffer)

=============================================================================
