------------------------------ MODULE MCArpCache ------------------------------
(* ArpCache on a small instance: more hosts than rows.                        *)
EXTENDS ArpCache, TLC

\* No action or property tells one hardware address from another.
Symmetry == Permutations(Mac)

=============================================================================
