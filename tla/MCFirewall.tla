------------------------------ MODULE MCFirewall ------------------------------
(* Firewall on a small instance: three groups, two of them with one name.     *)
EXTENDS Firewall, TLC

CONSTANTS g1, g2, g3, ethernet, other

MCNameOf == (g1 :> ethernet) @@ (g2 :> ethernet) @@ (g3 :> other)

Symmetry == Permutations(Rule)

=============================================================================
