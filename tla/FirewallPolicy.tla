---------------------------- MODULE FirewallPolicy ----------------------------
(***************************************************************************)
(* What the firewall promises, without pointers: a policy gives each group *)
(* that exists a sequence of rules; a frame is accepted for a group if     *)
(* some rule of the group accepts it.                                      *)
(***************************************************************************)
EXTENDS Naturals, SequencesExt

CONSTANTS Name, Rule, NoGroup

VARIABLE policy

Init == policy = [n \in Name |-> NoGroup]

AddGroup(n) ==
  /\ policy[n] = NoGroup
  /\ policy' = [policy EXCEPT ![n] = << >>]

RemoveGroup(n) ==
  /\ policy[n] # NoGroup
  /\ policy' = [policy EXCEPT ![n] = NoGroup]

AddRule(n, r) ==
  /\ policy[n] # NoGroup
  /\ \A m \in Name : policy[m] # NoGroup => r \notin Range(policy[m])
  /\ policy' = [policy EXCEPT ![n] = Append(@, r)]

RemoveRule(n, r) ==
  /\ policy[n] # NoGroup
  /\ \E i \in 1..Len(policy[n]) :
       /\ policy[n][i] = r
       /\ policy' = [policy EXCEPT ![n] = RemoveAt(@, i)]

Next ==
  \E n \in Name :
    \/ AddGroup(n)
    \/ RemoveGroup(n)
    \/ \E r \in Rule : AddRule(n, r) \/ RemoveRule(n, r)

Spec == Init /\ [][Next]_policy

=============================================================================
