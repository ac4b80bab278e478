SPECIFICATION FirewallSpec
CONSTANTS
  g1 = g1
  g2 = g2
  g3 = g3
  ethernet = ethernet
  other = other
  Group = {g1, g2, g3}
  Name = {ethernet, other}
  NameOf <- MCNameOf
  Rule = {r1, r2, r3}
  firewallGroupHead = firewallGroupHead
  Null = Null
  Wild = Wild
  NoGroup = NoGroup
SYMMETRY Symmetry
INVARIANTS
  ListsInv
  VerdictFollowsPolicy
PROPERTY
  ImplementsPolicy
