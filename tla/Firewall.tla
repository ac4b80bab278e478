------------------------------- MODULE Firewall -------------------------------
(***************************************************************************)
(* The firewall of FreeRTOS-Plus-TCP/firewall.c: a linked list of groups,  *)
(* each with a linked list of rules.  A task (LEDTask of led_task.c) edits *)
(* the lists; the Ethernet interrupt handler walks them for every frame,   *)
(* between any two writes of the task.  No lock protects them.             *)
(*                                                                         *)
(* The structures belong to the caller.  next_rule_struct is private, so   *)
(* the caller leaves it as it is: on LEDTask's stack, whatever was there   *)
(* before (Wild).                                                          *)
(***************************************************************************)
EXTENDS Naturals, FiniteSets, SequencesExt

CONSTANTS
  Group, Rule,   \* the structures the caller owns
  Name,          \* the names of groups
  NameOf,        \* group_name of each structure
  firewallGroupHead,  \* the entry the list of groups starts from
  Null,          \* 0
  Wild,          \* memory nobody has written
  NoGroup        \* in the policy, for a name no group has

ASSUME StructureAssumption ==
  /\ IsFiniteSet(Group) /\ IsFiniteSet(Rule)
  /\ NameOf \in [Group -> Name]
  /\ firewallGroupHead \notin Group
  /\ {Null, Wild} \cap (Group \cup Rule \cup {firewallGroupHead}) = {}
  /\ NoGroup \notin Seq(Rule)

VARIABLES
  next_group_struct,  \* of firewallGroupHead and of each group
  first_rule,         \* of each group
  next_rule_struct,   \* of each rule
  pending             \* the rule u32FirewallAddRule has linked but not terminated, or Null

firewallVars == << next_group_struct, first_rule, next_rule_struct, pending >>

-----------------------------------------------------------------------------
(* Walks along the lists.  A walk that visits more structures than there are *)
(* has met a cycle.                                                          *)

\* The k-th structure from the first one on.
Walk(first, next, all) ==
  LET at[k \in 0..Cardinality(all)] ==
        IF k = 0 THEN first
        ELSE IF at[k - 1] \in all THEN next[at[k - 1]] ELSE at[k - 1]
  IN at

Chain(first, next, all) ==
  LET at == Walk(first, next, all)
  IN [k \in { i \in 1..Cardinality(all) : at[i - 1] \in all } |-> at[k - 1]]

\* The walk comes to the terminating 0.
Terminates(first, next, all) == Walk(first, next, all)[Cardinality(all)] = Null

Groups == Chain(next_group_struct[firewallGroupHead], next_group_struct, Group)

LinkedGroups == Range(Groups)

Rules(g) == Chain(first_rule[g], next_rule_struct, Rule)

LinkedRules == UNION { Range(Rules(g)) : g \in LinkedGroups }

\* The first group of the list that has the name.
Named(n) == { g \in LinkedGroups : NameOf[g] = n }

Find(n) == LET i == CHOOSE i \in DOMAIN Groups :
                      /\ NameOf[Groups[i]] = n
                      /\ \A j \in DOMAIN Groups : NameOf[Groups[j]] = n => i <= j
           IN Groups[i]

-----------------------------------------------------------------------------

FirewallInit ==
  /\ next_group_struct = [g \in Group \cup {firewallGroupHead} |-> Null]
  /\ first_rule = [g \in Group |-> Null]
  /\ next_rule_struct = [r \in Rule |-> Wild]
  /\ pending = Null

LastGroup == IF Groups = << >> THEN firewallGroupHead ELSE Last(Groups)

\* u32FirewallAddGroup.  A name that is in use is refused.  The fields are set before
\* the group is linked, so the handler never sees them half set: one step.
AddGroup(g) ==
  /\ pending = Null
  /\ Named(NameOf[g]) = {}
  /\ first_rule' = [first_rule EXCEPT ![g] = Null]
  /\ next_group_struct' = [next_group_struct EXCEPT ![g] = Null, ![LastGroup] = g]
  /\ UNCHANGED << next_rule_struct, pending >>

\* The caller adds no rule that is in a list.  One that was removed may come again.
MayAdd(r) == r \notin LinkedRules

\* A slip: the new rule becomes the first one and the others are forgotten.
AddRuleLinkFirst(n, r) ==
  /\ pending = Null
  /\ MayAdd(r)
  /\ Named(n) # {}
  /\ first_rule' = [first_rule EXCEPT ![Find(n)] = r]
  /\ pending' = r
  /\ UNCHANGED << next_group_struct, next_rule_struct >>

\* u32FirewallAddRule, up to the write that links the rule behind the last one ...
AddRuleLink(n, r) ==
  /\ pending = Null
  /\ MayAdd(r)
  /\ Named(n) # {}
  /\ LET g == Find(n)
     IN IF first_rule[g] = Null
          THEN /\ first_rule' = [first_rule EXCEPT ![g] = r]
               /\ UNCHANGED next_rule_struct
          ELSE /\ next_rule_struct' = [next_rule_struct EXCEPT ![Last(Rules(g))] = r]
               /\ UNCHANGED first_rule
  /\ pending' = r
  /\ UNCHANGED << next_group_struct >>

\* A slip: the new rule's link is not written.
AddRuleNotTerminated ==
  /\ pending # Null
  /\ pending' = Null
  /\ UNCHANGED << next_group_struct, first_rule, next_rule_struct >>

\* ... and the write that terminates the list, after it.
AddRuleTerminate ==
  /\ pending # Null
  /\ next_rule_struct' = [next_rule_struct EXCEPT ![pending] = Null]
  /\ pending' = Null
  /\ UNCHANGED << next_group_struct, first_rule >>

\* u32FirewallRemoveRule: one write takes the rule out.  Its own link is left as it is.
RemoveRule(r) ==
  /\ pending = Null
  /\ r \in LinkedRules
  /\ \/ \E g \in LinkedGroups :
          /\ first_rule[g] = r
          /\ first_rule' = [first_rule EXCEPT ![g] = next_rule_struct[r]]
          /\ UNCHANGED next_rule_struct
     \/ \E p \in LinkedRules :
          /\ next_rule_struct[p] = r
          /\ next_rule_struct' = [next_rule_struct EXCEPT ![p] = next_rule_struct[r]]
          /\ UNCHANGED first_rule
  /\ UNCHANGED << next_group_struct, pending >>

\* u32FirewallRemoveGroup, and u32FirewallRemoveGWname with the name of g: the group
\* leaves the list with its rules.
RemoveGroup(g) ==
  /\ pending = Null
  /\ g \in LinkedGroups
  /\ \E p \in LinkedGroups \cup {firewallGroupHead} :
       /\ next_group_struct[p] = g
       /\ next_group_struct' = [next_group_struct EXCEPT ![p] = next_group_struct[g]]
  /\ UNCHANGED << first_rule, next_rule_struct, pending >>

-----------------------------------------------------------------------------
(* u32FirewallCheckRule, called by the interrupt handler, in any state, for  *)
(* a frame that the rules in matching accept.  It writes nothing.            *)

\* A slip: a group that does not exist lets every frame pass.
CheckOpen(n, matching) ==
  IF Named(n) = {} THEN "accept"
  ELSE IF Range(Rules(Find(n))) \cap matching # {} THEN "accept"
  ELSE IF Terminates(first_rule[Find(n)], next_rule_struct, Rule) THEN "reject"
  ELSE "lost"

\* The walk ends at the first rule that accepts, or at the end of the list; "lost" is
\* a walk that goes round for ever or into memory nobody has written.
Check(n, matching) ==
  IF Named(n) = {} THEN "reject"
  ELSE IF Range(Rules(Find(n))) \cap matching # {} THEN "accept"
  ELSE IF Terminates(first_rule[Find(n)], next_rule_struct, Rule) THEN "reject"
  ELSE "lost"

-----------------------------------------------------------------------------

FirewallNext ==
  \/ \E g \in Group : AddGroup(g) \/ RemoveGroup(g)
  \/ \E n \in Name, r \in Rule : AddRuleLink(n, r)
  \/ \E r \in Rule : RemoveRule(r)
  \/ AddRuleTerminate

FirewallSpec == FirewallInit /\ [][FirewallNext]_firewallVars

-----------------------------------------------------------------------------

\* Type correctness.
FirewallTypeOK ==
  /\ next_group_struct \in [Group \cup {firewallGroupHead} -> Group \cup {Null}]
  /\ first_rule \in [Group -> Rule \cup {Null}]
  /\ next_rule_struct \in [Rule -> Rule \cup {Null, Wild}]
  /\ pending \in Rule \cup {Null}

\* The lists as they are once the addition in progress is complete.
Completed == IF pending = Null THEN next_rule_struct
                               ELSE [next_rule_struct EXCEPT ![pending] = Null]

CompletedRules(g) == Chain(first_rule[g], Completed, Rule)

PolicyOf(n) == IF Named(n) = {} THEN NoGroup ELSE CompletedRules(Find(n))

Policy == INSTANCE FirewallPolicy WITH policy <- [n \in Name |-> PolicyOf(n)]

\* The lists implement the policy: whatever the sequence of additions and removals, an
\* addition appends one rule to one group and a removal takes out one rule or one
\* group, although structures are used again with the links they had before.
ImplementsPolicy == Policy!Spec

\* A complete list never loops and never leaves the rules of the caller, and no two
\* groups share a rule (firewall.c:37-44, 86-91).
ListsAreWellFormed ==
  /\ Terminates(next_group_struct[firewallGroupHead], next_group_struct, Group)
  /\ \A g \in LinkedGroups : Terminates(first_rule[g], Completed, Rule)
  /\ \A g, h \in LinkedGroups :
       g # h => Range(CompletedRules(g)) \cap Range(CompletedRules(h)) = {}

\* The invariant of the lists (firewall.c:26-118).
ListsInv == FirewallTypeOK /\ ListsAreWellFormed

Accepts(n, matching) ==
  PolicyOf(n) # NoGroup /\ Range(PolicyOf(n)) \cap matching # {}

\* Between any two writes of the task, a frame the handler accepts is accepted by a
\* rule of the policy, and one it rejects is accepted by none; default is deny.  The
\* rules of led_task.c are added once, so the rule being linked has no link left over
\* from another list; the verdict on a frame that meets such a link is not promised.
VerdictFollowsPolicy ==
  (pending # Null => next_rule_struct[pending] \notin Rule) =>
    \A n \in Name, matching \in SUBSET Rule :
      /\ Check(n, matching) = "accept" => Accepts(n, matching)
      /\ Check(n, matching) = "reject" => ~Accepts(n, matching)

\* What follows the i-th structure of a list that ends with end; the first follows the 0th.
Following(s, end, i) == IF i < Len(s) THEN s[i + 1] ELSE end

\* The links that begin with first lead along s, and after it to end.
IsList(first, next, end, s) ==
  /\ IsInjective(s)
  /\ first = Following(s, end, 0)
  /\ \A i \in 1..Len(s) : next[s[i]] = Following(s, end, i)

\* The links make the groups gs, of different names, each g with the rules rs[g], and no
\* rule is in two groups.
Shape(ng, fr, nr, gs, rs) ==
  /\ gs \in Seq(Group) /\ IsList(ng[firewallGroupHead], ng, Null, gs)
  /\ \A i, j \in 1..Len(gs) : NameOf[gs[i]] = NameOf[gs[j]] => i = j
  /\ \A g \in Range(gs) : rs[g] \in Seq(Rule) /\ IsList(fr[g], nr, Null, rs[g])
  /\ \A g, h \in Range(gs) : g # h => Range(rs[g]) \cap Range(rs[h]) = {}

\* A rule that is not terminated is the last one of its group.
PendingIsLast(r, gs, rs) ==
  r # Null => \E g \in Range(gs) : rs[g] # << >> /\ Last(rs[g]) = r

RulesOf == [g \in Group |-> CompletedRules(g)]

\* The inductive invariant.
FirewallIInv ==
  /\ FirewallTypeOK
  /\ Shape(next_group_struct, first_rule, Completed, Groups, RulesOf)
  /\ PendingIsLast(pending, Groups, RulesOf)

\* "its private variable so user should not use this" (firewall.h:20): the firewall
\* itself keeps next_rule_struct, so no walk of the handler leaves the lists.
FirewallKeepsItsFields ==
  \A g \in LinkedGroups : Terminates(first_rule[g], next_rule_struct, Rule)

=============================================================================
