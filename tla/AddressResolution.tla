--------------------------- MODULE AddressResolution ---------------------------
(***************************************************************************)
(* What the ARP cache promises to those who send, without rows and ages:   *)
(* for every address of the local network, the hardware address that was   *)
(* heard from it last, or that it was asked for, or nothing.  To make room *)
(* for one address at most one other is forgotten, and a hardware address  *)
(* stands for one address only.  A datagram leaves for the hardware        *)
(* address its next hop is known by; if the hop is not known a request     *)
(* leaves in its place, and if it was asked for already nothing does.      *)
(***************************************************************************)
EXTENDS Sequences

CONSTANTS Ip, NoIp, Remote, Gateway, Mac, NoMac, Unknown, Asked

VARIABLES
  known,
  wanted,   \* where the datagram in preparation is to go, or NoIp
  pending,  \* where the datagrams that were handed over are to go
  sent      \* the last datagram that left since one was prepared

vars == << known, wanted, pending, sent >>

Nothing == [to |-> NoIp, mac |-> NoMac]
Hop(ip) == IF ip \in Remote THEN Gateway ELSE ip

Init ==
  /\ known = [ip \in Ip |-> Unknown]
  /\ wanted = NoIp /\ pending = << >> /\ sent = Nothing

Forgotten(S) == [ip \in Ip |-> IF ip \in S THEN Unknown ELSE known[ip]]

\* At most one of the others.
Victims(ip) == { S \in SUBSET (Ip \ {ip}) : \A j, k \in S : j = k }

Learn(ip, m) ==
  /\ \E S \in Victims(ip) :
       /\ \A j \in Ip \ {ip} : known[j] = m => j \in S
       /\ known' = [Forgotten(S) EXCEPT ![ip] = m]
  /\ UNCHANGED << wanted, pending, sent >>

Expire ==
  /\ \E S \in SUBSET Ip : known' = Forgotten(S)
  /\ UNCHANGED << wanted, pending, sent >>

Prepare(ip) ==
  /\ wanted = NoIp
  /\ wanted' = ip /\ sent' = Nothing
  /\ UNCHANGED << known, pending >>

\* Whatever was found for it, a datagram for the local network goes where it was to go;
\* one for a host outside goes there or to the gateway.
HandOver ==
  /\ wanted # NoIp
  /\ \E ip \in {wanted, Hop(wanted)} : pending' = Append(pending, ip)
  /\ wanted' = NoIp
  /\ UNCHANGED << known, sent >>

Leaves ==
  /\ pending # << >>
  /\ pending' = Tail(pending)
  /\ UNCHANGED wanted

Send ==
  /\ Leaves
  /\ Hop(Head(pending)) \in Ip
  /\ known[Hop(Head(pending))] \in Mac
  /\ sent' = [to |-> Head(pending), mac |-> known[Hop(Head(pending))]]
  /\ UNCHANGED known

Ask ==
  /\ Leaves
  /\ \E ip \in {Hop(Head(pending))} \cap Ip :
       /\ known[ip] = Unknown
       /\ \E S \in Victims(ip) : known' = [Forgotten(S) EXCEPT ![ip] = Asked]
  /\ UNCHANGED sent

Discard ==
  /\ Leaves
  /\ \A ip \in {Hop(Head(pending))} \cap Ip : known[ip] = Asked
  /\ UNCHANGED << known, sent >>

Next ==
  \/ \E ip \in Ip : \E m \in Mac : Learn(ip, m)
  \/ Expire
  \/ \E ip \in Ip \cup Remote : Prepare(ip)
  \/ HandOver \/ Send \/ Ask \/ Discard

Spec == Init /\ [][Next]_vars

=============================================================================
