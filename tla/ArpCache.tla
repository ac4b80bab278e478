-------------------------------- MODULE ArpCache --------------------------------
(***************************************************************************)
(* The ARP cache of FreeRTOS_ARP.c and the two that use it to send a UDP   *)
(* datagram: the IP task, which also fills the cache from the frames that  *)
(* are received and lets its rows grow old, and FreeRTOS_sendto, which     *)
(* looks the address up in the caller's task before it queues the datagram *)
(* for the IP task.  The IP task preempts that lookup anywhere; nothing    *)
(* locks the cache.                                                        *)
(*                                                                         *)
(* Broadcast addresses need no row and are left out, and so are the frames *)
(* of hosts outside the local network, which the cache ignores.            *)
(***************************************************************************)
EXTENDS Naturals, Sequences

CONSTANTS
  N,               \* ipconfigARP_CACHE_ENTRIES
  Ip, NoIp,        \* the addresses of the local network; 0
  Remote,          \* addresses outside it
  Gateway,         \* the gateway's address, or NoIp
  Mac, NoMac,      \* hardware addresses; six zeros
  MAX_ARP_AGE, MAX_ARP_RETRANSMISSIONS, MAX_ARP_AGE_BEFORE_NEW_ARP_REQUEST,
  Unknown, Asked,  \* in the address resolution this implements
  MaxQueue         \* bounds the datagrams on their way to the IP task

ASSUME AddressAssumption ==
  /\ NoIp \notin Ip \cup Remote /\ Ip \cap Remote = {} /\ NoMac \notin Mac
  /\ Gateway \in Ip \cup {NoIp}
  /\ Unknown \notin Mac /\ Asked \notin Mac
ASSUME NumberAssumption ==
  /\ N \in Nat \ {0} /\ MAX_ARP_AGE \in Nat \ {0} /\ MAX_ARP_RETRANSMISSIONS \in Nat \ {0}
  /\ MAX_ARP_AGE_BEFORE_NEW_ARP_REQUEST \in 0..(MAX_ARP_AGE - 1)

VARIABLES
  xARPCache,
  queue,    \* the addresses of the datagrams on their way to the IP task
  pc,       \* the task in FreeRTOS_sendto: "idle", "lookup", "match", "post"
  to,       \* the destination it was given
  x,        \* the row its lookup has come to
  found,    \* what its lookup has found: "miss", "hit" or "cannot"
  heard,    \* history: the hardware address heard last from each address
  sent,     \* history: the last datagram that left since FreeRTOS_sendto was called
  asked     \* history: the requests that fell due for each row since it was filled

appVars == << pc, to, x, found >>
vars == << xARPCache, queue, appVars, heard, sent, asked >>

Row == 0..(N - 1)
EmptyRow == [ip |-> NoIp, mac |-> NoMac, age |-> 0, valid |-> FALSE]

Init ==
  /\ xARPCache = [r \in Row |-> EmptyRow]
  /\ queue = << >>
  /\ pc = "idle" /\ to = NoIp /\ x = 0 /\ found = "miss"
  /\ heard = [ip \in Ip |-> NoMac]
  /\ sent = [to |-> NoIp, mac |-> NoMac]
  /\ asked = [r \in Row |-> 0]

-----------------------------------------------------------------------------
(* vARPRefreshCacheEntry.                                                    *)

IpRows(ip) == { r \in Row : xARPCache[r].ip = ip }
MacRows(m) == { r \in Row : xARPCache[r].mac = m }

\* The last of some rows, as a set; the first of the oldest of them.
LastOf(S) == { r \in S : \A q \in S : q <= r }
Older(r, q) == xARPCache[r].age < xARPCache[q].age
OldestOf(S) == { r \in S : \A q \in S \ {r} : Older(r, q) \/ (~Older(q, r) /\ r < q) }

\* The row for an address and the hardware address it was heard from: by the hardware
\* address, by the address, or the oldest.
UseEntry(m, ip) ==
  IF MacRows(m) # {} THEN LastOf(MacRows(m))
  ELSE IF IpRows(ip) # {} THEN LastOf(IpRows(ip))
  ELSE OldestOf(Row)

Fresh(m, ip) == [ip |-> ip, mac |-> m, age |-> MAX_ARP_AGE, valid |-> TRUE]

\* A slip: the address keeps its old row when the hardware address has one.
LearnedTwice(m, ip) ==
  IF IpRows(ip) \cap MacRows(m) # {}
    THEN [r \in Row |-> IF r \in IpRows(ip) \cap MacRows(m) THEN Fresh(m, ip) ELSE xARPCache[r]]
    ELSE [r \in Row |-> IF r \in UseEntry(m, ip) THEN Fresh(m, ip) ELSE xARPCache[r]]

\* The cache when ip was heard from m.
Learned(m, ip) ==
  IF IpRows(ip) \cap MacRows(m) # {}
    THEN [r \in Row |-> IF r \in IpRows(ip) \cap MacRows(m) THEN Fresh(m, ip) ELSE xARPCache[r]]
    ELSE [r \in Row |-> IF r \in UseEntry(m, ip) THEN Fresh(m, ip)
                        ELSE IF MacRows(m) # {} /\ r \in LastOf(IpRows(ip)) THEN EmptyRow
                        ELSE xARPCache[r]]

\* A slip: ucValid is left as it was.
ReservedValid(ip) ==
  [r \in Row |-> IF r \in OldestOf(Row)
                   THEN [xARPCache[r] EXCEPT !.ip = ip, !.age = MAX_ARP_RETRANSMISSIONS]
                   ELSE xARPCache[r]]

\* The cache when a reply for ip, which has no row, is waited for: the oldest row is
\* taken, and the hardware address in it stays.
Reserved(ip) ==
  [r \in Row |-> IF r \in OldestOf(Row)
                   THEN [xARPCache[r] EXCEPT !.ip = ip, !.age = MAX_ARP_RETRANSMISSIONS, !.valid = FALSE]
                   ELSE xARPCache[r]]

\* The counts of the rows that were filled anew start again.  (A row refreshed at its full
\* age has no count yet.)
Restarted(cache) == [r \in Row |-> IF cache[r] = xARPCache[r] THEN asked[r] ELSE 0]

-----------------------------------------------------------------------------
(* The IP task.                                                              *)

\* A frame of a host in the local network is processed.
Receive(m, ip) ==
  /\ xARPCache' = Learned(m, ip)
  /\ heard' = [j \in Ip |-> IF j = ip THEN m ELSE IF heard[j] = m THEN NoMac ELSE heard[j]]
  /\ asked' = Restarted(xARPCache')
  /\ UNCHANGED << queue, appVars, sent >>

\* A slip: < for <=.
NeedsRequestLate(row) ==
  row.age > 0 /\ (~row.valid \/ row.age - 1 < MAX_ARP_AGE_BEFORE_NEW_ARP_REQUEST)

\* A request is sent for a row that waits for a reply or will soon expire.
NeedsRequest(row) ==
  row.age > 0 /\ (~row.valid \/ row.age - 1 <= MAX_ARP_AGE_BEFORE_NEW_ARP_REQUEST)

Aged(row) ==
  IF row.age = 0 THEN row
  ELSE IF row.age = 1 THEN [row EXCEPT !.age = 0, !.ip = NoIp]
  ELSE [row EXCEPT !.age = @ - 1]

\* vARPAgeCache.  A request for which there is no network buffer is not sent.
AgeCache ==
  /\ xARPCache' = [r \in Row |-> Aged(xARPCache[r])]
  /\ asked' = [r \in Row |-> IF NeedsRequest(xARPCache[r]) THEN asked[r] + 1 ELSE asked[r]]
  /\ UNCHANGED << queue, appVars, heard, sent >>

\* eARPGetCacheEntry: the address whose row is looked for, if any.
NextHop(ip) == IF ip \in Remote THEN Gateway ELSE ip

\* prvCacheLookup, in one step: it stops at the first row of the address.
FirstOf(S) == { r \in S : \A q \in S : r <= q }

Lookup(ip) ==
  IF ip = NoIp THEN "cannot"
  ELSE IF IpRows(ip) = {} THEN "miss"
  ELSE IF \E r \in FirstOf(IpRows(ip)) : xARPCache[r].valid THEN "hit"
  ELSE "cannot"

\* vProcessGeneratedUDPPacket: the datagram is sent, to the hardware address found ...
IpSends ==
  /\ queue # << >>
  /\ Lookup(NextHop(Head(queue))) = "hit"
  /\ \E r \in FirstOf(IpRows(NextHop(Head(queue)))) :
       sent' = [to |-> Head(queue), mac |-> xARPCache[r].mac]
  /\ queue' = Tail(queue)
  /\ UNCHANGED << xARPCache, appVars, heard, asked >>

\* ... or an ARP request in its place ...
IpAsks ==
  /\ queue # << >>
  /\ Lookup(NextHop(Head(queue))) = "miss"
  /\ queue' = Tail(queue)
  /\ xARPCache' = Reserved(NextHop(Head(queue)))
  /\ asked' = Restarted(xARPCache')
  /\ UNCHANGED << appVars, heard, sent >>

\* ... or nothing.
IpDrops ==
  /\ queue # << >>
  /\ Lookup(NextHop(Head(queue))) = "cannot"
  /\ queue' = Tail(queue)
  /\ UNCHANGED << xARPCache, appVars, heard, sent, asked >>

-----------------------------------------------------------------------------
(* FreeRTOS_sendto, in the caller's task.                                    *)

SendTo(ip) ==
  /\ pc = "idle"
  /\ Len(queue) < MaxQueue
  /\ to' = ip
  /\ x' = 0
  /\ IF NextHop(ip) = NoIp THEN pc' = "post" /\ found' = "cannot"
                           ELSE pc' = "lookup" /\ found' = "miss"
  /\ sent' = [to |-> NoIp, mac |-> NoMac]
  /\ UNCHANGED << xARPCache, queue, heard, asked >>

\* One turn of the loop of prvCacheLookup: the address of the row ...
LookupRow ==
  /\ pc = "lookup"
  /\ IF xARPCache[x].ip = NextHop(to) THEN pc' = "match" /\ x' = x
     ELSE IF x + 1 < N THEN pc' = "lookup" /\ x' = x + 1
     ELSE pc' = "post" /\ x' = x
  /\ UNCHANGED << xARPCache, queue, to, found, heard, sent, asked >>

\* ... and its ucValid.
LookupMatch ==
  /\ pc = "match"
  /\ found' = IF xARPCache[x].valid THEN "hit" ELSE "cannot"
  /\ pc' = "post"
  /\ UNCHANGED << xARPCache, queue, to, x, heard, sent, asked >>

\* The datagram is queued: a miss has replaced its address by the next hop's.
PostDatagram ==
  /\ pc = "post"
  /\ queue' = Append(queue, IF found = "miss" THEN NextHop(to) ELSE to)
  /\ pc' = "idle" /\ to' = NoIp /\ x' = 0 /\ found' = "miss"  \* the locals are dead
  /\ UNCHANGED << xARPCache, heard, sent, asked >>

-----------------------------------------------------------------------------

IpTask ==
  \/ \E m \in Mac, ip \in Ip : Receive(m, ip)
  \/ AgeCache \/ IpSends \/ IpAsks \/ IpDrops

App == LookupRow \/ LookupMatch \/ PostDatagram \/ \E ip \in Ip \cup Remote : SendTo(ip)

Next == IpTask \/ App

Spec == Init /\ [][Next]_vars

-----------------------------------------------------------------------------
\* Type correctness.
TypeOK ==
  /\ xARPCache \in [Row -> [ip : Ip \cup {NoIp}, mac : Mac \cup {NoMac}, age : Nat, valid : BOOLEAN]]
  /\ queue \in Seq(Ip \cup Remote)
  /\ pc \in {"idle", "lookup", "match", "post"}
  /\ to \in Ip \cup Remote \cup {NoIp}
  /\ pc # "idle" <=> to # NoIp
  /\ pc # "idle" /\ found = "miss" => NextHop(to) # NoIp
  /\ x \in Row
  /\ found \in {"miss", "hit", "cannot"}
  /\ heard \in [Ip -> Mac \cup {NoMac}]
  /\ sent \in [to : Ip \cup Remote \cup {NoIp}, mac : Mac \cup {NoMac}]
  /\ asked \in [Row -> Nat]

\* A row is in use as long as its age is not 0.
AgesOK == \A r \in Row : xARPCache[r].ip # NoIp <=> xARPCache[r].age > 0

\* No address and no hardware address has two rows, whatever rows are moved, cleared,
\* reserved with an old hardware address in them, or taken from another address
\* (FreeRTOS_ARP.c:264-365): a lookup, which stops at the first row, misses none.
RowsDistinct ==
  \A r, q \in Row : r # q =>
    /\ xARPCache[r].ip # NoIp => xARPCache[r].ip # xARPCache[q].ip
    /\ xARPCache[r].mac # NoMac => xARPCache[r].mac # xARPCache[q].mac

\* What a lookup finds for an address is the hardware address it was last heard from,
\* never the zeros of a row that was cleared, and that has not been heard from another
\* address since.
HitsAreHeard ==
  \A r \in Row : xARPCache[r].ip # NoIp /\ xARPCache[r].valid
                   => xARPCache[r].mac \in Mac /\ heard[xARPCache[r].ip] = xARPCache[r].mac

\* As many requests fell due for a row as its age tells.
AskedOK ==
  \A r \in Row : xARPCache[r].ip # NoIp =>
    asked[r] = IF ~xARPCache[r].valid THEN MAX_ARP_RETRANSMISSIONS - xARPCache[r].age
               ELSE IF xARPCache[r].age > MAX_ARP_AGE_BEFORE_NEW_ARP_REQUEST THEN 0
               ELSE MAX_ARP_AGE_BEFORE_NEW_ARP_REQUEST + 1 - xARPCache[r].age

\* The inductive invariant.
IInv == TypeOK /\ AgesOK /\ RowsDistinct /\ HitsAreHeard /\ AskedOK

\* An address is dropped for its age only when it left every request unanswered: as many
\* as MAX_ARP_RETRANSMISSIONS if it never replied, and one for each age from
\* MAX_ARP_AGE_BEFORE_NEW_ARP_REQUEST down to 0 if it did (FreeRTOS_ARP.c:527-547).
ExpiresOnlyUnanswered ==
  [][ \A r \in Row :
        AgeCache /\ xARPCache[r].ip # NoIp /\ xARPCache'[r].ip = NoIp =>
          asked'[r] = IF xARPCache[r].valid THEN MAX_ARP_AGE_BEFORE_NEW_ARP_REQUEST + 1
                                            ELSE MAX_ARP_RETRANSMISSIONS ]_vars

KnownOf(ip) ==
  IF IpRows(ip) = {} THEN Unknown
  ELSE LET r == CHOOSE r \in IpRows(ip) : TRUE
       IN IF xARPCache[r].valid THEN xARPCache[r].mac ELSE Asked

Resolution == INSTANCE AddressResolution
                WITH known <- [ip \in Ip |-> KnownOf(ip)], wanted <- to, pending <- queue

\* The cache implements the resolution of addresses for those who send: wherever rows are
\* moved, reserved, cleared or dropped while FreeRTOS_sendto looks its address up
\* (FreeRTOS_Sockets.c:905), a datagram keeps its destination, or gets the gateway's in
\* place of one outside, and leaves only for the hardware address heard last from its next
\* hop; a request leaves for it exactly if the hop has no row when its turn comes.
ImplementsResolution == Resolution!Spec

=============================================================================
