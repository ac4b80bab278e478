-------------------------- MODULE SharedTables_proofs --------------------------
(***************************************************************************)
(* Proofs about the two tables that the tasks of the stack share and go    *)
(* through in several steps each.                                          *)
(*                                                                         *)
(* ArpCache, for every number of rows, every network and every age: the    *)
(* inductive invariant, that no row shadows another, that a lookup finds   *)
(* what was heard, and that only silence lets an address expire.           *)
(*                                                                         *)
(* BufferPool, for every number of descriptors, every set of tasks and     *)
(* every threshold: the two-step allocation keeps the semaphore and the    *)
(* list in agreement, gives every descriptor at most one holder and        *)
(* implements BufferOwnership.                                             *)
(***************************************************************************)
EXTENDS ArpCache, BufferPool, FiniteSetTheorems, SequenceTheorems,
        WellFoundedInduction, TLAPS

\* Numbers have a least one, which is all the induction there is here.
LEMMA LeastNumber ==
  ASSUME NEW T \in SUBSET Nat, T # {} PROVE \E n \in T : \A k \in T : n <= k
PROOF
<1>1. IsWellFoundedOn(OpToRel(<, Nat), Nat) BY NatLessThanWellFounded
<1>2. PICK n \in T : \A k \in T : ~ (<<k, n>> \in OpToRel(<, Nat)) BY <1>1, WFMin
<1>3. \A k \in T : <<k, n>> \in OpToRel(<, Nat) <=> k < n BY DEF OpToRel
<1>4. \A k \in T : ~ (k < n) /\ k \in Nat /\ n \in Nat BY <1>2, <1>3
<1>5. QED BY <1>4, SMT

\* Some row is the oldest,
LEMMA SomeOldest ==
  ASSUME TypeOK PROVE OldestOf(Row) # {}
PROOF
<1>1. \A r \in Row : r \in Nat /\ xARPCache[r].age \in Nat
  BY DEF TypeOK, Row
<1> DEFINE Ages == { xARPCache[r].age : r \in Row }
<1>2. Ages \in SUBSET Nat /\ Ages # {}
  <2>1. 0 \in Row BY NumberAssumption DEF Row
  <2>2. QED BY <1>1, <2>1
<1>3. PICK a \in Ages : \A b \in Ages : a <= b BY <1>2, LeastNumber
<1> DEFINE Old == { r \in Row : xARPCache[r].age = a }
<1>4. Old \in SUBSET Nat /\ Old # {} BY <1>1, <1>3
<1>5. PICK r \in Old : \A q \in Old : r <= q BY <1>4, LeastNumber
<1>6. ASSUME NEW q \in Row \ {r} PROVE Older(r, q) \/ (~Older(q, r) /\ r < q)
  <2>1. xARPCache[r].age = a /\ a <= xARPCache[q].age /\ a \in Nat /\ xARPCache[q].age \in Nat
    BY <1>1, <1>3, <1>6
  <2>2. CASE xARPCache[q].age = a
    <3>1. r <= q /\ r \in Nat /\ q \in Nat /\ r # q BY <1>1, <1>5, <1>6, <2>2
    <3>2. QED BY <2>1, <2>2, <3>1 DEF Older
  <2>3. CASE xARPCache[q].age # a BY <2>1, <2>3 DEF Older
  <2>4. QED BY <2>2, <2>3
<1>7. r \in OldestOf(Row) BY <1>6 DEF OldestOf
<1>8. QED BY <1>7

\* and at most one is.
LEMMA OneOldest ==
  ASSUME TypeOK PROVE \A r, q \in OldestOf(Row) : r = q
PROOF
<1>1. \A r \in Row : r \in Nat /\ xARPCache[r].age \in Nat
  BY DEF TypeOK, Row
<1>2. SUFFICES ASSUME NEW r \in OldestOf(Row), NEW q \in OldestOf(Row), r # q PROVE FALSE
  OBVIOUS
<1>3. r \in Row /\ q \in Row BY DEF OldestOf
<1>4. Older(r, q) \/ (~Older(q, r) /\ r < q) BY <1>2, <1>3 DEF OldestOf
<1>5. Older(q, r) \/ (~Older(r, q) /\ q < r) BY <1>2, <1>3 DEF OldestOf
<1>6. QED BY <1>1, <1>3, <1>4, <1>5 DEF Older

\* What the IP task learns fills one row; every other row had the address and is cleared,
\* or is left alone and holds neither the address nor the hardware address (vARPRefreshCacheEntry).
LEMMA LearnedRows ==
  ASSUME TypeOK, RowsDistinct, NEW m \in Mac, NEW ip \in Ip
  PROVE  \E S \in SUBSET Row :
           /\ S # {} /\ \A r, q \in S : r = q
           /\ \A r \in S : Learned(m, ip)[r] = Fresh(m, ip)
           /\ \A r \in Row \ S :
                \/ Learned(m, ip)[r] = EmptyRow /\ xARPCache[r].ip = ip
                \/ /\ Learned(m, ip)[r] = xARPCache[r]
                   /\ xARPCache[r].ip # ip
                   /\ xARPCache[r].mac # m
PROOF
<1>0. ip # NoIp /\ m # NoMac BY AddressAssumption
<1>1. \A r, q \in IpRows(ip) : r = q BY <1>0 DEF IpRows, RowsDistinct
<1>2. \A r, q \in MacRows(m) : r = q BY <1>0 DEF MacRows, RowsDistinct
<1>3. \A r \in Row : r <= r BY DEF Row
<1>4. LastOf(IpRows(ip)) = IpRows(ip) BY <1>1, <1>3 DEF LastOf, IpRows
<1>5. LastOf(MacRows(m)) = MacRows(m) BY <1>2, <1>3 DEF LastOf, MacRows
<1>6. OldestOf(Row) # {} /\ \A r, q \in OldestOf(Row) : r = q BY OneOldest, SomeOldest
<1>7. CASE IpRows(ip) \cap MacRows(m) # {}
  <2>1. \A r \in Row \ (IpRows(ip) \cap MacRows(m)) : xARPCache[r].ip # ip /\ xARPCache[r].mac # m
    BY <1>1, <1>2, <1>7 DEF IpRows, MacRows
  <2>2. QED BY <1>1, <1>7, <2>1 DEF Learned, IpRows
<1>8. CASE IpRows(ip) \cap MacRows(m) = {} /\ MacRows(m) # {}
  <2>1. UseEntry(m, ip) = MacRows(m) BY <1>5, <1>8 DEF UseEntry
  <2>2. \A r \in Row \ MacRows(m) :
          Learned(m, ip)[r] = IF r \in IpRows(ip) THEN EmptyRow ELSE xARPCache[r]
    BY <1>4, <1>8, <2>1 DEF Learned
  <2>3. \A r \in MacRows(m) : Learned(m, ip)[r] = Fresh(m, ip)
    BY <1>8, <2>1 DEF Learned, MacRows
  <2>4. MacRows(m) \in SUBSET Row BY DEF MacRows
  <2>5. \A r \in Row \ MacRows(m) : r \notin IpRows(ip) => xARPCache[r].ip # ip /\ xARPCache[r].mac # m
    BY DEF MacRows, IpRows
  <2>6. \A r \in Row : r \in IpRows(ip) => xARPCache[r].ip = ip BY DEF IpRows
  <2>7. QED BY <1>2, <1>8, <2>2, <2>3, <2>4, <2>5, <2>6
<1>9. CASE MacRows(m) = {}
  <2>1. UseEntry(m, ip) # {} /\ \A r \in UseEntry(m, ip), q \in UseEntry(m, ip) : r = q
    BY <1>1, <1>4, <1>6, <1>9 DEF UseEntry
  <2>2. UseEntry(m, ip) \in SUBSET Row BY <1>4, <1>9 DEF UseEntry, IpRows, OldestOf
  <2>3. IpRows(ip) \subseteq UseEntry(m, ip) BY <1>4, <1>9 DEF UseEntry
  <2>4. \A r \in Row : Learned(m, ip)[r] = IF r \in UseEntry(m, ip) THEN Fresh(m, ip) ELSE xARPCache[r]
    BY <1>9 DEF Learned
  <2>5. \A r \in Row \ UseEntry(m, ip) : xARPCache[r].ip # ip /\ xARPCache[r].mac # m
    BY <1>9, <2>3 DEF IpRows, MacRows
  <2>6. QED BY <2>1, <2>2, <2>4, <2>5
<1>10. QED BY <1>7, <1>8, <1>9

\* The invariant holds of the cleared cache.
LEMMA InitInvariant == Init => IInv
PROOF
<1>1. SUFFICES ASSUME Init PROVE IInv OBVIOUS
<1>2. 0 \in Row BY NumberAssumption DEF Row
<1>3. TypeOK BY <1>1, <1>2, AddressAssumption DEF Init, TypeOK, EmptyRow
<1>4. AgesOK /\ RowsDistinct /\ HitsAreHeard /\ AskedOK
  BY <1>1 DEF Init, EmptyRow, AgesOK, RowsDistinct, HitsAreHeard, AskedOK
<1>5. QED BY <1>3, <1>4 DEF IInv

\* The parts of the invariant about the rows.
RowsOK == AgesOK /\ RowsDistinct /\ HitsAreHeard /\ AskedOK

\* They are kept by a step that leaves the rows and the histories alone.
LEMMA RowsUntouched ==
  ASSUME RowsOK, UNCHANGED << xARPCache, heard, asked >> PROVE RowsOK'
BY DEF RowsOK, AgesOK, RowsDistinct, HitsAreHeard, AskedOK

\* A received frame keeps the invariant.
LEMMA ReceiveInvariant ==
  ASSUME IInv, NEW m \in Mac, NEW ip \in Ip, Receive(m, ip) PROVE IInv'
PROOF
<1>0. TypeOK /\ AgesOK /\ RowsDistinct /\ HitsAreHeard /\ AskedOK BY DEF IInv
<1>1. PICK S \in SUBSET Row :
           /\ S # {} /\ \A r, q \in S : r = q
           /\ \A r \in S : Learned(m, ip)[r] = Fresh(m, ip)
           /\ \A r \in Row \ S :
                \/ Learned(m, ip)[r] = EmptyRow /\ xARPCache[r].ip = ip
                \/ /\ Learned(m, ip)[r] = xARPCache[r]
                   /\ xARPCache[r].ip # ip
                   /\ xARPCache[r].mac # m
  BY <1>0, LearnedRows
<1>2. xARPCache' = Learned(m, ip) /\ DOMAIN xARPCache' = Row /\ xARPCache' = [r \in Row |-> xARPCache'[r]]
  BY DEF Receive, Learned
<1>3. \A r \in S : xARPCache'[r] = Fresh(m, ip) BY <1>1, <1>2
<1>4. \A r \in Row \ S :
         \/ xARPCache'[r] = EmptyRow
         \/ xARPCache'[r] = xARPCache[r] /\ xARPCache[r].ip # ip /\ xARPCache[r].mac # m
  BY <1>1, <1>2
<1>5. ip # NoIp /\ m # NoMac BY AddressAssumption
<1>6. Fresh(m, ip) \in [ip : Ip \cup {NoIp}, mac : Mac \cup {NoMac}, age : Nat, valid : BOOLEAN]
  BY NumberAssumption DEF Fresh
<1>7. EmptyRow \in [ip : Ip \cup {NoIp}, mac : Mac \cup {NoMac}, age : Nat, valid : BOOLEAN]
  BY DEF EmptyRow
<1>8. TypeOK'
  <2>1. xARPCache' \in [Row -> [ip : Ip \cup {NoIp}, mac : Mac \cup {NoMac}, age : Nat, valid : BOOLEAN]]
    <3>1. \A r \in Row : xARPCache'[r] \in [ip : Ip \cup {NoIp}, mac : Mac \cup {NoMac}, age : Nat, valid : BOOLEAN]
      BY <1>0, <1>3, <1>4, <1>6, <1>7 DEF TypeOK
    <3>2. QED BY <1>2, <3>1
  <2>2. heard' \in [Ip -> Mac \cup {NoMac}] BY <1>0 DEF TypeOK, Receive
  <2>3. asked' \in [Row -> Nat] BY <1>0 DEF TypeOK, Receive, Restarted
  <2>4. QED BY <1>0, <2>1, <2>2, <2>3 DEF TypeOK, Receive, appVars, NextHop
<1>9. AgesOK'
  BY <1>0, <1>3, <1>4, <1>5, NumberAssumption DEF AgesOK, Fresh, EmptyRow
<1>10. RowsDistinct'
  BY <1>0, <1>1, <1>3, <1>4, <1>5 DEF RowsDistinct, Fresh, EmptyRow
<1>11. HitsAreHeard'
  <2>1. SUFFICES ASSUME NEW r \in Row, xARPCache'[r].ip # NoIp, xARPCache'[r].valid
                 PROVE  /\ xARPCache'[r].mac \in Mac
                        /\ heard'[xARPCache'[r].ip] = xARPCache'[r].mac
    BY DEF HitsAreHeard
  <2>2. CASE r \in S BY <1>3, <2>2 DEF Receive, Fresh
  <2>3. CASE r \notin S
    <3>1. xARPCache'[r] = xARPCache[r] /\ xARPCache[r].ip # ip /\ xARPCache[r].mac # m
      BY <1>4, <2>1, <2>3 DEF EmptyRow
    <3>2. xARPCache[r].ip \in Ip BY <1>0, <2>1, <3>1 DEF TypeOK
    <3>3. xARPCache[r].mac \in Mac /\ heard[xARPCache[r].ip] = xARPCache[r].mac
      BY <1>0, <2>1, <3>1 DEF HitsAreHeard
    <3>4. QED BY <3>1, <3>2, <3>3 DEF Receive
  <2>4. QED BY <2>2, <2>3
<1>12. AskedOK'
  <2>1. SUFFICES ASSUME NEW r \in Row, xARPCache'[r].ip # NoIp
          PROVE asked'[r] = IF ~xARPCache'[r].valid THEN MAX_ARP_RETRANSMISSIONS - xARPCache'[r].age
               ELSE IF xARPCache'[r].age > MAX_ARP_AGE_BEFORE_NEW_ARP_REQUEST THEN 0
               ELSE MAX_ARP_AGE_BEFORE_NEW_ARP_REQUEST + 1 - xARPCache'[r].age
    BY DEF AskedOK
  <2>2. asked'[r] = IF xARPCache'[r] = xARPCache[r] THEN asked[r] ELSE 0
    BY DEF Receive, Restarted
  <2>3. CASE xARPCache'[r] = xARPCache[r] BY <1>0, <2>1, <2>2, <2>3 DEF AskedOK
  <2>4. CASE xARPCache'[r] # xARPCache[r]
    <3>1. xARPCache'[r] = Fresh(m, ip) BY <1>3, <1>4, <2>1, <2>4 DEF EmptyRow
    <3>2. QED BY <2>2, <2>4, <3>1, NumberAssumption DEF Fresh
  <2>5. QED BY <2>3, <2>4
<1>13. QED BY <1>8, <1>9, <1>10, <1>11, <1>12 DEF IInv

\* Growing older keeps the invariant.
LEMMA AgeInvariant ==
  ASSUME IInv, AgeCache PROVE IInv'
PROOF
<1>0. TypeOK /\ AgesOK /\ RowsDistinct /\ HitsAreHeard /\ AskedOK BY DEF IInv
<1>1. \A r \in Row : xARPCache'[r] = Aged(xARPCache[r]) BY DEF AgeCache
<1>2. \A r \in Row : xARPCache[r] \in [ip : Ip \cup {NoIp}, mac : Mac \cup {NoMac}, age : Nat, valid : BOOLEAN]
  BY <1>0 DEF TypeOK
<1>3. \A r \in Row :
        /\ xARPCache'[r] \in [ip : Ip \cup {NoIp}, mac : Mac \cup {NoMac}, age : Nat, valid : BOOLEAN]
        /\ xARPCache'[r].mac = xARPCache[r].mac
        /\ xARPCache'[r].valid = xARPCache[r].valid
        /\ xARPCache'[r].age = IF xARPCache[r].age = 0 THEN 0 ELSE xARPCache[r].age - 1
        /\ xARPCache'[r].ip = IF xARPCache[r].age = 1 THEN NoIp ELSE xARPCache[r].ip
  <2> SUFFICES ASSUME NEW r \in Row
        PROVE /\ xARPCache'[r] \in [ip : Ip \cup {NoIp}, mac : Mac \cup {NoMac}, age : Nat, valid : BOOLEAN]
              /\ xARPCache'[r].mac = xARPCache[r].mac
              /\ xARPCache'[r].valid = xARPCache[r].valid
              /\ xARPCache'[r].age = IF xARPCache[r].age = 0 THEN 0 ELSE xARPCache[r].age - 1
              /\ xARPCache'[r].ip = IF xARPCache[r].age = 1 THEN NoIp ELSE xARPCache[r].ip
    OBVIOUS
  <2> DEFINE row == xARPCache[r]
  <2>1. row \in [ip : Ip \cup {NoIp}, mac : Mac \cup {NoMac}, age : Nat, valid : BOOLEAN] BY <1>2
  <2>2. xARPCache'[r] = Aged(row) BY <1>1
  <2> HIDE DEF row
  <2>3. CASE row.age = 0 BY <2>1, <2>2, <2>3 DEF Aged, row
  <2>4. CASE row.age = 1
    <3>1. xARPCache'[r] = [row EXCEPT !.age = 0, !.ip = NoIp] BY <2>2, <2>4 DEF Aged
    <3>2. xARPCache'[r] = [ip |-> NoIp, mac |-> row.mac, age |-> 0, valid |-> row.valid]
      BY <2>1, <3>1
    <3>3. 1 - 1 = 0 OBVIOUS
    <3>4. QED BY <2>1, <2>4, <3>2, <3>3 DEF row
  <2>5. CASE row.age > 1
    <3>1. row.age \in Nat /\ row.age - 1 \in Nat /\ row.age # 0 /\ row.age # 1 BY <2>1, <2>5
    <3>2. xARPCache'[r] = [row EXCEPT !.age = row.age - 1] BY <2>2, <3>1 DEF Aged
    <3>3. QED BY <2>1, <3>1, <3>2 DEF row
  <2>6. QED BY <2>1, <2>3, <2>4, <2>5
<1>4. TypeOK'
  <2>1. xARPCache' \in [Row -> [ip : Ip \cup {NoIp}, mac : Mac \cup {NoMac}, age : Nat, valid : BOOLEAN]]
    BY <1>3 DEF AgeCache
  <2>2. asked' \in [Row -> Nat] BY <1>0 DEF TypeOK, AgeCache
  <2>3. QED BY <1>0, <2>1, <2>2 DEF TypeOK, AgeCache, appVars, NextHop
<1>5. AgesOK' BY <1>0, <1>2, <1>3 DEF AgesOK
<1>6. RowsDistinct' BY <1>0, <1>3 DEF RowsDistinct
<1>7. HitsAreHeard' BY <1>0, <1>3 DEF HitsAreHeard, AgeCache
<1>8. AskedOK'
  <2>1. SUFFICES ASSUME NEW r \in Row, xARPCache'[r].ip # NoIp
          PROVE asked'[r] = IF ~xARPCache'[r].valid THEN MAX_ARP_RETRANSMISSIONS - xARPCache'[r].age
               ELSE IF xARPCache'[r].age > MAX_ARP_AGE_BEFORE_NEW_ARP_REQUEST THEN 0
               ELSE MAX_ARP_AGE_BEFORE_NEW_ARP_REQUEST + 1 - xARPCache'[r].age
    BY DEF AskedOK
  <2>2. xARPCache[r].ip # NoIp /\ xARPCache[r].age \in Nat /\ xARPCache[r].age > 1
    BY <1>0, <1>2, <1>3, <2>1 DEF AgesOK
  <2>3. asked[r] = IF ~xARPCache[r].valid THEN MAX_ARP_RETRANSMISSIONS - xARPCache[r].age
               ELSE IF xARPCache[r].age > MAX_ARP_AGE_BEFORE_NEW_ARP_REQUEST THEN 0
               ELSE MAX_ARP_AGE_BEFORE_NEW_ARP_REQUEST + 1 - xARPCache[r].age
    BY <1>0, <2>2 DEF AskedOK
  <2>4. asked'[r] = IF NeedsRequest(xARPCache[r]) THEN asked[r] + 1 ELSE asked[r]
    BY DEF AgeCache
  <2>5. CASE ~xARPCache[r].valid
    BY <1>3, <2>2, <2>3, <2>4, <2>5, NumberAssumption DEF NeedsRequest
  <2>6. CASE xARPCache[r].valid
    BY <1>3, <2>2, <2>3, <2>4, <2>6, NumberAssumption DEF NeedsRequest
  <2>7. QED BY <2>5, <2>6
<1>9. QED BY <1>4, <1>5, <1>6, <1>7, <1>8 DEF IInv

\* Reserving a row for an address that has none keeps the invariant.
LEMMA AskInvariant ==
  ASSUME IInv, IpAsks PROVE IInv'
PROOF
<1> DEFINE ip == NextHop(Head(queue))
<1>0. TypeOK /\ AgesOK /\ RowsDistinct /\ HitsAreHeard /\ AskedOK BY DEF IInv
<1>1. queue \in Seq(Ip \cup Remote) /\ queue # << >> BY <1>0 DEF TypeOK, IpAsks
<1>2. Tail(queue) \in Seq(Ip \cup Remote) /\ Head(queue) \in Ip \cup Remote BY <1>1
<1>3. ip # NoIp /\ IpRows(ip) = {} BY DEF IpAsks, Lookup
<1>4. ip \in Ip
  <2>1. Head(queue) \in Ip \cup Remote BY <1>2
  <2>2. QED BY <1>3, <2>1, AddressAssumption DEF NextHop
<1> HIDE DEF ip
<1>5. xARPCache' = Reserved(ip) BY DEF IpAsks, ip
<1>6. \A r, q \in OldestOf(Row) : r = q BY <1>0, OneOldest
<1>7. \A r \in Row : xARPCache[r] \in [ip : Ip \cup {NoIp}, mac : Mac \cup {NoMac}, age : Nat, valid : BOOLEAN]
  BY <1>0 DEF TypeOK
<1>8. \A r \in Row : r \in OldestOf(Row) =>
        /\ xARPCache'[r] \in [ip : Ip \cup {NoIp}, mac : Mac \cup {NoMac}, age : Nat, valid : BOOLEAN]
        /\ xARPCache'[r].ip = ip
        /\ xARPCache'[r].mac = xARPCache[r].mac
        /\ xARPCache'[r].age = MAX_ARP_RETRANSMISSIONS
        /\ xARPCache'[r].valid = FALSE
  BY <1>4, <1>5, <1>7, NumberAssumption DEF Reserved
<1>9. \A r \in Row : r \notin OldestOf(Row) => xARPCache'[r] = xARPCache[r]
  BY <1>5 DEF Reserved
<1>10. \A r \in Row : xARPCache[r].ip # ip BY <1>3 DEF IpRows
<1>11. TypeOK'
  <2>1. xARPCache' \in [Row -> [ip : Ip \cup {NoIp}, mac : Mac \cup {NoMac}, age : Nat, valid : BOOLEAN]]
    <3>1. DOMAIN xARPCache' = Row /\ xARPCache' = [r \in Row |-> xARPCache'[r]] BY <1>5 DEF Reserved
    <3>2. \A r \in Row : xARPCache'[r] \in [ip : Ip \cup {NoIp}, mac : Mac \cup {NoMac}, age : Nat, valid : BOOLEAN]
      BY <1>7, <1>8, <1>9
    <3>3. QED BY <3>1, <3>2
  <2>2. asked' \in [Row -> Nat] BY <1>0 DEF TypeOK, IpAsks, Restarted
  <2>3. queue' \in Seq(Ip \cup Remote) BY <1>2 DEF IpAsks
  <2>4. QED BY <1>0, <2>1, <2>2, <2>3 DEF TypeOK, IpAsks, appVars, NextHop
<1>12. AgesOK' BY <1>0, <1>3, <1>8, <1>9, NumberAssumption DEF AgesOK
<1>13. RowsDistinct'
  <2>1. \A r, q \in Row : r # q => (xARPCache'[r].ip # NoIp => xARPCache'[r].ip # xARPCache'[q].ip)
    BY <1>0, <1>6, <1>8, <1>9, <1>10 DEF RowsDistinct
  <2>2. \A r, q \in Row : r # q => (xARPCache'[r].mac # NoMac => xARPCache'[r].mac # xARPCache'[q].mac)
    BY <1>0, <1>8, <1>9 DEF RowsDistinct
  <2>3. QED BY <2>1, <2>2 DEF RowsDistinct
<1>14. HitsAreHeard' BY <1>0, <1>8, <1>9 DEF HitsAreHeard, IpAsks
<1>15. AskedOK'
  <2>1. \A r \in Row : asked'[r] = IF xARPCache'[r] = xARPCache[r] THEN asked[r] ELSE 0
    BY DEF IpAsks, Restarted
  <2>2. \A r \in Row : r \in OldestOf(Row) => xARPCache'[r] # xARPCache[r] BY <1>8, <1>10
  <2>3. QED BY <1>0, <1>8, <1>9, <2>1, <2>2, NumberAssumption DEF AskedOK
<1>16. QED BY <1>11, <1>12, <1>13, <1>14, <1>15 DEF IInv

\* Every step keeps the invariant.
LEMMA StepInvariant == IInv /\ [Next]_vars => IInv'
PROOF
<1>0. SUFFICES ASSUME IInv, [Next]_vars PROVE IInv' OBVIOUS
<1>1. TypeOK /\ RowsOK BY <1>0 DEF IInv, RowsOK
<1>2. ASSUME TypeOK', UNCHANGED << xARPCache, heard, asked >> PROVE IInv'
  <2>1. RowsOK' BY <1>1, <1>2, RowsUntouched
  <2>2. QED BY <1>2, <2>1 DEF IInv, RowsOK
<1>3. ASSUME NEW m \in Mac, NEW ip \in Ip, Receive(m, ip) PROVE IInv'
  BY <1>0, <1>3, ReceiveInvariant
<1>4. CASE AgeCache BY <1>0, <1>4, AgeInvariant
<1>5. CASE IpAsks BY <1>0, <1>5, AskInvariant
<1>6. CASE IpSends \/ IpDrops
  <2>0. queue # << >> /\ queue' = Tail(queue) BY <1>6 DEF IpSends, IpDrops
  <2>1. queue' \in Seq(Ip \cup Remote) /\ UNCHANGED << xARPCache, appVars, heard, asked >>
    <3>1. queue \in Seq(Ip \cup Remote) BY <1>1 DEF TypeOK
    <3>2. queue' \in Seq(Ip \cup Remote) BY <2>0, <3>1
    <3>3. QED BY <1>6, <3>2 DEF IpSends, IpDrops
  <2>2. sent' \in [to : Ip \cup Remote \cup {NoIp}, mac : Mac \cup {NoMac}]
    <3>1. CASE IpSends
      <4>1. PICK r \in Row : sent' = [to |-> Head(queue), mac |-> xARPCache[r].mac]
        BY <3>1 DEF IpSends, FirstOf, IpRows
      <4>2. xARPCache[r].mac \in Mac \cup {NoMac} BY <1>1 DEF TypeOK
      <4>3. queue \in Seq(Ip \cup Remote) BY <1>1 DEF TypeOK
      <4>4. Head(queue) \in Ip \cup Remote BY <2>0, <4>3
      <4>5. QED BY <4>1, <4>2, <4>4
    <3>2. CASE IpDrops BY <1>1, <3>2 DEF IpDrops, TypeOK
    <3>3. QED BY <1>6, <3>1, <3>2
  <2>3. TypeOK' BY <1>1, <2>1, <2>2 DEF TypeOK, appVars, NextHop
  <2>4. QED BY <1>2, <2>1, <2>3
<1>7. ASSUME NEW ip \in Ip \cup Remote, SendTo(ip) PROVE IInv'
  <2>1. 0 \in Row BY NumberAssumption DEF Row
  <2>2. ip # NoIp BY AddressAssumption
  <2>3. TypeOK' BY <1>1, <1>7, <2>1, <2>2 DEF TypeOK, SendTo, NextHop
  <2>4. QED BY <1>2, <1>7, <2>3 DEF SendTo
<1>8. CASE LookupRow
  <2>1. x' \in Row BY <1>1, <1>8, NumberAssumption DEF TypeOK, LookupRow, Row
  <2>2. TypeOK' BY <1>1, <1>8, <2>1 DEF TypeOK, LookupRow, NextHop
  <2>3. QED BY <1>2, <1>8, <2>2 DEF LookupRow
<1>9. CASE LookupMatch
  <2>1. TypeOK' BY <1>1, <1>9 DEF TypeOK, LookupMatch, NextHop
  <2>2. QED BY <1>2, <1>9, <2>1 DEF LookupMatch
<1>10. CASE PostDatagram
  <2>1. NextHop(to) # NoIp \/ found # "miss" BY <1>1, <1>10 DEF TypeOK, PostDatagram
  <2>2. to \in Ip \cup Remote BY <1>1, <1>10 DEF TypeOK, PostDatagram
  <2>3. NextHop(to) \in Ip \cup Remote \/ found # "miss"
    BY <2>1, <2>2, AddressAssumption DEF NextHop
  <2>4. (IF found = "miss" THEN NextHop(to) ELSE to) \in Ip \cup Remote
    BY <2>2, <2>3
  <2>5. queue' \in Seq(Ip \cup Remote) BY <1>1, <1>10, <2>4 DEF TypeOK, PostDatagram
  <2>6. 0 \in Row BY NumberAssumption DEF Row
  <2>7. TypeOK' BY <1>1, <1>10, <2>5, <2>6 DEF TypeOK, PostDatagram
  <2>8. QED BY <1>2, <1>10, <2>7 DEF PostDatagram
<1>11. CASE UNCHANGED vars
  <2>1. TypeOK' BY <1>1, <1>11 DEF TypeOK, vars, appVars, NextHop
  <2>2. QED BY <1>2, <1>11, <2>1 DEF vars
<1>12. QED
  BY <1>0, <1>3, <1>4, <1>5, <1>6, <1>7, <1>8, <1>9, <1>10, <1>11 DEF Next, IpTask, App

\* The inductive invariant of the cache (FreeRTOS_ARP.c:239-559), for every number of rows.
THEOREM CacheInvariant == Spec => []IInv
PROOF
<1>1. QED BY InitInvariant, StepInvariant, PTL DEF Spec

\* No address and no hardware address has two rows.
THEOREM RowsStayDistinct == Spec => []RowsDistinct
PROOF
<1>1. IInv => RowsDistinct BY DEF IInv
<1>2. QED BY <1>1, CacheInvariant, PTL

\* A lookup finds the hardware address the address was last heard from.
THEOREM LookupsFindTheHeard == Spec => []HitsAreHeard
PROOF
<1>1. IInv => HitsAreHeard BY DEF IInv
<1>2. QED BY <1>1, CacheInvariant, PTL

\* An address expires after its last unanswered request and not before.
THEOREM OnlySilenceExpires == Spec => ExpiresOnlyUnanswered
PROOF
<1> DEFINE Expiry ==
        \A r \in Row :
        AgeCache /\ xARPCache[r].ip # NoIp /\ xARPCache'[r].ip = NoIp =>
          asked'[r] = IF xARPCache[r].valid THEN MAX_ARP_AGE_BEFORE_NEW_ARP_REQUEST + 1
                                            ELSE MAX_ARP_RETRANSMISSIONS
<1>1. IInv => Expiry
  <2>1. SUFFICES ASSUME IInv, NEW r \in Row, AgeCache, xARPCache[r].ip # NoIp, xARPCache'[r].ip = NoIp
                 PROVE  asked'[r] = IF xARPCache[r].valid THEN MAX_ARP_AGE_BEFORE_NEW_ARP_REQUEST + 1
                                            ELSE MAX_ARP_RETRANSMISSIONS
    OBVIOUS
  <2>2. xARPCache[r] \in [ip : Ip \cup {NoIp}, mac : Mac \cup {NoMac}, age : Nat, valid : BOOLEAN]
    BY <2>1 DEF IInv, TypeOK
  <2>3. xARPCache'[r] = Aged(xARPCache[r]) BY <2>1 DEF AgeCache
  <2>4. xARPCache[r].age = 1 BY <2>1, <2>2, <2>3 DEF Aged
  <2>5. asked[r] = IF ~xARPCache[r].valid THEN MAX_ARP_RETRANSMISSIONS - 1
               ELSE IF 1 > MAX_ARP_AGE_BEFORE_NEW_ARP_REQUEST THEN 0
               ELSE MAX_ARP_AGE_BEFORE_NEW_ARP_REQUEST + 1 - 1
    BY <2>1, <2>4 DEF IInv, AskedOK
  <2>6. asked'[r] = IF NeedsRequest(xARPCache[r]) THEN asked[r] + 1 ELSE asked[r]
    BY <2>1 DEF AgeCache
  <2>7. CASE ~xARPCache[r].valid BY <2>4, <2>5, <2>6, <2>7, NumberAssumption DEF NeedsRequest
  <2>8. CASE xARPCache[r].valid BY <2>4, <2>5, <2>6, <2>8, NumberAssumption DEF NeedsRequest
  <2>9. QED BY <2>7, <2>8
<1>2. QED BY <1>1, CacheInvariant, PTL DEF ExpiresOnlyUnanswered

-----------------------------------------------------------------------------
(* The refinement.                                                           *)

\* What a cache c tells of an address.
Rows(c, ip) == { r \in Row : c[r].ip = ip }
Known(c, ip) ==
  IF Rows(c, ip) = {} THEN Unknown
  ELSE LET r == CHOOSE r \in Rows(c, ip) : TRUE
       IN IF c[r].valid THEN c[r].mac ELSE Asked

Table(c) == [ip \in Ip |-> Known(c, ip)]

LEMMA TableIsKnown ==
  /\ [ip \in Ip |-> KnownOf(ip)] = Table(xARPCache)
  /\ [ip \in Ip |-> KnownOf(ip)]' = Table(xARPCache')
PROOF
<1>1. \A ip \in Ip : KnownOf(ip) = Known(xARPCache, ip)
  BY DEF KnownOf, Known, IpRows, Rows
<1>2. \A ip \in Ip : KnownOf(ip)' = Known(xARPCache', ip)
  BY DEF KnownOf, Known, IpRows, Rows
<1>3. QED BY <1>1, <1>2 DEF Table

\* No address has two rows.
Distinct(c) == \A r, q \in Row : r # q /\ c[r].ip # NoIp => c[r].ip # c[q].ip

\* The row of an address tells what is known of it.
LEMMA KnownAt ==
  ASSUME NEW c, Distinct(c), NEW r \in Row, c[r].ip \in Ip
  PROVE  Known(c, c[r].ip) = IF c[r].valid THEN c[r].mac ELSE Asked
PROOF
<1>1. c[r].ip # NoIp BY AddressAssumption
<1>2. Rows(c, c[r].ip) = {r} BY <1>1 DEF Rows, Distinct
<1>3. QED BY <1>2 DEF Known

\* The table with e for the address ip, and without the addresses in S.
After(c, ip, e, S) == [j \in Ip |-> IF j = ip THEN e
                                    ELSE IF j \in S THEN Unknown ELSE Table(c)[j]]

\* The address that has the row q, unless it is ip, as a set.
Victim(c, ip, q) == {c[q].ip} \cap (Ip \ {ip})

\* In the cache d the address ip has taken the row q of c, and no other row has changed
\* but one that it had.
Takes(c, d, ip, q) ==
  /\ d[q].ip = ip
  /\ \A r \in Row \ {q} : \/ d[r] = c[r] /\ c[r].ip # ip
                          \/ d[r].ip = NoIp /\ c[r].ip = ip

\* Taking the row q for an address that had another, or none, forgets the address that
\* had q and no other.
LEMMA RowTaken ==
  ASSUME NEW c, NEW d, Distinct(c), NEW ip \in Ip, NEW q \in Row,
         \A r \in Row : c[r].ip \in Ip \cup {NoIp},
         Takes(c, d, ip, q)
  PROVE  Table(d) = After(c, ip, IF d[q].valid THEN d[q].mac ELSE Asked, Victim(c, ip, q))
PROOF
<1> DEFINE S == Victim(c, ip, q)
<1> USE DEF Victim
<1>0. ip # NoIp /\ NoIp \notin Ip BY AddressAssumption
<1>1. Known(d, ip) = IF d[q].valid THEN d[q].mac ELSE Asked
  <2>1. Rows(d, ip) = {q} BY <1>0 DEF Rows, Takes
  <2>2. QED BY <2>1 DEF Known
<1>2. ASSUME NEW j \in Ip \ {ip}
      PROVE  Known(d, j) = IF j \in S THEN Unknown ELSE Known(c, j)
  <2>1. CASE j \in S
    <3>1. \A r \in Row \ {q} : c[r].ip # j BY <1>0, <2>1 DEF Distinct
    <3>2. Rows(d, j) = {} BY <1>0, <1>2, <3>1 DEF Rows, Takes
    <3>3. QED BY <2>1, <3>2 DEF Known
  <2>2. CASE j \notin S
    <3>1. c[q].ip # j BY <1>2, <2>2
    <3>2. \A r \in Row : c[r].ip = j => d[r] = c[r] BY <1>2, <3>1 DEF Takes
    <3>3. \A r \in Row : d[r].ip = j => d[r] = c[r] BY <1>0, <1>2 DEF Takes
    <3>4. Rows(d, j) = Rows(c, j) BY <3>2, <3>3 DEF Rows
    <3>5. CASE Rows(c, j) = {} BY <2>2, <3>4, <3>5 DEF Known
    <3>6. CASE Rows(c, j) # {}
      <4>1. (CHOOSE r \in Rows(c, j) : TRUE) \in Rows(c, j) BY <3>6
      <4>2. \A r \in Rows(c, j) : d[r] = c[r] BY <3>2 DEF Rows
      <4>3. QED BY <2>2, <3>4, <3>6, <4>1, <4>2 DEF Known
    <3>7. QED BY <3>5, <3>6
  <2>3. QED BY <2>1, <2>2
<1>3. Table(d) = After(c, ip, IF d[q].valid THEN d[q].mac ELSE Asked, S)
  BY <1>1, <1>2 DEF Table, After
<1>4. QED BY <1>3

\* What is learned from a frame is learned in the table.
LEMMA ReceiveLearns ==
  ASSUME IInv, NEW m \in Mac, NEW ip \in Ip, Receive(m, ip) PROVE Resolution!Learn(ip, m)
PROOF
<1> DEFINE c == xARPCache
           d == xARPCache'
<1>1. PICK S \in SUBSET Row :
           /\ S # {} /\ \A r, q \in S : r = q
           /\ \A r \in S : Learned(m, ip)[r] = Fresh(m, ip)
           /\ \A r \in Row \ S :
                \/ Learned(m, ip)[r] = EmptyRow /\ xARPCache[r].ip = ip
                \/ /\ Learned(m, ip)[r] = xARPCache[r]
                   /\ xARPCache[r].ip # ip
                   /\ xARPCache[r].mac # m
  BY LearnedRows DEF IInv
<1>2. PICK q \in Row : S = {q} BY <1>1
<1>3. d[q] = Fresh(m, ip) BY <1>1, <1>2 DEF Receive
<1>4. \A r \in Row \ {q} : \/ d[r] = EmptyRow /\ c[r].ip = ip
                           \/ d[r] = c[r] /\ c[r].ip # ip /\ c[r].mac # m
  BY <1>1, <1>2 DEF Receive
<1>5. Distinct(c) BY DEF IInv, RowsDistinct, Distinct
<1>6. \A r \in Row : c[r].ip \in Ip \cup {NoIp} BY DEF IInv, TypeOK
<1>7. d[q].ip = ip /\ d[q].valid /\ d[q].mac = m BY <1>3 DEF Fresh
<1>8. Takes(c, d, ip, q) BY <1>4, <1>7 DEF EmptyRow, Takes
<1> HIDE DEF c, d
<1> DEFINE V == Victim(c, ip, q)
<1>9. Table(d) = After(c, ip, IF d[q].valid THEN d[q].mac ELSE Asked, V)
  BY <1>5, <1>6, <1>7, <1>8, RowTaken
<1>10. ASSUME NEW j \in Ip \ {ip}, Table(c)[j] = m PROVE j \in V
  <2>1. Known(c, j) = m BY <1>10 DEF Table
  <2>2. Rows(c, j) # {} BY <2>1, AddressAssumption DEF Known
  <2>3. PICK r \in Row : c[r].ip = j BY <2>2 DEF Rows
  <2>4. c[r].mac = m BY <1>5, <1>10, <2>1, <2>3, KnownAt, AddressAssumption
  <2>5. r = q BY <1>4, <1>10, <2>3, <2>4
  <2>6. QED BY <1>10, <2>3, <2>5 DEF Victim
<1>11. V \in SUBSET (Ip \ {ip}) /\ \A j, k \in V : j = k BY DEF Victim
<1> HIDE DEF V
<1>12. Table(d) = [ [j \in Ip |-> IF j \in V THEN Unknown ELSE Table(c)[j]] EXCEPT ![ip] = m]
  BY <1>7, <1>9 DEF After
<1>13. UNCHANGED << to, queue, sent >> BY DEF Receive, appVars
<1>14. QED
  BY <1>10, <1>12, <1>11, <1>13, TableIsKnown
  DEF Resolution!Learn, Resolution!Victims, Resolution!Forgotten, c, d

\* The next hop is the same in the table.
LEMMA HopIs == \A ip : Resolution!Hop(ip) = NextHop(ip)
PROOF BY DEF Resolution!Hop, NextHop

\* A request is asked for in the table.
LEMMA AskAsks ==
  ASSUME IInv, IpAsks PROVE Resolution!Ask
PROOF
<1> DEFINE ip == NextHop(Head(queue))
           c == xARPCache
           d == xARPCache'
<1>1. queue \in Seq(Ip \cup Remote) /\ queue # << >> BY DEF IInv, TypeOK, IpAsks
<1>2. ip # NoIp /\ IpRows(ip) = {} BY DEF IpAsks, Lookup
<1>3. ip \in Ip
  <2>1. Head(queue) \in Ip \cup Remote BY <1>1
  <2>2. QED BY <1>2, <2>1, AddressAssumption DEF NextHop
<1>4. d = Reserved(ip) BY DEF IpAsks
<1> HIDE DEF ip, d
<1>5. PICK q \in Row : OldestOf(Row) = {q} BY OneOldest, SomeOldest DEF IInv, OldestOf
<1>6. \A r \in Row : c[r] \in [ip : Ip \cup {NoIp}, mac : Mac \cup {NoMac}, age : Nat, valid : BOOLEAN]
  BY DEF IInv, TypeOK
<1>7. d[q].ip = ip /\ ~ d[q].valid BY <1>4, <1>5, <1>6 DEF Reserved
<1>8. Takes(c, d, ip, q) BY <1>2, <1>4, <1>5, <1>7 DEF Reserved, IpRows, Takes
<1>9. Distinct(c) BY DEF IInv, RowsDistinct, Distinct
<1>10. \A r \in Row : c[r].ip \in Ip \cup {NoIp} BY <1>6
<1>11. Known(c, ip) = Unknown BY <1>2 DEF Known, Rows, IpRows
<1> HIDE DEF c
<1> DEFINE V == Victim(c, ip, q)
<1>12. Table(d) = After(c, ip, IF d[q].valid THEN d[q].mac ELSE Asked, V)
  BY <1>3, <1>7, <1>8, <1>9, <1>10, RowTaken
<1>13. V \in SUBSET (Ip \ {ip}) /\ \A j, k \in V : j = k BY DEF Victim
<1> HIDE DEF V
<1>14. Table(d) = [ [j \in Ip |-> IF j \in V THEN Unknown ELSE Table(c)[j]] EXCEPT ![ip] = Asked]
  BY <1>7, <1>12 DEF After
<1>15. Table(c)[ip] = Unknown BY <1>3, <1>11 DEF Table
<1>16. /\ [j \in Ip |-> KnownOf(j)][ip] = Unknown
       /\ \E W \in Resolution!Victims(ip) :
            [j \in Ip |-> KnownOf(j)]' = [Resolution!Forgotten(W) EXCEPT ![ip] = Asked]
  <2>1. [j \in Ip |-> KnownOf(j)] = Table(c) /\ [j \in Ip |-> KnownOf(j)]' = Table(d)
    BY TableIsKnown DEF c, d
  <2>2. V \in Resolution!Victims(ip) BY <1>13 DEF Resolution!Victims
  <2>3. [j \in Ip |-> KnownOf(j)]' = [Resolution!Forgotten(V) EXCEPT ![ip] = Asked]
    BY <1>14, <2>1 DEF Resolution!Forgotten
  <2>4. [j \in Ip |-> KnownOf(j)][ip] = Unknown BY <1>15, <2>1
  <2>5. QED BY <2>2, <2>3, <2>4
<1>17. Resolution!Hop(Head(queue)) = ip BY HopIs DEF ip
<1>18. Resolution!Leaves /\ sent' = sent BY DEF Resolution!Leaves, IpAsks, appVars
<1>19. QED BY <1>3, <1>16, <1>17, <1>18 DEF Resolution!Ask

\* Growing older forgets the addresses whose age comes to its end.
LEMMA AgeExpires ==
  ASSUME IInv, AgeCache PROVE Resolution!Expire
PROOF
<1> DEFINE c == xARPCache
           d == xARPCache'
           S == { j \in Ip : \E r \in Row : c[r].ip = j /\ c[r].age = 1 }
<1>1. \A r \in Row : c[r] \in [ip : Ip \cup {NoIp}, mac : Mac \cup {NoMac}, age : Nat, valid : BOOLEAN]
  BY DEF IInv, TypeOK
<1>2. ASSUME NEW r \in Row
      PROVE  /\ d[r].ip = IF c[r].age = 1 THEN NoIp ELSE c[r].ip
             /\ d[r].mac = c[r].mac /\ d[r].valid = c[r].valid
  <2>1. d[r] = Aged(c[r]) BY DEF AgeCache
  <2>2. QED BY <1>1, <2>1 DEF Aged
<1>3. Distinct(c) BY DEF IInv, RowsDistinct, Distinct
<1>4. NoIp \notin Ip BY AddressAssumption
<1> HIDE DEF c, d
<1>5. Distinct(d) BY <1>2, <1>3 DEF Distinct
<1>6. ASSUME NEW j \in Ip PROVE Known(d, j) = IF j \in S THEN Unknown ELSE Known(c, j)
  <2>1. CASE j \in S
    <3>1. PICK r \in Row : c[r].ip = j /\ c[r].age = 1 BY <2>1
    <3>2. \A q \in Row \ {r} : c[q].ip # j BY <1>3, <1>4, <1>6, <3>1 DEF Distinct
    <3>3. Rows(d, j) = {} BY <1>2, <1>4, <1>6, <3>1, <3>2 DEF Rows
    <3>4. QED BY <2>1, <3>3 DEF Known
  <2>2. CASE j \notin S
    <3>1. \A r \in Row : c[r].ip = j => c[r].age # 1 BY <1>6, <2>2
    <3>2. Rows(d, j) = Rows(c, j) BY <1>2, <1>4, <1>6, <3>1 DEF Rows
    <3>3. CASE Rows(c, j) = {} BY <2>2, <3>2, <3>3 DEF Known
    <3>4. CASE Rows(c, j) # {}
      <4>1. PICK r \in Row : c[r].ip = j /\ d[r].ip = j BY <3>2, <3>4 DEF Rows
      <4>2. /\ Known(c, j) = IF c[r].valid THEN c[r].mac ELSE Asked
            /\ Known(d, j) = IF d[r].valid THEN d[r].mac ELSE Asked
        BY <1>3, <1>5, <1>6, <4>1, KnownAt
      <4>3. QED BY <1>2, <2>2, <4>2
    <3>5. QED BY <3>3, <3>4
  <2>3. QED BY <2>1, <2>2
<1>7. Table(d) = [j \in Ip |-> IF j \in S THEN Unknown ELSE Table(c)[j]] BY <1>6 DEF Table
<1>8. S \in SUBSET Ip OBVIOUS
<1> HIDE DEF S
<1>9. UNCHANGED << to, queue, sent >> BY DEF AgeCache, appVars
<1>10. QED BY <1>7, <1>8, <1>9, TableIsKnown DEF Resolution!Expire, Resolution!Forgotten, c, d

\* What is known of an address is what its only row holds.
LEMMA KnownInRow ==
  ASSUME IInv, NEW ip \in Ip, NEW r \in Row, xARPCache[r].ip = ip
  PROVE  /\ KnownOf(ip) = IF xARPCache[r].valid THEN xARPCache[r].mac ELSE Asked
         /\ FirstOf(IpRows(ip)) = {r}
PROOF
<1>1. ip # NoIp BY AddressAssumption
<1>2. \A q \in IpRows(ip) : q = r BY <1>1 DEF IInv, RowsDistinct, IpRows
<1>3. IpRows(ip) = {r} BY <1>2 DEF IpRows
<1>4. (CHOOSE q \in IpRows(ip) : TRUE) = r BY <1>3
<1>5. \A q \in Row : q <= q BY NumberAssumption DEF Row
<1>6. FirstOf(IpRows(ip)) = {r} BY <1>3, <1>5 DEF FirstOf
<1>7. QED BY <1>3, <1>4, <1>6 DEF KnownOf

\* What leaves, leaves for the hardware address that is known, and bears it.
LEMMA SendSends ==
  ASSUME IInv, IpSends PROVE Resolution!Send
PROOF
<1> DEFINE ip == NextHop(Head(queue))
<1>1. queue # << >> /\ Head(queue) \in Ip \cup Remote BY DEF IInv, TypeOK, IpSends
<1>2. ip # NoIp /\ \E r \in FirstOf(IpRows(ip)) : xARPCache[r].valid
  BY DEF IpSends, Lookup
<1>3. ip \in Ip BY <1>1, <1>2, AddressAssumption DEF NextHop
<1> HIDE DEF ip
<1>4. PICK r \in Row : r \in FirstOf(IpRows(ip)) /\ xARPCache[r].ip = ip /\ xARPCache[r].valid
  BY <1>2 DEF FirstOf, IpRows
<1>5. KnownOf(ip) = xARPCache[r].mac /\ FirstOf(IpRows(ip)) = {r} BY <1>3, <1>4, KnownInRow
<1>6. sent' = [to |-> Head(queue), mac |-> xARPCache[r].mac] BY <1>5 DEF IpSends, ip
<1>7. xARPCache[r].mac \in Mac BY <1>3, <1>4, AddressAssumption DEF IInv, HitsAreHeard
<1>8. [j \in Ip |-> KnownOf(j)]' = [j \in Ip |-> KnownOf(j)] BY TableIsKnown DEF IpSends
<1>9. Resolution!Hop(Head(queue)) = ip BY HopIs DEF ip
<1>10. Resolution!Leaves BY DEF Resolution!Leaves, IpSends, appVars
<1>11. QED BY <1>3, <1>5, <1>6, <1>7, <1>8, <1>9, <1>10 DEF Resolution!Send

\* What is dropped was asked for already, or has no next hop.
LEMMA DropDiscards ==
  ASSUME IInv, IpDrops PROVE Resolution!Discard
PROOF
<1> DEFINE ip == NextHop(Head(queue))
<1>1. Resolution!Hop(Head(queue)) = ip BY HopIs
<1>2. ip \in Ip => KnownOf(ip) = Asked
  <2>1. SUFFICES ASSUME ip \in Ip PROVE KnownOf(ip) = Asked OBVIOUS
  <2>0. ip # NoIp BY <2>1, AddressAssumption
  <2>2. /\ IpRows(ip) # {}
        /\ ~ \E r \in FirstOf(IpRows(ip)) : xARPCache[r].valid
    BY <2>0 DEF IpDrops, Lookup
  <2> HIDE DEF ip
  <2>3. PICK r \in Row : xARPCache[r].ip = ip BY <2>2 DEF IpRows
  <2>4. QED BY <2>1, <2>2, <2>3, KnownInRow
<1>3. [j \in Ip |-> KnownOf(j)]' = [j \in Ip |-> KnownOf(j)] BY TableIsKnown DEF IpDrops
<1>4. Resolution!Leaves /\ sent' = sent BY DEF Resolution!Leaves, IpDrops, appVars
<1>5. \A j \in {ip} \cap Ip : [k \in Ip |-> KnownOf(k)][j] = Asked BY <1>2
<1>6. QED BY <1>1, <1>3, <1>4, <1>5 DEF Resolution!Discard

\* FreeRTOS_sendto prepares a datagram and hands it over.
LEMMA AppSends ==
  ASSUME IInv, App
  PROVE  \/ \E ip \in Ip \cup Remote : Resolution!Prepare(ip)
         \/ Resolution!HandOver
         \/ UNCHANGED << [ip \in Ip |-> KnownOf(ip)], to, queue, sent >>
PROOF
<1>1. [j \in Ip |-> KnownOf(j)]' = [j \in Ip |-> KnownOf(j)]
  BY TableIsKnown DEF App, LookupRow, LookupMatch, PostDatagram, SendTo
<1>2. CASE LookupRow \/ LookupMatch BY <1>1, <1>2 DEF LookupRow, LookupMatch
<1>3. CASE PostDatagram
  <2>1. to # NoIp /\ to' = NoIp /\ sent' = sent BY <1>3 DEF PostDatagram, IInv, TypeOK
  <2>2. PICK ip \in {to, NextHop(to)} : queue' = Append(queue, ip) BY <1>3 DEF PostDatagram
  <2>3. QED BY <1>1, <2>1, <2>2, HopIs DEF Resolution!HandOver
<1>4. ASSUME NEW ip \in Ip \cup Remote, SendTo(ip) PROVE Resolution!Prepare(ip)
  <2>1. to = NoIp BY <1>4 DEF SendTo, IInv, TypeOK
  <2>2. QED BY <1>1, <1>4, <2>1 DEF SendTo, Resolution!Prepare, Resolution!Nothing
<1>5. QED BY <1>2, <1>3, <1>4 DEF App

\* The cache implements the resolution of addresses: what is learned from a frame takes
\* at most one other address its place, a request likewise, and growing older only
\* forgets (FreeRTOS_ARP.c:239-559); a datagram of FreeRTOS_sendto leaves only for the
\* hardware address that is known of its next hop when its turn comes, whatever the
\* look-up in the task of the caller found (FreeRTOS_UDP_IP.c:107-263).
THEOREM CacheResolves == Spec => ImplementsResolution
PROOF
<1>1. Init => Resolution!Init
  <2>1. SUFFICES ASSUME Init PROVE Resolution!Init OBVIOUS
  <2>2. \A ip \in Ip : KnownOf(ip) = Unknown
    BY <2>1, AddressAssumption DEF Init, EmptyRow, KnownOf, IpRows
  <2>3. to = NoIp /\ queue = << >> /\ sent = Resolution!Nothing
    BY <2>1 DEF Init, Resolution!Nothing
  <2>4. QED BY <2>2, <2>3 DEF Resolution!Init
<1>2. IInv /\ [Next]_vars => [Resolution!Next]_Resolution!vars
  <2>1. SUFFICES ASSUME IInv, [Next]_vars PROVE Resolution!Next \/ UNCHANGED Resolution!vars
    OBVIOUS
  <2>2. ASSUME NEW m \in Mac, NEW ip \in Ip, Receive(m, ip) PROVE Resolution!Next
    BY <2>1, <2>2, ReceiveLearns DEF Resolution!Next
  <2>3. CASE IpAsks BY <2>1, <2>3, AskAsks DEF Resolution!Next
  <2>4. CASE AgeCache BY <2>1, <2>4, AgeExpires DEF Resolution!Next
  <2>5. CASE IpSends BY <2>1, <2>5, SendSends DEF Resolution!Next
  <2>6. CASE IpDrops BY <2>1, <2>6, DropDiscards DEF Resolution!Next
  <2>7. CASE App BY <2>1, <2>7, AppSends DEF Resolution!Next, Resolution!vars
  <2>8. CASE UNCHANGED vars BY <2>8, TableIsKnown DEF vars, appVars, Resolution!vars
  <2>9. QED BY <2>1, <2>2, <2>3, <2>4, <2>5, <2>6, <2>7, <2>8 DEF Next, IpTask
<1>3. QED BY <1>1, <1>2, CacheInvariant, PTL DEF Spec, ImplementsResolution, Resolution!Spec

-----------------------------------------------------------------------------
(* The pool of buffers.                                                      *)

-----------------------------------------------------------------------------
(* Lemmas about lists without repetition.                                    *)

\* Unlinking the head removes exactly that element (UnlinkHead, GetFromISR).
LEMMA TailFacts ==
  ASSUME NEW s \in Seq(Buffer), s # << >>, IsInjectiveSeq(s)
  PROVE  /\ Head(s) \in Buffer
         /\ Head(s) \in Elements(s)
         /\ Tail(s) \in Seq(Buffer)
         /\ Len(Tail(s)) = Len(s) - 1
         /\ IsInjectiveSeq(Tail(s))
         /\ Elements(Tail(s)) = Elements(s) \ {Head(s)}
<1>1. /\ Len(s) \in Nat \ {0}
      /\ Head(s) \in Buffer
      /\ Tail(s) \in Seq(Buffer)
      /\ Len(Tail(s)) = Len(s) - 1
      /\ \A i \in 1..Len(Tail(s)) : Tail(s)[i] = s[i + 1]
  BY HeadTailProperties, EmptySeq
<1>2. Head(s) = s[1]
  OBVIOUS
<1>3. IsInjectiveSeq(Tail(s))
  BY <1>1 DEF IsInjectiveSeq
<1>4. Elements(Tail(s)) \subseteq Elements(s) \ {Head(s)}
  BY <1>1, <1>2 DEF Elements, IsInjectiveSeq
<1>5. ASSUME NEW b \in Elements(s) \ {Head(s)}
      PROVE  b \in Elements(Tail(s))
  <2>1. PICK i \in 1..Len(s) : b = s[i]
    BY DEF Elements
  <2>2. i # 1 /\ i - 1 \in 1..Len(Tail(s))
    BY <2>1, <1>1, <1>2
  <2>3. Tail(s)[i - 1] = s[(i - 1) + 1]
    BY <2>2, <1>1
  <2>. QED BY <2>1, <2>2, <2>3, <1>1 DEF Elements
<1>6. Head(s) \in Elements(s)
  BY <1>1, <1>2 DEF Elements
<1>. QED BY <1>1, <1>3, <1>4, <1>5, <1>6

\* Linking a new descriptor at the end adds exactly that element (LinkLast,
\* ReleaseFromISR).
LEMMA AppendFacts ==
  ASSUME NEW s \in Seq(Buffer), NEW b \in Buffer, b \notin Elements(s), IsInjectiveSeq(s)
  PROVE  /\ Append(s, b) \in Seq(Buffer)
         /\ Len(Append(s, b)) = Len(s) + 1
         /\ IsInjectiveSeq(Append(s, b))
         /\ Elements(Append(s, b)) = Elements(s) \cup {b}
<1>1. /\ Append(s, b) \in Seq(Buffer)
      /\ Len(s) \in Nat
      /\ Len(Append(s, b)) = Len(s) + 1
      /\ \A i \in 1..Len(s) : Append(s, b)[i] = s[i]
      /\ Append(s, b)[Len(s) + 1] = b
  BY AppendProperties, LenProperties
<1>2. ASSUME NEW i \in 1..(Len(s) + 1)
      PROVE  i \in 1..Len(s) \/ i = Len(s) + 1
  BY <1>1
<1>3. IsInjectiveSeq(Append(s, b))
  BY <1>1, <1>2 DEF IsInjectiveSeq, Elements
<1>4. Elements(Append(s, b)) \subseteq Elements(s) \cup {b}
  BY <1>1, <1>2 DEF Elements
<1>5. Elements(s) \subseteq Elements(Append(s, b))
  <2>. SUFFICES ASSUME NEW i \in 1..Len(s) PROVE s[i] \in Elements(Append(s, b))
    BY DEF Elements
  <2>1. i \in 1..Len(Append(s, b)) /\ Append(s, b)[i] = s[i]
    BY <1>1
  <2>. QED BY <2>1 DEF Elements
<1>6. b \in Elements(Append(s, b))
  <2>1. Len(s) + 1 \in 1..Len(Append(s, b))
    BY <1>1
  <2>. QED BY <2>1, <1>1 DEF Elements
<1>. QED BY <1>1, <1>3, <1>4, <1>5, <1>6

\* A list without repetition is no longer than the array of descriptors.
LEMMA LengthBound ==
  ASSUME NEW s \in Seq(Buffer), IsInjectiveSeq(s)
  PROVE  Len(s) \in Nat /\ NumBuffers \in Nat /\ Len(s) <= NumBuffers
<1>1. Len(s) \in Nat /\ s \in [1..Len(s) -> Buffer]
  BY LenProperties
<1>2. s \in Injection(1..Len(s), Buffer)
  BY <1>1 DEF IsInjectiveSeq, Injection, IsInjective
<1>3. Cardinality(1..Len(s)) <= Cardinality(Buffer)
  BY <1>2, FS_Injection, BufferAssumption
<1>4. Cardinality(1..Len(s)) = Len(s)
  BY <1>1, FS_Interval
<1>. QED BY <1>1, <1>3, <1>4, FS_CardinalityType, BufferAssumption DEF NumBuffers

-----------------------------------------------------------------------------
(* Counting the tasks at a location.                                         *)

\* The sets of tasks between two steps are finite, so they can be counted.
LEMMA CountTypes ==
  /\ IsFiniteSet(Taking) /\ Cardinality(Taking) \in Nat
  /\ IsFiniteSet(Giving) /\ Cardinality(Giving) \in Nat
<1>1. Taking \in SUBSET Task /\ Giving \in SUBSET Task
  BY DEF Taking, Giving
<1>. QED BY <1>1, TaskAssumption, FS_Subset, FS_CardinalityType

\* A step of task t that moves only poolPc[t] changes each count by at most one.
LEMMA CountStep ==
  ASSUME poolPc \in [Task -> Location], NEW t \in Task, NEW l \in Location,
         poolPc' = [poolPc EXCEPT ![t] = l]
  PROVE  /\ Taking' = IF l = "unlink" THEN Taking \cup {t} ELSE Taking \ {t}
         /\ Giving' = IF l = "give" THEN Giving \cup {t} ELSE Giving \ {t}
         /\ t \in Taking <=> poolPc[t] = "unlink"
         /\ t \in Giving <=> poolPc[t] = "give"
         /\ Cardinality(Taking \cup {t}) =
              IF t \in Taking THEN Cardinality(Taking) ELSE Cardinality(Taking) + 1
         /\ Cardinality(Taking \ {t}) =
              IF t \in Taking THEN Cardinality(Taking) - 1 ELSE Cardinality(Taking)
         /\ Cardinality(Giving \cup {t}) =
              IF t \in Giving THEN Cardinality(Giving) ELSE Cardinality(Giving) + 1
         /\ Cardinality(Giving \ {t}) =
              IF t \in Giving THEN Cardinality(Giving) - 1 ELSE Cardinality(Giving)
<1>1. /\ Taking' = IF l = "unlink" THEN Taking \cup {t} ELSE Taking \ {t}
      /\ Giving' = IF l = "give" THEN Giving \cup {t} ELSE Giving \ {t}
  BY DEF Taking, Giving
<1>2. /\ t \in Taking <=> poolPc[t] = "unlink"
      /\ t \in Giving <=> poolPc[t] = "give"
  BY DEF Taking, Giving
<1>. QED BY <1>1, <1>2, CountTypes, FS_AddElement, FS_RemoveElement

-----------------------------------------------------------------------------
(* The inductive invariant.                                                  *)

\* What every step may use of the invariant: the list, its elements and the room
\* left in the semaphore.
LEMMA InvariantFacts ==
  ASSUME PoolIInv
  PROVE  /\ NumBuffers \in Nat
         /\ xNetworkBufferSemaphore \in Nat
         /\ Len(xFreeBuffersList) \in Nat
         /\ Len(xFreeBuffersList) <= NumBuffers
         /\ FreeSet \subseteq Buffer
         /\ xFreeBuffersList # << >> => Len(xFreeBuffersList) > 0
         /\ xFreeBuffersList = << >> => Len(xFreeBuffersList) = 0
<1>1. xFreeBuffersList \in Seq(Buffer) /\ IsInjectiveSeq(xFreeBuffersList)
  BY DEF PoolIInv, PoolTypeOK, ListIsInjective
<1>2. FreeSet \subseteq Buffer
  BY <1>1, ElementOfSeq DEF FreeSet, Elements
<1>. QED BY <1>1, <1>2, LengthBound, EmptySeq DEF PoolIInv, PoolTypeOK

LEMMA PoolInitInvariant == PoolInit => PoolIInv
<1>. SUFFICES ASSUME PoolInit PROVE PoolIInv
  OBVIOUS
<1>1. NumBuffers \in Nat
  BY BufferAssumption, FS_CardinalityType DEF NumBuffers
<1>2. /\ xFreeBuffersList \in Seq(Buffer)
      /\ Len(xFreeBuffersList) = NumBuffers
  BY <1>1 DEF PoolInit
<1>3. PoolTypeOK
  BY <1>1, <1>2 DEF PoolInit, PoolTypeOK, Location
<1>4. ListIsInjective
  BY DEF PoolInit, ListIsInjective
<1>5. OneHolder
  BY DEF PoolInit, OneHolder
<1>6. CountAgrees
  <2>1. Taking = {} /\ Giving = {}
    BY DEF PoolInit, Taking, Giving
  <2>. QED BY <1>1, <1>2, <2>1, FS_EmptySet DEF PoolInit, CountAgrees
<1>. QED BY <1>3, <1>4, <1>5, <1>6 DEF PoolIInv

\* Taking the semaphore turns one available descriptor into a promised one.
LEMMA SemaphoreTakeInvariant ==
  ASSUME PoolIInv, NEW t \in Task, SemaphoreTake(t)
  PROVE  PoolIInv'
<1>. USE DEF SemaphoreTake
<1>1. PoolTypeOK'
  BY InvariantFacts DEF PoolIInv, PoolTypeOK, Location
<1>2. ListIsInjective' /\ OneHolder'
  BY DEF PoolIInv, ListIsInjective, OneHolder, FreeSet
<1>3. CountAgrees'
  <2>1. "unlink" \in Location
    BY DEF Location
  <2>2. /\ Cardinality(Taking') = Cardinality(Taking) + 1
        /\ Cardinality(Giving') = Cardinality(Giving)
    BY <2>1, CountStep DEF PoolIInv, PoolTypeOK
  <2>. QED BY <2>2, CountTypes, InvariantFacts DEF PoolIInv, CountAgrees
<1>. QED BY <1>1, <1>2, <1>3 DEF PoolIInv

\* Unlinking the head keeps the promise: list and Taking shrink together.
LEMMA UnlinkHeadInvariant ==
  ASSUME PoolIInv, NEW t \in Task, UnlinkHead(t)
  PROVE  PoolIInv'
<1>. USE DEF UnlinkHead
<1>1. /\ Head(xFreeBuffersList) \in Buffer
      /\ Head(xFreeBuffersList) \in FreeSet
      /\ xFreeBuffersList' \in Seq(Buffer)
      /\ Len(xFreeBuffersList') = Len(xFreeBuffersList) - 1
      /\ IsInjectiveSeq(xFreeBuffersList')
      /\ FreeSet' = FreeSet \ {Head(xFreeBuffersList)}
  BY TailFacts DEF PoolIInv, PoolTypeOK, ListIsInjective, FreeSet
<1>2. PoolTypeOK'
  BY <1>1 DEF PoolIInv, PoolTypeOK, Location
<1>3. ListIsInjective'
  BY <1>1 DEF ListIsInjective
<1>4. OneHolder'
  BY <1>1 DEF PoolIInv, OneHolder, PoolTypeOK
<1>5. CountAgrees'
  <2>1. "count" \in Location
    BY DEF Location
  <2>2. /\ Cardinality(Taking') = Cardinality(Taking) - 1
        /\ Cardinality(Giving') = Cardinality(Giving)
    BY <2>1, CountStep DEF PoolIInv, PoolTypeOK
  <2>3. xNetworkBufferSemaphore' = xNetworkBufferSemaphore
    OBVIOUS
  <2>. HIDE DEF UnlinkHead
  <2>. QED BY <1>1, <2>2, <2>3, CountTypes, InvariantFacts DEF PoolIInv, CountAgrees
<1>. QED BY <1>2, <1>3, <1>4, <1>5 DEF PoolIInv

\* The statistic is read and latched without touching the list.
LEMMA StatisticInvariant ==
  ASSUME PoolIInv, NEW t \in Task, ReadCount(t) \/ LatchMinimum(t)
  PROVE  PoolIInv'
<1>. USE DEF ReadCount, LatchMinimum
<1>1. PoolTypeOK'
  BY InvariantFacts, ZenonT(60) DEF PoolIInv, PoolTypeOK, Location
<1>2. ListIsInjective' /\ OneHolder'
  BY DEF PoolIInv, ListIsInjective, OneHolder, FreeSet
<1>3. CountAgrees'
  <2>1. Taking' = Taking /\ Giving' = Giving
    BY DEF Taking, Giving, PoolIInv, PoolTypeOK
  <2>. QED BY <2>1 DEF PoolIInv, CountAgrees
<1>. QED BY <1>1, <1>2, <1>3 DEF PoolIInv

\* Linking a descriptor back: list and Giving grow together, unless the descriptor
\* was linked already.
LEMMA LinkLastInvariant ==
  ASSUME PoolIInv, NEW t \in Task, NEW b \in Buffer, LinkLast(t, b)
  PROVE  PoolIInv'
<1>. USE DEF LinkLast
<1>1. CASE b \in FreeSet
  <2>1. PoolTypeOK' /\ ListIsInjective' /\ OneHolder'
    BY <1>1 DEF PoolIInv, PoolTypeOK, ListIsInjective, OneHolder, FreeSet
  <2>2. Taking' = Taking /\ Giving' = Giving
    BY <1>1 DEF Taking, Giving
  <2>. QED BY <1>1, <2>1, <2>2 DEF PoolIInv, CountAgrees
<1>2. CASE b \notin FreeSet
  <2>1. /\ xFreeBuffersList' \in Seq(Buffer)
        /\ Len(xFreeBuffersList') = Len(xFreeBuffersList) + 1
        /\ IsInjectiveSeq(xFreeBuffersList')
        /\ FreeSet' = FreeSet \cup {b}
    BY <1>2, AppendFacts, ZenonT(60) DEF PoolIInv, PoolTypeOK, ListIsInjective, FreeSet
  <2>2. PoolTypeOK'
    BY <1>2, <2>1 DEF PoolIInv, PoolTypeOK, Location
  <2>3. OneHolder'
    BY <1>2, <2>1 DEF PoolIInv, OneHolder, PoolTypeOK
  <2>4. CountAgrees'
    <3>1. "give" \in Location
      BY DEF Location
    <3>2. /\ Cardinality(Taking') = Cardinality(Taking)
          /\ Cardinality(Giving') = Cardinality(Giving) + 1
      BY <1>2, <3>1, CountStep DEF PoolIInv, PoolTypeOK
    <3>. QED BY <1>2, <2>1, <3>2, CountTypes, InvariantFacts DEF PoolIInv, CountAgrees
  <2>. QED BY <2>1, <2>2, <2>3, <2>4 DEF PoolIInv, ListIsInjective
<1>. QED BY <1>1, <1>2

\* Giving the semaphore always has room: the list is longer than the count.
LEMMA SemaphoreGiveInvariant ==
  ASSUME PoolIInv, NEW t \in Task, SemaphoreGive(t)
  PROVE  PoolIInv'
<1>. USE DEF SemaphoreGive
<1>1. "idle" \in Location
  BY DEF Location
<1>2. /\ Cardinality(Taking') = Cardinality(Taking)
      /\ Cardinality(Giving') = Cardinality(Giving) - 1
      /\ Cardinality(Giving) >= 1
  <2>1. t \in Giving /\ t \notin Taking
    BY DEF Taking, Giving
  <2>2. Cardinality(Giving) # 0
    BY <2>1, CountTypes, FS_EmptySet
  <2>3. poolPc \in [Task -> Location] /\ poolPc' = [poolPc EXCEPT ![t] = "idle"]
    BY DEF PoolIInv, PoolTypeOK
  <2>. HIDE DEF SemaphoreGive
  <2>4. /\ Taking' = Taking \ {t} /\ Giving' = Giving \ {t}
        /\ Cardinality(Taking \ {t}) = Cardinality(Taking)
        /\ Cardinality(Giving \ {t}) = Cardinality(Giving) - 1
    BY <1>1, <2>1, <2>3, CountStep
  <2>. QED BY <2>2, <2>4, CountTypes
<1>3. xNetworkBufferSemaphore < NumBuffers
  BY <1>2, CountTypes, InvariantFacts DEF PoolIInv, CountAgrees
<1>4. xNetworkBufferSemaphore' = xNetworkBufferSemaphore + 1
  BY <1>3 DEF GiveSemaphore
<1>5. PoolTypeOK'
  BY <1>3, <1>4, InvariantFacts DEF PoolIInv, PoolTypeOK, Location
<1>6. ListIsInjective' /\ OneHolder'
  BY DEF PoolIInv, ListIsInjective, OneHolder, FreeSet
<1>7. CountAgrees'
  BY <1>2, <1>4, CountTypes, InvariantFacts DEF PoolIInv, CountAgrees
<1>. QED BY <1>5, <1>6, <1>7 DEF PoolIInv

\* The handler takes semaphore and head in one step.
LEMMA GetFromISRInvariant ==
  ASSUME PoolIInv, GetFromISR
  PROVE  PoolIInv'
<1>. USE DEF GetFromISR
<1>1. /\ Head(xFreeBuffersList) \in Buffer
      /\ Head(xFreeBuffersList) \in FreeSet
      /\ xFreeBuffersList' \in Seq(Buffer)
      /\ Len(xFreeBuffersList') = Len(xFreeBuffersList) - 1
      /\ IsInjectiveSeq(xFreeBuffersList')
      /\ FreeSet' = FreeSet \ {Head(xFreeBuffersList)}
  BY TailFacts DEF PoolIInv, PoolTypeOK, ListIsInjective, FreeSet
<1>2. xNetworkBufferSemaphore > 0
  BY ThresholdAssumption, InvariantFacts
<1>3. PoolTypeOK'
  BY <1>1, <1>2, InvariantFacts DEF PoolIInv, PoolTypeOK
<1>4. ListIsInjective' /\ OneHolder'
  BY <1>1 DEF PoolIInv, ListIsInjective, OneHolder, PoolTypeOK
<1>5. CountAgrees'
  <2>1. Taking' = Taking /\ Giving' = Giving
    BY DEF Taking, Giving
  <2>2. xNetworkBufferSemaphore' = xNetworkBufferSemaphore - 1
    OBVIOUS
  <2>. HIDE DEF GetFromISR
  <2>. QED BY <1>1, <2>1, <2>2, CountTypes, InvariantFacts DEF PoolIInv, CountAgrees
<1>. QED BY <1>3, <1>4, <1>5 DEF PoolIInv

\* A descriptor the handler gives back was not linked, so there is room.
LEMMA ReleaseFromISRInvariant ==
  ASSUME PoolIInv, NEW b \in Buffer, ReleaseFromISR(b)
  PROVE  PoolIInv'
<1>. USE DEF ReleaseFromISR
<1>1. /\ xFreeBuffersList' \in Seq(Buffer)
      /\ Len(xFreeBuffersList') = Len(xFreeBuffersList) + 1
      /\ IsInjectiveSeq(xFreeBuffersList')
      /\ FreeSet' = FreeSet \cup {b}
  BY AppendFacts DEF PoolIInv, PoolTypeOK, ListIsInjective, FreeSet
<1>2. Len(xFreeBuffersList') <= NumBuffers
  BY <1>1, LengthBound
<1>3. xNetworkBufferSemaphore' = xNetworkBufferSemaphore + 1
  BY <1>1, <1>2, CountTypes, InvariantFacts DEF GiveSemaphore, PoolIInv, CountAgrees
<1>4. xNetworkBufferSemaphore' <= NumBuffers
  BY <1>1, <1>2, <1>3, CountTypes, InvariantFacts DEF PoolIInv, CountAgrees
<1>5. PoolTypeOK'
  BY <1>1, <1>3, <1>4, InvariantFacts DEF PoolIInv, PoolTypeOK
<1>6. ListIsInjective' /\ OneHolder'
  BY <1>1 DEF PoolIInv, ListIsInjective, OneHolder, PoolTypeOK
<1>7. CountAgrees'
  <2>1. Taking' = Taking /\ Giving' = Giving
    BY DEF Taking, Giving
  <2>. QED BY <1>1, <1>3, <2>1, CountTypes, InvariantFacts DEF PoolIInv, CountAgrees
<1>. QED BY <1>5, <1>6, <1>7 DEF PoolIInv

\* Handing a descriptor from the handler to a task leaves the pool alone.
LEMMA PassToTaskInvariant ==
  ASSUME PoolIInv, NEW t \in Task, NEW b \in Buffer, PassToTask(t, b)
  PROVE  PoolIInv'
<1>. USE DEF PassToTask
<1>1. PoolTypeOK' /\ ListIsInjective' /\ OneHolder'
  BY DEF PoolIInv, PoolTypeOK, ListIsInjective, OneHolder, FreeSet
<1>2. Taking' = Taking /\ Giving' = Giving
  BY DEF Taking, Giving
<1>. QED BY <1>1, <1>2 DEF PoolIInv, CountAgrees

LEMMA NextInvariant == PoolIInv /\ [PoolNext]_poolVars => PoolIInv'
<1>. SUFFICES ASSUME PoolIInv, [PoolNext]_poolVars PROVE PoolIInv'
  OBVIOUS
<1>1. CASE IsrStep
  BY <1>1, GetFromISRInvariant, ReleaseFromISRInvariant DEF IsrStep
<1>2. ASSUME NEW t \in Task, TaskStep(t)
      PROVE  PoolIInv'
  BY <1>2, SemaphoreTakeInvariant, UnlinkHeadInvariant, StatisticInvariant,
     LinkLastInvariant, SemaphoreGiveInvariant, PassToTaskInvariant DEF TaskStep
<1>3. CASE UNCHANGED poolVars
  <2>1. Taking' = Taking /\ Giving' = Giving /\ FreeSet' = FreeSet
    BY <1>3 DEF poolVars, Taking, Giving, FreeSet
  <2>. QED BY <1>3, <2>1 DEF poolVars, PoolIInv, PoolTypeOK, ListIsInjective, OneHolder, CountAgrees
<1>. QED BY <1>1, <1>2, <1>3 DEF PoolNext

\* In every reachable state of every pool the semaphore and the list agree up to
\* the tasks between their two steps, and no descriptor has two holders.
THEOREM PoolInvariant == PoolSpec => []PoolIInv
<1>. QED BY PoolInitInvariant, NextInvariant, PTL DEF PoolSpec

\* "If there is a semaphore available, there is a network buffer available"
\* (BufferAllocation_1.c:256), for any number of tasks preempting each other.
THEOREM SemaphoreIsHonoured == PoolSpec => []BufferAvailable
<1>1. PoolIInv => BufferAvailable
  <2>. SUFFICES ASSUME PoolIInv, xNetworkBufferSemaphore > 0 \/ Taking # {}
                PROVE  xFreeBuffersList # << >>
    BY DEF BufferAvailable
  <2>1. Taking # {} => Cardinality(Taking) > 0
    BY CountTypes, FS_EmptySet
  <2>. QED BY <2>1, CountTypes, InvariantFacts DEF PoolIInv, CountAgrees
<1>. QED BY <1>1, PoolInvariant, PTL

\* The Ethernet handler never takes one of the last Threshold descriptors, nor one
\* that is promised to a task that has the semaphore (BufferAllocation_1.c:343-350).
THEOREM ReserveIsKept == PoolSpec => HandlerLeavesReserve
<1>. DEFINE Leaves == isrOwned' \ isrOwned # {} =>
                        Len(xFreeBuffersList') >= Threshold + Cardinality(Taking')
<1>1. PoolIInv /\ [PoolNext]_poolVars => [Leaves]_poolVars
  <2>. SUFFICES ASSUME PoolIInv, PoolNext, isrOwned' \ isrOwned # {}
                PROVE  Len(xFreeBuffersList') >= Threshold + Cardinality(Taking')
    OBVIOUS
  <2>1. GetFromISR
    BY DEF PoolNext, IsrStep, TaskStep, SemaphoreTake, UnlinkHead, ReadCount, LatchMinimum,
           LinkLast, SemaphoreGive, PassToTask, ReleaseFromISR
  <2>2. Taking' = Taking
    BY <2>1 DEF GetFromISR, Taking
  <2>3. Len(xFreeBuffersList') = Len(xFreeBuffersList) - 1
    BY <2>1, HeadTailProperties DEF GetFromISR, PoolIInv, PoolTypeOK
  <2>. QED BY <2>1, <2>2, <2>3, CountTypes, InvariantFacts, ThresholdAssumption
       DEF GetFromISR, PoolIInv, CountAgrees
<1>. QED BY <1>1, PoolInvariant, PTL DEF PoolSpec, HandlerLeavesReserve

-----------------------------------------------------------------------------
(* The pool implements exclusive ownership.                                  *)

\* Under the invariant the mapped holder is what the two owner sets say.
LEMMA HolderFacts ==
  ASSUME PoolIInv, NEW b \in Buffer
  PROVE  /\ b \in isrOwned => HolderOf(b) = "handler"
         /\ \A t \in Task : b \in owned[t] => HolderOf(b) = t
         /\ b \notin isrOwned /\ (\A t \in Task : b \notin owned[t]) => HolderOf(b) = "nobody"
<1>1. ASSUME NEW t \in Task, b \in owned[t]
      PROVE  HolderOf(b) = t
  <2>1. b \notin isrOwned /\ \A u \in Task : b \in owned[u] => u = t
    BY <1>1 DEF PoolIInv, OneHolder
  <2>. QED BY <1>1, <2>1 DEF HolderOf
<1>. QED BY <1>1 DEF HolderOf

\* A descriptor nobody took or gave keeps its mapped holder.
LEMMA HolderKept ==
  ASSUME PoolIInv, PoolIInv', NEW b \in Buffer,
         b \in isrOwned' <=> b \in isrOwned,
         \A t \in Task : b \in owned'[t] <=> b \in owned[t]
  PROVE  HolderOf(b)' = HolderOf(b)
<1>1. CASE b \in isrOwned
  BY <1>1 DEF HolderOf
<1>2. ASSUME NEW t \in Task, b \in owned[t]
      PROVE  HolderOf(b)' = HolderOf(b)
  <2>1. HolderOf(b) = t
    BY <1>2, HolderFacts
  <2>2. b \in owned'[t] /\ b \notin isrOwned' /\ \A u \in Task : b \in owned'[u] => u = t
    BY <1>2 DEF PoolIInv, OneHolder
  <2>3. HolderOf(b)' = t
    BY <2>2 DEF HolderOf
  <2>. QED BY <2>1, <2>3
<1>3. CASE b \notin isrOwned /\ \A t \in Task : b \notin owned[t]
  BY <1>3 DEF HolderOf
<1>. QED BY <1>1, <1>2, <1>3

\* Every step is a step of BufferOwnership or leaves all holders as they are.
LEMMA StepSimulation ==
  ASSUME PoolIInv, PoolIInv', [PoolNext]_poolVars
  PROVE  [Ownership!Next]_([b \in Buffer |-> HolderOf(b)])
<1>. DEFINE holder == [b \in Buffer |-> HolderOf(b)]
            Goal == [Ownership!Next]_holder
<1>. HIDE DEF Goal
<1>1. ASSUME isrOwned' = isrOwned, owned' = owned
      PROVE  Goal
  <2>1. \A b \in Buffer : HolderOf(b)' = HolderOf(b)
    BY <1>1 DEF HolderOf
  <2>. QED BY <2>1 DEF Goal
<1>2. ASSUME NEW t \in Task, UnlinkHead(t)
      PROVE  Goal
  <2>1. PICK h \in Buffer : h = Head(xFreeBuffersList) /\ h \in FreeSet
    BY <1>2, TailFacts DEF UnlinkHead, PoolIInv, PoolTypeOK, ListIsInjective, FreeSet
  <2>2. owned' = [owned EXCEPT ![t] = @ \cup {h}] /\ isrOwned' = isrOwned
    BY <1>2, <2>1 DEF UnlinkHead
  <2>3. HolderOf(h) = "nobody"
    BY <2>1, HolderFacts DEF PoolIInv, OneHolder
  <2>4. \A b \in Buffer : b # h => HolderOf(b)' = HolderOf(b)
    BY <2>2, HolderKept DEF PoolIInv, PoolTypeOK
  <2>5. HolderOf(h)' = t
    <3>1. h \in owned'[t]
      BY <2>2 DEF PoolIInv, PoolTypeOK
    <3>2. h \notin isrOwned' /\ \A u \in Task : h \in owned'[u] => u = t
      BY <3>1 DEF PoolIInv, OneHolder
    <3>. QED BY <3>1, <3>2 DEF HolderOf
  <2>6. holder' = [holder EXCEPT ![h] = t]
    BY <2>1, <2>4, <2>5
  <2>7. Ownership!Acquire(t, h)
    BY <2>1, <2>3, <2>6 DEF Ownership!Acquire
  <2>. QED BY <2>1, <2>7 DEF Ownership!Next, Ownership!Holder, Goal
<1>3. ASSUME NEW t \in Task, NEW b \in Buffer, LinkLast(t, b)
      PROVE  Goal
  <2>1. owned' = [owned EXCEPT ![t] = @ \ {b}] /\ isrOwned' = isrOwned
    BY <1>3 DEF LinkLast
  <2>2. \A c \in Buffer : c # b => HolderOf(c)' = HolderOf(c)
    BY <2>1, HolderKept DEF PoolIInv, PoolTypeOK
  <2>3. CASE b \in FreeSet
    <3>1. b \notin owned[t]
      BY <2>3 DEF PoolIInv, OneHolder
    <3>2. owned' = owned
      BY <2>1, <3>1 DEF PoolIInv, PoolTypeOK
    <3>. QED BY <2>1, <3>2, <1>1
  <2>4. CASE b \notin FreeSet
    <3>1. b \in owned[t]
      BY <1>3, <2>4 DEF LinkLast
    <3>2. HolderOf(b) = t /\ b \notin isrOwned /\ \A u \in Task : b \in owned[u] => u = t
      BY <3>1, HolderFacts DEF PoolIInv, OneHolder
    <3>3. b \notin isrOwned' /\ \A u \in Task : b \notin owned'[u]
      BY <2>1, <3>2 DEF PoolIInv, PoolTypeOK
    <3>4. HolderOf(b)' = "nobody"
      BY <3>3 DEF HolderOf
    <3>5. holder' = [holder EXCEPT ![b] = "nobody"]
      BY <2>2, <3>4
    <3>6. Ownership!Release(b)
      BY <3>2, <3>5, HolderAssumption DEF Ownership!Release
    <3>. QED BY <3>6 DEF Ownership!Next, Goal
  <2>. QED BY <2>3, <2>4
<1>4. ASSUME NEW t \in Task, NEW b \in Buffer, PassToTask(t, b)
      PROVE  Goal
  <2>1. /\ b \in isrOwned
        /\ isrOwned' = isrOwned \ {b}
        /\ owned' = [owned EXCEPT ![t] = @ \cup {b}]
    BY <1>4 DEF PassToTask
  <2>2. \A c \in Buffer : c # b => HolderOf(c)' = HolderOf(c)
    BY <2>1, HolderKept DEF PoolIInv, PoolTypeOK
  <2>3. HolderOf(b) = "handler"
    BY <2>1, HolderFacts
  <2>4. b \in owned'[t] /\ b \notin isrOwned'
    BY <2>1 DEF PoolIInv, PoolTypeOK
  <2>5. \A u \in Task : b \in owned'[u] => u = t
    BY <2>4 DEF PoolIInv, OneHolder
  <2>6. HolderOf(b)' = t
    BY <2>4, <2>5 DEF HolderOf
  <2>7. holder' = [holder EXCEPT ![b] = t]
    BY <2>2, <2>6
  <2>8. Ownership!PassOn(t, b)
    BY <2>3, <2>7 DEF Ownership!PassOn
  <2>. QED BY <2>8 DEF Ownership!Next, Goal
<1>5. ASSUME GetFromISR
      PROVE  Goal
  <2>1. PICK h \in Buffer : h = Head(xFreeBuffersList) /\ h \in FreeSet
    BY <1>5, TailFacts DEF GetFromISR, PoolIInv, PoolTypeOK, ListIsInjective, FreeSet
  <2>2. owned' = owned /\ isrOwned' = isrOwned \cup {h}
    BY <1>5, <2>1 DEF GetFromISR
  <2>3. HolderOf(h) = "nobody"
    BY <2>1, HolderFacts DEF PoolIInv, OneHolder
  <2>4. \A b \in Buffer : b # h => HolderOf(b)' = HolderOf(b)
    BY <2>2, HolderKept
  <2>5. HolderOf(h)' = "handler"
    BY <2>2 DEF HolderOf
  <2>6. holder' = [holder EXCEPT ![h] = "handler"]
    BY <2>1, <2>4, <2>5
  <2>7. Ownership!Acquire("handler", h)
    BY <2>1, <2>3, <2>6 DEF Ownership!Acquire
  <2>. QED BY <2>1, <2>7 DEF Ownership!Next, Ownership!Holder, Goal
<1>6. ASSUME NEW b \in Buffer, ReleaseFromISR(b)
      PROVE  Goal
  <2>1. b \in isrOwned /\ isrOwned' = isrOwned \ {b} /\ owned' = owned
    BY <1>6 DEF ReleaseFromISR
  <2>2. \A c \in Buffer : c # b => HolderOf(c)' = HolderOf(c)
    BY <2>1, HolderKept
  <2>3. HolderOf(b) = "handler" /\ \A u \in Task : b \notin owned[u]
    BY <2>1, HolderFacts DEF PoolIInv, OneHolder
  <2>4. HolderOf(b)' = "nobody"
    BY <2>1, <2>3 DEF HolderOf
  <2>5. holder' = [holder EXCEPT ![b] = "nobody"]
    BY <2>2, <2>4
  <2>6. Ownership!Release(b)
    BY <2>3, <2>5 DEF Ownership!Release
  <2>. QED BY <2>6 DEF Ownership!Next, Goal
<1>7. Goal
  BY <1>1, <1>2, <1>3, <1>4, <1>5, <1>6
  DEF PoolNext, IsrStep, TaskStep, SemaphoreTake, ReadCount, LatchMinimum, SemaphoreGive, poolVars
<1>. QED BY <1>7 DEF Goal

\* The two-step allocation with its counting semaphore implements exclusive
\* ownership of the descriptors (BufferAllocation_1.c:244-432).
THEOREM PoolImplementsOwnership == PoolSpec => ImplementsOwnership
<1>1. PoolInit => Ownership!Init
  <2>. SUFFICES ASSUME PoolInit, NEW b \in Buffer PROVE HolderOf(b) = "nobody"
    BY DEF Ownership!Init
  <2>. QED BY DEF PoolInit, HolderOf
<1>2. PoolIInv /\ PoolIInv' /\ [PoolNext]_poolVars => [Ownership!Next]_([b \in Buffer |-> HolderOf(b)])
  BY StepSimulation
<1>. QED BY <1>1, <1>2, PoolInvariant, PTL DEF PoolSpec, Ownership!Spec, ImplementsOwnership

=============================================================================
